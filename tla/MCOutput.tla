------------------------------ MODULE MCOutput ------------------------------
(* Instances of Output for TLC.                                            *)
EXTENDS Output

Far == 99    \* a variable has a value after every step

Run(n, every, pre, uses) == [cmd |-> "run", n |-> n, every |-> every, pre |-> pre, uses |-> uses]
ResetTo(t) == [cmd |-> "reset", to |-> t]
Item(kind, every, on, first, uses, when) ==
  [kind |-> kind, every |-> every, on |-> on, first |-> first, uses |-> uses, when |-> when]

Dump(e, uses) == Item("dump", e, {}, FALSE, uses, {})
VarDump(first) == Item("dump", 0, {3, 5, 8, 10, 14, Far}, first, {"c1"}, {"c2"})
Restart(e) == Item("restart", e, {}, FALSE, {}, {})
VarRestart == Item("restart", 0, {4, 5, 9, 13, Far}, FALSE, {}, {})
Stats(e) == Item("stats", e, {}, FALSE, {"c2"}, {})
VarStats == Item("stats", 0, {t \in 1 .. 30 : t % 3 # 1}, FALSE, {"c2"}, {"c1"})

Ave(every, repeat, freq) ==
  [kind |-> "ave", every |-> every, repeat |-> repeat, freq |-> freq, uses |-> {"c1"}]
PrintFix(every) == [kind |-> "print", every |-> every, uses |-> {"c2"}]

NoOutputs == [n \in {} |-> Dump(1, {})]
Dumps == {NoOutputs, [d1 |-> Dump(2, {"c1"})], [d1 |-> VarDump(TRUE), d2 |-> Dump(3, {"c2"})],
          [d1 |-> VarDump(FALSE)], [d1 |-> Dump(4, {"c1"}), d2 |-> Dump(6, {"c2"})]}
Restarts == {NoOutputs, [single |-> Restart(3)], [single |-> Restart(2), double |-> Restart(3)],
             [single |-> Restart(3), double |-> VarRestart]}
StatsOf(s) == [stats |-> s]
Join(f, g) == [n \in DOMAIN f \union DOMAIN g |-> IF n \in DOMAIN f THEN f[n] ELSE g[n]]
Outs(S) == {Join(Join(d, r), StatsOf(s)) : d \in Dumps, r \in Restarts, s \in S}
Fixes == {<<>>, <<Ave(1, 2, 4)>>, <<Ave(2, 3, 6)>>, <<Ave(1, 1, 3), Ave(3, 2, 6)>>}
Script(C, S, X) == [commands : C, out : Outs(S), fixes : X]

\* One run after another, on steps 0 to 16.
Sequences == {<<Run(6, 0, TRUE, {}), Run(5, 0, FALSE, {}), Run(5, 0, TRUE, {})>>,
               <<Run(10, 4, FALSE, {"c2"}), Run(4, 3, TRUE, {"c2"})>>}
\* A run of no or one step: not with a variable for the statistics, whose
\* first value is to lie in the run.
Short == {<<Run(0, 0, TRUE, {}), Run(1, 0, FALSE, {}), Run(6, 0, FALSE, {})>>}
\* The last dump and the last restart are not on a step that comes again.
Forward == {<<Run(6, 0, TRUE, {}), ResetTo(12), Run(4, 0, TRUE, {})>>}
MCScripts ==
  Script(Sequences, {Stats(0), Stats(3), VarStats}, Fixes)
  \union Script(Short, {Stats(0), Stats(2)}, Fixes)
  \union Script(Sequences \union Short, {Stats(3)}, {<<PrintFix(3)>>})
  \union Script(Forward, {Stats(0), Stats(3), VarStats}, {<<>>})
=============================================================================
