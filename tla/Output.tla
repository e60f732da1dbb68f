-------------------------------- MODULE Output --------------------------------
(***************************************************************************)
(* The schedule of output: which timesteps dumps, restarts and statistics  *)
(* are due on (Output::setup, write, reset_timestep), and the protocol by  *)
(* which a compute that tallies surface or boundary collisions is told, in *)
(* advance, that somebody will ask for its value (Modify::addstep_compute, *)
(* Compute::matchstep, Update::bounce_set).  A tally is made while the     *)
(* particles move, so it must be asked for before the step begins; nothing *)
(* in the code notices if it was not.                                      *)
(*                                                                         *)
(* An input script is a sequence of run and reset_timestep commands.  The  *)
(* processes all do the same here, so there is one thread of control.      *)
(* The variables that say when output is due are sets of steps.  Every     *)
(* dump style sets clearstep, so its use of computes is always bracketed.  *)
(***************************************************************************)
EXTENDS Sequences, FiniteSetsExt, Functions

CONSTANTS Scripts,   \* records [commands, out, fixes]: see below
          Computes   \* the computes with timeflag

(***************************************************************************)
(* commands: [cmd |-> "run", n, every, pre, uses] or [cmd |-> "reset", to] *)
(* out: [name |-> [kind, every, on, first, uses, when]], one of them       *)
(*   "stats"; uses are the computes in what is written; if every = 0, on   *)
(*   has the values of a variable, which itself uses the computes when     *)
(* fixes: sequence of [kind, every, freq, repeat, uses], of kind "ave"     *)
(*   (fix ave/time) or "print"                                             *)
(***************************************************************************)
Positive == Nat \ {0}
Commands == [cmd : {"run"}, n : Nat, every : Nat, pre : BOOLEAN, uses : SUBSET Computes]
            \union [cmd : {"reset"}, to : Nat]
Items == [kind : {"dump", "restart", "stats"}, every : Nat, on : SUBSET Positive, first : BOOLEAN,
          uses : SUBSET Computes, when : SUBSET Computes]
Averages == [kind : {"ave"}, every : Positive, repeat : Positive, freq : Positive,
             uses : SUBSET Computes]
Prints == [kind : {"print"}, every : Positive, uses : SUBSET Computes]
\* Averages that are not as the last lines say are refused.
ASSUME ScriptsAssumption ==
  \A s \in Scripts :
    /\ s.commands \in Seq(Commands)
    /\ IsFiniteSet(DOMAIN s.out) /\ "stats" \in DOMAIN s.out
    /\ \A n \in DOMAIN s.out :
         /\ s.out[n] \in Items
         /\ s.out[n].kind = "stats" <=> n = "stats"
         /\ s.out[n].kind = "restart" => s.out[n].uses = {}
         /\ s.out[n].every = 0 \/ s.out[n].on = {}
         /\ n = "stats" \/ s.out[n].every > 0 \/ s.out[n].on # {}
    /\ s.fixes \in Seq(Averages \union Prints)
    /\ \A i \in DOMAIN s.fixes : s.fixes[i].kind = "ave" =>
         /\ s.fixes[i].freq % s.fixes[i].every = 0
         /\ (s.fixes[i].repeat - 1) * s.fixes[i].every < s.fixes[i].freq

VARIABLES script,    \* the script of this behaviour
          cmd, pc,   \* the command, and where in it
          left,      \* steps of a run command still to do
          step, firststep, laststep,
          nxt,       \* next_dump, next_restart_single, ..., next_stats
          last,      \* last_dump of each dump, last_restart, last_stats
          told,      \* tlist of each compute
          tallied,   \* the step whose collisions its tallies are of
          valid, win,\* nvalid of each fix, and the steps its sum is made of
          used,      \* computes asked for since the step began (history)
          out        \* outputs since the step began (history)

vars == <<script, cmd, pc, left, step, firststep, laststep, nxt, last, told,
          tallied, valid, win, used, out>>

O == script.out
Outputs == DOMAIN O
Kind(k) == {n \in Outputs : O[n].kind = k}
F == script.fixes
Command == script.commands[cmd]
Multiple(t, e) == (t \div e) * e
ByVariable(n) == O[n].every = 0 /\ O[n].on # {}

\* compute_equal of the variable of an output, evaluated on step t.
Variable(n, t) == Min({s \in O[n].on : s > t})
\* "returned a bad timestep" stops the run.
HasLater(n, t) == ByVariable(n) => \E s \in O[n].on : s > t
After(n, t) == IF ByVariable(n) THEN Variable(n, t) ELSE Multiple(t, O[n].every) + O[n].every

\* The computes an output invokes on a step: those in what it writes, and
\* those in its variable.
Invoked(n, written) == (IF written THEN O[n].uses ELSE {})
                       \union (IF ByVariable(n) THEN O[n].when ELSE {})

\* clearstep_compute, some invocations, addstep_compute: the computes are told
\* the step of the next one.  req is a set of <<compute, step>>.
Tell(req) == told' = [c \in Computes |-> told[c] \union {r[2] : r \in {q \in req : q[1] = c}}]

\* nextvalid, as a fix is made on step 0; a fix ave tells all computes.
NextValid(f) ==
  IF f.kind = "print" \/ f.repeat = 1 THEN 0 ELSE f.freq - (f.repeat - 1) * f.every

Init ==
  /\ script \in Scripts
  /\ cmd = 1 /\ pc = "command" /\ left = 0
  /\ step = 0 /\ firststep = 0 /\ laststep = 0
  /\ nxt = [n \in Outputs |-> 0]
  /\ last = [n \in Outputs |-> -1]
  /\ valid = [i \in DOMAIN F |-> NextValid(F[i])]
  /\ told = [c \in Computes |-> {valid[i] : i \in {j \in DOMAIN F : F[j].kind = "ave"}}]
  /\ tallied = [c \in Computes |-> -1]
  /\ win = [i \in DOMAIN F |-> <<>>]
  /\ used = {} /\ out = [n \in Outputs |-> 0]

-----------------------------------------------------------------------------
(* Fixes (fix ave/time and fix print).                                     *)

\* The window starts a sample early.
NextUseEarly(i) ==
  IF F[i].kind = "print" THEN step + F[i].every
  ELSE IF (Len(win[i]) + 1) % F[i].repeat # 0 THEN valid[i] + F[i].every
  ELSE step + F[i].freq - F[i].repeat * F[i].every

\* A fix ave acts only on step nvalid, in setup as in end_of_step.
Acting(i) == F[i].kind = "ave" => valid[i] = step
NextUse(i) ==
  IF F[i].kind = "print" THEN step + F[i].every
  ELSE IF (Len(win[i]) + 1) % F[i].repeat # 0 THEN valid[i] + F[i].every
  ELSE step + F[i].freq - (F[i].repeat - 1) * F[i].every
Sample(i) == IF Len(win[i]) = F[i].repeat THEN <<step>> ELSE Append(win[i], step)

InvokeFixes(act) ==
  /\ valid' = [i \in DOMAIN F |-> IF i \in act THEN NextUse(i) ELSE valid[i]]
  /\ win' = [i \in DOMAIN F |-> IF i \in act /\ F[i].kind = "ave" THEN Sample(i) ELSE win[i]]

FixRequests(act) == UNION {F[i].uses \X {NextUse(i)} : i \in act}
FixUses(act) == UNION {F[i].uses : i \in act}

-----------------------------------------------------------------------------
(* The run command.                                                        *)

\* run n every m is a sequence of runs; the first of them, and the first run
\* of the script, are always set up in full.
Chunk == LET n == IF pc = "again" THEN left ELSE Command.n
         IN  IF Command.every = 0 THEN n ELSE Min({n, Command.every})
FirstUpdate == \A i \in 1 .. cmd - 1 : script.commands[i].cmd # "run"
Full == Command.pre \/ (pc = "command" /\ (Command.every > 0 \/ FirstUpdate))

\* Modify::init tells all computes the current step, and their init clears
\* the tallies; then the setup of the fixes.
StartRun ==
  /\ pc \in {"command", "again"} /\ cmd <= Len(script.commands) /\ Command.cmd = "run"
  /\ firststep' = step /\ laststep' = step + Chunk
  /\ left' = (IF pc = "again" THEN left ELSE Command.n) - Chunk
  /\ LET act == IF Full THEN {i \in DOMAIN F : F[i].kind = "ave" /\ Acting(i)} ELSE {}
     IN  /\ InvokeFixes(act)
         /\ Tell(FixRequests(act) \union (IF Full THEN Computes \X {step} ELSE {}))
         /\ used' = used \union FixUses(act)
  /\ tallied' = IF Full THEN [c \in Computes |-> step] ELSE tallied
  /\ pc' = "setup"
  /\ UNCHANGED <<script, cmd, step, nxt, last, out>>

\* Output::setup.  Dumps may be written, restarts are not, statistics are.
WriteAtSetup(n) ==
  CASE O[n].kind = "dump" -> \/ O[n].every > 0 /\ step % O[n].every = 0 /\ last[n] # step
                             \/ last[n] < 0 /\ O[n].first
    [] O[n].kind = "restart" -> FALSE
    [] OTHER -> TRUE
FirstStats ==
  CASE ByVariable("stats") -> Variable("stats", step)
    [] O["stats"].every > 0 -> Min({After("stats", step), laststep})
    [] OTHER -> laststep
\* A run that begins on a multiple is to write there, as if it had not begun.
FirstMultiple(n) ==
  IF n = "stats" THEN FirstStats
  ELSE IF ByVariable(n) THEN Variable(n, step)
  ELSE Multiple(step + O[n].every - 1, O[n].every)

FirstOf(n) == IF n = "stats" THEN FirstStats ELSE After(n, step)

\* Only what is invoked now is told.
TellInvoked == UNION {Invoked(n, WriteAtSetup(n)) \X {FirstOf(n)} : n \in Outputs \ Kind("restart")}

\* A dump that is not written cannot say what it uses: all computes are told.
SetupRequests ==
  UNION {(IF O[n].kind = "dump" /\ ~WriteAtSetup(n) THEN Computes
          ELSE Invoked(n, TRUE)) \X {FirstOf(n)} : n \in Outputs \ Kind("restart")}

Setup ==
  /\ pc = "setup" /\ \A n \in Outputs : HasLater(n, step)
  /\ nxt' = [n \in Outputs |-> FirstOf(n)]
  /\ last' = [n \in Outputs |-> IF WriteAtSetup(n) THEN step ELSE last[n]]
  /\ out' = [n \in Outputs |-> out[n] + (IF WriteAtSetup(n) THEN 1 ELSE 0)]
  /\ used' = used \union UNION {Invoked(n, WriteAtSetup(n)) : n \in Outputs}
  /\ Tell(SetupRequests)
  /\ pc' = "loop"
  /\ UNCHANGED <<script, cmd, left, step, firststep, laststep, tallied, valid, win>>

-----------------------------------------------------------------------------
(* A timestep.                                                             *)

\* Update::bounce_set: the computes told of this step tally while particles
\* move; matchstep drops the steps that have passed.
Move ==
  /\ pc = "loop" /\ step < laststep
  /\ step' = step + 1
  /\ tallied' = [c \in Computes |-> IF step' \in told[c] THEN step' ELSE tallied[c]]
  /\ told' = [c \in Computes |-> {s \in told[c] : s >= step'}]
  /\ used' = {} /\ out' = [n \in Outputs |-> 0]
  /\ pc' = "fixes"
  /\ UNCHANGED <<script, cmd, left, firststep, laststep, nxt, last, valid, win>>

EndOfStep ==
  /\ pc = "fixes"
  /\ LET act == {i \in DOMAIN F : step % F[i].every = 0 /\ Acting(i)}
     IN  /\ InvokeFixes(act)
         /\ Tell(FixRequests(act))
         /\ used' = used \union FixUses(act)
  /\ pc' = "output"
  /\ UNCHANGED <<script, cmd, left, step, firststep, laststep, nxt, last, tallied, out>>

next == Min({nxt[n] : n \in Outputs})
NextStats ==
  Min({laststep, CASE ByVariable("stats") -> Variable("stats", step)
                   [] O["stats"].every > 0 -> nxt["stats"] + O["stats"].every
                   [] OTHER -> laststep})
\* Statistics go on past the end of the run.
NotCapped(n) == IF ByVariable(n) THEN Variable(n, step) ELSE nxt[n] + O[n].every
NextOf(n) == IF n = "stats" THEN NextStats
             ELSE IF ByVariable(n) THEN Variable(n, step) ELSE nxt[n] + O[n].every

\* last_restart is set as soon as one restart is written.
SetAtOnce(n, due) == last[n] # step /\ ~(n = "double" /\ "single" \in due)
NotYet(n, due) == last[n] # step

\* Output::write, in a step that is next.  The two kinds of restart share
\* last_restart, which is set after both.
Write ==
  /\ pc = "output" /\ step = next
  /\ LET due     == {n \in Outputs : nxt[n] = step}
         written == {n \in due : NotYet(n, due)}
         stamped == due \union (IF due \cap Kind("restart") = {} THEN {} ELSE Kind("restart"))
     IN  /\ \A n \in due : HasLater(n, step)
         /\ out' = [n \in Outputs |-> out[n] + (IF n \in written THEN 1 ELSE 0)]
         /\ last' = [n \in Outputs |-> IF n \in stamped THEN step ELSE last[n]]
         /\ nxt' = [n \in Outputs |-> IF n \in due THEN NextOf(n) ELSE nxt[n]]
         /\ used' = used \union UNION {Invoked(n, n \in written) : n \in due}
         /\ Tell(UNION {Invoked(n, n \in written) \X {NextOf(n)} : n \in due})
  /\ pc' = "loop"
  /\ UNCHANGED <<script, cmd, left, step, firststep, laststep, tallied, valid, win>>

NoOutput ==
  /\ pc = "output" /\ step # next
  /\ pc' = "loop"
  /\ UNCHANGED <<script, cmd, left, step, firststep, laststep, nxt, last, told,
                 tallied, valid, win, used, out>>

\* The commands of run every are wrapped with clearstep and addstep.
EndRun ==
  /\ pc = "loop" /\ step = laststep
  /\ used' = used \union Command.uses
  /\ Tell(Command.uses \X {step + Command.every})
  /\ IF left > 0 THEN pc' = "again" /\ UNCHANGED <<cmd, firststep, laststep>>
     ELSE pc' = "command" /\ cmd' = cmd + 1 /\ firststep' = 0 /\ laststep' = 0
  /\ UNCHANGED <<script, left, step, nxt, last, tallied, valid, win, out>>

-----------------------------------------------------------------------------
(* Update::reset_timestep, between runs: the next steps are worked out     *)
(* again, with variables evaluated for the step before, and all computes   *)
(* forget what they were told.  last is kept.  Not with a fix that depends *)
(* on the time (time_depend).                                              *)

Reset ==
  /\ pc = "command" /\ cmd <= Len(script.commands) /\ Command.cmd = "reset"
  /\ \A i \in DOMAIN F : F[i].kind # "ave"
  /\ step' = Command.to /\ \A n \in Outputs : HasLater(n, step' - 1)
  /\ LET from(n) == IF ByVariable(n) THEN Variable(n, step' - 1)
                    ELSE IF O[n].every > 0 THEN Multiple(step' + O[n].every - 1, O[n].every)
                    ELSE laststep
     IN  nxt' = [n \in Outputs |-> IF n = "stats" THEN Min({from(n), laststep}) ELSE from(n)]
  /\ told' = [c \in Computes |-> {}]
  /\ used' = {} /\ out' = [n \in Outputs |-> 0]
  /\ cmd' = cmd + 1
  /\ UNCHANGED <<script, pc, left, firststep, laststep, last, tallied, valid, win>>

Next == StartRun \/ Setup \/ Move \/ EndOfStep \/ Write \/ NoOutput \/ EndRun \/ Reset

Spec == Init /\ [][Next]_vars

-----------------------------------------------------------------------------
(* Whoever asks a compute for its tallies gets those of this step: it was  *)
(* told before the step began, by every one of the dumps, the statistics,  *)
(* the fixes, the variables and the commands between runs that ask.        *)
TalliedWhenUsed == \A c \in used : tallied[c] = step

\* After the outputs of a step, in or at the end of a run.
Done == pc = "loop"

(* dump.txt, dump_modify.txt: a dump is written once on each step that is  *)
(* a multiple of N or a value of its variable, and no other but the first. *)
DumpsOnTime ==
  Done => \A n \in Kind("dump") :
    LET due == \/ IF ByVariable(n) THEN step \in O[n].on ELSE step % O[n].every = 0
               \/ O[n].first /\ step = 0
    IN  out[n] = IF due THEN 1 ELSE 0

(* restart.txt:77-82: restarts are written on the multiples of N, but not  *)
(* on the first step of a run; each once, also if both kinds are on.       *)
RestartsOnTime ==
  Done /\ step > firststep => \A n \in Kind("restart") :
    out[n] = IF (IF ByVariable(n) THEN step \in O[n].on ELSE step % O[n].every = 0) THEN 1 ELSE 0

(* stats_modify.txt:80-82: they come on the first and the last step of each run   *)
(* and, once, on the multiples of N or values of the variable between.     *)
StatsOnTime ==
  Done => IF step = firststep THEN out["stats"] >= 1
          ELSE out["stats"] = IF \/ step = laststep \/ step \in O["stats"].on
                                 \/ O["stats"].every > 0 /\ step % O["stats"].every = 0
                              THEN 1 ELSE 0

(* A fix ave has, on each multiple of Nfreq, exactly the Nrepeat samples,  *)
(* Nevery steps apart, that end there, through the ends of runs.           *)
WindowsAreFull ==
  Done => \A i \in DOMAIN F :
    F[i].kind = "ave" /\ step % F[i].freq = 0 /\ (step > 0 \/ F[i].repeat = 1) =>
      win[i] = [j \in 1 .. F[i].repeat |-> step - (F[i].repeat - j) * F[i].every]
=============================================================================
