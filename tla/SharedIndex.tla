------------------------------ MODULE SharedIndex ------------------------------
(***************************************************************************)
(* What the universe and uloop variables promise the partitions of a run   *)
(* (doc/variable.txt): each starts with the value of its own number, and   *)
(* takes the next one that nobody has had until they are consumed.         *)
(***************************************************************************)
EXTENDS Integers

CONSTANTS NWorlds,    \* partitions
          NValues     \* values of the variable

VARIABLES available,  \* the next value
          mine        \* of each partition

Worlds == 0 .. NWorlds - 1
vars == <<available, mine>>

Init == available = NWorlds /\ mine = [w \in Worlds |-> w]

Take(w) ==
  /\ mine[w] < NValues
  /\ mine' = [mine EXCEPT ![w] = available]
  /\ available' = available + 1

Next == \E w \in Worlds : Take(w)

\* Every partition comes to the end of the values.
Spec == Init /\ [][Next]_vars /\ \A w \in Worlds : WF_vars(Take(w))
=============================================================================
