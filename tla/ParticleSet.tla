---------------------------- MODULE ParticleSet ----------------------------
(***************************************************************************)
(* What the particle list of a process promises its users, whatever the    *)
(* order of its array is: a set of particles from which exactly the doomed *)
(* ones are removed, and in which every particle of a weighting is decided *)
(* upon once.                                                              *)
(***************************************************************************)
EXTENDS FiniteSets

CONSTANT Ids         \* what particles are told apart by

VARIABLES held,      \* the particles of the process
          doomed,    \* those that are being removed
          pending    \* those that a weighting has still to decide upon

vars == <<held, doomed, pending>>

Init == held \in SUBSET Ids /\ doomed = {} /\ pending = {}

\* Particles come in, and some of all are doomed or all are to be weighted.
Admit == /\ doomed = {} /\ pending = {}
         /\ \E new \in SUBSET (Ids \ held) : held' = held \union new
         /\ doomed' \in SUBSET held'
         /\ pending' \in {{}, held'}
         /\ doomed' = {} \/ pending' = {}

Remove == \E a \in doomed : /\ held' = held \ {a}
                            /\ doomed' = doomed \ {a}
                            /\ UNCHANGED pending

\* A particle is kept, deleted, or kept with clones of itself.
Decide == \E a \in pending :
              /\ pending' = pending \ {a}
              /\ \/ held' = held \ {a}
                 \/ \E new \in SUBSET (Ids \ held) : held' = held \union new
              /\ UNCHANGED doomed

Next == Admit \/ Remove \/ Decide

Spec == Init /\ [][Next]_vars

=============================================================================
