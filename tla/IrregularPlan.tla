--------------------------- MODULE IrregularPlan ---------------------------
(***************************************************************************)
(* The vocabulary of class Irregular (src/src/irregular.cpp): a program of *)
(* method calls that every MPI process makes in the same order, and the    *)
(* lists of datums that the callers pass to them.                          *)
(*                                                                         *)
(* A list is a record: to is the sequence "proclist", the process each     *)
(* datum goes to, and bytes gives the bytes those datums add up to for     *)
(* each process.  Datums travel in blocks: the datums, named by their      *)
(* positions in the send buffer, that one process sends another in one     *)
(* call.  Inside a block they keep the order of the list.                  *)
(***************************************************************************)
EXTENDS Integers, Sequences, FiniteSets

CONSTANTS NProcs,   \* the number of MPI processes of "world"
          Program,  \* the calls every process makes, a sequence of methods
          Loads,    \* what callers may pass: functions [call -> [proc -> list]]
          Sort      \* the calls of create methods with the argument "sort"

Proc == 0 .. NProcs - 1
Calls == DOMAIN Program

Creates == {"create_procs", "create_data_uniform",
            "create_data_uniform_grouped", "create_data_variable"}
Exchanges == {"exchange_uniform", "exchange_variable"}
Methods == Creates \union Exchanges \union {"augment_data_uniform"}
\* Methods that take a list of datums: create_procs makes a plan without any.
Listing == (Creates \ {"create_procs"}) \union {"augment_data_uniform"}

\* Call d is the last one up to c of one of these methods.
LastOf(d, c, methods) == /\ d \in 1 .. c /\ Program[d] \in methods
                         /\ \A e \in d + 1 .. c : Program[e] \notin methods

Lists == [to : Seq(Proc), bytes : [Proc -> Nat]]

ASSUME NProcsAssumption == NProcs \in Nat \ {0}
ASSUME ProgramAssumption == Program \in Seq(Methods)
ASSUME SortAssumption == Sort \subseteq {c \in Calls : Program[c] \in Creates}
\* Callers augment and exchange with a plan at hand, exchange datums that have
\* been listed since it was made, and variable ones only if it counts bytes.
ASSUME ProgramOrderAssumption ==
    \A c \in Calls : Program[c] \notin Creates =>
        \E d \in 1 .. c :
            /\ LastOf(d, c, Creates)
            /\ Program[c] \in Exchanges => \E e \in d .. c : LastOf(e, c, Listing)
            /\ Program[c] = "exchange_variable" => Program[d] = "create_data_variable"
ASSUME LoadsAssumption ==
    \A l \in Loads : l \in [Calls -> [Proc -> Lists]]

Dests(list) == {list.to[i] : i \in DOMAIN list.to}
Indices(list, q) == {i \in DOMAIN list.to : list.to[i] = q}

Block(p, c, indices) == [from |-> p, call |-> c, datums |-> indices]

=============================================================================
