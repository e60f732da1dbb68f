--------------------------- MODULE DatumExchange ---------------------------
(***************************************************************************)
(* What class Irregular promises its callers: no messages, no plan.  Every *)
(* process makes the calls of the program one by one.  A create method and *)
(* augment_data_uniform are a rendezvous of all processes.  An exchange    *)
(* hands a process its own datums first, then those of each process that   *)
(* may send to it, source by source; it can finish as soon as those        *)
(* sources have come to the same call.                                     *)
(***************************************************************************)
EXTENDS IrregularPlan, SequencesExt

VARIABLES proclist,  \* what the callers pass
          call,      \* the call each process is in
          recvbuf    \* the receive buffer of the last finished exchange

vars == <<proclist, call, recvbuf>>

\* The call that set the neighbours of call c, and the call whose list of
\* datums it moves.
PlanCall(c) == CHOOSE d \in 1 .. c : LastOf(d, c, Creates)
ListCall(c) == CHOOSE d \in 1 .. c : LastOf(d, c, Listing)

Sources(p, c) == LET plan == proclist[PlanCall(c)]
                 IN {q \in Proc \ {p} : p \in Dests(plan[q])}

Orders(p, c) == {o \in SetToSeqs(Sources(p, c)) :
                   PlanCall(c) \in Sort => \A i, j \in DOMAIN o : i < j => o[i] < o[j]}

Buffer(p, c, order) ==
    LET list == proclist[ListCall(c)]
    IN [i \in DOMAIN order |-> Block(order[i], c, Indices(list[order[i]], p))]

Init == /\ proclist \in Loads
        /\ call = [p \in Proc |-> 1]
        /\ recvbuf = [p \in Proc |-> <<>>]

Return(p) == call' = [call EXCEPT ![p] = @ + 1]

\* Agreeing on a plan returns only after every process has come to the call.
Agree(p) == /\ call[p] \in Calls /\ Program[call[p]] \notin Exchanges
            /\ \A q \in Proc : call[q] >= call[p]
            /\ Return(p)
            /\ UNCHANGED <<proclist, recvbuf>>

Exchange(p) == /\ call[p] \in Calls /\ Program[call[p]] \in Exchanges
               /\ \A q \in Sources(p, call[p]) : call[q] >= call[p]
               /\ Return(p)
               /\ \E order \in Orders(p, call[p]) :
                     recvbuf' = [recvbuf EXCEPT ![p] = Buffer(p, call[p], <<p>> \o order)]
               /\ UNCHANGED proclist

Next == \E p \in Proc : Agree(p) \/ Exchange(p)

Spec == Init /\ [][Next]_vars /\ \A p \in Proc : WF_vars(Agree(p) \/ Exchange(p))

=============================================================================
