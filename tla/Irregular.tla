----------------------------- MODULE Irregular -----------------------------
(***************************************************************************)
(* Irregular communication (src/src/irregular.cpp): the message protocol   *)
(* by which every process of MSPD learns who sends to it and then moves    *)
(* datums (particles, grid cells, ghost cells, tallies) point to point.    *)
(*                                                                         *)
(* Each process runs the same Program of method calls at its own pace.     *)
(* MPI is modelled as its standard says: messages of one source, one       *)
(* destination and one tag do not overtake each other, a wildcard receive  *)
(* takes the next message of any source, a send of data may return at once *)
(* or wait for its match, a collective ends after everyone came to it.     *)
(***************************************************************************)
EXTENDS IrregularPlan

VARIABLES
    proclist,  \* [call -> [proc -> list]]: what the callers pass, fixed
    call,      \* the method call each process is in
    pc,        \* and where in it
    send,      \* sending half of the plan: whom, which datums, how many bytes
    nrecv,     \* how many processes I receive from
    procRecv,  \* proc_recv: who they are, in the order of the plan
    numRecv,   \* num_recv, by source (proc2recv): datums each sends me
    sizeRecv,  \* size_recv, by source: bytes each sends me
    unsent,    \* destinations the current loop of sends has still to serve
    heard,     \* sources the current loop of wildcard receives has heard
    posted,    \* sources of the Irecvs that are still open
    chan,      \* chan[p][q][tag]: messages from p to q, oldest first
    arrived,   \* arrived[p][q]: the block stored by the Irecv of source q
    recvbuf    \* the blocks of the last finished exchange, in buffer order

vars == <<proclist, call, pc, send, nrecv, procRecv, numRecv, sizeRecv,
          unsent, heard, posted, chan, arrived, recvbuf>>
plan == <<send, nrecv, procRecv, numRecv, sizeRecv>>

Phases == {"start", "reduce", "tell", "hear", "barrier", "tellsize",
           "hearsize", "send", "blocked", "wait"}
BeforeReduce == {"start"}
\* Mutant: the barrier does not wait for the wildcard receives.
OpenBarrier == {"start", "reduce"}
BeforeBarrier == {"start", "reduce", "tell", "hear"}

\* A message.  The fields kind and call are read by properties only.
Message(kind, c, n, body) == [kind |-> kind, call |-> c, n |-> n, body |-> body]
NoBlock(p) == Block(p, 0, {})

Running(p) == call[p] \in Calls
Method(p) == Program[call[p]]
MyList(p) == proclist[call[p]][p]

\* An MPI collective ends when no process is still before it.
EveryonePast(c, before) ==
    \A q \in Proc : call[q] > c \/ (call[q] = c /\ pc[q] \notin before)

\* "to balance pattern of send messages: each proc starts with iproc > me,
\* continues until iproc = me": q is the next to be served of the set dests.
IsNextDest(p, q, dests) ==
    q \in dests /\ \A r \in dests : (q - p) % NProcs <= (r - p) % NProcs

Init ==
    /\ proclist \in Loads
    /\ call = [p \in Proc |-> 1]
    /\ pc = [p \in Proc |-> "start"]
    /\ send = [p \in Proc |-> [dests |-> {}, index |-> [q \in Proc |-> {}],
                               bytes |-> [q \in Proc |-> 0]]]
    /\ nrecv = [p \in Proc |-> 0]
    /\ procRecv = [p \in Proc |-> <<>>]
    /\ numRecv = [p \in Proc |-> [q \in Proc |-> 0]]
    /\ sizeRecv = [p \in Proc |-> [q \in Proc |-> 0]]
    /\ unsent = [p \in Proc |-> {}]
    /\ heard = [p \in Proc |-> <<>>]
    /\ posted = [p \in Proc |-> {}]
    /\ chan = [p \in Proc |-> [q \in Proc |-> [tag \in {0, 1} |-> <<>>]]]
    /\ arrived = [p \in Proc |-> [q \in Proc |-> NoBlock(q)]]
    /\ recvbuf = [p \in Proc |-> <<>>]

Goto(p, ph) == pc' = [pc EXCEPT ![p] = ph]
Return(p) == /\ call' = [call EXCEPT ![p] = @ + 1]
             /\ Goto(p, "start")
Push(p, q, tag, m) == chan' = [chan EXCEPT ![p][q][tag] = Append(@, m)]
Pop(q, p, tag) == /\ chan[q][p][tag] # <<>>
                  /\ chan' = [chan EXCEPT ![q][p][tag] = Tail(@)]
Oldest(q, p, tag) == Head(chan[q][p][tag])

-----------------------------------------------------------------------------
(* The create methods and augment_data_uniform: agree who sends what.      *)

\* What the Reduce_scatter sums up for p: one for each other process with a
\* datum for p, but one for each datum in create_data_uniform_grouped.
NRecv(p, c) ==
    IF Program[c] = "create_data_uniform_grouped"
    THEN Cardinality(UNION {{q} \X Indices(proclist[c][q], p) : q \in Proc \ {p}})
    ELSE Cardinality({q \in Proc \ {p} : p \in Dests(proclist[c][q])})

StartCreate(p) ==
    /\ Running(p) /\ pc[p] = "start" /\ Method(p) \in Creates
    /\ Goto(p, "reduce")
    /\ UNCHANGED <<proclist, call, plan, unsent, heard, posted, chan, arrived, recvbuf>>

\* MPI_Reduce_scatter, then the sending side of the plan.
Reduce(p) ==
    /\ pc[p] = "reduce"
    /\ EveryonePast(call[p], BeforeReduce)
    /\ nrecv' = [nrecv EXCEPT ![p] = NRecv(p, call[p])]
    /\ LET dests == Dests(MyList(p)) \ {p}
       IN  /\ unsent' = [unsent EXCEPT ![p] = dests]
           /\ send' = [send EXCEPT ![p] =
                [dests |-> dests,
                 index |-> IF Method(p) = "create_procs" THEN send[p].index
                           ELSE [q \in Proc |-> Indices(MyList(p), q)],
                 bytes |-> IF Method(p) = "create_data_variable" THEN MyList(p).bytes
                           ELSE send[p].bytes]]
    /\ Goto(p, "tell")
    /\ UNCHANGED <<proclist, call, procRecv, numRecv, sizeRecv, heard, posted, chan,
                   arrived, recvbuf>>

\* New datums for the neighbours that create_procs agreed on.
StartAugment(p) ==
    /\ Running(p) /\ pc[p] = "start" /\ Method(p) = "augment_data_uniform"
    /\ send' = [send EXCEPT ![p].index = [q \in Proc |-> Indices(MyList(p), q)]]
    /\ unsent' = [unsent EXCEPT ![p] = send[p].dests]
    /\ Goto(p, "tell")
    /\ UNCHANGED <<proclist, call, nrecv, procRecv, numRecv, sizeRecv, heard, posted,
                   chan, arrived, recvbuf>>

\* One MPI_Send of the loop that tells the receivers how many datums to
\* expect; create_procs sends an empty message.
Tell(p) ==
    /\ pc[p] = "tell"
    /\ \E q \in Proc :
        /\ IsNextDest(p, q, unsent[p])
        /\ Push(p, q, 0, Message("count", call[p],
                IF Method(p) = "create_procs" THEN 0 ELSE Cardinality(send[p].index[q]),
                NoBlock(p)))
        /\ unsent' = [unsent EXCEPT ![p] = @ \ {q}]
    /\ UNCHANGED <<proclist, call, pc, plan, heard, posted, arrived, recvbuf>>

Told(p) ==
    /\ pc[p] = "tell" /\ unsent[p] = {}
    /\ heard' = [heard EXCEPT ![p] = <<>>]
    /\ Goto(p, "hear")
    /\ UNCHANGED <<proclist, call, plan, unsent, posted, chan, arrived, recvbuf>>

\* Mutant: num_recv is filled in order of arrival, not through proc2recv.
HearUnmapped(p) ==
    /\ pc[p] = "hear" /\ Len(heard[p]) < nrecv[p]
    /\ \E q \in Proc :
        /\ Pop(q, p, 0)
        /\ heard' = [heard EXCEPT ![p] = Append(@, q)]
        /\ numRecv' = IF Method(p) # "augment_data_uniform" THEN numRecv
                      ELSE [numRecv EXCEPT ![p][procRecv[p][Len(heard[p]) + 1]] = Oldest(q, p, 0).n]
    /\ UNCHANGED <<proclist, call, pc, send, nrecv, procRecv, sizeRecv, unsent, posted,
                   arrived, recvbuf>>

\* One MPI_Recv from MPI_ANY_SOURCE with tag 0, nrecv times.
Hear(p) ==
    /\ pc[p] = "hear" /\ Len(heard[p]) < nrecv[p]
    /\ \E q \in Proc :
        /\ Pop(q, p, 0)
        /\ heard' = [heard EXCEPT ![p] = Append(@, q)]
        /\ numRecv' = IF Method(p) = "create_procs" THEN numRecv
                      ELSE [numRecv EXCEPT ![p][q] = Oldest(q, p, 0).n]
    /\ UNCHANGED <<proclist, call, pc, send, nrecv, procRecv, sizeRecv, unsent, posted,
                   arrived, recvbuf>>

\* Mutant: the sort is skipped.
Unsorted(s, t) == s = t

IsSortOf(s, t) == /\ \A i \in DOMAIN t : \E j \in DOMAIN s : s[j] = t[i]
                  /\ \A i, j \in DOMAIN s : i < j => s[i] <= s[j]

\* All counts are in.  A create method takes the sources, as heard or sorted
\* by rank, for the order of the plan.  The process comes to MPI_Barrier.
Heard(p) ==
    /\ pc[p] = "hear" /\ Len(heard[p]) = nrecv[p]
    /\ \E s \in [DOMAIN heard[p] -> {heard[p][i] : i \in DOMAIN heard[p]}] :
        /\ IF call[p] \in Sort THEN IsSortOf(s, heard[p]) ELSE s = heard[p]
        /\ procRecv' = IF Method(p) \in Creates THEN [procRecv EXCEPT ![p] = s] ELSE procRecv
    /\ Goto(p, "barrier")
    /\ UNCHANGED <<proclist, call, send, nrecv, numRecv, sizeRecv, unsent, heard,
                   posted, chan, arrived, recvbuf>>

\* MPI_Barrier ends; only create_data_variable goes on, with the byte counts.
Barrier(p) ==
    /\ pc[p] = "barrier"
    /\ EveryonePast(call[p], BeforeBarrier)
    /\ IF Method(p) = "create_data_variable"
       THEN /\ Goto(p, "tellsize")
            /\ unsent' = [unsent EXCEPT ![p] = send[p].dests]
            /\ UNCHANGED call
       ELSE Return(p) /\ UNCHANGED unsent
    /\ UNCHANGED <<proclist, plan, heard, posted, chan, arrived, recvbuf>>

TellSize(p) ==
    /\ pc[p] = "tellsize"
    /\ \E q \in Proc :
        /\ IsNextDest(p, q, unsent[p])
        /\ Push(p, q, 1, Message("size", call[p], send[p].bytes[q], NoBlock(p)))
        /\ unsent' = [unsent EXCEPT ![p] = @ \ {q}]
    /\ UNCHANGED <<proclist, call, pc, plan, heard, posted, arrived, recvbuf>>

ToldSize(p) ==
    /\ pc[p] = "tellsize" /\ unsent[p] = {}
    /\ heard' = [heard EXCEPT ![p] = <<>>]
    /\ Goto(p, "hearsize")
    /\ UNCHANGED <<proclist, call, plan, unsent, posted, chan, arrived, recvbuf>>

HearSize(p) ==
    /\ pc[p] = "hearsize" /\ Len(heard[p]) < nrecv[p]
    /\ \E q \in Proc :
        /\ Pop(q, p, 1)
        /\ heard' = [heard EXCEPT ![p] = Append(@, q)]
        /\ sizeRecv' = [sizeRecv EXCEPT ![p][q] = Oldest(q, p, 1).n]
    /\ UNCHANGED <<proclist, call, pc, send, nrecv, procRecv, numRecv, unsent, posted,
                   arrived, recvbuf>>

\* Mutant: one size too few is received.
HeardSizeEarly(p) ==
    /\ pc[p] = "hearsize" /\ Len(heard[p]) + 1 >= nrecv[p]
    /\ Return(p)
    /\ UNCHANGED <<proclist, plan, unsent, heard, posted, chan, arrived, recvbuf>>

HeardSize(p) ==
    /\ pc[p] = "hearsize" /\ Len(heard[p]) = nrecv[p]
    /\ Return(p)
    /\ UNCHANGED <<proclist, plan, unsent, heard, posted, chan, arrived, recvbuf>>

-----------------------------------------------------------------------------
(* The exchange methods: move the datums along the plan.                   *)

Mine(p, q) == Block(p, call[p], send[p].index[q])

\* All MPI_Irecvs are posted before the first send.
StartExchange(p) ==
    /\ Running(p) /\ pc[p] = "start" /\ Method(p) \in Exchanges
    /\ posted' = [posted EXCEPT ![p] = {procRecv[p][i] : i \in DOMAIN procRecv[p]}]
    /\ unsent' = [unsent EXCEPT ![p] = send[p].dests]
    /\ Goto(p, "send")
    /\ UNCHANGED <<proclist, call, plan, heard, chan, arrived, recvbuf>>

\* Mutant: exchange_variable measures its messages in datums.
SendLengthDatums(p, q) == Cardinality(send[p].index[q])

\* Length of a message and of the segment it is received into: datums for
\* exchange_uniform, bytes for exchange_variable.
SendLength(p, q) == IF Method(p) = "exchange_uniform" THEN Cardinality(send[p].index[q])
                    ELSE send[p].bytes[q]
RecvLength(p, q) == IF Method(p) = "exchange_uniform" THEN numRecv[p][q] ELSE sizeRecv[p][q]

\* One MPI_Send of the packed datums for a process: it returns at once when
\* MPI buffers the message, or blocks until the receive matches it.
Send(p) ==
    /\ pc[p] = "send"
    /\ \E q \in Proc :
        /\ IsNextDest(p, q, unsent[p])
        /\ Push(p, q, 0, Message("data", call[p], SendLength(p, q), Mine(p, q)))
        /\ \/ unsent' = [unsent EXCEPT ![p] = @ \ {q}] /\ UNCHANGED pc
           \/ Goto(p, "blocked") /\ UNCHANGED unsent
    /\ UNCHANGED <<proclist, call, plan, heard, posted, arrived, recvbuf>>

Unblock(p) ==
    /\ pc[p] = "blocked"
    /\ \E q \in Proc :
        /\ IsNextDest(p, q, unsent[p])
        /\ chan[p][q][0] = <<>>
        /\ unsent' = [unsent EXCEPT ![p] = @ \ {q}]
    /\ Goto(p, "send")
    /\ UNCHANGED <<proclist, call, plan, heard, posted, chan, arrived, recvbuf>>

\* MPI matches the oldest message of source q to the open Irecv of p.
Match(q, p) ==
    /\ q \in posted[p]
    /\ Pop(q, p, 0)
    /\ arrived' = [arrived EXCEPT ![p][q] = Oldest(q, p, 0).body]
    /\ posted' = [posted EXCEPT ![p] = @ \ {q}]
    /\ UNCHANGED <<proclist, call, pc, plan, unsent, heard, recvbuf>>

\* The sends are done; the datums to self are copied before the wait.
Sent(p) ==
    /\ pc[p] = "send" /\ unsent[p] = {}
    /\ arrived' = [arrived EXCEPT ![p][p] = Mine(p, p)]
    /\ Goto(p, "wait")
    /\ UNCHANGED <<proclist, call, plan, unsent, heard, posted, chan, recvbuf>>

\* Mutant: the buffer is used before the Irecvs have completed.
WaitNot(p) ==
    /\ pc[p] = "wait"
    /\ recvbuf' = [recvbuf EXCEPT ![p] = <<arrived[p][p]>> \o
                     [i \in DOMAIN procRecv[p] |-> arrived[p][procRecv[p][i]]]]
    /\ Return(p)
    /\ UNCHANGED <<proclist, plan, unsent, heard, posted, chan, arrived>>

\* MPI_Waitall: the buffer holds my own block, then that of each source.
Waitall(p) ==
    /\ pc[p] = "wait" /\ posted[p] = {}
    /\ recvbuf' = [recvbuf EXCEPT ![p] = <<arrived[p][p]>> \o
                     [i \in DOMAIN procRecv[p] |-> arrived[p][procRecv[p][i]]]]
    /\ Return(p)
    /\ UNCHANGED <<proclist, plan, unsent, heard, posted, chan, arrived>>

Done == /\ \A p \in Proc : ~Running(p)
        /\ UNCHANGED vars

Step(p) == \/ StartCreate(p) \/ Reduce(p) \/ StartAugment(p) \/ Tell(p) \/ Told(p)
           \/ Hear(p) \/ Heard(p) \/ Barrier(p)
           \/ TellSize(p) \/ ToldSize(p) \/ HearSize(p) \/ HeardSize(p)
           \/ StartExchange(p) \/ Send(p) \/ Unblock(p) \/ Sent(p) \/ Waitall(p)
           \/ \E q \in Proc : Match(q, p)

Next == (\E p \in Proc : Step(p)) \/ Done

Spec == Init /\ [][Next]_vars
FairSpec == Spec /\ \A p \in Proc : WF_vars(Step(p))

-----------------------------------------------------------------------------
(* Properties.                                                             *)

Numbers == {S \in SUBSET Nat : IsFiniteSet(S)}
BlockType == [from : Proc, call : Nat, datums : Numbers]
MessageType == [kind : {"count", "size", "data"}, call : Calls, n : Nat, body : BlockType]

\* A process is inside a method only while the program lasts.
ControlType ==
    /\ call \in [Proc -> 1 .. Len(Program) + 1]
    /\ pc \in [Proc -> Phases]
    /\ \A p \in Proc : pc[p] # "start" => Running(p)

SendType == send \in [Proc -> [dests : SUBSET Proc, index : [Proc -> Numbers],
                             bytes : [Proc -> Nat]]]
RecvType ==
    /\ nrecv \in [Proc -> Nat]
    /\ procRecv \in [Proc -> Seq(Proc)]
    /\ numRecv \in [Proc -> [Proc -> Nat]]
    /\ sizeRecv \in [Proc -> [Proc -> Nat]]

LoopType ==
    /\ unsent \in [Proc -> SUBSET Proc]
    /\ heard \in [Proc -> Seq(Proc)]
    /\ posted \in [Proc -> SUBSET Proc]

ChanType == chan \in [Proc -> [Proc -> [{0, 1} -> Seq(MessageType)]]]

BufferType ==
    /\ arrived \in [Proc -> [Proc -> BlockType]]
    /\ recvbuf \in [Proc -> Seq(BlockType)]

\* Every variable of the protocol keeps its shape.
TypeOK ==
    /\ proclist \in [Calls -> [Proc -> Lists]]
    /\ ControlType /\ SendType /\ RecvType /\ LoopType /\ ChanType /\ BufferType

Senders(p, c) == {q \in Proc \ {p} : p \in Dests(proclist[c][q])}

\* The receiving half of a plan that a process takes to the barrier agrees
\* with the lists of its senders: its sources are the processes that will send
\* to it, each once, by rank if asked to, and each number of datums is right.
PlanAgrees ==
    \A p \in Proc : pc[p] = "barrier" =>
        /\ {procRecv[p][i] : i \in DOMAIN procRecv[p]} =
              IF Method(p) \in Creates THEN Senders(p, call[p])
              ELSE {q \in Proc : p \in send[q].dests}
        /\ \A i, j \in DOMAIN procRecv[p] : i < j =>
             IF call[p] \in Sort THEN procRecv[p][i] < procRecv[p][j]
                              ELSE procRecv[p][i] # procRecv[p][j]
        /\ Method(p) # "create_procs" =>
             \A i \in DOMAIN procRecv[p] : LET q == procRecv[p][i]
                 IN numRecv[p][q] = Cardinality(Indices(proclist[call[p]][q], p))

\* "barrier to insure all MPI_ANY_SOURCE messages are received else another
\* proc could proceed to exchange_data() and send to me" (irregular.cpp:374):
\* while a process agrees on a plan, nothing that was sent to it is ahead of
\* it: no data of an exchange along that plan, no message of a later call.
NothingOvertakes ==
    \A p, q \in Proc : pc[p] \in {"reduce", "tell", "hear"} =>
        \A i \in DOMAIN chan[q][p][0] : LET m == chan[q][p][0][i]
            IN m.call <= call[p] /\ (m.kind = "data" => m.call < call[p])

\* The byte counts have a tag of their own but no barrier after them: what
\* lies in a channel to a process that receives them from any source is a
\* count of this very call (irregular.cpp:646).
WildcardsHearSizes ==
    \A p, q \in Proc : pc[p] = "hearsize" =>
        \A i \in DOMAIN chan[q][p][1] : chan[q][p][1][i].call = call[p]

\* An open Irecv is matched by the data of this very exchange, and the message
\* is exactly as long as the posted segment of the buffer: none is truncated
\* and no segment is left partly unwritten.
IrecvsFit ==
    \A p, q \in Proc : q \in posted[p] /\ chan[q][p][0] # <<>> =>
        LET m == Oldest(q, p, 0)
        IN  m.kind = "data" /\ m.call = call[p] /\ m.n = RecvLength(p, q)

\* reverse(): who sent me the datums of my buffer, as runs <<process, how many>>.
ReverseRuns(p) ==
    <<<<p, Cardinality(send[p].index[p])>>>> \o
    [i \in DOMAIN procRecv[p] |-> <<procRecv[p][i], numRecv[p][procRecv[p][i]]>>]

\* reverse(), called after an exchange, tells the truth about its buffer.
AfterExchange(p) ==
    pc[p] = "start" /\ call[p] - 1 \in Calls /\ Program[call[p] - 1] \in Exchanges
ReverseNamesSenders ==
    \A p \in Proc : AfterExchange(p) =>
        ReverseRuns(p) = [i \in DOMAIN recvbuf[p] |->
            <<recvbuf[p][i].from, Cardinality(recvbuf[p][i].datums)>>]

\* The protocol implements the abstract exchange, its termination included:
\* proclist, call and recvbuf stand for themselves, and what a method does
\* before it returns (plan, messages, blocking) is invisible to its callers.
Abstract == INSTANCE DatumExchange
ImplementsDatumExchange == Abstract!Spec

=============================================================================
