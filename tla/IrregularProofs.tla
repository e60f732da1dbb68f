-------------------------- MODULE IrregularProofs --------------------------
(***************************************************************************)
(* Proofs about Irregular for any number of processes, any program of      *)
(* calls and any lists: type correctness; the phase separation that the    *)
(* comment beside the barriers of irregular.cpp promises; what a step of a *)
(* process leaves true of its own plan, loops and buffers (LocalInv), the  *)
(* part of the inductive invariant PlanInv that one process keeps.  Then:  *)
(* what lies in a channel is what was sent and not yet received, in order; *)
(* with that, PlanInv is inductive.  It follows that the plan a process    *)
(* makes is what its senders will send, that every receive fits, that      *)
(* reverse() tells the truth, and that every step of the protocol is one   *)
(* of DatumExchange or invisible to the callers.                           *)
(***************************************************************************)
EXTENDS Irregular, FiniteSetTheorems, TLAPS

USE NProcsAssumption, ProgramAssumption, LoadsAssumption

-----------------------------------------------------------------------------
(* Lemmas about the operators of the model.                                *)

\* The positions of the datums for one process are a finite set of numbers.
LEMMA IndicesFinite ==
    ASSUME NEW list \in Lists, NEW q \in Proc
    PROVE  Indices(list, q) \in Numbers
<1>1. list.to \in Seq(Proc) BY DEF Lists
<1>2. DOMAIN list.to = 1 .. Len(list.to) /\ Len(list.to) \in Nat BY <1>1
<1>3. IsFiniteSet(DOMAIN list.to) BY <1>2, FS_Interval
<1>4. Indices(list, q) \subseteq DOMAIN list.to BY DEF Indices
<1> QED BY <1>2, <1>3, <1>4, FS_Subset DEF Numbers

LEMMA NumbersCounted == ASSUME NEW S \in Numbers PROVE Cardinality(S) \in Nat
BY FS_CardinalityType DEF Numbers

\* The processes are finitely many.
LEMMA ProcFinite == IsFiniteSet(Proc)
BY FS_Interval DEF Proc

\* The result of the Reduce_scatter is a natural number.
LEMMA NRecvType ==
    ASSUME NEW p \in Proc, NEW c \in Calls,
           proclist \in [Calls -> [Proc -> Lists]]
    PROVE  NRecv(p, c) \in Nat
<1> DEFINE P(q) == {q} \X Indices(proclist[c][q], p)
           S == {P(q) : q \in Proc \ {p}}
<1>1. IsFiniteSet(Proc \ {p}) BY ProcFinite, FS_Difference
<1>2. IsFiniteSet({q \in Proc \ {p} : p \in Dests(proclist[c][q])})
      BY <1>1, FS_Subset
<1>3. IsFiniteSet(S)
  <2>1. [q \in Proc \ {p} |-> P(q)] \in Surjection(Proc \ {p}, S)
        BY DEF Surjection
  <2> QED BY <1>1, <2>1, FS_Surjection
<1>4. ASSUME NEW T \in S PROVE IsFiniteSet(T)
  <2>1. PICK q \in Proc \ {p} : T = P(q) OBVIOUS
  <2>2. proclist[c][q] \in Lists BY <2>1
  <2>3. IsFiniteSet(Indices(proclist[c][q], p)) BY <2>2, IndicesFinite DEF Numbers
  <2>4. IsFiniteSet({q}) BY FS_Singleton
  <2> QED BY <2>1, <2>3, <2>4, FS_Product
<1>5. IsFiniteSet(UNION S) BY <1>3, <1>4, FS_UNION
<1> QED BY <1>2, <1>5, FS_CardinalityType DEF NRecv


\* Calls are numbered from 1.
LEMMA CallsNumbered ==
    /\ Len(Program) \in Nat /\ Calls = 1 .. Len(Program)
    /\ \A c \in Calls : Program[c] \in Methods
BY DEF Calls

\* A message put into a channel, or taken out of it, keeps its type.
LEMMA PushType ==
    ASSUME ChanType, NEW p \in Proc, NEW q \in Proc, NEW tag \in {0, 1},
           NEW m \in MessageType, Push(p, q, tag, m)
    PROVE  ChanType'
<1>1. Append(chan[p][q][tag], m) \in Seq(MessageType) BY DEF ChanType
<1> QED BY <1>1 DEF ChanType, Push

LEMMA PopType ==
    ASSUME ChanType, NEW q \in Proc, NEW p \in Proc, NEW tag \in {0, 1}, Pop(q, p, tag)
    PROVE  ChanType' /\ Oldest(q, p, tag) \in MessageType
<1>1. chan[q][p][tag] \in Seq(MessageType) /\ chan[q][p][tag] # <<>> BY DEF ChanType, Pop
<1>2. /\ Tail(chan[q][p][tag]) \in Seq(MessageType)
      /\ Head(chan[q][p][tag]) \in MessageType BY <1>1
<1> QED BY <1>2 DEF ChanType, Pop, Oldest

LEMMA MessageTyped ==
    ASSUME NEW kind \in {"count", "size", "data"}, NEW c \in Calls, NEW n \in Nat,
           NEW body \in BlockType
    PROVE  Message(kind, c, n, body) \in MessageType
BY DEF Message, MessageType

LEMMA NoBlockTyped == ASSUME NEW p \in Proc PROVE NoBlock(p) \in BlockType
<1>1. {} \in Numbers BY FS_EmptySet DEF Numbers
<1> QED BY <1>1 DEF NoBlock, Block, BlockType

-----------------------------------------------------------------------------
(* Type correctness.                                                       *)

LEMMA InitType == Init => TypeOK
<1> SUFFICES ASSUME Init PROVE TypeOK OBVIOUS
<1>1. {} \in Numbers BY FS_EmptySet DEF Numbers
<1> QED BY <1>1, CallsNumbered 
      DEF Init, TypeOK, ControlType, SendType, RecvType, LoopType, ChanType, BufferType,
          NoBlock, Block, BlockType, Phases

LEMMA StepType == TypeOK /\ [Next]_vars => TypeOK'
<1> SUFFICES ASSUME TypeOK, [Next]_vars PROVE TypeOK' OBVIOUS
<1> USE CallsNumbered
<1>1. ASSUME NEW p \in Proc, StartCreate(p) PROVE TypeOK'
  <2>1. ControlType' BY <1>1 DEF TypeOK, StartCreate, ControlType, Running, Goto, Return, Phases
  <2> QED BY <1>1, <2>1 DEF TypeOK, StartCreate, plan, Running, SendType, RecvType, LoopType, ChanType, BufferType
<1>2. ASSUME NEW p \in Proc, Reduce(p) PROVE TypeOK'
  <2>1. ControlType' BY <1>2 DEF TypeOK, Reduce, ControlType, Running, Goto, Return, Phases
  <2>2. SendType'
    <3>1. call[p] \in Calls /\ MyList(p) \in Lists
          BY <1>2 DEF TypeOK, Reduce, ControlType, Running, MyList
    <3>2. [q \in Proc |-> Indices(MyList(p), q)] \in [Proc -> Numbers]
          BY <3>1, IndicesFinite
    <3>3. MyList(p).bytes \in [Proc -> Nat] BY <3>1 DEF Lists
    <3>4. Dests(MyList(p)) \subseteq Proc BY <3>1 DEF Lists, Dests
    <3> QED BY <1>2, <3>2, <3>3, <3>4 DEF TypeOK, Reduce, SendType
  <2>3. RecvType'
    <3>1. call[p] \in Calls BY <1>2 DEF TypeOK, Reduce, ControlType, Running
    <3>2. NRecv(p, call[p]) \in Nat BY <3>1, NRecvType DEF TypeOK
    <3> QED BY <1>2, <3>2 DEF TypeOK, Reduce, RecvType
  <2>4. LoopType'
    <3>1. call[p] \in Calls /\ MyList(p) \in Lists
          BY <1>2 DEF TypeOK, Reduce, ControlType, Running, MyList
    <3>2. Dests(MyList(p)) \subseteq Proc BY <3>1 DEF Lists, Dests
    <3> QED BY <1>2, <3>2 DEF TypeOK, Reduce, LoopType
  <2> QED BY <1>2, <2>1, <2>2, <2>3, <2>4 DEF TypeOK, Reduce, plan, Running, ChanType, BufferType
<1>3. ASSUME NEW p \in Proc, StartAugment(p) PROVE TypeOK'
  <2>1. ControlType' BY <1>3 DEF TypeOK, StartAugment, ControlType, Running, Goto, Return, Phases
  <2>2. SendType'
    <3>1. MyList(p) \in Lists BY <1>3 DEF TypeOK, StartAugment, Running, MyList
    <3>2. [q \in Proc |-> Indices(MyList(p), q)] \in [Proc -> Numbers]
          BY <3>1, IndicesFinite
    <3> QED BY <1>3, <3>2 DEF TypeOK, StartAugment, SendType
  <2>3. LoopType' BY <1>3 DEF TypeOK, StartAugment, LoopType, SendType
  <2> QED BY <1>3, <2>1, <2>2, <2>3 DEF TypeOK, StartAugment, plan, Running, RecvType, ChanType, BufferType
<1>4. ASSUME NEW p \in Proc, Tell(p) PROVE TypeOK'
  <2>1. LoopType' BY <1>4 DEF TypeOK, Tell, LoopType
  <2>2. ChanType'
    <3>1. call[p] \in Calls BY <1>4 DEF TypeOK, Tell, ControlType, Running
    <3>2. PICK q \in Proc : Push(p, q, 0, Message("count", call[p],
              IF Method(p) = "create_procs" THEN 0 ELSE Cardinality(send[p].index[q]),
              NoBlock(p)))
          BY <1>4 DEF Tell
    <3>3. Cardinality(send[p].index[q]) \in Nat BY NumbersCounted DEF TypeOK, SendType
    <3> QED BY <3>1, <3>2, <3>3, PushType, MessageTyped, NoBlockTyped DEF TypeOK
  <2> QED BY <1>4, <2>1, <2>2 DEF TypeOK, Tell, plan, Running, ControlType, SendType, RecvType, BufferType
<1>5. ASSUME NEW p \in Proc, Told(p) PROVE TypeOK'
  <2>1. ControlType' BY <1>5 DEF TypeOK, Told, ControlType, Running, Goto, Return, Phases
  <2>2. LoopType' BY <1>5 DEF TypeOK, Told, LoopType
  <2> QED BY <1>5, <2>1, <2>2 DEF TypeOK, Told, plan, Running, SendType, RecvType, ChanType, BufferType
<1>6. ASSUME NEW p \in Proc, Hear(p) PROVE TypeOK'
  <2>1. LoopType' BY <1>6 DEF TypeOK, Hear, LoopType
  <2>2. RecvType'
    <3>1. PICK q \in Proc : Pop(q, p, 0) /\ \/ numRecv' = numRecv
                                             \/ numRecv' = [numRecv EXCEPT ![p][q] = Oldest(q, p, 0).n]
          BY <1>6 DEF Hear
    <3>2. Oldest(q, p, 0).n \in Nat BY <3>1, PopType DEF TypeOK, MessageType
    <3>3. CASE numRecv' = numRecv BY <1>6, <3>3 DEF TypeOK, Hear, RecvType
    <3>4. CASE numRecv' = [numRecv EXCEPT ![p][q] = Oldest(q, p, 0).n]
          BY <1>6, <3>2, <3>4 DEF TypeOK, Hear, RecvType
    <3> QED BY <3>1, <3>3, <3>4
  <2>3. ChanType' BY <1>6, PopType DEF TypeOK, Hear
  <2> QED BY <1>6, <2>1, <2>2, <2>3 DEF TypeOK, Hear, plan, Running, ControlType, SendType, BufferType
<1>7. ASSUME NEW p \in Proc, Heard(p) PROVE TypeOK'
  <2>1. ControlType' BY <1>7 DEF TypeOK, Heard, ControlType, Running, Goto, Return, Phases
  <2>2. RecvType'
    <3>1. PICK s \in [DOMAIN heard[p] -> {heard[p][i] : i \in DOMAIN heard[p]}] :
              procRecv' \in {procRecv, [procRecv EXCEPT ![p] = s]}
          BY <1>7 DEF Heard
    <3>2. heard[p] \in Seq(Proc) BY DEF TypeOK, LoopType
    <3>3. DOMAIN heard[p] = 1 .. Len(heard[p]) /\ Len(heard[p]) \in Nat BY <3>2
    <3>4. {heard[p][i] : i \in DOMAIN heard[p]} \subseteq Proc BY <3>2, <3>3
    <3>5. s \in [1 .. Len(heard[p]) -> Proc] BY <3>1, <3>3, <3>4
    <3>6. s \in Seq(Proc) BY <3>3, <3>5
    <3>7. procRecv' \in [Proc -> Seq(Proc)] BY <3>1, <3>6 DEF TypeOK, RecvType
    <3> QED BY <1>7, <3>7 DEF TypeOK, Heard, RecvType
  <2> QED BY <1>7, <2>1, <2>2 DEF TypeOK, Heard, plan, Running, SendType, LoopType, ChanType, BufferType
<1>8. ASSUME NEW p \in Proc, Barrier(p) PROVE TypeOK'
  <2>1. ControlType'
    <3>1. CASE Method(p) = "create_data_variable"
          BY <1>8, <3>1 DEF TypeOK, Barrier, ControlType, Running, Goto, Phases
    <3>2. CASE Method(p) # "create_data_variable"
      <4>1. call[p] \in Calls BY <1>8 DEF TypeOK, Barrier, ControlType, Running
      <4>2. Return(p) BY <1>8, <3>2 DEF Barrier
      <4> QED BY <4>1, <4>2 DEF TypeOK, ControlType, Running, Goto, Return, Phases
    <3> QED BY <3>1, <3>2
  <2>2. LoopType' BY <1>8 DEF TypeOK, Barrier, LoopType, SendType
  <2> QED BY <1>8, <2>1, <2>2 DEF TypeOK, Barrier, plan, Running, SendType, RecvType, ChanType, BufferType
<1>9. ASSUME NEW p \in Proc, TellSize(p) PROVE TypeOK'
  <2>1. LoopType' BY <1>9 DEF TypeOK, TellSize, LoopType
  <2>2. ChanType'
    <3>1. call[p] \in Calls BY <1>9 DEF TypeOK, TellSize, ControlType, Running
    <3>2. PICK q \in Proc :
              Push(p, q, 1, Message("size", call[p], send[p].bytes[q], NoBlock(p)))
          BY <1>9 DEF TellSize
    <3>3. send[p].bytes[q] \in Nat BY DEF TypeOK, SendType
    <3> QED BY <3>1, <3>2, <3>3, PushType, MessageTyped, NoBlockTyped DEF TypeOK
  <2> QED BY <1>9, <2>1, <2>2 DEF TypeOK, TellSize, plan, Running, ControlType, SendType, RecvType, BufferType
<1>10. ASSUME NEW p \in Proc, ToldSize(p) PROVE TypeOK'
  <2>1. ControlType' BY <1>10 DEF TypeOK, ToldSize, ControlType, Running, Goto, Return, Phases
  <2>2. LoopType' BY <1>10 DEF TypeOK, ToldSize, LoopType
  <2> QED BY <1>10, <2>1, <2>2 DEF TypeOK, ToldSize, plan, Running, SendType, RecvType, ChanType, BufferType
<1>11. ASSUME NEW p \in Proc, HearSize(p) PROVE TypeOK'
  <2>1. LoopType' BY <1>11 DEF TypeOK, HearSize, LoopType
  <2>2. RecvType'
    <3>1. PICK q \in Proc : Pop(q, p, 1) /\
              sizeRecv' = [sizeRecv EXCEPT ![p][q] = Oldest(q, p, 1).n]
          BY <1>11 DEF HearSize
    <3>2. Oldest(q, p, 1).n \in Nat BY <3>1, PopType DEF TypeOK, MessageType
    <3> QED BY <1>11, <3>1, <3>2 DEF TypeOK, HearSize, RecvType
  <2>3. ChanType' BY <1>11, PopType DEF TypeOK, HearSize
  <2> QED BY <1>11, <2>1, <2>2, <2>3 DEF TypeOK, HearSize, plan, Running, ControlType, SendType, BufferType
<1>12. ASSUME NEW p \in Proc, HeardSize(p) PROVE TypeOK'
  <2>1. ControlType' BY <1>12 DEF TypeOK, HeardSize, ControlType, Running, Goto, Return, Phases
  <2> QED BY <1>12, <2>1 DEF TypeOK, HeardSize, plan, Running, SendType, RecvType, LoopType, ChanType, BufferType
<1>13. ASSUME NEW p \in Proc, StartExchange(p) PROVE TypeOK'
  <2>1. ControlType' BY <1>13 DEF TypeOK, StartExchange, ControlType, Running, Goto, Return, Phases
  <2>2. LoopType'
    <3>1. {procRecv[p][i] : i \in DOMAIN procRecv[p]} \subseteq Proc
          BY DEF TypeOK, RecvType
    <3> QED BY <1>13, <3>1 DEF TypeOK, StartExchange, LoopType, SendType
  <2> QED BY <1>13, <2>1, <2>2 DEF TypeOK, StartExchange, plan, Running, SendType, RecvType, ChanType, BufferType
<1>14. ASSUME NEW p \in Proc, Send(p) PROVE TypeOK'
  <2>1. ControlType' BY <1>14 DEF TypeOK, Send, ControlType, Running, Goto, Return, Phases
  <2>2. LoopType'
    <3>1. PICK q \in Proc : unsent' \in {unsent, [unsent EXCEPT ![p] = @ \ {q}]}
          BY <1>14 DEF Send
    <3>2. unsent \in [Proc -> SUBSET Proc] BY DEF TypeOK, LoopType
    <3>3. unsent' \in [Proc -> SUBSET Proc] BY <3>1, <3>2
    <3> QED BY <1>14, <3>3 DEF TypeOK, Send, LoopType
  <2>3. ChanType'
    <3>1. call[p] \in Calls BY <1>14 DEF TypeOK, Send, ControlType, Running
    <3>2. PICK q \in Proc :
              Push(p, q, 0, Message("data", call[p], SendLength(p, q), Mine(p, q)))
          BY <1>14 DEF Send
    <3>3. send[p].index[q] \in Numbers /\ send[p].bytes[q] \in Nat
          BY DEF TypeOK, SendType
    <3>4. SendLength(p, q) \in Nat /\ Mine(p, q) \in BlockType
          BY <3>1, <3>3, NumbersCounted, CallsNumbered DEF SendLength, Mine, Block, BlockType
    <3> QED BY <3>1, <3>2, <3>4, PushType, MessageTyped DEF TypeOK
  <2> QED BY <1>14, <2>1, <2>2, <2>3 DEF TypeOK, Send, plan, Running, SendType, RecvType, BufferType
<1>15. ASSUME NEW p \in Proc, Unblock(p) PROVE TypeOK'
  <2>1. ControlType' BY <1>15 DEF TypeOK, Unblock, ControlType, Running, Goto, Return, Phases
  <2>2. LoopType' BY <1>15 DEF TypeOK, Unblock, LoopType
  <2> QED BY <1>15, <2>1, <2>2 DEF TypeOK, Unblock, plan, Running, SendType, RecvType, ChanType, BufferType
<1>16. ASSUME NEW p \in Proc, Sent(p) PROVE TypeOK'
  <2>1. ControlType' BY <1>16 DEF TypeOK, Sent, ControlType, Running, Goto, Return, Phases
  <2>2. BufferType'
    <3>1. call[p] \in Nat /\ send[p].index[p] \in Numbers
          BY DEF TypeOK, ControlType, SendType
    <3>2. Mine(p, p) \in BlockType BY <3>1 DEF Mine, Block, BlockType
    <3> QED BY <1>16, <3>2 DEF TypeOK, Sent, BufferType
  <2> QED BY <1>16, <2>1, <2>2 DEF TypeOK, Sent, plan, Running, SendType, RecvType, LoopType, ChanType
<1>17. ASSUME NEW p \in Proc, Waitall(p) PROVE TypeOK'
  <2>1. ControlType' BY <1>17 DEF TypeOK, Waitall, ControlType, Running, Goto, Return, Phases
  <2>2. BufferType'
    <3>1. arrived[p][p] \in BlockType /\ procRecv[p] \in Seq(Proc)
          BY DEF TypeOK, BufferType, RecvType
    <3>2. [i \in DOMAIN procRecv[p] |-> arrived[p][procRecv[p][i]]] \in Seq(BlockType)
      <4>1. DOMAIN procRecv[p] = 1 .. Len(procRecv[p]) /\ Len(procRecv[p]) \in Nat BY <3>1
      <4>2. \A i \in DOMAIN procRecv[p] : arrived[p][procRecv[p][i]] \in BlockType
            BY <3>1, <4>1 DEF TypeOK, BufferType
      <4> QED BY <4>1, <4>2
    <3>3. <<arrived[p][p]>> \o [i \in DOMAIN procRecv[p] |-> arrived[p][procRecv[p][i]]]
            \in Seq(BlockType)
          BY <3>1, <3>2
    <3> QED BY <1>17, <3>3 DEF TypeOK, Waitall, BufferType
  <2> QED BY <1>17, <2>1, <2>2 DEF TypeOK, Waitall, plan, Running, SendType, RecvType, LoopType, ChanType
<1>18. ASSUME NEW p \in Proc, NEW q \in Proc, Match(q, p) PROVE TypeOK'
  <2>1. LoopType' BY <1>18 DEF TypeOK, Match, LoopType
  <2>2. ChanType' BY <1>18, PopType DEF TypeOK, Match
  <2>3. BufferType'
    <3>1. Oldest(q, p, 0).body \in BlockType BY <1>18, PopType DEF TypeOK, Match, MessageType
    <3> QED BY <1>18, <3>1 DEF TypeOK, Match, BufferType
  <2> QED BY <1>18, <2>1, <2>2, <2>3 DEF TypeOK, Match, plan, Running, ControlType, SendType, RecvType
<1>19. CASE UNCHANGED vars
      BY <1>19 DEF TypeOK, vars, Running, ControlType, SendType, RecvType, LoopType, ChanType, BufferType
<1> QED BY <1>1, <1>2, <1>3, <1>4, <1>5, <1>6, <1>7, <1>8, <1>9, <1>10, <1>11, <1>12, <1>13, <1>14, <1>15, <1>16, <1>17, <1>18, <1>19 DEF Next, Step, Done

\* Every reachable state is well typed, for any number of processes, any
\* program of calls and any lists of datums.
THEOREM TypeCorrect == Spec => []TypeOK
<1> QED BY InitType, StepType, PTL DEF Spec

-----------------------------------------------------------------------------
(* Phase separation.  The inductive invariant has three parts: a phase tells *)
(* the kind of method; a process that is past the barrier of a call proves   *)
(* that nobody is before it; and no message is newer than its sender.        *)

PhaseOfMethod ==
    \A p \in Proc :
        /\ pc[p] \in {"reduce", "tell", "hear", "barrier", "tellsize", "hearsize"}
             => Method(p) \notin Exchanges
        /\ pc[p] \in {"send", "blocked", "wait"} => Method(p) \in Exchanges

PastBarrier(p, c) ==
    call[p] > c \/ (call[p] = c /\ pc[p] \in {"tellsize", "hearsize"})
BarrierHolds ==
    \A p \in Proc, c \in Calls :
        Program[c] \notin Exchanges /\ PastBarrier(p, c) => EveryonePast(c, BeforeBarrier)

MailNotNewer ==
    \A p, q \in Proc : \A i \in DOMAIN chan[q][p][0] :
        /\ chan[q][p][0][i].call <= call[q]
        /\ chan[q][p][0][i].kind = "data" => Program[chan[q][p][0][i].call] \in Exchanges

PhaseInv == TypeOK /\ PhaseOfMethod /\ BarrierHolds /\ MailNotNewer

LEMMA InitPhase == Init => PhaseInv
<1> SUFFICES ASSUME Init PROVE PhaseInv OBVIOUS
<1>1. TypeOK BY InitType
<1>2. PhaseOfMethod BY DEF Init, PhaseOfMethod
<1>3. BarrierHolds BY CallsNumbered DEF Init, BarrierHolds, PastBarrier
<1>4. MailNotNewer BY DEF Init, MailNotNewer
<1> QED BY <1>1, <1>2, <1>3, <1>4 DEF PhaseInv

LEMMA PhaseSeparates == PhaseInv => NothingOvertakes
<1> SUFFICES ASSUME PhaseInv, NEW p \in Proc, NEW q \in Proc,
                    pc[p] \in {"reduce", "tell", "hear"},
                    NEW i \in DOMAIN chan[q][p][0]
             PROVE  LET m == chan[q][p][0][i]
                    IN m.call <= call[p] /\ (m.kind = "data" => m.call < call[p])
    BY DEF NothingOvertakes
<1> DEFINE m == chan[q][p][0][i]
<1>1. call[p] \in Calls /\ Method(p) \notin Exchanges
      BY DEF PhaseInv, TypeOK, ControlType, Running, PhaseOfMethod
<1>2. m \in MessageType BY DEF PhaseInv, TypeOK, ChanType
<1>3. m.call \in Nat /\ call[p] \in Nat /\ call[q] \in Nat
      BY <1>2, CallsNumbered DEF MessageType, PhaseInv, TypeOK, ControlType
<1>4. m.call <= call[q] BY DEF PhaseInv, MailNotNewer
<1>5. ASSUME call[q] > call[p] PROVE FALSE
  <2>1. EveryonePast(call[p], BeforeBarrier)
        BY <1>1, <1>5 DEF PhaseInv, BarrierHolds, PastBarrier, Method
  <2> QED BY <1>3, <2>1 DEF EveryonePast, BeforeBarrier
<1>6. m.kind = "data" => m.call # call[p]
      BY <1>1 DEF PhaseInv, MailNotNewer, Method
<1> QED BY <1>3, <1>4, <1>5, <1>6

\* How a step of p moves it: forward inside its call, or to the next call.
\* Leaving a call that is no exchange, or entering its byte counts, takes the
\* barrier; so does nothing else.
MovesOn(p) ==
    /\ \A q \in Proc \ {p} : call'[q] = call[q] /\ pc'[q] = pc[q]
    /\ \/ call'[p] = call[p] /\ (pc[p] \notin BeforeBarrier => pc'[p] \notin BeforeBarrier)
       \/ call'[p] = call[p] + 1 /\ pc'[p] = "start"
    /\ \A c \in Calls : Program[c] \notin Exchanges /\ PastBarrier(p, c)' =>
         PastBarrier(p, c) \/ EveryonePast(c, BeforeBarrier)

LEMMA StepMovesOn ==
    ASSUME TypeOK, PhaseOfMethod, NEW p \in Proc, Step(p)
    PROVE  MovesOn(p)
<1> USE CallsNumbered
<1>0. /\ call[p] \in Nat /\ \A c \in Calls : c \in Nat
      /\ call \in [Proc -> Nat] /\ pc \in [Proc -> Phases]
      BY DEF TypeOK, ControlType
<1>1. ASSUME StartCreate(p) PROVE MovesOn(p)
      BY <1>0, <1>1 DEF MovesOn, PastBarrier, BeforeBarrier, StartCreate, PhaseOfMethod, Goto
<1>2. ASSUME Reduce(p) PROVE MovesOn(p)
      BY <1>0, <1>2 DEF MovesOn, PastBarrier, BeforeBarrier, Reduce, PhaseOfMethod, Goto
<1>3. ASSUME StartAugment(p) PROVE MovesOn(p)
      BY <1>0, <1>3 DEF MovesOn, PastBarrier, BeforeBarrier, StartAugment, PhaseOfMethod, Goto
<1>4. ASSUME Tell(p) PROVE MovesOn(p)
      BY <1>0, <1>4 DEF MovesOn, PastBarrier, BeforeBarrier, Tell, PhaseOfMethod
<1>5. ASSUME Told(p) PROVE MovesOn(p)
      BY <1>0, <1>5 DEF MovesOn, PastBarrier, BeforeBarrier, Told, PhaseOfMethod, Goto
<1>6. ASSUME Hear(p) PROVE MovesOn(p)
      BY <1>0, <1>6 DEF MovesOn, PastBarrier, BeforeBarrier, Hear, PhaseOfMethod
<1>7. ASSUME Heard(p) PROVE MovesOn(p)
      BY <1>0, <1>7 DEF MovesOn, PastBarrier, BeforeBarrier, Heard, PhaseOfMethod, Goto
<1>8. ASSUME Barrier(p) PROVE MovesOn(p)
      BY <1>0, <1>8 DEF MovesOn, PastBarrier, BeforeBarrier, Barrier, PhaseOfMethod, Goto, Return, Method
<1>9. ASSUME TellSize(p) PROVE MovesOn(p)
      BY <1>0, <1>9 DEF MovesOn, PastBarrier, BeforeBarrier, TellSize, PhaseOfMethod
<1>10. ASSUME ToldSize(p) PROVE MovesOn(p)
      BY <1>0, <1>10 DEF MovesOn, PastBarrier, BeforeBarrier, ToldSize, PhaseOfMethod, Goto
<1>11. ASSUME HearSize(p) PROVE MovesOn(p)
      BY <1>0, <1>11 DEF MovesOn, PastBarrier, BeforeBarrier, HearSize, PhaseOfMethod
<1>12. ASSUME HeardSize(p) PROVE MovesOn(p)
      BY <1>0, <1>12 DEF MovesOn, PastBarrier, BeforeBarrier, HeardSize, PhaseOfMethod, Goto, Return
<1>13. ASSUME StartExchange(p) PROVE MovesOn(p)
      BY <1>0, <1>13 DEF MovesOn, PastBarrier, BeforeBarrier, StartExchange, PhaseOfMethod, Goto
<1>14. ASSUME Send(p) PROVE MovesOn(p)
      BY <1>0, <1>14 DEF MovesOn, PastBarrier, BeforeBarrier, Send, PhaseOfMethod, Goto
<1>15. ASSUME Unblock(p) PROVE MovesOn(p)
      BY <1>0, <1>15 DEF MovesOn, PastBarrier, BeforeBarrier, Unblock, PhaseOfMethod, Goto
<1>16. ASSUME Sent(p) PROVE MovesOn(p)
      BY <1>0, <1>16 DEF MovesOn, PastBarrier, BeforeBarrier, Sent, PhaseOfMethod, Goto
<1>17. ASSUME Waitall(p) PROVE MovesOn(p)
      BY <1>0, <1>17 DEF MovesOn, PastBarrier, BeforeBarrier, Waitall, PhaseOfMethod, Goto, Return, Method
<1>18. ASSUME NEW q \in Proc, Match(q, p) PROVE MovesOn(p)
      BY <1>0, <1>18 DEF MovesOn, PastBarrier, BeforeBarrier, Match, PhaseOfMethod
<1> QED BY <1>1, <1>2, <1>3, <1>4, <1>5, <1>6, <1>7, <1>8, <1>9, <1>10, <1>11, <1>12, <1>13, <1>14, <1>15, <1>16, <1>17, <1>18 DEF Step

\* The barrier of a call stays closed behind everyone.
LEMMA BarrierStep ==
    ASSUME TypeOK, BarrierHolds, NEW p \in Proc, MovesOn(p)
    PROVE  BarrierHolds'
<1>1. /\ call \in [Proc -> Nat] /\ \A c \in Calls : c \in Nat
      BY CallsNumbered DEF TypeOK, ControlType
<1>2. ASSUME NEW c \in Calls, EveryonePast(c, BeforeBarrier)
      PROVE  EveryonePast(c, BeforeBarrier)'
  <2> SUFFICES ASSUME NEW q \in Proc
               PROVE  call'[q] > c \/ (call'[q] = c /\ pc'[q] \notin BeforeBarrier)
      BY DEF EveryonePast, BeforeBarrier
  <2>1. call[q] > c \/ (call[q] = c /\ pc[q] \notin BeforeBarrier)
        BY <1>2 DEF EveryonePast
  <2> QED BY <1>1, <2>1 DEF MovesOn
<1> SUFFICES ASSUME NEW q \in Proc, NEW c \in Calls, Program[c] \notin Exchanges,
                    PastBarrier(q, c)'
             PROVE  EveryonePast(c, BeforeBarrier)'
    BY DEF BarrierHolds
<1>3. PastBarrier(q, c) \/ EveryonePast(c, BeforeBarrier)
  <2>1. CASE q = p BY <2>1 DEF MovesOn
  <2>2. CASE q # p BY <2>2 DEF MovesOn, PastBarrier
  <2> QED BY <2>1, <2>2
<1>4. EveryonePast(c, BeforeBarrier) BY <1>3 DEF BarrierHolds
<1> QED BY <1>2, <1>4

\* A message pushed by a process carries the call the process is in.
LEMMA MailPush ==
    ASSUME TypeOK, MailNotNewer, NEW p \in Proc, NEW q \in Proc, NEW m \in MessageType,
           Push(p, q, 0, m), m.call = call[p], UNCHANGED call,
           m.kind = "data" => Program[m.call] \in Exchanges
    PROVE  MailNotNewer'
<1> SUFFICES ASSUME NEW r \in Proc, NEW s \in Proc, NEW i \in DOMAIN chan'[s][r][0]
             PROVE  /\ chan'[s][r][0][i].call <= call[s]
                    /\ chan'[s][r][0][i].kind = "data"
                         => Program[chan'[s][r][0][i].call] \in Exchanges
    BY DEF MailNotNewer
<1>1. call[p] \in Nat BY DEF TypeOK, ControlType
<1>2. CASE s = p /\ r = q
  <2>1. chan'[p][q][0] = Append(chan[p][q][0], m)
    <3>1. /\ p \in DOMAIN chan /\ q \in DOMAIN chan[p] /\ 0 \in DOMAIN chan[p][q]
          BY DEF TypeOK, ChanType
    <3> QED BY <3>1 DEF Push
  <2>2. chan[p][q][0] \in Seq(MessageType) BY DEF TypeOK, ChanType
  <2>3. CASE i \in DOMAIN chan[p][q][0]
        BY <1>2, <2>1, <2>2, <2>3 DEF MailNotNewer
  <2>4. CASE i \notin DOMAIN chan[p][q][0]
    <3>1. chan'[p][q][0][i] = m BY <1>2, <2>1, <2>2, <2>4
    <3> QED BY <1>1, <1>2, <3>1
  <2> QED BY <2>3, <2>4
<1>3. CASE ~(s = p /\ r = q)
  <2>1. chan'[s][r] = chan[s][r] BY <1>3 DEF Push, TypeOK, ChanType
  <2> QED BY <2>1 DEF MailNotNewer
<1> QED BY <1>2, <1>3

\* A message taken out leaves the others behind.
LEMMA MailPop ==
    ASSUME TypeOK, MailNotNewer, NEW q \in Proc, NEW p \in Proc, Pop(q, p, 0), UNCHANGED call
    PROVE  MailNotNewer'
<1> SUFFICES ASSUME NEW r \in Proc, NEW s \in Proc, NEW i \in DOMAIN chan'[s][r][0]
             PROVE  /\ chan'[s][r][0][i].call <= call[s]
                    /\ chan'[s][r][0][i].kind = "data"
                         => Program[chan'[s][r][0][i].call] \in Exchanges
    BY DEF MailNotNewer
<1>1. CASE s = q /\ r = p
  <2>1. chan'[q][p][0] = Tail(chan[q][p][0]) /\ chan[q][p][0] # <<>>
        BY DEF Pop, TypeOK, ChanType
  <2>2. chan[q][p][0] \in Seq(MessageType) BY DEF TypeOK, ChanType
  <2>3. i + 1 \in DOMAIN chan[q][p][0] /\ chan'[q][p][0][i] = chan[q][p][0][i + 1]
        BY <1>1, <2>1, <2>2
  <2> QED BY <1>1, <2>3 DEF MailNotNewer
<1>2. CASE ~(s = q /\ r = p)
  <2>1. chan'[s][r] = chan[s][r] BY <1>2 DEF Pop, TypeOK, ChanType
  <2> QED BY <2>1 DEF MailNotNewer
<1> QED BY <1>1, <1>2

\* Messages of tag 1 do not matter to the channels of tag 0.
LEMMA MailOther ==
    ASSUME TypeOK, MailNotNewer,
           \A s, r \in Proc : chan'[s][r][0] = chan[s][r][0],
           \A s \in Proc : call[s] <= call'[s], call' \in [Proc -> Nat]
    PROVE  MailNotNewer'
<1> SUFFICES ASSUME NEW r \in Proc, NEW s \in Proc, NEW i \in DOMAIN chan[s][r][0]
             PROVE  /\ chan[s][r][0][i].call <= call'[s]
                    /\ chan[s][r][0][i].kind = "data"
                         => Program[chan[s][r][0][i].call] \in Exchanges
    BY DEF MailNotNewer
<1>1. chan[s][r][0] \in Seq(MessageType) BY DEF TypeOK, ChanType
<1>2. chan[s][r][0][i] \in MessageType BY <1>1
<1>3. chan[s][r][0][i].call \in Nat BY <1>2, CallsNumbered DEF MessageType
<1>4. call[s] \in Nat BY DEF TypeOK, ControlType
<1> QED BY <1>3, <1>4 DEF MailNotNewer

LEMMA StepPhase == PhaseInv /\ [Next]_vars => PhaseInv'
<1> SUFFICES ASSUME PhaseInv, [Next]_vars PROVE PhaseInv' OBVIOUS
<1>1. TypeOK /\ TypeOK' BY StepType DEF PhaseInv
<1>2. CASE UNCHANGED vars
      BY <1>2 DEF vars, PhaseInv, TypeOK, ControlType, SendType, RecvType, LoopType,
         ChanType, BufferType, Running, PhaseOfMethod, Method, BarrierHolds, PastBarrier,
         EveryonePast, MailNotNewer
<1>3. ASSUME NEW p \in Proc, Step(p) PROVE PhaseInv'
  <2>1. MovesOn(p) BY <1>1, <1>3, StepMovesOn DEF PhaseInv
  <2>2. BarrierHolds' BY <1>1, <2>1, BarrierStep DEF PhaseInv
  <2>3. PhaseOfMethod'
    <3>1. CASE StartCreate(p)
          BY <3>1 DEF PhaseInv, TypeOK, ControlType, PhaseOfMethod, Method, StartCreate, Goto, Creates, Exchanges
    <3>2. CASE Reduce(p)
          BY <3>2 DEF PhaseInv, TypeOK, ControlType, PhaseOfMethod, Method, Reduce, Goto
    <3>3. CASE StartAugment(p)
          BY <3>3 DEF PhaseInv, TypeOK, ControlType, PhaseOfMethod, Method, StartAugment, Goto, Exchanges
    <3>4. CASE Tell(p)
          BY <3>4 DEF PhaseInv, TypeOK, ControlType, PhaseOfMethod, Method, Tell
    <3>5. CASE Told(p)
          BY <3>5 DEF PhaseInv, TypeOK, ControlType, PhaseOfMethod, Method, Told, Goto
    <3>6. CASE Hear(p)
          BY <3>6 DEF PhaseInv, TypeOK, ControlType, PhaseOfMethod, Method, Hear
    <3>7. CASE Heard(p)
          BY <3>7 DEF PhaseInv, TypeOK, ControlType, PhaseOfMethod, Method, Heard, Goto
    <3>8. CASE Barrier(p)
          BY <3>8 DEF PhaseInv, TypeOK, ControlType, PhaseOfMethod, Method, Barrier, Goto, Return
    <3>9. CASE TellSize(p)
          BY <3>9 DEF PhaseInv, TypeOK, ControlType, PhaseOfMethod, Method, TellSize
    <3>10. CASE ToldSize(p)
          BY <3>10 DEF PhaseInv, TypeOK, ControlType, PhaseOfMethod, Method, ToldSize, Goto
    <3>11. CASE HearSize(p)
          BY <3>11 DEF PhaseInv, TypeOK, ControlType, PhaseOfMethod, Method, HearSize
    <3>12. CASE HeardSize(p)
          BY <3>12 DEF PhaseInv, TypeOK, ControlType, PhaseOfMethod, Method, HeardSize, Goto, Return
    <3>13. CASE StartExchange(p)
          BY <3>13 DEF PhaseInv, TypeOK, ControlType, PhaseOfMethod, Method, StartExchange, Goto
    <3>14. CASE Send(p)
          BY <3>14 DEF PhaseInv, TypeOK, ControlType, PhaseOfMethod, Method, Send, Goto
    <3>15. CASE Unblock(p)
          BY <3>15 DEF PhaseInv, TypeOK, ControlType, PhaseOfMethod, Method, Unblock, Goto
    <3>16. CASE Sent(p)
          BY <3>16 DEF PhaseInv, TypeOK, ControlType, PhaseOfMethod, Method, Sent, Goto
    <3>17. CASE Waitall(p)
          BY <3>17 DEF PhaseInv, TypeOK, ControlType, PhaseOfMethod, Method, Waitall, Goto, Return
    <3>18. ASSUME NEW q \in Proc, Match(q, p) PROVE PhaseOfMethod'
          BY <3>18 DEF PhaseInv, PhaseOfMethod, Method, Match
    <3> QED BY <1>3, <3>1, <3>2, <3>3, <3>4, <3>5, <3>6, <3>7, <3>8, <3>9, <3>10, <3>11, <3>12, <3>13, <3>14, <3>15, <3>16, <3>17, <3>18 DEF Step
  <2>4. MailNotNewer'
    <3>1. /\ \A s \in Proc : call[s] <= call'[s]
          /\ call' \in [Proc -> Nat]
      <4>1. call \in [Proc -> Nat] /\ call' \in [Proc -> Nat]
            BY <1>1, CallsNumbered DEF TypeOK, ControlType
      <4>2. call[p] <= call'[p] BY <2>1, <4>1 DEF MovesOn
      <4>3. \A s \in Proc \ {p} : call[s] <= call'[s] BY <2>1, <4>1 DEF MovesOn
      <4> QED BY <4>1, <4>2, <4>3
    <3>2. CASE UNCHANGED chan BY <1>1, <3>1, <3>2, MailOther DEF PhaseInv
    <3>3. CASE Tell(p)
      <4>1. PICK q \in Proc, n \in Nat : Push(p, q, 0, Message("count", call[p], n, NoBlock(p)))
        <5>1. PICK q \in Proc : Push(p, q, 0, Message("count", call[p],
                  IF Method(p) = "create_procs" THEN 0 ELSE Cardinality(send[p].index[q]),
                  NoBlock(p)))
              BY <3>3 DEF Tell
        <5>2. Cardinality(send[p].index[q]) \in Nat
          <6>1. send[p].index \in [Proc -> Numbers]
                BY <1>1 DEF TypeOK, SendType
          <6> QED BY <6>1, NumbersCounted
        <5> QED BY <5>1, <5>2
      <4>2. call[p] \in Calls /\ UNCHANGED call
            BY <1>1, <3>3 DEF Tell, TypeOK, ControlType, Running
      <4>3. Message("count", call[p], n, NoBlock(p)) \in MessageType
            BY <4>2, NoBlockTyped, MessageTyped
      <4> QED BY <1>1, <4>1, <4>2, <4>3, MailPush DEF PhaseInv, Message
    <3>4. CASE Send(p)
      <4>1. PICK q \in Proc :
                Push(p, q, 0, Message("data", call[p], SendLength(p, q), Mine(p, q)))
            BY <3>4 DEF Send
      <4>2. call[p] \in Calls /\ UNCHANGED call /\ Program[call[p]] \in Exchanges
            BY <1>1, <3>4 DEF Send, TypeOK, ControlType, Running, PhaseInv, PhaseOfMethod, Method
      <4>3. send[p].index[q] \in Numbers /\ send[p].bytes[q] \in Nat
            BY <1>1 DEF TypeOK, SendType
      <4>4. SendLength(p, q) \in Nat /\ Mine(p, q) \in BlockType
            BY <4>2, <4>3, NumbersCounted, CallsNumbered DEF SendLength, Mine, Block, BlockType
      <4>5. Message("data", call[p], SendLength(p, q), Mine(p, q)) \in MessageType
            BY <4>2, <4>4, MessageTyped
      <4> QED BY <1>1, <4>1, <4>2, <4>5, MailPush DEF PhaseInv, Message
    <3>5. CASE Hear(p)
      <4>1. PICK q \in Proc : Pop(q, p, 0) BY <3>5 DEF Hear
      <4> QED BY <1>1, <3>5, <4>1, MailPop DEF PhaseInv, Hear
    <3>6. ASSUME NEW q \in Proc, Match(q, p) PROVE MailNotNewer'
          BY <1>1, <3>6, MailPop DEF PhaseInv, Match
    <3>7. CASE TellSize(p) \/ HearSize(p)
      <4>1. \A s, r \in Proc : chan'[s][r][0] = chan[s][r][0]
        <5>1. PICK q \in Proc : \/ \E m : Push(p, q, 1, m)
                                \/ Pop(q, p, 1)
              BY <3>7 DEF TellSize, HearSize
        <5>2. \A s, r \in Proc : s \in DOMAIN chan /\ r \in DOMAIN chan[s]
                                /\ 0 \in DOMAIN chan[s][r]
              BY <1>1 DEF TypeOK, ChanType
        <5>3. PICK box : chan' = [chan EXCEPT ![p] = [chan[p] EXCEPT ![q] =
                                     [chan[p][q] EXCEPT ![1] = box]]]
                      \/ chan' = [chan EXCEPT ![q] = [chan[q] EXCEPT ![p] =
                                     [chan[q][p] EXCEPT ![1] = box]]]
              BY <5>1 DEF Push, Pop
        <5> QED BY <5>2, <5>3
      <4> QED BY <1>1, <3>1, <4>1, MailOther DEF PhaseInv
    <3> QED BY <1>3, <3>2, <3>3, <3>4, <3>5, <3>6, <3>7
            DEF Step, StartCreate, Reduce, StartAugment, Told, Heard, Barrier, ToldSize,
                HeardSize, StartExchange, Unblock, Sent, Waitall
  <2> QED BY <1>1, <2>2, <2>3, <2>4 DEF PhaseInv
<1> QED BY <1>2, <1>3 DEF Next, Done

\* While a process agrees on a plan, no data of an exchange along that plan and
\* no message of a later call can be on its way to it: the barrier at the end
\* of each create method and of augment_data_uniform does what it is there for.
THEOREM PhasesSeparated == Spec => []NothingOvertakes
<1>1. Spec => []PhaseInv BY InitPhase, StepPhase, PTL DEF Spec
<1> QED BY <1>1, PhaseSeparates, PTL

\* The remainder of the difference of two ranks, without a division.
LEMMA RemainderBelow ==
    ASSUME NEW x \in Int, NEW n \in Int, n > 0, -n < x, x < n
    PROVE  x % n = IF x >= 0 THEN x ELSE x + n
<1>1. x < 0 => x % n = x + n
  OBVIOUS
<1>2. x >= 0 => x % n = x
  OBVIOUS
<1> QED BY <1>1, <1>2

\* The order of the sends leaves no choice.
LEMMA NextDestUnique ==
    ASSUME NEW p \in Proc, NEW q \in Proc, NEW r \in Proc, NEW S,
           IsNextDest(p, q, S), IsNextDest(p, r, S)
    PROVE  q = r
<1>1. NProcs \in Int /\ NProcs > 0 /\ p \in Int /\ q \in Int /\ r \in Int
  BY NProcsAssumption DEF Proc
<1>2. /\ -NProcs < q - p /\ q - p < NProcs /\ -NProcs < r - p /\ r - p < NProcs
      /\ -NProcs < q - r /\ q - r < NProcs
  BY <1>1 DEF Proc
<1>3. /\ (q - p) % NProcs = IF q - p >= 0 THEN q - p ELSE q - p + NProcs
      /\ (r - p) % NProcs = IF r - p >= 0 THEN r - p ELSE r - p + NProcs
  BY <1>1, <1>2, RemainderBelow
<1>4. (q - p) % NProcs <= (r - p) % NProcs /\ (r - p) % NProcs <= (q - p) % NProcs
  BY DEF IsNextDest
<1> QED BY <1>1, <1>2, <1>3, <1>4

-----------------------------------------------------------------------------
(* What the two halves of a plan are worth in each phase.                  *)

\* The calls whose sending half, and whose receiving half, a process has made.
SendBase(p) == IF pc[p] \in {"start", "reduce"} THEN call[p] - 1 ELSE call[p]
RecvBase(p) == IF pc[p] \in BeforeBarrier THEN call[p] - 1 ELSE call[p]

\* The datums of a list of call e that process q sends to p, and their block.
Listed(q, p, e) == Indices(proclist[e][q], p)
BlockOf(q, p, c, e) == Block(q, c, Listed(q, p, e))

SetOf(s) == {s[i] : i \in DOMAIN s}
OnceEach(s) == \A i, j \in DOMAIN s : s[i] = s[j] => i = j
Exchanging(p) == pc[p] \in {"send", "blocked", "wait"}

\* The phases of the create methods, and of the one that counts bytes.
MethodOfPhase(p) ==
    /\ pc[p] = "reduce" => Method(p) \in Creates
    /\ pc[p] \in {"tellsize", "hearsize"} => Method(p) = "create_data_variable"

\* Whom a process sends to, and what, is as its last calls listed it.
SendHalf(p) ==
    /\ \A d \in Calls : LastOf(d, SendBase(p), Creates) =>
         /\ send[p].dests = Dests(proclist[d][p]) \ {p}
         /\ nrecv[p] = NRecv(p, d)
    /\ \A e \in Calls : LastOf(e, SendBase(p), Listing) =>
         send[p].index = [q \in Proc |-> Listed(p, q, e)]
    /\ \A d \in Calls : LastOf(d, SendBase(p), {"create_data_variable"}) =>
         send[p].bytes = proclist[d][p].bytes
    /\ pc[p] \in {"tell", "tellsize", "send", "blocked"} => unsent[p] \subseteq send[p].dests

\* The sources of the plan are its senders, each once, by rank if asked to.
RecvPlan(p) ==
    \A d \in Calls : LastOf(d, RecvBase(p), Creates) =>
        /\ SetOf(procRecv[p]) = Senders(p, d)
        /\ OnceEach(procRecv[p])
        /\ d \in Sort => \A i, j \in DOMAIN procRecv[p] : i < j => procRecv[p][i] < procRecv[p][j]

\* The numbers of datums and of bytes are those of the senders' lists.
NumKnown(p) == pc[p] # "hear" =>
    \A d, e \in Calls :
        d <= e /\ LastOf(d, RecvBase(p), Creates) /\ LastOf(e, RecvBase(p), Listing) =>
            \A q \in Senders(p, d) : numRecv[p][q] = Cardinality(Listed(q, p, e))
SizeKnown(p) == pc[p] # "hearsize" =>
    \A d \in Calls : LastOf(d, call[p] - 1, Creates) /\ Program[d] = "create_data_variable" =>
        \A q \in Senders(p, d) : sizeRecv[p][q] = proclist[d][q].bytes[p]

\* A loop of wildcard receives has heard senders only, each once.
Listening(p) == pc[p] \in {"hear", "hearsize"} =>
    /\ OnceEach(heard[p])
    /\ \A d \in Calls : LastOf(d, call[p], Creates) => SetOf(heard[p]) \subseteq Senders(p, d)
    /\ \A q \in SetOf(heard[p]) :
         /\ pc[p] = "hear" /\ Method(p) \in Listing =>
              numRecv[p][q] = Cardinality(Listed(q, p, call[p]))
         /\ pc[p] = "hearsize" => sizeRecv[p][q] = proclist[call[p]][q].bytes[p]

\* Blocks that have arrived are those of this exchange.
Arriving(p) ==
    /\ posted[p] # {} => Exchanging(p)
    /\ posted[p] \subseteq SetOf(procRecv[p])
    /\ Exchanging(p) => \A e \in Calls : LastOf(e, call[p], Listing) =>
         /\ \A q \in SetOf(procRecv[p]) \ posted[p] : arrived[p][q] = BlockOf(q, p, call[p], e)
         /\ pc[p] = "wait" => arrived[p][p] = BlockOf(p, p, call[p], e)
Buffered(p) == AfterExchange(p) =>
    \A e \in Calls : LastOf(e, call[p] - 1, Listing) =>
        recvbuf[p] = <<BlockOf(p, p, call[p] - 1, e)>> \o
            [i \in DOMAIN procRecv[p] |-> BlockOf(procRecv[p][i], p, call[p] - 1, e)]

\* Call e sends a message with tag 0 from q to p; it has been; it was received.
Sends(q, p, e) == \E d \in Calls : LastOf(d, e, Creates) /\ q \in Senders(p, d)
SentTo(q, p, e) ==
    \/ call[q] > e
    \/ /\ call[q] = e
       /\ \/ pc[q] \in {"hear", "barrier", "tellsize", "hearsize", "wait"}
          \/ pc[q] \in {"tell", "send", "blocked"} /\ p \notin unsent[q]
          \/ pc[q] = "blocked" /\ IsNextDest(q, p, unsent[q])
HeardFrom(p, q, e) ==
    \/ call[p] > e
    \/ /\ call[p] = e
       /\ \/ pc[p] = "hear" /\ q \in SetOf(heard[p])
          \/ pc[p] \in {"barrier", "tellsize", "hearsize"}
          \/ Exchanging(p) /\ q \notin posted[p]

\* A message with tag 0 from q to p says what the lists of q say.
Right(m, q, p) ==
    IF Program[m.call] \in Exchanges
    THEN \A d, e \in Calls : LastOf(d, m.call, Creates) /\ LastOf(e, m.call, Listing) =>
           /\ m.kind = "data" /\ m.body = BlockOf(q, p, m.call, e)
           /\ m.n = IF Program[m.call] = "exchange_uniform" THEN Cardinality(Listed(q, p, e))
                    ELSE proclist[d][q].bytes[p]
    ELSE /\ m.kind = "count"
         /\ Program[m.call] \in Listing => m.n = Cardinality(Listed(q, p, m.call))

InOrder(s) == \A i, j \in DOMAIN s : i < j => s[i].call < s[j].call
CallsIn(s) == {s[i].call : i \in DOMAIN s}

\* What lies in a channel: the messages sent and not yet received, in order.
DataMail(q, p) ==
    /\ \A e \in Calls : e \in CallsIn(chan[q][p][0]) <=>
                          Sends(q, p, e) /\ SentTo(q, p, e) /\ ~HeardFrom(p, q, e)
    /\ InOrder(chan[q][p][0])
    /\ \A i \in DOMAIN chan[q][p][0] : Right(chan[q][p][0][i], q, p)
    /\ \A e \in Calls : Sends(q, p, e) /\ HeardFrom(p, q, e) => SentTo(q, p, e)

\* The same for byte counts, which have tag 1.
SendsSize(q, p, e) == Program[e] = "create_data_variable" /\ q \in Senders(p, e)
SizeSentTo(q, p, e) ==
    \/ call[q] > e
    \/ call[q] = e /\ pc[q] = "hearsize"
    \/ call[q] = e /\ pc[q] = "tellsize" /\ p \notin unsent[q]
SizeHeardFrom(p, q, e) ==
    call[p] > e \/ (call[p] = e /\ pc[p] = "hearsize" /\ q \in SetOf(heard[p]))
RightSize(m, q, p) == m.n = proclist[m.call][q].bytes[p]
SizeMail(q, p) ==
    /\ \A e \in Calls : e \in CallsIn(chan[q][p][1]) <=>
                          SendsSize(q, p, e) /\ SizeSentTo(q, p, e) /\ ~SizeHeardFrom(p, q, e)
    /\ InOrder(chan[q][p][1])
    /\ \A i \in DOMAIN chan[q][p][1] : RightSize(chan[q][p][1][i], q, p)
    /\ \A e \in Calls : SendsSize(q, p, e) /\ SizeHeardFrom(p, q, e) => SizeSentTo(q, p, e)

\* Nobody makes the sending half of a plan while another is before that call.
PastReduce(p, c) == call[p] > c \/ (call[p] = c /\ pc[p] \notin {"start", "reduce"})
ReduceHolds ==
    \A p \in Proc, c \in Calls :
        Program[c] \in Creates /\ PastReduce(p, c) => EveryonePast(c, BeforeReduce)

LocalInv(p) == /\ MethodOfPhase(p) /\ SendHalf(p)
               /\ RecvPlan(p) /\ NumKnown(p) /\ SizeKnown(p) /\ Listening(p)
               /\ Arriving(p) /\ Buffered(p)
PlanInv == /\ PhaseInv /\ ReduceHolds
           /\ \A p \in Proc : LocalInv(p)
           /\ \A p, q \in Proc : DataMail(q, p) /\ SizeMail(q, p)

-----------------------------------------------------------------------------
(* Last calls of a kind.                                                   *)
LEMMA LastOne ==
    ASSUME NEW c \in Nat, NEW d, NEW e, NEW methods,
           LastOf(d, c, methods), LastOf(e, c, methods)
    PROVE  d = e
BY DEF LastOf

LEMMA LastItself ==
    ASSUME NEW c \in Calls, NEW methods, Program[c] \in methods
    PROVE  \A d : LastOf(d, c, methods) <=> d = c
BY CallsNumbered DEF LastOf

LEMMA LastEarlier ==
    ASSUME NEW c \in Calls, NEW methods, Program[c] \notin methods
    PROVE  \A d : LastOf(d, c, methods) <=> LastOf(d, c - 1, methods)
BY CallsNumbered DEF LastOf

LEMMA LastIsCall ==
    ASSUME NEW c \in 0 .. Len(Program), NEW d, NEW methods, LastOf(d, c, methods)
    PROVE  d \in Calls /\ d <= c /\ Program[d] \in methods
BY CallsNumbered DEF LastOf

\* Whatever call it is, there is a plan.
LEMMA PlanExists ==
    ASSUME NEW c \in Calls
    PROVE  \E d \in Calls : d <= c /\ LastOf(d, c, Creates)
<1>1. c \in 0 .. Len(Program)
  BY CallsNumbered
<1>2. CASE Program[c] \in Creates
  BY <1>2, CallsNumbered DEF LastOf
<1>3. CASE Program[c] \notin Creates
  <2>1. PICK d \in 1 .. c : LastOf(d, c, Creates)
    BY <1>3, ProgramOrderAssumption
  <2> QED BY <1>1, <2>1, LastIsCall
<1> QED BY <1>2, <1>3

\* A byte count is listed only by the method that makes a plan with them.
LEMMA BytesOfPlan ==
    ASSUME NEW c \in Calls, NEW d, LastOf(d, c, Creates), Program[d] = "create_data_variable"
    PROVE  LastOf(d, c, {"create_data_variable"})
BY CallsNumbered DEF LastOf, Creates

-----------------------------------------------------------------------------
(* Enough messages have been heard when as many as the Reduce_scatter said *)
(* have come from different senders.                                       *)
LEMMA SendersFinite ==
    ASSUME NEW p \in Proc, NEW c
    PROVE  IsFiniteSet(Senders(p, c)) /\ Cardinality(Senders(p, c)) \in Nat
<1>1. IsFiniteSet(Proc) /\ Senders(p, c) \in SUBSET Proc
  BY ProcFinite DEF Senders
<1> QED BY <1>1, FS_Subset, FS_CardinalityType

LEMMA NRecvEnough ==
    ASSUME NEW p \in Proc, NEW c \in Calls, proclist \in [Calls -> [Proc -> Lists]]
    PROVE  Cardinality(Senders(p, c)) <= NRecv(p, c)
<1> DEFINE P(q) == {q} \X Indices(proclist[c][q], p)
           U == UNION {P(q) : q \in Proc \ {p}}
<1>1. CASE Program[c] # "create_data_uniform_grouped"
  <2>1. NRecv(p, c) = Cardinality(Senders(p, c))
    BY <1>1 DEF NRecv, Senders
  <2> QED BY <2>1, SendersFinite
<1>2. CASE Program[c] = "create_data_uniform_grouped"
  <2>1. NRecv(p, c) = Cardinality(U)
    BY <1>2 DEF NRecv
  <2>2. IsFiniteSet(U)
    <3>1. IsFiniteSet(Proc \ {p})
      BY ProcFinite, FS_Difference
    <3>2. IsFiniteSet({P(q) : q \in Proc \ {p}})
      <4>1. [q \in Proc \ {p} |-> P(q)] \in Surjection(Proc \ {p}, {P(q) : q \in Proc \ {p}})
        BY DEF Surjection
      <4> QED BY <3>1, <4>1, FS_Surjection
    <3>3. \A T \in {P(q) : q \in Proc \ {p}} : IsFiniteSet(T)
      <4> SUFFICES ASSUME NEW q \in Proc \ {p} PROVE IsFiniteSet(P(q))
        OBVIOUS
      <4>0. proclist[c][q] \in Lists
        OBVIOUS
      <4>1. IsFiniteSet(Indices(proclist[c][q], p)) /\ IsFiniteSet({q})
        BY <4>0, IndicesFinite, FS_Singleton DEF Numbers
      <4> QED BY <4>1, FS_Product
    <3> QED BY <3>2, <3>3, FS_UNION
  <2> DEFINE f == [q \in Senders(p, c) |-> <<q, CHOOSE i : i \in Indices(proclist[c][q], p)>>]
  <2>3. \A q \in Senders(p, c) : f[q] \in U
    <3> SUFFICES ASSUME NEW q \in Senders(p, c) PROVE f[q] \in U
      OBVIOUS
    <3>1. q \in Proc \ {p} /\ \E i : i \in Indices(proclist[c][q], p)
      BY DEF Senders, Dests, Indices
    <3>2. f[q] \in P(q)
      BY <3>1
    <3> QED BY <3>1, <3>2
  <2>4. f \in Injection(Senders(p, c), U)
    <3>1. f \in [Senders(p, c) -> U]
      BY <2>3
    <3>2. \A q, r \in Senders(p, c) : f[q] = f[r] => q = r
      OBVIOUS
    <3> HIDE DEF f
    <3> QED BY <3>1, <3>2 DEF Injection, IsInjective
  <2> QED BY <2>1, <2>2, <2>4, FS_Injection
<1> QED BY <1>1, <1>2

LEMMA AllHeard ==
    ASSUME NEW p \in Proc, NEW d \in Calls, NEW s \in Seq(Proc),
           proclist \in [Calls -> [Proc -> Lists]],
           OnceEach(s), SetOf(s) \subseteq Senders(p, d), Len(s) = NRecv(p, d)
    PROVE  SetOf(s) = Senders(p, d)
<1>1. DOMAIN s = 1 .. Len(s) /\ Len(s) \in Nat
  OBVIOUS
<1>2. s \in Injection(1 .. Len(s), SetOf(s))
  <2>1. s \in [DOMAIN s -> SetOf(s)]
    BY DEF SetOf
  <2> QED BY <1>1, <2>1 DEF Injection, IsInjective, OnceEach
<1>3. IsFiniteSet(Senders(p, d)) /\ IsFiniteSet(SetOf(s)) /\ SetOf(s) \in SUBSET Senders(p, d)
  BY SendersFinite, FS_Subset
<1>4. Cardinality(1 .. Len(s)) = Len(s)
  BY <1>1, FS_Interval
<1>5. Len(s) <= Cardinality(SetOf(s))
  BY <1>2, <1>3, <1>4, FS_Injection
<1>6. Cardinality(SetOf(s)) <= Cardinality(Senders(p, d))
  BY <1>3, FS_Subset
<1>7. Cardinality(Senders(p, d)) <= Len(s)
  BY NRecvEnough
<1>8. Cardinality(SetOf(s)) \in Nat /\ Cardinality(Senders(p, d)) \in Nat
  BY <1>3, FS_CardinalityType
<1> QED BY <1>1, <1>3, <1>5, <1>6, <1>7, <1>8, FS_Subset

\* What a step of another process leaves alone.
SameOwn(r) ==
    /\ call'[r] = call[r] /\ pc'[r] = pc[r] /\ send'[r] = send[r] /\ nrecv'[r] = nrecv[r]
    /\ procRecv'[r] = procRecv[r] /\ numRecv'[r] = numRecv[r] /\ sizeRecv'[r] = sizeRecv[r]
    /\ unsent'[r] = unsent[r] /\ heard'[r] = heard[r] /\ posted'[r] = posted[r]
    /\ arrived'[r] = arrived[r] /\ recvbuf'[r] = recvbuf[r]

LEMMA StepFrame ==
    ASSUME TypeOK, NEW p \in Proc, Step(p)
    PROVE  proclist' = proclist /\ \A r \in Proc \ {p} : SameOwn(r)
<1> USE DEF SameOwn, plan, Goto, Return
<1>0. /\ DOMAIN call = Proc /\ DOMAIN pc = Proc /\ DOMAIN send = Proc
      /\ DOMAIN nrecv = Proc /\ DOMAIN procRecv = Proc /\ DOMAIN numRecv = Proc
      /\ DOMAIN sizeRecv = Proc /\ DOMAIN unsent = Proc /\ DOMAIN heard = Proc
      /\ DOMAIN posted = Proc /\ DOMAIN arrived = Proc /\ DOMAIN recvbuf = Proc
  BY DEF TypeOK, ControlType, SendType, RecvType, LoopType, BufferType
<1>1. CASE StartCreate(p) \/ Reduce(p) \/ StartAugment(p) \/ Tell(p) \/ Told(p)
  BY <1>0, <1>1 DEF StartCreate, Reduce, StartAugment, Tell, Told
<1>2. CASE Hear(p) \/ Heard(p)
  BY <1>0, <1>2 DEF Hear, Heard
<1>3. CASE Barrier(p) \/ TellSize(p) \/ ToldSize(p) \/ HearSize(p) \/ HeardSize(p)
  BY <1>0, <1>3 DEF Barrier, TellSize, ToldSize, HearSize, HeardSize
<1>4. CASE StartExchange(p) \/ Send(p) \/ Unblock(p) \/ Sent(p) \/ Waitall(p)
  BY <1>0, <1>4 DEF StartExchange, Send, Unblock, Sent, Waitall
<1>5. CASE \E q \in Proc : Match(q, p)
  BY <1>0, <1>5 DEF Match
<1> QED BY <1>1, <1>2, <1>3, <1>4, <1>5 DEF Step

LEMMA LocalFrame ==
    ASSUME NEW r \in Proc, LocalInv(r), proclist' = proclist, SameOwn(r)
    PROVE  LocalInv(r)'
<1> USE DEF SameOwn
<1>1. MethodOfPhase(r)'
  BY DEF LocalInv, MethodOfPhase, Method
<1>2. SendHalf(r)'
  <2>1. \A d : NRecv(r, d)' = NRecv(r, d)
    BY DEF NRecv
  <2>2. \A q, e : Listed(r, q, e)' = Listed(r, q, e)
    BY DEF Listed
  <2>3. SendBase(r)' = SendBase(r)
    BY DEF SendBase
  <2>4. SendHalf(r)
    BY DEF LocalInv
  <2> QED BY <2>1, <2>2, <2>3, <2>4 DEF SendHalf
<1>3. RecvPlan(r)' /\ NumKnown(r)'
  BY DEF LocalInv, RecvPlan, NumKnown, RecvBase, Senders, Listed
<1>4. SizeKnown(r)' /\ Listening(r)'
  BY DEF LocalInv, SizeKnown, Listening, Senders, Listed, Method
<1>5. Arriving(r)' /\ Buffered(r)'
  BY DEF LocalInv, Arriving, Buffered, Exchanging, AfterExchange, BlockOf, Listed
<1> QED BY <1>1, <1>2, <1>3, <1>4, <1>5 DEF LocalInv

-----------------------------------------------------------------------------
(* The sending half of a plan.                                             *)
LEMMA SendHalfKeeps ==
    ASSUME NEW p \in Proc, SendHalf(p), proclist' = proclist,
           send'[p] = send[p], nrecv'[p] = nrecv[p], SendBase(p)' = SendBase(p),
           pc'[p] \in {"tell", "tellsize", "send", "blocked"} => unsent'[p] \subseteq send[p].dests
    PROVE  SendHalf(p)'
<1>1. \A d : NRecv(p, d)' = NRecv(p, d)
  BY DEF NRecv
<1>2. \A q, e : Listed(p, q, e)' = Listed(p, q, e)
  BY DEF Listed
<1> QED BY <1>1, <1>2 DEF SendHalf

LEMMA SendHalfReduce ==
    ASSUME TypeOK, NEW p \in Proc, LocalInv(p), Reduce(p)
    PROVE  SendHalf(p)'
<1> DEFINE c == call[p]
<1>1. c \in Calls /\ Program[c] \in Creates /\ SendBase(p) = c - 1 /\ SendBase(p)' = c
  BY DEF Reduce, TypeOK, ControlType, Running, LocalInv, MethodOfPhase, Method, SendBase, Goto
<1>2. \A d : NRecv(p, d)' = NRecv(p, d)
  BY DEF Reduce, NRecv
<1>3. \A q, e : Listed(p, q, e)' = Listed(p, q, e)
  BY DEF Reduce, Listed
<1>4. \A d : LastOf(d, c, Creates) => d = c
  BY <1>1, LastItself
<1>5. /\ nrecv'[p] = NRecv(p, c) /\ unsent'[p] = send'[p].dests
      /\ send'[p].dests = Dests(proclist[c][p]) \ {p}
  BY DEF Reduce, TypeOK, RecvType, LoopType, SendType, MyList
<1>6. ASSUME NEW e \in Calls, LastOf(e, c, Listing)
      PROVE  send'[p].index = [q \in Proc |-> Listed(p, q, e)]
  <2>1. CASE Program[c] = "create_procs"
    <3>1. LastOf(e, c - 1, Listing)
      BY <1>1, <1>6, <2>1, LastEarlier DEF Listing
    <3>2. send'[p].index = send[p].index
      BY <2>1 DEF Reduce, TypeOK, SendType, Method
    <3> QED BY <1>1, <3>1, <3>2 DEF LocalInv, SendHalf
  <2>2. CASE Program[c] # "create_procs"
    <3>1. e = c
      BY <1>1, <1>6, <2>2, LastItself DEF Listing
    <3>2. send'[p].index = [q \in Proc |-> Indices(MyList(p), q)]
      BY <2>2 DEF Reduce, TypeOK, SendType, Method
    <3> QED BY <3>1, <3>2 DEF Listed, MyList
  <2> QED BY <2>1, <2>2
<1>7. ASSUME NEW d \in Calls, LastOf(d, c, {"create_data_variable"})
      PROVE  send'[p].bytes = proclist[d][p].bytes
  <2>1. CASE Program[c] = "create_data_variable"
    <3>1. d = c
      BY <1>1, <1>7, <2>1, LastItself
    <3> QED BY <2>1, <3>1 DEF Reduce, TypeOK, SendType, Method, MyList
  <2>2. CASE Program[c] # "create_data_variable"
    <3>1. LastOf(d, c - 1, {"create_data_variable"})
      BY <1>1, <1>7, <2>2, LastEarlier
    <3>2. send'[p].bytes = send[p].bytes
      BY <2>2 DEF Reduce, TypeOK, SendType, Method
    <3> QED BY <1>1, <3>1, <3>2 DEF LocalInv, SendHalf
  <2> QED BY <2>1, <2>2
<1>8. proclist' = proclist
  BY DEF Reduce
<1> QED BY <1>1, <1>2, <1>3, <1>4, <1>5, <1>6, <1>7, <1>8 DEF SendHalf

\* A call that is no create method takes the plan over.
LEMMA SendHalfTaken ==
    ASSUME TypeOK, NEW p \in Proc, LocalInv(p), StartAugment(p) \/ StartExchange(p)
    PROVE  SendHalf(p)'
<1> DEFINE c == call[p]
<1>1. /\ c \in Calls /\ Program[c] \in Exchanges \union {"augment_data_uniform"}
      /\ SendBase(p) = c - 1 /\ SendBase(p)' = c
      /\ proclist' = proclist /\ nrecv' = nrecv
      /\ unsent'[p] = send[p].dests /\ send'[p].dests = send[p].dests
      /\ send'[p].bytes = send[p].bytes
  BY DEF StartAugment, StartExchange, TypeOK, ControlType, LoopType, SendType, Running, Method,
         SendBase, Goto, plan
<1>2. /\ \A d : NRecv(p, d)' = NRecv(p, d)
      /\ \A q, e : Listed(p, q, e)' = Listed(p, q, e)
  BY <1>1 DEF NRecv, Listed
<1>3. Program[c] \notin Creates /\ Program[c] \notin {"create_data_variable"}
  BY <1>1 DEF Creates, Exchanges
<1>4. \A d : LastOf(d, c, Creates) <=> LastOf(d, c - 1, Creates)
  BY <1>1, <1>3, LastEarlier
<1>5. \A d : LastOf(d, c, {"create_data_variable"}) <=> LastOf(d, c - 1, {"create_data_variable"})
  BY <1>1, <1>3, LastEarlier
<1>6. ASSUME NEW e \in Calls, LastOf(e, c, Listing)
      PROVE  send'[p].index = [q \in Proc |-> Listed(p, q, e)]
  <2>1. CASE StartAugment(p)
    <3>1. e = c
      BY <1>1, <1>6, <2>1, LastItself DEF Listing, StartAugment, Method
    <3>2. send'[p].index = [q \in Proc |-> Indices(MyList(p), q)]
      BY <2>1 DEF StartAugment, TypeOK, SendType
    <3> QED BY <3>1, <3>2 DEF Listed, MyList
  <2>2. CASE StartExchange(p)
    <3>1. Program[c] \notin Listing
      BY <2>2 DEF StartExchange, Method, Exchanges, Listing, Creates
    <3>2. LastOf(e, c - 1, Listing)
      BY <1>1, <1>6, <3>1, LastEarlier
    <3>3. send' = send
      BY <2>2 DEF StartExchange, plan
    <3> QED BY <1>1, <3>2, <3>3 DEF LocalInv, SendHalf
  <2> QED BY <2>1, <2>2
<1> QED BY <1>1, <1>2, <1>4, <1>5, <1>6 DEF LocalInv, SendHalf

LEMMA StepSendHalf ==
    ASSUME TypeOK, NEW p \in Proc, LocalInv(p), Step(p)
    PROVE  SendHalf(p)'
<1> DEFINE Kept == /\ send'[p] = send[p] /\ nrecv'[p] = nrecv[p]
                   /\ SendBase(p)' = SendBase(p)
                   /\ pc'[p] \in {"tell", "tellsize", "send", "blocked"} =>
                        unsent'[p] \subseteq send[p].dests
<1>1. /\ call[p] \in Nat /\ call \in [Proc -> Nat] /\ pc \in [Proc -> Phases]
      /\ unsent \in [Proc -> SUBSET Proc] /\ p \in Proc
  BY CallsNumbered DEF TypeOK, ControlType, LoopType
<1>2. pc[p] \in {"tell", "tellsize", "send", "blocked"} => unsent[p] \subseteq send[p].dests
  BY DEF LocalInv, SendHalf
<1>3. Kept => SendHalf(p)'
  BY StepFrame, SendHalfKeeps DEF LocalInv
<1>4. CASE Reduce(p)
  BY <1>4, SendHalfReduce
<1>5. CASE StartAugment(p) \/ StartExchange(p)
  BY <1>5, SendHalfTaken
<1>6. CASE StartCreate(p) \/ Told(p) \/ Hear(p) \/ Heard(p)
  <2>1. Kept
    BY <1>1, <1>6 DEF StartCreate, Told, Hear, Heard, SendBase, plan, Goto
  <2> QED BY <1>3, <2>1
<1>7. CASE Tell(p) \/ TellSize(p) \/ Send(p) \/ Unblock(p)
  <2>1. /\ send' = send /\ nrecv' = nrecv /\ call' = call /\ unsent'[p] \subseteq unsent[p]
        /\ pc[p] \in {"tell", "tellsize", "send", "blocked"} /\ pc'[p] \notin {"start", "reduce"}
    BY <1>1, <1>7 DEF Tell, TellSize, Send, Unblock, plan, Goto
  <2> QED BY <1>2, <1>3, <2>1 DEF SendBase
<1>8. CASE Barrier(p) \/ HeardSize(p) \/ Waitall(p)
  <2>1. Kept
    <3>1. send' = send /\ nrecv' = nrecv /\ pc[p] \in {"barrier", "hearsize", "wait"}
      BY <1>8 DEF Barrier, HeardSize, Waitall, plan
    <3>2. \/ pc'[p] = "start" /\ call'[p] = call[p] + 1
          \/ pc'[p] = "tellsize" /\ call'[p] = call[p] /\ unsent'[p] = send[p].dests
      <4>1. CASE Barrier(p)
        BY <1>1, <4>1 DEF Barrier, Goto, Return
      <4>2. CASE HeardSize(p) \/ Waitall(p)
        BY <1>1, <4>2 DEF HeardSize, Waitall, Goto, Return
      <4> QED BY <1>8, <4>1, <4>2
    <3>3. SendBase(p) = call[p] /\ SendBase(p)' = call[p]
      BY <1>1, <3>1, <3>2 DEF SendBase
    <3> QED BY <3>1, <3>2, <3>3
  <2> QED BY <1>3, <2>1
<1>9. CASE ToldSize(p) \/ HearSize(p) \/ Sent(p) \/ \E q \in Proc : Match(q, p)
  <2>1. Kept
    BY <1>1, <1>2, <1>9 DEF ToldSize, HearSize, Sent, Match, SendBase, plan, Goto
  <2> QED BY <1>3, <2>1
<1> QED BY <1>4, <1>5, <1>6, <1>7, <1>8, <1>9 DEF Step

-----------------------------------------------------------------------------
(* What a receive takes out of a channel.                                  *)

\* The oldest message of a channel is one its receiver has not heard, and it
\* is of the call the receiver is in, or of a later one.
LEMMA OldestData ==
    ASSUME TypeOK, NEW q \in Proc, NEW p \in Proc, DataMail(q, p), chan[q][p][0] # <<>>
    PROVE  LET m == Oldest(q, p, 0)
           IN  /\ m \in MessageType /\ m.call \in Calls /\ m.call >= call[p]
               /\ Right(m, q, p) /\ Sends(q, p, m.call) /\ SentTo(q, p, m.call)
               /\ ~HeardFrom(p, q, m.call)
               /\ \A e \in CallsIn(chan[q][p][0]) : m.call <= e
<1> DEFINE s == chan[q][p][0]
           m == Oldest(q, p, 0)
<1>1. s \in Seq(MessageType) /\ s # <<>>
  BY DEF TypeOK, ChanType
<1>2. 1 \in DOMAIN s /\ m = s[1] /\ DOMAIN s = 1 .. Len(s) /\ Len(s) \in Nat
  BY <1>1 DEF Oldest
<1>3. m \in MessageType /\ m.call \in Calls
  <2>1. m \in MessageType
    BY <1>1, <1>2
  <2> QED BY <2>1 DEF MessageType
<1>4. m.call \in CallsIn(s)
  BY <1>2 DEF CallsIn
<1>5. Right(m, q, p) /\ Sends(q, p, m.call) /\ SentTo(q, p, m.call) /\ ~HeardFrom(p, q, m.call)
  BY <1>2, <1>3, <1>4 DEF DataMail
<1>6. m.call \in Nat /\ call[p] \in Nat
  BY <1>3, CallsNumbered DEF TypeOK, ControlType
<1>7. m.call >= call[p]
  BY <1>5, <1>6 DEF HeardFrom
<1>8. \A e \in CallsIn(s) : m.call <= e
  <2> SUFFICES ASSUME NEW j \in DOMAIN s PROVE m.call <= s[j].call
    BY DEF CallsIn
  <2>1. CASE j = 1
    BY <1>2, <1>6, <2>1
  <2>2. CASE j # 1
    <3>1. m.call < s[j].call
      BY <1>2, <2>2 DEF DataMail, InOrder
    <3>2. s[j] \in MessageType
      BY <1>1
    <3>3. s[j].call \in Nat
      BY <3>2, CallsNumbered DEF MessageType
    <3> QED BY <1>6, <3>1, <3>3
  <2> QED BY <2>1, <2>2
<1> QED BY <1>3, <1>5, <1>7, <1>8

\* A wildcard receive of counts takes one of this call, from a sender that has
\* not been heard yet.
LEMMA HearsThisCall ==
    ASSUME PlanInv, NEW q \in Proc, NEW p \in Proc, pc[p] = "hear", chan[q][p][0] # <<>>
    PROVE  LET m == Oldest(q, p, 0)
           IN  /\ m.call = call[p] /\ Right(m, q, p) /\ Sends(q, p, call[p])
               /\ q \notin SetOf(heard[p])
<1> DEFINE m == Oldest(q, p, 0)
<1>1. TypeOK /\ DataMail(q, p) /\ NothingOvertakes
  BY PhaseSeparates DEF PlanInv, PhaseInv
<1>2. /\ m \in MessageType /\ m.call \in Calls /\ m.call >= call[p] /\ Right(m, q, p)
      /\ Sends(q, p, m.call) /\ ~HeardFrom(p, q, m.call)
  BY <1>1, OldestData
<1>3. m.call <= call[p]
  <2>1. chan[q][p][0] \in Seq(MessageType)
    BY <1>1 DEF TypeOK, ChanType
  <2>2. 1 \in DOMAIN chan[q][p][0] /\ m = chan[q][p][0][1]
    BY <2>1 DEF Oldest
  <2> QED BY <1>1, <2>2 DEF NothingOvertakes
<1>4. m.call \in Nat /\ call[p] \in Nat
  BY <1>1, <1>2, CallsNumbered DEF TypeOK, ControlType
<1>5. m.call = call[p]
  BY <1>2, <1>3, <1>4
<1> QED BY <1>2, <1>5 DEF HeardFrom

\* The sources of a plan are its senders, and never the process itself.
LEMMA SourcesSend ==
    ASSUME TypeOK, NEW p \in Proc, RecvPlan(p), Exchanging(p), call[p] \in Calls
    PROVE  \E d \in Calls : /\ d <= call[p] /\ LastOf(d, call[p], Creates)
                            /\ SetOf(procRecv[p]) = Senders(p, d)
<1>1. PICK d \in Calls : d <= call[p] /\ LastOf(d, call[p], Creates)
  BY PlanExists
<1>2. RecvBase(p) = call[p]
  BY DEF Exchanging, RecvBase, BeforeBarrier
<1> QED BY <1>1, <1>2 DEF RecvPlan

\* An open Irecv is matched by a message of this exchange.
LEMMA MatchesThisCall ==
    ASSUME PlanInv, NEW q \in Proc, NEW p \in Proc, q \in posted[p], chan[q][p][0] # <<>>
    PROVE  LET m == Oldest(q, p, 0)
           IN  /\ m.call = call[p] /\ Right(m, q, p) /\ Sends(q, p, call[p]) /\ q # p
               /\ Exchanging(p) /\ Program[call[p]] \in Exchanges
<1> DEFINE m == Oldest(q, p, 0)
           c == call[p]
<1>1. TypeOK /\ DataMail(q, p) /\ Arriving(p) /\ RecvPlan(p) /\ PhaseOfMethod
  BY DEF PlanInv, PhaseInv, LocalInv
<1>2. /\ m \in MessageType /\ m.call \in Calls /\ m.call >= c /\ Right(m, q, p)
      /\ SentTo(q, p, m.call) /\ \A e \in CallsIn(chan[q][p][0]) : m.call <= e
  BY <1>1, OldestData
<1>3. Exchanging(p) /\ c \in Calls /\ Program[c] \in Exchanges
  BY <1>1 DEF Arriving, Exchanging, TypeOK, ControlType, Running, PhaseOfMethod, Method
<1>4. Sends(q, p, c) /\ q # p
  <2>1. PICK d \in Calls : LastOf(d, c, Creates) /\ SetOf(procRecv[p]) = Senders(p, d)
    BY <1>1, <1>3, SourcesSend
  <2>2. q \in Senders(p, d)
    BY <1>1, <2>1 DEF Arriving
  <2> QED BY <2>1, <2>2 DEF Sends, Senders
<1>5. m.call \in Nat /\ c \in Nat /\ call[q] \in Nat
  BY <1>1, <1>2, CallsNumbered DEF TypeOK, ControlType
<1>6. m.call <= c
  <2>1. CASE SentTo(q, p, c)
    <3>1. ~HeardFrom(p, q, c)
      BY <1>3, <1>5 DEF HeardFrom, Exchanging
    <3>2. c \in CallsIn(chan[q][p][0])
      BY <1>1, <1>3, <1>4, <2>1, <3>1 DEF DataMail
    <3> QED BY <1>2, <3>2
  <2>2. CASE ~SentTo(q, p, c)
    <3>1. call[q] <= c
      BY <1>5, <2>2 DEF SentTo
    <3> QED BY <1>2, <1>5, <3>1 DEF SentTo
  <2> QED BY <2>1, <2>2
<1>7. m.call = c
  BY <1>2, <1>5, <1>6
<1> QED BY <1>2, <1>3, <1>4, <1>7

\* A wildcard receive of byte counts takes one of this call, although no
\* barrier ends their exchange: the next one is sent after the next barrier.
LEMMA HearsThisSize ==
    ASSUME PlanInv, NEW q \in Proc, NEW p \in Proc, pc[p] = "hearsize",
           NEW i \in DOMAIN chan[q][p][1]
    PROVE  LET m == chan[q][p][1][i]
           IN  /\ m.call = call[p] /\ m.n = proclist[call[p]][q].bytes[p]
               /\ SendsSize(q, p, call[p]) /\ q \notin SetOf(heard[p])
<1> DEFINE m == chan[q][p][1][i]
           c == call[p]
<1>1. TypeOK /\ SizeMail(q, p) /\ BarrierHolds
  BY DEF PlanInv, PhaseInv
<1>2. m \in MessageType /\ m.call \in Calls /\ m.call \in CallsIn(chan[q][p][1])
  <2>1. chan[q][p][1] \in Seq(MessageType)
    BY <1>1 DEF TypeOK, ChanType
  <2>2. m \in MessageType
    BY <2>1
  <2> QED BY <2>2 DEF MessageType, CallsIn
<1>3. SendsSize(q, p, m.call) /\ SizeSentTo(q, p, m.call) /\ ~SizeHeardFrom(p, q, m.call)
  BY <1>1, <1>2 DEF SizeMail
<1>4. m.call \in Nat /\ c \in Nat
  BY <1>1, <1>2, CallsNumbered DEF TypeOK, ControlType
<1>5. m.call >= c
  BY <1>3, <1>4 DEF SizeHeardFrom
<1>6. m.call <= c
  <2>1. Program[m.call] \notin Exchanges /\ PastBarrier(q, m.call)
    BY <1>3 DEF SendsSize, SizeSentTo, PastBarrier, Exchanges
  <2>2. EveryonePast(m.call, BeforeBarrier)
    BY <1>1, <1>2, <2>1 DEF BarrierHolds
  <2> QED BY <1>4, <2>2 DEF EveryonePast
<1>7. m.call = c
  BY <1>4, <1>5, <1>6
<1>8. m.n = proclist[c][q].bytes[p]
  BY <1>1, <1>7 DEF SizeMail, RightSize
<1> QED BY <1>3, <1>7, <1>8 DEF SizeHeardFrom

-----------------------------------------------------------------------------
(* The receiving half of a plan.                                           *)

\* What has been heard when as many have been as the Reduce_scatter said.
LEMMA HeardAll ==
    ASSUME TypeOK, NEW p \in Proc, LocalInv(p), pc[p] \in {"hear", "hearsize"},
           Len(heard[p]) = nrecv[p], NEW d \in Calls, LastOf(d, call[p], Creates)
    PROVE  SetOf(heard[p]) = Senders(p, d) /\ OnceEach(heard[p])
<1>1. SendBase(p) = call[p]
  BY DEF SendBase
<1>2. nrecv[p] = NRecv(p, d)
  BY <1>1 DEF LocalInv, SendHalf
<1>3. OnceEach(heard[p]) /\ SetOf(heard[p]) \subseteq Senders(p, d)
  BY DEF LocalInv, Listening
<1>4. heard[p] \in Seq(Proc) /\ proclist \in [Calls -> [Proc -> Lists]]
  BY DEF TypeOK, LoopType
<1> QED BY <1>2, <1>3, <1>4, AllHeard

\* Sorting what was heard, each once, puts it in strict order.
LEMMA SortStrict ==
    ASSUME NEW t \in Seq(Proc), NEW s \in [DOMAIN t -> SetOf(t)], OnceEach(t), IsSortOf(s, t)
    PROVE  /\ SetOf(s) = SetOf(t) /\ OnceEach(s)
           /\ \A i, j \in DOMAIN s : i < j => s[i] < s[j]
<1>1. DOMAIN t = 1 .. Len(t) /\ Len(t) \in Nat /\ DOMAIN s = DOMAIN t
  OBVIOUS
<1>2. IsFiniteSet(DOMAIN t)
  BY <1>1, FS_Interval
<1>3. SetOf(s) = SetOf(t) /\ s \in Surjection(DOMAIN t, SetOf(t))
  BY DEF SetOf, IsSortOf, Surjection
<1>4. t \in [DOMAIN t -> SetOf(t)]
  BY DEF SetOf
<1>5. t \in Surjection(DOMAIN t, SetOf(t)) /\ t \in Injection(DOMAIN t, SetOf(t))
  BY <1>4 DEF SetOf, OnceEach, Surjection, Injection, IsInjective
<1>6. Cardinality(DOMAIN t) = Cardinality(SetOf(t))
  BY <1>2, <1>5, FS_Surjection
<1>7. s \in Injection(DOMAIN t, SetOf(t))
  BY <1>2, <1>3, <1>6, FS_SurjSameCardinalityImpliesInj
<1>8. OnceEach(s)
  BY <1>7 DEF Injection, IsInjective, OnceEach
<1>9. SetOf(t) \subseteq Int
  <2>1. Proc \subseteq Int
    BY NProcsAssumption DEF Proc
  <2>2. \A i \in DOMAIN t : t[i] \in Proc
    OBVIOUS
  <2> QED BY <2>1, <2>2 DEF SetOf
<1>10. \A i \in DOMAIN s : s[i] \in Int
  BY <1>9
<1>11. ASSUME NEW i \in DOMAIN s, NEW j \in DOMAIN s, i < j PROVE s[i] < s[j]
  <2>1. s[i] <= s[j] /\ i # j
    BY <1>1, <1>11 DEF IsSortOf
  <2>2. s[i] # s[j]
    BY <1>8, <2>1 DEF OnceEach
  <2> QED BY <1>10, <2>1, <2>2
<1> QED BY <1>3, <1>8, <1>11

LEMMA RecvPlanKeeps ==
    ASSUME NEW p \in Proc, proclist' = proclist, RecvPlan(p),
           procRecv'[p] = procRecv[p], RecvBase(p)' = RecvBase(p)
    PROVE  RecvPlan(p)'
<1>1. \A d : Senders(p, d)' = Senders(p, d)
  BY DEF Senders
<1> QED BY <1>1 DEF RecvPlan

\* The sources a create method takes to the barrier are its senders.
LEMMA HeardRecvPlan ==
    ASSUME TypeOK, NEW p \in Proc, LocalInv(p), Heard(p)
    PROVE  RecvPlan(p)'
<1> DEFINE c == call[p]
<1>1. /\ c \in Calls /\ RecvBase(p) = c - 1 /\ RecvBase(p)' = c /\ proclist' = proclist
      /\ pc[p] = "hear" /\ Len(heard[p]) = nrecv[p] /\ procRecv \in [Proc -> Seq(Proc)]
      /\ heard[p] \in Seq(Proc)
  BY DEF Heard, TypeOK, ControlType, RecvType, LoopType, Running, RecvBase, BeforeBarrier, Goto
<1>2. \A d : Senders(p, d)' = Senders(p, d)
  BY <1>1 DEF Senders
<1>3. CASE Program[c] \in Creates
  <2>1. PICK s \in [DOMAIN heard[p] -> SetOf(heard[p])] :
            /\ IF c \in Sort THEN IsSortOf(s, heard[p]) ELSE s = heard[p]
            /\ procRecv' = [procRecv EXCEPT ![p] = s]
    BY <1>3 DEF Heard, SetOf, Method
  <2>2. procRecv'[p] = s
    BY <1>1, <2>1
  <2>3. SetOf(heard[p]) = Senders(p, c) /\ OnceEach(heard[p])
    BY <1>1, <1>3, HeardAll, LastItself
  <2>4. SetOf(s) = Senders(p, c) /\ OnceEach(s)
    BY <1>1, <2>1, <2>3, SortStrict
  <2>5. c \in Sort => \A i, j \in DOMAIN s : i < j => s[i] < s[j]
    BY <1>1, <2>1, <2>3, SortStrict
  <2>6. \A d : LastOf(d, c, Creates) => d = c
    BY <1>1, <1>3, LastItself
  <2> QED BY <1>1, <1>2, <2>2, <2>4, <2>5, <2>6 DEF RecvPlan
<1>4. CASE Program[c] \notin Creates
  <2>1. procRecv' = procRecv
    BY <1>4 DEF Heard, Method
  <2>2. \A d : LastOf(d, c, Creates) <=> LastOf(d, c - 1, Creates)
    BY <1>1, <1>4, LastEarlier
  <2> QED BY <1>1, <1>2, <2>1, <2>2 DEF RecvPlan, LocalInv
<1> QED BY <1>3, <1>4

LEMMA StartExchangeRecvPlan ==
    ASSUME TypeOK, NEW p \in Proc, LocalInv(p), StartExchange(p)
    PROVE  RecvPlan(p)'
<1> DEFINE c == call[p]
<1>1. /\ c \in Calls /\ RecvBase(p) = c - 1 /\ RecvBase(p)' = c /\ proclist' = proclist
      /\ procRecv' = procRecv /\ Program[c] \notin Creates
  BY DEF StartExchange, TypeOK, ControlType, Running, RecvBase, BeforeBarrier, Goto, plan,
         Method, Exchanges, Creates
<1>2. \A d : Senders(p, d)' = Senders(p, d)
  BY <1>1 DEF Senders
<1>3. \A d : LastOf(d, c, Creates) <=> LastOf(d, c - 1, Creates)
  BY <1>1, LastEarlier
<1> QED BY <1>1, <1>2, <1>3 DEF RecvPlan, LocalInv

\* No other step moves the receiving half.
RecvKept(p) == /\ proclist' = proclist /\ procRecv'[p] = procRecv[p]
               /\ RecvBase(p)' = RecvBase(p)
LEMMA StepRecvKept ==
    ASSUME TypeOK, NEW p \in Proc, Step(p)
    PROVE  RecvKept(p) \/ Heard(p) \/ StartExchange(p)
<1>1. /\ call[p] \in Nat /\ call \in [Proc -> Nat] /\ pc \in [Proc -> Phases]
      /\ p \in Proc
  BY CallsNumbered DEF TypeOK, ControlType
<1> USE DEF RecvKept, RecvBase, BeforeBarrier, plan, Goto, Return
<1>2. CASE StartCreate(p) \/ Reduce(p) \/ StartAugment(p) \/ Tell(p) \/ Told(p) \/ Hear(p)
  BY <1>1, <1>2 DEF StartCreate, Reduce, StartAugment, Tell, Told, Hear
<1>3. CASE Barrier(p) \/ TellSize(p) \/ ToldSize(p) \/ HearSize(p) \/ HeardSize(p)
  BY <1>1, <1>3 DEF Barrier, TellSize, ToldSize, HearSize, HeardSize
<1>4. CASE Send(p) \/ Unblock(p) \/ Sent(p) \/ Waitall(p) \/ \E q \in Proc : Match(q, p)
  BY <1>1, <1>4 DEF Send, Unblock, Sent, Waitall, Match
<1> QED BY <1>2, <1>3, <1>4 DEF Step

LEMMA StepRecvPlan ==
    ASSUME TypeOK, NEW p \in Proc, LocalInv(p), Step(p)
    PROVE  RecvPlan(p)'
BY StepRecvKept, RecvPlanKeeps, HeardRecvPlan, StartExchangeRecvPlan DEF LocalInv, RecvKept

\* A process that makes or augments a plan does nothing else.
LEMMA Planning ==
    ASSUME PhaseInv, NEW p \in Proc,
           pc[p] \in {"reduce", "tell", "hear", "barrier", "tellsize", "hearsize"}
    PROVE  call[p] \in Calls /\ Method(p) \in Listing \union {"create_procs"}
<1>1. call[p] \in Calls /\ Method(p) \notin Exchanges
  BY DEF PhaseInv, TypeOK, ControlType, Running, PhaseOfMethod
<1> QED BY <1>1, CallsNumbered DEF Method, Methods, Listing

\* Steps that leave the numbers of datums alone.
LEMMA NumKnownKeeps ==
    ASSUME NEW p \in Proc, NumKnown(p), RecvKept(p), numRecv'[p] = numRecv[p],
           pc'[p] # "hear" => pc[p] # "hear"
    PROVE  NumKnown(p)'
<1>1. \A d, q, e : Senders(p, d)' = Senders(p, d) /\ Listed(q, p, e)' = Listed(q, p, e)
  BY DEF Senders, Listed, RecvKept
<1> QED BY <1>1 DEF NumKnown, RecvKept

LEMMA HeardNumKnown ==
    ASSUME PhaseInv, NEW p \in Proc, LocalInv(p), Heard(p)
    PROVE  NumKnown(p)'
<1> DEFINE c == call[p]
<1>0. TypeOK
  BY DEF PhaseInv
<1>1. /\ c \in Calls /\ RecvBase(p)' = c /\ proclist' = proclist /\ numRecv' = numRecv
      /\ pc[p] = "hear" /\ Len(heard[p]) = nrecv[p]
  BY <1>0 DEF Heard, TypeOK, ControlType, Running, RecvBase, BeforeBarrier, Goto
<1>2. \A d, q, e : Senders(p, d)' = Senders(p, d) /\ Listed(q, p, e)' = Listed(q, p, e)
  BY <1>1 DEF Senders, Listed
<1>3. c \in Nat /\ \A d \in Calls : d \in Nat
  BY <1>1, CallsNumbered
<1>4. ASSUME NEW d \in Calls, NEW e \in Calls, d <= e, LastOf(d, c, Creates),
             LastOf(e, c, Listing), NEW q \in Senders(p, d)
      PROVE  numRecv[p][q] = Cardinality(Listed(q, p, e))
  <2>1. SetOf(heard[p]) = Senders(p, d)
    BY <1>0, <1>1, <1>4, HeardAll
  <2>2. CASE Program[c] \in Listing
    <3>1. e = c
      BY <1>1, <1>4, <2>2, LastItself
    <3> QED BY <1>1, <2>1, <2>2, <3>1 DEF LocalInv, Listening, Method
  <2>3. CASE Program[c] \notin Listing
    <3>1. Program[c] \in Creates
      BY <1>1, <2>3, Planning DEF Method, Creates
    <3>2. d = c
      BY <1>1, <1>4, <3>1, LastItself
    <3> QED BY <1>3, <1>4, <2>3, <3>2 DEF LastOf
  <2> QED BY <2>2, <2>3
<1> QED BY <1>1, <1>2, <1>4 DEF NumKnown

LEMMA StartExchangeNumKnown ==
    ASSUME TypeOK, NEW p \in Proc, LocalInv(p), StartExchange(p)
    PROVE  NumKnown(p)'
<1> DEFINE c == call[p]
<1>1. /\ c \in Calls /\ RecvBase(p) = c - 1 /\ RecvBase(p)' = c /\ proclist' = proclist
      /\ numRecv' = numRecv /\ Program[c] \notin Creates /\ Program[c] \notin Listing
      /\ pc[p] # "hear"
  BY DEF StartExchange, TypeOK, ControlType, Running, RecvBase, BeforeBarrier, Goto, plan,
         Method, Exchanges, Creates, Listing
<1>2. \A d, q, e : Senders(p, d)' = Senders(p, d) /\ Listed(q, p, e)' = Listed(q, p, e)
  BY <1>1 DEF Senders, Listed
<1>3. /\ \A d : LastOf(d, c, Creates) <=> LastOf(d, c - 1, Creates)
      /\ \A d : LastOf(d, c, Listing) <=> LastOf(d, c - 1, Listing)
  BY <1>1, LastEarlier
<1> QED BY <1>1, <1>2, <1>3 DEF NumKnown, LocalInv

\* Only a wildcard receive of a count changes a number of datums.
LEMMA StepNumRecv ==
    ASSUME TypeOK, NEW p \in Proc, Step(p)
    PROVE  /\ ~Hear(p) => numRecv'[p] = numRecv[p]
           /\ ~Heard(p) /\ pc[p] = "hear" => pc'[p] = "hear"
<1>1. pc \in [Proc -> Phases] /\ numRecv \in [Proc -> [Proc -> Nat]] /\ p \in Proc
  BY DEF TypeOK, ControlType, RecvType
<1> USE DEF plan, Goto, Return
<1>2. CASE StartCreate(p) \/ Reduce(p) \/ StartAugment(p) \/ Tell(p) \/ Told(p)
  BY <1>1, <1>2 DEF StartCreate, Reduce, StartAugment, Tell, Told
<1>3. CASE Hear(p) \/ Heard(p)
  <2>1. Hear(p) => pc' = pc
    BY DEF Hear
  <2>2. Heard(p) => numRecv' = numRecv
    BY DEF Heard
  <2> QED BY <1>3, <2>1, <2>2
<1>4. CASE Barrier(p) \/ TellSize(p) \/ ToldSize(p) \/ HearSize(p) \/ HeardSize(p)
  <2>1. numRecv' = numRecv /\ pc[p] # "hear"
    BY <1>4 DEF Barrier, TellSize, ToldSize, HearSize, HeardSize
  <2> QED BY <2>1
<1>5. CASE \/ StartExchange(p) \/ Send(p) \/ Unblock(p) \/ Sent(p) \/ Waitall(p)
           \/ \E q \in Proc : Match(q, p)
  <2>1. numRecv' = numRecv /\ (pc[p] = "hear" => pc' = pc)
    BY <1>5 DEF StartExchange, Send, Unblock, Sent, Waitall, Match
  <2> QED BY <2>1
<1> QED BY <1>2, <1>3, <1>4, <1>5 DEF Step

LEMMA StepNumKnown ==
    ASSUME PhaseInv, NEW p \in Proc, LocalInv(p), Step(p)
    PROVE  NumKnown(p)'
<1>1. TypeOK /\ NumKnown(p)
  BY DEF PhaseInv, LocalInv
<1>2. CASE Heard(p)
  BY <1>2, HeardNumKnown
<1>3. CASE StartExchange(p)
  BY <1>1, <1>3, StartExchangeNumKnown
<1>4. CASE Hear(p)
  BY <1>1, <1>4 DEF NumKnown, Hear
<1>5. CASE ~Heard(p) /\ ~StartExchange(p) /\ ~Hear(p)
  BY <1>1, <1>5, StepRecvKept, StepNumRecv, NumKnownKeeps
<1> QED BY <1>2, <1>3, <1>4, <1>5

-----------------------------------------------------------------------------
(* The numbers of bytes.                                                   *)
LEMMA SizeKnownKeeps ==
    ASSUME NEW p \in Proc, SizeKnown(p), proclist' = proclist, call'[p] = call[p],
           sizeRecv'[p] = sizeRecv[p], pc'[p] # "hearsize" => pc[p] # "hearsize"
    PROVE  SizeKnown(p)'
<1>1. \A d : Senders(p, d)' = Senders(p, d)
  BY DEF Senders
<1> QED BY <1>1 DEF SizeKnown

\* Returning from a call that receives no byte counts.
LEMMA ReturnSizeKnown ==
    ASSUME PhaseInv, NEW p \in Proc, LocalInv(p), Running(p), proclist' = proclist,
           call'[p] = call[p] + 1, sizeRecv'[p] = sizeRecv[p], pc[p] # "hearsize",
           Method(p) # "create_data_variable"
    PROVE  SizeKnown(p)'
<1> DEFINE c == call[p]
<1>1. \A d : Senders(p, d)' = Senders(p, d)
  BY DEF Senders
<1>2. c \in Calls /\ call'[p] - 1 = c
  BY CallsNumbered DEF Running
<1>3. \A d \in Calls : LastOf(d, c, Creates) /\ Program[d] = "create_data_variable"
                         => LastOf(d, c - 1, Creates)
  <2>1. CASE Program[c] \in Creates
    BY <1>2, <2>1, LastItself DEF Method
  <2>2. CASE Program[c] \notin Creates
    BY <1>2, <2>2, LastEarlier
  <2> QED BY <2>1, <2>2
<1> QED BY <1>1, <1>2, <1>3 DEF SizeKnown, LocalInv

LEMMA HeardSizeKnown ==
    ASSUME PhaseInv, NEW p \in Proc, LocalInv(p), HeardSize(p)
    PROVE  SizeKnown(p)'
<1> DEFINE c == call[p]
<1>0. TypeOK
  BY DEF PhaseInv
<1>1. /\ c \in Calls /\ call'[p] - 1 = c /\ proclist' = proclist /\ sizeRecv' = sizeRecv
      /\ pc[p] = "hearsize" /\ Len(heard[p]) = nrecv[p] /\ Program[c] = "create_data_variable"
  BY <1>0, CallsNumbered DEF HeardSize, TypeOK, ControlType, Running, Return, plan, LocalInv, MethodOfPhase,
     Method
<1>2. \A d : Senders(p, d)' = Senders(p, d)
  BY <1>1 DEF Senders
<1>3. \A d : LastOf(d, c, Creates) <=> d = c
  BY <1>1, LastItself DEF Creates
<1>4. SetOf(heard[p]) = Senders(p, c)
  BY <1>0, <1>1, <1>3, HeardAll
<1>5. \A q \in Senders(p, c) : sizeRecv[p][q] = proclist[c][q].bytes[p]
  BY <1>1, <1>4 DEF LocalInv, Listening
<1> QED BY <1>1, <1>2, <1>3, <1>5 DEF SizeKnown

LEMMA StepSizeKnown ==
    ASSUME PhaseInv, NEW p \in Proc, LocalInv(p), Step(p)
    PROVE  SizeKnown(p)'
<1>1. /\ pc \in [Proc -> Phases] /\ sizeRecv \in [Proc -> [Proc -> Nat]] /\ p \in Proc
      /\ call \in [Proc -> Nat] /\ SizeKnown(p) /\ proclist' = proclist
  BY StepFrame, CallsNumbered DEF PhaseInv, TypeOK, ControlType, RecvType, LocalInv
<1> DEFINE Kept == /\ call'[p] = call[p] /\ sizeRecv'[p] = sizeRecv[p]
                   /\ pc'[p] # "hearsize" => pc[p] # "hearsize"
<1>2. Kept => SizeKnown(p)'
  BY <1>1, SizeKnownKeeps
<1>3. CASE StartCreate(p) \/ Reduce(p) \/ StartAugment(p) \/ Tell(p) \/ Told(p) \/ Hear(p) \/ Heard(p)
  <2>1. Kept
    BY <1>1, <1>3 DEF StartCreate, Reduce, StartAugment, Tell, Told, Hear, Heard, plan, Goto
  <2> QED BY <1>2, <2>1
<1>4. CASE Barrier(p)
  <2>1. CASE Method(p) = "create_data_variable"
    <3>1. Kept
      BY <1>1, <1>4, <2>1 DEF Barrier, plan, Goto
    <3> QED BY <1>2, <3>1
  <2>2. CASE Method(p) # "create_data_variable"
    <3>1. Running(p) /\ call'[p] = call[p] + 1 /\ sizeRecv' = sizeRecv /\ pc[p] # "hearsize"
      BY <1>1, <1>4, <2>2 DEF Barrier, plan, Return, PhaseInv, TypeOK, ControlType
    <3> QED BY <1>1, <2>2, <3>1, ReturnSizeKnown
  <2> QED BY <2>1, <2>2
<1>5. CASE HearSize(p)
  BY <1>1, <1>5 DEF HearSize, SizeKnown
<1>6. CASE HeardSize(p)
  BY <1>6, HeardSizeKnown
<1>7. CASE Waitall(p)
  <2>1. /\ Running(p) /\ call'[p] = call[p] + 1 /\ sizeRecv' = sizeRecv /\ pc[p] # "hearsize"
        /\ Method(p) # "create_data_variable"
    BY <1>1, <1>7 DEF Waitall, plan, Return, PhaseInv, TypeOK, ControlType, PhaseOfMethod, Exchanges
  <2> QED BY <1>1, <2>1, ReturnSizeKnown
<1>8. CASE \/ TellSize(p) \/ ToldSize(p) \/ StartExchange(p) \/ Send(p) \/ Unblock(p) \/ Sent(p)
           \/ \E q \in Proc : Match(q, p)
  <2>1. Kept
    BY <1>1, <1>8 DEF TellSize, ToldSize, StartExchange, Send, Unblock, Sent, Match, plan, Goto
  <2> QED BY <1>2, <2>1
<1> QED BY <1>3, <1>4, <1>5, <1>6, <1>7, <1>8 DEF Step

LEMMA AppendHeard ==
    ASSUME NEW s \in Seq(Proc), NEW q \in Proc
    PROVE  /\ SetOf(Append(s, q)) = SetOf(s) \union {q}
           /\ OnceEach(s) /\ q \notin SetOf(s) => OnceEach(Append(s, q))
<1>1. /\ DOMAIN s = 1 .. Len(s) /\ Len(s) \in Nat
      /\ DOMAIN Append(s, q) = 1 .. Len(s) + 1
      /\ \A i \in DOMAIN s : Append(s, q)[i] = s[i]
      /\ Append(s, q)[Len(s) + 1] = q
  OBVIOUS
<1>2. \A i \in 1 .. Len(s) + 1 : i \in DOMAIN s \/ i = Len(s) + 1
  BY <1>1
<1>3. Len(s) + 1 \in DOMAIN Append(s, q) /\ \A i \in DOMAIN s : i \in DOMAIN Append(s, q)
  BY <1>1
<1>4. SetOf(Append(s, q)) = SetOf(s) \union {q}
  BY <1>1, <1>2, <1>3 DEF SetOf
<1>5. ASSUME OnceEach(s), q \notin SetOf(s) PROVE OnceEach(Append(s, q))
  BY <1>1, <1>2, <1>5 DEF SetOf, OnceEach
<1> QED BY <1>4, <1>5

LEMMA EmptyHeard == SetOf(<<>>) = {} /\ OnceEach(<<>>)
BY DEF SetOf, OnceEach

LEMMA HearListening ==
    ASSUME PlanInv, NEW p \in Proc, Hear(p)
    PROVE  Listening(p)'
<1> DEFINE c == call[p]
<1>1. TypeOK /\ Listening(p) /\ PhaseInv
  BY DEF PlanInv, PhaseInv, LocalInv
<1>2. PICK q \in Proc :
        /\ Pop(q, p, 0)
        /\ heard' = [heard EXCEPT ![p] = Append(@, q)]
        /\ numRecv' = IF Method(p) = "create_procs" THEN numRecv
                      ELSE [numRecv EXCEPT ![p][q] = Oldest(q, p, 0).n]
  BY DEF Hear
<1>3. /\ pc[p] = "hear" /\ UNCHANGED <<proclist, call, pc, sizeRecv>>
      /\ heard'[p] = Append(heard[p], q) /\ heard[p] \in Seq(Proc)
      /\ chan[q][p][0] # <<>> /\ c \in Calls
  BY <1>1, <1>2 DEF Hear, TypeOK, LoopType, Pop, ControlType, Running
<1>4. LET m == Oldest(q, p, 0)
      IN  m.call = c /\ Right(m, q, p) /\ Sends(q, p, c) /\ q \notin SetOf(heard[p])
  BY <1>3, HearsThisCall
<1>5. /\ SetOf(heard'[p]) = SetOf(heard[p]) \union {q} /\ OnceEach(heard'[p])
  BY <1>1, <1>3, <1>4, AppendHeard DEF Listening
<1>6. ASSUME NEW d \in Calls, LastOf(d, c, Creates) PROVE SetOf(heard'[p]) \subseteq Senders(p, d)
  <2>1. q \in Senders(p, d)
    BY <1>4, <1>6, <1>3, LastOne, CallsNumbered DEF Sends
  <2> QED BY <1>1, <1>3, <1>5, <1>6, <2>1 DEF Listening
<1>7. ASSUME NEW r \in SetOf(heard'[p]), Method(p) \in Listing
      PROVE  numRecv'[p][r] = Cardinality(Listed(r, p, c))
  <2>0. Method(p) # "create_procs" /\ Method(p) \notin Exchanges /\ numRecv \in [Proc -> [Proc -> Nat]]
    BY <1>1, <1>7 DEF Listing, Creates, Exchanges, TypeOK, RecvType
  <2>1. CASE r = q
    <3>1. Oldest(q, p, 0).n = Cardinality(Listed(q, p, c))
      BY <1>4, <1>7, <2>0 DEF Right, Method
    <3> QED BY <1>2, <2>0, <2>1, <3>1
  <2>2. CASE r # q
    <3>1. r \in SetOf(heard[p])
      BY <1>5, <2>2, <1>7
    <3>2. numRecv[p][r] = Cardinality(Listed(r, p, c))
      BY <1>1, <1>3, <1>7, <3>1 DEF Listening
    <3> QED BY <1>2, <2>0, <2>2, <3>2
  <2> QED BY <2>1, <2>2
<1>8. \A d, r, e : Senders(p, d)' = Senders(p, d) /\ Listed(r, p, e)' = Listed(r, p, e)
  BY <1>3 DEF Senders, Listed
<1>9. OnceEach(heard[p])' /\ SetOf(heard[p])' = SetOf(heard'[p])
  BY <1>5 DEF OnceEach, SetOf
<1> QED BY <1>3, <1>6, <1>7, <1>8, <1>9 DEF Listening, Method

LEMMA HearSizeListening ==
    ASSUME PlanInv, NEW p \in Proc, HearSize(p)
    PROVE  Listening(p)'
<1> DEFINE c == call[p]
<1>1. TypeOK /\ Listening(p) /\ PhaseInv /\ MethodOfPhase(p)
  BY DEF PlanInv, PhaseInv, LocalInv
<1>2. PICK q \in Proc :
        /\ Pop(q, p, 1)
        /\ heard' = [heard EXCEPT ![p] = Append(@, q)]
        /\ sizeRecv' = [sizeRecv EXCEPT ![p][q] = Oldest(q, p, 1).n]
  BY DEF HearSize
<1>3. /\ pc[p] = "hearsize" /\ UNCHANGED <<proclist, call, pc>>
      /\ heard'[p] = Append(heard[p], q) /\ heard[p] \in Seq(Proc)
      /\ chan[q][p][1] # <<>> /\ c \in Calls /\ Program[c] = "create_data_variable"
  BY <1>1, <1>2 DEF HearSize, TypeOK, LoopType, Pop, ControlType, Running, MethodOfPhase, Method
<1>4. /\ Oldest(q, p, 1).n = proclist[c][q].bytes[p] /\ SendsSize(q, p, c)
      /\ q \notin SetOf(heard[p])
  <2>1. chan[q][p][1] \in Seq(MessageType)
    BY <1>1 DEF TypeOK, ChanType
  <2>2. 1 \in DOMAIN chan[q][p][1] /\ Oldest(q, p, 1) = chan[q][p][1][1]
    BY <1>3, <2>1 DEF Oldest
  <2> QED BY <1>3, <2>2, HearsThisSize
<1>5. /\ SetOf(heard'[p]) = SetOf(heard[p]) \union {q} /\ OnceEach(heard'[p])
  BY <1>1, <1>3, <1>4, AppendHeard DEF Listening
<1>6. ASSUME NEW d \in Calls, LastOf(d, c, Creates) PROVE SetOf(heard'[p]) \subseteq Senders(p, d)
  <2>0. Program[c] \in Creates
    BY <1>3 DEF Creates
  <2>1. d = c
    BY <1>3, <1>6, <2>0, LastItself
  <2>2. q \in Senders(p, d)
    BY <1>4, <2>1 DEF SendsSize
  <2> QED BY <1>1, <1>3, <1>5, <1>6, <2>2 DEF Listening
<1>7. ASSUME NEW r \in SetOf(heard'[p])
      PROVE  sizeRecv'[p][r] = proclist[c][r].bytes[p]
  <2>0. sizeRecv \in [Proc -> [Proc -> Nat]]
    BY <1>1 DEF TypeOK, RecvType
  <2>1. CASE r = q
    BY <1>2, <1>4, <2>0, <2>1
  <2>2. CASE r # q
    <3>1. r \in SetOf(heard[p])
      BY <1>5, <2>2, <1>7
    <3>2. sizeRecv[p][r] = proclist[c][r].bytes[p]
      BY <1>1, <1>3, <1>7, <3>1 DEF Listening
    <3> QED BY <1>2, <2>0, <2>2, <3>2
  <2> QED BY <2>1, <2>2
<1>8. \A d : Senders(p, d)' = Senders(p, d)
  BY <1>3 DEF Senders
<1>9. OnceEach(heard[p])' /\ SetOf(heard[p])' = SetOf(heard'[p])
  BY <1>5 DEF OnceEach, SetOf
<1> QED BY <1>3, <1>6, <1>7, <1>8, <1>9 DEF Listening

LEMMA StepListening ==
    ASSUME PlanInv, NEW p \in Proc, Step(p)
    PROVE  Listening(p)'
<1>1. /\ pc \in [Proc -> Phases] /\ heard \in [Proc -> Seq(Proc)] /\ p \in Proc /\ proclist' = proclist
      /\ Listening(p)
  BY StepFrame DEF PlanInv, PhaseInv, TypeOK, ControlType, LoopType, LocalInv
<1>2. CASE Hear(p)
  BY <1>2, HearListening
<1>3. CASE HearSize(p)
  BY <1>3, HearSizeListening
<1>4. CASE Told(p) \/ ToldSize(p)
  <2>1. heard'[p] = <<>>
    BY <1>1, <1>4 DEF Told, ToldSize
  <2>2. SetOf(heard[p])' = {} /\ OnceEach(heard[p])'
    BY <2>1, EmptyHeard DEF SetOf, OnceEach
  <2> QED BY <2>2 DEF Listening
<1>5. CASE \/ StartCreate(p) \/ Reduce(p) \/ StartAugment(p) \/ Tell(p) \/ Heard(p) \/ Barrier(p)
           \/ TellSize(p) \/ HeardSize(p)
  <2>1. pc'[p] \notin {"hear", "hearsize"}
    BY <1>1, <1>5 DEF StartCreate, Reduce, StartAugment, Tell, Heard, Barrier, TellSize, HeardSize,
       Goto, Return
  <2> QED BY <2>1 DEF Listening
<1>6. CASE StartExchange(p) \/ Send(p) \/ Unblock(p) \/ Sent(p) \/ Waitall(p)
  <2>1. pc'[p] \notin {"hear", "hearsize"}
    BY <1>1, <1>6 DEF StartExchange, Send, Unblock, Sent, Waitall, Goto, Return
  <2> QED BY <2>1 DEF Listening
<1>7. CASE \E q \in Proc : Match(q, p)
  <2>1. UNCHANGED <<proclist, call, pc, heard, numRecv, sizeRecv>>
    BY <1>7 DEF Match, plan
  <2> QED BY <1>1, <2>1 DEF Listening, Senders, Listed, Method
<1> QED BY <1>2, <1>3, <1>4, <1>5, <1>6, <1>7 DEF Step

\* A process that exchanges knows its sources: the senders, not itself.
LEMMA MatchArriving ==
    ASSUME PlanInv, NEW p \in Proc, NEW q \in Proc, Match(q, p)
    PROVE  Arriving(p)'
<1> DEFINE c == call[p]
           m == Oldest(q, p, 0)
<1>1. TypeOK /\ Arriving(p)
  BY DEF PlanInv, PhaseInv, LocalInv
<1>2. /\ q \in posted[p] /\ chan[q][p][0] # <<>> /\ UNCHANGED <<proclist, call, pc, procRecv>>
      /\ posted' = [posted EXCEPT ![p] = @ \ {q}]
      /\ arrived' = [arrived EXCEPT ![p][q] = m.body]
      /\ posted \in [Proc -> SUBSET Proc] /\ arrived \in [Proc -> [Proc -> BlockType]]
  BY <1>1 DEF Match, Pop, plan, TypeOK, LoopType, BufferType
<1>3. /\ m.call = c /\ Right(m, q, p) /\ Sends(q, p, c) /\ q # p /\ Exchanging(p)
      /\ Program[c] \in Exchanges
  BY <1>2, MatchesThisCall
<1>4. PICK d \in Calls : LastOf(d, c, Creates)
  BY <1>3 DEF Sends
<1>5. \A r, e : BlockOf(r, p, c, e)' = BlockOf(r, p, c, e)
  BY <1>2 DEF BlockOf, Listed
<1>6. posted'[p] = posted[p] \ {q} /\ posted'[p] \subseteq SetOf(procRecv[p])
  BY <1>1, <1>2 DEF Arriving
<1>7. Exchanging(p)' /\ SetOf(procRecv[p])' = SetOf(procRecv[p])
  BY <1>2, <1>3 DEF Exchanging, SetOf
<1>8. ASSUME NEW e \in Calls, LastOf(e, c, Listing), NEW r \in SetOf(procRecv[p]) \ posted'[p]
      PROVE  arrived'[p][r] = BlockOf(r, p, c, e)
  <2>1. CASE r = q
    <3>1. m.body = BlockOf(q, p, c, e)
      BY <1>3, <1>4, <1>8 DEF Right
    <3> QED BY <1>2, <2>1, <3>1
  <2>2. CASE r # q
    <3>1. arrived[p][r] = BlockOf(r, p, c, e)
      BY <1>1, <1>3, <1>6, <1>8, <2>2 DEF Arriving
    <3> QED BY <1>2, <2>2, <3>1
  <2> QED BY <2>1, <2>2
<1>9. ASSUME NEW e \in Calls, LastOf(e, c, Listing), pc[p] = "wait"
      PROVE  arrived'[p][p] = BlockOf(p, p, c, e)
  BY <1>1, <1>2, <1>3, <1>9 DEF Arriving
<1> QED BY <1>2, <1>5, <1>6, <1>7, <1>8, <1>9 DEF Arriving

LEMMA SentArriving ==
    ASSUME PlanInv, NEW p \in Proc, Sent(p)
    PROVE  Arriving(p)'
<1> DEFINE c == call[p]
<1>1. TypeOK /\ Arriving(p) /\ RecvPlan(p) /\ SendHalf(p)
  BY DEF PlanInv, PhaseInv, LocalInv
<1>2. /\ UNCHANGED <<proclist, call, procRecv, posted>> /\ pc[p] = "send" /\ pc'[p] = "wait"
      /\ arrived' = [arrived EXCEPT ![p][p] = Mine(p, p)] /\ c \in Calls
      /\ posted \in [Proc -> SUBSET Proc] /\ arrived \in [Proc -> [Proc -> BlockType]]
  BY <1>1 DEF Sent, plan, TypeOK, LoopType, BufferType, ControlType, Goto, Running
<1>3. Exchanging(p) /\ Exchanging(p)'
  BY <1>2 DEF Exchanging
<1>4. p \notin SetOf(procRecv[p])
  BY <1>1, <1>2, <1>3, SourcesSend DEF Senders
<1>5. \A r, e : BlockOf(r, p, c, e)' = BlockOf(r, p, c, e)
  BY <1>2 DEF BlockOf, Listed
<1>6. SetOf(procRecv[p])' = SetOf(procRecv[p])
  BY <1>2 DEF SetOf
<1>7. ASSUME NEW e \in Calls, LastOf(e, c, Listing)
      PROVE  arrived'[p][p] = BlockOf(p, p, c, e)
  <2>1. send[p].index = [q \in Proc |-> Listed(p, q, e)]
    BY <1>1, <1>2, <1>7 DEF SendHalf, SendBase
  <2>2. Mine(p, p) = BlockOf(p, p, c, e)
    BY <2>1 DEF Mine, BlockOf
  <2> QED BY <1>2, <2>2
<1>8. ASSUME NEW e \in Calls, LastOf(e, c, Listing), NEW r \in SetOf(procRecv[p]) \ posted[p]
      PROVE  arrived'[p][r] = BlockOf(r, p, c, e)
  BY <1>1, <1>2, <1>3, <1>4, <1>8 DEF Arriving
<1> QED BY <1>1, <1>2, <1>3, <1>5, <1>6, <1>7, <1>8 DEF Arriving

LEMMA StepArriving ==
    ASSUME PlanInv, NEW p \in Proc, Step(p)
    PROVE  Arriving(p)'
<1>1. /\ pc \in [Proc -> Phases] /\ posted \in [Proc -> SUBSET Proc] /\ p \in Proc
      /\ procRecv \in [Proc -> Seq(Proc)] /\ proclist' = proclist /\ Arriving(p)
  BY StepFrame DEF PlanInv, PhaseInv, TypeOK, ControlType, LoopType, RecvType, LocalInv
<1>2. CASE \E q \in Proc : Match(q, p)
  BY <1>2, MatchArriving
<1>3. CASE Sent(p)
  BY <1>3, SentArriving
<1>4. CASE StartExchange(p)
  <2>1. /\ posted'[p] = SetOf(procRecv[p]) /\ procRecv' = procRecv /\ pc'[p] = "send"
    BY <1>1, <1>4 DEF StartExchange, plan, Goto, SetOf
  <2>2. SetOf(procRecv[p])' = SetOf(procRecv[p])
    BY <2>1 DEF SetOf
  <2> QED BY <2>1, <2>2 DEF Arriving, Exchanging
<1>5. CASE Send(p) \/ Unblock(p)
  <2>1. /\ UNCHANGED <<proclist, call, procRecv, posted, arrived>>
        /\ pc[p] \in {"send", "blocked"} /\ pc'[p] \in {"send", "blocked"}
    BY <1>1, <1>5 DEF Send, Unblock, plan, Goto
  <2>2. \A r, e : BlockOf(r, p, call[p], e)' = BlockOf(r, p, call[p], e)
    BY <2>1 DEF BlockOf, Listed
  <2>3. SetOf(procRecv[p])' = SetOf(procRecv[p])
    BY <2>1 DEF SetOf
  <2> QED BY <1>1, <2>1, <2>2, <2>3 DEF Arriving, Exchanging
<1>6. CASE \/ StartCreate(p) \/ Reduce(p) \/ StartAugment(p) \/ Tell(p) \/ Told(p) \/ Hear(p)
           \/ Heard(p) \/ Barrier(p) \/ TellSize(p) \/ ToldSize(p) \/ HearSize(p) \/ HeardSize(p)
           \/ Waitall(p)
  <2>1. posted' = posted /\ posted[p] = {}
    <3>1. posted' = posted /\ (pc[p] \in {"send", "blocked", "wait"} => posted[p] = {})
      BY <1>6 DEF StartCreate, Reduce, StartAugment, Tell, Told, Hear, Heard, Barrier, TellSize,
         ToldSize, HearSize, HeardSize, Waitall
    <3> QED BY <1>1, <3>1 DEF Arriving, Exchanging
  <2>2. pc'[p] \notin {"send", "blocked", "wait"}
    BY <1>1, <1>6 DEF StartCreate, Reduce, StartAugment, Tell, Told, Hear, Heard, Barrier, TellSize,
       ToldSize, HearSize, HeardSize, Waitall, Goto, Return
  <2> QED BY <2>1, <2>2 DEF Arriving, Exchanging
<1> QED BY <1>2, <1>3, <1>4, <1>5, <1>6 DEF Step

\* MPI_Waitall leaves the blocks of this exchange in the buffer.
LEMMA WaitallBuffered ==
    ASSUME PlanInv, NEW p \in Proc, Waitall(p)
    PROVE  Buffered(p)'
<1> DEFINE c == call[p]
<1>1. TypeOK /\ Arriving(p)
  BY DEF PlanInv, PhaseInv, LocalInv
<1>2. /\ UNCHANGED <<proclist, procRecv>> /\ pc[p] = "wait" /\ posted[p] = {}
      /\ recvbuf'[p] = <<arrived[p][p]>> \o
            [i \in DOMAIN procRecv[p] |-> arrived[p][procRecv[p][i]]]
      /\ c \in Calls /\ call'[p] - 1 = c
  BY <1>1, CallsNumbered DEF Waitall, plan, TypeOK, LoopType, BufferType, ControlType, Return, Running
<1>4. ASSUME NEW e \in Calls, LastOf(e, c, Listing)
      PROVE  recvbuf'[p] = <<BlockOf(p, p, c, e)>> \o
                [i \in DOMAIN procRecv[p] |-> BlockOf(procRecv[p][i], p, c, e)]
  <2>1. arrived[p][p] = BlockOf(p, p, c, e)
    BY <1>1, <1>2, <1>4 DEF Arriving, Exchanging
  <2>2. \A i \in DOMAIN procRecv[p] : arrived[p][procRecv[p][i]] = BlockOf(procRecv[p][i], p, c, e)
    BY <1>1, <1>2, <1>4 DEF Arriving, Exchanging, SetOf
  <2>3. [i \in DOMAIN procRecv[p] |-> arrived[p][procRecv[p][i]]]
          = [i \in DOMAIN procRecv[p] |-> BlockOf(procRecv[p][i], p, c, e)]
    BY <2>2
  <2> QED BY <1>2, <2>1, <2>3
<1>5. \A q, r, e : Block(q, call[p] - 1, Listed(q, r, e))' = Block(q, c, Listed(q, r, e))
  BY <1>2 DEF Listed, Block
<1>7. ASSUME NEW e \in Calls, LastOf(e, c, Listing)
      PROVE  (recvbuf[p] = <<BlockOf(p, p, call[p] - 1, e)>> \o
                [i \in DOMAIN procRecv[p] |-> BlockOf(procRecv[p][i], p, call[p] - 1, e)])'
  <2>1. recvbuf'[p] = <<BlockOf(p, p, c, e)>> \o
                [i \in DOMAIN procRecv[p] |-> BlockOf(procRecv[p][i], p, c, e)]
    BY <1>4, <1>7
  <2>2. BlockOf(p, p, call[p] - 1, e)' = BlockOf(p, p, c, e)
    BY <1>5 DEF BlockOf
  <2>3. [i \in DOMAIN procRecv[p] |-> BlockOf(procRecv[p][i], p, call[p] - 1, e)]'
          = [i \in DOMAIN procRecv[p] |-> BlockOf(procRecv[p][i], p, c, e)]
    BY <1>2, <1>5 DEF BlockOf
  <2> QED BY <2>1, <2>2, <2>3
<1> QED BY <1>2, <1>7 DEF Buffered

LEMMA StepBuffered ==
    ASSUME PlanInv, NEW p \in Proc, Step(p)
    PROVE  Buffered(p)'
<1>1. /\ pc \in [Proc -> Phases] /\ call \in [Proc -> Nat] /\ p \in Proc
      /\ proclist' = proclist /\ Buffered(p) /\ PhaseOfMethod /\ call[p] \in Nat
  BY StepFrame, CallsNumbered DEF PlanInv, PhaseInv, TypeOK, ControlType, LocalInv
<1>2. CASE Waitall(p)
  BY <1>2, WaitallBuffered
<1>3. CASE Barrier(p) \/ HeardSize(p)
  <2>0. pc[p] \in {"barrier", "hearsize"}
    BY <1>3 DEF Barrier, HeardSize
  <2>1. Method(p) \notin Exchanges /\ (pc'[p] = "start" => call'[p] = call[p] + 1)
    <3>1. Method(p) \notin Exchanges
      BY <1>1, <2>0 DEF PhaseOfMethod
    <3>2. CASE Barrier(p)
      BY <1>1, <3>1, <3>2 DEF Barrier, Return, Goto
    <3>3. CASE HeardSize(p)
      BY <1>1, <3>1, <3>3 DEF HeardSize, Return, Goto
    <3> QED BY <1>3, <3>1, <3>2, <3>3
  <2>2. pc'[p] = "start" => call'[p] - 1 = call[p]
    <3>1. call[p] \in Int
      BY <1>1
    <3> QED BY <2>1, <3>1
  <2> QED BY <2>1, <2>2 DEF Buffered, AfterExchange, Method
<1>4. CASE \/ StartCreate(p) \/ Reduce(p) \/ StartAugment(p) \/ Tell(p) \/ Told(p) \/ Hear(p)
           \/ Heard(p) \/ TellSize(p) \/ ToldSize(p) \/ HearSize(p) \/ StartExchange(p)
           \/ Send(p) \/ Unblock(p) \/ Sent(p)
  <2>1. pc'[p] # "start"
    BY <1>1, <1>4 DEF StartCreate, Reduce, StartAugment, Tell, Told, Hear, Heard, TellSize,
       ToldSize, HearSize, StartExchange, Send, Unblock, Sent, Goto
  <2> QED BY <2>1 DEF Buffered, AfterExchange
<1>5. CASE \E q \in Proc : Match(q, p)
  <2>1. UNCHANGED <<proclist, call, pc, procRecv, recvbuf>>
    BY <1>5 DEF Match, plan
  <2>2. \A r, e : BlockOf(r, p, call[p] - 1, e)' = BlockOf(r, p, call[p] - 1, e)
    BY <2>1 DEF BlockOf, Listed, Block
  <2> QED BY <1>1, <2>1, <2>2 DEF Buffered, AfterExchange
<1> QED BY <1>2, <1>3, <1>4, <1>5 DEF Step

LEMMA StepMethodOfPhase ==
    ASSUME PlanInv, NEW p \in Proc, Step(p)
    PROVE  MethodOfPhase(p)'
<1>1. /\ pc \in [Proc -> Phases] /\ call \in [Proc -> Nat] /\ p \in Proc /\ MethodOfPhase(p)
  BY CallsNumbered DEF PlanInv, PhaseInv, TypeOK, ControlType, LocalInv
<1> USE DEF MethodOfPhase, Method, Goto, Return
<1>2. CASE StartCreate(p) \/ Reduce(p) \/ StartAugment(p) \/ Tell(p) \/ Told(p) \/ Hear(p) \/ Heard(p)
  BY <1>1, <1>2 DEF StartCreate, Reduce, StartAugment, Tell, Told, Hear, Heard
<1>3. CASE Barrier(p) \/ TellSize(p) \/ ToldSize(p) \/ HearSize(p) \/ HeardSize(p)
  BY <1>1, <1>3 DEF Barrier, TellSize, ToldSize, HearSize, HeardSize
<1>4. CASE \/ StartExchange(p) \/ Send(p) \/ Unblock(p) \/ Sent(p) \/ Waitall(p)
           \/ \E q \in Proc : Match(q, p)
  BY <1>1, <1>4 DEF StartExchange, Send, Unblock, Sent, Waitall, Match
<1> QED BY <1>2, <1>3, <1>4 DEF Step

LEMMA StepLocalInv ==
    ASSUME PlanInv, NEW p \in Proc, Step(p), NEW r \in Proc
    PROVE  LocalInv(r)'
<1>1. PhaseInv /\ TypeOK /\ LocalInv(p) /\ LocalInv(r)
  BY DEF PlanInv, PhaseInv
<1>2. CASE r = p
  BY <1>1, <1>2, StepMethodOfPhase, StepSendHalf, StepRecvPlan, StepNumKnown, StepSizeKnown,
     StepListening, StepArriving, StepBuffered DEF LocalInv
<1>3. CASE r # p
  BY <1>1, <1>3, StepFrame, LocalFrame
<1> QED BY <1>2, <1>3

-----------------------------------------------------------------------------
(* Channels.                                                               *)
LEMMA CallsAppended ==
    ASSUME NEW s \in Seq(MessageType), NEW m \in MessageType, InOrder(s),
           \A e \in CallsIn(s) : e < m.call
    PROVE  LET t == Append(s, m)
           IN  /\ CallsIn(t) = CallsIn(s) \union {m.call} /\ InOrder(t)
               /\ \A i \in DOMAIN t : t[i] = m \/ \E j \in DOMAIN s : t[i] = s[j]
<1> DEFINE t == Append(s, m)
<1>1. /\ DOMAIN s = 1 .. Len(s) /\ Len(s) \in Nat /\ DOMAIN t = 1 .. Len(s) + 1
      /\ \A i \in DOMAIN s : t[i] = s[i]
      /\ t[Len(s) + 1] = m
  OBVIOUS
<1>2. \A i \in DOMAIN t : i \in DOMAIN s \/ (i = Len(s) + 1 /\ t[i] = m)
  BY <1>1
<1>3. Len(s) + 1 \in DOMAIN t /\ \A i \in DOMAIN s : i \in DOMAIN t /\ i < Len(s) + 1
  BY <1>1
<1> HIDE DEF t
<1>4. CallsIn(t) = CallsIn(s) \union {m.call}
  BY <1>1, <1>2, <1>3 DEF CallsIn
<1>5. InOrder(t)
  <2> SUFFICES ASSUME NEW i \in DOMAIN t, NEW j \in DOMAIN t, i < j
               PROVE  t[i].call < t[j].call
    BY DEF InOrder
  <2>1. i \in DOMAIN s
    BY <1>1
  <2>2. CASE j \in DOMAIN s
    BY <1>1, <2>1, <2>2 DEF InOrder
  <2>3. CASE j \notin DOMAIN s
    BY <1>1, <1>2, <2>1, <2>3 DEF CallsIn
  <2> QED BY <2>2, <2>3
<1> QED BY <1>1, <1>2, <1>4, <1>5 DEF t

LEMMA CallsTail ==
    ASSUME NEW s \in Seq(MessageType), s # <<>>, InOrder(s)
    PROVE  LET t == Tail(s)
           IN  /\ CallsIn(t) = CallsIn(s) \ {Head(s).call} /\ InOrder(t)
               /\ \A i \in DOMAIN t : \E j \in DOMAIN s : t[i] = s[j]
<1> DEFINE t == Tail(s)
<1>1. /\ DOMAIN s = 1 .. Len(s) /\ Len(s) \in Nat /\ Len(s) >= 1 /\ DOMAIN t = 1 .. Len(s) - 1
      /\ \A i \in DOMAIN t : t[i] = s[i + 1] /\ i + 1 \in DOMAIN s
      /\ Head(s) = s[1]
  OBVIOUS
<1>2. \A j \in DOMAIN s : j = 1 \/ (j - 1 \in DOMAIN t /\ t[j - 1] = s[j])
  BY <1>1
<1>3. \A i \in DOMAIN s : s[i].call \in Nat
  <2> SUFFICES ASSUME NEW i \in DOMAIN s PROVE s[i].call \in Nat
    OBVIOUS
  <2>1. s[i] \in MessageType
    BY <1>1
  <2> QED BY <2>1, CallsNumbered DEF MessageType
<1> HIDE DEF t
<1>4. \A j \in DOMAIN s : j # 1 => s[1].call < s[j].call
  BY <1>1 DEF InOrder
<1>5. CallsIn(t) = CallsIn(s) \ {s[1].call}
  <2>1. ASSUME NEW i \in DOMAIN t
        PROVE  t[i].call \in CallsIn(s) /\ t[i].call # s[1].call
    <3>1. t[i] = s[i + 1] /\ i + 1 \in DOMAIN s /\ i + 1 # 1 /\ 1 \in DOMAIN s
      BY <1>1
    <3>2. s[1].call < s[i + 1].call
      BY <1>4, <3>1
    <3> QED BY <1>3, <3>1, <3>2 DEF CallsIn
  <2>2. ASSUME NEW j \in DOMAIN s, s[j].call # s[1].call
        PROVE  s[j].call \in CallsIn(t)
    BY <1>2, <2>2 DEF CallsIn
  <2> QED BY <2>1, <2>2 DEF CallsIn
<1>6. InOrder(t)
  BY <1>1 DEF InOrder
<1> QED BY <1>1, <1>5, <1>6 DEF t

LEMMA MailKeeps ==
    ASSUME NEW q \in Proc, NEW p \in Proc, DataMail(q, p), proclist' = proclist,
           chan'[q][p][0] = chan[q][p][0],
           \A e \in Calls : Sends(q, p, e) =>
               /\ SentTo(q, p, e)' <=> SentTo(q, p, e)
               /\ HeardFrom(p, q, e)' <=> HeardFrom(p, q, e)
    PROVE  DataMail(q, p)'
<1>1. \A e : Sends(q, p, e)' <=> Sends(q, p, e)
  BY DEF Sends, Senders
<1>2. \A m : Right(m, q, p)' <=> Right(m, q, p)
  BY DEF Right, BlockOf, Listed
<1>3. CallsIn(chan[q][p][0])' = CallsIn(chan[q][p][0]) /\ InOrder(chan[q][p][0])'
  BY DEF CallsIn, InOrder, DataMail
<1> QED BY <1>1, <1>2, <1>3 DEF DataMail

LEMMA MailPushed ==
    ASSUME TypeOK, NEW q \in Proc, NEW p \in Proc, DataMail(q, p), proclist' = proclist,
           NEW m \in MessageType, chan'[q][p][0] = Append(chan[q][p][0], m),
           m.call = call[q], Right(m, q, p), Sends(q, p, m.call), ~SentTo(q, p, m.call),
           \A e \in Calls : Sends(q, p, e) =>
               /\ SentTo(q, p, e)' <=> SentTo(q, p, e) \/ e = m.call
               /\ HeardFrom(p, q, e)' <=> HeardFrom(p, q, e)
    PROVE  DataMail(q, p)'
<1> DEFINE s == chan[q][p][0]
<1>1. \A e : Sends(q, p, e)' <=> Sends(q, p, e)
  BY DEF Sends, Senders
<1>2. \A n : Right(n, q, p)' <=> Right(n, q, p)
  BY DEF Right, BlockOf, Listed
<1>3. s \in Seq(MessageType) /\ call[q] \in Nat /\ m.call \in Calls
  <2>1. s \in Seq(MessageType) /\ call[q] \in Nat
    BY CallsNumbered DEF TypeOK, ChanType, ControlType
  <2> QED BY <2>1 DEF MessageType
<1>4. \A e \in CallsIn(s) : e \in Calls
  <2>1. \A i \in DOMAIN s : s[i] \in MessageType
    BY <1>3
  <2> QED BY <2>1 DEF CallsIn, MessageType
<1>5. \A e \in CallsIn(s) : e < m.call
  <2> SUFFICES ASSUME NEW e \in CallsIn(s) PROVE e < m.call
    OBVIOUS
  <2>1. SentTo(q, p, e) /\ e \in Calls
    BY <1>4 DEF DataMail
  <2>2. e # m.call /\ e \in Nat
    BY <2>1, CallsNumbered
  <2> QED BY <1>3, <2>1, <2>2 DEF SentTo
<1>6. /\ CallsIn(chan'[q][p][0]) = CallsIn(s) \union {m.call} /\ InOrder(chan'[q][p][0])
      /\ \A i \in DOMAIN chan'[q][p][0] : chan'[q][p][0][i] = m \/
            \E j \in DOMAIN s : chan'[q][p][0][i] = s[j]
  BY <1>3, <1>5, CallsAppended DEF DataMail
<1>7. CallsIn(chan[q][p][0])' = CallsIn(chan'[q][p][0]) /\ InOrder(chan[q][p][0])'
  BY <1>6 DEF CallsIn, InOrder
<1>8. ~HeardFrom(p, q, m.call)
  BY <1>3 DEF DataMail
<1> QED BY <1>1, <1>2, <1>3, <1>6, <1>7, <1>8 DEF DataMail

LEMMA MailPopped ==
    ASSUME TypeOK, NEW q \in Proc, NEW p \in Proc, DataMail(q, p), proclist' = proclist,
           chan[q][p][0] # <<>>, chan'[q][p][0] = Tail(chan[q][p][0]),
           \A e \in Calls : Sends(q, p, e) =>
               /\ SentTo(q, p, e)' <=> SentTo(q, p, e)
               /\ HeardFrom(p, q, e)' <=> HeardFrom(p, q, e) \/ e = Oldest(q, p, 0).call
    PROVE  DataMail(q, p)'
<1> DEFINE s == chan[q][p][0]
           m == Oldest(q, p, 0)
<1>1. \A e : Sends(q, p, e)' <=> Sends(q, p, e)
  BY DEF Sends, Senders
<1>2. \A n : Right(n, q, p)' <=> Right(n, q, p)
  BY DEF Right, BlockOf, Listed
<1>3. s \in Seq(MessageType) /\ m = Head(s)
  BY DEF TypeOK, ChanType, Oldest
<1>4. /\ CallsIn(chan'[q][p][0]) = CallsIn(s) \ {m.call} /\ InOrder(chan'[q][p][0])
      /\ \A i \in DOMAIN chan'[q][p][0] : \E j \in DOMAIN s : chan'[q][p][0][i] = s[j]
  BY <1>3, CallsTail DEF DataMail
<1>5. CallsIn(chan[q][p][0])' = CallsIn(chan'[q][p][0]) /\ InOrder(chan[q][p][0])'
  BY <1>4 DEF CallsIn, InOrder
<1>6. SentTo(q, p, m.call)
  BY OldestData
<1> QED BY <1>1, <1>2, <1>4, <1>5, <1>6 DEF DataMail

\* The same for the channels of the byte counts.
LEMMA SizeMailKeeps ==
    ASSUME NEW q \in Proc, NEW p \in Proc, SizeMail(q, p), proclist' = proclist,
           chan'[q][p][1] = chan[q][p][1],
           \A e \in Calls : SendsSize(q, p, e) =>
               /\ SizeSentTo(q, p, e)' <=> SizeSentTo(q, p, e)
               /\ SizeHeardFrom(p, q, e)' <=> SizeHeardFrom(p, q, e)
    PROVE  SizeMail(q, p)'
<1>1. \A e : SendsSize(q, p, e)' <=> SendsSize(q, p, e)
  BY DEF SendsSize, Senders
<1>2. \A n : RightSize(n, q, p)' <=> RightSize(n, q, p)
  BY DEF RightSize
<1>3. CallsIn(chan[q][p][1])' = CallsIn(chan[q][p][1]) /\ InOrder(chan[q][p][1])'
  BY DEF CallsIn, InOrder, SizeMail
<1> QED BY <1>1, <1>2, <1>3 DEF SizeMail

LEMMA SizeMailPushed ==
    ASSUME TypeOK, NEW q \in Proc, NEW p \in Proc, SizeMail(q, p), proclist' = proclist,
           NEW m \in MessageType, chan'[q][p][1] = Append(chan[q][p][1], m),
           m.call = call[q], RightSize(m, q, p), SendsSize(q, p, m.call), ~SizeSentTo(q, p, m.call),
           \A e \in Calls : SendsSize(q, p, e) =>
               /\ SizeSentTo(q, p, e)' <=> SizeSentTo(q, p, e) \/ e = m.call
               /\ SizeHeardFrom(p, q, e)' <=> SizeHeardFrom(p, q, e)
    PROVE  SizeMail(q, p)'
<1> DEFINE s == chan[q][p][1]
<1>1. \A e : SendsSize(q, p, e)' <=> SendsSize(q, p, e)
  BY DEF SendsSize, Senders
<1>2. \A n : RightSize(n, q, p)' <=> RightSize(n, q, p)
  BY DEF RightSize
<1>3. s \in Seq(MessageType) /\ call[q] \in Nat /\ m.call \in Calls
  <2>1. s \in Seq(MessageType) /\ call[q] \in Nat
    BY CallsNumbered DEF TypeOK, ChanType, ControlType
  <2> QED BY <2>1 DEF MessageType
<1>4. \A e \in CallsIn(s) : e \in Calls
  <2>1. \A i \in DOMAIN s : s[i] \in MessageType
    BY <1>3
  <2> QED BY <2>1 DEF CallsIn, MessageType
<1>5. \A e \in CallsIn(s) : e < m.call
  <2> SUFFICES ASSUME NEW e \in CallsIn(s) PROVE e < m.call
    OBVIOUS
  <2>1. SizeSentTo(q, p, e) /\ e \in Calls
    BY <1>4 DEF SizeMail
  <2>2. e # m.call /\ e \in Nat
    BY <2>1, CallsNumbered
  <2> QED BY <1>3, <2>1, <2>2 DEF SizeSentTo
<1>6. /\ CallsIn(chan'[q][p][1]) = CallsIn(s) \union {m.call} /\ InOrder(chan'[q][p][1])
      /\ \A i \in DOMAIN chan'[q][p][1] : chan'[q][p][1][i] = m \/
            \E j \in DOMAIN s : chan'[q][p][1][i] = s[j]
  BY <1>3, <1>5, CallsAppended DEF SizeMail
<1>7. CallsIn(chan[q][p][1])' = CallsIn(chan'[q][p][1]) /\ InOrder(chan[q][p][1])'
  BY <1>6 DEF CallsIn, InOrder
<1>8. ~SizeHeardFrom(p, q, m.call)
  BY <1>3 DEF SizeMail
<1> QED BY <1>1, <1>2, <1>3, <1>6, <1>7, <1>8 DEF SizeMail

LEMMA SizeMailPopped ==
    ASSUME TypeOK, NEW q \in Proc, NEW p \in Proc, SizeMail(q, p), proclist' = proclist,
           chan[q][p][1] # <<>>, chan'[q][p][1] = Tail(chan[q][p][1]),
           \A e \in Calls : SendsSize(q, p, e) =>
               /\ SizeSentTo(q, p, e)' <=> SizeSentTo(q, p, e)
               /\ SizeHeardFrom(p, q, e)' <=> SizeHeardFrom(p, q, e) \/ e = Oldest(q, p, 1).call
    PROVE  SizeMail(q, p)'
<1> DEFINE s == chan[q][p][1]
           m == Oldest(q, p, 1)
<1>1. \A e : SendsSize(q, p, e)' <=> SendsSize(q, p, e)
  BY DEF SendsSize, Senders
<1>2. \A n : RightSize(n, q, p)' <=> RightSize(n, q, p)
  BY DEF RightSize
<1>3. s \in Seq(MessageType) /\ m = Head(s)
  BY DEF TypeOK, ChanType, Oldest
<1>4. /\ CallsIn(chan'[q][p][1]) = CallsIn(s) \ {m.call} /\ InOrder(chan'[q][p][1])
      /\ \A i \in DOMAIN chan'[q][p][1] : \E j \in DOMAIN s : chan'[q][p][1][i] = s[j]
  BY <1>3, CallsTail DEF SizeMail
<1>5. CallsIn(chan[q][p][1])' = CallsIn(chan'[q][p][1]) /\ InOrder(chan[q][p][1])'
  BY <1>4 DEF CallsIn, InOrder
<1>6. m.call \in Calls /\ m.call \in CallsIn(s)
  <2>1. 1 \in DOMAIN s /\ s[1] = m /\ s[1] \in MessageType
    BY <1>3
  <2> QED BY <2>1 DEF MessageType, CallsIn
<1> QED BY <1>1, <1>2, <1>4, <1>5, <1>6 DEF SizeMail

-----------------------------------------------------------------------------
(* Which steps send, and which receive.                                    *)

\* Whom a process sends to in a call is among the destinations of its plan.
LEMMA DestOfPlan ==
    ASSUME NEW r \in Proc, NEW p \in Proc, SendHalf(r), call[r] \in Calls, Sends(r, p, call[r]),
           SendBase(r) = call[r] \/ Method(r) \notin Creates
    PROVE  p \in send[r].dests /\ p # r
<1> DEFINE c == call[r]
<1>1. PICK d \in Calls : LastOf(d, c, Creates) /\ r \in Senders(p, d)
  BY DEF Sends
<1>2. LastOf(d, SendBase(r), Creates)
  <2>1. CASE SendBase(r) = c
    BY <1>1, <2>1
  <2>2. CASE SendBase(r) # c
    <3>1. SendBase(r) = c - 1 /\ Program[c] \notin Creates
      BY <2>2 DEF SendBase, Method
    <3> QED BY <1>1, <3>1, LastEarlier
  <2> QED BY <2>1, <2>2
<1>3. send[r].dests = Dests(proclist[d][r]) \ {r}
  BY <1>2 DEF SendHalf
<1> QED BY <1>1, <1>3 DEF Senders

LEMMA DestOfReduce ==
    ASSUME TypeOK, NEW r \in Proc, NEW p \in Proc, LocalInv(r), Reduce(r), Sends(r, p, call[r])
    PROVE  p \in unsent'[r]
<1> DEFINE c == call[r]
<1>1. /\ c \in Calls /\ Program[c] \in Creates
      /\ unsent'[r] = Dests(proclist[c][r]) \ {r}
  BY DEF Reduce, TypeOK, ControlType, Running, LocalInv, MethodOfPhase, Method, LoopType, MyList
<1>2. PICK d \in Calls : LastOf(d, c, Creates) /\ r \in Senders(p, d)
  BY DEF Sends
<1>3. d = c
  BY <1>1, <1>2, LastItself
<1> QED BY <1>1, <1>2, <1>3 DEF Senders

\* Only the two loops of sends with tag 0 send.
LEMMA SentSteady ==
    ASSUME PlanInv, NEW r \in Proc, Step(r), ~Tell(r), ~Send(r),
           NEW p \in Proc, NEW e \in Calls, Sends(r, p, e)
    PROVE  SentTo(r, p, e)' <=> SentTo(r, p, e)
<1>1. /\ pc \in [Proc -> Phases] /\ call \in [Proc -> Nat] /\ r \in Proc /\ e \in Nat
      /\ call[r] \in Nat /\ unsent \in [Proc -> SUBSET Proc]
  BY CallsNumbered DEF PlanInv, PhaseInv, TypeOK, ControlType, LoopType
<1>2. TypeOK /\ SendHalf(r) /\ LocalInv(r) /\ (pc[r] # "start" => call[r] \in Calls)
  BY DEF PlanInv, PhaseInv, LocalInv, TypeOK, ControlType, Running
<1>3. CASE StartCreate(r)
  BY <1>1, <1>3 DEF StartCreate, SentTo, Goto
<1>4. CASE Reduce(r)
  <2>1. call' = call /\ pc[r] = "reduce" /\ pc'[r] = "tell"
    BY <1>1, <1>4 DEF Reduce, Goto
  <2>2. e = call[r] => p \in unsent'[r]
    BY <1>2, <1>4, DestOfReduce
  <2> QED BY <1>1, <2>1, <2>2 DEF SentTo
<1>5. CASE StartAugment(r) \/ StartExchange(r)
  <2>1. /\ call' = call /\ pc[r] = "start" /\ pc'[r] \in {"tell", "send"}
        /\ unsent'[r] = send[r].dests /\ call[r] \in Calls
        /\ Method(r) \in Exchanges \union {"augment_data_uniform"}
    BY <1>1, <1>5 DEF StartAugment, StartExchange, Goto, Running
  <2>2. Method(r) \notin Creates
    BY <2>1 DEF Creates, Exchanges
  <2>3. e = call[r] => p \in unsent'[r]
    BY <1>2, <2>1, <2>2, DestOfPlan
  <2> QED BY <1>1, <2>1, <2>3 DEF SentTo
<1>6. CASE Told(r) \/ Hear(r) \/ Heard(r)
  <2>1. /\ call' = call /\ pc'[r] \in {"hear", "barrier"}
        /\ pc[r] = "hear" \/ (pc[r] = "tell" /\ unsent[r] = {})
    BY <1>1, <1>6 DEF Told, Hear, Heard, Goto
  <2> QED BY <2>1 DEF SentTo
<1>7. CASE Barrier(r) \/ HeardSize(r)
  <2>1. /\ pc[r] \in {"barrier", "hearsize"}
        /\ \/ call' = call /\ pc'[r] = "tellsize"
           \/ call'[r] = call[r] + 1 /\ pc'[r] = "start"
    BY <1>1, <1>7 DEF Barrier, HeardSize, Return, Goto
  <2> QED BY <1>1, <2>1 DEF SentTo
<1>8. CASE TellSize(r) \/ ToldSize(r) \/ HearSize(r)
  <2>1. call' = call /\ {pc[r], pc'[r]} \subseteq {"tellsize", "hearsize"}
    BY <1>1, <1>8 DEF TellSize, ToldSize, HearSize, Goto
  <2> QED BY <2>1 DEF SentTo
<1>9. CASE Unblock(r)
  <2>1. PICK q \in Proc : IsNextDest(r, q, unsent[r]) /\ unsent'[r] = unsent[r] \ {q}
    BY <1>1, <1>9 DEF Unblock
  <2>2. call' = call /\ pc[r] = "blocked" /\ pc'[r] = "send"
    BY <1>1, <1>9 DEF Unblock, Goto
  <2>3. IsNextDest(r, p, unsent[r]) => p = q
    BY <2>1, NextDestUnique
  <2> QED BY <2>1, <2>2, <2>3 DEF SentTo
<1>10. CASE Sent(r)
  <2>1. call' = call /\ pc[r] = "send" /\ pc'[r] = "wait" /\ unsent[r] = {}
    BY <1>1, <1>10 DEF Sent, Goto
  <2> QED BY <2>1 DEF SentTo
<1>11. CASE Waitall(r)
  <2>1. call'[r] = call[r] + 1 /\ pc[r] = "wait" /\ pc'[r] = "start"
    BY <1>1, <1>11 DEF Waitall, Return, Goto
  <2> QED BY <1>1, <2>1 DEF SentTo
<1>12. CASE \E q \in Proc : Match(q, r)
  <2>1. UNCHANGED <<call, pc, unsent>>
    BY <1>12 DEF Match
  <2> QED BY <2>1 DEF SentTo, IsNextDest
<1> QED BY <1>3, <1>4, <1>5, <1>6, <1>7, <1>8, <1>9, <1>10, <1>11, <1>12 DEF Step

\* Each of them sends one message, of the call it is made in.
LEMMA SentOne ==
    ASSUME TypeOK, NEW r \in Proc, NEW q \in Proc, pc[r] \in {"tell", "send"},
           IsNextDest(r, q, unsent[r]), call' = call,
           \/ unsent' = [unsent EXCEPT ![r] = @ \ {q}] /\ pc' = pc
           \/ pc[r] = "send" /\ Goto(r, "blocked") /\ unsent' = unsent,
           NEW p \in Proc, NEW e \in Calls
    PROVE  /\ SentTo(r, p, e)' <=> SentTo(r, p, e) \/ (p = q /\ e = call[r])
           /\ ~SentTo(r, q, call[r])
<1>1. /\ pc \in [Proc -> Phases] /\ call \in [Proc -> Nat] /\ e \in Nat
      /\ call[r] \in Nat /\ unsent \in [Proc -> SUBSET Proc] /\ q \in unsent[r]
  BY CallsNumbered DEF TypeOK, ControlType, LoopType, IsNextDest
<1>2. CASE unsent' = [unsent EXCEPT ![r] = @ \ {q}] /\ pc' = pc
  BY <1>1, <1>2 DEF SentTo
<1>3. CASE pc[r] = "send" /\ Goto(r, "blocked") /\ unsent' = unsent
  <2>1. pc'[r] = "blocked" /\ unsent'[r] = unsent[r]
    BY <1>1, <1>3 DEF Goto
  <2>2. IsNextDest(r, p, unsent[r])' <=> p = q
    BY <2>1, NextDestUnique DEF IsNextDest
  <2> QED BY <1>1, <1>3, <2>1, <2>2 DEF SentTo
<1> QED BY <1>2, <1>3

\* Only a wildcard receive with tag 0 and the match of an Irecv receive.
LEMMA HeardSteady ==
    ASSUME PlanInv, NEW r \in Proc, Step(r), ~Hear(r), \A q \in Proc : ~Match(q, r),
           NEW p \in Proc, NEW e \in Calls, Sends(p, r, e)
    PROVE  HeardFrom(r, p, e)' <=> HeardFrom(r, p, e)
<1>1. /\ pc \in [Proc -> Phases] /\ call \in [Proc -> Nat] /\ r \in Proc /\ e \in Nat
      /\ call[r] \in Nat /\ posted \in [Proc -> SUBSET Proc] /\ heard \in [Proc -> Seq(Proc)]
  BY CallsNumbered DEF PlanInv, PhaseInv, TypeOK, ControlType, LoopType
<1>2. TypeOK /\ LocalInv(r) /\ (pc[r] # "start" => call[r] \in Calls)
  BY DEF PlanInv, PhaseInv, TypeOK, ControlType, Running
<1>3. CASE StartCreate(r) \/ Reduce(r) \/ StartAugment(r) \/ Tell(r)
  <2>1. call' = call /\ {pc[r], pc'[r]} \subseteq {"start", "reduce", "tell"}
    BY <1>1, <1>3 DEF StartCreate, Reduce, StartAugment, Tell, Goto
  <2> QED BY <2>1 DEF HeardFrom, Exchanging
<1>4. CASE Told(r)
  <2>1. call' = call /\ pc[r] = "tell" /\ pc'[r] = "hear" /\ SetOf(heard[r])' = {}
    BY <1>1, <1>4 DEF Told, Goto, SetOf
  <2> QED BY <2>1 DEF HeardFrom, Exchanging
<1>5. CASE Heard(r)
  <2>1. /\ call' = call /\ pc[r] = "hear" /\ pc'[r] = "barrier" /\ call[r] \in Calls
        /\ Len(heard[r]) = nrecv[r]
    BY <1>1, <1>2, <1>5 DEF Heard, Goto
  <2>2. e = call[r] => p \in SetOf(heard[r])
    BY <1>2, <2>1, HeardAll DEF Sends
  <2> QED BY <2>1, <2>2 DEF HeardFrom, Exchanging
<1>6. CASE Barrier(r) \/ HeardSize(r)
  <2>1. /\ pc[r] \in {"barrier", "hearsize"}
        /\ \/ call' = call /\ pc'[r] = "tellsize"
           \/ call'[r] = call[r] + 1 /\ pc'[r] = "start"
    BY <1>1, <1>6 DEF Barrier, HeardSize, Return, Goto
  <2> QED BY <1>1, <2>1 DEF HeardFrom, Exchanging
<1>7. CASE TellSize(r) \/ ToldSize(r) \/ HearSize(r)
  <2>1. call' = call /\ {pc[r], pc'[r]} \subseteq {"tellsize", "hearsize"}
    BY <1>1, <1>7 DEF TellSize, ToldSize, HearSize, Goto
  <2> QED BY <2>1 DEF HeardFrom, Exchanging
<1>8. CASE StartExchange(r)
  <2>1. /\ call' = call /\ pc[r] = "start" /\ pc'[r] = "send" /\ call[r] \in Calls
        /\ posted'[r] = SetOf(procRecv[r]) /\ Method(r) \in Exchanges
    BY <1>1, <1>8 DEF StartExchange, Goto, Running, SetOf
  <2>2. ASSUME e = call[r] PROVE p \in posted'[r]
    <3>1. PICK d \in Calls : LastOf(d, call[r], Creates) /\ p \in Senders(r, d)
      BY <2>2 DEF Sends
    <3>2. Program[call[r]] \notin Creates
      BY <2>1 DEF Method, Creates, Exchanges
    <3>3. LastOf(d, RecvBase(r), Creates)
      BY <2>1, <3>1, <3>2, LastEarlier DEF RecvBase, BeforeBarrier
    <3> QED BY <1>2, <2>1, <3>1, <3>3 DEF LocalInv, RecvPlan
  <2> QED BY <2>1, <2>2 DEF HeardFrom, Exchanging
<1>9. CASE Send(r) \/ Unblock(r) \/ Sent(r)
  <2>1. /\ UNCHANGED <<call, posted>>
        /\ {pc[r], pc'[r]} \subseteq {"send", "blocked", "wait"}
    BY <1>1, <1>9 DEF Send, Unblock, Sent, Goto
  <2> QED BY <2>1 DEF HeardFrom, Exchanging
<1>10. CASE Waitall(r)
  <2>1. call'[r] = call[r] + 1 /\ pc[r] = "wait" /\ pc'[r] = "start" /\ posted[r] = {}
    BY <1>1, <1>10 DEF Waitall, Return, Goto
  <2> QED BY <1>1, <2>1 DEF HeardFrom, Exchanging
<1> QED BY <1>3, <1>4, <1>5, <1>6, <1>7, <1>8, <1>9, <1>10 DEF Step

LEMMA MatchMoves ==
    ASSUME TypeOK, NEW r \in Proc, NEW q \in Proc, Match(q, r)
    PROVE  posted' # posted
<1>1. posted \in [Proc -> SUBSET Proc] /\ q \in posted[r] /\ posted'[r] = posted[r] \ {q}
  BY DEF TypeOK, LoopType, Match
<1> QED BY <1>1

LEMMA ChanDomain ==
    ASSUME ChanType
    PROVE  /\ DOMAIN chan = Proc /\ \A a \in Proc : DOMAIN chan[a] = Proc
           /\ \A a, b \in Proc : DOMAIN chan[a][b] = {0, 1}
<1>1. DOMAIN chan = Proc /\ \A a \in Proc : chan[a] \in [Proc -> [{0, 1} -> Seq(MessageType)]]
  BY DEF ChanType
<1>2. \A a \in Proc : DOMAIN chan[a] = Proc
  BY <1>1
<1>3. \A a, b \in Proc : chan[a][b] \in [{0, 1} -> Seq(MessageType)]
  BY <1>1
<1>4. \A a, b \in Proc : DOMAIN chan[a][b] = {0, 1}
  BY <1>3
<1> QED BY <1>1, <1>2, <1>4

\* A push or a pop touches one channel.
LEMMA PushElsewhere ==
    ASSUME TypeOK, NEW r \in Proc, NEW s \in Proc, NEW tag \in {0, 1}, NEW m, Push(r, s, tag, m),
           NEW q \in Proc, NEW p \in Proc, NEW t \in {0, 1}, q # r \/ p # s \/ t # tag
    PROVE  chan'[q][p][t] = chan[q][p][t]
BY ChanDomain DEF TypeOK, Push

LEMMA PushThere ==
    ASSUME TypeOK, NEW r \in Proc, NEW s \in Proc, NEW tag \in {0, 1}, NEW m, Push(r, s, tag, m)
    PROVE  chan'[r][s][tag] = Append(chan[r][s][tag], m)
BY ChanDomain DEF TypeOK, Push

LEMMA PopThere ==
    ASSUME TypeOK, NEW r \in Proc, NEW s \in Proc, NEW tag \in {0, 1}, Pop(r, s, tag)
    PROVE  chan[r][s][tag] # <<>> /\ chan'[r][s][tag] = Tail(chan[r][s][tag])
BY ChanDomain DEF TypeOK, Pop

LEMMA PopElsewhere ==
    ASSUME TypeOK, NEW r \in Proc, NEW s \in Proc, NEW tag \in {0, 1}, Pop(r, s, tag),
           NEW q \in Proc, NEW p \in Proc, NEW t \in {0, 1}, q # r \/ p # s \/ t # tag
    PROVE  chan'[q][p][t] = chan[q][p][t]
BY ChanDomain DEF TypeOK, Pop

LEMMA SentUnless ==
    ASSUME PlanInv, NEW r \in Proc, Step(r), NEW q \in Proc, NEW p \in Proc, NEW e \in Calls,
           Sends(q, p, e), q # r \/ (~Tell(r) /\ ~Send(r))
    PROVE  SentTo(q, p, e)' <=> SentTo(q, p, e)
<1>1. CASE q = r
  BY <1>1, SentSteady
<1>2. CASE q # r
  <2>1. SameOwn(q)
    BY <1>2, StepFrame DEF PlanInv, PhaseInv
  <2> QED BY <2>1 DEF SameOwn, SentTo, IsNextDest
<1> QED BY <1>1, <1>2

LEMMA HeardUnless ==
    ASSUME PlanInv, NEW r \in Proc, Step(r), NEW q \in Proc, NEW p \in Proc, NEW e \in Calls,
           Sends(q, p, e), p # r \/ (~Hear(r) /\ posted' = posted)
    PROVE  HeardFrom(p, q, e)' <=> HeardFrom(p, q, e)
<1>1. CASE p = r
  BY <1>1, HeardSteady, MatchMoves DEF PlanInv, PhaseInv
<1>2. CASE p # r
  <2>1. SameOwn(p)
    BY <1>2, StepFrame DEF PlanInv, PhaseInv
  <2> QED BY <2>1 DEF SameOwn, HeardFrom, Exchanging, SetOf
<1> QED BY <1>1, <1>2

\* A process sends to receivers of its plan only.
LEMMA SendsNext ==
    ASSUME TypeOK, NEW r \in Proc, LocalInv(r), pc[r] \in {"tell", "send"},
           NEW q \in Proc, q \in unsent[r]
    PROVE  Sends(r, q, call[r])
<1>1. call[r] \in Calls /\ SendBase(r) = call[r]
  BY DEF TypeOK, ControlType, Running, SendBase
<1>2. PICK d \in Calls : LastOf(d, call[r], Creates)
  BY <1>1, PlanExists
<1>3. q \in Dests(proclist[d][r]) \ {r}
  BY <1>1, <1>2 DEF LocalInv, SendHalf
<1> QED BY <1>2, <1>3 DEF Sends, Senders

\* The two sends with tag 0, alike.
Posts(r, q, m) ==
    /\ Push(r, q, 0, m) /\ m \in MessageType /\ m.call = call[r] /\ Right(m, r, q)
    /\ IsNextDest(r, q, unsent[r]) /\ pc[r] \in {"tell", "send"}
    /\ call' = call /\ heard' = heard /\ posted' = posted
    /\ \/ unsent' = [unsent EXCEPT ![r] = @ \ {q}] /\ pc' = pc
       \/ pc[r] = "send" /\ Goto(r, "blocked") /\ unsent' = unsent

LEMMA TellPosts ==
    ASSUME PlanInv, NEW r \in Proc, Tell(r)
    PROVE  \E q \in Proc, m \in MessageType : Posts(r, q, m)
<1> DEFINE c == call[r]
           n(q) == IF Method(r) = "create_procs" THEN 0 ELSE Cardinality(send[r].index[q])
           m(q) == Message("count", c, n(q), NoBlock(r))
<1>1. PICK q \in Proc : /\ IsNextDest(r, q, unsent[r]) /\ Push(r, q, 0, m(q))
                        /\ unsent' = [unsent EXCEPT ![r] = @ \ {q}]
  BY DEF Tell
<1>2. /\ pc[r] = "tell" /\ UNCHANGED <<call, pc, heard, posted>> /\ c \in Calls
      /\ Method(r) \notin Exchanges /\ SendBase(r) = c /\ SendHalf(r)
      /\ send[r].index \in [Proc -> Numbers]
  BY DEF Tell, PlanInv, PhaseInv, TypeOK, ControlType, Running, PhaseOfMethod, SendBase, LocalInv,
     SendType
<1>3. n(q) \in Nat
  BY <1>2, NumbersCounted
<1>4. m(q) \in MessageType
  BY <1>2, <1>3, MessageTyped, NoBlockTyped
<1>5. m(q).call = c /\ m(q).kind = "count" /\ m(q).n = n(q)
  BY DEF Message
<1>6. Program[c] \in Listing => n(q) = Cardinality(Listed(r, q, c))
  <2>1. ASSUME Program[c] \in Listing PROVE send[r].index[q] = Listed(r, q, c)
    <3>1. LastOf(c, c, Listing)
      BY <1>2, <2>1, LastItself
    <3> QED BY <1>2, <3>1 DEF SendHalf
  <2> QED BY <2>1 DEF Method, Listing, Creates
<1>7. Right(m(q), r, q)
  BY <1>2, <1>5, <1>6 DEF Right, Method
<1> QED BY <1>1, <1>2, <1>4, <1>5, <1>7 DEF Posts

LEMMA SendPosts ==
    ASSUME PlanInv, NEW r \in Proc, Send(r)
    PROVE  \E q \in Proc, m \in MessageType : Posts(r, q, m)
<1> DEFINE c == call[r]
           m(q) == Message("data", c, SendLength(r, q), Mine(r, q))
<1>1. PICK q \in Proc : /\ IsNextDest(r, q, unsent[r]) /\ Push(r, q, 0, m(q))
                        /\ \/ unsent' = [unsent EXCEPT ![r] = @ \ {q}] /\ UNCHANGED pc
                           \/ Goto(r, "blocked") /\ UNCHANGED unsent
  BY DEF Send
<1>2. /\ pc[r] = "send" /\ UNCHANGED <<call, heard, posted>> /\ c \in Calls
      /\ Program[c] \in Exchanges /\ SendBase(r) = c /\ SendHalf(r)
      /\ send[r].index \in [Proc -> Numbers] /\ send[r].bytes \in [Proc -> Nat] /\ c \in Nat
  <2>1. /\ pc[r] = "send" /\ UNCHANGED <<call, heard, posted>> /\ SendBase(r) = c
    BY DEF Send, SendBase, plan
  <2>2. c \in Calls /\ c \in Nat
    BY <2>1, CallsNumbered DEF PlanInv, PhaseInv, TypeOK, ControlType, Running
  <2>3. Program[c] \in Exchanges /\ SendHalf(r)
    BY <2>1 DEF PlanInv, PhaseInv, PhaseOfMethod, Method, LocalInv
  <2>4. send[r].index \in [Proc -> Numbers] /\ send[r].bytes \in [Proc -> Nat]
    BY DEF PlanInv, PhaseInv, TypeOK, SendType
  <2> QED BY <2>1, <2>2, <2>3, <2>4
<1>3. send[r].index[q] \in Numbers /\ send[r].bytes[q] \in Nat
  BY <1>2
<1>4. SendLength(r, q) \in Nat /\ Mine(r, q) \in BlockType
  BY <1>2, <1>3, NumbersCounted DEF SendLength, Mine, Block, BlockType
<1>5. m(q) \in MessageType
  BY <1>2, <1>4, MessageTyped
<1>6. /\ m(q).call = c /\ m(q).kind = "data" /\ m(q).n = SendLength(r, q)
      /\ m(q).body = Mine(r, q)
  BY DEF Message
<1>7. ASSUME NEW d \in Calls, NEW e \in Calls, LastOf(d, c, Creates), LastOf(e, c, Listing)
      PROVE  /\ Mine(r, q) = BlockOf(r, q, c, e)
             /\ SendLength(r, q) = IF Program[c] = "exchange_uniform" THEN Cardinality(Listed(r, q, e))
                                   ELSE proclist[d][r].bytes[q]
  <2>1. send[r].index[q] = Listed(r, q, e)
    BY <1>2, <1>7 DEF SendHalf
  <2>2. Mine(r, q) = BlockOf(r, q, c, e)
    BY <2>1 DEF Mine, BlockOf
  <2>3. ASSUME Program[c] # "exchange_uniform" PROVE send[r].bytes = proclist[d][r].bytes
    <3>1. Program[c] = "exchange_variable" /\ Program[c] \notin Creates
      BY <1>2, <2>3 DEF Exchanges, Creates
    <3>2. PICK f \in 1 .. c : LastOf(f, c, Creates) /\ Program[f] = "create_data_variable"
      BY <1>2, <3>1, ProgramOrderAssumption
    <3>3. d = f
      BY <1>2, <1>7, <3>2, LastOne
    <3>4. LastOf(d, c, {"create_data_variable"})
      BY <1>2, <1>7, <3>2, <3>3, BytesOfPlan
    <3> QED BY <1>2, <3>4 DEF SendHalf
  <2> QED BY <2>1, <2>2, <2>3 DEF SendLength, Method
<1>8. Right(m(q), r, q)
  BY <1>2, <1>6, <1>7 DEF Right
<1> QED BY <1>1, <1>2, <1>5, <1>6, <1>8 DEF Posts

LEMMA PostsMail ==
    ASSUME PlanInv, NEW r \in Proc, Step(r), Tell(r) \/ Send(r), NEW q \in Proc, NEW p \in Proc
    PROVE  DataMail(q, p)'
<1>1. PICK s \in Proc, m \in MessageType : Posts(r, s, m)
  BY TellPosts, SendPosts
<1>2. TypeOK /\ DataMail(q, p) /\ proclist' = proclist /\ LocalInv(r)
  BY StepFrame DEF PlanInv, PhaseInv
<1>3. call[r] \in Calls
  BY <1>1, <1>2 DEF Posts, TypeOK, ControlType, Running
<1>4. \A d, e \in Proc, f \in Calls : Sends(d, e, f) => HeardFrom(e, d, f)' <=> HeardFrom(e, d, f)
  <2>1. ~Hear(r) /\ posted' = posted
    BY <1>1 DEF Posts, Hear
  <2> SUFFICES ASSUME NEW d \in Proc, NEW e \in Proc, NEW f \in Calls, Sends(d, e, f)
               PROVE  HeardFrom(e, d, f)' <=> HeardFrom(e, d, f)
    OBVIOUS
  <2> QED BY <2>1, HeardUnless
<1>5. \A e \in Proc, f \in Calls :
        /\ SentTo(r, e, f)' <=> SentTo(r, e, f) \/ (e = s /\ f = call[r])
        /\ ~SentTo(r, s, call[r])
  BY <1>1, <1>2, SentOne DEF Posts
<1>6. CASE q = r /\ p = s
  <2>1. chan'[r][s][0] = Append(chan[r][s][0], m)
    BY <1>1, <1>2, PushThere DEF Posts
  <2>2. Sends(r, s, m.call) /\ m.call = call[r] /\ Right(m, r, s)
    BY <1>1, <1>2, SendsNext DEF Posts, IsNextDest
  <2> QED BY <1>2, <1>3, <1>4, <1>5, <1>6, <2>1, <2>2, MailPushed
<1>7. CASE ~(q = r /\ p = s)
  <2>1. chan'[q][p][0] = chan[q][p][0]
    BY <1>1, <1>2, <1>7, PushElsewhere DEF Posts
  <2>2. \A e \in Calls : Sends(q, p, e) => SentTo(q, p, e)' <=> SentTo(q, p, e)
    BY <1>5, <1>7, SentUnless
  <2> QED BY <1>2, <1>4, <2>1, <2>2, MailKeeps
<1> QED BY <1>6, <1>7

\* The two receives with tag 0, alike.
Takes(r, q) ==
    /\ Pop(q, r, 0) /\ Oldest(q, r, 0).call = call[r] /\ call' = call /\ pc' = pc
    /\ \/ /\ pc[r] = "hear"
          /\ heard' = [heard EXCEPT ![r] = Append(@, q)] /\ posted' = posted
       \/ /\ Exchanging(r) /\ q \in posted[r]
          /\ posted' = [posted EXCEPT ![r] = @ \ {q}] /\ heard' = heard

LEMMA TakesHeard ==
    ASSUME TypeOK, NEW r \in Proc, NEW s \in Proc, Takes(r, s), NEW q \in Proc, NEW e \in Calls
    PROVE  HeardFrom(r, q, e)' <=> HeardFrom(r, q, e) \/ (q = s /\ e = call[r])
<1>1. /\ heard \in [Proc -> Seq(Proc)] /\ posted \in [Proc -> SUBSET Proc] /\ r \in Proc
      /\ pc'[r] = pc[r] /\ call'[r] = call[r]
  BY DEF TypeOK, LoopType, Takes
<1>2. CASE pc[r] = "hear" /\ heard' = [heard EXCEPT ![r] = Append(@, s)]
  <2>1. SetOf(heard[r])' = SetOf(heard[r]) \union {s}
    <3>1. heard'[r] = Append(heard[r], s) /\ heard[r] \in Seq(Proc)
      BY <1>1, <1>2
    <3>2. SetOf(heard'[r]) = SetOf(heard[r]) \union {s}
      BY <3>1, AppendHeard
    <3> QED BY <3>2 DEF SetOf
  <2> QED BY <1>1, <1>2, <2>1 DEF HeardFrom, Exchanging
<1>3. CASE Exchanging(r) /\ s \in posted[r] /\ posted' = [posted EXCEPT ![r] = @ \ {s}]
  <2>1. posted'[r] = posted[r] \ {s}
    BY <1>1, <1>3
  <2> QED BY <1>1, <1>3, <2>1 DEF HeardFrom, Exchanging
<1> QED BY <1>2, <1>3 DEF Takes

LEMMA ReceiveTakes ==
    ASSUME PlanInv, NEW r \in Proc, Hear(r) \/ \E q \in Proc : Match(q, r)
    PROVE  \E q \in Proc : Takes(r, q)
<1>1. CASE Hear(r)
  <2>1. PICK q \in Proc : Pop(q, r, 0) /\ heard' = [heard EXCEPT ![r] = Append(@, q)]
    BY <1>1 DEF Hear
  <2>2. UNCHANGED <<call, pc, posted>> /\ pc[r] = "hear"
    BY <1>1 DEF Hear
  <2>3. Oldest(q, r, 0).call = call[r]
    BY <2>1, <2>2, HearsThisCall DEF Pop
  <2> QED BY <2>1, <2>2, <2>3 DEF Takes
<1>2. CASE \E q \in Proc : Match(q, r)
  <2>1. PICK q \in Proc : Match(q, r)
    BY <1>2
  <2>2. /\ Pop(q, r, 0) /\ q \in posted[r] /\ UNCHANGED <<call, pc, heard>>
        /\ posted' = [posted EXCEPT ![r] = @ \ {q}]
    BY <2>1 DEF Match
  <2>3. Oldest(q, r, 0).call = call[r] /\ Exchanging(r)
    BY <2>2, MatchesThisCall DEF Pop
  <2> QED BY <2>2, <2>3 DEF Takes
<1> QED BY <1>1, <1>2

LEMMA TakesMail ==
    ASSUME PlanInv, NEW r \in Proc, Step(r), Hear(r) \/ \E q \in Proc : Match(q, r),
           NEW q \in Proc, NEW p \in Proc
    PROVE  DataMail(q, p)'
<1>1. PICK s \in Proc : Takes(r, s)
  BY ReceiveTakes
<1>2. TypeOK /\ DataMail(q, p) /\ proclist' = proclist
  BY StepFrame DEF PlanInv, PhaseInv
<1>3. ~Tell(r) /\ ~Send(r)
  <2>1. Hear(r) => pc[r] = "hear"
    BY DEF Hear
  <2>2. Tell(r) \/ Send(r) => pc[r] # "hear" /\ posted' = posted
    BY DEF Tell, Send
  <2> QED BY <1>2, <2>1, <2>2, MatchMoves
<1>4. \A e \in Calls : Sends(q, p, e) => SentTo(q, p, e)' <=> SentTo(q, p, e)
  BY <1>3, SentUnless
<1>5. CASE q = s /\ p = r
  <2>1. /\ chan[s][r][0] # <<>> /\ chan'[s][r][0] = Tail(chan[s][r][0])
        /\ Oldest(s, r, 0).call = call[r]
    BY <1>1, <1>2, PopThere DEF Takes
  <2>2. \A e \in Calls : HeardFrom(r, s, e)' <=> HeardFrom(r, s, e) \/ e = call[r]
    BY <1>1, <1>2, TakesHeard
  <2> QED BY <1>2, <1>4, <1>5, <2>1, <2>2, MailPopped
<1>6. CASE ~(q = s /\ p = r)
  <2>1. chan'[q][p][0] = chan[q][p][0]
    BY <1>1, <1>2, <1>6, PopElsewhere DEF Takes
  <2>2. ASSUME NEW e \in Calls, Sends(q, p, e)
        PROVE  HeardFrom(p, q, e)' <=> HeardFrom(p, q, e)
    <3>1. CASE p = r
      BY <1>1, <1>2, <1>6, <3>1, TakesHeard
    <3>2. CASE p # r
      BY <2>2, <3>2, HeardUnless
    <3> QED BY <3>1, <3>2
  <2> QED BY <1>2, <1>4, <2>1, <2>2, MailKeeps
<1> QED BY <1>5, <1>6

\* All other steps leave the channels of tag 0 as they are.
LEMMA OthersKeep ==
    ASSUME TypeOK, NEW r \in Proc, Step(r), ~Tell(r), ~Send(r), ~Hear(r),
           \A q \in Proc : ~Match(q, r), NEW q \in Proc, NEW p \in Proc
    PROVE  chan'[q][p][0] = chan[q][p][0]
<1>1. CASE TellSize(r)
  <2>1. PICK s \in Proc :
            Push(r, s, 1, Message("size", call[r], send[r].bytes[s], NoBlock(r)))
    BY <1>1 DEF TellSize
  <2> QED BY <2>1, PushElsewhere
<1>2. CASE HearSize(r)
  <2>1. PICK s \in Proc : Pop(s, r, 1)
    BY <1>2 DEF HearSize
  <2> QED BY <2>1, PopElsewhere
<1>3. CASE UNCHANGED chan
  BY <1>3
<1> QED BY <1>1, <1>2, <1>3 DEF Step, StartCreate, Reduce, StartAugment, Told, Heard, Barrier, ToldSize,
        HeardSize, StartExchange, Unblock, Sent, Waitall

LEMMA StepDataMail ==
    ASSUME PlanInv, NEW r \in Proc, Step(r), NEW q \in Proc, NEW p \in Proc
    PROVE  DataMail(q, p)'
<1>1. TypeOK /\ DataMail(q, p) /\ proclist' = proclist
  BY StepFrame DEF PlanInv, PhaseInv
<1>2. CASE Tell(r) \/ Send(r)
  BY <1>2, PostsMail
<1>3. CASE Hear(r) \/ \E s \in Proc : Match(s, r)
  BY <1>3, TakesMail
<1>4. CASE ~Tell(r) /\ ~Send(r) /\ ~Hear(r) /\ \A s \in Proc : ~Match(s, r)
  <2>1. chan'[q][p][0] = chan[q][p][0]
    BY <1>1, <1>4, OthersKeep
  <2>2. \A e \in Calls : Sends(q, p, e) => SentTo(q, p, e)' <=> SentTo(q, p, e)
    BY <1>4, SentUnless
  <2>3. ASSUME NEW e \in Calls, Sends(q, p, e)
        PROVE  HeardFrom(p, q, e)' <=> HeardFrom(p, q, e)
    <3>1. CASE p = r
      BY <1>4, <2>3, <3>1, HeardSteady
    <3>2. CASE p # r
      BY <2>3, <3>2, HeardUnless
    <3> QED BY <3>1, <3>2
  <2> QED BY <1>1, <2>1, <2>2, <2>3, MailKeeps
<1> QED BY <1>2, <1>3, <1>4

-----------------------------------------------------------------------------
(* The channels of the byte counts.                                        *)
LEMMA SizeSentSteady ==
    ASSUME PlanInv, NEW r \in Proc, Step(r), ~TellSize(r),
           NEW p \in Proc, NEW e \in Calls, SendsSize(r, p, e)
    PROVE  SizeSentTo(r, p, e)' <=> SizeSentTo(r, p, e)
<1>1. /\ pc \in [Proc -> Phases] /\ call \in [Proc -> Nat] /\ r \in Proc /\ e \in Nat
      /\ call[r] \in Nat /\ unsent \in [Proc -> SUBSET Proc]
  BY CallsNumbered DEF PlanInv, PhaseInv, TypeOK, ControlType, LoopType
<1>2. LocalInv(r) /\ Program[e] = "create_data_variable" /\ PhaseOfMethod
  BY DEF PlanInv, PhaseInv, SendsSize
<1>3. CASE \/ StartCreate(r) \/ Reduce(r) \/ StartAugment(r) \/ Tell(r) \/ Told(r) \/ Hear(r)
           \/ Heard(r) \/ StartExchange(r) \/ Send(r) \/ Unblock(r) \/ Sent(r)
  <2>1. call' = call /\ {pc[r], pc'[r]} \cap {"tellsize", "hearsize"} = {}
    BY <1>1, <1>3 DEF StartCreate, Reduce, StartAugment, Tell, Told, Hear, Heard, StartExchange,
       Send, Unblock, Sent, Goto
  <2> QED BY <2>1 DEF SizeSentTo
<1>4. CASE Barrier(r)
  <2>1. CASE Method(r) = "create_data_variable"
    <3>1. /\ call' = call /\ pc[r] = "barrier" /\ pc'[r] = "tellsize"
          /\ unsent'[r] = send[r].dests
      BY <1>1, <1>4, <2>1 DEF Barrier, Goto
    <3>2. ASSUME e = call[r] PROVE p \in unsent'[r]
      <4>1. LastOf(e, e, Creates)
        BY <1>2, LastItself DEF Creates
      <4>2. Sends(r, p, call[r])
        BY <3>2, <4>1 DEF SendsSize, Sends
      <4> QED BY <1>2, <3>1, <3>2, <4>2, DestOfPlan DEF LocalInv, SendBase
    <3> QED BY <1>1, <3>1, <3>2 DEF SizeSentTo
  <2>2. CASE Method(r) # "create_data_variable"
    <3>1. call'[r] = call[r] + 1 /\ pc[r] = "barrier" /\ pc'[r] = "start"
      BY <1>1, <1>4, <2>2 DEF Barrier, Return, Goto
    <3>2. e # call[r]
      BY <1>2, <2>2 DEF Method
    <3> QED BY <1>1, <3>1, <3>2 DEF SizeSentTo
  <2> QED BY <2>1, <2>2
<1>5. CASE ToldSize(r)
  <2>1. call' = call /\ pc[r] = "tellsize" /\ pc'[r] = "hearsize" /\ unsent[r] = {}
    BY <1>1, <1>5 DEF ToldSize, Goto
  <2> QED BY <2>1 DEF SizeSentTo
<1>6. CASE HearSize(r)
  <2>1. call' = call /\ pc' = pc /\ unsent' = unsent
    BY <1>6 DEF HearSize
  <2> QED BY <2>1 DEF SizeSentTo
<1>7. CASE HeardSize(r)
  <2>1. call'[r] = call[r] + 1 /\ pc[r] = "hearsize" /\ pc'[r] = "start"
    BY <1>1, <1>7 DEF HeardSize, Return, Goto
  <2> QED BY <1>1, <2>1 DEF SizeSentTo
<1>8. CASE Waitall(r)
  <2>1. call'[r] = call[r] + 1 /\ pc[r] = "wait" /\ pc'[r] = "start"
    BY <1>1, <1>8 DEF Waitall, Return, Goto
  <2>2. e # call[r]
    BY <1>2, <2>1 DEF PhaseOfMethod, Method, Exchanges
  <2> QED BY <1>1, <2>1, <2>2 DEF SizeSentTo
<1>9. CASE \E q \in Proc : Match(q, r)
  <2>1. UNCHANGED <<call, pc, unsent>>
    BY <1>9 DEF Match
  <2> QED BY <2>1 DEF SizeSentTo
<1> QED BY <1>3, <1>4, <1>5, <1>6, <1>7, <1>8, <1>9 DEF Step

LEMMA SizeHeardSteady ==
    ASSUME PlanInv, NEW r \in Proc, Step(r), ~HearSize(r),
           NEW p \in Proc, NEW e \in Calls, SendsSize(p, r, e)
    PROVE  SizeHeardFrom(r, p, e)' <=> SizeHeardFrom(r, p, e)
<1>1. /\ pc \in [Proc -> Phases] /\ call \in [Proc -> Nat] /\ r \in Proc /\ e \in Nat
      /\ call[r] \in Nat /\ heard \in [Proc -> Seq(Proc)]
  BY CallsNumbered DEF PlanInv, PhaseInv, TypeOK, ControlType, LoopType
<1>2. /\ TypeOK /\ LocalInv(r) /\ Program[e] = "create_data_variable" /\ PhaseOfMethod
      /\ p \in Senders(r, e)
  BY DEF PlanInv, PhaseInv, SendsSize
<1>3. CASE \/ StartCreate(r) \/ Reduce(r) \/ StartAugment(r) \/ Tell(r) \/ Told(r) \/ Hear(r)
           \/ Heard(r) \/ TellSize(r) \/ StartExchange(r) \/ Send(r) \/ Unblock(r) \/ Sent(r)
  <2>1. call' = call /\ pc[r] # "hearsize" /\ pc'[r] # "hearsize"
    BY <1>1, <1>3 DEF StartCreate, Reduce, StartAugment, Tell, Told, Hear, Heard, TellSize,
       StartExchange, Send, Unblock, Sent, Goto
  <2> QED BY <2>1 DEF SizeHeardFrom
<1>4. CASE Barrier(r)
  <2>1. CASE Method(r) = "create_data_variable"
    <3>1. /\ call' = call /\ pc[r] = "barrier" /\ pc'[r] = "tellsize"
      BY <1>1, <1>4, <2>1 DEF Barrier, Goto
    <3> QED BY <3>1 DEF SizeHeardFrom
  <2>2. CASE Method(r) # "create_data_variable"
    <3>1. call'[r] = call[r] + 1 /\ pc[r] = "barrier" /\ pc'[r] = "start"
      BY <1>1, <1>4, <2>2 DEF Barrier, Return, Goto
    <3>2. e # call[r]
      BY <1>2, <2>2 DEF Method
    <3> QED BY <1>1, <3>1, <3>2 DEF SizeHeardFrom
  <2> QED BY <2>1, <2>2
<1>5. CASE ToldSize(r)
  <2>1. call' = call /\ pc[r] = "tellsize" /\ pc'[r] = "hearsize" /\ SetOf(heard[r])' = {}
    BY <1>1, <1>5 DEF ToldSize, Goto, SetOf
  <2> QED BY <2>1 DEF SizeHeardFrom
<1>6. CASE HeardSize(r)
  <2>1. /\ call'[r] = call[r] + 1 /\ pc[r] = "hearsize" /\ pc'[r] = "start"
        /\ Len(heard[r]) = nrecv[r]
    BY <1>1, <1>6 DEF HeardSize, Return, Goto
  <2>2. ASSUME e = call[r] PROVE p \in SetOf(heard[r])
    <3>1. LastOf(e, call[r], Creates)
      BY <1>2, <2>2, LastItself DEF Creates
    <3> QED BY <1>2, <2>1, <3>1, HeardAll
  <2> QED BY <1>1, <2>1, <2>2 DEF SizeHeardFrom
<1>7. CASE Waitall(r)
  <2>1. call'[r] = call[r] + 1 /\ pc[r] = "wait" /\ pc'[r] = "start"
    BY <1>1, <1>7 DEF Waitall, Return, Goto
  <2>2. e # call[r]
    BY <1>2, <2>1 DEF PhaseOfMethod, Method, Exchanges
  <2> QED BY <1>1, <2>1, <2>2 DEF SizeHeardFrom
<1>8. CASE \E q \in Proc : Match(q, r)
  <2>1. UNCHANGED <<call, pc, heard>>
    BY <1>8 DEF Match
  <2> QED BY <2>1 DEF SizeHeardFrom, SetOf
<1> QED BY <1>3, <1>4, <1>5, <1>6, <1>7, <1>8 DEF Step

LEMMA SizeSentUnless ==
    ASSUME PlanInv, NEW r \in Proc, Step(r), NEW q \in Proc, NEW p \in Proc, NEW e \in Calls,
           SendsSize(q, p, e), q # r \/ ~TellSize(r)
    PROVE  SizeSentTo(q, p, e)' <=> SizeSentTo(q, p, e)
<1>1. CASE q = r
  BY <1>1, SizeSentSteady
<1>2. CASE q # r
  <2>1. SameOwn(q)
    BY <1>2, StepFrame DEF PlanInv, PhaseInv
  <2> QED BY <2>1 DEF SameOwn, SizeSentTo
<1> QED BY <1>1, <1>2

LEMMA SizeHeardUnless ==
    ASSUME PlanInv, NEW r \in Proc, Step(r), NEW q \in Proc, NEW p \in Proc, NEW e \in Calls,
           SendsSize(q, p, e), p # r \/ ~HearSize(r)
    PROVE  SizeHeardFrom(p, q, e)' <=> SizeHeardFrom(p, q, e)
<1>1. CASE p = r
  BY <1>1, SizeHeardSteady
<1>2. CASE p # r
  <2>1. SameOwn(p)
    BY <1>2, StepFrame DEF PlanInv, PhaseInv
  <2> QED BY <2>1 DEF SameOwn, SizeHeardFrom, SetOf
<1> QED BY <1>1, <1>2

LEMMA TellSizeMail ==
    ASSUME PlanInv, NEW r \in Proc, Step(r), TellSize(r), NEW q \in Proc, NEW p \in Proc
    PROVE  SizeMail(q, p)'
<1> DEFINE c == call[r]
           m(s) == Message("size", c, send[r].bytes[s], NoBlock(r))
<1>1. PICK s \in Proc : /\ IsNextDest(r, s, unsent[r]) /\ Push(r, s, 1, m(s))
                        /\ unsent' = [unsent EXCEPT ![r] = @ \ {s}]
  BY DEF TellSize
<1>2. TypeOK /\ SizeMail(q, p) /\ proclist' = proclist /\ LocalInv(r)
  BY StepFrame DEF PlanInv, PhaseInv
<1>3. /\ pc[r] = "tellsize" /\ UNCHANGED <<call, pc>> /\ s \in unsent[r]
      /\ SendBase(r) = c
  BY <1>1 DEF TellSize, SendBase, IsNextDest
<1>4. /\ c \in Calls /\ c \in Nat /\ Program[c] = "create_data_variable"
      /\ unsent \in [Proc -> SUBSET Proc] /\ send[r].bytes[s] \in Nat
  <2>1. c \in Calls /\ c \in Nat
    BY <1>2, <1>3, CallsNumbered DEF TypeOK, ControlType, Running
  <2>2. Program[c] = "create_data_variable"
    BY <1>2, <1>3 DEF LocalInv, MethodOfPhase, Method
  <2>3. unsent \in [Proc -> SUBSET Proc] /\ SendType
    BY <1>2 DEF TypeOK, LoopType
  <2>4. send[r].bytes \in [Proc -> Nat]
    BY <2>3 DEF SendType
  <2> QED BY <2>1, <2>2, <2>3, <2>4
<1>5. SendsSize(r, s, c) /\ send[r].bytes = proclist[c][r].bytes
  <2>1. LastOf(c, c, Creates) /\ LastOf(c, c, {"create_data_variable"})
    BY <1>4, LastItself DEF Creates
  <2>2. send[r].dests = Dests(proclist[c][r]) \ {r} /\ unsent[r] \subseteq send[r].dests
    BY <1>2, <1>3, <1>4, <2>1 DEF LocalInv, SendHalf
  <2>3. send[r].bytes = proclist[c][r].bytes
    BY <1>2, <1>3, <1>4, <2>1 DEF LocalInv, SendHalf
  <2> QED BY <1>3, <1>4, <2>2, <2>3 DEF SendsSize, Senders
<1>6. PICK n \in MessageType : n = m(s) /\ n.call = c /\ RightSize(n, r, s)
  <2>1. m(s) \in MessageType
    BY <1>4, MessageTyped, NoBlockTyped
  <2> QED BY <1>5, <2>1 DEF Message, RightSize
<1>7. \A e \in Calls : SendsSize(q, p, e) => SizeHeardFrom(p, q, e)' <=> SizeHeardFrom(p, q, e)
  <2>1. ~HearSize(r)
    BY <1>3 DEF HearSize
  <2> QED BY <2>1, SizeHeardUnless
<1>8. \A e \in Calls : /\ SizeSentTo(r, p, e)' <=> SizeSentTo(r, p, e) \/ (p = s /\ e = c)
                       /\ ~SizeSentTo(r, s, c)
  <2>1. unsent'[r] = unsent[r] \ {s}
    BY <1>1, <1>4
  <2> QED BY <1>3, <1>4, <2>1 DEF SizeSentTo
<1>9. CASE q = r /\ p = s
  <2>1. chan'[r][s][1] = Append(chan[r][s][1], n)
    <3>1. Push(r, s, 1, n)
      BY <1>1, <1>6
    <3> QED BY <1>2, <3>1, PushThere
  <2>2. \A e \in Calls : SendsSize(r, s, e) =>
          /\ SizeSentTo(r, s, e)' <=> SizeSentTo(r, s, e) \/ e = n.call
          /\ SizeHeardFrom(s, r, e)' <=> SizeHeardFrom(s, r, e)
    BY <1>6, <1>7, <1>8, <1>9
  <2>3. /\ n.call = call[r] /\ RightSize(n, r, s) /\ SendsSize(r, s, n.call)
        /\ ~SizeSentTo(r, s, n.call)
    BY <1>4, <1>5, <1>6, <1>8
  <2>4. SizeMail(r, s)
    BY <1>2, <1>9
  <2>5. SizeMail(r, s)'
    BY <1>2, <2>1, <2>2, <2>3, <2>4, SizeMailPushed
  <2> QED BY <1>9, <2>5
<1>10. CASE ~(q = r /\ p = s)
  <2>1. chan'[q][p][1] = chan[q][p][1]
    BY <1>1, <1>2, <1>10, PushElsewhere
  <2>2. \A e \in Calls : SendsSize(q, p, e) => SizeSentTo(q, p, e)' <=> SizeSentTo(q, p, e)
    BY <1>8, <1>10, SizeSentUnless
  <2> QED BY <1>2, <1>7, <2>1, <2>2, SizeMailKeeps
<1> QED BY <1>9, <1>10

LEMMA HearSizeMail ==
    ASSUME PlanInv, NEW r \in Proc, Step(r), HearSize(r), NEW q \in Proc, NEW p \in Proc
    PROVE  SizeMail(q, p)'
<1>1. PICK s \in Proc : Pop(s, r, 1) /\ heard' = [heard EXCEPT ![r] = Append(@, s)]
  BY DEF HearSize
<1>2. TypeOK /\ SizeMail(q, p) /\ proclist' = proclist /\ heard \in [Proc -> Seq(Proc)]
  BY StepFrame DEF PlanInv, PhaseInv, TypeOK, LoopType
<1>3. pc[r] = "hearsize" /\ UNCHANGED <<call, pc>>
  BY DEF HearSize
<1>4. /\ chan[s][r][1] # <<>> /\ chan'[s][r][1] = Tail(chan[s][r][1])
      /\ Oldest(s, r, 1).call = call[r]
  <2>1. chan[s][r][1] \in Seq(MessageType)
    BY <1>2 DEF TypeOK, ChanType
  <2>2. chan[s][r][1] # <<>> /\ chan'[s][r][1] = Tail(chan[s][r][1])
    BY <1>1, <1>2, PopThere
  <2>3. 1 \in DOMAIN chan[s][r][1] /\ Oldest(s, r, 1) = chan[s][r][1][1]
    BY <2>1, <2>2 DEF Oldest
  <2> QED BY <1>3, <2>2, <2>3, HearsThisSize
<1>5. \A e \in Calls : SizeHeardFrom(r, q, e)' <=> SizeHeardFrom(r, q, e) \/ (q = s /\ e = call[r])
  <2>1. SetOf(heard[r])' = SetOf(heard[r]) \union {s}
    <3>1. heard'[r] = Append(heard[r], s) /\ heard[r] \in Seq(Proc)
      BY <1>1, <1>2
    <3>2. SetOf(heard'[r]) = SetOf(heard[r]) \union {s}
      BY <3>1, AppendHeard
    <3> QED BY <3>2 DEF SetOf
  <2> QED BY <1>3, <2>1 DEF SizeHeardFrom
<1>6. \A e \in Calls : SendsSize(q, p, e) => SizeSentTo(q, p, e)' <=> SizeSentTo(q, p, e)
  <2>1. ~TellSize(r)
    BY <1>3 DEF TellSize
  <2> QED BY <2>1, SizeSentUnless
<1>7. CASE q = s /\ p = r
  BY <1>2, <1>4, <1>5, <1>6, <1>7, SizeMailPopped
<1>8. CASE ~(q = s /\ p = r)
  <2>1. chan'[q][p][1] = chan[q][p][1]
    BY <1>1, <1>2, <1>8, PopElsewhere
  <2>2. \A e \in Calls : SendsSize(q, p, e) => SizeHeardFrom(p, q, e)' <=> SizeHeardFrom(p, q, e)
    BY <1>5, <1>8, SizeHeardUnless
  <2> QED BY <1>2, <1>6, <2>1, <2>2, SizeMailKeeps
<1> QED BY <1>7, <1>8

LEMMA StepSizeMail ==
    ASSUME PlanInv, NEW r \in Proc, Step(r), NEW q \in Proc, NEW p \in Proc
    PROVE  SizeMail(q, p)'
<1>1. TypeOK /\ SizeMail(q, p) /\ proclist' = proclist
  BY StepFrame DEF PlanInv, PhaseInv
<1>2. CASE TellSize(r)
  BY <1>2, TellSizeMail
<1>3. CASE HearSize(r)
  BY <1>3, HearSizeMail
<1>4. CASE ~TellSize(r) /\ ~HearSize(r)
  <2>1. chan'[q][p][1] = chan[q][p][1]
    <3>1. CASE Tell(r) \/ Send(r)
      <4>1. PICK s \in Proc : \E m : Push(r, s, 0, m)
        BY <3>1 DEF Tell, Send
      <4>2. PICK m : Push(r, s, 0, m)
        BY <4>1
      <4> QED BY <1>1, <4>2, PushElsewhere
    <3>2. CASE Hear(r) \/ \E s \in Proc : Match(s, r)
      <4>1. PICK s \in Proc : Pop(s, r, 0)
        BY <3>2 DEF Hear, Match
      <4> QED BY <1>1, <4>1, PopElsewhere
    <3>3. CASE UNCHANGED chan
      BY <3>3
    <3> QED BY <1>4, <3>1, <3>2, <3>3 DEF Step, StartCreate, Reduce, StartAugment, Told, Heard, Barrier,
            ToldSize, HeardSize, StartExchange, Unblock, Sent, Waitall
  <2>2. \A e \in Calls : SendsSize(q, p, e) => SizeSentTo(q, p, e)' <=> SizeSentTo(q, p, e)
    BY <1>4, SizeSentUnless
  <2>3. \A e \in Calls : SendsSize(q, p, e) => SizeHeardFrom(p, q, e)' <=> SizeHeardFrom(p, q, e)
    BY <1>4, SizeHeardUnless
  <2> QED BY <1>1, <2>1, <2>2, <2>3, SizeMailKeeps
<1> QED BY <1>2, <1>3, <1>4

-----------------------------------------------------------------------------
(* The Reduce_scatter holds everyone back.                                 *)
LEMMA StepPasses ==
    ASSUME TypeOK, NEW p \in Proc, Step(p)
    PROVE  \/ call'[p] = call[p] + 1 /\ pc[p] \notin {"start", "reduce"} /\ pc'[p] = "start"
           \/ /\ call'[p] = call[p] /\ (pc[p] # "start" => pc'[p] # "start")
              /\ pc[p] \in {"start", "reduce"} /\ pc'[p] \notin {"start", "reduce"} =>
                   EveryonePast(call[p], BeforeReduce) \/ Method(p) \notin Creates
<1>1. pc \in [Proc -> Phases] /\ call \in [Proc -> Nat] /\ p \in Proc
  BY CallsNumbered DEF TypeOK, ControlType
<1>2. CASE StartCreate(p) \/ Reduce(p)
  BY <1>1, <1>2 DEF StartCreate, Reduce, Goto
<1>3. CASE StartAugment(p) \/ StartExchange(p)
  <2>1. call' = call /\ pc'[p] # "start"
    BY <1>1, <1>3 DEF StartAugment, StartExchange, Goto
  <2>2. Method(p) \notin Creates
    BY <1>3 DEF StartAugment, StartExchange, Exchanges, Creates
  <2> QED BY <2>1, <2>2
<1>4. CASE Barrier(p) \/ HeardSize(p) \/ Waitall(p)
  BY <1>1, <1>4 DEF Barrier, HeardSize, Waitall, Goto, Return
<1>5. CASE \/ Tell(p) \/ Told(p) \/ Hear(p) \/ Heard(p) \/ TellSize(p) \/ ToldSize(p) \/ HearSize(p)
           \/ Send(p) \/ Unblock(p) \/ Sent(p)
  BY <1>1, <1>5 DEF Tell, Told, Hear, Heard, TellSize, ToldSize, HearSize, Send, Unblock, Sent, Goto
<1>6. CASE \E q \in Proc : Match(q, p)
  BY <1>6 DEF Match
<1> QED BY <1>2, <1>3, <1>4, <1>5, <1>6 DEF Step

LEMMA StepReduceHolds ==
    ASSUME TypeOK, ReduceHolds, NEW p \in Proc, Step(p)
    PROVE  ReduceHolds'
<1>1. /\ call \in [Proc -> Nat] /\ \A c \in Calls : c \in Nat
      /\ \A r \in Proc \ {p} : call'[r] = call[r] /\ pc'[r] = pc[r]
  BY CallsNumbered, StepFrame DEF TypeOK, ControlType, SameOwn
<1>2. ASSUME NEW c \in Calls, EveryonePast(c, BeforeReduce)
      PROVE  EveryonePast(c, BeforeReduce)'
  <2> SUFFICES ASSUME NEW q \in Proc
               PROVE  call'[q] > c \/ (call'[q] = c /\ pc'[q] # "start")
    BY DEF EveryonePast, BeforeReduce
  <2>1. call[q] > c \/ (call[q] = c /\ pc[q] # "start")
    BY <1>2 DEF EveryonePast, BeforeReduce
  <2>2. CASE q = p
    BY <1>1, <2>1, <2>2, StepPasses
  <2>3. CASE q # p
    BY <1>1, <2>1, <2>3
  <2> QED BY <2>2, <2>3
<1> SUFFICES ASSUME NEW q \in Proc, NEW c \in Calls, Program[c] \in Creates, PastReduce(q, c)'
             PROVE  EveryonePast(c, BeforeReduce)'
  BY DEF ReduceHolds
<1>3. PastReduce(q, c) \/ EveryonePast(c, BeforeReduce)
  <2>1. CASE q = p
    <3>1. call'[p] > c \/ (call'[p] = c /\ pc'[p] \notin {"start", "reduce"})
      BY <2>1 DEF PastReduce
    <3>2. CASE call'[p] = call[p] + 1 /\ pc[p] \notin {"start", "reduce"} /\ pc'[p] = "start"
      BY <1>1, <2>1, <3>1, <3>2 DEF PastReduce
    <3>3. CASE /\ call'[p] = call[p] /\ (pc[p] # "start" => pc'[p] # "start")
               /\ pc[p] \in {"start", "reduce"} /\ pc'[p] \notin {"start", "reduce"} =>
                    EveryonePast(call[p], BeforeReduce) \/ Method(p) \notin Creates
      BY <1>1, <2>1, <3>1, <3>3 DEF PastReduce, Method
    <3> QED BY <3>2, <3>3, StepPasses
  <2>2. CASE q # p
    BY <1>1, <2>2 DEF PastReduce
  <2> QED BY <2>1, <2>2
<1>4. EveryonePast(c, BeforeReduce)
  BY <1>3 DEF ReduceHolds
<1> QED BY <1>2, <1>4

-----------------------------------------------------------------------------
(* PlanInv is inductive.                                                   *)
LEMMA InitPlan == Init => PlanInv
<1> SUFFICES ASSUME Init PROVE PlanInv
  OBVIOUS
<1>1. PhaseInv
  BY InitPhase
<1>2. \A p \in Proc : call[p] = 1 /\ pc[p] = "start" /\ posted[p] = {}
  BY DEF Init
<1>3. \A d, methods : ~LastOf(d, 0, methods)
  BY DEF LastOf
<1>4. ReduceHolds
  BY <1>2, CallsNumbered DEF ReduceHolds, PastReduce
<1>5. ASSUME NEW p \in Proc PROVE LocalInv(p)
  <2>1. SendBase(p) = 0 /\ RecvBase(p) = 0 /\ call[p] - 1 = 0
    BY <1>2 DEF SendBase, RecvBase, BeforeBarrier
  <2>2. MethodOfPhase(p) /\ SendHalf(p) /\ RecvPlan(p) /\ NumKnown(p) /\ SizeKnown(p)
    BY <1>2, <1>3, <2>1 DEF MethodOfPhase, SendHalf, RecvPlan, NumKnown, SizeKnown
  <2>3. Listening(p) /\ Arriving(p)
    BY <1>2 DEF Listening, Arriving, Exchanging
  <2>4. Buffered(p)
    BY <2>1, CallsNumbered DEF Buffered, AfterExchange
  <2> QED BY <2>2, <2>3, <2>4 DEF LocalInv
<1>6. ASSUME NEW p \in Proc, NEW q \in Proc PROVE DataMail(q, p) /\ SizeMail(q, p)
  <2>1. chan[q][p][0] = <<>> /\ chan[q][p][1] = <<>>
    BY DEF Init
  <2>2. /\ \A e \in Calls : ~SentTo(q, p, e) /\ ~HeardFrom(p, q, e)
        /\ \A e \in Calls : ~SizeSentTo(q, p, e) /\ ~SizeHeardFrom(p, q, e)
    BY <1>2, CallsNumbered DEF SentTo, HeardFrom, SizeSentTo, SizeHeardFrom, Exchanging
  <2>3. CallsIn(<<>>) = {} /\ InOrder(<<>>)
    BY DEF CallsIn, InOrder
  <2> QED BY <2>1, <2>2, <2>3 DEF DataMail, SizeMail
<1> QED BY <1>1, <1>4, <1>5, <1>6 DEF PlanInv

LEMMA StutterPlan ==
    ASSUME PlanInv, UNCHANGED vars
    PROVE  PlanInv'
<1>1. PhaseInv'
  BY StepPhase DEF PlanInv
<1>2. proclist' = proclist /\ chan' = chan /\ call' = call /\ pc' = pc /\ unsent' = unsent
  BY DEF vars
<1>3. \A p \in Proc : SameOwn(p)
  BY DEF vars, plan, SameOwn
<1>4. \A p \in Proc : LocalInv(p)'
  BY <1>2, <1>3, LocalFrame DEF PlanInv
<1>5. ReduceHolds'
  BY <1>2 DEF PlanInv, ReduceHolds, PastReduce, EveryonePast
<1>6. ASSUME NEW p \in Proc, NEW q \in Proc PROVE DataMail(q, p)' /\ SizeMail(q, p)'
  <2>1. SameOwn(p) /\ SameOwn(q)
    BY <1>3
  <2>2. \A e : /\ SentTo(q, p, e)' <=> SentTo(q, p, e)
               /\ HeardFrom(p, q, e)' <=> HeardFrom(p, q, e)
    BY <2>1 DEF SameOwn, SentTo, HeardFrom, IsNextDest, Exchanging, SetOf
  <2>3. \A e : /\ SizeSentTo(q, p, e)' <=> SizeSentTo(q, p, e)
               /\ SizeHeardFrom(p, q, e)' <=> SizeHeardFrom(p, q, e)
    BY <2>1 DEF SameOwn, SizeSentTo, SizeHeardFrom, SetOf
  <2>4. chan'[q][p][0] = chan[q][p][0] /\ chan'[q][p][1] = chan[q][p][1]
    BY <1>2
  <2> QED BY <1>2, <2>2, <2>3, <2>4, MailKeeps, SizeMailKeeps DEF PlanInv
<1> QED BY <1>1, <1>4, <1>5, <1>6 DEF PlanInv

LEMMA StepPlan == PlanInv /\ [Next]_vars => PlanInv'
<1> SUFFICES ASSUME PlanInv, [Next]_vars PROVE PlanInv'
  OBVIOUS
<1>1. CASE UNCHANGED vars
  BY <1>1, StutterPlan
<1>2. ASSUME NEW p \in Proc, Step(p) PROVE PlanInv'
  <2>1. PhaseInv'
    BY StepPhase DEF PlanInv
  <2>2. ReduceHolds'
    BY <1>2, StepReduceHolds DEF PlanInv, PhaseInv
  <2> QED BY <1>2, <2>1, <2>2, StepLocalInv, StepDataMail, StepSizeMail DEF PlanInv
<1> QED BY <1>1, <1>2 DEF Next, Done

LEMMA PlanInvariant == Spec => []PlanInv
BY InitPlan, StepPlan, PTL DEF Spec

-----------------------------------------------------------------------------
(* What follows.                                                           *)

\* The byte counts of create_data_variable have a tag of their own and no
\* barrier after them; still a process that receives them from any source
\* finds only those of the call it is in.
THEOREM SizesOfThisCall == Spec => []WildcardsHearSizes
<1>1. PlanInv => WildcardsHearSizes
  BY HearsThisSize DEF WildcardsHearSizes
<1> QED BY <1>1, PlanInvariant, PTL

\* At the barrier of a call nobody has made another plan, nor is behind it.
LEMMA EveryoneHasThePlan ==
    ASSUME PlanInv, NEW p \in Proc, call[p] \in Calls, NEW d \in Calls, NEW q \in Proc,
           LastOf(d, call[p], Creates), d < call[p]
    PROVE  send[q].dests = Dests(proclist[d][q]) \ {q}
<1> DEFINE c == call[p]
           b == SendBase(q)
<1>1. c \in Nat /\ d \in Nat /\ call[q] \in Nat /\ b \in Int
  BY CallsNumbered DEF PlanInv, PhaseInv, TypeOK, ControlType, SendBase
<1>2. Program[d] \in Creates /\ d \in 1 .. c
  BY DEF LastOf
<1>3. d <= b
  <2>1. Program[d] \notin Exchanges /\ PastBarrier(p, d)
    BY <1>2 DEF Creates, Exchanges, PastBarrier
  <2>2. EveryonePast(d, BeforeBarrier)
    BY <2>1 DEF PlanInv, PhaseInv, BarrierHolds
  <2> QED BY <1>1, <2>2 DEF EveryonePast, BeforeBarrier, SendBase
<1>4. ASSUME NEW f \in d + 1 .. b PROVE Program[f] \notin Creates
  <2>1. CASE f <= c
    BY <1>1, <2>1 DEF LastOf
  <2>2. CASE f > c
    <3>1. f \in Calls /\ PastReduce(q, f)
      <4>0. ControlType
        BY DEF PlanInv, PhaseInv, TypeOK
      <4>1. call[q] \in Calls \/ (call[q] = Len(Program) + 1 /\ pc[q] = "start")
        <5>1. call[q] \in 1 .. Len(Program) + 1 /\ (pc[q] # "start" => call[q] \in Calls)
          BY <4>0 DEF ControlType, Running
        <5> QED BY <5>1, CallsNumbered
      <4>2. f \in Calls
        BY <1>1, <4>1, CallsNumbered DEF SendBase
      <4> QED BY <1>1, <4>2 DEF PastReduce, SendBase
    <3>2. ASSUME Program[f] \in Creates PROVE FALSE
      <4>1. EveryonePast(f, BeforeReduce)
        BY <3>1, <3>2 DEF PlanInv, ReduceHolds
      <4> QED BY <1>1, <2>2, <4>1 DEF EveryonePast
    <3> QED BY <3>2
  <2> QED BY <1>1, <2>1, <2>2
<1>5. LastOf(d, b, Creates)
  BY <1>1, <1>2, <1>3, <1>4 DEF LastOf
<1> QED BY <1>5 DEF PlanInv, LocalInv, SendHalf

LEMMA PlanIsRight == PlanInv => PlanAgrees
<1> SUFFICES ASSUME PlanInv, NEW p \in Proc, pc[p] = "barrier"
             PROVE  /\ SetOf(procRecv[p]) = IF Method(p) \in Creates THEN Senders(p, call[p])
                                            ELSE {q \in Proc : p \in send[q].dests}
                    /\ \A i, j \in DOMAIN procRecv[p] : i < j =>
                         IF call[p] \in Sort THEN procRecv[p][i] < procRecv[p][j]
                                             ELSE procRecv[p][i] # procRecv[p][j]
                    /\ Method(p) # "create_procs" =>
                         \A i \in DOMAIN procRecv[p] :
                             numRecv[p][procRecv[p][i]]
                               = Cardinality(Indices(proclist[call[p]][procRecv[p][i]], p))
  BY DEF PlanAgrees, SetOf
<1> DEFINE c == call[p]
<1>1. c \in Calls /\ Method(p) \in Listing \union {"create_procs"} /\ c \in Nat
  BY Planning, CallsNumbered DEF PlanInv
<1>2. RecvBase(p) = c
  BY DEF RecvBase, BeforeBarrier
<1>3. PICK d \in Calls : d <= c /\ LastOf(d, c, Creates)
  BY <1>1, PlanExists
<1>4. /\ SetOf(procRecv[p]) = Senders(p, d) /\ OnceEach(procRecv[p])
      /\ d \in Sort => \A i, j \in DOMAIN procRecv[p] : i < j => procRecv[p][i] < procRecv[p][j]
  BY <1>2, <1>3 DEF PlanInv, LocalInv, RecvPlan
<1>5. Method(p) \in Creates => d = c
  BY <1>1, <1>3, LastItself DEF Method
<1>6. ASSUME Method(p) \notin Creates
      PROVE  Senders(p, d) = {q \in Proc : p \in send[q].dests}
  <2>1. d # c /\ d < c
    BY <1>1, <1>3, <1>6, CallsNumbered DEF LastOf, Method
  <2>2. \A q \in Proc : send[q].dests = Dests(proclist[d][q]) \ {q}
    BY <1>1, <1>3, <2>1, EveryoneHasThePlan
  <2> QED BY <2>2 DEF Senders
<1>7. c \in Sort => d = c
  BY <1>5, SortAssumption DEF Method
<1>8. procRecv[p] \in Seq(Proc)
  BY DEF PlanInv, PhaseInv, TypeOK, RecvType
<1>9. \A i, j \in DOMAIN procRecv[p] : i < j => procRecv[p][i] # procRecv[p][j]
  <2>1. \A i \in DOMAIN procRecv[p] : i \in Int
    BY <1>8
  <2> QED BY <1>4, <2>1 DEF OnceEach
<1>10. ASSUME Method(p) # "create_procs", NEW i \in DOMAIN procRecv[p]
       PROVE  numRecv[p][procRecv[p][i]] = Cardinality(Indices(proclist[c][procRecv[p][i]], p))
  <2>1. LastOf(c, c, Listing)
    BY <1>1, <1>10, LastItself DEF Method
  <2>2. procRecv[p][i] \in Senders(p, d)
    BY <1>4 DEF SetOf
  <2> QED BY <1>1, <1>2, <1>3, <2>1, <2>2 DEF PlanInv, LocalInv, NumKnown, Listed
<1> QED BY <1>4, <1>5, <1>6, <1>7, <1>9, <1>10

\* The receiving half of a plan that a process takes to the barrier agrees
\* with the lists of its senders, and so with what these will send: who, in
\* which order, and how many datums.
THEOREM PlanCorrect == Spec => []PlanAgrees
BY PlanIsRight, PlanInvariant, PTL

\* An exchange has a plan and a list of datums, which is not older.
LEMMA ExchangeHasList ==
    ASSUME NEW c \in Calls, Program[c] \in Exchanges
    PROVE  \E d, e \in Calls :
             /\ LastOf(d, c, Creates) /\ LastOf(e, c, Listing) /\ d <= e
             /\ LastOf(d, c - 1, Creates) /\ LastOf(e, c - 1, Listing)
             /\ Program[c] = "exchange_variable" => Program[d] = "create_data_variable"
<1>1. Program[c] \notin Creates /\ Program[c] \notin Listing
  BY DEF Creates, Listing, Exchanges
<1>2. PICK d \in 1 .. c : /\ LastOf(d, c, Creates)
                          /\ \E e \in d .. c : LastOf(e, c, Listing)
                          /\ Program[c] = "exchange_variable" => Program[d] = "create_data_variable"
  BY <1>1, ProgramOrderAssumption
<1>3. PICK e \in d .. c : LastOf(e, c, Listing)
  BY <1>2
<1>4. c \in 0 .. Len(Program)
  BY CallsNumbered
<1>5. d \in Calls /\ e \in Calls /\ d <= e
  BY <1>2, <1>3, <1>4, LastIsCall
<1>6. LastOf(d, c - 1, Creates) /\ LastOf(e, c - 1, Listing)
  BY <1>1, <1>2, <1>3, LastEarlier
<1> QED BY <1>2, <1>3, <1>5, <1>6

LEMMA MatchesAreFit == PlanInv => IrecvsFit
<1> SUFFICES ASSUME PlanInv, NEW p \in Proc, NEW q \in Proc, q \in posted[p], chan[q][p][0] # <<>>
             PROVE  LET m == Oldest(q, p, 0)
                    IN  m.kind = "data" /\ m.call = call[p] /\ m.n = RecvLength(p, q)
  BY DEF IrecvsFit
<1> DEFINE m == Oldest(q, p, 0)
           c == call[p]
<1>1. /\ m.call = c /\ Right(m, q, p) /\ Sends(q, p, c)
      /\ Exchanging(p) /\ Program[c] \in Exchanges
  BY MatchesThisCall
<1>2. c \in Calls
  BY <1>1 DEF PlanInv, PhaseInv, TypeOK, ControlType, Running, Exchanging
<1>3. PICK d, e \in Calls :
        /\ LastOf(d, c, Creates) /\ LastOf(e, c, Listing) /\ d <= e
        /\ LastOf(d, c - 1, Creates)
        /\ Program[c] = "exchange_variable" => Program[d] = "create_data_variable"
  BY <1>1, <1>2, ExchangeHasList
<1>4. /\ m.kind = "data"
      /\ m.n = IF Program[c] = "exchange_uniform" THEN Cardinality(Listed(q, p, e))
               ELSE proclist[d][q].bytes[p]
  BY <1>1, <1>3 DEF Right
<1>5. q \in Senders(p, d)
  BY <1>1, <1>2, <1>3, LastOne, CallsNumbered DEF Sends
<1>6. RecvBase(p) = c /\ pc[p] \notin {"hear", "hearsize"}
  BY <1>1 DEF RecvBase, BeforeBarrier, Exchanging
<1>7. numRecv[p][q] = Cardinality(Listed(q, p, e))
  BY <1>3, <1>5, <1>6 DEF PlanInv, LocalInv, NumKnown
<1>8. CASE Program[c] = "exchange_uniform"
  BY <1>1, <1>4, <1>7, <1>8 DEF RecvLength, Method
<1>9. CASE Program[c] = "exchange_variable"
  <2>1. sizeRecv[p][q] = proclist[d][q].bytes[p]
    BY <1>3, <1>5, <1>6, <1>9 DEF PlanInv, LocalInv, SizeKnown
  <2> QED BY <1>1, <1>4, <1>9, <2>1 DEF RecvLength, Method
<1> QED BY <1>1, <1>8, <1>9 DEF Exchanges

\* What an open Irecv is matched with is the data of this very exchange, as
\* long as the segment of the receive buffer it is for.
THEOREM SegmentsFit == Spec => []IrecvsFit
BY MatchesAreFit, PlanInvariant, PTL

\* Between two calls the plan of the last exchange is still known.
LEMMA AfterExchangeKnown ==
    ASSUME PlanInv, NEW p \in Proc, AfterExchange(p)
    PROVE  \E d, e \in Calls :
             /\ LastOf(d, call[p] - 1, Creates) /\ LastOf(e, call[p] - 1, Listing) /\ d <= e
             /\ SetOf(procRecv[p]) = Senders(p, d)
             /\ \A q \in Senders(p, d) : numRecv[p][q] = Cardinality(Listed(q, p, e))
             /\ send[p].index[p] = Listed(p, p, e)
             /\ recvbuf[p] = <<BlockOf(p, p, call[p] - 1, e)>> \o
                  [i \in DOMAIN procRecv[p] |-> BlockOf(procRecv[p][i], p, call[p] - 1, e)]
<1> DEFINE c == call[p] - 1
<1>1. c \in Calls /\ Program[c] \in Exchanges /\ pc[p] = "start"
  BY DEF AfterExchange
<1>2. PICK d, e \in Calls : LastOf(d, c, Creates) /\ LastOf(e, c, Listing) /\ d <= e
  BY <1>1, ExchangeHasList
<1>3. SendBase(p) = c /\ RecvBase(p) = c /\ pc[p] # "hear"
  BY <1>1 DEF SendBase, RecvBase, BeforeBarrier
<1>4. LocalInv(p)
  BY DEF PlanInv
<1>5. SetOf(procRecv[p]) = Senders(p, d)
  BY <1>2, <1>3, <1>4 DEF LocalInv, RecvPlan
<1>6. \A q \in Senders(p, d) : numRecv[p][q] = Cardinality(Listed(q, p, e))
  BY <1>2, <1>3, <1>4 DEF LocalInv, NumKnown
<1>7. send[p].index[p] = Listed(p, p, e)
  BY <1>2, <1>3, <1>4 DEF LocalInv, SendHalf
<1>8. recvbuf[p] = <<BlockOf(p, p, c, e)>> \o
        [i \in DOMAIN procRecv[p] |-> BlockOf(procRecv[p][i], p, c, e)]
  BY <1>2, <1>4 DEF LocalInv, Buffered
<1> QED BY <1>2, <1>5, <1>6, <1>7, <1>8

\* What follows one element in a sequence.
LEMMA OneThenOthers ==
    ASSUME NEW S, NEW x \in S, NEW n \in Nat, NEW t \in [1 .. n -> S]
    PROVE  /\ DOMAIN (<<x>> \o t) = 1 .. n + 1
           /\ <<x>> \o t \in Seq(S) /\ Len(<<x>> \o t) = n + 1
           /\ (<<x>> \o t)[1] = x /\ \A i \in 1 .. n : (<<x>> \o t)[i + 1] = t[i]
<1>1. t \in Seq(S) /\ Len(t) = n /\ <<x>> \in Seq(S) /\ Len(<<x>>) = 1
  OBVIOUS
<1>2. /\ <<x>> \o t \in Seq(S) /\ Len(<<x>> \o t) = n + 1
      /\ (<<x>> \o t)[1] = x /\ \A i \in 1 .. n : (<<x>> \o t)[i + 1] = t[i]
  BY <1>1
<1> QED BY <1>2

LEMMA ReverseIsTrue == PlanInv => ReverseNamesSenders
<1> SUFFICES ASSUME PlanInv, NEW p \in Proc, AfterExchange(p)
             PROVE  ReverseRuns(p) = [i \in DOMAIN recvbuf[p] |->
                        <<recvbuf[p][i].from, Cardinality(recvbuf[p][i].datums)>>]
  BY DEF ReverseNamesSenders
<1> DEFINE c == call[p] - 1
           n == Len(procRecv[p])
<1>1. PICK d, e \in Calls :
        /\ SetOf(procRecv[p]) = Senders(p, d)
        /\ \A q \in Senders(p, d) : numRecv[p][q] = Cardinality(Listed(q, p, e))
        /\ send[p].index[p] = Listed(p, p, e)
        /\ recvbuf[p] = <<BlockOf(p, p, c, e)>> \o
              [i \in DOMAIN procRecv[p] |-> BlockOf(procRecv[p][i], p, c, e)]
  BY AfterExchangeKnown
<1> DEFINE run(q) == <<q, Cardinality(Listed(q, p, e))>>
           runs == [i \in 1 .. n |-> <<procRecv[p][i], numRecv[p][procRecv[p][i]]>>]
           blocks == [i \in 1 .. n |-> BlockOf(procRecv[p][i], p, c, e)]
           r == ReverseRuns(p)
           b == recvbuf[p]
<1>2. DOMAIN procRecv[p] = 1 .. n /\ n \in Nat
  BY DEF PlanInv, PhaseInv, TypeOK, RecvType
<1>3. /\ \A i \in 1 .. n : procRecv[p][i] \in Senders(p, d)
      /\ \A i \in 1 .. n : runs[i] = run(procRecv[p][i])
  BY <1>1, <1>2 DEF SetOf
<1>4. /\ r = <<run(p)>> \o runs
      /\ b = <<BlockOf(p, p, c, e)>> \o blocks
  BY <1>1, <1>2 DEF ReverseRuns
<1>5. /\ r = [i \in 1 .. n + 1 |-> r[i]]
      /\ r[1] = run(p) /\ \A i \in 1 .. n : r[i + 1] = runs[i]
  <2> DEFINE x == run(p)
             S == {x} \union {runs[i] : i \in 1 .. n}
  <2>1. x \in S /\ runs \in [1 .. n -> S]
    OBVIOUS
  <2> HIDE DEF x, runs, S
  <2>2. n \in Nat /\ x \in S /\ runs \in [1 .. n -> S]
    BY <1>2, <2>1
  <2> HIDE DEF n
  <2>3. /\ (<<x>> \o runs)[1] = x
        /\ \A i \in 1 .. n : (<<x>> \o runs)[i + 1] = runs[i]
    BY <2>2, OneThenOthers
  <2>4. <<x>> \o runs = [i \in 1 .. n + 1 |-> (<<x>> \o runs)[i]]
    <3>1. <<x>> \o runs \in Seq(S) /\ Len(<<x>> \o runs) = n + 1
      BY <2>2, OneThenOthers
    <3> QED BY <3>1
  <2> QED BY <1>4, <2>3, <2>4 DEF x
<1>6. /\ DOMAIN b = 1 .. n + 1
      /\ b[1] = BlockOf(p, p, c, e) /\ \A i \in 1 .. n : b[i + 1] = blocks[i]
  <2> DEFINE S == {BlockOf(p, p, c, e)} \union {blocks[i] : i \in 1 .. n}
  <2>1. BlockOf(p, p, c, e) \in S /\ blocks \in [1 .. n -> S]
    OBVIOUS
  <2> HIDE DEF blocks, S
  <2>2. /\ DOMAIN (<<BlockOf(p, p, c, e)>> \o blocks) = 1 .. n + 1
        /\ (<<BlockOf(p, p, c, e)>> \o blocks)[1] = BlockOf(p, p, c, e)
        /\ \A i \in 1 .. n : (<<BlockOf(p, p, c, e)>> \o blocks)[i + 1] = blocks[i]
    BY <1>2, <2>1, OneThenOthers
  <2> QED BY <1>4, <2>2
<1>7. \A q : /\ BlockOf(q, p, c, e).from = q
             /\ BlockOf(q, p, c, e).datums = Listed(q, p, e)
  BY DEF BlockOf, Block
<1>8. ASSUME NEW i \in 1 .. n + 1
      PROVE  r[i] = <<b[i].from, Cardinality(b[i].datums)>>
  <2>1. CASE i = 1
    BY <1>5, <1>6, <1>7, <2>1
  <2>2. CASE i # 1
    <3> DEFINE j == i - 1
    <3>1. j \in 1 .. n /\ i = j + 1
      BY <1>2, <2>2
    <3>2. r[i] = run(procRecv[p][j]) /\ b[i] = BlockOf(procRecv[p][j], p, c, e)
      <4>1. r[j + 1] = runs[j] /\ b[j + 1] = blocks[j]
        BY <1>5, <1>6, <3>1
      <4> QED BY <1>3, <3>1, <4>1
    <3> QED BY <1>7, <3>2
  <2> QED BY <2>1, <2>2
<1> HIDE DEF r, b
<1>9. [i \in DOMAIN b |-> <<b[i].from, Cardinality(b[i].datums)>>] = r
  BY <1>5, <1>6, <1>8
<1> QED BY <1>9 DEF r, b

\* reverse() reads the plan of the last exchange; the buffer was filled in the
\* order of that plan, so the runs name the sources of the datums and how many.
THEOREM ReverseTellsTheTruth == Spec => []ReverseNamesSenders
BY ReverseIsTrue, PlanInvariant, PTL

-----------------------------------------------------------------------------
(* The protocol implements the abstract exchange: every step of a process  *)
(* is one of the abstract one, or leaves what it is made of as it is.      *)

\* The vocabulary of both is the same.
LEMMA SameWords ==
    /\ Abstract!Proc = Proc /\ Abstract!Calls = Calls /\ Abstract!Exchanges = Exchanges
    /\ Abstract!Creates = Creates /\ Abstract!Listing = Listing
    /\ \A d, c, methods : Abstract!LastOf(d, c, methods) <=> LastOf(d, c, methods)
    /\ \A list : Abstract!Dests(list) = Dests(list)
    /\ \A list, q : Abstract!Indices(list, q) = Indices(list, q)
    /\ \A p, c, indices : Abstract!Block(p, c, indices) = Block(p, c, indices)
BY DEF Abstract!Proc, Proc, Abstract!Calls, Calls, Abstract!Exchanges, Exchanges,
       Abstract!Creates, Creates, Abstract!Listing, Listing, Abstract!LastOf, LastOf,
       Abstract!Dests, Dests, Abstract!Indices, Indices, Abstract!Block, Block

LEMMA SamePlan ==
    ASSUME NEW c \in Calls, NEW d, LastOf(d, c, Creates), NEW e, LastOf(e, c, Listing)
    PROVE  Abstract!PlanCall(c) = d /\ Abstract!ListCall(c) = e
<1>1. c \in Nat /\ d \in 1 .. c /\ e \in 1 .. c
  BY CallsNumbered DEF LastOf
<1>2. \A f \in 1 .. c : /\ Abstract!LastOf(f, c, Abstract!Creates) <=> f = d
                        /\ Abstract!LastOf(f, c, Abstract!Listing) <=> f = e
  BY <1>1, SameWords, LastOne
<1> QED BY <1>1, <1>2 DEF Abstract!PlanCall, Abstract!ListCall

LEMMA SameSources ==
    ASSUME NEW p \in Proc, NEW c \in Calls, NEW d, LastOf(d, c, Creates),
           NEW e, LastOf(e, c, Listing)
    PROVE  Abstract!Sources(p, c) = Senders(p, d)
<1>1. Abstract!PlanCall(c) = d
  BY SamePlan
<1> QED BY <1>1, SameWords DEF Abstract!Sources, Senders

\* A sequence that names every source once is one of the orders of a buffer.
LEMMA PlanIsOrder ==
    ASSUME NEW p \in Proc, NEW c \in Calls, NEW d, LastOf(d, c, Creates),
           NEW e, LastOf(e, c, Listing),
           NEW s \in Seq(Proc), SetOf(s) = Senders(p, d), OnceEach(s),
           d \in Sort => \A i, j \in DOMAIN s : i < j => s[i] < s[j]
    PROVE  s \in Abstract!Orders(p, c)
<1> DEFINE S == Senders(p, d)
<1>1. DOMAIN s = 1 .. Len(s) /\ Len(s) \in Nat
  OBVIOUS
<1>2. s \in Bijection(1 .. Len(s), S)
  <2>1. s \in [1 .. Len(s) -> S]
    BY <1>1 DEF SetOf
  <2>2. s \in Injection(1 .. Len(s), S)
    BY <1>1, <2>1 DEF Injection, IsInjective, OnceEach
  <2>3. s \in Surjection(1 .. Len(s), S)
    BY <1>1, <2>1 DEF Surjection, SetOf
  <2> QED BY <2>2, <2>3 DEF Bijection
<1>3. IsFiniteSet(1 .. Len(s)) /\ Cardinality(1 .. Len(s)) = Len(s)
  <2>1. 1 \in Int /\ Len(s) \in Int /\ Len(s) - 1 + 1 = Len(s) /\ (1 > Len(s) => Len(s) = 0)
    BY <1>1
  <2> QED BY <2>1, FS_Interval
<1>4. Cardinality(S) = Len(s)
  <2>1. Cardinality(1 .. Len(s)) = Cardinality(S)
    BY <1>2, <1>3, FS_Bijection DEF ExistsBijection
  <2> QED BY <1>3, <2>1
<1>5. s \in Abstract!SetToSeqs(S)
  <2>1. s \in [1 .. Cardinality(S) -> S]
    BY <1>2, <1>4 DEF Bijection, Injection
  <2>2. \A i, j \in 1 .. Cardinality(S) : i # j => s[i] # s[j]
    BY <1>1, <1>4 DEF OnceEach
  <2>0. Abstract!Cardinality(S) = Cardinality(S)
    BY DEF Abstract!Cardinality, Cardinality
  <2>3. Abstract!SetToSeqs(S) = {f \in [1 .. Cardinality(S) -> S] :
                                    \A i, j \in 1 .. Cardinality(S) : i # j => f[i] # f[j]}
    BY <2>0 DEF Abstract!SetToSeqs
  <2> QED BY <2>1, <2>2, <2>3
<1> QED BY <1>5, SamePlan, SameSources DEF Abstract!Orders

\* The buffer of the last exchange is the abstract one, in the order of the plan.
LEMMA SameBuffer ==
    ASSUME NEW p \in Proc, NEW c \in Calls, NEW d, LastOf(d, c, Creates),
           NEW e, LastOf(e, c, Listing), NEW s \in Seq(Proc)
    PROVE  Abstract!Buffer(p, c, <<p>> \o s)
             = <<BlockOf(p, p, c, e)>> \o [i \in DOMAIN s |-> BlockOf(s[i], p, c, e)]
<1> DEFINE n == Len(s)
           o == <<p>> \o s
           blocks == [i \in 1 .. n |-> BlockOf(s[i], p, c, e)]
           x == BlockOf(p, p, c, e)
           b == <<x>> \o blocks
<1>1. DOMAIN s = 1 .. n /\ n \in Nat /\ s \in [1 .. n -> Proc]
  OBVIOUS
<1>2. DOMAIN o = 1 .. n + 1 /\ o[1] = p /\ \A i \in 1 .. n : o[i + 1] = s[i]
  BY <1>1, OneThenOthers
<1>3. /\ DOMAIN b = 1 .. n + 1 /\ b = [i \in DOMAIN b |-> b[i]]
      /\ b[1] = x /\ \A i \in 1 .. n : b[i + 1] = blocks[i]
  <2> DEFINE S == {x} \union {blocks[i] : i \in 1 .. n}
  <2>1. x \in S /\ blocks \in [1 .. n -> S] /\ n \in Nat
    BY <1>1
  <2> HIDE DEF x, blocks, S
  <2>2. b \in Seq(S)
    BY <2>1, OneThenOthers
  <2>3. DOMAIN b = 1 .. n + 1 /\ b[1] = x /\ \A i \in 1 .. n : b[i + 1] = blocks[i]
    BY <2>1, OneThenOthers
  <2> QED BY <2>2, <2>3
<1>4. \A i \in 1 .. n + 1 : b[i] = BlockOf(o[i], p, c, e)
  <2> SUFFICES ASSUME NEW i \in 1 .. n + 1 PROVE b[i] = BlockOf(o[i], p, c, e)
    OBVIOUS
  <2>1. CASE i = 1
    BY <1>2, <1>3, <2>1
  <2>2. CASE i # 1
    <3> DEFINE j == i - 1
    <3>1. j \in 1 .. n /\ i = j + 1
      BY <1>1, <2>2
    <3>2. b[j + 1] = blocks[j] /\ o[j + 1] = s[j]
      BY <1>2, <1>3, <3>1
    <3> QED BY <3>1, <3>2
  <2> QED BY <2>1, <2>2
<1>5. Abstract!Buffer(p, c, o) = [i \in DOMAIN o |-> BlockOf(o[i], p, c, e)]
  BY SameWords, SamePlan DEF Abstract!Buffer, BlockOf, Listed
<1> HIDE DEF b, o
<1>6. Abstract!Buffer(p, c, o) = b
  BY <1>2, <1>3, <1>4, <1>5
<1> QED BY <1>1, <1>6 DEF b, o

\* A call that is no exchange returns when everybody has come to it.
LEMMA AgreeRefines ==
    ASSUME PlanInv, NEW p \in Proc, Barrier(p) \/ HeardSize(p), Return(p)
    PROVE  Abstract!Agree(p)
<1> DEFINE c == call[p]
<1>1. c \in Calls /\ Program[c] \notin Exchanges
  BY DEF PlanInv, PhaseInv, PhaseOfMethod, TypeOK, ControlType, Running, Method, Barrier, HeardSize
<1>2. \E before : EveryonePast(c, before)
  <2>1. CASE Barrier(p)
    BY <2>1 DEF Barrier
  <2>2. CASE HeardSize(p)
    BY <1>1, <2>2 DEF HeardSize, PlanInv, PhaseInv, BarrierHolds, PastBarrier
  <2> QED BY <2>1, <2>2
<1>3. call \in [Proc -> Nat] /\ c \in Nat
  BY <1>1, CallsNumbered DEF PlanInv, PhaseInv, TypeOK, ControlType
<1>4. \A q \in Proc : call[q] >= c
  BY <1>2, <1>3 DEF EveryonePast
<1>5. UNCHANGED <<proclist, recvbuf>> /\ call' = [call EXCEPT ![p] = @ + 1]
  BY DEF Barrier, HeardSize, Return
<1> QED BY <1>1, <1>4, <1>5, SameWords DEF Abstract!Agree, Abstract!Return

\* An exchange returns with the blocks of its sources, which have come to it.
LEMMA WaitallRefines ==
    ASSUME PlanInv, NEW p \in Proc, Waitall(p)
    PROVE  Abstract!Exchange(p)
<1> DEFINE c == call[p]
           s == procRecv[p]
<1>1. c \in Calls /\ Program[c] \in Exchanges /\ pc[p] = "wait" /\ posted[p] = {} /\ Exchanging(p)
  BY DEF PlanInv, PhaseInv, PhaseOfMethod, TypeOK, ControlType, Running, Method, Waitall, Exchanging
<1>2. PICK d, e \in Calls : LastOf(d, c, Creates) /\ LastOf(e, c, Listing)
  BY <1>1, ExchangeHasList
<1>3. s \in Seq(Proc) /\ call \in [Proc -> Nat]
  <2>1. RecvType /\ ControlType
    BY DEF PlanInv, PhaseInv, TypeOK
  <2> QED BY <2>1, CallsNumbered DEF RecvType, ControlType
<1>4. RecvBase(p) = c
  BY <1>1 DEF RecvBase, BeforeBarrier
<1>5. /\ SetOf(s) = Senders(p, d) /\ OnceEach(s)
      /\ d \in Sort => \A i, j \in DOMAIN s : i < j => s[i] < s[j]
  BY <1>2, <1>4 DEF PlanInv, LocalInv, RecvPlan
<1>6. s \in Abstract!Orders(p, c)
  BY <1>1, <1>2, <1>3, <1>5, PlanIsOrder
<1>7. ASSUME NEW q \in Senders(p, d) PROVE call[q] >= c
  <2>1. q \in Proc /\ Sends(q, p, c)
    BY <1>2, <1>7 DEF Sends, Senders
  <2>2. HeardFrom(p, q, c)
    BY <1>1 DEF HeardFrom
  <2>3. SentTo(q, p, c)
    BY <1>1, <2>1, <2>2 DEF PlanInv, DataMail
  <2> QED BY <1>3, <2>1, <2>3, CallsNumbered, <1>1 DEF SentTo
<1>8. Abstract!Sources(p, c) = Senders(p, d)
  BY <1>1, <1>2, SameSources
<1>9. recvbuf' = [recvbuf EXCEPT ![p] = Abstract!Buffer(p, c, <<p>> \o s)]
  <2>1. LocalInv(p)
    BY DEF PlanInv
  <2>2. arrived[p][p] = BlockOf(p, p, c, e)
    BY <1>1, <1>2, <2>1 DEF LocalInv, Arriving
  <2>3. \A i \in DOMAIN s : arrived[p][s[i]] = BlockOf(s[i], p, c, e)
    BY <1>1, <1>2, <2>1 DEF LocalInv, Arriving, SetOf
  <2>4. <<arrived[p][p]>> \o [i \in DOMAIN s |-> arrived[p][s[i]]]
          = Abstract!Buffer(p, c, <<p>> \o s)
    <3>1. [i \in DOMAIN s |-> arrived[p][s[i]]] = [i \in DOMAIN s |-> BlockOf(s[i], p, c, e)]
      BY <2>3
    <3>2. Abstract!Buffer(p, c, <<p>> \o s)
            = <<BlockOf(p, p, c, e)>> \o [i \in DOMAIN s |-> BlockOf(s[i], p, c, e)]
      <4>1. /\ p \in Proc /\ c \in Calls /\ s \in Seq(Proc)
            /\ LastOf(d, c, Creates) /\ LastOf(e, c, Listing)
        BY <1>1, <1>2, <1>3
      <4> HIDE DEF c, s
      <4> QED BY <4>1, SameBuffer, ZenonT(30)
    <3> QED BY <2>2, <3>1, <3>2
  <2> QED BY <2>4 DEF Waitall
<1>10. UNCHANGED proclist /\ call' = [call EXCEPT ![p] = @ + 1]
  BY DEF Waitall, Return
<1> QED BY <1>1, <1>6, <1>7, <1>8, <1>9, <1>10, SameWords DEF Abstract!Exchange, Abstract!Return

LEMMA StepRefines ==
    ASSUME PlanInv, NEW p \in Proc, Step(p)
    PROVE  Abstract!Agree(p) \/ Abstract!Exchange(p) \/ UNCHANGED Abstract!vars
<1>1. CASE Barrier(p)
  <2>1. CASE Method(p) = "create_data_variable"
    BY <1>1, <2>1 DEF Barrier, Abstract!vars
  <2>2. CASE Method(p) # "create_data_variable"
    BY <1>1, <2>2, AgreeRefines DEF Barrier
  <2> QED BY <2>1, <2>2
<1>2. CASE HeardSize(p)
  BY <1>2, AgreeRefines DEF HeardSize
<1>3. CASE Waitall(p)
  BY <1>3, WaitallRefines
<1>4. CASE StartCreate(p) \/ Reduce(p) \/ StartAugment(p) \/ Tell(p) \/ Told(p) \/ Hear(p) \/ Heard(p)
  BY <1>4 DEF StartCreate, Reduce, StartAugment, Tell, Told, Hear, Heard, Abstract!vars
<1>5. CASE \/ TellSize(p) \/ ToldSize(p) \/ HearSize(p) \/ StartExchange(p) \/ Send(p)
           \/ Unblock(p) \/ Sent(p) \/ \E q \in Proc : Match(q, p)
  BY <1>5 DEF TellSize, ToldSize, HearSize, StartExchange, Send, Unblock, Sent, Match, Abstract!vars
<1> QED BY <1>1, <1>2, <1>3, <1>4, <1>5 DEF Step

\* What callers see of class Irregular is the abstract exchange: agreeing on a
\* plan is a rendezvous, and an exchange hands over the datums listed for the
\* process by each source, in the order of the plan, as soon as these sources
\* have come to it.  (That every call ends is left to the model checker.)
THEOREM SafelyImplements == Spec => Abstract!Init /\ [][Abstract!Next]_(Abstract!vars)
<1>1. Init => Abstract!Init
  BY SameWords DEF Init, Abstract!Init
<1>2. PlanInv /\ [Next]_vars => [Abstract!Next]_(Abstract!vars)
  <2> SUFFICES ASSUME PlanInv, [Next]_vars PROVE [Abstract!Next]_(Abstract!vars)
    OBVIOUS
  <2>1. CASE UNCHANGED vars
    BY <2>1 DEF vars, Abstract!vars
  <2>2. ASSUME NEW p \in Proc, Step(p) PROVE [Abstract!Next]_(Abstract!vars)
    BY <2>2, StepRefines, SameWords DEF Abstract!Next
  <2> QED BY <2>1, <2>2 DEF Next, Done
<1> QED BY <1>1, <1>2, PlanInvariant, PTL DEF Spec

=============================================================================
