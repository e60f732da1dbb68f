---------------------------------- MODULE RCB ----------------------------------
(***************************************************************************)
(* The recursive coordinate bisection of the load balancer (RCB::compute   *)
(* and invert).  The processes of a partition look together for a cut that *)
(* splits the weight of their dots (grid cells) as the halves of the       *)
(* partition deserve, send the dots that lie on the other side to a        *)
(* partner there, and go on in each half until a partition is one process. *)
(*                                                                         *)
(* The search is in lockstep, by reductions over the partition, and is an  *)
(* action of the partition; the exchange is of single messages, with ready *)
(* sends that a handshake has to make safe (see RCBPartners).              *)
(*                                                                         *)
(* Coordinates are integers; a cut between two dots is represented by an   *)
(* integer between them.  The first guess of each round of the search      *)
(* depends on the options (half way, by weight, an old cut): here it is    *)
(* any value in the interval.                                              *)
(***************************************************************************)
EXTENDS RCBPartners, SequencesExt, FiniteSetsExt

CONSTANTS Loads     \* sequences, by process, of the dots of each

Dims == {1, 2}
\* There is a process, and a grid has a cell.
ASSUME LoadsAssumption ==
  \A l \in Loads : l \in Seq(Seq([x : Int \X Int, wt : Nat])) /\ \E q \in DOMAIN l : l[q] # <<>>

VARIABLES load,     \* the dots to begin with
          pc,
          part,     \* [lo, hi]: proclower and procupper
          box,      \* rcbbox of each process: a [lo, hi] for each dimension
          dots,     \* dots of each process: [proc, index, x, wt]
          nkeep,    \* how many of the first of them have never migrated
          mark,     \* dotmark: side of the cut
          active,   \* dotlist: indices of dots that no side is sure of
          search,   \* [dim, wtlo, wthi, min, max] of the partition
          k,        \* partners heard from, or pinged
          incoming, \* how many dots each partner will send
          posted,   \* the partners of the posted receives
          buf,      \* dots to send
          ctrl, data, \* messages of tag 0 and 1 on the way from p to q
          sendproc  \* the answer: the new owner of each dot

vars == <<load, pc, part, box, dots, nkeep, mark, active, search, k, incoming,
          posted, buf, ctrl, data, sendproc>>

NProcs == Len(load)
Procs == 0 .. NProcs - 1

Part(p) == part[p].lo .. part[p].hi
Together(p, l) == \A q \in Part(p) : pc[q] = l

Partner(p) == PartnerIn(part[p], p)
\* The last process forgets the odd one.
SourcesOne(p) == SelectSeq(SourcesIn(part[p], p), LAMBDA q : q = Partner(p))
Sources(p) == SourcesIn(part[p], p)

\* Marks the dots that go to the other half.
MarkActive(p) == IF p < Partner(p) THEN 1 ELSE 0
Leaves(p) == {i \in DOMAIN dots[p] : mark[p][i] = MarkActive(p)}
\* The dots of p at the indices in S, in order.
Nth(S, j) == CHOOSE i \in S : Cardinality({h \in S : h <= i}) = j
Pick(p, S) == [j \in 1 .. Cardinality(S) |-> dots[p][Nth(S, j)]]

MyDots(p) == [i \in DOMAIN load[p + 1] |-> [proc |-> p, index |-> i,
                                           x |-> load[p + 1][i].x, wt |-> load[p + 1][i].wt]]
Held(p) == {<<p, i>> : i \in DOMAIN dots[p]}
DotsOf(p) == UNION {Held(q) : q \in Part(p)}
Dot(d) == dots[d[1]][d[2]]
WeightOf(S) == MapThenSumSet(LAMBDA d : Dot(d).wt, S)

Init ==
  /\ load \in Loads
  /\ pc = [p \in Procs |-> "level"]
  /\ part = [p \in Procs |-> [lo |-> 0, hi |-> NProcs - 1]]
  /\ dots = [p \in Procs |-> MyDots(p)]
  /\ nkeep = [p \in Procs |-> Len(load[p + 1])]
  /\ LET xs(d) == UNION {{load[q][i].x[d] : i \in DOMAIN load[q]} : q \in DOMAIN load}
     IN  box = [p \in Procs |-> [d \in Dims |-> [lo |-> Min(xs(d)), hi |-> Max(xs(d))]]]
  /\ mark = [p \in Procs |-> <<>>] /\ active = [p \in Procs |-> {}]
  /\ search = [p \in Procs |-> <<>>]
  /\ k = [p \in Procs |-> 0] /\ incoming = [p \in Procs |-> <<>>]
  /\ posted = [p \in Procs |-> {}] /\ buf = [p \in Procs |-> <<>>]
  /\ ctrl = [p \in Procs |-> [q \in Procs |-> <<>>]] /\ data = ctrl
  /\ sendproc = [p \in Procs |-> [i \in DOMAIN load[p + 1] |-> -1]]

-----------------------------------------------------------------------------
(* The search for the cut.  Weights are multiplied by the size of the      *)
(* partition, so that the target of the lower half is an integer.          *)

Weight(p, S) == Cardinality(Part(p)) * WeightOf(S)
Total(p) == WeightOf(DotsOf(p))
\* Half of the weight, whatever the number of processes.
TargetEqual(p, side) == (Total(p) * Cardinality(Part(p))) \div 2
Target(p, side) == Total(p) * (IF side = 0 THEN Half(part[p]) ELSE Cardinality(Part(p)) - Half(part[p]))
Largest(S) == Max({Dot(d).wt : d \in S} \union {0})
Tolerance(p) == Cardinality(Part(p)) * Largest(DotsOf(p))

StartSearch(p) ==
  /\ p = part[p].lo /\ p # part[p].hi /\ Together(p, "level")
  /\ LET long(d) == box[p][d].hi - box[p][d].lo
         dim     == IF long(2) > long(1) THEN 2 ELSE 1
     IN  search' = [search EXCEPT ![p] = [dim |-> dim, wt |-> [s \in {0, 1} |-> 0],
                                          min |-> box[p][dim].lo, max |-> box[p][dim].hi]]
  /\ mark' = [q \in Procs |-> IF q \in Part(p) THEN [i \in DOMAIN dots[q] |-> 0] ELSE mark[q]]
  /\ active' = [q \in Procs |-> IF q \in Part(p) THEN DOMAIN dots[q] ELSE active[q]]
  /\ pc' = [q \in Procs |-> IF q \in Part(p) THEN "search" ELSE pc[q]]
  /\ UNCHANGED <<load, part, box, dots, nkeep, k, incoming, posted, buf, ctrl, data, sendproc>>

(***************************************************************************)
(* A side that is too small takes dots next to the cut: the one that is    *)
(* closest, or, of several at the same coordinate, as many as are wanted.  *)
(* A process knows by MPI_Scan what those before it move.                  *)
(***************************************************************************)
\* Each process by itself moves what is wanted.
MayMoveAlone(p, T, need, q) == Min({need, Weight(p, {d \in T : d[1] = q})})
\* What process q may move of the ties T, with need weight wanted in all.
MayMove(p, T, need, q) ==
  LET mine == Weight(p, {d \in T : d[1] = q})
      upto == Weight(p, {d \in T : d[1] <= q})
  IN  IF upto > need THEN mine - (upto - need) ELSE mine
Moved(p, T, need) ==
  LET w == Weight(p, T)
      \* of those of one process, in order: nearer with it than without
      nearer(d, ok) == 2 * Weight(p, {e \in T : e[1] = d[1] /\ e[2] < d[2]}) + Weight(p, {d}) < 2 * ok
  IN  IF w < need THEN T
      ELSE IF Cardinality(T) = 1 THEN (IF w - need < need THEN T ELSE {})
      ELSE {d \in T : nearer(d, MayMove(p, T, need, d[1]))}

\* The active dots on side s (0: lower) of a guess half.
Side(p, s, half) ==
  {d \in DotsOf(p) : d[2] \in active[d[1]] /\ (Dot(d).x[search[p].dim] <= half <=> s = 0)}
SideWeight(p, s, half) == search[p].wt[s] + Weight(p, Side(p, s, half))
\* The lower side is looked at first.
TooSmall(p, half) == {s \in {0, 1} : SideWeight(p, s, half) < Target(p, s)}

\* A guess marks the active dots; those in S change to side s.
Marks(p, half, s, S) ==
  LET low  == (Side(p, 0, half) \ S) \union (IF s = 0 THEN S ELSE {})
      high == (Side(p, 1, half) \ S) \union (IF s = 1 THEN S ELSE {})
  IN  [q \in Procs |-> IF q \notin Part(p) THEN mark[q]
         ELSE [i \in DOMAIN dots[q] |-> IF <<q, i>> \in low THEN 0
                                        ELSE IF <<q, i>> \in high THEN 1 ELSE mark[q][i]]]

FoundCut(p, half) ==
  /\ box' = [q \in Procs |->
               IF q \notin Part(p) THEN box[q]
               ELSE IF q < Mid(part[p]) THEN [box[q] EXCEPT ![search[p].dim].hi = half]
               ELSE [box[q] EXCEPT ![search[p].dim].lo = half]]
  /\ pc' = [q \in Procs |-> IF q \in Part(p) THEN "tell" ELSE pc[q]]
  /\ k' = [q \in Procs |-> IF q \in Part(p) THEN 0 ELSE k[q]]
  /\ UNCHANGED <<search, active>>

Extend(p, s, half) ==
  /\ s \in TooSmall(p, half) /\ (s = 1 => 0 \notin TooSmall(p, half))
  /\ LET far  == Side(p, 1 - s, half)
         xs   == {Dot(d).x[search[p].dim] : d \in far}
         v    == IF s = 0 THEN Min(xs) ELSE Max(xs)
         ties == {d \in far : Dot(d).x[search[p].dim] = v}
         need == Target(p, s) - SideWeight(p, s, half)
         S    == Moved(p, ties, need)
     IN  /\ mark' = Marks(p, half, s, S)
         /\ IF need - Weight(p, ties) <= Tolerance(p)
            THEN FoundCut(p, v)
            ELSE /\ active' = [q \in Procs |-> IF q \in Part(p) THEN {i \in active[q] : <<q, i>> \in far \ S}
                                               ELSE active[q]]
                 /\ search' = [search EXCEPT ![p].wt[s] = SideWeight(p, s, half) + Weight(p, ties),
                                 ![p].min = IF s = 0 THEN v ELSE @,
                                 ![p].max = IF s = 1 THEN v ELSE @]
                 /\ UNCHANGED <<pc, box, k>>

JustRight(p, half) ==
  /\ TooSmall(p, half) = {}
  /\ mark' = Marks(p, half, 0, {})
  /\ FoundCut(p, half)

Bisect(p) ==
  /\ p = part[p].lo /\ Together(p, "search")
  /\ \E half \in search[p].min .. search[p].max :
       (\E s \in {0, 1} : Extend(p, s, half)) \/ JustRight(p, half)
  /\ UNCHANGED <<load, part, dots, nkeep, incoming, posted, buf, ctrl, data, sendproc>>

-----------------------------------------------------------------------------
(* The exchange.                                                           *)

Go(p, l) == pc' = [pc EXCEPT ![p] = l]
Put(c, p, q, m) == [c EXCEPT ![p][q] = Append(@, m)]
Took(c, p, q) == [c EXCEPT ![p][q] = Tail(@)]

\* As if every dot that leaves were one of the first nkeep.
KeptOfAll(p) == Max({0, nkeep[p] - Cardinality(Leaves(p))})
Kept(p) == Cardinality({i \in 1 .. nkeep[p] : i \notin Leaves(p)})

\* How many dots the partner will get.
Tell(p) ==
  /\ pc[p] = "tell"
  /\ nkeep' = [nkeep EXCEPT ![p] = Kept(p)]
  /\ ctrl' = Put(ctrl, p, Partner(p), Cardinality(Leaves(p)))
  /\ incoming' = [incoming EXCEPT ![p] = <<>>]
  /\ Go(p, "hear")
  /\ UNCHANGED <<load, part, box, dots, mark, active, search, k, posted, buf, data, sendproc>>

Hear(p) ==
  /\ pc[p] = "hear" /\ Len(incoming[p]) < Len(Sources(p))
  /\ LET q == Sources(p)[Len(incoming[p]) + 1]
     IN  /\ ctrl[q][p] # <<>>
         /\ incoming' = [incoming EXCEPT ![p] = Append(@, Head(ctrl[q][p]))]
         /\ ctrl' = Took(ctrl, q, p)
  /\ UNCHANGED <<load, pc, part, box, dots, nkeep, mark, active, search, k, posted, buf, data, sendproc>>

\* Pack the dots that leave, close the gaps, post the receives.
PostFor(p, from) ==
  /\ pc[p] = "hear" /\ Len(incoming[p]) = Len(Sources(p))
  /\ buf' = [buf EXCEPT ![p] = Pick(p, Leaves(p))]
  /\ dots' = [dots EXCEPT ![p] = Pick(p, DOMAIN dots[p] \ Leaves(p))]
  /\ mark' = [mark EXCEPT ![p] = <<>>] /\ active' = [active EXCEPT ![p] = {}]
  /\ posted' = [posted EXCEPT ![p] = from]
  /\ Go(p, "ping")
  /\ UNCHANGED <<load, part, box, nkeep, search, k, incoming, ctrl, data, sendproc>>
\* One receive, for both messages.
PostOne(p) == PostFor(p, {Partner(p)} \cap ToSet(Sources(p)))
Post(p) == PostFor(p, ToSet(Sources(p)))

\* The handshake goes to everyone the process reads from.
Ping(p) ==
  /\ pc[p] = "ping" /\ k[p] < Len(Sources(p))
  /\ ctrl' = Put(ctrl, p, Sources(p)[k[p] + 1], 0)
  /\ k' = [k EXCEPT ![p] = @ + 1]
  /\ UNCHANGED <<load, pc, part, box, dots, nkeep, mark, active, search, incoming, posted, buf, data, sendproc>>

Await(p) ==
  /\ pc[p] = "ping" /\ k[p] = Len(Sources(p))
  /\ ctrl[Partner(p)][p] # <<>>
  /\ ctrl' = Took(ctrl, Partner(p), p)
  /\ Go(p, "send")
  /\ UNCHANGED <<load, part, box, dots, nkeep, mark, active, search, k, incoming, posted, buf, data, sendproc>>

SendDots(p) ==
  /\ pc[p] = "send"
  /\ data' = Put(data, p, Partner(p), buf[p])
  /\ Go(p, "wait")
  /\ UNCHANGED <<load, part, box, dots, nkeep, mark, active, search, k, incoming, posted, buf, ctrl, sendproc>>

\* Both receives, one behind the other in the array.
Arriving(p) ==
  LET from(j) == IF j \in DOMAIN Sources(p) THEN Head(data[Sources(p)[j]][p]) ELSE <<>>
  IN  from(1) \o from(2)
Wait(p) ==
  /\ pc[p] = "wait" /\ \A q \in posted[p] : data[q][p] # <<>>
  /\ dots' = [dots EXCEPT ![p] = @ \o Arriving(p)]
  /\ data' = [q \in Procs |-> IF q \in posted[p] THEN [data[q] EXCEPT ![p] = Tail(@)] ELSE data[q]]
  /\ posted' = [posted EXCEPT ![p] = {}]
  /\ buf' = [buf EXCEPT ![p] = <<>>]
  /\ Go(p, "split")
  /\ UNCHANGED <<load, part, box, nkeep, mark, active, search, k, incoming, ctrl, sendproc>>

\* MPI_Comm_split: collective over the partition.
Split(p) ==
  /\ p = part[p].lo /\ Together(p, "split")
  /\ part' = [q \in Procs |-> IF q \notin Part(p) THEN part[q]
                              ELSE IF q < Mid(part[p]) THEN [part[q] EXCEPT !.hi = Mid(part[p]) - 1]
                              ELSE [part[q] EXCEPT !.lo = Mid(part[p])]]
  /\ pc' = [q \in Procs |-> IF q \in Part(p) THEN "level" ELSE pc[q]]
  /\ search' = [search EXCEPT ![p] = <<>>]
  /\ UNCHANGED <<load, box, dots, nkeep, mark, active, k, incoming, posted, buf, ctrl, data, sendproc>>

\* RCB::invert.  The irregular exchange is one step (see DatumExchange): a
\* process names itself to the owners of the dots behind the first nkeep.
Final == \A p \in Procs : pc[p] = "level" /\ part[p].lo = part[p].hi
Invert ==
  /\ Final
  /\ LET naming(p, i) == {q \in Procs : \E j \in nkeep[q] + 1 .. Len(dots[q]) :
                                          dots[q][j].proc = p /\ dots[q][j].index = i}
         kept(p, i)   == \E j \in 1 .. nkeep[p] : dots[p][j].index = i
     IN  sendproc' = [p \in Procs |-> [i \in DOMAIN sendproc[p] |->
           IF naming(p, i) # {} THEN Min(naming(p, i)) ELSE IF kept(p, i) THEN p ELSE -1]]
  /\ pc' = [p \in Procs |-> "done"]
  /\ UNCHANGED <<load, part, box, dots, nkeep, mark, active, search, k, incoming, posted, buf, ctrl, data>>

Next ==
  \/ \E p \in Procs :
       \/ StartSearch(p) \/ Bisect(p) \/ Tell(p) \/ Hear(p) \/ Post(p) \/ Ping(p)
       \/ Await(p) \/ SendDots(p) \/ Wait(p) \/ Split(p)
  \/ Invert

\* A process that can go on does, and a message arrives.
Spec == Init /\ [][Next]_vars /\ WF_vars(Next)

-----------------------------------------------------------------------------
(* MPI_Rsend is only correct if the partner has posted the receive: the    *)
(* handshake that released the sender was of this level, and no counts     *)
(* were taken for it.                                                      *)
AnswerIsAwaited ==
  \A p \in Procs : pc[p] = "send" =>
    /\ p \in posted[Partner(p)] /\ data[p][Partner(p)] = <<>>
    /\ \E j \in DOMAIN Sources(Partner(p)) :
          Sources(Partner(p))[j] = p /\ incoming[Partner(p)][j] = Len(buf[p])

(* rcb.cpp:282-288, 236-247: the search ends with the dots below the cut   *)
(* marked 0 and those above 1, and with a lower half that misses its share *)
(* of the weight by no more than the largest single weight.                *)
HalvesBalanced ==
  \A p \in Procs : p = part[p].lo /\ Together(p, "tell") =>
    LET low == {d \in DotsOf(p) : mark[d[1]][d[2]] = 0}
        cut == box[p][search[p].dim].hi
        off == Weight(p, low) - Target(p, 0)
    IN  /\ off \in -Tolerance(p) .. Tolerance(p)
        /\ \A d \in DotsOf(p) : IF d \in low THEN Dot(d).x[search[p].dim] <= cut
                                ELSE Dot(d).x[search[p].dim] >= cut

(* RCB::check, fix_balance.cpp:270-275: in the end each dot is on one      *)
(* process, within its box, the process it came from knows which, and the  *)
(* number of cells to migrate is the number whose owner has changed.       *)
Keeps(q) == {<<dots[q][j].proc, dots[q][j].index>> : j \in DOMAIN dots[q]}
NMigrate(p) == Len(load[p + 1]) - nkeep[p]
OwnersKnown ==
  (\A p \in Procs : pc[p] = "done") =>
    /\ \A p \in Procs : \A i \in DOMAIN load[p + 1] :
          {q \in Procs : <<p, i>> \in Keeps(q)} = {sendproc[p][i]}
    /\ \A p \in Procs : /\ Cardinality(Keeps(p)) = Len(dots[p])
                        /\ NMigrate(p) = Cardinality({i \in DOMAIN load[p + 1] : sendproc[p][i] # p})
                        /\ \A j \in DOMAIN dots[p] : \A d \in Dims :
                             dots[p][j].x[d] \in box[p][d].lo .. box[p][d].hi

(* rcb.cpp:211-247: however many levels there are, a process is off its    *)
(* share of the whole weight by no more than two and a half of the largest *)
(* weights: what the cuts are off is shared by the processes on that side. *)
AllDots == UNION {Held(q) : q \in Procs}
LoadBalanced ==
  (\A p \in Procs : pc[p] = "done") =>
    \A p \in Procs :
      2 * (NProcs * WeightOf(Held(p)) - WeightOf(AllDots))
        \in -5 * NProcs * Largest(AllDots) .. 5 * NProcs * Largest(AllDots)

(* The recursion ends: each search shrinks, and no process waits for a     *)
(* message that another one does not send.                                 *)
Ends == <>(/\ \A p \in Procs : pc[p] = "done"
           /\ \A p, q \in Procs : ctrl[p][q] = <<>> /\ data[p][q] = <<>>)
=============================================================================
