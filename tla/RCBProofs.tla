------------------------------- MODULE RCBProofs -------------------------------
(***************************************************************************)
(* For any number of processes and any dots:                               *)
(*   1. who receives from whom is who sends to whom, in a partition of any *)
(*      size;                                                              *)
(*   2. every ready send of the exchange finds its receive posted, with    *)
(*      the number of dots that it brings known;                           *)
(*   3. every search halves the weight of its partition to the largest     *)
(*      weight of a dot;                                                   *)
(*   4. in the end every dot is on one process, within its box, and the    *)
(*      process that it came from knows which;                             *)
(*   5. what the cuts are off does not add up over the levels.             *)
(* The invariant follows every dot, at rest or on its way, by the slot that *)
(* it is in (a View): a step shifts dots between slots or leaves the View, *)
(* and a cut replaces the group that a dot is bound for by its half.       *)
(***************************************************************************)
EXTENDS RCB, FiniteSetTheorems, TLAPS

Partition(w) == w \in [lo : Int, hi : Int] /\ w.lo < w.hi

(* Integer division by two. *)
LEMMA HalfBounds ==
  ASSUME NEW w, Partition(w)
  PROVE  /\ Half(w) \in Int
         /\ \/ 2 * Half(w) = w.hi - w.lo + 1
            \/ 2 * Half(w) = w.hi - w.lo + 2
         /\ 1 <= Half(w) /\ Mid(w) \in w.lo + 1 .. w.hi
PROOF
  <1>1. w.lo \in Int /\ w.hi \in Int /\ w.lo < w.hi  BY DEF Partition
  <1>2. \A n \in Int : n \div 2 \in Int /\ (2 * (n \div 2) = n \/ 2 * (n \div 2) = n - 1)  BY SMT
  <1> QED  BY <1>1, <1>2 DEF Half, Mid

(* rcb.cpp:221-229: the partner lies in the other half.                    *)
THEOREM PartnerAcross ==
  ASSUME NEW w, Partition(w), NEW p \in w.lo .. w.hi
  PROVE  /\ PartnerIn(w, p) \in w.lo .. w.hi
         /\ p < Mid(w) <=> PartnerIn(w, p) >= Mid(w)
PROOF
  <1>1. w.lo \in Int /\ w.hi \in Int /\ w.lo < w.hi  BY DEF Partition
  <1> QED  BY <1>1, HalfBounds DEF PartnerIn, Opposite, Mid

(* rcb.cpp:221-229, 487-562: a process receives exactly from those whose   *)
(* partner it is, and from none of them twice: every count, every ready    *)
(* send and every answer has its other end.                                *)
THEOREM SourcesArePartners ==
  ASSUME NEW w, Partition(w), NEW p \in w.lo .. w.hi, NEW q \in w.lo .. w.hi
  PROVE  /\ (\E j \in DOMAIN SourcesIn(w, p) : SourcesIn(w, p)[j] = q) <=> PartnerIn(w, q) = p
         /\ \A i, j \in DOMAIN SourcesIn(w, p) : SourcesIn(w, p)[i] = SourcesIn(w, p)[j] => i = j
PROOF
  <1>1. w.lo \in Int /\ w.hi \in Int /\ w.lo < w.hi  BY DEF Partition
  <1>2. CASE Opposite(w, p) > w.hi
    <2>1. SourcesIn(w, p) = <<>>  BY <1>2 DEF SourcesIn
    <2>2. PartnerIn(w, q) # p
      BY <1>1, <1>2, HalfBounds DEF PartnerIn, Opposite, Mid
    <2> QED  BY <2>1, <2>2
  <1>3. CASE Opposite(w, p) <= w.hi /\ p = w.hi /\ PartnerIn(w, p) # Mid(w) - 1
    <2>1. SourcesIn(w, p) = <<PartnerIn(w, p), PartnerIn(w, p) + 1>>
      BY <1>1, <1>3, HalfBounds DEF SourcesIn, Opposite, Mid
    <2>2. PartnerIn(w, q) = p <=> q \in {PartnerIn(w, p), PartnerIn(w, p) + 1}
      BY <1>1, <1>3, HalfBounds DEF PartnerIn, Opposite, Mid
    <2>3. PartnerIn(w, p) # PartnerIn(w, p) + 1
      BY <1>1, HalfBounds DEF PartnerIn, Opposite, Mid
    <2> HIDE DEF PartnerIn
    <2> QED  BY <2>1, <2>2, <2>3
  <1>4. CASE Opposite(w, p) <= w.hi /\ ~(p = w.hi /\ PartnerIn(w, p) # Mid(w) - 1)
    <2>1. SourcesIn(w, p) = <<PartnerIn(w, p)>>
      BY <1>1, <1>4, HalfBounds DEF SourcesIn, Opposite, Mid
    <2>2. PartnerIn(w, q) = p <=> q = PartnerIn(w, p)
      BY <1>1, <1>4, HalfBounds DEF PartnerIn, Opposite, Mid
    <2> QED  BY <2>1, <2>2
  <1> QED
    <2>1. Opposite(w, p) \in Int  BY <1>1, HalfBounds DEF Opposite, Mid
    <2> QED  BY <1>1, <1>2, <1>3, <1>4, <2>1

-----------------------------------------------------------------------------
(* The state has types.                                                    *)
Dots == [proc : Int, index : Int, x : Int \X Int, wt : Nat]
Exchange == {"tell", "hear", "ping", "send", "wait", "split"}
Phases == Exchange \union {"level", "search", "done"}

MessagesType ==
  /\ ctrl \in [Procs -> [Procs -> Seq(Nat)]] /\ data \in [Procs -> [Procs -> Seq(Seq(Dots))]]
  /\ posted \in [Procs -> SUBSET Procs] /\ incoming \in [Procs -> Seq(Nat)] /\ k \in [Procs -> Nat]
DotsType == dots \in [Procs -> Seq(Dots)] /\ buf \in [Procs -> Seq(Dots)]
PartsType ==
  /\ load \in Seq(Seq([x : Int \X Int, wt : Nat])) /\ NProcs \in Nat \ {0}
  /\ pc \in [Procs -> Phases] /\ part \in [Procs -> [lo : Procs, hi : Procs]] /\ DOMAIN mark = Procs
Types == PartsType /\ DotsType /\ MessagesType

\* The partitions are disjoint intervals, and only one with several processes
\* has a cut to find and dots to exchange.
PartsInv ==
  /\ \A p \in Procs : p \in Part(p)
  /\ \A p \in Procs : \A q \in Part(p) : part[q] = part[p]
  /\ \A p \in Procs : pc[p] \in Exchange \union {"search"} => part[p].lo # part[p].hi

(* How far a process has come in the exchange.                             *)
Told(p) == pc[p] \in Exchange \ {"tell"}
Packed(p) == pc[p] \in {"ping", "send", "wait", "split"}
Answered(p) == pc[p] \in {"send", "wait", "split"}
Shipped(p) == pc[p] \in {"wait", "split"}
\* p has the count of q, and has told q that its receive is posted.
Heard(p, q) == Packed(p) \/ (pc[p] = "hear" /\ \E j \in DOMAIN Sources(p) : Sources(p)[j] = q /\ j <= Len(incoming[p]))
Pinged(p, q) == \/ Answered(p) /\ Partner(q) = p
                \/ pc[p] = "ping" /\ \E j \in DOMAIN Sources(p) : Sources(p)[j] = q /\ j <= k[p]
CountOf(p) == IF pc[p] = "hear" THEN Cardinality(Leaves(p)) ELSE Len(buf[p])

OneIf(b) == IF b THEN 1 ELSE 0
CountDue(p, q) == Partner(p) = q /\ Told(p) /\ ~Heard(q, p)
PingDue(p, q) == Partner(q) = p /\ Pinged(p, q) /\ ~Answered(q)
DotsDue(p, q) == Partner(p) = q /\ Shipped(p) /\ pc[q] # "split"

\* A channel has a count that is not yet heard, and behind it an answer.
Channel(p, q) == /\ Len(ctrl[p][q]) = OneIf(CountDue(p, q)) + OneIf(PingDue(p, q))
                 /\ CountDue(p, q) => Head(ctrl[p][q]) = CountOf(p)
                 /\ Len(data[p][q]) = OneIf(DotsDue(p, q))
ChannelsInv == \A p, q \in Procs : Channel(p, q)
\* Whose count was heard has sent it, who goes on was answered by its partner,
\* and who has all its dots was sent them by each source.
Causes(p) == /\ Heard(Partner(p), p) => Told(p)
             /\ Answered(p) => Pinged(Partner(p), p)
             /\ pc[Partner(p)] = "split" => Shipped(p)
AnswersInv == \A p \in Procs : Causes(p)
LoopsInv ==
  \A p \in Procs : /\ pc[p] \in {"tell", "hear"} => k[p] = 0
                   /\ pc[p] = "ping" => k[p] <= Len(Sources(p))
                   /\ pc[p] = "hear" => Len(incoming[p]) <= Len(Sources(p))
                   /\ Packed(p) => Len(incoming[p]) = Len(Sources(p))
                   /\ pc[p] \in {"ping", "send", "wait"} => posted[p] = ToSet(Sources(p))
\* What was heard is what is sent.
Counted(p, q) == Partner(p) = q /\ pc[p] \in {"hear", "ping", "send"} /\ Heard(q, p)
                 => \A j \in DOMAIN Sources(q) : Sources(q)[j] = p => incoming[q][j] = CountOf(p)
CountsInv == \A p, q \in Procs : Counted(p, q)
HandshakeInv == PartsInv /\ ChannelsInv /\ AnswersInv /\ LoopsInv /\ CountsInv

(* Partitions.                                                             *)
LEMMA PartFacts ==
    ASSUME PartsType, PartsInv, NEW p \in Procs
    PROVE  /\ p \in Int /\ Procs \subseteq Int /\ Part(p) \subseteq Procs /\ p \in Part(p)
           /\ part[p] \in [lo : Int, hi : Int] /\ part[p].lo \in Part(p) /\ part[p].hi \in Part(p)
           /\ part[p].lo <= p /\ p <= part[p].hi
           /\ part[p].lo # part[p].hi => Partition(part[p])
<1>1. part[p] \in [lo : Procs, hi : Procs] /\ p \in Part(p)
  BY DEF PartsType, PartsInv
<1>2. Procs = 0 .. NProcs - 1 /\ NProcs \in Nat
  BY DEF Procs, PartsType
<1>3. part[p].lo \in Int /\ part[p].hi \in Int /\ 0 <= part[p].lo /\ part[p].hi <= NProcs - 1
  BY <1>1, <1>2
<1>4. Part(p) = part[p].lo .. part[p].hi
  BY DEF Part
<1>5. part[p].lo <= p /\ p <= part[p].hi
  BY <1>1, <1>3, <1>4
<1>6. Part(p) \subseteq Procs
  BY <1>2, <1>3, <1>4
<1>7. part[p] \in [lo : Int, hi : Int]
  BY <1>1, <1>2
<1> QED BY <1>1, <1>2, <1>3, <1>4, <1>5, <1>6, <1>7 DEF Partition

LEMMA SamePart ==
    ASSUME PartsType, PartsInv, NEW p \in Procs, NEW q \in Part(p)
    PROVE  q \in Procs /\ part[q] = part[p] /\ Part(q) = Part(p) /\ p \in Part(q)
<1>1. q \in Procs /\ part[q] = part[p] /\ p \in Part(p)
  BY PartFacts DEF PartsInv
<1> QED BY <1>1 DEF Part

LEMMA PartnerFacts ==
    ASSUME PartsType, PartsInv, NEW p \in Procs
    PROVE  /\ Partner(p) \in Part(p) /\ Partner(p) \in Procs
           /\ part[p].lo # part[p].hi => Partner(p) # p
<1>1. CASE part[p].lo = part[p].hi
  <2>1. p = part[p].lo /\ p \in Int
    BY <1>1, PartFacts
  <2>2. Half(part[p]) = 1
    BY <1>1, <2>1 DEF Half
  <2>3. Partner(p) = p
    BY <1>1, <2>1, <2>2 DEF Partner, PartnerIn, Opposite, Mid
  <2> QED BY <1>1, <2>3, PartFacts
<1>2. CASE part[p].lo # part[p].hi
  <2>1. Partition(part[p]) /\ p \in part[p].lo .. part[p].hi /\ Part(p) \subseteq Procs
    BY <1>2, PartFacts DEF Part
  <2>2. Partner(p) \in Part(p)
    BY <2>1, PartnerAcross DEF Partner, Part
  <2>3. p < Mid(part[p]) <=> ~(Partner(p) < Mid(part[p]))
    <3>1. p < Mid(part[p]) <=> Partner(p) >= Mid(part[p])
      BY <2>1, PartnerAcross DEF Partner
    <3>2. Mid(part[p]) \in Int
      BY <2>1, HalfBounds, PartFacts
    <3>3. Partner(p) \in Int
      BY <2>1, <2>2, PartFacts
    <3> QED BY <3>1, <3>2, <3>3
  <2> QED BY <2>1, <2>2, <2>3
<1> QED BY <1>1, <1>2

LEMMA SourceFacts ==
    ASSUME PartsType, PartsInv, NEW p \in Procs
    PROVE  /\ Len(Sources(p)) \in 0 .. 2 /\ DOMAIN Sources(p) = 1 .. Len(Sources(p))
           /\ \A j \in DOMAIN Sources(p) : Sources(p)[j] \in Part(p) /\ Sources(p)[j] \in Procs
           /\ \A i, j \in DOMAIN Sources(p) : Sources(p)[i] = Sources(p)[j] => i = j
           /\ \A q \in Procs : part[p].lo # part[p].hi =>
                 ((\E j \in DOMAIN Sources(p) : Sources(p)[j] = q) <=> Partner(q) = p)
<1>1. Sources(p) = SourcesIn(part[p], p)
  BY DEF Sources
<1>2. Len(Sources(p)) \in 0 .. 2 /\ DOMAIN Sources(p) = 1 .. Len(Sources(p))
  <2>1. \A a, b : Len(<<a, b>>) = 2 /\ DOMAIN <<a, b>> = 1 .. 2
    OBVIOUS
  <2>2. \A a : Len(<<a>>) = 1 /\ DOMAIN <<a>> = 1 .. 1
    OBVIOUS
  <2>3. Len(<<>>) = 0 /\ DOMAIN <<>> = 1 .. 0
    OBVIOUS
  <2>4. Sources(p) = <<>> \/ (\E a, b : Sources(p) = <<a, b>>) \/ \E a : Sources(p) = <<a>>
    BY <1>1 DEF SourcesIn
  <2> QED BY <2>1, <2>2, <2>3, <2>4
<1>3. CASE part[p].lo = part[p].hi
  <2>1. p = part[p].lo /\ p \in Int
    BY <1>3, PartFacts
  <2>2. Half(part[p]) = 1
    BY <1>3, <2>1 DEF Half
  <2>3. Sources(p) = <<>>
    BY <1>1, <1>3, <2>1, <2>2 DEF SourcesIn, Opposite, Mid
  <2> QED BY <1>2, <1>3, <2>3
<1>4. CASE part[p].lo # part[p].hi
  <2>1. Partition(part[p]) /\ p \in part[p].lo .. part[p].hi /\ Part(p) \subseteq Procs
    BY <1>4, PartFacts DEF Part
  <2>2. \A i, j \in DOMAIN Sources(p) : Sources(p)[i] = Sources(p)[j] => i = j
    BY <1>1, <2>1, SourcesArePartners
  <2>3. \A q \in Part(p) : (\E j \in DOMAIN Sources(p) : Sources(p)[j] = q) <=> Partner(q) = p
    <3> SUFFICES ASSUME NEW q \in Part(p) PROVE (\E j \in DOMAIN Sources(p) : Sources(p)[j] = q) <=> Partner(q) = p
      OBVIOUS
    <3>1. part[q] = part[p] /\ q \in part[p].lo .. part[p].hi
      BY SamePart DEF Part
    <3> QED BY <1>1, <2>1, <3>1, SourcesArePartners DEF Partner
  <2>4. \A j \in DOMAIN Sources(p) : Sources(p)[j] \in Part(p)
    <3>1. PartnerIn(part[p], p) \in Part(p) /\ PartnerIn(part[p], p) \in Int /\ part[p].hi \in Int /\ part[p].lo \in Int
      BY <2>1, PartnerFacts, PartFacts DEF Partner
    <3>2. p = part[p].hi => PartnerIn(part[p], p) + 1 <= part[p].hi
      <4>1. PartnerIn(part[p], p) # p /\ PartnerIn(part[p], p) <= part[p].hi
        BY <1>4, <3>1, PartnerFacts DEF Part, Partner
      <4> QED BY <3>1, <4>1
    <3>3. p = part[p].hi => PartnerIn(part[p], p) + 1 \in Part(p)
      BY <3>1, <3>2 DEF Part
    <3> QED BY <1>1, <3>1, <3>3 DEF SourcesIn
  <2>5. \A q \in Procs \ Part(p) : Partner(q) # p
    <3> SUFFICES ASSUME NEW q \in Procs, Partner(q) = p PROVE q \in Part(p)
      OBVIOUS
    <3>1. p \in Part(q)
      BY PartnerFacts
    <3> QED BY <3>1, SamePart
  <2> QED BY <1>2, <2>1, <2>2, <2>3, <2>4, <2>5
<1> QED BY <1>3, <1>4

(* Pick takes every dot at an index in S, in order.                        *)
LEMMA NthFacts ==
    ASSUME NEW S, IsFiniteSet(S), S \subseteq Int
    PROVE  /\ Cardinality(S) \in Nat
           /\ \A j \in 1 .. Cardinality(S) : Nth(S, j) \in S /\ Cardinality({h \in S : h <= Nth(S, j)}) = j
           /\ \A i \in S : Cardinality({h \in S : h <= i}) \in 1 .. Cardinality(S)
           /\ \A i, j \in S : Cardinality({h \in S : h <= i}) = Cardinality({h \in S : h <= j}) => i = j
<1> DEFINE rank == [i \in S |-> Cardinality({h \in S : h <= i})]
           n == Cardinality(S)
<1>1. n \in Nat /\ IsFiniteSet(1 .. n) /\ Cardinality(1 .. n) = n
  <2>1. n \in Nat
    BY FS_CardinalityType
  <2>2. IsFiniteSet(1 .. n) /\ Cardinality(1 .. n) = IF 1 > n THEN 0 ELSE n - 1 + 1
    BY <2>1, FS_Interval
  <2> QED BY <2>1, <2>2
<1>2. ASSUME NEW i \in S
      PROVE  IsFiniteSet({h \in S : h <= i}) /\ Cardinality({h \in S : h <= i}) \in 1 .. n
  <2> DEFINE T == {h \in S : h <= i}
  <2>1. IsFiniteSet(T) /\ Cardinality(T) <= n
    BY FS_Subset
  <2>2. i \in T
    OBVIOUS
  <2>3. Cardinality(T) \in Nat /\ Cardinality(T) # 0
    BY <2>1, <2>2, FS_CardinalityType, FS_EmptySet
  <2> HIDE DEF T
  <2>4. Cardinality(T) \in 1 .. n
    BY <1>1, <2>1, <2>3
  <2> QED BY <2>1, <2>4 DEF T
<1>3. ASSUME NEW i \in S, NEW j \in S, i < j
      PROVE  Cardinality({h \in S : h <= i}) # Cardinality({h \in S : h <= j})
  <2> DEFINE T == {h \in S : h <= i}
             U == {h \in S : h <= j}
  <2>1. T \subseteq U /\ j \in U /\ j \notin T
    <3>1. \A h \in S : h <= i => h <= j
      BY <1>3
    <3>2. j <= j /\ ~(j <= i)
      BY <1>3
    <3> QED BY <3>1, <3>2
  <2>2. IsFiniteSet(U)
    BY <1>2
  <2> HIDE DEF T, U
  <2>3. Cardinality(T) # Cardinality(U)
    BY <2>1, <2>2, FS_Subset
  <2> QED BY <2>3 DEF T, U
<1>4. \A i, j \in S : Cardinality({h \in S : h <= i}) = Cardinality({h \in S : h <= j}) => i = j
  <2> SUFFICES ASSUME NEW i \in S, NEW j \in S, i # j
               PROVE  Cardinality({h \in S : h <= i}) # Cardinality({h \in S : h <= j})
    OBVIOUS
  <2>1. i < j \/ j < i
    OBVIOUS
  <2> QED BY <1>3, <2>1
<1>5. rank \in Injection(S, 1 .. n)
  BY <1>2, <1>4 DEF Injection, IsInjective
<1>6. rank \in Surjection(S, 1 .. n)
  <2> HIDE DEF rank
  <2> QED BY <1>1, <1>5, FS_Injection
<1>7. \A j \in 1 .. n : \E i \in S : Cardinality({h \in S : h <= i}) = j
  BY <1>6 DEF Surjection
<1>8. \A j \in 1 .. n : Nth(S, j) \in S /\ Cardinality({h \in S : h <= Nth(S, j)}) = j
  BY <1>7 DEF Nth
<1> QED BY <1>1, <1>2, <1>4, <1>8

LEMMA PickFacts ==
    ASSUME DotsType, NEW p \in Procs, NEW S, S \subseteq DOMAIN dots[p]
    PROVE  /\ IsFiniteSet(S) /\ Cardinality(S) \in Nat
           /\ Pick(p, S) \in Seq(Dots) /\ Len(Pick(p, S)) = Cardinality(S)
           /\ DOMAIN Pick(p, S) = 1 .. Cardinality(S)
           /\ \A j \in 1 .. Cardinality(S) : Nth(S, j) \in S /\ Pick(p, S)[j] = dots[p][Nth(S, j)]
<1>1. dots[p] \in Seq(Dots) /\ DOMAIN dots[p] = 1 .. Len(dots[p]) /\ Len(dots[p]) \in Nat
  BY DEF DotsType
<1>2. IsFiniteSet(1 .. Len(dots[p]))
  BY <1>1, FS_Interval
<1>3. IsFiniteSet(S) /\ S \subseteq Int
  BY <1>1, <1>2, FS_Subset
<1>4. Cardinality(S) \in Nat /\ \A j \in 1 .. Cardinality(S) : Nth(S, j) \in S
  BY <1>3, NthFacts
<1>5. \A j \in 1 .. Cardinality(S) : dots[p][Nth(S, j)] \in Dots
  BY <1>1, <1>4
<1>6. Pick(p, S) \in Seq(Dots) /\ Len(Pick(p, S)) = Cardinality(S)
  <2>1. Pick(p, S) \in [1 .. Cardinality(S) -> Dots]
    BY <1>5 DEF Pick
  <2> QED BY <1>4, <2>1
<1> QED BY <1>3, <1>4, <1>6 DEF Pick

-----------------------------------------------------------------------------
(* A step of one process leaves the others where they are.                 *)
Own(p) == /\ part' = part /\ load' = load
          /\ \A q \in Procs \ {p} :
                /\ pc'[q] = pc[q] /\ k'[q] = k[q] /\ incoming'[q] = incoming[q] /\ posted'[q] = posted[q]
                /\ buf'[q] = buf[q] /\ dots'[q] = dots[q] /\ mark'[q] = mark[q]
Exchanges(p) == Tell(p) \/ Hear(p) \/ Post(p) \/ Ping(p) \/ Await(p) \/ SendDots(p) \/ Wait(p)

LEMMA ExchangesOwn ==
    ASSUME Types, NEW p \in Procs, Exchanges(p)
    PROVE  Own(p) /\ DOMAIN mark' = Procs
<1>1. /\ DOMAIN pc = Procs /\ DOMAIN k = Procs /\ DOMAIN incoming = Procs /\ DOMAIN posted = Procs
      /\ DOMAIN buf = Procs /\ DOMAIN dots = Procs /\ DOMAIN mark = Procs
  BY DEF Types, PartsType, DotsType, MessagesType
<1>2. CASE Tell(p)
  BY <1>1, <1>2 DEF Tell, Own, Go
<1>3. CASE Hear(p)
  BY <1>1, <1>3 DEF Hear, Own
<1>4. CASE Post(p)
  BY <1>1, <1>4 DEF Post, PostFor, Own, Go
<1>5. CASE Ping(p)
  BY <1>1, <1>5 DEF Ping, Own
<1>6. CASE Await(p) \/ SendDots(p)
  BY <1>1, <1>6 DEF Await, SendDots, Own, Go
<1>7. CASE Wait(p)
  BY <1>1, <1>7 DEF Wait, Own, Go
<1> QED BY <1>2, <1>3, <1>4, <1>5, <1>6, <1>7 DEF Exchanges

LEMMA OwnSameParts ==
    ASSUME PartsType, part' = part, load' = load
    PROVE  /\ Procs' = Procs /\ NProcs' = NProcs
           /\ \A q : Part(q)' = Part(q) /\ Partner(q)' = Partner(q) /\ Sources(q)' = Sources(q)
BY DEF Procs, NProcs, Part, Partner, Sources

LEMMA OwnKeeps ==
    ASSUME PartsType, NEW p \in Procs, Own(p), NEW q \in Procs, q # p
    PROVE  /\ Told(q)' <=> Told(q)
           /\ Packed(q)' <=> Packed(q)
           /\ Answered(q)' <=> Answered(q)
           /\ Shipped(q)' <=> Shipped(q)
           /\ CountOf(q)' = CountOf(q)
           /\ \A r : Heard(q, r)' <=> Heard(q, r)
           /\ \A r : Pinged(q, r)' <=> Pinged(q, r)
<1>1. /\ pc'[q] = pc[q] /\ k'[q] = k[q] /\ incoming'[q] = incoming[q] /\ buf'[q] = buf[q]
      /\ dots'[q] = dots[q] /\ mark'[q] = mark[q]
  BY DEF Own
<1>2. Sources(q)' = Sources(q) /\ \A r : Partner(r)' = Partner(r)
  BY OwnSameParts DEF Own
<1>3. Leaves(q)' = Leaves(q)
  BY <1>1, <1>2 DEF Leaves, MarkActive
<1>4. (Told(q)' <=> Told(q)) /\ (Packed(q)' <=> Packed(q)) /\ (Answered(q)' <=> Answered(q)) /\ (Shipped(q)' <=> Shipped(q))
  BY <1>1 DEF Told, Packed, Answered, Shipped
<1>5. CountOf(q)' = CountOf(q)
  BY <1>1, <1>3 DEF CountOf
<1>6. \A r : Heard(q, r)' <=> Heard(q, r)
  BY <1>1, <1>2, <1>4 DEF Heard
<1>7. \A r : Pinged(q, r)' <=> Pinged(q, r)
  BY <1>1, <1>2, <1>4 DEF Pinged
<1> QED BY <1>4, <1>5, <1>6, <1>7

(* The invariants of a process that makes no step, or none that they see.  *)
LEMMA OwnPartsInv ==
    ASSUME PartsType, PartsInv, NEW p \in Procs, Own(p), pc'[p] \in Exchange, pc[p] \in Exchange
    PROVE  PartsInv'
<1>1. Procs' = Procs /\ part' = part /\ \A q : Part(q)' = Part(q)
  BY OwnSameParts DEF Own
<1>2. \A q \in Procs : pc'[q] \in Exchange \union {"search"} => pc[q] \in Exchange \union {"search"}
  BY DEF Own
<1> QED BY <1>1, <1>2 DEF PartsInv

LEMMA OwnLoopsInv ==
    ASSUME PartsType, LoopsInv, NEW p \in Procs, Own(p),
           /\ pc'[p] \in {"tell", "hear"} => k'[p] = 0
           /\ pc'[p] = "ping" => k'[p] <= Len(Sources(p))
           /\ pc'[p] = "hear" => Len(incoming'[p]) <= Len(Sources(p))
           /\ pc'[p] \in {"ping", "send", "wait", "split"} => Len(incoming'[p]) = Len(Sources(p))
           /\ pc'[p] \in {"ping", "send", "wait"} => posted'[p] = ToSet(Sources(p))
    PROVE  LoopsInv'
<1>1. Procs' = Procs /\ \A q : Sources(q)' = Sources(q)
  BY OwnSameParts DEF Own
<1>2. \A q \in Procs \ {p} : pc'[q] = pc[q] /\ k'[q] = k[q] /\ incoming'[q] = incoming[q] /\ posted'[q] = posted[q]
  BY DEF Own
<1> SUFFICES ASSUME NEW q \in Procs
             PROVE /\ pc'[q] \in {"tell", "hear"} => k'[q] = 0
                   /\ pc'[q] = "ping" => k'[q] <= Len(Sources(q))
                   /\ pc'[q] = "hear" => Len(incoming'[q]) <= Len(Sources(q))
                   /\ pc'[q] \in {"ping", "send", "wait", "split"} => Len(incoming'[q]) = Len(Sources(q))
                   /\ pc'[q] \in {"ping", "send", "wait"} => posted'[q] = ToSet(Sources(q))
  BY <1>1 DEF LoopsInv, Packed
<1> QED BY <1>2 DEF LoopsInv, Packed

(* Each action of the exchange keeps the types.                            *)
LEMMA ExchangeTypes ==
    ASSUME Types, PartsInv, AnswersInv, LoopsInv, ChannelsInv, NEW p \in Procs, Exchanges(p)
    PROVE  Types'
<1>1. Own(p) /\ DOMAIN mark' = Procs /\ Procs' = Procs /\ NProcs' = NProcs
  BY ExchangesOwn, OwnSameParts DEF Own, Types
<1>2. Partner(p) \in Procs /\ \A j \in DOMAIN Sources(p) : Sources(p)[j] \in Procs
  BY PartnerFacts, SourceFacts DEF Types
<1>3. Leaves(p) \subseteq DOMAIN dots[p]
  BY DEF Leaves
<1>4. PartsType'
  <2>1. pc' \in [Procs -> Phases]
    BY DEF Exchanges, Tell, Hear, Post, PostFor, Ping, Await, SendDots, Wait, Go, Types, PartsType, Phases, Exchange
  <2> QED BY <1>1, <2>1 DEF Own, Types, PartsType
<1>5. CASE Tell(p)
  <2>1. Cardinality(Leaves(p)) \in Nat
    BY <1>3, PickFacts DEF Types
  <2>2. ctrl' \in [Procs -> [Procs -> Seq(Nat)]]
    <3>1. PICK t \in Procs : t = Partner(p)
      BY <1>2
    <3>2. PICK n \in Nat : n = Cardinality(Leaves(p))
      BY <2>1
    <3>3. ctrl' = Put(ctrl, p, t, n)
      BY <1>5, <3>1, <3>2 DEF Tell
    <3>4. Append(ctrl[p][t], n) \in Seq(Nat)
      BY DEF Types, MessagesType
    <3> QED BY <3>3, <3>4 DEF Put, Types, MessagesType
  <2>3. incoming' \in [Procs -> Seq(Nat)]
    <3>1. <<>> \in Seq(Nat)
      OBVIOUS
    <3> QED BY <1>5, <3>1 DEF Tell, Types, MessagesType
  <2>4. UNCHANGED <<dots, buf, data, posted, k>>
    BY <1>5 DEF Tell
  <2> QED BY <1>1, <1>4, <2>2, <2>3, <2>4 DEF Types, MessagesType, DotsType
<1>6. CASE Hear(p)
  <2>1. PICK q \in Procs : ctrl[q][p] # <<>> /\ incoming' = [incoming EXCEPT ![p] = Append(@, Head(ctrl[q][p]))]
                           /\ ctrl' = Took(ctrl, q, p)
    <3>1. Len(incoming[p]) \in Nat /\ DOMAIN Sources(p) = 1 .. Len(Sources(p)) /\ Len(Sources(p)) \in Nat
      BY SourceFacts DEF Types, MessagesType
    <3>2. Len(incoming[p]) + 1 \in DOMAIN Sources(p)
      BY <1>6, <3>1 DEF Hear
    <3> QED BY <1>2, <1>6, <3>2 DEF Hear
  <2>2. ctrl[q][p] \in Seq(Nat) /\ Head(ctrl[q][p]) \in Nat /\ Tail(ctrl[q][p]) \in Seq(Nat)
    <3>1. ctrl[q][p] \in Seq(Nat)
      BY DEF Types, MessagesType
    <3> QED BY <2>1, <3>1
  <2>3. incoming' \in [Procs -> Seq(Nat)]
    BY <2>1, <2>2 DEF Types, MessagesType
  <2>4. ctrl' \in [Procs -> [Procs -> Seq(Nat)]]
    BY <2>1, <2>2 DEF Types, MessagesType, Took
  <2> QED BY <1>1, <1>4, <1>6, <2>3, <2>4 DEF Hear, Types, MessagesType, DotsType
<1>7. CASE Post(p)
  <2>1. Pick(p, Leaves(p)) \in Seq(Dots) /\ Pick(p, DOMAIN dots[p] \ Leaves(p)) \in Seq(Dots)
    BY <1>3, PickFacts DEF Types
  <2>2. buf' \in [Procs -> Seq(Dots)] /\ dots' \in [Procs -> Seq(Dots)]
    BY <1>7, <2>1 DEF Post, PostFor, Types, DotsType
  <2>3. posted' \in [Procs -> SUBSET Procs]
    BY <1>2, <1>7 DEF Post, PostFor, Types, MessagesType, ToSet
  <2> QED BY <1>1, <1>4, <1>7, <2>2, <2>3 DEF Post, PostFor, Types, MessagesType, DotsType
<1>8. CASE Ping(p)
  <2>1. k[p] + 1 \in DOMAIN Sources(p) /\ k[p] \in Nat
    BY <1>8, SourceFacts DEF Ping, Types, MessagesType
  <2>4. PICK q \in Procs : ctrl' = Put(ctrl, p, q, 0)
    BY <1>2, <1>8, <2>1 DEF Ping
  <2>2. ctrl' \in [Procs -> [Procs -> Seq(Nat)]]
    <3>1. Append(ctrl[p][q], 0) \in Seq(Nat)
      BY DEF Types, MessagesType
    <3> QED BY <2>4, <3>1 DEF Put, Types, MessagesType
  <2>3. k' \in [Procs -> Nat]
    BY <1>8, <2>1 DEF Ping, Types, MessagesType
  <2> QED BY <1>1, <1>4, <1>8, <2>2, <2>3 DEF Ping, Types, MessagesType, DotsType
<1>9. CASE Await(p)
  <2>1. ctrl[Partner(p)][p] \in Seq(Nat) /\ ctrl[Partner(p)][p] # <<>>
    BY <1>2, <1>9 DEF Await, Types, MessagesType
  <2>2. ctrl' \in [Procs -> [Procs -> Seq(Nat)]]
    <3>1. PICK t \in Procs : t = Partner(p)
      BY <1>2
    <3>2. ctrl' = Took(ctrl, t, p)
      BY <1>9, <3>1 DEF Await
    <3>3. Tail(ctrl[t][p]) \in Seq(Nat)
      BY <2>1, <3>1
    <3> QED BY <3>2, <3>3 DEF Took, Types, MessagesType
  <2> QED BY <1>1, <1>4, <1>9, <2>2 DEF Await, Types, MessagesType, DotsType
<1>10. CASE SendDots(p)
  <2>1. data' \in [Procs -> [Procs -> Seq(Seq(Dots))]]
    <3>1. Append(data[p][Partner(p)], buf[p]) \in Seq(Seq(Dots))
      BY <1>2 DEF Types, MessagesType, DotsType
    <3> QED BY <1>2, <1>10, <3>1 DEF SendDots, Put, Types, MessagesType
  <2> QED BY <1>1, <1>4, <1>10, <2>1 DEF SendDots, Types, MessagesType, DotsType
<1>11. CASE Wait(p)
  <2>1. \A q \in posted[p] : q \in Procs /\ data[q][p] \in Seq(Seq(Dots)) /\ data[q][p] # <<>>
    BY <1>11 DEF Wait, Types, MessagesType
  <2>2. \A q \in posted[p] : Head(data[q][p]) \in Seq(Dots) /\ Tail(data[q][p]) \in Seq(Seq(Dots))
    BY <2>1
  <2>3. \A j \in DOMAIN Sources(p) : Head(data[Sources(p)[j]][p]) \in Seq(Dots)
    <3>1. posted[p] = ToSet(Sources(p))
      BY <1>11 DEF Wait, LoopsInv
    <3> QED BY <2>2, <3>1 DEF ToSet
  <2>4. Arriving(p) \in Seq(Dots)
    <3>1. <<>> \in Seq(Dots)
      OBVIOUS
    <3> QED BY <2>3, <3>1 DEF Arriving
  <2>5. dots' \in [Procs -> Seq(Dots)]
    BY <1>11, <2>4 DEF Wait, Types, DotsType
  <2>6. buf' \in [Procs -> Seq(Dots)]
    BY <1>11 DEF Wait, Types, DotsType
  <2>7. data' \in [Procs -> [Procs -> Seq(Seq(Dots))]]
    BY <1>11, <2>2 DEF Wait, Types, MessagesType
  <2>8. posted' \in [Procs -> SUBSET Procs]
    BY <1>11 DEF Wait, Types, MessagesType
  <2> QED BY <1>1, <1>4, <1>11, <2>5, <2>6, <2>7, <2>8 DEF Wait, Types, MessagesType, DotsType
<1> QED BY <1>5, <1>6, <1>7, <1>8, <1>9, <1>10, <1>11 DEF Exchanges

-----------------------------------------------------------------------------
(* The handshake, action by action.                                        *)
\* Two processes, one of which may be the one that makes the step.
LEMMA BothKeep ==
    ASSUME PartsType, NEW p \in Procs, Own(p), NEW q \in Procs, q # p, NEW r \in Procs, r # p
    PROVE  /\ CountDue(q, r)' <=> CountDue(q, r)
           /\ PingDue(q, r)' <=> PingDue(q, r)
           /\ DotsDue(q, r)' <=> DotsDue(q, r)
           /\ Counted(q, r) => Counted(q, r)'
<1>1. \A s : Partner(s)' = Partner(s) /\ Sources(s)' = Sources(s)
  BY OwnSameParts DEF Own
<1>2. pc'[q] = pc[q] /\ pc'[r] = pc[r] /\ incoming'[r] = incoming[r]
  BY DEF Own
<1>3. /\ Told(q)' <=> Told(q)
      /\ Shipped(q)' <=> Shipped(q)
      /\ CountOf(q)' = CountOf(q)
      /\ Pinged(q, r)' <=> Pinged(q, r)
      /\ Answered(r)' <=> Answered(r)
      /\ Heard(r, q)' <=> Heard(r, q)
  BY OwnKeeps
<1>4. CountDue(q, r)' <=> CountDue(q, r)
  BY <1>1, <1>3 DEF CountDue
<1>5. PingDue(q, r)' <=> PingDue(q, r)
  BY <1>1, <1>3 DEF PingDue
<1>6. DotsDue(q, r)' <=> DotsDue(q, r)
  BY <1>1, <1>2, <1>3 DEF DotsDue
<1>7. Counted(q, r) => Counted(q, r)'
  BY <1>1, <1>2, <1>3 DEF Counted
<1> QED BY <1>4, <1>5, <1>6, <1>7

LEMMA TellKeeps ==
    ASSUME Types, HandshakeInv, NEW p \in Procs, Tell(p)
    PROVE  HandshakeInv'
<1> DEFINE t == Partner(p)
<1>1. /\ Own(p) /\ Procs' = Procs /\ \A q : Partner(q)' = Partner(q) /\ Sources(q)' = Sources(q)
  BY ExchangesOwn, OwnSameParts DEF Exchanges, Own, Types
<1>2. /\ pc[p] = "tell" /\ pc'[p] = "hear" /\ k'[p] = k[p] /\ incoming'[p] = <<>>
      /\ ctrl' = Put(ctrl, p, t, Cardinality(Leaves(p))) /\ data' = data
      /\ dots' = dots /\ mark' = mark
  BY DEF Tell, Go, Types, PartsType, MessagesType
<1>3. t \in Procs /\ t # p
  <2>1. part[p].lo # part[p].hi
    BY <1>2 DEF HandshakeInv, PartsInv, Exchange
  <2> QED BY <2>1, PartnerFacts DEF HandshakeInv, Types
\* What changes for p.
<1>4. /\ ~Told(p) /\ Told(p)' /\ ~Packed(p) /\ ~Packed(p)' /\ ~Answered(p) /\ ~Answered(p)'
      /\ ~Shipped(p) /\ ~Shipped(p)' /\ pc[p] # "split" /\ pc'[p] # "split"
      /\ \A q : ~Heard(p, q) /\ ~Pinged(p, q) /\ ~Pinged(p, q)'
  BY <1>2 DEF Told, Packed, Answered, Shipped, Heard, Pinged, Exchange
<1>5. \A q : ~Heard(p, q)'
  <2>1. Len(incoming'[p]) = 0 /\ \A j \in DOMAIN Sources(p) : ~(j <= 0)
    BY <1>2, SourceFacts DEF HandshakeInv, Types
  <2> QED BY <1>1, <1>4, <2>1 DEF Heard
<1>6. CountOf(p)' = Cardinality(Leaves(p))
  <2>1. Leaves(p)' = Leaves(p)
    BY <1>1, <1>2 DEF Leaves, MarkActive
  <2> QED BY <1>2, <2>1 DEF CountOf
<1>7. ~Heard(t, p) /\ ~Heard(t, p)'
  <2>1. ~Heard(t, p)
    BY <1>4 DEF HandshakeInv, AnswersInv, Causes
  <2> QED BY <1>1, <1>3, <2>1, OwnKeeps DEF Types
<1>8. PartsInv' /\ LoopsInv'
  <2>1. pc[p] \in Exchange /\ pc'[p] \in Exchange /\ k[p] = 0
    BY <1>2 DEF Exchange, HandshakeInv, LoopsInv
  <2>2. Len(incoming'[p]) <= Len(Sources(p))
    BY <1>2, SourceFacts DEF HandshakeInv, Types
  <2>3. PartsInv'
    BY <1>1, <2>1, OwnPartsInv DEF HandshakeInv, Types
  <2>4. LoopsInv'
    BY <1>1, <1>2, <2>1, <2>2, OwnLoopsInv DEF HandshakeInv, Types
  <2> QED BY <2>3, <2>4
<1>9. AnswersInv'
  <2> SUFFICES ASSUME NEW q \in Procs PROVE Causes(q)'
    BY <1>1 DEF AnswersInv
  <2>1. Causes(q) /\ Partner(q) \in Procs
    BY PartnerFacts DEF HandshakeInv, AnswersInv, Types
  <2>2. Told(q) => Told(q)'
    BY <1>1, <1>4, OwnKeeps DEF Types
  <2>3. (Answered(q)' <=> Answered(q)) /\ (Shipped(q)' <=> Shipped(q))
    BY <1>1, <1>4, OwnKeeps DEF Types
  <2>4. /\ Heard(Partner(q), q)' <=> Heard(Partner(q), q)
        /\ Pinged(Partner(q), q)' <=> Pinged(Partner(q), q)
        /\ pc'[Partner(q)] = "split" <=> pc[Partner(q)] = "split"
    <3>1. CASE Partner(q) = p
      BY <1>1, <1>4, <1>5, <3>1
    <3>2. CASE Partner(q) # p
      BY <1>1, <2>1, <3>2, OwnKeeps DEF Types, Own
    <3> QED BY <3>1, <3>2
  <2> QED BY <1>1, <2>1, <2>2, <2>3, <2>4 DEF Causes
<1>10. ASSUME NEW q \in Procs, NEW r \in Procs PROVE Channel(q, r)' /\ Counted(q, r)'
  <2>1. Channel(q, r) /\ Counted(q, r)
    BY DEF HandshakeInv, ChannelsInv, CountsInv
  <2>2. CASE q = p /\ r = t
    <3>1. ~CountDue(q, r) /\ CountDue(q, r)' /\ ~DotsDue(q, r) /\ ~DotsDue(q, r)'
      BY <1>1, <1>4, <1>7, <2>2 DEF CountDue, DotsDue
    <3>2. ~PingDue(q, r) /\ ~PingDue(q, r)'
      BY <1>4, <2>2 DEF PingDue
    <3>3. ctrl[q][r] = <<>>
      <4>1. ctrl[q][r] \in Seq(Nat) /\ Len(ctrl[q][r]) = 0
        BY <2>1, <3>1, <3>2 DEF Channel, OneIf, Types, MessagesType
      <4> QED BY <4>1
    <3>4. ctrl'[q][r] = <<Cardinality(Leaves(p))>>
      BY <1>2, <1>3, <2>2, <3>3 DEF Put, Types, MessagesType
    <3>5. Channel(q, r)'
      BY <1>2, <1>6, <2>1, <2>2, <3>1, <3>2, <3>4 DEF Channel, OneIf
    <3>6. Counted(q, r)'
      BY <1>7, <2>2 DEF Counted
    <3> QED BY <3>5, <3>6
  <2>3. CASE ~(q = p /\ r = t)
    <3>1. ctrl'[q][r] = ctrl[q][r]
      BY <1>2, <1>3, <2>3 DEF Put, Types, MessagesType
    <3>2. CASE q # p /\ r # p
      <4>1. /\ CountDue(q, r)' <=> CountDue(q, r)
            /\ PingDue(q, r)' <=> PingDue(q, r)
            /\ DotsDue(q, r)' <=> DotsDue(q, r)
            /\ Counted(q, r) => Counted(q, r)'
        BY <1>1, <3>2, BothKeep DEF Types
      <4>2. CountOf(q)' = CountOf(q)
        BY <1>1, <3>2, OwnKeeps DEF Types
      <4> QED BY <1>2, <2>1, <3>1, <4>1, <4>2 DEF Channel, OneIf
    <3>3. CASE q = p
      <4>1. ~CountDue(q, r) /\ ~CountDue(q, r)' /\ ~DotsDue(q, r) /\ ~DotsDue(q, r)' /\ ~PingDue(q, r) /\ ~PingDue(q, r)'
        BY <1>1, <1>4, <2>3, <3>3 DEF CountDue, PingDue, DotsDue
      <4>2. Counted(q, r)'
        BY <1>1, <2>3, <3>3 DEF Counted
      <4> QED BY <1>2, <2>1, <3>1, <4>1, <4>2 DEF Channel, OneIf
    <3>4. CASE q # p /\ r = p
      <4>1. /\ CountDue(q, r)' <=> CountDue(q, r)
            /\ PingDue(q, r)' <=> PingDue(q, r)
            /\ DotsDue(q, r)' <=> DotsDue(q, r)
        <5>1. /\ Told(q)' <=> Told(q)
              /\ Shipped(q)' <=> Shipped(q)
              /\ Pinged(q, r)' <=> Pinged(q, r)
          BY <1>1, <3>4, OwnKeeps DEF Types
        <5> QED BY <1>1, <1>4, <1>5, <3>4, <5>1 DEF CountDue, PingDue, DotsDue
      <4>2. CountOf(q)' = CountOf(q)
        BY <1>1, <3>4, OwnKeeps DEF Types
      <4>3. Counted(q, r)'
        BY <1>5, <3>4 DEF Counted
      <4> QED BY <1>2, <2>1, <3>1, <4>1, <4>2, <4>3 DEF Channel, OneIf
    <3> QED BY <3>2, <3>3, <3>4
  <2> QED BY <2>2, <2>3
<1> QED BY <1>1, <1>8, <1>9, <1>10 DEF HandshakeInv, ChannelsInv, CountsInv

LEMMA OtherPairs ==
    ASSUME Types, HandshakeInv, NEW p \in Procs, Own(p), pc[p] \in Exchange,
           NEW q \in Procs, NEW r \in Procs, (q # p /\ r # p) \/ (q = p /\ r = p),
           ctrl'[q][r] = ctrl[q][r], data'[q][r] = data[q][r]
    PROVE  Channel(q, r)' /\ Counted(q, r)'
<1>1. Channel(q, r) /\ Counted(q, r)
  BY DEF HandshakeInv, ChannelsInv, CountsInv
<1>2. CASE q # p /\ r # p
  <2>1. /\ CountDue(q, r)' <=> CountDue(q, r)
        /\ PingDue(q, r)' <=> PingDue(q, r)
        /\ DotsDue(q, r)' <=> DotsDue(q, r)
        /\ Counted(q, r) => Counted(q, r)'
    BY <1>2, BothKeep DEF Types
  <2>2. CountOf(q)' = CountOf(q)
    BY <1>2, OwnKeeps DEF Types
  <2> QED BY <1>1, <2>1, <2>2 DEF Channel, OneIf
<1>3. CASE q = p /\ r = p
  <2>1. Partner(p) # p /\ Partner(p)' = Partner(p)
    BY PartnerFacts, OwnSameParts DEF HandshakeInv, PartsInv, Types, Own
  <2>2. /\ ~CountDue(q, r) /\ ~CountDue(q, r)' /\ ~DotsDue(q, r) /\ ~DotsDue(q, r)'
        /\ ~PingDue(q, r) /\ ~PingDue(q, r)'
    BY <1>3, <2>1 DEF CountDue, PingDue, DotsDue
  <2>3. Counted(q, r)'
    BY <1>3, <2>1 DEF Counted
  <2> QED BY <1>1, <2>2, <2>3 DEF Channel, OneIf
<1> QED BY <1>2, <1>3

LEMMA AllPairs ==
    ASSUME Types, HandshakeInv, NEW p \in Procs, Own(p), pc[p] \in Exchange,
           \A q, r \in Procs : (q # p /\ r # p) \/ (q = p /\ r = p) =>
                                  ctrl'[q][r] = ctrl[q][r] /\ data'[q][r] = data[q][r],
           \A q \in Procs \ {p} : /\ Channel(p, q)' /\ Counted(p, q)'
                                  /\ Channel(q, p)' /\ Counted(q, p)'
    PROVE  ChannelsInv' /\ CountsInv'
<1>1. ASSUME NEW q \in Procs, NEW r \in Procs PROVE Channel(q, r)' /\ Counted(q, r)'
  BY OtherPairs
<1>2. Procs' = Procs
  BY OwnSameParts DEF Own, Types
<1> QED BY <1>1, <1>2 DEF ChannelsInv, CountsInv

\* What p's step shows of it to a partner or a source q.
LEMMA OneOther ==
    ASSUME Types, HandshakeInv, NEW p \in Procs, Own(p), NEW q \in Procs, q # p
    PROVE  /\ Partner(p)' = Partner(p) /\ Partner(q)' = Partner(q) /\ Sources(p)' = Sources(p)
           /\ Sources(q)' = Sources(q)
           /\ pc'[q] = pc[q] /\ incoming'[q] = incoming[q] /\ CountOf(q)' = CountOf(q)
           /\ Told(q)' <=> Told(q)
           /\ Shipped(q)' <=> Shipped(q)
           /\ Answered(q)' <=> Answered(q)
           /\ Heard(q, p)' <=> Heard(q, p)
           /\ Pinged(q, p)' <=> Pinged(q, p)
           /\ Channel(p, q) /\ Channel(q, p) /\ Counted(p, q) /\ Counted(q, p)
<1>1. /\ Partner(p)' = Partner(p) /\ Partner(q)' = Partner(q) /\ Sources(p)' = Sources(p)
      /\ Sources(q)' = Sources(q)
  BY OwnSameParts DEF Own, Types
<1>2. pc'[q] = pc[q] /\ incoming'[q] = incoming[q]
  BY DEF Own
<1>3. Channel(p, q) /\ Channel(q, p) /\ Counted(p, q) /\ Counted(q, p)
  BY DEF HandshakeInv, ChannelsInv, CountsInv
<1> QED BY <1>1, <1>2, <1>3, OwnKeeps DEF Types

\* Causes of all, from what p's step changes in its own points.
LEMMA AllCauses ==
    ASSUME Types, HandshakeInv, NEW p \in Procs, Own(p), pc[p] \in Exchange,
           Told(p) => Told(p)', Answered(p)' => Pinged(Partner(p), p), Shipped(p) => Shipped(p)',
           \A q \in Procs \ {p} : Partner(q) = p =>
               /\ Heard(p, q)' => Told(q)
               /\ Answered(q) => Pinged(p, q)'
               /\ pc'[p] = "split" => Shipped(q)
    PROVE  AnswersInv'
<1>1. Procs' = Procs /\ \A q : Partner(q)' = Partner(q)
  BY OwnSameParts DEF Own, Types
<1> SUFFICES ASSUME NEW q \in Procs PROVE Causes(q)'
  BY <1>1 DEF AnswersInv
<1>2. Causes(q)
  BY DEF HandshakeInv, AnswersInv
<1>3. CASE q = p
  <2>1. Partner(p) \in Procs /\ Partner(p) # p
    BY PartnerFacts DEF HandshakeInv, PartsInv, Types
  <2>2. /\ pc'[Partner(p)] = pc[Partner(p)]
        /\ Heard(Partner(p), p)' <=> Heard(Partner(p), p)
        /\ Pinged(Partner(p), p)' <=> Pinged(Partner(p), p)
    <3>1. PICK t \in Procs : t = Partner(p)
      BY <2>1
    <3>2. pc'[t] = pc[t] /\ (\A r : Heard(t, r)' <=> Heard(t, r)) /\ \A r : Pinged(t, r)' <=> Pinged(t, r)
      BY <2>1, <3>1, OwnKeeps DEF Own, Types
    <3> QED BY <1>1, <3>1, <3>2
  <2> QED BY <1>1, <1>2, <1>3, <2>2 DEF Causes
<1>4. CASE q # p
  <2>1. (Told(q)' <=> Told(q)) /\ (Answered(q)' <=> Answered(q)) /\ (Shipped(q)' <=> Shipped(q))
    BY <1>4, OwnKeeps DEF Types
  <2>2. CASE Partner(q) = p
    BY <1>1, <1>2, <1>4, <2>1, <2>2 DEF Causes
  <2>3. CASE Partner(q) # p
    <3>1. PICK t \in Procs : t = Partner(q)
      BY PartnerFacts DEF HandshakeInv, Types
    <3>2. pc'[t] = pc[t] /\ (\A r : Heard(t, r)' <=> Heard(t, r)) /\ \A r : Pinged(t, r)' <=> Pinged(t, r)
      BY <2>3, <3>1, OwnKeeps DEF Own, Types
    <3> QED BY <1>1, <1>2, <2>1, <3>1, <3>2 DEF Causes
  <2> QED BY <2>2, <2>3
<1> QED BY <1>3, <1>4

LEMMA HearKeeps ==
    ASSUME Types, HandshakeInv, NEW p \in Procs, Hear(p)
    PROVE  HandshakeInv'
<1>1. Own(p) /\ pc[p] = "hear" /\ pc'[p] = "hear" /\ pc[p] \in Exchange /\ pc'[p] \in Exchange
  BY ExchangesOwn DEF Exchanges, Hear, Exchange
<1>2. /\ Len(incoming[p]) \in Nat /\ incoming[p] \in Seq(Nat) /\ DOMAIN Sources(p) = 1 .. Len(Sources(p))
      /\ Len(Sources(p)) \in Nat /\ part[p].lo # part[p].hi
  BY <1>1, SourceFacts DEF Types, MessagesType, HandshakeInv, PartsInv
<1>3. PICK n \in DOMAIN Sources(p) : n = Len(incoming[p]) + 1
  BY <1>2 DEF Hear
<1>4. PICK q \in Procs : q = Sources(p)[n]
  BY SourceFacts DEF HandshakeInv, Types
<1>5. Partner(q) = p /\ q # p
  <2>1. Partner(q) = p
    BY <1>2, <1>4, SourceFacts DEF HandshakeInv, Types
  <2>2. part[q].lo # part[q].hi
    BY <1>2, <1>4, SourceFacts, SamePart DEF HandshakeInv, Types
  <2> QED BY <2>1, <2>2, PartnerFacts DEF HandshakeInv, Types
<1>6. /\ ctrl[q][p] # <<>> /\ ctrl' = Took(ctrl, q, p) /\ data' = data /\ k' = k /\ buf' = buf
      /\ incoming'[p] = Append(incoming[p], Head(ctrl[q][p])) /\ dots' = dots /\ mark' = mark
  BY <1>3, <1>4 DEF Hear, Types, MessagesType
<1>7. /\ Told(p) /\ Told(p)' /\ ~Packed(p) /\ ~Packed(p)' /\ ~Answered(p) /\ ~Answered(p)'
      /\ ~Shipped(p) /\ ~Shipped(p)' /\ pc[p] # "split" /\ pc'[p] # "split"
      /\ \A r : ~Pinged(p, r) /\ ~Pinged(p, r)'
  BY <1>1 DEF Told, Packed, Answered, Shipped, Pinged, Exchange
<1>8. CountOf(p)' = CountOf(p)
  <2>1. Leaves(p)' = Leaves(p)
    BY <1>1, <1>6, OwnSameParts DEF Own, Leaves, MarkActive, Types
  <2> QED BY <1>1, <2>1 DEF CountOf
<1>9. Sources(p)' = Sources(p) /\ Len(incoming'[p]) = n
  BY <1>1, <1>2, <1>3, <1>6, OwnSameParts DEF Own, Types, MessagesType
\* Only q has been heard now.
<1>10. Heard(p, q)' /\ ~Heard(p, q) /\ \A r : r # q => (Heard(p, r)' <=> Heard(p, r))
  <2>1. Heard(p, q)'
    BY <1>1, <1>2, <1>3, <1>4, <1>9 DEF Heard
  <2>2. ~Heard(p, q)
    <3>1. \A j \in DOMAIN Sources(p) : Sources(p)[j] = q => j = n
      BY <1>4, SourceFacts DEF HandshakeInv, Types
    <3>2. ~(n <= Len(incoming[p]))
      BY <1>2, <1>3
    <3> QED BY <1>7, <3>1, <3>2 DEF Heard
  <2>3. ASSUME NEW r, r # q PROVE Heard(p, r)' <=> Heard(p, r)
    <3>1. \A j \in DOMAIN Sources(p) : Sources(p)[j] = r => (j <= n <=> j <= Len(incoming[p]))
      BY <1>2, <1>3, <1>4, <2>3
    <3> QED BY <1>1, <1>7, <1>9, <3>1 DEF Heard
  <2> QED BY <2>1, <2>2, <2>3
<1>11. Told(q) /\ CountDue(q, p)
  <2>1. Channel(q, p) /\ ctrl[q][p] \in Seq(Nat)
    BY DEF HandshakeInv, ChannelsInv, Types, MessagesType
  <2>2. Len(ctrl[q][p]) # 0
    BY <1>6, <2>1
  <2>3. CountDue(q, p) \/ PingDue(q, p)
    BY <2>1, <2>2 DEF Channel, OneIf
  <2>4. Pinged(q, p) => Told(q)
    BY DEF Pinged, Told, Answered, Exchange
  <2>5. Told(q)
    BY <2>3, <2>4 DEF CountDue, PingDue
  <2> QED BY <1>5, <1>10, <2>5 DEF CountDue
<1>12. Head(ctrl[q][p]) = CountOf(q)
  BY <1>11 DEF HandshakeInv, ChannelsInv, Channel
<1>13. PartsInv' /\ LoopsInv'
  <2>1. PartsInv'
    BY <1>1, OwnPartsInv DEF HandshakeInv, Types
  <2>2. n <= Len(Sources(p)) /\ k'[p] = 0
    BY <1>1, <1>2, <1>6 DEF HandshakeInv, LoopsInv
  <2>3. LoopsInv'
    BY <1>1, <1>9, <2>2, OwnLoopsInv DEF HandshakeInv, Types
  <2> QED BY <2>1, <2>3
<1>14. AnswersInv'
  <2>1. \A r \in Procs \ {p} : Partner(r) = p =>
           (Heard(p, r)' => Told(r)) /\ (Answered(r) => Pinged(p, r)') /\ (pc'[p] = "split" => Shipped(r))
    <3> SUFFICES ASSUME NEW r \in Procs \ {p}, Partner(r) = p
                 PROVE  (Heard(p, r)' => Told(r)) /\ ~Answered(r)
      BY <1>7
    <3> QED BY <1>7, <1>10, <1>11 DEF HandshakeInv, AnswersInv, Causes
  <2> QED BY <1>1, <1>7, <2>1, AllCauses
<1>15. ASSUME NEW r \in Procs \ {p} PROVE Channel(p, r)' /\ Counted(p, r)' /\ Channel(r, p)' /\ Counted(r, p)'
  <2>1. /\ Partner(p)' = Partner(p) /\ Partner(r)' = Partner(r) /\ Sources(p)' = Sources(p)
        /\ Sources(r)' = Sources(r)
        /\ pc'[r] = pc[r] /\ incoming'[r] = incoming[r] /\ CountOf(r)' = CountOf(r)
        /\ Told(r)' <=> Told(r)
        /\ Shipped(r)' <=> Shipped(r)
        /\ Answered(r)' <=> Answered(r)
        /\ Heard(r, p)' <=> Heard(r, p)
        /\ Pinged(r, p)' <=> Pinged(r, p)
    BY <1>1, OneOther
  <2>2. Channel(p, r) /\ Channel(r, p) /\ Counted(p, r) /\ Counted(r, p)
    BY DEF HandshakeInv, ChannelsInv, CountsInv
  <2>3. ctrl'[p][r] = ctrl[p][r]
    BY <1>5, <1>6 DEF Took, Types, MessagesType
  <2>4. Channel(p, r)'
    <3>1. /\ CountDue(p, r)' <=> CountDue(p, r)
          /\ PingDue(p, r)' <=> PingDue(p, r)
          /\ DotsDue(p, r)' <=> DotsDue(p, r)
      BY <1>7, <2>1 DEF CountDue, PingDue, DotsDue
    <3> QED BY <1>6, <1>8, <2>2, <2>3, <3>1 DEF Channel, OneIf
  <2>5. Counted(p, r)'
    BY <1>1, <1>8, <2>1, <2>2 DEF Counted
  <2>6. (PingDue(r, p)' <=> PingDue(r, p)) /\ (DotsDue(r, p)' <=> DotsDue(r, p))
    BY <1>7, <2>1 DEF PingDue, DotsDue
  <2>7. CASE r = q
    <3>1. ~CountDue(r, p)'
      BY <1>10, <2>7 DEF CountDue
    <3>2. ctrl'[r][p] = Tail(ctrl[r][p]) /\ ctrl[r][p] \in Seq(Nat) /\ ctrl[r][p] # <<>>
      BY <1>6, <2>7 DEF Took, Types, MessagesType
    <3>3. Len(ctrl'[r][p]) = Len(ctrl[r][p]) - 1
      BY <3>2
    <3>4. Len(ctrl[r][p]) = 1 + OneIf(PingDue(r, p)) /\ Len(data[r][p]) = OneIf(DotsDue(r, p))
      BY <1>11, <2>2, <2>7 DEF Channel, OneIf
    <3>5. Channel(r, p)'
      BY <1>6, <2>6, <3>1, <3>3, <3>4 DEF Channel, OneIf
    <3>6. \A j \in DOMAIN Sources(p) : Sources(p)[j] = r => j = n
      BY <1>4, <2>7, SourceFacts DEF HandshakeInv, Types
    <3>7. incoming'[p][n] = CountOf(r)
      BY <1>2, <1>3, <1>6, <1>12, <2>7
    <3>8. Counted(r, p)'
      BY <2>1, <3>6, <3>7 DEF Counted
    <3> QED BY <2>4, <2>5, <3>5, <3>8
  <2>8. CASE r # q
    <3>1. (CountDue(r, p)' <=> CountDue(r, p)) /\ (Heard(p, r)' <=> Heard(p, r))
      BY <1>10, <2>1, <2>8 DEF CountDue
    <3>2. ctrl'[r][p] = ctrl[r][p]
      BY <1>6, <2>8 DEF Took, Types, MessagesType
    <3>3. Channel(r, p)'
      BY <1>6, <2>1, <2>2, <2>6, <3>1, <3>2 DEF Channel, OneIf
    <3>4. ASSUME Heard(p, r), NEW j \in DOMAIN Sources(p), Sources(p)[j] = r PROVE incoming'[p][j] = incoming[p][j]
      <4>1. PICK i \in DOMAIN Sources(p) : Sources(p)[i] = r /\ i <= Len(incoming[p])
        BY <1>7, <3>4 DEF Heard
      <4>2. i = j
        BY <3>4, <4>1, SourceFacts DEF HandshakeInv, Types
      <4>3. j \in 1 .. Len(incoming[p])
        BY <1>2, <4>1, <4>2
      <4> QED BY <1>2, <1>6, <4>3
    <3>5. Counted(r, p)'
      BY <2>1, <2>2, <3>1, <3>4 DEF Counted
    <3> QED BY <2>4, <2>5, <3>3, <3>5
  <2> QED BY <2>7, <2>8
<1>16. \A r, s \in Procs : (r # p /\ s # p) \/ (r = p /\ s = p) => ctrl'[r][s] = ctrl[r][s] /\ data'[r][s] = data[r][s]
  BY <1>5, <1>6 DEF Took, Types, MessagesType
<1>17. ChannelsInv' /\ CountsInv'
  BY <1>1, <1>15, <1>16, AllPairs
<1> QED BY <1>13, <1>14, <1>17 DEF HandshakeInv

LEMMA PostKeeps ==
    ASSUME Types, HandshakeInv, NEW p \in Procs, Post(p)
    PROVE  HandshakeInv'
<1>1. Own(p) /\ pc[p] = "hear" /\ pc'[p] = "ping" /\ pc[p] \in Exchange /\ pc'[p] \in Exchange
  BY ExchangesOwn DEF Exchanges, Post, PostFor, Go, Exchange, Types, PartsType
<1>2. /\ Len(incoming[p]) = Len(Sources(p)) /\ DOMAIN Sources(p) = 1 .. Len(Sources(p))
      /\ Len(Sources(p)) \in Nat /\ part[p].lo # part[p].hi
  BY <1>1, SourceFacts DEF Post, PostFor, Types, HandshakeInv, PartsInv
<1>3. /\ ctrl' = ctrl /\ data' = data /\ k' = k /\ incoming' = incoming
      /\ buf'[p] = Pick(p, Leaves(p)) /\ posted'[p] = ToSet(Sources(p))
  BY DEF Post, PostFor, Types, DotsType, MessagesType
<1>4. CountOf(p)' = CountOf(p)
  <2>1. Len(Pick(p, Leaves(p))) = Cardinality(Leaves(p))
    BY PickFacts DEF Types, Leaves
  <2> QED BY <1>1, <1>3, <2>1 DEF CountOf
<1>5. /\ Told(p) /\ Told(p)' /\ Packed(p)' /\ ~Answered(p) /\ ~Answered(p)'
      /\ ~Shipped(p) /\ ~Shipped(p)' /\ pc[p] # "split" /\ pc'[p] # "split"
      /\ \A r : ~Pinged(p, r) /\ Heard(p, r)'
  BY <1>1 DEF Told, Packed, Answered, Shipped, Pinged, Heard, Exchange
<1>6. k[p] = 0 /\ Sources(p)' = Sources(p)
  BY <1>1, OwnSameParts DEF HandshakeInv, LoopsInv, Own, Types
<1>7. \A r : ~Pinged(p, r)'
  <2>1. \A j \in DOMAIN Sources(p) : ~(j <= k'[p])
    BY <1>2, <1>3, <1>6
  <2> QED BY <1>5, <1>6, <2>1 DEF Pinged
\* All counts had been heard.
<1>8. \A r \in Procs : Partner(r) = p => Heard(p, r)
  <2> SUFFICES ASSUME NEW r \in Procs, Partner(r) = p PROVE Heard(p, r)
    OBVIOUS
  <2>1. \E j \in DOMAIN Sources(p) : Sources(p)[j] = r
    BY <1>2, SourceFacts DEF HandshakeInv, Types
  <2> QED BY <1>1, <1>2, <2>1 DEF Heard
<1>9. PartsInv' /\ LoopsInv'
  <2>1. PartsInv'
    BY <1>1, OwnPartsInv DEF HandshakeInv, Types
  <2>2. k'[p] <= Len(Sources(p)) /\ Len(incoming'[p]) = Len(Sources(p))
    BY <1>2, <1>3, <1>6
  <2>3. LoopsInv'
    BY <1>1, <1>3, <2>2, OwnLoopsInv DEF HandshakeInv, Types
  <2> QED BY <2>1, <2>3
<1>10. AnswersInv'
  <2>1. \A r \in Procs \ {p} : Partner(r) = p =>
           (Heard(p, r)' => Told(r)) /\ (Answered(r) => Pinged(p, r)') /\ (pc'[p] = "split" => Shipped(r))
    <3> SUFFICES ASSUME NEW r \in Procs \ {p}, Partner(r) = p
                 PROVE  Told(r) /\ ~Answered(r)
      BY <1>5
    <3> QED BY <1>5, <1>8 DEF HandshakeInv, AnswersInv, Causes
  <2> QED BY <1>1, <1>5, <2>1, AllCauses
<1>11. ASSUME NEW r \in Procs \ {p} PROVE Channel(p, r)' /\ Counted(p, r)' /\ Channel(r, p)' /\ Counted(r, p)'
  <2>1. /\ Partner(p)' = Partner(p) /\ Partner(r)' = Partner(r) /\ Sources(p)' = Sources(p)
        /\ Sources(r)' = Sources(r)
        /\ pc'[r] = pc[r] /\ incoming'[r] = incoming[r] /\ CountOf(r)' = CountOf(r)
        /\ Told(r)' <=> Told(r)
        /\ Shipped(r)' <=> Shipped(r)
        /\ Answered(r)' <=> Answered(r)
        /\ Heard(r, p)' <=> Heard(r, p)
        /\ Pinged(r, p)' <=> Pinged(r, p)
    BY <1>1, OneOther
  <2>2. Channel(p, r) /\ Channel(r, p) /\ Counted(p, r) /\ Counted(r, p)
    BY DEF HandshakeInv, ChannelsInv, CountsInv
  <2>3. Channel(p, r)'
    <3>1. /\ CountDue(p, r)' <=> CountDue(p, r)
          /\ PingDue(p, r)' <=> PingDue(p, r)
          /\ DotsDue(p, r)' <=> DotsDue(p, r)
      BY <1>5, <1>7, <2>1 DEF CountDue, PingDue, DotsDue
    <3> QED BY <1>3, <1>4, <2>2, <3>1 DEF Channel, OneIf
  <2>4. Counted(p, r)'
    BY <1>1, <1>3, <1>4, <2>1, <2>2 DEF Counted
  <2>5. Channel(r, p)'
    <3>1. /\ CountDue(r, p)' <=> CountDue(r, p)
          /\ PingDue(r, p)' <=> PingDue(r, p)
          /\ DotsDue(r, p)' <=> DotsDue(r, p)
      BY <1>5, <1>8, <2>1 DEF CountDue, PingDue, DotsDue
    <3> QED BY <1>3, <2>1, <2>2, <3>1 DEF Channel, OneIf
  <2>6. Counted(r, p)'
    BY <1>3, <1>8, <2>1, <2>2 DEF Counted
  <2> QED BY <2>3, <2>4, <2>5, <2>6
<1>12. ChannelsInv' /\ CountsInv'
  BY <1>1, <1>3, <1>11, AllPairs
<1> QED BY <1>9, <1>10, <1>12 DEF HandshakeInv

LEMMA PingKeeps ==
    ASSUME Types, HandshakeInv, NEW p \in Procs, Ping(p)
    PROVE  HandshakeInv'
<1>1. Own(p) /\ pc[p] = "ping" /\ pc'[p] = "ping" /\ pc[p] \in Exchange /\ pc'[p] \in Exchange
  BY ExchangesOwn DEF Exchanges, Ping, Exchange
<1>2. /\ k[p] \in Nat /\ k[p] < Len(Sources(p)) /\ DOMAIN Sources(p) = 1 .. Len(Sources(p))
      /\ Len(Sources(p)) \in Nat /\ part[p].lo # part[p].hi
  BY <1>1, SourceFacts DEF Ping, Types, MessagesType, HandshakeInv, PartsInv
<1>3. PICK n \in DOMAIN Sources(p) : n = k[p] + 1
  BY <1>2
<1>4. PICK q \in Procs : q = Sources(p)[n]
  BY SourceFacts DEF HandshakeInv, Types
<1>5. Partner(q) = p /\ q # p
  <2>1. Partner(q) = p
    BY <1>2, <1>4, SourceFacts DEF HandshakeInv, Types
  <2>2. part[q].lo # part[q].hi
    BY <1>2, <1>4, SourceFacts, SamePart DEF HandshakeInv, Types
  <2> QED BY <2>1, <2>2, PartnerFacts DEF HandshakeInv, Types
<1>6. /\ ctrl' = Put(ctrl, p, q, 0) /\ data' = data /\ k'[p] = n /\ buf' = buf
      /\ incoming' = incoming /\ posted' = posted
  BY <1>3, <1>4 DEF Ping, Types, MessagesType
<1>7. /\ Told(p) /\ Told(p)' /\ Packed(p) /\ Packed(p)' /\ ~Answered(p) /\ ~Answered(p)'
      /\ ~Shipped(p) /\ ~Shipped(p)' /\ pc[p] # "split" /\ pc'[p] # "split"
      /\ \A r : Heard(p, r) /\ Heard(p, r)'
  BY <1>1 DEF Told, Packed, Answered, Shipped, Heard, Exchange
<1>8. CountOf(p)' = CountOf(p) /\ Sources(p)' = Sources(p)
  BY <1>1, <1>6, OwnSameParts DEF CountOf, Own, Types
\* Only q is answered now.
<1>9. Pinged(p, q)' /\ ~Pinged(p, q) /\ \A r : r # q => (Pinged(p, r)' <=> Pinged(p, r))
  <2>1. Pinged(p, q)'
    BY <1>1, <1>2, <1>3, <1>4, <1>6, <1>8 DEF Pinged
  <2>2. ~Pinged(p, q)
    <3>1. \A j \in DOMAIN Sources(p) : Sources(p)[j] = q => j = n
      BY <1>4, SourceFacts DEF HandshakeInv, Types
    <3>2. ~(n <= k[p])
      BY <1>2, <1>3
    <3> QED BY <1>7, <3>1, <3>2 DEF Pinged
  <2>3. ASSUME NEW r, r # q PROVE Pinged(p, r)' <=> Pinged(p, r)
    <3>1. \A j \in DOMAIN Sources(p) : Sources(p)[j] = r => (j <= n <=> j <= k[p])
      BY <1>2, <1>3, <1>4, <2>3
    <3> QED BY <1>1, <1>6, <1>7, <1>8, <3>1 DEF Pinged
  <2> QED BY <2>1, <2>2, <2>3
<1>10. ~Answered(q)
  BY <1>5, <1>9 DEF HandshakeInv, AnswersInv, Causes
<1>11. PartsInv' /\ LoopsInv'
  <2>1. PartsInv'
    BY <1>1, OwnPartsInv DEF HandshakeInv, Types
  <2>2. k'[p] <= Len(Sources(p))
    BY <1>2, <1>6
  <2>3. Len(incoming'[p]) = Len(Sources(p)) /\ posted'[p] = ToSet(Sources(p))
    BY <1>1, <1>6, <1>7 DEF HandshakeInv, LoopsInv
  <2>4. LoopsInv'
    BY <1>1, <2>2, <2>3, OwnLoopsInv DEF HandshakeInv, Types
  <2> QED BY <2>1, <2>4
<1>12. AnswersInv'
  <2>1. \A r \in Procs \ {p} : Partner(r) = p =>
           (Heard(p, r)' => Told(r)) /\ (Answered(r) => Pinged(p, r)') /\ (pc'[p] = "split" => Shipped(r))
    <3> SUFFICES ASSUME NEW r \in Procs \ {p}, Partner(r) = p
                 PROVE  Told(r) /\ (Answered(r) => Pinged(p, r)')
      BY <1>7
    <3> QED BY <1>7, <1>9, <1>10 DEF HandshakeInv, AnswersInv, Causes
  <2> QED BY <1>1, <1>7, <2>1, AllCauses
<1>13. ASSUME NEW r \in Procs \ {p} PROVE Channel(p, r)' /\ Counted(p, r)' /\ Channel(r, p)' /\ Counted(r, p)'
  <2>1. /\ Partner(p)' = Partner(p) /\ Partner(r)' = Partner(r) /\ Sources(p)' = Sources(p)
        /\ Sources(r)' = Sources(r)
        /\ pc'[r] = pc[r] /\ incoming'[r] = incoming[r] /\ CountOf(r)' = CountOf(r)
        /\ Told(r)' <=> Told(r)
        /\ Shipped(r)' <=> Shipped(r)
        /\ Answered(r)' <=> Answered(r)
        /\ Heard(r, p)' <=> Heard(r, p)
        /\ Pinged(r, p)' <=> Pinged(r, p)
    BY <1>1, OneOther
  <2>2. Channel(p, r) /\ Channel(r, p) /\ Counted(p, r) /\ Counted(r, p)
    BY DEF HandshakeInv, ChannelsInv, CountsInv
  <2>3. ctrl'[r][p] = ctrl[r][p]
    BY <1>5, <1>6 DEF Put, Types, MessagesType
  <2>4. Channel(r, p)'
    <3>1. /\ CountDue(r, p)' <=> CountDue(r, p)
          /\ PingDue(r, p)' <=> PingDue(r, p)
          /\ DotsDue(r, p)' <=> DotsDue(r, p)
      BY <1>7, <2>1 DEF CountDue, PingDue, DotsDue
    <3> QED BY <1>6, <2>1, <2>2, <2>3, <3>1 DEF Channel, OneIf
  <2>5. Counted(r, p)'
    BY <1>6, <1>7, <2>1, <2>2 DEF Counted
  <2>6. Counted(p, r)'
    BY <1>1, <1>8, <2>1, <2>2 DEF Counted
  <2>7. (CountDue(p, r)' <=> CountDue(p, r)) /\ (DotsDue(p, r)' <=> DotsDue(p, r))
    BY <1>7, <2>1 DEF CountDue, DotsDue
  <2>8. CASE r = q
    <3>1. PingDue(p, r)' /\ ~PingDue(p, r)
      BY <1>5, <1>9, <1>10, <2>1, <2>8 DEF PingDue
    <3>2. ctrl'[p][r] = Append(ctrl[p][r], 0) /\ ctrl[p][r] \in Seq(Nat)
      BY <1>6, <2>8 DEF Put, Types, MessagesType
    <3>3. /\ Len(ctrl'[p][r]) = Len(ctrl[p][r]) + 1
          /\ Len(ctrl[p][r]) = 1 => Head(ctrl'[p][r]) = Head(ctrl[p][r])
      BY <3>2
    <3>4. Len(ctrl[p][r]) = OneIf(CountDue(p, r)) /\ (CountDue(p, r) => Head(ctrl[p][r]) = CountOf(p))
      BY <2>2, <3>1 DEF Channel, OneIf
    <3>5. Len(data'[p][r]) = OneIf(DotsDue(p, r))
      BY <1>6, <2>2 DEF Channel
    <3>6. Channel(p, r)'
      BY <1>8, <2>7, <3>1, <3>3, <3>4, <3>5 DEF Channel, OneIf
    <3> QED BY <2>4, <2>5, <2>6, <3>6
  <2>9. CASE r # q
    <3>1. PingDue(p, r)' <=> PingDue(p, r)
      BY <1>9, <2>1, <2>9 DEF PingDue
    <3>2. ctrl'[p][r] = ctrl[p][r]
      BY <1>6, <2>9 DEF Put, Types, MessagesType
    <3>3. Channel(p, r)'
      BY <1>6, <1>8, <2>2, <2>7, <3>1, <3>2 DEF Channel, OneIf
    <3> QED BY <2>4, <2>5, <2>6, <3>3
  <2> QED BY <2>8, <2>9
<1>14. \A r, s \in Procs : (r # p /\ s # p) \/ (r = p /\ s = p) => ctrl'[r][s] = ctrl[r][s] /\ data'[r][s] = data[r][s]
  BY <1>5, <1>6 DEF Put, Types, MessagesType
<1>15. ChannelsInv' /\ CountsInv'
  BY <1>1, <1>13, <1>14, AllPairs
<1> QED BY <1>11, <1>12, <1>15 DEF HandshakeInv

LEMMA AwaitKeeps ==
    ASSUME Types, HandshakeInv, NEW p \in Procs, Await(p)
    PROVE  HandshakeInv'
<1>1. Own(p) /\ pc[p] = "ping" /\ pc'[p] = "send" /\ pc[p] \in Exchange /\ pc'[p] \in Exchange
  BY ExchangesOwn DEF Exchanges, Await, Go, Exchange, Types, PartsType
<1>2. /\ k[p] = Len(Sources(p)) /\ DOMAIN Sources(p) = 1 .. Len(Sources(p))
      /\ Len(Sources(p)) \in Nat /\ part[p].lo # part[p].hi
  BY <1>1, SourceFacts DEF Await, Types, HandshakeInv, PartsInv
<1>3. PICK t \in Procs : t = Partner(p)
  BY PartnerFacts DEF HandshakeInv, Types
<1>4. t # p /\ ctrl[t][p] # <<>>
  BY <1>2, <1>3, PartnerFacts DEF HandshakeInv, Types, Await
<1>5. /\ ctrl' = Took(ctrl, t, p) /\ data' = data /\ k' = k /\ buf' = buf
      /\ incoming' = incoming /\ posted' = posted
  BY <1>3 DEF Await
<1>6. /\ Told(p) /\ Told(p)' /\ Packed(p) /\ Packed(p)' /\ ~Answered(p) /\ Answered(p)'
      /\ ~Shipped(p) /\ ~Shipped(p)' /\ pc[p] # "split" /\ pc'[p] # "split"
      /\ \A r : Heard(p, r) /\ Heard(p, r)'
  BY <1>1 DEF Told, Packed, Answered, Shipped, Heard, Exchange
<1>7. CountOf(p)' = CountOf(p) /\ Sources(p)' = Sources(p)
  BY <1>1, <1>5, OwnSameParts DEF CountOf, Own, Types
\* All sources had been answered.
<1>8. \A r \in Procs : Partner(r) = p => Pinged(p, r)
  <2> SUFFICES ASSUME NEW r \in Procs, Partner(r) = p PROVE Pinged(p, r)
    OBVIOUS
  <2>1. \E j \in DOMAIN Sources(p) : Sources(p)[j] = r
    BY <1>2, SourceFacts DEF HandshakeInv, Types
  <2> QED BY <1>1, <1>2, <2>1 DEF Pinged
<1>9. \A r \in Procs : Partner(r) = p => Pinged(p, r)'
  BY <1>1, <1>6, OwnSameParts DEF Pinged, Own, Types
<1>10. Pinged(t, p) /\ Len(ctrl[t][p]) = 1 /\ ctrl[t][p] \in Seq(Nat)
  <2>1. Channel(t, p) /\ ctrl[t][p] \in Seq(Nat)
    BY DEF HandshakeInv, ChannelsInv, Types, MessagesType
  <2>2. Len(ctrl[t][p]) # 0
    BY <1>4, <2>1
  <2>3. ~CountDue(t, p)
    BY <1>6 DEF CountDue
  <2>4. PingDue(t, p) /\ Len(ctrl[t][p]) = 1
    BY <2>1, <2>2, <2>3 DEF Channel, OneIf
  <2> QED BY <2>1, <2>4 DEF PingDue
<1>11. PartsInv' /\ LoopsInv'
  <2>1. PartsInv'
    BY <1>1, OwnPartsInv DEF HandshakeInv, Types
  <2>2. Len(incoming'[p]) = Len(Sources(p)) /\ posted'[p] = ToSet(Sources(p))
    BY <1>1, <1>5, <1>6 DEF HandshakeInv, LoopsInv
  <2>3. LoopsInv'
    BY <1>1, <2>2, OwnLoopsInv DEF HandshakeInv, Types
  <2> QED BY <2>1, <2>3
<1>12. AnswersInv'
  <2>1. \A r \in Procs \ {p} : Partner(r) = p =>
           (Heard(p, r)' => Told(r)) /\ (Answered(r) => Pinged(p, r)') /\ (pc'[p] = "split" => Shipped(r))
    <3> SUFFICES ASSUME NEW r \in Procs \ {p}, Partner(r) = p PROVE Told(r)
      BY <1>6, <1>9
    <3> QED BY <1>6 DEF HandshakeInv, AnswersInv, Causes
  <2>2. Answered(p)' => Pinged(Partner(p), p)
    BY <1>3, <1>10
  <2> QED BY <1>1, <1>6, <2>1, <2>2, AllCauses
<1>13. ASSUME NEW r \in Procs \ {p} PROVE Channel(p, r)' /\ Counted(p, r)' /\ Channel(r, p)' /\ Counted(r, p)'
  <2>1. /\ Partner(p)' = Partner(p) /\ Partner(r)' = Partner(r) /\ Sources(p)' = Sources(p)
        /\ Sources(r)' = Sources(r)
        /\ pc'[r] = pc[r] /\ incoming'[r] = incoming[r] /\ CountOf(r)' = CountOf(r)
        /\ Told(r)' <=> Told(r)
        /\ Shipped(r)' <=> Shipped(r)
        /\ Answered(r)' <=> Answered(r)
        /\ Heard(r, p)' <=> Heard(r, p)
        /\ Pinged(r, p)' <=> Pinged(r, p)
    BY <1>1, OneOther
  <2>2. Channel(p, r) /\ Channel(r, p) /\ Counted(p, r) /\ Counted(r, p)
    BY DEF HandshakeInv, ChannelsInv, CountsInv
  <2>3. Channel(p, r)'
    <3>1. ctrl'[p][r] = ctrl[p][r]
      BY <1>4, <1>5 DEF Took, Types, MessagesType
    <3>2. /\ CountDue(p, r)' <=> CountDue(p, r)
          /\ PingDue(p, r)' <=> PingDue(p, r)
          /\ DotsDue(p, r)' <=> DotsDue(p, r)
      BY <1>6, <1>8, <1>9, <2>1 DEF CountDue, PingDue, DotsDue
    <3> QED BY <1>5, <1>7, <2>2, <3>1, <3>2 DEF Channel, OneIf
  <2>4. Counted(p, r)'
    BY <1>1, <1>5, <1>7, <2>1, <2>2 DEF Counted
  <2>5. Counted(r, p)'
    BY <1>5, <1>6, <2>1, <2>2 DEF Counted
  <2>6. /\ ~CountDue(r, p) /\ ~CountDue(r, p)' /\ ~PingDue(r, p)'
        /\ DotsDue(r, p)' <=> DotsDue(r, p)
    BY <1>6, <2>1 DEF CountDue, PingDue, DotsDue
  <2>7. Len(ctrl'[r][p]) = 0
    <3>1. CASE r = t
      <4>1. ctrl'[r][p] = Tail(ctrl[r][p])
        BY <1>5, <3>1 DEF Took, Types, MessagesType
      <4> QED BY <1>10, <3>1, <4>1
    <3>2. CASE r # t
      <4>1. ctrl'[r][p] = ctrl[r][p]
        BY <1>5, <3>2 DEF Took, Types, MessagesType
      <4>2. ~PingDue(r, p)
        BY <1>3, <3>2 DEF PingDue
      <4> QED BY <2>2, <2>6, <4>1, <4>2 DEF Channel, OneIf
    <3> QED BY <3>1, <3>2
  <2>8. Channel(r, p)'
    BY <1>5, <2>2, <2>6, <2>7 DEF Channel, OneIf
  <2> QED BY <2>3, <2>4, <2>5, <2>8
<1>14. \A r, s \in Procs : (r # p /\ s # p) \/ (r = p /\ s = p) => ctrl'[r][s] = ctrl[r][s] /\ data'[r][s] = data[r][s]
  BY <1>4, <1>5 DEF Took, Types, MessagesType
<1>15. ChannelsInv' /\ CountsInv'
  BY <1>1, <1>13, <1>14, AllPairs
<1> QED BY <1>11, <1>12, <1>15 DEF HandshakeInv

LEMMA SendDotsKeeps ==
    ASSUME Types, HandshakeInv, NEW p \in Procs, SendDots(p)
    PROVE  HandshakeInv'
<1>1. Own(p) /\ pc[p] = "send" /\ pc'[p] = "wait" /\ pc[p] \in Exchange /\ pc'[p] \in Exchange
  BY ExchangesOwn DEF Exchanges, SendDots, Go, Exchange, Types, PartsType
<1>2. part[p].lo # part[p].hi
  BY <1>1 DEF HandshakeInv, PartsInv
<1>3. PICK t \in Procs : t = Partner(p)
  BY PartnerFacts DEF HandshakeInv, Types
<1>4. t # p
  BY <1>2, <1>3, PartnerFacts DEF HandshakeInv, Types
<1>5. /\ data' = Put(data, p, t, buf[p]) /\ ctrl' = ctrl /\ k' = k /\ buf' = buf
      /\ incoming' = incoming /\ posted' = posted
  BY <1>3 DEF SendDots
<1>6. /\ Told(p) /\ Told(p)' /\ Packed(p) /\ Packed(p)' /\ Answered(p) /\ Answered(p)'
      /\ ~Shipped(p) /\ Shipped(p)' /\ pc[p] # "split" /\ pc'[p] # "split"
      /\ \A r : Heard(p, r) /\ Heard(p, r)'
  BY <1>1 DEF Told, Packed, Answered, Shipped, Heard, Exchange
<1>7. CountOf(p)' = CountOf(p)
  BY <1>1, <1>5 DEF CountOf
<1>8. \A r : Pinged(p, r)' <=> Pinged(p, r)
  BY <1>1, <1>6, OwnSameParts DEF Pinged, Own, Types
<1>9. pc[t] # "split"
  BY <1>3, <1>6 DEF HandshakeInv, AnswersInv, Causes
<1>10. PartsInv' /\ LoopsInv'
  <2>1. PartsInv'
    BY <1>1, OwnPartsInv DEF HandshakeInv, Types
  <2>2. Len(incoming'[p]) = Len(Sources(p)) /\ posted'[p] = ToSet(Sources(p))
    BY <1>1, <1>5, <1>6 DEF HandshakeInv, LoopsInv
  <2>3. LoopsInv'
    BY <1>1, <2>2, OwnLoopsInv DEF HandshakeInv, Types
  <2> QED BY <2>1, <2>3
<1>11. AnswersInv'
  <2>1. \A r \in Procs \ {p} : Partner(r) = p =>
           (Heard(p, r)' => Told(r)) /\ (Answered(r) => Pinged(p, r)') /\ (pc'[p] = "split" => Shipped(r))
    BY <1>6, <1>8 DEF HandshakeInv, AnswersInv, Causes
  <2>2. Pinged(Partner(p), p)
    BY <1>6 DEF HandshakeInv, AnswersInv, Causes
  <2> QED BY <1>1, <1>6, <2>1, <2>2, AllCauses
<1>12. ASSUME NEW r \in Procs \ {p} PROVE Channel(p, r)' /\ Counted(p, r)' /\ Channel(r, p)' /\ Counted(r, p)'
  <2>1. /\ Partner(p)' = Partner(p) /\ Partner(r)' = Partner(r) /\ Sources(p)' = Sources(p)
        /\ Sources(r)' = Sources(r)
        /\ pc'[r] = pc[r] /\ incoming'[r] = incoming[r] /\ CountOf(r)' = CountOf(r)
        /\ Told(r)' <=> Told(r)
        /\ Shipped(r)' <=> Shipped(r)
        /\ Answered(r)' <=> Answered(r)
        /\ Heard(r, p)' <=> Heard(r, p)
        /\ Pinged(r, p)' <=> Pinged(r, p)
    BY <1>1, OneOther
  <2>2. Channel(p, r) /\ Channel(r, p) /\ Counted(p, r) /\ Counted(r, p)
    BY DEF HandshakeInv, ChannelsInv, CountsInv
  <2>3. data'[r][p] = data[r][p]
    BY <1>4, <1>5 DEF Put, Types, MessagesType
  <2>4. Channel(r, p)'
    <3>1. /\ CountDue(r, p)' <=> CountDue(r, p)
          /\ PingDue(r, p)' <=> PingDue(r, p)
          /\ DotsDue(r, p)' <=> DotsDue(r, p)
      BY <1>6, <2>1 DEF CountDue, PingDue, DotsDue
    <3> QED BY <1>5, <2>1, <2>2, <2>3, <3>1 DEF Channel, OneIf
  <2>5. Counted(r, p)'
    BY <1>5, <1>6, <2>1, <2>2 DEF Counted
  <2>6. Counted(p, r)'
    BY <1>1 DEF Counted
  <2>7. (CountDue(p, r)' <=> CountDue(p, r)) /\ (PingDue(p, r)' <=> PingDue(p, r)) /\ ~DotsDue(p, r)
    BY <1>6, <1>8, <2>1 DEF CountDue, PingDue, DotsDue
  <2>8. Len(data'[p][r]) = OneIf(DotsDue(p, r))'
    <3>1. Len(data[p][r]) = 0
      BY <2>2, <2>7 DEF Channel, OneIf
    <3>2. CASE r = t
      <4>1. DotsDue(p, r)'
        BY <1>3, <1>6, <1>9, <2>1, <3>2 DEF DotsDue
      <4>2. data'[p][r] = Append(data[p][r], buf[p]) /\ data[p][r] \in Seq(Seq(Dots)) /\ buf[p] \in Seq(Dots)
        BY <1>5, <3>2 DEF Put, Types, MessagesType, DotsType
      <4>3. Len(data'[p][r]) = 1
        BY <3>1, <4>2
      <4> QED BY <4>1, <4>3 DEF OneIf
    <3>3. CASE r # t
      <4>1. ~DotsDue(p, r)'
        BY <1>3, <2>1, <3>3 DEF DotsDue
      <4>2. data'[p][r] = data[p][r]
        BY <1>5, <3>3 DEF Put, Types, MessagesType
      <4> QED BY <3>1, <4>1, <4>2 DEF OneIf
    <3> QED BY <3>2, <3>3
  <2>9. Channel(p, r)'
    BY <1>5, <1>7, <2>2, <2>7, <2>8 DEF Channel, OneIf
  <2> QED BY <2>4, <2>5, <2>6, <2>9
<1>13. \A r, s \in Procs : (r # p /\ s # p) \/ (r = p /\ s = p) => ctrl'[r][s] = ctrl[r][s] /\ data'[r][s] = data[r][s]
  BY <1>4, <1>5 DEF Put, Types, MessagesType
<1>14. ChannelsInv' /\ CountsInv'
  BY <1>1, <1>12, <1>13, AllPairs
<1> QED BY <1>10, <1>11, <1>14 DEF HandshakeInv

LEMMA WaitKeeps ==
    ASSUME Types, HandshakeInv, NEW p \in Procs, Wait(p)
    PROVE  HandshakeInv'
<1>1. Own(p) /\ pc[p] = "wait" /\ pc'[p] = "split" /\ pc[p] \in Exchange /\ pc'[p] \in Exchange
  BY ExchangesOwn DEF Exchanges, Wait, Go, Exchange, Types, PartsType
<1>2. part[p].lo # part[p].hi /\ DOMAIN Sources(p) = 1 .. Len(Sources(p))
  BY <1>1, SourceFacts DEF HandshakeInv, PartsInv, Types
<1>3. PICK t \in Procs : t = Partner(p)
  BY PartnerFacts DEF HandshakeInv, Types
<1>4. t # p
  BY <1>2, <1>3, PartnerFacts DEF HandshakeInv, Types
<1>5. /\ data' = [q \in Procs |-> IF q \in posted[p] THEN [data[q] EXCEPT ![p] = Tail(@)] ELSE data[q]]
      /\ ctrl' = ctrl /\ k' = k /\ incoming' = incoming
      /\ \A q \in posted[p] : data[q][p] # <<>>
  BY DEF Wait
<1>6. /\ Told(p) /\ Told(p)' /\ Packed(p) /\ Packed(p)' /\ Answered(p) /\ Answered(p)'
      /\ Shipped(p) /\ Shipped(p)' /\ pc[p] # "split"
      /\ \A r : Heard(p, r) /\ Heard(p, r)'
  BY <1>1 DEF Told, Packed, Answered, Shipped, Heard, Exchange
<1>7. \A r : Pinged(p, r)' <=> Pinged(p, r)
  BY <1>1, <1>6, OwnSameParts DEF Pinged, Own, Types
\* The receives are those of the sources.
<1>8. \A r \in Procs : r \in posted[p] <=> Partner(r) = p
  <2>1. posted[p] = ToSet(Sources(p))
    BY <1>1 DEF HandshakeInv, LoopsInv
  <2>2. \A r \in Procs : (\E j \in DOMAIN Sources(p) : Sources(p)[j] = r) <=> Partner(r) = p
    BY <1>2, SourceFacts DEF HandshakeInv, Types
  <2> QED BY <2>1, <2>2 DEF ToSet
<1>9. \A r \in Procs : Partner(r) = p => Shipped(r) /\ Len(data[r][p]) = 1
  <2> SUFFICES ASSUME NEW r \in Procs, Partner(r) = p PROVE Shipped(r) /\ Len(data[r][p]) = 1
    OBVIOUS
  <2>1. Channel(r, p) /\ data[r][p] \in Seq(Seq(Dots)) /\ data[r][p] # <<>>
    BY <1>5, <1>8 DEF HandshakeInv, ChannelsInv, Types, MessagesType
  <2>2. Len(data[r][p]) # 0
    BY <2>1
  <2>3. DotsDue(r, p) /\ Len(data[r][p]) = 1
    BY <2>1, <2>2 DEF Channel, OneIf
  <2> QED BY <2>3 DEF DotsDue
\* Its partner has its count.
<1>10. Heard(t, p)
  <2>1. Pinged(t, p)
    BY <1>3, <1>6 DEF HandshakeInv, AnswersInv, Causes
  <2> QED BY <2>1 DEF Pinged, Heard, Packed, Answered
<1>11. PartsInv' /\ LoopsInv'
  <2>1. PartsInv'
    BY <1>1, OwnPartsInv DEF HandshakeInv, Types
  <2>2. Len(incoming'[p]) = Len(Sources(p))
    BY <1>5, <1>6 DEF HandshakeInv, LoopsInv
  <2>3. LoopsInv'
    BY <1>1, <2>2, OwnLoopsInv DEF HandshakeInv, Types
  <2> QED BY <2>1, <2>3
<1>12. AnswersInv'
  <2>1. \A r \in Procs \ {p} : Partner(r) = p =>
           (Heard(p, r)' => Told(r)) /\ (Answered(r) => Pinged(p, r)') /\ (pc'[p] = "split" => Shipped(r))
    BY <1>6, <1>7, <1>9 DEF HandshakeInv, AnswersInv, Causes
  <2>2. Pinged(Partner(p), p)
    BY <1>6 DEF HandshakeInv, AnswersInv, Causes
  <2> QED BY <1>1, <1>6, <2>1, <2>2, AllCauses
<1>13. ASSUME NEW r \in Procs \ {p} PROVE Channel(p, r)' /\ Counted(p, r)' /\ Channel(r, p)' /\ Counted(r, p)'
  <2>1. /\ Partner(p)' = Partner(p) /\ Partner(r)' = Partner(r) /\ Sources(p)' = Sources(p)
        /\ Sources(r)' = Sources(r)
        /\ pc'[r] = pc[r] /\ incoming'[r] = incoming[r] /\ CountOf(r)' = CountOf(r)
        /\ Told(r)' <=> Told(r)
        /\ Shipped(r)' <=> Shipped(r)
        /\ Answered(r)' <=> Answered(r)
        /\ Heard(r, p)' <=> Heard(r, p)
        /\ Pinged(r, p)' <=> Pinged(r, p)
    BY <1>1, OneOther
  <2>2. Channel(p, r) /\ Channel(r, p) /\ Counted(p, r) /\ Counted(r, p)
    BY DEF HandshakeInv, ChannelsInv, CountsInv
  <2>3. Channel(p, r)'
    <3>1. data'[p][r] = data[p][r]
      BY <1>5 DEF Types, MessagesType
    <3>2. ~CountDue(p, r) /\ ~CountDue(p, r)'
      BY <1>3, <1>10, <2>1 DEF CountDue
    <3>3. (PingDue(p, r)' <=> PingDue(p, r)) /\ (DotsDue(p, r)' <=> DotsDue(p, r))
      BY <1>6, <1>7, <2>1 DEF PingDue, DotsDue
    <3> QED BY <1>5, <2>2, <3>1, <3>2, <3>3 DEF Channel, OneIf
  <2>4. Counted(p, r)'
    BY <1>1 DEF Counted
  <2>5. Counted(r, p)'
    BY <1>5, <1>6, <2>1, <2>2 DEF Counted
  <2>6. /\ CountDue(r, p)' <=> CountDue(r, p)
        /\ PingDue(r, p)' <=> PingDue(r, p)
        /\ ~DotsDue(r, p)'
    BY <1>1, <1>6, <2>1 DEF CountDue, PingDue, DotsDue
  <2>7. Len(data'[r][p]) = 0
    <3>1. CASE Partner(r) = p
      <4>1. data'[r][p] = Tail(data[r][p]) /\ data[r][p] \in Seq(Seq(Dots)) /\ Len(data[r][p]) = 1
        BY <1>5, <1>8, <1>9, <3>1 DEF Types, MessagesType
      <4> QED BY <4>1
    <3>2. CASE Partner(r) # p
      <4>1. data'[r][p] = data[r][p]
        BY <1>5, <1>8, <3>2 DEF Types, MessagesType
      <4>2. ~DotsDue(r, p)
        BY <3>2 DEF DotsDue
      <4> QED BY <2>2, <4>1, <4>2 DEF Channel, OneIf
    <3> QED BY <3>1, <3>2
  <2>8. Channel(r, p)'
    BY <1>5, <2>1, <2>2, <2>6, <2>7 DEF Channel, OneIf
  <2> QED BY <2>3, <2>4, <2>5, <2>8
<1>14. \A r, s \in Procs : (r # p /\ s # p) \/ (r = p /\ s = p) => ctrl'[r][s] = ctrl[r][s] /\ data'[r][s] = data[r][s]
  <2>1. Partner(p) # p
    BY <1>3, <1>4
  <2> QED BY <1>5, <1>8, <2>1 DEF Types, MessagesType
<1>15. ChannelsInv' /\ CountsInv'
  BY <1>1, <1>13, <1>14, AllPairs
<1> QED BY <1>11, <1>12, <1>15 DEF HandshakeInv

-----------------------------------------------------------------------------
(* Steps of a whole partition, before and after the exchange.              *)
Quiet(q) == pc[q] \in {"level", "search", "tell", "done"}
Still(q) == /\ pc'[q] = pc[q] /\ k'[q] = k[q] /\ dots'[q] = dots[q] /\ mark'[q] = mark[q]
            /\ buf'[q] = buf[q] /\ incoming'[q] = incoming[q] /\ posted'[q] = posted[q]

LEMMA QuietFacts ==
    ASSUME NEW q, Quiet(q)
    PROVE  /\ ~Told(q) /\ ~Packed(q) /\ ~Answered(q) /\ ~Shipped(q) /\ pc[q] # "split"
           /\ \A r : ~Heard(q, r) /\ ~Pinged(q, r)
BY DEF Quiet, Told, Packed, Answered, Shipped, Heard, Pinged, Exchange

LEMMA QuietFactsNext ==
    ASSUME NEW q, Quiet(q)'
    PROVE  /\ ~Told(q)' /\ ~Packed(q)' /\ ~Answered(q)' /\ ~Shipped(q)' /\ pc'[q] # "split"
           /\ \A r : ~Heard(q, r)' /\ ~Pinged(q, r)'
BY DEF Quiet, Told, Packed, Answered, Shipped, Heard, Pinged, Exchange

LEMMA StillFacts ==
    ASSUME NEW q, Still(q), Sources(q)' = Sources(q), Partner(q)' = Partner(q),
           NEW r, Partner(r)' = Partner(r)
    PROVE  /\ Told(q)' <=> Told(q)
           /\ Answered(q)' <=> Answered(q)
           /\ Shipped(q)' <=> Shipped(q)
           /\ CountOf(q)' = CountOf(q)
           /\ Heard(q, r)' <=> Heard(q, r)
           /\ Pinged(q, r)' <=> Pinged(q, r)
<1>1. Leaves(q)' = Leaves(q)
  BY DEF Still, Leaves, MarkActive
<1> QED BY <1>1 DEF Still, Told, Packed, Answered, Shipped, CountOf, Heard, Pinged

LEMMA QuietStep ==
    ASSUME Types, HandshakeInv, part' = part, load' = load, ctrl' = ctrl, data' = data,
           incoming' = incoming,
           \A q \in Procs : Still(q) \/ (Quiet(q) /\ Quiet(q)')
    PROVE  ChannelsInv' /\ AnswersInv' /\ CountsInv'
<1>1. Procs' = Procs /\ \A q : Partner(q)' = Partner(q) /\ Sources(q)' = Sources(q)
  BY OwnSameParts DEF Types
<1>2. ASSUME NEW q \in Procs
      PROVE  /\ Told(q)' <=> Told(q)
             /\ Answered(q)' <=> Answered(q)
             /\ Shipped(q)' <=> Shipped(q)
             /\ pc'[q] = "split" <=> pc[q] = "split"
             /\ Told(q) => pc'[q] = pc[q] /\ CountOf(q)' = CountOf(q)
             /\ \A r : (Heard(q, r)' <=> Heard(q, r)) /\ (Pinged(q, r)' <=> Pinged(q, r))
  <2>1. CASE Still(q)
    BY <1>1, <2>1, StillFacts DEF Still
  <2>2. CASE Quiet(q) /\ Quiet(q)'
    BY <2>2, QuietFacts, QuietFactsNext
  <2> QED BY <2>1, <2>2
<1>3. ASSUME NEW q \in Procs, NEW r \in Procs PROVE Channel(q, r)' /\ Counted(q, r)'
  <2>1. Channel(q, r) /\ Counted(q, r)
    BY DEF HandshakeInv, ChannelsInv, CountsInv
  <2>2. /\ CountDue(q, r)' <=> CountDue(q, r)
        /\ PingDue(q, r)' <=> PingDue(q, r)
        /\ DotsDue(q, r)' <=> DotsDue(q, r)
    BY <1>1, <1>2 DEF CountDue, PingDue, DotsDue
  <2>3. CountDue(q, r) => CountOf(q)' = CountOf(q)
    BY <1>2 DEF CountDue
  <2>4. Channel(q, r)'
    BY <2>1, <2>2, <2>3 DEF Channel, OneIf
  <2>5. Counted(q, r)'
    <3>1. pc'[q] \in {"hear", "ping", "send"} => Told(q)
      BY <1>2 DEF Told, Exchange
    <3> QED BY <1>1, <1>2, <2>1, <3>1 DEF Counted
  <2> QED BY <2>4, <2>5
<1>4. ASSUME NEW q \in Procs PROVE Causes(q)'
  <2>1. PICK t \in Procs : t = Partner(q)
    BY PartnerFacts DEF HandshakeInv, Types
  <2>2. Causes(q)
    BY DEF HandshakeInv, AnswersInv
  <2> QED BY <1>1, <1>2, <2>1, <2>2 DEF Causes
<1> QED BY <1>1, <1>3, <1>4 DEF ChannelsInv, AnswersInv, CountsInv

LEMMA StartSearchKeeps ==
    ASSUME Types, HandshakeInv, NEW p \in Procs, StartSearch(p)
    PROVE  Types' /\ HandshakeInv'
<1>1. part' = part /\ load' = load /\ UNCHANGED <<ctrl, data, incoming, posted, k, dots, buf>>
  BY DEF StartSearch
<1>2. Procs' = Procs /\ NProcs' = NProcs /\ \A q : Part(q)' = Part(q) /\ Sources(q)' = Sources(q)
  BY <1>1, OwnSameParts DEF Types
<1>3. Part(p) \subseteq Procs /\ \A q \in Part(p) : pc[q] = "level" /\ part[q] = part[p] /\ part[p].lo # part[p].hi
  <2>1. p = part[p].lo /\ p # part[p].hi
    BY DEF StartSearch
  <2> QED BY <2>1, PartFacts, SamePart DEF StartSearch, Together, HandshakeInv, Types
<1>4. \A q \in Part(p) : pc'[q] = "search"
  BY <1>3 DEF StartSearch
<1>5. \A q \in Procs \ Part(p) : pc'[q] = pc[q] /\ mark'[q] = mark[q]
  BY DEF StartSearch
<1>6. Types'
  <2>1. pc' \in [Procs -> Phases] /\ DOMAIN mark' = Procs
    BY DEF StartSearch, Types, PartsType, Phases
  <2> QED BY <1>1, <1>2, <2>1 DEF Types, PartsType, DotsType, MessagesType
<1>7. \A q \in Procs : Still(q) \/ (Quiet(q) /\ Quiet(q)')
  BY <1>1, <1>3, <1>4, <1>5 DEF Still, Quiet
<1>8. ChannelsInv' /\ AnswersInv' /\ CountsInv'
  BY <1>1, <1>7, QuietStep
<1>9. PartsInv'
  BY <1>1, <1>2, <1>3, <1>5 DEF HandshakeInv, PartsInv
<1>10. LoopsInv'
  BY <1>1, <1>2, <1>4, <1>5 DEF HandshakeInv, LoopsInv, Packed
<1> QED BY <1>6, <1>8, <1>9, <1>10 DEF HandshakeInv

LEMMA BisectKeeps ==
    ASSUME Types, HandshakeInv, NEW p \in Procs, Bisect(p)
    PROVE  Types' /\ HandshakeInv'
<1>1. part' = part /\ load' = load /\ UNCHANGED <<ctrl, data, incoming, posted, dots, buf>>
  BY DEF Bisect
<1>2. Procs' = Procs /\ NProcs' = NProcs /\ \A q : Part(q)' = Part(q) /\ Sources(q)' = Sources(q)
  BY <1>1, OwnSameParts DEF Types
<1>3. Part(p) \subseteq Procs /\ \A q \in Part(p) : pc[q] = "search" /\ part[q] = part[p]
  BY PartFacts, SamePart DEF Bisect, Together, HandshakeInv, Types
<1>4. /\ \E half, s, S : mark' = Marks(p, half, s, S)
      /\ (\E half : FoundCut(p, half)) \/ (pc' = pc /\ k' = k)
  <2>1. PICK half : (\E s \in {0, 1} : Extend(p, s, half)) \/ JustRight(p, half)
    BY DEF Bisect
  <2>2. CASE JustRight(p, half)
    BY <2>2 DEF JustRight
  <2>3. CASE \E s \in {0, 1} : Extend(p, s, half)
    <3>1. PICK s \in {0, 1} : Extend(p, s, half)
      BY <2>3
    <3>2. PICK S : mark' = Marks(p, half, s, S)
      BY <3>1 DEF Extend
    <3>3. (\E v : FoundCut(p, v)) \/ (pc' = pc /\ k' = k)
      BY <3>1 DEF Extend
    <3> QED BY <3>2, <3>3
  <2> QED BY <2>1, <2>2, <2>3
<1>5. DOMAIN mark' = Procs /\ \A q \in Procs \ Part(p) : mark'[q] = mark[q]
  <2>1. PICK half, s, S : mark' = Marks(p, half, s, S)
    BY <1>4
  <2> QED BY <2>1 DEF Marks
<1>6. /\ pc' \in [Procs -> Phases] /\ k' \in [Procs -> Nat]
      /\ \A q \in Procs \ Part(p) : pc'[q] = pc[q] /\ k'[q] = k[q]
      /\ \A q \in Part(p) : pc'[q] = "search" \/ (pc'[q] = "tell" /\ k'[q] = 0)
  <2>1. CASE pc' = pc /\ k' = k
    BY <1>3, <2>1 DEF Types, PartsType, MessagesType
  <2>2. CASE \E half : FoundCut(p, half)
    <3>1. /\ pc' = [q \in Procs |-> IF q \in Part(p) THEN "tell" ELSE pc[q]]
          /\ k' = [q \in Procs |-> IF q \in Part(p) THEN 0 ELSE k[q]]
      BY <2>2 DEF FoundCut
    <3> QED BY <1>3, <3>1 DEF Types, PartsType, MessagesType, Phases, Exchange
  <2> QED BY <1>4, <2>1, <2>2
<1>7. Types'
  BY <1>1, <1>2, <1>5, <1>6 DEF Types, PartsType, DotsType, MessagesType
<1>8. \A q \in Procs : Still(q) \/ (Quiet(q) /\ Quiet(q)')
  BY <1>1, <1>3, <1>5, <1>6 DEF Still, Quiet
<1>9. ChannelsInv' /\ AnswersInv' /\ CountsInv'
  BY <1>1, <1>8, QuietStep
<1>10. PartsInv'
  BY <1>1, <1>2, <1>3, <1>6 DEF HandshakeInv, PartsInv, Exchange
<1>11. LoopsInv'
  <2> SUFFICES ASSUME NEW q \in Procs
               PROVE /\ pc'[q] \in {"tell", "hear"} => k'[q] = 0
                     /\ pc'[q] = "ping" => k'[q] <= Len(Sources(q))
                     /\ pc'[q] = "hear" => Len(incoming'[q]) <= Len(Sources(q))
                     /\ pc'[q] \in {"ping", "send", "wait", "split"} => Len(incoming'[q]) = Len(Sources(q))
                     /\ pc'[q] \in {"ping", "send", "wait"} => posted'[q] = ToSet(Sources(q))
    BY <1>2 DEF LoopsInv, Packed
  <2>1. CASE q \in Part(p)
    BY <1>6, <2>1
  <2>2. CASE q \notin Part(p)
    BY <1>1, <1>6, <2>2 DEF HandshakeInv, LoopsInv, Packed
  <2> QED BY <2>1, <2>2
<1> QED BY <1>7, <1>9, <1>10, <1>11 DEF HandshakeInv

LEMMA InvertKeeps ==
    ASSUME Types, HandshakeInv, Invert
    PROVE  Types' /\ HandshakeInv'
<1>1. /\ part' = part /\ load' = load
      /\ UNCHANGED <<ctrl, data, incoming, posted, k, dots, mark, buf>>
      /\ pc' = [q \in Procs |-> "done"] /\ \A q \in Procs : pc[q] = "level"
  BY DEF Invert, Final
<1>2. Procs' = Procs /\ NProcs' = NProcs /\ \A q : Part(q)' = Part(q) /\ Sources(q)' = Sources(q)
  BY <1>1, OwnSameParts DEF Types
<1>3. Types'
  BY <1>1, <1>2 DEF Types, PartsType, DotsType, MessagesType, Phases
<1>4. \A q \in Procs : Quiet(q) /\ Quiet(q)'
  BY <1>1 DEF Quiet
<1>5. ChannelsInv' /\ AnswersInv' /\ CountsInv'
  BY <1>1, <1>4, QuietStep
<1>6. PartsInv'
  BY <1>1, <1>2 DEF HandshakeInv, PartsInv, Exchange
<1>7. LoopsInv'
  BY <1>1, <1>2 DEF HandshakeInv, LoopsInv, Packed
<1> QED BY <1>3, <1>5, <1>6, <1>7 DEF HandshakeInv

\* Also a partition of one process keeps its partner.
LEMMA PartnerWithin ==
    ASSUME NEW w \in [lo : Int, hi : Int], w.lo <= w.hi, NEW p \in w.lo .. w.hi
    PROVE  PartnerIn(w, p) \in w.lo .. w.hi
<1>1. CASE w.lo # w.hi
  <2>1. Partition(w)
    BY <1>1 DEF Partition
  <2> QED BY <2>1, PartnerAcross
<1>2. CASE w.lo = w.hi
  <2>1. p = w.lo /\ p \in Int
    BY <1>2
  <2>2. Half(w) = 1
    BY <1>2, <2>1 DEF Half
  <2>3. PartnerIn(w, p) = p
    BY <1>2, <2>1, <2>2 DEF PartnerIn, Opposite, Mid
  <2> QED BY <2>3
<1> QED BY <1>1, <1>2

LEMMA SplitKeeps ==
    ASSUME Types, HandshakeInv, NEW p \in Procs, Split(p)
    PROVE  Types' /\ HandshakeInv'
<1>1. load' = load /\ UNCHANGED <<ctrl, data, incoming, posted, k, dots, mark, buf>>
  BY DEF Split
<1>2. Procs' = Procs /\ NProcs' = NProcs
  BY <1>1 DEF Procs, NProcs
<1>3. /\ Part(p) \subseteq Procs /\ p \in Part(p)
      /\ \A q \in Part(p) : pc[q] = "split" /\ part[q] = part[p] /\ Part(q) = Part(p)
  BY PartFacts, SamePart DEF Split, Together, HandshakeInv, Types
<1>4. PICK M : M = Part(p)
  OBVIOUS
<1>5. /\ pc' \in [Procs -> Phases]
      /\ \A q \in Procs \ M : pc'[q] = pc[q] /\ part'[q] = part[q]
      /\ \A q \in M : pc'[q] = "level"
  BY <1>3, <1>4 DEF Split, Types, PartsType, Phases
<1>6. PICK w \in [lo : Procs, hi : Procs] : w = part[p]
  BY DEF Types, PartsType
<1>7. /\ Procs \subseteq Int /\ w.lo \in Int /\ w.hi \in Int /\ M = w.lo .. w.hi /\ w.lo < w.hi
      /\ Partition(w) /\ p = w.lo
  <2>1. pc[p] \in Exchange
    BY <1>3 DEF Exchange
  <2>2. part[p].lo # part[p].hi /\ p = part[p].lo
    BY <2>1 DEF HandshakeInv, PartsInv, Split
  <2>3. Partition(part[p]) /\ Procs \subseteq Int
    BY <2>2, PartFacts DEF HandshakeInv, Types
  <2> QED BY <1>4, <1>6, <2>2, <2>3 DEF Part, Partition
<1>8. PICK m : m = Mid(w)
  OBVIOUS
<1>9. m \in w.lo + 1 .. w.hi
  BY <1>7, <1>8, HalfBounds
<1>10. PICK low : low = [w EXCEPT !.hi = m - 1]
  OBVIOUS
<1>11. PICK high : high = [w EXCEPT !.lo = m]
  OBVIOUS
<1>12. /\ low.lo = w.lo /\ low.hi = m - 1 /\ high.lo = m /\ high.hi = w.hi
       /\ low \in [lo : Procs, hi : Procs] /\ high \in [lo : Procs, hi : Procs]
       /\ low \in [lo : Int, hi : Int] /\ high \in [lo : Int, hi : Int]
  <2>1. m \in M /\ m - 1 \in M /\ M \subseteq Procs
    BY <1>3, <1>4, <1>7, <1>9
  <2> QED BY <1>7, <1>10, <1>11, <2>1
<1>13. \A q \in M : part'[q] = IF q < m THEN low ELSE high
  <2>1. part' = [q \in Procs |-> IF q \notin Part(p) THEN part[q]
                                 ELSE IF q < Mid(part[p]) THEN [part[q] EXCEPT !.hi = Mid(part[p]) - 1]
                                 ELSE [part[q] EXCEPT !.lo = Mid(part[p])]]
    BY DEF Split
  <2> QED BY <1>3, <1>4, <1>6, <1>8, <1>10, <1>11, <2>1
<1>14. part' \in [Procs -> [lo : Procs, hi : Procs]]
  <2>1. DOMAIN part' = Procs /\ \E f : part' = [q \in Procs |-> f[q]]
    <3>1. part' = [q \in Procs |-> part'[q]]
      BY DEF Split
    <3> QED BY <3>1
  <2>2. \A q \in Procs : part'[q] \in [lo : Procs, hi : Procs]
    BY <1>5, <1>12, <1>13 DEF Types, PartsType
  <2> QED BY <2>1, <2>2
<1>15. Types'
  BY <1>1, <1>2, <1>5, <1>14 DEF Types, PartsType, DotsType, MessagesType
\* The processes of the halves stay within the partition, the others where
\* they were.
<1>16. \A q \in M : q \in Part(q)' /\ Part(q)' \subseteq M /\ Partner(q)' \in M
  <2> SUFFICES ASSUME NEW q \in M
               PROVE  q \in part'[q].lo .. part'[q].hi /\ part'[q].lo .. part'[q].hi \subseteq M
                      /\ PartnerIn(part'[q], q) \in M
    BY DEF Part, Partner
  <2>1. PICK v : v = part'[q]
    OBVIOUS
  <2>2. v \in [lo : Int, hi : Int] /\ q \in v.lo .. v.hi /\ v.lo <= v.hi /\ v.lo .. v.hi \subseteq M
    BY <1>7, <1>9, <1>12, <1>13, <2>1
  <2> QED BY <2>1, <2>2, PartnerWithin
<1>17. \A q \in Procs \ M : /\ Part(q)' = Part(q) /\ Partner(q)' = Partner(q) /\ Sources(q)' = Sources(q)
                            /\ Partner(q) \in Procs \ M /\ Part(q) \cap M = {}
                            /\ \A j \in DOMAIN Sources(q) : Sources(q)[j] \notin M
  <2> SUFFICES ASSUME NEW q \in Procs \ M
               PROVE /\ Part(q)' = Part(q) /\ Partner(q)' = Partner(q) /\ Sources(q)' = Sources(q)
                     /\ Partner(q) \in Procs \ M /\ Part(q) \cap M = {}
                     /\ \A j \in DOMAIN Sources(q) : Sources(q)[j] \notin M
    OBVIOUS
  <2>1. part'[q] = part[q]
    BY <1>5
  <2>2. Part(q) \cap M = {}
    <3> SUFFICES ASSUME NEW r \in Part(q), r \in M PROVE FALSE
      OBVIOUS
    <3>1. Part(r) = Part(q) /\ q \in Part(q)
      BY PartFacts, SamePart DEF HandshakeInv, Types
    <3> QED BY <1>3, <1>4, <3>1
  <2>3. Partner(q) \in Part(q) /\ Partner(q) \in Procs /\ \A j \in DOMAIN Sources(q) : Sources(q)[j] \in Part(q)
    BY PartnerFacts, SourceFacts DEF HandshakeInv, Types
  <2> QED BY <2>1, <2>2, <2>3 DEF Part, Partner, Sources
<1>18. \A q \in M : Partner(q) \in M
  BY <1>3, <1>4, PartnerFacts DEF HandshakeInv, Types
<1>19. \A q \in M : Quiet(q)'
  BY <1>5 DEF Quiet
<1>20. \A q \in Procs \ M : Still(q)
  BY <1>1, <1>5 DEF Still
<1>21. PartsInv'
  <2>1. \A q \in Procs : q \in Part(q)'
    BY <1>16, <1>17 DEF HandshakeInv, PartsInv
  <2>2. ASSUME NEW q \in Procs, NEW r \in Part(q)' PROVE part'[r] = part'[q]
    <3>1. CASE q \in M
      <4>1. r \in M /\ r \in part'[q].lo .. part'[q].hi
        BY <1>16, <2>2, <3>1 DEF Part
      <4> QED BY <1>7, <1>9, <1>12, <1>13, <3>1, <4>1
    <3>2. CASE q \notin M
      <4>1. r \in Part(q) /\ r \in Procs \ M
        BY <1>17, <2>2, <3>2, PartFacts DEF HandshakeInv, Types
      <4> QED BY <1>5, <3>2, <4>1 DEF HandshakeInv, PartsInv
    <3> QED BY <3>1, <3>2
  <2>3. \A q \in Procs : pc'[q] \in Exchange \union {"search"} => part'[q].lo # part'[q].hi
    BY <1>5 DEF HandshakeInv, PartsInv, Exchange
  <2> QED BY <1>2, <2>1, <2>2, <2>3 DEF PartsInv
<1>22. LoopsInv'
  <2> SUFFICES ASSUME NEW q \in Procs
               PROVE /\ pc'[q] \in {"tell", "hear"} => k'[q] = 0
                     /\ pc'[q] = "ping" => k'[q] <= Len(Sources(q)')
                     /\ pc'[q] = "hear" => Len(incoming'[q]) <= Len(Sources(q)')
                     /\ pc'[q] \in {"ping", "send", "wait", "split"} => Len(incoming'[q]) = Len(Sources(q)')
                     /\ pc'[q] \in {"ping", "send", "wait"} => posted'[q] = ToSet(Sources(q)')
    BY <1>2 DEF LoopsInv, Packed, ToSet
  <2>1. CASE q \in M
    BY <1>5, <2>1
  <2>2. CASE q \notin M
    BY <1>1, <1>5, <1>17, <2>2 DEF HandshakeInv, LoopsInv, Packed
  <2> QED BY <2>1, <2>2
<1>23. ASSUME NEW q \in Procs PROVE Causes(q)'
  <2>1. CASE q \in M
    <3>1. PICK t : t = Partner(q)'
      OBVIOUS
    <3>2. Quiet(q)' /\ Quiet(t)'
      BY <1>16, <1>19, <2>1, <3>1
    <3> QED BY <3>1, <3>2, QuietFactsNext DEF Causes
  <2>2. CASE q \notin M
    <3>1. PICK t \in Procs \ M : t = Partner(q)
      BY <1>17, <2>2
    <3>2. Still(q) /\ Still(t)
      BY <1>20, <2>2
    <3>3. /\ Told(q)' <=> Told(q)
          /\ Answered(q)' <=> Answered(q)
          /\ Shipped(q)' <=> Shipped(q)
          /\ Heard(t, q)' <=> Heard(t, q)
          /\ Pinged(t, q)' <=> Pinged(t, q)
      BY <1>17, <2>2, <3>2, StillFacts
    <3>4. Causes(q)
      BY DEF HandshakeInv, AnswersInv
    <3> QED BY <1>17, <2>2, <3>1, <3>2, <3>3, <3>4 DEF Causes, Still
  <2> QED BY <2>1, <2>2
\* Nothing is on the way to or from a process of the partition.
<1>24. \A q, r \in Procs : q \in M \/ r \in M => Len(ctrl[q][r]) = 0 /\ Len(data[q][r]) = 0
  <2> SUFFICES ASSUME NEW q \in Procs, NEW r \in Procs, q \in M \/ r \in M
               PROVE  Len(ctrl[q][r]) = 0 /\ Len(data[q][r]) = 0
    OBVIOUS
  <2>1. Partner(q) = r => q \in M /\ r \in M
    BY <1>17, <1>18
  <2>2. Partner(r) = q => q \in M /\ r \in M
    BY <1>17, <1>18
  <2>3. \A s \in M : pc[s] = "split" /\ Heard(s, q) /\ Answered(s)
    BY <1>3, <1>4 DEF Heard, Packed, Answered
  <2>4. ~CountDue(q, r) /\ ~PingDue(q, r) /\ ~DotsDue(q, r)
    BY <2>1, <2>2, <2>3 DEF CountDue, PingDue, DotsDue
  <2>5. Channel(q, r)
    BY DEF HandshakeInv, ChannelsInv
  <2> QED BY <2>4, <2>5 DEF Channel, OneIf
<1>25. ASSUME NEW q \in Procs, NEW r \in Procs PROVE Channel(q, r)' /\ Counted(q, r)'
  <2>1. CASE q \in M \/ r \in M
    <3>1. Partner(q)' = r => q \in M
      BY <1>17, <2>1
    <3>2. Partner(r)' = q => q \in M
      BY <1>16, <1>17, <2>1
    <3>3. q \in M => ~Told(q)' /\ ~Shipped(q)' /\ ~Pinged(q, r)' /\ pc'[q] = "level"
      BY <1>5, <1>19, QuietFactsNext
    <3>4. ~CountDue(q, r)' /\ ~PingDue(q, r)' /\ ~DotsDue(q, r)'
      BY <3>1, <3>2, <3>3 DEF CountDue, PingDue, DotsDue
    <3>5. Len(ctrl'[q][r]) = 0 /\ Len(data'[q][r]) = 0
      BY <1>1, <1>24, <2>1
    <3>6. Counted(q, r)'
      BY <3>1, <3>3 DEF Counted
    <3> QED BY <3>4, <3>5, <3>6 DEF Channel, OneIf
  <2>2. CASE q \notin M /\ r \notin M
    <3>1. Still(q) /\ Still(r)
      BY <1>20, <2>2
    <3>2. Partner(q)' = Partner(q) /\ Partner(r)' = Partner(r) /\ Sources(q)' = Sources(q) /\ Sources(r)' = Sources(r)
      BY <1>17, <2>2
    <3>3. /\ Told(q)' <=> Told(q)
          /\ Shipped(q)' <=> Shipped(q)
          /\ CountOf(q)' = CountOf(q)
          /\ Pinged(q, r)' <=> Pinged(q, r)
      BY <3>1, <3>2, StillFacts
    <3>4. (Heard(r, q)' <=> Heard(r, q)) /\ (Answered(r)' <=> Answered(r))
      BY <3>1, <3>2, StillFacts
    <3>5. Channel(q, r) /\ Counted(q, r)
      BY DEF HandshakeInv, ChannelsInv, CountsInv
    <3>6. /\ CountDue(q, r)' <=> CountDue(q, r)
          /\ PingDue(q, r)' <=> PingDue(q, r)
          /\ DotsDue(q, r)' <=> DotsDue(q, r)
      BY <3>1, <3>2, <3>3, <3>4 DEF CountDue, PingDue, DotsDue, Still
    <3>7. Channel(q, r)'
      BY <1>1, <3>3, <3>5, <3>6 DEF Channel, OneIf
    <3>8. Counted(q, r)'
      BY <1>1, <3>1, <3>2, <3>3, <3>4, <3>5 DEF Counted, Still
    <3> QED BY <3>7, <3>8
  <2> QED BY <2>1, <2>2
<1> QED BY <1>2, <1>15, <1>21, <1>22, <1>23, <1>25 DEF HandshakeInv, AnswersInv, ChannelsInv, CountsInv

LEMMA HandshakeInit == Init => Types /\ HandshakeInv
<1> SUFFICES ASSUME Init PROVE Types /\ HandshakeInv
  OBVIOUS
<1>1. load \in Seq(Seq([x : Int \X Int, wt : Nat])) /\ load # <<>>
  <2>1. load \in Seq(Seq([x : Int \X Int, wt : Nat])) /\ \E q \in DOMAIN load : load[q] # <<>>
    BY LoadsAssumption DEF Init
  <2> QED BY <2>1
<1>2. NProcs \in Nat \ {0} /\ Len(load) \in Nat /\ DOMAIN load = 1 .. Len(load)
  BY <1>1 DEF NProcs
<1>3. Procs = 0 .. NProcs - 1 /\ 0 \in Procs /\ NProcs - 1 \in Procs /\ Procs \subseteq Int
  BY <1>2 DEF Procs
<1>4. /\ pc = [p \in Procs |-> "level"] /\ part = [p \in Procs |-> [lo |-> 0, hi |-> NProcs - 1]]
      /\ dots = [p \in Procs |-> MyDots(p)] /\ DOMAIN mark = Procs
      /\ k = [p \in Procs |-> 0] /\ incoming = [p \in Procs |-> <<>>]
      /\ posted = [p \in Procs |-> {}] /\ buf = [p \in Procs |-> <<>>]
      /\ ctrl = [p \in Procs |-> [q \in Procs |-> <<>>]] /\ data = [p \in Procs |-> [q \in Procs |-> <<>>]]
  BY DEF Init
<1>5. \A p \in Procs : MyDots(p) \in Seq(Dots)
  <2> SUFFICES ASSUME NEW p \in Procs PROVE MyDots(p) \in Seq(Dots)
    OBVIOUS
  <2>1. p + 1 \in DOMAIN load /\ p \in Int
    BY <1>2, <1>3 DEF NProcs
  <2>2. PICK l \in Seq([x : Int \X Int, wt : Nat]) : l = load[p + 1]
    BY <1>1, <2>1
  <2>3. DOMAIN l = 1 .. Len(l) /\ Len(l) \in Nat
    OBVIOUS
  <2>4. \A i \in 1 .. Len(l) : l[i] \in [x : Int \X Int, wt : Nat]
    <3>1. PICK D : D = [x : Int \X Int, wt : Nat]
      OBVIOUS
    <3>2. l \in Seq(D)
      BY <3>1
    <3>3. \A i \in 1 .. Len(l) : l[i] \in D
      BY <3>2
    <3> QED BY <3>1, <3>3
  <2>5. MyDots(p) = [i \in 1 .. Len(l) |-> [proc |-> p, index |-> i, x |-> l[i].x, wt |-> l[i].wt]]
    BY <2>2, <2>3 DEF MyDots
  <2>6. \A i \in 1 .. Len(l) : [proc |-> p, index |-> i, x |-> l[i].x, wt |-> l[i].wt] \in Dots
    <3> SUFFICES ASSUME NEW i \in 1 .. Len(l)
                 PROVE  [proc |-> p, index |-> i, x |-> l[i].x, wt |-> l[i].wt] \in Dots
      OBVIOUS
    <3>1. l[i].x \in Int \X Int /\ l[i].wt \in Nat /\ i \in Int
      BY <2>3, <2>4
    <3> QED BY <2>1, <3>1 DEF Dots
  <2> QED BY <2>3, <2>5, <2>6
<1>6. <<>> \in Seq(Nat) /\ <<>> \in Seq(Seq(Dots)) /\ <<>> \in Seq(Dots)
  OBVIOUS
<1>7. Types
  <2>1. PartsType
    BY <1>1, <1>2, <1>3, <1>4 DEF PartsType, Phases
  <2>2. DotsType
    BY <1>4, <1>5, <1>6 DEF DotsType
  <2>3. MessagesType
    BY <1>4, <1>6 DEF MessagesType
  <2> QED BY <2>1, <2>2, <2>3 DEF Types
<1>8. PartsInv
  BY <1>3, <1>4 DEF PartsInv, Part, Exchange
<1>9. \A p \in Procs : Quiet(p) /\ pc[p] = "level"
  BY <1>4 DEF Quiet
<1>10. LoopsInv
  BY <1>4, <1>9 DEF LoopsInv, Packed
<1>11. AnswersInv
  <2> SUFFICES ASSUME NEW p \in Procs PROVE Causes(p)
    BY DEF AnswersInv
  <2>1. PICK t \in Procs : t = Partner(p)
    BY <1>7, <1>8, PartnerFacts DEF Types
  <2> QED BY <1>9, <2>1, QuietFacts DEF Causes
<1>12. \A p, q \in Procs : Channel(p, q) /\ Counted(p, q)
  <2> SUFFICES ASSUME NEW p \in Procs, NEW q \in Procs PROVE Channel(p, q) /\ Counted(p, q)
    OBVIOUS
  <2>1. ~CountDue(p, q) /\ ~PingDue(p, q) /\ ~DotsDue(p, q)
    BY <1>9, QuietFacts DEF CountDue, PingDue, DotsDue
  <2>2. Len(ctrl[p][q]) = 0 /\ Len(data[p][q]) = 0
    BY <1>4
  <2>3. Counted(p, q)
    BY <1>9 DEF Counted
  <2> QED BY <2>1, <2>2, <2>3 DEF Channel, OneIf
<1> QED BY <1>7, <1>8, <1>10, <1>11, <1>12 DEF HandshakeInv, ChannelsInv, CountsInv

LEMMA HandshakeStep == Types /\ HandshakeInv /\ [Next]_vars => Types' /\ HandshakeInv'
<1> SUFFICES ASSUME Types, HandshakeInv, [Next]_vars PROVE Types' /\ HandshakeInv'
  OBVIOUS
<1>1. ASSUME NEW p \in Procs, Exchanges(p) PROVE Types' /\ HandshakeInv'
  <2>1. Types'
    BY <1>1, ExchangeTypes DEF HandshakeInv
  <2>2. HandshakeInv'
    BY <1>1, TellKeeps, HearKeeps, PostKeeps, PingKeeps, AwaitKeeps, SendDotsKeeps, WaitKeeps DEF Exchanges
  <2> QED BY <2>1, <2>2
<1>2. ASSUME NEW p \in Procs, StartSearch(p) \/ Bisect(p) \/ Split(p) PROVE Types' /\ HandshakeInv'
  BY <1>2, StartSearchKeeps, BisectKeeps, SplitKeeps
<1>3. CASE Invert
  BY <1>3, InvertKeeps
<1>4. CASE UNCHANGED vars
  <2>1. Types'
    BY <1>4 DEF vars, Types, PartsType, DotsType, MessagesType, Procs, NProcs
  <2>2. part' = part /\ load' = load /\ ctrl' = ctrl /\ data' = data /\ incoming' = incoming
        /\ \A q \in Procs : Still(q)
    BY <1>4 DEF vars, Still
  <2>3. ChannelsInv' /\ AnswersInv' /\ CountsInv'
    BY <2>2, QuietStep
  <2>4. PartsInv' /\ LoopsInv'
    <3>1. Procs' = Procs /\ \A q : Part(q)' = Part(q) /\ Sources(q)' = Sources(q)
      BY <2>2, OwnSameParts DEF Types
    <3> QED BY <1>4, <3>1 DEF vars, HandshakeInv, PartsInv, LoopsInv, Packed
  <2> QED BY <2>1, <2>3, <2>4 DEF HandshakeInv
<1>5. Next \/ UNCHANGED vars
  OBVIOUS
<1> QED BY <1>1, <1>2, <1>3, <1>4, <1>5 DEF Next, Exchanges

(* The answer that releases a sender is of the level of its dots: then its *)
(* partner has taken its count and waits for as many dots.                 *)
LEMMA AnswerFromHandshake == Types /\ HandshakeInv => AnswerIsAwaited
<1> SUFFICES ASSUME Types, HandshakeInv, NEW p \in Procs, pc[p] = "send"
             PROVE  /\ p \in posted[Partner(p)] /\ data[p][Partner(p)] = <<>>
                    /\ \E j \in DOMAIN Sources(Partner(p)) :
                          Sources(Partner(p))[j] = p /\ incoming[Partner(p)][j] = Len(buf[p])
  BY DEF AnswerIsAwaited
<1>1. PICK t \in Procs : t = Partner(p)
  BY PartnerFacts DEF HandshakeInv, Types
<1>2. Answered(p) /\ ~Shipped(p) /\ CountOf(p) = Len(buf[p])
  BY DEF Answered, Shipped, CountOf
<1>3. Pinged(t, p) /\ pc[t] # "split"
  BY <1>1, <1>2 DEF HandshakeInv, AnswersInv, Causes
<1>4. pc[t] \in {"ping", "send", "wait"} /\ Heard(t, p)
  BY <1>3 DEF Pinged, Answered, Heard, Packed
<1>5. posted[t] = ToSet(Sources(t)) /\ part[t].lo # part[t].hi
  BY <1>4 DEF HandshakeInv, LoopsInv, PartsInv, Exchange
<1>6. PICK j \in DOMAIN Sources(t) : Sources(t)[j] = p
  BY <1>1, <1>5, SourceFacts DEF HandshakeInv, Types
<1>7. p \in posted[t]
  BY <1>5, <1>6 DEF ToSet
<1>8. data[p][t] = <<>>
  <2>1. Len(data[p][t]) = 0 /\ data[p][t] \in Seq(Seq(Dots))
    BY <1>2 DEF HandshakeInv, ChannelsInv, Channel, OneIf, DotsDue, Types, MessagesType
  <2> QED BY <2>1
<1>9. incoming[t][j] = Len(buf[p])
  BY <1>1, <1>2, <1>4, <1>6 DEF HandshakeInv, CountsInv, Counted
<1> QED BY <1>1, <1>6, <1>7, <1>8, <1>9

(* rcb.cpp:487-562: the handshake makes the ready sends legal, for any     *)
(* number of processes, any dots and any cuts.                             *)
THEOREM ReadySendsAreAwaited == Spec => []AnswerIsAwaited
<1>1. Spec => [](Types /\ HandshakeInv)
  BY HandshakeInit, HandshakeStep, PTL DEF Spec
<1> QED BY <1>1, AnswerFromHandshake, PTL

-----------------------------------------------------------------------------
(* Sums over finite sets.                                                  *)
LEMMA LeastOfFinite ==
    ASSUME NEW S, IsFiniteSet(S), S \subseteq Int, S # {}
    PROVE  \E i \in S : \A j \in S : i <= j
<1> DEFINE rank == [i \in S |-> Cardinality({h \in S : h <= i})]
           n == Cardinality(S)
<1>1. n \in Nat /\ n # 0 /\ IsFiniteSet(1 .. n) /\ Cardinality(1 .. n) = n
  <2>1. n \in Nat /\ n # 0
    BY FS_CardinalityType, FS_EmptySet
  <2>2. IsFiniteSet(1 .. n) /\ Cardinality(1 .. n) = IF 1 > n THEN 0 ELSE n - 1 + 1
    BY <2>1, FS_Interval
  <2> QED BY <2>1, <2>2
<1>2. ASSUME NEW i \in S
      PROVE  IsFiniteSet({h \in S : h <= i}) /\ Cardinality({h \in S : h <= i}) \in 1 .. n
  <2> DEFINE T == {h \in S : h <= i}
  <2>1. IsFiniteSet(T) /\ Cardinality(T) <= n
    BY FS_Subset
  <2>2. i \in T
    OBVIOUS
  <2>3. Cardinality(T) \in Nat /\ Cardinality(T) # 0
    BY <2>1, <2>2, FS_CardinalityType, FS_EmptySet
  <2> HIDE DEF T
  <2>4. Cardinality(T) \in 1 .. n
    BY <1>1, <2>1, <2>3
  <2> QED BY <2>1, <2>4 DEF T
<1>3. ASSUME NEW i \in S, NEW j \in S, i < j
      PROVE  Cardinality({h \in S : h <= i}) # Cardinality({h \in S : h <= j})
  <2> DEFINE T == {h \in S : h <= i}
             U == {h \in S : h <= j}
  <2>1. T \subseteq U /\ j \in U /\ j \notin T
    <3>1. \A h \in S : h <= i => h <= j
      BY <1>3
    <3>2. j <= j /\ ~(j <= i)
      BY <1>3
    <3> QED BY <3>1, <3>2
  <2>2. IsFiniteSet(U)
    BY <1>2
  <2> HIDE DEF T, U
  <2>3. Cardinality(T) # Cardinality(U)
    BY <2>1, <2>2, FS_Subset
  <2> QED BY <2>3 DEF T, U
<1>4. \A i, j \in S : Cardinality({h \in S : h <= i}) = Cardinality({h \in S : h <= j}) => i = j
  <2> SUFFICES ASSUME NEW i \in S, NEW j \in S, i # j
               PROVE  Cardinality({h \in S : h <= i}) # Cardinality({h \in S : h <= j})
    OBVIOUS
  <2>1. i < j \/ j < i
    OBVIOUS
  <2> QED BY <1>3, <2>1
<1>5. rank \in Injection(S, 1 .. n)
  BY <1>2, <1>4 DEF Injection, IsInjective
<1>6. rank \in Surjection(S, 1 .. n)
  <2> HIDE DEF rank
  <2> QED BY <1>1, <1>5, FS_Injection
<1>7. PICK i \in S : Cardinality({h \in S : h <= i}) = 1
  <2>1. 1 \in 1 .. n
    BY <1>1
  <2>2. \E i \in S : rank[i] = 1
    <3> HIDE DEF rank, n
    <3> QED BY <1>6, <2>1 DEF Surjection
  <2> QED BY <2>2
<1>8. ASSUME NEW j \in S PROVE i <= j
  <2>1. Cardinality({h \in S : h <= j}) \in 1 .. n
    BY <1>2
  <2>2. CASE j < i
    <3> DEFINE T == {h \in S : h <= j}
               U == {h \in S : h <= i}
    <3>1. T \subseteq U /\ i \in U /\ i \notin T /\ j \in T
      <4>1. \A h \in S : h <= j => h <= i
        BY <2>2
      <4>2. i <= i /\ ~(i <= j) /\ j <= j
        BY <2>2
      <4> QED BY <4>1, <4>2
    <3>2. IsFiniteSet(U) /\ IsFiniteSet(T) /\ Cardinality(U) = 1
      BY <1>2, <1>7
    <3> HIDE DEF T, U
    <3>3. Cardinality(T) < 1
      <4>1. Cardinality(T) <= Cardinality(U) /\ (Cardinality(T) = Cardinality(U) => T = U)
        BY <3>1, <3>2, FS_Subset
      <4>2. T # U /\ Cardinality(T) \in Nat
        BY <3>1, <3>2, FS_CardinalityType
      <4> QED BY <3>2, <4>1, <4>2
    <3>4. Cardinality(T) \in Nat /\ Cardinality(T) # 0
      BY <3>1, <3>2, FS_CardinalityType, FS_EmptySet
    <3> QED BY <3>3, <3>4
  <2> QED BY <2>2
<1> QED BY <1>7, <1>8

LEMMA GreatestOfFinite ==
    ASSUME NEW S, IsFiniteSet(S), S \subseteq Int, S # {}
    PROVE  \E i \in S : \A j \in S : i >= j
<1> DEFINE N == {-i : i \in S}
           h == [i \in S |-> -i]
<1>1. N \subseteq Int /\ N # {}
  <2>1. PICK i \in S : TRUE
    OBVIOUS
  <2>2. -i \in N
    OBVIOUS
  <2> QED BY <2>2
<1>5. h \in Surjection(S, N)
  BY DEF Surjection
<1>2. PICK n \in N : \A j \in N : n <= j
  <2> HIDE DEF h, N
  <2>1. IsFiniteSet(N)
    BY <1>5, FS_Surjection
  <2> QED BY <1>1, <2>1, LeastOfFinite
<1>3. PICK i \in S : n = -i
  OBVIOUS
<1>4. \A j \in S : i >= j
  <2> SUFFICES ASSUME NEW j \in S PROVE i >= j
    OBVIOUS
  <2>1. n <= -j
    BY <1>2
  <2> QED BY <1>3, <2>1
<1> QED BY <1>4

LEMMA LeastNat ==
    ASSUME NEW S, S \subseteq Nat, S # {}
    PROVE  \E i \in S : \A j \in S : i <= j
<1>1. PICK b \in S : TRUE
  OBVIOUS
<1> DEFINE T == S \cap (0 .. b)
<1>2. IsFiniteSet(T)
  <2>1. IsFiniteSet(0 .. b)
    BY FS_Interval
  <2> QED BY <2>1, FS_Subset
<1>3. b \in T /\ T \subseteq Int
  OBVIOUS
<1> HIDE DEF T
<1>4. PICK i \in T : \A j \in T : i <= j
  BY <1>2, <1>3, LeastOfFinite
<1>5. ASSUME NEW j \in S PROVE i <= j
  <2>1. CASE j <= b
    BY <1>4, <2>1 DEF T
  <2>2. CASE ~(j <= b)
    BY <1>4, <2>2 DEF T
  <2> QED BY <2>1, <2>2
<1> QED BY <1>4, <1>5 DEF T

LEMMA SmallestSet ==
    ASSUME NEW S, IsFiniteSet(S), NEW Bad, Bad \subseteq SUBSET S, Bad # {}
    PROVE  \E T \in Bad : /\ IsFiniteSet(T)
                          /\ \A x \in T : T \ {x} \notin Bad
<1> DEFINE Sizes == {Cardinality(T) : T \in Bad}
<1>1. \A T \in Bad : IsFiniteSet(T) /\ Cardinality(T) \in Nat
  BY FS_Subset, FS_CardinalityType
<1>2. Sizes \subseteq Nat /\ Sizes # {}
  BY <1>1
<1> HIDE DEF Sizes
<1>3. PICK n \in Sizes : \A m \in Sizes : n <= m
  BY <1>2, LeastNat
<1>4. PICK T \in Bad : Cardinality(T) = n
  BY DEF Sizes
<1>5. ASSUME NEW x \in T PROVE T \ {x} \notin Bad
  <2>1. Cardinality(T \ {x}) = Cardinality(T) - 1
    BY <1>1, FS_RemoveElement
  <2>2. CASE T \ {x} \in Bad
    <3>1. Cardinality(T \ {x}) \in Sizes
      BY <2>2 DEF Sizes
    <3> QED BY <1>2, <1>3, <1>4, <2>1, <3>1
  <2> QED BY <2>2
<1> QED BY <1>1, <1>4, <1>5

-----------------------------------------------------------------------------
Measure(m, S, f) ==
  /\ m \in [SUBSET S -> Int] /\ m[{}] = 0
  /\ \A T \in SUBSET S : \A x \in T : m[T] = f[x] + m[T \ {x}]

LEMMA MeasureExists ==
    ASSUME NEW S, IsFiniteSet(S), NEW f, \A x \in S : f[x] \in Int
    PROVE  \E m : Measure(m, S, f)
<1> DEFINE Bad == {T \in SUBSET S : ~\E m : Measure(m, T, f)}
<1>1. SUFFICES ASSUME Bad # {} PROVE FALSE
  <2>1. S \in SUBSET S
    OBVIOUS
  <2> QED BY <2>1
<1>2. PICK T \in Bad : \A x \in T : T \ {x} \notin Bad
  <2>1. Bad \subseteq SUBSET S
    OBVIOUS
  <2> HIDE DEF Bad
  <2> QED BY <1>1, <2>1, SmallestSet
<1>3. CASE T = {}
  <2> DEFINE m == [U \in SUBSET {} |-> 0]
  <2>1. Measure(m, {}, f)
    BY DEF Measure
  <2> HIDE DEF m
  <2> QED BY <1>3, <2>1
<1>4. CASE T # {}
  <2>1. PICK x \in T : TRUE
    BY <1>4
  <2>2. T \ {x} \in SUBSET S /\ T \ {x} \notin Bad /\ f[x] \in Int
    BY <1>2
  <2>3. PICK m : Measure(m, T \ {x}, f)
    BY <2>2
  <2> DEFINE e == [U \in SUBSET T |-> IF x \in U THEN f[x] + m[U \ {x}] ELSE m[U]]
  <2>4. \A U \in SUBSET T : U \ {x} \in SUBSET (T \ {x}) /\ m[U \ {x}] \in Int /\ (x \notin U => U \ {x} = U)
    BY <2>3 DEF Measure
  <2>5. e \in [SUBSET T -> Int]
    <3>1. \A U \in SUBSET T : (IF x \in U THEN f[x] + m[U \ {x}] ELSE m[U]) \in Int
      <4> SUFFICES ASSUME NEW U \in SUBSET T PROVE (IF x \in U THEN f[x] + m[U \ {x}] ELSE m[U]) \in Int
        OBVIOUS
      <4>1. CASE x \in U
        <5>1. m[U \ {x}] \in Int
          BY <2>4
        <5>2. f[x] + m[U \ {x}] \in Int
          BY <2>2, <5>1
        <5> QED BY <4>1, <5>2
      <4>2. CASE x \notin U
        <5>1. m[U] \in Int
          BY <2>4, <4>2
        <5> QED BY <4>2, <5>1
      <4> QED BY <4>1, <4>2
    <3> QED BY <3>1
  <2>6. e[{}] = 0
    BY <2>3 DEF Measure
  <2>7. ASSUME NEW U \in SUBSET T, NEW y \in U PROVE e[U] = f[y] + e[U \ {y}]
    <3>1. CASE y = x
      <4>1. e[U] = f[x] + m[U \ {x}]
        BY <3>1
      <4>2. e[U \ {x}] = m[U \ {x}]
        OBVIOUS
      <4> QED BY <3>1, <4>1, <4>2
    <3>2. CASE y # x /\ x \in U
      <4>1. e[U] = f[x] + m[U \ {x}]
        BY <3>2
      <4>2. e[U \ {y}] = f[x] + m[(U \ {y}) \ {x}]
        BY <3>2
      <4>3. (U \ {y}) \ {x} = (U \ {x}) \ {y} /\ y \in U \ {x}
        BY <3>2
      <4>4. m[U \ {x}] = f[y] + m[(U \ {x}) \ {y}]
        BY <2>3, <2>4, <4>3 DEF Measure
      <4>5. m[(U \ {x}) \ {y}] \in Int /\ f[y] \in Int
        <5>1. (U \ {x}) \ {y} \in SUBSET (T \ {x}) /\ y \in S
          OBVIOUS
        <5> QED BY <2>3, <5>1 DEF Measure
      <4>6. \A a, b, c, d, r, t \in Int : a = b + c /\ d = b + r /\ c = t + r => a = t + d
        OBVIOUS
      <4>7. m[U \ {x}] \in Int /\ e[U] \in Int /\ e[U \ {y}] \in Int /\ e[U \ {y}] = f[x] + m[(U \ {x}) \ {y}]
        <5>1. U \ {y} \in SUBSET T
          OBVIOUS
        <5> HIDE DEF e
        <5> QED BY <2>4, <2>5, <4>2, <4>3, <5>1
      <4> HIDE DEF e
      <4> QED BY ONLY <2>2, <4>1, <4>4, <4>5, <4>6, <4>7
    <3>3. CASE x \notin U
      <4>1. e[U] = m[U] /\ e[U \ {y}] = m[U \ {y}]
        BY <3>3
      <4>2. U \in SUBSET (T \ {x})
        BY <3>3
      <4> QED BY <2>3, <4>1, <4>2 DEF Measure
    <3> QED BY <3>1, <3>2, <3>3
  <2>8. Measure(e, T, f)
    <3> HIDE DEF e
    <3> QED BY <2>5, <2>6, <2>7 DEF Measure
  <2> QED BY <2>8
<1> QED BY <1>3, <1>4

LEMMA MeasureAdds ==
    ASSUME NEW S, IsFiniteSet(S), NEW f, \A x \in S : f[x] \in Int, NEW m, Measure(m, S, f),
           NEW T \in SUBSET S, NEW U \in SUBSET S, T \cap U = {}
    PROVE  m[T \union U] = m[T] + m[U]
<1> DEFINE Bad == {V \in SUBSET U : m[T \union V] # m[T] + m[V]}
<1>1. SUFFICES ASSUME Bad # {} PROVE FALSE
  <2>1. U \in SUBSET U
    OBVIOUS
  <2> QED BY <2>1
<1>2. PICK V \in Bad : \A x \in V : V \ {x} \notin Bad
  <2>1. Bad \subseteq SUBSET U /\ IsFiniteSet(U)
    BY FS_Subset
  <2> HIDE DEF Bad
  <2> QED BY <1>1, <2>1, SmallestSet
<1>3. m[T] \in Int
  BY DEF Measure
<1>4. CASE V = {}
  <2>1. T \union V = T /\ m[V] = 0
    BY <1>4 DEF Measure
  <2>2. m[T] = m[T] + 0
    BY <1>3
  <2>3. m[T \union V] = m[T] + m[V]
    BY <2>1, <2>2
  <2> QED BY <2>3
<1>5. CASE V # {}
  <2>1. PICK x \in V : TRUE
    BY <1>5
  <2>2. V \ {x} \in SUBSET U /\ V \in SUBSET S /\ V \ {x} \in SUBSET S /\ T \union V \in SUBSET S /\ x \in S
        /\ x \in T \union V /\ (T \union V) \ {x} = T \union (V \ {x})
    OBVIOUS
  <2>3. m[T \union (V \ {x})] = m[T] + m[V \ {x}]
    BY <1>2, <2>2
  <2>4. m[V] = f[x] + m[V \ {x}] /\ m[T \union V] = f[x] + m[(T \union V) \ {x}]
    BY <2>2 DEF Measure
  <2>5. f[x] \in Int /\ m[V \ {x}] \in Int
    BY <2>2 DEF Measure
  <2>6. m[T \union V] = m[T] + m[V]
    <3>1. m[T \union V] = f[x] + m[T \union (V \ {x})]
      BY <2>2, <2>4
    <3> QED BY ONLY <1>3, <2>3, <2>4, <2>5, <3>1
  <2> QED BY <2>6
<1> QED BY <1>4, <1>5

SumOf(f, S) == MapThenSumSet(LAMBDA x : f[x], S)

\* A fold over the subsets of T, one chosen element after the other.
Unfolded(g, f, T) ==
  g = [s \in SUBSET T |-> IF s = {} THEN 0 ELSE f[CHOOSE x \in s : TRUE] + g[s \ {CHOOSE x \in s : TRUE}]]

LEMMA MeasureUnfolds ==
    ASSUME NEW T, NEW f, NEW m, Measure(m, T, f)
    PROVE  Unfolded(m, f, T)
<1> DEFINE e(s) == IF s = {} THEN 0 ELSE f[CHOOSE x \in s : TRUE] + m[s \ {CHOOSE x \in s : TRUE}]
<1>1. ASSUME NEW s \in SUBSET T PROVE m[s] = e(s)
  <2>1. CASE s = {}
    BY <2>1 DEF Measure
  <2>2. CASE s # {}
    <3>1. PICK c \in s : c = CHOOSE x \in s : TRUE
      BY <2>2
    <3>2. m[s] = f[c] + m[s \ {c}]
      BY DEF Measure
    <3> QED BY <2>2, <3>1, <3>2
  <2> QED BY <2>1, <2>2
<1>2. m = [s \in SUBSET T |-> m[s]]
  BY DEF Measure
<1> HIDE DEF e
<1>3. m = [s \in SUBSET T |-> e(s)]
  BY <1>1, <1>2
<1> QED BY <1>3 DEF Unfolded, e

LEMMA UnfoldedIsMeasure ==
    ASSUME NEW T, IsFiniteSet(T), NEW f, NEW g, Unfolded(g, f, T), NEW S, NEW m, Measure(m, S, f), T \subseteq S
    PROVE  g[T] = m[T]
<1> DEFINE Bad == {U \in SUBSET T : g[U] # m[U]}
<1>1. SUFFICES ASSUME Bad # {} PROVE FALSE
  <2>1. T \in SUBSET T
    OBVIOUS
  <2> QED BY <2>1
<1>2. PICK U \in Bad : \A x \in U : U \ {x} \notin Bad
  <2>1. Bad \subseteq SUBSET T
    OBVIOUS
  <2> HIDE DEF Bad
  <2> QED BY <1>1, <2>1, SmallestSet
<1>3. g[U] = IF U = {} THEN 0 ELSE f[CHOOSE x \in U : TRUE] + g[U \ {CHOOSE x \in U : TRUE}]
  BY DEF Unfolded
<1>4. CASE U = {}
  BY <1>3, <1>4 DEF Measure
<1>5. CASE U # {}
  <2>1. PICK c \in U : c = CHOOSE x \in U : TRUE
    BY <1>5
  <2>2. U \ {c} \in SUBSET T /\ U \in SUBSET S
    OBVIOUS
  <2>3. g[U \ {c}] = m[U \ {c}]
    BY <1>2, <2>2
  <2>4. m[U] = f[c] + m[U \ {c}]
    BY <2>2 DEF Measure
  <2>5. g[U] = f[c] + g[U \ {c}]
    BY <1>3, <1>5, <2>1
  <2> QED BY <2>3, <2>4, <2>5
<1> QED BY <1>4, <1>5

LEMMA SumUnfolds ==
    ASSUME NEW f, NEW T
    PROVE  \E g : SumOf(f, T) = g[T] /\ ((\E h : Unfolded(h, f, T)) => Unfolded(g, f, T))
BY DEF SumOf, MapThenSumSet, MapThenFoldSet, Unfolded

LEMMA SumIsMeasure ==
    ASSUME NEW S, NEW f, NEW m, Measure(m, S, f), NEW T, IsFiniteSet(T), T \subseteq S, \A x \in T : f[x] \in Int
    PROVE  SumOf(f, T) = m[T]
<1>1. PICK g : SumOf(f, T) = g[T] /\ ((\E h : Unfolded(h, f, T)) => Unfolded(g, f, T))
  BY SumUnfolds
<1>2. PICK n : Measure(n, T, f)
  BY MeasureExists
<1>3. Unfolded(n, f, T)
  BY <1>2, MeasureUnfolds
<1>4. Unfolded(g, f, T)
  BY <1>1, <1>3
<1>5. g[T] = m[T]
  BY <1>4, UnfoldedIsMeasure
<1> QED BY <1>1, <1>5

-----------------------------------------------------------------------------
LEMMA SumEmpty == \A f : SumOf(f, {}) = 0
<1> SUFFICES ASSUME NEW f PROVE SumOf(f, {}) = 0
  OBVIOUS
<1>1. IsFiniteSet({}) /\ \A x \in {} : f[x] \in Int
  BY FS_EmptySet
<1>2. PICK m : Measure(m, {}, f)
  BY <1>1, MeasureExists
<1>3. SumOf(f, {}) = m[{}]
  BY <1>1, <1>2, SumIsMeasure
<1> QED BY <1>2, <1>3 DEF Measure

LEMMA SumAdds ==
    ASSUME NEW f, NEW T, NEW U, IsFiniteSet(T), IsFiniteSet(U), T \cap U = {},
           \A x \in T \union U : f[x] \in Int
    PROVE  /\ SumOf(f, T) \in Int /\ SumOf(f, U) \in Int
           /\ SumOf(f, T \union U) = SumOf(f, T) + SumOf(f, U)
<1>1. PICK S : S = T \union U
  OBVIOUS
<1>2. IsFiniteSet(S) /\ T \in SUBSET S /\ U \in SUBSET S /\ \A x \in S : f[x] \in Int
  BY <1>1, FS_Union
<1>3. PICK m : Measure(m, S, f)
  BY <1>2, MeasureExists
<1>4. m[S] = m[T] + m[U]
  BY <1>1, <1>2, <1>3, MeasureAdds
<1>5. SumOf(f, S) = m[S]
  BY <1>2, <1>3, SumIsMeasure
<1>6. SumOf(f, T) = m[T]
  BY <1>2, <1>3, SumIsMeasure
<1>7. SumOf(f, U) = m[U]
  BY <1>2, <1>3, SumIsMeasure
<1>8. m[T] \in Int /\ m[U] \in Int
  BY <1>2, <1>3 DEF Measure
<1> QED BY <1>1, <1>4, <1>5, <1>6, <1>7, <1>8

LEMMA SumSingle ==
    ASSUME NEW f, NEW x, f[x] \in Int
    PROVE  SumOf(f, {x}) = f[x]
<1>1. IsFiniteSet({x}) /\ \A y \in {x} : f[y] \in Int
  BY FS_Singleton
<1>2. PICK m : Measure(m, {x}, f)
  BY <1>1, MeasureExists
<1>3. SumOf(f, {x}) = m[{x}]
  BY <1>1, <1>2, SumIsMeasure
<1>4. m[{x}] = f[x] + m[{x} \ {x}] /\ m[{}] = 0
  BY <1>2 DEF Measure
<1>5. {x} \ {x} = {}
  OBVIOUS
<1> QED BY <1>3, <1>4, <1>5

LEMMA SumImage ==
    ASSUME NEW f, NEW S, IsFiniteSet(S), NEW g, NEW T, NEW h \in [S -> T],
           \A x, y \in S : h[x] = h[y] => x = y, \A y \in T : \E x \in S : h[x] = y,
           \A x \in S : f[x] \in Int /\ g[h[x]] = f[x]
    PROVE  IsFiniteSet(T) /\ SumOf(g, T) = SumOf(f, S)
<1>1. IsFiniteSet(T)
  <2>1. h \in Bijection(S, T)
    BY DEF Bijection, Injection, Surjection, IsInjective
  <2> QED BY <2>1, FS_Bijection DEF ExistsBijection
<1>2. PICK m : Measure(m, T, g)
  <2>1. \A y \in T : g[y] \in Int
    OBVIOUS
  <2> QED BY <1>1, <2>1, MeasureExists
<1> DEFINE img(U) == {y \in T : \E x \in U : h[x] = y}
           n == [U \in SUBSET S |-> m[img(U)]]
<1>3. Measure(n, S, f)
  <2>1. n \in [SUBSET S -> Int]
    BY <1>2 DEF Measure
  <2>2. n[{}] = 0
    <3>1. img({}) = {}
      OBVIOUS
    <3> QED BY <1>2, <3>1 DEF Measure
  <2>3. ASSUME NEW U \in SUBSET S, NEW x \in U PROVE n[U] = f[x] + n[U \ {x}]
    <3>1. img(U) \in SUBSET T /\ h[x] \in img(U) /\ img(U \ {x}) = img(U) \ {h[x]}
      OBVIOUS
    <3>2. n[U] = m[img(U)] /\ n[U \ {x}] = m[img(U \ {x})]
      OBVIOUS
    <3> HIDE DEF img, n
    <3>3. m[img(U)] = g[h[x]] + m[img(U) \ {h[x]}]
      BY <1>2, <3>1 DEF Measure
    <3> QED BY <3>1, <3>2, <3>3
  <2> HIDE DEF n
  <2> QED BY <2>1, <2>2, <2>3 DEF Measure
<1>4. n[S] = m[T]
  <2>1. img(S) = T
    OBVIOUS
  <2> QED BY <2>1
<1> HIDE DEF n, img
<1>5. SumOf(f, S) = n[S]
  BY <1>3, SumIsMeasure
<1>6. SumOf(g, T) = m[T]
  BY <1>1, <1>2, SumIsMeasure
<1> QED BY <1>1, <1>4, <1>5, <1>6

LEMMA SumNat ==
    ASSUME NEW f, NEW S, IsFiniteSet(S), \A x \in S : f[x] \in Nat
    PROVE  SumOf(f, S) \in Nat
<1> DEFINE Bad == {U \in SUBSET S : ~(SumOf(f, U) \in Nat)}
<1>1. SUFFICES ASSUME Bad # {} PROVE FALSE
  <2>1. S \in SUBSET S
    OBVIOUS
  <2> QED BY <2>1
<1>2. PICK U \in Bad : \A x \in U : U \ {x} \notin Bad
  <2>1. Bad \subseteq SUBSET S
    OBVIOUS
  <2> HIDE DEF Bad
  <2> QED BY <1>1, <2>1, SmallestSet
<1>3. CASE U = {}
  BY <1>3, SumEmpty
<1>4. CASE U # {}
  <2>1. PICK x \in U : TRUE
    BY <1>4
  <2>2. U \ {x} \in SUBSET S /\ U = (U \ {x}) \union {x} /\ (U \ {x}) \cap {x} = {} /\ f[x] \in Nat
    OBVIOUS
  <2>3. SumOf(f, U \ {x}) \in Nat
    BY <1>2, <2>2
  <2>4. IsFiniteSet(U \ {x}) /\ IsFiniteSet({x}) /\ \A y \in (U \ {x}) \union {x} : f[y] \in Int
    BY FS_Subset, FS_Singleton
  <2>5. PICK V, X : V = U \ {x} /\ X = {x}
    OBVIOUS
  <2>6. SumOf(f, V \union X) = SumOf(f, V) + SumOf(f, X)
    BY <2>2, <2>4, <2>5, SumAdds
  <2>7. SumOf(f, {x}) = f[x]
    <3>1. f[x] \in Int
      BY <2>2
    <3> QED BY <3>1, SumSingle
  <2>8. SumOf(f, U) = SumOf(f, V) + f[x]
    BY <2>2, <2>5, <2>6, <2>7
  <2> QED BY <2>2, <2>3, <2>5, <2>8
<1> QED BY <1>3, <1>4

LEMMA SumZero ==
    ASSUME NEW f, NEW S, IsFiniteSet(S), \A x \in S : f[x] = 0
    PROVE  SumOf(f, S) = 0
<1> DEFINE m == [U \in SUBSET S |-> 0]
<1>1. \A x \in S : f[x] \in Int
  OBVIOUS
<1>2. Measure(m, S, f)
  BY DEF Measure
<1>3. m[S] = 0
  OBVIOUS
<1> HIDE DEF m
<1> QED BY <1>1, <1>2, <1>3, SumIsMeasure

-----------------------------------------------------------------------------
(* Where every dot is.                                                     *)
\* The dots that a process has packed and its partner does not have yet.
Sent(q) == IF pc[q] \in {"ping", "send"} THEN buf[q]
           ELSE IF DotsDue(q, Partner(q)) THEN Head(data[q][Partner(q)]) ELSE <<>>
Stock(q, b) == IF b = 0 THEN dots[q] ELSE Sent(q)
Slots == {s \in Procs \X {0, 1} \X Nat : s[3] \in DOMAIN Stock(s[1], s[2])}
DotAt(s) == Stock(s[1], s[2])[s[3]]
\* The process that has the dot of a slot in the end of the level.
DestOf(s) == IF s[2] = 1 \/ (pc[s[1]] \in {"tell", "hear"} /\ s[3] \in Leaves(s[1])) THEN Partner(s[1]) ELSE s[1]
View == [in |-> [s \in Slots |-> DotAt(s)], to |-> [s \in Slots |-> DestOf(s)]]
\* The dots of p change slots, and none its destination; if c then those on
\* their way to p come in.
Shifted(v, w, p, c) ==
  \E g \in [DOMAIN w.in -> DOMAIN v.in] :
    /\ \A s, t \in DOMAIN w.in : g[s] = g[t] => s = t
    /\ \A t \in DOMAIN v.in : \E s \in DOMAIN w.in : g[s] = t
    /\ \A s \in DOMAIN w.in : w.in[s] = v.in[g[s]] /\ w.to[s] = v.to[g[s]]
    /\ \A s \in DOMAIN w.in :
          \/ g[s] = s
          \/ s[1] = p /\ g[s][1] = p
          \/ c /\ s[1] = p /\ s[2] = 0 /\ g[s][2] = 1 /\ v.to[g[s]] = p

LEMMA SentFacts ==
    ASSUME Types, HandshakeInv, NEW q \in Procs
    PROVE  /\ Sent(q) \in Seq(Dots) /\ dots[q] \in Seq(Dots)
           /\ pc[q] \in {"level", "search", "done", "tell", "hear"} => Sent(q) = <<>>
           /\ \A b : Stock(q, b) \in Seq(Dots)
<1>1. Partner(q) \in Procs /\ dots[q] \in Seq(Dots) /\ buf[q] \in Seq(Dots)
  BY PartnerFacts DEF HandshakeInv, Types, DotsType
<1>2. DotsDue(q, Partner(q)) => Head(data[q][Partner(q)]) \in Seq(Dots)
  <2>1. data[q][Partner(q)] \in Seq(Seq(Dots)) /\ Channel(q, Partner(q))
    BY <1>1 DEF Types, MessagesType, HandshakeInv, ChannelsInv
  <2>2. DotsDue(q, Partner(q)) => Len(data[q][Partner(q)]) = 1
    BY <2>1 DEF Channel, OneIf
  <2> QED BY <2>1, <2>2
<1>3. <<>> \in Seq(Dots)
  OBVIOUS
<1>4. Sent(q) \in Seq(Dots)
  BY <1>1, <1>2, <1>3 DEF Sent
<1>5. pc[q] \in {"level", "search", "done", "tell", "hear"} => Sent(q) = <<>>
  BY DEF Sent, DotsDue, Shipped
<1> QED BY <1>1, <1>4, <1>5 DEF Stock

LEMMA SlotFacts ==
    ASSUME Types, HandshakeInv, NEW s \in Slots
    PROVE  /\ s = <<s[1], s[2], s[3]>> /\ s[1] \in Procs /\ s[2] \in {0, 1} /\ s[3] \in Nat
           /\ s[3] \in DOMAIN Stock(s[1], s[2]) /\ DotAt(s) \in Dots
           /\ DestOf(s) \in Part(s[1]) /\ DestOf(s) \in Procs
<1>1. s = <<s[1], s[2], s[3]>> /\ s[1] \in Procs /\ s[2] \in {0, 1} /\ s[3] \in Nat
      /\ s[3] \in DOMAIN Stock(s[1], s[2])
  BY DEF Slots
<1>2. DotAt(s) \in Dots
  <2>1. PICK l \in Seq(Dots) : l = Stock(s[1], s[2])
    BY <1>1, SentFacts
  <2>2. l[s[3]] \in Dots
    BY <1>1, <2>1
  <2> QED BY <2>1, <2>2 DEF DotAt
<1>3. DestOf(s) \in Part(s[1]) /\ DestOf(s) \in Procs
  BY <1>1, PartnerFacts, PartFacts DEF DestOf, HandshakeInv, Types
<1> QED BY <1>1, <1>2, <1>3

\* What a step leaves in its slots.
LEMMA SameView ==
    ASSUME Procs' = Procs, NEW M, 
           \A q \in Procs : /\ dots'[q] = dots[q] /\ Sent(q)' = Sent(q)
                            /\ q \notin M => /\ Partner(q)' = Partner(q) /\ Leaves(q)' = Leaves(q)
                                             /\ pc'[q] \in {"tell", "hear"} <=> pc[q] \in {"tell", "hear"}
    PROVE  /\ Slots' = Slots /\ View.in' = View.in
           /\ \A s \in Slots : DotAt(s)' = DotAt(s) /\ (s[1] \notin M => DestOf(s)' = DestOf(s))
<1>1. \A q \in Procs : \A b : Stock(q, b)' = Stock(q, b)
  BY DEF Stock
<1>2. Slots' = Slots
  BY <1>1 DEF Slots
<1>3. \A s \in Slots : s[1] \in Procs
  BY DEF Slots
<1>4. \A s \in Slots : DotAt(s)' = DotAt(s)
  BY <1>1, <1>3 DEF DotAt
<1>5. \A s \in Slots : s[1] \notin M => DestOf(s)' = DestOf(s)
  BY <1>3 DEF DestOf
<1>6. View.in' = View.in
  BY <1>2, <1>4 DEF View
<1> QED BY <1>2, <1>4, <1>5, <1>6

LEMMA UnchangedView ==
    ASSUME Types, HandshakeInv, Procs' = Procs,
           \A q \in Procs : /\ dots'[q] = dots[q] /\ Sent(q)' = Sent(q)
                            /\ Partner(q)' = Partner(q) /\ Leaves(q)' = Leaves(q)
                            /\ pc'[q] \in {"tell", "hear"} <=> pc[q] \in {"tell", "hear"}
    PROVE  View' = View
<1>1. PICK M : M = {}
  OBVIOUS
<1>2. /\ Slots' = Slots
      /\ \A s \in Slots : DotAt(s)' = DotAt(s) /\ (s[1] \notin M => DestOf(s)' = DestOf(s))
  BY SameView
<1>3. \A s \in Slots : DestOf(s)' = DestOf(s)
  BY <1>1, <1>2
<1> QED BY <1>2, <1>3 DEF View

(* The steps of the exchange.                                              *)
LEMMA QuietSent ==
    ASSUME Types, HandshakeInv, NEW p \in Procs, Tell(p) \/ Hear(p) \/ Ping(p) \/ Await(p)
    PROVE  View' = View
<1>1. Own(p) /\ Procs' = Procs /\ \A q : Partner(q)' = Partner(q)
  BY ExchangesOwn, OwnSameParts DEF Exchanges, Own, Types
<1>2. /\ dots' = dots /\ mark' = mark /\ buf' = buf /\ data' = data
      /\ pc[p] # "split" /\ pc'[p] # "split"
      /\ pc[p] \in {"wait", "split"} <=> pc'[p] \in {"wait", "split"}
      /\ pc[p] \in {"ping", "send"} <=> pc'[p] \in {"ping", "send"}
      /\ pc[p] \in {"tell", "hear"} <=> pc'[p] \in {"tell", "hear"}
  BY DEF Tell, Hear, Ping, Await, Go, Types, PartsType
<1>3. \A q : Leaves(q)' = Leaves(q)
  BY <1>1, <1>2 DEF Leaves, MarkActive
<1>4. ASSUME NEW q \in Procs
      PROVE  /\ pc'[q] \in {"tell", "hear"} <=> pc[q] \in {"tell", "hear"}
             /\ pc'[q] \in {"ping", "send"} <=> pc[q] \in {"ping", "send"}
             /\ pc'[q] \in {"wait", "split"} <=> pc[q] \in {"wait", "split"}
             /\ pc'[q] = "split" <=> pc[q] = "split"
  BY <1>1, <1>2 DEF Own
<1>5. ASSUME NEW q \in Procs PROVE Sent(q)' = Sent(q)
  <2>1. PICK t \in Procs : t = Partner(q)
    BY PartnerFacts DEF HandshakeInv, Types
  <2>2. Partner(q)' = t
    BY <1>1, <2>1
  <2>3. DotsDue(q, t)' <=> DotsDue(q, t)
    BY <1>4, <2>1, <2>2 DEF DotsDue, Shipped
  <2> QED BY <1>2, <1>4, <2>1, <2>2, <2>3 DEF Sent
<1> QED BY <1>1, <1>2, <1>3, <1>4, <1>5, UnchangedView

LEMMA SendDotsSent ==
    ASSUME Types, HandshakeInv, NEW p \in Procs, SendDots(p)
    PROVE  View' = View
<1>1. Own(p) /\ Procs' = Procs /\ \A q : Partner(q)' = Partner(q)
  BY ExchangesOwn, OwnSameParts DEF Exchanges, Own, Types
<1>2. dots' = dots /\ mark' = mark /\ buf' = buf /\ pc[p] = "send" /\ pc'[p] = "wait"
  BY DEF SendDots, Go, Types, PartsType
<1>3. \A q : Leaves(q)' = Leaves(q)
  BY <1>1, <1>2 DEF Leaves, MarkActive
<1>4. PICK t \in Procs : t = Partner(p) /\ t # p
  BY <1>2, PartnerFacts DEF HandshakeInv, Types, PartsInv, Exchange
<1>5. data[p][t] = <<>> /\ pc[t] # "split"
  <2>1. ~DotsDue(p, t) /\ Channel(p, t) /\ Causes(p)
    BY <1>2 DEF DotsDue, Shipped, HandshakeInv, ChannelsInv, AnswersInv
  <2>2. Len(data[p][t]) = 0 /\ data[p][t] \in Seq(Seq(Dots))
    BY <2>1 DEF Channel, OneIf, Types, MessagesType
  <2>3. pc[t] # "split"
    BY <1>2, <1>4, <2>1 DEF Causes, Shipped
  <2> QED BY <2>2, <2>3
<1>6. data' = Put(data, p, t, buf[p])
  BY <1>4 DEF SendDots
<1>7. Sent(p)' = Sent(p)
  <2>1. data'[p][t] = Append(<<>>, buf[p])
    BY <1>4, <1>5, <1>6 DEF Put, Types, MessagesType
  <2>2. Head(data'[p][t]) = buf[p]
    BY <2>1
  <2>3. DotsDue(p, t)'
    BY <1>1, <1>2, <1>4, <1>5 DEF DotsDue, Shipped, Own
  <2>4. Sent(p)' = Head(data'[p][t])
    BY <1>1, <1>2, <1>4, <2>3 DEF Sent
  <2>5. Sent(p) = buf[p]
    BY <1>2 DEF Sent
  <2> QED BY <2>2, <2>4, <2>5
<1>8. ASSUME NEW q \in Procs, q # p PROVE Sent(q)' = Sent(q)
  <2>1. PICK u \in Procs : u = Partner(q)
    BY PartnerFacts DEF HandshakeInv, Types
  <2>2. data'[q][u] = data[q][u] /\ pc'[q] = pc[q] /\ (pc'[u] = "split" <=> pc[u] = "split")
    BY <1>1, <1>2, <1>6, <1>8 DEF Own, Put, Types, MessagesType
  <2>3. DotsDue(q, u)' <=> DotsDue(q, u)
    BY <1>1, <2>1, <2>2 DEF DotsDue, Shipped
  <2> QED BY <1>1, <1>2, <2>1, <2>2, <2>3 DEF Sent
<1>9. \A q \in Procs : pc'[q] \in {"tell", "hear"} <=> pc[q] \in {"tell", "hear"}
  BY <1>1, <1>2 DEF Own
<1> QED BY <1>1, <1>2, <1>3, <1>7, <1>8, <1>9, UnchangedView

LEMMA NthOnto ==
    ASSUME NEW S, IsFiniteSet(S), S \subseteq Int
    PROVE  /\ \A i, j \in 1 .. Cardinality(S) : Nth(S, i) = Nth(S, j) => i = j
           /\ \A i \in S : \E j \in 1 .. Cardinality(S) : Nth(S, j) = i
           /\ \A j \in 1 .. Cardinality(S) : Nth(S, j) \in S
<1>1. /\ \A j \in 1 .. Cardinality(S) : Nth(S, j) \in S /\ Cardinality({h \in S : h <= Nth(S, j)}) = j
      /\ \A i \in S : Cardinality({h \in S : h <= i}) \in 1 .. Cardinality(S)
      /\ \A i, j \in S : Cardinality({h \in S : h <= i}) = Cardinality({h \in S : h <= j}) => i = j
  BY NthFacts
<1>2. ASSUME NEW i \in S PROVE \E j \in 1 .. Cardinality(S) : Nth(S, j) = i
  <2>1. PICK j \in 1 .. Cardinality(S) : j = Cardinality({h \in S : h <= i})
    BY <1>1
  <2>2. Nth(S, j) = i
    BY <1>1, <2>1
  <2> QED BY <2>2
<1>3. \A i, j \in 1 .. Cardinality(S) : Nth(S, i) = Nth(S, j) => i = j
  BY <1>1
<1> QED BY <1>1, <1>2, <1>3

LEMMA PostShifts ==
    ASSUME Types, HandshakeInv, NEW p \in Procs, Post(p)
    PROVE  Shifted(View, View', p, FALSE)
<1>1. Own(p) /\ Procs' = Procs /\ \A q : Partner(q)' = Partner(q)
  BY ExchangesOwn, OwnSameParts DEF Exchanges, Own, Types
<1>2. /\ pc[p] = "hear" /\ pc'[p] = "ping" /\ data' = data
      /\ dots'[p] = Pick(p, DOMAIN dots[p] \ Leaves(p)) /\ buf'[p] = Pick(p, Leaves(p))
  BY DEF Post, PostFor, Go, Types, PartsType, DotsType
<1>3. PICK K, L : K = DOMAIN dots[p] \ Leaves(p) /\ L = Leaves(p)
  OBVIOUS
<1>4. /\ K \subseteq DOMAIN dots[p] /\ L \subseteq DOMAIN dots[p] /\ K \union L = DOMAIN dots[p] /\ K \cap L = {}
      /\ K \subseteq Nat /\ L \subseteq Nat /\ K \subseteq Int /\ L \subseteq Int
  BY <1>3 DEF Leaves, Types, DotsType
<1>5. /\ IsFiniteSet(K) /\ IsFiniteSet(L) /\ Cardinality(K) \in Nat /\ Cardinality(L) \in Nat
      /\ Pick(p, K) \in Seq(Dots) /\ DOMAIN Pick(p, K) = 1 .. Cardinality(K)
      /\ Pick(p, L) \in Seq(Dots) /\ DOMAIN Pick(p, L) = 1 .. Cardinality(L)
      /\ \A j \in 1 .. Cardinality(K) : Nth(K, j) \in K /\ Pick(p, K)[j] = dots[p][Nth(K, j)]
      /\ \A j \in 1 .. Cardinality(L) : Nth(L, j) \in L /\ Pick(p, L)[j] = dots[p][Nth(L, j)]
  BY <1>4, PickFacts DEF Types
<1>6. /\ \A i, j \in 1 .. Cardinality(K) : Nth(K, i) = Nth(K, j) => i = j
      /\ \A i \in K : \E j \in 1 .. Cardinality(K) : Nth(K, j) = i
      /\ \A i, j \in 1 .. Cardinality(L) : Nth(L, i) = Nth(L, j) => i = j
      /\ \A i \in L : \E j \in 1 .. Cardinality(L) : Nth(L, j) = i
  BY <1>4, <1>5, NthOnto
<1>7. \A q \in Procs : pc'[q] = "split" <=> pc[q] = "split"
  BY <1>1, <1>2 DEF Own
<1>8. ASSUME NEW q \in Procs, q # p
      PROVE  /\ \A b : Stock(q, b)' = Stock(q, b)
             /\ Leaves(q)' = Leaves(q) /\ pc'[q] = pc[q]
  <2>1. PICK u \in Procs : u = Partner(q)
    BY PartnerFacts DEF HandshakeInv, Types
  <2>2. dots'[q] = dots[q] /\ buf'[q] = buf[q] /\ pc'[q] = pc[q] /\ mark'[q] = mark[q]
    BY <1>1, <1>8 DEF Own
  <2>3. DotsDue(q, u)' <=> DotsDue(q, u)
    BY <1>1, <1>7, <2>1, <2>2 DEF DotsDue, Shipped
  <2>4. Sent(q)' = Sent(q)
    BY <1>1, <1>2, <2>1, <2>2, <2>3 DEF Sent
  <2>5. Leaves(q)' = Leaves(q)
    BY <1>1, <2>2 DEF Leaves, MarkActive
  <2> QED BY <2>2, <2>4, <2>5 DEF Stock
<1>9. /\ Stock(p, 0) = dots[p] /\ Stock(p, 1) = <<>>
      /\ Stock(p, 0)' = Pick(p, K) /\ Stock(p, 1)' = Pick(p, L)
  <2>1. Sent(p) = <<>>
    BY <1>2, SentFacts
  <2>2. Sent(p)' = buf'[p]
    BY <1>2 DEF Sent
  <2> QED BY <1>2, <1>3, <2>1, <2>2 DEF Stock
<1> DEFINE from(s) == IF s[1] # p THEN s ELSE IF s[2] = 0 THEN <<p, 0, Nth(K, s[3])>> ELSE <<p, 0, Nth(L, s[3])>>
           g == [s \in Slots' |-> from(s)]
<1>10. \A s \in Slots' : /\ s = <<s[1], s[2], s[3]>> /\ s[1] \in Procs /\ s[2] \in {0, 1} /\ s[3] \in Nat
                         /\ s[3] \in DOMAIN Stock(s[1], s[2])'
  BY <1>1 DEF Slots
<1>11. ASSUME NEW s \in Slots'
       PROVE  from(s) \in Slots /\ DotAt(s)' = DotAt(from(s)) /\ DestOf(s)' = DestOf(from(s))
  <2>1. CASE s[1] # p
    <3>1. Stock(s[1], s[2])' = Stock(s[1], s[2]) /\ from(s) = s
      BY <1>8, <1>10, <2>1
    <3>2. s \in Slots
      BY <1>10, <3>1 DEF Slots
    <3>3. DotAt(s)' = DotAt(s)
      BY <3>1 DEF DotAt
    <3>4. DestOf(s)' = DestOf(s)
      BY <1>1, <1>8, <1>10, <2>1 DEF DestOf
    <3> QED BY <3>1, <3>2, <3>3, <3>4
  <2>2. CASE s[1] = p /\ s[2] = 0
    <3>1. s[3] \in 1 .. Cardinality(K) /\ from(s) = <<p, 0, Nth(K, s[3])>>
      BY <1>5, <1>9, <1>10, <2>2
    <3>2. Nth(K, s[3]) \in K /\ Pick(p, K)[s[3]] = dots[p][Nth(K, s[3])]
      BY <1>5, <3>1
    <3>3. from(s) \in Slots
      BY <1>4, <1>9, <3>1, <3>2 DEF Slots
    <3>4. DotAt(s)' = DotAt(from(s))
      <4>1. DotAt(s)' = Pick(p, K)[s[3]]
        BY <1>9, <2>2 DEF DotAt
      <4>2. DotAt(from(s)) = dots[p][Nth(K, s[3])]
        BY <1>9, <3>1 DEF DotAt
      <4> QED BY <3>2, <4>1, <4>2
    <3>5. DestOf(s)' = p
      BY <1>2, <2>2 DEF DestOf
    <3>6. DestOf(from(s)) = p
      BY <1>3, <1>4, <3>1, <3>2 DEF DestOf
    <3> QED BY <3>3, <3>4, <3>5, <3>6
  <2>3. CASE s[1] = p /\ s[2] = 1
    <3>1. s[3] \in 1 .. Cardinality(L) /\ from(s) = <<p, 0, Nth(L, s[3])>>
      BY <1>5, <1>9, <1>10, <2>3
    <3>2. Nth(L, s[3]) \in L /\ Pick(p, L)[s[3]] = dots[p][Nth(L, s[3])]
      BY <1>5, <3>1
    <3>3. from(s) \in Slots
      BY <1>4, <1>9, <3>1, <3>2 DEF Slots
    <3>4. DotAt(s)' = DotAt(from(s))
      <4>1. DotAt(s)' = Pick(p, L)[s[3]]
        BY <1>9, <2>3 DEF DotAt
      <4>2. DotAt(from(s)) = dots[p][Nth(L, s[3])]
        BY <1>9, <3>1 DEF DotAt
      <4> QED BY <3>2, <4>1, <4>2
    <3>5. DestOf(s)' = Partner(p)
      BY <1>1, <2>3 DEF DestOf
    <3>6. DestOf(from(s)) = Partner(p)
      BY <1>2, <1>3, <3>1, <3>2 DEF DestOf
    <3> QED BY <3>3, <3>4, <3>5, <3>6
  <2> QED BY <1>10, <2>1, <2>2, <2>3
<1>12. ASSUME NEW s \in Slots', NEW t \in Slots', from(s) = from(t) PROVE s = t
  <2>1. /\ s = <<s[1], s[2], s[3]>> /\ t = <<t[1], t[2], t[3]>> /\ s[2] \in {0, 1} /\ t[2] \in {0, 1}
        /\ s[3] \in DOMAIN Stock(s[1], s[2])' /\ t[3] \in DOMAIN Stock(t[1], t[2])'
    BY <1>10
  <2>2. CASE s[1] # p \/ t[1] # p
    BY <1>12, <2>1, <2>2
  <2>3. CASE s[1] = p /\ t[1] = p
    <3>1. s[2] = 0 => s[3] \in 1 .. Cardinality(K) /\ from(s) = <<p, 0, Nth(K, s[3])>> /\ Nth(K, s[3]) \in K
      BY <1>5, <1>9, <2>1, <2>3
    <3>2. s[2] = 1 => s[3] \in 1 .. Cardinality(L) /\ from(s) = <<p, 0, Nth(L, s[3])>> /\ Nth(L, s[3]) \in L
      BY <1>5, <1>9, <2>1, <2>3
    <3>3. t[2] = 0 => t[3] \in 1 .. Cardinality(K) /\ from(t) = <<p, 0, Nth(K, t[3])>> /\ Nth(K, t[3]) \in K
      BY <1>5, <1>9, <2>1, <2>3
    <3>4. t[2] = 1 => t[3] \in 1 .. Cardinality(L) /\ from(t) = <<p, 0, Nth(L, t[3])>> /\ Nth(L, t[3]) \in L
      BY <1>5, <1>9, <2>1, <2>3
    <3> HIDE DEF from
    <3>5. s[2] = t[2]
      BY <1>4, <1>12, <2>1, <3>1, <3>2, <3>3, <3>4
    <3>6. s[3] = t[3]
      BY <1>6, <1>12, <2>1, <3>1, <3>2, <3>3, <3>4, <3>5
    <3> QED BY <2>1, <2>3, <3>5, <3>6
  <2> QED BY <2>2, <2>3
<1>13. ASSUME NEW t \in Slots PROVE \E s \in Slots' : from(s) = t
  <2>1. /\ t = <<t[1], t[2], t[3]>> /\ t[1] \in Procs /\ t[2] \in {0, 1} /\ t[3] \in Nat
        /\ t[3] \in DOMAIN Stock(t[1], t[2])
    BY DEF Slots
  <2>2. CASE t[1] # p
    <3>1. Stock(t[1], t[2])' = Stock(t[1], t[2]) /\ from(t) = t
      BY <1>8, <2>1, <2>2
    <3>2. t \in Slots'
      BY <1>1, <2>1, <3>1 DEF Slots
    <3> QED BY <3>1, <3>2
  <2>3. CASE t[1] = p
    <3>1. t[2] = 0 /\ t[3] \in K \union L
      BY <1>4, <1>9, <2>1, <2>3
    <3>2. CASE t[3] \in K
      <4>1. PICK j \in 1 .. Cardinality(K) : Nth(K, j) = t[3]
        BY <1>6, <3>2
      <4>2. PICK s : s = <<p, 0, j>>
        OBVIOUS
      <4>3. s \in Slots'
        BY <1>1, <1>5, <1>9, <4>1, <4>2 DEF Slots
      <4>4. from(s) = <<p, 0, Nth(K, j)>>
        BY <4>2
      <4> QED BY <2>1, <2>3, <3>1, <4>1, <4>3, <4>4
    <3>3. CASE t[3] \in L
      <4>1. PICK j \in 1 .. Cardinality(L) : Nth(L, j) = t[3]
        BY <1>6, <3>3
      <4>2. PICK s : s = <<p, 1, j>>
        OBVIOUS
      <4>3. s \in Slots'
        BY <1>1, <1>5, <1>9, <4>1, <4>2 DEF Slots
      <4>4. from(s) = <<p, 0, Nth(L, j)>>
        BY <4>2
      <4> QED BY <2>1, <2>3, <3>1, <4>1, <4>3, <4>4
    <3> QED BY <3>1, <3>2, <3>3
  <2> QED BY <2>2, <2>3
<1>14. Shifted(View, View', p, FALSE)
  <2>1. DOMAIN View.in = Slots /\ DOMAIN View'.in = Slots'
    BY DEF View
  <2>2. g \in [Slots' -> Slots] /\ \A s \in Slots' : g[s] = from(s)
    BY <1>11
  <2>3. \A s \in Slots' : View'.in[s] = View.in[from(s)] /\ View'.to[s] = View.to[from(s)]
    BY <1>11 DEF View
  <2>4. \A s \in Slots' : from(s) = s \/ (s[1] = p /\ from(s)[1] = p)
    OBVIOUS
  <2> HIDE DEF g, from
  <2> QED BY <1>12, <1>13, <2>1, <2>2, <2>3, <2>4 DEF Shifted
<1> QED BY <1>14

LEMMA ThreeParts ==
    ASSUME NEW D, NEW a \in Seq(D), NEW b \in Seq(D), NEW c \in Seq(D)
    PROVE  /\ a \o (b \o c) \in Seq(D)
           /\ DOMAIN (a \o (b \o c)) = 1 .. Len(a) + Len(b) + Len(c)
           /\ \A j \in 1 .. Len(a) : (a \o (b \o c))[j] = a[j]
           /\ \A j \in Len(a) + 1 .. Len(a) + Len(b) : (a \o (b \o c))[j] = b[j - Len(a)]
           /\ \A j \in Len(a) + Len(b) + 1 .. Len(a) + Len(b) + Len(c) :
                 (a \o (b \o c))[j] = c[j - Len(a) - Len(b)]
<1>1. /\ b \o c \in Seq(D) /\ Len(b \o c) = Len(b) + Len(c)
      /\ \A j \in 1 .. Len(b) : (b \o c)[j] = b[j]
      /\ \A j \in Len(b) + 1 .. Len(b) + Len(c) : (b \o c)[j] = c[j - Len(b)]
  OBVIOUS
<1>2. PICK e \in Seq(D) : e = b \o c
  BY <1>1
<1>3. /\ a \o e \in Seq(D) /\ Len(a \o e) = Len(a) + Len(e) /\ DOMAIN (a \o e) = 1 .. Len(a) + Len(e)
      /\ \A j \in 1 .. Len(a) : (a \o e)[j] = a[j]
      /\ \A j \in Len(a) + 1 .. Len(a) + Len(e) : (a \o e)[j] = e[j - Len(a)]
  OBVIOUS
<1>4. Len(a) \in Nat /\ Len(b) \in Nat /\ Len(c) \in Nat /\ Len(e) = Len(b) + Len(c)
  BY <1>1, <1>2
<1>5. ASSUME NEW j \in Len(a) + 1 .. Len(a) + Len(b) PROVE (a \o e)[j] = b[j - Len(a)]
  <2>1. j - Len(a) \in 1 .. Len(b) /\ j \in Len(a) + 1 .. Len(a) + Len(e)
    BY <1>4
  <2> QED BY <1>1, <1>2, <1>3, <2>1
<1>6. ASSUME NEW j \in Len(a) + Len(b) + 1 .. Len(a) + Len(b) + Len(c)
      PROVE  (a \o e)[j] = c[j - Len(a) - Len(b)]
  <2>1. /\ j - Len(a) \in Len(b) + 1 .. Len(b) + Len(c) /\ j \in Len(a) + 1 .. Len(a) + Len(e)
        /\ (j - Len(a)) - Len(b) = j - Len(a) - Len(b)
    BY <1>4
  <2>2. (a \o e)[j] = e[j - Len(a)]
    BY <1>3, <2>1
  <2>3. e[j - Len(a)] = c[(j - Len(a)) - Len(b)]
    BY <1>1, <1>2, <2>1
  <2> QED BY <2>1, <2>2, <2>3
<1>7. DOMAIN (a \o e) = 1 .. Len(a) + Len(b) + Len(c)
  BY <1>3, <1>4
<1> QED BY <1>2, <1>3, <1>5, <1>6, <1>7

LEMMA WaitSources ==
    ASSUME Types, HandshakeInv, NEW p \in Procs, Wait(p)
    PROVE  /\ \A q \in Procs : Partner(q) = p <=> \E j \in DOMAIN Sources(p) : Sources(p)[j] = q
           /\ \A j \in DOMAIN Sources(p) : Sources(p)[j] \in Procs
           /\ \A i, j \in DOMAIN Sources(p) : Sources(p)[i] = Sources(p)[j] => i = j
           /\ DOMAIN Sources(p) \subseteq {1, 2}
           /\ \A q \in Procs : Partner(q) = p =>
                 q # p /\ Sent(q) = Head(data[q][p]) /\ Sent(q)' = <<>> /\ pc[q] \in {"wait", "split"}
           /\ \A q \in Procs : Partner(q) # p => Sent(q)' = Sent(q)
<1>1. Own(p) /\ Procs' = Procs /\ \A q : Partner(q)' = Partner(q)
  BY ExchangesOwn, OwnSameParts DEF Exchanges, Own, Types
<1>2. /\ pc[p] = "wait" /\ pc'[p] = "split" /\ dots'[p] = dots[p] \o Arriving(p)
      /\ \A q \in posted[p] : data[q][p] # <<>>
      /\ \A q, r \in Procs : r # p => data'[q][r] = data[q][r]
  BY DEF Wait, Go, Types, PartsType, DotsType, MessagesType
<1>3. part[p].lo # part[p].hi /\ posted[p] = ToSet(Sources(p))
  BY <1>2 DEF HandshakeInv, PartsInv, LoopsInv, Exchange
<1>4. /\ \A q \in Procs : Partner(q) = p <=> \E j \in DOMAIN Sources(p) : Sources(p)[j] = q
      /\ \A j \in DOMAIN Sources(p) : Sources(p)[j] \in Procs
      /\ \A i, j \in DOMAIN Sources(p) : Sources(p)[i] = Sources(p)[j] => i = j
      /\ DOMAIN Sources(p) \subseteq {1, 2}
  <2>1. Len(Sources(p)) \in 0 .. 2 /\ DOMAIN Sources(p) = 1 .. Len(Sources(p))
    BY SourceFacts DEF HandshakeInv, Types
  <2>2. DOMAIN Sources(p) \subseteq {1, 2}
    BY <2>1
  <2> QED BY <1>3, <2>2, SourceFacts DEF HandshakeInv, Types
<1>5. ASSUME NEW q \in Procs, Partner(q) = p
      PROVE  q # p /\ Sent(q) = Head(data[q][p]) /\ Sent(q)' = <<>> /\ pc[q] \in {"wait", "split"}
  <2>1. q # p
    <3>1. part[q] = part[p]
      BY <1>5, PartnerFacts, SamePart DEF HandshakeInv, Types
    <3> QED BY <1>3, <1>5, <3>1, PartnerFacts DEF HandshakeInv, Types
  <2>2. data[q][p] # <<>>
    BY <1>2, <1>3, <1>4, <1>5 DEF ToSet
  <2>3. Channel(q, p) /\ data[q][p] \in Seq(Seq(Dots))
    BY DEF HandshakeInv, ChannelsInv, Types, MessagesType
  <2>4. DotsDue(q, p)
    <3>1. Len(data[q][p]) # 0
      BY <2>2, <2>3
    <3> QED BY <2>3, <3>1 DEF Channel, OneIf
  <2>5. pc[q] \in {"wait", "split"} /\ pc'[q] = pc[q]
    BY <1>1, <2>1, <2>4 DEF DotsDue, Shipped, Own
  <2>6. ~DotsDue(q, p)'
    BY <1>2 DEF DotsDue
  <2> QED BY <1>1, <1>5, <2>1, <2>4, <2>5, <2>6 DEF Sent
<1>6. ASSUME NEW q \in Procs, Partner(q) # p
      PROVE  Sent(q)' = Sent(q)
  <2>1. PICK u \in Procs : u = Partner(q) /\ u # p
    BY <1>6, PartnerFacts DEF HandshakeInv, Types
  <2>2. data'[q][u] = data[q][u] /\ pc'[u] = pc[u]
    BY <1>1, <1>2, <2>1 DEF Own
  <2>3. q # p => pc'[q] = pc[q] /\ buf'[q] = buf[q]
    BY <1>1 DEF Own
  <2>4. Shipped(q)' <=> Shipped(q)
    BY <1>2, <2>3 DEF Shipped
  <2>5. DotsDue(q, u)' <=> DotsDue(q, u)
    BY <1>1, <2>1, <2>2, <2>4 DEF DotsDue
  <2>6. (pc'[q] \in {"ping", "send"} <=> pc[q] \in {"ping", "send"}) /\ (pc[q] \in {"ping", "send"} => buf'[q] = buf[q])
    BY <1>2, <2>3
  <2> QED BY <1>1, <2>1, <2>2, <2>5, <2>6 DEF Sent
<1> QED BY <1>4, <1>5, <1>6

LEMMA WaitShifts ==
    ASSUME Types, HandshakeInv, NEW p \in Procs, Wait(p)
    PROVE  Shifted(View, View', p, TRUE)
<1>1. Own(p) /\ Procs' = Procs /\ \A q : Partner(q)' = Partner(q)
  BY ExchangesOwn, OwnSameParts DEF Exchanges, Own, Types
<1>2. /\ pc[p] = "wait" /\ pc'[p] = "split" /\ dots'[p] = dots[p] \o Arriving(p)
      /\ \A q \in posted[p] : data[q][p] # <<>>
      /\ \A q, r \in Procs : r # p => data'[q][r] = data[q][r]
  BY DEF Wait, Go, Types, PartsType, DotsType, MessagesType
<1>4. /\ \A q \in Procs : Partner(q) = p <=> \E j \in DOMAIN Sources(p) : Sources(p)[j] = q
      /\ \A j \in DOMAIN Sources(p) : Sources(p)[j] \in Procs
      /\ \A i, j \in DOMAIN Sources(p) : Sources(p)[i] = Sources(p)[j] => i = j
      /\ DOMAIN Sources(p) \subseteq {1, 2}
  BY WaitSources
<1>5. \A q \in Procs : Partner(q) = p =>
        q # p /\ Sent(q) = Head(data[q][p]) /\ Sent(q)' = <<>> /\ pc[q] \in {"wait", "split"}
  BY WaitSources
<1>6. \A q \in Procs : Partner(q) # p => Sent(q)' = Sent(q)
  BY WaitSources
<1> DEFINE part_(j) == IF j \in DOMAIN Sources(p) THEN Sent(Sources(p)[j]) ELSE <<>>
<1>7. Arriving(p) = part_(1) \o part_(2)
  <2>1. \A j \in DOMAIN Sources(p) : Head(data[Sources(p)[j]][p]) = Sent(Sources(p)[j])
    BY <1>4, <1>5
  <2> QED BY <2>1 DEF Arriving
<1>8. PICK a, b, c \in Seq(Dots) : a = dots[p] /\ b = part_(1) /\ c = part_(2)
  <2>1. <<>> \in Seq(Dots)
    OBVIOUS
  <2>2. part_(1) \in Seq(Dots) /\ part_(2) \in Seq(Dots) /\ dots[p] \in Seq(Dots)
    BY <1>4, <2>1, SentFacts
  <2> HIDE DEF part_
  <2> QED BY <2>2
<1>9. PICK n, m, l \in Nat : n = Len(a) /\ m = Len(b) /\ l = Len(c) /\ DOMAIN a = 1 .. n /\ DOMAIN b = 1 .. m /\ DOMAIN c = 1 .. l
  BY <1>8
<1>10. PICK e : e = a \o (b \o c)
  OBVIOUS
<1>11. /\ DOMAIN e = 1 .. n + m + l
       /\ \A j \in 1 .. n : e[j] = a[j]
       /\ \A j \in n + 1 .. n + m : e[j] = b[j - n]
       /\ \A j \in n + m + 1 .. n + m + l : e[j] = c[j - n - m]
  BY <1>9, <1>10, ThreeParts
<1>12. Stock(p, 0) = a /\ Stock(p, 0)' = e
  BY <1>2, <1>7, <1>8, <1>10 DEF Stock
<1>13. PICK x, y : x = Sources(p)[1] /\ y = Sources(p)[2]
  OBVIOUS
<1>14. /\ m # 0 => x \in Procs /\ Partner(x) = p /\ Stock(x, 1) = b
       /\ l # 0 => y \in Procs /\ Partner(y) = p /\ Stock(y, 1) = c
       /\ m # 0 /\ l # 0 => x # y
       /\ \A q \in Procs : Partner(q) = p => (q = x /\ Stock(q, 1) = b) \/ (q = y /\ Stock(q, 1) = c)
  <2>1. 1 \notin DOMAIN Sources(p) => m = 0
    BY <1>8, <1>9
  <2>2. 2 \notin DOMAIN Sources(p) => l = 0
    BY <1>8, <1>9
  <2>3. 1 \in DOMAIN Sources(p) => x \in Procs /\ Partner(x) = p /\ Stock(x, 1) = b
    BY <1>4, <1>8, <1>13 DEF Stock
  <2>4. 2 \in DOMAIN Sources(p) => y \in Procs /\ Partner(y) = p /\ Stock(y, 1) = c
    BY <1>4, <1>8, <1>13 DEF Stock
  <2>5. 1 \in DOMAIN Sources(p) /\ 2 \in DOMAIN Sources(p) => x # y
    BY <1>4, <1>13
  <2>6. \A q \in Procs : Partner(q) = p => (q = x /\ Stock(q, 1) = b) \/ (q = y /\ Stock(q, 1) = c)
    <3> SUFFICES ASSUME NEW q \in Procs, Partner(q) = p
                 PROVE  (q = x /\ Stock(q, 1) = b) \/ (q = y /\ Stock(q, 1) = c)
      OBVIOUS
    <3>1. PICK j \in DOMAIN Sources(p) : Sources(p)[j] = q
      BY <1>4
    <3>2. j = 1 \/ j = 2
      BY <1>4
    <3> QED BY <1>13, <2>3, <2>4, <3>1, <3>2
  <2> QED BY <2>1, <2>2, <2>3, <2>4, <2>5, <2>6
<1> HIDE DEF part_
<1>15. \A q \in Procs \ {p} : Stock(q, 0)' = Stock(q, 0) /\ Leaves(q)' = Leaves(q) /\ pc'[q] = pc[q]
  BY <1>1 DEF Own, Stock, Leaves, MarkActive
<1>16. \A q \in Procs : (Partner(q) = p => Stock(q, 1)' = <<>>) /\ (Partner(q) # p => Stock(q, 1)' = Stock(q, 1))
  BY <1>5, <1>6 DEF Stock
<1> DEFINE from(s) == IF s[1] # p \/ s[2] = 1 \/ s[3] <= n THEN s
                      ELSE IF s[3] <= n + m THEN <<x, 1, s[3] - n>> ELSE <<y, 1, s[3] - n - m>>
           g == [s \in Slots' |-> from(s)]
<1>17. \A s \in Slots' : /\ s = <<s[1], s[2], s[3]>> /\ s[1] \in Procs /\ s[2] \in {0, 1} /\ s[3] \in Nat
                         /\ s[3] \in DOMAIN Stock(s[1], s[2])'
                         /\ s[2] = 1 => Partner(s[1]) # p
                         /\ s[1] = p /\ s[2] = 0 => s[3] \in 1 .. n + m + l
  <2> SUFFICES ASSUME NEW s \in Slots'
               PROVE  /\ s = <<s[1], s[2], s[3]>> /\ s[1] \in Procs /\ s[2] \in {0, 1} /\ s[3] \in Nat
                      /\ s[3] \in DOMAIN Stock(s[1], s[2])'
                      /\ s[2] = 1 => Partner(s[1]) # p
                      /\ s[1] = p /\ s[2] = 0 => s[3] \in 1 .. n + m + l
    OBVIOUS
  <2>1. /\ s = <<s[1], s[2], s[3]>> /\ s[1] \in Procs /\ s[2] \in {0, 1} /\ s[3] \in Nat
        /\ s[3] \in DOMAIN Stock(s[1], s[2])'
    BY <1>1 DEF Slots
  <2>2. s[2] = 1 => Partner(s[1]) # p
    BY <1>16, <2>1
  <2>3. s[1] = p /\ s[2] = 0 => s[3] \in 1 .. n + m + l
    BY <1>11, <1>12, <2>1
  <2> QED BY <2>1, <2>2, <2>3
<1>18. ASSUME NEW s \in Slots'
       PROVE  from(s) \in Slots /\ DotAt(s)' = DotAt(from(s)) /\ DestOf(s)' = DestOf(from(s))
  <2>0. /\ s = <<s[1], s[2], s[3]>> /\ s[1] \in Procs /\ s[2] \in {0, 1} /\ s[3] \in Nat
        /\ s[3] \in DOMAIN Stock(s[1], s[2])'
        /\ s[2] = 1 => Partner(s[1]) # p
        /\ s[1] = p /\ s[2] = 0 => s[3] \in 1 .. n + m + l
    BY <1>17
  <2>1. CASE s[1] # p \/ s[2] = 1
    <3>1. Stock(s[1], s[2])' = Stock(s[1], s[2]) /\ from(s) = s
      BY <1>15, <1>16, <2>0, <2>1
    <3>2. s \in Slots
      BY <2>0, <3>1 DEF Slots
    <3>3. DotAt(s)' = DotAt(s)
      BY <3>1 DEF DotAt
    <3>4. DestOf(s)' = DestOf(s)
      BY <1>1, <1>15, <2>0, <2>1 DEF DestOf
    <3> QED BY <3>1, <3>2, <3>3, <3>4
  <2>2. CASE s[1] = p /\ s[2] = 0
    <3>1. DotAt(s)' = e[s[3]] /\ DestOf(s)' = p
      BY <1>2, <1>12, <2>2 DEF DotAt, DestOf
    <3>2. CASE s[3] <= n
      <4>1. s[3] \in 1 .. n /\ from(s) = s
        BY <2>0, <2>2, <3>2
      <4>2. s \in Slots
        BY <1>9, <1>12, <2>0, <2>2, <4>1 DEF Slots
      <4>3. DotAt(s) = a[s[3]] /\ DestOf(s) = p
        BY <1>2, <1>12, <2>2 DEF DotAt, DestOf
      <4> QED BY <1>11, <3>1, <4>1, <4>2, <4>3
    <3>3. CASE ~(s[3] <= n) /\ s[3] <= n + m
      <4>1. s[3] \in n + 1 .. n + m /\ s[3] - n \in 1 .. m /\ from(s) = <<x, 1, s[3] - n>> /\ m # 0 /\ s[3] - n \in Nat
        BY <2>0, <2>2, <3>3
      <4>2. from(s) \in Slots
        BY <1>9, <1>14, <4>1 DEF Slots
      <4>3. DotAt(from(s)) = b[s[3] - n] /\ DestOf(from(s)) = p
        BY <1>14, <4>1 DEF DotAt, DestOf
      <4>4. e[s[3]] = b[s[3] - n]
        BY <1>11, <4>1
      <4> QED BY <3>1, <4>2, <4>3, <4>4
    <3>4. CASE ~(s[3] <= n) /\ ~(s[3] <= n + m)
      <4>1. s[3] \in n + m + 1 .. n + m + l /\ s[3] - n - m \in 1 .. l /\ from(s) = <<y, 1, s[3] - n - m>> /\ l # 0
            /\ s[3] - n - m \in Nat
        BY <2>0, <2>2, <3>4
      <4>2. from(s) \in Slots
        BY <1>9, <1>14, <4>1 DEF Slots
      <4>3. DotAt(from(s)) = c[s[3] - n - m] /\ DestOf(from(s)) = p
        BY <1>14, <4>1 DEF DotAt, DestOf
      <4>4. e[s[3]] = c[s[3] - n - m]
        BY <1>11, <4>1
      <4> QED BY <3>1, <4>2, <4>3, <4>4
    <3> QED BY <3>2, <3>3, <3>4
  <2> QED BY <2>0, <2>1, <2>2
\* What comes in was of a source, which has nothing on the way now.
<1>19. \A s \in Slots' : /\ s[1] # p \/ s[2] = 1 \/ s[3] <= n => from(s) = s
                         /\ ~(s[1] # p \/ s[2] = 1 \/ s[3] <= n) =>
                              /\ s[1] = p /\ s[2] = 0 /\ from(s)[2] = 1
                              /\ from(s)[1] \in Procs /\ Partner(from(s)[1]) = p
                              /\ \/ from(s)[1] = x /\ m # 0 /\ from(s)[3] = s[3] - n /\ s[3] <= n + m
                                 \/ from(s)[1] = y /\ l # 0 /\ from(s)[3] = s[3] - n - m /\ ~(s[3] <= n + m)
  <2> SUFFICES ASSUME NEW s \in Slots', ~(s[1] # p \/ s[2] = 1 \/ s[3] <= n)
               PROVE  /\ s[1] = p /\ s[2] = 0 /\ from(s)[2] = 1
                      /\ from(s)[1] \in Procs /\ Partner(from(s)[1]) = p
                      /\ \/ from(s)[1] = x /\ m # 0 /\ from(s)[3] = s[3] - n /\ s[3] <= n + m
                         \/ from(s)[1] = y /\ l # 0 /\ from(s)[3] = s[3] - n - m /\ ~(s[3] <= n + m)
    OBVIOUS
  <2>1. s[1] = p /\ s[2] = 0 /\ s[3] \in 1 .. n + m + l
    BY <1>17
  <2>2. CASE s[3] <= n + m
    <3>1. m # 0 /\ from(s) = <<x, 1, s[3] - n>>
      BY <2>1, <2>2
    <3> QED BY <1>14, <2>1, <2>2, <3>1
  <2>3. CASE ~(s[3] <= n + m)
    <3>1. l # 0 /\ from(s) = <<y, 1, s[3] - n - m>>
      BY <2>1, <2>3
    <3> QED BY <1>14, <2>1, <2>3, <3>1
  <2> QED BY <2>2, <2>3
<1>20. ASSUME NEW s \in Slots', NEW t \in Slots', from(s) = from(t) PROVE s = t
  <2>1. /\ s = <<s[1], s[2], s[3]>> /\ t = <<t[1], t[2], t[3]>> /\ s[3] \in Nat /\ t[3] \in Nat
        /\ (s[2] = 1 => Partner(s[1]) # p) /\ (t[2] = 1 => Partner(t[1]) # p)
    BY <1>17
  <2>2. PICK u, v : u = from(s) /\ v = from(t)
    OBVIOUS
  <2>3. /\ s[1] # p \/ s[2] = 1 \/ s[3] <= n => u = s
        /\ t[1] # p \/ t[2] = 1 \/ t[3] <= n => v = t
        /\ ~(s[1] # p \/ s[2] = 1 \/ s[3] <= n) =>
              /\ s[1] = p /\ s[2] = 0 /\ u[2] = 1 /\ Partner(u[1]) = p
              /\ \/ u[1] = x /\ m # 0 /\ u[3] = s[3] - n
                 \/ u[1] = y /\ l # 0 /\ u[3] = s[3] - n - m
        /\ ~(t[1] # p \/ t[2] = 1 \/ t[3] <= n) =>
              /\ t[1] = p /\ t[2] = 0 /\ v[2] = 1 /\ Partner(v[1]) = p
              /\ \/ v[1] = x /\ m # 0 /\ v[3] = t[3] - n
                 \/ v[1] = y /\ l # 0 /\ v[3] = t[3] - n - m
    <3> HIDE DEF from
    <3> QED BY <1>19, <2>2
  <2> HIDE DEF from
  <2>4. CASE (s[1] # p \/ s[2] = 1 \/ s[3] <= n) /\ (t[1] # p \/ t[2] = 1 \/ t[3] <= n)
    BY <1>20, <2>2, <2>3, <2>4
  <2>5. CASE (s[1] # p \/ s[2] = 1 \/ s[3] <= n) /\ ~(t[1] # p \/ t[2] = 1 \/ t[3] <= n)
    <3>1. s[2] = 1 /\ Partner(s[1]) = p
      BY <1>20, <2>2, <2>3, <2>5
    <3> QED BY <2>1, <3>1
  <2>6. CASE ~(s[1] # p \/ s[2] = 1 \/ s[3] <= n) /\ (t[1] # p \/ t[2] = 1 \/ t[3] <= n)
    <3>1. t[2] = 1 /\ Partner(t[1]) = p
      BY <1>20, <2>2, <2>3, <2>6
    <3> QED BY <2>1, <3>1
  <2>7. CASE ~(s[1] # p \/ s[2] = 1 \/ s[3] <= n) /\ ~(t[1] # p \/ t[2] = 1 \/ t[3] <= n)
    <3>1. s[1] = t[1] /\ s[2] = t[2] /\ u[3] = v[3] /\ u[1] = v[1]
      BY <1>20, <2>2, <2>3, <2>7
    <3>2. s[3] - n = t[3] - n \/ s[3] - n - m = t[3] - n - m
      BY <1>14, <2>3, <2>7, <3>1
    <3>3. s[3] = t[3]
      BY <2>1, <3>2
    <3> QED BY <2>1, <3>1, <3>3
  <2> QED BY <2>4, <2>5, <2>6, <2>7
<1>21. ASSUME NEW t \in Slots PROVE \E s \in Slots' : from(s) = t
  <2> DEFINE Found == \E s \in Slots' : from(s) = t
  <2> SUFFICES Found
    OBVIOUS
  <2>1. /\ t = <<t[1], t[2], t[3]>> /\ t[1] \in Procs /\ t[2] \in {0, 1} /\ t[3] \in Nat
        /\ t[3] \in DOMAIN Stock(t[1], t[2])
    BY DEF Slots
  <2>2. CASE (t[2] = 0 /\ t[1] # p) \/ (t[2] = 1 /\ Partner(t[1]) # p)
    <3>1. Stock(t[1], t[2])' = Stock(t[1], t[2]) /\ from(t) = t
      BY <1>15, <1>16, <2>1, <2>2
    <3>2. t \in Slots'
      BY <1>1, <2>1, <3>1 DEF Slots
    <3> QED BY <3>1, <3>2
  <2>3. CASE t[2] = 0 /\ t[1] = p
    <3>1. t[3] \in 1 .. n /\ t[3] \in 1 .. n + m + l
      BY <1>9, <1>12, <2>1, <2>3
    <3>2. t \in Slots' /\ from(t) = t
      BY <1>1, <1>11, <1>12, <2>1, <2>3, <3>1 DEF Slots
    <3> QED BY <3>2
  <2>4. CASE t[2] = 1 /\ Partner(t[1]) = p
    <3>1. CASE t[1] = x /\ Stock(t[1], 1) = b
      <4>1. t[3] \in 1 .. m
        BY <1>9, <2>1, <2>4, <3>1
      <4>2. PICK i, j : i = t[3] /\ j = i + n
        OBVIOUS
      <4>3. j \in 1 .. n + m + l /\ ~(j <= n) /\ j <= n + m /\ j - n = t[3] /\ j \in Nat
        <5>1. i \in 1 .. m /\ i = t[3] /\ n \in Nat /\ m \in Nat /\ l \in Nat
          BY <4>1, <4>2
        <5> QED BY ONLY <4>2, <5>1
      <4>4. PICK s : s = <<p, 0, j>>
        OBVIOUS
      <4>5. s \in Slots'
        BY <1>1, <1>11, <1>12, <4>3, <4>4 DEF Slots
      <4>6. from(s) = <<x, 1, j - n>>
        BY <4>3, <4>4
      <4> QED BY <2>1, <2>4, <3>1, <4>3, <4>5, <4>6
    <3>2. CASE t[1] = y /\ Stock(t[1], 1) = c
      <4>1. t[3] \in 1 .. l
        BY <1>9, <2>1, <2>4, <3>2
      <4>2. PICK i, j : i = t[3] /\ j = i + n + m
        OBVIOUS
      <4>3. j \in 1 .. n + m + l /\ ~(j <= n) /\ ~(j <= n + m) /\ j - n - m = t[3] /\ j \in Nat
        <5>1. i \in 1 .. l /\ n \in Nat /\ m \in Nat /\ l \in Nat
          BY <4>1, <4>2
        <5>2. j = i + n + m
          BY <4>2
        <5>3. j \in 1 .. n + m + l /\ ~(j <= n) /\ ~(j <= n + m) /\ j - n - m = i /\ j \in Nat
          BY ONLY <5>1, <5>2
        <5> QED BY <4>2, <5>3
      <4>4. PICK s : s = <<p, 0, j>>
        OBVIOUS
      <4>5. s \in Slots'
        BY <1>1, <1>11, <1>12, <4>3, <4>4 DEF Slots
      <4>6. from(s) = <<y, 1, j - n - m>>
        BY <4>3, <4>4
      <4> QED BY <2>1, <2>4, <3>2, <4>3, <4>5, <4>6
    <3> QED BY <1>14, <2>1, <2>4, <3>1, <3>2
  <2> HIDE DEF Found
  <2>5. (t[2] = 0 \/ t[2] = 1) /\ (t[1] = p \/ t[1] # p) /\ (Partner(t[1]) = p \/ Partner(t[1]) # p)
    BY <2>1
  <2> QED BY ONLY <2>2, <2>3, <2>4, <2>5
<1>22. Shifted(View, View', p, TRUE)
  <2>1. DOMAIN View.in = Slots /\ DOMAIN View'.in = Slots'
    BY DEF View
  <2>2. g \in [Slots' -> Slots] /\ \A s \in Slots' : g[s] = from(s)
    BY <1>18
  <2>3. \A s \in Slots' : View'.in[s] = View.in[from(s)] /\ View'.to[s] = View.to[from(s)]
    BY <1>18 DEF View
  <2> DEFINE Comes(s) == /\ s[1] = p /\ s[2] = 0 /\ from(s)[2] = 1 /\ View.to[from(s)] = p
  <2>4. \A s \in Slots' : from(s) = s \/ Comes(s)
    <3> SUFFICES ASSUME NEW s \in Slots', ~(s[1] # p \/ s[2] = 1 \/ s[3] <= n)
                 PROVE  Comes(s)
      BY <1>19
    <3>1. s[1] = p /\ s[2] = 0 /\ from(s)[2] = 1 /\ Partner(from(s)[1]) = p
      BY <1>19
    <3>2. from(s) \in Slots
      BY <1>18
    <3> HIDE DEF from
    <3>3. View.to[from(s)] = p
      BY <3>1, <3>2 DEF View, DestOf
    <3> QED BY <3>1, <3>3
  <2> HIDE DEF g, from
  <2> QED BY <1>20, <1>21, <2>1, <2>2, <2>3, <2>4 DEF Shifted
<1> QED BY <1>22

-----------------------------------------------------------------------------
(* Before and after the search.                                            *)
LEMMA SearchView ==
    ASSUME Types, HandshakeInv, part' = part, load' = load, dots' = dots, data' = data, buf' = buf,
           NEW M, M \subseteq Procs, \A q \in M : Part(q) \subseteq M,
           \A q \in M : pc[q] \in {"level", "search"} /\ pc'[q] \in {"level", "search", "tell", "done"},
           \A q \in Procs \ M : pc'[q] = pc[q] /\ mark'[q] = mark[q]
    PROVE  /\ Slots' = Slots /\ View'.in = View.in
           /\ \A s \in Slots : /\ DotAt(s)' = DotAt(s) 
                               /\ s[1] \notin M => DestOf(s)' = DestOf(s)
                               /\ s[1] \in M => s[2] = 0 /\ DestOf(s) = s[1]
           /\ (\A q \in M : pc'[q] # "tell") => View' = View
<1>1. Procs' = Procs /\ \A q : Part(q)' = Part(q) /\ Partner(q)' = Partner(q)
  BY OwnSameParts DEF Types
<1>2. ASSUME NEW q \in Procs PROVE Sent(q)' = Sent(q) /\ (q \in M => Sent(q) = <<>>)
  <2>1. PICK u \in Procs : u = Partner(q)
    BY PartnerFacts DEF HandshakeInv, Types
  <2>2. pc'[u] = "split" <=> pc[u] = "split"
    BY <2>1
  <2>3. CASE q \in M
    BY <1>1, <2>1, <2>3 DEF Sent, DotsDue, Shipped
  <2>4. CASE q \notin M
    <3>1. DotsDue(q, u)' <=> DotsDue(q, u)
      BY <1>1, <2>1, <2>2, <2>4 DEF DotsDue, Shipped
    <3> QED BY <1>1, <2>1, <2>4, <3>1 DEF Sent
  <2> QED BY <2>3, <2>4
<1>3. ASSUME NEW q \in Procs \ M
      PROVE  Leaves(q)' = Leaves(q) /\ Partner(q)' = Partner(q) /\ pc'[q] = pc[q]
  BY <1>1 DEF Leaves, MarkActive
<1>4. /\ Slots' = Slots /\ View.in' = View.in
      /\ \A s \in Slots : DotAt(s)' = DotAt(s) /\ (s[1] \notin M => DestOf(s)' = DestOf(s))
  BY <1>1, <1>2, <1>3, SameView
<1>5. ASSUME NEW s \in Slots, s[1] \in M
      PROVE  s[2] = 0 /\ DestOf(s) = s[1] /\ (pc'[s[1]] # "tell" => DestOf(s)' = s[1])
  <2>1. /\ s = <<s[1], s[2], s[3]>> /\ s[1] \in Procs /\ s[2] \in {0, 1} /\ s[3] \in Nat
        /\ s[3] \in DOMAIN Stock(s[1], s[2])
    BY SlotFacts
  <2>2. s[2] = 0
    BY <1>2, <1>5, <2>1 DEF Stock
  <2> QED BY <1>5, <2>2 DEF DestOf
<1>6. ASSUME \A q \in M : pc'[q] # "tell" PROVE View' = View
  <2>1. \A s \in Slots : DestOf(s)' = DestOf(s)
    BY <1>4, <1>5, <1>6
  <2> QED BY <1>4, <2>1 DEF View
<1> QED BY <1>4, <1>5, <1>6

LEMMA StartSearchView ==
    ASSUME Types, HandshakeInv, NEW p \in Procs, StartSearch(p)
    PROVE  View' = View
<1>1. /\ part' = part /\ load' = load /\ dots' = dots /\ data' = data /\ buf' = buf
  BY DEF StartSearch
<1>2. Part(p) \subseteq Procs /\ \A q \in Part(p) : Part(q) \subseteq Part(p) /\ pc[q] = "level" /\ pc'[q] = "search"
  BY PartFacts, SamePart DEF StartSearch, Together, HandshakeInv, Types
<1>3. \A q \in Procs \ Part(p) : pc'[q] = pc[q] /\ mark'[q] = mark[q]
  BY DEF StartSearch
<1>4. PICK M : M = Part(p)
  OBVIOUS
<1> QED BY <1>1, <1>2, <1>3, <1>4, SearchView

LEMMA InvertView ==
    ASSUME Types, HandshakeInv, Invert
    PROVE  View' = View
<1>1. /\ part' = part /\ load' = load /\ dots' = dots /\ data' = data /\ buf' = buf
      /\ \A q \in Procs : pc[q] = "level" /\ pc'[q] = "done"
  BY DEF Invert, Final
<1>2. \A q \in Procs : Part(q) \subseteq Procs
  BY PartFacts DEF HandshakeInv, Types
<1>3. PICK M : M = Procs
  OBVIOUS
<1> QED BY <1>1, <1>2, <1>3, SearchView

\* A guess of the cut: it is found, or the search goes on.
LEMMA BisectCases ==
    ASSUME Types, HandshakeInv, NEW p \in Procs, Bisect(p)
    PROVE  /\ part' = part /\ load' = load /\ dots' = dots /\ data' = data /\ buf' = buf /\ nkeep' = nkeep
           /\ Part(p) \subseteq Procs /\ \A q \in Part(p) : Part(q) = Part(p) /\ pc[q] = "search" /\ part[q] = part[p]
           /\ \A q \in Procs \ Part(p) : pc'[q] = pc[q] /\ mark'[q] = mark[q]
           /\ \/ (\E v : FoundCut(p, v)) /\ \A q \in Part(p) : pc'[q] = "tell"
              \/ pc' = pc /\ box' = box
           /\ \E half, s, S : mark' = Marks(p, half, s, S)
<1>1. /\ part' = part /\ load' = load /\ dots' = dots /\ data' = data /\ buf' = buf /\ nkeep' = nkeep
  BY DEF Bisect
<1>2. Part(p) \subseteq Procs /\ \A q \in Part(p) : Part(q) = Part(p) /\ pc[q] = "search" /\ part[q] = part[p]
  BY PartFacts, SamePart DEF Bisect, Together, HandshakeInv, Types
<1>3. /\ \E half, s, S : mark' = Marks(p, half, s, S)
      /\ (\E half : FoundCut(p, half)) \/ (pc' = pc /\ box' = box)
  <2>1. PICK half : (\E s \in {0, 1} : Extend(p, s, half)) \/ JustRight(p, half)
    BY DEF Bisect
  <2>2. CASE JustRight(p, half)
    BY <2>2 DEF JustRight
  <2>3. CASE \E s \in {0, 1} : Extend(p, s, half)
    <3>1. PICK s \in {0, 1} : Extend(p, s, half)
      BY <2>3
    <3>2. PICK S : mark' = Marks(p, half, s, S)
      BY <3>1 DEF Extend
    <3>3. (\E v : FoundCut(p, v)) \/ (pc' = pc /\ box' = box)
      BY <3>1 DEF Extend
    <3> QED BY <3>2, <3>3
  <2> QED BY <2>1, <2>2, <2>3
<1>4. \A q \in Procs \ Part(p) : mark'[q] = mark[q]
  BY <1>3 DEF Marks
<1>5. ASSUME NEW v, FoundCut(p, v)
      PROVE  /\ \A q \in Part(p) : pc'[q] = "tell"
             /\ \A q \in Procs \ Part(p) : pc'[q] = pc[q]
  BY <1>2, <1>5 DEF FoundCut
<1> QED BY <1>1, <1>2, <1>3, <1>4, <1>5

LEMMA BisectView ==
    ASSUME Types, HandshakeInv, NEW p \in Procs, Bisect(p)
    PROVE  /\ Slots' = Slots /\ View'.in = View.in
           /\ \A s \in Slots : /\ DotAt(s)' = DotAt(s) 
                               /\ s[1] \notin Part(p) => DestOf(s)' = DestOf(s)
                               /\ s[1] \in Part(p) => s[2] = 0 /\ DestOf(s) = s[1]
           /\ (\A q \in Part(p) : pc'[q] # "tell") => View' = View
<1>1. PICK M : M = Part(p)
  OBVIOUS
<1>2. /\ part' = part /\ load' = load /\ dots' = dots /\ data' = data /\ buf' = buf
      /\ M \subseteq Procs /\ (\A q \in M : Part(q) \subseteq M)
      /\ (\A q \in M : pc[q] \in {"level", "search"} /\ pc'[q] \in {"level", "search", "tell", "done"})
      /\ (\A q \in Procs \ M : pc'[q] = pc[q] /\ mark'[q] = mark[q])
  BY <1>1, BisectCases
<1> QED BY <1>1, <1>2, SearchView

LEMMA SplitView ==
    ASSUME Types, HandshakeInv, NEW p \in Procs, Split(p)
    PROVE  /\ View' = View /\ Slots' = Slots
           /\ \A s \in Slots : s[1] \in Part(p) => s[2] = 0 /\ DestOf(s) = s[1]
<1>1. load' = load /\ dots' = dots /\ data' = data /\ buf' = buf /\ mark' = mark
      /\ p = part[p].lo
  BY DEF Split
<1>2. Procs' = Procs
  BY <1>1 DEF Procs, NProcs
<1>3. /\ Part(p) \subseteq Procs /\ p \in Part(p)
      /\ \A q \in Part(p) : pc[q] = "split" /\ part[q] = part[p] /\ Part(q) = Part(p)
  BY PartFacts, SamePart DEF Split, Together, HandshakeInv, Types
<1>4. PICK M : M = Part(p)
  OBVIOUS
<1>5. /\ \A q \in Procs \ M : pc'[q] = pc[q] /\ part'[q] = part[q]
      /\ \A q \in M : pc'[q] = "level"
  BY <1>3, <1>4 DEF Split, Types, PartsType
<1>6. \A q \in Procs \ M : Partner(q)' = Partner(q) /\ Leaves(q)' = Leaves(q)
  BY <1>1, <1>5 DEF Partner, Leaves, MarkActive
<1>7. ASSUME NEW q \in Procs, q \in M PROVE Sent(q) = <<>> /\ Sent(q)' = <<>>
  <2>1. Partner(q) \in M
    BY <1>3, <1>4, <1>7, PartnerFacts DEF HandshakeInv, Types
  <2> QED BY <1>3, <1>4, <1>5, <1>7, <2>1 DEF Sent, DotsDue, Shipped
<1>8. ASSUME NEW q \in Procs \ M PROVE Sent(q)' = Sent(q)
  <2>1. PICK u \in Procs \ M : u = Partner(q)
    <3>1. Partner(q) \in Procs /\ Partner(q) \in Part(q)
      BY PartnerFacts DEF HandshakeInv, Types
    <3>2. Partner(q) \notin M
      <4> SUFFICES ASSUME Partner(q) \in M PROVE FALSE
        OBVIOUS
      <4>1. q \in Part(Partner(q))
        BY <3>1, SamePart DEF HandshakeInv, Types
      <4> QED BY <1>3, <1>4, <4>1
    <3> QED BY <3>1, <3>2
  <2>2. DotsDue(q, u)' <=> DotsDue(q, u)
    BY <1>5, <1>6, <2>1 DEF DotsDue, Shipped
  <2> QED BY <1>1, <1>5, <1>6, <2>1, <2>2 DEF Sent
<1>9. /\ Slots' = Slots /\ View.in' = View.in
      /\ \A s \in Slots : DotAt(s)' = DotAt(s) /\ (s[1] \notin M => DestOf(s)' = DestOf(s))
  BY <1>1, <1>2, <1>5, <1>6, <1>7, <1>8, SameView
<1>10. ASSUME NEW s \in Slots, s[1] \in M
       PROVE  s[2] = 0 /\ DestOf(s) = s[1] /\ DestOf(s)' = s[1]
  <2>1. /\ s = <<s[1], s[2], s[3]>> /\ s[1] \in Procs /\ s[2] \in {0, 1} /\ s[3] \in Nat
        /\ s[3] \in DOMAIN Stock(s[1], s[2])
    BY SlotFacts
  <2>2. s[2] = 0
    BY <1>7, <1>10, <2>1 DEF Stock
  <2> QED BY <1>3, <1>4, <1>5, <1>10, <2>2 DEF DestOf
<1>11. \A s \in Slots : DestOf(s)' = DestOf(s)
  BY <1>9, <1>10
<1>12. View' = View
  BY <1>9, <1>11 DEF View
<1> QED BY <1>4, <1>9, <1>10, <1>12

-----------------------------------------------------------------------------
(* Every dot is in one place, and it is known which have moved.            *)
\* The dots as they were loaded.
Origins == {o \in Procs \X Nat : o[2] \in DOMAIN load[o[1] + 1]}
DotFrom(o) == [proc |-> o[1], index |-> o[2], x |-> load[o[1] + 1][o[2]].x, wt |-> load[o[1] + 1][o[2]].wt]
\* Each of them is in one slot, and nothing else is.
Placed(f) ==
  /\ \A s \in DOMAIN f : <<f[s].proc, f[s].index>> \in Origins /\ f[s] = DotFrom(<<f[s].proc, f[s].index>>)
  /\ \A s, t \in DOMAIN f : f[s] = f[t] => s = t
  /\ \A o \in Origins : \E s \in DOMAIN f : f[s] = DotFrom(o)
PlacesInv == Placed(View.in)

\* A dot that has left its process is not in the partition of that process.
SameHalf(w, q, r) == q < Mid(w) <=> r < Mid(w)
Settled(q, b, o) == o = q \/ o \notin Part(q) \/ (b = 0 /\ pc[q] = "split" /\ ~SameHalf(part[q], o, q))
HomeInv == \A s \in Slots : Settled(s[1], s[2], DotAt(s).proc)

\* The first nkeep dots are those that have not left.
Stay(q) == IF pc[q] = "hear" THEN Pick(q, DOMAIN dots[q] \ Leaves(q)) ELSE dots[q]
KeptIn(q, d, n) == n \in 0 .. Len(d) /\ \A j \in DOMAIN d : d[j].proc = q <=> j <= n
KeptInv == \A q \in Procs : KeptIn(q, Stay(q), nkeep[q])
Rests(q) == pc[q] \in {"level", "search", "done"}
SidesInv == \A q \in Procs : \A r \in Part(q) : Rests(q) => pc[r] = pc[q]
MoreTypes == nkeep \in [Procs -> Nat] /\ DOMAIN sendproc = Procs /\ \A q \in Procs : DOMAIN sendproc[q] = DOMAIN load[q + 1]
OwnersInv == PlacesInv /\ HomeInv /\ KeptInv /\ SidesInv /\ MoreTypes

LEMMA ShiftPlaced ==
    ASSUME NEW v, NEW w, NEW p, NEW c, Shifted(v, w, p, c), Placed(v.in)
    PROVE  Placed(w.in)
<1>1. PICK g \in [DOMAIN w.in -> DOMAIN v.in] :
             /\ \A s, t \in DOMAIN w.in : g[s] = g[t] => s = t
             /\ \A t \in DOMAIN v.in : \E s \in DOMAIN w.in : g[s] = t
             /\ \A s \in DOMAIN w.in : w.in[s] = v.in[g[s]]
  BY DEF Shifted
<1>2. \A s \in DOMAIN w.in : g[s] \in DOMAIN v.in
  BY <1>1
<1> QED BY <1>1, <1>2 DEF Placed

LEMMA PlacesNext ==
    ASSUME Types, HandshakeInv, PlacesInv, load' = load,
           View'.in = View.in \/ (\E p, c : Shifted(View, View', p, c))
    PROVE  PlacesInv'
<1>1. Placed(View'.in)
  <2>1. CASE View'.in = View.in
    BY <2>1 DEF PlacesInv
  <2>2. CASE \E p, c : Shifted(View, View', p, c)
    <3>1. PICK v, w, p, c : v = View /\ w = View' /\ Shifted(v, w, p, c)
      BY <2>2
    <3>2. Placed(w.in)
      BY <3>1, ShiftPlaced DEF PlacesInv
    <3> QED BY <3>1, <3>2
  <2> QED BY <2>1, <2>2
<1>2. Origins' = Origins /\ \A o : DotFrom(o)' = DotFrom(o)
  BY DEF Origins, DotFrom, Procs, NProcs
<1>3. PICK f : f = View'.in
  OBVIOUS
<1>4. Placed(f)'
  BY <1>1, <1>2, <1>3 DEF Placed
<1>5. (View.in)' = f
  BY <1>3
<1> QED BY <1>4, <1>5 DEF PlacesInv

LEMMA NthBelow ==
    ASSUME NEW S, IsFiniteSet(S), S \subseteq Int, NEW n \in Int, NEW j \in 1 .. Cardinality(S)
    PROVE  Nth(S, j) <= n <=> j <= Cardinality({i \in S : i <= n})
<1>1. Cardinality(S) \in Nat
  BY FS_CardinalityType
<1>2. PICK x \in S : x = Nth(S, j) /\ Cardinality({h \in S : h <= x}) = j
  BY NthFacts
<1>3. PICK T, U : T = {h \in S : h <= x} /\ U = {i \in S : i <= n}
  OBVIOUS
<1>4. IsFiniteSet(T) /\ IsFiniteSet(U) /\ Cardinality(T) \in Nat /\ Cardinality(U) \in Nat /\ x \in Int
  BY <1>3, FS_Subset, FS_CardinalityType
<1>5. CASE x <= n
  <2>1. \A h \in S : h <= x => h <= n
    BY <1>4, <1>5
  <2>2. T \subseteq U
    BY <1>3, <2>1
  <2>3. Cardinality(T) <= Cardinality(U)
    BY <1>4, <2>2, FS_Subset
  <2> QED BY <1>2, <1>3, <1>5, <2>3
<1>6. CASE ~(x <= n)
  <2>1. (\A h \in S : h <= n => h <= x) /\ x <= x
    BY <1>4, <1>6
  <2>2. U \subseteq T /\ x \in T /\ x \notin U
    BY <1>3, <1>6, <2>1
  <2>3. Cardinality(U) <= Cardinality(T) /\ (Cardinality(T) = Cardinality(U) => T = U)
    BY <1>4, <2>2, FS_Subset
  <2>4. Cardinality(U) < Cardinality(T)
    BY <1>4, <2>2, <2>3
  <2>5. ~(j <= Cardinality(U))
    BY <1>2, <1>3, <1>4, <2>4
  <2> QED BY <1>2, <1>3, <1>6, <2>5
<1> QED BY <1>5, <1>6

-----------------------------------------------------------------------------
LEMMA PlacesStep ==
    ASSUME Types, HandshakeInv, OwnersInv, [Next]_vars
    PROVE  PlacesInv' /\ load' = load
<1>1. ASSUME NEW p \in Procs, Exchanges(p)
      PROVE  load' = load /\ (View'.in = View.in \/ (\E q, c : Shifted(View, View', q, c)))
  <2>1. load' = load
    BY <1>1, ExchangesOwn DEF Own
  <2> QED BY <1>1, <2>1, QuietSent, SendDotsSent, PostShifts, WaitShifts DEF Exchanges
<1>2. ASSUME NEW p \in Procs, StartSearch(p) \/ Bisect(p) \/ Split(p)
      PROVE  load' = load /\ View'.in = View.in
  <2>1. load' = load
    BY <1>2 DEF StartSearch, Bisect, Split
  <2> QED BY <1>2, <2>1, StartSearchView, BisectView, SplitView
<1>3. CASE Invert
  <2>1. load' = load
    BY <1>3 DEF Invert
  <2> QED BY <1>3, <2>1, InvertView, PlacesNext DEF OwnersInv
<1>4. CASE UNCHANGED vars
  <2>1. load' = load
    BY <1>4 DEF vars
  <2>2. Procs' = Procs /\ \A q : Part(q)' = Part(q) /\ Partner(q)' = Partner(q)
    BY <1>4, OwnSameParts DEF vars, Types
  <2>3. \A q : Sent(q)' = Sent(q) /\ Leaves(q)' = Leaves(q) /\ dots'[q] = dots[q] /\ pc'[q] = pc[q]
    BY <1>4, <2>2 DEF vars, Sent, DotsDue, Shipped, Leaves, MarkActive
  <2>4. View' = View
    BY <2>2, <2>3, UnchangedView
  <2> QED BY <2>1, <2>4, PlacesNext DEF OwnersInv
<1>5. Next \/ UNCHANGED vars
  OBVIOUS
<1> QED BY <1>1, <1>2, <1>3, <1>4, <1>5, PlacesNext DEF Next, Exchanges, OwnersInv

LEMMA SidesStep ==
    ASSUME Types, HandshakeInv, OwnersInv, [Next]_vars
    PROVE  SidesInv'
<1>1. ASSUME NEW p \in Procs, Exchanges(p) PROVE SidesInv'
  <2>1. Own(p) /\ Procs' = Procs /\ \A q : Part(q)' = Part(q)
    BY <1>1, ExchangesOwn, OwnSameParts DEF Own, Types
  <2>2. ~Rests(p) /\ ~Rests(p)'
    BY <1>1 DEF Exchanges, Tell, Hear, Post, PostFor, Ping, Await, SendDots, Wait, Go, Rests, Types, PartsType
  <2>3. ASSUME NEW q \in Procs, NEW r \in Part(q), Rests(q)' PROVE pc'[r] = pc'[q]
    <3>1. q # p /\ Rests(q) /\ pc'[q] = pc[q] /\ r \in Procs
      BY <2>1, <2>2, <2>3, PartFacts DEF Own, Rests, HandshakeInv, Types
    <3>2. pc[r] = pc[q]
      BY <3>1 DEF OwnersInv, SidesInv
    <3>3. r # p
      BY <2>2, <3>1, <3>2 DEF Rests
    <3> QED BY <2>1, <3>1, <3>2, <3>3 DEF Own
  <2> QED BY <2>1, <2>3 DEF SidesInv
<1>2. ASSUME NEW M, M \subseteq Procs, NEW l, part' = part, load' = load,
             \A q \in Procs : Part(q) \subseteq M \/ Part(q) \cap M = {},
             \A q \in M : pc'[q] = l, \A q \in Procs \ M : pc'[q] = pc[q]
      PROVE  SidesInv'
  <2>1. Procs' = Procs /\ \A q : Part(q)' = Part(q)
    BY <1>2, OwnSameParts DEF Types
  <2>2. ASSUME NEW q \in Procs, NEW r \in Part(q), Rests(q)' PROVE pc'[r] = pc'[q]
    <3>1. r \in Procs /\ q \in Part(q)
      BY PartFacts DEF HandshakeInv, Types
    <3>2. CASE Part(q) \subseteq M
      BY <1>2, <3>1, <3>2
    <3>3. CASE Part(q) \cap M = {}
      <4>1. pc'[r] = pc[r] /\ pc'[q] = pc[q]
        BY <1>2, <3>1, <3>3
      <4> QED BY <2>2, <4>1 DEF OwnersInv, SidesInv, Rests
    <3> QED BY <1>2, <3>2, <3>3
  <2> QED BY <2>1, <2>2 DEF SidesInv
<1>3. ASSUME NEW p \in Procs PROVE \A q \in Procs : Part(q) \subseteq Part(p) \/ Part(q) \cap Part(p) = {}
  <2> SUFFICES ASSUME NEW q \in Procs, NEW r \in Part(q), r \in Part(p) PROVE Part(q) = Part(p)
    OBVIOUS
  <2>1. Part(r) = Part(q) /\ Part(r) = Part(p)
    BY SamePart DEF HandshakeInv, Types
  <2> QED BY <2>1
<1>4. ASSUME NEW p \in Procs, StartSearch(p) PROVE SidesInv'
  <2>1. /\ part' = part /\ load' = load /\ Part(p) \subseteq Procs
        /\ \A q \in Part(p) : pc'[q] = "search"
        /\ \A q \in Procs \ Part(p) : pc'[q] = pc[q]
    BY <1>4, PartFacts DEF StartSearch, HandshakeInv, Types
  <2>2. PICK M : M = Part(p)
    OBVIOUS
  <2> QED BY <1>2, <1>3, <2>1, <2>2
<1>5. ASSUME NEW p \in Procs, Bisect(p) PROVE SidesInv'
  <2>1. /\ part' = part /\ load' = load /\ Part(p) \subseteq Procs
        /\ (\A q \in Part(p) : pc'[q] = "tell") \/ (\A q \in Part(p) : pc'[q] = "search")
        /\ \A q \in Procs \ Part(p) : pc'[q] = pc[q]
    BY <1>5, BisectCases
  <2>2. PICK M : M = Part(p)
    OBVIOUS
  <2> QED BY <1>2, <1>3, <2>1, <2>2
<1>6. CASE Invert
  <2>1. part' = part /\ load' = load /\ \A q \in Procs : pc'[q] = "done"
    BY <1>6 DEF Invert
  <2>2. PICK M : M = Procs
    OBVIOUS
  <2>3. \A q \in Procs : Part(q) \subseteq M
    BY <2>2, PartFacts DEF HandshakeInv, Types
  <2> QED BY <1>2, <2>1, <2>2, <2>3
<1>7. ASSUME NEW p \in Procs, Split(p) PROVE SidesInv'
  <2>1. /\ Types' /\ HandshakeInv'
    BY <1>7, SplitKeeps
  <2>2. /\ load' = load /\ Part(p) \subseteq Procs /\ Procs' = Procs
        /\ \A q \in Part(p) : pc'[q] = "level" /\ part[q] = part[p] /\ Part(q) = Part(p)
        /\ \A q \in Procs \ Part(p) : pc'[q] = pc[q] /\ part'[q] = part[q] /\ Part(q)' = Part(q)
    BY <1>7, PartFacts, SamePart DEF Split, HandshakeInv, Types, PartsType, Procs, NProcs, Part
  <2>3. ASSUME NEW q \in Part(p), NEW r \in Part(q)' PROVE r \in Part(p)
    <3>1. Part(q)' \subseteq Part(q)
      <4>1. PICK w : w = part[p]
        OBVIOUS
      <4>2. w.lo \in Int /\ w.hi \in Int /\ Partition(w) /\ q \in w.lo .. w.hi /\ p = w.lo /\ q \in Procs
        <5>1. pc[p] = "split" /\ part[p].lo = p
          BY <1>7, PartFacts DEF Split, Together, HandshakeInv, Types
        <5>2. part[p].lo # part[p].hi
          BY <5>1 DEF HandshakeInv, PartsInv, Exchange
        <5>3. Partition(part[p]) /\ q \in part[p].lo .. part[p].hi
          BY <5>2, PartFacts DEF HandshakeInv, Types, Part
        <5>4. part[p].lo \in Int /\ part[p].hi \in Int
          BY <5>3 DEF Partition
        <5> QED BY <2>2, <4>1, <5>1, <5>3, <5>4
      <4>3. Mid(w) \in Int /\ w.lo < Mid(w) /\ Mid(w) <= w.hi
        BY <4>2, HalfBounds
      <4>4. part'[q] = IF q < Mid(w) THEN [w EXCEPT !.hi = Mid(w) - 1] ELSE [w EXCEPT !.lo = Mid(w)]
        BY <1>7, <2>2, <4>1, <4>2 DEF Split
      <4>5. part'[q].lo \in Int /\ part'[q].hi \in Int /\ w.lo <= part'[q].lo /\ part'[q].hi <= w.hi
        BY <4>2, <4>3, <4>4 DEF Partition
      <4>6. Part(q)' = part'[q].lo .. part'[q].hi /\ Part(q) = w.lo .. w.hi
        BY <2>2, <4>1 DEF Part
      <4> QED BY <4>2, <4>5, <4>6
    <3> QED BY <2>2, <3>1
  <2>4. ASSUME NEW q \in Procs, NEW r \in Part(q)', Rests(q)' PROVE pc'[r] = pc'[q]
    <3>1. CASE q \in Part(p)
      BY <2>2, <2>3, <3>1
    <3>2. CASE q \notin Part(p)
      <4>1. r \in Part(q) /\ r \in Procs
        BY <2>2, <3>2, PartFacts DEF HandshakeInv, Types
      <4>2. r \notin Part(p)
        <5> SUFFICES ASSUME r \in Part(p) PROVE FALSE
          OBVIOUS
        <5>1. Part(r) = Part(q) /\ Part(r) = Part(p) /\ q \in Part(q)
          BY <4>1, SamePart, PartFacts DEF HandshakeInv, Types
        <5> QED BY <3>2, <5>1
      <4> QED BY <2>2, <2>4, <3>2, <4>1, <4>2 DEF OwnersInv, SidesInv, Rests
    <3> QED BY <3>1, <3>2
  <2> QED BY <2>2, <2>4 DEF SidesInv
<1>8. CASE UNCHANGED vars
  <2>1. Procs' = Procs /\ \A q : Part(q)' = Part(q)
    BY <1>8, OwnSameParts DEF vars, Types
  <2> QED BY <1>8, <2>1 DEF vars, OwnersInv, SidesInv, Rests
<1>9. Next \/ UNCHANGED vars
  OBVIOUS
<1> QED BY <1>1, <1>4, <1>5, <1>6, <1>7, <1>8, <1>9 DEF Next, Exchanges


\* What comes in has left its process.
LEMMA ArrivingFrom ==
    ASSUME Types, HandshakeInv, NEW p \in Procs, Wait(p)
    PROVE  /\ Arriving(p) \in Seq(Dots)
           /\ \A j \in DOMAIN Arriving(p) :
                \E s \in Slots : s[2] = 1 /\ s[1] # p /\ Partner(s[1]) = p /\ DotAt(s) = Arriving(p)[j]
<1>1. /\ \A j \in DOMAIN Sources(p) : Sources(p)[j] \in Procs /\ Partner(Sources(p)[j]) = p
      /\ \A q \in Procs : Partner(q) = p => q # p /\ Sent(q) = Head(data[q][p])
  BY WaitSources
<1> DEFINE part_(j) == IF j \in DOMAIN Sources(p) THEN Sent(Sources(p)[j]) ELSE <<>>
<1>2. Arriving(p) = part_(1) \o part_(2)
  <2>1. \A j \in DOMAIN Sources(p) : Head(data[Sources(p)[j]][p]) = Sent(Sources(p)[j])
    BY <1>1
  <2> QED BY <2>1 DEF Arriving
<1>3. ASSUME NEW i
      PROVE  /\ part_(i) \in Seq(Dots)
             /\ \A j \in DOMAIN part_(i) :
                  \E s \in Slots : s[2] = 1 /\ s[1] # p /\ Partner(s[1]) = p /\ DotAt(s) = part_(i)[j]
  <2>1. CASE i \notin DOMAIN Sources(p)
    <3>1. <<>> \in Seq(Dots) /\ DOMAIN <<>> = {}
      OBVIOUS
    <3>2. part_(i) = <<>>
      BY <2>1
    <3> QED BY <3>1, <3>2
  <2>2. CASE i \in DOMAIN Sources(p)
    <3>1. PICK q \in Procs : q = Sources(p)[i] /\ Partner(q) = p /\ q # p
      BY <1>1, <2>2
    <3>2. part_(i) = Sent(q) /\ Stock(q, 1) = Sent(q) /\ Sent(q) \in Seq(Dots)
      BY <2>2, <3>1, SentFacts DEF Stock
    <3>3. DOMAIN Sent(q) \subseteq Nat
      BY <3>2
    <3> HIDE DEF part_
    <3>4. ASSUME NEW j \in DOMAIN part_(i)
          PROVE  \E s \in Slots : s[2] = 1 /\ s[1] # p /\ Partner(s[1]) = p /\ DotAt(s) = part_(i)[j]
      <4>1. PICK s : s = <<q, 1, j>>
        OBVIOUS
      <4>2. s \in Slots
        BY <3>2, <3>3, <4>1 DEF Slots
      <4>3. DotAt(s) = part_(i)[j]
        BY <3>2, <4>1 DEF DotAt
      <4> QED BY <3>1, <4>1, <4>2, <4>3
    <3> QED BY <3>2, <3>4
  <2> QED BY <2>1, <2>2
<1>4. PICK a, b \in Seq(Dots) : a = part_(1) /\ b = part_(2)
  <2> HIDE DEF part_
  <2> QED BY <1>3
<1>5. \A c \in {a, b} : \A j \in DOMAIN c :
         \E s \in Slots : s[2] = 1 /\ s[1] # p /\ Partner(s[1]) = p /\ DotAt(s) = c[j]
  <2> HIDE DEF part_
  <2> QED BY <1>3, <1>4
<1>6. Arriving(p) = a \o b
  BY <1>2, <1>4
<1> HIDE DEF part_
<1>7. ASSUME NEW j \in DOMAIN Arriving(p) PROVE \E c \in {a, b} : \E i \in DOMAIN c : Arriving(p)[j] = c[i]
  <2>1. DOMAIN (a \o b) = 1 .. Len(a) + Len(b) /\ Len(a) \in Nat /\ Len(b) \in Nat
        /\ DOMAIN a = 1 .. Len(a) /\ DOMAIN b = 1 .. Len(b)
    OBVIOUS
  <2>2. CASE j \in 1 .. Len(a)
    <3>1. (a \o b)[j] = a[j]
      BY <2>2
    <3> QED BY <1>6, <2>1, <2>2, <3>1
  <2>3. CASE j \in Len(a) + 1 .. Len(a) + Len(b)
    <3>1. (a \o b)[j] = b[j - Len(a)] /\ j - Len(a) \in 1 .. Len(b)
      BY <2>1, <2>3
    <3> QED BY <1>6, <2>1, <3>1
  <2> QED BY <1>6, <2>1, <2>2, <2>3
<1>8. a \o b \in Seq(Dots)
  OBVIOUS
<1> QED BY <1>5, <1>6, <1>7, <1>8

LEMMA TellKept ==
    ASSUME Types, HandshakeInv, OwnersInv, NEW p \in Procs, Tell(p)
    PROVE  KeptIn(p, Stay(p), nkeep[p])' /\ nkeep'[p] \in Nat
<1>1. /\ pc[p] = "tell" /\ pc'[p] = "hear" /\ dots' = dots /\ mark' = mark /\ part' = part
      /\ nkeep'[p] = Kept(p)
  BY DEF Tell, Go, Types, PartsType, OwnersInv, MoreTypes
<1>2. KeptIn(p, dots[p], nkeep[p])
  BY <1>1 DEF OwnersInv, KeptInv, Stay
<1>3. PICK d \in Seq(Dots) : d = dots[p] /\ DOMAIN d = 1 .. Len(d) /\ Len(d) \in Nat
  BY DEF Types, DotsType
<1>4. PICK n \in 0 .. Len(d) : n = nkeep[p] /\ \A j \in DOMAIN d : d[j].proc = p <=> j <= n
  BY <1>2, <1>3 DEF KeptIn
<1>5. PICK S : S = DOMAIN dots[p] \ Leaves(p)
  OBVIOUS
<1>6. /\ S \subseteq DOMAIN dots[p] /\ S \subseteq Int
  BY <1>3, <1>5
<1>7. /\ IsFiniteSet(S) /\ Cardinality(S) \in Nat
      /\ Pick(p, S) \in Seq(Dots) /\ Len(Pick(p, S)) = Cardinality(S)
      /\ DOMAIN Pick(p, S) = 1 .. Cardinality(S)
      /\ \A j \in 1 .. Cardinality(S) : Nth(S, j) \in S /\ Pick(p, S)[j] = dots[p][Nth(S, j)]
  BY <1>6, PickFacts DEF Types
<1>8. {i \in 1 .. nkeep[p] : i \notin Leaves(p)} = {i \in S : i <= n}
  <2>1. \A i : i \in 1 .. n <=> i \in DOMAIN d /\ i <= n
    BY <1>3
  <2> QED BY <1>3, <1>4, <1>5, <2>1
<1>9. Kept(p) = Cardinality({i \in S : i <= n})
  BY <1>8 DEF Kept
<1>10. Kept(p) \in 0 .. Cardinality(S)
  <2>1. {i \in S : i <= n} \subseteq S
    OBVIOUS
  <2>2. /\ IsFiniteSet({i \in S : i <= n}) /\ Cardinality({i \in S : i <= n}) <= Cardinality(S)
    BY <1>7, <2>1, FS_Subset
  <2>3. Cardinality({i \in S : i <= n}) \in Nat
    BY <2>2, FS_CardinalityType
  <2> QED BY <1>7, <1>9, <2>2, <2>3
<1>11. ASSUME NEW j \in 1 .. Cardinality(S) PROVE Pick(p, S)[j].proc = p <=> j <= Kept(p)
  <2>1. Nth(S, j) <= n <=> j <= Kept(p)
    <3>1. n \in Int /\ IsFiniteSet(S) /\ S \subseteq Int
      BY <1>6, <1>7
    <3>2. Nth(S, j) <= n <=> j <= Cardinality({i \in S : i <= n})
      BY ONLY <3>1, NthBelow, j \in 1 .. Cardinality(S)
    <3> QED BY <1>9, <3>2
  <2>2. Nth(S, j) \in DOMAIN d /\ Pick(p, S)[j] = d[Nth(S, j)]
    BY <1>3, <1>6, <1>7
  <2> QED BY <1>4, <2>1, <2>2
<1>12. Stay(p)' = Pick(p, S)
  <2>1. Leaves(p)' = Leaves(p) /\ \A R : Pick(p, R)' = Pick(p, R)
    BY <1>1 DEF Leaves, MarkActive, Partner, Pick
  <2> QED BY <1>1, <1>5, <2>1 DEF Stay
<1>13. KeptIn(p, Pick(p, S), Kept(p))
  BY <1>7, <1>10, <1>11 DEF KeptIn
<1>14. PICK e, r : e = Pick(p, S) /\ r = Kept(p)
  OBVIOUS
<1> QED BY <1>1, <1>7, <1>10, <1>12, <1>13, <1>14 DEF KeptIn

LEMMA WaitKept ==
    ASSUME Types, HandshakeInv, OwnersInv, NEW p \in Procs, Wait(p)
    PROVE  KeptIn(p, Stay(p), nkeep[p])'
<1>1. pc[p] = "wait" /\ pc'[p] = "split" /\ dots'[p] = dots[p] \o Arriving(p) /\ nkeep' = nkeep
  BY DEF Wait, Go, Types, PartsType, DotsType
<1>2. KeptIn(p, dots[p], nkeep[p])
  BY <1>1 DEF OwnersInv, KeptInv, Stay
<1>3. PICK a, b \in Seq(Dots) : a = dots[p] /\ b = Arriving(p)
  BY ArrivingFrom DEF Types, DotsType
<1>4. \A j \in DOMAIN b : b[j].proc # p
  <2> SUFFICES ASSUME NEW j \in DOMAIN b PROVE b[j].proc # p
    OBVIOUS
  <2>1. PICK s \in Slots : s[2] = 1 /\ s[1] # p /\ Partner(s[1]) = p /\ DotAt(s) = b[j]
    BY <1>3, ArrivingFrom
  <2>2. s[1] \in Procs /\ p \in Part(s[1])
    BY <2>1, SlotFacts, PartnerFacts DEF HandshakeInv, Types
  <2>3. DotAt(s).proc = s[1] \/ DotAt(s).proc \notin Part(s[1])
    BY <2>1 DEF OwnersInv, HomeInv, Settled
  <2> QED BY <2>1, <2>2, <2>3
<1>5. PICK n \in Nat : n = nkeep[p] /\ n <= Len(a) /\ \A j \in DOMAIN a : a[j].proc = p <=> j <= n
  BY <1>2, <1>3 DEF KeptIn
<1>6. Len(a) \in Nat /\ Len(b) \in Nat /\ DOMAIN (a \o b) = 1 .. Len(a) + Len(b) /\ Len(a \o b) = Len(a) + Len(b)
      /\ DOMAIN a = 1 .. Len(a) /\ DOMAIN b = 1 .. Len(b)
  OBVIOUS
<1>7. ASSUME NEW j \in DOMAIN (a \o b) PROVE (a \o b)[j].proc = p <=> j <= n
  <2>1. CASE j \in 1 .. Len(a)
    <3>1. (a \o b)[j] = a[j]
      BY <2>1
    <3> QED BY <1>5, <1>6, <2>1, <3>1
  <2>2. CASE j \in Len(a) + 1 .. Len(a) + Len(b)
    <3>1. (a \o b)[j] = b[j - Len(a)] /\ j - Len(a) \in 1 .. Len(b) /\ ~(j <= n)
      BY <1>5, <1>6, <2>2
    <3> QED BY <1>4, <1>6, <3>1
  <2> QED BY <1>6, <2>1, <2>2
<1>8. Stay(p)' = a \o b /\ nkeep'[p] = n
  BY <1>1, <1>3, <1>5 DEF Stay
<1>9. n \in 0 .. Len(a \o b)
  BY <1>5, <1>6
<1>10. PICK e : e = a \o b
  OBVIOUS
<1> QED BY <1>7, <1>8, <1>9, <1>10 DEF KeptIn

\* A step that changes neither the dots that stay nor their number.
LEMMA KeptSame ==
    ASSUME Types, OwnersInv, NEW q \in Procs, nkeep'[q] = nkeep[q],
           \/ dots'[q] = dots[q] /\ pc[q] # "hear" /\ pc'[q] # "hear"
           \/ dots'[q] = dots[q] /\ pc[q] = "hear" /\ pc'[q] = "hear" /\ part'[q] = part[q] /\ mark'[q] = mark[q]
    PROVE  KeptIn(q, Stay(q), nkeep[q])' /\ nkeep'[q] \in Nat
<1>1. Stay(q)' = Stay(q)
  BY DEF Stay, Pick, Leaves, MarkActive, Partner
<1>2. KeptIn(q, Stay(q), nkeep[q]) /\ nkeep[q] \in Nat
  BY DEF OwnersInv, KeptInv, MoreTypes
<1>3. PICK e, n : e = Stay(q) /\ n = nkeep[q]
  OBVIOUS
<1> QED BY <1>1, <1>2, <1>3 DEF KeptIn

LEMMA KeptStep ==
    ASSUME Types, HandshakeInv, OwnersInv, [Next]_vars
    PROVE  KeptInv' /\ MoreTypes'
<1> SUFFICES /\ Procs' = Procs /\ load' = load
             /\ DOMAIN nkeep' = Procs /\ DOMAIN sendproc' = Procs
             /\ \A q \in Procs : DOMAIN sendproc'[q] = DOMAIN load[q + 1]
             /\ \A q \in Procs : KeptIn(q, Stay(q), nkeep[q])' /\ nkeep'[q] \in Nat
  <2>1. ASSUME Procs' = Procs, load' = load, DOMAIN nkeep' = Procs, DOMAIN sendproc' = Procs,
               \A q \in Procs : DOMAIN sendproc'[q] = DOMAIN load[q + 1],
               \A q \in Procs : KeptIn(q, Stay(q), nkeep[q])' /\ nkeep'[q] \in Nat
        PROVE  KeptInv' /\ MoreTypes'
    <3>1. KeptInv'
      BY <2>1 DEF KeptInv
    <3>2. nkeep' \in [Procs -> Nat]
      <4>1. nkeep' = [q \in DOMAIN nkeep' |-> nkeep'[q]]
        <5>1. \/ nkeep' = nkeep
              \/ \E p \in Procs : nkeep' = [nkeep EXCEPT ![p] = Kept(p)]
          BY DEF Next, vars, StartSearch, Bisect, Tell, Hear, Post, PostFor, Ping, Await, SendDots, Wait, Split, Invert
        <5> QED BY <5>1 DEF OwnersInv, MoreTypes
      <4> QED BY <2>1, <4>1
    <3>3. MoreTypes'
      BY <2>1, <3>2 DEF MoreTypes
    <3> QED BY <3>1, <3>3
  <2> QED BY <2>1
<1>1. load' = load /\ Procs' = Procs
  BY PlacesStep DEF Procs, NProcs
<1>2. DOMAIN nkeep' = Procs
  <2>1. \/ nkeep' = nkeep
        \/ \E p \in Procs : nkeep' = [nkeep EXCEPT ![p] = Kept(p)]
    BY DEF Next, vars, StartSearch, Bisect, Tell, Hear, Post, PostFor, Ping, Await, SendDots, Wait, Split, Invert
  <2> QED BY <2>1 DEF OwnersInv, MoreTypes
<1>3. DOMAIN sendproc' = Procs /\ \A q \in Procs : DOMAIN sendproc'[q] = DOMAIN load[q + 1]
  <2>1. CASE Invert
    BY <2>1 DEF Invert, OwnersInv, MoreTypes
  <2>2. CASE ~Invert
    <3>1. sendproc' = sendproc
      BY <2>2 DEF Next, vars, StartSearch, Bisect, Tell, Hear, Post, PostFor, Ping, Await, SendDots, Wait, Split
    <3> QED BY <3>1 DEF OwnersInv, MoreTypes
  <2> QED BY <2>1, <2>2
<1>4. ASSUME NEW p \in Procs, Exchanges(p), NEW q \in Procs
      PROVE  KeptIn(q, Stay(q), nkeep[q])' /\ nkeep'[q] \in Nat
  <2>1. Own(p)
    BY <1>4, ExchangesOwn
  <2>2. CASE q # p
    <3>1. nkeep'[q] = nkeep[q]
      BY <1>4, <2>2 DEF Exchanges, Tell, Hear, Post, PostFor, Ping, Await, SendDots, Wait, OwnersInv, MoreTypes
    <3>2. dots'[q] = dots[q] /\ pc'[q] = pc[q] /\ part'[q] = part[q] /\ mark'[q] = mark[q]
      BY <2>1, <2>2 DEF Own
    <3> QED BY <3>1, <3>2, KeptSame
  <2>3. CASE q = p /\ Tell(p)
    BY <2>3, TellKept
  <2>4. CASE q = p /\ Wait(p)
    <3>1. nkeep' = nkeep
      BY <2>4 DEF Wait
    <3> QED BY <2>4, <3>1, WaitKept DEF OwnersInv, MoreTypes
  <2>5. CASE q = p /\ Hear(p)
    BY <2>5, KeptSame DEF Hear
  <2>6. CASE q = p /\ (Ping(p) \/ Await(p) \/ SendDots(p))
    <3>1. /\ dots' = dots /\ nkeep' = nkeep /\ pc[p] # "hear" /\ pc'[p] # "hear"
      BY <2>6 DEF Ping, Await, SendDots, Go, Types, PartsType
    <3> QED BY <2>6, <3>1, KeptSame
  <2>7. CASE q = p /\ Post(p)
    <3>1. /\ nkeep' = nkeep /\ pc[p] = "hear" /\ pc'[p] = "ping"
          /\ dots'[p] = Pick(p, DOMAIN dots[p] \ Leaves(p))
      BY <2>7 DEF Post, PostFor, Go, Types, PartsType, DotsType
    <3>2. Stay(p)' = Stay(p)
      BY <3>1 DEF Stay
    <3>3. KeptIn(p, Stay(p), nkeep[p]) /\ nkeep[p] \in Nat
      BY DEF OwnersInv, KeptInv, MoreTypes
    <3>4. PICK e, n : e = Stay(p) /\ n = nkeep[p]
      OBVIOUS
    <3> QED BY <2>7, <3>1, <3>2, <3>3, <3>4 DEF KeptIn
  <2> QED BY <1>4, <2>2, <2>3, <2>4, <2>5, <2>6, <2>7 DEF Exchanges
<1>5. ASSUME nkeep' = nkeep, dots' = dots,
             \A q \in Procs : \/ pc[q] # "hear" /\ pc'[q] # "hear"
                              \/ pc'[q] = pc[q] /\ part'[q] = part[q] /\ mark'[q] = mark[q],
             NEW q \in Procs
      PROVE  KeptIn(q, Stay(q), nkeep[q])' /\ nkeep'[q] \in Nat
  BY <1>5, KeptSame
<1>6. ASSUME NEW p \in Procs, StartSearch(p), NEW q \in Procs
      PROVE  KeptIn(q, Stay(q), nkeep[q])' /\ nkeep'[q] \in Nat
  <2>1. \A r \in Part(p) : pc[r] = "level"
    BY <1>6 DEF StartSearch, Together
  <2>2. /\ nkeep' = nkeep /\ dots' = dots /\ part' = part
        /\ pc' = [r \in Procs |-> IF r \in Part(p) THEN "search" ELSE pc[r]]
        /\ \A r \in Procs \ Part(p) : mark'[r] = mark[r]
    BY <1>6 DEF StartSearch
  <2> QED BY <1>5, <2>1, <2>2
<1>7. ASSUME NEW p \in Procs, Bisect(p), NEW q \in Procs
      PROVE  KeptIn(q, Stay(q), nkeep[q])' /\ nkeep'[q] \in Nat
  <2>1. /\ part' = part /\ dots' = dots /\ nkeep' = nkeep
        /\ \A r \in Part(p) : pc[r] = "search"
        /\ \A r \in Procs \ Part(p) : pc'[r] = pc[r] /\ mark'[r] = mark[r]
        /\ (\A r \in Part(p) : pc'[r] = "tell") \/ pc' = pc
    BY <1>7, BisectCases
  <2> QED BY <1>5, <2>1
<1>8. ASSUME NEW p \in Procs, Split(p), NEW q \in Procs
      PROVE  KeptIn(q, Stay(q), nkeep[q])' /\ nkeep'[q] \in Nat
  <2>1. \A r \in Part(p) : pc[r] = "split"
    BY <1>8 DEF Split, Together
  <2>2. /\ nkeep' = nkeep /\ dots' = dots /\ mark' = mark
        /\ pc' = [r \in Procs |-> IF r \in Part(p) THEN "level" ELSE pc[r]]
        /\ \A r \in Procs \ Part(p) : part'[r] = part[r]
    BY <1>8 DEF Split
  <2> QED BY <1>5, <2>1, <2>2
<1>9. ASSUME Invert, NEW q \in Procs
      PROVE  KeptIn(q, Stay(q), nkeep[q])' /\ nkeep'[q] \in Nat
  BY <1>5, <1>9 DEF Invert, Final
<1>10. ASSUME UNCHANGED vars, NEW q \in Procs
      PROVE  KeptIn(q, Stay(q), nkeep[q])' /\ nkeep'[q] \in Nat
  BY <1>5, <1>10 DEF vars
<1>11. Next \/ UNCHANGED vars
  OBVIOUS
<1> QED BY <1>1, <1>2, <1>3, <1>4, <1>6, <1>7, <1>8, <1>9, <1>10, <1>11 DEF Next, Exchanges

LEMMA HomeSame ==
    ASSUME Types, OwnersInv, View' = View \/ View'.in = View.in, NEW s \in Slots',
           Part(s[1])' = Part(s[1]), part'[s[1]] = part[s[1]],
           pc[s[1]] = "split" => pc'[s[1]] = "split"
    PROVE  Settled(s[1], s[2], DotAt(s).proc)'
<1>1. View'.in = View.in /\ DOMAIN View'.in = Slots' /\ DOMAIN View.in = Slots
  BY DEF View
<1>2. s \in Slots /\ DotAt(s)' = DotAt(s)
  BY <1>1 DEF View
<1>3. Settled(s[1], s[2], DotAt(s).proc)
  BY <1>2 DEF OwnersInv, HomeInv
<1> QED BY <1>2, <1>3 DEF Settled, SameHalf, Mid, Half

LEMMA HomeStep ==
    ASSUME Types, HandshakeInv, OwnersInv, [Next]_vars
    PROVE  HomeInv'
<1>1. ASSUME part' = part, load' = load, View'.in = View.in,
             \A q \in Procs : pc[q] = "split" => pc'[q] = "split"
      PROVE  HomeInv'
  <2>1. Procs' = Procs /\ \A q : Part(q)' = Part(q)
    BY <1>1, OwnSameParts DEF Types
  <2>2. \A s \in Slots' : s[1] \in Procs
    BY <2>1 DEF Slots
  <2> QED BY <1>1, <2>1, <2>2, HomeSame DEF HomeInv
<1>2. ASSUME NEW p \in Procs, Tell(p) \/ Hear(p) \/ Ping(p) \/ Await(p) \/ SendDots(p) PROVE HomeInv'
  <2>1. Own(p) /\ View' = View
    BY <1>2, ExchangesOwn, QuietSent, SendDotsSent DEF Exchanges
  <2>2. pc[p] # "split"
    BY <1>2 DEF Tell, Hear, Ping, Await, SendDots
  <2> QED BY <1>1, <2>1, <2>2 DEF Own
<1>3. ASSUME NEW p \in Procs, NEW c \in BOOLEAN, Exchanges(p), Shifted(View, View', p, c), pc[p] # "split",
             c => pc'[p] = "split"
      PROVE  HomeInv'
  <2>1. Own(p) /\ Procs' = Procs /\ \A q : Part(q)' = Part(q)
    BY <1>3, ExchangesOwn, OwnSameParts DEF Own, Types
  <2>2. DOMAIN View'.in = Slots' /\ DOMAIN View.in = Slots
    BY DEF View
  <2>3. PICK g \in [Slots' -> Slots] :
             \A s \in Slots' : /\ View'.in[s] = View.in[g[s]]
                               /\ \/ g[s] = s
                                  \/ s[1] = p /\ g[s][1] = p
                                  \/ c /\ s[1] = p /\ s[2] = 0 /\ g[s][2] = 1 /\ View.to[g[s]] = p
    BY <1>3, <2>2 DEF Shifted
  <2>4. ASSUME NEW s \in Slots' PROVE Settled(s[1], s[2], DotAt(s).proc)'
    <3>1. PICK t \in Slots : t = g[s]
      BY <2>3
    <3>2. PICK o : o = DotAt(t).proc
      OBVIOUS
    <3>3. DotAt(s)' = DotAt(t)
      BY <2>3, <3>1 DEF View
    <3>4. Settled(t[1], t[2], o) /\ t[1] \in Procs
      BY <3>1, <3>2, SlotFacts DEF OwnersInv, HomeInv
    <3>5. CASE t = s
      <4>1. part'[t[1]] = part[t[1]] /\ (pc[t[1]] = "split" => pc'[t[1]] = "split")
        BY <1>3, <2>1, <3>4 DEF Own
      <4>2. Settled(t[1], t[2], o)'
        BY <2>1, <3>4, <4>1 DEF Settled, SameHalf, Mid, Half
      <4> QED BY <3>2, <3>3, <3>5, <4>2
    <3>6. CASE s[1] = p /\ t[1] = p
      <4>1. o = p \/ o \notin Part(p)
        BY <1>3, <3>4, <3>6 DEF Settled
      <4>2. Settled(p, s[2], o)'
        BY <2>1, <4>1 DEF Settled
      <4> QED BY <3>2, <3>3, <3>6, <4>2
    <3>7. CASE c /\ s[1] = p /\ s[2] = 0 /\ t[2] = 1 /\ View.to[t] = p
      <4>1. PICK x \in Procs : x = t[1] /\ Partner(x) = p
        BY <3>4, <3>7 DEF View, DestOf
      <4>2. o = x \/ o \notin Part(x)
        BY <3>4, <3>7, <4>1 DEF Settled
      <4>3. p \in Part(x) /\ Part(p) = Part(x) /\ part[p] = part[x]
        BY <4>1, PartnerFacts, SamePart DEF HandshakeInv, Types
      <4>4. pc'[p] = "split" /\ part'[p] = part[p]
        BY <1>3, <2>1, <3>7 DEF Own
      <4>5. CASE o = x
        <5>1. Partition(part[x])
          <6>1. pc[p] \in Exchange
            BY <1>3 DEF Exchanges, Exchange, Tell, Hear, Post, PostFor, Ping, Await, SendDots, Wait
          <6>2. part[p].lo # part[p].hi
            BY <6>1 DEF HandshakeInv, PartsInv
          <6> QED BY <4>3, <6>2, PartFacts DEF HandshakeInv, Types
        <5>2. x < Mid(part[x]) <=> p >= Mid(part[x])
          BY <4>1, <5>1, PartnerAcross, PartFacts DEF HandshakeInv, Types, Part, Partner
        <5>3. Mid(part[x]) \in Int /\ p \in Int /\ x \in Int
          BY <4>1, <5>1, HalfBounds, PartFacts DEF HandshakeInv, Types
        <5>4. ~SameHalf(part[p], o, p)
          BY <4>3, <4>5, <5>2, <5>3 DEF SameHalf
        <5>5. ~SameHalf(part'[p], o, p)
          BY <4>4, <5>4
        <5> QED BY <2>1, <3>2, <3>3, <3>7, <4>4, <5>5 DEF Settled, SameHalf
      <4>6. CASE o \notin Part(x)
        <5>1. o \notin Part(p)'
          BY <2>1, <4>3, <4>6
        <5> QED BY <3>2, <3>3, <3>7, <5>1 DEF Settled
      <4> QED BY <4>2, <4>5, <4>6
    <3> QED BY <2>3, <3>1, <3>5, <3>6, <3>7
  <2> QED BY <2>4 DEF HomeInv
<1>4. ASSUME NEW p \in Procs, Post(p) PROVE HomeInv'
  <2>1. Shifted(View, View', p, FALSE) /\ pc[p] # "split" /\ Exchanges(p)
    BY <1>4, PostShifts DEF Post, PostFor, Exchanges
  <2> QED BY <1>3, <2>1
<1>5. ASSUME NEW p \in Procs, Wait(p) PROVE HomeInv'
  <2>1. Shifted(View, View', p, TRUE) /\ pc[p] # "split" /\ pc'[p] = "split" /\ Exchanges(p)
    BY <1>5, WaitShifts DEF Wait, Go, Exchanges, Types, PartsType
  <2> QED BY <1>3, <2>1
<1>6. ASSUME NEW p \in Procs, StartSearch(p) PROVE HomeInv'
  <2>1. /\ part' = part /\ load' = load /\ View' = View
        /\ pc' = [r \in Procs |-> IF r \in Part(p) THEN "search" ELSE pc[r]]
        /\ \A r \in Part(p) : pc[r] = "level"
    BY <1>6, StartSearchView DEF StartSearch, Together
  <2> QED BY <1>1, <2>1
<1>7. ASSUME NEW p \in Procs, Bisect(p) PROVE HomeInv'
  <2>1. /\ part' = part /\ load' = load /\ View'.in = View.in
        /\ \A r \in Part(p) : pc[r] = "search"
        /\ \A r \in Procs \ Part(p) : pc'[r] = pc[r]
    BY <1>7, BisectCases, BisectView
  <2> QED BY <1>1, <2>1
<1>8. CASE Invert
  <2>1. part' = part /\ load' = load /\ View' = View /\ \A r \in Procs : pc[r] = "level"
    BY <1>8, InvertView DEF Invert, Final
  <2> QED BY <1>1, <2>1
<1>9. CASE UNCHANGED vars
  <2>1. part' = part /\ load' = load /\ Procs' = Procs /\ pc' = pc /\ \A q : Part(q)' = Part(q)
    BY <1>9, OwnSameParts DEF vars, Types
  <2>2. \A q : Sent(q)' = Sent(q) /\ Leaves(q)' = Leaves(q) /\ dots'[q] = dots[q] /\ Partner(q)' = Partner(q)
    BY <1>9, <2>1 DEF vars, Sent, DotsDue, Shipped, Leaves, MarkActive, Partner
  <2>3. View' = View
    BY <2>1, <2>2, UnchangedView
  <2> QED BY <1>1, <2>1, <2>3
<1>10. ASSUME NEW p \in Procs, Split(p) PROVE HomeInv'
  <2>1. View' = View /\ Slots' = Slots /\ load' = load
        /\ \A s \in Slots : s[1] \in Part(p) => s[2] = 0
    BY <1>10, SplitView DEF Split
  <2>2. PICK w : w = part[p]
    OBVIOUS
  <2>3. /\ \A q \in Part(p) : /\ q \in Procs /\ part[q] = w /\ Part(q) = Part(p)
                              /\ part'[q] = IF q < Mid(w) THEN [w EXCEPT !.hi = Mid(w) - 1] ELSE [w EXCEPT !.lo = Mid(w)]
        /\ \A q \in Procs \ Part(p) : pc'[q] = pc[q] /\ part'[q] = part[q] /\ Part(q)' = Part(q)
        /\ Part(p) = w.lo .. w.hi /\ Partition(w) /\ Procs \subseteq Int
    <3>1. pc[p] = "split"
      BY <1>10, PartFacts DEF Split, Together, HandshakeInv, Types
    <3>2. part[p].lo # part[p].hi
      BY <3>1 DEF HandshakeInv, PartsInv, Exchange
    <3>3. \A q \in Part(p) : q \in Procs /\ part[q] = w /\ Part(q) = Part(p)
      BY <2>2, SamePart DEF HandshakeInv, Types
    <3>4. \A q \in Procs \ Part(p) : pc'[q] = pc[q] /\ part'[q] = part[q] /\ Part(q)' = Part(q)
      BY <1>10 DEF Split, Part
    <3>5. Partition(w) /\ Procs \subseteq Int
      BY <2>2, <3>2, PartFacts DEF HandshakeInv, Types
    <3>6. \A q \in Part(p) : part'[q] = IF q < Mid(w) THEN [w EXCEPT !.hi = Mid(w) - 1] ELSE [w EXCEPT !.lo = Mid(w)]
      BY <1>10, <2>2, <3>3 DEF Split
    <3> QED BY <2>2, <3>3, <3>4, <3>5, <3>6 DEF Part
  <2>4. ASSUME NEW s \in Slots' PROVE Settled(s[1], s[2], DotAt(s).proc)'
    <3>1. s \in Slots /\ DotAt(s)' = DotAt(s) /\ s[1] \in Procs
      BY <2>1, <2>4, SlotFacts DEF View
    <3>2. CASE s[1] \notin Part(p)
      BY <2>1, <2>3, <2>4, <3>1, <3>2, HomeSame
    <3>3. CASE s[1] \in Part(p)
      <4>1. PICK q, o : q = s[1] /\ o = DotAt(s).proc
        OBVIOUS
      <4>2. Settled(q, s[2], o) /\ o \in Procs /\ q \in Procs
        <5>1. <<o, DotAt(s).index>> \in Origins
          BY <3>1, <4>1 DEF OwnersInv, PlacesInv, Placed, View
        <5> QED BY <3>1, <4>1, <5>1 DEF OwnersInv, HomeInv, Origins
      <4>3. o = q \/ o \notin w.lo .. w.hi \/ ~SameHalf(w, o, q)
        BY <2>3, <3>3, <4>1, <4>2 DEF Settled
      <4>4. part'[q] = IF q < Mid(w) THEN [w EXCEPT !.hi = Mid(w) - 1] ELSE [w EXCEPT !.lo = Mid(w)]
        BY <2>3, <3>3, <4>1
      <4>5. Mid(w) \in Int /\ w.lo < Mid(w) /\ Mid(w) <= w.hi /\ w \in [lo : Int, hi : Int] /\ w.lo \in Int /\ w.hi \in Int
        BY <2>3, HalfBounds DEF Partition
      <4>6. q \in Int /\ o \in Int
        BY <2>3, <4>2
      <4>7. o = q \/ o \notin part'[q].lo .. part'[q].hi
        <5>1. CASE q < Mid(w)
          <6>1. part'[q].lo = w.lo /\ part'[q].hi = Mid(w) - 1
            BY <4>4, <4>5, <5>1
          <6> QED BY <4>3, <4>5, <4>6, <5>1, <6>1 DEF SameHalf
        <5>2. CASE ~(q < Mid(w))
          <6>1. part'[q].lo = Mid(w) /\ part'[q].hi = w.hi
            BY <4>4, <4>5, <5>2
          <6> QED BY <4>3, <4>5, <4>6, <5>2, <6>1 DEF SameHalf
        <5> QED BY <5>1, <5>2
      <4>8. Settled(q, s[2], o)'
        BY <4>7 DEF Settled, Part
      <4> QED BY <3>1, <4>1, <4>8
    <3> QED BY <3>2, <3>3
  <2> QED BY <2>4 DEF HomeInv
<1>11. Next \/ UNCHANGED vars
  OBVIOUS
<1> QED BY <1>2, <1>4, <1>5, <1>6, <1>7, <1>8, <1>9, <1>10, <1>11 DEF Next

-----------------------------------------------------------------------------
(* What holds of the places at first, and what the inversion finds.        *)
LEMMA OwnersInit == Init => OwnersInv
<1> SUFFICES ASSUME Init PROVE OwnersInv
  OBVIOUS
<1>0. Types /\ HandshakeInv
  BY HandshakeInit
<1>1. /\ pc = [p \in Procs |-> "level"] /\ dots = [p \in Procs |-> MyDots(p)]
      /\ nkeep = [p \in Procs |-> Len(load[p + 1])]
      /\ sendproc = [p \in Procs |-> [i \in DOMAIN load[p + 1] |-> -1]]
  BY DEF Init
<1>2. ASSUME NEW q \in Procs
      PROVE  /\ DOMAIN load[q + 1] = 1 .. Len(load[q + 1]) /\ Len(load[q + 1]) \in Nat
             /\ DOMAIN dots[q] = DOMAIN load[q + 1] /\ Len(dots[q]) = Len(load[q + 1])
             /\ \A i \in DOMAIN load[q + 1] : dots[q][i] = DotFrom(<<q, i>>)
             /\ Sent(q) = <<>> /\ Stock(q, 0) = dots[q] /\ Stock(q, 1) = <<>>
  <2>1. q + 1 \in DOMAIN load /\ q \in Int
    BY <1>0 DEF Types, PartsType, Procs, NProcs
  <2>2. PICK D : D = [x : Int \X Int, wt : Nat]
    OBVIOUS
  <2>3. load[q + 1] \in Seq(D)
    BY <1>0, <2>1, <2>2 DEF Types, PartsType
  <2>4. DOMAIN load[q + 1] = 1 .. Len(load[q + 1]) /\ Len(load[q + 1]) \in Nat
    BY <2>3
  <2>5. dots[q] = MyDots(q) /\ dots[q] \in Seq(Dots)
    BY <1>0, <1>1 DEF Types, DotsType
  <2>6. DOMAIN dots[q] = DOMAIN load[q + 1] /\ \A i \in DOMAIN load[q + 1] : dots[q][i] = DotFrom(<<q, i>>)
    BY <2>5 DEF MyDots, DotFrom
  <2>7. Len(dots[q]) = Len(load[q + 1])
    <3>1. PICK d \in Seq(Dots) : d = dots[q]
      BY <2>5
    <3>2. DOMAIN d = 1 .. Len(d) /\ Len(d) \in Nat
      OBVIOUS
    <3>3. 1 .. Len(d) = 1 .. Len(load[q + 1])
      BY <2>4, <2>6, <3>1, <3>2
    <3> QED BY <2>4, <3>1, <3>2, <3>3
  <2>8. Sent(q) = <<>>
    BY <1>0, <1>1, SentFacts
  <2> QED BY <2>4, <2>6, <2>7, <2>8 DEF Stock
<1>3. \A s \in Slots : /\ s = <<s[1], s[2], s[3]>> /\ s[1] \in Procs /\ s[2] = 0 /\ s[3] \in Nat
                       /\ s[3] \in DOMAIN load[s[1] + 1] /\ DotAt(s) = DotFrom(<<s[1], s[3]>>)
  <2> SUFFICES ASSUME NEW s \in Slots
               PROVE  /\ s = <<s[1], s[2], s[3]>> /\ s[1] \in Procs /\ s[2] = 0 /\ s[3] \in Nat
                      /\ s[3] \in DOMAIN load[s[1] + 1] /\ DotAt(s) = DotFrom(<<s[1], s[3]>>)
    OBVIOUS
  <2>1. /\ s = <<s[1], s[2], s[3]>> /\ s[1] \in Procs /\ s[2] \in {0, 1} /\ s[3] \in Nat
        /\ s[3] \in DOMAIN Stock(s[1], s[2])
    BY DEF Slots
  <2>2. s[2] = 0
    BY <1>2, <2>1
  <2>3. s[3] \in DOMAIN load[s[1] + 1] /\ DotAt(s) = dots[s[1]][s[3]]
    BY <1>2, <2>1, <2>2 DEF DotAt
  <2> QED BY <1>2, <2>1, <2>2, <2>3
<1>4. \A q, i : DotFrom(<<q, i>>).proc = q /\ DotFrom(<<q, i>>).index = i
  BY DEF DotFrom
<1>5. PlacesInv
  <2>1. \A s \in Slots : View.in[s] = DotFrom(<<s[1], s[3]>>)
    BY <1>3 DEF View
  <2>2. DOMAIN View.in = Slots
    BY DEF View
  <2>3. ASSUME NEW s \in Slots
        PROVE  /\ <<View.in[s].proc, View.in[s].index>> \in Origins
               /\ View.in[s] = DotFrom(<<View.in[s].proc, View.in[s].index>>)
    <3>1. View.in[s] = DotFrom(<<s[1], s[3]>>)
      BY <2>1
    <3>2. View.in[s].proc = s[1] /\ View.in[s].index = s[3]
      BY <1>4, <3>1
    <3>3. s[1] \in Procs /\ s[3] \in Nat /\ s[3] \in DOMAIN load[s[1] + 1]
      BY <1>3
    <3> QED BY <3>1, <3>2, <3>3 DEF Origins
  <2>4. ASSUME NEW s \in Slots, NEW t \in Slots, View.in[s] = View.in[t] PROVE s = t
    <3>1. DotFrom(<<s[1], s[3]>>) = DotFrom(<<t[1], t[3]>>)
      BY <2>1, <2>4
    <3>2. s[1] = t[1] /\ s[3] = t[3]
      BY <1>4, <3>1
    <3> QED BY <1>3, <3>2
  <2>5. ASSUME NEW o \in Origins PROVE \E s \in Slots : View.in[s] = DotFrom(o)
    <3>1. o = <<o[1], o[2]>> /\ o[1] \in Procs /\ o[2] \in Nat /\ o[2] \in DOMAIN load[o[1] + 1]
      BY DEF Origins
    <3>2. PICK s : s = <<o[1], 0, o[2]>>
      OBVIOUS
    <3>3. s \in Slots
      BY <1>2, <3>1, <3>2 DEF Slots
    <3> QED BY <2>1, <3>1, <3>2, <3>3
  <2> QED BY <2>2, <2>3, <2>4, <2>5 DEF PlacesInv, Placed
<1>6. HomeInv
  <2> SUFFICES ASSUME NEW s \in Slots PROVE Settled(s[1], s[2], DotAt(s).proc)
    BY DEF HomeInv
  <2>1. DotAt(s) = DotFrom(<<s[1], s[3]>>)
    BY <1>3
  <2>2. DotAt(s).proc = s[1]
    BY <1>4, <2>1
  <2> QED BY <2>2 DEF Settled
<1>7. KeptInv
  <2> SUFFICES ASSUME NEW q \in Procs PROVE KeptIn(q, dots[q], nkeep[q])
    BY <1>1 DEF KeptInv, Stay
  <2>1. nkeep[q] = Len(dots[q]) /\ Len(dots[q]) \in Nat
    BY <1>1, <1>2
  <2>2. ASSUME NEW j \in DOMAIN dots[q] PROVE dots[q][j].proc = q /\ j <= Len(dots[q])
    <3>1. j \in DOMAIN load[q + 1] /\ j \in 1 .. Len(load[q + 1]) /\ Len(dots[q]) = Len(load[q + 1])
      BY <1>2
    <3>2. dots[q][j] = DotFrom(<<q, j>>)
      BY <1>2, <3>1
    <3>3. dots[q][j].proc = q
      BY <1>4, <3>2
    <3> QED BY <3>1, <3>3
  <2> QED BY <2>1, <2>2 DEF KeptIn
<1>8. SidesInv
  BY <1>0, <1>1, PartFacts DEF SidesInv, HandshakeInv, Types
<1>9. MoreTypes
  BY <1>1, <1>2 DEF MoreTypes
<1> QED BY <1>5, <1>6, <1>7, <1>8, <1>9 DEF OwnersInv

-----------------------------------------------------------------------------
\* The elements of an array that differ from each other, counted.
LEMMA CountImage ==
    ASSUME NEW n \in Nat, NEW f, \A i, j \in 1 .. n : f[i] = f[j] => i = j
    PROVE  IsFiniteSet({f[j] : j \in 1 .. n}) /\ Cardinality({f[j] : j \in 1 .. n}) = n
<1>1. PICK T : T = {f[j] : j \in 1 .. n}
  OBVIOUS
<1> DEFINE g == [j \in 1 .. n |-> f[j]]
<1>2. g \in Bijection(1 .. n, T)
  BY <1>1 DEF Bijection, Injection, Surjection, IsInjective
<1>3. IsFiniteSet(1 .. n) /\ Cardinality(1 .. n) = n
  <2>1. IsFiniteSet(1 .. n) /\ Cardinality(1 .. n) = IF 1 > n THEN 0 ELSE n - 1 + 1
    BY FS_Interval
  <2> QED BY <2>1
<1>4. ExistsBijection(1 .. n, T)
  BY <1>2 DEF ExistsBijection
<1> QED BY <1>1, <1>3, <1>4, FS_Bijection

LEMMA LeastOne == \A q \in Int : Min({q}) = q
BY DEF Min

\* Where all is still, what a process has is in its slots.
LEMMA FinalSlots ==
    ASSUME Types, HandshakeInv, \A q \in Procs : pc[q] \in {"level", "done"}
    PROVE  /\ \A q \in Procs : \A j \in DOMAIN dots[q] : <<q, 0, j>> \in Slots /\ DotAt(<<q, 0, j>>) = dots[q][j]
           /\ \A s \in Slots : /\ s = <<s[1], 0, s[3]>> /\ s[1] \in Procs /\ s[3] \in DOMAIN dots[s[1]]
                               /\ DotAt(s) = dots[s[1]][s[3]]
<1>1. \A q \in Procs : Stock(q, 0) = dots[q] /\ Stock(q, 1) = <<>> /\ DOMAIN dots[q] \subseteq Nat
  BY SentFacts DEF Stock, Types, DotsType
<1>2. ASSUME NEW q \in Procs, NEW j \in DOMAIN dots[q]
      PROVE  <<q, 0, j>> \in Slots /\ DotAt(<<q, 0, j>>) = dots[q][j]
  BY <1>1 DEF Slots, DotAt
<1>3. ASSUME NEW s \in Slots
      PROVE  /\ s = <<s[1], 0, s[3]>> /\ s[1] \in Procs /\ s[3] \in DOMAIN dots[s[1]]
             /\ DotAt(s) = dots[s[1]][s[3]]
  <2>1. /\ s = <<s[1], s[2], s[3]>> /\ s[1] \in Procs /\ s[2] \in {0, 1} /\ s[3] \in Nat
        /\ s[3] \in DOMAIN Stock(s[1], s[2])
    BY DEF Slots
  <2>2. s[2] = 0
    BY <1>1, <2>1
  <2> QED BY <1>1, <2>1, <2>2 DEF DotAt
<1> QED BY <1>2, <1>3

Known ==
  /\ \A p \in Procs : \A i \in DOMAIN load[p + 1] :
        {q \in Procs : <<p, i>> \in Keeps(q)} = {sendproc[p][i]}
  /\ \A p \in Procs : /\ Cardinality(Keeps(p)) = Len(dots[p])
                      /\ NMigrate(p) = Cardinality({i \in DOMAIN load[p + 1] : sendproc[p][i] # p})

LEMMA InvertKnows ==
    ASSUME Types, HandshakeInv, OwnersInv, Invert
    PROVE  Known'
<1>1. /\ load' = load /\ dots' = dots /\ nkeep' = nkeep /\ Procs' = Procs /\ \A q \in Procs : pc[q] = "level"
  BY DEF Invert, Final, Procs, NProcs
<1>2. /\ \A q \in Procs : \A j \in DOMAIN dots[q] : <<q, 0, j>> \in Slots /\ DotAt(<<q, 0, j>>) = dots[q][j]
      /\ \A s \in Slots : /\ s = <<s[1], 0, s[3]>> /\ s[1] \in Procs /\ s[3] \in DOMAIN dots[s[1]]
                          /\ DotAt(s) = dots[s[1]][s[3]]
  BY <1>1, FinalSlots
<1>3. \A s \in Slots : <<DotAt(s).proc, DotAt(s).index>> \in Origins /\ DotAt(s) = DotFrom(<<DotAt(s).proc, DotAt(s).index>>)
  BY DEF OwnersInv, PlacesInv, Placed, View
<1>4. \A s, t \in Slots : DotAt(s) = DotAt(t) => s = t
  BY DEF OwnersInv, PlacesInv, Placed, View
<1>5. \A o \in Origins : \E s \in Slots : DotAt(s) = DotFrom(o)
  BY DEF OwnersInv, PlacesInv, Placed, View
<1>6. ASSUME NEW q \in Procs
      PROVE  /\ Len(dots[q]) \in Nat /\ DOMAIN dots[q] = 1 .. Len(dots[q]) /\ nkeep[q] \in 0 .. Len(dots[q])
             /\ \A j \in DOMAIN dots[q] : dots[q][j].proc = q <=> j <= nkeep[q]
  <2>1. Stay(q) = dots[q] /\ dots[q] \in Seq(Dots)
    BY <1>1 DEF Stay, Types, DotsType
  <2>2. Len(dots[q]) \in Nat /\ DOMAIN dots[q] = 1 .. Len(dots[q])
    BY <2>1
  <2> QED BY <2>1, <2>2 DEF OwnersInv, KeptInv, KeptIn
\* No two dots have the same origin.
<1>7. ASSUME NEW q \in Procs, NEW r \in Procs, NEW i \in DOMAIN dots[q], NEW j \in DOMAIN dots[r],
             dots[q][i].proc = dots[r][j].proc, dots[q][i].index = dots[r][j].index
      PROVE  q = r /\ i = j
  <2>1. PICK s \in Slots : s = <<q, 0, i>> /\ DotAt(s) = dots[q][i]
    BY <1>2
  <2>2. PICK t \in Slots : t = <<r, 0, j>> /\ DotAt(t) = dots[r][j]
    BY <1>2
  <2>3. DotAt(s) = DotFrom(<<DotAt(s).proc, DotAt(s).index>>) /\ DotAt(t) = DotFrom(<<DotAt(t).proc, DotAt(t).index>>)
    BY <1>3
  <2>4. DotAt(s) = DotAt(t)
    BY <1>7, <2>1, <2>2, <2>3
  <2>5. s = t
    BY <1>4, <2>4
  <2> QED BY <2>1, <2>2, <2>5
\* Where the dot of an origin is.
<1>8. ASSUME NEW p \in Procs, NEW i \in DOMAIN load[p + 1]
      PROVE  \E q \in Procs : \E j \in DOMAIN dots[q] :
                /\ dots[q][j].proc = p /\ dots[q][j].index = i
                /\ sendproc'[p][i] = q
                /\ \A r \in Procs : <<p, i>> \in Keeps(r) <=> r = q
  <2>1. <<p, i>> \in Origins
    <3>1. i \in Nat
      <4>1. p + 1 \in DOMAIN load
        BY DEF Types, PartsType, Procs, NProcs
      <4>2. PICK D : D = [x : Int \X Int, wt : Nat]
        OBVIOUS
      <4>3. load[p + 1] \in Seq(D)
        BY <4>1, <4>2 DEF Types, PartsType
      <4> QED BY <4>3
    <3> QED BY <3>1 DEF Origins
  <2>2. PICK s \in Slots : DotAt(s) = DotFrom(<<p, i>>)
    BY <1>5, <2>1
  <2>3. PICK q, j : q = s[1] /\ j = s[3]
    OBVIOUS
  <2>4. q \in Procs /\ j \in DOMAIN dots[q] /\ dots[q][j] = DotFrom(<<p, i>>)
    BY <1>2, <2>2, <2>3
  <2>5. dots[q][j].proc = p /\ dots[q][j].index = i
    BY <2>4 DEF DotFrom
  <2>6. \A r \in Procs : \A n \in DOMAIN dots[r] : dots[r][n].proc = p /\ dots[r][n].index = i => r = q /\ n = j
    BY <1>7, <2>4, <2>5
  <2>7. \A r \in Procs : <<p, i>> \in Keeps(r) <=> r = q
    <3>1. \A r : <<p, i>> \in Keeps(r) <=> \E n \in DOMAIN dots[r] : dots[r][n].proc = p /\ dots[r][n].index = i
      BY DEF Keeps
    <3> QED BY <2>4, <2>5, <2>6, <3>1
  <2> DEFINE naming == {r \in Procs : \E n \in nkeep[r] + 1 .. Len(dots[r]) : dots[r][n].proc = p /\ dots[r][n].index = i}
             kept == \E n \in 1 .. nkeep[p] : dots[p][n].index = i
  <2>8. sendproc'[p][i] = IF naming # {} THEN Min(naming) ELSE IF kept THEN p ELSE -1
    <3>1. i \in DOMAIN sendproc[p]
      BY DEF OwnersInv, MoreTypes
    <3> QED BY <3>1 DEF Invert
  <2>9. CASE q = p
    <3>1. naming = {}
      <4> SUFFICES ASSUME NEW r \in Procs, NEW n \in nkeep[r] + 1 .. Len(dots[r]), dots[r][n].proc = p, dots[r][n].index = i
                   PROVE  FALSE
        OBVIOUS
      <4>1. n \in DOMAIN dots[r] /\ ~(n <= nkeep[r])
        BY <1>6
      <4>2. r = p
        BY <2>6, <2>9, <4>1
      <4> QED BY <1>6, <4>1, <4>2
    <3>2. kept
      <4>1. j \in 1 .. nkeep[p]
        BY <1>6, <2>4, <2>5, <2>9
      <4> QED BY <2>5, <2>9, <4>1
    <3>3. sendproc'[p][i] = p
      BY <2>8, <3>1, <3>2
    <3> QED BY <2>4, <2>5, <2>7, <2>9, <3>3
  <2>10. CASE q # p
    <3>1. q \in naming
      <4>1. j \in nkeep[q] + 1 .. Len(dots[q])
        BY <1>6, <2>4, <2>5, <2>10
      <4> QED BY <2>4, <2>5, <4>1
    <3>2. \A r \in naming : r = q
      <4> SUFFICES ASSUME NEW r \in Procs, NEW n \in nkeep[r] + 1 .. Len(dots[r]), dots[r][n].proc = p, dots[r][n].index = i
                   PROVE  r = q
        OBVIOUS
      <4>1. n \in DOMAIN dots[r]
        BY <1>6
      <4> QED BY <2>6, <4>1
    <3>3. naming = {q}
      <4> HIDE DEF naming
      <4> QED BY <3>1, <3>2
    <3>4. Min(naming) = q
      <4>1. q \in Int
        BY <2>4 DEF Procs, Types, PartsType
      <4> HIDE DEF naming
      <4> QED BY <3>3, <4>1, LeastOne
    <3>5. sendproc'[p][i] = q
      <4> HIDE DEF naming, kept
      <4> QED BY <2>8, <3>1, <3>4
    <3> QED BY <2>4, <2>5, <2>7, <3>5
  <2> QED BY <2>9, <2>10
<1>9. ASSUME NEW p \in Procs PROVE Cardinality(Keeps(p)) = Len(dots[p])
  <2> DEFINE f == [j \in DOMAIN dots[p] |-> <<dots[p][j].proc, dots[p][j].index>>]
  <2>1. ASSUME NEW i \in 1 .. Len(dots[p]), NEW j \in 1 .. Len(dots[p]), f[i] = f[j] PROVE i = j
    <3>1. i \in DOMAIN dots[p] /\ j \in DOMAIN dots[p]
      BY <1>6
    <3>2. <<dots[p][i].proc, dots[p][i].index>> = <<dots[p][j].proc, dots[p][j].index>>
      BY <2>1, <3>1
    <3>3. dots[p][i].proc = dots[p][j].proc /\ dots[p][i].index = dots[p][j].index
      BY <3>2
    <3> QED BY <1>7, <3>1, <3>3
  <2>2. Keeps(p) = {f[j] : j \in 1 .. Len(dots[p])}
    BY <1>6 DEF Keeps
  <2>3. Len(dots[p]) \in Nat
    BY <1>6
  <2>4. PICK n \in Nat : n = Len(dots[p])
    BY <2>3
  <2>5. PICK h : h = f
    OBVIOUS
  <2> HIDE DEF f
  <2>6. \A i, j \in 1 .. n : h[i] = h[j] => i = j
    BY <2>1, <2>4, <2>5
  <2>7. PICK T : T = {h[j] : j \in 1 .. n}
    OBVIOUS
  <2>8. IsFiniteSet(T) /\ Cardinality(T) = n
    BY <2>6, <2>7, CountImage
  <2> QED BY <2>2, <2>4, <2>5, <2>7, <2>8
<1>10. ASSUME NEW p \in Procs
       PROVE  Len(load[p + 1]) - nkeep[p] = Cardinality({i \in DOMAIN load[p + 1] : sendproc'[p][i] # p})
  <2>1. PICK n \in Nat : n = Len(load[p + 1]) /\ DOMAIN load[p + 1] = 1 .. n
    <3>1. p + 1 \in DOMAIN load
      BY DEF Types, PartsType, Procs, NProcs
    <3>2. PICK D : D = [x : Int \X Int, wt : Nat]
      OBVIOUS
    <3>3. load[p + 1] \in Seq(D)
      BY <3>1, <3>2 DEF Types, PartsType
    <3> QED BY <3>3
  <2>2. PICK m \in Nat : m = nkeep[p]
    BY <1>6
  <2> DEFINE f == [j \in 1 .. m |-> dots[p][j].index]
  <2>3. \A j \in 1 .. m : j \in DOMAIN dots[p] /\ dots[p][j].proc = p
    BY <1>6, <2>2
  <2>4. \A i, j \in 1 .. m : f[i] = f[j] => i = j
    BY <1>7, <2>3
  <2>5. PICK S : S = {f[j] : j \in 1 .. m}
    OBVIOUS
  <2>6. S = {i \in DOMAIN load[p + 1] : sendproc'[p][i] = p}
    <3>1. ASSUME NEW i \in S PROVE i \in DOMAIN load[p + 1] /\ sendproc'[p][i] = p
      <4>1. PICK j \in 1 .. m : i = dots[p][j].index
        BY <2>5
      <4>2. j \in DOMAIN dots[p] /\ dots[p][j].proc = p
        BY <2>3
      <4>3. PICK s \in Slots : s = <<p, 0, j>> /\ DotAt(s) = dots[p][j]
        BY <1>2, <4>2
      <4>4. <<p, i>> \in Origins
        BY <1>3, <4>1, <4>2, <4>3
      <4>5. i \in DOMAIN load[p + 1]
        BY <4>4 DEF Origins
      <4>6. PICK q \in Procs : sendproc'[p][i] = q /\ \A r \in Procs : <<p, i>> \in Keeps(r) <=> r = q
        BY <1>8, <4>5
      <4>7. <<p, i>> \in Keeps(p)
        BY <4>1, <4>2 DEF Keeps
      <4> QED BY <4>5, <4>6, <4>7
    <3>2. ASSUME NEW i \in DOMAIN load[p + 1], sendproc'[p][i] = p PROVE i \in S
      <4>1. \E q \in Procs : \E j \in DOMAIN dots[q] :
                /\ dots[q][j].proc = p /\ dots[q][j].index = i
                /\ sendproc'[p][i] = q
                /\ \A r \in Procs : <<p, i>> \in Keeps(r) <=> r = q
        BY <1>8
      <4>2. PICK j \in DOMAIN dots[p] : dots[p][j].proc = p /\ dots[p][j].index = i
        BY <3>2, <4>1
      <4>3. j \in 1 .. m
        BY <1>6, <2>2, <4>2
      <4> QED BY <2>5, <4>2, <4>3
    <3> QED BY <3>1, <3>2
  <2>7. IsFiniteSet(S) /\ Cardinality(S) = m
    <3>1. PICK h : h = f
      OBVIOUS
    <3> HIDE DEF f
    <3>2. /\ \A i, j \in 1 .. m : h[i] = h[j] => i = j
          /\ S = {h[j] : j \in 1 .. m} /\ m \in Nat
      BY <2>1, <2>2, <2>4, <2>5, <3>1
    <3>3. IsFiniteSet({h[j] : j \in 1 .. m}) /\ Cardinality({h[j] : j \in 1 .. m}) = m
      BY <3>2, CountImage
    <3> QED BY <3>2, <3>3
  <2>8. {i \in DOMAIN load[p + 1] : sendproc'[p][i] # p} = (1 .. n) \ S
    BY <2>1, <2>6
  <2>9. IsFiniteSet(1 .. n) /\ Cardinality(1 .. n) = n
    <3>1. IsFiniteSet(1 .. n) /\ Cardinality(1 .. n) = IF 1 > n THEN 0 ELSE n - 1 + 1
      BY FS_Interval
    <3> QED BY <3>1
  <2>10. (1 .. n) \cap S = S
    BY <2>1, <2>6
  <2>11. PICK R : R = 1 .. n
    OBVIOUS
  <2>12. Cardinality(R \ S) = Cardinality(R) - Cardinality(R \cap S)
    BY <2>9, <2>11, FS_Difference
  <2>13. Cardinality((1 .. n) \ S) = n - m
    BY <2>7, <2>9, <2>10, <2>11, <2>12
  <2> QED BY <2>1, <2>2, <2>8, <2>13
<1>11. \A p : Keeps(p)' = Keeps(p) /\ NMigrate(p)' = Len(load[p + 1]) - nkeep[p]
  BY <1>1 DEF Keeps, NMigrate
<1>12. \A p \in Procs : \A i \in DOMAIN load[p + 1] : {q \in Procs : <<p, i>> \in Keeps(q)} = {sendproc'[p][i]}
  BY <1>8
<1>13. \A p \in Procs : Cardinality(Keeps(p))' = Len(dots[p])'
  BY <1>1, <1>9, <1>11
<1>14. \A p \in Procs : NMigrate(p)' = Cardinality({i \in DOMAIN load[p + 1] : sendproc'[p][i] # p})
  BY <1>10, <1>11
<1> QED BY <1>1, <1>11, <1>12, <1>13, <1>14 DEF Known

-----------------------------------------------------------------------------
(* The weight of a set of dots is a sum.                                   *)
WtOf == [d \in AllDots |-> Dot(d).wt]
Tally(D, S) == MapThenSumSet(LAMBDA d : D[d[1]][d[2]].wt, S)
TallyUnfolded(g, D, T) ==
  g = [s \in SUBSET T |-> IF s = {} THEN 0
                          ELSE D[(CHOOSE x \in s : TRUE)[1]][(CHOOSE x \in s : TRUE)[2]].wt + g[s \ {CHOOSE x \in s : TRUE}]]

LEMMA WeightIsTally ==
    ASSUME NEW S
    PROVE  WeightOf(S) = Tally(dots, S) /\ WeightOf(S)' = Tally(dots', S)
BY DEF WeightOf, Tally, Dot, MapThenSumSet, MapThenFoldSet

LEMMA TallyUnfolds ==
    ASSUME NEW T, NEW D
    PROVE  \E g : Tally(D, T) = g[T] /\ ((\E h : TallyUnfolded(h, D, T)) => TallyUnfolded(g, D, T))
BY DEF Tally, MapThenSumSet, MapThenFoldSet, TallyUnfolded

LEMMA TallyIsSum ==
    ASSUME NEW S, IsFiniteSet(S), NEW D, NEW f, \A d \in S : f[d] = D[d[1]][d[2]].wt /\ f[d] \in Int
    PROVE  Tally(D, S) = SumOf(f, S)
<1>1. PICK g : Tally(D, S) = g[S] /\ ((\E h : TallyUnfolded(h, D, S)) => TallyUnfolded(g, D, S))
  BY TallyUnfolds
<1>2. PICK m : Measure(m, S, f)
  BY MeasureExists
<1> DEFINE wt(d) == D[d[1]][d[2]].wt
<1>0. \A d \in S : f[d] = wt(d)
  OBVIOUS
<1>3. ASSUME NEW h PROVE TallyUnfolded(h, D, S) <=> Unfolded(h, f, S)
  <2> DEFINE a == [s \in SUBSET S |-> IF s = {} THEN 0 ELSE wt(CHOOSE x \in s : TRUE) + h[s \ {CHOOSE x \in s : TRUE}]]
             b == [s \in SUBSET S |-> IF s = {} THEN 0 ELSE f[CHOOSE x \in s : TRUE] + h[s \ {CHOOSE x \in s : TRUE}]]
  <2>1. ASSUME NEW s \in SUBSET S PROVE a[s] = b[s]
    <3>1. CASE s = {}
      BY <3>1
    <3>2. CASE s # {}
      <4>1. (CHOOSE x \in s : TRUE) \in S
        BY <3>2
      <4> HIDE DEF wt
      <4> QED BY <1>0, <3>2, <4>1
    <3> QED BY <3>1, <3>2
  <2>2. a = b
    <3>1. a = [s \in SUBSET S |-> a[s]] /\ b = [s \in SUBSET S |-> b[s]]
      OBVIOUS
    <3> HIDE DEF a, b
    <3> QED BY <2>1, <3>1
  <2> QED BY <2>2 DEF TallyUnfolded, Unfolded
<1> HIDE DEF wt
<1>4. Unfolded(m, f, S)
  BY <1>2, MeasureUnfolds
<1>5. Unfolded(g, f, S)
  BY <1>1, <1>3, <1>4
<1>6. g[S] = m[S]
  BY <1>2, <1>5, UnfoldedIsMeasure
<1>7. SumOf(f, S) = m[S]
  BY <1>2, SumIsMeasure
<1> QED BY <1>1, <1>6, <1>7

LEMMA WeightIsSum ==
    ASSUME NEW S, IsFiniteSet(S), NEW f, \A d \in S : f[d] = Dot(d).wt /\ f[d] \in Int
    PROVE  WeightOf(S) = SumOf(f, S)
<1>1. PICK D : D = dots
  OBVIOUS
<1>2. \A d \in S : f[d] = D[d[1]][d[2]].wt /\ f[d] \in Int
  BY <1>1 DEF Dot
<1>3. Tally(D, S) = SumOf(f, S)
  BY <1>2, TallyIsSum
<1> QED BY <1>1, <1>3, WeightIsTally

LEMMA DotsFinite ==
    ASSUME Types
    PROVE  /\ IsFiniteSet(AllDots)
           /\ \A d \in AllDots : /\ d = <<d[1], d[2]>> /\ d[1] \in Procs /\ d[2] \in DOMAIN dots[d[1]] /\ d[2] \in Nat
                                 /\ Dot(d) \in Dots /\ Dot(d).wt \in Nat /\ Dot(d).x[1] \in Int /\ Dot(d).x[2] \in Int
           /\ \A q \in Procs : \A j \in DOMAIN dots[q] : <<q, j>> \in AllDots /\ Dot(<<q, j>>) = dots[q][j]
<1>1. ASSUME NEW q \in Procs
      PROVE  /\ IsFiniteSet(Held(q)) /\ DOMAIN dots[q] \subseteq Nat
             /\ \A j \in DOMAIN dots[q] : dots[q][j] \in Dots
  <2>1. dots[q] \in Seq(Dots)
    BY DEF Types, DotsType
  <2>2. DOMAIN dots[q] = 1 .. Len(dots[q]) /\ Len(dots[q]) \in Nat
    BY <2>1
  <2>3. IsFiniteSet(DOMAIN dots[q])
    BY <2>2, FS_Interval
  <2>4. IsFiniteSet({q} \X DOMAIN dots[q])
    BY <2>3, FS_Singleton, FS_Product
  <2>5. Held(q) = {q} \X DOMAIN dots[q]
    BY DEF Held
  <2> QED BY <2>1, <2>2, <2>4, <2>5
<1>2. IsFiniteSet(Procs)
  BY FS_Interval DEF Procs, Types, PartsType
<1>3. PICK C : C = {Held(q) : q \in Procs}
  OBVIOUS
<1>4. IsFiniteSet(C)
  <2> DEFINE h == [q \in Procs |-> Held(q)]
  <2>1. h \in Surjection(Procs, C)
    BY <1>3 DEF Surjection
  <2> HIDE DEF h
  <2> QED BY <1>2, <2>1, FS_Surjection
<1>5. IsFiniteSet(UNION C)
  BY <1>1, <1>3, <1>4, FS_UNION
<1>6. IsFiniteSet(AllDots)
  BY <1>3, <1>5 DEF AllDots
<1>7. ASSUME NEW d \in AllDots
      PROVE  /\ d = <<d[1], d[2]>> /\ d[1] \in Procs /\ d[2] \in DOMAIN dots[d[1]] /\ d[2] \in Nat
             /\ Dot(d) \in Dots /\ Dot(d).wt \in Nat /\ Dot(d).x[1] \in Int /\ Dot(d).x[2] \in Int
  <2>1. PICK q \in Procs : d \in Held(q)
    BY DEF AllDots
  <2>2. PICK j \in DOMAIN dots[q] : d = <<q, j>>
    BY <2>1 DEF Held
  <2>3. dots[q][j] \in Dots /\ j \in Nat /\ Dot(d) = dots[q][j]
    BY <1>1, <2>2 DEF Dot
  <2>4. Dot(d).wt \in Nat /\ Dot(d).x \in Int \X Int
    BY <2>3 DEF Dots
  <2> QED BY <2>2, <2>3, <2>4
<1>8. ASSUME NEW q \in Procs, NEW j \in DOMAIN dots[q] PROVE <<q, j>> \in AllDots /\ Dot(<<q, j>>) = dots[q][j]
  BY DEF AllDots, Held, Dot
<1> QED BY <1>6, <1>7, <1>8

LEMMA WeightFacts ==
    ASSUME Types, NEW S, S \subseteq AllDots
    PROVE  /\ IsFiniteSet(S) /\ WeightOf(S) \in Nat /\ WeightOf(S) = SumOf(WtOf, S)
           /\ \A d \in S : WtOf[d] = Dot(d).wt /\ WtOf[d] \in Nat
<1>1. IsFiniteSet(S)
  BY DotsFinite, FS_Subset
<1>2. \A d \in S : WtOf[d] = Dot(d).wt /\ WtOf[d] \in Nat
  BY DotsFinite DEF WtOf
<1>3. WeightOf(S) = SumOf(WtOf, S)
  BY <1>1, <1>2, WeightIsSum
<1>4. SumOf(WtOf, S) \in Nat
  BY <1>1, <1>2, SumNat
<1> QED BY <1>1, <1>2, <1>3, <1>4

LEMMA WeightAdds ==
    ASSUME Types, NEW S, NEW T, S \subseteq AllDots, T \subseteq AllDots, S \cap T = {}
    PROVE  WeightOf(S \union T) = WeightOf(S) + WeightOf(T)
<1>1. PICK U : U = S \union T
  OBVIOUS
<1>2. WeightOf(U) = SumOf(WtOf, U) /\ \A d \in U : WtOf[d] \in Nat
  BY <1>1, WeightFacts
<1>3. IsFiniteSet(S) /\ IsFiniteSet(T) /\ WeightOf(S) = SumOf(WtOf, S) /\ WeightOf(T) = SumOf(WtOf, T)
  BY WeightFacts
<1>4. SumOf(WtOf, S \union T) = SumOf(WtOf, S) + SumOf(WtOf, T)
  <2>1. \A d \in S \union T : WtOf[d] \in Int
    BY <1>1, <1>2
  <2> QED BY <1>3, <2>1, SumAdds
<1> QED BY <1>1, <1>2, <1>3, <1>4

LEMMA WeightWithin ==
    ASSUME Types, NEW S, NEW T, S \subseteq T, T \subseteq AllDots
    PROVE  WeightOf(S) <= WeightOf(T) /\ WeightOf(T \ S) = WeightOf(T) - WeightOf(S)
<1>1. PICK U : U = T \ S
  OBVIOUS
<1>2. S \union U = T /\ S \cap U = {} /\ S \subseteq AllDots /\ U \subseteq AllDots
  BY <1>1
<1>3. WeightOf(S \union U) = WeightOf(S) + WeightOf(U)
  BY <1>2, WeightAdds
<1>4. WeightOf(S) \in Nat /\ WeightOf(U) \in Nat /\ WeightOf(T) \in Nat
  BY <1>2, WeightFacts
<1>5. WeightOf(T) = WeightOf(S) + WeightOf(U)
  BY <1>2, <1>3
<1>6. WeightOf(S) <= WeightOf(T) /\ WeightOf(U) = WeightOf(T) - WeightOf(S)
  BY ONLY <1>4, <1>5
<1> QED BY <1>1, <1>6

LEMMA WeightOfOne ==
    ASSUME Types, NEW d \in AllDots
    PROVE  WeightOf({d}) = Dot(d).wt
<1>1. WeightOf({d}) = SumOf(WtOf, {d}) /\ WtOf[d] = Dot(d).wt /\ WtOf[d] \in Nat
  BY WeightFacts
<1>2. SumOf(WtOf, {d}) = WtOf[d]
  <2>1. WtOf[d] \in Int
    BY <1>1
  <2> QED BY <2>1, SumSingle
<1> QED BY <1>1, <1>2

LEMMA WeightZero ==
    ASSUME Types, NEW S, S \subseteq AllDots, \A d \in S : Dot(d).wt = 0
    PROVE  WeightOf(S) = 0
<1>1. IsFiniteSet(S) /\ WeightOf(S) = SumOf(WtOf, S) /\ \A d \in S : WtOf[d] = 0
  BY WeightFacts
<1> QED BY <1>1, SumZero

\* The largest weight of a set of dots.
LEMMA LargestFacts ==
    ASSUME Types, NEW S, S \subseteq AllDots
    PROVE  /\ Largest(S) \in Nat /\ \A d \in S : Dot(d).wt <= Largest(S)
           /\ \A H \in Nat : (\A d \in S : Dot(d).wt <= H) => Largest(S) <= H
<1>1. IsFiniteSet(S) /\ \A d \in S : Dot(d).wt \in Nat
  BY DotsFinite, WeightFacts
<1>2. PICK W : W = {Dot(d).wt : d \in S} \union {0}
  OBVIOUS
<1>3. IsFiniteSet(W)
  <2> DEFINE h == [d \in S |-> Dot(d).wt]
  <2>1. PICK V : V = {Dot(d).wt : d \in S}
    OBVIOUS
  <2>2. h \in Surjection(S, V)
    BY <2>1 DEF Surjection
  <2> HIDE DEF h
  <2>3. IsFiniteSet(V)
    BY <1>1, <2>2, FS_Surjection
  <2> QED BY <1>2, <2>1, <2>3, FS_AddElement
<1>4. W \subseteq Nat /\ W # {}
  BY <1>1, <1>2
<1>5. \E i \in W : \A j \in W : i >= j
  <2>1. W \subseteq Int
    BY <1>4
  <2> QED BY <1>3, <1>4, <2>1, GreatestOfFinite
<1>6. Max(W) \in W /\ \A j \in W : Max(W) >= j
  BY <1>5 DEF Max
<1>7. Largest(S) = Max(W)
  BY <1>2 DEF Largest
<1>8. \A d \in S : Dot(d).wt \in W
  BY <1>2
<1>9. \A d \in S : Dot(d).wt <= Max(W)
  BY <1>4, <1>6, <1>8
<1>10. ASSUME NEW H \in Nat, \A d \in S : Dot(d).wt <= H PROVE Max(W) <= H
  <2>1. \A x \in W : x <= H
    BY <1>2, <1>10
  <2> QED BY <1>6, <2>1
<1> QED BY <1>4, <1>6, <1>7, <1>9, <1>10

-----------------------------------------------------------------------------
(* What a partition weighs, and what it moves of ties.                     *)
(* What a partition weighs.                                                *)
LEMMA PartSize ==
    ASSUME Types, HandshakeInv, NEW p \in Procs
    PROVE  Cardinality(Part(p)) \in Nat \ {0} /\ Cardinality(Part(p)) = part[p].hi - part[p].lo + 1
<1>1. PICK a, b : a = part[p].lo /\ b = part[p].hi
  OBVIOUS
<1>2. a \in Int /\ b \in Int /\ a <= p /\ p <= b /\ p \in Int
  BY <1>1, PartFacts DEF HandshakeInv, Types
<1>3. Part(p) = a .. b /\ a <= b
  BY <1>1, <1>2 DEF Part
<1>4. Cardinality(a .. b) = b - a + 1
  BY <1>2, <1>3, FS_Interval
<1> QED BY <1>1, <1>2, <1>3, <1>4

LEMMA PartDots ==
    ASSUME Types, HandshakeInv, NEW p \in Procs
    PROVE  /\ DotsOf(p) \subseteq AllDots /\ IsFiniteSet(DotsOf(p))
           /\ \A d \in DotsOf(p) : /\ d = <<d[1], d[2]>> /\ d[1] \in Part(p) /\ d[1] \in Procs
                                   /\ d[2] \in DOMAIN dots[d[1]] /\ d[2] \in Nat
                                   /\ Dot(d).wt \in Nat /\ Dot(d).x[1] \in Int /\ Dot(d).x[2] \in Int
           /\ \A q \in Part(p) : \A i \in DOMAIN dots[q] : <<q, i>> \in DotsOf(p)
<1>1. Part(p) \subseteq Procs
  BY PartFacts DEF HandshakeInv, Types
<1>2. DotsOf(p) \subseteq AllDots
  BY <1>1 DEF DotsOf, AllDots
<1>3. \A d \in DotsOf(p) : d[1] \in Part(p)
  BY DEF DotsOf, Held
<1>4. \A q \in Part(p) : \A i \in DOMAIN dots[q] : <<q, i>> \in DotsOf(p)
  BY DEF DotsOf, Held
<1>5. IsFiniteSet(DotsOf(p))
  BY <1>2, WeightFacts
<1> QED BY <1>2, <1>3, <1>4, <1>5, DotsFinite

LEMMA PartWeight ==
    ASSUME Types, HandshakeInv, NEW p \in Procs, NEW S, S \subseteq AllDots
    PROVE  /\ Weight(p, S) \in Nat
           /\ \A T : T \subseteq AllDots /\ S \cap T = {} => Weight(p, S \union T) = Weight(p, S) + Weight(p, T)
           /\ \A T : T \subseteq S => Weight(p, T) <= Weight(p, S) /\ Weight(p, S \ T) = Weight(p, S) - Weight(p, T)
           /\ (\A d \in S : Weight(p, {d}) = 0) => Weight(p, S) = 0
<1>1. PICK c \in Nat \ {0} : c = Cardinality(Part(p))
  BY PartSize
<1>2. \A T : T \subseteq AllDots => WeightOf(T) \in Nat /\ Weight(p, T) = c * WeightOf(T)
  BY <1>1, WeightFacts DEF Weight
<1>3. \A a, b \in Nat : c * (a + b) = c * a + c * b /\ c * a \in Nat
  OBVIOUS
<1>4. Weight(p, S) \in Nat
  BY <1>2, <1>3
<1>5. ASSUME NEW T, T \subseteq AllDots, S \cap T = {}
      PROVE  Weight(p, S \union T) = Weight(p, S) + Weight(p, T)
  <2>1. WeightOf(S \union T) = WeightOf(S) + WeightOf(T)
    BY <1>5, WeightAdds
  <2>2. PICK U : U = S \union T
    OBVIOUS
  <2>3. U \subseteq AllDots
    BY <1>5, <2>2
  <2> QED BY <1>2, <1>3, <1>5, <2>1, <2>2, <2>3
<1>6. ASSUME NEW T, T \subseteq S
      PROVE  Weight(p, T) <= Weight(p, S) /\ Weight(p, S \ T) = Weight(p, S) - Weight(p, T)
  <2>1. PICK U : U = S \ T
    OBVIOUS
  <2>2. T \subseteq AllDots /\ U \subseteq AllDots
    BY <1>6, <2>1
  <2>3. WeightOf(T \union U) = WeightOf(T) + WeightOf(U) /\ T \union U = S
    BY <1>6, <2>1, <2>2, WeightAdds
  <2>4. Weight(p, S) = Weight(p, T) + Weight(p, U)
    <3>1. PICK a, b \in Nat : a = WeightOf(T) /\ b = WeightOf(U)
      BY <1>2, <2>2
    <3>2. WeightOf(S) = a + b
      BY <2>3, <3>1
    <3>3. Weight(p, T) = c * a /\ Weight(p, U) = c * b /\ Weight(p, S) = c * (a + b)
      BY <1>2, <2>2, <3>1, <3>2
    <3> QED BY <1>3, <3>3
  <2>5. Weight(p, T) \in Nat /\ Weight(p, U) \in Nat
    BY <1>2, <1>3, <2>2
  <2>6. Weight(p, T) <= Weight(p, S) /\ Weight(p, U) = Weight(p, S) - Weight(p, T)
    BY ONLY <1>4, <2>4, <2>5
  <2> QED BY <2>1, <2>6
<1>7. ASSUME \A d \in S : Weight(p, {d}) = 0 PROVE Weight(p, S) = 0
  <2>0. \A d \in S : Dot(d).wt = 0
    <3> SUFFICES ASSUME NEW d \in S PROVE Dot(d).wt = 0
      OBVIOUS
    <3>1. PICK w \in Nat : w = Dot(d).wt
      BY WeightFacts
    <3>2. WeightOf({d}) = w
      BY <3>1, WeightOfOne
    <3>3. c * w = 0
      BY <1>2, <1>7, <3>2
    <3>4. c * w = w + (c - 1) * w /\ (c - 1) * w \in Nat
      OBVIOUS
    <3> QED BY <3>1, <3>3, <3>4
  <2>1. WeightOf(S) = 0
    BY <2>0, WeightZero
  <2> QED BY <1>2, <2>1
<1> QED BY <1>4, <1>5, <1>6, <1>7

LEMMA WithinTolerance ==
    ASSUME Types, HandshakeInv, NEW p \in Procs
    PROVE  /\ Tolerance(p) \in Nat
           /\ \A d \in DotsOf(p) : Weight(p, {d}) \in Nat /\ Weight(p, {d}) <= Tolerance(p)
<1>1. PICK c \in Nat \ {0} : c = Cardinality(Part(p))
  BY PartSize
<1>2. PICK l \in Nat : l = Largest(DotsOf(p)) /\ \A d \in DotsOf(p) : Dot(d).wt <= l
  BY PartDots, LargestFacts
<1>3. \A a \in Nat : a <= l => c * a <= c * l /\ c * a \in Nat
  <2> SUFFICES ASSUME NEW a \in Nat, a <= l PROVE c * a <= c * l /\ c * a \in Nat
    OBVIOUS
  <2>1. c * l = c * a + c * (l - a) /\ l - a \in Nat
    OBVIOUS
  <2>2. c * (l - a) \in Nat /\ c * a \in Nat
    BY <2>1
  <2> QED BY <2>1, <2>2
<1>4. ASSUME NEW d \in DotsOf(p) PROVE Weight(p, {d}) \in Nat /\ Weight(p, {d}) <= Tolerance(p)
  <2>1. d \in AllDots
    BY PartDots
  <2>2. WeightOf({d}) = Dot(d).wt
    BY <2>1, WeightOfOne
  <2> QED BY <1>1, <1>2, <1>3, <2>2, PartDots DEF Weight, Tolerance
<1> QED BY <1>1, <1>2, <1>4 DEF Tolerance
-----------------------------------------------------------------------------
(* The dots before one, by the order of the processes and of their lists.  *)
Before(T, d) == {e \in T : e[1] < d[1] \/ (e[1] = d[1] /\ e[2] < d[2])}

LEMMA BeforeFacts ==
    ASSUME NEW T, IsFiniteSet(T), \A d \in T : d = <<d[1], d[2]>> /\ d[1] \in Int /\ d[2] \in Int
    PROVE  /\ \A d \in T : Cardinality(Before(T, d)) \in Nat /\ Cardinality(Before(T, d)) <= Cardinality(T)
           /\ \A d \in T : \A e \in Before(T, d) : Cardinality(Before(T, e)) < Cardinality(Before(T, d))
           /\ \A d, e \in T : e \in Before(T, d) \/ e = d \/ d \in Before(T, e)
<1>1. ASSUME NEW d \in T
      PROVE  /\ IsFiniteSet(Before(T, d)) /\ Cardinality(Before(T, d)) \in Nat
             /\ Cardinality(Before(T, d)) <= Cardinality(T)
  <2>1. Before(T, d) \subseteq T
    BY DEF Before
  <2>2. PICK B : B = Before(T, d)
    OBVIOUS
  <2> QED BY <2>1, <2>2, FS_Subset, FS_CardinalityType
<1>2. ASSUME NEW d \in T, NEW e \in Before(T, d)
      PROVE  Cardinality(Before(T, e)) < Cardinality(Before(T, d))
  <2>1. e \in T
    BY DEF Before
  <2>2. Before(T, e) \subseteq Before(T, d)
    BY <2>1 DEF Before
  <2>3. e \notin Before(T, e)
    BY <2>1 DEF Before
  <2>4. PICK A, B : A = Before(T, e) /\ B = Before(T, d)
    OBVIOUS
  <2>5. IsFiniteSet(B) /\ Cardinality(A) \in Nat /\ Cardinality(B) \in Nat
    BY <1>1, <2>1, <2>4
  <2>6. A \subseteq B /\ A # B
    BY <2>2, <2>3, <2>4
  <2>7. Cardinality(A) <= Cardinality(B) /\ (Cardinality(A) = Cardinality(B) => A = B)
    BY <2>5, <2>6, FS_Subset
  <2> QED BY <2>4, <2>5, <2>6, <2>7
<1>3. ASSUME NEW d \in T, NEW e \in T PROVE e \in Before(T, d) \/ e = d \/ d \in Before(T, e)
  BY DEF Before
<1> QED BY <1>1, <1>2, <1>3

\* The first and the last of a set of dots.
LEMMA FirstAndLast ==
    ASSUME NEW T, IsFiniteSet(T), \A d \in T : d = <<d[1], d[2]>> /\ d[1] \in Int /\ d[2] \in Int,
           NEW R, R \subseteq T, R # {}
    PROVE  /\ \E d \in R : Before(T, d) \cap R = {}
           /\ \E d \in R : R \subseteq Before(T, d) \union {d}
<1> DEFINE rank(d) == Cardinality(Before(T, d))
<1>1. \A d \in T : rank(d) \in Nat /\ Cardinality(T) - rank(d) \in Nat
  <2>1. Cardinality(T) \in Nat
    BY FS_CardinalityType
  <2> QED BY <2>1, BeforeFacts
<1>2. \A d \in T : \A e \in Before(T, d) : rank(e) < rank(d) /\ e \in T
  BY BeforeFacts DEF Before
<1> HIDE DEF rank
<1>3. \E d \in R : Before(T, d) \cap R = {}
  <2>1. PICK N : N = {rank(d) : d \in R}
    OBVIOUS
  <2>2. N \subseteq Nat /\ N # {}
    BY <1>1, <2>1
  <2>3. PICK n \in N : \A m \in N : n <= m
    BY <2>2, LeastNat
  <2>4. PICK d \in R : n = rank(d)
    BY <2>1
  <2>5. \A e \in Before(T, d) : e \notin R
    <3> SUFFICES ASSUME NEW e \in Before(T, d), e \in R PROVE FALSE
      OBVIOUS
    <3>1. rank(e) < rank(d) /\ rank(e) \in N /\ rank(e) \in Nat /\ rank(d) \in Nat
      BY <1>1, <1>2, <2>1
    <3> QED BY <2>3, <2>4, <3>1
  <2> QED BY <2>5
<1>4. \E d \in R : R \subseteq Before(T, d) \union {d}
  <2>1. PICK N : N = {Cardinality(T) - rank(d) : d \in R}
    OBVIOUS
  <2>2. N \subseteq Nat /\ N # {}
    BY <1>1, <2>1
  <2>3. PICK n \in N : \A m \in N : n <= m
    BY <2>2, LeastNat
  <2>4. PICK d \in R : n = Cardinality(T) - rank(d)
    BY <2>1
  <2>5. ASSUME NEW e \in R, e # d PROVE e \in Before(T, d)
    <3> SUFFICES ASSUME d \in Before(T, e) PROVE FALSE
      BY <2>5, BeforeFacts
    <3>1. rank(d) < rank(e) /\ rank(e) \in Nat /\ rank(d) \in Nat
      BY <1>1, <1>2
    <3>2. n <= Cardinality(T) - rank(e)
      BY <2>1, <2>3
    <3>3. Cardinality(T) \in Nat
      BY FS_CardinalityType
    <3> QED BY <2>4, <3>1, <3>2, <3>3
  <2> QED BY <2>5
<1> QED BY <1>3, <1>4
-----------------------------------------------------------------------------
(* rcb.cpp:236-247: what is moved of several dots at one coordinate is off *)
(* what is wanted by no more than the largest weight: each process decides *)
(* for its dots, from what those before it move.                           *)
LEMMA SharedTies ==
    ASSUME Types, HandshakeInv, NEW p \in Procs, NEW T, T \subseteq DotsOf(p), NEW need \in Int, 0 < need,
           need <= Weight(p, T), NEW S,
           S = {d \in T : 2 * Weight(p, {e \in T : e[1] = d[1] /\ e[2] < d[2]}) + Weight(p, {d})
                             < 2 * MayMove(p, T, need, d[1])}
    PROVE  2 * Weight(p, S) <= 2 * need + Tolerance(p) /\ 2 * need <= 2 * Weight(p, S) + Tolerance(p)
<1> DEFINE W(X) == Weight(p, X)
           mineOf(q) == {d \in T : d[1] = q}
           uptoOf(q) == {d \in T : d[1] <= q}
           beforeOf(q) == {d \in T : d[1] < q}
           own(d) == {e \in T : e[1] = d[1] /\ e[2] < d[2]}
           tol == Tolerance(p)
<1>1. /\ IsFiniteSet(T) /\ T \subseteq AllDots
      /\ \A d \in T : d = <<d[1], d[2]>> /\ d[1] \in Int /\ d[2] \in Int
  <2>1. Procs \subseteq Int
    BY PartFacts DEF HandshakeInv, Types
  <2> QED BY <2>1, PartDots, FS_Subset
<1>2. \A X : X \subseteq T => W(X) \in Nat
  BY <1>1, PartWeight
<1>3. \A X, Y : X \subseteq T /\ Y \subseteq T /\ X \cap Y = {} => W(X \union Y) = W(X) + W(Y)
  BY <1>1, PartWeight
<1>4. \A X, Y : X \subseteq Y /\ Y \subseteq T => W(X) <= W(Y) /\ W(Y \ X) = W(Y) - W(X)
  BY <1>1, PartWeight
<1>5. tol \in Nat /\ \A d \in T : W({d}) <= tol /\ W({d}) \in Nat
  BY WithinTolerance
<1>6. \A X : X \subseteq T /\ (\A d \in X : W({d}) = 0) => W(X) = 0
  BY <1>1, PartWeight
<1>7. \A d \in T : MayMove(p, T, need, d[1]) =
          IF W(uptoOf(d[1])) > need THEN W(mineOf(d[1])) - (W(uptoOf(d[1])) - need) ELSE W(mineOf(d[1]))
  BY DEF MayMove
<1>8. S = {d \in T : 2 * W(own(d)) + W({d}) < 2 * MayMove(p, T, need, d[1])}
  OBVIOUS
<1>9. need <= W(T)
  OBVIOUS
<1> HIDE DEF W, tol
<1>10. \A q \in Int : /\ mineOf(q) \subseteq T /\ uptoOf(q) \subseteq T /\ beforeOf(q) \subseteq T
                      /\ mineOf(q) \cap beforeOf(q) = {} /\ mineOf(q) \union beforeOf(q) = uptoOf(q)
  BY <1>1
<1>11. \A d \in T : /\ own(d) \subseteq T /\ own(d) \subseteq mineOf(d[1]) /\ d \notin own(d) /\ d \in mineOf(d[1])
                    /\ own(d) \cap beforeOf(d[1]) = {} /\ own(d) \union beforeOf(d[1]) = Before(T, d)
                    /\ Before(T, d) \subseteq T
  BY <1>1 DEF Before
<1> HIDE DEF mineOf, uptoOf, beforeOf, own
<1>12. \A q \in Int : /\ W(uptoOf(q)) = W(mineOf(q)) + W(beforeOf(q))
                      /\ W(uptoOf(q)) \in Nat /\ W(mineOf(q)) \in Nat /\ W(beforeOf(q)) \in Nat
  BY <1>2, <1>3, <1>10
<1>13. \A d \in T : /\ W(Before(T, d)) = W(own(d)) + W(beforeOf(d[1]))
                    /\ W(Before(T, d)) \in Nat /\ W(own(d)) \in Nat
  <2> SUFFICES ASSUME NEW d \in T
               PROVE  /\ W(Before(T, d)) = W(own(d)) + W(beforeOf(d[1]))
                      /\ W(Before(T, d)) \in Nat /\ W(own(d)) \in Nat
    OBVIOUS
  <2>1. d[1] \in Int
    BY <1>1
  <2> QED BY <1>2, <1>3, <1>10, <1>11, <2>1
<1>14. \A d \in T : W(own(d)) + W({d}) <= W(mineOf(d[1]))
  <2> SUFFICES ASSUME NEW d \in T PROVE W(own(d)) + W({d}) <= W(mineOf(d[1]))
    OBVIOUS
  <2>1. PICK X, Y : X = own(d) /\ Y = {d}
    OBVIOUS
  <2>2. d[1] \in Int
    BY <1>1
  <2>3. X \subseteq T /\ Y \subseteq T /\ X \cap Y = {} /\ X \union Y \subseteq mineOf(d[1]) /\ mineOf(d[1]) \subseteq T
    BY <1>10, <1>11, <2>1, <2>2
  <2>4. W(X \union Y) = W(X) + W(Y) /\ W(X \union Y) <= W(mineOf(d[1]))
    BY <1>3, <1>4, <2>3
  <2> QED BY <2>1, <2>4
\* Of the process that shares, and of those behind it: by all dots before.
<1>15. ASSUME NEW d \in T, W(uptoOf(d[1])) > need
       PROVE  d \in S <=> 2 * W(Before(T, d)) + W({d}) < 2 * need
  <2>1. d[1] \in Int
    BY <1>1
  <2>2. PICK u, m, b, o, x \in Nat : u = W(uptoOf(d[1])) /\ m = W(mineOf(d[1])) /\ b = W(beforeOf(d[1]))
                                   /\ o = W(own(d)) /\ x = W({d})
    BY <1>5, <1>12, <1>13, <2>1
  <2>3. u = m + b /\ W(Before(T, d)) = o + b /\ MayMove(p, T, need, d[1]) = m - (u - need)
    BY <1>7, <1>12, <1>13, <1>15, <2>1, <2>2
  <2>4. 2 * o + x < 2 * (m - (u - need)) <=> 2 * (o + b) + x < 2 * need
    BY ONLY <2>3, u \in Nat, m \in Nat, b \in Nat, o \in Nat, x \in Nat, need \in Int
  <2>5. d \in S <=> 2 * o + x < 2 * (m - (u - need))
    BY <1>8, <2>2, <2>3
  <2> QED BY <2>2, <2>3, <2>4, <2>5
\* A process that moves all leaves behind what weighs nothing.
<1>16. ASSUME NEW d \in T \ S, ~(W(uptoOf(d[1])) > need)
       PROVE  W({d}) = 0
  <2>1. d[1] \in Int
    BY <1>1
  <2>2. PICK m, o, x \in Nat : m = W(mineOf(d[1])) /\ o = W(own(d)) /\ x = W({d})
    BY <1>5, <1>12, <1>13, <2>1
  <2>3. MayMove(p, T, need, d[1]) = m
    BY <1>7, <1>16, <2>2
  <2>4. ~(2 * o + x < 2 * m) /\ o + x <= m
    BY <1>8, <1>14, <2>2, <2>3
  <2> QED BY <2>2, <2>4
<1>17. S \subseteq T
  BY <1>8
<1>18. 2 * W(S) <= 2 * need + tol
  <2> DEFINE R == {d \in S : W(uptoOf(d[1])) > need}
  <2>1. CASE R = {}
    <3>1. CASE S = {}
      <4>1. W(S) = 0
        BY <1>6, <1>17, <3>1
      <4> QED BY <1>5, <4>1
    <3>2. CASE S # {}
      <4>1. PICK d \in S : S \subseteq Before(T, d) \union {d}
        <5>1. \A X \in SUBSET T : X # {} => \E e \in X : X \subseteq Before(T, e) \union {e}
          BY <1>1, FirstAndLast
        <5> QED BY <1>17, <3>2, <5>1
      <4>2. d \in T /\ d[1] \in Int /\ ~(W(uptoOf(d[1])) > need)
        BY <1>1, <1>17, <2>1
      <4>3. Before(T, d) \union {d} \subseteq uptoOf(d[1])
        BY <1>1, <4>2 DEF Before, uptoOf
      <4>4. S \subseteq uptoOf(d[1])
        BY <4>1, <4>3
      <4>5. W(S) <= W(uptoOf(d[1])) /\ W(S) \in Nat /\ W(uptoOf(d[1])) \in Nat
        BY <1>2, <1>4, <1>10, <1>12, <1>17, <4>2, <4>4
      <4> QED BY <1>5, <4>2, <4>5
    <3> QED BY <3>1, <3>2
  <2>2. CASE R # {}
    <3>1. PICK d \in R : R \subseteq Before(T, d) \union {d}
      <4>1. R \subseteq T
        BY <1>17
      <4> HIDE DEF R
      <4> QED BY <1>1, <2>2, <4>1, FirstAndLast
    <3>2. d \in T /\ d \in S /\ d[1] \in Int /\ W(uptoOf(d[1])) > need
      BY <1>1, <1>17
    <3>3. ASSUME NEW e \in S PROVE e \in Before(T, d) \union {d}
      <4>1. CASE e \in R
        BY <3>1, <4>1
      <4>2. CASE e \notin R
        <5>1. e \in T /\ e[1] \in Int /\ ~(W(uptoOf(e[1])) > need)
          BY <1>1, <1>17, <3>3, <4>2
        <5>2. ~(d[1] <= e[1])
          <6> SUFFICES ASSUME d[1] <= e[1] PROVE FALSE
            OBVIOUS
          <6>1. uptoOf(d[1]) \subseteq uptoOf(e[1])
            BY <1>1, <3>2, <5>1 DEF uptoOf
          <6>2. W(uptoOf(d[1])) <= W(uptoOf(e[1]))
            BY <1>4, <1>10, <5>1, <6>1
          <6>3. W(uptoOf(d[1])) \in Nat /\ W(uptoOf(e[1])) \in Nat
            BY <1>12, <3>2, <5>1
          <6> QED BY <3>2, <5>1, <6>2, <6>3
        <5> QED BY <3>2, <5>1, <5>2 DEF Before
      <4> QED BY <4>1, <4>2
    <3>4. PICK X, Y : X = Before(T, d) /\ Y = {d}
      OBVIOUS
    <3>5. S \subseteq X \union Y /\ X \subseteq T /\ Y \subseteq T /\ X \cap Y = {}
      <4>1. d \notin Before(T, d)
        BY <1>1, <3>2 DEF Before
      <4> QED BY <1>11, <3>2, <3>3, <3>4, <4>1
    <3>6. W(S) <= W(X) + W(Y)
      <4>1. W(X \union Y) = W(X) + W(Y)
        BY <1>3, <3>5
      <4>2. X \union Y \subseteq T
        BY <3>5
      <4>3. W(S) <= W(X \union Y)
        BY <1>4, <3>5, <4>2
      <4> QED BY <4>1, <4>3
    <3>7. 2 * W(X) + W(Y) < 2 * need
      BY <1>15, <3>2, <3>4
    <3>8. W(S) \in Nat /\ W(X) \in Nat /\ W(Y) \in Nat /\ W(Y) <= tol
      BY <1>2, <1>5, <1>17, <3>2, <3>4, <3>5
    <3> QED BY <1>5, <3>6, <3>7, <3>8
  <2> QED BY <2>1, <2>2
<1>19. 2 * need <= 2 * W(S) + tol
  <2> DEFINE R == {d \in T \ S : W(uptoOf(d[1])) > need}
  <2>0. W(S) \in Nat /\ W(T) \in Nat
    BY <1>2, <1>17
  <2>1. CASE R = {}
    <3>1. PICK X : X = T \ S
      OBVIOUS
    <3>2. W(X) = 0
      BY <1>6, <1>16, <2>1, <3>1
    <3>3. W(X) = W(T) - W(S)
      BY <1>4, <1>17, <3>1
    <3> QED BY <1>5, <1>9, <2>0, <3>2, <3>3
  <2>2. CASE R # {}
    <3>1. PICK d \in R : Before(T, d) \cap R = {}
      <4>1. R \subseteq T
        OBVIOUS
      <4> HIDE DEF R
      <4> QED BY <1>1, <2>2, <4>1, FirstAndLast
    <3>2. d \in T /\ d \notin S /\ W(uptoOf(d[1])) > need
      OBVIOUS
    <3>3. PICK X, Y, Z : X = Before(T, d) /\ Y = X \ S /\ Z = X \cap S
      OBVIOUS
    <3>4. X \subseteq T /\ Y \subseteq X /\ X \ Y = Z /\ Z \subseteq S /\ Y \subseteq T
      BY <1>11, <3>2, <3>3
    <3>5. ASSUME NEW e \in Y PROVE W({e}) = 0
      BY <1>16, <3>1, <3>3, <3>4, <3>5
    <3>6. W(Y) = 0
      BY <1>6, <3>4, <3>5
    <3>7. W(Z) = W(X) - W(Y) /\ W(Z) <= W(S)
      BY <1>4, <1>17, <3>4
    <3>8. ~(2 * W(X) + W({d}) < 2 * need)
      BY <1>15, <3>2, <3>3
    <3>9. W(X) \in Nat /\ W(Z) \in Nat /\ W({d}) \in Nat /\ W({d}) <= tol
      <4>1. Z \subseteq T
        BY <1>17, <3>4
      <4> QED BY <1>2, <1>5, <3>2, <3>4, <4>1
    <3> QED BY <1>5, <2>0, <3>6, <3>7, <3>8, <3>9
  <2> QED BY <2>1, <2>2
<1> QED BY <1>18, <1>19 DEF W, tol

LEMMA MovedNear ==
    ASSUME Types, HandshakeInv, NEW p \in Procs, NEW T, T \subseteq DotsOf(p), NEW need \in Int, 0 < need
    PROVE  /\ Moved(p, T, need) \subseteq T
           /\ Weight(p, T) < need => Moved(p, T, need) = T
           /\ need <= Weight(p, T) =>
                /\ 2 * Weight(p, Moved(p, T, need)) <= 2 * need + Tolerance(p)
                /\ 2 * need <= 2 * Weight(p, Moved(p, T, need)) + Tolerance(p)
<1>1. PICK S : S = {d \in T : 2 * Weight(p, {e \in T : e[1] = d[1] /\ e[2] < d[2]}) + Weight(p, {d})
                             < 2 * MayMove(p, T, need, d[1])}
  OBVIOUS
<1>2. Moved(p, T, need) = IF Weight(p, T) < need THEN T
                          ELSE IF Cardinality(T) = 1 THEN (IF Weight(p, T) - need < need THEN T ELSE {}) ELSE S
  BY <1>1 DEF Moved
<1>3. T \subseteq AllDots /\ IsFiniteSet(T)
  BY PartDots, FS_Subset
<1>4. Weight(p, T) \in Nat /\ Weight(p, {}) = 0
  BY <1>3, PartWeight
<1>5. Tolerance(p) \in Nat
  BY WithinTolerance
<1>6. CASE Weight(p, T) < need
  BY <1>2, <1>4, <1>6
<1>7. CASE ~(Weight(p, T) < need) /\ Cardinality(T) = 1
  <2>1. PICK d : T = {d}
    BY <1>3, <1>7, FS_Singleton
  <2>2. Weight(p, T) <= Tolerance(p)
    BY <2>1, WithinTolerance
  <2>3. CASE Weight(p, T) - need < need
    <3>1. Moved(p, T, need) = T
      BY <1>2, <1>7, <2>3
    <3> QED BY <1>4, <1>5, <1>7, <2>2, <2>3, <3>1
  <2>4. CASE ~(Weight(p, T) - need < need)
    <3>1. Moved(p, T, need) = {}
      BY <1>2, <1>7, <2>4
    <3> QED BY <1>4, <1>5, <1>7, <2>2, <2>4, <3>1
  <2> QED BY <2>3, <2>4
<1>8. CASE ~(Weight(p, T) < need) /\ Cardinality(T) # 1
  <2>1. need <= Weight(p, T)
    BY <1>4, <1>8
  <2>2. Moved(p, T, need) = S /\ S \subseteq T
    BY <1>1, <1>2, <1>8
  <2>3. 2 * Weight(p, S) <= 2 * need + Tolerance(p) /\ 2 * need <= 2 * Weight(p, S) + Tolerance(p)
    BY <1>1, <2>1, SharedTies
  <2> QED BY <1>8, <2>2, <2>3
<1> QED BY <1>6, <1>7, <1>8

-----------------------------------------------------------------------------
(* The search for a cut, and what steps leave of it.                       *)
MarkAt(d) == mark[d[1]][d[2]]
Unsure(d) == d[2] \in active[d[1]]
Decided(p, s) == {d \in DotsOf(p) : ~Unsure(d) /\ MarkAt(d) = s}
XOf(p, d) == Dot(d).x[search[p].dim]
SearchType == [dim : Dims, wt : [{0, 1} -> Int], min : Int, max : Int]
\* The dots that are decided lie outside of the interval, and neither side has
\* more of them than it shall have.
Narrowed(p) ==
  /\ search[p] \in SearchType
  /\ \A d \in DotsOf(p) : /\ MarkAt(d) \in {0, 1}
                          /\ Unsure(d) => XOf(p, d) \in search[p].min .. search[p].max
                          /\ ~Unsure(d) => IF MarkAt(d) = 0 THEN XOf(p, d) <= search[p].min ELSE XOf(p, d) >= search[p].max
  /\ \A s \in {0, 1} : search[p].wt[s] = Weight(p, Decided(p, s)) /\ search[p].wt[s] <= Target(p, s)
Lower(p) == {d \in DotsOf(p) : MarkAt(d) = 0}
Halved(p) ==
  /\ search[p].dim \in Dims /\ \A d \in DotsOf(p) : MarkAt(d) \in {0, 1}
  /\ Weight(p, Lower(p)) - Target(p, 0) \in -Tolerance(p) .. Tolerance(p)
  /\ \A d \in DotsOf(p) : IF d \in Lower(p) THEN XOf(p, d) <= box[p][search[p].dim].hi
                          ELSE XOf(p, d) >= box[p][search[p].dim].hi
BoxTypes == box \in [Procs -> [Dims -> [lo : Int, hi : Int]]] /\ DOMAIN search = Procs /\ DOMAIN active = Procs
SearchInv ==
  /\ BoxTypes
  /\ \A p \in Procs : p = part[p].lo =>
        (pc[p] = "search" => Narrowed(p)) /\ (Together(p, "tell") => Halved(p))

\* The measures of a partition whose dots stay.
LEMMA SameMeasures ==
    ASSUME Types, HandshakeInv, NEW p \in Procs, part'[p] = part[p], \A q \in Part(p) : dots'[q] = dots[q]
    PROVE  /\ Part(p)' = Part(p) /\ DotsOf(p)' = DotsOf(p)
           /\ \A d \in DotsOf(p) : Dot(d)' = Dot(d)
           /\ \A S : S \subseteq DotsOf(p) => Weight(p, S)' = Weight(p, S)
           /\ \A s : Target(p, s)' = Target(p, s)
           /\ Tolerance(p)' = Tolerance(p)
<1>1. Part(p)' = Part(p)
  BY DEF Part
<1>2. \A q \in Part(p) : Held(q)' = Held(q)
  BY DEF Held
<1>3. DotsOf(p)' = DotsOf(p)
  BY <1>1, <1>2 DEF DotsOf
<1>4. \A d \in DotsOf(p) : Dot(d)' = Dot(d)
  BY PartDots DEF Dot
<1>5. ASSUME NEW S, S \subseteq DotsOf(p) PROVE WeightOf(S)' = WeightOf(S)
  <2>1. PICK E : E = dots'
    OBVIOUS
  <2>2. PICK f : f = [d \in S |-> Dot(d).wt]
    OBVIOUS
  <2>3. IsFiniteSet(S)
    BY <1>5, PartDots, FS_Subset
  <2>4. \A d \in S : f[d] = Dot(d).wt /\ f[d] \in Int
    BY <1>5, <2>2, PartDots
  <2>5. \A d \in S : f[d] = E[d[1]][d[2]].wt
    BY <1>4, <1>5, <2>1, <2>4 DEF Dot
  <2>6. Tally(E, S) = SumOf(f, S)
    BY <2>3, <2>4, <2>5, TallyIsSum
  <2>7. WeightOf(S) = SumOf(f, S)
    BY <2>3, <2>4, WeightIsSum
  <2> QED BY <2>1, <2>6, <2>7, WeightIsTally
<1>6. \A S : S \subseteq DotsOf(p) => Weight(p, S)' = Weight(p, S)
  BY <1>1, <1>5 DEF Weight
<1>7. Total(p)' = Total(p)
  <2>1. PICK S : S = DotsOf(p)
    OBVIOUS
  <2>2. WeightOf(S)' = WeightOf(S)
    BY <1>5, <2>1
  <2> QED BY <1>3, <2>1, <2>2 DEF Total
<1>8. \A s : Target(p, s)' = Target(p, s)
  BY <1>1, <1>7 DEF Target
<1>9. Largest(DotsOf(p))' = Largest(DotsOf(p))
  <2>1. {Dot(d).wt : d \in DotsOf(p)}' = {Dot(d).wt : d \in DotsOf(p)}
    BY <1>3, <1>4
  <2> QED BY <2>1 DEF Largest
<1> QED BY <1>1, <1>3, <1>4, <1>6, <1>8, <1>9 DEF Tolerance
-----------------------------------------------------------------------------
(* A step that leaves a partition in its search, or at its end, is one of  *)
(* the search, or one of other processes.                                  *)
Undisturbed(p) ==
  /\ search'[p] = search[p]
  /\ \A q \in Part(p) : /\ pc'[q] = pc[q] /\ dots'[q] = dots[q] /\ mark'[q] = mark[q]
                        /\ active'[q] = active[q] /\ box'[q] = box[q]

LEMMA Elsewhere ==
    ASSUME Types, HandshakeInv, SidesInv, BoxTypes, [Next]_vars, NEW p \in Procs, part'[p].lo = p,
           pc'[p] = "search" \/ Together(p, "tell")'
    PROVE  /\ load' = load /\ part'[p] = part[p] /\ Part(p)' = Part(p)
           /\ StartSearch(p) \/ Bisect(p) \/ Undisturbed(p)
<1>1. Part(p) \subseteq Procs /\ p \in Part(p)
  BY PartFacts DEF HandshakeInv, Types
<1>2. \A a \in Procs \ Part(p) : Part(a) \cap Part(p) = {}
  <2> SUFFICES ASSUME NEW a \in Procs, NEW r \in Part(a), r \in Part(p) PROVE a \in Part(p)
    OBVIOUS
  <2>1. Part(r) = Part(a) /\ Part(r) = Part(p) /\ a \in Part(a)
    BY SamePart, PartFacts DEF HandshakeInv, Types
  <2> QED BY <2>1
<1>3. \A a \in Part(p) : a = part[a].lo /\ part' = part => a = p
  BY SamePart DEF HandshakeInv, Types
<1>4. \A q \in Part(p) : part'[p] = part[p] => pc'[q] \in {"search", "tell"} \/ (pc'[p] = "search" /\ q # p)
  BY DEF Together, Part
<1>5. part'[p] = part[p] => Part(p)' = Part(p)
  BY DEF Part
<1>6. ASSUME NEW a \in Procs, Exchanges(a)
      PROVE  load' = load /\ part' = part /\ Undisturbed(p)
  <2>1. Own(a)
    BY <1>6, ExchangesOwn
  <2>2. /\ pc[a] \in Exchange /\ pc'[a] \in Exchange \ {"tell"}
        /\ search' = search /\ box' = box /\ \A q \in Procs \ {a} : active'[q] = active[q]
    BY <1>6 DEF Exchanges, Tell, Hear, Post, PostFor, Ping, Await, SendDots, Wait, Go, Exchange,
                Types, PartsType, BoxTypes
  <2>3. a \notin Part(p)
    <3> SUFFICES ASSUME a \in Part(p) PROVE FALSE
      OBVIOUS
    <3>1. pc'[p] = "search" /\ a # p
      BY <1>4, <2>1, <2>2 DEF Own, Exchange
    <3>2. pc[p] = "search"
      BY <2>1, <3>1 DEF Own
    <3>3. pc[a] = "search"
      BY <3>2 DEF SidesInv, Rests
    <3> QED BY <2>2, <3>3 DEF Exchange
  <2> QED BY <1>1, <2>1, <2>2, <2>3 DEF Own, Undisturbed
<1>7. ASSUME NEW a \in Procs, StartSearch(a), a # p
      PROVE  load' = load /\ part' = part /\ Undisturbed(p)
  <2>1. /\ load' = load /\ part' = part /\ box' = box /\ dots' = dots /\ a = part[a].lo
        /\ search'[p] = search[p]
        /\ \A q \in Procs \ Part(a) : mark'[q] = mark[q] /\ active'[q] = active[q] /\ pc'[q] = pc[q]
    BY <1>7 DEF StartSearch, BoxTypes
  <2>2. a \notin Part(p)
    BY <1>3, <1>7, <2>1
  <2> QED BY <1>1, <1>2, <2>1, <2>2 DEF Undisturbed
<1>8. ASSUME NEW a \in Procs, Bisect(a), a # p
      PROVE  load' = load /\ part' = part /\ Undisturbed(p)
  <2>1. /\ load' = load /\ part' = part /\ dots' = dots
        /\ \A q \in Procs \ Part(a) : mark'[q] = mark[q] /\ pc'[q] = pc[q]
    BY <1>8, BisectCases
  <2>2. a = part[a].lo
    BY <1>8 DEF Bisect
  <2>3. a \notin Part(p)
    BY <1>3, <1>8, <2>1, <2>2
  <2>4. ASSUME NEW v, FoundCut(a, v)
        PROVE  search' = search /\ active' = active /\ \A q \in Procs \ Part(a) : box'[q] = box[q]
    BY <2>4 DEF FoundCut
  <2>5. /\ search'[p] = search[p]
        /\ \A q \in Procs \ Part(a) : active'[q] = active[q] /\ box'[q] = box[q]
    <3>1. PICK half : (\E s \in {0, 1} : Extend(a, s, half)) \/ JustRight(a, half)
      BY <1>8 DEF Bisect
    <3>2. CASE JustRight(a, half)
      BY <2>4, <3>2 DEF JustRight
    <3>3. CASE \E s \in {0, 1} : Extend(a, s, half)
      <4>1. PICK s \in {0, 1} : Extend(a, s, half)
        BY <3>3
      <4>2. \/ \E v : FoundCut(a, v)
            \/ /\ box' = box
               /\ \A q \in Procs \ Part(a) : active'[q] = active[q]
               /\ \A q \in Procs \ {a} : search'[q] = search[q]
        BY <4>1 DEF Extend, BoxTypes
      <4> QED BY <1>8, <2>4, <4>2
    <3> QED BY <3>1, <3>2, <3>3
  <2> QED BY <1>1, <1>2, <2>1, <2>3, <2>5 DEF Undisturbed
<1>9. ASSUME NEW a \in Procs, Split(a)
      PROVE  load' = load /\ part'[p] = part[p] /\ Undisturbed(p)
  <2>1. /\ load' = load /\ box' = box /\ dots' = dots /\ mark' = mark /\ active' = active
        /\ \A q \in Procs \ {a} : search'[q] = search[q]
        /\ \A q \in Procs \ Part(a) : pc'[q] = pc[q] /\ part'[q] = part[q]
        /\ \A q \in Procs \cap Part(a) : pc'[q] = "level"
    BY <1>9 DEF Split, BoxTypes
  <2>2. p \notin Part(a)
    <3> SUFFICES ASSUME p \in Part(a) PROVE FALSE
      OBVIOUS
    <3>1. pc'[p] = "level"
      BY <2>1
    <3>2. p \in Part(p)'
      <4>1. HandshakeInv' /\ Types'
        BY <1>9, SplitKeeps
      <4>2. Procs' = Procs
        BY <2>1 DEF Procs, NProcs
      <4> QED BY <4>1, <4>2 DEF HandshakeInv, PartsInv
    <3> QED BY <3>1, <3>2 DEF Together
  <2>3. a \notin Part(p)
    <3> SUFFICES ASSUME a \in Part(p) PROVE FALSE
      OBVIOUS
    <3>1. Part(a) = Part(p)
      BY SamePart DEF HandshakeInv, Types
    <3> QED BY <1>1, <2>2, <3>1
  <2> QED BY <1>1, <1>2, <2>1, <2>2, <2>3 DEF Undisturbed
<1>10. ~Invert
  <2> SUFFICES ASSUME Invert PROVE FALSE
    OBVIOUS
  <2>1. part' = part /\ pc'[p] = "done"
    BY DEF Invert
  <2> QED BY <1>1, <1>4, <2>1
<1>11. CASE UNCHANGED vars
  BY <1>5, <1>11 DEF vars, Undisturbed
<1>12. Next \/ UNCHANGED vars
  OBVIOUS
<1>13. ASSUME StartSearch(p) \/ Bisect(p) PROVE load' = load /\ part' = part
  BY <1>13 DEF StartSearch, Bisect
<1> QED BY <1>5, <1>6, <1>7, <1>8, <1>9, <1>10, <1>11, <1>12, <1>13 DEF Next, Exchanges

LEMMA UndisturbedSearch ==
    ASSUME Types, HandshakeInv, NEW p \in Procs, part'[p] = part[p], Undisturbed(p)
    PROVE  /\ Narrowed(p) => Narrowed(p)'
           /\ Halved(p) => Halved(p)'
           /\ Together(p, "tell")' => Together(p, "tell")
           /\ pc'[p] = pc[p]
<1>1. /\ Part(p)' = Part(p) /\ DotsOf(p)' = DotsOf(p)
      /\ \A d \in DotsOf(p) : Dot(d)' = Dot(d)
      /\ \A S : S \subseteq DotsOf(p) => Weight(p, S)' = Weight(p, S)
      /\ \A s : Target(p, s)' = Target(p, s)
      /\ Tolerance(p)' = Tolerance(p)
  BY SameMeasures DEF Undisturbed
<1>2. p \in Part(p) /\ search'[p] = search[p] /\ box'[p] = box[p] /\ pc'[p] = pc[p]
  BY PartFacts DEF Undisturbed, HandshakeInv, Types
<1>3. \A d \in DotsOf(p) : (Unsure(d)' <=> Unsure(d)) /\ MarkAt(d)' = MarkAt(d) /\ XOf(p, d)' = XOf(p, d)
  BY <1>1, <1>2, PartDots DEF Undisturbed, Unsure, MarkAt, XOf
<1>4. Together(p, "tell")' => Together(p, "tell")
  BY <1>1 DEF Together, Undisturbed
<1>5. ASSUME Narrowed(p) PROVE Narrowed(p)'
  <2>1. ASSUME NEW s PROVE Decided(p, s)' = Decided(p, s) /\ Decided(p, s) \subseteq DotsOf(p)
    BY <1>1, <1>3 DEF Decided
  <2>2. ASSUME NEW s PROVE Weight(p, Decided(p, s))' = Weight(p, Decided(p, s))
    <3>1. PICK S : S = Decided(p, s)
      OBVIOUS
    <3>2. S \subseteq DotsOf(p) /\ Decided(p, s)' = S
      BY <2>1, <3>1
    <3>3. Weight(p, S)' = Weight(p, S)
      BY <1>1, <3>2
    <3>4. Weight(p, Decided(p, s))' = Weight(p, S)'
      BY <3>2 DEF Weight, WeightOf
    <3> QED BY <3>1, <3>3, <3>4
  <2> QED BY <1>1, <1>2, <1>3, <1>5, <2>2 DEF Narrowed
<1>6. ASSUME Halved(p) PROVE Halved(p)'
  <2>1. Lower(p)' = Lower(p) /\ Lower(p) \subseteq DotsOf(p)
    BY <1>1, <1>3 DEF Lower
  <2>2. Weight(p, Lower(p))' = Weight(p, Lower(p))
    <3>1. PICK S : S = Lower(p)
      OBVIOUS
    <3>2. Weight(p, S)' = Weight(p, S)
      BY <1>1, <2>1, <3>1
    <3>3. Weight(p, Lower(p))' = Weight(p, S)'
      BY <2>1, <3>1 DEF Weight, WeightOf
    <3> QED BY <3>1, <3>2, <3>3
  <2> QED BY <1>1, <1>2, <1>3, <1>6, <2>1, <2>2 DEF Halved
<1> QED BY <1>2, <1>4, <1>5, <1>6

-----------------------------------------------------------------------------
(* A guess of the cut.                                                     *)
LEMMA Targets ==
    ASSUME Types, HandshakeInv, NEW p \in Procs, part[p].lo # part[p].hi
    PROVE  /\ Target(p, 0) \in Nat /\ Target(p, 1) \in Nat
           /\ Target(p, 0) + Target(p, 1) = Weight(p, DotsOf(p))
<1>1. PICK h, c \in Int : h = Half(part[p]) /\ c = Cardinality(Part(p)) /\ 1 <= h /\ h <= c - 1
  <2>1. Partition(part[p]) /\ part[p].lo \in Int /\ part[p].hi \in Int
    BY PartFacts DEF HandshakeInv, Types
  <2>2. Half(part[p]) \in Int /\ 1 <= Half(part[p]) /\ Mid(part[p]) <= part[p].hi
    BY <2>1, HalfBounds
  <2>3. Mid(part[p]) = part[p].lo + Half(part[p])
    BY DEF Mid
  <2>4. Cardinality(Part(p)) = part[p].hi - part[p].lo + 1
    BY PartSize
  <2>5. Half(part[p]) <= Cardinality(Part(p)) - 1
    BY <2>1, <2>2, <2>3, <2>4
  <2> QED BY <2>1, <2>2, <2>4, <2>5
<1>2. PICK w \in Nat : w = Total(p)
  BY PartDots, WeightFacts DEF Total
<1>3. Target(p, 0) = w * h /\ Target(p, 1) = w * (c - h)
  BY <1>1, <1>2 DEF Target
<1>4. Weight(p, DotsOf(p)) = c * w
  BY <1>1, <1>2 DEF Weight, Total
<1>5. w * h \in Nat /\ w * (c - h) \in Nat /\ w * h + w * (c - h) = c * w
  <2>1. h \in Nat /\ c - h \in Nat
    BY <1>1
  <2>2. \A a, b \in Nat : a * b \in Nat
    OBVIOUS
  <2>3. w * h + w * (c - h) = c * w
    BY <1>1
  <2> QED BY <2>1, <2>2, <2>3
<1> QED BY <1>3, <1>4, <1>5

LEMMA GuessParts ==
    ASSUME Types, HandshakeInv, NEW p \in Procs, Narrowed(p),
           NEW half \in search[p].min .. search[p].max
    PROVE  /\ search[p] \in SearchType /\ half \in Int /\ search[p].min <= half /\ half <= search[p].max
           /\ \A d \in DotsOf(p) : XOf(p, d) \in Int
           /\ \A s \in {0, 1} : Side(p, s, half) \subseteq DotsOf(p) /\ Decided(p, s) \subseteq DotsOf(p)
           /\ \A d \in DotsOf(p) : /\ d \in Side(p, 0, half) <=> Unsure(d) /\ XOf(p, d) <= half
                                   /\ d \in Side(p, 1, half) <=> Unsure(d) /\ XOf(p, d) > half
                                   /\ MarkAt(d) \in {0, 1}
                                   /\ \A s \in {0, 1} : d \in Decided(p, s) <=> ~Unsure(d) /\ MarkAt(d) = s
                                   /\ d \in Decided(p, 0) => XOf(p, d) <= search[p].min
                                   /\ d \in Decided(p, 1) => XOf(p, d) >= search[p].max
                                   /\ Unsure(d) => search[p].min <= XOf(p, d) /\ XOf(p, d) <= search[p].max
<1>1. /\ search[p] \in SearchType /\ half \in Int /\ search[p].min <= half /\ half <= search[p].max
      /\ search[p].dim \in Dims /\ search[p].min \in Int /\ search[p].max \in Int
  <2>1. search[p] \in SearchType
    BY DEF Narrowed
  <2>2. search[p].min \in Int /\ search[p].max \in Int /\ search[p].dim \in Dims
    BY <2>1 DEF SearchType
  <2> QED BY <2>1, <2>2
<1>2. \A d \in DotsOf(p) : XOf(p, d) \in Int
  BY <1>1, PartDots DEF XOf, Dims
<1>3. \A s \in {0, 1} : Side(p, s, half) \subseteq DotsOf(p) /\ Decided(p, s) \subseteq DotsOf(p)
  BY DEF Side, Decided
<1>4. \A d \in DotsOf(p) : /\ d \in Side(p, 0, half) <=> Unsure(d) /\ XOf(p, d) <= half
                           /\ d \in Side(p, 1, half) <=> Unsure(d) /\ ~(XOf(p, d) <= half)
  BY DEF Side, Unsure, XOf
<1>5. \A d \in DotsOf(p) : ~(XOf(p, d) <= half) <=> XOf(p, d) > half
  BY <1>1, <1>2
<1>6. \A d \in DotsOf(p) : /\ MarkAt(d) \in {0, 1}
                           /\ \A s \in {0, 1} : d \in Decided(p, s) <=> ~Unsure(d) /\ MarkAt(d) = s
                           /\ d \in Decided(p, 0) => XOf(p, d) <= search[p].min
                           /\ d \in Decided(p, 1) => XOf(p, d) >= search[p].max
  BY DEF Narrowed, Decided
<1>7. \A d \in DotsOf(p) : Unsure(d) => search[p].min <= XOf(p, d) /\ XOf(p, d) <= search[p].max
  BY <1>1, <1>2 DEF Narrowed
<1> QED BY <1>1, <1>2, <1>3, <1>4, <1>5, <1>6, <1>7

\* All that lies on one side of a guess.
AllOn(p, s, half) == Decided(p, s) \union Side(p, s, half)
LEMMA GuessWeights ==
    ASSUME Types, HandshakeInv, NEW p \in Procs, Narrowed(p), part[p].lo # part[p].hi,
           NEW half \in search[p].min .. search[p].max
    PROVE  /\ \A s \in {0, 1} : /\ AllOn(p, s, half) \subseteq DotsOf(p)
                                /\ SideWeight(p, s, half) = Weight(p, AllOn(p, s, half)) /\ SideWeight(p, s, half) \in Nat
                                /\ Target(p, s) \in Nat
                                /\ SideWeight(p, s, half) <= Target(p, s) + Weight(p, Side(p, s, half))
           /\ SideWeight(p, 0, half) + SideWeight(p, 1, half) = Target(p, 0) + Target(p, 1)
           /\ AllOn(p, 0, half) \cap AllOn(p, 1, half) = {}
           /\ AllOn(p, 0, half) \union AllOn(p, 1, half) = DotsOf(p)
<1>1. DotsOf(p) \subseteq AllDots
  BY PartDots
<1>2. ASSUME NEW s \in {0, 1}
      PROVE  /\ AllOn(p, s, half) \subseteq DotsOf(p)
             /\ SideWeight(p, s, half) = Weight(p, AllOn(p, s, half)) /\ SideWeight(p, s, half) \in Nat
             /\ SideWeight(p, s, half) <= Target(p, s) + Weight(p, Side(p, s, half))
  <2>1. PICK A, K : A = Side(p, s, half) /\ K = Decided(p, s)
    OBVIOUS
  <2>2. A \subseteq DotsOf(p) /\ K \subseteq DotsOf(p)
    BY <2>1, GuessParts
  <2>3. K \cap A = {}
    BY <2>1, <2>2, GuessParts
  <2>4. Weight(p, K \union A) = Weight(p, K) + Weight(p, A) /\ Weight(p, K) \in Nat /\ Weight(p, A) \in Nat
    BY <1>1, <2>2, <2>3, PartWeight
  <2>5. search[p].wt[s] = Weight(p, K) /\ search[p].wt[s] <= Target(p, s)
    BY <2>1 DEF Narrowed
  <2>6. SideWeight(p, s, half) = Weight(p, K) + Weight(p, A)
    BY <2>1, <2>5 DEF SideWeight
  <2>7. Target(p, s) \in Nat
    BY Targets
  <2> QED BY <2>1, <2>2, <2>4, <2>5, <2>6, <2>7 DEF AllOn
<1>3. /\ AllOn(p, 0, half) \cap AllOn(p, 1, half) = {}
      /\ AllOn(p, 0, half) \union AllOn(p, 1, half) = DotsOf(p)
  <2>1. ASSUME NEW d \in DotsOf(p)
        PROVE  (d \in AllOn(p, 0, half) \/ d \in AllOn(p, 1, half)) /\ ~(d \in AllOn(p, 0, half) /\ d \in AllOn(p, 1, half))
    <3>1. /\ d \in AllOn(p, 0, half) <=> IF Unsure(d) THEN XOf(p, d) <= half ELSE MarkAt(d) = 0
          /\ d \in AllOn(p, 1, half) <=> IF Unsure(d) THEN XOf(p, d) > half ELSE MarkAt(d) = 1
          /\ MarkAt(d) \in {0, 1} /\ XOf(p, d) \in Int /\ half \in Int
      BY GuessParts DEF AllOn
    <3> QED BY <3>1
  <2> QED BY <1>2, <2>1
<1>4. SideWeight(p, 0, half) + SideWeight(p, 1, half) = Target(p, 0) + Target(p, 1)
  <2>1. PICK A, B : A = AllOn(p, 0, half) /\ B = AllOn(p, 1, half)
    OBVIOUS
  <2>2. A \subseteq AllDots /\ B \subseteq AllDots /\ A \cap B = {} /\ A \union B = DotsOf(p)
    BY <1>1, <1>2, <1>3, <2>1
  <2>3. Weight(p, A \union B) = Weight(p, A) + Weight(p, B)
    BY <2>2, PartWeight
  <2>4. Target(p, 0) + Target(p, 1) = Weight(p, DotsOf(p))
    BY Targets
  <2>5. Weight(p, DotsOf(p)) = Weight(p, A) + Weight(p, B)
    BY <2>2, <2>3
  <2> QED BY <1>2, <2>1, <2>4, <2>5
<1> QED BY <1>2, <1>3, <1>4, Targets

\* The coordinates of dots in the dimension of the cut of process p.
XsOf(p, D) == {XOf(p, d) : d \in D}

\* The dots that the side that is too small can have.
LEMMA Wanted ==
    ASSUME Types, HandshakeInv, NEW p \in Procs, Narrowed(p), part[p].lo # part[p].hi,
           NEW half \in search[p].min .. search[p].max,
           NEW s \in {0, 1}, s \in TooSmall(p, half),
           NEW far, far = Side(p, 1 - s, half), NEW xs, xs = XsOf(p, far),
           NEW v, v = IF s = 0 THEN Min(xs) ELSE Max(xs),
           NEW need, need = Target(p, s) - SideWeight(p, s, half)
    PROVE  /\ need \in Int /\ 0 < need /\ v \in Int /\ far \subseteq DotsOf(p)
           /\ \A d \in far : IF s = 0 THEN v <= XOf(p, d) /\ half < v ELSE XOf(p, d) <= v /\ v <= half
           /\ search[p].min <= v /\ v <= search[p].max
<1>1. /\ \A r \in {0, 1} : /\ SideWeight(p, r, half) \in Nat /\ Target(p, r) \in Nat
                           /\ SideWeight(p, r, half) <= Target(p, r) + Weight(p, Side(p, r, half))
      /\ SideWeight(p, 0, half) + SideWeight(p, 1, half) = Target(p, 0) + Target(p, 1)
  BY GuessWeights
<1>2. SideWeight(p, s, half) < Target(p, s)
  BY DEF TooSmall
<1>3. need \in Int /\ 0 < need
  BY <1>1, <1>2
<1>4. far \subseteq DotsOf(p) /\ DotsOf(p) \subseteq AllDots /\ 1 - s \in {0, 1}
  BY GuessParts, PartDots
<1>5. Weight(p, far) # 0
  <2>1. SideWeight(p, 1 - s, half) <= Target(p, 1 - s) + Weight(p, far)
    BY <1>1, <1>4
  <2>2. SideWeight(p, 1 - s, half) > Target(p, 1 - s)
    <3>1. CASE s = 0
      BY <1>1, <1>2, <3>1
    <3>2. CASE s = 1
      BY <1>1, <1>2, <3>2
    <3> QED BY <3>1, <3>2
  <2>3. SideWeight(p, 1 - s, half) \in Nat /\ Target(p, 1 - s) \in Nat
    BY <1>1, <1>4
  <2> QED BY <2>1, <2>2, <2>3
<1>6. far # {}
  <2> SUFFICES ASSUME far = {} PROVE FALSE
    OBVIOUS
  <2> QED BY <1>4, <1>5, PartWeight
<1>7. \A d \in far : /\ XOf(p, d) \in Int /\ XOf(p, d) \in xs
                     /\ search[p].min <= XOf(p, d) /\ XOf(p, d) <= search[p].max
                     /\ IF s = 0 THEN half < XOf(p, d) ELSE XOf(p, d) <= half
  <2> SUFFICES ASSUME NEW d \in far
               PROVE /\ XOf(p, d) \in Int /\ XOf(p, d) \in xs
                     /\ search[p].min <= XOf(p, d) /\ XOf(p, d) <= search[p].max
                     /\ IF s = 0 THEN half < XOf(p, d) ELSE XOf(p, d) <= half
    OBVIOUS
  <2>1. XOf(p, d) \in xs
    BY DEF XsOf
  <2>2. /\ XOf(p, d) \in Int
        /\ d \in Side(p, 0, half) <=> Unsure(d) /\ XOf(p, d) <= half
        /\ d \in Side(p, 1, half) <=> Unsure(d) /\ XOf(p, d) > half
        /\ Unsure(d) => search[p].min <= XOf(p, d) /\ XOf(p, d) <= search[p].max
        /\ half \in Int
    BY <1>4, GuessParts
  <2>3. CASE s = 0
    <3>1. d \in Side(p, 1, half)
      BY <2>3
    <3> QED BY <2>1, <2>2, <2>3, <3>1
  <2>4. CASE s = 1
    <3>1. d \in Side(p, 0, half)
      BY <2>4
    <3> QED BY <2>1, <2>2, <2>4, <3>1
  <2> QED BY <2>3, <2>4
<1>8. xs \subseteq Int /\ xs # {} /\ IsFiniteSet(xs) /\ \A y \in xs : \E d \in far : y = XOf(p, d)
  <2>1. \A y \in xs : \E d \in far : y = XOf(p, d)
    BY DEF XsOf
  <2>2. xs \subseteq Int /\ xs # {}
    BY <1>6, <1>7, <2>1
  <2>3. IsFiniteSet(far)
    BY <1>4, PartDots, FS_Subset
  <2> DEFINE h == [d \in far |-> XOf(p, d)]
  <2>4. h \in Surjection(far, xs)
    BY <1>7, <2>1 DEF Surjection
  <2> HIDE DEF h
  <2>5. IsFiniteSet(xs)
    BY <2>3, <2>4, FS_Surjection
  <2> QED BY <2>1, <2>2, <2>5
<1>9. v \in xs /\ \A y \in xs : IF s = 0 THEN v <= y ELSE y <= v
  <2>1. CASE s = 0
    <3>1. \E i \in xs : \A j \in xs : i <= j
      BY <1>8, LeastOfFinite
    <3> QED BY <2>1, <3>1 DEF Min
  <2>2. CASE s = 1
    <3>1. \E i \in xs : \A j \in xs : i >= j
      BY <1>8, GreatestOfFinite
    <3>2. Max(xs) \in xs /\ \A j \in xs : Max(xs) >= j
      BY <3>1 DEF Max
    <3>3. v = Max(xs)
      BY <2>2
    <3>4. v \in xs /\ \A j \in xs : v >= j
      BY <3>2, <3>3
    <3>5. \A j \in xs : j <= v
      BY <1>8, <3>4
    <3>6. s # 0
      BY <2>2
    <3> QED BY <3>4, <3>5, <3>6
  <2> QED BY <2>1, <2>2
<1>10. PICK d \in far : v = XOf(p, d)
  BY <1>8, <1>9
<1>11. v \in Int /\ search[p].min <= v /\ v <= search[p].max /\ (IF s = 0 THEN half < v ELSE v <= half)
  BY <1>7, <1>10
<1> QED BY <1>3, <1>4, <1>7, <1>9, <1>11

-----------------------------------------------------------------------------
(* What the guess of a cut leaves.                                         *)
LEMMA MarksAfter ==
    ASSUME Types, HandshakeInv, NEW p \in Procs, Narrowed(p),
           NEW half \in search[p].min .. search[p].max,
           NEW s \in {0, 1}, NEW S, S \subseteq Side(p, 1 - s, half), mark' = Marks(p, half, s, S)
    PROVE  \A d \in DotsOf(p) : MarkAt(d)' = IF d \in AllOn(p, s, half) \union S THEN s ELSE 1 - s
<1> SUFFICES ASSUME NEW d \in DotsOf(p)
             PROVE  MarkAt(d)' = IF d \in AllOn(p, s, half) \union S THEN s ELSE 1 - s
  OBVIOUS
<1>1. PICK q, i : d = <<q, i>> /\ q \in Procs /\ q \in Part(p) /\ i \in DOMAIN dots[q] /\ q = d[1] /\ i = d[2]
  BY PartDots
<1>2. PICK low, high : /\ low = (Side(p, 0, half) \ S) \union (IF s = 0 THEN S ELSE {})
                       /\ high = (Side(p, 1, half) \ S) \union (IF s = 1 THEN S ELSE {})
  OBVIOUS
<1>3. MarkAt(d)' = IF d \in low THEN 0 ELSE IF d \in high THEN 1 ELSE MarkAt(d)
  BY <1>1, <1>2 DEF Marks, MarkAt
<1>4. /\ d \in Side(p, 0, half) <=> Unsure(d) /\ XOf(p, d) <= half
      /\ d \in Side(p, 1, half) <=> Unsure(d) /\ XOf(p, d) > half
      /\ MarkAt(d) \in {0, 1}
      /\ \A r \in {0, 1} : d \in Decided(p, r) <=> ~Unsure(d) /\ MarkAt(d) = r
      /\ XOf(p, d) \in Int /\ half \in Int
  BY GuessParts
<1>5. CASE s = 0
  <2>1. S \subseteq Side(p, 1, half)
    BY <1>5
  <2>2. low = Side(p, 0, half) \union S /\ high = Side(p, 1, half) \ S
    <3>1. \A e \in S : e \notin Side(p, 0, half)
      <4> SUFFICES ASSUME NEW e \in S, e \in Side(p, 0, half) PROVE FALSE
        OBVIOUS
      <4>1. e \in DotsOf(p) /\ e \in Side(p, 1, half)
        BY <2>1, GuessParts
      <4>2. XOf(p, e) <= half /\ XOf(p, e) > half /\ XOf(p, e) \in Int /\ half \in Int
        BY <4>1, GuessParts
      <4> QED BY <4>2
    <3> QED BY <1>2, <1>5, <3>1
  <2> QED BY <1>3, <1>4, <1>5, <2>1, <2>2 DEF AllOn
<1>6. CASE s = 1
  <2>1. S \subseteq Side(p, 0, half)
    BY <1>6
  <2>2. low = Side(p, 0, half) \ S /\ high = Side(p, 1, half) \union S
    <3>1. \A e \in S : e \notin Side(p, 1, half)
      <4> SUFFICES ASSUME NEW e \in S, e \in Side(p, 1, half) PROVE FALSE
        OBVIOUS
      <4>1. e \in DotsOf(p) /\ e \in Side(p, 0, half)
        BY <2>1, GuessParts
      <4>2. XOf(p, e) <= half /\ XOf(p, e) > half /\ XOf(p, e) \in Int /\ half \in Int
        BY <4>1, GuessParts
      <4> QED BY <4>2
    <3> QED BY <1>2, <1>6, <3>1
  <2> QED BY <1>3, <1>4, <1>6, <2>1, <2>2 DEF AllOn
<1> QED BY <1>5, <1>6

\* Where the cut is found.
LEMMA CutFound ==
    ASSUME Types, HandshakeInv, BoxTypes, NEW p \in Procs, p = part[p].lo, Narrowed(p), part[p].lo # part[p].hi,
           NEW half \in search[p].min .. search[p].max,
           NEW s \in {0, 1}, NEW S, S \subseteq Side(p, 1 - s, half), mark' = Marks(p, half, s, S),
           part' = part, load' = load, dots' = dots, NEW v \in Int, FoundCut(p, v),
           SideWeight(p, s, half) + Weight(p, S) - Target(p, s) \in -Tolerance(p) .. Tolerance(p),
           search[p].min <= v /\ v <= search[p].max,
           IF s = 0 THEN half <= v ELSE v <= half,
           \A d \in S : IF s = 0 THEN XOf(p, d) <= v ELSE v <= XOf(p, d),
           \A d \in Side(p, 1 - s, half) \ S : IF s = 0 THEN v <= XOf(p, d) ELSE XOf(p, d) <= v
    PROVE  Halved(p)' /\ BoxTypes'
<1>1. /\ Part(p)' = Part(p) /\ DotsOf(p)' = DotsOf(p)
      /\ \A d \in DotsOf(p) : Dot(d)' = Dot(d)
      /\ \A X : X \subseteq DotsOf(p) => Weight(p, X)' = Weight(p, X)
      /\ \A r : Target(p, r)' = Target(p, r)
      /\ Tolerance(p)' = Tolerance(p)
  BY SameMeasures
<1>2. /\ search' = search /\ active' = active
      /\ box' = [q \in Procs |->
               IF q \notin Part(p) THEN box[q]
               ELSE IF q < Mid(part[p]) THEN [box[q] EXCEPT ![search[p].dim].hi = v]
               ELSE [box[q] EXCEPT ![search[p].dim].lo = v]]
  BY DEF FoundCut
<1>3. PICK dim \in Dims : dim = search[p].dim
  BY DEF Narrowed, SearchType
<1>4. BoxTypes'
  <2>1. Procs' = Procs
    BY DEF Procs, NProcs
  <2>2. \A q \in Procs : box'[q] \in [Dims -> [lo : Int, hi : Int]]
    <3> SUFFICES ASSUME NEW q \in Procs PROVE box'[q] \in [Dims -> [lo : Int, hi : Int]]
      OBVIOUS
    <3>1. PICK b \in [Dims -> [lo : Int, hi : Int]] : b = box[q]
      BY DEF BoxTypes
    <3>2. box'[q] \in {b, [b EXCEPT ![dim].hi = v], [b EXCEPT ![dim].lo = v]}
      BY <1>2, <1>3, <3>1
    <3> QED BY <3>2
  <2>3. box' \in [Procs -> [Dims -> [lo : Int, hi : Int]]]
    BY <1>2, <2>2
  <2> QED BY <1>2, <2>1, <2>3 DEF BoxTypes
<1>5. box'[p][dim].hi = v
  <2>1. p < Mid(part[p])
    <3>1. Partition(part[p]) /\ part[p].lo \in Int
      BY PartFacts DEF HandshakeInv, Types
    <3>2. Mid(part[p]) \in part[p].lo + 1 .. part[p].hi
      BY <3>1, HalfBounds
    <3> QED BY <3>1, <3>2 DEF Partition
  <2>2. p \in Part(p)
    BY PartFacts DEF HandshakeInv, Types
  <2>3. box'[p] = [box[p] EXCEPT ![dim].hi = v]
    BY <1>2, <1>3, <2>1, <2>2
  <2>4. box[p] \in [Dims -> [lo : Int, hi : Int]]
    BY DEF BoxTypes
  <2> QED BY <2>3, <2>4
<1>6. \A d \in DotsOf(p) : MarkAt(d)' = IF d \in AllOn(p, s, half) \union S THEN s ELSE 1 - s
  BY MarksAfter
<1>7. \A d \in DotsOf(p) : XOf(p, d)' = XOf(p, d)
  BY <1>1, <1>2 DEF XOf
<1>8. PICK A, B, D : A = AllOn(p, s, half) /\ B = AllOn(p, 1 - s, half) /\ D = DotsOf(p)
  OBVIOUS
<1>9. A \cap B = {} /\ A \union B = D /\ S \subseteq B /\ D \subseteq AllDots
  <2>1. AllOn(p, 0, half) \cap AllOn(p, 1, half) = {} /\ AllOn(p, 0, half) \union AllOn(p, 1, half) = DotsOf(p)
    BY GuessWeights
  <2>2. CASE s = 0
    BY <1>8, <2>1, <2>2, PartDots DEF AllOn
  <2>3. CASE s = 1
    BY <1>8, <2>1, <2>3, PartDots DEF AllOn
  <2> QED BY <2>2, <2>3
<1>10. Weight(p, A \union S) = SideWeight(p, s, half) + Weight(p, S) /\ Weight(p, D) = Target(p, 0) + Target(p, 1)
       /\ Weight(p, D \ (A \union S)) = Weight(p, D) - Weight(p, A \union S)
       /\ Weight(p, S) \in Nat /\ SideWeight(p, s, half) \in Nat /\ Target(p, 0) \in Nat /\ Target(p, 1) \in Nat
       /\ Tolerance(p) \in Nat
  <2>1. SideWeight(p, s, half) = Weight(p, A) /\ SideWeight(p, s, half) \in Nat
    BY <1>8, GuessWeights
  <2>2. A \subseteq AllDots /\ S \subseteq AllDots /\ A \cap S = {} /\ A \union S \subseteq D
    BY <1>9
  <2>3. Weight(p, A \union S) = Weight(p, A) + Weight(p, S) /\ Weight(p, S) \in Nat
    BY <2>2, PartWeight
  <2>4. \A X : X \subseteq D => Weight(p, D \ X) = Weight(p, D) - Weight(p, X)
    BY <1>9, PartWeight
  <2> QED BY <1>8, <2>1, <2>2, <2>3, <2>4, Targets, WithinTolerance
<1>11. PICK L : L = IF s = 0 THEN A \union S ELSE D \ (A \union S)
  OBVIOUS
<1>12. Lower(p)' = L
  <2>1. \A d \in D : MarkAt(d)' = 0 <=> d \in L
    <3>1. CASE s = 0
      BY <1>6, <1>8, <1>11, <3>1
    <3>2. CASE s = 1
      <4>1. L = D \ (A \union S)
        BY <1>11, <3>2
      <4>2. \A d \in D : MarkAt(d)' = IF d \in A \union S THEN 1 ELSE 0
        BY <1>6, <1>8, <3>2
      <4> QED BY <4>1, <4>2
    <3> QED BY <3>1, <3>2
  <2>2. L \subseteq D
    BY <1>9, <1>11
  <2>3. Lower(p)' = {d \in D : MarkAt(d)' = 0}
    BY <1>1, <1>8 DEF Lower
  <2> QED BY <2>1, <2>2, <2>3
<1>13. Weight(p, L) - Target(p, 0) \in -Tolerance(p) .. Tolerance(p)
  <2>1. PICK sw, ws, t0, t1, tol \in Nat : /\ sw = SideWeight(p, s, half) /\ ws = Weight(p, S) /\ tol = Tolerance(p)
                                          /\ t0 = Target(p, 0) /\ t1 = Target(p, 1)
    BY <1>10
  <2>2. CASE s = 0
    <3>1. Weight(p, L) = sw + ws /\ sw + ws - t0 \in -tol .. tol
      BY <1>10, <1>11, <2>1, <2>2
    <3> QED BY <2>1, <3>1
  <2>3. CASE s = 1
    <3>1. Weight(p, L) = (t0 + t1) - (sw + ws) /\ sw + ws - t1 \in -tol .. tol
      BY <1>10, <1>11, <2>1, <2>3
    <3>2. Weight(p, L) - t0 \in -tol .. tol
      BY ONLY <3>1, sw \in Nat, ws \in Nat, t0 \in Nat, t1 \in Nat, tol \in Nat
    <3> QED BY <2>1, <3>2
  <2> QED BY <2>2, <2>3
<1>14. Weight(p, Lower(p))' = Weight(p, L)
  <2>1. Weight(p, L)' = Weight(p, L)
    BY <1>1, <1>8, <1>9, <1>11
  <2>2. Weight(p, Lower(p))' = Weight(p, L)'
    BY <1>12 DEF Weight, WeightOf
  <2> QED BY <2>1, <2>2
<1>15. ASSUME NEW d \in D PROVE IF d \in L THEN XOf(p, d) <= v ELSE XOf(p, d) >= v
  <2>1. /\ d \in Side(p, 0, half) <=> Unsure(d) /\ XOf(p, d) <= half
        /\ d \in Side(p, 1, half) <=> Unsure(d) /\ XOf(p, d) > half
        /\ d \in Decided(p, 0) => XOf(p, d) <= search[p].min
        /\ d \in Decided(p, 1) => XOf(p, d) >= search[p].max
        /\ XOf(p, d) \in Int /\ half \in Int
    BY <1>8, GuessParts
  <2>2. search[p].min \in Int /\ search[p].max \in Int
    BY GuessParts DEF SearchType
  <2>3. PICK x, l, m \in Int : x = XOf(p, d) /\ l = search[p].min /\ m = search[p].max
    BY <2>1, <2>2
  <2>4. d \in A \/ d \in B
    BY <1>9
  <2>5. CASE s = 0
    <3>1. d \in A => d \in Decided(p, 0) \/ d \in Side(p, 0, half)
      BY <1>8, <2>5 DEF AllOn
    <3>2. d \in B => d \in Decided(p, 1) \/ d \in Side(p, 1, half)
      BY <1>8, <2>5 DEF AllOn
    <3>3. CASE d \in A
      <4>1. x <= l \/ x <= half
        BY <2>1, <2>3, <3>1, <3>3
      <4>2. l <= v /\ half <= v
        BY <2>3, <2>5
      <4>3. x <= v /\ d \in L
        BY <1>11, <2>1, <2>5, <3>3, <4>1, <4>2
      <4> QED BY <2>3, <4>3
    <3>4. CASE d \in S
      <4>1. x <= v /\ d \in L
        BY <1>11, <2>3, <2>5, <3>4
      <4> QED BY <2>3, <4>1
    <3>5. CASE d \notin A /\ d \notin S
      <4>1. x >= m \/ v <= x
        <5>1. CASE d \in Decided(p, 1)
          BY <2>1, <2>3, <5>1
        <5>2. CASE d \in Side(p, 1, half)
          BY <2>3, <2>5, <3>5, <5>2
        <5> QED BY <2>4, <3>2, <3>5, <5>1, <5>2
      <4>2. x >= v /\ d \notin L
        BY <1>11, <2>3, <2>5, <3>5, <4>1
      <4> QED BY <2>3, <4>2
    <3> QED BY <3>3, <3>4, <3>5
  <2>6. CASE s = 1
    <3>1. d \in A => d \in Decided(p, 1) \/ d \in Side(p, 1, half)
      BY <1>8, <2>6 DEF AllOn
    <3>2. d \in B => d \in Decided(p, 0) \/ d \in Side(p, 0, half)
      BY <1>8, <2>6 DEF AllOn
    <3>0. L = D \ (A \union S) /\ v <= half
      BY <1>11, <2>6
    <3>3. CASE d \in A
      <4>1. x >= m \/ x > half
        BY <2>1, <2>3, <3>1, <3>3
      <4>2. x >= v /\ d \notin L
        BY <2>1, <2>3, <3>0, <3>3, <4>1
      <4> QED BY <2>3, <4>2
    <3>4. CASE d \in S
      <4>1. v <= x /\ d \notin L
        BY <2>3, <2>6, <3>0, <3>4
      <4> QED BY <2>3, <4>1
    <3>5. CASE d \notin A /\ d \notin S
      <4>1. x <= l \/ x <= v
        <5>1. CASE d \in Decided(p, 0)
          BY <2>1, <2>3, <5>1
        <5>2. CASE d \in Side(p, 0, half)
          BY <2>3, <2>6, <3>5, <5>2
        <5> QED BY <2>4, <3>2, <3>5, <5>1, <5>2
      <4>2. x <= v /\ d \in L
        BY <2>3, <3>0, <3>5, <4>1
      <4> QED BY <2>3, <4>2
    <3> QED BY <3>3, <3>4, <3>5
  <2> QED BY <2>5, <2>6
<1>16. \A d \in D : MarkAt(d)' \in {0, 1}
  BY <1>6, <1>8
<1>17. Halved(p)'
  <2>1. search'[p].dim = dim /\ dim \in Dims
    BY <1>2, <1>3
  <2>2. Lower(p)' \subseteq D
    BY <1>9, <1>11, <1>12
  <2> QED BY <1>1, <1>5, <1>7, <1>8, <1>12, <1>13, <1>14, <1>15, <1>16, <2>1 DEF Halved
<1> QED BY <1>4, <1>17

-----------------------------------------------------------------------------
(* Where the search goes on.                                               *)
\* Where the search goes on.
LEMMA CutNarrowed ==
    ASSUME Types, HandshakeInv, BoxTypes, NEW p \in Procs, Narrowed(p), part[p].lo # part[p].hi,
           NEW half \in search[p].min .. search[p].max,
           NEW s \in {0, 1}, NEW far, far = Side(p, 1 - s, half),
           NEW S, S \subseteq far, mark' = Marks(p, half, s, S),
           part' = part, load' = load, dots' = dots, box' = box, NEW v \in Int,
           DOMAIN active' = Procs, DOMAIN search' = Procs,
           \A q \in Part(p) : \A i : i \in active'[q] <=> i \in active[q] /\ <<q, i>> \in far \ S,
           search'[p] \in SearchType, search'[p].dim = search[p].dim,
           search'[p].wt[s] = SideWeight(p, s, half) + Weight(p, S),
           search'[p].wt[1 - s] = search[p].wt[1 - s],
           search'[p].min = (IF s = 0 THEN v ELSE search[p].min),
           search'[p].max = (IF s = 1 THEN v ELSE search[p].max),
           SideWeight(p, s, half) + Weight(p, S) <= Target(p, s),
           search[p].min <= v /\ v <= search[p].max,
           IF s = 0 THEN half <= v ELSE v <= half,
           \A d \in S : XOf(p, d) = v,
           \A d \in far \ S : IF s = 0 THEN v <= XOf(p, d) ELSE XOf(p, d) <= v
    PROVE  Narrowed(p)' /\ BoxTypes'
<1>1. /\ Part(p)' = Part(p) /\ DotsOf(p)' = DotsOf(p)
      /\ \A d \in DotsOf(p) : Dot(d)' = Dot(d)
      /\ \A X : X \subseteq DotsOf(p) => Weight(p, X)' = Weight(p, X)
      /\ \A r : Target(p, r)' = Target(p, r)
  BY SameMeasures
<1>2. PICK c \in SearchType : c = search[p]
  BY DEF Narrowed
<1>3. c.dim \in Dims /\ c.min \in Int /\ c.max \in Int /\ c.wt \in [{0, 1} -> Int]
  BY DEF SearchType
<1>4. PICK sw, ws \in Nat : sw = SideWeight(p, s, half) /\ ws = Weight(p, S)
  <2>1. S \subseteq AllDots
    BY GuessParts, PartDots
  <2> QED BY <2>1, GuessWeights, PartWeight
<1>5. PICK e : e = search'[p]
  OBVIOUS
<1>6. search'[p] = e
  BY <1>5
<1>7. /\ e \in SearchType /\ e.dim = c.dim /\ e.wt[s] = sw + ws
      /\ e.wt[1 - s] = c.wt[1 - s]
      /\ e.min = (IF s = 0 THEN v ELSE c.min) /\ e.max = (IF s = 1 THEN v ELSE c.max)
  BY <1>2, <1>4, <1>5
<1>8. BoxTypes'
  <2>1. Procs' = Procs
    BY DEF Procs, NProcs
  <2> QED BY <2>1 DEF BoxTypes
<1>9. \A d \in DotsOf(p) : MarkAt(d)' = IF d \in AllOn(p, s, half) \union S THEN s ELSE 1 - s
  BY MarksAfter
<1>10. \A d \in DotsOf(p) : XOf(p, d)' = XOf(p, d)
  BY <1>1, <1>2, <1>6, <1>7 DEF XOf
<1>11. \A d \in DotsOf(p) : d \in far => Unsure(d)
  <2>1. CASE s = 0
    BY <2>1, GuessParts
  <2>2. CASE s = 1
    BY <2>2, GuessParts
  <2> QED BY <2>1, <2>2
<1>12. \A d \in DotsOf(p) : Unsure(d)' <=> d \in far \ S
  <2> SUFFICES ASSUME NEW d \in DotsOf(p) PROVE Unsure(d)' <=> d \in far \ S
    OBVIOUS
  <2>1. PICK q, i : d = <<q, i>> /\ q \in Procs /\ q \in Part(p) /\ q = d[1] /\ i = d[2]
    BY PartDots
  <2> QED BY <1>11, <2>1 DEF Unsure
<1>13. PICK A, K, D : A = AllOn(p, s, half) /\ K = Decided(p, 1 - s) /\ D = DotsOf(p)
  OBVIOUS
<1>14. /\ A \cap far = {} /\ A \cap K = {} /\ K \cap far = {} /\ (A \union K) \union far = D
       /\ D \subseteq AllDots
  <2>1. AllOn(p, 0, half) \cap AllOn(p, 1, half) = {} /\ AllOn(p, 0, half) \union AllOn(p, 1, half) = DotsOf(p)
    BY GuessWeights
  <2>2. K \cap far = {}
    <3>1. 1 - s \in {0, 1}
      OBVIOUS
    <3>2. K \subseteq DotsOf(p)
      BY <1>13, <3>1, GuessParts
    <3>3. \A d \in DotsOf(p) : d \in K => ~Unsure(d)
      BY <1>13, <3>1, GuessParts
    <3> QED BY <1>11, <3>2, <3>3
  <2>3. CASE s = 0
    BY <1>13, <2>1, <2>2, <2>3, PartDots DEF AllOn
  <2>4. CASE s = 1
    BY <1>13, <2>1, <2>2, <2>4, PartDots DEF AllOn
  <2> QED BY <2>3, <2>4
<1>15. Decided(p, s)' = A \union S /\ Decided(p, 1 - s)' = K
  <2>1. ASSUME NEW r PROVE Decided(p, r)' = {d \in D : ~(d \in far \ S) /\ (IF d \in A \union S THEN s ELSE 1 - s) = r}
    BY <1>1, <1>9, <1>12, <1>13 DEF Decided
  <2>2. s # 1 - s /\ S \subseteq D
    BY <1>14
  <2>3. Decided(p, s)' = {d \in D : ~(d \in far \ S) /\ (IF d \in A \union S THEN s ELSE 1 - s) = s}
    BY <2>1
  <2>4. Decided(p, 1 - s)' = {d \in D : ~(d \in far \ S) /\ (IF d \in A \union S THEN s ELSE 1 - s) = 1 - s}
    BY <2>1
  <2> QED BY <1>14, <2>2, <2>3, <2>4
<1>16. \A X : X \subseteq D => \A r : Decided(p, r)' = X => Weight(p, Decided(p, r))' = Weight(p, X)
  <2> SUFFICES ASSUME NEW X, X \subseteq D, NEW r, Decided(p, r)' = X
               PROVE  Weight(p, Decided(p, r))' = Weight(p, X)
    OBVIOUS
  <2>1. Weight(p, X)' = Weight(p, X)
    BY <1>1, <1>13
  <2>2. Weight(p, Decided(p, r))' = Weight(p, X)'
    BY DEF Weight, WeightOf
  <2> QED BY <2>1, <2>2
<1>17. Weight(p, A \union S) = sw + ws
  <2>1. A \subseteq AllDots /\ S \subseteq AllDots /\ A \cap S = {}
    BY <1>14
  <2>2. Weight(p, A \union S) = Weight(p, A) + Weight(p, S)
    BY <2>1, PartWeight
  <2> QED BY <1>4, <1>13, <2>2, GuessWeights
<1>18. \A r \in {0, 1} : e.wt[r] = Weight(p, Decided(p, r))' /\ e.wt[r] <= Target(p, r)
  <2>1. e.wt[s] = Weight(p, Decided(p, s))' /\ e.wt[s] <= Target(p, s)
    <3>1. A \union S \subseteq D
      BY <1>14
    <3>2. Weight(p, Decided(p, s))' = Weight(p, A \union S)
      BY <1>15, <1>16, <3>1
    <3> QED BY <1>4, <1>7, <1>17, <3>2
  <2>2. e.wt[1 - s] = Weight(p, Decided(p, 1 - s))' /\ e.wt[1 - s] <= Target(p, 1 - s)
    <3>1. K \subseteq D
      BY <1>14
    <3>2. Weight(p, Decided(p, 1 - s))' = Weight(p, K)
      BY <1>15, <1>16, <3>1
    <3>3. 1 - s \in {0, 1}
      OBVIOUS
    <3>4. c.wt[1 - s] = Weight(p, K) /\ c.wt[1 - s] <= Target(p, 1 - s)
      BY <1>2, <1>13, <3>3 DEF Narrowed
    <3> QED BY <1>7, <3>2, <3>4
  <2>3. \A r \in {0, 1} : r = s \/ r = 1 - s
    OBVIOUS
  <2> QED BY <2>1, <2>2, <2>3
<1>19. ASSUME NEW d \in D
       PROVE  /\ MarkAt(d)' \in {0, 1}
              /\ d \in far \ S => XOf(p, d) \in e.min .. e.max
              /\ d \notin far \ S => IF MarkAt(d)' = 0 THEN XOf(p, d) <= e.min ELSE XOf(p, d) >= e.max
  <2>1. /\ d \in Side(p, 0, half) <=> Unsure(d) /\ XOf(p, d) <= half
        /\ d \in Side(p, 1, half) <=> Unsure(d) /\ XOf(p, d) > half
        /\ d \in Decided(p, 0) => XOf(p, d) <= search[p].min
        /\ d \in Decided(p, 1) => XOf(p, d) >= search[p].max
        /\ Unsure(d) => search[p].min <= XOf(p, d) /\ XOf(p, d) <= search[p].max
        /\ XOf(p, d) \in Int /\ half \in Int /\ search[p].min <= half /\ half <= search[p].max
    BY <1>13, GuessParts
  <2>2. PICK x \in Int : x = XOf(p, d)
    BY <2>1
  <2>3. c.min <= v /\ v <= c.max /\ (d \in far => c.min <= x /\ x <= c.max) /\ c.min <= half /\ half <= c.max
    BY <1>2, <1>11, <1>13, <2>1, <2>2
  <2>4. MarkAt(d)' \in {0, 1}
    <3>1. s \in {0, 1} /\ 1 - s \in {0, 1}
      OBVIOUS
    <3> QED BY <1>9, <1>13, <3>1
  <2>5. CASE d \in far \ S
    <3>1. IF s = 0 THEN v <= x ELSE x <= v
      BY <2>2, <2>5
    <3>2. x \in e.min .. e.max
      <4>1. CASE s = 0
        <5>1. e.min = v /\ e.max = c.max /\ v <= x
          BY <1>7, <3>1, <4>1
        <5> QED BY <1>3, <2>2, <2>3, <2>5, <5>1
      <4>2. CASE s = 1
        <5>1. e.min = c.min /\ e.max = v /\ x <= v
          BY <1>7, <3>1, <4>2
        <5> QED BY <1>3, <2>2, <2>3, <2>5, <5>1
      <4> QED BY <4>1, <4>2
    <3> QED BY <2>2, <2>4, <2>5, <3>2
  <2>6. CASE d \in S
    <3>1. x = v /\ MarkAt(d)' = s
      BY <1>9, <1>13, <2>2, <2>6
    <3>2. IF s = 0 THEN x <= e.min ELSE x >= e.max
      <4>1. CASE s = 0
        BY <1>7, <3>1, <4>1
      <4>2. CASE s = 1
        BY <1>7, <3>1, <4>2
      <4> QED BY <4>1, <4>2
    <3> QED BY <2>2, <2>4, <2>6, <3>1, <3>2
  <2>7. CASE d \in A
    <3>1. MarkAt(d)' = s /\ d \notin far \ S
      BY <1>9, <1>13, <1>14, <2>7
    <3>2. d \in Decided(p, s) \/ d \in Side(p, s, half)
      BY <1>13, <2>7 DEF AllOn
    <3>3. CASE s = 0
      <4>1. x <= c.min \/ x <= half
        BY <1>2, <2>1, <2>2, <3>2, <3>3
      <4>2. e.min = v /\ half <= v
        BY <1>7, <3>3
      <4>3. x <= e.min
        BY <1>3, <2>1, <2>3, <4>1, <4>2
      <4> QED BY <2>2, <3>1, <3>3, <4>3
    <3>4. CASE s = 1
      <4>1. x >= c.max \/ x > half
        BY <1>2, <2>1, <2>2, <3>2, <3>4
      <4>2. e.max = v /\ v <= half
        BY <1>7, <3>4
      <4>3. x >= e.max
        BY <1>3, <2>1, <2>3, <4>1, <4>2
      <4> QED BY <2>2, <3>1, <3>4, <4>3
    <3> QED BY <3>3, <3>4
  <2>8. CASE d \in K
    <3>1. MarkAt(d)' = 1 - s /\ d \notin far \ S
      BY <1>9, <1>13, <1>14, <2>8
    <3>2. d \in Decided(p, 1 - s)
      BY <1>13, <2>8
    <3>3. CASE s = 0
      <4>1. x >= c.max /\ e.max = c.max /\ MarkAt(d)' = 1
        BY <1>2, <1>7, <2>1, <2>2, <3>1, <3>2, <3>3
      <4> QED BY <2>2, <3>1, <4>1
    <3>4. CASE s = 1
      <4>1. x <= c.min /\ e.min = c.min /\ MarkAt(d)' = 0
        BY <1>2, <1>7, <2>1, <2>2, <3>1, <3>2, <3>4
      <4> QED BY <2>2, <3>1, <4>1
    <3> QED BY <3>3, <3>4
  <2> QED BY <1>14, <2>5, <2>6, <2>7, <2>8
<1>20. Narrowed(p)'
  <2>1. \A d \in DotsOf(p)' : /\ MarkAt(d)' \in {0, 1}
                              /\ Unsure(d)' => XOf(p, d)' \in e.min .. e.max
                              /\ ~Unsure(d)' => IF MarkAt(d)' = 0 THEN XOf(p, d)' <= e.min ELSE XOf(p, d)' >= e.max
    BY <1>1, <1>10, <1>12, <1>13, <1>19
  <2> QED BY <1>1, <1>6, <1>7, <1>18, <2>1 DEF Narrowed
<1> QED BY <1>8, <1>20

\* A guess.
LEMMA BisectSearch ==
    ASSUME Types, HandshakeInv, BoxTypes, NEW p \in Procs, Narrowed(p), Bisect(p)
    PROVE  /\ BoxTypes'
           /\ \/ (\E v \in Int : FoundCut(p, v)) /\ Halved(p)'
              \/ pc' = pc /\ box' = box /\ Narrowed(p)'
<1>1. /\ part' = part /\ load' = load /\ dots' = dots /\ p \in Part(p) /\ pc[p] = "search" /\ p = part[p].lo
      /\ part[p].lo # part[p].hi
  <2>1. p \in Part(p)
    BY PartFacts DEF HandshakeInv, Types
  <2>2. pc[p] = "search" /\ p = part[p].lo
    BY <2>1 DEF Bisect, Together
  <2> QED BY <2>1, <2>2 DEF Bisect, HandshakeInv, PartsInv
<1>2. PICK half \in search[p].min .. search[p].max : (\E s \in {0, 1} : Extend(p, s, half)) \/ JustRight(p, half)
  BY DEF Bisect
<1>3. /\ half \in Int /\ search[p].min <= half /\ half <= search[p].max
      /\ search[p].min \in Int /\ search[p].max \in Int
  BY GuessParts DEF SearchType
<1>4. /\ \A s \in {0, 1} : SideWeight(p, s, half) \in Nat /\ Target(p, s) \in Nat
      /\ SideWeight(p, 0, half) + SideWeight(p, 1, half) = Target(p, 0) + Target(p, 1)
      /\ Tolerance(p) \in Nat
  BY <1>1, GuessWeights, WithinTolerance
<1>5. CASE JustRight(p, half)
  <2>1. mark' = Marks(p, half, 0, {}) /\ FoundCut(p, half) /\ TooSmall(p, half) = {}
    BY <1>5 DEF JustRight
  <2>2. SideWeight(p, 0, half) = Target(p, 0)
    <3>1. ~(SideWeight(p, 0, half) < Target(p, 0)) /\ ~(SideWeight(p, 1, half) < Target(p, 1))
      BY <2>1 DEF TooSmall
    <3> QED BY <1>4, <3>1
  <2>3. PICK s, S : s = 0 /\ S = {} /\ s \in {0, 1}
    OBVIOUS
  <2>4. S \subseteq Side(p, 1 - s, half) /\ mark' = Marks(p, half, s, S)
    BY <2>1, <2>3
  <2>5. SideWeight(p, s, half) + Weight(p, S) - Target(p, s) \in -Tolerance(p) .. Tolerance(p)
    <3>1. Weight(p, S) = 0
      BY <2>3, PartWeight
    <3> QED BY <1>4, <2>2, <2>3, <3>1
  <2>6. PICK v \in Int : v = half
    BY <1>3
  <2>7. \A d \in Side(p, 1 - s, half) \ S : IF s = 0 THEN v <= XOf(p, d) ELSE XOf(p, d) <= v
    <3> SUFFICES ASSUME NEW d \in Side(p, 1, half) PROVE half <= XOf(p, d)
      BY <2>3, <2>6
    <3>1. d \in DotsOf(p) /\ XOf(p, d) \in Int /\ XOf(p, d) > half
      BY GuessParts
    <3> QED BY <1>3, <3>1
  <2>8. /\ \A d \in S : IF s = 0 THEN XOf(p, d) <= v ELSE v <= XOf(p, d)
        /\ IF s = 0 THEN half <= v ELSE v <= half
        /\ FoundCut(p, v) /\ search[p].min <= v /\ v <= search[p].max
    BY <1>3, <2>1, <2>3, <2>6
  <2>9. Halved(p)' /\ BoxTypes'
    BY <1>1, <2>3, <2>4, <2>5, <2>7, <2>8, CutFound
  <2> QED BY <2>8, <2>9
<1>6. CASE \E s \in {0, 1} : Extend(p, s, half)
  <2>1. PICK s \in {0, 1} : Extend(p, s, half)
    BY <1>6
  <2> DEFINE farSet == Side(p, 1 - s, half)
             xsSet == {Dot(d).x[search[p].dim] : d \in farSet}
             best == IF s = 0 THEN Min(xsSet) ELSE Max(xsSet)
             tied == {d \in farSet : Dot(d).x[search[p].dim] = best}
             lack == Target(p, s) - SideWeight(p, s, half)
             take == Moved(p, tied, lack)
  <2>a. s \in TooSmall(p, half) /\ mark' = Marks(p, half, s, take)
    BY <2>1 DEF Extend
  <2>b. IF lack - Weight(p, tied) <= Tolerance(p)
        THEN FoundCut(p, best)
        ELSE /\ active' = [q \in Procs |-> IF q \in Part(p) THEN {i \in active[q] : <<q, i>> \in farSet \ take} ELSE active[q]]
             /\ search' = [search EXCEPT ![p].wt[s] = SideWeight(p, s, half) + Weight(p, tied),
                             ![p].min = IF s = 0 THEN best ELSE @,
                             ![p].max = IF s = 1 THEN best ELSE @]
             /\ UNCHANGED <<pc, box, k>>
    BY <2>1 DEF Extend
  <2>c. PICK far : far = farSet
    OBVIOUS
  <2>d. PICK xs : xs = xsSet /\ xs = {Dot(d).x[search[p].dim] : d \in far}
    BY <2>c
  <2>e. PICK v : v = best /\ v = (IF s = 0 THEN Min(xs) ELSE Max(xs))
    <3> HIDE DEF xsSet
    <3> QED BY <2>d
  <2>f. PICK ties : ties = tied /\ ties = {d \in far : Dot(d).x[search[p].dim] = v}
    <3> HIDE DEF farSet, best
    <3> QED BY <2>c, <2>e
  <2>g. PICK need : need = lack
    OBVIOUS
  <2>h. PICK S : S = take /\ S = Moved(p, ties, need)
    <3> HIDE DEF tied, lack
    <3> QED BY <2>f, <2>g
  <2>2. /\ far = farSet /\ xs = xsSet /\ v = best /\ ties = tied /\ need = lack /\ S = take
        /\ far = Side(p, 1 - s, half) /\ xs = {Dot(d).x[search[p].dim] : d \in far}
        /\ v = (IF s = 0 THEN Min(xs) ELSE Max(xs))
        /\ ties = {d \in far : Dot(d).x[search[p].dim] = v}
        /\ need = Target(p, s) - SideWeight(p, s, half) /\ S = Moved(p, ties, need)
    BY <2>c, <2>d, <2>e, <2>f, <2>g, <2>h
  <2> HIDE DEF farSet, xsSet, best, tied, lack, take
  <2>3. s \in TooSmall(p, half) /\ mark' = Marks(p, half, s, S)
    BY <2>2, <2>a
  <2>4. IF need - Weight(p, ties) <= Tolerance(p)
        THEN FoundCut(p, v)
        ELSE /\ active' = [q \in Procs |-> IF q \in Part(p) THEN {i \in active[q] : <<q, i>> \in far \ S} ELSE active[q]]
             /\ search' = [search EXCEPT ![p].wt[s] = SideWeight(p, s, half) + Weight(p, ties),
                             ![p].min = IF s = 0 THEN v ELSE @,
                             ![p].max = IF s = 1 THEN v ELSE @]
             /\ UNCHANGED <<pc, box, k>>
    BY <2>2, <2>b
  <2>5. /\ need \in Int /\ 0 < need /\ v \in Int /\ far \subseteq DotsOf(p)
        /\ \A d \in far : IF s = 0 THEN v <= XOf(p, d) /\ half < v ELSE XOf(p, d) <= v /\ v <= half
        /\ search[p].min <= v /\ v <= search[p].max
    <3>1. xs = XsOf(p, far)
      BY <2>2 DEF XsOf, XOf
    <3>2. /\ far = Side(p, 1 - s, half) /\ v = (IF s = 0 THEN Min(xs) ELSE Max(xs))
          /\ need = Target(p, s) - SideWeight(p, s, half)
      BY <2>2
    <3>3. Types /\ HandshakeInv /\ Narrowed(p) /\ part[p].lo # part[p].hi
      BY <1>1
    <3>4. p \in Procs /\ half \in search[p].min .. search[p].max /\ s \in {0, 1}
      OBVIOUS
    <3>5. s \in TooSmall(p, half)
      BY <2>3
    <3> QED BY ONLY <3>1, <3>2, <3>3, <3>4, <3>5, Wanted
  <2>6. ties \subseteq far /\ ties \subseteq DotsOf(p) /\ \A d \in ties : XOf(p, d) = v
    BY <2>2, <2>5 DEF XOf
  <2>7. /\ S \subseteq ties
        /\ Weight(p, ties) < need => S = ties
        /\ need <= Weight(p, ties) =>
             2 * Weight(p, S) <= 2 * need + Tolerance(p) /\ 2 * need <= 2 * Weight(p, S) + Tolerance(p)
    BY <2>2, <2>5, <2>6, MovedNear
  <2>8. Weight(p, ties) \in Nat /\ Weight(p, S) \in Nat
    BY <2>6, <2>7, PartDots, PartWeight
  <2>9. IF s = 0 THEN half <= v ELSE v <= half
    <3>1. far # {}
      <4> SUFFICES ASSUME far = {} PROVE FALSE
        OBVIOUS
      <4>1. 1 - s \in {0, 1}
        OBVIOUS
      <4>2. SideWeight(p, 1 - s, half) <= Target(p, 1 - s) + Weight(p, far)
        BY <1>1, <2>2, <4>1, GuessWeights
      <4>3. Weight(p, far) = 0
        BY PartWeight
      <4>4. SideWeight(p, s, half) < Target(p, s)
        BY <2>3 DEF TooSmall
      <4>5. CASE s = 0
        BY <1>4, <4>2, <4>3, <4>4, <4>5
      <4>6. CASE s = 1
        BY <1>4, <4>2, <4>3, <4>4, <4>6
      <4> QED BY <4>5, <4>6
    <3>2. CASE s = 0
      <4>1. half < v
        BY <2>5, <3>1, <3>2
      <4> QED BY <1>3, <2>5, <3>2, <4>1
    <3>3. CASE s = 1
      BY <2>5, <3>1, <3>3
    <3> QED BY <3>2, <3>3
  <2>10. \A d \in far : IF s = 0 THEN v <= XOf(p, d) ELSE XOf(p, d) <= v
    BY <2>5
  <2>11. CASE need - Weight(p, ties) <= Tolerance(p)
    <3>1. FoundCut(p, v)
      BY <2>4, <2>11
    <3>2. SideWeight(p, s, half) + Weight(p, S) - Target(p, s) \in -Tolerance(p) .. Tolerance(p)
      <4>1. PICK sw, t, w, ws, tol \in Nat : /\ sw = SideWeight(p, s, half) /\ t = Target(p, s) /\ w = Weight(p, ties)
                                            /\ ws = Weight(p, S) /\ tol = Tolerance(p)
        BY <1>4, <2>8
      <4>2. (ws = w \/ ~(w < need)) /\ (need <= w => 2 * ws <= 2 * need + tol /\ 2 * need <= 2 * ws + tol)
            /\ need = t - sw /\ need - w <= tol
        BY <2>2, <2>7, <2>11, <4>1
      <4>3. sw + ws - t \in -tol .. tol
        <5>1. CASE w < need
          BY <4>2, <5>1
        <5>2. CASE ~(w < need)
          BY <4>2, <5>2
        <5> QED BY <5>1, <5>2
      <4> QED BY <4>1, <4>3
    <3>3. \A d \in S : IF s = 0 THEN XOf(p, d) <= v ELSE v <= XOf(p, d)
      BY <2>5, <2>6, <2>7
    <3>4. Halved(p)' /\ BoxTypes'
      <4>1. S \subseteq Side(p, 1 - s, half) /\ \A d \in Side(p, 1 - s, half) \ S : IF s = 0 THEN v <= XOf(p, d) ELSE XOf(p, d) <= v
        BY <2>2, <2>6, <2>7, <2>10
      <4> QED BY <1>1, <2>3, <2>5, <2>9, <3>1, <3>2, <3>3, <4>1, CutFound
    <3> QED BY <2>5, <3>1, <3>4
  <2>12. CASE ~(need - Weight(p, ties) <= Tolerance(p))
    <3>1. S = ties /\ Weight(p, ties) < need
      <4>1. Weight(p, ties) < need
        BY <1>4, <2>5, <2>8, <2>12
      <4> QED BY <2>7, <4>1
    <3>2. SideWeight(p, s, half) + Weight(p, S) <= Target(p, s)
      <4>1. PICK sw, t, w \in Nat : sw = SideWeight(p, s, half) /\ t = Target(p, s) /\ w = Weight(p, ties)
        BY <1>4, <2>8
      <4>2. w < need /\ need = t - sw
        BY <2>2, <3>1, <4>1
      <4>3. sw + w <= t
        BY ONLY <4>2, sw \in Nat, t \in Nat, w \in Nat
      <4> QED BY <3>1, <4>1, <4>3
    <3>3. Narrowed(p)' /\ BoxTypes'
      <4>1. /\ active' = [q \in Procs |-> IF q \in Part(p) THEN {i \in active[q] : <<q, i>> \in far \ S} ELSE active[q]]
            /\ search' = [search EXCEPT ![p].wt[s] = SideWeight(p, s, half) + Weight(p, S),
                             ![p].min = IF s = 0 THEN v ELSE @,
                             ![p].max = IF s = 1 THEN v ELSE @]
            /\ box' = box
        BY <2>4, <2>12, <3>1
      <4>3. /\ DOMAIN active' = Procs /\ DOMAIN search' = Procs
            /\ \A q \in Part(p) : \A i : i \in active'[q] <=> i \in active[q] /\ <<q, i>> \in far \ S
        <5>1. Part(p) \subseteq Procs
          BY PartFacts DEF HandshakeInv, Types
        <5> QED BY <4>1, <5>1 DEF BoxTypes
      <4>4. PICK c, w, e : c = search[p] /\ w = SideWeight(p, s, half) + Weight(p, S) /\ e = search'[p]
        OBVIOUS
      <4>5. c \in SearchType /\ w \in Int /\ s \in {0, 1}
        BY <1>4, <2>8, <4>4 DEF Narrowed
      <4>6. e = [c EXCEPT !.wt = [c.wt EXCEPT ![s] = w], !.min = IF s = 0 THEN v ELSE c.min,
                         !.max = IF s = 1 THEN v ELSE c.max]
        BY <4>1, <4>4, <4>5 DEF BoxTypes, SearchType
      <4>7. /\ e \in SearchType /\ e.dim = c.dim /\ e.wt[s] = w /\ e.wt[1 - s] = c.wt[1 - s]
            /\ e.min = (IF s = 0 THEN v ELSE c.min) /\ e.max = (IF s = 1 THEN v ELSE c.max)
        <5>1. c.dim \in Dims /\ c.min \in Int /\ c.max \in Int /\ c.wt \in [{0, 1} -> Int]
          BY <4>5 DEF SearchType
        <5>2. PICK t : t = [c.wt EXCEPT ![s] = w]
          OBVIOUS
        <5>3. t \in [{0, 1} -> Int] /\ t[s] = w /\ (1 - s \in {0, 1} /\ 1 - s # s => t[1 - s] = c.wt[1 - s])
          BY <4>5, <5>1, <5>2
        <5>4. 1 - s \in {0, 1} /\ 1 - s # s
          BY <4>5
        <5>5. PICK l, m : l = (IF s = 0 THEN v ELSE c.min) /\ m = (IF s = 1 THEN v ELSE c.max) /\ l \in Int /\ m \in Int
          BY <2>5, <5>1
        <5>6. e = [c EXCEPT !.wt = t, !.min = l, !.max = m]
          BY <4>6, <5>2, <5>5
        <5>7. e \in SearchType /\ e.dim = c.dim /\ e.wt = t /\ e.min = l /\ e.max = m
          BY <4>5, <5>3, <5>5, <5>6 DEF SearchType
        <5> QED BY <5>3, <5>4, <5>5, <5>7
      <4>8. /\ search'[p] \in SearchType /\ search'[p].dim = search[p].dim
            /\ search'[p].wt[s] = SideWeight(p, s, half) + Weight(p, S)
            /\ search'[p].wt[1 - s] = search[p].wt[1 - s]
            /\ search'[p].min = (IF s = 0 THEN v ELSE search[p].min)
            /\ search'[p].max = (IF s = 1 THEN v ELSE search[p].max)
        BY <4>4, <4>7
      <4>2. S \subseteq far /\ (\A d \in S : XOf(p, d) = v) /\ far = Side(p, 1 - s, half)
            /\ \A d \in far \ S : IF s = 0 THEN v <= XOf(p, d) ELSE XOf(p, d) <= v
        BY <2>2, <2>6, <2>7, <2>10
      <4>9. box' = box
        BY <4>1
      <4> QED BY <1>1, <2>3, <2>5, <2>9, <3>2, <4>2, <4>3, <4>8, <4>9, CutNarrowed
    <3> QED BY <2>4, <2>12, <3>3
  <2> QED BY <2>11, <2>12
<1> QED BY <1>2, <1>5, <1>6

-----------------------------------------------------------------------------
(* The boxes.                                                              *)
\* The processes that will have the box of q in the end of the level.
Group(q) == {r \in Part(q) : Rests(q) \/ SameHalf(part[q], q, r)}
Within(d, b) == \A i \in Dims : b[i].lo <= d.x[i] /\ d.x[i] <= b[i].hi
AllWithin(v, b) == \A s \in DOMAIN v.in : Within(v.in[s], b[v.to[s]])
BoxInv == /\ \A q \in Procs : \A r \in Group(q) : box[r] = box[q]
          /\ AllWithin(View, box)

LEMMA ShiftWithin ==
    ASSUME NEW v, NEW w, NEW p, NEW c, Shifted(v, w, p, c), NEW b, AllWithin(v, b)
    PROVE  AllWithin(w, b)
<1>1. PICK g \in [DOMAIN w.in -> DOMAIN v.in] :
             \A s \in DOMAIN w.in : w.in[s] = v.in[g[s]] /\ w.to[s] = v.to[g[s]]
  BY DEF Shifted
<1>2. \A s \in DOMAIN w.in : g[s] \in DOMAIN v.in
  BY <1>1
<1> QED BY <1>1, <1>2 DEF AllWithin

\* A step that leaves the boxes.
LEMMA SameBoxes ==
    ASSUME Types, HandshakeInv, BoxInv, box' = box, load' = load,
           View' = View \/ (\E p, c : Shifted(View, View', p, c)),
           \A q \in Procs : Group(q)' \subseteq Group(q)
    PROVE  BoxInv'
<1>1. AllWithin(View', box)
  <2>1. CASE View' = View
    BY <2>1 DEF BoxInv
  <2>2. CASE \E p, c : Shifted(View, View', p, c)
    <3>1. PICK v, w, p, c, b : v = View /\ w = View' /\ Shifted(v, w, p, c) /\ b = box
      BY <2>2
    <3>2. AllWithin(w, b)
      BY <3>1, ShiftWithin DEF BoxInv
    <3> QED BY <3>1, <3>2
  <2> QED BY <2>1, <2>2
<1>2. Procs' = Procs
  BY DEF Procs, NProcs
<1>3. \A q \in Procs : \A r \in Group(q)' : box'[r] = box'[q]
  BY DEF BoxInv
<1>4. PICK v, b : v = View' /\ b = box
  OBVIOUS
<1>5. AllWithin(View, box)'
  BY <1>1, <1>4
<1> QED BY <1>2, <1>3, <1>5 DEF BoxInv

LEMMA SameGroups ==
    ASSUME Types, part' = part, load' = load, \A q \in Procs : Rests(q)' => Rests(q)
    PROVE  \A q \in Procs : Group(q)' \subseteq Group(q)
<1>1. \A q : Part(q)' = Part(q)
  BY OwnSameParts DEF Types
<1> QED BY <1>1 DEF Group, SameHalf, Mid, Half

\* The dots that a partition holds before it exchanges them.
LEMMA HeldSlots ==
    ASSUME Types, HandshakeInv, NEW q \in Procs, NEW j \in DOMAIN dots[q]
    PROVE  /\ <<q, 0, j>> \in Slots /\ DotAt(<<q, 0, j>>) = dots[q][j]
           /\ pc[q] \notin {"tell", "hear"} => DestOf(<<q, 0, j>>) = q
<1>1. j \in Nat
  <2>1. dots[q] \in Seq(Dots)
    BY DEF Types, DotsType
  <2> QED BY <2>1
<1>2. PICK s : s = <<q, 0, j>>
  OBVIOUS
<1>3. s \in Slots
  BY <1>1, <1>2 DEF Slots, Stock
<1> QED BY <1>2, <1>3 DEF DotAt, Stock, DestOf

LEMMA SearchStarts ==
    ASSUME Types, HandshakeInv, SidesInv, BoxTypes, BoxInv, NEW p \in Procs, StartSearch(p)
    PROVE  Narrowed(p)' /\ BoxTypes'
<1>1. /\ part' = part /\ load' = load /\ dots' = dots /\ box' = box /\ p \in Part(p) /\ Part(p) \subseteq Procs
      /\ p # part[p].hi /\ p = part[p].lo /\ Procs' = Procs
  BY PartFacts DEF StartSearch, HandshakeInv, Types, Procs, NProcs
<1>2. /\ Part(p)' = Part(p) /\ DotsOf(p)' = DotsOf(p)
      /\ \A d \in DotsOf(p) : Dot(d)' = Dot(d)
      /\ \A S : S \subseteq DotsOf(p) => Weight(p, S)' = Weight(p, S)
      /\ \A s : Target(p, s)' = Target(p, s)
  BY <1>1, SameMeasures
<1>3. PICK dim \in Dims : search' = [search EXCEPT ![p] = [dim |-> dim, wt |-> [s \in {0, 1} |-> 0],
                                                        min |-> box[p][dim].lo, max |-> box[p][dim].hi]]
  <2> DEFINE long(d) == box[p][d].hi - box[p][d].lo
             dm == IF long(2) > long(1) THEN 2 ELSE 1
  <2>1. search' = [search EXCEPT ![p] = [dim |-> dm, wt |-> [s \in {0, 1} |-> 0],
                                                        min |-> box[p][dm].lo, max |-> box[p][dm].hi]]
    BY DEF StartSearch
  <2>2. dm \in Dims
    BY DEF Dims
  <2> HIDE DEF dm
  <2> QED BY <2>1, <2>2
<1>4. BoxTypes'
  <2>1. DOMAIN search' = Procs /\ DOMAIN active' = Procs
    BY <1>3 DEF StartSearch, BoxTypes
  <2> QED BY <1>1, <2>1 DEF BoxTypes
<1>5. box[p][dim].lo \in Int /\ box[p][dim].hi \in Int
  BY DEF BoxTypes
<1>6. PICK e : e = search'[p]
  OBVIOUS
<1>7. /\ e \in SearchType /\ e.dim = dim /\ e.min = box[p][dim].lo /\ e.max = box[p][dim].hi
      /\ \A s \in {0, 1} : e.wt[s] = 0
  BY <1>3, <1>5, <1>6 DEF BoxTypes, SearchType
<1>8. \A d \in DotsOf(p) : MarkAt(d)' = 0 /\ Unsure(d)'
  BY <1>1, PartDots DEF StartSearch, MarkAt, Unsure
<1>9. ASSUME NEW d \in DotsOf(p) PROVE XOf(p, d)' \in e.min .. e.max
  <2>1. PICK q, j : d = <<q, j>> /\ q = d[1] /\ j = d[2] /\ q \in Part(p) /\ q \in Procs /\ j \in DOMAIN dots[q]
                    /\ Dot(d) = dots[q][j]
    BY PartDots DEF Dot
  <2>2. pc[p] = "level" /\ pc[q] = "level"
    BY <1>1, <2>1 DEF StartSearch, Together
  <2>3. PICK s \in Slots : DotAt(s) = Dot(d) /\ DestOf(s) = q
    <3>1. pc[q] \notin {"tell", "hear"}
      BY <2>2
    <3>2. /\ <<q, 0, j>> \in Slots /\ DotAt(<<q, 0, j>>) = dots[q][j]
          /\ DestOf(<<q, 0, j>>) = q
      BY <2>1, <3>1, HeldSlots
    <3> QED BY <2>1, <3>2
  <2>4. Within(Dot(d), box[q])
    <3>1. s \in DOMAIN View.in /\ View.in[s] = Dot(d) /\ View.to[s] = q
      BY <2>3 DEF View
    <3>2. AllWithin(View, box)
      BY DEF BoxInv
    <3> QED BY <3>1, <3>2 DEF AllWithin
  <2>5. box[q] = box[p]
    <3>1. q \in Group(p)
      BY <2>1, <2>2 DEF Group, Rests
    <3> QED BY <3>1 DEF BoxInv
  <2>6. XOf(p, d)' = Dot(d).x[dim]
    BY <1>2, <1>6, <1>7 DEF XOf
  <2>7. Dot(d).x[dim] \in Int
    BY PartDots DEF Dims
  <2>8. e.min <= Dot(d).x[dim] /\ Dot(d).x[dim] <= e.max
    BY <1>7, <2>4, <2>5 DEF Within
  <2> QED BY <1>5, <1>7, <2>6, <2>7, <2>8
<1>10. ASSUME NEW s \in {0, 1} PROVE e.wt[s] = Weight(p, Decided(p, s))' /\ e.wt[s] <= Target(p, s)
  <2>1. Decided(p, s)' = {}
    BY <1>2, <1>8 DEF Decided
  <2>2. PICK S : S = {}
    OBVIOUS
  <2>3. Weight(p, S)' = Weight(p, S) /\ Weight(p, S) = 0
    BY <1>2, <2>2, PartWeight
  <2>4. Weight(p, Decided(p, s))' = Weight(p, S)'
    BY <2>1, <2>2 DEF Weight, WeightOf
  <2>5. Target(p, s) \in Nat
    BY <1>1, Targets
  <2> QED BY <1>7, <2>3, <2>4, <2>5
<1>11. Narrowed(p)'
  BY <1>2, <1>6, <1>7, <1>8, <1>9, <1>10 DEF Narrowed
<1> QED BY <1>4, <1>11

LEMMA SearchStep ==
    ASSUME Types, HandshakeInv, SidesInv, SearchInv, BoxInv, [Next]_vars
    PROVE  SearchInv'
<1>1. BoxTypes /\ \A p \in Procs : p = part[p].lo =>
                     (pc[p] = "search" => Narrowed(p)) /\ (Together(p, "tell") => Halved(p))
  BY DEF SearchInv
<1>2. \A p \in Procs : Bisect(p) => Narrowed(p) /\ pc[p] = "search"
  <2> SUFFICES ASSUME NEW p \in Procs, Bisect(p) PROVE Narrowed(p) /\ pc[p] = "search"
    OBVIOUS
  <2>1. p \in Part(p)
    BY PartFacts DEF HandshakeInv, Types
  <2>2. pc[p] = "search" /\ p = part[p].lo
    BY <2>1 DEF Bisect, Together
  <2> QED BY <1>1, <2>2
<1>3. BoxTypes' /\ Procs' = Procs
  <2>0. load' = load => Procs' = Procs
    BY DEF Procs, NProcs
  <2>1. ASSUME NEW a \in Procs, Exchanges(a) PROVE BoxTypes' /\ Procs' = Procs
    <3>1. load' = load /\ box' = box /\ search' = search /\ DOMAIN active' = Procs
      BY <1>1, <2>1 DEF Exchanges, Tell, Hear, Post, PostFor, Ping, Await, SendDots, Wait, BoxTypes
    <3> QED BY <1>1, <2>0, <3>1 DEF BoxTypes
  <2>2. ASSUME NEW a \in Procs, StartSearch(a) PROVE BoxTypes' /\ Procs' = Procs
    <3>1. load' = load
      BY <2>2 DEF StartSearch
    <3> QED BY <1>1, <2>0, <2>2, <3>1, SearchStarts
  <2>3. ASSUME NEW a \in Procs, Bisect(a) PROVE BoxTypes' /\ Procs' = Procs
    <3>1. load' = load
      BY <2>3 DEF Bisect
    <3> QED BY <1>1, <1>2, <2>0, <2>3, <3>1, BisectSearch
  <2>4. ASSUME NEW a \in Procs, Split(a) PROVE BoxTypes' /\ Procs' = Procs
    <3>1. load' = load /\ box' = box /\ DOMAIN search' = Procs /\ active' = active
      BY <1>1, <2>4 DEF Split, BoxTypes
    <3> QED BY <1>1, <2>0, <3>1 DEF BoxTypes
  <2>5. ASSUME Invert \/ UNCHANGED vars PROVE BoxTypes' /\ Procs' = Procs
    <3>1. load' = load /\ box' = box /\ search' = search /\ active' = active
      BY <2>5 DEF Invert, vars
    <3> QED BY <1>1, <2>0, <3>1 DEF BoxTypes
  <2>6. Next \/ UNCHANGED vars
    OBVIOUS
  <2> QED BY <2>1, <2>2, <2>3, <2>4, <2>5, <2>6 DEF Next, Exchanges
<1>4. ASSUME NEW p \in Procs, part'[p].lo = p, pc'[p] = "search" \/ Together(p, "tell")'
      PROVE  (pc'[p] = "search" => Narrowed(p)') /\ (Together(p, "tell")' => Halved(p)')
  <2>1. /\ part'[p] = part[p] /\ Part(p)' = Part(p)
        /\ StartSearch(p) \/ Bisect(p) \/ Undisturbed(p)
    BY <1>1, <1>4, Elsewhere
  <2>2. p \in Part(p)
    BY PartFacts DEF HandshakeInv, Types
  <2>3. Together(p, "tell")' => pc'[p] = "tell"
    BY <2>1, <2>2 DEF Together
  <2>4. CASE StartSearch(p)
    <3>1. pc'[p] = "search" /\ Narrowed(p)'
      BY <1>1, <2>2, <2>4, SearchStarts DEF StartSearch
    <3> QED BY <2>3, <3>1
  <2>5. CASE Bisect(p)
    <3>1. Narrowed(p) /\ pc[p] = "search"
      BY <1>2, <2>5
    <3>2. \/ (\E v \in Int : FoundCut(p, v)) /\ Halved(p)'
          \/ pc' = pc /\ Narrowed(p)'
      BY <1>1, <2>5, <3>1, BisectSearch
    <3>3. CASE (\E v \in Int : FoundCut(p, v)) /\ Halved(p)'
      <4>1. pc'[p] = "tell"
        BY <2>2, <3>3 DEF FoundCut
      <4> QED BY <3>3, <4>1
    <3>4. CASE pc' = pc /\ Narrowed(p)'
      BY <2>3, <3>1, <3>4
    <3> QED BY <3>2, <3>3, <3>4
  <2>6. CASE Undisturbed(p)
    BY <1>1, <1>4, <2>1, <2>6, UndisturbedSearch
  <2> QED BY <2>1, <2>4, <2>5, <2>6
<1> QED BY <1>3, <1>4 DEF SearchInv

-----------------------------------------------------------------------------
(* The boxes after a cut.                                                  *)
LEMMA OtherPart ==
    ASSUME PartsType, PartsInv, NEW p \in Procs, NEW q \in Procs \ Part(p)
    PROVE  \A r \in Part(q) : r \in Procs \ Part(p)
<1> SUFFICES ASSUME NEW r \in Part(q), r \in Part(p) PROVE FALSE
  BY PartFacts
<1>1. r \in Procs /\ Part(r) = Part(q) /\ Part(r) = Part(p) /\ q \in Part(q)
  BY SamePart, PartFacts
<1> QED BY <1>1

\* The partner of a process of the lower half is above it.
LEMMA ActiveMark ==
    ASSUME PartsType, PartsInv, NEW q \in Procs, part[q].lo # part[q].hi
    PROVE  /\ Mid(part[q]) \in Int /\ Partner(q) \in Part(q) /\ Partner(q) \in Int
           /\ q < Mid(part[q]) <=> ~(Partner(q) < Mid(part[q]))
           /\ MarkActive(q) = IF q < Mid(part[q]) THEN 1 ELSE 0
<1>1. Partition(part[q]) /\ q \in part[q].lo .. part[q].hi /\ Part(q) \subseteq Procs /\ q \in Int /\ Procs \subseteq Int
  BY PartFacts DEF Part
<1>2. Partner(q) \in Part(q) /\ Partner(q) \in Int
  BY <1>1, PartnerFacts
<1>3. Mid(part[q]) \in Int
  BY <1>1, HalfBounds, PartFacts
<1>4. q < Mid(part[q]) <=> Partner(q) >= Mid(part[q])
  BY <1>1, PartnerAcross DEF Partner
<1>5. q < Partner(q) <=> q < Mid(part[q])
  BY <1>1, <1>2, <1>3, <1>4
<1> QED BY <1>2, <1>3, <1>4, <1>5 DEF MarkActive

\* Where the dots of a partition go when its cut is found.
LEMMA CutGoes ==
    ASSUME Types, HandshakeInv, NEW p \in Procs, Bisect(p), NEW v \in Int, FoundCut(p, v), Halved(p)',
           NEW s \in Slots, s[1] \in Part(p)
    PROVE  /\ s = <<s[1], 0, s[3]>> /\ DestOf(s) = s[1] /\ <<s[1], s[3]>> \in DotsOf(p)
           /\ Dot(<<s[1], s[3]>>) = DotAt(s) /\ DestOf(s)' \in Part(p)
           /\ DestOf(s)' < Mid(part[p]) <=> MarkAt(<<s[1], s[3]>>)' = 0
           /\ <<s[1], s[3]>> \in Lower(p)' <=> MarkAt(<<s[1], s[3]>>)' = 0
<1>1. /\ part' = part /\ load' = load /\ dots' = dots
      /\ Part(p) \subseteq Procs
      /\ \A q \in Part(p) : Part(q) = Part(p) /\ part[q] = part[p] /\ pc'[q] = "tell"
  BY BisectCases DEF FoundCut
<1>2. /\ \A q : Part(q)' = Part(q) /\ Partner(q)' = Partner(q)
      /\ part[p].lo # part[p].hi
  <2>1. p \in Part(p) /\ pc[p] = "search"
    BY BisectCases, PartFacts DEF HandshakeInv, Types
  <2> QED BY <1>1, <2>1, OwnSameParts DEF HandshakeInv, PartsInv, Types
<1>3. PICK m : m = Mid(part[p])
  OBVIOUS
<1>4. PICK q, j : q = s[1] /\ j = s[3]
  OBVIOUS
<1>5. /\ q \in Procs /\ q \in Part(p) /\ s[2] = 0 /\ j \in DOMAIN dots[q] /\ DotAt(s) = dots[q][j] /\ DestOf(s) = q
      /\ s = <<q, 0, j>>
  <2>1. s[2] = 0 /\ DestOf(s) = s[1]
    BY BisectView
  <2>2. s = <<s[1], s[2], s[3]>>
    BY SlotFacts
  <2> QED BY <1>1, <1>4, <2>1, <2>2 DEF Slots, DotAt, Stock
<1>6. PICK d : d = <<q, j>> /\ d[1] = q /\ d[2] = j
  <2>1. <<q, j>>[1] = q /\ <<q, j>>[2] = j
    OBVIOUS
  <2> QED BY <2>1
<1>7. d \in DotsOf(p) /\ Dot(d) = DotAt(s) /\ d \in DotsOf(p)'
  BY <1>1, <1>2, <1>5, <1>6 DEF DotsOf, Held, Dot
<1>8. PICK t : t = DestOf(s)'
  OBVIOUS
<1>9. /\ Partner(q) \in Part(q) /\ MarkActive(q) = IF q < m THEN 1 ELSE 0
      /\ q < m <=> ~(Partner(q) < m)
  BY <1>1, <1>2, <1>3, <1>5, ActiveMark DEF HandshakeInv, Types
<1>10. MarkActive(q)' = MarkActive(q)
  BY <1>2 DEF MarkActive
<1>11. j \in Leaves(q)' <=> mark'[q][j] = MarkActive(q)
  BY <1>1, <1>5, <1>10 DEF Leaves
<1>12. t = IF j \in Leaves(q)' THEN Partner(q) ELSE q
  BY <1>1, <1>2, <1>4, <1>5, <1>8 DEF DestOf
<1>13. mark'[q][j] \in {0, 1}
  BY <1>6, <1>7 DEF Halved, MarkAt
<1>14. Part(q) = Part(p)
  BY <1>1, <1>5
<1>15. t \in Part(p) /\ (t < m <=> mark'[q][j] = 0)
  <2>1. CASE mark'[q][j] = 0
    BY <1>5, <1>9, <1>11, <1>12, <1>14, <2>1
  <2>2. CASE mark'[q][j] = 1
    BY <1>5, <1>9, <1>11, <1>12, <1>14, <2>2
  <2> QED BY <1>13, <2>1, <2>2
<1>16. MarkAt(d)' = mark'[q][j]
  BY <1>6 DEF MarkAt
<1>17. d \in Lower(p)' <=> MarkAt(d)' = 0
  BY <1>7 DEF Lower
<1> QED BY <1>3, <1>4, <1>5, <1>6, <1>7, <1>8, <1>15, <1>16, <1>17

LEMMA CutBoxes ==
    ASSUME Types, HandshakeInv, BoxTypes, BoxInv, NEW p \in Procs, Bisect(p),
           NEW v \in Int, FoundCut(p, v), Halved(p)'
    PROVE  BoxInv'
<1>1. /\ part' = part /\ load' = load /\ dots' = dots /\ search' = search
      /\ Part(p) \subseteq Procs /\ p \in Part(p)
      /\ \A q \in Part(p) : Part(q) = Part(p) /\ pc[q] = "search" /\ part[q] = part[p] /\ pc'[q] = "tell"
      /\ \A q \in Procs \ Part(p) : pc'[q] = pc[q]
  BY BisectCases, PartFacts DEF FoundCut, HandshakeInv, Types
<1>2. Procs' = Procs /\ \A q : Part(q)' = Part(q) /\ Partner(q)' = Partner(q)
  BY <1>1, OwnSameParts DEF Types
<1>3. p = part[p].lo /\ part[p].lo # part[p].hi
  BY <1>1 DEF Bisect, HandshakeInv, PartsInv
<1>4. PICK m : m = Mid(part[p])
  OBVIOUS
<1>5. m \in Int /\ p < m
  <2>1. Partition(part[p]) /\ part[p] \in [lo : Int, hi : Int]
    BY <1>3, PartFacts DEF HandshakeInv, Types
  <2> QED BY <1>3, <1>4, <2>1, HalfBounds DEF Partition
<1>6. PICK dim \in Dims : dim = search[p].dim
  BY <1>1 DEF Halved
<1>7. /\ \A q \in Part(p) : box'[q] = IF q < m THEN [box[q] EXCEPT ![dim].hi = v] ELSE [box[q] EXCEPT ![dim].lo = v]
      /\ \A q \in Procs \ Part(p) : box'[q] = box[q]
  BY <1>1, <1>4, <1>6 DEF FoundCut
<1>8. PICK b : b = box[p] /\ b \in [Dims -> [lo : Int, hi : Int]]
  BY DEF BoxTypes
<1>9. \A q \in Part(p) : box[q] = b
  BY <1>1, <1>8 DEF BoxInv, Group, Rests
<1>10. ASSUME NEW q \in Procs, NEW r \in Group(q)' PROVE box'[r] = box'[q]
  <2>1. r \in Part(q)
    BY <1>2, <1>10 DEF Group
  <2>2. CASE q \in Part(p)
    <3>1. SameHalf(part[q], q, r)
      BY <1>1, <1>10, <2>2 DEF Group, Rests, SameHalf, Mid, Half
    <3>2. q < m <=> r < m
      BY <1>1, <1>4, <2>2, <3>1 DEF SameHalf
    <3>3. r \in Part(p)
      BY <1>1, <2>1, <2>2
    <3> QED BY <1>7, <1>9, <2>2, <3>2, <3>3
  <2>3. CASE q \notin Part(p)
    <3>1. r \in Procs \ Part(p)
      BY <2>1, <2>3, OtherPart DEF HandshakeInv, Types
    <3>2. r \in Group(q)
      BY <1>1, <1>2, <1>10, <2>3 DEF Group, Rests, SameHalf, Mid, Half
    <3> QED BY <1>7, <2>3, <3>1, <3>2 DEF BoxInv
  <2> QED BY <2>2, <2>3
<1>11. /\ Slots' = Slots
       /\ \A s \in Slots : /\ DotAt(s)' = DotAt(s)
                           /\ s[1] \notin Part(p) => DestOf(s)' = DestOf(s)
                           /\ s[1] \in Part(p) => s[2] = 0 /\ DestOf(s) = s[1]
  BY BisectView
<1>12. ASSUME NEW s \in Slots PROVE Within(DotAt(s), box'[DestOf(s)'])
  <2>1. Within(DotAt(s), box[DestOf(s)])
    <3>1. s \in DOMAIN View.in /\ View.in[s] = DotAt(s) /\ View.to[s] = DestOf(s)
      BY DEF View
    <3> QED BY <3>1 DEF BoxInv, AllWithin
  <2>2. CASE s[1] \notin Part(p)
    <3>1. DestOf(s) \in Procs \ Part(p)
      <4>1. s[1] \in Procs /\ DestOf(s) \in Part(s[1])
        BY SlotFacts
      <4> QED BY <2>2, <4>1, OtherPart DEF HandshakeInv, Types
    <3> QED BY <1>7, <1>11, <2>1, <2>2, <3>1
  <2>3. CASE s[1] \in Part(p)
    <3>1. PICK q, j : q = s[1] /\ j = s[3]
      OBVIOUS
    <3>2. /\ q \in Procs /\ q \in Part(p) /\ s[2] = 0 /\ j \in DOMAIN dots[q] /\ DotAt(s) = dots[q][j] /\ DestOf(s) = q
      BY <1>1, <1>11, <2>3, <3>1 DEF Slots, DotAt, Stock
    <3>3. PICK d : d = <<q, j>>
      OBVIOUS
    <3>4. /\ d \in DotsOf(p) /\ Dot(d) = DotAt(s) /\ DestOf(s)' \in Part(p)
          /\ DestOf(s)' < m <=> d \in Lower(p)'
      BY <1>4, <2>3, <3>1, <3>3, CutGoes
    <3>5. PICK t : t = DestOf(s)'
      OBVIOUS
    <3>6. t \in Part(p) /\ (t < m <=> d \in Lower(p)')
      BY <3>4, <3>5
    <3>7. IF d \in Lower(p)' THEN DotAt(s).x[dim] <= v ELSE DotAt(s).x[dim] >= v
      <4>1. d \in DotsOf(p)' /\ Dot(d)' = DotAt(s)
        BY <1>1, <1>2, <3>4 DEF DotsOf, Held, Dot
      <4>2. box'[p][dim].hi = v
        <5>1. PICK c : c = box'[p]
          OBVIOUS
        <5>2. c = [b EXCEPT ![dim].hi = v]
          BY <1>1, <1>5, <1>7, <1>8, <5>1
        <5> QED BY <1>8, <5>1, <5>2
      <4>4. XOf(p, d)' = DotAt(s).x[dim]
        BY <1>1, <1>6, <4>1 DEF XOf
      <4>5. search'[p].dim = dim
        BY <1>1, <1>6
      <4> QED BY <4>1, <4>2, <4>4, <4>5 DEF Halved
    <3>8. /\ Within(DotAt(s), b) /\ \A i \in Dims : DotAt(s).x[i] \in Int
      <4>1. DotAt(s) \in Dots
        BY SlotFacts
      <4> QED BY <1>9, <2>1, <3>2, <4>1 DEF Dots, Dims
    <3>9. box'[t] = IF t < m THEN [b EXCEPT ![dim].hi = v] ELSE [b EXCEPT ![dim].lo = v]
      BY <1>7, <1>9, <3>6
    <3>10. PICK c : c = box'[t]
      OBVIOUS
    <3>11. ASSUME NEW i \in Dims PROVE c[i].lo <= DotAt(s).x[i] /\ DotAt(s).x[i] <= c[i].hi
      <4>1. b[i].lo <= DotAt(s).x[i] /\ DotAt(s).x[i] <= b[i].hi
        BY <3>8 DEF Within
      <4>2. CASE i # dim
        <5>1. c[i] = b[i]
          BY <1>8, <3>9, <3>10, <4>2
        <5> QED BY <4>1, <5>1
      <4>3. CASE i = dim /\ t < m
        <5>1. c[i].lo = b[i].lo /\ c[i].hi = v
          BY <1>8, <3>9, <3>10, <4>3
        <5>2. DotAt(s).x[i] <= v
          BY <3>6, <3>7, <4>3
        <5> QED BY <4>1, <5>1, <5>2
      <4>4. CASE i = dim /\ ~(t < m)
        <5>1. c[i].hi = b[i].hi /\ c[i].lo = v
          BY <1>8, <3>9, <3>10, <4>4
        <5>2. DotAt(s).x[i] >= v
          BY <3>6, <3>7, <4>4
        <5>3. v \in Int /\ DotAt(s).x[i] \in Int
          BY <3>8
        <5> QED BY <4>1, <5>1, <5>2, <5>3
      <4> QED BY <4>2, <4>3, <4>4
    <3> QED BY <3>5, <3>10, <3>11 DEF Within
  <2> QED BY <2>2, <2>3
<1>13. AllWithin(View, box)'
  <2>1. (DOMAIN View.in)' = Slots /\ \A s \in Slots : View'.in[s] = DotAt(s) /\ View'.to[s] = DestOf(s)'
    BY <1>11 DEF View
  <2>2. PICK w, c : w = View' /\ c = box'
    OBVIOUS
  <2>3. AllWithin(w, c)
    BY <1>12, <2>1, <2>2 DEF AllWithin
  <2> QED BY <2>2, <2>3
<1> QED BY <1>2, <1>10, <1>13 DEF BoxInv

-----------------------------------------------------------------------------
(* The boxes after any step, and at first.                                 *)
\* A partition that splits already was in two groups.
LEMMA SplitGroups ==
    ASSUME Types, HandshakeInv, NEW p \in Procs, Split(p)
    PROVE  \A q \in Procs : Group(q)' = Group(q)
<1>1. PICK w : w = part[p]
  OBVIOUS
<1>2. pc[p] = "split" /\ \A q \in Part(p) : pc[q] = "split"
  BY PartFacts DEF Split, Together, HandshakeInv, Types
<1>3. /\ \A q \in Part(p) : /\ q \in Procs /\ part[q] = w /\ Part(q) = Part(p)
                            /\ part'[q] = IF q < Mid(w) THEN [w EXCEPT !.hi = Mid(w) - 1] ELSE [w EXCEPT !.lo = Mid(w)]
      /\ Part(p) = w.lo .. w.hi /\ Partition(w) /\ Procs \subseteq Int
  <2>2. part[p].lo # part[p].hi
    BY <1>2 DEF HandshakeInv, PartsInv, Exchange
  <2>3. \A q \in Part(p) : q \in Procs /\ part[q] = w /\ Part(q) = Part(p)
    BY <1>1, SamePart DEF HandshakeInv, Types
  <2>4. Partition(w) /\ Procs \subseteq Int
    BY <1>1, <2>2, PartFacts DEF HandshakeInv, Types
  <2>5. \A q \in Part(p) : part'[q] = IF q < Mid(w) THEN [w EXCEPT !.hi = Mid(w) - 1] ELSE [w EXCEPT !.lo = Mid(w)]
    BY <1>1, <2>3 DEF Split
  <2> QED BY <1>1, <2>3, <2>4, <2>5 DEF Part
<1>4. ASSUME NEW q \in Procs PROVE Group(q)' = Group(q)
  <2>1. CASE q \notin Part(p)
    <3>1. part'[q] = part[q] /\ pc'[q] = pc[q]
      BY <2>1 DEF Split
    <3> QED BY <3>1 DEF Group, Part, Rests, SameHalf, Mid, Half
  <2>2. CASE q \in Part(p)
    <3>1. /\ Mid(w) \in Int /\ w.lo < Mid(w) /\ Mid(w) <= w.hi /\ w \in [lo : Int, hi : Int]
          /\ w.lo \in Int /\ w.hi \in Int /\ q \in Int /\ w.lo <= q /\ q <= w.hi
      BY <1>3, <2>2, HalfBounds DEF Partition
    <3>2. pc'[q] = "level" /\ pc[q] = "split" /\ part[q] = w
      BY <1>2, <1>3, <2>2 DEF Split
    <3>3. Group(q)' = part'[q].lo .. part'[q].hi
      BY <3>2 DEF Group, Part, Rests
    <3>4. Group(q) = {r \in w.lo .. w.hi : SameHalf(w, q, r)}
      BY <3>2 DEF Group, Part, Rests
    <3>5. part'[q].lo .. part'[q].hi = {r \in w.lo .. w.hi : SameHalf(w, q, r)}
      <4>1. CASE q < Mid(w)
        <5>1. part'[q].lo = w.lo /\ part'[q].hi = Mid(w) - 1
          BY <1>3, <2>2, <3>1, <4>1
        <5> QED BY <3>1, <4>1, <5>1 DEF SameHalf
      <4>2. CASE ~(q < Mid(w))
        <5>1. part'[q].lo = Mid(w) /\ part'[q].hi = w.hi
          BY <1>3, <2>2, <3>1, <4>2
        <5> QED BY <3>1, <4>2, <5>1 DEF SameHalf
      <4> QED BY <4>1, <4>2
    <3> QED BY <3>3, <3>4, <3>5
  <2> QED BY <2>1, <2>2
<1> QED BY <1>4

\* No step of another kind changes what the boxes are about.
LEMMA BoxStep ==
    ASSUME Types, HandshakeInv, SearchInv, BoxInv, [Next]_vars
    PROVE  BoxInv'
<1>1. ASSUME part' = part, load' = load, box' = box,
             View' = View \/ (\E p, c : Shifted(View, View', p, c)),
             \A q \in Procs : Rests(q)' => Rests(q)
      PROVE  BoxInv'
  <2>1. \A q \in Procs : Group(q)' \subseteq Group(q)
    BY <1>1, SameGroups
  <2> QED BY <1>1, <2>1, SameBoxes
<1>2. ASSUME NEW p \in Procs, Exchanges(p) PROVE BoxInv'
  <2>1. Own(p) /\ box' = box
    BY <1>2, ExchangesOwn DEF Exchanges, Tell, Hear, Post, PostFor, Ping, Await, SendDots, Wait
  <2>2. ~Rests(p)'
    BY <1>2 DEF Exchanges, Tell, Hear, Post, PostFor, Ping, Await, SendDots, Wait, Go, Rests, Types, PartsType
  <2>3. \A q \in Procs : Rests(q)' => Rests(q)
    BY <2>1, <2>2 DEF Own, Rests
  <2>4. View' = View \/ (\E r, c : Shifted(View, View', r, c))
    BY <1>2, QuietSent, SendDotsSent, PostShifts, WaitShifts DEF Exchanges
  <2> QED BY <1>1, <2>1, <2>3, <2>4 DEF Own
<1>3. ASSUME NEW p \in Procs, StartSearch(p) PROVE BoxInv'
  <2>1. View' = View /\ part' = part /\ load' = load /\ box' = box
    BY <1>3, StartSearchView DEF StartSearch
  <2>2. \A q \in Procs : Rests(q)' => Rests(q)
    BY <1>3 DEF StartSearch, Together, Rests
  <2> QED BY <1>1, <2>1, <2>2
<1>4. ASSUME NEW p \in Procs, Bisect(p) PROVE BoxInv'
  <2>1. p \in Part(p) /\ p = part[p].lo /\ pc[p] = "search" /\ BoxTypes
    BY <1>4, PartFacts DEF Bisect, Together, HandshakeInv, Types, SearchInv
  <2>2. Narrowed(p)
    BY <2>1 DEF SearchInv
  <2>3. \/ (\E v \in Int : FoundCut(p, v)) /\ Halved(p)'
        \/ pc' = pc /\ box' = box
    BY <1>4, <2>1, <2>2, BisectSearch
  <2>4. CASE (\E v \in Int : FoundCut(p, v)) /\ Halved(p)'
    BY <1>4, <2>1, <2>4, CutBoxes
  <2>5. CASE pc' = pc /\ box' = box
    <3>1. part' = part /\ load' = load /\ \A q \in Part(p) : pc'[q] # "tell"
      BY <1>4, <2>5, BisectCases
    <3>2. View' = View
      BY <1>4, <3>1, BisectView
    <3> QED BY <1>1, <2>5, <3>1, <3>2 DEF Rests
  <2> QED BY <2>3, <2>4, <2>5
<1>5. CASE Invert
  <2>1. View' = View /\ part' = part /\ load' = load /\ box' = box
    BY <1>5, InvertView DEF Invert
  <2>2. \A q \in Procs : Rests(q)
    BY <1>5 DEF Invert, Final, Rests
  <2> QED BY <1>1, <2>1, <2>2
<1>6. CASE UNCHANGED vars
  <2>1. part' = part /\ load' = load /\ Procs' = Procs /\ pc' = pc /\ box' = box /\ \A q : Part(q)' = Part(q)
    BY <1>6, OwnSameParts DEF vars, Types
  <2>2. \A q : Sent(q)' = Sent(q) /\ Leaves(q)' = Leaves(q) /\ dots'[q] = dots[q] /\ Partner(q)' = Partner(q)
    BY <1>6, <2>1 DEF vars, Sent, DotsDue, Shipped, Leaves, MarkActive, Partner
  <2>3. View' = View
    BY <2>1, <2>2, UnchangedView
  <2> QED BY <1>1, <2>1, <2>3 DEF Rests
<1>7. ASSUME NEW p \in Procs, Split(p) PROVE BoxInv'
  <2>1. View' = View /\ load' = load /\ box' = box
    BY <1>7, SplitView DEF Split
  <2>2. \A q \in Procs : Group(q)' \subseteq Group(q)
    BY <1>7, SplitGroups
  <2> QED BY <2>1, <2>2, SameBoxes
<1>8. Next \/ UNCHANGED vars
  OBVIOUS
<1> QED BY <1>2, <1>3, <1>4, <1>5, <1>6, <1>7, <1>8 DEF Next, Exchanges

\* The first box holds every dot.
LEMMA BoxInit == Init => SearchInv /\ BoxInv
<1> SUFFICES ASSUME Init PROVE SearchInv /\ BoxInv
  OBVIOUS
<1>1. Types /\ HandshakeInv
  BY HandshakeInit
<1>2. load \in Seq(Seq([x : Int \X Int, wt : Nat])) /\ \E q \in DOMAIN load : load[q] # <<>>
  BY LoadsAssumption DEF Init
<1>3. /\ pc = [p \in Procs |-> "level"] /\ dots = [p \in Procs |-> MyDots(p)] /\ part = [p \in Procs |-> [lo |-> 0, hi |-> NProcs - 1]]
      /\ DOMAIN search = Procs /\ DOMAIN active = Procs
  BY DEF Init
<1> DEFINE xs(d) == UNION {{load[q][i].x[d] : i \in DOMAIN load[q]} : q \in DOMAIN load}
<1>4. box = [p \in Procs |-> [d \in Dims |-> [lo |-> Min(xs(d)), hi |-> Max(xs(d))]]]
  BY DEF Init
<1>5. ASSUME NEW q \in Procs PROVE q + 1 \in DOMAIN load /\ DOMAIN dots[q] = DOMAIN load[q + 1]
                                   /\ \A i \in DOMAIN dots[q] : dots[q][i].x = load[q + 1][i].x
  <2>1. q + 1 \in DOMAIN load
    BY <1>1 DEF Types, PartsType, Procs, NProcs
  <2> QED BY <1>3, <2>1 DEF MyDots
<1>6. ASSUME NEW d \in Dims
      PROVE  /\ IsFiniteSet(xs(d)) /\ xs(d) \subseteq Int /\ xs(d) # {}
             /\ \A q \in Procs : \A i \in DOMAIN dots[q] : dots[q][i].x[d] \in xs(d)
  <2>1. /\ IsFiniteSet(AllDots)
        /\ \A e \in AllDots : e[1] \in Procs /\ e[2] \in DOMAIN dots[e[1]] /\ Dot(e).x[d] \in Int
        /\ \A q \in Procs : \A j \in DOMAIN dots[q] : <<q, j>> \in AllDots /\ Dot(<<q, j>>) = dots[q][j]
    BY <1>1, DotsFinite DEF Dims
  <2>2. \A q \in Procs : \A i \in DOMAIN dots[q] : dots[q][i].x[d] \in xs(d)
    BY <1>5
  <2>3. \A e \in AllDots : Dot(e).x[d] \in xs(d)
    BY <2>1, <2>2 DEF Dot
  <2>4. ASSUME NEW v \in xs(d) PROVE \E e \in AllDots : Dot(e).x[d] = v
    <3>1. PICK r \in DOMAIN load : v \in {load[r][i].x[d] : i \in DOMAIN load[r]}
      BY <2>4
    <3>2. PICK i \in DOMAIN load[r] : v = load[r][i].x[d]
      BY <3>1
    <3>3. r \in 1 .. Len(load) /\ Len(load) \in Nat
      <4>1. PICK M : M = Seq([x : Int \X Int, wt : Nat])
        OBVIOUS
      <4>2. load \in Seq(M)
        BY <1>2, <4>1
      <4> QED BY <4>2
    <3>4. PICK q \in Procs : q = r - 1 /\ q + 1 = r
      BY <3>3 DEF Procs, NProcs
    <3>5. i \in DOMAIN dots[q] /\ dots[q][i].x[d] = v
      BY <1>5, <3>2, <3>4
    <3> QED BY <2>1, <3>5
  <2>5. PICK D, X : D = AllDots /\ X = xs(d)
    OBVIOUS
  <2>6. PICK h : h = [e \in D |-> Dot(e).x[d]]
    OBVIOUS
  <2>7. h \in Surjection(D, X) /\ X \subseteq Int
    <3>1. h \in [D -> X]
      BY <2>3, <2>5, <2>6
    <3>2. \A v \in X : \E e \in D : h[e] = v
      BY <2>4, <2>5, <2>6
    <3>3. X \subseteq Int
      BY <2>1, <2>4, <2>5
    <3> QED BY <3>1, <3>2, <3>3 DEF Surjection
  <2>8. IsFiniteSet(X)
    BY <2>1, <2>5, <2>7, FS_Surjection
  <2>9. xs(d) # {}
    <3>1. PICK r \in DOMAIN load : load[r] # <<>>
      BY <1>2
    <3>2. PICK l : l = load[r]
      OBVIOUS
    <3>3. PICK E : E = [x : Int \X Int, wt : Nat]
      OBVIOUS
    <3>4. l \in Seq(E) /\ l # <<>>
      BY <1>2, <3>1, <3>2, <3>3
    <3>5. 1 \in DOMAIN l
      BY <3>4
    <3>6. load[r][1].x[d] \in xs(d)
      BY <3>2, <3>5
    <3> QED BY <3>6
  <2> QED BY <2>2, <2>5, <2>7, <2>8, <2>9
<1>7. ASSUME NEW d \in Dims
      PROVE  Min(xs(d)) \in Int /\ Max(xs(d)) \in Int /\ \A v \in xs(d) : Min(xs(d)) <= v /\ v <= Max(xs(d))
  <2>1. PICK X : X = xs(d)
    OBVIOUS
  <2>2. IsFiniteSet(X) /\ X \subseteq Int /\ X # {}
    BY <1>6, <2>1
  <2>3. PICK a \in X : \A v \in X : a <= v
    BY <2>2, LeastOfFinite
  <2>4. PICK b \in X : \A v \in X : b >= v
    BY <2>2, GreatestOfFinite
  <2>5. Min(X) \in X /\ \A v \in X : Min(X) <= v
    BY <2>3 DEF Min
  <2>6. Max(X) \in X /\ \A v \in X : Max(X) >= v
    BY <2>4 DEF Max
  <2> QED BY <2>1, <2>2, <2>5, <2>6
<1>8. BoxTypes
  BY <1>3, <1>4, <1>7 DEF BoxTypes
<1>9. ASSUME NEW p \in Procs, NEW d \in Dims PROVE box[p][d].lo = Min(xs(d)) /\ box[p][d].hi = Max(xs(d))
  BY <1>4
<1> HIDE DEF xs
<1>10. SearchInv
  <2>1. \A p \in Procs : p \in Part(p) /\ pc[p] = "level"
    BY <1>1, <1>3, PartFacts DEF HandshakeInv, Types
  <2>2. \A p \in Procs : pc[p] # "search" /\ ~Together(p, "tell")
    BY <2>1 DEF Together
  <2> QED BY <1>8, <2>2 DEF SearchInv
<1>11. AllWithin(View, box)
  <2>1. ASSUME NEW s \in Slots PROVE Within(DotAt(s), box[DestOf(s)])
    <3>1. /\ s[1] \in Procs /\ s[2] = 0 /\ s[3] \in DOMAIN dots[s[1]] /\ DotAt(s) = dots[s[1]][s[3]]
      <4>1. \A q \in Procs : pc[q] \in {"level", "done"}
        BY <1>3
      <4>2. s = <<s[1], 0, s[3]>> /\ s[1] \in Procs /\ s[3] \in DOMAIN dots[s[1]] /\ DotAt(s) = dots[s[1]][s[3]]
        BY <1>1, <4>1, FinalSlots
      <4>3. s[2] = 0
        BY <4>2
      <4> QED BY <4>2, <4>3
    <3>2. DestOf(s) = s[1]
      BY <1>3, <3>1 DEF DestOf
    <3>3. \A d \in Dims : DotAt(s).x[d] \in xs(d)
      BY <1>6, <3>1
    <3> QED BY <1>7, <1>9, <3>1, <3>2, <3>3 DEF Within
  <2> QED BY <2>1 DEF AllWithin, View
<1>12. \A q \in Procs : \A r \in Group(q) : box[r] = box[q]
  <2>1. \A q \in Procs : Part(q) \subseteq Procs
    BY <1>1, PartFacts DEF HandshakeInv, Types
  <2>2. \A q, r \in Procs : box[r] = box[q]
    BY <1>4
  <2> QED BY <2>1, <2>2 DEF Group
<1> QED BY <1>10, <1>11, <1>12 DEF BoxInv

-----------------------------------------------------------------------------
(* The end.                                                                *)
\* The end is the same for all.
DoneInv == (\E p \in Procs : pc[p] = "done") => (\A p \in Procs : pc[p] = "done" /\ part[p].lo = part[p].hi) /\ Known

LEMMA DoneStep ==
    ASSUME Types, HandshakeInv, OwnersInv, DoneInv, [Next]_vars
    PROVE  DoneInv'
<1>1. CASE Invert
  <2>1. Known' /\ Procs' = Procs /\ \A p \in Procs : pc'[p] = "done" /\ part'[p].lo = part'[p].hi
    BY <1>1, InvertKnows DEF Invert, Final, Procs, NProcs
  <2> QED BY <2>1 DEF DoneInv
<1>2. CASE UNCHANGED vars
  <2>1. Procs' = Procs /\ pc' = pc /\ part' = part
    BY <1>2 DEF vars, Procs, NProcs
  <2>2. Known' <=> Known
    BY <1>2, <2>1 DEF vars, Known, Keeps, NMigrate
  <2> QED BY <2>1, <2>2 DEF DoneInv
<1>3. ASSUME NEW p \in Procs, Exchanges(p) \/ StartSearch(p) \/ Bisect(p) \/ Split(p) PROVE DoneInv'
  <2>1. p \in Part(p) /\ load' = load /\ Procs' = Procs
    <3>1. load' = load
      BY <1>3 DEF Exchanges, Tell, Hear, Post, PostFor, Ping, Await, SendDots, Wait, StartSearch, Bisect, Split
    <3> QED BY <3>1, PartFacts DEF HandshakeInv, Types, Procs, NProcs
  <2>2. pc[p] # "done"
    BY <1>3, <2>1 DEF Exchanges, Tell, Hear, Post, PostFor, Ping, Await, SendDots, Wait,
                      StartSearch, Bisect, Split, Together
  <2>3. \A q \in Procs : pc[q] # "done"
    BY <2>2 DEF DoneInv
  <2>4. \A q \in Procs : pc'[q] # "done"
    <3>1. CASE Exchanges(p)
      <4>1. Own(p) /\ pc'[p] # "done"
        BY <2>2, <3>1, ExchangesOwn DEF Exchanges, Tell, Hear, Post, PostFor, Ping, Await, SendDots, Wait, Go, Types, PartsType
      <4> QED BY <2>3, <4>1 DEF Own
    <3>2. CASE StartSearch(p) \/ Split(p)
      BY <2>3, <3>2 DEF StartSearch, Split
    <3>3. CASE Bisect(p)
      <4>1. \/ (\A q \in Part(p) : pc'[q] = "tell") /\ \A q \in Procs \ Part(p) : pc'[q] = pc[q]
            \/ pc' = pc
        BY <3>3, BisectCases
      <4> QED BY <2>3, <4>1
    <3> QED BY <1>3, <3>1, <3>2, <3>3
  <2> QED BY <2>1, <2>4 DEF DoneInv
<1>4. Next \/ UNCHANGED vars
  OBVIOUS
<1> QED BY <1>1, <1>2, <1>3, <1>4 DEF Next, Exchanges

LEMMA OwnersStep ==
    ASSUME Types, HandshakeInv, OwnersInv, [Next]_vars
    PROVE  OwnersInv'
BY PlacesStep, HomeStep, KeptStep, SidesStep DEF OwnersInv

LEMMA HalvedIsBalanced == Types /\ HandshakeInv /\ SearchInv => HalvesBalanced
<1> SUFFICES ASSUME Types, HandshakeInv, SearchInv, NEW p \in Procs, p = part[p].lo, Together(p, "tell")
             PROVE  LET low == {d \in DotsOf(p) : mark[d[1]][d[2]] = 0}
                        cut == box[p][search[p].dim].hi
                        off == Weight(p, low) - Target(p, 0)
                    IN  /\ off \in -Tolerance(p) .. Tolerance(p)
                        /\ \A d \in DotsOf(p) : IF d \in low THEN Dot(d).x[search[p].dim] <= cut
                                                ELSE Dot(d).x[search[p].dim] >= cut
  BY DEF HalvesBalanced
<1>1. Halved(p)
  BY DEF SearchInv
<1>2. Lower(p) = {d \in DotsOf(p) : mark[d[1]][d[2]] = 0}
  BY DEF Lower, MarkAt
<1> QED BY <1>1, <1>2 DEF Halved, XOf

LEMMA KnownIsOwned == Types /\ HandshakeInv /\ DoneInv /\ SearchInv /\ BoxInv => OwnersKnown
<1> SUFFICES ASSUME Types, HandshakeInv, DoneInv, SearchInv, BoxInv PROVE OwnersKnown
  OBVIOUS
<1> SUFFICES ASSUME \A p \in Procs : pc[p] = "done"
             PROVE  Known /\ \A p \in Procs : \A j \in DOMAIN dots[p] : \A d \in Dims :
                               dots[p][j].x[d] \in box[p][d].lo .. box[p][d].hi
  BY DEF OwnersKnown, Known
<1>1. Known
  <2>1. 0 \in Procs
    BY DEF Types, PartsType, Procs
  <2> QED BY <2>1 DEF DoneInv
<1>2. ASSUME NEW p \in Procs, NEW j \in DOMAIN dots[p], NEW d \in Dims
      PROVE  dots[p][j].x[d] \in box[p][d].lo .. box[p][d].hi
  <2>1. PICK s \in Slots : DotAt(s) = dots[p][j] /\ DestOf(s) = p
    <3>1. pc[p] \notin {"tell", "hear"}
      BY <1>2
    <3>2. <<p, 0, j>> \in Slots /\ DotAt(<<p, 0, j>>) = dots[p][j] /\ DestOf(<<p, 0, j>>) = p
      BY <3>1, HeldSlots
    <3> QED BY <3>2
  <2>2. Within(DotAt(s), box[p])
    <3>1. s \in DOMAIN View.in /\ View.in[s] = DotAt(s) /\ View.to[s] = p
      BY <2>1 DEF View
    <3> QED BY <3>1 DEF BoxInv, AllWithin
  <2>3. dots[p][j].x[d] \in Int
    <3>1. DotAt(s) \in Dots
      BY SlotFacts
    <3> QED BY <2>1, <3>1 DEF Dots, Dims
  <2>4. box[p][d].lo \in Int /\ box[p][d].hi \in Int
    BY DEF SearchInv, BoxTypes
  <2> QED BY <2>1, <2>2, <2>3, <2>4 DEF Within
<1> QED BY <1>1, <1>2

-----------------------------------------------------------------------------
(* The shares of the whole weight.                                         *)
\* The weight that goes to the processes of G.
WtIn(v) == [s \in DOMAIN v.in |-> v.in[s].wt]
Going(v, G) == {s \in DOMAIN v.in : v.to[s] \in G}
Share(v, G) == SumOf(WtIn(v), Going(v, G))
NoHeavier(v, H) == \A s \in DOMAIN v.in : v.in[s].wt <= H
\* What c processes together may be off, in halves of the largest weight.
Slack(c) == IF c = 1 THEN 5 ELSE 6
Near(off, c, L) == -(Slack(c) * L) <= 2 * off /\ 2 * off <= Slack(c) * L
\* Processes that will be together have their share of the whole.
LoadInv ==
  \A H \in Nat : NoHeavier(View, H) =>
    \A q \in Procs : Near(NProcs * Share(View, Group(q)) - Cardinality(Group(q)) * Share(View, Procs),
                          Cardinality(Group(q)), NProcs * H)

LEMMA Times ==
    /\ \A a \in Nat : \A x, y \in Int : x <= y => a * x <= a * y
    /\ \A a \in Nat \ {0} : \A x, y \in Int : a * x <= a * y => x <= y
<1>1. ASSUME NEW a \in Nat, NEW x \in Int, NEW y \in Int, x <= y PROVE a * x <= a * y
  <2>1. PICK z \in Nat : y = x + z
    <3>1. y - x \in Nat /\ y = x + (y - x)
      BY <1>1
    <3> QED BY <3>1
  <2>2. a * y = a * x + a * z /\ a * z \in Nat /\ a * x \in Int
    BY <2>1
  <2> QED BY <2>2
<1>2. ASSUME NEW a \in Nat \ {0}, NEW x \in Int, NEW y \in Int, a * x <= a * y PROVE x <= y
  <2> SUFFICES ASSUME y + 1 <= x PROVE FALSE
    OBVIOUS
  <2>1. a * (y + 1) <= a * x
    BY <1>1
  <2>2. a * (y + 1) = a * y + a /\ a * y \in Int /\ a * x \in Int
    OBVIOUS
  <2> QED BY <1>2, <2>1, <2>2
<1> QED BY <1>1, <1>2

\* c of the n processes take what they deserve of w, but for e.
LEMMA ShareOfCut ==
    ASSUME NEW N \in Nat, NEW n \in Nat, NEW c \in Nat, NEW H \in Nat,
           NEW w \in Int, NEW l \in Int, NEW e \in Int, NEW W \in Int,
           1 <= c, c < n, c = 1 \/ 3 * c <= 2 * n,
           n * l = c * w + e, -(n * H) <= e, e <= n * H,
           Near(N * w - n * W, n, N * H)
    PROVE  Near(N * l - c * W, c, N * H)
<1>1. PICK K \in Nat : K = N * H
  OBVIOUS
<1>2. PICK X \in Int : X = N * w - n * W
  OBVIOUS
<1>3. PICK D \in Int : D = N * l - c * W
  OBVIOUS
<1>4. PICK F \in Int : F = N * e
  OBVIOUS
<1>5. n * D = c * X + F
  <2>1. n * D = n * (N * l) - n * (c * W)
    BY <1>3
  <2>2. n * (N * l) = N * (n * l) /\ n * (c * W) = c * (n * W)
    OBVIOUS
  <2>3. N * (n * l) = N * (c * w) + N * e
    <3>1. PICK y \in Int : y = c * w
      OBVIOUS
    <3>2. N * (y + e) = N * y + N * e
      OBVIOUS
    <3> QED BY <3>1, <3>2
  <2>4. N * (c * w) = c * (N * w)
    OBVIOUS
  <2>5. c * X = c * (N * w) - c * (n * W)
    BY <1>2
  <2> QED BY <1>4, <2>1, <2>2, <2>3, <2>4, <2>5
<1>6. -(n * K) <= F /\ F <= n * K
  <2>1. PICK M \in Nat : M = n * H
    OBVIOUS
  <2>2. N * e <= N * M /\ N * (-M) <= N * e
    BY <2>1, Times
  <2>3. N * M = n * K /\ N * (-M) = -(N * M)
    BY <1>1, <2>1
  <2> QED BY <1>4, <2>2, <2>3
<1>7. -(6 * K) <= 2 * X /\ 2 * X <= 6 * K
  <2>1. n # 1
    OBVIOUS
  <2> QED BY <1>1, <1>2, <2>1 DEF Near, Slack
<1>8. -(c * (6 * K)) <= c * (2 * X) /\ c * (2 * X) <= c * (6 * K)
  <2>1. c * (-(6 * K)) <= c * (2 * X) /\ c * (2 * X) <= c * (6 * K)
    <3>1. PICK a \in Int : a = 6 * K
      OBVIOUS
    <3>2. PICK b \in Int : b = 2 * X
      OBVIOUS
    <3>3. c * (-a) <= c * b /\ c * b <= c * a
      BY <1>7, <3>1, <3>2, Times
    <3> QED BY <3>1, <3>2, <3>3
  <2>2. c * (-(6 * K)) = -(c * (6 * K))
    OBVIOUS
  <2> QED BY <2>1, <2>2
<1>9. PICK f \in Nat : f = Slack(c)
  BY DEF Slack
<1>10. c * (6 * K) + 2 * (n * K) <= n * (f * K)
  <2>1. 6 * c + 2 * n <= f * n
    BY <1>9 DEF Slack
  <2>2. PICK a, b \in Int : a = 6 * c + 2 * n /\ b = f * n
    OBVIOUS
  <2>3. K * a <= K * b
    BY <2>1, <2>2, Times
  <2>4. K * a = c * (6 * K) + 2 * (n * K)
    BY <2>2
  <2>5. K * b = n * (f * K)
    BY <2>2
  <2> QED BY <2>3, <2>4, <2>5
<1>11. n * (2 * D) = c * (2 * X) + 2 * F
  <2>1. n * (2 * D) = 2 * (n * D) /\ c * (2 * X) = 2 * (c * X) /\ n * D \in Int /\ c * X \in Int
    OBVIOUS
  <2> QED BY <1>5, <2>1
<1>12. n * (2 * D) <= n * (f * K) /\ n * (-(f * K)) <= n * (2 * D)
  <2>1. PICK a, b, d \in Int : a = c * (6 * K) /\ b = n * K /\ d = c * (2 * X)
    OBVIOUS
  <2>2. PICK g \in Int : g = n * (f * K)
    OBVIOUS
  <2>3. n * (-(f * K)) = -g
    BY <2>2
  <2>4. PICK z \in Int : z = n * (2 * D)
    OBVIOUS
  <2>5. z = d + 2 * F /\ a + 2 * b <= g /\ -a <= d /\ d <= a /\ -b <= F /\ F <= b
    BY <1>6, <1>8, <1>10, <1>11, <2>1, <2>2, <2>4
  <2>6. z <= g /\ -g <= z
    BY <2>5
  <2> QED BY <2>2, <2>3, <2>4, <2>6
<1>13. 2 * D <= f * K /\ -(f * K) <= 2 * D
  <2>1. PICK a, b \in Int : a = f * K /\ b = 2 * D
    OBVIOUS
  <2>2. n \in Nat \ {0} /\ n * b <= n * a /\ n * (-a) <= n * b
    BY <1>12, <2>1
  <2>3. b <= a /\ -a <= b
    BY <2>2, Times
  <2> QED BY <2>1, <2>3
<1> QED BY <1>1, <1>3, <1>9, <1>13 DEF Near

\* Dots that only change their slots weigh the same.
LEMMA ShiftShares ==
    ASSUME NEW v, NEW w, NEW p, NEW c, Shifted(v, w, p, c), IsFiniteSet(DOMAIN w.in),
           \A s \in DOMAIN w.in : w.in[s].wt \in Int, NEW G
    PROVE  /\ Share(w, G) = Share(v, G)
           /\ \A H : NoHeavier(w, H) => NoHeavier(v, H)
<1>1. PICK g \in [DOMAIN w.in -> DOMAIN v.in] :
             /\ \A s, t \in DOMAIN w.in : g[s] = g[t] => s = t
             /\ \A t \in DOMAIN v.in : \E s \in DOMAIN w.in : g[s] = t
             /\ \A s \in DOMAIN w.in : w.in[s] = v.in[g[s]] /\ w.to[s] = v.to[g[s]]
  BY DEF Shifted
<1>2. PICK S, T : S = Going(w, G) /\ T = Going(v, G)
  OBVIOUS
<1>3. PICK a, b : a = WtIn(w) /\ b = WtIn(v)
  OBVIOUS
<1>4. S \subseteq DOMAIN w.in /\ T \subseteq DOMAIN v.in /\ \A s \in DOMAIN w.in : s \in S <=> g[s] \in T
  BY <1>1, <1>2 DEF Going
<1>5. PICK h : h = [s \in S |-> g[s]]
  OBVIOUS
<1>6. h \in [S -> T] /\ (\A x, y \in S : h[x] = h[y] => x = y) /\ (\A y \in T : \E x \in S : h[x] = y)
  BY <1>1, <1>4, <1>5
<1>7. \A x \in S : a[x] \in Int /\ b[h[x]] = a[x]
  <2> SUFFICES ASSUME NEW x \in S PROVE a[x] \in Int /\ b[h[x]] = a[x]
    OBVIOUS
  <2>1. x \in DOMAIN w.in /\ g[x] \in DOMAIN v.in /\ h[x] = g[x] /\ w.in[x] = v.in[g[x]]
    BY <1>1, <1>4, <1>5
  <2> QED BY <1>3, <2>1 DEF WtIn
<1>8. IsFiniteSet(S)
  BY <1>4, FS_Subset
<1>9. SumOf(b, T) = SumOf(a, S)
  BY <1>6, <1>7, <1>8, SumImage
<1>10. \A H : NoHeavier(w, H) => NoHeavier(v, H)
  BY <1>1 DEF NoHeavier
<1> QED BY <1>2, <1>3, <1>9, <1>10 DEF Share

-----------------------------------------------------------------------------
(* A step leaves the shares, or a cut halves them.                         *)
ViewSound == /\ IsFiniteSet(Slots) /\ DOMAIN View.in = Slots
             /\ \A s \in Slots : View.in[s] = DotAt(s) /\ View.in[s].wt \in Nat /\ View.to[s] = DestOf(s)
LEMMA SlotsFinite == Types /\ HandshakeInv => ViewSound
<1> SUFFICES ASSUME Types, HandshakeInv PROVE ViewSound
  OBVIOUS
<1>1. ASSUME NEW q \in Procs, NEW b \in {0, 1} PROVE IsFiniteSet({q} \X {b} \X DOMAIN Stock(q, b)) /\ DOMAIN Stock(q, b) \subseteq Nat
  <2>1. PICK l \in Seq(Dots) : l = Stock(q, b)
    BY SentFacts
  <2>2. DOMAIN l = 1 .. Len(l) /\ Len(l) \in Nat
    OBVIOUS
  <2>3. PICK T : T = DOMAIN l
    OBVIOUS
  <2>4. IsFiniteSet(T)
    BY <2>2, <2>3, FS_Interval
  <2>5. PICK U : U = {b} \X T
    OBVIOUS
  <2>6. IsFiniteSet(U)
    BY <2>4, <2>5, FS_Singleton, FS_Product
  <2>7. IsFiniteSet({q} \X U)
    BY <2>6, FS_Singleton, FS_Product
  <2>8. PICK V : V = [i \in {q} \X U |-> <<q, b, i[2][2]>>]
    OBVIOUS
  <2>9. V \in Surjection({q} \X U, {q} \X {b} \X T)
    <3>1. ASSUME NEW i \in {q} \X U PROVE V[i] \in {q} \X {b} \X T
      <4>1. i[2][2] \in T
        BY <2>5
      <4> QED BY <2>8, <4>1
    <3>2. ASSUME NEW x \in {q} \X {b} \X T PROVE \E i \in {q} \X U : V[i] = x
      <4>1. PICK t \in T : x = <<q, b, t>>
        OBVIOUS
      <4>2. <<q, <<b, t>>>> \in {q} \X U /\ V[<<q, <<b, t>>>>] = <<q, b, t>>
        BY <2>5, <2>8
      <4> QED BY <4>1, <4>2
    <3> QED BY <2>8, <3>1, <3>2 DEF Surjection
  <2>10. IsFiniteSet({q} \X {b} \X T)
    BY <2>7, <2>9, FS_Surjection
  <2> QED BY <2>1, <2>2, <2>3, <2>10
<1>2. IsFiniteSet(Procs \X {0, 1})
  <2>1. IsFiniteSet(Procs)
    BY FS_Interval DEF Procs, Types, PartsType
  <2>2. IsFiniteSet({0, 1})
    <3>1. PICK S : S = {0}
      OBVIOUS
    <3>2. IsFiniteSet(S \union {1}) /\ {0, 1} = S \union {1}
      BY <3>1, FS_Singleton, FS_AddElement
    <3> QED BY <3>2
  <2> QED BY <2>1, <2>2, FS_Product
<1> DEFINE Of(i) == {i[1]} \X {i[2]} \X DOMAIN Stock(i[1], i[2])
           h == [i \in Procs \X {0, 1} |-> Of(i)]
<1>3. PICK C : C = {Of(i) : i \in Procs \X {0, 1}}
  OBVIOUS
<1>4. IsFiniteSet(C)
  <2>1. h \in Surjection(Procs \X {0, 1}, C)
    BY <1>3 DEF Surjection
  <2> HIDE DEF h
  <2> QED BY <1>2, <2>1, FS_Surjection
<1>5. \A T \in C : IsFiniteSet(T)
  <2> SUFFICES ASSUME NEW i \in Procs \X {0, 1} PROVE IsFiniteSet(Of(i))
    BY <1>3
  <2>1. i[1] \in Procs /\ i[2] \in {0, 1}
    OBVIOUS
  <2> QED BY <1>1, <2>1
<1>6. IsFiniteSet(UNION C)
  BY <1>4, <1>5, FS_UNION
<1>7. Slots \subseteq UNION C
  <2> SUFFICES ASSUME NEW s \in Slots PROVE s \in UNION C
    OBVIOUS
  <2>1. /\ s = <<s[1], s[2], s[3]>> /\ s[1] \in Procs /\ s[2] \in {0, 1} /\ s[3] \in DOMAIN Stock(s[1], s[2])
    BY SlotFacts
  <2>2. PICK i \in Procs \X {0, 1} : i[1] = s[1] /\ i[2] = s[2]
    <3>1. <<s[1], s[2]>> \in Procs \X {0, 1} /\ <<s[1], s[2]>>[1] = s[1] /\ <<s[1], s[2]>>[2] = s[2]
      BY <2>1
    <3> QED BY <3>1
  <2>3. s \in Of(i)
    BY <2>1, <2>2
  <2> QED BY <1>3, <2>3
<1>8. IsFiniteSet(Slots)
  BY <1>6, <1>7, FS_Subset
<1>9. ASSUME NEW s \in Slots PROVE View.in[s] = DotAt(s) /\ View.in[s].wt \in Nat /\ View.to[s] = DestOf(s)
  <2>1. DotAt(s) \in Dots
    BY SlotFacts
  <2> QED BY <2>1 DEF View, Dots
<1> QED BY <1>8, <1>9 DEF View, ViewSound

LEMMA SlotsFiniteNext == Types' /\ HandshakeInv' => ViewSound'
BY SlotsFinite, PTL

\* The dots of a set of slots of processes that have all their dots.
LEMMA SlotWeights ==
    ASSUME Types, HandshakeInv, NEW S, S \subseteq Slots, NEW D, D \subseteq AllDots,
           \A s \in S : s = <<s[1], 0, s[3]>> /\ <<s[1], s[3]>> \in D,
           \A d \in D : <<d[1], 0, d[2]>> \in S
    PROVE  SumOf(WtIn(View), S) = WeightOf(D) /\ SumOf(WtIn(View), S) \in Nat
<1>1. PICK f : f = WtIn(View)
  OBVIOUS
<1>2. PICK h : h = [s \in S |-> <<s[1], s[3]>>]
  OBVIOUS
<1>3. IsFiniteSet(S) /\ \A s \in S : f[s] \in Nat /\ f[s] = DotAt(s).wt
  <2>1. IsFiniteSet(S)
    BY SlotsFinite, FS_Subset DEF ViewSound
  <2>2. \A s \in S : s \in DOMAIN View.in /\ View.in[s] = DotAt(s) /\ View.in[s].wt \in Nat
    BY SlotsFinite DEF ViewSound
  <2> QED BY <1>1, <2>1, <2>2 DEF WtIn
<1>4. WeightOf(D) = SumOf(WtOf, D) /\ WeightOf(D) \in Nat /\ \A d \in D : WtOf[d] = Dot(d).wt
  BY WeightFacts
<1>5. \A s \in S : h[s] \in D
  BY <1>2
<1>6. \A x, y \in S : h[x] = h[y] => x = y
  <2> SUFFICES ASSUME NEW x \in S, NEW y \in S, h[x] = h[y] PROVE x = y
    OBVIOUS
  <2>1. <<x[1], x[3]>> = <<y[1], y[3]>>
    BY <1>2
  <2>2. x[1] = y[1] /\ x[3] = y[3]
    BY <2>1
  <2>3. x = <<x[1], 0, x[3]>> /\ y = <<y[1], 0, y[3]>>
    OBVIOUS
  <2> QED BY <2>2, <2>3
<1>7. \A d \in D : \E s \in S : h[s] = d
  <2> SUFFICES ASSUME NEW d \in D PROVE \E s \in S : h[s] = d
    OBVIOUS
  <2>1. d = <<d[1], d[2]>>
    BY DotsFinite
  <2>2. PICK s \in S : s = <<d[1], 0, d[2]>>
    OBVIOUS
  <2>3. s[1] = d[1] /\ s[3] = d[2]
    BY <2>2
  <2>4. h[s] = <<d[1], d[2]>>
    BY <1>2, <2>3
  <2> QED BY <2>1, <2>4
<1>8. ASSUME NEW s \in S PROVE WtOf[h[s]] = f[s]
  <2>0. s = <<s[1], 0, s[3]>>
    OBVIOUS
  <2>1. PICK q, j : q = s[1] /\ j = s[3] /\ s = <<q, 0, j>>
    BY <2>0
  <2>2. DotAt(s) = dots[q][j]
    <3>1. s[1] = q /\ s[2] = 0 /\ s[3] = j
      BY <2>1
    <3> QED BY <3>1 DEF DotAt, Stock
  <2>3. h[s] = <<q, j>> /\ h[s] \in D
    BY <1>2, <1>5, <2>1
  <2>4. Dot(h[s]) = dots[q][j]
    BY <2>3 DEF Dot
  <2> QED BY <1>3, <1>4, <2>2, <2>3, <2>4
<1>9. h \in [S -> D]
  BY <1>2, <1>5
<1>10. \A s \in S : f[s] \in Int
  BY <1>3
<1>11. SumOf(WtOf, D) = SumOf(f, S)
  BY <1>3, <1>6, <1>7, <1>8, <1>9, <1>10, SumImage
<1> QED BY <1>1, <1>4, <1>11

LEMMA LoadSame ==
    ASSUME Types, HandshakeInv, Types', HandshakeInv', LoadInv, load' = load,
           View' = View \/ (\E p, c : Shifted(View, View', p, c)),
           \A q \in Procs : Group(q)' = Group(q)
    PROVE  LoadInv'
<1>1. PICK v, w : v = View /\ w = View'
  OBVIOUS
<1>2. Procs' = Procs /\ NProcs' = NProcs
  BY DEF Procs, NProcs
<1>3. IsFiniteSet(DOMAIN w.in) /\ \A s \in DOMAIN w.in : w.in[s].wt \in Int
  <2>1. IsFiniteSet(Slots') /\ DOMAIN w.in = Slots' /\ \A s \in Slots' : w.in[s].wt \in Nat
    BY <1>1, SlotsFiniteNext DEF ViewSound
  <2> QED BY <2>1
<1>4. \A G : Share(w, G) = Share(v, G)
  BY <1>1, <1>3, ShiftShares
<1>5. \A H : NoHeavier(w, H) => NoHeavier(v, H)
  BY <1>1, <1>3, ShiftShares
<1>6. ASSUME NEW H \in Nat, NoHeavier(w, H), NEW q \in Procs
      PROVE  Near(NProcs * Share(w, Group(q)) - Cardinality(Group(q)) * Share(w, Procs),
                  Cardinality(Group(q)), NProcs * H)
  BY <1>1, <1>4, <1>5, <1>6 DEF LoadInv
<1> QED BY <1>1, <1>2, <1>6 DEF LoadInv

-----------------------------------------------------------------------------
(* The halves of a cut.                                                    *)
\* The processes on either side of a cut.
LEMMA HalvesOf ==
    ASSUME Types, HandshakeInv, NEW p \in Procs, part[p].lo # part[p].hi, NEW q \in Part(p),
           NEW G, G = {r \in Part(p) : SameHalf(part[p], q, r)}
    PROVE  LET n == Cardinality(Part(p))
               c == IF q < Mid(part[p]) THEN Half(part[p]) ELSE n - Half(part[p])
           IN  Cardinality(G) = c /\ n \in Nat /\ c \in Nat /\ 1 <= c /\ c < n /\ (c = 1 \/ 3 * c <= 2 * n)
<1>1. PICK lo, hi, q1 \in Int : lo = part[p].lo /\ hi = part[p].hi /\ lo < hi /\ q1 = q
  BY PartFacts DEF HandshakeInv, Types, Partition
<1>2. Partition(part[p]) /\ Part(p) = lo .. hi
  BY <1>1, PartFacts DEF HandshakeInv, Types, Part
<1>3. PICK h \in Int : h = Half(part[p])
  BY <1>2, HalfBounds
<1>4. PICK n \in Nat : n = Cardinality(Part(p)) /\ n = hi - lo + 1
  BY <1>1, PartSize
<1>5. /\ 2 * h = n \/ 2 * h = n + 1
      /\ 1 <= h
  <2>1. 2 * h = hi - lo + 1 \/ 2 * h = hi - lo + 2
    BY <1>1, <1>2, <1>3, HalfBounds
  <2>2. 1 <= h
    BY <1>2, <1>3, HalfBounds
  <2> QED BY <1>4, <2>1, <2>2
<1>6. PICK m \in Int : m = Mid(part[p]) /\ m = lo + h
  BY <1>1, <1>3 DEF Mid
<1>7. h < n /\ hi - m + 1 = n - h /\ lo < m /\ m <= hi
  BY <1>1, <1>4, <1>5, <1>6
<1>8. lo <= q1 /\ q1 <= hi /\ \A r \in lo .. hi : r \in G <=> (q1 < m <=> r < m)
  BY <1>1, <1>2, <1>6 DEF SameHalf
<1>9. CASE q1 < m
  <2>1. G = lo .. m - 1
    BY <1>1, <1>2, <1>7, <1>8, <1>9
  <2>2. Cardinality(lo .. m - 1) = h
    <3>1. PICK x \in Int : x = m - 1
      OBVIOUS
    <3>2. Cardinality(lo .. x) = IF lo > x THEN 0 ELSE x - lo + 1
      BY FS_Interval
    <3> QED BY <1>6, <1>7, <3>1, <3>2
  <2>3. h \in Nat /\ (h = 1 \/ 3 * h <= 2 * n)
    BY ONLY <1>5, h \in Int, n \in Nat
  <2>4. Cardinality(G) = h
    BY <2>1, <2>2
  <2> QED BY <1>1, <1>3, <1>4, <1>5, <1>6, <1>7, <1>9, <2>3, <2>4
<1>10. CASE ~(q1 < m)
  <2>1. G = m .. hi
    BY <1>1, <1>2, <1>7, <1>8, <1>10
  <2>2. Cardinality(m .. hi) = n - h
    <3>1. Cardinality(m .. hi) = IF m > hi THEN 0 ELSE hi - m + 1
      BY FS_Interval
    <3> QED BY <1>6, <1>7, <3>1
  <2>3. PICK c \in Nat : c = n - h
    BY <1>7
  <2>4. 1 <= c /\ c < n /\ 3 * c <= 2 * n
    BY ONLY <1>5, <1>7, <2>3, h \in Int, n \in Nat, c \in Nat
  <2>5. Cardinality(G) = c
    BY <2>1, <2>2, <2>3
  <2> QED BY <1>1, <1>3, <1>4, <1>6, <1>10, <2>3, <2>4, <2>5
<1> QED BY <1>9, <1>10

\* The halves of a partition miss what they deserve by no more than the largest weight.
LEMMA CutWeights ==
    ASSUME Types, HandshakeInv, NEW p \in Procs, part' = part, dots' = dots, Halved(p)', part[p].lo # part[p].hi,
           NEW L, L = Lower(p)', NEW H \in Nat, \A d \in DotsOf(p) : Dot(d).wt <= H,
           NEW low \in BOOLEAN, NEW D, D = IF low THEN L ELSE DotsOf(p) \ L,
           NEW c \in Nat, c = IF low THEN Half(part[p]) ELSE Cardinality(Part(p)) - Half(part[p])
    PROVE  /\ L \subseteq DotsOf(p)
           /\ \E e \in Int : /\ Cardinality(Part(p)) * WeightOf(D) = c * Total(p) + e
                             /\ -(Cardinality(Part(p)) * H) <= e /\ e <= Cardinality(Part(p)) * H
<1>1. /\ DotsOf(p)' = DotsOf(p)
      /\ \A S : S \subseteq DotsOf(p) => Weight(p, S)' = Weight(p, S)
      /\ \A s : Target(p, s)' = Target(p, s)
      /\ Tolerance(p)' = Tolerance(p)
  BY SameMeasures
<1>2. L \subseteq DotsOf(p)
  BY <1>1 DEF Lower
<1>3. PICK n \in Nat : n = Cardinality(Part(p))
  BY PartSize
<1>4. PICK h \in Int : h = Half(part[p])
  <2>1. Partition(part[p])
    BY PartFacts DEF HandshakeInv, Types
  <2> QED BY <2>1, HalfBounds
<1>5. PICK w, l, t \in Nat : w = Total(p) /\ l = WeightOf(L) /\ t = Largest(DotsOf(p)) /\ t <= H
  <2>1. DotsOf(p) \subseteq AllDots /\ L \subseteq AllDots
    BY <1>2, PartDots
  <2>2. WeightOf(L) \in Nat /\ Total(p) \in Nat
    BY <2>1, WeightFacts DEF Total
  <2>3. Largest(DotsOf(p)) \in Nat /\ Largest(DotsOf(p)) <= H
    BY <2>1, LargestFacts
  <2> QED BY <2>2, <2>3
<1>6. WeightOf(DotsOf(p) \ L) = w - l
  <2>1. DotsOf(p) \subseteq AllDots
    BY PartDots
  <2> QED BY <1>2, <1>5, <2>1, WeightWithin DEF Total
<1>7. PICK e \in Int : e = n * l - w * h
  OBVIOUS
<1>8. -(n * t) <= e /\ e <= n * t
  <2>1. Weight(p, L) = n * l /\ Target(p, 0) = w * h /\ Tolerance(p) = n * t
    BY <1>3, <1>4, <1>5 DEF Weight, Target, Tolerance
  <2>2. Weight(p, L)' = Weight(p, L)
    BY <1>1, <1>2
  <2>3. Weight(p, Lower(p))' = Weight(p, L)'
    BY DEF Weight, WeightOf
  <2>4. (Weight(p, Lower(p)) - Target(p, 0))' \in (-Tolerance(p) .. Tolerance(p))'
    BY DEF Halved
  <2>5. Weight(p, L) - Target(p, 0) \in -Tolerance(p) .. Tolerance(p)
    BY <1>1, <2>2, <2>3, <2>4
  <2>6. PICK x \in Int : x = n * t
    OBVIOUS
  <2>7. e \in -x .. x
    BY <1>7, <2>1, <2>5, <2>6
  <2> QED BY <2>6, <2>7
<1>9. -(n * H) <= e /\ e <= n * H
  <2>1. n * t <= n * H /\ n * t \in Int /\ n * H \in Int
    BY <1>5, Times
  <2> QED BY <1>8, <2>1
<1>10. CASE low
  <2>1. n * l = h * w + e
    BY <1>7
  <2> QED BY <1>2, <1>3, <1>4, <1>5, <1>9, <1>10, <2>1
<1>11. CASE ~low
  <2>1. n * (w - l) = (n - h) * w + (-e)
    <3>1. n * (w - l) = n * w - n * l /\ (n - h) * w = n * w - h * w /\ h * w = w * h
      OBVIOUS
    <3>2. n * w \in Int /\ n * l \in Int /\ w * h \in Int
      OBVIOUS
    <3> QED BY <1>7, <3>1, <3>2
  <2>2. -e \in Int /\ -(n * H) <= -e /\ -e <= n * H
    <3>1. n * H \in Int
      OBVIOUS
    <3> QED BY <1>9, <3>1
  <2>3. WeightOf(D) = w - l /\ c = n - h
    BY <1>3, <1>4, <1>6, <1>11
  <2> QED BY <1>2, <1>3, <1>5, <2>1, <2>2, <2>3
<1> QED BY <1>10, <1>11

LEMMA LoadCut ==
    ASSUME Types, HandshakeInv, Types', HandshakeInv', LoadInv, NEW p \in Procs, Bisect(p),
           NEW v \in Int, FoundCut(p, v), Halved(p)'
    PROVE  LoadInv'
<1>1. /\ part' = part /\ load' = load /\ dots' = dots
      /\ Part(p) \subseteq Procs /\ p \in Part(p)
      /\ \A q \in Part(p) : Part(q) = Part(p) /\ pc[q] = "search" /\ part[q] = part[p] /\ pc'[q] = "tell"
      /\ \A q \in Procs \ Part(p) : pc'[q] = pc[q]
  BY BisectCases, PartFacts DEF HandshakeInv, Types, FoundCut
<1>2. /\ Procs' = Procs /\ NProcs' = NProcs /\ \A q : Part(q)' = Part(q)
      /\ part[p].lo # part[p].hi
  BY <1>1, OwnSameParts DEF HandshakeInv, PartsInv, Types
<1>3. PICK a, b : a = View /\ b = View'
  OBVIOUS
<1>4. /\ Slots' = Slots
      /\ \A s \in Slots : /\ s[1] \notin Part(p) => DestOf(s)' = DestOf(s)
                          /\ s[1] \in Part(p) => s[2] = 0 /\ DestOf(s) = s[1]
  BY BisectView
<1>5. /\ a.in = b.in /\ DOMAIN a.in = Slots
      /\ \A s \in Slots : a.in[s] = DotAt(s) /\ a.to[s] = DestOf(s) /\ b.to[s] = DestOf(s)'
  <2>1. a.in = b.in
    BY <1>3, BisectView
  <2>2. \A s \in Slots' : b.to[s] = DestOf(s)'
    BY <1>3, SlotsFiniteNext DEF ViewSound
  <2> QED BY <1>3, <1>4, <2>1, <2>2, SlotsFinite DEF ViewSound
<1>6. PICK f : f = WtIn(a)
  OBVIOUS
<1>7. \A G : Share(a, G) = SumOf(f, Going(a, G)) /\ Share(b, G) = SumOf(f, Going(b, G))
  BY <1>5, <1>6 DEF Share, WtIn
<1>8. \A s \in Slots : s[1] \notin Part(p) => DestOf(s) \notin Part(p) /\ DestOf(s)' \notin Part(p)
  <2> SUFFICES ASSUME NEW s \in Slots, s[1] \notin Part(p) PROVE DestOf(s) \notin Part(p)
    BY <1>4
  <2>1. s[1] \in Procs /\ DestOf(s) \in Part(s[1])
    BY SlotFacts
  <2> QED BY <2>1, OtherPart DEF HandshakeInv, Types
<1>9. \A s \in Slots : s[1] \in Part(p) => DestOf(s) \in Part(p) /\ DestOf(s)' \in Part(p)
  BY <1>4, CutGoes
<1>10. /\ \A s \in Slots : DestOf(s) \in Procs
       /\ DotsOf(p) \subseteq AllDots
       /\ \A d \in DotsOf(p) : <<d[1], 0, d[2]>> \in Slots /\ d[1] \in Part(p) /\ d = <<d[1], d[2]>>
                               /\ DotAt(<<d[1], 0, d[2]>>) = Dot(d)
  <2> SUFFICES ASSUME NEW d \in DotsOf(p)
               PROVE  /\ <<d[1], 0, d[2]>> \in Slots /\ d[1] \in Part(p) /\ d = <<d[1], d[2]>>
                      /\ DotAt(<<d[1], 0, d[2]>>) = Dot(d)
    BY PartDots, SlotFacts
  <2>1. /\ d = <<d[1], d[2]>> /\ d[1] \in Part(p) /\ d[1] \in Procs /\ d[2] \in DOMAIN dots[d[1]]
    BY PartDots
  <2> QED BY <2>1, HeldSlots DEF Dot
<1>11. Share(b, Procs) = Share(a, Procs) /\ Share(a, Procs) \in Nat
  <2>1. \A s \in Slots : DestOf(s)' \in Procs
    BY <1>1, <1>4, <1>9, <1>10
  <2>2. Going(a, Procs) = Slots /\ Going(b, Procs) = Slots
    BY <1>5, <1>10, <2>1 DEF Going
  <2>3. IsFiniteSet(Slots) /\ \A s \in Slots : f[s] \in Nat
    BY <1>3, <1>6, SlotsFinite DEF ViewSound, WtIn
  <2> QED BY <1>7, <2>2, <2>3, SumNat
<1>12. ASSUME NEW H \in Nat, NoHeavier(b, H), NEW q \in Procs, NEW G, G = Group(q)'
       PROVE  Near(NProcs * Share(b, G) - Cardinality(G) * Share(b, Procs), Cardinality(G), NProcs * H)
  <2>1. NoHeavier(a, H)
    BY <1>5, <1>12 DEF NoHeavier
  <2>2. CASE q \notin Part(p)
    <3>1. G = Group(q)
      BY <1>1, <1>2, <1>12, <2>2 DEF Group, Rests, SameHalf, Mid, Half
    <3>2. G \cap Part(p) = {}
      BY <2>2, <3>1, OtherPart DEF Group, HandshakeInv, Types
    <3>3. Going(b, G) = Going(a, G)
      BY <1>4, <1>5, <1>8, <1>9, <3>2 DEF Going
    <3>4. Near(NProcs * Share(a, G) - Cardinality(G) * Share(a, Procs), Cardinality(G), NProcs * H)
      BY <1>3, <2>1, <3>1 DEF LoadInv
    <3> QED BY <1>7, <1>11, <3>3, <3>4
  <2>3. CASE q \in Part(p)
    <3>1. G = {r \in Part(p) : SameHalf(part[p], q, r)}
      <4>1. Group(q)' = {r \in Part(q) : Rests(q)' \/ SameHalf(part[q], q, r)}
        BY <1>1, <1>2 DEF Group, SameHalf, Mid, Half
      <4>2. ~Rests(q)'
        BY <1>1, <2>3 DEF Rests
      <4> QED BY <1>1, <1>12, <2>3, <4>1, <4>2
    <3>2. PICK low \in BOOLEAN : low <=> (q < Mid(part[p]))
      <4>1. CASE q < Mid(part[p])
        <5>1. \E x \in BOOLEAN : x = TRUE
          OBVIOUS
        <5> QED BY <4>1, <5>1
      <4>2. CASE ~(q < Mid(part[p]))
        <5>1. \E x \in BOOLEAN : x = FALSE
          OBVIOUS
        <5> QED BY <4>2, <5>1
      <4> QED BY <4>1, <4>2
    <3>3. PICK n : n = Cardinality(Part(p))
      OBVIOUS
    <3>4. PICK c : c = IF low THEN Half(part[p]) ELSE n - Half(part[p])
      OBVIOUS
    <3>5. Cardinality(G) = c /\ n \in Nat /\ c \in Nat /\ 1 <= c /\ c < n /\ (c = 1 \/ 3 * c <= 2 * n)
      BY <1>2, <2>3, <3>1, <3>2, <3>3, <3>4, HalvesOf
    <3>6. PICK L : L = Lower(p)'
      OBVIOUS
    <3>7. PICK D : D = IF low THEN L ELSE DotsOf(p) \ L
      OBVIOUS
    <3>8. \A d \in DotsOf(p) : Dot(d).wt <= H
      <4> SUFFICES ASSUME NEW d \in DotsOf(p) PROVE Dot(d).wt <= H
        OBVIOUS
      <4>1. PICK s \in Slots : DotAt(s) = Dot(d)
        BY <1>10
      <4> QED BY <1>5, <2>1, <4>1 DEF NoHeavier
    <3>9. /\ L \subseteq DotsOf(p)
          /\ \E e \in Int : /\ n * WeightOf(D) = c * Total(p) + e
                            /\ -(n * H) <= e /\ e <= n * H
      BY <1>1, <1>2, <3>3, <3>4, <3>5, <3>6, <3>7, <3>8, CutWeights
    <3>10. D \subseteq DotsOf(p) /\ D \subseteq AllDots
      BY <1>10, <3>7, <3>9
    <3>11. PICK S : S = Going(b, G)
      OBVIOUS
    <3>12. \A s \in Slots : s \in S <=> s[1] \in Part(p) /\ (low <=> <<s[1], s[3]>> \in L)
      <4> SUFFICES ASSUME NEW s \in Slots PROVE s \in S <=> s[1] \in Part(p) /\ (low <=> <<s[1], s[3]>> \in L)
        OBVIOUS
      <4>1. s \in S <=> DestOf(s)' \in G
        BY <1>5, <3>11 DEF Going
      <4>2. CASE s[1] \notin Part(p)
        BY <1>8, <3>1, <4>1, <4>2
      <4>3. CASE s[1] \in Part(p)
        <5>1. DestOf(s)' \in Part(p) /\ (DestOf(s)' < Mid(part[p]) <=> <<s[1], s[3]>> \in L)
          BY <3>6, <4>3, CutGoes
        <5>2. DestOf(s)' \in G <=> (low <=> <<s[1], s[3]>> \in L)
          BY <3>1, <3>2, <5>1 DEF SameHalf
        <5> QED BY <4>1, <4>3, <5>2
      <4> QED BY <4>2, <4>3
    <3>13. S \subseteq Slots
      BY <1>5, <3>11 DEF Going
    <3>14. \A s \in S : s = <<s[1], 0, s[3]>> /\ <<s[1], s[3]>> \in D
      <4> SUFFICES ASSUME NEW s \in S PROVE s = <<s[1], 0, s[3]>> /\ <<s[1], s[3]>> \in D
        OBVIOUS
      <4>1. s \in Slots /\ s[1] \in Part(p) /\ (low <=> <<s[1], s[3]>> \in L)
        BY <3>12, <3>13
      <4>2. s = <<s[1], 0, s[3]>> /\ <<s[1], s[3]>> \in DotsOf(p)
        BY <4>1, CutGoes
      <4> QED BY <3>7, <4>1, <4>2
    <3>15. \A d \in D : <<d[1], 0, d[2]>> \in S
      <4> SUFFICES ASSUME NEW d \in D PROVE <<d[1], 0, d[2]>> \in S
        OBVIOUS
      <4>1. /\ d \in DotsOf(p) /\ <<d[1], 0, d[2]>> \in Slots /\ d[1] \in Part(p) /\ d = <<d[1], d[2]>>
            /\ low <=> d \in L
        BY <1>10, <3>7, <3>10
      <4>2. PICK s \in Slots : s = <<d[1], 0, d[2]>>
        BY <4>1
      <4>3. s[1] = d[1] /\ s[3] = d[2]
        BY <4>2
      <4> QED BY <3>12, <4>1, <4>2, <4>3
    <3>16. SumOf(f, S) = WeightOf(D) /\ WeightOf(D) \in Nat
      BY <1>3, <1>6, <3>10, <3>13, <3>14, <3>15, SlotWeights
    <3>17. PICK P : P = Part(p)
      OBVIOUS
    <3>18. PICK T : T = Going(a, P)
      OBVIOUS
    <3>19. SumOf(f, T) = WeightOf(DotsOf(p)) /\ WeightOf(DotsOf(p)) \in Nat
      <4>1. T \subseteq Slots /\ \A s \in Slots : s \in T <=> s[1] \in Part(p)
        BY <1>5, <1>8, <1>9, <3>17, <3>18 DEF Going
      <4>2. \A s \in T : s = <<s[1], 0, s[3]>> /\ <<s[1], s[3]>> \in DotsOf(p)
        BY <4>1, CutGoes
      <4>3. ASSUME NEW d \in DotsOf(p) PROVE <<d[1], 0, d[2]>> \in T
        <5>1. PICK s \in Slots : s = <<d[1], 0, d[2]>> /\ d[1] \in Part(p)
          BY <1>10
        <5>2. s[1] = d[1]
          BY <5>1
        <5> QED BY <4>1, <5>1, <5>2
      <4>4. PICK E : E = DotsOf(p)
        OBVIOUS
      <4>5. SumOf(f, T) = WeightOf(E) /\ WeightOf(E) = SumOf(f, T) /\ SumOf(f, T) \in Nat
        BY <1>3, <1>6, <1>10, <4>1, <4>2, <4>3, <4>4, SlotWeights
      <4> QED BY <4>4, <4>5
    <3>20. Group(p) = P
      BY <1>1, <3>17 DEF Group, Rests
    <3>21. Near(NProcs * Share(a, P) - n * Share(a, Procs), n, NProcs * H)
      BY <1>3, <2>1, <3>3, <3>17, <3>20 DEF LoadInv
    <3>22. PICK N, W, w, l \in Nat : N = NProcs /\ W = Share(a, Procs) /\ w = Total(p) /\ l = WeightOf(D)
      BY <1>11, <3>16, <3>19 DEF Types, PartsType, Total
    <3>23. PICK e \in Int : n * l = c * w + e /\ -(n * H) <= e /\ e <= n * H
      BY <3>9, <3>22
    <3>24. Share(a, P) = w /\ Share(b, G) = l
      BY <1>7, <3>11, <3>16, <3>18, <3>19, <3>22 DEF Total
    <3>25. Near(N * w - n * W, n, N * H)
      BY <3>21, <3>22, <3>24
    <3>26. Near(N * l - c * W, c, N * H)
      <4>1. n \in Nat /\ c \in Nat /\ 1 <= c /\ c < n /\ (c = 1 \/ 3 * c <= 2 * n)
        BY <3>5
      <4>2. w \in Int /\ l \in Int /\ W \in Int
        OBVIOUS
      <4>3. n * l = c * w + e /\ -(n * H) <= e /\ e <= n * H
        BY <3>23
      <4> QED BY <3>25, <4>1, <4>2, <4>3, ShareOfCut, Zenon
    <3> QED BY <1>11, <3>5, <3>22, <3>24, <3>26
  <2> QED BY <2>2, <2>3
<1>13. ASSUME NEW H \in Nat, NoHeavier(b, H), NEW q \in Procs
       PROVE  Near(NProcs * Share(b, Group(q)') - Cardinality(Group(q)') * Share(b, Procs), Cardinality(Group(q)'), NProcs * H)
  <2>1. PICK G : G = Group(q)'
    OBVIOUS
  <2> QED BY <1>12, <1>13, <2>1
<1> QED BY <1>2, <1>3, <1>13 DEF LoadInv

-----------------------------------------------------------------------------
(* The invariant of every run, and what it implies.                        *)
LEMMA LoadStep ==
    ASSUME Types, HandshakeInv, Types', HandshakeInv', SearchInv, LoadInv, [Next]_vars
    PROVE  LoadInv'
<1>1. ASSUME part' = part, load' = load,
             View' = View \/ (\E p, c : Shifted(View, View', p, c)),
             \A q \in Procs : Rests(q)' <=> Rests(q)
      PROVE  LoadInv'
  <2>1. \A q : Part(q)' = Part(q)
    BY <1>1, OwnSameParts DEF Types
  <2>2. \A q \in Procs : Group(q)' = Group(q)
    BY <1>1, <2>1 DEF Group, SameHalf, Mid, Half
  <2> QED BY <1>1, <2>2, LoadSame
<1>2. ASSUME NEW p \in Procs, Exchanges(p) PROVE LoadInv'
  <2>1. Own(p)
    BY <1>2, ExchangesOwn
  <2>2. ~Rests(p)' /\ ~Rests(p)
    BY <1>2 DEF Exchanges, Tell, Hear, Post, PostFor, Ping, Await, SendDots, Wait, Go, Rests, Types, PartsType
  <2>3. \A q \in Procs : Rests(q)' <=> Rests(q)
    BY <2>1, <2>2 DEF Own, Rests
  <2>4. View' = View \/ (\E r, c : Shifted(View, View', r, c))
    BY <1>2, QuietSent, SendDotsSent, PostShifts, WaitShifts DEF Exchanges
  <2> QED BY <1>1, <2>1, <2>3, <2>4 DEF Own
<1>3. ASSUME NEW p \in Procs, StartSearch(p) PROVE LoadInv'
  <2>1. View' = View /\ part' = part /\ load' = load
    BY <1>3, StartSearchView DEF StartSearch
  <2>2. \A q \in Procs : Rests(q)' <=> Rests(q)
    BY <1>3 DEF StartSearch, Together, Rests
  <2> QED BY <1>1, <2>1, <2>2
<1>4. ASSUME NEW p \in Procs, Bisect(p) PROVE LoadInv'
  <2>1. p \in Part(p) /\ p = part[p].lo /\ pc[p] = "search" /\ BoxTypes
    BY <1>4, PartFacts DEF Bisect, Together, HandshakeInv, Types, SearchInv
  <2>2. Narrowed(p)
    BY <2>1 DEF SearchInv
  <2>3. \/ (\E v \in Int : FoundCut(p, v)) /\ Halved(p)'
        \/ pc' = pc /\ box' = box
    BY <1>4, <2>1, <2>2, BisectSearch
  <2>4. CASE (\E v \in Int : FoundCut(p, v)) /\ Halved(p)'
    BY <1>4, <2>1, <2>4, LoadCut
  <2>5. CASE pc' = pc /\ box' = box
    <3>1. part' = part /\ load' = load /\ \A q \in Part(p) : pc'[q] # "tell"
      BY <1>4, <2>5, BisectCases
    <3>2. View' = View
      BY <1>4, <3>1, BisectView
    <3> QED BY <1>1, <2>5, <3>1, <3>2 DEF Rests
  <2> QED BY <2>3, <2>4, <2>5
<1>5. CASE Invert
  <2>1. View' = View /\ part' = part /\ load' = load
    BY <1>5, InvertView DEF Invert
  <2>2. \A q \in Procs : Rests(q) /\ Rests(q)'
    BY <1>5 DEF Invert, Final, Rests
  <2> QED BY <1>1, <2>1, <2>2
<1>6. CASE UNCHANGED vars
  <2>1. part' = part /\ load' = load /\ Procs' = Procs /\ pc' = pc /\ \A q : Part(q)' = Part(q)
    BY <1>6, OwnSameParts DEF vars, Types
  <2>2. \A q : Sent(q)' = Sent(q) /\ Leaves(q)' = Leaves(q) /\ dots'[q] = dots[q] /\ Partner(q)' = Partner(q)
    BY <1>6, <2>1 DEF vars, Sent, DotsDue, Shipped, Leaves, MarkActive, Partner
  <2>3. View' = View
    BY <2>1, <2>2, UnchangedView
  <2> QED BY <1>1, <2>1, <2>3 DEF Rests
<1>7. ASSUME NEW p \in Procs, Split(p) PROVE LoadInv'
  <2>1. View' = View /\ load' = load
    BY <1>7, SplitView DEF Split
  <2>2. \A q \in Procs : Group(q)' = Group(q)
    BY <1>7, SplitGroups
  <2> QED BY <2>1, <2>2, LoadSame
<1>8. Next \/ UNCHANGED vars
  OBVIOUS
<1> QED BY <1>2, <1>3, <1>4, <1>5, <1>6, <1>7, <1>8 DEF Next, Exchanges

\* All together have all.
LEMMA LoadInit == Init => LoadInv
<1> SUFFICES ASSUME Init PROVE LoadInv
  OBVIOUS
<1>1. Types /\ HandshakeInv
  BY HandshakeInit
<1>2. \A q \in Procs : pc[q] = "level" /\ part[q] = [lo |-> 0, hi |-> NProcs - 1]
  BY DEF Init
<1>3. ASSUME NEW q \in Procs PROVE Group(q) = Procs
  BY <1>2 DEF Group, Rests, Part, Procs
<1>4. PICK n \in Nat \ {0} : n = NProcs
  BY <1>1 DEF Types, PartsType
<1>5. Cardinality(Procs) = n
  BY <1>4, FS_Interval DEF Procs
<1>6. IsFiniteSet(Slots) /\ DOMAIN View.in = Slots /\ \A s \in Slots : View.in[s].wt \in Nat
  BY <1>1, SlotsFinite DEF ViewSound
<1>7. Share(View, Procs) \in Nat
  <2>1. PICK S, f : S = Going(View, Procs) /\ f = WtIn(View)
    OBVIOUS
  <2>2. S \subseteq Slots /\ \A s \in S : f[s] \in Nat
    BY <1>6, <2>1 DEF Going, WtIn
  <2>3. SumOf(f, S) \in Nat
    BY <1>6, <2>2, FS_Subset, SumNat
  <2> QED BY <2>1, <2>3 DEF Share
<1>8. ASSUME NEW H \in Nat PROVE Near(n * Share(View, Procs) - n * Share(View, Procs), n, n * H)
  <2>1. PICK x, y \in Nat : x = n * Share(View, Procs) /\ y = n * H
    BY <1>7
  <2>2. x - x = 0
    OBVIOUS
  <2>3. -(Slack(n) * y) <= 0 /\ 0 <= Slack(n) * y
    BY DEF Slack
  <2> QED BY <2>1, <2>2, <2>3 DEF Near
<1> QED BY <1>3, <1>4, <1>5, <1>8 DEF LoadInv

LEMMA LoadIsBalanced == Types /\ HandshakeInv /\ DoneInv /\ LoadInv => LoadBalanced
<1> SUFFICES ASSUME Types, HandshakeInv, DoneInv, LoadInv PROVE LoadBalanced
  OBVIOUS
<1> SUFFICES ASSUME \A q \in Procs : pc[q] = "done", NEW p \in Procs
             PROVE  2 * (NProcs * WeightOf(Held(p)) - WeightOf(AllDots))
                      \in -5 * NProcs * Largest(AllDots) .. 5 * NProcs * Largest(AllDots)
  BY DEF LoadBalanced
<1>1. /\ \A q \in Procs : \A j \in DOMAIN dots[q] : <<q, 0, j>> \in Slots /\ DotAt(<<q, 0, j>>) = dots[q][j]
      /\ \A s \in Slots : /\ s = <<s[1], 0, s[3]>> /\ s[1] \in Procs /\ s[3] \in DOMAIN dots[s[1]]
                          /\ DotAt(s) = dots[s[1]][s[3]]
  BY FinalSlots
<1>2. /\ \A d \in AllDots : d = <<d[1], d[2]>> /\ d[1] \in Procs /\ d[2] \in DOMAIN dots[d[1]]
      /\ \A q \in Procs : \A j \in DOMAIN dots[q] : <<q, j>> \in AllDots /\ Dot(<<q, j>>) = dots[q][j]
  BY DotsFinite
<1>3. DOMAIN View.in = Slots /\ \A s \in Slots : View.in[s] = DotAt(s) /\ View.to[s] = s[1]
  <2>1. \A s \in Slots : DestOf(s) = s[1]
    <3> SUFFICES ASSUME NEW s \in Slots PROVE DestOf(s) = s[1]
      OBVIOUS
    <3>1. s = <<s[1], 0, s[3]>> /\ pc[s[1]] = "done"
      BY <1>1
    <3>2. s[2] = 0
      BY <3>1
    <3> QED BY <3>1, <3>2 DEF DestOf
  <2> QED BY <2>1, SlotsFinite DEF ViewSound
<1>4. PICK H \in Nat : H = Largest(AllDots) /\ \A d \in AllDots : Dot(d).wt <= H
  BY LargestFacts
<1>5. NoHeavier(View, H)
  <2> SUFFICES ASSUME NEW s \in Slots PROVE DotAt(s).wt <= H
    BY <1>3 DEF NoHeavier
  <2>1. s[1] \in Procs /\ s[3] \in DOMAIN dots[s[1]] /\ DotAt(s) = dots[s[1]][s[3]]
    BY <1>1
  <2>2. PICK q, j : q = s[1] /\ j = s[3]
    OBVIOUS
  <2>3. PICK d \in AllDots : d = <<q, j>> /\ Dot(d) = dots[q][j]
    BY <1>2, <2>1, <2>2
  <2>4. Dot(d).wt <= H
    BY <1>4
  <2> QED BY <2>1, <2>2, <2>3, <2>4
<1>6. Group(p) = {p} /\ Cardinality({p}) = 1
  <2>1. part[p].lo = part[p].hi /\ pc[p] = "done"
    BY DEF DoneInv
  <2>2. Part(p) = {p}
    BY <2>1, PartFacts DEF Part, HandshakeInv, Types
  <2> QED BY <2>1, <2>2, FS_Singleton DEF Group, Rests
<1>7. ASSUME NEW G, G \subseteq Procs, NEW D, D = {d \in AllDots : d[1] \in G}
      PROVE  Share(View, G) = WeightOf(D) /\ WeightOf(D) \in Nat
  <2>1. PICK S : S = Going(View, G)
    OBVIOUS
  <2>2. S \subseteq Slots /\ \A s \in Slots : s \in S <=> s[1] \in G
    BY <1>3, <2>1 DEF Going
  <2>3. D \subseteq AllDots
    BY <1>7
  <2>4. \A s \in S : s = <<s[1], 0, s[3]>> /\ <<s[1], s[3]>> \in D
    <3> SUFFICES ASSUME NEW s \in S PROVE s = <<s[1], 0, s[3]>> /\ <<s[1], s[3]>> \in D
      OBVIOUS
    <3>1. s \in Slots /\ s = <<s[1], 0, s[3]>> /\ s[1] \in G /\ s[1] \in Procs /\ s[3] \in DOMAIN dots[s[1]]
      BY <1>1, <2>2
    <3>2. <<s[1], s[3]>> \in AllDots
      BY <1>2, <3>1
    <3> QED BY <1>7, <3>1, <3>2
  <2>5. \A d \in D : <<d[1], 0, d[2]>> \in S
    <3> SUFFICES ASSUME NEW d \in D PROVE <<d[1], 0, d[2]>> \in S
      OBVIOUS
    <3>1. d[1] \in G /\ d[1] \in Procs /\ d[2] \in DOMAIN dots[d[1]]
      BY <1>2, <1>7
    <3>2. PICK s \in Slots : s = <<d[1], 0, d[2]>>
      BY <1>1, <3>1
    <3>3. s[1] = d[1]
      BY <3>2
    <3> QED BY <2>2, <3>1, <3>2, <3>3
  <2>6. SumOf(WtIn(View), S) = WeightOf(D) /\ SumOf(WtIn(View), S) \in Nat
    BY <2>2, <2>3, <2>4, <2>5, SlotWeights
  <2> QED BY <2>1, <2>6 DEF Share
<1>8. Share(View, {p}) = WeightOf(Held(p)) /\ WeightOf(Held(p)) \in Nat
  <2>1. Held(p) = {d \in AllDots : d[1] \in {p}}
    <3>1. \A d \in Held(p) : d \in AllDots /\ d[1] = p
      BY DEF Held, AllDots
    <3>2. \A d \in AllDots : d[1] = p => d \in Held(p)
      BY <1>2 DEF Held
    <3> QED BY <3>1, <3>2
  <2>2. PICK D, G : D = Held(p) /\ G = {p}
    OBVIOUS
  <2>3. Share(View, G) = WeightOf(D) /\ WeightOf(D) \in Nat
    BY <1>7, <2>1, <2>2
  <2> QED BY <2>2, <2>3
<1>9. Share(View, Procs) = WeightOf(AllDots) /\ WeightOf(AllDots) \in Nat
  <2>1. AllDots = {d \in AllDots : d[1] \in Procs}
    BY <1>2
  <2>2. PICK D, G : D = AllDots /\ G = Procs
    OBVIOUS
  <2>3. Share(View, G) = WeightOf(D) /\ WeightOf(D) \in Nat
    BY <1>7, <2>1, <2>2
  <2> QED BY <2>2, <2>3
<1>10. PICK N, a, w \in Nat : N = NProcs /\ a = WeightOf(Held(p)) /\ w = WeightOf(AllDots)
  BY <1>8, <1>9 DEF Types, PartsType
<1>11. Near(N * a - 1 * w, 1, N * H)
  BY <1>5, <1>6, <1>8, <1>9, <1>10 DEF LoadInv
<1>12. PICK K, x \in Int : K = N * H /\ x = N * a - w
  OBVIOUS
<1>13. -(5 * K) <= 2 * x /\ 2 * x <= 5 * K
  BY <1>11, <1>12 DEF Near, Slack
<1>14. -5 * N * H = -(5 * K) /\ 5 * N * H = 5 * K
  BY <1>12
<1>15. 2 * x \in -(5 * K) .. 5 * K
  BY <1>13
<1> QED BY <1>4, <1>10, <1>12, <1>14, <1>15

(* What every step keeps.                                                  *)
BalanceInv == Types /\ HandshakeInv /\ OwnersInv /\ SearchInv /\ BoxInv /\ LoadInv /\ DoneInv

LEMMA BalanceInit == Init => BalanceInv
<1>1. Init => DoneInv
  BY DEF Init, DoneInv
<1> QED BY <1>1, HandshakeInit, OwnersInit, BoxInit, LoadInit DEF BalanceInv

LEMMA BalanceStep == BalanceInv /\ [Next]_vars => BalanceInv'
<1> SUFFICES ASSUME Types, HandshakeInv, OwnersInv, SearchInv, BoxInv, LoadInv, DoneInv, [Next]_vars
             PROVE  Types' /\ HandshakeInv' /\ OwnersInv' /\ SearchInv' /\ BoxInv' /\ LoadInv' /\ DoneInv'
  BY DEF BalanceInv
<1>1. SidesInv
  BY DEF OwnersInv
<1>2. Types' /\ HandshakeInv'
  BY HandshakeStep
<1> QED BY <1>1, <1>2, OwnersStep, SearchStep, BoxStep, LoadStep, DoneStep

LEMMA Balancing == Spec => []BalanceInv
BY BalanceInit, BalanceStep, PTL DEF Spec

(* rcb.cpp:236-247, 282-288: in every search of every run the lower half   *)
(* misses its share of the weight by no more than the largest weight of a  *)
(* dot, and the cut lies between the halves, whatever is guessed and       *)
(* however the ties lie.                                                   *)
THEOREM HalvesAreBalanced == Spec => []HalvesBalanced
<1>1. BalanceInv => HalvesBalanced
  BY HalvedIsBalanced DEF BalanceInv
<1> QED BY <1>1, Balancing, PTL

(* RCB::check and invert, fix_balance.cpp:270-275: in the end each dot is  *)
(* on one process, within its box, and where the process that it came from *)
(* believes it to be; the number of those that have moved is right.        *)
THEOREM OwnersAreKnown == Spec => []OwnersKnown
<1>1. BalanceInv => OwnersKnown
  BY KnownIsOwned DEF BalanceInv
<1> QED BY <1>1, Balancing, PTL

(* However many levels the recursion of RCB::compute has, what the cuts    *)
(* are off does not add up: a process is off its share of the whole by no  *)
(* more than two and a half of the largest weights.                        *)
THEOREM LoadsAreBalanced == Spec => []LoadBalanced
<1>1. BalanceInv => LoadBalanced
  BY LoadIsBalanced DEF BalanceInv
<1> QED BY <1>1, Balancing, PTL
=============================================================================
