------------------------ MODULE ParticleMoveProofs ------------------------
(***************************************************************************)
(* For every box, decomposition, cutoff and set of particles:              *)
(*   1. the types of the state of a move, that every process always knows  *)
(*      the neighbors of its cells, and that no process hands a particle   *)
(*      to itself.  The last needs the geometry of ghost cells: a particle *)
(*      is handed on in a cell whose neighbor is unknown, and such a cell  *)
(*      is nobody's own.  It is about boxes: the part of the extended box  *)
(*      around an owned cell overlaps the cell across each of its faces,   *)
(*      and at the end of a periodic box the cutoff, or the nudge, reaches *)
(*      around it;                                                         *)
(*   2. that a particle is in one place only: every action carries at most *)
(*      one, or renames a whole list.  Then where it lies, by its place,   *)
(*      and that the particle array and the migration list are long enough;*)
(*   3. how far two processes can be apart without a barrier: one migration*)
(*      at most, and both take the same migration for the last of a move;  *)
(*   4. that a particle stays on the way on which a single process would   *)
(*      move it, and is not lost, so that the moves of all processes are   *)
(*      together the serial move.                                          *)
(***************************************************************************)
EXTENDS ParticleMove, TLAPS, WellFoundedInduction, FiniteSetTheorems

(* A set of natural numbers has a least element.                           *)
LEMMA LeastNat ==
    ASSUME NEW S, S \subseteq Nat, S # {}
    PROVE  \E x \in S : \A y \in S : x <= y
<1>1. PICK x \in S : \A y \in S : ~ (<<y, x>> \in OpToRel(<, Nat))
  BY NatLessThanWellFounded, WFMin, Zenon
<1>2. \A y \in S : ~ (y < x)
  BY <1>1, Zenon DEF OpToRel
<1> QED BY <1>2

(* Min and Max of bounded sets are what their names say.                   *)
LEMMA MinOfNats ==
    ASSUME NEW S, S \subseteq Nat, S # {}
    PROVE  Min(S) \in S /\ \A y \in S : Min(S) <= y
BY LeastNat DEF Min

LEMMA MaxOfBounded ==
    ASSUME NEW m \in Nat, NEW S, S \subseteq 0 .. m, S # {}
    PROVE  Max(S) \in S /\ \A y \in S : Max(S) >= y
<1> DEFINE T == {m - x : x \in S}
<1>1. T \subseteq Nat
  OBVIOUS
<1>2. T # {}
  OBVIOUS
<1>3. PICK t \in T : \A u \in T : t <= u
  <2> HIDE DEF T
  <2> QED BY <1>1, <1>2, LeastNat
<1>4. PICK x \in S : t = m - x
  OBVIOUS
<1>5. \A y \in S : x >= y
  <2> SUFFICES ASSUME NEW y \in S PROVE x >= y
    OBVIOUS
  <2>1. m - y \in T
    OBVIOUS
  <2>2. m - x <= m - y
    BY <1>3, <1>4, <2>1
  <2>3. x \in Int /\ y \in Int
    OBVIOUS
  <2> QED BY <2>2, <2>3
<1> QED BY <1>5 DEF Max

LEMMA MinOfTwo ==
    ASSUME NEW a \in Int, NEW b \in Int
    PROVE  Min({a, b}) = IF a <= b THEN a ELSE b
<1> DEFINE m == IF a <= b THEN a ELSE b
<1>1. m \in {a, b} /\ \A y \in {a, b} : m <= y
  OBVIOUS
<1>2. \A x \in {a, b} : (\A y \in {a, b} : x <= y) => x = m
  OBVIOUS
<1> QED BY <1>1, <1>2 DEF Min

LEMMA MaxOfTwo ==
    ASSUME NEW a \in Int, NEW b \in Int
    PROVE  Max({a, b}) = IF a >= b THEN a ELSE b
<1> DEFINE m == IF a >= b THEN a ELSE b
<1>1. m \in {a, b} /\ \A y \in {a, b} : m >= y
  OBVIOUS
<1>2. \A x \in {a, b} : (\A y \in {a, b} : x >= y) => x = m
  OBVIOUS
<1> QED BY <1>1, <1>2 DEF Max

(* The bounding box of a process lies in the box and holds its cells.      *)
LEMMA BoundingBox ==
    ASSUME NEW own \in Owners, NEW p \in Proc, NEW c \in Owned(own, p)
    PROVE  /\ BBox(own, p).lo \in 0 .. 2 * (c - 1)
           /\ BBox(own, p).hi \in 2 * c .. 2 * NCells
<1> USE SizesAssumption DEF Width, Span
<1>0. c \in Cells
  BY DEF Owned
<1>1. PICK los : los = {Span(k).lo : k \in Owned(own, p)}
  OBVIOUS
<1>2. PICK his : his = {Span(k).hi : k \in Owned(own, p)}
  OBVIOUS
<1>3. los \subseteq Nat /\ 2 * (c - 1) \in los
  BY <1>1 DEF Owned, Cells
<1>4. his \subseteq 0 .. 2 * NCells /\ 2 * c \in his
  BY <1>2 DEF Owned, Cells
<1>5. Min(los) \in Nat /\ Min(los) <= 2 * (c - 1)
  BY <1>3, MinOfNats
<1>6. Max(his) \in 0 .. 2 * NCells /\ Max(his) >= 2 * c
  <2>1. 2 * NCells \in Nat
    OBVIOUS
  <2>2. his # {}
    BY <1>4
  <2>3. Max(his) \in his /\ \A y \in his : Max(his) >= y
    BY <2>1, <2>2, <1>4, MaxOfBounded
  <2> QED BY <2>3, <1>4
<1>7. c \in Int
  BY <1>0 DEF Cells
<1>8. BBox(own, p) = [lo |-> Min(los), hi |-> Max(his)]
  BY <1>1, <1>2 DEF BBox
<1> QED BY <1>5, <1>6, <1>7, <1>8

(* Intersect on boxes of integers, in plain numbers.                       *)
LEMMA IntersectInNumbers ==
    ASSUME NEW a, NEW b,
           a.lo \in Int, a.hi \in Int, b.lo \in Int, b.hi \in Int
    PROVE  /\ Intersect(a, b).lo = IF a.lo >= b.lo THEN a.lo ELSE b.lo
           /\ Intersect(a, b).hi = IF a.hi <= b.hi THEN a.hi ELSE b.hi
<1>1. Intersect(a, b).lo = Max({a.lo, b.lo}) /\ Intersect(a, b).hi = Min({a.hi, b.hi})
  BY DEF Intersect
<1> QED BY <1>1, MaxOfTwo, MinOfTwo

(* The part of the extended box with shift i, in plain numbers.            *)
LEMMA PartInNumbers ==
    ASSUME NEW own \in Owners, NEW p \in Proc, NEW i \in -1 .. 1,
           Extended(own, p).lo \in Int, Extended(own, p).hi \in Int
    PROVE  LET H == 2 * NCells
               l == Extended(own, p).lo + i * H
               h == Extended(own, p).hi + i * H
           IN /\ Part(own, p, i).lo = IF l >= 0 THEN l ELSE 0
              /\ Part(own, p, i).hi = IF h <= H THEN h ELSE H
<1> DEFINE H == 2 * NCells
           s == Shifted(Extended(own, p), i)
<1>1. H \in Int /\ i * H \in Int
  BY SizesAssumption
<1>2. Box.lo = 0 /\ Box.hi = H
  BY DEF Box, Width
<1>3. s.lo = Extended(own, p).lo + i * H /\ s.hi = Extended(own, p).hi + i * H
  BY <1>2 DEF Shifted
<1>4. s.lo \in Int /\ s.hi \in Int
  BY <1>1, <1>3
<1>5. Part(own, p, i) = Intersect(s, Box)
  BY DEF Part
<1> HIDE DEF H, s
<1>6. /\ Part(own, p, i).lo = IF s.lo >= 0 THEN s.lo ELSE 0
      /\ Part(own, p, i).hi = IF s.hi <= H THEN s.hi ELSE H
  BY <1>1, <1>2, <1>4, <1>5, IntersectInNumbers
<1> QED BY <1>3, <1>6 DEF H

(* The extended box spans every owned cell, and at the end of a periodic   *)
(* box it reaches beyond it.                                               *)
LEMMA ExtendedBox ==
    ASSUME NEW own \in Owners, NEW p \in Proc, NEW c \in Owned(own, p), Cutoff >= 0
    PROVE  /\ Extended(own, p).lo \in Int /\ Extended(own, p).lo <= 2 * (c - 1)
           /\ Extended(own, p).hi \in Int /\ Extended(own, p).hi >= 2 * c
           /\ Periodic /\ c = 1 => Extended(own, p).lo <= -1
           /\ Periodic /\ c = NCells => Extended(own, p).hi >= 2 * NCells + 1
<1> DEFINE bb == BBox(own, p)
           ext == [lo |-> bb.lo - Cutoff - Nudge(bb.lo = Box.lo),
                   hi |-> bb.hi + Cutoff + Nudge(bb.hi = Box.hi)]
<1> USE SizesAssumption, CutoffAssumption
<1>1. c \in 1 .. NCells
  BY DEF Owned, Cells
<1>2. bb.lo \in 0 .. 2 * (c - 1) /\ bb.hi \in 2 * c .. 2 * NCells
  BY BoundingBox
<1>3. Box.lo = 0 /\ Box.hi = 2 * NCells
  BY DEF Box, Width
<1>4. \A e \in BOOLEAN : Nudge(e) \in {0, 1}
  BY DEF Nudge, Epsilon
<1>5. ext.lo = bb.lo - Cutoff - Nudge(bb.lo = 0) /\ ext.hi = bb.hi + Cutoff + Nudge(bb.hi = 2 * NCells)
  BY <1>3
<1>6. Nudge(bb.lo = 0) \in {0, 1} /\ Nudge(bb.hi = 2 * NCells) \in {0, 1}
  BY <1>4
<1>7. Extended(own, p) = IF Periodic THEN ext ELSE Intersect(ext, Box)
  BY DEF Extended
<1> HIDE DEF bb, ext
<1>8. /\ ext.lo \in Int /\ ext.lo <= 2 * (c - 1)
      /\ ext.hi \in Int /\ ext.hi >= 2 * c
  BY <1>1, <1>2, <1>5, <1>6
<1>9. CASE Periodic
  <2>1. c = 1 => bb.lo = 0
    BY <1>2
  <2>2. c = NCells => bb.hi = 2 * NCells
    BY <1>1, <1>2
  <2>3. bb.lo = 0 => Cutoff + Nudge(bb.lo = 0) >= 1
    BY <1>9, <1>6 DEF Nudge, Epsilon
  <2>4. bb.hi = 2 * NCells => Cutoff + Nudge(bb.hi = 2 * NCells) >= 1
    BY <1>9, <1>6 DEF Nudge, Epsilon
  <2>5. c = 1 => ext.lo <= -1
    BY <1>1, <1>2, <1>5, <1>6, <2>1, <2>3
  <2>6. c = NCells => ext.hi >= 2 * NCells + 1
    BY <1>1, <1>2, <1>5, <1>6, <2>2, <2>4
  <2> QED BY <1>7, <1>8, <1>9, <2>5, <2>6
<1>10. CASE ~Periodic
  <2>1. /\ Extended(own, p).lo = IF ext.lo >= 0 THEN ext.lo ELSE 0
        /\ Extended(own, p).hi = IF ext.hi <= 2 * NCells THEN ext.hi ELSE 2 * NCells
    BY <1>3, <1>7, <1>8, <1>10, IntersectInNumbers
  <2> QED BY <1>1, <1>8, <1>10, <2>1
<1> QED BY <1>9, <1>10

(* A cell that reaches a part of the extended box is not unknown.          *)
LEMMA TouchedByPart ==
    ASSUME NEW own \in Owners, NEW p \in Proc, NEW n \in Cells, NEW i \in -1 .. 1,
           i = 0 \/ Periodic,
           Part(own, p, i).lo \in Int, Part(own, p, i).hi \in Int,
           Part(own, p, i).lo < Part(own, p, i).hi,
           Part(own, p, i).lo <= 2 * n, 2 * (n - 1) <= Part(own, p, i).hi
    PROVE  Touching(own, p, n) # {}
<1> DEFINE piece == Part(own, p, i)
<1>1. i \in Parts(own, p)
  BY DEF Parts
<1>2. Span(n).lo = 2 * (n - 1) /\ Span(n).hi = 2 * n
  BY DEF Span, Width
<1>3. Span(n).lo \in Int /\ Span(n).hi \in Int
  BY <1>2, SizesAssumption DEF Cells
<1>4. /\ Intersect(Span(n), piece).lo = IF Span(n).lo >= piece.lo THEN Span(n).lo ELSE piece.lo
      /\ Intersect(Span(n), piece).hi = IF Span(n).hi <= piece.hi THEN Span(n).hi ELSE piece.hi
  BY <1>3, IntersectInNumbers
<1>5. Overlaps(Span(n), piece)
  BY <1>2, <1>3, <1>4 DEF Overlaps, Cells
<1> QED BY <1>1, <1>5 DEF Touching

(* The cell across a face of an owned cell overlaps a part of the box.     *)
LEMMA NeighborTouched ==
    ASSUME NEW own \in Owners, NEW p \in Proc, NEW c \in Owned(own, p), Cutoff >= 0,
           NEW d \in {-1, 1}, Neighbor(c, d) # 0
    PROVE  Touching(own, p, Neighbor(c, d)) # {}
<1> DEFINE n == Neighbor(c, d)
           P(i) == Part(own, p, i)
           H == 2 * NCells
<1> USE SizesAssumption
<1>1. c \in 1 .. NCells
  BY DEF Owned, Cells
<1>2. /\ Extended(own, p).lo \in Int /\ Extended(own, p).lo <= 2 * (c - 1)
      /\ Extended(own, p).hi \in Int /\ Extended(own, p).hi >= 2 * c
  BY ExtendedBox
<1>4. CASE c + d \in Cells
  <2>1. n = c + d /\ n \in 1 .. NCells
    BY <1>4 DEF Neighbor, Cells
  <2>2. 0 * H = 0
    OBVIOUS
  <2>3. /\ P(0).lo = IF Extended(own, p).lo >= 0 THEN Extended(own, p).lo ELSE 0
        /\ P(0).hi = IF Extended(own, p).hi <= H THEN Extended(own, p).hi ELSE H
    BY <1>2, <2>2, PartInNumbers
  <2> HIDE DEF P, n
  <2>4. /\ P(0).lo \in Int /\ P(0).lo <= 2 * (c - 1)
        /\ P(0).hi \in Int /\ P(0).hi >= 2 * c
    BY <1>1, <1>2, <2>3
  <2>5. P(0).lo < P(0).hi /\ P(0).lo <= 2 * n /\ 2 * (n - 1) <= P(0).hi
    BY <1>1, <2>1, <2>4
  <2>6. Touching(own, p, n) # {}
    BY <2>1, <2>4, <2>5, TouchedByPart DEF P, Cells
  <2> QED BY <2>6 DEF n
<1>5. CASE c + d \notin Cells /\ d = 1
  <2>1. Periodic /\ c = NCells /\ n = 1
    BY <1>1, <1>5 DEF Neighbor, Cells
  <2>2. Extended(own, p).hi >= H + 1
    BY <2>1, ExtendedBox
  <2>3. /\ P(-1).lo = IF Extended(own, p).lo - H >= 0 THEN Extended(own, p).lo - H ELSE 0
        /\ P(-1).hi = IF Extended(own, p).hi - H <= H THEN Extended(own, p).hi - H ELSE H
    BY <1>2, PartInNumbers
  <2> HIDE DEF P, n
  <2>4. P(-1).lo = 0 /\ P(-1).hi \in Int /\ P(-1).hi >= 1
    BY <1>2, <2>1, <2>2, <2>3
  <2>5. P(-1).lo < P(-1).hi /\ P(-1).lo <= 2 * n /\ 2 * (n - 1) <= P(-1).hi
    BY <1>1, <2>1, <2>4
  <2>6. Touching(own, p, n) # {}
    BY <1>1, <2>1, <2>4, <2>5, TouchedByPart DEF P, Cells
  <2> QED BY <2>6 DEF n
<1>6. CASE c + d \notin Cells /\ d = -1
  <2>1. Periodic /\ c = 1 /\ n = NCells
    BY <1>1, <1>6 DEF Neighbor, Cells
  <2>2. Extended(own, p).lo <= -1
    BY <2>1, ExtendedBox
  <2>3. /\ P(1).lo = IF Extended(own, p).lo + H >= 0 THEN Extended(own, p).lo + H ELSE 0
        /\ P(1).hi = IF Extended(own, p).hi + H <= H THEN Extended(own, p).hi + H ELSE H
    BY <1>2, PartInNumbers
  <2> HIDE DEF P, n
  <2>4. P(1).lo \in Int /\ P(1).lo <= H - 1 /\ P(1).hi = H
    BY <1>2, <2>1, <2>2, <2>3
  <2>5. P(1).lo < P(1).hi /\ P(1).lo <= 2 * n /\ 2 * (n - 1) <= P(1).hi
    BY <1>1, <2>1, <2>4
  <2>6. Touching(own, p, n) # {}
    BY <1>1, <2>1, <2>4, <2>5, TouchedByPart DEF P, Cells
  <2> QED BY <2>6 DEF n
<1> QED BY <1>4, <1>5, <1>6

(* Grid::find_neighbors never finds an owned cell without a neighbor: a    *)
(* process knows the cells across the faces of the cells it owns.          *)
THEOREM NeighborsKnown == \A own \in Owners : OwnedNeighborsKnown(own)
<1> SUFFICES ASSUME NEW own \in Owners, NEW c \in Cells, NEW d \in {-1, 1},
                    Neighbor(c, d) # 0
             PROVE  Known(own, own[c], Neighbor(c, d))
  BY DEF OwnedNeighborsKnown
<1> DEFINE p == own[c]
<1>1. p \in Proc
  BY DEF Owners
<1>2. c \in Owned(own, p)
  BY DEF Owned
<1>3. Cutoff >= 0 => Touching(own, p, Neighbor(c, d)) # {}
  <2> HIDE DEF p
  <2> QED BY <1>1, <1>2, NeighborTouched
<1>4. Owned(own, p) # {}
  BY <1>2
<1> HIDE DEF p
<1>5. Halo(own, p, Neighbor(c, d)) # "unknown"
  BY <1>3, <1>4, CutoffAssumption DEF Halo
<1> QED BY <1>5 DEF Known, p

-----------------------------------------------------------------------------
GridInv == /\ owner \in Owners
           /\ halo = [p \in Proc |-> [c \in Cells |-> Halo(owner, p, c)]]

\* A process that moves is in one of its half timesteps.
Unfinished == \A p \in Proc : pc[p] # "idle" => half[p] < NHalves

\* What is on mlist for others is in a cell of one of them.
NotToSelf == \A p \in Proc : \A a \in leaving[p] : a.flag # "discard" => owner[a.icell] # p

MoveInv == TypeOK /\ Unfinished /\ GridInv /\ NotToSelf

\* What came to an unknown cell was at a face with a cell behind it.
ExitsInside ==
    \A p \in Proc : \A a \in leaving[p] :
        a.flag = "exit" => Neighbor(a.icell, Direction(a.v)) # 0

-----------------------------------------------------------------------------
(* What the helpers of the actions return.                                 *)
LEMMA NeighborIsCell ==
    ASSUME NEW c \in Cells, NEW d \in {-1, 1}
    PROVE  Neighbor(c, d) \in Cells \union {0}
BY SizesAssumption DEF Neighbor, Cells

LEMMA AcrossIsCell ==
    ASSUME WalkerType, NEW p \in Proc
    PROVE  /\ Across(p) = Neighbor(icell[p], Direction(part[p].v))
           /\ Direction(part[p].v) \in {-1, 1}
           /\ Across(p) # 0 => Across(p) \in Cells
<1>1. Direction(part[p].v) \in {-1, 1}
  BY DEF Direction
<1>2. icell[p] \in Cells
  BY DEF WalkerType
<1> QED BY <1>1, <1>2, NeighborIsCell DEF Across

LEMMA CrossedType ==
    ASSUME NEW p \in Proc, part[p] \in Particles, part[p].dtremain > 0, Across(p) \in Cells
    PROVE  Crossed(p) \in Particles
<1>1. part[p].dtremain - 1 \in Nat
  BY DEF Particles
<1> QED BY <1>1 DEF Crossed, Particles

LEMMA PostType ==
    ASSUME NEW S, NEW box \in [Proc -> [Proc -> Seq(S)]], NEW p \in Proc,
           NEW value \in [Proc -> S]
    PROVE  Post(box, p, value) \in [Proc -> [Proc -> Seq(S)]]
<1>1. [q \in Proc |-> Append(box[p][q], value[q])] \in [Proc -> Seq(S)]
  OBVIOUS
<1> QED BY <1>1 DEF Post

LEMMA TakenType ==
    ASSUME NEW S, NEW box \in [Proc -> [Proc -> Seq(S)]], NEW p \in Proc, AllPosted(box, p)
    PROVE  /\ Taken(box, p) \in [Proc -> [Proc -> Seq(S)]]
           /\ \A q \in Proc : Head(box[q][p]) \in S
<1>1. \A q \in Proc : box[q][p] \in Seq(S) /\ box[q][p] # <<>>
  BY DEF AllPosted
<1>2. \A q \in Proc : Tail(box[q][p]) \in Seq(S) /\ Head(box[q][p]) \in S
  BY <1>1
<1>3. \A q \in Proc : [box[q] EXCEPT ![p] = Tail(@)] \in [Proc -> Seq(S)]
  BY <1>2
<1> QED BY <1>2, <1>3 DEF Taken

LEMMA IncomingType ==
    ASSUME MailType, NEW p \in Proc, AllPosted(batches, p)
    PROVE  Incoming(p) \in SUBSET Particles
<1>1. \A q \in Proc : Head(batches[q][p]) \in SUBSET Particles
  BY TakenType DEF MailType
<1> QED BY <1>1 DEF Incoming

(* Putting a particle on a list keeps the lists well typed ...             *)
LEMMA SettleType ==
    ASSUME ListsType, NEW p \in Proc, NEW a \in Particles, Settle(p, a)
    PROVE  kept' \in [Proc -> SUBSET Particles] /\ leaving' \in [Proc -> SUBSET Particles]
BY DEF ListsType, Settle

(* ... and mlist free of particles for this process, unless it is one.     *)
LEMMA SettleElsewhere ==
    ASSUME ListsType, NotToSelf, NEW p \in Proc, NEW a \in Particles, Settle(p, a),
           owner' = owner,
           a.flag \in {"keep", "discard"} \/ owner[a.icell] # p
    PROVE  NotToSelf'
<1> SUFFICES ASSUME NEW q \in Proc, NEW b \in leaving'[q], b.flag # "discard"
             PROVE  owner[b.icell] # q
  BY DEF NotToSelf
<1>1. b \in leaving[q] \/ (q = p /\ b = a /\ a.flag # "keep")
  BY DEF ListsType, Settle
<1> QED BY <1>1 DEF NotToSelf

-----------------------------------------------------------------------------
(* The initial state.                                                      *)
LEMMA MoveInit == Init => MoveInv
<1> SUFFICES ASSUME Init PROVE MoveInv
  OBVIOUS
<1>1. start \subseteq Particles /\ owner \in Owners
  BY StartsAssumption, DecompositionsAssumption DEF Init
<1>2. GridInv
  BY <1>1 DEF Init, GridInv
<1>3. ControlType /\ Unfinished
  BY HalvesAssumption DEF Init, ControlType, Places, Unfinished
<1>4. ListsType
  BY <1>1 DEF Init, ListsType
<1>5. WalkerType
  <2>1. 1 \in Cells
    BY SizesAssumption DEF Cells
  <2> QED BY <2>1 DEF Init, WalkerType
<1>6. MailType
  <2>1. <<>> \in Seq(BOOLEAN) /\ <<>> \in Seq(SUBSET Particles)
    OBVIOUS
  <2> QED BY <2>1 DEF Init, MailType
<1>7. ListsUsed /\ NotToSelf
  BY DEF Init, ListsUsed, NotToSelf
<1> QED BY <1>2, <1>3, <1>4, <1>5, <1>6, <1>7 DEF MoveInv, TypeOK

(* The grid is fixed during a run.                                         *)
LEMMA GridStep ==
    ASSUME GridInv, NEW p \in Proc, Step(p)
    PROVE  GridInv' /\ owner' = owner
<1>1. UNCHANGED grid
  BY DEF Step, StartMove, Skip, Jump, Pick, Interior, Cross, EnterEmpty, ExitUnknown, Outflow,
         Bounce, Destroy, Create, EndPass, EndOnlyPass, Reduced, Pack, Continue, EndHalf
<1> QED BY <1>1 DEF grid, GridInv

LEMMA ControlStep ==
    ASSUME TypeOK, Unfinished, NEW p \in Proc, Step(p)
    PROVE  ControlType' /\ Unfinished'
<1> USE HalvesAssumption DEF TypeOK, ControlType, Places, Unfinished, Go
<1>1. CASE StartMove(p)
  BY <1>1 DEF StartMove
<1>2. CASE Skip(p) \/ Jump(p) \/ Pick(p)
  BY <1>2 DEF Skip, Jump, Pick
<1>3. CASE Interior(p) \/ EnterEmpty(p) \/ ExitUnknown(p)
  BY <1>3 DEF Interior, EnterEmpty, ExitUnknown, Stop
<1>4. CASE Cross(p) \/ Bounce(p) \/ Create(p)
  BY <1>4 DEF Cross, Bounce, Create
<1>5. CASE Outflow(p) \/ Destroy(p)
  BY <1>5 DEF Outflow, Destroy, Discard, Stop
<1>6. CASE EndPass(p) \/ EndOnlyPass(p) \/ Reduced(p)
  BY <1>6 DEF EndPass, EndOnlyPass, Reduced, AnyEntryexit
<1>7. CASE Pack(p) \/ Continue(p)
  BY <1>7 DEF Pack, Continue
<1>8. CASE EndHalf(p)
  BY <1>8 DEF EndHalf
<1> QED BY <1>1, <1>2, <1>3, <1>4, <1>5, <1>6, <1>7, <1>8 DEF Step

(* Mail: what is posted is a vote or a set of particles.                   *)
LEMMA MailStep ==
    ASSUME TypeOK, NEW p \in Proc, Step(p)
    PROVE  MailType'
<1> USE DEF TypeOK, MailType
<1>1. CASE EndPass(p)
  <2>1. [q \in Proc |-> entryexit[p]] \in [Proc -> BOOLEAN]
    BY DEF ControlType
  <2> QED BY <1>1, <2>1, PostType DEF EndPass
<1>2. CASE Reduced(p)
  BY <1>2, TakenType DEF Reduced
<1>3. CASE Pack(p)
  <2>1. [q \in Proc |-> Sendbuf(p, q)] \in [Proc -> SUBSET Particles]
    BY DEF Sendbuf, ListsType
  <2> QED BY <1>3, <2>1, PostType DEF Pack
<1>4. CASE Continue(p) \/ EndHalf(p)
  <2>1. AllPosted(batches, p) /\ batches' = Taken(batches, p) /\ votes' = votes
    BY <1>4 DEF Continue, EndHalf, Unpack
  <2> QED BY <2>1, TakenType
<1>5. CASE ~(EndPass(p) \/ Reduced(p) \/ Pack(p) \/ Continue(p) \/ EndHalf(p))
  <2>1. UNCHANGED mail
    BY <1>5 DEF Step, StartMove, Skip, Jump, Pick, Interior, Cross, EnterEmpty, ExitUnknown,
                Outflow, Bounce, Destroy, Create, EndOnlyPass, mail
  <2> QED BY <2>1 DEF mail
<1> QED BY <1>1, <1>2, <1>3, <1>4, <1>5

(* The particle that a step puts on a list is one, and it is put on mlist  *)
(* only to be discarded or because another process owns the cell that it   *)
(* is stored in.                                                           *)
LEMMA SettledParticle ==
    ASSUME MoveInv, NEW p \in Proc,
           Jump(p) \/ Interior(p) \/ EnterEmpty(p) \/ ExitUnknown(p) \/ Outflow(p) \/ Destroy(p)
    PROVE  \E a \in Particles : /\ Settle(p, a)
                                /\ a.flag \in {"keep", "discard"} \/ owner[a.icell] # p
<1> USE DEF MoveInv, Go
<1>1. pc[p] = "walk" => part[p] \in Particles /\ icell[p] \in Cells
  BY DEF TypeOK, WalkerType
<1>2. Across(p) # 0 => Across(p) \in Cells
  BY AcrossIsCell DEF TypeOK
<1>3. CASE Jump(p)
  <2>1. PICK a \in todo[p] :
            /\ JumpCell(a) \in Cells
            /\ Settle(p, [a EXCEPT !.x = JumpCell(a), !.icell = JumpCell(a),
                                   !.flag = EndFlag(p, JumpCell(a))])
    BY <1>3 DEF Jump, CanJump
  <2> DEFINE c == JumpCell(a)
             b == [a EXCEPT !.x = c, !.icell = c, !.flag = EndFlag(p, c)]
  <2>2. a \in Particles
    BY DEF TypeOK, ListsType
  <2> HIDE DEF c
  <2>3. b \in Particles /\ b.icell = c /\ b.flag = EndFlag(p, c)
    BY <2>1, <2>2 DEF Particles, Flags, EndFlag, c
  <2> QED BY <2>1, <2>3 DEF EndFlag, c
<1>4. CASE Interior(p)
  <2> DEFINE b == [part[p] EXCEPT !.icell = icell[p], !.flag = EndFlag(p, icell[p])]
  <2>1. Settle(p, b) /\ pc[p] = "walk"
    BY <1>4 DEF Interior, Stop
  <2>2. b \in Particles /\ b.icell = icell[p] /\ b.flag = EndFlag(p, icell[p])
    BY <1>1, <2>1 DEF Particles, Flags, EndFlag
  <2> QED BY <2>1, <2>2 DEF EndFlag
<1>5. CASE EnterEmpty(p)
  <2> DEFINE c == Across(p)
             b == [Crossed(p) EXCEPT !.icell = c, !.flag = "entry"]
  <2>1. Settle(p, b) /\ pc[p] = "walk" /\ c # 0 /\ halo[p][c] = "empty" /\ part[p].dtremain > 0
    BY <1>5 DEF EnterEmpty, Stop, Walking
  <2> HIDE DEF c
  <2>2. c \in Cells
    BY <1>2, <2>1 DEF c
  <2>3. Crossed(p) \in Particles
    BY <1>1, <2>1, <2>2, CrossedType DEF c
  <2>4. b \in Particles /\ b.icell = c
    BY <2>2, <2>3 DEF Particles, Flags
  <2>5. Halo(owner, p, c) = "empty"
    BY <2>1, <2>2 DEF GridInv
  <2>6. owner[c] # p
    BY <2>5 DEF Halo
  <2> QED BY <2>1, <2>4, <2>6
<1>6. CASE ExitUnknown(p)
  <2> DEFINE b == [part[p] EXCEPT !.x = Uncollided(p), !.icell = icell[p], !.flag = "exit"]
  <2>1. Settle(p, b) /\ pc[p] = "walk" /\ Across(p) # 0 /\ halo[p][Across(p)] = "unknown"
    BY <1>6 DEF ExitUnknown, Stop, Walking
  <2>2. b \in Particles /\ b.icell = icell[p]
    BY <1>1, <2>1 DEF Particles, Flags, Uncollided
  <2>3. Halo(owner, p, Across(p)) = "unknown"
    BY <1>2, <2>1 DEF GridInv
  <2>4. owner[icell[p]] # p
    <3>1. OwnedNeighborsKnown(owner)
      BY NeighborsKnown DEF GridInv
    <3>2. /\ Across(p) = Neighbor(icell[p], Direction(part[p].v))
          /\ Direction(part[p].v) \in {-1, 1}
      BY AcrossIsCell DEF TypeOK
    <3>3. Known(owner, owner[icell[p]], Across(p))
      BY <1>1, <2>1, <3>1, <3>2 DEF OwnedNeighborsKnown
    <3> QED BY <2>3, <3>3 DEF Known
  <2> QED BY <2>1, <2>2, <2>4
<1>7. CASE Outflow(p) \/ Destroy(p)
  <2> DEFINE b == [part[p] EXCEPT !.icell = icell[p], !.flag = "discard"]
  <2>1. Settle(p, b) /\ pc[p] = "walk"
    BY <1>7 DEF Outflow, Destroy, Discard, Stop
  <2>2. b \in Particles /\ b.flag = "discard"
    BY <1>1, <2>1 DEF Particles, Flags
  <2> QED BY <2>1, <2>2
<1> QED BY <1>3, <1>4, <1>5, <1>6, <1>7

(* The velocity of a particle that is moved further is still one.          *)
LEMMA BouncedType ==
    ASSUME NEW a \in Particles, a.dtremain > 0
    PROVE  Bounced(a) \in Particles
<1>1. a.dtremain - 1 \in Nat /\ -a.v \in Int
  BY DEF Particles
<1> QED BY <1>1 DEF Bounced, Particles

LEMMA ListsStep ==
    ASSUME MoveInv, NEW p \in Proc, Step(p)
    PROVE  ListsType'
<1> USE DEF MoveInv, TypeOK, ListsType, Go
<1>1. CASE StartMove(p)
  BY <1>1 DEF StartMove
<1>2. CASE Skip(p)
  <2>1. PICK a \in todo[p] :
            /\ todo' = [todo EXCEPT ![p] = @ \ {a}]
            /\ kept' = [kept EXCEPT ![p] = @ \union {[a EXCEPT !.flag = "keep"]}]
            /\ leaving' = leaving
    BY <1>2 DEF Skip
  <2>2. [a EXCEPT !.flag = "keep"] \in Particles
    BY <2>1 DEF Particles, Flags
  <2> QED BY <2>1, <2>2
<1>3. CASE Jump(p) \/ Interior(p) \/ EnterEmpty(p) \/ ExitUnknown(p) \/ Outflow(p) \/ Destroy(p)
  <2>1. kept' \in [Proc -> SUBSET Particles] /\ leaving' \in [Proc -> SUBSET Particles]
    BY <1>3, SettledParticle, SettleType
  <2>2. todo' = todo \/ \E a \in todo[p] : todo' = [todo EXCEPT ![p] = @ \ {a}]
    BY <1>3 DEF Jump, Interior, EnterEmpty, ExitUnknown, Outflow, Destroy
  <2> QED BY <2>1, <2>2
<1>4. CASE Pick(p)
  BY <1>4 DEF Pick
<1>5. CASE Cross(p) \/ Bounce(p) \/ EndPass(p) \/ EndOnlyPass(p) \/ Reduced(p)
  BY <1>5 DEF Cross, Bounce, EndPass, EndOnlyPass, Reduced, lists
<1>6. CASE Create(p)
  <2>1. PICK id \in Ids : /\ todo' = [todo EXCEPT ![p] =
                                @ \union {[Bounced(part[p]) EXCEPT !.id = id, !.flag = "surf"]}]
                          /\ kept' = kept /\ leaving' = leaving
    BY <1>6 DEF Create
  <2>2. part[p] \in Particles /\ part[p].dtremain > 0
    BY <1>6 DEF Create, AtWall, Walking, WalkerType
  <2>3. [Bounced(part[p]) EXCEPT !.id = id, !.flag = "surf"] \in Particles
    BY <2>2, BouncedType DEF Particles, Flags
  <2> QED BY <2>1, <2>3
<1>7. CASE Pack(p)
  BY <1>7 DEF Pack
<1>8. CASE Continue(p) \/ EndHalf(p)
  <2>1. Incoming(p) \in SUBSET Particles
    BY <1>8, IncomingType DEF Continue, EndHalf, Unpack
  <2> QED BY <1>8, <2>1 DEF Continue, EndHalf, NextPass
<1> QED BY <1>1, <1>2, <1>3, <1>4, <1>5, <1>6, <1>7, <1>8 DEF Step

LEMMA WalkerStep ==
    ASSUME MoveInv, NEW p \in Proc, Step(p)
    PROVE  WalkerType'
<1> USE DEF MoveInv, TypeOK, WalkerType, ControlType
<1>1. 1 \in Cells
  BY SizesAssumption DEF Cells
<1>2. CASE Pick(p)
  <2>1. PICK a \in todo[p] :
            /\ part' = [part EXCEPT ![p] = [a EXCEPT !.flag = "keep", !.dtremain = Remaining(a)]]
            /\ icell' = [icell EXCEPT ![p] = a.icell]
            /\ pc' = [pc EXCEPT ![p] = "walk"]
    BY <1>2 DEF Pick, Go
  <2>2. a \in Particles
    BY DEF ListsType
  <2>3. Remaining(a) \in Nat
    BY <2>2, OptionsAssumption DEF Particles, Remaining, FacesOfMove, Abs
  <2>4. [a EXCEPT !.flag = "keep", !.dtremain = Remaining(a)] \in Particles /\ a.icell \in Cells
    BY <2>2, <2>3 DEF Particles, Flags
  <2> QED BY <2>1, <2>4
<1>3. CASE Interior(p) \/ EnterEmpty(p) \/ ExitUnknown(p) \/ Outflow(p) \/ Destroy(p)
  <2>1. /\ part' = [part EXCEPT ![p] = NoPart]
        /\ icell' = [icell EXCEPT ![p] = 1]
        /\ pc' = [pc EXCEPT ![p] = "pass"]
    BY <1>3 DEF Interior, EnterEmpty, ExitUnknown, Outflow, Destroy, Discard, Stop, Go
  <2> QED BY <1>1, <2>1
<1>4. CASE Cross(p)
  <2>1. part[p] \in Particles /\ part[p].dtremain > 0 /\ Across(p) \in Cells
    BY <1>4, AcrossIsCell DEF Cross, Walking
  <2>2. Crossed(p) \in Particles
    BY <2>1, CrossedType
  <2> QED BY <1>4, <2>1, <2>2 DEF Cross
<1>5. CASE Bounce(p) \/ Create(p)
  <2>1. part[p] \in Particles /\ part[p].dtremain > 0
    BY <1>5 DEF Bounce, Create, AtWall, Walking
  <2>2. Bounced(part[p]) \in Particles
    BY <2>1, BouncedType
  <2>3. part' = [part EXCEPT ![p] = Bounced(@)] /\ icell' = icell /\ pc' = pc
    BY <1>5 DEF Bounce, Create
  <2> QED BY <2>2, <2>3
<1>6. CASE StartMove(p) \/ Skip(p) \/ Jump(p) \/ EndPass(p) \/ EndOnlyPass(p)
           \/ Reduced(p) \/ Pack(p) \/ Continue(p) \/ EndHalf(p)
  <2>1. part' = part /\ icell' = icell
    BY <1>6 DEF StartMove, Skip, Jump, EndPass, EndOnlyPass, Reduced, Pack, Continue, EndHalf
  <2>2. \A q \in Proc : pc'[q] = "walk" => pc[q] = "walk"
    BY <1>6 DEF StartMove, Skip, Jump, EndPass, EndOnlyPass, Reduced, Pack, Continue, EndHalf, Go
  <2> QED BY <2>1, <2>2
<1> QED BY <1>2, <1>3, <1>4, <1>5, <1>6 DEF Step

LEMMA UsedStep ==
    ASSUME MoveInv, NEW p \in Proc, Step(p)
    PROVE  ListsUsed'
<1> USE DEF MoveInv, TypeOK, ListsUsed, ControlType, ListsType, Go
<1>1. CASE StartMove(p)
  BY <1>1 DEF StartMove
<1>2. CASE Skip(p) \/ Pick(p)
  BY <1>2 DEF Skip, Pick
<1>3. CASE Jump(p) \/ Interior(p) \/ EnterEmpty(p) \/ ExitUnknown(p) \/ Outflow(p) \/ Destroy(p)
  <2>1. pc' = [pc EXCEPT ![p] = "pass"]
    BY <1>3 DEF Jump, Interior, EnterEmpty, ExitUnknown, Outflow, Destroy, Discard, Stop
  <2>2. todo' = todo \/ \E a \in todo[p] : todo' = [todo EXCEPT ![p] = @ \ {a}]
    BY <1>3 DEF Jump, Interior, EnterEmpty, ExitUnknown, Outflow, Destroy
  <2>3. \A q \in Proc \ {p} : leaving'[q] = leaving[q]
    BY <1>3, SettledParticle DEF Settle
  <2> QED BY <2>1, <2>2, <2>3
<1>4. CASE Cross(p) \/ Bounce(p)
  BY <1>4 DEF Cross, Bounce, lists
<1>5. CASE Create(p)
  <2>1. pc[p] = "walk" /\ pc' = pc /\ leaving' = leaving
    BY <1>5 DEF Create, AtWall, Walking
  <2>2. \A q \in Proc \ {p} : todo'[q] = todo[q]
    BY <1>5 DEF Create
  <2> QED BY <2>1, <2>2
<1>6. CASE EndPass(p) \/ EndOnlyPass(p) \/ Reduced(p)
  BY <1>6 DEF EndPass, EndOnlyPass, Reduced, lists
<1>7. CASE Pack(p) \/ Continue(p) \/ EndHalf(p)
  BY <1>7 DEF Pack, Continue, EndHalf
<1> QED BY <1>1, <1>2, <1>3, <1>4, <1>5, <1>6, <1>7 DEF Step

LEMMA NotToSelfStep ==
    ASSUME MoveInv, NEW p \in Proc, Step(p)
    PROVE  NotToSelf'
<1>1. owner' = owner
  BY GridStep DEF MoveInv
<1>2. CASE Jump(p) \/ Interior(p) \/ EnterEmpty(p) \/ ExitUnknown(p) \/ Outflow(p) \/ Destroy(p)
  BY <1>1, <1>2, SettledParticle, SettleElsewhere DEF MoveInv, TypeOK
<1>3. CASE Pack(p)
  BY <1>1, <1>3 DEF Pack, MoveInv, TypeOK, ListsType, NotToSelf
<1>4. CASE StartMove(p) \/ Skip(p) \/ Pick(p) \/ Cross(p) \/ Bounce(p) \/ Create(p) \/ EndPass(p)
           \/ EndOnlyPass(p) \/ Reduced(p) \/ Continue(p) \/ EndHalf(p)
  <2>1. leaving' = leaving
    BY <1>4 DEF StartMove, Skip, Pick, Cross, Bounce, Create, EndPass, EndOnlyPass, Reduced,
                Continue, EndHalf, lists
  <2> QED BY <1>1, <2>1 DEF MoveInv, NotToSelf
<1> QED BY <1>2, <1>3, <1>4 DEF Step

-----------------------------------------------------------------------------
LEMMA MoveInductive == MoveInv /\ [Next]_vars => MoveInv'
<1> SUFFICES ASSUME MoveInv, [Next]_vars PROVE MoveInv'
  OBVIOUS
<1>1. ASSUME NEW p \in Proc, Step(p) PROVE MoveInv'
  <2>1. ControlType' /\ Unfinished'
    BY <1>1, ControlStep DEF MoveInv
  <2>2. ListsType' /\ WalkerType' /\ ListsUsed' /\ NotToSelf'
    BY <1>1, ListsStep, WalkerStep, UsedStep, NotToSelfStep
  <2>3. MailType'
    BY <1>1, MailStep DEF MoveInv
  <2>4. GridInv'
    BY <1>1, GridStep DEF MoveInv
  <2> QED BY <2>1, <2>2, <2>3, <2>4 DEF MoveInv, TypeOK
<1>2. CASE UNCHANGED vars
  BY <1>2 DEF vars, grid, lists, room, mail, MoveInv, TypeOK, ControlType, ListsType, WalkerType,
              MailType, ListsUsed, Unfinished, GridInv, NotToSelf
<1> QED BY <1>1, <1>2 DEF Next, Done

LEMMA MoveInvariant == Spec => []MoveInv
BY MoveInit, MoveInductive, PTL DEF Spec

(* The state of a move has its type, and the lists of a process are empty  *)
(* where its code has no use for them.                                     *)
THEOREM MoveTypeCorrect == Spec => []TypeOK
<1>1. MoveInv => TypeOK
  BY DEF MoveInv
<1> QED BY <1>1, MoveInvariant, PTL

LEMMA NeighborsKnownHere == MoveInv => NoUnknownNeighbors
<1> SUFFICES ASSUME GridInv, NEW c \in Cells, NEW d \in {-1, 1}, Neighbor(c, d) # 0
             PROVE  halo[owner[c]][Neighbor(c, d)] # "unknown"
  BY DEF MoveInv, NoUnknownNeighbors
<1>1. owner[c] \in Proc /\ Neighbor(c, d) \in Cells
  BY NeighborIsCell DEF GridInv, Owners
<1>2. Known(owner, owner[c], Neighbor(c, d))
  BY NeighborsKnown DEF GridInv, OwnedNeighborsKnown
<1> QED BY <1>1, <1>2 DEF Known, GridInv

(* No process owns a cell that has an unknown neighbor, so that a particle *)
(* which leaves the cells that a process knows has first left its own.     *)
THEOREM NoOwnedCellAtTheEdge == Spec => []NoUnknownNeighbors
BY NeighborsKnownHere, MoveInvariant, PTL

LEMMA ExitsInsideStep ==
    ASSUME MoveInv, ExitsInside, NEW p \in Proc, Step(p)
    PROVE  ExitsInside'
<1>0. leaving \in [Proc -> SUBSET Particles] /\ part \in [Proc -> Particles \union {NoPart}]
      /\ (pc[p] = "walk" => part[p] \in Particles)
  BY DEF MoveInv, TypeOK, ListsType, WalkerType
<1>1. ASSUME NEW a, Settle(p, a),
             a.flag = "exit" => Neighbor(a.icell, Direction(a.v)) # 0
      PROVE  ExitsInside'
  <2> SUFFICES ASSUME NEW q \in Proc, NEW b \in leaving'[q], b.flag = "exit"
               PROVE  Neighbor(b.icell, Direction(b.v)) # 0
    BY DEF ExitsInside
  <2>1. b \in leaving[q] \/ b = a
    BY <1>0, <1>1 DEF Settle
  <2> QED BY <1>1, <2>1 DEF ExitsInside
<1>2. CASE Jump(p)
  <2>1. PICK a \in todo[p] :
            /\ JumpCell(a) \in Cells
            /\ Settle(p, [a EXCEPT !.x = JumpCell(a), !.icell = JumpCell(a),
                                   !.flag = EndFlag(p, JumpCell(a))])
    BY <1>2 DEF Jump, CanJump
  <2>2. a \in Particles
    BY DEF MoveInv, TypeOK, ListsType
  <2>3. [a EXCEPT !.x = JumpCell(a), !.icell = JumpCell(a),
                  !.flag = EndFlag(p, JumpCell(a))].flag \in {"keep", "done"}
    BY <2>2 DEF Particles, EndFlag
  <2> QED BY <1>1, <2>1, <2>3
<1>3. CASE Interior(p)
  <2> DEFINE b == [part[p] EXCEPT !.icell = icell[p], !.flag = EndFlag(p, icell[p])]
  <2>1. Settle(p, b) /\ part[p] \in Particles
    BY <1>0, <1>3 DEF Interior, Stop
  <2>2. b.flag \in {"keep", "done"}
    BY <2>1 DEF Particles, EndFlag
  <2> QED BY <1>1, <2>1, <2>2
<1>4. CASE EnterEmpty(p)
  <2> DEFINE b == [Crossed(p) EXCEPT !.icell = Across(p), !.flag = "entry"]
  <2>1. Settle(p, b) /\ part[p] \in Particles
    BY <1>0, <1>4 DEF EnterEmpty, Stop, Go
  <2>2. b.flag = "entry"
    BY <2>1 DEF Crossed, Particles
  <2> QED BY <1>1, <2>1, <2>2
<1>5. CASE ExitUnknown(p)
  <2> DEFINE b == [part[p] EXCEPT !.x = Uncollided(p), !.icell = icell[p], !.flag = "exit"]
  <2>1. Settle(p, b) /\ part[p] \in Particles /\ Across(p) # 0
    BY <1>0, <1>5 DEF ExitUnknown, Stop, Go
  <2>2. b.icell = icell[p] /\ b.v = part[p].v
    BY <2>1 DEF Particles
  <2> QED BY <1>1, <2>1, <2>2 DEF Across
<1>6. CASE Outflow(p) \/ Destroy(p)
  <2> DEFINE b == [part[p] EXCEPT !.icell = icell[p], !.flag = "discard"]
  <2>1. Settle(p, b) /\ part[p] \in Particles
    BY <1>0, <1>6 DEF Outflow, Destroy, Discard, Stop, Go
  <2>2. b.flag = "discard"
    BY <2>1 DEF Particles
  <2> QED BY <1>1, <2>1, <2>2
<1>7. CASE Pack(p)
  <2>1. leaving' = [leaving EXCEPT ![p] = {}]
    BY <1>7 DEF Pack
  <2> QED BY <1>0, <2>1 DEF ExitsInside
<1>8. CASE StartMove(p) \/ Skip(p) \/ Pick(p) \/ Cross(p) \/ Bounce(p) \/ Create(p) \/ EndPass(p)
           \/ EndOnlyPass(p) \/ Reduced(p) \/ Continue(p) \/ EndHalf(p)
  <2>1. leaving' = leaving
    BY <1>8 DEF StartMove, Skip, Pick, Cross, Bounce, Create, EndPass, EndOnlyPass, Reduced,
                Continue, EndHalf, lists
  <2> QED BY <2>1 DEF ExitsInside
<1> QED BY <1>2, <1>3, <1>4, <1>5, <1>6, <1>7, <1>8 DEF Step

(* A particle is handed on to another process, and where the next cell is  *)
(* unknown, to one that knows it: what comes back to a process has moved.  *)
THEOREM HandedToWhoKnows == Spec => []HandedOn
<1>1. Init => ExitsInside
  BY DEF Init, ExitsInside
<1>2. MoveInv /\ ExitsInside => HandedOn
  <2> SUFFICES ASSUME MoveInv, ExitsInside, NEW p \in Proc, NEW a \in leaving[p]
               PROVE  /\ a.flag # "discard" => owner[a.icell] # p
                      /\ a.flag = "exit" =>
                           halo[owner[a.icell]][Neighbor(a.icell, Direction(a.v))] # "unknown"
    BY DEF HandedOn
  <2>1. a.flag # "discard" => owner[a.icell] # p
    BY DEF MoveInv, NotToSelf
  <2>2. a.icell \in Cells /\ Direction(a.v) \in {-1, 1}
    BY DEF MoveInv, TypeOK, ListsType, Particles, Direction
  <2>3. a.flag = "exit" => Neighbor(a.icell, Direction(a.v)) # 0
    BY DEF ExitsInside
  <2> QED BY <2>1, <2>2, <2>3, NeighborsKnownHere DEF NoUnknownNeighbors
<1>3. MoveInv /\ ExitsInside /\ [Next]_vars => ExitsInside'
  <2>1. UNCHANGED vars /\ ExitsInside => ExitsInside'
    BY DEF vars, lists, ExitsInside
  <2> QED BY <2>1, ExitsInsideStep DEF Next, Done
<1> QED BY <1>1, <1>2, <1>3, MoveInvariant, PTL DEF Spec

-----------------------------------------------------------------------------
(* Part 2.  The places where a particle can be: the lists of a process,    *)
(* its walk, and the messages.                                             *)
InTodo(p) == <<"todo", p, p, 0>>
InKept(p) == <<"kept", p, p, 0>>
OnMlist(p) == <<"mlist", p, p, 0>>
InWalk(p) == <<"walk", p, p, 0>>
InMail(p, q, k) == <<"mail", p, q, k>>

PlacesOf == {InTodo(p) : p \in Proc} \union {InKept(p) : p \in Proc} \union
            {OnMlist(p) : p \in Proc} \union {InWalk(p) : p \in Proc} \union
            {InMail(p, q, k) : p \in Proc, q \in Proc, k \in Nat \ {0}}

Content == [s \in PlacesOf |->
              IF s[1] = "todo" THEN todo[s[2]]
              ELSE IF s[1] = "kept" THEN kept[s[2]]
              ELSE IF s[1] = "mlist" THEN leaving[s[2]]
              ELSE IF s[1] = "walk" THEN Moving(s[2])
              ELSE IF s[4] <= Len(batches[s[2]][s[3]]) THEN batches[s[2]][s[3]][s[4]] ELSE {}]

LEMMA ContentOf ==
    /\ \A p \in Proc : /\ InTodo(p) \in PlacesOf /\ Content[InTodo(p)] = todo[p]
                       /\ InKept(p) \in PlacesOf /\ Content[InKept(p)] = kept[p]
                       /\ OnMlist(p) \in PlacesOf /\ Content[OnMlist(p)] = leaving[p]
                       /\ InWalk(p) \in PlacesOf /\ Content[InWalk(p)] = Moving(p)
    /\ \A p, q \in Proc, k \in Nat \ {0} :
          /\ InMail(p, q, k) \in PlacesOf
          /\ Content[InMail(p, q, k)] = IF k <= Len(batches[p][q]) THEN batches[p][q][k] ELSE {}
BY DEF Content, PlacesOf, InTodo, InKept, OnMlist, InWalk, InMail

LEMMA ContentThen ==
    /\ \A p \in Proc : /\ Content'[InTodo(p)] = todo'[p]
                       /\ Content'[InKept(p)] = kept'[p]
                       /\ Content'[OnMlist(p)] = leaving'[p]
                       /\ Content'[InWalk(p)] = Moving(p)'
    /\ \A p, q \in Proc, k \in Nat \ {0} :
          Content'[InMail(p, q, k)] = IF k <= Len(batches'[p][q]) THEN batches'[p][q][k] ELSE {}
BY DEF Content, PlacesOf, InTodo, InKept, OnMlist, InWalk, InMail

LEMMA PlaceIs ==
    ASSUME NEW s \in PlacesOf
    PROVE  \/ \E p \in Proc : s \in {InTodo(p), InKept(p), OnMlist(p), InWalk(p)}
           \/ \E p, q \in Proc, k \in Nat \ {0} : s = InMail(p, q, k)
BY DEF PlacesOf

LEMMA PlacesDiffer ==
    /\ \A p, q : /\ InTodo(p) = InTodo(q) => p = q
                 /\ InKept(p) = InKept(q) => p = q
                 /\ OnMlist(p) = OnMlist(q) => p = q
                 /\ InWalk(p) = InWalk(q) => p = q
                 /\ InTodo(p) # InKept(q) /\ InTodo(p) # OnMlist(q) /\ InTodo(p) # InWalk(q)
                 /\ InKept(p) # OnMlist(q) /\ InKept(p) # InWalk(q) /\ OnMlist(p) # InWalk(q)
    /\ \A p, q, r, k : InMail(q, r, k) \notin {InTodo(p), InKept(p), OnMlist(p), InWalk(p)}
    /\ \A p, q, r, s, k, l : InMail(p, q, k) = InMail(r, s, l) => p = r /\ q = s /\ k = l
BY DEF InTodo, InKept, OnMlist, InWalk, InMail

(* Particle a in place f becomes b in place t, and nothing else happens.   *)
Carry(f, a, t, b) ==
    /\ f \in PlacesOf /\ t \in PlacesOf /\ a \in Content[f] /\ b.id = a.id
    /\ \A s \in PlacesOf : \A c :
          c \in Content'[s] <=> \/ s = t /\ c = b
                                \/ c \in Content[s] /\ ~(s = f /\ c = a)

Alone == \A s, t \in PlacesOf : \A a \in Content[s], b \in Content[t] :
            a.id = b.id => s = t /\ a = b

LEMMA CarryAlone ==
    ASSUME Alone, NEW f, NEW a, NEW t, NEW b, Carry(f, a, t, b)
    PROVE  Alone'
<1> SUFFICES ASSUME NEW r \in PlacesOf, NEW s \in PlacesOf, NEW c \in Content'[r], NEW d \in Content'[s],
                    c.id = d.id
             PROVE  r = s /\ c = d
  BY DEF Alone, PlacesOf
<1>1. f \in PlacesOf /\ t \in PlacesOf /\ a \in Content[f] /\ b.id = a.id
  BY DEF Carry
<1>2. (r = t /\ c = b) \/ (c \in Content[r] /\ ~(r = f /\ c = a))
  BY DEF Carry
<1>3. (s = t /\ d = b) \/ (d \in Content[s] /\ ~(s = f /\ d = a))
  BY DEF Carry
<1> QED BY <1>1, <1>2, <1>3 DEF Alone

LEMMA StayAlone ==
    ASSUME Alone,
           \A s \in PlacesOf : \A c \in Content'[s] : \E r \in PlacesOf : c \in Content[r],
           \A s, t \in PlacesOf : \A c : c \in Content'[s] /\ c \in Content'[t] => s = t
    PROVE  Alone'
<1> SUFFICES ASSUME NEW s \in PlacesOf, NEW t \in PlacesOf, NEW c \in Content'[s], NEW d \in Content'[t],
                    c.id = d.id
             PROVE  s = t /\ c = d
  BY DEF Alone, PlacesOf
<1>1. PICK r \in PlacesOf : c \in Content[r]
  OBVIOUS
<1>2. PICK u \in PlacesOf : d \in Content[u]
  OBVIOUS
<1>3. c = d
  BY <1>1, <1>2 DEF Alone
<1> QED BY <1>3

(* Two sets of particles that are lists of the same process.               *)
LEMMA ListCarry ==
    ASSUME NEW p \in Proc, NEW f, NEW a, NEW t, NEW b,
           a \in Content[f], b.id = a.id,
           batches' = batches,
           todo \in [Proc -> SUBSET Particles], todo' \in [Proc -> SUBSET Particles], 
           \A q \in Proc \ {p} : /\ todo'[q] = todo[q] /\ kept'[q] = kept[q] 
                                 /\ leaving'[q] = leaving[q] /\ Moving(q)' = Moving(q),
           f \in {InTodo(p), InWalk(p)}, t \in {InKept(p), OnMlist(p), InWalk(p)},
           \A c : c \in todo'[p] <=> c \in todo[p] /\ ~(f = InTodo(p) /\ c = a),
           \A c : c \in Moving(p)' <=> (t = InWalk(p) /\ c = b) \/ (c \in Moving(p) /\ ~(f = InWalk(p) /\ c = a)),
           \A c : c \in kept'[p] <=> (t = InKept(p) /\ c = b) \/ c \in kept[p],
           \A c : c \in leaving'[p] <=> (t = OnMlist(p) /\ c = b) \/ c \in leaving[p]
    PROVE  Carry(f, a, t, b)
<1>1. f \in PlacesOf /\ t \in PlacesOf
  BY ContentOf
<1>2. ASSUME NEW s \in PlacesOf, NEW c
      PROVE  c \in Content'[s] <=> \/ s = t /\ c = b
                                   \/ c \in Content[s] /\ ~(s = f /\ c = a)
  <2>1. CASE \E q \in Proc : s = InTodo(q)
    BY <2>1, ContentOf, ContentThen, PlacesDiffer
  <2>2. CASE \E q \in Proc : s = InKept(q)
    BY <2>2, ContentOf, ContentThen, PlacesDiffer
  <2>3. CASE \E q \in Proc : s = OnMlist(q)
    BY <2>3, ContentOf, ContentThen, PlacesDiffer
  <2>4. CASE \E q \in Proc : s = InWalk(q)
    BY <2>4, ContentOf, ContentThen, PlacesDiffer
  <2>5. CASE \E q, r \in Proc, k \in Nat \ {0} : s = InMail(q, r, k)
    BY <2>5, ContentOf, ContentThen, PlacesDiffer
  <2> QED BY <2>1, <2>2, <2>3, <2>4, <2>5, PlaceIs
<1> QED BY <1>1, <1>2 DEF Carry

\* Where Settle puts a particle.
SettledIn(p, b) == IF b.flag = "keep" THEN InKept(p) ELSE OnMlist(p)

LEMMA SkipCarries ==
    ASSUME MoveInv, NEW p \in Proc, Skip(p)
    PROVE  \E a \in todo[p] : Arrived(p, a) /\ Carry(InTodo(p), a, InKept(p), [a EXCEPT !.flag = "keep"])
<1>1. PICK a \in todo[p] :
        /\ Arrived(p, a) /\ pc[p] = "pass" /\ pc' = [pc EXCEPT ![p] = "pass"]
        /\ todo' = [todo EXCEPT ![p] = @ \ {a}]
        /\ kept' = [kept EXCEPT ![p] = @ \union {[a EXCEPT !.flag = "keep"]}]
        /\ UNCHANGED <<batches, part, leaving>>
  BY DEF Skip, mail, Go
<1> DEFINE b == [a EXCEPT !.flag = "keep"]
<1>2. todo \in [Proc -> SUBSET Particles] /\ kept \in [Proc -> SUBSET Particles] /\ pc \in [Proc -> Places]
  BY DEF MoveInv, TypeOK, ListsType, ControlType
<1>3. a \in Content[InTodo(p)] /\ b.id = a.id
  <2>1. a \in Particles
    BY <1>2
  <2> QED BY <2>1, ContentOf DEF Particles
<1> HIDE DEF b
<1>4. \A q \in Proc : Moving(q)' = Moving(q)
  BY <1>1, <1>2 DEF Moving
<1>5. todo' \in [Proc -> SUBSET Particles]
  BY <1>1, <1>2
<1>6. Carry(InTodo(p), a, InKept(p), b)
  <2> DEFINE f == InTodo(p)
             t == InKept(p)
  <2>1. f # InWalk(p) /\ t # InWalk(p) /\ t # OnMlist(p)
    BY PlacesDiffer
  <2>2. /\ \A c : c \in todo'[p] <=> c \in todo[p] /\ ~(f = InTodo(p) /\ c = a)
        /\ \A c : c \in kept'[p] <=> (t = InKept(p) /\ c = b) \/ c \in kept[p]
    BY <1>1, <1>2 DEF b
  <2>3. \A q \in Proc \ {p} : todo'[q] = todo[q] /\ kept'[q] = kept[q] /\ leaving'[q] = leaving[q]
    BY <1>1, <1>2
  <2>4. a \in Content[f]
    BY <1>3
  <2> HIDE DEF f, t
  <2>5. f \in {InTodo(p), InWalk(p)} /\ t \in {InKept(p), OnMlist(p), InWalk(p)}
    BY DEF f, t
  <2>6. Carry(f, a, t, b)
    BY <1>1, <1>2, <1>3, <1>4, <1>5, <2>1, <2>2, <2>3, <2>4, <2>5, ListCarry
  <2> QED BY <2>6 DEF f, t
<1> QED BY <1>1, <1>6 DEF b

LEMMA SettleCarries ==
    ASSUME MoveInv, NEW p \in Proc, NEW f, NEW a, NEW b, Settle(p, b), b.id = a.id,
           f \in {InTodo(p), InWalk(p)}, a \in Content[f],
           batches' = batches, todo' \in [Proc -> SUBSET Particles],
           \A q \in Proc \ {p} : todo'[q] = todo[q] /\ Moving(q)' = Moving(q),
           \A c : c \in todo'[p] <=> c \in todo[p] /\ ~(f = InTodo(p) /\ c = a),
           \A c : c \in Moving(p)' <=> c \in Moving(p) /\ ~(f = InWalk(p) /\ c = a)
    PROVE  Carry(f, a, SettledIn(p, b), b)
<1>1. /\ todo \in [Proc -> SUBSET Particles] /\ kept \in [Proc -> SUBSET Particles]
      /\ leaving \in [Proc -> SUBSET Particles]
  BY DEF MoveInv, TypeOK, ListsType
<1> DEFINE t == SettledIn(p, b)
<1>2. t \in {InKept(p), OnMlist(p), InWalk(p)} /\ t # InWalk(p)
  BY PlacesDiffer DEF SettledIn
<1>3. \A q \in Proc \ {p} : kept'[q] = kept[q] /\ leaving'[q] = leaving[q]
  BY <1>1 DEF Settle
<1>4. /\ \A c : c \in kept'[p] <=> (t = InKept(p) /\ c = b) \/ c \in kept[p]
      /\ \A c : c \in leaving'[p] <=> (t = OnMlist(p) /\ c = b) \/ c \in leaving[p]
  BY <1>1, PlacesDiffer DEF Settle, SettledIn
<1> HIDE DEF t
<1>5. Carry(f, a, t, b)
  BY <1>1, <1>2, <1>3, <1>4, ListCarry
<1> QED BY <1>5 DEF t

LEMMA JumpCarries ==
    ASSUME MoveInv, NEW p \in Proc, Jump(p)
    PROVE  \E a \in todo[p], b \in Particles :
              /\ ~Arrived(p, a) /\ CanJump(p, a)
              /\ b = [a EXCEPT !.x = JumpCell(a), !.icell = JumpCell(a), !.flag = EndFlag(p, JumpCell(a))]
              /\ Carry(InTodo(p), a, SettledIn(p, b), b)
<1>1. PICK a \in todo[p] :
        /\ ~Arrived(p, a) /\ CanJump(p, a) /\ pc[p] = "pass" /\ pc' = [pc EXCEPT ![p] = "pass"]
        /\ todo' = [todo EXCEPT ![p] = @ \ {a}]
        /\ Settle(p, [a EXCEPT !.x = JumpCell(a), !.icell = JumpCell(a),
                               !.flag = EndFlag(p, JumpCell(a))])
        /\ UNCHANGED <<batches, part>>
  BY DEF Jump, mail, Go
<1> DEFINE c == JumpCell(a)
           b == [a EXCEPT !.x = c, !.icell = c, !.flag = EndFlag(p, c)]
<1>2. todo \in [Proc -> SUBSET Particles] /\ pc \in [Proc -> Places]
  BY DEF MoveInv, TypeOK, ListsType, ControlType
<1>3. c \in Cells
  BY <1>1 DEF CanJump
<1>4. Settle(p, b)
  BY <1>1
<1>5. b \in Particles /\ b.id = a.id
  <2> HIDE DEF c
  <2>1. a \in Particles
    BY <1>2
  <2> QED BY <1>3, <2>1 DEF Particles, Flags, EndFlag
<1>6. a \in Content[InTodo(p)]
  BY ContentOf
<1>7. b = [a EXCEPT !.x = JumpCell(a), !.icell = JumpCell(a), !.flag = EndFlag(p, JumpCell(a))]
  OBVIOUS
<1> HIDE DEF b, c
<1>8. \A q \in Proc : Moving(q)' = Moving(q)
  BY <1>1, <1>2 DEF Moving
<1>9. todo' \in [Proc -> SUBSET Particles]
  BY <1>1, <1>2
<1>10. Carry(InTodo(p), a, SettledIn(p, b), b)
  <2> DEFINE f == InTodo(p)
  <2>1. f # InWalk(p) /\ f \in {InTodo(p), InWalk(p)}
    BY PlacesDiffer
  <2>2. \A d : d \in todo'[p] <=> d \in todo[p] /\ ~(f = InTodo(p) /\ d = a)
    BY <1>1, <1>2
  <2>3. \A q \in Proc \ {p} : todo'[q] = todo[q]
    BY <1>1, <1>2
  <2>4. a \in Content[f]
    BY <1>6
  <2> HIDE DEF f
  <2>5. Carry(f, a, SettledIn(p, b), b)
    BY <1>1, <1>4, <1>5, <1>8, <1>9, <2>1, <2>2, <2>3, <2>4, SettleCarries
  <2> QED BY <2>5 DEF f
<1> QED BY <1>1, <1>5, <1>7, <1>10

LEMMA PickCarries ==
    ASSUME MoveInv, NEW p \in Proc, Pick(p)
    PROVE  \E a \in todo[p] :
              /\ ~Arrived(p, a) /\ ~CanJump(p, a)
              /\ icell' = [icell EXCEPT ![p] = a.icell]
              /\ Carry(InTodo(p), a, InWalk(p), [a EXCEPT !.flag = "keep", !.dtremain = Remaining(a)])
<1>1. PICK a \in todo[p] :
        /\ ~Arrived(p, a) /\ ~CanJump(p, a) /\ pc[p] = "pass" /\ pc' = [pc EXCEPT ![p] = "walk"]
        /\ todo' = [todo EXCEPT ![p] = @ \ {a}]
        /\ part' = [part EXCEPT ![p] = [a EXCEPT !.flag = "keep", !.dtremain = Remaining(a)]]
        /\ icell' = [icell EXCEPT ![p] = a.icell]
        /\ UNCHANGED <<batches, kept, leaving>>
  BY DEF Pick, mail, Go
<1> DEFINE b == [a EXCEPT !.flag = "keep", !.dtremain = Remaining(a)]
<1>2. /\ todo \in [Proc -> SUBSET Particles] /\ pc \in [Proc -> Places]
      /\ part \in [Proc -> Particles \union {NoPart}]
  BY DEF MoveInv, TypeOK, ListsType, ControlType, WalkerType
<1>3. a \in Content[InTodo(p)] /\ b.id = a.id
  <2>1. a \in Particles
    BY <1>2
  <2> QED BY <2>1, ContentOf DEF Particles
<1>4. part' = [part EXCEPT ![p] = b]
  BY <1>1
<1> HIDE DEF b
<1>5. Moving(p)' = {b} /\ Moving(p) = {} /\ \A q \in Proc \ {p} : Moving(q)' = Moving(q)
  BY <1>1, <1>2, <1>4 DEF Moving
<1>6. todo' \in [Proc -> SUBSET Particles]
  BY <1>1, <1>2
<1>7. Carry(InTodo(p), a, InWalk(p), b)
  <2> DEFINE f == InTodo(p)
             t == InWalk(p)
  <2>1. f # InWalk(p) /\ t # InKept(p) /\ t # OnMlist(p)
    BY PlacesDiffer
  <2>2. \A c : c \in todo'[p] <=> c \in todo[p] /\ ~(f = InTodo(p) /\ c = a)
    BY <1>1, <1>2
  <2>3. \A q \in Proc \ {p} : todo'[q] = todo[q] /\ kept'[q] = kept[q] /\ leaving'[q] = leaving[q]
    BY <1>1, <1>2
  <2>4. a \in Content[f]
    BY <1>3
  <2>5. t = InWalk(p)
    OBVIOUS
  <2> HIDE DEF f, t
  <2>6. f \in {InTodo(p), InWalk(p)} /\ t \in {InKept(p), OnMlist(p), InWalk(p)}
    BY DEF f, t
  <2>7. Carry(f, a, t, b)
    BY <1>1, <1>2, <1>3, <1>5, <1>6, <2>1, <2>2, <2>3, <2>4, <2>5, <2>6, ListCarry
  <2> QED BY <2>7 DEF f, t
<1> QED BY <1>1, <1>7 DEF b

LEMMA StopCarries ==
    ASSUME MoveInv, NEW p \in Proc, NEW b, Stop(p, b), b.id = part[p].id, UNCHANGED <<todo, batches>>
    PROVE  Carry(InWalk(p), part[p], SettledIn(p, b), b)
<1>1. pc[p] = "walk" /\ pc' = [pc EXCEPT ![p] = "pass"] /\ Settle(p, b) /\ part' = [part EXCEPT ![p] = NoPart]
  BY DEF Stop, Go
<1>2. /\ todo \in [Proc -> SUBSET Particles] /\ pc \in [Proc -> Places]
      /\ part \in [Proc -> Particles \union {NoPart}]
  BY DEF MoveInv, TypeOK, ListsType, ControlType, WalkerType
<1>3. Moving(p) = {part[p]} /\ Moving(p)' = {} /\ \A q \in Proc \ {p} : Moving(q)' = Moving(q)
  BY <1>1, <1>2 DEF Moving
<1>4. todo' \in [Proc -> SUBSET Particles] /\ \A q \in Proc : todo'[q] = todo[q]
  BY <1>2
<1> DEFINE f == InWalk(p)
           a == part[p]
<1>5. f # InTodo(p) /\ f \in {InTodo(p), InWalk(p)} /\ a \in Content[f] /\ b.id = a.id /\ f = InWalk(p)
  BY <1>3, PlacesDiffer, ContentOf
<1>6. \A c : c \in Moving(p)' <=> c \in Moving(p) /\ ~(f = InWalk(p) /\ c = a)
  BY <1>3
<1> HIDE DEF f, a
<1>7. Carry(f, a, SettledIn(p, b), b)
  BY <1>1, <1>3, <1>4, <1>5, <1>6, SettleCarries
<1> QED BY <1>7 DEF f, a

LEMMA WalkCarries ==
    ASSUME MoveInv, NEW p \in Proc, NEW b, pc[p] = "walk", pc' = pc, part' = [part EXCEPT ![p] = b],
           b.id = part[p].id, UNCHANGED <<todo, kept, leaving, batches>>
    PROVE  Carry(InWalk(p), part[p], InWalk(p), b)
<1>1. /\ todo \in [Proc -> SUBSET Particles] /\ part \in [Proc -> Particles \union {NoPart}]
  BY DEF MoveInv, TypeOK, ListsType, WalkerType
<1>2. Moving(p) = {part[p]} /\ Moving(p)' = {b} /\ \A q \in Proc \ {p} : Moving(q)' = Moving(q)
  BY <1>1 DEF Moving
<1> DEFINE f == InWalk(p)
           a == part[p]
<1>3. /\ f # InTodo(p) /\ f # InKept(p) /\ f # OnMlist(p) /\ f = InWalk(p)
      /\ f \in {InTodo(p), InWalk(p)} /\ f \in {InKept(p), OnMlist(p), InWalk(p)} 
      /\ a \in Content[f] /\ b.id = a.id
  BY <1>2, PlacesDiffer, ContentOf
<1>4. \A c : c \in Moving(p)' <=> (f = InWalk(p) /\ c = b) \/ (c \in Moving(p) /\ ~(f = InWalk(p) /\ c = a))
  BY <1>2
<1>5. todo' \in [Proc -> SUBSET Particles] /\ \A q \in Proc : todo'[q] = todo[q]
  BY <1>1
<1> HIDE DEF f, a
<1>6. Carry(f, a, f, b)
  BY <1>1, <1>2, <1>3, <1>4, <1>5, ListCarry
<1> QED BY <1>6 DEF f, a

(* What is in the messages when a process has packed or unpacked.          *)
LEMMA PostedMail ==
    ASSUME MailType, NEW p \in Proc, NEW value \in [Proc -> SUBSET Particles],
           batches' = Post(batches, p, value)
    PROVE  \A q, r \in Proc, k \in Nat \ {0} :
              Content'[InMail(q, r, k)] =
                 IF q = p /\ k = Len(batches[p][r]) + 1 THEN value[r] ELSE Content[InMail(q, r, k)]
<1> SUFFICES ASSUME NEW q \in Proc, NEW r \in Proc, NEW k \in Nat \ {0}
             PROVE  Content'[InMail(q, r, k)] =
                 IF q = p /\ k = Len(batches[p][r]) + 1 THEN value[r] ELSE Content[InMail(q, r, k)]
  OBVIOUS
<1>1. batches \in [Proc -> [Proc -> Seq(SUBSET Particles)]]
  BY DEF MailType
<1>2. batches' = [batches EXCEPT ![p] = [s \in Proc |-> Append(batches[p][s], value[s])]]
  BY <1>1 DEF Post
<1>3. CASE q # p
  <2>1. batches'[q][r] = batches[q][r]
    BY <1>1, <1>2, <1>3
  <2> QED BY <1>3, <2>1, ContentOf, ContentThen
<1>4. CASE q = p
  <2>1. batches'[q][r] = Append(batches[p][r], value[r])
    BY <1>1, <1>2, <1>4
  <2>2. batches[p][r] \in Seq(SUBSET Particles) /\ value[r] \in SUBSET Particles
    BY <1>1
  <2>3. Len(batches'[q][r]) = Len(batches[p][r]) + 1 /\ Len(batches[p][r]) \in Nat
    BY <2>1, <2>2
  <2>4. k = Len(batches[p][r]) + 1 => batches'[q][r][k] = value[r]
    BY <2>1, <2>2
  <2>5. k <= Len(batches[p][r]) => batches'[q][r][k] = batches[p][r][k]
    BY <2>1, <2>2
  <2>6. CASE k <= Len(batches[p][r])
    BY <1>4, <2>3, <2>5, <2>6, ContentOf, ContentThen
  <2>7. CASE k = Len(batches[p][r]) + 1
    BY <1>4, <2>3, <2>4, <2>7, ContentThen
  <2>8. CASE k > Len(batches[p][r]) + 1
    BY <1>4, <2>3, <2>8, ContentOf, ContentThen
  <2> QED BY <2>3, <2>6, <2>7, <2>8
<1> QED BY <1>3, <1>4

LEMMA TakenMail ==
    ASSUME MailType, NEW p \in Proc, AllPosted(batches, p), batches' = Taken(batches, p)
    PROVE  \A q, r \in Proc, k \in Nat \ {0} :
              Content'[InMail(q, r, k)] =
                 IF r = p THEN Content[InMail(q, r, k + 1)] ELSE Content[InMail(q, r, k)]
<1> SUFFICES ASSUME NEW q \in Proc, NEW r \in Proc, NEW k \in Nat \ {0}
             PROVE  Content'[InMail(q, r, k)] =
                 IF r = p THEN Content[InMail(q, r, k + 1)] ELSE Content[InMail(q, r, k)]
  OBVIOUS
<1>1. batches \in [Proc -> [Proc -> Seq(SUBSET Particles)]]
  BY DEF MailType
<1>2. batches' = [s \in Proc |-> [batches[s] EXCEPT ![p] = Tail(batches[s][p])]]
  BY <1>1 DEF Taken
<1>3. CASE r # p
  <2>1. batches'[q][r] = batches[q][r]
    BY <1>1, <1>2, <1>3
  <2> QED BY <1>3, <2>1, ContentOf, ContentThen
<1>4. CASE r = p
  <2>1. batches'[q][r] = Tail(batches[q][p])
    BY <1>1, <1>2, <1>4
  <2>2. batches[q][p] \in Seq(SUBSET Particles) /\ batches[q][p] # <<>>
    BY <1>1 DEF AllPosted
  <2>3. Len(batches'[q][r]) = Len(batches[q][p]) - 1 /\ Len(batches[q][p]) \in Nat
    BY <2>1, <2>2
  <2>4. k <= Len(batches'[q][r]) => batches'[q][r][k] = batches[q][p][k + 1]
    BY <2>1, <2>2
  <2>5. k + 1 \in Nat \ {0}
    OBVIOUS
  <2> QED BY <1>4, <2>3, <2>4, <2>5, ContentOf, ContentThen
<1> QED BY <1>3, <1>4

LEMMA IncomingIs ==
    ASSUME MailType, NEW p \in Proc, AllPosted(batches, p), NEW c
    PROVE  c \in Incoming(p) <=> \E q \in Proc : c \in Content[InMail(q, p, 1)]
<1>1. \A q \in Proc : Content[InMail(q, p, 1)] = Head(batches[q][p])
  <2> SUFFICES ASSUME NEW q \in Proc PROVE Content[InMail(q, p, 1)] = Head(batches[q][p])
    OBVIOUS
  <2>1. batches[q][p] \in Seq(SUBSET Particles) /\ batches[q][p] # <<>>
    BY DEF MailType, AllPosted
  <2>2. Len(batches[q][p]) >= 1 /\ batches[q][p][1] = Head(batches[q][p])
    BY <2>1
  <2>3. Content[InMail(q, p, 1)] = IF 1 <= Len(batches[q][p]) THEN batches[q][p][1] ELSE {}
    BY ContentOf
  <2> QED BY <2>2, <2>3
<1> QED BY <1>1 DEF Incoming

(* What is where after the steps that move whole lists.                    *)
LEMMA StartedContent ==
    ASSUME MoveInv, NEW p \in Proc, StartMove(p)
    PROVE  /\ Content'[InTodo(p)] = Content[InKept(p)]
           /\ Content'[InKept(p)] = {}
           /\ \A s \in PlacesOf \ {InTodo(p), InKept(p)} : Content'[s] = Content[s]
<1>1. /\ pc[p] = "idle" /\ pc' = [pc EXCEPT ![p] = "pass"]
      /\ todo' = [todo EXCEPT ![p] = kept[p]] /\ kept' = [kept EXCEPT ![p] = {}]
      /\ UNCHANGED <<leaving, part, batches>>
  BY DEF StartMove, Go, mail
<1>2. /\ todo \in [Proc -> SUBSET Particles] /\ kept \in [Proc -> SUBSET Particles]
      /\ pc \in [Proc -> Places]
  BY DEF MoveInv, TypeOK, ListsType, ControlType
<1>3. \A q \in Proc : Moving(q)' = Moving(q)
  BY <1>1, <1>2 DEF Moving
<1>4. \A q \in Proc \ {p} : todo'[q] = todo[q] /\ kept'[q] = kept[q]
  BY <1>1, <1>2
<1>5. todo'[p] = kept[p] /\ kept'[p] = {}
  BY <1>1, <1>2
<1>6. ASSUME NEW s \in PlacesOf \ {InTodo(p), InKept(p)} PROVE Content'[s] = Content[s]
  <2>1. CASE \E q \in Proc : s \in {InTodo(q), InKept(q)}
    BY <1>4, <2>1, ContentOf, ContentThen
  <2>2. CASE \E q \in Proc : s \in {OnMlist(q), InWalk(q)}
    BY <1>1, <1>3, <2>2, ContentOf, ContentThen
  <2>3. CASE \E q, r \in Proc, k \in Nat \ {0} : s = InMail(q, r, k)
    BY <1>1, <2>3, ContentOf, ContentThen
  <2> QED BY <2>1, <2>2, <2>3, PlaceIs
<1> QED BY <1>5, <1>6, ContentOf, ContentThen

LEMMA PackedContent ==
    ASSUME MoveInv, NEW p \in Proc, Pack(p)
    PROVE  /\ Content'[OnMlist(p)] = {}
           /\ \A q \in Proc : Content'[InMail(p, q, Len(batches[p][q]) + 1)] = Sendbuf(p, q)
           /\ \A s \in PlacesOf : s # OnMlist(p) /\ (\A q \in Proc : s # InMail(p, q, Len(batches[p][q]) + 1))
                 => Content'[s] = Content[s]
           /\ \A q \in Proc : Len(batches[p][q]) + 1 \in Nat \ {0}
<1>1. /\ pc[p] = "pack" /\ pc' = [pc EXCEPT ![p] = "unpack"]
      /\ batches' = Post(batches, p, [q \in Proc |-> Sendbuf(p, q)])
      /\ leaving' = [leaving EXCEPT ![p] = {}]
      /\ UNCHANGED <<todo, kept, part>>
  BY DEF Pack, Go
<1>2. /\ leaving \in [Proc -> SUBSET Particles]
      /\ pc \in [Proc -> Places]
  BY DEF MoveInv, TypeOK, ListsType, ControlType
<1>3. \A q \in Proc : Moving(q)' = Moving(q)
  BY <1>1, <1>2 DEF Moving
<1>4. \A q \in Proc \ {p} : leaving'[q] = leaving[q]
  BY <1>1, <1>2
<1>5. leaving'[p] = {}
  BY <1>1, <1>2
<1> DEFINE value == [q \in Proc |-> Sendbuf(p, q)]
<1>6. value \in [Proc -> SUBSET Particles] /\ \A q \in Proc : value[q] = Sendbuf(p, q)
  BY <1>2 DEF Sendbuf
<1>7. batches' = Post(batches, p, value)
  BY <1>1
<1> HIDE DEF value
<1>8. \A q, r \in Proc, k \in Nat \ {0} :
         Content'[InMail(q, r, k)] =
            IF q = p /\ k = Len(batches[p][r]) + 1 THEN value[r] ELSE Content[InMail(q, r, k)]
  BY <1>6, <1>7, PostedMail DEF MoveInv, TypeOK
<1>9. \A q \in Proc : Len(batches[p][q]) + 1 \in Nat \ {0}
  <2>1. \A q \in Proc : batches[p][q] \in Seq(SUBSET Particles)
    BY DEF MoveInv, TypeOK, MailType
  <2> QED BY <2>1
<1>10. ASSUME NEW s \in PlacesOf, s # OnMlist(p), \A q \in Proc : s # InMail(p, q, Len(batches[p][q]) + 1)
       PROVE  Content'[s] = Content[s]
  <2>1. CASE \E q \in Proc : s \in {InTodo(q), InKept(q), InWalk(q)}
    BY <1>1, <1>3, <2>1, ContentOf, ContentThen
  <2>2. CASE \E q \in Proc : s = OnMlist(q)
    BY <1>4, <1>10, <2>2, ContentOf, ContentThen
  <2>3. CASE \E q, r \in Proc, k \in Nat \ {0} : s = InMail(q, r, k)
    BY <1>8, <1>10, <2>3
  <2> QED BY <2>1, <2>2, <2>3, PlaceIs
<1> QED BY <1>5, <1>6, <1>8, <1>9, <1>10, ContentThen

LEMMA UnpackedContent ==
    ASSUME MoveInv, NEW p \in Proc, Continue(p) \/ EndHalf(p)
    PROVE  /\ \A q, r \in Proc, k \in Nat \ {0} :
                 /\ k + 1 \in Nat \ {0}
                 /\ Content'[InMail(q, r, k)] =
                       IF r = p THEN Content[InMail(q, r, k + 1)] ELSE Content[InMail(q, r, k)]
           /\ \A c : c \in Incoming(p) <=> \E q \in Proc : c \in Content[InMail(q, p, 1)]
           /\ Content'[InTodo(p)] = (IF Continue(p) THEN Incoming(p) ELSE {})
           /\ Content'[InKept(p)] = kept[p] \union (IF Continue(p) THEN {} ELSE Incoming(p))
           /\ Content'[OnMlist(p)] = {} /\ Content'[InWalk(p)] = {}
           /\ \A q \in Proc \ {p} : /\ Content'[InTodo(q)] = Content[InTodo(q)]
                                    /\ Content'[InKept(q)] = Content[InKept(q)]
                                    /\ Content'[OnMlist(q)] = Content[OnMlist(q)]
                                    /\ Content'[InWalk(q)] = Content[InWalk(q)]
<1>1. /\ pc[p] = "unpack" /\ pc'[p] # "walk" /\ \A q \in Proc \ {p} : pc'[q] = pc[q]
      /\ AllPosted(batches, p) /\ batches' = Taken(batches, p)
      /\ UNCHANGED <<leaving, part>>
  BY DEF Continue, EndHalf, Go, Unpack, MoveInv, TypeOK, ControlType
<1>2. /\ todo \in [Proc -> SUBSET Particles] /\ kept \in [Proc -> SUBSET Particles] 
      /\ todo[p] = {} /\ leaving[p] = {}
  BY <1>1 DEF MoveInv, TypeOK, ListsType, ListsUsed
<1>3. \A q, r \in Proc, k \in Nat \ {0} :
         /\ k + 1 \in Nat \ {0}
         /\ Content'[InMail(q, r, k)] =
               IF r = p THEN Content[InMail(q, r, k + 1)] ELSE Content[InMail(q, r, k)]
  BY <1>1, TakenMail DEF MoveInv, TypeOK
<1>4. \A c : c \in Incoming(p) <=> \E q \in Proc : c \in Content[InMail(q, p, 1)]
  BY <1>1, IncomingIs DEF MoveInv, TypeOK
<1>5. CASE Continue(p)
  <2>1. /\ todo'[p] = Incoming(p) /\ kept' = kept /\ \A q \in Proc \ {p} : todo'[q] = todo[q]
    BY <1>2, <1>5 DEF Continue, NextPass
  <2>2. Moving(p)' = {} /\ \A q \in Proc \ {p} : Moving(q)' = Moving(q)
    BY <1>1 DEF Moving
  <2> QED BY <1>1, <1>2, <1>5, <1>3, <1>4, <2>1, <2>2, ContentOf, ContentThen
<1>6. CASE EndHalf(p)
  <2>1. ~Continue(p)
    BY <1>6 DEF Continue, EndHalf
  <2>2. /\ kept'[p] = kept[p] \union Incoming(p) /\ todo' = todo /\ \A q \in Proc \ {p} : kept'[q] = kept[q]
    BY <1>2, <1>6 DEF EndHalf
  <2>3. Moving(p)' = {} /\ \A q \in Proc \ {p} : Moving(q)' = Moving(q)
    BY <1>1 DEF Moving
  <2> QED BY <1>1, <1>2, <1>6, <1>3, <1>4, <2>1, <2>2, <2>3, ContentOf, ContentThen
<1> QED BY <1>5, <1>6

(* What every step does to the places.                                     *)
LEMMA OneCarried ==
    ASSUME MoveInv, NEW p \in Proc,
           \/ Skip(p) \/ Jump(p) \/ Pick(p) \/ Interior(p) \/ Cross(p) \/ EnterEmpty(p)
           \/ ExitUnknown(p) \/ Outflow(p) \/ Bounce(p) \/ Destroy(p)
    PROVE  \E f \in {InTodo(p), InWalk(p)}, t \in {InKept(p), OnMlist(p), InWalk(p)} : \E a, b :
              Carry(f, a, t, b)
<1>1. CASE Skip(p)
  BY <1>1, SkipCarries
<1>2. CASE Jump(p)
  BY <1>2, JumpCarries DEF SettledIn
<1>3. CASE Pick(p)
  BY <1>3, PickCarries
<1> DEFINE a == part[p]
<1>4. pc[p] = "walk" => a \in Particles
  BY DEF MoveInv, TypeOK, WalkerType
<1>5. CASE Interior(p)
  <2> DEFINE b == [part[p] EXCEPT !.icell = icell[p], !.flag = EndFlag(p, icell[p])]
  <2>1. Stop(p, b) /\ UNCHANGED <<todo, batches>> /\ pc[p] = "walk"
    BY <1>5 DEF Interior, mail
  <2>2. b.id = a.id
    BY <1>4, <2>1 DEF Particles
  <2> QED BY <2>1, <2>2, StopCarries DEF SettledIn
<1>6. CASE EnterEmpty(p)
  <2> DEFINE b == [Crossed(p) EXCEPT !.icell = Across(p), !.flag = "entry"]
  <2>1. Stop(p, b) /\ UNCHANGED <<todo, batches>> /\ pc[p] = "walk"
    BY <1>6 DEF EnterEmpty, Walking, mail
  <2>2. b.id = a.id
    BY <1>4, <2>1 DEF Particles, Crossed
  <2> QED BY <2>1, <2>2, StopCarries DEF SettledIn
<1>7. CASE ExitUnknown(p)
  <2> DEFINE b == [part[p] EXCEPT !.x = Uncollided(p), !.icell = icell[p], !.flag = "exit"]
  <2>1. Stop(p, b) /\ UNCHANGED <<todo, batches>> /\ pc[p] = "walk"
    BY <1>7 DEF ExitUnknown, Walking, mail
  <2>2. b.id = a.id
    BY <1>4, <2>1 DEF Particles
  <2> QED BY <2>1, <2>2, StopCarries DEF SettledIn
<1>8. CASE Outflow(p) \/ Destroy(p)
  <2> DEFINE b == [part[p] EXCEPT !.icell = icell[p], !.flag = "discard"]
  <2>1. Stop(p, b) /\ UNCHANGED <<todo, batches>> /\ pc[p] = "walk"
    BY <1>8 DEF Outflow, Destroy, Discard, AtWall, Walking, mail
  <2>2. b.id = a.id
    BY <1>4, <2>1 DEF Particles
  <2> QED BY <2>1, <2>2, StopCarries DEF SettledIn
<1>9. CASE Cross(p)
  <2>1. /\ pc[p] = "walk" /\ pc' = pc /\ part' = [part EXCEPT ![p] = Crossed(p)]
        /\ UNCHANGED <<todo, kept, leaving, batches>>
    BY <1>9 DEF Cross, Walking, lists, mail
  <2>2. Crossed(p).id = a.id
    BY <1>4, <2>1 DEF Particles, Crossed
  <2> QED BY <2>1, <2>2, WalkCarries
<1>10. CASE Bounce(p)
  <2>1. /\ pc[p] = "walk" /\ pc' = pc /\ part' = [part EXCEPT ![p] = Bounced(part[p])]
        /\ UNCHANGED <<todo, kept, leaving, batches>>
    BY <1>10 DEF Bounce, AtWall, Walking, lists, mail, MoveInv, TypeOK, WalkerType
  <2>2. Bounced(part[p]).id = a.id
    BY <1>4, <2>1 DEF Particles, Bounced
  <2> QED BY <2>1, <2>2, WalkCarries
<1> QED BY <1>1, <1>2, <1>3, <1>5, <1>6, <1>7, <1>8, <1>9, <1>10

(* Every id in a place is in use.                                          *)
LEMMA PlacesUse ==
    ASSUME MoveInv, NEW s \in PlacesOf, NEW a \in Content[s]
    PROVE  a.id \in InUse
<1>1. CASE \E q \in Proc : s \in {InTodo(q), InKept(q), OnMlist(q), InWalk(q)}
  <2>1. PICK q \in Proc : s \in {InTodo(q), InKept(q), OnMlist(q), InWalk(q)}
    BY <1>1
  <2>2. a \in Mine(q)
    BY <2>1, ContentOf DEF Mine
  <2> QED BY <2>2 DEF InUse
<1>2. CASE \E q, r \in Proc, k \in Nat \ {0} : s = InMail(q, r, k)
  <2>1. PICK q \in Proc, r \in Proc, k \in Nat \ {0} : s = InMail(q, r, k)
    BY <1>2
  <2>2. k <= Len(batches[q][r]) /\ a \in batches[q][r][k]
    BY <2>1, ContentOf
  <2>3. k \in DOMAIN batches[q][r]
    BY <2>2 DEF MoveInv, TypeOK, MailType
  <2>4. a \in InFlight(q)
    BY <2>2, <2>3 DEF InFlight
  <2> QED BY <2>4 DEF InUse
<1> QED BY <1>1, <1>2, PlaceIs

LEMMA CreateAlone ==
    ASSUME MoveInv, Alone, NEW p \in Proc, Create(p)
    PROVE  Alone'
<1>1. PICK id \in Ids \ InUse :
        /\ pc[p] = "walk" /\ pc' = pc
        /\ part' = [part EXCEPT ![p] = Bounced(part[p])]
        /\ todo' = [todo EXCEPT ![p] = @ \union {[Bounced(part[p]) EXCEPT !.id = id, !.flag = "surf"]}]
        /\ UNCHANGED <<kept, leaving, batches>>
  BY DEF Create, AtWall, Walking, mail, MoveInv, TypeOK, WalkerType
<1> DEFINE b == Bounced(part[p])
           c == [Bounced(part[p]) EXCEPT !.id = id, !.flag = "surf"]
<1>2. part[p] \in Particles
  BY <1>1 DEF MoveInv, TypeOK, WalkerType
<1>3. b.id = part[p].id /\ c.id = id
  BY <1>2 DEF Bounced, Particles
<1>4. part' = [part EXCEPT ![p] = b] /\ todo' = [todo EXCEPT ![p] = @ \union {c}]
  BY <1>1
<1> HIDE DEF b, c
<1>5. /\ todo \in [Proc -> SUBSET Particles] /\ part \in [Proc -> Particles \union {NoPart}]
  BY DEF MoveInv, TypeOK, ListsType, WalkerType
<1>6. Moving(p)' = {b} /\ Moving(p) = {part[p]} /\ \A q \in Proc \ {p} : Moving(q)' = Moving(q)
  BY <1>1, <1>4, <1>5 DEF Moving
<1>7. ASSUME NEW s \in PlacesOf, NEW d \in Content'[s]
      PROVE  \/ s = InTodo(p) /\ d = c
             \/ s = InWalk(p) /\ d = b
             \/ s # InWalk(p) /\ d \in Content[s]
  <2>1. CASE \E q \in Proc : s = InTodo(q)
    BY <1>4, <1>5, <1>7, <2>1, PlacesDiffer, ContentOf, ContentThen
  <2>2. CASE \E q \in Proc : s \in {InKept(q), OnMlist(q)}
    BY <1>1, <1>7, <2>2, PlacesDiffer, ContentOf, ContentThen
  <2>3. CASE \E q \in Proc : s = InWalk(q)
    BY <1>6, <1>7, <2>3, PlacesDiffer, ContentOf, ContentThen
  <2>4. CASE \E q, r \in Proc, k \in Nat \ {0} : s = InMail(q, r, k)
    BY <1>1, <1>7, <2>4, PlacesDiffer, ContentOf, ContentThen
  <2> QED BY <2>1, <2>2, <2>3, <2>4, PlaceIs
<1>8. \A s \in PlacesOf : \A d \in Content[s] : d.id # id
  BY PlacesUse
<1>9. part[p] \in Content[InWalk(p)] /\ InWalk(p) \in PlacesOf
  BY <1>6, ContentOf
<1>10. ASSUME NEW r \in PlacesOf, NEW s \in PlacesOf, NEW d \in Content'[r], NEW e \in Content'[s],
              d.id = e.id
       PROVE  r = s /\ d = e
  <2>1. /\ \/ r = InTodo(p) /\ d = c
           \/ r = InWalk(p) /\ d = b
           \/ r # InWalk(p) /\ d \in Content[r]
        /\ \/ s = InTodo(p) /\ e = c
           \/ s = InWalk(p) /\ e = b
           \/ s # InWalk(p) /\ e \in Content[s]
    BY <1>7
  <2> QED BY <1>3, <1>8, <1>9, <1>10, <2>1, PlacesDiffer DEF Alone
<1> QED BY <1>10 DEF Alone, PlacesOf

LEMMA StartAlone ==
    ASSUME MoveInv, Alone, NEW p \in Proc, StartMove(p)
    PROVE  Alone'
<1>1. InTodo(p) \in PlacesOf /\ InKept(p) \in PlacesOf /\ InTodo(p) # InKept(p)
  BY ContentOf, PlacesDiffer
<1>2. /\ Content'[InTodo(p)] = Content[InKept(p)]
      /\ Content'[InKept(p)] = {}
      /\ \A s \in PlacesOf \ {InTodo(p), InKept(p)} : Content'[s] = Content[s]
  BY StartedContent
<1>3. \A s \in PlacesOf : \A c \in Content'[s] : \E r \in PlacesOf : c \in Content[r]
  BY <1>1, <1>2
<1>4. \A s, t \in PlacesOf : \A c : c \in Content'[s] /\ c \in Content'[t] => s = t
  BY <1>1, <1>2 DEF Alone
<1> QED BY <1>3, <1>4, StayAlone

LEMMA PackAlone ==
    ASSUME MoveInv, Alone, NEW p \in Proc, Pack(p)
    PROVE  Alone'
<1>1. OnMlist(p) \in PlacesOf /\ Content[OnMlist(p)] = leaving[p]
  BY ContentOf
<1>2. /\ Content'[OnMlist(p)] = {}
      /\ \A q \in Proc : Content'[InMail(p, q, Len(batches[p][q]) + 1)] = Sendbuf(p, q)
      /\ \A s \in PlacesOf : s # OnMlist(p) /\ (\A q \in Proc : s # InMail(p, q, Len(batches[p][q]) + 1))
            => Content'[s] = Content[s]
  BY PackedContent
<1>3. ASSUME NEW s \in PlacesOf, NEW c \in Content'[s]
      PROVE  \/ c \in Content[s] /\ s # OnMlist(p)
             \/ c \in Content[OnMlist(p)] /\ \E q \in Proc : /\ s = InMail(p, q, Len(batches[p][q]) + 1)
                                                             /\ owner[c.icell] = q
  BY <1>1, <1>2, <1>3 DEF Sendbuf
<1>4. \A s \in PlacesOf : \A c \in Content'[s] : \E r \in PlacesOf : c \in Content[r]
  BY <1>1, <1>3
<1>5. ASSUME NEW s \in PlacesOf, NEW t \in PlacesOf, NEW c, c \in Content'[s], c \in Content'[t]
      PROVE  s = t
  BY <1>1, <1>3, <1>5 DEF Alone
<1> QED BY <1>4, <1>5, StayAlone

LEMMA UnpackAlone ==
    ASSUME MoveInv, Alone, NEW p \in Proc, Continue(p) \/ EndHalf(p)
    PROVE  Alone'
<1> DEFINE to == IF Continue(p) THEN InTodo(p) ELSE InKept(p)
<1>1. to \in PlacesOf /\ \A q, r \in Proc, k \in Nat \ {0} : to # InMail(q, r, k)
  BY ContentOf, PlacesDiffer
<1>2. ASSUME NEW s \in PlacesOf, NEW c \in Content'[s]
      PROVE  \/ /\ c \in Content[s] 
                /\ \A q \in Proc, k \in Nat \ {0} : s # InMail(q, p, k)
             \/ \E q \in Proc, k \in Nat \ {0} : 
                   s = InMail(q, p, k) /\ k + 1 \in Nat \ {0} /\ c \in Content[InMail(q, p, k + 1)]
             \/ s = to /\ \E q \in Proc : c \in Content[InMail(q, p, 1)]
  <2>1. CASE \E q \in Proc \ {p} : s \in {InTodo(q), InKept(q), OnMlist(q), InWalk(q)}
    BY <1>2, <2>1, UnpackedContent, PlacesDiffer
  <2>2. CASE s \in {InTodo(p), InKept(p), OnMlist(p), InWalk(p)}
    BY <1>2, <2>2, UnpackedContent, PlacesDiffer, ContentOf
  <2>3. CASE \E q, r \in Proc, k \in Nat \ {0} : s = InMail(q, r, k)
    BY <1>2, <2>3, UnpackedContent, PlacesDiffer
  <2> QED BY <2>1, <2>2, <2>3, PlaceIs
<1> HIDE DEF to
<1>3. \A q, r \in Proc, k \in Nat \ {0} : InMail(q, r, k) \in PlacesOf
  BY ContentOf
<1>4. \A s \in PlacesOf : \A c \in Content'[s] : \E r \in PlacesOf : c \in Content[r]
  BY <1>2, <1>3
<1>5. ASSUME NEW s \in PlacesOf, NEW t \in PlacesOf, NEW c, c \in Content'[s], c \in Content'[t]
      PROVE  s = t
  <2>1. \A u, v \in PlacesOf : c \in Content[u] /\ c \in Content[v] => u = v
    BY DEF Alone
  <2> QED BY <1>1, <1>2, <1>3, <1>5, <2>1, PlacesDiffer
<1> QED BY <1>4, <1>5, StayAlone

LEMMA ContentInit ==
    ASSUME Init, NEW s \in PlacesOf, NEW a \in Content[s]
    PROVE  a \in start /\ \E p \in Proc : s = InKept(p) /\ owner[a.icell] = p
<1>1. \A p \in Proc : Moving(p) = {}
  BY DEF Init, Moving
<1>2. CASE \E q \in Proc : s = InKept(q)
  BY <1>2, ContentOf DEF Init
<1>3. CASE \E q \in Proc : s \in {InTodo(q), OnMlist(q), InWalk(q)}
  BY <1>1, <1>3, ContentOf DEF Init
<1>4. CASE \E q, r \in Proc, k \in Nat \ {0} : s = InMail(q, r, k)
  <2>1. \A q, r \in Proc : batches[q][r] = <<>> /\ Len(<<>>) = 0
    BY DEF Init
  <2> QED BY <1>4, <2>1, ContentOf
<1> QED BY <1>2, <1>3, <1>4, PlaceIs

LEMMA AloneInit == Init => Alone
<1> SUFFICES ASSUME Init PROVE Alone
  OBVIOUS
<1>1. \A a, b \in start : a.id = b.id => a = b
  BY StartsAssumption DEF Init
<1> QED BY <1>1, ContentInit DEF Alone

LEMMA SameContent ==
    ASSUME UNCHANGED <<todo, kept, leaving, batches>>,
           \A q \in Proc : Moving(q)' = Moving(q)
    PROVE  \A s \in PlacesOf : Content'[s] = Content[s]
<1> SUFFICES ASSUME NEW s \in PlacesOf PROVE Content'[s] = Content[s]
  OBVIOUS
<1>1. CASE \E q \in Proc : s \in {InTodo(q), InKept(q), OnMlist(q), InWalk(q)}
  BY <1>1, ContentOf, ContentThen
<1>2. CASE \E q, r \in Proc, k \in Nat \ {0} : s = InMail(q, r, k)
  BY <1>2, ContentOf, ContentThen
<1> QED BY <1>1, <1>2, PlaceIs

LEMMA SameEnds ==
    ASSUME MoveInv, NEW p \in Proc, EndPass(p) \/ EndOnlyPass(p) \/ Reduced(p)
    PROVE  \A s \in PlacesOf : Content'[s] = Content[s]
<1>1. UNCHANGED <<todo, kept, leaving, batches, part>>
  BY DEF EndPass, EndOnlyPass, Reduced, lists, mail
<1>2. \A q \in Proc : pc'[q] = "walk" <=> pc[q] = "walk"
  BY DEF EndPass, EndOnlyPass, Reduced, Go, MoveInv, TypeOK, ControlType
<1>3. \A q \in Proc : Moving(q)' = Moving(q)
  BY <1>1, <1>2 DEF Moving
<1> QED BY <1>1, <1>3, SameContent

LEMMA AloneStep ==
    ASSUME MoveInv, Alone, [Next]_vars
    PROVE  Alone'
<1>1. ASSUME NEW p \in Proc, Step(p) PROVE Alone'
  <2>1. CASE \/ Skip(p) \/ Jump(p) \/ Pick(p) \/ Interior(p) \/ Cross(p) \/ EnterEmpty(p)
           \/ ExitUnknown(p) \/ Outflow(p) \/ Bounce(p) \/ Destroy(p)
    <3>1. PICK f, t, a, b : Carry(f, a, t, b)
      BY <2>1, OneCarried
    <3> QED BY <3>1, CarryAlone
  <2>2. CASE EndPass(p) \/ EndOnlyPass(p) \/ Reduced(p)
    <3>1. \A s \in PlacesOf : Content'[s] = Content[s]
      BY <2>2, SameEnds
    <3> QED BY <3>1 DEF Alone, PlacesOf
  <2> QED BY <1>1, <2>1, <2>2, CreateAlone, StartAlone, PackAlone, UnpackAlone DEF Step
<1>2. CASE UNCHANGED vars
  <2>1. \A s \in PlacesOf : Content'[s] = Content[s]
    BY <1>2, SameContent DEF vars, lists, mail, Moving
  <2> QED BY <2>1 DEF Alone, PlacesOf
<1> QED BY <1>1, <1>2 DEF Next, Done

LEMMA AloneInvariant == Spec => [](MoveInv /\ Alone)
<1>1. MoveInv /\ Alone /\ [Next]_vars => (MoveInv /\ Alone)'
  BY MoveInductive, AloneStep
<1> QED BY <1>1, MoveInit, AloneInit, PTL DEF Spec

(* A particle is in one place only, in one copy: a list of a process or    *)
(* its walk, or one message.  This is what packing, sending, compressing   *)
(* and unpacking in Comm::migrate_particles must keep, with messages of    *)
(* two migrations under way, and what reactions must keep with new ids.    *)
THEOREM OneParticleOnePlace == Spec => []Alone
BY AloneInvariant, PTL

-----------------------------------------------------------------------------
(* Where a particle lies when no boundary is a surface.  A reaction there  *)
(* adds a particle with the cell that the first particle began in, and     *)
(* outside of the bounds by which the migration list was sized.            *)
NoReactions == \A d \in {-1, 1} : Boundary[d] # "surface"

\* By its place: a particle that leaves the box keeps the cell it left.
Stored(s, a) == IF s[1] = "walk" THEN a.x = icell[s[2]]
                ELSE a.x = a.icell \/ (s[1] = "mlist" /\ a.flag = "discard")
WellStored == \A s \in PlacesOf : \A a \in Content[s] : Stored(s, a)

LEMMA NoneCreated ==
    ASSUME NoReactions, NEW p \in Proc
    PROVE  ~Create(p) /\ ~Destroy(p)
<1>1. Direction(part[p].v) \in {-1, 1}
  BY DEF Direction
<1> QED BY <1>1 DEF Create, Destroy, AtWall, NoReactions

LEMMA KindOf ==
    \A p, q, k : /\ InTodo(p)[1] = "todo" /\ InKept(p)[1] = "kept" /\ OnMlist(p)[1] = "mlist"
                 /\ InWalk(p)[1] = "walk" /\ InWalk(p)[2] = p /\ InMail(p, q, k)[1] = "mail"
BY DEF InTodo, InKept, OnMlist, InWalk, InMail

(* A particle is carried, and the process that carries it has no other one *)
(* on its walk.                                                            *)
LEMMA CarryStored ==
    ASSUME WellStored, NEW p \in Proc, NEW f, NEW a, NEW t, NEW b, Carry(f, a, t, b),
           \A q \in Proc \ {p} : icell'[q] = icell[q],
           \A c \in Content[InWalk(p)] : InWalk(p) = f /\ c = a,
           Stored(t, b)'
    PROVE  WellStored'
<1> SUFFICES ASSUME NEW s \in PlacesOf, NEW c \in Content'[s] PROVE Stored(s, c)'
  BY DEF WellStored, PlacesOf
<1>1. CASE s = t /\ c = b
  BY <1>1 DEF Stored
<1>2. CASE c \in Content[s] /\ ~(s = f /\ c = a)
  <2>1. Stored(s, c)
    BY <1>2 DEF WellStored
  <2>2. CASE \E q \in Proc : s = InWalk(q)
    <3>1. PICK q \in Proc : s = InWalk(q)
      BY <2>2
    <3>2. q # p
      BY <1>2, <3>1
    <3> QED BY <2>1, <3>1, <3>2, KindOf DEF Stored
  <2>3. CASE ~\E q \in Proc : s = InWalk(q)
    <3>1. s[1] # "walk"
      BY <2>3, PlaceIs, KindOf
    <3> QED BY <2>1, <3>1 DEF Stored
  <2> QED BY <2>2, <2>3
<1> QED BY <1>1, <1>2 DEF Carry

LEMMA SettledStored ==
    ASSUME NEW p \in Proc, NEW b, b.x = b.icell \/ b.flag = "discard"
    PROVE  Stored(SettledIn(p, b), b)'
BY KindOf DEF Stored, SettledIn

LEMMA AfterStop ==
    ASSUME MoveInv, WellStored, NEW p \in Proc, NEW b, Stop(p, b), b.id = part[p].id,
           UNCHANGED <<todo, batches>>, b.x = b.icell \/ b.flag = "discard"
    PROVE  WellStored'
<1>1. Carry(InWalk(p), part[p], SettledIn(p, b), b)
  BY StopCarries
<1>2. \A q \in Proc \ {p} : icell'[q] = icell[q]
  BY DEF Stop, MoveInv, TypeOK, WalkerType
<1>3. \A c \in Content[InWalk(p)] : c = part[p]
  <2>1. Content[InWalk(p)] = Moving(p)
    BY ContentOf
  <2> QED BY <2>1 DEF Moving
<1>4. Stored(SettledIn(p, b), b)'
  BY SettledStored
<1> DEFINE f == InWalk(p)
           a == part[p]
           t == SettledIn(p, b)
<1>5. Carry(f, a, t, b) /\ Stored(t, b)' /\ \A c \in Content[InWalk(p)] : InWalk(p) = f /\ c = a
  BY <1>1, <1>3, <1>4
<1> HIDE DEF f, a, t
<1> QED BY <1>2, <1>5, CarryStored

LEMMA StoredStep ==
    ASSUME NoReactions, MoveInv, WellStored, NEW p \in Proc, Step(p)
    PROVE  WellStored'
<1>1. pc[p] = "walk" => part[p] \in Particles /\ icell[p] \in Cells /\ part[p].x = icell[p]
  <2>1. pc[p] = "walk" => part[p] \in Particles /\ icell[p] \in Cells
    BY DEF MoveInv, TypeOK, WalkerType
  <2>2. pc[p] = "walk" => part[p] \in Content[InWalk(p)] /\ InWalk(p) \in PlacesOf
    BY ContentOf DEF Moving
  <2>3. pc[p] = "walk" => part[p].x = icell[p]
    BY <2>2, KindOf DEF WellStored, Stored
  <2> QED BY <2>1, <2>3
<1>2. pc[p] # "walk" => Content[InWalk(p)] = {}
  BY ContentOf DEF Moving
<1>3. \A a \in todo[p] : a \in Particles /\ a.x = a.icell
  <2> SUFFICES ASSUME NEW a \in todo[p] PROVE a \in Particles /\ a.x = a.icell
    OBVIOUS
  <2>1. a \in Content[InTodo(p)] /\ InTodo(p) \in PlacesOf
    BY ContentOf
  <2>2. Stored(InTodo(p), a)
    BY <2>1 DEF WellStored
  <2> QED BY <2>2, KindOf DEF Stored, MoveInv, TypeOK, ListsType
<1>4. CASE Skip(p)
  <2>1. PICK a \in todo[p] : Carry(InTodo(p), a, InKept(p), [a EXCEPT !.flag = "keep"])
    BY <1>4, SkipCarries
  <2> DEFINE b == [a EXCEPT !.flag = "keep"]
             f == InTodo(p)
             t == InKept(p)
  <2>2. b.x = b.icell
    BY <1>3 DEF Particles
  <2>3. Carry(f, a, t, b)
    BY <2>1
  <2> HIDE DEF b
  <2>4. Stored(t, b)'
    BY <2>2, KindOf DEF Stored
  <2> HIDE DEF f, t
  <2>5. icell' = icell /\ Content[InWalk(p)] = {}
    BY <1>2, <1>4 DEF Skip, Go
  <2> QED BY <2>3, <2>4, <2>5, CarryStored
<1>5. CASE Jump(p)
  <2>1. PICK a \in todo[p], b \in Particles :
           /\ b = [a EXCEPT !.x = JumpCell(a), !.icell = JumpCell(a), !.flag = EndFlag(p, JumpCell(a))]
           /\ Carry(InTodo(p), a, SettledIn(p, b), b)
    BY <1>5, JumpCarries
  <2> DEFINE f == InTodo(p)
             t == SettledIn(p, b)
  <2>2. b.x = b.icell
    BY <1>3, <2>1 DEF Particles
  <2>3. Carry(f, a, t, b) /\ Stored(t, b)'
    BY <2>1, <2>2, SettledStored
  <2> HIDE DEF f, t
  <2>4. icell' = icell /\ Content[InWalk(p)] = {}
    BY <1>2, <1>5 DEF Jump, Go
  <2> QED BY <2>3, <2>4, CarryStored
<1>6. CASE Pick(p)
  <2>1. PICK a \in todo[p] :
          /\ icell' = [icell EXCEPT ![p] = a.icell]
          /\ Carry(InTodo(p), a, InWalk(p), [a EXCEPT !.flag = "keep", !.dtremain = Remaining(a)])
    BY <1>6, PickCarries
  <2> DEFINE b == [a EXCEPT !.flag = "keep", !.dtremain = Remaining(a)]
             f == InTodo(p)
             t == InWalk(p)
  <2>2. b.x = a.icell
    BY <1>3 DEF Particles
  <2>3. Carry(f, a, t, b)
    BY <2>1
  <2> HIDE DEF b
  <2>4. icell \in [Proc -> Cells]
    BY DEF MoveInv, TypeOK, WalkerType
  <2>5. Stored(t, b)'
    BY <2>1, <2>2, <2>4, KindOf DEF Stored
  <2> HIDE DEF f, t
  <2>6. (\A q \in Proc \ {p} : icell'[q] = icell[q]) /\ Content[InWalk(p)] = {}
    BY <1>2, <1>6, <2>1, <2>4 DEF Pick, Go
  <2> QED BY <2>3, <2>5, <2>6, CarryStored
<1>7. CASE Interior(p)
  <2> DEFINE b == [part[p] EXCEPT !.icell = icell[p], !.flag = EndFlag(p, icell[p])]
  <2>1. Stop(p, b) /\ UNCHANGED <<todo, batches>> /\ pc[p] = "walk"
    BY <1>7 DEF Interior, mail
  <2>2. b.id = part[p].id /\ b.x = b.icell
    BY <1>1, <2>1 DEF Particles
  <2> HIDE DEF b
  <2> QED BY <2>1, <2>2, AfterStop
<1>8. CASE EnterEmpty(p)
  <2> DEFINE b == [Crossed(p) EXCEPT !.icell = Across(p), !.flag = "entry"]
  <2>1. Stop(p, b) /\ UNCHANGED <<todo, batches>> /\ pc[p] = "walk"
    BY <1>8 DEF EnterEmpty, Walking, mail
  <2>2. b.id = part[p].id /\ b.x = b.icell
    BY <1>1, <2>1 DEF Particles, Crossed
  <2> HIDE DEF b
  <2> QED BY <2>1, <2>2, AfterStop
<1>9. CASE ExitUnknown(p)
  <2> DEFINE b == [part[p] EXCEPT !.x = Uncollided(p), !.icell = icell[p], !.flag = "exit"]
  <2>1. Stop(p, b) /\ UNCHANGED <<todo, batches>> /\ pc[p] = "walk"
    BY <1>9 DEF ExitUnknown, Walking, mail
  <2>2. b.id = part[p].id /\ b.x = b.icell
    BY <1>1, <2>1 DEF Particles, Uncollided
  <2> HIDE DEF b
  <2> QED BY <2>1, <2>2, AfterStop
<1>10. CASE Outflow(p)
  <2> DEFINE b == [part[p] EXCEPT !.icell = icell[p], !.flag = "discard"]
  <2>1. Stop(p, b) /\ UNCHANGED <<todo, batches>> /\ pc[p] = "walk"
    BY <1>10 DEF Outflow, Discard, AtWall, Walking, mail
  <2>2. b.id = part[p].id /\ b.flag = "discard"
    BY <1>1, <2>1 DEF Particles
  <2> HIDE DEF b
  <2> QED BY <2>1, <2>2, AfterStop
<1>11. CASE Cross(p) \/ Bounce(p)
  <2>1. PICK b : b = IF Cross(p) THEN Crossed(p) ELSE Bounced(part[p])
    OBVIOUS
  <2>2. PICK c : c = IF Cross(p) THEN Across(p) ELSE icell[p]
    OBVIOUS
  <2>3. /\ pc[p] = "walk" /\ pc' = pc /\ part' = [part EXCEPT ![p] = b]
        /\ UNCHANGED <<todo, kept, leaving, batches>>
        /\ icell' = [icell EXCEPT ![p] = c]
    BY <1>11, <2>1, <2>2 DEF Cross, Bounce, AtWall, Walking, lists, mail, MoveInv, TypeOK, WalkerType
  <2>4. b.id = part[p].id /\ b.x = c
    BY <1>1, <2>1, <2>2, <2>3 DEF Particles, Crossed, Bounced
  <2> DEFINE f == InWalk(p)
             a == part[p]
  <2>5. Carry(f, a, f, b)
    BY <2>3, <2>4, WalkCarries
  <2>6. icell'[p] = c /\ \A q \in Proc \ {p} : icell'[q] = icell[q]
    BY <2>3 DEF MoveInv, TypeOK, WalkerType
  <2>7. Stored(f, b)'
    <3>1. f[1] = "walk" /\ f[2] = p
      BY KindOf
    <3> QED BY <2>4, <2>6, <3>1 DEF Stored
  <2>8. \A d \in Content[InWalk(p)] : InWalk(p) = f /\ d = a
    <3>1. Content[InWalk(p)] = Moving(p)
      BY ContentOf
    <3> QED BY <3>1 DEF Moving
  <2> HIDE DEF f, a
  <2> QED BY <2>5, <2>6, <2>7, <2>8, CarryStored
<1>12. CASE StartMove(p)
  <2>1. icell' = icell
    BY <1>12 DEF StartMove
  <2> SUFFICES ASSUME NEW s \in PlacesOf, NEW c \in Content'[s] PROVE Stored(s, c)'
    BY DEF WellStored, PlacesOf
  <2>2. CASE s = InTodo(p)
    <3>1. c \in Content[InKept(p)] /\ InKept(p) \in PlacesOf
      BY <1>12, <2>2, StartedContent, ContentOf
    <3>2. Stored(InKept(p), c)
      BY <3>1 DEF WellStored
    <3> QED BY <2>2, <3>2, KindOf DEF Stored
  <2>3. CASE s # InTodo(p)
    <3>1. c \in Content[s]
      BY <1>12, <2>3, StartedContent
    <3> QED BY <2>1, <3>1 DEF WellStored, Stored
  <2> QED BY <2>2, <2>3
<1>13. CASE Pack(p)
  <2>1. icell' = icell
    BY <1>13 DEF Pack
  <2> SUFFICES ASSUME NEW s \in PlacesOf, NEW c \in Content'[s] PROVE Stored(s, c)'
    BY DEF WellStored, PlacesOf
  <2>2. CASE \E q \in Proc : s = InMail(p, q, Len(batches[p][q]) + 1)
    <3>1. PICK q \in Proc : s = InMail(p, q, Len(batches[p][q]) + 1)
      BY <2>2
    <3>2. c \in leaving[p] /\ c.flag # "discard"
      BY <1>13, <3>1, PackedContent DEF Sendbuf
    <3>3. c \in Content[OnMlist(p)] /\ OnMlist(p) \in PlacesOf
      BY <3>2, ContentOf
    <3>4. Stored(OnMlist(p), c)
      BY <3>3 DEF WellStored
    <3> QED BY <3>1, <3>2, <3>4, KindOf DEF Stored
  <2>3. CASE ~\E q \in Proc : s = InMail(p, q, Len(batches[p][q]) + 1)
    <3>1. c \in Content[s]
      BY <1>13, <2>3, PackedContent
    <3> QED BY <2>1, <3>1 DEF WellStored, Stored
  <2> QED BY <2>2, <2>3
<1>14. CASE Continue(p) \/ EndHalf(p)
  <2>1. icell' = icell
    BY <1>14 DEF Continue, EndHalf
  <2> SUFFICES ASSUME NEW s \in PlacesOf, NEW c \in Content'[s] PROVE Stored(s, c)'
    BY DEF WellStored, PlacesOf
  <2>2. \A q, r \in Proc, k \in Nat \ {0} : \A d \in Content[InMail(q, r, k)] : d.x = d.icell
    <3>1. \A q, r \in Proc, k \in Nat \ {0} : \A d \in Content[InMail(q, r, k)] : Stored(InMail(q, r, k), d)
      BY ContentOf DEF WellStored
    <3> QED BY <3>1, KindOf DEF Stored
  <2>3. \A d \in Incoming(p) : d.x = d.icell
    <3>1. 1 \in Nat \ {0}
      OBVIOUS
    <3> QED BY <1>14, <2>2, <3>1, UnpackedContent
  <2>4. CASE \E q \in Proc : s \in {InTodo(q), InKept(q), OnMlist(q), InWalk(q)} 
    <3>1. c \in Content[s] \/ (c \in Incoming(p) /\ s[1] # "walk")
      BY <1>14, <2>4, UnpackedContent, ContentOf, KindOf
    <3> QED BY <2>1, <2>3, <3>1 DEF WellStored, Stored
  <2>5. CASE \E q, r \in Proc, k \in Nat \ {0} : s = InMail(q, r, k)
    <3>1. c.x = c.icell /\ s[1] # "walk"
      BY <1>14, <2>2, <2>5, UnpackedContent, KindOf
    <3> QED BY <3>1 DEF Stored
  <2> QED BY <2>4, <2>5, PlaceIs
<1>15. CASE EndPass(p) \/ EndOnlyPass(p) \/ Reduced(p)
  <2>1. icell' = icell
    BY <1>15 DEF EndPass, EndOnlyPass, Reduced
  <2>2. \A s \in PlacesOf : Content'[s] = Content[s]
    BY <1>15, SameEnds
  <2> QED BY <2>1, <2>2 DEF WellStored, Stored, PlacesOf
<1> QED BY <1>4, <1>5, <1>6, <1>7, <1>8, <1>9, <1>10, <1>11, <1>12, <1>13, <1>14, <1>15, NoneCreated DEF Step

LEMMA StoredInit == Init => WellStored
<1> SUFFICES ASSUME Init, NEW s \in PlacesOf, NEW a \in Content[s] PROVE Stored(s, a)
  BY DEF WellStored
<1>1. a \in start
  BY ContentInit
<1>2. a.x = a.icell /\ s[1] # "walk"
  BY <1>1, StartsAssumption, ContentInit, KindOf DEF Init
<1> QED BY <1>2 DEF Stored

(* Update::move begins at the stored icell of a particle without looking   *)
(* where it is, and so does the next pass with those that were received:   *)
(* the particle does lie in that cell.  A reaction at a surface would add  *)
(* particles whose icell is that of the start of the first one's move.     *)
THEOREM StoredWhereTheyAre ==
    ASSUME NoReactions
    PROVE  Spec => []InStoredCell
<1>1. MoveInv /\ WellStored => InStoredCell
  <2> SUFFICES ASSUME MoveInv, WellStored, NEW p \in Proc, NEW a \in todo[p] \union InFlight(p)
               PROVE  a.x = a.icell
    BY DEF InStoredCell
  <2>1. CASE a \in todo[p]
    <3>1. a \in Content[InTodo(p)] /\ InTodo(p) \in PlacesOf
      BY <2>1, ContentOf
    <3>2. Stored(InTodo(p), a)
      BY <3>1 DEF WellStored
    <3> QED BY <3>2, KindOf DEF Stored
  <2>2. CASE a \in InFlight(p)
    <3>1. PICK q \in Proc : \E k \in DOMAIN batches[p][q] : a \in batches[p][q][k]
      BY <2>2 DEF InFlight
    <3>2. PICK k \in DOMAIN batches[p][q] : a \in batches[p][q][k]
      BY <3>1
    <3>3. k \in Nat \ {0} /\ k <= Len(batches[p][q])
      BY DEF MoveInv, TypeOK, MailType
    <3>4. a \in Content[InMail(p, q, k)] /\ InMail(p, q, k) \in PlacesOf
      BY <3>3, <3>2, ContentOf
    <3>5. Stored(InMail(p, q, k), a)
      BY <3>4 DEF WellStored
    <3> QED BY <3>5, KindOf DEF Stored
  <2> QED BY <2>1, <2>2
<1>2. MoveInv /\ WellStored /\ [Next]_vars => WellStored'
  <2>1. ASSUME UNCHANGED vars, WellStored PROVE WellStored'
    <3>1. \A s \in PlacesOf : Content'[s] = Content[s]
      BY <2>1, SameContent DEF vars, lists, mail, Moving
    <3>2. icell' = icell
      BY <2>1 DEF vars
    <3> QED BY <2>1, <3>1, <3>2 DEF WellStored, Stored, PlacesOf
  <2> QED BY <2>1, StoredStep DEF Next, Done
<1> QED BY <1>1, <1>2, StoredInit, MoveInvariant, PTL DEF Spec

(* Particles whose ids differ are finitely many.                           *)
LEMMA FewParticles ==
    ASSUME NEW S \in SUBSET Particles, \A a, b \in S : a.id = b.id => a = b
    PROVE  IsFiniteSet(S)
<1> DEFINE f == [a \in S |-> a.id]
<1>1. f \in [S -> Ids]
  BY DEF Particles
<1>2. f \in Injection(S, Ids)
  BY <1>1 DEF Injection, IsInjective
<1> QED BY <1>2, IdsAssumption, FS_Injection

LEMMA OneMore ==
    ASSUME NEW S, NEW T, NEW b, IsFiniteSet(S), T \subseteq S \union {b}
    PROVE  IsFiniteSet(T) /\ Cardinality(T) <= Cardinality(S) + 1
<1> DEFINE U == S \union {b}
<1>1. /\ IsFiniteSet(U)
      /\ Cardinality(U) = IF b \in S THEN Cardinality(S) ELSE Cardinality(S) + 1
  BY FS_AddElement
<1> HIDE DEF U
<1>2. IsFiniteSet(T) /\ Cardinality(T) <= Cardinality(U)
  BY <1>1, FS_Subset DEF U
<1>3. Cardinality(T) \in Nat /\ Cardinality(U) \in Nat /\ Cardinality(S) \in Nat
  BY <1>1, <1>2, FS_CardinalityType
<1>4. Cardinality(U) <= Cardinality(S) + 1
  BY <1>1, <1>3
<1> QED BY <1>2, <1>3, <1>4

LEMMA OneForOne ==
    ASSUME NEW S, NEW T, NEW a \in S, NEW b, IsFiniteSet(S), T \subseteq (S \ {a}) \union {b}
    PROVE  IsFiniteSet(T) /\ Cardinality(T) <= Cardinality(S)
<1>1. IsFiniteSet(S \ {a}) /\ Cardinality(S \ {a}) = Cardinality(S) - 1 /\ Cardinality(S) \in Nat
  BY FS_RemoveElement, FS_CardinalityType
<1>2. IsFiniteSet(T) /\ Cardinality(T) <= Cardinality(S \ {a}) + 1
  BY <1>1, OneMore
<1> QED BY <1>1, <1>2, FS_CardinalityType

LEMMA NoMore ==
    ASSUME NEW S, NEW T, IsFiniteSet(S),
           T \subseteq S \/ \E a \in S : \E b : T \subseteq (S \ {a}) \union {b}
    PROVE  Cardinality(T) \in 0 .. Cardinality(S)
<1>1. IsFiniteSet(T) /\ Cardinality(T) <= Cardinality(S)
  BY OneForOne, FS_Subset
<1>2. Cardinality(T) \in Nat /\ Cardinality(S) \in Nat
  BY <1>1, FS_CardinalityType
<1> QED BY <1>1, <1>2

LEMMA TwoLists ==
    ASSUME NEW S, NEW T, IsFiniteSet(S), IsFiniteSet(T)
    PROVE  /\ IsFiniteSet(S \union T)
           /\ Cardinality(S \union T) <= Cardinality(S) + Cardinality(T)
           /\ Cardinality(S \union T) \in Nat
<1>1. /\ IsFiniteSet(S \union T)
      /\ Cardinality(S \union T) = Cardinality(S) + Cardinality(T) - Cardinality(S \cap T)
  BY FS_Union
<1>2. IsFiniteSet(S \cap T)
  BY FS_Intersection
<1>3. /\ Cardinality(S) \in Nat /\ Cardinality(T) \in Nat /\ Cardinality(S \cap T) \in Nat
      /\ Cardinality(S \union T) \in Nat
  BY <1>1, <1>2, FS_CardinalityType
<1> QED BY <1>1, <1>3

(* Particle::grow makes an array large enough and never smaller.           *)
LEMMA GrownIsEnough ==
    ASSUME NEW size \in Nat, NEW need \in Nat
    PROVE  Grown(size, need) \in Nat /\ Grown(size, need) >= need /\ Grown(size, need) >= size
<1>1. CASE need <= size
  BY <1>1 DEF Grown
<1>2. CASE need > size
  <2> DEFINE m == need - size + Chunk - 1
             d == m \div Chunk
  <2>1. m \in Nat /\ Chunk \in Nat \ {0}
    BY <1>2, ChunkAssumption
  <2>2. d \in Nat /\ Chunk * d <= m /\ m < Chunk * d + Chunk
    <3> HIDE DEF m
    <3> QED BY <2>1, ChunkAssumption
  <2>3. Grown(size, need) = size + Chunk * d
    BY <1>2 DEF Grown
  <2> DEFINE e == Chunk * d
  <2>4. e \in Nat
    <3> HIDE DEF d
    <3> QED BY <2>1, <2>2
  <2>5. e <= m /\ m < e + Chunk /\ Grown(size, need) = size + e
    BY <2>2, <2>3
  <2> HIDE DEF d, e
  <2> QED BY <2>1, <2>4, <2>5
<1> QED BY <1>1, <1>2

(* The particles of a process, and those of them that may still leave it.  *)
PlacesAt(p) == {InTodo(p), InKept(p), OnMlist(p), InWalk(p)}
Outgoing(p) == todo[p] \union leaving[p] \union Moving(p)

LEMMA MineIs ==
    ASSUME NEW p \in Proc
    PROVE  /\ \A c : c \in Mine(p) <=> \E s \in PlacesAt(p) : c \in Content[s]
           /\ \A c : c \in Mine(p)' <=> \E s \in PlacesAt(p) : c \in Content'[s]
           /\ \A c : c \in Outgoing(p) <=> \E s \in PlacesAt(p) \ {InKept(p)} : c \in Content[s]
           /\ \A c : c \in Outgoing(p)' <=> \E s \in PlacesAt(p) \ {InKept(p)} : c \in Content'[s]
           /\ PlacesAt(p) \subseteq PlacesOf
           /\ \A q \in Proc : PlacesAt(p) \cap PlacesAt(q) # {} => p = q
<1>1. /\ Content[InTodo(p)] = todo[p] /\ Content[InKept(p)] = kept[p]
      /\ Content[OnMlist(p)] = leaving[p] /\ Content[InWalk(p)] = Moving(p)
      /\ PlacesAt(p) \subseteq PlacesOf
  BY ContentOf DEF PlacesAt
<1>2. /\ Content'[InTodo(p)] = todo'[p] /\ Content'[InKept(p)] = kept'[p]
      /\ Content'[OnMlist(p)] = leaving'[p] /\ Content'[InWalk(p)] = Moving(p)'
  BY ContentThen
<1>3. InKept(p) \notin {InTodo(p), OnMlist(p), InWalk(p)}
  BY PlacesDiffer
<1>4. \A q \in Proc : PlacesAt(p) \cap PlacesAt(q) # {} => p = q
  BY PlacesDiffer DEF PlacesAt
<1>5. \A c : c \in Mine(p) <=> \E s \in PlacesAt(p) : c \in Content[s]
  BY <1>1 DEF PlacesAt, Mine
<1>6. \A c : c \in Mine(p)' <=> \E s \in PlacesAt(p) : c \in Content'[s]
  BY <1>2 DEF PlacesAt, Mine
<1>7. \A c : c \in Outgoing(p) <=> \E s \in PlacesAt(p) \ {InKept(p)} : c \in Content[s]
  BY <1>1, <1>3 DEF PlacesAt, Outgoing
<1>8. \A c : c \in Outgoing(p)' <=> \E s \in PlacesAt(p) \ {InKept(p)} : c \in Content'[s]
  BY <1>2, <1>3 DEF PlacesAt, Outgoing
<1> QED BY <1>1, <1>4, <1>5, <1>6, <1>7, <1>8

LEMMA MineFinite ==
    ASSUME MoveInv, Alone, NEW p \in Proc
    PROVE  /\ IsFiniteSet(Mine(p)) /\ IsFiniteSet(kept[p]) /\ IsFiniteSet(Outgoing(p))
           /\ AllPosted(batches, p) => IsFiniteSet(Incoming(p))
<1>1. Mine(p) \subseteq Particles
  BY DEF MoveInv, TypeOK, ListsType, WalkerType, Mine, Moving
<1>2. \A a, b \in Mine(p) : a.id = b.id => a = b
  BY MineIs DEF Alone
<1>3. IsFiniteSet(Mine(p))
  BY <1>1, <1>2, FewParticles
<1>4. kept[p] \subseteq Mine(p) /\ Outgoing(p) \subseteq Mine(p)
  BY DEF Mine, Outgoing
<1>5. IsFiniteSet(kept[p]) /\ IsFiniteSet(Outgoing(p))
  BY <1>3, <1>4, FS_Subset
<1>6. ASSUME AllPosted(batches, p) PROVE IsFiniteSet(Incoming(p))
  <2>1. Incoming(p) \subseteq Particles
    BY <1>6, IncomingType DEF MoveInv, TypeOK
  <2>2. 1 \in Nat \ {0}
    OBVIOUS
  <2>3. \A c : c \in Incoming(p) => \E q \in Proc : InMail(q, p, 1) \in PlacesOf /\ c \in Content[InMail(q, p, 1)]
    BY <1>6, <2>2, IncomingIs, ContentOf DEF MoveInv, TypeOK
  <2>4. \A a, b \in Incoming(p) : a.id = b.id => a = b
    BY <2>3 DEF Alone
  <2> QED BY <2>1, <2>4, FewParticles
<1> QED BY <1>3, <1>5, <1>6

(* A step that carries a particle within a process needs no more room ...  *)
LEMMA CarriedMine ==
    ASSUME MoveInv, Alone, NEW p \in Proc, NEW f \in {InTodo(p), InWalk(p)},
           NEW t \in {InKept(p), OnMlist(p), InWalk(p)}, NEW a, NEW b, Carry(f, a, t, b)
    PROVE  \A q \in Proc : /\ nlocal(q)' \in 0 .. nlocal(q)
                           /\ Cardinality(Outgoing(q))' \in 0 .. Cardinality(Outgoing(q))
<1>1. f \in PlacesAt(p) \ {InKept(p)} /\ t \in PlacesAt(p)
  BY PlacesDiffer DEF PlacesAt
<1>2. /\ a \in Content[f] /\ f \in PlacesOf
      /\ \A s \in PlacesOf : \A c :
            c \in Content'[s] => (s = t /\ c = b) \/ (c \in Content[s] /\ ~(s = f /\ c = a))
  <2>1. \A s \in PlacesOf : \A c :
            c \in Content'[s] <=> (s = t /\ c = b) \/ (c \in Content[s] /\ ~(s = f /\ c = a))
    BY Zenon DEF Carry
  <2> QED BY <2>1, Zenon DEF Carry
<1>3. ASSUME NEW q \in Proc, NEW s \in PlacesAt(q), NEW c \in Content'[s]
      PROVE  \/ c \in Content[s] /\ (q = p => c # a)
             \/ q = p /\ c = b
  <2>1. s \in PlacesOf /\ (s = t => q = p)
    BY <1>1, MineIs
  <2>2. \A r \in PlacesOf : a \in Content[r] => r = f
    BY <1>2 DEF Alone
  <2> QED BY <1>2, <2>1, <2>2
<1>4. ASSUME NEW q \in Proc
      PROVE  nlocal(q)' \in 0 .. nlocal(q)
  <2>1. IsFiniteSet(Mine(q))
    BY MineFinite
  <2>2. CASE q = p
    <3>1. a \in Mine(p) /\ Mine(p)' \subseteq (Mine(p) \ {a}) \union {b}
      BY <1>1, <1>2, <1>3, MineIs
    <3> QED BY <2>1, <2>2, <3>1, NoMore DEF nlocal
  <2>3. CASE q # p
    <3>1. Mine(q)' \subseteq Mine(q)
      BY <1>3, <2>3, MineIs
    <3> QED BY <2>1, <3>1, NoMore DEF nlocal
  <2> QED BY <2>2, <2>3
<1>5. ASSUME NEW q \in Proc
      PROVE  Cardinality(Outgoing(q))' \in 0 .. Cardinality(Outgoing(q))
  <2>1. IsFiniteSet(Outgoing(q))
    BY MineFinite
  <2>2. CASE q = p
    <3>1. a \in Outgoing(p) /\ Outgoing(p)' \subseteq (Outgoing(p) \ {a}) \union {b}
      BY <1>1, <1>2, <1>3, MineIs
    <3> QED BY <2>1, <2>2, <3>1, NoMore
  <2>3. CASE q # p
    <3>1. Outgoing(q)' \subseteq Outgoing(q)
      BY <1>3, <2>3, MineIs
    <3> QED BY <2>1, <3>1, NoMore
  <2> QED BY <2>2, <2>3
<1> QED BY <1>4, <1>5

-----------------------------------------------------------------------------
(* Room.  The list must have entries for all that this pass may put on it. *)
RoomType == maxlocal \in [Proc -> Nat] /\ maxmigrate \in [Proc -> Nat]
MlistFits == \A p \in Proc : pc[p] # "idle" => Cardinality(Outgoing(p)) <= maxmigrate[p]

LEMMA RoomInit == Init => RoomType /\ ArrayHasRoom /\ MlistFits
<1> SUFFICES ASSUME Init PROVE RoomType /\ ArrayHasRoom /\ MlistFits
  OBVIOUS
<1>1. MoveInv /\ Alone
  BY MoveInit, AloneInit
<1>2. ASSUME NEW p \in Proc
      PROVE  maxlocal[p] \in Nat /\ nlocal(p) <= maxlocal[p]
  <2>1. Mine(p) = kept[p]
    BY DEF Init, Mine, Moving
  <2>2. IsFiniteSet(kept[p])
    BY <1>1, MineFinite
  <2>3. Cardinality(kept[p]) \in Nat
    BY <2>2, FS_CardinalityType
  <2>4. maxlocal[p] = Grown(0, Cardinality(kept[p]))
    BY DEF Init
  <2> QED BY <2>1, <2>3, <2>4, GrownIsEnough DEF nlocal
<1>3. maxlocal = [p \in Proc |-> maxlocal[p]]
  BY DEF Init
<1> QED BY <1>2, <1>3 DEF Init, RoomType, ArrayHasRoom, MlistFits

(* ... and the others make it first.                                       *)
LEMMA CreateRoom ==
    ASSUME MoveInv, Alone, RoomType, ArrayHasRoom, NEW p \in Proc, Create(p)
    PROVE  RoomType' /\ ArrayHasRoom'
<1>1. PICK id \in Ids :
        /\ pc[p] = "walk" /\ pc' = pc
        /\ part' = [part EXCEPT ![p] = Bounced(part[p])]
        /\ todo' = [todo EXCEPT ![p] = @ \union {[Bounced(part[p]) EXCEPT !.id = id, !.flag = "surf"]}]
        /\ maxlocal' = [maxlocal EXCEPT ![p] = Grown(maxlocal[p], nlocal(p) + 1)]
        /\ UNCHANGED <<kept, leaving, batches, maxmigrate>>
  BY DEF Create, AtWall, Walking, mail, MoveInv, TypeOK, WalkerType, RoomType
<1> DEFINE b == Bounced(part[p])
           c == [Bounced(part[p]) EXCEPT !.id = id, !.flag = "surf"]
<1>2. part' = [part EXCEPT ![p] = b] /\ todo' = [todo EXCEPT ![p] = @ \union {c}]
  BY <1>1
<1> HIDE DEF b, c
<1>3. todo \in [Proc -> SUBSET Particles] /\ part \in [Proc -> Particles \union {NoPart}]
  BY DEF MoveInv, TypeOK, ListsType, WalkerType
<1>4. \A q \in Proc \ {p} : Mine(q)' = Mine(q)
  BY <1>1, <1>2, <1>3 DEF Mine, Moving
<1>5. Mine(p)' \subseteq ((Mine(p) \ {part[p]}) \union {b}) \union {c}
  <2>1. Moving(p)' = {b} /\ Moving(p) = {part[p]} /\ todo'[p] = todo[p] \union {c}
    BY <1>1, <1>2, <1>3 DEF Moving
  <2>2. part[p] \notin todo[p] \union kept[p] \union leaving[p]
    <3>1. part[p] \in Content[InWalk(p)]
      BY <2>1, ContentOf
    <3>2. \A s \in PlacesOf : part[p] \in Content[s] => s = InWalk(p)
      BY <3>1, ContentOf DEF Alone
    <3> QED BY <3>2, ContentOf, PlacesDiffer
  <2> QED BY <1>1, <2>1, <2>2 DEF Mine
<1>6. IsFiniteSet(Mine(p)) /\ Cardinality(Mine(p)) \in Nat /\ part[p] \in Mine(p)
  BY <1>1, MineFinite, FS_CardinalityType DEF Mine, Moving
<1>7. Cardinality(Mine(p)') \in Nat /\ Cardinality(Mine(p)') <= Cardinality(Mine(p)) + 1
  <2> DEFINE S == Mine(p)
             T == (S \ {part[p]}) \union {b}
  <2>1. IsFiniteSet(T) /\ Cardinality(T) <= Cardinality(S)
    <3> HIDE DEF S
    <3>1. IsFiniteSet(S) /\ part[p] \in S
      BY <1>6 DEF S
    <3> QED BY <3>1, OneForOne
  <2> HIDE DEF T
  <2>2. IsFiniteSet(Mine(p)') /\ Cardinality(Mine(p)') <= Cardinality(T) + 1
    BY <1>5, <2>1, OneMore DEF T
  <2>3. Cardinality(T) \in Nat /\ Cardinality(Mine(p)') \in Nat
    BY <2>1, <2>2, FS_CardinalityType
  <2> QED BY <1>6, <2>1, <2>2, <2>3
<1>8. nlocal(p) + 1 \in Nat /\ maxlocal[p] \in Nat
  BY <1>6 DEF nlocal, RoomType
<1>9. /\ Grown(maxlocal[p], nlocal(p) + 1) \in Nat
      /\ Grown(maxlocal[p], nlocal(p) + 1) >= nlocal(p) + 1
  BY <1>8, GrownIsEnough
<1>10. maxlocal'[p] = Grown(maxlocal[p], nlocal(p) + 1) /\ \A q \in Proc \ {p} : maxlocal'[q] = maxlocal[q]
  BY <1>1 DEF RoomType
<1>11. RoomType'
  BY <1>1, <1>9 DEF RoomType
<1>12. nlocal(p)' <= maxlocal'[p]
  <2>1. nlocal(p)' <= nlocal(p) + 1
    BY <1>7 DEF nlocal
  <2>2. nlocal(p)' \in Nat
    BY <1>7 DEF nlocal
  <2> QED BY <1>8, <1>9, <1>10, <2>1, <2>2
<1>13. \A q \in Proc \ {p} : nlocal(q)' = nlocal(q)
  BY <1>4 DEF nlocal
<1> QED BY <1>10, <1>11, <1>12, <1>13 DEF ArrayHasRoom

LEMMA UnpackRoom ==
    ASSUME MoveInv, Alone, RoomType, NEW p \in Proc, Continue(p) \/ EndHalf(p)
    PROVE  /\ maxlocal' = [maxlocal EXCEPT ![p] = maxlocal'[p]]
           /\ maxlocal'[p] \in Nat /\ nlocal(p)' <= maxlocal'[p]
           /\ \A q \in Proc \ {p} : Mine(q)' = Mine(q) /\ Outgoing(q)' = Outgoing(q)
<1>1. /\ pc[p] = "unpack" /\ pc'[p] # "walk" /\ \A q \in Proc \ {p} : pc'[q] = pc[q]
      /\ AllPosted(batches, p)
      /\ maxlocal' = [maxlocal EXCEPT ![p] =
                        Grown(maxlocal[p], Cardinality(kept[p]) + Cardinality(Incoming(p)))]
      /\ UNCHANGED <<leaving, part>>
  BY DEF Continue, EndHalf, Go, Unpack, MoveInv, TypeOK, ControlType, RoomType
<1>2. /\ todo \in [Proc -> SUBSET Particles] /\ kept \in [Proc -> SUBSET Particles]
      /\ todo[p] = {} /\ leaving[p] = {}
  BY <1>1 DEF MoveInv, TypeOK, ListsType, ListsUsed
<1>3. /\ IsFiniteSet(kept[p] \union Incoming(p))
      /\ Cardinality(kept[p] \union Incoming(p)) <= Cardinality(kept[p]) + Cardinality(Incoming(p))
      /\ Cardinality(kept[p] \union Incoming(p)) \in Nat
      /\ Cardinality(kept[p]) + Cardinality(Incoming(p)) \in Nat
  <2>1. IsFiniteSet(kept[p]) /\ IsFiniteSet(Incoming(p))
    BY <1>1, MineFinite
  <2>2. Cardinality(kept[p]) \in Nat /\ Cardinality(Incoming(p)) \in Nat
    BY <2>1, FS_CardinalityType
  <2> QED BY <2>1, <2>2, TwoLists
<1>4. Mine(p)' = kept[p] \union Incoming(p)
  <2>1. Moving(p)' = {} /\ leaving'[p] = {}
    BY <1>1, <1>2 DEF Moving
  <2>2. todo'[p] \union kept'[p] = kept[p] \union Incoming(p)
    BY <1>2 DEF Continue, EndHalf, NextPass
  <2> QED BY <2>1, <2>2 DEF Mine
<1>5. \A q \in Proc \ {p} : Mine(q)' = Mine(q) /\ Outgoing(q)' = Outgoing(q)
  <2>1. \A q \in Proc \ {p} : Moving(q)' = Moving(q) /\ leaving'[q] = leaving[q]
    BY <1>1 DEF Moving
  <2>2. \A q \in Proc \ {p} : todo'[q] = todo[q] /\ kept'[q] = kept[q]
    BY <1>2 DEF Continue, EndHalf
  <2> QED BY <2>1, <2>2 DEF Mine, Outgoing
<1>6. DOMAIN maxlocal = Proc /\ maxlocal[p] \in Nat
  BY DEF RoomType
<1>7. maxlocal'[p] = Grown(maxlocal[p], Cardinality(kept[p]) + Cardinality(Incoming(p)))
  BY <1>1, <1>6
<1>8. maxlocal'[p] \in Nat /\ maxlocal'[p] >= Cardinality(kept[p]) + Cardinality(Incoming(p))
  BY <1>3, <1>6, <1>7, GrownIsEnough
<1>9. nlocal(p)' <= maxlocal'[p]
  BY <1>3, <1>4, <1>8 DEF nlocal
<1> QED BY <1>1, <1>5, <1>7, <1>8, <1>9

LEMMA RoomStep ==
    ASSUME MoveInv, Alone, RoomType, ArrayHasRoom, NEW p \in Proc, Step(p)
    PROVE  RoomType' /\ ArrayHasRoom'
<1>1. \A q \in Proc : maxlocal[q] \in Nat /\ nlocal(q) \in Nat /\ nlocal(q) <= maxlocal[q]
  BY MineFinite, FS_CardinalityType DEF nlocal, RoomType, ArrayHasRoom
<1>2. ASSUME maxlocal' = maxlocal, maxmigrate' \in [Proc -> Nat],
             \A q \in Proc : nlocal(q)' \in 0 .. nlocal(q)
      PROVE  RoomType' /\ ArrayHasRoom'
  <2>1. RoomType'
    BY <1>2 DEF RoomType
  <2>2. \A q \in Proc : nlocal(q)' <= maxlocal'[q]
    BY <1>1, <1>2
  <2> QED BY <2>1, <2>2 DEF ArrayHasRoom
<1>3. CASE \/ Skip(p) \/ Jump(p) \/ Pick(p) \/ Interior(p) \/ Cross(p) \/ EnterEmpty(p)
           \/ ExitUnknown(p) \/ Outflow(p) \/ Bounce(p) \/ Destroy(p)
  <2>1. maxlocal' = maxlocal /\ maxmigrate' = maxmigrate
    BY <1>3 DEF Skip, Jump, Pick, Interior, Cross, EnterEmpty, ExitUnknown, Outflow, Bounce, Destroy,
                room
  <2>2. PICK f \in {InTodo(p), InWalk(p)}, t \in {InKept(p), OnMlist(p), InWalk(p)} :
            \E a, b : Carry(f, a, t, b)
    BY <1>3, OneCarried
  <2>3. \A q \in Proc : nlocal(q)' \in 0 .. nlocal(q)
    BY <2>2, CarriedMine
  <2> QED BY <1>2, <2>1, <2>3 DEF RoomType
<1>4. CASE StartMove(p) \/ Pack(p)
  <2>1. maxlocal' = maxlocal
    BY <1>4 DEF StartMove, Pack, room
  <2>2. maxmigrate' \in [Proc -> Nat]
    BY <1>4 DEF StartMove, Pack, room, RoomType, ExtendedMlist
  <2>3. \A q \in Proc : Mine(q)' \subseteq Mine(q)
    <3>1. /\ leaving \in [Proc -> SUBSET Particles] /\ todo \in [Proc -> SUBSET Particles]
          /\ kept \in [Proc -> SUBSET Particles] /\ pc \in [Proc -> Places]
      BY DEF MoveInv, TypeOK, ListsType, ControlType
    <3>2. \A q \in Proc : Moving(q)' = Moving(q)
      BY <1>4, <3>1 DEF StartMove, Pack, Go, Moving
    <3>3. \A q \in Proc : todo'[q] \union kept'[q] \union leaving'[q] \subseteq
                          todo[q] \union kept[q] \union leaving[q]
      BY <1>4, <3>1 DEF StartMove, Pack
    <3> QED BY <3>2, <3>3 DEF Mine
  <2>4. \A q \in Proc : nlocal(q)' \in 0 .. nlocal(q)
    BY <2>3, MineFinite, NoMore DEF nlocal
  <2> QED BY <1>2, <2>1, <2>2, <2>4
<1>5. CASE EndPass(p) \/ EndOnlyPass(p) \/ Reduced(p)
  <2>1. maxlocal' = maxlocal /\ maxmigrate' = maxmigrate
    BY <1>5 DEF EndPass, EndOnlyPass, Reduced, room
  <2>2. \A s \in PlacesOf : Content'[s] = Content[s]
    BY <1>5, SameEnds
  <2>3. \A q \in Proc : Mine(q)' = Mine(q)
    <3> SUFFICES ASSUME NEW q \in Proc, NEW c PROVE c \in Mine(q)' <=> c \in Mine(q)
      OBVIOUS
    <3> QED BY <2>2, MineIs
  <2> QED BY <1>1, <1>2, <2>1, <2>3 DEF nlocal, RoomType
<1>6. CASE Create(p)
  BY <1>6, CreateRoom
<1>7. CASE Continue(p) \/ EndHalf(p)
  <2>1. /\ maxlocal' = [maxlocal EXCEPT ![p] = maxlocal'[p]]
        /\ maxlocal'[p] \in Nat /\ nlocal(p)' <= maxlocal'[p]
        /\ \A q \in Proc \ {p} : Mine(q)' = Mine(q)
    BY <1>7, UnpackRoom
  <2>2. maxmigrate' \in [Proc -> Nat]
    <3>1. CASE EndHalf(p)
      BY <3>1 DEF EndHalf, RoomType
    <3>2. CASE Continue(p)
      <4>1. Cardinality(Incoming(p)) \in Nat
        BY <3>2, MineFinite, FS_CardinalityType DEF Continue, Unpack
      <4>2. maxmigrate[p] \in Nat
        BY DEF RoomType
      <4>3. Max({maxmigrate[p], Cardinality(Incoming(p))}) \in Nat
        BY <4>1, <4>2, MaxOfTwo
      <4> QED BY <3>2, <4>3 DEF Continue, RoomType
    <3> QED BY <1>7, <3>1, <3>2
  <2>3. DOMAIN maxlocal = Proc /\ \A q \in Proc \ {p} : maxlocal'[q] = maxlocal[q]
    BY <2>1 DEF RoomType
  <2>4. RoomType'
    BY <2>1, <2>2 DEF RoomType
  <2> QED BY <1>1, <2>1, <2>3, <2>4 DEF ArrayHasRoom, nlocal
<1> QED BY <1>3, <1>4, <1>5, <1>6, <1>7 DEF Step

LEMMA MlistStep ==
    ASSUME NoReactions, MoveInv, Alone, RoomType, ArrayHasRoom, MlistFits, NEW p \in Proc, Step(p)
    PROVE  MlistFits'
<1>1. \A q \in Proc : Cardinality(Outgoing(q)) \in Nat /\ maxmigrate[q] \in Nat
  BY MineFinite, FS_CardinalityType DEF RoomType
<1>2. ASSUME maxmigrate' = maxmigrate, \A q \in Proc : pc'[q] # "idle" => pc[q] # "idle",
             \A q \in Proc : Cardinality(Outgoing(q))' \in 0 .. Cardinality(Outgoing(q))
      PROVE  MlistFits'
  BY <1>1, <1>2 DEF MlistFits
<1>3. pc \in [Proc -> Places]
  BY DEF MoveInv, TypeOK, ControlType
<1>4. CASE \/ Skip(p) \/ Jump(p) \/ Pick(p) \/ Interior(p) \/ Cross(p) \/ EnterEmpty(p)
           \/ ExitUnknown(p) \/ Outflow(p) \/ Bounce(p)
  <2>1. maxmigrate' = maxmigrate
    BY <1>4 DEF Skip, Jump, Pick, Interior, Cross, EnterEmpty, ExitUnknown, Outflow, Bounce, room
  <2>2. \A q \in Proc : pc'[q] # "idle" => pc[q] # "idle"
    BY <1>3, <1>4 DEF Skip, Jump, Pick, Interior, Cross, EnterEmpty, ExitUnknown, Outflow, Bounce,
                      Stop, Discard, Go
  <2>3. PICK f \in {InTodo(p), InWalk(p)}, t \in {InKept(p), OnMlist(p), InWalk(p)} :
            \E a, b : Carry(f, a, t, b)
    BY <1>4, OneCarried
  <2>4. \A q \in Proc : Cardinality(Outgoing(q))' \in 0 .. Cardinality(Outgoing(q))
    BY <2>3, CarriedMine
  <2> QED BY <1>2, <2>1, <2>2, <2>4
<1>5. CASE StartMove(p)
  <2>1. /\ pc[p] = "idle" /\ pc' = [pc EXCEPT ![p] = "pass"] /\ todo'[p] = kept[p]
        /\ leaving' = leaving /\ leaving[p] = {} /\ part' = part
        /\ \A q \in Proc \ {p} : todo'[q] = todo[q]
        /\ maxmigrate' = [maxmigrate EXCEPT ![p] = ExtendedMlist(p)]
    BY <1>5 DEF StartMove, Go, MoveInv, TypeOK, ListsType, ListsUsed
  <2>2. \A q \in Proc \ {p} : Outgoing(q)' = Outgoing(q)
    BY <1>3, <2>1 DEF Outgoing, Moving
  <2>3. Outgoing(p)' = kept[p]
    BY <1>3, <2>1 DEF Outgoing, Moving
  <2>4. Cardinality(kept[p]) \in 0 .. nlocal(p) /\ nlocal(p) \in Nat
    <3>1. IsFiniteSet(Mine(p)) /\ kept[p] \subseteq Mine(p)
      BY MineFinite DEF Mine
    <3> QED BY <3>1, NoMore, FS_CardinalityType DEF nlocal
  <2>5. maxmigrate'[p] >= Cardinality(kept[p])
    <3>1. maxmigrate'[p] = ExtendedMlist(p) /\ maxlocal[p] \in Nat
      BY <2>1 DEF RoomType
    <3>2. nlocal(p) <= maxlocal[p]
      BY DEF ArrayHasRoom
    <3> QED BY <1>1, <2>4, <3>1, <3>2 DEF ExtendedMlist
  <2>6. \A q \in Proc \ {p} : maxmigrate'[q] = maxmigrate[q] /\ pc'[q] = pc[q]
    BY <1>3, <2>1 DEF RoomType
  <2>7. maxmigrate'[p] \in Nat
    BY RoomStep DEF RoomType
  <2> QED BY <2>2, <2>3, <2>4, <2>5, <2>6, <2>7 DEF MlistFits
<1>6. CASE Pack(p) \/ EndPass(p) \/ EndOnlyPass(p) \/ Reduced(p)
  <2>1. maxmigrate' = maxmigrate
    BY <1>6 DEF Pack, EndPass, EndOnlyPass, Reduced, room
  <2>2. \A q \in Proc : pc'[q] # "idle" => pc[q] # "idle"
    BY <1>3, <1>6 DEF Pack, EndPass, EndOnlyPass, Reduced, Go
  <2>3. \A q \in Proc : Outgoing(q)' \subseteq Outgoing(q)
    <3>1. \A q \in Proc : Moving(q)' = Moving(q)
      BY <1>3, <1>6 DEF Pack, EndPass, EndOnlyPass, Reduced, Go, Moving
    <3>2. \A q \in Proc : todo'[q] = todo[q] /\ leaving'[q] \subseteq leaving[q]
      BY <1>6 DEF Pack, EndPass, EndOnlyPass, Reduced, lists, MoveInv, TypeOK, ListsType
    <3> QED BY <3>1, <3>2 DEF Outgoing
  <2>4. \A q \in Proc : Cardinality(Outgoing(q))' \in 0 .. Cardinality(Outgoing(q))
    BY <2>3, MineFinite, NoMore
  <2> QED BY <1>2, <2>1, <2>2, <2>4
<1>7. CASE Continue(p)
  <2>1. \A q \in Proc \ {p} : Outgoing(q)' = Outgoing(q)
    BY <1>7, UnpackRoom
  <2>2. /\ pc[p] = "unpack" /\ pc' = [pc EXCEPT ![p] = "pass"] /\ AllPosted(batches, p)
        /\ todo'[p] = Incoming(p) /\ leaving' = leaving /\ leaving[p] = {}
        /\ maxmigrate' = [maxmigrate EXCEPT ![p] = Max({@, Cardinality(Incoming(p))})]
    BY <1>7 DEF Continue, Unpack, Go, NextPass, MoveInv, TypeOK, ListsType, ListsUsed
  <2>3. Outgoing(p)' = Incoming(p)
    BY <1>3, <2>2 DEF Outgoing, Moving
  <2>4. Cardinality(Incoming(p)) \in Nat
    BY <2>2, MineFinite, FS_CardinalityType
  <2>5. maxmigrate'[p] = Max({maxmigrate[p], Cardinality(Incoming(p))})
    BY <2>2 DEF RoomType
  <2>6. maxmigrate'[p] >= Cardinality(Incoming(p))
    BY <1>1, <2>4, <2>5, MaxOfTwo
  <2>7. \A q \in Proc \ {p} : maxmigrate'[q] = maxmigrate[q] /\ pc'[q] = pc[q]
    BY <1>3, <2>2 DEF RoomType
  <2>8. maxmigrate'[p] \in Nat
    BY <1>1, <2>4, <2>5, MaxOfTwo
  <2> QED BY <2>1, <2>3, <2>4, <2>6, <2>7, <2>8 DEF MlistFits
<1>8. CASE EndHalf(p)
  <2>1. \A q \in Proc \ {p} : Outgoing(q)' = Outgoing(q)
    BY <1>8, UnpackRoom
  <2>2. maxmigrate' = maxmigrate /\ pc' = [pc EXCEPT ![p] = "idle"]
    BY <1>8 DEF EndHalf, Go
  <2> QED BY <1>3, <2>1, <2>2 DEF MlistFits
<1> QED BY <1>4, <1>5, <1>6, <1>7, <1>8, NoneCreated DEF Step

(* Particles keep their ids, and no two have the same one, wherever they   *)
(* are.                                                                    *)
LEMMA RoomSame ==
    ASSUME UNCHANGED vars, RoomType, ArrayHasRoom, MlistFits
    PROVE  RoomType' /\ ArrayHasRoom' /\ MlistFits'
<1>1. \A q \in Proc : Mine(q)' = Mine(q) /\ Outgoing(q)' = Outgoing(q)
  BY DEF vars, lists, Mine, Outgoing, Moving
<1>2. UNCHANGED <<pc, maxlocal, maxmigrate>>
  BY DEF vars, room
<1> QED BY <1>1, <1>2 DEF RoomType, ArrayHasRoom, MlistFits, nlocal

(* Comm::migrate_particles calls Particle::grow for what it receives after *)
(* the particles that left are compressed away: with the particles created *)
(* by reactions, the array always has room for all that are in it.         *)
THEOREM ArrayIsLargeEnough == Spec => []ArrayHasRoom
<1>1. MoveInv /\ Alone /\ RoomType /\ ArrayHasRoom /\ [Next]_vars => RoomType' /\ ArrayHasRoom'
  <2>1. ASSUME UNCHANGED vars, RoomType, ArrayHasRoom PROVE RoomType' /\ ArrayHasRoom'
    <3>1. \A q \in Proc : Mine(q)' = Mine(q)
      BY <2>1 DEF vars, lists, Mine, Moving
    <3>2. UNCHANGED <<maxlocal, maxmigrate>>
      BY <2>1 DEF vars, room
    <3> QED BY <2>1, <3>1, <3>2 DEF RoomType, ArrayHasRoom, nlocal
  <2> QED BY <2>1, RoomStep DEF Next, Done
<1> QED BY <1>1, RoomInit, AloneInvariant, PTL DEF Spec

(* Update::move writes mlist without a test of its length.  It is resized  *)
(* when a move begins with more particles than it has entries, and when    *)
(* more were received than it has: every particle that a pass may still    *)
(* put on the list has an entry.  A particle created by a reaction in the  *)
(* pass is one more than was counted.                                      *)
THEOREM MlistIsLargeEnough ==
    ASSUME NoReactions
    PROVE  Spec => []MlistHasRoom
<1>1. MoveInv /\ Alone /\ RoomType /\ ArrayHasRoom /\ MlistFits /\ [Next]_vars
      => RoomType' /\ ArrayHasRoom' /\ MlistFits'
  BY RoomSame, RoomStep, MlistStep DEF Next, Done
<1>2. MoveInv /\ Alone /\ RoomType /\ MlistFits => MlistHasRoom
  <2> SUFFICES ASSUME MoveInv, Alone, RoomType, MlistFits, NEW p \in Proc
               PROVE  Cardinality(leaving[p]) <= maxmigrate[p]
    BY DEF MlistHasRoom
  <2>1. Cardinality(leaving[p]) \in 0 .. Cardinality(Outgoing(p)) /\ Cardinality(Outgoing(p)) \in Nat
    <3>1. leaving[p] \subseteq Outgoing(p) /\ IsFiniteSet(Outgoing(p))
      BY MineFinite DEF Outgoing
    <3> QED BY <3>1, NoMore, FS_CardinalityType
  <2>2. maxmigrate[p] \in Nat
    BY DEF RoomType
  <2>3. CASE pc[p] = "idle"
    <3>1. leaving[p] = {}
      BY <2>3 DEF MoveInv, TypeOK, ListsUsed
    <3> QED BY <2>2, <3>1, FS_EmptySet
  <2>4. CASE pc[p] # "idle"
    BY <2>1, <2>2, <2>4 DEF MlistFits
  <2> QED BY <2>3, <2>4
<1> QED BY <1>1, <1>2, RoomInit, AloneInvariant, PTL DEF Spec

-----------------------------------------------------------------------------
(* Part 3.  The processes are kept in step by their messages alone: the    *)
(* votes of the reduction and the particles of the migration.              *)
OneIf(b) == IF b THEN 1 ELSE 0
Migrating(p) == pc[p] \in {"pack", "unpack"}
Voted(p) == pc[p] \in {"reduce", "pack", "unpack"}
\* In the first pass of a move, or before it.
Fresh(p) == pc[p] = "idle" \/ first[p]

\* The migrations that p has finished and q has not.
Ahead(p, q) == Len(batches[p][q]) - OneIf(pc[p] = "unpack")

\* It is a difference of two counts, the half timesteps follow it, a vote is
\* there until the other process has read it, and the last migration of a move
\* is the one for which nobody voted.
Rounds == \A p, q, r \in Proc : Ahead(p, q) + Ahead(q, r) = Ahead(p, r)
Halves ==
    \A p, q \in Proc :
        /\ Ahead(p, q) = 0 => half[p] = half[q] /\ (Fresh(p) <=> Fresh(q))
        /\ Ahead(p, q) = 1 => half[p] = half[q] + OneIf(final[q]) /\ (Fresh(p) <=> final[q])
Votes ==
    \A p, q \in Proc :
        IF Cutoff < 0 THEN votes[p][q] = <<>>
        ELSE /\ Len(votes[p][q]) = Ahead(p, q) + OneIf(Voted(p)) - OneIf(Migrating(q))
             /\ votes[p][q] # <<>> => Head(votes[p][q]) = entryexit[p]
FinalWhen ==
    /\ \A p \in Proc : final[p] => Migrating(p)
    /\ Cutoff < 0 => \A p \in Proc : ~entryexit[p] /\ pc[p] # "reduce" /\ (Migrating(p) => final[p])
    /\ Cutoff >= 0 => \A p \in Proc : Migrating(p) /\ (\A q \in Proc : Ahead(q, p) = 0) =>
                         (final[p] <=> \A q \in Proc : ~entryexit[q])
FinalForAll ==
    \A p, q \in Proc : Ahead(p, q) = 0 /\ Migrating(p) /\ Migrating(q) => (final[p] <=> final[q])
SyncInv == Rounds /\ Halves /\ Votes /\ FinalWhen /\ FinalForAll

Local(p) == \/ Skip(p) \/ Jump(p) \/ Pick(p) \/ Interior(p) \/ Cross(p) \/ EnterEmpty(p)
            \/ ExitUnknown(p) \/ Outflow(p) \/ Bounce(p) \/ Destroy(p) \/ Create(p)

LEMMA AheadType ==
    ASSUME MoveInv
    PROVE  \A p, q \in Proc : Len(batches[p][q]) \in Nat /\ Ahead(p, q) \in Int
<1>1. \A p, q \in Proc : batches[p][q] \in Seq(SUBSET Particles)
  BY DEF MoveInv, TypeOK, MailType
<1>2. \A p, q \in Proc : Len(batches[p][q]) \in Nat
  BY <1>1
<1> QED BY <1>2 DEF Ahead, OneIf

(* Processes are at most one migration apart, and then the one behind has  *)
(* packed and the one ahead has not.                                       *)
LEMMA AtMostOneAhead ==
    ASSUME MoveInv, Rounds, NEW p \in Proc, NEW q \in Proc
    PROVE  /\ Ahead(p, p) = 0 /\ Ahead(q, p) + Ahead(p, q) = 0
           /\ Ahead(p, q) \in {-1, 0, 1}
           /\ Ahead(p, q) = 1 => pc[q] = "unpack" /\ batches[q][p] = <<>>
           /\ Ahead(p, q) = -1 => pc[p] = "unpack" /\ batches[p][q] = <<>>
<1>1. Ahead(p, q) \in Int /\ Ahead(q, p) \in Int /\ Ahead(p, p) \in Int
  BY AheadType
<1>2. Ahead(p, p) + Ahead(p, p) = Ahead(p, p) /\ Ahead(p, q) + Ahead(q, p) = Ahead(p, p)
  BY DEF Rounds
<1>3. Ahead(p, p) = 0 /\ Ahead(q, p) + Ahead(p, q) = 0
  <2>1. \A m, n, k \in Int : k + k = k /\ m + n = k => k = 0 /\ n + m = 0
    OBVIOUS
  <2> QED BY <1>1, <1>2, <2>1
<1>4. ASSUME NEW r \in Proc, NEW s \in Proc
      PROVE  Ahead(r, s) >= -1 /\ (Ahead(r, s) = -1 => pc[r] = "unpack" /\ batches[r][s] = <<>>)
  <2>1. batches[r][s] \in Seq(SUBSET Particles)
    BY DEF MoveInv, TypeOK, MailType
  <2>2. Len(batches[r][s]) \in Nat /\ (Len(batches[r][s]) = 0 => batches[r][s] = <<>>)
    BY <2>1
  <2> QED BY <2>2 DEF Ahead, OneIf
<1> QED BY <1>1, <1>3, <1>4

(* The parts of the state that the passes of processes are counted by.     *)
LEMMA LocalControl ==
    ASSUME MoveInv, NEW p \in Proc, Local(p)
    PROVE  /\ UNCHANGED <<half, first, final, votes, batches>>
           /\ pc[p] \in {"pass", "walk"} /\ pc'[p] \in {"pass", "walk"}
           /\ \A q \in Proc \ {p} : pc'[q] = pc[q] /\ entryexit'[q] = entryexit[q]
           /\ entryexit'[p] = entryexit[p] \/ (entryexit'[p] = TRUE /\ Cutoff >= 0)
<1>1. pc \in [Proc -> Places] /\ entryexit \in [Proc -> BOOLEAN]
  BY DEF MoveInv, TypeOK, ControlType
<1>2. ASSUME NEW c \in Cells, halo[p][c] \in {"empty", "unknown"}
      PROVE  Cutoff >= 0
  <2>1. Halo(owner, p, c) \in {"empty", "unknown"}
    BY <1>2 DEF MoveInv, GridInv
  <2> QED BY <2>1, CutoffAssumption DEF Halo
<1>3. Across(p) # 0 => Across(p) \in Cells
  BY AcrossIsCell DEF MoveInv, TypeOK
<1>4. CASE Skip(p) \/ Jump(p) \/ Pick(p)
  BY <1>1, <1>4 DEF Skip, Jump, Pick, Go, mail
<1>5. CASE Interior(p) \/ Outflow(p) \/ Destroy(p)
  BY <1>1, <1>5 DEF Interior, Outflow, Destroy, Discard, Stop, Go, mail
<1>6. CASE Cross(p) \/ Bounce(p) \/ Create(p)
  BY <1>1, <1>6 DEF Cross, Bounce, Create, AtWall, Walking, mail
<1>7. CASE EnterEmpty(p) \/ ExitUnknown(p)
  <2>1. Cutoff >= 0
    BY <1>2, <1>3, <1>7 DEF EnterEmpty, ExitUnknown
  <2> QED BY <1>1, <1>7, <2>1 DEF EnterEmpty, ExitUnknown, Stop, Go, mail
<1> QED BY <1>4, <1>5, <1>6, <1>7 DEF Local

(* A process that has unpacked is one migration further.                   *)
LEMMA AheadStep ==
    ASSUME MoveInv, NEW p \in Proc, Step(p)
    PROVE  \A q, r \in Proc :
              Ahead(q, r)' = IF Continue(p) \/ EndHalf(p)
                               THEN Ahead(q, r) + OneIf(q = p) - OneIf(r = p)
                               ELSE Ahead(q, r)
<1>1. batches \in [Proc -> [Proc -> Seq(SUBSET Particles)]] /\ pc \in [Proc -> Places]
  BY DEF MoveInv, TypeOK, MailType, ControlType
<1>2. \A q, r \in Proc : Len(batches[q][r]) \in Nat
  BY AheadType
<1>3. CASE Pack(p)
  <2>1. batches' = [batches EXCEPT ![p] = [r \in Proc |-> Append(batches[p][r], Sendbuf(p, r))]]
    BY <1>1, <1>3 DEF Pack, Post
  <2>2. \A q \in Proc \ {p} : batches'[q] = batches[q]
    BY <1>1, <2>1
  <2>3. \A r \in Proc : Len(batches'[p][r]) = Len(batches[p][r]) + 1
    <3> SUFFICES ASSUME NEW r \in Proc PROVE Len(batches'[p][r]) = Len(batches[p][r]) + 1
      OBVIOUS
    <3>1. batches[p][r] \in Seq(SUBSET Particles) /\ Sendbuf(p, r) \in SUBSET Particles
      BY <1>1 DEF Sendbuf, MoveInv, TypeOK, ListsType
    <3>2. batches'[p][r] = Append(batches[p][r], Sendbuf(p, r))
      BY <1>1, <2>1
    <3> QED BY <3>1, <3>2
  <2>4. pc[p] = "pack" /\ pc'[p] = "unpack" /\ \A q \in Proc \ {p} : pc'[q] = pc[q]
    BY <1>1, <1>3 DEF Pack, Go
  <2>5. ~Continue(p) /\ ~EndHalf(p)
    BY <2>4 DEF Continue, EndHalf, Go
  <2>6. ASSUME NEW q \in Proc, NEW r \in Proc PROVE Ahead(q, r)' = Ahead(q, r)
    <3>1. CASE q = p
      <4>1. Len(batches'[q][r]) = Len(batches[q][r]) + 1 /\ Len(batches[q][r]) \in Nat
        BY <1>2, <2>3, <3>1
      <4>2. Ahead(q, r) = Len(batches[q][r]) - 0
        BY <2>4, <3>1 DEF Ahead, OneIf
      <4>3. Ahead(q, r)' = Len(batches'[q][r]) - 1
        BY <2>4, <3>1 DEF Ahead, OneIf
      <4> QED BY <4>1, <4>2, <4>3
    <3>2. CASE q # p
      BY <2>2, <2>4, <3>2 DEF Ahead
    <3> QED BY <3>1, <3>2
  <2> QED BY <2>5, <2>6
<1>4. CASE Continue(p) \/ EndHalf(p)
  <2>1. batches' = Taken(batches, p) /\ AllPosted(batches, p) /\ pc[p] = "unpack" /\ pc'[p] # "unpack"
    BY <1>1, <1>4 DEF Continue, EndHalf, Unpack, Go
  <2>2. \A q, r \in Proc : Len(batches'[q][r]) = IF r = p THEN Len(batches[q][r]) - 1 ELSE Len(batches[q][r])
    <3> SUFFICES ASSUME NEW q \in Proc, NEW r \in Proc
                 PROVE Len(batches'[q][r]) = IF r = p THEN Len(batches[q][r]) - 1 ELSE Len(batches[q][r])
      OBVIOUS
    <3>1. batches'[q] = [batches[q] EXCEPT ![p] = Tail(batches[q][p])]
      BY <1>1, <2>1 DEF Taken
    <3>2. batches[q][p] \in Seq(SUBSET Particles) /\ batches[q][p] # <<>>
      BY <1>1, <2>1 DEF AllPosted
    <3>3. Len(Tail(batches[q][p])) = Len(batches[q][p]) - 1
      BY <3>2
    <3> QED BY <1>1, <3>1, <3>3
  <2>3. \A q \in Proc \ {p} : pc'[q] = pc[q]
    BY <1>1, <1>4 DEF Continue, EndHalf, Go
  <2>4. \A q, r \in Proc : Ahead(q, r)' = Ahead(q, r) + OneIf(q = p) - OneIf(r = p)
    <3> SUFFICES ASSUME NEW q \in Proc, NEW r \in Proc
                 PROVE  Ahead(q, r)' = Ahead(q, r) + OneIf(q = p) - OneIf(r = p)
      OBVIOUS
    <3> DEFINE n == Len(batches[q][r])
    <3>1. n \in Nat /\ Len(batches'[q][r]) = n - OneIf(r = p)
      <4>1. n \in Nat /\ Len(batches'[q][r]) = IF r = p THEN n - 1 ELSE n
        BY <1>2, <2>2
      <4> HIDE DEF n
      <4> QED BY <4>1 DEF OneIf
    <3>2. OneIf(pc'[q] = "unpack") = OneIf(pc[q] = "unpack") - OneIf(q = p)
      BY <2>1, <2>3 DEF OneIf
    <3>3. Ahead(q, r)' = Len(batches'[q][r]) - OneIf(pc'[q] = "unpack") /\ Ahead(q, r) = n - OneIf(pc[q] = "unpack")
      BY DEF Ahead
    <3>4. \A b : OneIf(b) \in Int
      BY DEF OneIf
    <3> HIDE DEF n
    <3> QED BY <3>1, <3>2, <3>3, <3>4
  <2> QED BY <1>4, <2>4
<1>5. CASE ~(Pack(p) \/ Continue(p) \/ EndHalf(p))
  <2>1. batches' = batches /\ \A q \in Proc : pc'[q] = "unpack" <=> pc[q] = "unpack"
    <3>1. CASE Local(p)
      BY <3>1, LocalControl
    <3>2. CASE StartMove(p) \/ EndPass(p) \/ EndOnlyPass(p) \/ Reduced(p)
      BY <1>1, <3>2 DEF StartMove, EndPass, EndOnlyPass, Reduced, Go, mail
    <3> QED BY <1>5, <3>1, <3>2 DEF Step, Local
  <2> QED BY <1>5, <2>1 DEF Ahead, OneIf
<1> QED BY <1>3, <1>4, <1>5

LEMMA RoundsStep ==
    ASSUME MoveInv, Rounds, NEW p \in Proc, Step(p)
    PROVE  Rounds'
<1>1. \A q, r \in Proc : Ahead(q, r) \in Int
  BY AheadType
<1>2. CASE Continue(p) \/ EndHalf(p)
  <2>1. \A q, r \in Proc : Ahead(q, r)' = Ahead(q, r) + OneIf(q = p) - OneIf(r = p)
    BY <1>2, AheadStep
  <2> QED BY <1>1, <2>1 DEF Rounds, OneIf
<1>3. CASE ~(Continue(p) \/ EndHalf(p))
  <2>1. \A q, r \in Proc : Ahead(q, r)' = Ahead(q, r)
    BY <1>3, AheadStep
  <2> QED BY <2>1 DEF Rounds
<1> QED BY <1>2, <1>3

LEMMA UnpackControl ==
    ASSUME MoveInv, NEW p \in Proc, Continue(p) \/ EndHalf(p)
    PROVE  /\ pc[p] = "unpack" /\ pc'[p] \in {"pass", "idle"}
           /\ half'[p] = half[p] + OneIf(final[p]) /\ (Fresh(p)' <=> final[p]) /\ ~final'[p]
           /\ ~entryexit'[p] \/ entryexit'[p] = entryexit[p]
           /\ votes' = votes
           /\ \A q \in Proc \ {p} : /\ half'[q] = half[q] /\ (Fresh(q)' <=> Fresh(q))
                                    /\ final'[q] = final[q] /\ pc'[q] = pc[q]
                                    /\ entryexit'[q] = entryexit[q]
           /\ \A q \in Proc : batches[q][p] # <<>>
<1>1. /\ pc \in [Proc -> Places] /\ entryexit \in [Proc -> BOOLEAN] /\ half \in [Proc -> 0 .. NHalves]
      /\ final \in [Proc -> BOOLEAN] /\ first \in [Proc -> BOOLEAN] /\ NHalves \in Nat
  BY HalvesAssumption DEF MoveInv, TypeOK, ControlType
<1>2. CASE Continue(p)
  <2>1. /\ ~final[p] /\ pc[p] = "unpack" /\ pc' = [pc EXCEPT ![p] = "pass"]
        /\ first' = [first EXCEPT ![p] = FALSE] /\ entryexit' = [entryexit EXCEPT ![p] = FALSE]
        /\ UNCHANGED <<half, final, votes>> /\ \A q \in Proc : batches[q][p] # <<>>
    BY <1>2 DEF Continue, Go, Unpack, AllPosted
  <2>2. half[p] \in Nat
    BY <1>1
  <2> QED BY <1>1, <2>1, <2>2 DEF Fresh, OneIf
<1>3. CASE EndHalf(p)
  <2>1. /\ final[p] /\ pc[p] = "unpack" /\ pc' = [pc EXCEPT ![p] = "idle"]
        /\ half' = [half EXCEPT ![p] = @ + 1] /\ final' = [final EXCEPT ![p] = FALSE]
        /\ UNCHANGED <<first, entryexit, votes>> /\ \A q \in Proc : batches[q][p] # <<>>
    BY <1>3 DEF EndHalf, Go, Unpack, AllPosted
  <2> QED BY <1>1, <2>1 DEF Fresh, OneIf
<1> QED BY <1>2, <1>3

(* The steps between the pass and the messages of a migration.             *)
LEMMA EndControl ==
    ASSUME MoveInv, NEW p \in Proc, EndPass(p) \/ EndOnlyPass(p) \/ Reduced(p) \/ Pack(p) \/ StartMove(p)
    PROVE  /\ half' = half /\ (Fresh(p)' <=> Fresh(p))
           /\ \A q \in Proc \ {p} : /\ (Fresh(q)' <=> Fresh(q)) /\ final'[q] = final[q]
                                    /\ pc'[q] = pc[q] /\ entryexit'[q] = entryexit[q]
           /\ StartMove(p) => /\ pc[p] = "idle" /\ pc'[p] = "pass" /\ final' = final /\ votes' = votes
                              /\ ~entryexit'[p]
           /\ ~StartMove(p) => entryexit' = entryexit
           /\ EndPass(p) => pc[p] = "pass" /\ pc'[p] = "reduce" /\ final' = final /\ Cutoff >= 0
           /\ EndOnlyPass(p) => /\ pc[p] = "pass" /\ pc'[p] = "pack" /\ final'[p] /\ votes' = votes
                                /\ Cutoff < 0
           /\ Reduced(p) => /\ pc[p] = "reduce" /\ pc'[p] = "pack" /\ final'[p] = ~AnyEntryexit(p)
                            /\ AllPosted(votes, p)
           /\ Pack(p) => pc[p] = "pack" /\ pc'[p] = "unpack" /\ final' = final /\ votes' = votes
<1>1. /\ pc \in [Proc -> Places] /\ entryexit \in [Proc -> BOOLEAN]
      /\ final \in [Proc -> BOOLEAN] /\ first \in [Proc -> BOOLEAN]
  BY DEF MoveInv, TypeOK, ControlType
<1>2. CASE StartMove(p)
  <2>1. ~(EndPass(p) \/ EndOnlyPass(p) \/ Reduced(p) \/ Pack(p))
    BY <1>2 DEF StartMove, EndPass, EndOnlyPass, Reduced, Pack, Go
  <2> QED BY <1>1, <1>2, <2>1 DEF StartMove, Go, mail, Fresh
<1>3. CASE EndPass(p) \/ EndOnlyPass(p)
  <2>1. ~(StartMove(p) \/ Reduced(p) \/ Pack(p)) /\ (EndPass(p) <=> Cutoff >= 0) /\ (EndOnlyPass(p) <=> Cutoff < 0)
    BY <1>3, CutoffAssumption DEF StartMove, EndPass, EndOnlyPass, Reduced, Pack, Go
  <2> QED BY <1>1, <1>3, <2>1 DEF EndPass, EndOnlyPass, Go, mail, Fresh
<1>4. CASE Reduced(p)
  <2>1. ~(StartMove(p) \/ EndPass(p) \/ EndOnlyPass(p) \/ Pack(p))
    BY <1>4 DEF StartMove, EndPass, EndOnlyPass, Reduced, Pack, Go
  <2> QED BY <1>1, <1>4, <2>1 DEF Reduced, Go, Fresh
<1>5. CASE Pack(p)
  <2>1. ~(StartMove(p) \/ EndPass(p) \/ EndOnlyPass(p) \/ Reduced(p))
    BY <1>5 DEF StartMove, EndPass, EndOnlyPass, Reduced, Pack, Go
  <2> QED BY <1>1, <1>5, <2>1 DEF Pack, Go, Fresh
<1> QED BY <1>2, <1>3, <1>4, <1>5

LEMMA AheadSame ==
    ASSUME MoveInv, NEW p \in Proc,
           Local(p) \/ StartMove(p) \/ EndPass(p) \/ EndOnlyPass(p) \/ Reduced(p) \/ Pack(p)
    PROVE  \A q, r \in Proc : Ahead(q, r)' = Ahead(q, r)
<1>1. pc[p] # "unpack"
  BY LocalControl, EndControl
<1>2. ~(Continue(p) \/ EndHalf(p))
  BY <1>1 DEF Continue, EndHalf, Go
<1> QED BY <1>2, AheadStep DEF Step, Local

(* A process unpacks what it got from one that has packed for the same     *)
(* migration, and may have unpacked already.                               *)
LEMMA UnpackedFrom ==
    ASSUME MoveInv, Rounds, NEW p \in Proc, Continue(p) \/ EndHalf(p), NEW q \in Proc
    PROVE  /\ Ahead(p, q) \in {-1, 0} /\ Ahead(q, p) + Ahead(p, q) = 0
           /\ Ahead(p, q) = 0 => pc[q] = "unpack"
<1>1. batches[q][p] # <<>> /\ pc[p] = "unpack"
  BY UnpackControl
<1>2. /\ Ahead(p, q) \in {-1, 0, 1} /\ Ahead(q, p) + Ahead(p, q) = 0
      /\ Ahead(p, q) = 1 => batches[q][p] = <<>>
  BY AtMostOneAhead
<1>3. Len(batches[q][p]) \in Nat /\ Len(batches[q][p]) # 0
  <2>1. batches[q][p] \in Seq(SUBSET Particles)
    BY DEF MoveInv, TypeOK, MailType
  <2> QED BY <1>1, <2>1
<1>4. Ahead(q, p) = Len(batches[q][p]) - OneIf(pc[q] = "unpack")
  BY DEF Ahead
<1>5. Ahead(p, q) = 0 => pc[q] = "unpack"
  <2>1. pc[q] # "unpack" => Ahead(q, p) = Len(batches[q][p])
    BY <1>3, <1>4 DEF OneIf
  <2>2. Ahead(p, q) = 0 => Ahead(q, p) = 0
    <3>1. Ahead(q, p) \in Int
      BY AheadType
    <3> QED BY <1>2, <3>1
  <2> QED BY <1>3, <2>1, <2>2
<1> QED BY <1>1, <1>2, <1>5

LEMMA HalvesStep ==
    ASSUME MoveInv, SyncInv, NEW p \in Proc, Step(p)
    PROVE  Halves'
<1> SUFFICES ASSUME NEW q \in Proc, NEW r \in Proc
             PROVE  /\ Ahead(q, r)' = 0 => half'[q] = half'[r] /\ (Fresh(q)' <=> Fresh(r)')
                    /\ Ahead(q, r)' = 1 => half'[q] = half'[r] + OneIf(final'[r]) /\ (Fresh(q)' <=> final'[r])
  BY DEF Halves, OneIf
<1>1. /\ Ahead(q, r) = 0 => half[q] = half[r] /\ (Fresh(q) <=> Fresh(r))
      /\ Ahead(q, r) = 1 => half[q] = half[r] + OneIf(final[r]) /\ (Fresh(q) <=> final[r])
  BY DEF SyncInv, Halves
<1>2. CASE Continue(p) \/ EndHalf(p)
  <2>1. \A s, t \in Proc : Ahead(s, t) \in Int /\ Ahead(s, t)' = Ahead(s, t) + OneIf(s = p) - OneIf(t = p)
    BY <1>2, AheadStep, AheadType
  <2>2. CASE q = p /\ r = p
    <3>1. Ahead(q, r)' = 0
      BY <2>1, <2>2, AtMostOneAhead DEF OneIf, SyncInv
    <3> QED BY <2>2, <3>1
  <2>3. CASE q = p /\ r # p
    <3>1. Ahead(q, r)' = Ahead(q, r) + 1
      BY <2>1, <2>3 DEF OneIf
    <3>2. Ahead(p, r) \in {-1, 0} /\ (Ahead(p, r) = 0 => pc[r] = "unpack") /\ Ahead(r, p) + Ahead(p, r) = 0
      BY <1>2, UnpackedFrom DEF SyncInv
    <3>3. Ahead(p, r) = 0 => (final[p] <=> final[r])
      BY <1>2, <3>2, UnpackControl DEF SyncInv, FinalForAll, Migrating
    <3>4. Ahead(p, r) = -1 => half[r] = half[p] + OneIf(final[p]) /\ (Fresh(r) <=> final[p])
      <4>1. Ahead(r, p) \in Int /\ Ahead(p, r) \in Int
        BY <2>1
      <4>2. Ahead(p, r) = -1 => Ahead(r, p) = 1
        BY <3>2, <4>1
      <4>3. Ahead(r, p) = 1 => half[r] = half[p] + OneIf(final[p]) /\ (Fresh(r) <=> final[p])
        BY DEF SyncInv, Halves
      <4> QED BY <4>2, <4>3
    <3>5. /\ half'[p] = half[p] + OneIf(final[p]) /\ (Fresh(p)' <=> final[p])
          /\ half'[r] = half[r] /\ (Fresh(r)' <=> Fresh(r)) /\ final'[r] = final[r]
      BY <1>2, <2>3, UnpackControl
    <3> QED BY <1>1, <2>3, <3>1, <3>2, <3>3, <3>4, <3>5 DEF OneIf
  <2>4. CASE q # p /\ r = p
    <3>1. Ahead(q, r)' = Ahead(q, r) - 1
      BY <2>1, <2>4 DEF OneIf
    <3>2. Ahead(p, q) \in {-1, 0} /\ Ahead(q, p) + Ahead(p, q) = 0
      BY <1>2, UnpackedFrom DEF SyncInv
    <3>3. /\ half'[p] = half[p] + OneIf(final[p]) /\ (Fresh(p)' <=> final[p])
          /\ half'[q] = half[q] /\ (Fresh(q)' <=> Fresh(q))
      BY <1>2, <2>4, UnpackControl
    <3> QED BY <1>1, <2>4, <3>1, <3>2, <3>3
  <2>5. CASE q # p /\ r # p
    <3>1. Ahead(q, r)' = Ahead(q, r)
      BY <2>1, <2>5 DEF OneIf
    <3> QED BY <1>1, <1>2, <2>5, <3>1, UnpackControl
  <2> QED BY <2>2, <2>3, <2>4, <2>5
<1>3. CASE Local(p)
  <2>1. Ahead(q, r)' = Ahead(q, r)
    <3>1. ~(Continue(p) \/ EndHalf(p))
      BY <1>3, LocalControl DEF Continue, EndHalf, Go
    <3> QED BY <3>1, AheadStep
  <2>2. UNCHANGED <<half, final, first>> /\ \A s \in Proc : (Fresh(s)' <=> Fresh(s))
    BY <1>3, LocalControl DEF Fresh
  <2> QED BY <1>1, <2>1, <2>2
<1>4. CASE EndPass(p) \/ EndOnlyPass(p) \/ Reduced(p) \/ Pack(p) \/ StartMove(p)
  <2>1. /\ half' = half /\ \A s \in Proc : (Fresh(s)' <=> Fresh(s))
        /\ \A s \in Proc : final'[s] = final[s] \/ pc[s] # "unpack"
    BY <1>4, EndControl
  <2>2. Ahead(q, r)' = Ahead(q, r)
    <3>1. ~(Continue(p) \/ EndHalf(p))
      BY <1>4, EndControl DEF Continue, EndHalf, Go
    <3> QED BY <3>1, AheadStep
  <2>3. Ahead(q, r) = 1 => pc[r] = "unpack"
    BY AtMostOneAhead DEF SyncInv
  <2> QED BY <1>1, <2>1, <2>2, <2>3
<1> QED BY <1>2, <1>3, <1>4 DEF Step, Local

LEMMA TailOfOne ==
    ASSUME NEW S, NEW s \in Seq(S), Len(s) = 1
    PROVE  Len(Tail(s)) = 0 /\ Tail(s) = <<>>
<1>1. s # <<>>
  OBVIOUS
<1>2. Tail(s) \in Seq(S) /\ Len(Tail(s)) = Len(s) - 1
  BY <1>1
<1>3. \A t \in Seq(S) : Len(t) = 0 => t = <<>>
  OBVIOUS
<1>4. Len(Tail(s)) = 0
  BY <1>2
<1> QED BY <1>2, <1>3, <1>4

(* A vote is taken by all before its process gets to the next pass.        *)
LEMMA VoteCount ==
    ASSUME MoveInv, Rounds, Votes, Cutoff >= 0, NEW p \in Proc, NEW q \in Proc
    PROVE  /\ votes[p][q] \in Seq(BOOLEAN) /\ Len(votes[p][q]) \in Nat /\ Ahead(p, q) \in {-1, 0, 1}
           /\ Len(votes[p][q]) = Ahead(p, q) + OneIf(Voted(p)) - OneIf(Migrating(q))
           /\ votes[p][q] # <<>> => Head(votes[p][q]) = entryexit[p] /\ Len(votes[p][q]) >= 1
           /\ Ahead(p, q) = 1 => Migrating(q)
           /\ ~Voted(p) => votes[p][q] = <<>>
           /\ Len(votes[p][q]) <= 1
<1>1. votes[p][q] \in Seq(BOOLEAN)
  BY DEF MoveInv, TypeOK, MailType
<1>2. Len(votes[p][q]) \in Nat /\ (Len(votes[p][q]) = 0 => votes[p][q] = <<>>)
  BY <1>1
<1>3. ~(Cutoff < 0)
  BY CutoffAssumption
<1>4. /\ Len(votes[p][q]) = Ahead(p, q) + OneIf(Voted(p)) - OneIf(Migrating(q))
      /\ votes[p][q] # <<>> => Head(votes[p][q]) = entryexit[p]
  BY <1>3 DEF Votes
<1>5. /\ Ahead(p, q) \in {-1, 0, 1} /\ (Ahead(p, q) = 1 => Migrating(q))
  BY AtMostOneAhead DEF Migrating
<1>6. /\ ~Voted(p) => Len(votes[p][q]) = 0
      /\ Len(votes[p][q]) <= 1
  <2>1. CASE Migrating(q)
    <3>1. OneIf(Migrating(q)) = 1
      BY <2>1 DEF OneIf
    <3> QED BY <1>2, <1>4, <1>5, <3>1 DEF OneIf
  <2>2. CASE ~Migrating(q)
    <3>1. OneIf(Migrating(q)) = 0 /\ Ahead(p, q) \in {-1, 0}
      BY <1>5, <2>2 DEF OneIf
    <3> QED BY <1>2, <1>4, <3>1 DEF OneIf
  <2> QED BY <2>1, <2>2
<1>7. votes[p][q] # <<>> => Len(votes[p][q]) >= 1
  BY <1>2
<1> QED BY <1>1, <1>2, <1>4, <1>5, <1>6, <1>7

\* What every step does to the counts of one pair of processes.
VoteOf(p, q) == /\ Len(votes[p][q]) = Ahead(p, q) + OneIf(Voted(p)) - OneIf(Migrating(q))
                /\ votes[p][q] # <<>> => Head(votes[p][q]) = entryexit[p]

LEMMA VotesStep ==
    ASSUME MoveInv, SyncInv, NEW p \in Proc, Step(p)
    PROVE  Votes'
<1>1. CASE Cutoff < 0
  <2>1. \A q, r \in Proc : votes[q][r] = <<>>
    BY <1>1 DEF SyncInv, Votes
  <2>2. ~EndPass(p) /\ ~Reduced(p)
    BY <1>1, <2>1, CutoffAssumption DEF EndPass, Reduced, AllPosted
  <2>3. votes' = votes
    BY <2>2, LocalControl, UnpackControl, EndControl DEF Step, Local
  <2> QED BY <1>1, <2>1, <2>3 DEF Votes
<1>2. CASE Cutoff >= 0
  <2> SUFFICES ASSUME NEW q \in Proc, NEW r \in Proc PROVE VoteOf(q, r)'
    BY <1>2, CutoffAssumption DEF Votes, VoteOf
  <2>1. /\ votes[q][r] \in Seq(BOOLEAN) /\ Len(votes[q][r]) \in Nat /\ Ahead(q, r) \in {-1, 0, 1}
        /\ Len(votes[q][r]) = Ahead(q, r) + OneIf(Voted(q)) - OneIf(Migrating(r))
        /\ votes[q][r] # <<>> => Head(votes[q][r]) = entryexit[q] /\ Len(votes[q][r]) >= 1
        /\ Ahead(q, r) = 1 => Migrating(r)
        /\ ~Voted(q) => votes[q][r] = <<>>
        /\ Len(votes[q][r]) <= 1
    BY <1>2, VoteCount DEF SyncInv
  <2>2. votes \in [Proc -> [Proc -> Seq(BOOLEAN)]]
    BY DEF MoveInv, TypeOK, MailType
  <2>3. ~(Continue(p) \/ EndHalf(p)) => Ahead(q, r)' = Ahead(q, r)
    BY AheadStep
  <2>4. CASE Local(p) \/ StartMove(p)
    <3>1. /\ votes' = votes /\ ~Voted(p) /\ \A s \in Proc : (Voted(s)' <=> Voted(s)) /\ (Migrating(s)' <=> Migrating(s))
          /\ \A s \in Proc \ {p} : entryexit'[s] = entryexit[s]
      BY <2>4, LocalControl, EndControl DEF Voted, Migrating
    <3>2. Ahead(q, r)' = Ahead(q, r)
      BY <2>3, <2>4, LocalControl, EndControl DEF Continue, EndHalf, Go
    <3> QED BY <2>1, <3>1, <3>2 DEF VoteOf, OneIf
  <2>5. CASE Pack(p)
    <3>1. /\ votes' = votes /\ \A s \in Proc : (Voted(s)' <=> Voted(s)) /\ (Migrating(s)' <=> Migrating(s))
          /\ entryexit' = entryexit
      BY <2>5, EndControl DEF Voted, Migrating, Pack
    <3>2. Ahead(q, r)' = Ahead(q, r)
      BY <2>3, <2>5, EndControl DEF Continue, EndHalf, Go
    <3> QED BY <2>1, <3>1, <3>2 DEF VoteOf, OneIf
  <2>6. CASE EndOnlyPass(p)
    BY <1>2, <2>6, EndControl, CutoffAssumption
  <2>7. CASE EndPass(p)
    <3>1. /\ ~Voted(p) /\ Voted(p)' /\ \A s \in Proc \ {p} : (Voted(s)' <=> Voted(s))
          /\ \A s \in Proc : (Migrating(s)' <=> Migrating(s))
          /\ entryexit' = entryexit
      BY <2>7, EndControl DEF Voted, Migrating, EndPass
    <3>2. Ahead(q, r)' = Ahead(q, r)
      BY <2>3, <2>7, EndControl DEF Continue, EndHalf, Go
    <3>3. votes' = [votes EXCEPT ![p] = [s \in Proc |-> Append(votes[p][s], entryexit[p])]]
      BY <2>2, <2>7 DEF EndPass, Post
    <3>4. CASE q # p
      <4>1. votes'[q][r] = votes[q][r]
        BY <2>2, <3>3, <3>4
      <4> QED BY <2>1, <3>1, <3>2, <3>4, <4>1 DEF VoteOf, OneIf
    <3>5. CASE q = p
      <4>1. votes[p][r] = <<>> /\ votes'[p][r] = Append(votes[p][r], entryexit[p])
        BY <2>1, <2>2, <3>1, <3>3, <3>5
      <4>2. votes'[p][r] = <<entryexit[p]>>
        BY <4>1
      <4>3. Len(votes'[p][r]) = 1 /\ Head(votes'[p][r]) = entryexit[p]
        BY <4>2
      <4>4. Len(votes[p][r]) = 0 /\ OneIf(Voted(p)) = 0 /\ OneIf(Voted(p)') = 1
        BY <3>1, <4>1 DEF OneIf
      <4>5. OneIf(Migrating(r)') = OneIf(Migrating(r)) /\ OneIf(Migrating(r)) \in Int
        BY <3>1 DEF OneIf
      <4>6. Len(votes'[p][r]) = Ahead(p, r)' + OneIf(Voted(p)') - OneIf(Migrating(r)')
        BY <2>1, <3>2, <3>5, <4>3, <4>4, <4>5, SMTT(30)
      <4> QED BY <3>1, <3>5, <4>3, <4>6 DEF VoteOf, OneIf
    <3> QED BY <3>4, <3>5
  <2>8. CASE Reduced(p)
    <3>1. /\ ~Migrating(p) /\ Migrating(p)' /\ \A s \in Proc \ {p} : (Migrating(s)' <=> Migrating(s))
          /\ \A s \in Proc : (Voted(s)' <=> Voted(s))
          /\ entryexit' = entryexit /\ AllPosted(votes, p)
      BY <2>8, EndControl DEF Voted, Migrating, Reduced
    <3>2. Ahead(q, r)' = Ahead(q, r)
      BY <2>3, <2>8, EndControl DEF Continue, EndHalf, Go
    <3>3. votes' = [s \in Proc |-> [votes[s] EXCEPT ![p] = Tail(votes[s][p])]]
      BY <2>2, <2>8 DEF Reduced, Taken
    <3>4. CASE r # p
      <4>1. votes'[q][r] = votes[q][r]
        BY <2>2, <3>3, <3>4
      <4> QED BY <2>1, <3>1, <3>2, <3>4, <4>1 DEF VoteOf, OneIf
    <3>5. CASE r = p
      <4>1. votes'[q][p] = Tail(votes[q][p]) /\ votes[q][p] # <<>>
        BY <2>2, <3>1, <3>3 DEF AllPosted
      <4>2. /\ votes[q][p] \in Seq(BOOLEAN) /\ Len(votes[q][p]) = 1 /\ Ahead(q, p) \in {-1, 0, 1}
            /\ Len(votes[q][p]) = Ahead(q, p) + OneIf(Voted(q)) - OneIf(Migrating(p))
        <5>1. /\ votes[q][p] \in Seq(BOOLEAN) /\ Len(votes[q][p]) \in Nat /\ Len(votes[q][p]) <= 1
              /\ votes[q][p] # <<>> => Len(votes[q][p]) >= 1
              /\ Ahead(q, p) \in {-1, 0, 1}
              /\ Len(votes[q][p]) = Ahead(q, p) + OneIf(Voted(q)) - OneIf(Migrating(p))
          BY <2>1, <3>5
        <5> QED BY <4>1, <5>1
      <4>3. Len(Tail(votes[q][p])) = 0 /\ Tail(votes[q][p]) = <<>>
        <5> QED BY <4>2, TailOfOne
      <4>4. OneIf(Migrating(p)) = 0 /\ OneIf(Migrating(p)') = 1 /\ OneIf(Voted(q)') = OneIf(Voted(q))
            /\ OneIf(Voted(q)) \in Int
        BY <3>1 DEF OneIf
      <4>5. Len(votes'[q][p]) = Ahead(q, p)' + OneIf(Voted(q)') - OneIf(Migrating(p)')
        BY <3>2, <3>5, <4>1, <4>3, <4>4, <4>2
      <4> QED BY <3>5, <4>1, <4>3, <4>5 DEF VoteOf, OneIf
    <3> QED BY <3>4, <3>5
  <2>9. CASE Continue(p) \/ EndHalf(p)
    <3>1. /\ votes' = votes
          /\ Voted(p) /\ ~Voted(p)' /\ Migrating(p) /\ ~Migrating(p)'
          /\ \A s \in Proc \ {p} : /\ (Voted(s)' <=> Voted(s)) /\ (Migrating(s)' <=> Migrating(s))
                                   /\ entryexit'[s] = entryexit[s]
      BY <2>9, UnpackControl DEF Voted, Migrating
    <3>2. Ahead(q, r)' = Ahead(q, r) + OneIf(q = p) - OneIf(r = p)
      BY <2>9, AheadStep
    <3>3. Ahead(p, r) \in {-1, 0} /\ (Ahead(p, r) = 0 => Migrating(r))
      BY <2>9, UnpackedFrom DEF SyncInv, Migrating
    <3>4. q = p => Len(votes[q][r]) = 0 /\ votes[q][r] = <<>>
      BY <2>1, <3>1, <3>3 DEF OneIf
    <3>5. OneIf(Voted(q)') = OneIf(Voted(q)) - OneIf(q = p) /\ OneIf(Migrating(r)') = OneIf(Migrating(r)) - OneIf(r = p)
      BY <3>1 DEF OneIf
    <3>6. OneIf(q = p) \in Int /\ OneIf(r = p) \in Int /\ OneIf(Voted(q)) \in Int /\ OneIf(Migrating(r)) \in Int
      BY DEF OneIf
    <3>7. Len(votes'[q][r]) = Ahead(q, r)' + OneIf(Voted(q)') - OneIf(Migrating(r)')
      BY <2>1, <3>1, <3>2, <3>5, <3>6, SMTT(30)
    <3> QED BY <2>1, <3>1, <3>4, <3>7 DEF VoteOf, OneIf
  <2> QED BY <2>4, <2>5, <2>6, <2>7, <2>8, <2>9 DEF Step, Local
<1> QED BY <1>1, <1>2, CutoffAssumption

(* What the reduction says.                                                *)
LEMMA FinalWhenStep ==
    ASSUME MoveInv, SyncInv, NEW p \in Proc, Step(p)
    PROVE  FinalWhen'
<1> USE CutoffAssumption
<1>1. FinalWhen /\ Rounds /\ Votes
  BY DEF SyncInv
<1>2. \A q, r \in Proc : Ahead(q, r) \in {-1, 0, 1} /\ Ahead(q, q) = 0 /\ Ahead(r, q) + Ahead(q, r) = 0
  BY <1>1, AtMostOneAhead
<1>3. /\ pc \in [Proc -> Places] /\ entryexit \in [Proc -> BOOLEAN] /\ final \in [Proc -> BOOLEAN]
  BY DEF MoveInv, TypeOK, ControlType
<1>4. \A q \in Proc : final'[q] => Migrating(q)'
  <2>1. \A q \in Proc : final[q] => Migrating(q)
    BY <1>1 DEF FinalWhen
  <2>2. CASE Local(p)
    BY <2>1, <2>2, LocalControl DEF Migrating
  <2>3. CASE Continue(p) \/ EndHalf(p)
    BY <2>1, <2>3, UnpackControl DEF Migrating
  <2>4. CASE StartMove(p) \/ EndPass(p) \/ EndOnlyPass(p) \/ Reduced(p) \/ Pack(p)
    BY <2>1, <2>4, EndControl DEF Migrating
  <2> QED BY <2>2, <2>3, <2>4 DEF Step, Local
<1>5. ASSUME Cutoff < 0
      PROVE  \A q \in Proc : ~entryexit'[q] /\ pc'[q] # "reduce" /\ (Migrating(q)' => final'[q])
  <2>1. \A q \in Proc : ~entryexit[q] /\ pc[q] # "reduce" /\ (Migrating(q) => final[q])
    BY <1>1, <1>5 DEF FinalWhen
  <2>2. CASE Local(p)
    <3>1. /\ final' = final /\ \A q \in Proc : (Migrating(q)' <=> Migrating(q)) /\ (pc'[q] = "reduce" => pc[q] = "reduce")
          /\ \A q \in Proc : entryexit'[q] => entryexit[q] \/ Cutoff >= 0
      BY <2>2, LocalControl DEF Migrating
    <3> QED BY <1>5, <2>1, <3>1
  <2>3. CASE Continue(p) \/ EndHalf(p)
    BY <2>1, <2>3, UnpackControl DEF Migrating
  <2>4. CASE StartMove(p) \/ EndPass(p) \/ EndOnlyPass(p) \/ Reduced(p) \/ Pack(p)
    BY <1>5, <2>1, <2>4, EndControl DEF Migrating
  <2> QED BY <2>2, <2>3, <2>4 DEF Step, Local
<1>6. ASSUME Cutoff >= 0, NEW q \in Proc, Migrating(q)', \A r \in Proc : Ahead(r, q)' = 0
      PROVE  final'[q] <=> \A r \in Proc : ~entryexit'[r]
  <2>1. ~Migrating(q) \/ (\E r \in Proc : Ahead(r, q) # 0) \/ (final[q] <=> \A r \in Proc : ~entryexit[r])
    BY <1>1, <1>6 DEF FinalWhen
  <2>2. CASE Local(p) \/ StartMove(p)
    <3>1. /\ \A r, s \in Proc : Ahead(r, s)' = Ahead(r, s)
          /\ final' = final /\ \A r \in Proc : (Migrating(r)' <=> Migrating(r))
          /\ ~Voted(p) /\ ~Migrating(p)
      BY <2>2, AheadSame, LocalControl, EndControl DEF Migrating, Voted
    <3>2. Migrating(q) /\ q # p /\ Ahead(p, q) = 0
      BY <1>6, <3>1
    <3>3. Len(votes[p][q]) = 0 + 0 - 1 /\ Len(votes[p][q]) \in Nat
      BY <1>1, <1>6, <3>1, <3>2, VoteCount DEF OneIf
    <3> QED BY <3>3
  <2>3. CASE EndPass(p) \/ Pack(p)
    <3>1. /\ \A r, s \in Proc : Ahead(r, s)' = Ahead(r, s)
          /\ final' = final /\ \A r \in Proc : (Migrating(r)' <=> Migrating(r))
          /\ entryexit' = entryexit
      BY <2>3, AheadSame, EndControl DEF Migrating, EndPass, Pack
    <3> QED BY <1>6, <2>1, <3>1
  <2>4. CASE EndOnlyPass(p)
    BY <1>6, <2>4, EndControl
  <2>5. CASE Reduced(p)
    <3>1. /\ \A r, s \in Proc : Ahead(r, s)' = Ahead(r, s)
          /\ entryexit' = entryexit /\ final'[p] = ~AnyEntryexit(p) /\ AllPosted(votes, p)
          /\ \A r \in Proc \ {p} : final'[r] = final[r] /\ (Migrating(r)' <=> Migrating(r))
      BY <2>5, AheadSame, EndControl DEF Migrating, Reduced
    <3>2. CASE q = p
      <4>1. \A r \in Proc : Head(votes[r][p]) = entryexit[r]
        BY <1>1, <1>6, <3>1, VoteCount DEF AllPosted
      <4> QED BY <3>1, <3>2, <4>1 DEF AnyEntryexit
    <3>3. CASE q # p
      BY <1>6, <2>1, <3>1, <3>3
    <3> QED BY <3>2, <3>3
  <2>6. CASE Continue(p) \/ EndHalf(p)
    <3>1. /\ \A r, s \in Proc : Ahead(r, s)' = Ahead(r, s) + OneIf(r = p) - OneIf(s = p)
          /\ ~Migrating(p)' /\ \A r \in Proc \ {p} : (Migrating(r)' <=> Migrating(r))
          /\ Migrating(p)
      BY <2>6, AheadStep, UnpackControl DEF Migrating
    <3>2. q # p /\ Migrating(q) /\ Ahead(p, q)' = 0
      BY <1>6, <3>1
    <3>3. Ahead(p, q)' = Ahead(p, q) + 1
      BY <3>1, <3>2 DEF OneIf
    <3>4. Ahead(p, q) = -1 /\ Ahead(q, p) = 1
      BY <1>2, <3>2, <3>3
    <3>5. Len(votes[p][q]) \in Nat /\ Len(votes[p][q]) = Ahead(p, q) + OneIf(Voted(p)) - OneIf(Migrating(q))
      BY <1>1, <1>6, VoteCount
    <3>6. OneIf(Migrating(q)) = 1 /\ OneIf(Voted(p)) \in {0, 1}
      BY <3>2 DEF OneIf
    <3> QED BY <3>4, <3>5, <3>6
  <2> QED BY <2>2, <2>3, <2>4, <2>5, <2>6 DEF Step, Local
<1> QED BY <1>4, <1>5, <1>6 DEF FinalWhen

LEMMA FinalForAllStep ==
    ASSUME MoveInv, SyncInv, NEW p \in Proc, Step(p)
    PROVE  FinalForAll'
<1> USE CutoffAssumption
<1>1. FinalForAll /\ FinalWhen /\ FinalWhen' /\ Rounds /\ Rounds'
  BY FinalWhenStep, RoundsStep DEF SyncInv
<1> SUFFICES ASSUME NEW q \in Proc, NEW r \in Proc,
                    Ahead(q, r)' = 0, Migrating(q)', Migrating(r)'
             PROVE  final'[q] <=> final'[r]
  BY DEF FinalForAll
<1>2. CASE Cutoff < 0
  <2>1. final'[q] /\ final'[r]
    BY <1>1, <1>2 DEF FinalWhen
  <2> QED BY <2>1
<1>3. CASE Cutoff >= 0
  <2>1. (Ahead(q, r) = 0 /\ Migrating(q) /\ Migrating(r)) => (final[q] <=> final[r])
    BY <1>1 DEF FinalForAll
  <2>2. CASE Reduced(p)
    <3>1. /\ \A s, t \in Proc : Ahead(s, t)' = Ahead(s, t)
          /\ AllPosted(votes, p) /\ pc[p] = "reduce"
          /\ \A s \in Proc \ {p} : final'[s] = final[s] /\ (Migrating(s)' <=> Migrating(s))
      BY <2>2, AheadSame, EndControl DEF Migrating
    <3>2. CASE q # p /\ r # p
      BY <2>1, <3>1, <3>2
    <3>3. CASE q = p \/ r = p
      <4>1. \A s \in Proc : Ahead(s, p)' = 0
        <5> SUFFICES ASSUME NEW s \in Proc PROVE Ahead(s, p) = 0
          BY <3>1
        <5>1. /\ Ahead(s, p) \in {-1, 0, 1} /\ (Ahead(s, p) = 1 => pc[p] = "unpack")
          BY <1>1, AtMostOneAhead
        <5>2. /\ Len(votes[s][p]) = Ahead(s, p) + OneIf(Voted(s)) - OneIf(Migrating(p))
              /\ Len(votes[s][p]) >= 1
          BY <1>3, <3>1, VoteCount DEF SyncInv, AllPosted
        <5>3. OneIf(Voted(s)) \in {0, 1} /\ OneIf(Migrating(p)) = 0
          BY <3>1 DEF OneIf, Migrating
        <5> QED BY <3>1, <5>1, <5>2, <5>3
      <4>2. \A s, t, u \in Proc : Ahead(s, t)' \in Int /\ Ahead(s, t)' + Ahead(t, u)' = Ahead(s, u)'
        BY <1>1, <3>1, AheadType DEF Rounds
      <4>3. Ahead(r, q)' = 0 /\ Ahead(q, r)' = 0
        <5>1. /\ Ahead(q, r)' + Ahead(r, q)' = Ahead(q, q)' /\ Ahead(q, q)' + Ahead(q, q)' = Ahead(q, q)'
              /\ Ahead(q, r)' \in Int /\ Ahead(r, q)' \in Int /\ Ahead(q, q)' \in Int
          BY <4>2
        <5>2. \A m, n, k \in Int : k + k = k /\ m + n = k /\ m = 0 => n = 0
          OBVIOUS
        <5> QED BY <3>1, <5>1, <5>2
      <4>4. \A s \in Proc : Ahead(s, q)' = 0 /\ Ahead(s, r)' = 0
        <5> SUFFICES ASSUME NEW s \in Proc PROVE Ahead(s, q)' = 0 /\ Ahead(s, r)' = 0
          OBVIOUS
        <5>1. /\ Ahead(s, r)' \in Int /\ Ahead(s, q)' \in Int
              /\ Ahead(s, q)' + Ahead(q, r)' = Ahead(s, r)' /\ Ahead(s, r)' + Ahead(r, q)' = Ahead(s, q)'
          BY <4>2
        <5>2. Ahead(s, q)' = 0 \/ Ahead(s, r)' = 0
          BY <3>3, <4>1
        <5> QED BY <4>3, <5>1, <5>2
      <4> QED BY <1>1, <1>3, <4>4 DEF FinalWhen
    <3> QED BY <3>2, <3>3
  <2>3. CASE Local(p) \/ StartMove(p) \/ EndPass(p) \/ EndOnlyPass(p) \/ Pack(p)
    <3>1. /\ \A s, t \in Proc : Ahead(s, t)' = Ahead(s, t)
          /\ \A s \in Proc : (Migrating(s)' <=> Migrating(s)) /\ final'[s] = final[s]
      <4>1. CASE Local(p) \/ StartMove(p)
        BY <4>1, AheadSame, LocalControl, EndControl DEF Migrating
      <4>2. CASE EndPass(p) \/ Pack(p)
        BY <4>2, AheadSame, EndControl DEF Migrating, EndPass, Pack
      <4>3. ~EndOnlyPass(p)
        BY <1>3, EndControl
      <4> QED BY <2>3, <4>1, <4>2, <4>3
    <3> QED BY <2>1, <3>1
  <2>4. CASE Continue(p) \/ EndHalf(p)
    <3>1. /\ \A s, t \in Proc : Ahead(s, t)' = Ahead(s, t) + OneIf(s = p) - OneIf(t = p)
          /\ \A s, t \in Proc : Ahead(s, t) \in Int
          /\ ~Migrating(p)' 
          /\ \A s \in Proc \ {p} : (Migrating(s)' <=> Migrating(s)) /\ final'[s] = final[s]
      BY <2>4, AheadStep, AheadType, UnpackControl DEF Migrating
    <3>2. q # p /\ r # p
      BY <3>1
    <3>3. Ahead(q, r)' = Ahead(q, r) + 0 - 0
      BY <3>1, <3>2 DEF OneIf
    <3>4. Ahead(q, r) = 0
      BY <3>1, <3>3
    <3> QED BY <2>1, <3>1, <3>2, <3>4
  <2> QED BY <2>2, <2>3, <2>4 DEF Step, Local
<1> QED BY <1>2, <1>3

LEMMA SyncInit == Init => SyncInv
<1> SUFFICES ASSUME Init PROVE SyncInv
  OBVIOUS
<1>1. \A p, q \in Proc : /\ votes[p][q] = <<>> /\ batches[p][q] = <<>> /\ pc[p] = "idle" /\ half[p] = 0
                         /\ ~final[p] /\ ~entryexit[p]
  BY DEF Init
<1>2. \A p, q \in Proc : Ahead(p, q) = 0 /\ OneIf(Voted(p)) = 0 /\ OneIf(Migrating(q)) = 0
  BY <1>1 DEF Ahead, OneIf, Voted, Migrating
<1>3. Rounds /\ Halves
  BY <1>1, <1>2 DEF Rounds, Halves, Fresh
<1>4. Votes
  BY <1>1, <1>2 DEF Votes
<1>5. FinalWhen /\ FinalForAll
  BY <1>1 DEF FinalWhen, FinalForAll, Migrating
<1> QED BY <1>3, <1>4, <1>5 DEF SyncInv

LEMMA SyncStep ==
    ASSUME MoveInv, SyncInv, [Next]_vars
    PROVE  SyncInv'
<1>1. CASE UNCHANGED vars
  BY <1>1 DEF SyncInv, Rounds, Halves, Votes, FinalWhen, FinalForAll, Ahead, Voted, Migrating, Fresh, vars, mail
<1>2. ASSUME NEW p \in Proc, Step(p) PROVE SyncInv'
  BY <1>2, RoundsStep, HalvesStep, VotesStep, FinalWhenStep, FinalForAllStep DEF SyncInv
<1> QED BY <1>1, <1>2 DEF Next, Done

(* Nothing but the reduction and the messages of the migrations keeps the  *)
(* processes together: no process is two migrations ahead of another, so   *)
(* that a message is of this migration or of the next, and two processes   *)
(* in the same migration agree on whether the move ends with it.           *)
MigrationsInStep ==
    \A p, q \in Proc :
        /\ Ahead(p, q) \in {-1, 0, 1} /\ Len(batches[p][q]) <= 2
        /\ Ahead(p, q) = 0 => /\ half[p] = half[q]
                              /\ Migrating(p) /\ Migrating(q) => (final[p] <=> final[q])

THEOREM ProcessesInStep == Spec => []MigrationsInStep
<1>1. MoveInv /\ SyncInv => MigrationsInStep
  <2> SUFFICES ASSUME MoveInv, SyncInv, NEW p \in Proc, NEW q \in Proc
               PROVE  /\ Ahead(p, q) \in {-1, 0, 1} /\ Len(batches[p][q]) <= 2
                      /\ Ahead(p, q) = 0 => /\ half[p] = half[q]
                                            /\ Migrating(p) /\ Migrating(q) => (final[p] <=> final[q])
    BY DEF MigrationsInStep
  <2>1. Ahead(p, q) \in {-1, 0, 1}
    BY AtMostOneAhead DEF SyncInv
  <2>2. Len(batches[p][q]) \in Nat /\ Len(batches[p][q]) = Ahead(p, q) + OneIf(pc[p] = "unpack")
    BY AheadType DEF Ahead, OneIf
  <2>3. Len(batches[p][q]) <= 2
    BY <2>1, <2>2 DEF OneIf
  <2> QED BY <2>1, <2>3 DEF SyncInv, Halves, FinalForAll
<1>2. MoveInv /\ SyncInv /\ [Next]_vars => SyncInv'
  BY SyncStep
<1> QED BY <1>1, <1>2, SyncInit, MoveInvariant, PTL DEF Spec

-----------------------------------------------------------------------------
(* Part 4.  What the definition of Serial by a function on 0 .. n amounts  *)
(* to.                                                                     *)
IsWalk(f, w, n) == f = [k \in 0 .. n |-> IF k = 0 THEN w ELSE SerialStep(f[k - 1])]
WalkStates == [x : Cells \union {0}, v : Int]
StateOf(a) == [x |-> a.x, v |-> a.v]

LEMMA SerialIsWalk ==
    ASSUME NEW c, NEW v, NEW n
    PROVE  Serial(c, v, n) = (CHOOSE f : IsWalk(f, [x |-> c, v |-> v], n))[n]
BY DEF Serial, IsWalk

LEMMA WalkExists ==
    ASSUME NEW w, NEW n \in Nat
    PROVE  \E f : IsWalk(f, w, n)
<1> DEFINE S == {m \in Nat : ~\E f : IsWalk(f, w, m)}
<1> SUFFICES ASSUME S # {} PROVE FALSE
  OBVIOUS
<1>1. PICK m \in S : \A k \in S : m <= k
  BY LeastNat
<1>2. m \in Nat /\ ~\E f : IsWalk(f, w, m)
  OBVIOUS
<1>3. CASE m = 0
  <2> DEFINE g == [k \in 0 .. 0 |-> w]
  <2>1. g = [k \in 0 .. 0 |-> IF k = 0 THEN w ELSE SerialStep(g[k - 1])]
    OBVIOUS
  <2> QED BY <1>2, <1>3, <2>1 DEF IsWalk
<1>4. CASE m # 0
  <2>1. m - 1 \in Nat /\ m - 1 \notin S
    BY <1>1, <1>2, <1>4
  <2>2. PICK f : IsWalk(f, w, m - 1)
    BY <2>1
  <2>3. f = [k \in 0 .. m - 1 |-> IF k = 0 THEN w ELSE SerialStep(f[k - 1])]
    BY <2>2 DEF IsWalk
  <2> DEFINE g == [k \in 0 .. m |-> IF k < m THEN f[k] ELSE SerialStep(f[m - 1])]
  <2>4. \A k \in 0 .. m - 1 : f[k] = IF k = 0 THEN w ELSE SerialStep(f[k - 1])
    BY <2>3
  <2>5. \A k \in 0 .. m : g[k] = IF k = 0 THEN w ELSE SerialStep(g[k - 1])
    <3> SUFFICES ASSUME NEW k \in 0 .. m
                 PROVE  g[k] = IF k = 0 THEN w ELSE SerialStep(g[k - 1])
      OBVIOUS
    <3>1. CASE k = 0
      <4>1. g[k] = f[k] /\ k \in 0 .. m - 1
        BY <1>2, <1>4, <3>1
      <4> QED BY <2>4, <3>1, <4>1
    <3>2. CASE k # 0
      <4>1. k - 1 \in 0 .. m /\ k - 1 < m /\ k \in Int
        BY <1>2, <3>2
      <4>2. g[k - 1] = f[k - 1]
        BY <4>1
      <4>3. g[k] = SerialStep(f[k - 1])
        <5>1. CASE k = m
          BY <1>2, <5>1
        <5>2. CASE k # m
          <6>1. k \in 0 .. m - 1 /\ g[k] = f[k]
            BY <1>2, <5>2
          <6> QED BY <2>4, <3>2, <6>1
        <5> QED BY <5>1, <5>2
      <4> QED BY <3>2, <4>2, <4>3
    <3> QED BY <3>1, <3>2
  <2>6. DOMAIN g = 0 .. m /\ g = [k \in DOMAIN g |-> g[k]]
    OBVIOUS
  <2> HIDE DEF g
  <2>7. g = [k \in 0 .. m |-> IF k = 0 THEN w ELSE SerialStep(g[k - 1])]
    BY <2>5, <2>6
  <2> QED BY <1>2, <2>7 DEF IsWalk
<1> QED BY <1>3, <1>4

LEMMA WalksAgree ==
    ASSUME NEW w, NEW m \in Nat, NEW n \in Nat, m <= n, NEW f, NEW g,
           IsWalk(f, w, m), IsWalk(g, w, n)
    PROVE  \A k \in 0 .. m : f[k] = g[k]
<1>1. \A k \in 0 .. m : f[k] = IF k = 0 THEN w ELSE SerialStep(f[k - 1])
  BY DEF IsWalk
<1>2. \A k \in 0 .. n : g[k] = IF k = 0 THEN w ELSE SerialStep(g[k - 1])
  BY DEF IsWalk
<1> DEFINE S == {k \in 0 .. m : f[k] # g[k]}
<1> SUFFICES ASSUME S # {} PROVE FALSE
  OBVIOUS
<1>3. S \subseteq Nat
  OBVIOUS
<1>4. PICK k \in S : \A j \in S : k <= j
  BY <1>3, LeastNat
<1>5. k \in 0 .. m /\ k \in 0 .. n /\ f[k] # g[k]
  OBVIOUS
<1>6. CASE k = 0
  BY <1>1, <1>2, <1>5, <1>6
<1>7. CASE k # 0
  <2>1. k - 1 \in 0 .. m /\ ~(k <= k - 1)
    BY <1>5, <1>7
  <2>2. f[k - 1] = g[k - 1]
    BY <1>4, <2>1
  <2> QED BY <1>1, <1>2, <1>5, <1>7, <2>2
<1> QED BY <1>6, <1>7

(* A walk of n + 1 faces is one of n and a last step ...                   *)
LEMMA SerialStarts ==
    ASSUME NEW c, NEW v
    PROVE  Serial(c, v, 0) = [x |-> c, v |-> v]
<1> DEFINE w == [x |-> c, v |-> v]
           f == CHOOSE f : IsWalk(f, w, 0)
<1>1. IsWalk(f, w, 0)
  <2>1. \E g : IsWalk(g, w, 0)
    BY WalkExists
  <2> QED BY <2>1
<1>2. Serial(c, v, 0) = f[0]
  BY SerialIsWalk
<1> HIDE DEF w, f
<1>3. f[0] = w
  BY <1>1 DEF IsWalk
<1> QED BY <1>2, <1>3 DEF w

LEMMA SerialGoesOn ==
    ASSUME NEW c, NEW v, NEW n \in Nat
    PROVE  Serial(c, v, n + 1) = SerialStep(Serial(c, v, n))
<1> DEFINE w == [x |-> c, v |-> v]
           f == CHOOSE h : IsWalk(h, w, n)
           g == CHOOSE h : IsWalk(h, w, n + 1)
<1>1. IsWalk(f, w, n) /\ IsWalk(g, w, n + 1)
  <2>1. (\E h : IsWalk(h, w, n)) /\ (\E h : IsWalk(h, w, n + 1))
    BY WalkExists
  <2> QED BY <2>1
<1>2. Serial(c, v, n) = f[n] /\ Serial(c, v, n + 1) = g[n + 1]
  BY SerialIsWalk
<1> HIDE DEF w, f, g
<1>3. f[n] = g[n]
  <2>1. n <= n + 1 /\ n + 1 \in Nat /\ n \in 0 .. n
    OBVIOUS
  <2> QED BY <1>1, <2>1, WalksAgree
<1>4. g[n + 1] = SerialStep(g[n])
  <2>1. \A k \in 0 .. n + 1 : g[k] = IF k = 0 THEN w ELSE SerialStep(g[k - 1])
    BY <1>1 DEF IsWalk
  <2>2. n + 1 \in 0 .. n + 1 /\ n + 1 # 0 /\ n + 1 - 1 = n
    OBVIOUS
  <2> QED BY <2>1, <2>2
<1> QED BY <1>2, <1>3, <1>4

(* ... and what is in a set that steps do not leave remains in it.         *)
LEMMA SerialStays ==
    ASSUME NEW c, NEW v, NEW S, [x |-> c, v |-> v] \in S,
           \A w \in S : SerialStep(w) \in S,
           NEW n \in Nat
    PROVE  Serial(c, v, n) \in S
<1> DEFINE T == {m \in Nat : Serial(c, v, m) \notin S}
<1> SUFFICES ASSUME T # {} PROVE FALSE
  OBVIOUS
<1>1. PICK m \in T : \A k \in T : m <= k
  BY LeastNat
<1>2. m \in Nat /\ Serial(c, v, m) \notin S
  OBVIOUS
<1>3. m # 0
  BY <1>2, SerialStarts
<1>4. m - 1 \in Nat /\ m - 1 \notin T /\ (m - 1) + 1 = m
  BY <1>1, <1>2, <1>3
<1>5. Serial(c, v, m - 1) \in S
  BY <1>4
<1>6. Serial(c, v, (m - 1) + 1) = SerialStep(Serial(c, v, m - 1))
  BY <1>4, SerialGoesOn
<1> QED BY <1>2, <1>4, <1>5, <1>6

LEMMA SerialSum ==
    ASSUME NEW c, NEW v, NEW m \in Nat, NEW n \in Nat,
           NEW y, NEW u, Serial(c, v, m) = [x |-> y, v |-> u]
    PROVE  Serial(c, v, m + n) = Serial(y, u, n)
<1> DEFINE T == {k \in Nat : Serial(c, v, m + k) # Serial(y, u, k)}
<1> SUFFICES ASSUME T # {} PROVE FALSE
  OBVIOUS
<1>1. PICK k \in T : \A j \in T : k <= j
  BY LeastNat
<1>2. k \in Nat /\ Serial(c, v, m + k) # Serial(y, u, k)
  OBVIOUS
<1>3. k # 0
  <2>1. m + 0 = m
    OBVIOUS
  <2> QED BY <1>2, <2>1, SerialStarts
<1>4. /\ k - 1 \in Nat /\ k - 1 \notin T /\ (k - 1) + 1 = k
      /\ m + (k - 1) \in Nat /\ (m + (k - 1)) + 1 = m + k
  BY <1>1, <1>2, <1>3
<1>5. Serial(c, v, m + (k - 1)) = Serial(y, u, k - 1)
  BY <1>4
<1>6. Serial(c, v, (m + (k - 1)) + 1) = SerialStep(Serial(c, v, m + (k - 1)))
  BY <1>4, SerialGoesOn
<1>7. Serial(y, u, (k - 1) + 1) = SerialStep(Serial(y, u, k - 1))
  BY <1>4, SerialGoesOn
<1> QED BY <1>2, <1>4, <1>5, <1>6, <1>7

-----------------------------------------------------------------------------
(* What a step does.                                                       *)
LEMMA StepKeepsSpeed ==
    ASSUME NEW w \in WalkStates
    PROVE  /\ SerialStep(w) \in WalkStates /\ Abs(SerialStep(w).v) = Abs(w.v)
           /\ w.x = 0 => SerialStep(w).x = 0
<1>1. w.x \in Cells \union {0} /\ w.v \in Int /\ w = [x |-> w.x, v |-> w.v]
  BY DEF WalkStates
<1>2. Direction(w.v) \in {-1, 1}
  BY DEF Direction
<1>3. w.x # 0 => Neighbor(w.x, Direction(w.v)) \in Cells \union {0}
  BY <1>1, <1>2, NeighborIsCell
<1>4. -w.v \in Int /\ Abs(-w.v) = Abs(w.v)
  BY <1>1 DEF Abs
<1> QED BY <1>1, <1>3, <1>4 DEF SerialStep, WalkStates

LEMMA SerialKeepsSpeed ==
    ASSUME NEW c \in Cells \union {0}, NEW v \in Int, NEW n \in Nat
    PROVE  /\ Serial(c, v, n) \in WalkStates /\ Abs(Serial(c, v, n).v) = Abs(v)
           /\ c = 0 => Serial(c, v, n).x = 0
<1> DEFINE S == {w \in WalkStates : Abs(w.v) = Abs(v) /\ (c = 0 => w.x = 0)}
<1>1. [x |-> c, v |-> v] \in S
  BY DEF WalkStates
<1>2. \A w \in S : SerialStep(w) \in S
  BY StepKeepsSpeed
<1> HIDE DEF S
<1>3. Serial(c, v, n) \in S
  BY <1>1, <1>2, SerialStays
<1> QED BY <1>3 DEF S

(* One face less to cross.                                                 *)
LEMMA OneFaceLess ==
    ASSUME NEW c \in Cells, NEW v \in Int, NEW n \in Nat, n > 0
    PROVE  LET w == SerialStep([x |-> c, v |-> v])
           IN Serial(c, v, n) = Serial(w.x, w.v, n - 1)
<1> DEFINE w == SerialStep([x |-> c, v |-> v])
<1>1. Serial(c, v, 1) = w
  <2>1. Serial(c, v, 0 + 1) = SerialStep(Serial(c, v, 0))
    BY SerialGoesOn
  <2>2. 0 + 1 = 1
    OBVIOUS
  <2> QED BY <2>1, <2>2, SerialStarts
<1>2. w = [x |-> w.x, v |-> w.v]
  <2>1. [x |-> c, v |-> v] \in WalkStates
    BY DEF WalkStates
  <2>2. w \in WalkStates
    BY <2>1, StepKeepsSpeed
  <2> HIDE DEF w
  <2> QED BY <2>2 DEF WalkStates
<1>3. n - 1 \in Nat /\ 1 + (n - 1) = n
  OBVIOUS
<1> HIDE DEF w
<1>4. Serial(c, v, 1) = [x |-> w.x, v |-> w.v]
  BY <1>1, <1>2
<1>5. Serial(c, v, 1 + (n - 1)) = Serial(w.x, w.v, n - 1)
  BY <1>3, <1>4, SerialSum
<1> QED BY <1>3, <1>5 DEF w

(* A row of cells without a boundary is crossed in one go.                 *)
LEMMA StraightAhead ==
    ASSUME NEW c \in Cells, NEW v \in Int, NEW n \in Nat, c + Direction(v) * n \in Cells
    PROVE  Serial(c, v, n) = [x |-> c + Direction(v) * n, v |-> v]
<1> USE SizesAssumption DEF Cells
<1> DEFINE d == Direction(v)
           T == {k \in 0 .. n : Serial(c, v, k) # [x |-> c + d * k, v |-> v]}
<1>1. d = 1 \/ d = -1
  BY DEF Direction
<1>2. T = {}
  <2> SUFFICES ASSUME T # {} PROVE FALSE
    OBVIOUS
  <2>1. T \subseteq Nat
    OBVIOUS
  <2>2. PICK k \in T : \A j \in T : k <= j
    BY <2>1, LeastNat
  <2>3. k \in 0 .. n /\ Serial(c, v, k) # [x |-> c + d * k, v |-> v]
    OBVIOUS
  <2> HIDE DEF d
  <2>4. k # 0
    <3>1. c + d * 0 = c
      BY <1>1
    <3> QED BY <2>3, <3>1, SerialStarts
  <2>5. /\ k - 1 \in Nat /\ k - 1 \in 0 .. n /\ k - 1 \notin T /\ (k - 1) + 1 = k
    BY <2>2, <2>3, <2>4
  <2> DEFINE y == c + d * (k - 1)
  <2>6. Serial(c, v, k - 1) = [x |-> y, v |-> v]
    BY <2>5
  <2>7. Serial(c, v, (k - 1) + 1) = SerialStep(Serial(c, v, k - 1))
    BY <2>5, SerialGoesOn
  <2>8. y \in Cells /\ y + d \in Cells /\ y + d = c + d * k /\ y # 0 /\ y + d # 0
    <3>1. CASE d = 1
      BY <2>3, <2>4, <3>1 DEF d
    <3>2. CASE d = -1
      BY <2>3, <2>4, <3>2 DEF d
    <3> QED BY <1>1, <3>1, <3>2
  <2> HIDE DEF y
  <2>9. Neighbor(y, d) = y + d
    BY <2>8 DEF Neighbor
  <2>10. SerialStep([x |-> y, v |-> v]) = [x |-> y + d, v |-> v]
    BY <2>8, <2>9 DEF SerialStep, d
  <2> QED BY <2>3, <2>5, <2>6, <2>7, <2>8, <2>10
<1>3. n \in 0 .. n
  OBVIOUS
<1> QED BY <1>2, <1>3

-----------------------------------------------------------------------------
(* Where a particle is on the way that a single process would move it.     *)
There(a, o, h) == StateOf(a) = After(o, h)
Going(a, o, h) == Serial(a.x, a.v, a.dtremain) = After(o, h + 1)
From(o, h, p) == After(o, h).x \in Owned(owner, p)
\* Before its move of a half timestep, and between the passes of the move.
Ready(a, o, h) == There(a, o, h) /\ (IF h = 0 THEN a = o ELSE a.flag = "keep" \/ a.flag = "done")
Carried(a, o, h) == \/ a.flag = "done" /\ There(a, o, h + 1)
                    \/ a.flag \in {"entry", "exit"} /\ Going(a, o, h)

LEMMA MoreFaces ==
    ASSUME NEW o \in Particles, NEW h \in Nat
    PROVE  /\ Faces(o, h) \in Nat
           /\ h > 0 => Faces(o, h + 1) = Faces(o, h) + Abs(o.v)
           /\ Faces(o, 0) = 0 /\ Faces(o, 1) = IF o.flag = "insert" THEN o.dtremain ELSE Abs(o.v)
<1> DEFINE V == Abs(o.v)
           D == o.dtremain
<1>1. V \in Nat /\ D \in Nat
  BY DEF Particles, Abs
<1> HIDE DEF V, D
<1>2. \A k \in Nat : k * V \in Nat /\ (k + 1) * V = k * V + V
  BY <1>1
<1>3. 0 * V = 0 /\ 1 * V = V
  BY <1>1
<1>4. h > 0 => h - 1 \in Nat /\ (h - 1) + 1 = h /\ (h + 1) - 1 = h
  OBVIOUS
<1>5. \A k : Faces(o, k) = IF k = 0 THEN 0 ELSE IF o.flag = "insert" THEN D + (k - 1) * V ELSE k * V
  BY DEF Faces, V, D
<1>6. Faces(o, h) \in Nat
  BY <1>1, <1>2, <1>4, <1>5
<1>7. ASSUME h > 0 PROVE Faces(o, h + 1) = Faces(o, h) + V
  <2>1. h * V = (h - 1) * V + V /\ (h + 1) * V = h * V + V /\ (h - 1) * V \in Nat /\ h * V \in Nat
    BY <1>2, <1>4, <1>7
  <2>2. Faces(o, h + 1) = IF o.flag = "insert" THEN D + h * V ELSE (h + 1) * V
    BY <1>4, <1>5, <1>7
  <2>3. Faces(o, h) = IF o.flag = "insert" THEN D + (h - 1) * V ELSE h * V
    BY <1>5, <1>7
  <2> QED BY <1>1, <2>1, <2>2, <2>3
<1>8. Faces(o, 0) = 0 /\ Faces(o, 1) = IF o.flag = "insert" THEN D ELSE V
  <2>1. 1 - 1 = 0 /\ 1 # 0
    OBVIOUS
  <2> QED BY <1>1, <1>3, <1>5, <2>1
<1> QED BY <1>6, <1>7, <1>8 DEF V, D

LEMMA AfterIs ==
    ASSUME NEW o \in Particles, NEW h \in Nat
    PROVE  /\ After(o, h) \in WalkStates /\ Abs(After(o, h).v) = Abs(o.v)
           /\ After(o, 0) = [x |-> o.icell, v |-> o.v]
           /\ After(o, h).x = 0 => After(o, h + 1).x = 0
<1>1. o.icell \in Cells /\ o.v \in Int /\ Faces(o, h) \in Nat
  BY MoreFaces DEF Particles
<1>2. After(o, h) \in WalkStates /\ Abs(After(o, h).v) = Abs(o.v)
  BY <1>1, SerialKeepsSpeed DEF After
<1>3. After(o, 0) = [x |-> o.icell, v |-> o.v]
  BY MoreFaces, SerialStarts DEF After
<1>4. ASSUME After(o, h).x = 0 PROVE After(o, h + 1).x = 0
  <2>1. h > 0
    <3>1. 0 \notin Cells
      BY SizesAssumption DEF Cells
    <3> QED BY <1>1, <1>3, <1>4, <3>1
  <2>2. After(o, h) = [x |-> After(o, h).x, v |-> After(o, h).v]
    BY <1>2 DEF WalkStates
  <2>3. PICK y, u : y = After(o, h).x /\ u = After(o, h).v
    OBVIOUS
  <2>4. Serial(o.icell, o.v, Faces(o, h)) = [x |-> y, v |-> u]
    BY <2>2, <2>3 DEF After
  <2>5. Abs(o.v) \in Nat /\ Faces(o, h + 1) = Faces(o, h) + Abs(o.v)
    BY <1>1, <2>1, MoreFaces DEF Abs
  <2>6. After(o, h + 1) = Serial(y, u, Abs(o.v))
    BY <1>1, <2>4, <2>5, SerialSum DEF After
  <2>7. y = 0 /\ u \in Int
    BY <1>2, <1>4, <2>3 DEF WalkStates
  <2> QED BY <2>5, <2>6, <2>7, SerialKeepsSpeed
<1> QED BY <1>2, <1>3, <1>4

LEMMA StartIs ==
    ASSUME start \in Starts, NEW o \in start
    PROVE  o \in Particles /\ o.x = o.icell /\ o.flag \in {"keep", "insert"}
BY StartsAssumption

(* A particle that is ready for its move is on the way to its end.         *)
LEMMA ReadyGoes ==
    ASSUME start \in Starts, ~Weighted, NEW o \in start, NEW h \in Nat, NEW a \in Particles, Ready(a, o, h)
    PROVE  Serial(a.x, a.v, Remaining(a)) = After(o, h + 1)
<1>1. o \in Particles /\ o.x = o.icell /\ o.flag \in {"keep", "insert"}
  BY StartIs
<1>2. \A v : FacesOfMove(v) = Abs(v)
  BY DEF FacesOfMove
<1>3. CASE h = 0
  <2>1. a = o
    BY <1>3 DEF Ready
  <2>2. Faces(o, h + 1) = IF o.flag = "insert" THEN o.dtremain ELSE Abs(o.v)
    BY <1>1, <1>3, MoreFaces
  <2>3. Remaining(a) = Faces(o, h + 1)
    BY <1>1, <1>2, <2>1, <2>2 DEF Remaining
  <2> QED BY <1>1, <2>1, <2>3 DEF After
<1>4. CASE h # 0
  <2>1. StateOf(a) = After(o, h) /\ Remaining(a) = Abs(a.v)
    BY <1>2, <1>4 DEF Ready, There, Remaining
  <2>2. Serial(o.icell, o.v, Faces(o, h)) = [x |-> a.x, v |-> a.v]
    BY <2>1 DEF After, StateOf
  <2>3. Abs(a.v) = Abs(o.v)
    <3>1. Abs(After(o, h).v) = Abs(o.v) /\ After(o, h).v = a.v
      BY <1>1, <2>1, AfterIs DEF StateOf
    <3> QED BY <3>1
  <2>4. Abs(o.v) \in Nat /\ Faces(o, h) \in Nat /\ Faces(o, h + 1) = Faces(o, h) + Abs(o.v)
    <3>1. h > 0 /\ o.v \in Int
      BY <1>1, <1>4 DEF Particles
    <3> QED BY <1>1, <3>1, MoreFaces DEF Abs
  <2>5. After(o, h + 1) = Serial(a.x, a.v, Abs(o.v))
    BY <2>2, <2>4, SerialSum DEF After
  <2> QED BY <2>1, <2>3, <2>5
<1> QED BY <1>3, <1>4

-----------------------------------------------------------------------------
(* What is known of a particle in each place, o being the particle of      *)
(* start that it comes from.                                               *)
TodoTrack(a, o, p) == /\ a.x = a.icell /\ owner[a.icell] = p
                      /\ IF first[p] THEN Ready(a, o, half[p]) ELSE Carried(a, o, half[p])
KeptTrack(a, o, p) == /\ a.x = a.icell /\ owner[a.x] = p
                      /\ IF pc[p] = "idle" THEN Ready(a, o, half[p])
                         ELSE /\ a.flag = "keep" /\ There(a, o, half[p] + 1)
                              /\ first[p] => From(o, half[p], p)
WalkTrack(a, o, p) == /\ a.x = icell[p] /\ Going(a, o, half[p])
                      /\ first[p] => From(o, half[p], p)
MlistTrack(a, o, p) ==
    /\ first[p] => From(o, half[p], p)
    /\ IF a.flag = "discard" THEN After(o, half[p] + 1).x = 0
       ELSE /\ a.x = a.icell /\ Carried(a, o, half[p])
            /\ a.flag # "done" => entryexit[p]
\* The half timestep that the k-th batch for q belongs to.
HalfOfMail(q, k) == IF k = 1 THEN half[q] ELSE half[q] + OneIf(final[q])
MailTrack(a, o, p, q, k) ==
    /\ a.x = a.icell /\ owner[a.icell] = q
    /\ k > 1 \/ Fresh(q) => From(o, HalfOfMail(q, k), p)
    /\ Carried(a, o, HalfOfMail(q, k))
    /\ a.flag # "done" => k = 1 /\ ~final[q] /\ (Migrating(q) \/ entryexit[p])
OnTrack(s, a, o) ==
    CASE s[1] = "todo"  -> TodoTrack(a, o, s[2])
      [] s[1] = "kept"  -> KeptTrack(a, o, s[2])
      [] s[1] = "walk"  -> WalkTrack(a, o, s[2])
      [] s[1] = "mlist" -> MlistTrack(a, o, s[2])
      [] s[1] = "mail"  -> MailTrack(a, o, s[2], s[3], s[4])

AllOnTrack == \A s \in PlacesOf : \A a \in Content[s] : \E o \in start : o.id = a.id /\ OnTrack(s, a, o)
TrackInv == start \in Starts /\ AllOnTrack

LEMMA OnTrackOf ==
    ASSUME NEW p, NEW q, NEW k, NEW a, NEW o
    PROVE  /\ OnTrack(InTodo(p), a, o) <=> TodoTrack(a, o, p)
           /\ OnTrack(InKept(p), a, o) <=> KeptTrack(a, o, p)
           /\ OnTrack(InWalk(p), a, o) <=> WalkTrack(a, o, p)
           /\ OnTrack(OnMlist(p), a, o) <=> MlistTrack(a, o, p)
           /\ OnTrack(InMail(p, q, k), a, o) <=> MailTrack(a, o, p, q, k)
BY DEF OnTrack, InTodo, InKept, InWalk, OnMlist, InMail

LEMMA OnTrackThen ==
    ASSUME NEW p, NEW q, NEW k, NEW a, NEW o
    PROVE  /\ OnTrack(InTodo(p), a, o)' <=> TodoTrack(a, o, p)'
           /\ OnTrack(InKept(p), a, o)' <=> KeptTrack(a, o, p)'
           /\ OnTrack(InWalk(p), a, o)' <=> WalkTrack(a, o, p)'
           /\ OnTrack(OnMlist(p), a, o)' <=> MlistTrack(a, o, p)'
           /\ OnTrack(InMail(p, q, k), a, o)' <=> MailTrack(a, o, p, q, k)'
BY DEF OnTrack, InTodo, InKept, InWalk, OnMlist, InMail

(* What of the state these facts depend on.                                *)
LEMMA OwnTrackSame ==
    ASSUME owner' = owner, NEW p, half'[p] = half[p], first'[p] = first[p],
           pc'[p] = "idle" <=> pc[p] = "idle", entryexit[p] => entryexit'[p],
           NEW a, NEW o
    PROVE  /\ TodoTrack(a, o, p) => TodoTrack(a, o, p)'
           /\ KeptTrack(a, o, p) => KeptTrack(a, o, p)'
           /\ icell'[p] = icell[p] /\ WalkTrack(a, o, p) => WalkTrack(a, o, p)'
           /\ MlistTrack(a, o, p) => MlistTrack(a, o, p)'
BY DEF TodoTrack, KeptTrack, WalkTrack, MlistTrack, From, Owned, Ready, Carried, There, Going

LEMMA MailTrackSame ==
    ASSUME owner' = owner, NEW p, NEW q, half'[q] = half[q], final'[q] = final[q],
           Fresh(q)' => Fresh(q), Migrating(q) \/ entryexit[p] => Migrating(q)' \/ entryexit'[p],
           NEW k, NEW a, NEW o, MailTrack(a, o, p, q, k)
    PROVE  MailTrack(a, o, p, q, k)'
BY DEF MailTrack, HalfOfMail, From, Owned, Carried, There, Going

-----------------------------------------------------------------------------
(* The steps of one process with one particle.                             *)
LEMMA LocalFrame ==
    ASSUME MoveInv, NEW p \in Proc, Local(p)
    PROVE  /\ UNCHANGED <<start, owner, half, first, final>>
           /\ \A q \in Proc : /\ pc'[q] = "idle" <=> pc[q] = "idle"
                              /\ Fresh(q)' <=> Fresh(q)
                              /\ Migrating(q)' <=> Migrating(q)
                              /\ entryexit[q] => entryexit'[q]
           /\ pc[p] \notin {"idle", "pack", "unpack"} /\ pc'[p] # "idle"
<1>1. UNCHANGED <<start, owner>>
  BY DEF Local, Skip, Jump, Pick, Interior, Cross, EnterEmpty, ExitUnknown, Outflow,
         Bounce, Destroy, Create, grid
<1>2. UNCHANGED <<half, first, final>> /\ pc[p] \in {"pass", "walk"} /\ pc'[p] \in {"pass", "walk"}
  BY LocalControl
<1>3. \A q \in Proc \ {p} : pc'[q] = pc[q] /\ entryexit'[q] = entryexit[q]
  BY LocalControl
<1>4. entryexit[p] => entryexit'[p]
  BY LocalControl
<1> QED BY <1>1, <1>2, <1>3, <1>4 DEF Fresh, Migrating

LEMMA CarryTrack ==
    ASSUME MoveInv, TrackInv, NEW p \in Proc, Local(p),
           NEW f, NEW a, NEW t, NEW b, Carry(f, a, t, b),
           \A q \in Proc \ {p} : icell'[q] = icell[q],
           \A c \in Content[InWalk(p)] : InWalk(p) = f /\ c = a,
           \A o \in start : OnTrack(f, a, o) => OnTrack(t, b, o)'
    PROVE  TrackInv'
<1>1. /\ UNCHANGED <<start, owner, half, first, final>>
      /\ \A q \in Proc : /\ pc'[q] = "idle" <=> pc[q] = "idle"
                         /\ Fresh(q)' <=> Fresh(q)
                         /\ Migrating(q)' <=> Migrating(q)
                         /\ entryexit[q] => entryexit'[q]
  BY LocalFrame
<1> SUFFICES ASSUME NEW s \in PlacesOf, NEW c \in Content'[s]
             PROVE  \E o \in start : o.id = c.id /\ OnTrack(s, c, o)'
  BY <1>1 DEF TrackInv, AllOnTrack, PlacesOf
<1>2. f \in PlacesOf /\ t \in PlacesOf /\ a \in Content[f] /\ b.id = a.id
  BY DEF Carry
<1>3. CASE s = t /\ c = b
  <2>1. PICK o \in start : o.id = a.id /\ OnTrack(f, a, o)
    BY <1>2 DEF TrackInv, AllOnTrack
  <2>2. OnTrack(t, b, o)'
    BY <2>1
  <2>3. OnTrack(s, c, o)' <=> OnTrack(t, b, o)'
    BY <1>3 DEF OnTrack
  <2> QED BY <1>2, <1>3, <2>1, <2>2, <2>3
<1>4. CASE c \in Content[s] /\ ~(s = f /\ c = a)
  <2>1. PICK o \in start : o.id = c.id /\ OnTrack(s, c, o)
    BY <1>4 DEF TrackInv, AllOnTrack
  <2>2. CASE \E q \in Proc : s \in {InTodo(q), InKept(q), OnMlist(q)}
    <3>1. PICK q \in Proc : s \in {InTodo(q), InKept(q), OnMlist(q)}
      BY <2>2
    <3>2. /\ TodoTrack(c, o, q) => TodoTrack(c, o, q)'
          /\ KeptTrack(c, o, q) => KeptTrack(c, o, q)'
          /\ MlistTrack(c, o, q) => MlistTrack(c, o, q)'
      BY <1>1, OwnTrackSame
    <3>3. OnTrack(s, c, o)'
      <4>1. CASE s = InTodo(q)
        BY <2>1, <3>2, <4>1, OnTrackOf, OnTrackThen
      <4>2. CASE s = InKept(q)
        BY <2>1, <3>2, <4>2, OnTrackOf, OnTrackThen
      <4>3. CASE s = OnMlist(q)
        BY <2>1, <3>2, <4>3, OnTrackOf, OnTrackThen
      <4> QED BY <3>1, <4>1, <4>2, <4>3
    <3> QED BY <2>1, <3>3
  <2>3. CASE \E q \in Proc : s = InWalk(q)
    <3>1. PICK q \in Proc : s = InWalk(q)
      BY <2>3
    <3>2. q # p
      BY <1>4, <3>1
    <3>3. WalkTrack(c, o, q) => WalkTrack(c, o, q)'
      BY <1>1, <3>2, OwnTrackSame
    <3> QED BY <2>1, <3>1, <3>3, OnTrackOf, OnTrackThen
  <2>4. CASE \E q, r \in Proc, k \in Nat \ {0} : s = InMail(q, r, k)
    <3>1. PICK q \in Proc, r \in Proc, k \in Nat \ {0} : s = InMail(q, r, k)
      BY <2>4
    <3>2. MailTrack(c, o, q, r, k)
      BY <2>1, <3>1, OnTrackOf
    <3>3. MailTrack(c, o, q, r, k)'
      BY <1>1, <3>2, MailTrackSame
    <3> QED BY <2>1, <3>1, <3>3, OnTrackThen
  <2> QED BY <2>2, <2>3, <2>4, PlaceIs
<1> QED BY <1>3, <1>4 DEF Carry

(* A particle whose move has ended stays if the cell is owned and goes to  *)
(* the owner if not.                                                       *)
LEMMA EndTrack ==
    ASSUME MoveInv, NEW p \in Proc, Local(p), NEW o, NEW b,
           b.x = b.icell, There(b, o, half[p] + 1), b.flag = EndFlag(p, b.x),
           first[p] => From(o, half[p], p)
    PROVE  OnTrack(SettledIn(p, b), b, o)'
<1>1. UNCHANGED <<start, owner, half, first, final>> /\ pc'[p] # "idle"
  BY LocalFrame
<1>2. (first[p] => From(o, half[p], p))'
  BY <1>1 DEF From, Owned
<1>3. There(b, o, half'[p] + 1)
  BY <1>1
<1>4. CASE owner[b.x] = p
  <2>1. b.flag = "keep" /\ SettledIn(p, b) = InKept(p)
    BY <1>4 DEF EndFlag, SettledIn
  <2>2. KeptTrack(b, o, p)'
    BY <1>1, <1>2, <1>3, <1>4, <2>1 DEF KeptTrack, There
  <2>3. OnTrack(InKept(p), b, o)'
    BY <2>2, OnTrackThen
  <2> QED BY <2>1, <2>3 DEF SettledIn
<1>5. CASE owner[b.x] # p
  <2>1. b.flag = "done" /\ SettledIn(p, b) = OnMlist(p)
    BY <1>5 DEF EndFlag, SettledIn
  <2>2. MlistTrack(b, o, p)'
    BY <1>1, <1>2, <1>3, <2>1 DEF MlistTrack, Carried, There
  <2>3. OnTrack(OnMlist(p), b, o)'
    BY <2>2, OnTrackThen
  <2> QED BY <2>1, <2>3 DEF SettledIn
<1> QED BY <1>4, <1>5

(* What is known of a particle that is taken for its move.                 *)
LEMMA TakenUp ==
    ASSUME MoveInv, TrackInv, ~Weighted, NEW p \in Proc, NEW a \in todo[p], ~Arrived(p, a),
           NEW o \in start, TodoTrack(a, o, p)
    PROVE  /\ a \in Particles /\ Remaining(a) \in Nat
           /\ Serial(a.x, a.v, Remaining(a)) = After(o, half[p] + 1)
           /\ first[p] => From(o, half[p], p)
           /\ a.x = a.icell
<1>1. a \in Particles /\ half[p] \in Nat /\ o \in Particles
  BY StartIs, HalvesAssumption DEF MoveInv, TypeOK, ListsType, ControlType, TrackInv
<1>2. a.x = a.icell /\ a.x \in Cells /\ owner[a.x] = p
  BY <1>1 DEF TodoTrack, Particles
<1>3. Remaining(a) \in Nat
  <2>1. a.v \in Int /\ a.dtremain \in Nat
    BY <1>1 DEF Particles
  <2>2. Abs(a.v) \in Nat
    BY <2>1 DEF Abs
  <2>3. 2 * Abs(a.v) \in Nat
    BY <2>2
  <2> QED BY <2>1, <2>2, <2>3 DEF Remaining, FacesOfMove
<1>4. CASE first[p]
  <2>1. Ready(a, o, half[p])
    BY <1>4 DEF TodoTrack
  <2>2. Serial(a.x, a.v, Remaining(a)) = After(o, half[p] + 1)
    BY <1>1, <2>1, ReadyGoes DEF TrackInv
  <2>3. StateOf(a) = After(o, half[p])
    BY <2>1 DEF Ready, There
  <2>4. From(o, half[p], p)
    BY <1>2, <2>3 DEF From, Owned, StateOf
  <2> QED BY <1>1, <1>2, <1>3, <2>2, <2>4
<1>5. CASE ~first[p]
  <2>1. Carried(a, o, half[p]) /\ a.flag # "done"
    BY <1>5 DEF TodoTrack, Arrived
  <2>2. Going(a, o, half[p]) /\ Remaining(a) = a.dtremain
    BY <2>1 DEF Carried, Remaining
  <2> QED BY <1>1, <1>2, <1>3, <1>5, <2>2 DEF Going
<1> QED BY <1>4, <1>5

LEMMA SkipTrack ==
    ASSUME MoveInv, TrackInv, NEW p \in Proc, Skip(p)
    PROVE  TrackInv'
<1>1. PICK a \in todo[p] : /\ Arrived(p, a)
                           /\ Carry(InTodo(p), a, InKept(p), [a EXCEPT !.flag = "keep"])
  BY SkipCarries
<1>2. a \in Particles
  BY DEF MoveInv, TypeOK, ListsType
<1>3. PICK b : b = [a EXCEPT !.flag = "keep"]
  OBVIOUS
<1>4. Local(p) /\ icell' = icell /\ pc[p] = "pass"
  BY DEF Local, Skip, Go
<1>5. UNCHANGED <<start, owner, half, first, final>> /\ pc'[p] # "idle"
  BY <1>4, LocalFrame
<1>6. ASSUME NEW o \in start, OnTrack(InTodo(p), a, o)
      PROVE  OnTrack(InKept(p), b, o)'
  <2>1. TodoTrack(a, o, p)
    BY <1>6, OnTrackOf
  <2>2. a.x = a.icell /\ owner[a.icell] = p /\ There(a, o, half[p] + 1) /\ ~first[p]
    BY <1>1, <2>1 DEF TodoTrack, Arrived, Carried
  <2>3. b.x = a.x /\ b.icell = a.icell /\ b.v = a.v /\ b.flag = "keep"
    BY <1>2, <1>3 DEF Particles
  <2>4. There(b, o, half'[p] + 1)
    BY <1>5, <2>2, <2>3 DEF There, StateOf
  <2>5. KeptTrack(b, o, p)'
    BY <1>5, <2>2, <2>3, <2>4 DEF KeptTrack, There
  <2> QED BY <2>5, OnTrackThen
<1> DEFINE f == InTodo(p)
           t == InKept(p)
<1>7. Carry(f, a, t, b) /\ \A o \in start : OnTrack(f, a, o) => OnTrack(t, b, o)'
  BY <1>1, <1>3, <1>6
<1>8. Content[InWalk(p)] = {}
  BY <1>4, ContentOf DEF Moving
<1> HIDE DEF f, t
<1> QED BY <1>4, <1>7, <1>8, CarryTrack

LEMMA JumpTrack ==
    ASSUME MoveInv, TrackInv, ~Weighted, NEW p \in Proc, Jump(p)
    PROVE  TrackInv'
<1>1. PICK a \in todo[p], b \in Particles :
         /\ ~Arrived(p, a) /\ CanJump(p, a)
         /\ b = [a EXCEPT !.x = JumpCell(a), !.icell = JumpCell(a), !.flag = EndFlag(p, JumpCell(a))]
         /\ Carry(InTodo(p), a, SettledIn(p, b), b)
  BY JumpCarries
<1>2. a \in Particles
  BY DEF MoveInv, TypeOK, ListsType
<1>3. Local(p) /\ icell' = icell /\ pc[p] = "pass"
  BY DEF Local, Jump, Go
<1>4. ASSUME NEW o \in start, OnTrack(InTodo(p), a, o)
      PROVE  OnTrack(SettledIn(p, b), b, o)'
  <2>1. TodoTrack(a, o, p)
    BY <1>4, OnTrackOf
  <2>2. /\ Remaining(a) \in Nat
        /\ Serial(a.x, a.v, Remaining(a)) = After(o, half[p] + 1)
        /\ first[p] => From(o, half[p], p)
    BY <1>1, <2>1, TakenUp
  <2>3. b.x = JumpCell(a) /\ b.icell = JumpCell(a) /\ b.flag = EndFlag(p, JumpCell(a)) /\ b.v = a.v
    BY <1>1, <1>2 DEF Particles
  <2>4. a.x \in Cells /\ a.v \in Int /\ a.x + Direction(a.v) * Remaining(a) \in Cells
    BY <1>1, <1>2 DEF Particles, CanJump, JumpCell
  <2>5. Serial(a.x, a.v, Remaining(a)) = [x |-> a.x + Direction(a.v) * Remaining(a), v |-> a.v]
    BY <2>2, <2>4, StraightAhead
  <2>6. There(b, o, half[p] + 1)
    BY <2>2, <2>3, <2>5 DEF There, StateOf, JumpCell
  <2>7. b.x = b.icell /\ b.flag = EndFlag(p, b.x)
    BY <2>3
  <2> QED BY <1>3, <2>2, <2>6, <2>7, EndTrack
<1> DEFINE f == InTodo(p)
           t == SettledIn(p, b)
<1>5. Carry(f, a, t, b) /\ \A o \in start : OnTrack(f, a, o) => OnTrack(t, b, o)'
  BY <1>1, <1>4
<1>6. Content[InWalk(p)] = {}
  BY <1>3, ContentOf DEF Moving
<1> HIDE DEF f, t
<1> QED BY <1>3, <1>5, <1>6, CarryTrack

LEMMA PickTrack ==
    ASSUME MoveInv, TrackInv, ~Weighted, NEW p \in Proc, Pick(p)
    PROVE  TrackInv'
<1>1. PICK a \in todo[p] :
         /\ ~Arrived(p, a)
         /\ icell' = [icell EXCEPT ![p] = a.icell]
         /\ Carry(InTodo(p), a, InWalk(p), [a EXCEPT !.flag = "keep", !.dtremain = Remaining(a)])
  BY PickCarries
<1>2. a \in Particles /\ icell \in [Proc -> Cells]
  BY DEF MoveInv, TypeOK, ListsType, WalkerType
<1>3. PICK b : b = [a EXCEPT !.flag = "keep", !.dtremain = Remaining(a)]
  OBVIOUS
<1>4. Local(p) /\ pc[p] = "pass"
  BY DEF Local, Pick, Go
<1>5. UNCHANGED <<start, owner, half, first, final>>
  BY <1>4, LocalFrame
<1>6. ASSUME NEW o \in start, OnTrack(InTodo(p), a, o)
      PROVE  OnTrack(InWalk(p), b, o)'
  <2>1. TodoTrack(a, o, p)
    BY <1>6, OnTrackOf
  <2>2. /\ Serial(a.x, a.v, Remaining(a)) = After(o, half[p] + 1)
        /\ first[p] => From(o, half[p], p)
        /\ a.x = a.icell
    BY <1>1, <2>1, TakenUp
  <2>3. b.x = a.x /\ b.v = a.v /\ b.dtremain = Remaining(a)
    BY <1>2, <1>3 DEF Particles
  <2>4. Going(b, o, half'[p]) /\ icell'[p] = b.x
    BY <1>1, <1>2, <1>5, <2>2, <2>3 DEF Going
  <2>5. (first[p] => From(o, half[p], p))'
    BY <1>5, <2>2 DEF From, Owned
  <2>6. WalkTrack(b, o, p)'
    BY <2>4, <2>5 DEF WalkTrack, Going
  <2> QED BY <2>6, OnTrackThen
<1> DEFINE f == InTodo(p)
           t == InWalk(p)
<1>7. Carry(f, a, t, b) /\ \A o \in start : OnTrack(f, a, o) => OnTrack(t, b, o)'
  BY <1>1, <1>3, <1>6
<1>8. Content[InWalk(p)] = {} /\ \A q \in Proc \ {p} : icell'[q] = icell[q]
  BY <1>1, <1>2, <1>4, ContentOf DEF Moving
<1> HIDE DEF f, t
<1> QED BY <1>4, <1>7, <1>8, CarryTrack

LEMMA StopTrack ==
    ASSUME MoveInv, TrackInv, NEW p \in Proc, Local(p), NEW b, Stop(p, b), b.id = part[p].id,
           UNCHANGED <<todo, batches>>,
           \A o \in start : WalkTrack(part[p], o, p) => OnTrack(SettledIn(p, b), b, o)'
    PROVE  TrackInv'
<1> DEFINE f == InWalk(p)
           a == part[p]
           t == SettledIn(p, b)
<1>1. Carry(f, a, t, b)
  BY StopCarries
<1>2. \A q \in Proc \ {p} : icell'[q] = icell[q]
  BY DEF Stop, MoveInv, TypeOK, WalkerType
<1>3. \A c \in Content[InWalk(p)] : InWalk(p) = f /\ c = a
  <2>1. Content[InWalk(p)] = Moving(p)
    BY ContentOf
  <2> QED BY <2>1 DEF Moving
<1>4. \A o \in start : OnTrack(f, a, o) => OnTrack(t, b, o)'
  BY OnTrackOf
<1> HIDE DEF f, a, t
<1> QED BY <1>1, <1>2, <1>3, <1>4, CarryTrack

(* The particle on its walk.                                               *)
LEMMA Walker ==
    ASSUME MoveInv, NEW p \in Proc, pc[p] = "walk"
    PROVE  /\ part[p] \in Particles /\ icell[p] \in Cells /\ icell[p] # 0
           /\ part[p].dtremain \in Nat /\ part[p].v \in Int
           /\ Across(p) = Neighbor(icell[p], Direction(part[p].v)) /\ Across(p) \in Cells \union {0}
<1>1. part[p] \in Particles /\ icell[p] \in Cells
  BY DEF MoveInv, TypeOK, WalkerType
<1>2. part[p].dtremain \in Nat /\ part[p].v \in Int
  BY <1>1 DEF Particles
<1>3. Across(p) = Neighbor(icell[p], Direction(part[p].v)) /\ Across(p) \in Cells \union {0}
  BY AcrossIsCell DEF MoveInv, TypeOK
<1> QED BY <1>1, <1>2, <1>3, SizesAssumption DEF Cells

(* A face is crossed as one process would cross it.                        *)
LEMMA FaceCrossed ==
    ASSUME MoveInv, NEW p \in Proc, Walking(p), NEW o, WalkTrack(part[p], o, p)
    PROVE  LET w == SerialStep([x |-> icell[p], v |-> part[p].v])
           IN Serial(w.x, w.v, part[p].dtremain - 1) = After(o, half[p] + 1)
<1>1. pc[p] = "walk" /\ part[p].dtremain > 0
  BY DEF Walking
<1>2. Serial(icell[p], part[p].v, part[p].dtremain) = After(o, half[p] + 1)
  BY DEF WalkTrack, Going
<1> QED BY <1>1, <1>2, Walker, OneFaceLess

LEMMA InteriorTrack ==
    ASSUME MoveInv, TrackInv, NEW p \in Proc, Interior(p)
    PROVE  TrackInv'
<1>1. PICK b : b = [part[p] EXCEPT !.icell = icell[p], !.flag = EndFlag(p, icell[p])]
  OBVIOUS
<1>2. Local(p) /\ Stop(p, b) /\ UNCHANGED <<todo, batches>> /\ pc[p] = "walk" /\ part[p].dtremain = 0
  BY <1>1 DEF Local, Interior, mail
<1>3. /\ b.id = part[p].id /\ b.x = part[p].x /\ b.v = part[p].v
      /\ b.icell = icell[p] /\ b.flag = EndFlag(p, icell[p])
  BY <1>1, <1>2, Walker DEF Particles
<1>4. ASSUME NEW o \in start, WalkTrack(part[p], o, p)
      PROVE  OnTrack(SettledIn(p, b), b, o)'
  <2>1. b.x = b.icell /\ b.flag = EndFlag(p, b.x) /\ (first[p] => From(o, half[p], p))
    BY <1>3, <1>4 DEF WalkTrack
  <2>2. There(b, o, half[p] + 1)
    <3>1. Serial(part[p].x, part[p].v, 0) = After(o, half[p] + 1)
      BY <1>2, <1>4 DEF WalkTrack, Going
    <3> QED BY <1>3, <3>1, SerialStarts DEF There, StateOf
  <2> QED BY <1>2, <2>1, <2>2, EndTrack
<1> QED BY <1>2, <1>3, <1>4, StopTrack

LEMMA OnwardTrack ==
    ASSUME MoveInv, TrackInv, NEW p \in Proc, EnterEmpty(p) \/ ExitUnknown(p)
    PROVE  TrackInv'
<1>1. PICK b : b = IF EnterEmpty(p) THEN [Crossed(p) EXCEPT !.icell = Across(p), !.flag = "entry"]
                   ELSE [part[p] EXCEPT !.x = Uncollided(p), !.icell = icell[p], !.flag = "exit"]
  OBVIOUS
<1>2. Local(p) /\ Stop(p, b) /\ UNCHANGED <<todo, batches>> /\ Walking(p) /\ Across(p) # 0 /\ pc[p] = "walk"
  BY <1>1 DEF Local, EnterEmpty, ExitUnknown, Walking, mail
<1>3. /\ b.id = part[p].id /\ b.v = part[p].v /\ b.x = b.icell /\ b.flag \in {"entry", "exit"}
      /\ EnterEmpty(p) => b.x = Across(p) /\ b.dtremain = part[p].dtremain - 1
      /\ ~EnterEmpty(p) => b.x = icell[p] /\ b.dtremain = part[p].dtremain
  <2>1. part[p] \in Particles
    BY <1>2, Walker
  <2> QED BY <1>1, <1>2, <2>1 DEF Particles, Crossed, Uncollided
<1>4. UNCHANGED <<start, owner, half, first, final>>
  BY <1>2, LocalFrame
<1>5. entryexit'[p]
  BY DEF EnterEmpty, ExitUnknown, MoveInv, TypeOK, ControlType
<1>6. ASSUME NEW o \in start, WalkTrack(part[p], o, p)
      PROVE  OnTrack(SettledIn(p, b), b, o)'
  <2>1. Going(b, o, half[p])
    <3>1. CASE EnterEmpty(p)
      <4>1. SerialStep([x |-> icell[p], v |-> part[p].v]) = [x |-> Across(p), v |-> part[p].v]
        BY <1>2, Walker DEF SerialStep
      <4> QED BY <1>2, <1>3, <1>6, <3>1, <4>1, FaceCrossed DEF Going
    <3>2. CASE ~EnterEmpty(p)
      BY <1>3, <1>6, <3>2 DEF Going, WalkTrack
    <3> QED BY <3>1, <3>2
  <2>2. (first[p] => From(o, half[p], p))'
    BY <1>4, <1>6 DEF From, Owned, WalkTrack
  <2>3. Going(b, o, half'[p])
    BY <1>4, <2>1
  <2>4. b.flag # "discard" /\ b.flag # "keep"
    BY <1>3
  <2>5. MlistTrack(b, o, p)'
    BY <1>3, <1>5, <2>2, <2>3, <2>4 DEF MlistTrack, Carried, Going
  <2>6. SettledIn(p, b) = OnMlist(p)
    BY <2>4 DEF SettledIn
  <2>7. OnTrack(OnMlist(p), b, o)'
    BY <2>5, OnTrackThen
  <2> QED BY <2>4, <2>7 DEF SettledIn
<1> QED BY <1>2, <1>3, <1>6, StopTrack

LEMMA OutflowTrack ==
    ASSUME MoveInv, TrackInv, NEW p \in Proc, Outflow(p)
    PROVE  TrackInv'
<1>1. PICK b : b = [part[p] EXCEPT !.icell = icell[p], !.flag = "discard"]
  OBVIOUS
<1>2. /\ Local(p) /\ Stop(p, b) /\ UNCHANGED <<todo, batches>> /\ Walking(p) /\ Across(p) = 0 /\ pc[p] = "walk"
      /\ Boundary[Direction(part[p].v)] = "outflow"
  BY <1>1 DEF Local, Outflow, Discard, AtWall, Walking, mail
<1>3. b.id = part[p].id /\ b.flag = "discard"
  <2>1. part[p] \in Particles
    BY <1>2, Walker
  <2> QED BY <1>1, <2>1 DEF Particles
<1>4. UNCHANGED <<start, owner, half, first, final>>
  BY <1>2, LocalFrame
<1>5. ASSUME NEW o \in start, WalkTrack(part[p], o, p)
      PROVE  OnTrack(SettledIn(p, b), b, o)'
  <2>1. SerialStep([x |-> icell[p], v |-> part[p].v]) = [x |-> 0, v |-> part[p].v]
    BY <1>2, Walker DEF SerialStep
  <2>2. Serial(0, part[p].v, part[p].dtremain - 1) = After(o, half[p] + 1)
    BY <1>2, <1>5, <2>1, FaceCrossed
  <2>3. After(o, half[p] + 1).x = 0
    <3>1. part[p].v \in Int /\ part[p].dtremain - 1 \in Nat
      BY <1>2, Walker DEF Walking
    <3> QED BY <2>2, <3>1, SerialKeepsSpeed
  <2>4. (first[p] => From(o, half[p], p))' /\ After(o, half'[p] + 1).x = 0
    BY <1>4, <1>5, <2>3 DEF From, Owned, WalkTrack
  <2>5. MlistTrack(b, o, p)'
    BY <1>3, <2>4 DEF MlistTrack
  <2>6. OnTrack(OnMlist(p), b, o)'
    BY <2>5, OnTrackThen
  <2> QED BY <1>3, <2>6 DEF SettledIn
<1> QED BY <1>2, <1>3, <1>5, StopTrack

LEMMA CrossTrack ==
    ASSUME MoveInv, TrackInv, NEW p \in Proc, Cross(p) \/ (Bounce(p) /\ NoReactions)
    PROVE  TrackInv'
<1>1. PICK b : b = IF Cross(p) THEN Crossed(p) ELSE Bounced(part[p])
  OBVIOUS
<1>2. PICK c : c = IF Cross(p) THEN Across(p) ELSE icell[p]
  OBVIOUS
<1>3. /\ Local(p) /\ Walking(p) /\ pc[p] = "walk" /\ pc' = pc /\ part' = [part EXCEPT ![p] = b]
      /\ UNCHANGED <<todo, kept, leaving, batches>>
      /\ icell' = [icell EXCEPT ![p] = c]
  BY <1>1, <1>2 DEF Local, Cross, Bounce, AtWall, Walking, lists, mail, MoveInv, TypeOK, WalkerType
<1>4. /\ b.id = part[p].id /\ b.dtremain = part[p].dtremain - 1
      /\ Cross(p) => b.v = part[p].v /\ b.x = Across(p)
      /\ ~Cross(p) => b.v = -part[p].v /\ b.x = part[p].x
  <2>1. part[p] \in Particles
    BY <1>3, Walker
  <2> QED BY <1>1, <2>1 DEF Particles, Crossed, Bounced
<1>5. UNCHANGED <<start, owner, half, first, final>>
  BY <1>3, LocalFrame
<1>6. icell'[p] = c /\ \A q \in Proc \ {p} : icell'[q] = icell[q]
  BY <1>3 DEF MoveInv, TypeOK, WalkerType
<1>7. ASSUME NEW o \in start, WalkTrack(part[p], o, p)
      PROVE  OnTrack(InWalk(p), b, o)'
  <2> DEFINE w == SerialStep([x |-> icell[p], v |-> part[p].v])
  <2>1. w = [x |-> b.x, v |-> b.v] /\ b.x = c
    <3>1. CASE Cross(p)
      BY <1>2, <1>4, <3>1, Walker, <1>3 DEF SerialStep, Cross
    <3>2. CASE ~Cross(p)
      <4>1. Across(p) = 0 /\ Boundary[Direction(part[p].v)] # "outflow"
        BY <3>2 DEF Bounce, AtWall
      <4>2. part[p].x = icell[p]
        BY <1>7 DEF WalkTrack
      <4> QED BY <1>2, <1>3, <1>4, <3>2, <4>1, <4>2, Walker DEF SerialStep
    <3> QED BY <3>1, <3>2
  <2>2. Going(b, o, half'[p])
    BY <1>3, <1>4, <1>5, <1>7, <2>1, FaceCrossed DEF Going
  <2>3. (first[p] => From(o, half[p], p))'
    BY <1>5, <1>7 DEF From, Owned, WalkTrack
  <2>4. WalkTrack(b, o, p)'
    BY <1>6, <2>1, <2>2, <2>3 DEF WalkTrack, Going
  <2> QED BY <2>4, OnTrackThen
<1> DEFINE f == InWalk(p)
           a == part[p]
<1>8. Carry(f, a, f, b)
  BY <1>3, <1>4, WalkCarries
<1>9. \A d \in Content[InWalk(p)] : InWalk(p) = f /\ d = a
  <2>1. Content[InWalk(p)] = Moving(p)
    BY ContentOf
  <2> QED BY <2>1 DEF Moving
<1>10. \A o \in start : OnTrack(f, a, o) => OnTrack(f, b, o)'
  BY <1>7, OnTrackOf
<1> HIDE DEF f, a
<1> QED BY <1>3, <1>6, <1>8, <1>9, <1>10, CarryTrack

-----------------------------------------------------------------------------
(* The steps of the passes and of the migration.                           *)
LEMMA MailIs ==
    ASSUME MoveInv, Rounds, NEW p \in Proc, NEW q \in Proc, NEW k \in Nat \ {0},
           NEW a \in Content[InMail(p, q, k)]
    PROVE  /\ Ahead(p, q) \in {0, 1}
           /\ Ahead(p, q) = 0 => k = 1 /\ pc[p] = "unpack"
           /\ Ahead(p, q) = 1 => pc[q] = "unpack"
           /\ k > 1 => k = 2 /\ Ahead(p, q) = 1 /\ pc[p] = "unpack"
<1>1. k <= Len(batches[p][q]) /\ Len(batches[p][q]) \in Nat
  BY ContentOf, AheadType
<1>2. Ahead(p, q) \in {-1, 0, 1} /\ (Ahead(p, q) = 1 => pc[q] = "unpack")
  BY AtMostOneAhead
<1>3. CASE pc[p] = "unpack"
  <2>1. Ahead(p, q) = Len(batches[p][q]) - 1
    BY <1>3 DEF Ahead, OneIf
  <2>2. Ahead(p, q) + 1 >= k
    BY <1>1, <1>2, <2>1
  <2>3. Ahead(p, q) \in {0, 1} /\ (Ahead(p, q) = 0 => k = 1) /\ (k > 1 => k = 2 /\ Ahead(p, q) = 1)
    <3>1. \A m \in {-1, 0, 1} : m + 1 >= k => m \in {0, 1} /\ (m = 0 => k = 1) /\ (k > 1 => k = 2 /\ m = 1)
      OBVIOUS
    <3> QED BY <1>2, <2>2, <3>1
  <2> QED BY <1>2, <1>3, <2>3
<1>4. CASE pc[p] # "unpack"
  <2>1. Ahead(p, q) = Len(batches[p][q]) - 0
    BY <1>4 DEF Ahead, OneIf
  <2>2. Ahead(p, q) >= k
    BY <1>1, <1>2, <2>1
  <2>3. Ahead(p, q) = 1 /\ k = 1
    <3>1. \A m \in {-1, 0, 1} : m >= k => m = 1 /\ k = 1
      OBVIOUS
    <3> QED BY <1>2, <2>2, <3>1
  <2> QED BY <1>2, <1>4, <2>3
<1> QED BY <1>3, <1>4

(* Whoever packs has heard the votes of all, and packs for the last time   *)
(* only if nobody has asked for another pass.                              *)
LEMMA FinalSaysNo ==
    ASSUME MoveInv, SyncInv, NEW p \in Proc, pc[p] = "pack"
    PROVE  /\ final[p] => \A r \in Proc : ~entryexit[r]
           /\ Cutoff >= 0 => \A r \in Proc : Ahead(p, r) = 0
           /\ Cutoff < 0 => \A r \in Proc : ~entryexit[r]
<1> USE CutoffAssumption
<1>1. Rounds /\ Votes /\ FinalWhen /\ Migrating(p)
  BY DEF SyncInv, Migrating
<1>2. CASE Cutoff < 0
  BY <1>1, <1>2 DEF FinalWhen
<1>3. CASE Cutoff >= 0
  <2>1. ASSUME NEW r \in Proc PROVE Ahead(r, p) = 0 /\ Ahead(p, r) = 0
    <3>1. /\ Ahead(r, p) \in {-1, 0, 1} /\ (Ahead(r, p) = 1 => pc[p] = "unpack")
          /\ Ahead(p, r) + Ahead(r, p) = 0 /\ Ahead(p, r) \in {-1, 0, 1}
      BY <1>1, AtMostOneAhead
    <3>2. Len(votes[r][p]) \in Nat /\ Len(votes[r][p]) = Ahead(r, p) + OneIf(Voted(r)) - OneIf(Migrating(p))
      BY <1>1, <1>3, VoteCount
    <3>3. OneIf(Voted(r)) \in {0, 1} /\ OneIf(Migrating(p)) = 1
      BY <1>1 DEF OneIf
    <3> QED BY <3>1, <3>2, <3>3
  <2> QED BY <1>1, <1>3, <2>1 DEF FinalWhen
<1> QED BY <1>2, <1>3

LEMMA EndsTrack ==
    ASSUME MoveInv, SyncInv, TrackInv, NEW p \in Proc, EndPass(p) \/ EndOnlyPass(p) \/ Reduced(p)
    PROVE  TrackInv'
<1> USE CutoffAssumption
<1>1. UNCHANGED <<start, owner, half, first, entryexit, icell>>
  BY DEF EndPass, EndOnlyPass, Reduced, grid
<1>2. \A s \in PlacesOf : Content'[s] = Content[s]
  BY SameEnds
<1>3. /\ \A q \in Proc : pc'[q] = "idle" <=> pc[q] = "idle"
      /\ \A q \in Proc : Fresh(q)' => Fresh(q)
      /\ \A q \in Proc \ {p} : final'[q] = final[q] /\ (Migrating(q)' <=> Migrating(q))
      /\ pc[p] \in {"pass", "reduce"}
  BY EndControl DEF Migrating
<1>4. EndPass(p) => final' = final /\ ~Migrating(p)
  BY EndControl DEF Migrating
<1> SUFFICES ASSUME NEW s \in PlacesOf, NEW c \in Content[s], NEW o \in start, OnTrack(s, c, o)
             PROVE  OnTrack(s, c, o)'
  BY <1>1, <1>2 DEF TrackInv, AllOnTrack, PlacesOf
<1>5. CASE \E q \in Proc : s \in {InTodo(q), InKept(q), OnMlist(q), InWalk(q)}
  <2>1. PICK q \in Proc : s \in {InTodo(q), InKept(q), OnMlist(q), InWalk(q)}
    BY <1>5
  <2>2. /\ TodoTrack(c, o, q) => TodoTrack(c, o, q)'
        /\ KeptTrack(c, o, q) => KeptTrack(c, o, q)'
        /\ MlistTrack(c, o, q) => MlistTrack(c, o, q)'
        /\ WalkTrack(c, o, q) => WalkTrack(c, o, q)'
    BY <1>1, <1>3, OwnTrackSame
  <2> QED BY <2>1, <2>2, OnTrackOf, OnTrackThen
<1>6. CASE \E q, r \in Proc, k \in Nat \ {0} : s = InMail(q, r, k)
  <2>1. PICK q \in Proc, r \in Proc, k \in Nat \ {0} : s = InMail(q, r, k)
    BY <1>6
  <2>2. MailTrack(c, o, q, r, k) /\ c \in Content[InMail(q, r, k)]
    BY <2>1, OnTrackOf
  <2>3. CASE r # p \/ EndPass(p)
    <3>1. /\ final'[r] = final[r] /\ (Fresh(r)' => Fresh(r)) /\ half'[r] = half[r]
          /\ Migrating(r) \/ entryexit[q] => Migrating(r)' \/ entryexit'[q]
      BY <1>1, <1>3, <1>4, <2>3
    <3>2. MailTrack(c, o, q, r, k)'
      BY <1>1, <2>2, <3>1, MailTrackSame
    <3> QED BY <2>1, <3>2, OnTrackThen
  <2>4. CASE r = p /\ ~EndPass(p)
    <3>1. k = 1
      BY <1>3, <2>2, <2>4, MailIs DEF SyncInv
    <3>2. ASSUME c.flag # "done" PROVE ~final'[p] /\ Migrating(p)'
      <4>1. entryexit[q]
        BY <1>3, <2>2, <2>4, <3>2 DEF MailTrack, Migrating
      <4>2. Cutoff >= 0 /\ ~EndOnlyPass(p)
        BY <4>1, EndControl DEF SyncInv, FinalWhen
      <4>3. final'[p] = ~AnyEntryexit(p) /\ AllPosted(votes, p) /\ pc'[p] = "pack"
        BY <2>4, <4>2, EndControl
      <4>4. Head(votes[q][p]) = entryexit[q]
        BY <4>2, <4>3, VoteCount DEF SyncInv, AllPosted
      <4> QED BY <4>1, <4>3, <4>4 DEF AnyEntryexit, Migrating
    <3>3. /\ c.x = c.icell /\ owner[c.icell] = p /\ (Fresh(p) => From(o, half[p], q))
          /\ Carried(c, o, half[p])
      BY <2>2, <2>4, <3>1 DEF MailTrack, HalfOfMail
    <3>4. (Fresh(p) => From(o, half[p], q))'
      BY <1>1, <1>3, <3>3 DEF From, Owned
    <3>5. Carried(c, o, half'[p])
      BY <1>1, <3>3
    <3>6. MailTrack(c, o, q, p, 1)'
      BY <1>1, <3>2, <3>3, <3>4, <3>5 DEF MailTrack, HalfOfMail, Carried, There, Going
    <3> QED BY <2>1, <2>4, <3>1, <3>6, OnTrackThen
  <2> QED BY <2>3, <2>4
<1> QED BY <1>5, <1>6, PlaceIs

LEMMA StartTrack ==
    ASSUME MoveInv, SyncInv, TrackInv, NEW p \in Proc, StartMove(p)
    PROVE  TrackInv'
<1>1. UNCHANGED <<start, owner, half, final, icell>> /\ pc[p] = "idle" /\ first'[p] /\ pc'[p] = "pass"
  BY DEF StartMove, grid, Go, MoveInv, TypeOK, ControlType
<1>2. \A q \in Proc \ {p} : first'[q] = first[q] /\ pc'[q] = pc[q] /\ entryexit'[q] = entryexit[q]
  BY DEF StartMove, Go, MoveInv, TypeOK, ControlType
<1>3. \A q \in Proc : (Fresh(q)' <=> Fresh(q)) /\ (Migrating(q)' <=> Migrating(q))
  BY <1>1, <1>2 DEF Fresh, Migrating
<1>4. leaving[p] = {} /\ Moving(p) = {}
  BY <1>1 DEF MoveInv, TypeOK, ListsUsed, Moving
<1> SUFFICES ASSUME NEW s \in PlacesOf, NEW c \in Content'[s]
             PROVE  \E o \in start : o.id = c.id /\ OnTrack(s, c, o)'
  BY <1>1 DEF TrackInv, AllOnTrack, PlacesOf
<1>5. CASE s = InTodo(p)
  <2>1. c \in Content[InKept(p)] /\ InKept(p) \in PlacesOf
    BY <1>5, StartedContent, ContentOf
  <2>2. PICK o \in start : o.id = c.id /\ OnTrack(InKept(p), c, o)
    BY <2>1 DEF TrackInv, AllOnTrack
  <2>3. KeptTrack(c, o, p)
    BY <2>2, OnTrackOf
  <2>4. c.x = c.icell /\ owner[c.x] = p /\ Ready(c, o, half'[p])
    BY <1>1, <2>3 DEF KeptTrack
  <2>5. TodoTrack(c, o, p)'
    BY <1>1, <2>4 DEF TodoTrack, Ready, There
  <2> QED BY <1>5, <2>2, <2>5, OnTrackThen
<1>6. CASE s # InTodo(p)
  <2>1. s # InKept(p) /\ c \in Content[s]
    BY <1>6, StartedContent
  <2>2. PICK o \in start : o.id = c.id /\ OnTrack(s, c, o)
    BY <2>1 DEF TrackInv, AllOnTrack
  <2>3. CASE \E q \in Proc : s \in {InTodo(q), InKept(q), OnMlist(q), InWalk(q)}
    <3>1. PICK q \in Proc : s \in {InTodo(q), InKept(q), OnMlist(q), InWalk(q)}
      BY <2>3
    <3>2. q # p
      BY <1>4, <1>6, <2>1, <3>1, ContentOf
    <3>3. /\ TodoTrack(c, o, q) => TodoTrack(c, o, q)'
          /\ KeptTrack(c, o, q) => KeptTrack(c, o, q)'
          /\ MlistTrack(c, o, q) => MlistTrack(c, o, q)'
          /\ WalkTrack(c, o, q) => WalkTrack(c, o, q)'
      BY <1>1, <1>2, <3>2, OwnTrackSame
    <3> QED BY <2>2, <3>1, <3>3, OnTrackOf, OnTrackThen
  <2>4. CASE \E q, r \in Proc, k \in Nat \ {0} : s = InMail(q, r, k)
    <3>1. PICK q \in Proc, r \in Proc, k \in Nat \ {0} : s = InMail(q, r, k)
      BY <2>4
    <3>2. MailTrack(c, o, q, r, k) /\ c \in Content[InMail(q, r, k)]
      BY <2>1, <2>2, <3>1, OnTrackOf
    <3>3. q = p => Migrating(r)
      BY <1>1, <3>2, MailIs DEF SyncInv, Migrating
    <3>4. /\ final'[r] = final[r] /\ (Fresh(r)' => Fresh(r)) /\ half'[r] = half[r]
          /\ Migrating(r) \/ entryexit[q] => Migrating(r)' \/ entryexit'[q]
      BY <1>1, <1>2, <1>3, <3>3
    <3>5. MailTrack(c, o, q, r, k)'
      BY <1>1, <3>2, <3>4, MailTrackSame
    <3> QED BY <2>2, <3>1, <3>5, OnTrackThen
  <2> QED BY <2>3, <2>4, PlaceIs
<1> QED BY <1>5, <1>6

LEMMA PackedTrack ==
    ASSUME MoveInv, SyncInv, NEW p \in Proc, Pack(p), NEW q \in Proc, NEW a \in Sendbuf(p, q),
           NEW o, MlistTrack(a, o, p)
    PROVE  MailTrack(a, o, p, q, Len(batches[p][q]) + 1)
<1> USE CutoffAssumption
<1>1. pc[p] = "pack" /\ a.flag # "discard" /\ owner[a.icell] = q
  BY DEF Pack, Go, Sendbuf
<1>2. a.x = a.icell /\ Carried(a, o, half[p]) /\ (a.flag # "done" => entryexit[p]) /\ (first[p] => From(o, half[p], p))
  BY <1>1 DEF MlistTrack
<1>3. Len(batches[p][q]) = Ahead(p, q) /\ Ahead(p, q) \in {0, 1}
  <2>1. Ahead(p, q) = Len(batches[p][q]) - 0
    BY <1>1 DEF Ahead, OneIf
  <2>2. Ahead(p, q) \in {-1, 0, 1} /\ Len(batches[p][q]) \in Nat
    BY AtMostOneAhead, AheadType DEF SyncInv
  <2> QED BY <2>1, <2>2
<1>4. Fresh(p) <=> first[p]
  BY <1>1 DEF Fresh
<1>5. CASE Ahead(p, q) = 0
  <2>1. half[q] = half[p] /\ (Fresh(q) <=> first[p])
    BY <1>4, <1>5 DEF SyncInv, Halves
  <2>2. Len(batches[p][q]) + 1 = 1
    BY <1>3, <1>5
  <2>3. a.flag # "done" => ~final[q]
    <3> SUFFICES ASSUME a.flag # "done", final[q] PROVE FALSE
      OBVIOUS
    <3>1. Migrating(q) /\ Migrating(p)
      BY <1>1 DEF SyncInv, FinalWhen, Migrating
    <3>2. final[p]
      BY <1>5, <3>1 DEF SyncInv, FinalForAll
    <3> QED BY <1>1, <1>2, <3>2, FinalSaysNo
  <2>4. MailTrack(a, o, p, q, 1)
    BY <1>1, <1>2, <2>1, <2>3 DEF MailTrack, HalfOfMail
  <2> QED BY <2>2, <2>4
<1>6. CASE Ahead(p, q) = 1
  <2>1. Cutoff < 0
    BY <1>1, <1>6, FinalSaysNo
  <2>2. pc[q] = "unpack" /\ half[p] = half[q] + OneIf(final[q]) /\ (Fresh(p) <=> final[q])
    BY <1>6, AtMostOneAhead DEF SyncInv, Halves
  <2>3. final[q] /\ ~entryexit[p]
    BY <2>1, <2>2 DEF SyncInv, FinalWhen, Migrating
  <2>4. Len(batches[p][q]) + 1 = 2
    BY <1>3, <1>6
  <2>5. HalfOfMail(q, 2) = half[p] /\ a.flag = "done"
    BY <1>2, <2>2, <2>3 DEF HalfOfMail
  <2>6. MailTrack(a, o, p, q, 2)
    BY <1>1, <1>2, <1>4, <2>2, <2>3, <2>5 DEF MailTrack
  <2> QED BY <2>4, <2>6
<1> QED BY <1>3, <1>5, <1>6

LEMMA PackTrack ==
    ASSUME MoveInv, SyncInv, TrackInv, NEW p \in Proc, Pack(p)
    PROVE  TrackInv'
<1>1. UNCHANGED <<start, owner, half, first, final, entryexit, icell>>
  BY DEF Pack, grid
<1>2. /\ \A q \in Proc : pc'[q] = "idle" <=> pc[q] = "idle"
      /\ \A q \in Proc : (Fresh(q)' <=> Fresh(q)) /\ (Migrating(q)' <=> Migrating(q))
  BY EndControl DEF Migrating
<1>3. ASSUME NEW q \in Proc, NEW r \in Proc, NEW k, NEW c, NEW o, MailTrack(c, o, q, r, k)
      PROVE  MailTrack(c, o, q, r, k)'
  BY <1>1, <1>2, <1>3, MailTrackSame
<1> SUFFICES ASSUME NEW s \in PlacesOf, NEW c \in Content'[s]
             PROVE  \E o \in start : o.id = c.id /\ OnTrack(s, c, o)'
  BY <1>1 DEF TrackInv, AllOnTrack, PlacesOf
<1>4. CASE \E q \in Proc : s = InMail(p, q, Len(batches[p][q]) + 1)
  <2>1. PICK q \in Proc : s = InMail(p, q, Len(batches[p][q]) + 1)
    BY <1>4
  <2>2. PICK k : k = Len(batches[p][q]) + 1
    OBVIOUS
  <2>3. c \in Sendbuf(p, q)
    BY <2>1, PackedContent
  <2>4. c \in Content[OnMlist(p)] /\ OnMlist(p) \in PlacesOf
    BY <2>3, ContentOf DEF Sendbuf
  <2>5. PICK o \in start : o.id = c.id /\ OnTrack(OnMlist(p), c, o)
    BY <2>4 DEF TrackInv, AllOnTrack
  <2>6. MailTrack(c, o, p, q, k)
    BY <2>2, <2>3, <2>5, OnTrackOf, PackedTrack
  <2>7. OnTrack(InMail(p, q, k), c, o)'
    BY <1>3, <2>6, OnTrackThen
  <2>8. s = InMail(p, q, k)
    BY <2>1, <2>2
  <2> QED BY <2>5, <2>7, <2>8
<1>5. CASE ~\E q \in Proc : s = InMail(p, q, Len(batches[p][q]) + 1)
  <2>1. c \in Content[s]
    BY <1>5, PackedContent
  <2>2. PICK o \in start : o.id = c.id /\ OnTrack(s, c, o)
    BY <2>1 DEF TrackInv, AllOnTrack
  <2>3. CASE \E q \in Proc : s \in {InTodo(q), InKept(q), OnMlist(q), InWalk(q)}
    <3>1. PICK q \in Proc : s \in {InTodo(q), InKept(q), OnMlist(q), InWalk(q)}
      BY <2>3
    <3>2. /\ TodoTrack(c, o, q) => TodoTrack(c, o, q)'
          /\ KeptTrack(c, o, q) => KeptTrack(c, o, q)'
          /\ MlistTrack(c, o, q) => MlistTrack(c, o, q)'
          /\ WalkTrack(c, o, q) => WalkTrack(c, o, q)'
      BY <1>1, <1>2, OwnTrackSame
    <3> QED BY <2>2, <3>1, <3>2, OnTrackOf, OnTrackThen
  <2>4. CASE \E q, r \in Proc, k \in Nat \ {0} : s = InMail(q, r, k)
    <3>1. PICK q \in Proc, r \in Proc, k \in Nat \ {0} : s = InMail(q, r, k)
      BY <2>4
    <3>2. MailTrack(c, o, q, r, k)
      BY <2>2, <3>1, OnTrackOf
    <3>3. MailTrack(c, o, q, r, k)'
      BY <1>3, <3>2
    <3> QED BY <2>2, <3>1, <3>3, OnTrackThen
  <2> QED BY <2>3, <2>4, PlaceIs
<1> QED BY <1>4, <1>5

LEMMA UnpackTrack ==
    ASSUME MoveInv, SyncInv, TrackInv, NEW p \in Proc, Continue(p) \/ EndHalf(p)
    PROVE  TrackInv'
<1>1. UNCHANGED <<start, owner, icell>> /\ \A q \in Proc \ {p} : first'[q] = first[q]
  BY DEF Continue, EndHalf, grid, MoveInv, TypeOK, ControlType
<1>2. /\ pc[p] = "unpack" /\ pc'[p] \in {"pass", "idle"}
      /\ half'[p] = half[p] + OneIf(final[p]) /\ (Fresh(p)' <=> final[p]) /\ ~final'[p]
      /\ \A q \in Proc \ {p} : /\ half'[q] = half[q] /\ (Fresh(q)' <=> Fresh(q))
                               /\ final'[q] = final[q] /\ pc'[q] = pc[q]
                               /\ entryexit'[q] = entryexit[q]
  BY UnpackControl
<1>3. half[p] \in Nat /\ half'[p] \in Nat
  BY <1>2, HalvesAssumption DEF MoveInv, TypeOK, ControlType, OneIf
<1>4. /\ \A q, r \in Proc, k \in Nat \ {0} :
            /\ k + 1 \in Nat \ {0}
            /\ Content'[InMail(q, r, k)] =
                  IF r = p THEN Content[InMail(q, r, k + 1)] ELSE Content[InMail(q, r, k)]
      /\ \A c : c \in Incoming(p) <=> \E q \in Proc : c \in Content[InMail(q, p, 1)]
      /\ Content'[InTodo(p)] = (IF Continue(p) THEN Incoming(p) ELSE {})
      /\ Content'[InKept(p)] = kept[p] \union (IF Continue(p) THEN {} ELSE Incoming(p))
      /\ Content'[OnMlist(p)] = {} /\ Content'[InWalk(p)] = {}
      /\ \A q \in Proc \ {p} : /\ Content'[InTodo(q)] = Content[InTodo(q)]
                               /\ Content'[InKept(q)] = Content[InKept(q)]
                               /\ Content'[OnMlist(q)] = Content[OnMlist(q)]
                               /\ Content'[InWalk(q)] = Content[InWalk(q)]
  BY UnpackedContent
<1>5. /\ Continue(p) => ~final[p] /\ ~first'[p] /\ pc'[p] = "pass"
      /\ ~Continue(p) => final[p] /\ pc'[p] = "idle"
  BY DEF Continue, EndHalf, Go, MoveInv, TypeOK, ControlType
<1>6. ASSUME NEW c \in Incoming(p)
      PROVE  \E o \in start : /\ o.id = c.id
                              /\ c.x = c.icell /\ owner[c.icell] = p /\ Carried(c, o, half[p])
                              /\ final[p] => c.flag = "done"
  <2>1. PICK q \in Proc : c \in Content[InMail(q, p, 1)]
    BY <1>4
  <2>2. InMail(q, p, 1) \in PlacesOf
    BY ContentOf
  <2>3. PICK o \in start : o.id = c.id /\ OnTrack(InMail(q, p, 1), c, o)
    BY <2>1, <2>2 DEF TrackInv, AllOnTrack
  <2>4. MailTrack(c, o, q, p, 1)
    BY <2>3, OnTrackOf
  <2> QED BY <2>3, <2>4 DEF MailTrack, HalfOfMail
<1> SUFFICES ASSUME NEW s \in PlacesOf, NEW c \in Content'[s]
             PROVE  \E o \in start : o.id = c.id /\ OnTrack(s, c, o)'
  BY <1>1 DEF TrackInv, AllOnTrack, PlacesOf
<1>7. CASE s = InTodo(p)
  <2>1. Continue(p) /\ c \in Incoming(p)
    BY <1>4, <1>7
  <2>2. PICK o \in start : /\ o.id = c.id /\ c.x = c.icell /\ owner[c.icell] = p
                           /\ Carried(c, o, half[p])
    BY <1>6, <2>1
  <2>3. half'[p] = half[p]
    BY <1>2, <1>3, <1>5, <2>1 DEF OneIf
  <2>4. Carried(c, o, half'[p])
    BY <2>2, <2>3
  <2>5. TodoTrack(c, o, p)'
    BY <1>1, <1>5, <2>1, <2>2, <2>4 DEF TodoTrack, Carried, There, Going
  <2> QED BY <1>7, <2>2, <2>5, OnTrackThen
<1>8. CASE s = InKept(p) /\ c \in kept[p]
  <2>1. c \in Content[InKept(p)] /\ InKept(p) \in PlacesOf
    BY <1>8, ContentOf
  <2>2. PICK o \in start : o.id = c.id /\ OnTrack(InKept(p), c, o)
    BY <2>1 DEF TrackInv, AllOnTrack
  <2>3. /\ c.x = c.icell /\ owner[c.x] = p /\ c.flag = "keep" /\ There(c, o, half[p] + 1)
    <3>1. KeptTrack(c, o, p) /\ pc[p] # "idle"
      BY <1>2, <2>2, OnTrackOf
    <3> QED BY <3>1 DEF KeptTrack
  <2>4. KeptTrack(c, o, p)'
    <3>1. CASE Continue(p)
      <4>1. half'[p] = half[p]
        BY <1>2, <1>3, <1>5, <3>1 DEF OneIf
      <4>2. There(c, o, half'[p] + 1)
        BY <2>3, <4>1
      <4> QED BY <1>1, <1>5, <2>3, <3>1, <4>2 DEF KeptTrack, There
    <3>2. CASE ~Continue(p)
      <4>1. half'[p] = half[p] + 1 /\ half'[p] # 0
        BY <1>2, <1>3, <1>5, <3>2 DEF OneIf
      <4>2. Ready(c, o, half'[p])
        BY <2>3, <4>1 DEF Ready
      <4> QED BY <1>1, <1>5, <2>3, <3>2, <4>2 DEF KeptTrack, Ready, There
    <3> QED BY <3>1, <3>2
  <2> QED BY <1>8, <2>2, <2>4, OnTrackThen
<1>9. CASE s = InKept(p) /\ c \notin kept[p]
  <2>1. ~Continue(p) /\ c \in Incoming(p)
    BY <1>4, <1>9
  <2>2. PICK o \in start : /\ o.id = c.id /\ c.x = c.icell /\ owner[c.icell] = p
                           /\ Carried(c, o, half[p]) /\ c.flag = "done"
    BY <1>5, <1>6, <2>1
  <2>3. There(c, o, half[p] + 1)
    BY <2>2 DEF Carried
  <2>4. half'[p] = half[p] + 1 /\ half'[p] # 0
    BY <1>2, <1>3, <1>5, <2>1 DEF OneIf
  <2>5. Ready(c, o, half'[p])
    BY <2>2, <2>3, <2>4 DEF Ready
  <2>6. KeptTrack(c, o, p)'
    BY <1>1, <1>5, <2>1, <2>2, <2>5 DEF KeptTrack, Ready, There
  <2> QED BY <1>9, <2>2, <2>6, OnTrackThen
<1>10. CASE \E q \in Proc \ {p} : s \in {InTodo(q), InKept(q), OnMlist(q), InWalk(q)}
  <2>1. PICK q \in Proc \ {p} : s \in {InTodo(q), InKept(q), OnMlist(q), InWalk(q)}
    BY <1>10
  <2>2. c \in Content[s]
    BY <1>4, <2>1
  <2>3. PICK o \in start : o.id = c.id /\ OnTrack(s, c, o)
    BY <2>2 DEF TrackInv, AllOnTrack
  <2>4. /\ TodoTrack(c, o, q) => TodoTrack(c, o, q)'
        /\ KeptTrack(c, o, q) => KeptTrack(c, o, q)'
        /\ MlistTrack(c, o, q) => MlistTrack(c, o, q)'
        /\ WalkTrack(c, o, q) => WalkTrack(c, o, q)'
    BY <1>1, <1>2, OwnTrackSame
  <2> QED BY <2>1, <2>3, <2>4, OnTrackOf, OnTrackThen
<1>11. CASE \E q \in Proc, k \in Nat \ {0} : s = InMail(q, p, k)
  <2>1. PICK q \in Proc, k \in Nat \ {0} : s = InMail(q, p, k)
    BY <1>11
  <2>2. c \in Content[InMail(q, p, k + 1)] /\ k + 1 \in Nat \ {0}
    BY <1>4, <2>1
  <2>3. PICK o \in start : o.id = c.id /\ OnTrack(InMail(q, p, k + 1), c, o)
    BY <2>2, ContentOf DEF TrackInv, AllOnTrack
  <2>4. k + 1 > 1 /\ k + 1 # 1
    OBVIOUS
  <2>5. HalfOfMail(p, k + 1) = half'[p]
    BY <1>2, <2>4 DEF HalfOfMail
  <2>6. MailTrack(c, o, q, p, k + 1)
    BY <2>3, OnTrackOf
  <2>7. /\ c.x = c.icell /\ owner[c.icell] = p /\ From(o, half'[p], q)
        /\ Carried(c, o, half'[p]) /\ c.flag = "done"
    BY <2>4, <2>5, <2>6 DEF MailTrack
  <2>8. HalfOfMail(p, k)' = half'[p]
    BY <1>2, <1>3 DEF HalfOfMail, OneIf
  <2>9. From(o, half[p], q)' /\ Carried(c, o, half[p])'
    BY <1>1, <2>7 DEF From, Owned, Carried, There, Going
  <2>10. From(o, HalfOfMail(p, k), q)' /\ Carried(c, o, HalfOfMail(p, k))'
    BY <2>8, <2>9 DEF From, Owned, Carried, There, Going
  <2>11. MailTrack(c, o, q, p, k)'
    BY <1>1, <2>7, <2>10 DEF MailTrack
  <2> QED BY <2>1, <2>3, <2>11, OnTrackThen
<1>12. CASE \E q \in Proc, r \in Proc \ {p}, k \in Nat \ {0} : s = InMail(q, r, k)
  <2>1. PICK q \in Proc, r \in Proc \ {p}, k \in Nat \ {0} : s = InMail(q, r, k)
    BY <1>12
  <2>2. c \in Content[InMail(q, r, k)]
    BY <1>4, <2>1
  <2>3. PICK o \in start : o.id = c.id /\ OnTrack(InMail(q, r, k), c, o)
    BY <2>2, ContentOf DEF TrackInv, AllOnTrack
  <2>4. q = p => Migrating(r)
    <3>1. q = p => Ahead(p, r) = 0
      BY <2>2, MailIs, UnpackedFrom DEF SyncInv
    <3> QED BY <3>1, UnpackedFrom DEF SyncInv, Migrating
  <2>5. Migrating(r)' <=> Migrating(r)
    BY <1>2 DEF Migrating
  <2>6. MailTrack(c, o, q, r, k)
    BY <2>3, OnTrackOf
  <2>7. Migrating(r) \/ entryexit[q] => Migrating(r)' \/ entryexit'[q]
    BY <1>2, <2>4, <2>5
  <2>8. MailTrack(c, o, q, r, k)'
    BY <1>1, <1>2, <2>6, <2>7, MailTrackSame
  <2> QED BY <2>1, <2>3, <2>8, OnTrackThen
<1>13. CASE s \in {OnMlist(p), InWalk(p)}
  BY <1>4, <1>13
<1> QED BY <1>7, <1>8, <1>9, <1>10, <1>11, <1>12, <1>13, PlaceIs

LEMMA TrackInit == Init => TrackInv
<1> SUFFICES ASSUME Init PROVE TrackInv
  OBVIOUS
<1>1. start \in Starts
  BY DEF Init
<1> SUFFICES ASSUME NEW s \in PlacesOf, NEW a \in Content[s]
             PROVE  \E o \in start : o.id = a.id /\ OnTrack(s, a, o)
  BY <1>1 DEF TrackInv, AllOnTrack
<1>2. a \in start /\ \E p \in Proc : s = InKept(p) /\ owner[a.icell] = p
  BY ContentInit
<1>3. PICK p \in Proc : s = InKept(p) /\ owner[a.icell] = p
  BY <1>2
<1>4. pc[p] = "idle" /\ half[p] = 0
  BY DEF Init
<1>5. a \in Particles /\ a.x = a.icell
  BY <1>1, <1>2, StartIs
<1>6. There(a, a, 0)
  <2>1. 0 \in Nat
    OBVIOUS
  <2> QED BY <1>5, <2>1, AfterIs DEF There, StateOf
<1>7. KeptTrack(a, a, p)
  BY <1>3, <1>4, <1>5, <1>6 DEF KeptTrack, Ready
<1> QED BY <1>2, <1>3, <1>7, OnTrackOf

LEMMA TrackStep ==
    ASSUME NoReactions, ~Weighted, MoveInv, SyncInv, TrackInv, [Next]_vars
    PROVE  TrackInv'
<1>1. ASSUME NEW p \in Proc, Step(p) PROVE TrackInv'
  BY <1>1, NoneCreated, StartTrack, SkipTrack, JumpTrack, PickTrack, InteriorTrack, CrossTrack,
     OnwardTrack, OutflowTrack, EndsTrack, PackTrack, UnpackTrack DEF Step
<1>2. CASE UNCHANGED vars
  <2>1. /\ UNCHANGED <<start, owner, half, pc, icell, first, entryexit, final>>
        /\ \A s \in PlacesOf : Content'[s] = Content[s]
    BY <1>2, SameContent DEF vars, grid, lists, mail, Moving
  <2>2. \A s \in PlacesOf : \A a, o : OnTrack(s, a, o)' <=> OnTrack(s, a, o)
    BY <2>1 DEF OnTrack, TodoTrack, KeptTrack, WalkTrack, MlistTrack, MailTrack, HalfOfMail, From, Owned,
                Ready, Carried, There, Going, Fresh, Migrating
  <2> QED BY <2>1, <2>2 DEF TrackInv, AllOnTrack, PlacesOf
<1> QED BY <1>1, <1>2 DEF Next, Done

-----------------------------------------------------------------------------
(* No particle is lost: it is in some place, or has left the box.          *)
OutOfBox(o) == \E p \in Proc : \/ After(o, half[p]).x = 0
                               \/ /\ pc[p] # "idle" /\ After(o, half[p] + 1).x = 0
                                  /\ first[p] => From(o, half[p], p)
IsThere(o) == \E s \in PlacesOf : \E a \in Content[s] : a.id = o.id
Present == \A o \in start : OutOfBox(o) \/ IsThere(o)

(* A process only advances in its halves and passes.                       *)
LEMMA OutStep ==
    ASSUME MoveInv, SyncInv, start \in Starts, NEW p \in Proc, Step(p), NEW o \in start, OutOfBox(o)
    PROVE  OutOfBox(o)'
<1>1. PICK q \in Proc : \/ After(o, half[q]).x = 0
                        \/ /\ pc[q] # "idle" /\ After(o, half[q] + 1).x = 0
                           /\ first[q] => From(o, half[q], q)
  BY DEF OutOfBox
<1>2. owner' = owner
  BY GridStep DEF MoveInv
<1>3. half[q] \in Nat /\ o \in Particles
  BY StartIs, HalvesAssumption DEF MoveInv, TypeOK, ControlType
<1>4. After(o, half[q]).x = 0 => After(o, half[q] + 1).x = 0
  BY <1>3, AfterIs
<1>5. \A h : From(o, h, q)' <=> From(o, h, q)
  BY <1>2 DEF From, Owned
<1>6. CASE half'[q] = half[q] /\ (first'[q] => first[q] \/ pc[q] = "idle") /\ (pc'[q] = "idle" => pc[q] = "idle")
  <2>1. \/ After(o, half'[q]).x = 0
        \/ pc[q] # "idle" /\ After(o, half'[q] + 1).x = 0 /\ (first[q] => From(o, half[q], q))
    BY <1>1, <1>6
  <2>2. \/ After(o, half[q]).x = 0
        \/ pc'[q] # "idle" /\ After(o, half[q] + 1).x = 0 /\ (first'[q] => From(o, half[q], q))
    BY <1>1, <1>6
  <2>3. PICK h : h = half[q]
    OBVIOUS
  <2>4. From(o, half[q], q)' <=> From(o, h, q)
    BY <1>2, <1>6, <2>3 DEF From, Owned
  <2>5. \/ After(o, half'[q]).x = 0
        \/ pc'[q] # "idle" /\ After(o, half'[q] + 1).x = 0 /\ (first'[q] => From(o, half[q], q)')
    BY <1>6, <2>2, <2>3, <2>4
  <2> QED BY <2>5 DEF OutOfBox
<1>7. CASE EndHalf(p) /\ q = p
  <2>1. half'[q] = half[q] + 1
    BY <1>7, UnpackControl DEF EndHalf, OneIf
  <2>2. After(o, half'[q]).x = 0
    BY <1>1, <1>4, <2>1
  <2> QED BY <2>2 DEF OutOfBox
<1>8. CASE ~(EndHalf(p) /\ q = p)
  <2>1. CASE Local(p)
    BY <1>6, <2>1, LocalFrame
  <2>2. CASE EndPass(p) \/ EndOnlyPass(p) \/ Reduced(p) \/ Pack(p) \/ StartMove(p)
    <3>1. half'[q] = half[q] /\ (pc'[q] = "idle" => pc[q] = "idle")
      BY <2>2, EndControl
    <3>2. first'[q] => first[q] \/ pc[q] = "idle"
      BY <2>2 DEF EndPass, EndOnlyPass, Reduced, Pack, StartMove, Go, MoveInv, TypeOK, ControlType
    <3> QED BY <1>6, <3>1, <3>2
  <2>3. CASE Continue(p) \/ EndHalf(p)
    <3>1. CASE q # p
      <4>1. half'[q] = half[q] /\ pc'[q] = pc[q]
        BY <2>3, <3>1, UnpackControl
      <4>2. first'[q] = first[q]
        BY <2>3, <3>1 DEF Continue, EndHalf, MoveInv, TypeOK, ControlType
      <4> QED BY <1>6, <4>1, <4>2
    <3>2. CASE q = p
      <4>1. Continue(p) /\ half' = half /\ ~first'[p] /\ pc'[p] = "pass"
        BY <1>8, <2>3, <3>2 DEF Continue, Go, MoveInv, TypeOK, ControlType
      <4> QED BY <1>6, <3>2, <4>1
    <3> QED BY <3>1, <3>2
  <2> QED BY <2>1, <2>2, <2>3 DEF Step, Local
<1> QED BY <1>7, <1>8

LEMMA PresentStep ==
    ASSUME NoReactions, MoveInv, SyncInv, TrackInv, Alone, Present, [Next]_vars
    PROVE  Present'
<1>1. ASSUME NEW p \in Proc, Step(p) PROVE Present'
  <2>1. start' = start
    BY <1>1 DEF Step, StartMove, Skip, Jump, Pick, Interior, Cross, EnterEmpty, ExitUnknown, Outflow,
         Bounce, Destroy, Create, EndPass, EndOnlyPass, Reduced, Pack, Continue, EndHalf, grid
  <2> SUFFICES ASSUME NEW o \in start, ~OutOfBox(o) PROVE OutOfBox(o)' \/ IsThere(o)'
    BY <1>1, <2>1, OutStep DEF Present, TrackInv
  <2>2. PICK s \in PlacesOf : \E a \in Content[s] : a.id = o.id
    BY DEF Present, IsThere
  <2>3. PICK a \in Content[s] : a.id = o.id
    BY <2>2
  <2>4. ASSUME NEW t \in PlacesOf, a \in Content'[t] PROVE IsThere(o)'
    BY <2>3, <2>4 DEF IsThere, PlacesOf
  <2>5. CASE \/ Skip(p) \/ Jump(p) \/ Pick(p) \/ Interior(p) \/ Cross(p) \/ EnterEmpty(p)
             \/ ExitUnknown(p) \/ Outflow(p) \/ Bounce(p) \/ Destroy(p)
    <3>1. PICK f, t, c, d : Carry(f, c, t, d)
      BY <2>5, OneCarried
    <3>2. CASE s = f /\ a = c
      <4>1. d \in Content'[t] /\ d.id = o.id /\ t \in PlacesOf
        BY <2>3, <3>1, <3>2 DEF Carry
      <4> QED BY <4>1 DEF IsThere, PlacesOf
    <3>3. CASE ~(s = f /\ a = c)
      <4>1. a \in Content'[s]
        BY <3>1, <3>3 DEF Carry
      <4> QED BY <2>4, <4>1
    <3> QED BY <3>2, <3>3
  <2>6. CASE EndPass(p) \/ EndOnlyPass(p) \/ Reduced(p)
    <3>1. a \in Content'[s]
      BY <2>6, SameEnds
    <3> QED BY <2>4, <3>1
  <2>7. CASE StartMove(p)
    <3>1. CASE s = InKept(p)
      <4>1. a \in Content'[InTodo(p)]
        BY <2>7, <3>1, StartedContent
      <4> QED BY <2>4, <4>1, ContentOf
    <3>2. CASE s # InKept(p)
      <4>1. s # InTodo(p)
        <5>1. pc[p] = "idle"
          BY <2>7 DEF StartMove, Go
        <5>2. todo[p] = {}
          BY <5>1 DEF MoveInv, TypeOK, ListsUsed
        <5> QED BY <5>2, ContentOf
      <4>2. a \in Content'[s]
        BY <2>7, <3>2, <4>1, StartedContent
      <4> QED BY <2>4, <4>2
    <3> QED BY <3>1, <3>2
  <2>8. CASE Pack(p)
    <3>1. CASE s = OnMlist(p)
      <4>1. a \in leaving[p]
        BY <3>1, ContentOf
      <4>2. CASE a.flag = "discard"
        <5>1. PICK b \in start : b.id = a.id /\ OnTrack(s, a, b)
          BY DEF TrackInv, AllOnTrack
        <5>2. b = o
          BY <2>3, <5>1, StartsAssumption DEF TrackInv
        <5>3. MlistTrack(a, o, p)
          BY <3>1, <5>1, <5>2, OnTrackOf
        <5>4. OutOfBox(o)
          <6>1. pc[p] # "idle"
            BY <2>8 DEF Pack, Go
          <6>2. After(o, half[p] + 1).x = 0 /\ (first[p] => From(o, half[p], p))
            BY <4>2, <5>3 DEF MlistTrack
          <6> QED BY <6>1, <6>2 DEF OutOfBox
        <5> QED BY <5>4
      <4>3. CASE a.flag # "discard"
        <5>1. owner[a.icell] \in Proc
          <6>1. a \in Particles /\ owner \in Owners
            BY <4>1 DEF MoveInv, TypeOK, ListsType, GridInv
          <6>2. a.icell \in Cells
            BY <6>1 DEF Particles
          <6> QED BY <6>1, <6>2 DEF Owners
        <5>2. PICK q \in Proc : owner[a.icell] = q
          BY <5>1
        <5>3. PICK k : k = Len(batches[p][q]) + 1
          OBVIOUS
        <5>4. a \in Content'[InMail(p, q, k)] /\ k \in Nat \ {0}
          BY <2>8, <4>1, <4>3, <5>2, <5>3, PackedContent DEF Sendbuf
        <5> QED BY <2>4, <5>4, ContentOf
      <4> QED BY <4>2, <4>3
    <3>2. CASE s # OnMlist(p)
      <4>1. \A q \in Proc : s # InMail(p, q, Len(batches[p][q]) + 1)
        <5> SUFFICES ASSUME NEW q \in Proc, s = InMail(p, q, Len(batches[p][q]) + 1) PROVE FALSE
          OBVIOUS
        <5>1. Len(batches[p][q]) \in Nat /\ Len(batches[p][q]) + 1 \in Nat \ {0} 
              /\ ~(Len(batches[p][q]) + 1 <= Len(batches[p][q]))
          BY AheadType
        <5>2. Content[InMail(p, q, Len(batches[p][q]) + 1)] = {}
          BY <5>1, ContentOf
        <5> QED BY <5>2
      <4>2. a \in Content'[s]
        BY <2>8, <3>2, <4>1, PackedContent
      <4> QED BY <2>4, <4>2
    <3> QED BY <3>1, <3>2
  <2>9. CASE Continue(p) \/ EndHalf(p)
    <3>1. CASE \E q \in Proc : s \in {InTodo(q), InKept(q), OnMlist(q), InWalk(q)}
      <4>1. PICK q \in Proc : s \in {InTodo(q), InKept(q), OnMlist(q), InWalk(q)}
        BY <3>1
      <4>2. CASE q # p
        BY <2>4, <2>9, <4>1, <4>2, UnpackedContent
      <4>3. CASE q = p
        <5>1. todo[p] = {} /\ leaving[p] = {} /\ Moving(p) = {}
          BY <2>9 DEF Continue, EndHalf, Go, MoveInv, TypeOK, ListsUsed, Moving
        <5>2. s = InKept(p) /\ a \in kept[p]
          BY <4>1, <4>3, <5>1, ContentOf
        <5>3. a \in Content'[InKept(p)]
          BY <2>9, <5>2, UnpackedContent
        <5> QED BY <2>4, <5>2, <5>3
      <4> QED BY <4>2, <4>3
    <3>2. CASE \E q \in Proc, r \in Proc \ {p}, k \in Nat \ {0} : s = InMail(q, r, k)
      <4>1. a \in Content'[s]
        BY <2>9, <3>2, UnpackedContent
      <4> QED BY <2>4, <4>1
    <3>3. CASE \E q \in Proc, k \in Nat \ {0} : s = InMail(q, p, k)
      <4>1. PICK q \in Proc, k \in Nat \ {0} : s = InMail(q, p, k)
        BY <3>3
      <4>2. CASE k = 1
        <5>1. a \in Incoming(p)
          BY <2>9, <4>1, <4>2, UnpackedContent
        <5>2. a \in Content'[InTodo(p)] \/ a \in Content'[InKept(p)]
          BY <2>9, <5>1, UnpackedContent
        <5> QED BY <2>4, <5>2, ContentOf
      <4>3. CASE k # 1
        <5>1. k - 1 \in Nat \ {0} /\ (k - 1) + 1 = k
          BY <4>3
        <5>2. Content'[InMail(q, p, k - 1)] = Content[InMail(q, p, (k - 1) + 1)]
          BY <2>9, <5>1, UnpackedContent
        <5>3. a \in Content'[InMail(q, p, k - 1)]
          BY <4>1, <5>1, <5>2
        <5> QED BY <2>4, <5>1, <5>3, ContentOf
      <4> QED BY <4>2, <4>3
    <3> QED BY <3>1, <3>2, <3>3, PlaceIs
  <2> QED BY <1>1, <2>5, <2>6, <2>7, <2>8, <2>9, NoneCreated DEF Step
<1>2. CASE UNCHANGED vars
  <2>1. /\ UNCHANGED <<start, owner, half, pc, first>>
        /\ \A s \in PlacesOf : Content'[s] = Content[s]
    BY <1>2, SameContent DEF vars, grid, lists, mail, Moving
  <2> QED BY <2>1 DEF Present, OutOfBox, IsThere, From, Owned, PlacesOf
<1> QED BY <1>1, <1>2 DEF Next, Done

LEMMA PresentInit == Init => Present
<1> SUFFICES ASSUME Init, NEW o \in start PROVE IsThere(o)
  BY DEF Present
<1>1. o \in Particles /\ owner \in Owners
  BY StartIs, DecompositionsAssumption DEF Init
<1>2. o.icell \in Cells
  BY <1>1 DEF Particles
<1>3. PICK p \in Proc : owner[o.icell] = p
  BY <1>1, <1>2 DEF Owners
<1>4. o \in Content[InKept(p)] /\ InKept(p) \in PlacesOf
  BY <1>3, ContentOf DEF Init
<1> QED BY <1>4 DEF IsThere

(* When a process is between its halves, the places of particles of which  *)
(* the same half has not ended are those of their owners.                  *)
LEMMA OnlyMine ==
    ASSUME MoveInv, SyncInv, TrackInv, NEW p \in Proc, pc[p] = "idle",
           NEW o \in start, After(o, half[p]).x \in Owned(owner, p), ~OutOfBox(o),
           NEW s \in PlacesOf, NEW a \in Content[s], OnTrack(s, a, o)
    PROVE  s = InKept(p)
<1>1. SyncInv /\ Rounds /\ Halves /\ Fresh(p)
  BY DEF SyncInv, Fresh
<1>2. owner[After(o, half[p]).x] = p
  BY DEF Owned
<1>3. ASSUME NEW q \in Proc
      PROVE  /\ Ahead(p, q) \in {0, 1} /\ Ahead(q, p) + Ahead(p, q) = 0
             /\ Ahead(p, q) = 0 => half[q] = half[p] /\ Fresh(q)
             /\ Ahead(p, q) = 1 => pc[q] = "unpack" /\ final[q] /\ half[p] = half[q] + 1
             /\ half[q] \in Nat
  <2>1. /\ Ahead(p, q) \in {-1, 0, 1} /\ Ahead(p, q) # -1 /\ Ahead(q, p) + Ahead(p, q) = 0
        /\ Ahead(p, q) = 1 => pc[q] = "unpack"
    BY <1>1, AtMostOneAhead
  <2>2. /\ Ahead(p, q) = 0 => half[p] = half[q] /\ (Fresh(p) <=> Fresh(q))
        /\ Ahead(p, q) = 1 => half[p] = half[q] + OneIf(final[q]) /\ (Fresh(p) <=> final[q])
    BY <1>1 DEF Halves
  <2>3. half[q] \in Nat
    BY HalvesAssumption DEF MoveInv, TypeOK, ControlType
  <2> QED BY <1>1, <2>1, <2>2, <2>3 DEF OneIf
<1>4. CASE \E q \in Proc : s \in {InTodo(q), InKept(q), OnMlist(q), InWalk(q)}
  <2>1. PICK q \in Proc : s \in {InTodo(q), InKept(q), OnMlist(q), InWalk(q)}
    BY <1>4
  <2>2. CASE s = InKept(q)
    <3> SUFFICES ASSUME q # p PROVE FALSE
      BY <2>2
    <3>1. KeptTrack(a, o, q)
      BY <2>2, OnTrackOf
    <3>2. owner[a.x] = q
      BY <3>1 DEF KeptTrack
    <3>3. CASE Ahead(p, q) = 0
      <4>1. half[q] = half[p] /\ Fresh(q)
        BY <1>3, <3>3
      <4>2. CASE pc[q] = "idle"
        <5>1. There(a, o, half[p])
          BY <3>1, <4>1, <4>2 DEF KeptTrack, Ready
        <5> QED BY <1>2, <3>2, <5>1 DEF There, StateOf
      <4>3. CASE pc[q] # "idle"
        <5>1. From(o, half[p], q)
          BY <3>1, <4>1, <4>3 DEF KeptTrack, Fresh
        <5> QED BY <1>2, <5>1 DEF From, Owned
      <4> QED BY <4>2, <4>3
    <3>4. CASE Ahead(p, q) = 1
      <4>1. There(a, o, half[q] + 1) /\ half[p] = half[q] + 1
        BY <1>3, <3>1, <3>4 DEF KeptTrack
      <4>2. There(a, o, half[p])
        BY <4>1
      <4> QED BY <1>2, <3>2, <4>2 DEF There, StateOf
    <3> QED BY <1>3, <3>3, <3>4
  <2>3. CASE s # InKept(q)
    <3>1. pc[q] \notin {"idle", "unpack"}
      BY <2>1, <2>3, ContentOf DEF MoveInv, TypeOK, ListsUsed, Moving
    <3>2. Ahead(p, q) = 0
      BY <1>3, <3>1
    <3>3. half[q] = half[p] /\ first[q]
      BY <1>3, <3>1, <3>2 DEF Fresh
    <3>4. From(o, half[q], q)
      <4>1. CASE s = InTodo(q)
        <5>1. Ready(a, o, half[q]) /\ a.x = a.icell /\ owner[a.icell] = q
          BY <3>3, <4>1, OnTrackOf DEF TodoTrack
        <5>2. a \in Particles
          BY <4>1, ContentOf DEF MoveInv, TypeOK, ListsType
        <5>3. a.icell \in Cells
          BY <5>2 DEF Particles
        <5>4. StateOf(a) = After(o, half[q])
          BY <5>1 DEF Ready, There
        <5> QED BY <5>1, <5>3, <5>4 DEF From, Owned, StateOf
      <4>2. CASE s = OnMlist(q)
        BY <3>3, <4>2, OnTrackOf DEF MlistTrack
      <4>3. CASE s = InWalk(q)
        BY <3>3, <4>3, OnTrackOf DEF WalkTrack
      <4> QED BY <2>1, <2>3, <4>1, <4>2, <4>3
    <3>5. q = p
      BY <1>2, <3>3, <3>4 DEF From, Owned
    <3> QED BY <3>1, <3>5
  <2> QED BY <2>2, <2>3
<1>5. CASE \E q, r \in Proc, k \in Nat \ {0} : s = InMail(q, r, k)
  <2>1. PICK q \in Proc, r \in Proc, k \in Nat \ {0} : s = InMail(q, r, k)
    BY <1>5
  <2>2. MailTrack(a, o, q, r, k)
    BY <2>1, OnTrackOf
  <2>3. /\ Ahead(q, r) \in {0, 1}
        /\ Ahead(q, r) = 0 => k = 1 /\ pc[q] = "unpack"
        /\ k > 1 => k = 2 /\ Ahead(q, r) = 1 /\ pc[q] = "unpack"
    BY <1>1, <2>1, MailIs
  <2>4. Ahead(q, p) + Ahead(p, r) = Ahead(q, r) /\ Ahead(q, p) \in {-1, 0}
    <3>1. Ahead(q, p) \in Int /\ Ahead(q, p) + Ahead(p, q) = 0 /\ Ahead(p, q) \in {0, 1}
      BY <1>3, AheadType
    <3> QED BY <1>1, <3>1 DEF Rounds
  <2>5. CASE Ahead(p, r) = 0
    <3>1. Ahead(q, r) = 0 /\ half[r] = half[p] /\ Fresh(r)
      BY <1>3, <2>3, <2>4, <2>5
    <3>2. k = 1 /\ pc[q] = "unpack"
      BY <2>3, <3>1
    <3>3. From(o, half[p], q)
      BY <2>2, <3>1, <3>2 DEF MailTrack, HalfOfMail
    <3> QED BY <1>2, <3>2, <3>3 DEF From, Owned
  <2>6. CASE Ahead(p, r) = 1
    <3>1. pc[r] = "unpack" /\ final[r] /\ half[p] = half[r] + 1
      BY <1>3, <2>6
    <3>2. CASE k = 1
      <4>1. a.flag = "done" /\ a.x = a.icell /\ owner[a.icell] = r /\ Carried(a, o, half[r])
        BY <2>2, <3>1, <3>2 DEF MailTrack, HalfOfMail
      <4>2. There(a, o, half[p])
        BY <3>1, <4>1 DEF Carried
      <4> QED BY <1>2, <3>1, <4>1, <4>2 DEF There, StateOf
    <3>3. CASE k # 1
      <4>1. k > 1
        BY <3>3
      <4>2. HalfOfMail(r, k) = half[p] /\ pc[q] = "unpack"
        BY <2>3, <3>1, <3>3, <4>1 DEF HalfOfMail, OneIf
      <4>3. From(o, half[p], q)
        BY <2>2, <4>1, <4>2 DEF MailTrack
      <4> QED BY <1>2, <4>2, <4>3 DEF From, Owned
    <3> QED BY <3>2, <3>3
  <2> QED BY <1>3, <2>5, <2>6
<1> QED BY <1>4, <1>5, PlaceIs

LEMMA NotOut ==
    ASSUME MoveInv, SyncInv, start \in Starts, NEW p \in Proc, pc[p] = "idle",
           NEW o \in start, After(o, half[p]).x \in Owned(owner, p)
    PROVE  ~OutOfBox(o)
<1> SUFFICES ASSUME NEW q \in Proc,
                    \/ After(o, half[q]).x = 0
                    \/ /\ pc[q] # "idle" /\ After(o, half[q] + 1).x = 0
                       /\ first[q] => From(o, half[q], q)
             PROVE  FALSE
  BY DEF OutOfBox
<1>1. After(o, half[p]).x # 0 /\ owner[After(o, half[p]).x] = p
  BY SizesAssumption DEF Owned, Cells
<1>2. half[q] \in Nat /\ o \in Particles
  BY StartIs, HalvesAssumption DEF MoveInv, TypeOK, ControlType
<1>3. After(o, half[q]).x = 0 => After(o, half[q] + 1).x = 0
  BY <1>2, AfterIs
<1>4. /\ Ahead(p, q) \in {0, 1}
      /\ Ahead(p, q) = 0 => half[q] = half[p] /\ Fresh(q)
      /\ Ahead(p, q) = 1 => half[p] = half[q] + 1
  <2>1. Ahead(p, q) \in {-1, 0, 1} /\ Ahead(p, q) # -1
    BY AtMostOneAhead DEF SyncInv
  <2>2. /\ Ahead(p, q) = 0 => half[p] = half[q] /\ (Fresh(p) <=> Fresh(q))
        /\ Ahead(p, q) = 1 => half[p] = half[q] + OneIf(final[q]) /\ (Fresh(p) <=> final[q])
    BY DEF SyncInv, Halves
  <2>3. Fresh(p)
    BY DEF Fresh
  <2> QED BY <2>1, <2>2, <2>3 DEF OneIf
<1>5. CASE Ahead(p, q) = 0
  <2>1. pc[q] # "idle" /\ From(o, half[p], q)
    BY <1>1, <1>4, <1>5 DEF Fresh
  <2> QED BY <1>1, <2>1 DEF From, Owned
<1>6. CASE Ahead(p, q) = 1
  BY <1>1, <1>3, <1>4, <1>6
<1> QED BY <1>4, <1>5, <1>6

LEMMA SerialHolds ==
    ASSUME MoveInv, Alone, SyncInv, TrackInv, Present
    PROVE  SerialMove
<1> SUFFICES ASSUME NEW p \in Proc, pc[p] = "idle"
             PROVE  /\ {<<a.id, a.icell, a.x, a.v>> : a \in kept[p]} =
                         {<<a.id, After(a, half[p]).x, After(a, half[p]).x, After(a, half[p]).v>> :
                             a \in {b \in start : After(b, half[p]).x \in Owned(owner, p)}}
                    /\ \A a, b \in kept[p] : a.id = b.id => a = b
  BY DEF SerialMove
<1>1. InKept(p) \in PlacesOf /\ Content[InKept(p)] = kept[p]
  BY ContentOf
<1>2. \A a, b \in kept[p] : a.id = b.id => a = b
  BY <1>1 DEF Alone
<1>3. ASSUME NEW a \in kept[p]
      PROVE  \E o \in start : /\ After(o, half[p]).x \in Owned(owner, p)
                              /\ a.id = o.id /\ a.icell = After(o, half[p]).x
                              /\ a.x = After(o, half[p]).x /\ a.v = After(o, half[p]).v
  <2>1. PICK o \in start : o.id = a.id /\ OnTrack(InKept(p), a, o)
    BY <1>1 DEF TrackInv, AllOnTrack
  <2>2. KeptTrack(a, o, p)
    BY <2>1, OnTrackOf
  <2>3. a.x = a.icell /\ owner[a.x] = p /\ StateOf(a) = After(o, half[p])
    BY <2>2 DEF KeptTrack, Ready, There
  <2>4. a.x \in Cells
    <3>1. a \in Particles
      BY DEF MoveInv, TypeOK, ListsType
    <3> QED BY <3>1 DEF Particles
  <2>5. After(o, half[p]).x = a.x /\ After(o, half[p]).v = a.v
    BY <2>3 DEF StateOf
  <2> QED BY <2>1, <2>3, <2>4, <2>5 DEF Owned
<1>4. ASSUME NEW o \in start, After(o, half[p]).x \in Owned(owner, p)
      PROVE  \E a \in kept[p] : /\ a.id = o.id /\ a.icell = After(o, half[p]).x
                                /\ a.x = After(o, half[p]).x /\ a.v = After(o, half[p]).v
  <2>1. ~OutOfBox(o)
    BY <1>4, NotOut DEF TrackInv
  <2>2. PICK s \in PlacesOf : \E a \in Content[s] : a.id = o.id
    BY <2>1 DEF Present, IsThere
  <2>3. PICK a \in Content[s] : a.id = o.id
    BY <2>2
  <2>4. PICK b \in start : b.id = a.id /\ OnTrack(s, a, b)
    BY DEF TrackInv, AllOnTrack
  <2>5. b = o
    BY <2>3, <2>4, StartsAssumption DEF TrackInv
  <2>6. s = InKept(p)
    BY <1>4, <2>1, <2>4, <2>5, OnlyMine
  <2>7. a \in kept[p]
    BY <1>1, <2>6
  <2>8. KeptTrack(a, o, p)
    BY <2>4, <2>5, <2>6, OnTrackOf
  <2>9. a.x = a.icell /\ StateOf(a) = After(o, half[p])
    BY <2>8 DEF KeptTrack, Ready, There
  <2> QED BY <2>3, <2>7, <2>9 DEF StateOf
<1> QED BY <1>2, <1>3, <1>4

(* After every half timestep each process has exactly the particles which  *)
(* a single process would have moved into its cells, with the velocity     *)
(* they would have there: Update::move and Comm::migrate_particles lose    *)
(* none, keep no copy, move none twice and stop none early, in however     *)
(* many passes.  The code does not do so for weighted cells, whose         *)
(* particles move for the whole timestep in each half (update.cpp:1392),   *)
(* and surface reactions add particles that the serial move does not have. *)
THEOREM MigrationIsSerial ==
    ASSUME NoReactions, ~Weighted
    PROVE  Spec => []SerialMove
<1> DEFINE Inv == SyncInv /\ TrackInv /\ Present
<1>1. Init => Inv
  BY SyncInit, TrackInit, PresentInit
<1>2. MoveInv /\ Alone /\ Inv /\ [Next]_vars => Inv'
  BY SyncStep, TrackStep, PresentStep
<1>3. MoveInv /\ Alone /\ Inv => SerialMove
  BY SerialHolds
<1> QED BY <1>1, <1>2, <1>3, AloneInvariant, PTL DEF Spec
=============================================================================
