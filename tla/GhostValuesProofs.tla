------------------------- MODULE GhostValuesProofs -------------------------
(***************************************************************************)
(* For every number of cells and processes, every script of calls and      *)
(* every choice of owners:                                                 *)
(*   1. the macroscopic quantities that a process is sent are of cells it  *)
(*      has ghosts of, and include all that its particles look at.  Both   *)
(*      are about boxes with faces at multiples of the width of a cell:    *)
(*      what reaches less than a cell beyond the bounding box crosses only *)
(*      the cells that touch that box;                                     *)
(*   2. so no process is ever sent a cell without a place for it, and a    *)
(*      particle finds the quantities of its own timestep.  What is under  *)
(*      way to a process is, in order, what its sender computed since the  *)
(*      last receive, in the order of lists that both made of the same     *)
(*      owners;                                                            *)
(*   3. the sums over ghost cells take every tally once, whatever cells    *)
(*      were moved within a window.  What is under way to the owner of a   *)
(*      cell is what others contributed since its last collate, and the    *)
(*      tallies it was made of do not change any more.                     *)
(* Fix balance is the only step that moves cells: all processes are at it  *)
(* when it is taken, and nothing is under way then.                        *)
(***************************************************************************)
EXTENDS GhostValues, TLAPS, WellFoundedInduction, FiniteSetTheorems, SequenceTheorems

-----------------------------------------------------------------------------
(* The inductive invariant.                                                *)
\* How often a call is in the script before its n-th one.
Before(n, call) == Cardinality({k \in 1 .. n - 1 : setting.script[k] = call})
\* The contribute that is the t-th.
ContributeOf(t) == CHOOSE n \in DOMAIN setting.script :
                     setting.script[n] = "contribute" /\ Before(n, "contribute") + 1 = t
\* A sequence of the members of S, each once.
Lists(s, S) ==
    /\ s \in Seq(S)
    /\ \A i, j \in DOMAIN s : s[i] = s[j] => i = j
    /\ \A c \in S : \E i \in DOMAIN s : s[i] = c

CallsInv ==
    /\ setting \in Settings
    /\ at \in [Proc -> Nat \ {0}] /\ \A p \in Proc : at[p] <= Len(setting.script) + 1
    /\ \A p, q \in Proc, b \in DOMAIN setting.script :
         setting.script[b] = "balance" => (at[p] <= b <=> at[q] <= b)
Own(p) == {c \in Cells : Owner[c] = p}
GridInv ==
    /\ Owner \in setting.layouts
    /\ mine = [p \in Proc |-> mine[p]] /\ \A p \in Proc : Lists(mine[p], Own(p))
    /\ ghosts = [p \in Proc |-> GhostsOf(Owner, p)]
    /\ sendlist = SendLists(Owner, mine) /\ recvlist = RecvLists(Owner, mine)
MacroInv ==
    /\ macro = [p \in Proc |-> macro[p]]
    /\ \A p \in Proc :
         /\ macro[p] = [k \in DOMAIN Stored(p) |-> macro[p][k]]
         /\ \A k \in DOMAIN Stored(p) :
              /\ k <= Len(mine[p]) =>
                   macro[p][k] = [cell |-> Stored(p)[k], step |-> Times(p, "compute")]
              /\ SentTo(Owner, p, Stored(p)[k]) =>
                   macro[p][k] = [cell |-> Stored(p)[k], step |-> Times(p, "receive")]
Parcel(q, p, t) == [k \in DOMAIN sendlist[q][p] |-> [cell |-> mine[q][sendlist[q][p][k]], step |-> t]]
MailInv ==
    /\ mail = [q \in Proc |-> [p \in Proc |-> mail[q][p]]]
    /\ \A q, p \in Proc :
         IF sendlist[q][p] = <<>> THEN mail[q][p] = <<>>
         ELSE /\ Times(p, "receive") <= Times(q, "compute")
              /\ mail[q][p] = [j \in 1 .. Times(q, "compute") - Times(p, "receive") |->
                                 Parcel(q, p, Times(p, "receive") + j)]
HitsInv ==
    /\ hits \in [Proc -> [DOMAIN setting.script -> Nat]]
    /\ \A p \in Proc, m \in DOMAIN setting.script : hits[p][m] # 0 =>
         /\ m < at[p] /\ setting.script[m] = "tally" /\ hits[p][m] \in Cells
         /\ setting.all \/ (\A b \in m .. at[p] - 1 : setting.script[b] # "balance") =>
              Index(Stored(p), hits[p][m]) # 0
DatumsInv ==
    /\ datums = [q \in Proc |-> [p \in Proc |-> datums[q][p]]]
    /\ \A q, p \in Proc :
         /\ Times(p, "collate") <= Times(q, "contribute")
         /\ datums[q][p] = [j \in 1 .. Times(q, "contribute") - Times(p, "collate") |->
                              DatumsTo(q, p, ContributeOf(Times(p, "collate") + j))]
SumInv ==
    /\ sum = [p \in Proc |-> sum[p]]
    /\ \A p \in Proc : at[p] > 1 /\ setting.script[at[p] - 1] = "contribute" =>
         sum[p] = [k \in DOMAIN mine[p] |-> Hits(p, mine[p][k], at[p] - 1)]

-----------------------------------------------------------------------------
(* Geometry.                                                               *)
(* A set of natural numbers has a least element.                           *)
LEMMA LeastNat ==
    ASSUME NEW S, S \subseteq Nat, S # {}
    PROVE  \E x \in S : \A y \in S : x <= y
<1>1. PICK x \in S : \A y \in S : ~ (<<y, x>> \in OpToRel(<, Nat))
  BY NatLessThanWellFounded, WFMin, Zenon
<1>2. \A y \in S : ~ (y < x)
  BY <1>1, Zenon DEF OpToRel
<1> QED BY <1>2

(* Min and Max of bounded sets are what their names say.                   *)
LEMMA MinOfNats ==
    ASSUME NEW S, S \subseteq Nat, S # {}
    PROVE  Min(S) \in S /\ \A y \in S : Min(S) <= y
BY LeastNat DEF Min

LEMMA MaxOfBounded ==
    ASSUME NEW m \in Nat, NEW S, S \subseteq 0 .. m, S # {}
    PROVE  Max(S) \in S /\ \A y \in S : Max(S) >= y
<1> DEFINE T == {m - x : x \in S}
<1>1. T \subseteq Nat
  OBVIOUS
<1>2. T # {}
  OBVIOUS
<1>3. PICK t \in T : \A u \in T : t <= u
  <2> HIDE DEF T
  <2> QED BY <1>1, <1>2, LeastNat
<1>4. PICK x \in S : t = m - x
  OBVIOUS
<1>5. \A y \in S : x >= y
  <2> SUFFICES ASSUME NEW y \in S PROVE x >= y
    OBVIOUS
  <2>1. m - y \in T
    OBVIOUS
  <2>2. m - x <= m - y
    BY <1>3, <1>4, <2>1
  <2>3. x \in Int /\ y \in Int
    OBVIOUS
  <2> QED BY <2>2, <2>3
<1> QED BY <1>5 DEF Max

LEMMA MinOfTwo ==
    ASSUME NEW a \in Int, NEW b \in Int
    PROVE  Min({a, b}) = IF a <= b THEN a ELSE b
<1> DEFINE m == IF a <= b THEN a ELSE b
<1>1. m \in {a, b} /\ \A y \in {a, b} : m <= y
  OBVIOUS
<1>2. \A x \in {a, b} : (\A y \in {a, b} : x <= y) => x = m
  OBVIOUS
<1> QED BY <1>1, <1>2 DEF Min

LEMMA MaxOfTwo ==
    ASSUME NEW a \in Int, NEW b \in Int
    PROVE  Max({a, b}) = IF a >= b THEN a ELSE b
<1> DEFINE m == IF a >= b THEN a ELSE b
<1>1. m \in {a, b} /\ \A y \in {a, b} : m >= y
  OBVIOUS
<1>2. \A x \in {a, b} : (\A y \in {a, b} : x >= y) => x = m
  OBVIOUS
<1> QED BY <1>1, <1>2 DEF Max

(* The bounding box of a process lies in the box and holds its cells.      *)
LEMMA BoundingBox ==
    ASSUME NEW owner \in Owners, NEW p \in Proc, NEW c \in Owned(owner, p)
    PROVE  /\ BBox(owner, p).lo \in 0 .. 2 * (c - 1)
           /\ BBox(owner, p).hi \in 2 * c .. 2 * NCells
<1> USE SizesAssumption DEF Width, Span
<1>0. c \in Cells
  BY DEF Owned
<1>1. PICK los : los = {Span(k).lo : k \in Owned(owner, p)}
  OBVIOUS
<1>2. PICK his : his = {Span(k).hi : k \in Owned(owner, p)}
  OBVIOUS
<1>3. los \subseteq Nat /\ 2 * (c - 1) \in los
  BY <1>1 DEF Owned, Cells
<1>4. his \subseteq 0 .. 2 * NCells /\ 2 * c \in his
  BY <1>2 DEF Owned, Cells
<1>5. Min(los) \in Nat /\ Min(los) <= 2 * (c - 1)
  BY <1>3, MinOfNats
<1>6. Max(his) \in 0 .. 2 * NCells /\ Max(his) >= 2 * c
  <2>1. 2 * NCells \in Nat
    OBVIOUS
  <2>2. his # {}
    BY <1>4
  <2>3. Max(his) \in his /\ \A y \in his : Max(his) >= y
    BY <2>1, <2>2, <1>4, MaxOfBounded
  <2> QED BY <2>3, <1>4
<1>7. c \in Int
  BY <1>0 DEF Cells
<1>8. BBox(owner, p) = [lo |-> Min(los), hi |-> Max(his)]
  BY <1>1, <1>2 DEF BBox
<1> QED BY <1>5, <1>6, <1>7, <1>8

(* Intersect on boxes of integers, in plain numbers.                       *)
LEMMA IntersectInNumbers ==
    ASSUME NEW a, NEW b,
           a.lo \in Int, a.hi \in Int, b.lo \in Int, b.hi \in Int
    PROVE  /\ Intersect(a, b).lo = IF a.lo >= b.lo THEN a.lo ELSE b.lo
           /\ Intersect(a, b).hi = IF a.hi <= b.hi THEN a.hi ELSE b.hi
<1>1. Intersect(a, b).lo = Max({a.lo, b.lo}) /\ Intersect(a, b).hi = Min({a.hi, b.hi})
  BY DEF Intersect
<1> QED BY <1>1, MaxOfTwo, MinOfTwo

(* The part of the extended box with shift i, in plain numbers.            *)
LEMMA PartInNumbers ==
    ASSUME NEW owner \in Owners, NEW p \in Proc, NEW i \in -1 .. 1,
           Extended(owner, p).lo \in Int, Extended(owner, p).hi \in Int
    PROVE  LET H == 2 * NCells
               l == Extended(owner, p).lo + i * H
               h == Extended(owner, p).hi + i * H
           IN /\ Part(owner, p, i).lo = IF l >= 0 THEN l ELSE 0
              /\ Part(owner, p, i).hi = IF h <= H THEN h ELSE H
<1> DEFINE H == 2 * NCells
           s == Shifted(Extended(owner, p), i)
<1>1. H \in Int /\ i * H \in Int
  BY SizesAssumption
<1>2. Box.lo = 0 /\ Box.hi = H
  BY DEF Box, Width
<1>3. s.lo = Extended(owner, p).lo + i * H /\ s.hi = Extended(owner, p).hi + i * H
  BY <1>2 DEF Shifted
<1>4. s.lo \in Int /\ s.hi \in Int
  BY <1>1, <1>3
<1>5. Part(owner, p, i) = Intersect(s, Box)
  BY DEF Part
<1> HIDE DEF H, s
<1>6. /\ Part(owner, p, i).lo = IF s.lo >= 0 THEN s.lo ELSE 0
      /\ Part(owner, p, i).hi = IF s.hi <= H THEN s.hi ELSE H
  BY <1>1, <1>2, <1>4, <1>5, IntersectInNumbers
<1> QED BY <1>3, <1>6 DEF H

(* The extended box spans every owned cell, and at the end of a periodic   *)
(* box it reaches beyond it.                                               *)
LEMMA ExtendedBox ==
    ASSUME NEW owner \in Owners, NEW p \in Proc, NEW c \in Owned(owner, p), Cutoff >= 0
    PROVE  /\ Extended(owner, p).lo \in Int /\ Extended(owner, p).lo <= 2 * (c - 1)
           /\ Extended(owner, p).hi \in Int /\ Extended(owner, p).hi >= 2 * c
           /\ Periodic /\ c = 1 => Extended(owner, p).lo <= -1
           /\ Periodic /\ c = NCells => Extended(owner, p).hi >= 2 * NCells + 1
<1> DEFINE bb == BBox(owner, p)
           ext == [lo |-> bb.lo - Cutoff - Nudge(bb.lo = Box.lo),
                   hi |-> bb.hi + Cutoff + Nudge(bb.hi = Box.hi)]
<1> USE SizesAssumption, CutoffAssumption
<1>1. c \in 1 .. NCells
  BY DEF Owned, Cells
<1>2. bb.lo \in 0 .. 2 * (c - 1) /\ bb.hi \in 2 * c .. 2 * NCells
  BY BoundingBox
<1>3. Box.lo = 0 /\ Box.hi = 2 * NCells
  BY DEF Box, Width
<1>4. \A e \in BOOLEAN : Nudge(e) \in {0, 1}
  BY DEF Nudge, Epsilon
<1>5. ext.lo = bb.lo - Cutoff - Nudge(bb.lo = 0) /\ ext.hi = bb.hi + Cutoff + Nudge(bb.hi = 2 * NCells)
  BY <1>3
<1>6. Nudge(bb.lo = 0) \in {0, 1} /\ Nudge(bb.hi = 2 * NCells) \in {0, 1}
  BY <1>4
<1>7. Extended(owner, p) = IF Periodic THEN ext ELSE Intersect(ext, Box)
  BY DEF Extended
<1> HIDE DEF bb, ext
<1>8. /\ ext.lo \in Int /\ ext.lo <= 2 * (c - 1)
      /\ ext.hi \in Int /\ ext.hi >= 2 * c
  BY <1>1, <1>2, <1>5, <1>6
<1>9. CASE Periodic
  <2>1. c = 1 => bb.lo = 0
    BY <1>2
  <2>2. c = NCells => bb.hi = 2 * NCells
    BY <1>1, <1>2
  <2>3. bb.lo = 0 => Cutoff + Nudge(bb.lo = 0) >= 1
    BY <1>9, <1>6 DEF Nudge, Epsilon
  <2>4. bb.hi = 2 * NCells => Cutoff + Nudge(bb.hi = 2 * NCells) >= 1
    BY <1>9, <1>6 DEF Nudge, Epsilon
  <2>5. c = 1 => ext.lo <= -1
    BY <1>1, <1>2, <1>5, <1>6, <2>1, <2>3
  <2>6. c = NCells => ext.hi >= 2 * NCells + 1
    BY <1>1, <1>2, <1>5, <1>6, <2>2, <2>4
  <2> QED BY <1>7, <1>8, <1>9, <2>5, <2>6
<1>10. CASE ~Periodic
  <2>1. /\ Extended(owner, p).lo = IF ext.lo >= 0 THEN ext.lo ELSE 0
        /\ Extended(owner, p).hi = IF ext.hi <= 2 * NCells THEN ext.hi ELSE 2 * NCells
    BY <1>3, <1>7, <1>8, <1>10, IntersectInNumbers
  <2> QED BY <1>1, <1>8, <1>10, <2>1
<1> QED BY <1>9, <1>10

(* A cell that reaches a part of the extended box is not unknown.          *)
LEMMA TouchedByPart ==
    ASSUME NEW owner \in Owners, NEW p \in Proc, NEW n \in Cells, NEW i \in -1 .. 1,
           i = 0 \/ Periodic,
           Part(owner, p, i).lo \in Int, Part(owner, p, i).hi \in Int,
           Part(owner, p, i).lo < Part(owner, p, i).hi,
           Part(owner, p, i).lo <= 2 * n, 2 * (n - 1) <= Part(owner, p, i).hi
    PROVE  Touching(owner, p, n) # {}
<1> DEFINE part == Part(owner, p, i)
<1>1. i \in Parts(owner, p)
  BY DEF Parts
<1>2. Span(n).lo = 2 * (n - 1) /\ Span(n).hi = 2 * n
  BY DEF Span, Width
<1>3. Span(n).lo \in Int /\ Span(n).hi \in Int
  BY <1>2, SizesAssumption DEF Cells
<1>4. /\ Intersect(Span(n), part).lo = IF Span(n).lo >= part.lo THEN Span(n).lo ELSE part.lo
      /\ Intersect(Span(n), part).hi = IF Span(n).hi <= part.hi THEN Span(n).hi ELSE part.hi
  BY <1>3, IntersectInNumbers
<1>5. Overlaps(Span(n), part)
  BY <1>2, <1>3, <1>4 DEF Overlaps, Cells
<1> QED BY <1>1, <1>5 DEF Touching

-----------------------------------------------------------------------------
(* The bounding box begins and ends with a cell of the process.            *)
LEMMA BoxOfCells ==
    ASSUME NEW owner \in Owners, NEW p \in Proc, Owned(owner, p) # {}
    PROVE  \E k, m \in Owned(owner, p) :
              BBox(owner, p).lo = 2 * (k - 1) /\ BBox(owner, p).hi = 2 * m
<1> USE SizesAssumption DEF Width, Span
<1>1. PICK los : los = {Span(k).lo : k \in Owned(owner, p)}
  OBVIOUS
<1>2. PICK his : his = {Span(k).hi : k \in Owned(owner, p)}
  OBVIOUS
<1>3. los \subseteq Nat /\ los # {}
  BY <1>1 DEF Owned, Cells
<1>4. his \subseteq 0 .. 2 * NCells /\ his # {}
  BY <1>2 DEF Owned, Cells
<1>5. Min(los) \in los
  BY <1>3, MinOfNats
<1>6. Max(his) \in his
  <2>1. 2 * NCells \in Nat
    OBVIOUS
  <2> QED BY <2>1, <1>4, MaxOfBounded
<1>7. BBox(owner, p) = [lo |-> Min(los), hi |-> Max(his)]
  BY <1>1, <1>2 DEF BBox
<1>8. PICK k \in Owned(owner, p) : Min(los) = 2 * (k - 1)
  BY <1>1, <1>5
<1>9. PICK m \in Owned(owner, p) : Max(his) = 2 * m
  BY <1>2, <1>6
<1> QED BY <1>7, <1>8, <1>9

(* The box of the macroscopic quantities, in plain numbers.                *)
LEMMA MacroBoxInNumbers ==
    ASSUME NEW owner \in Owners, NEW p \in Proc,
           NEW k \in Owned(owner, p), NEW m \in Owned(owner, p),
           BBox(owner, p).lo = 2 * (k - 1), BBox(owner, p).hi = 2 * m
    PROVE  LET H == 2 * NCells
           IN /\ MacroBox(owner, p).lo = IF Periodic \/ k > 1 THEN 2 * k - 4 ELSE 0
              /\ MacroBox(owner, p).hi = IF Periodic \/ m < NCells THEN 2 * m + 2 ELSE H
<1> USE SizesAssumption
<1> DEFINE ext == [lo |-> BBox(owner, p).lo - Width, hi |-> BBox(owner, p).hi + Width]
<1>1. k \in 1 .. NCells /\ m \in 1 .. NCells
  BY DEF Owned, Cells
<1>2. ext.lo = 2 * k - 4 /\ ext.hi = 2 * m + 2
  BY <1>1 DEF Width
<1>3. Box.lo = 0 /\ Box.hi = 2 * NCells
  BY DEF Box, Width
<1>4. MacroBox(owner, p) = IF Periodic THEN ext ELSE Intersect(ext, Box)
  BY DEF MacroBox
<1> HIDE DEF ext
<1>5. ext.lo \in Int /\ ext.hi \in Int
  BY <1>1, <1>2
<1>6. /\ Intersect(ext, Box).lo = IF ext.lo >= 0 THEN ext.lo ELSE 0
      /\ Intersect(ext, Box).hi = IF ext.hi <= 2 * NCells THEN ext.hi ELSE 2 * NCells
  BY <1>3, <1>5, IntersectInNumbers
<1> QED BY <1>1, <1>2, <1>4, <1>6

(* Its part with shift i, in plain numbers.                                *)
LEMMA MacroPartInNumbers ==
    ASSUME NEW owner \in Owners, NEW p \in Proc, NEW i \in -1 .. 1,
           MacroBox(owner, p).lo \in Int, MacroBox(owner, p).hi \in Int
    PROVE  LET H == 2 * NCells
               l == MacroBox(owner, p).lo + i * H
               h == MacroBox(owner, p).hi + i * H
           IN /\ MacroPart(owner, p, i).lo = IF l >= 0 THEN l ELSE 0
              /\ MacroPart(owner, p, i).hi = IF h <= H THEN h ELSE H
<1> DEFINE H == 2 * NCells
           s == Shifted(MacroBox(owner, p), i)
<1>1. H \in Int /\ i * H \in Int
  BY SizesAssumption
<1>2. Box.lo = 0 /\ Box.hi = H
  BY DEF Box, Width
<1>3. s.lo = MacroBox(owner, p).lo + i * H /\ s.hi = MacroBox(owner, p).hi + i * H
  BY <1>2 DEF Shifted
<1>4. s.lo \in Int /\ s.hi \in Int
  BY <1>1, <1>3
<1>5. MacroPart(owner, p, i) = Intersect(s, Box)
  BY DEF MacroPart
<1> HIDE DEF H, s
<1>6. /\ MacroPart(owner, p, i).lo = IF s.lo >= 0 THEN s.lo ELSE 0
      /\ MacroPart(owner, p, i).hi = IF s.hi <= H THEN s.hi ELSE H
  BY <1>1, <1>2, <1>4, <1>5, IntersectInNumbers
<1> QED BY <1>3, <1>6 DEF H

(* A cell crosses a box of integers when both reach into each other.       *)
LEMMA CrossesInNumbers ==
    ASSUME NEW c \in Cells, NEW b, b.lo \in Int, b.hi \in Int
    PROVE  Crosses(Span(c), b) <=> b.lo < 2 * c /\ 2 * (c - 1) < b.hi /\ b.lo < b.hi
<1>1. Span(c).lo = 2 * (c - 1) /\ Span(c).hi = 2 * c /\ c \in Int
  BY SizesAssumption DEF Span, Width, Cells
<1>2. /\ Intersect(Span(c), b).lo = IF Span(c).lo >= b.lo THEN Span(c).lo ELSE b.lo
      /\ Intersect(Span(c), b).hi = IF Span(c).hi <= b.hi THEN Span(c).hi ELSE b.hi
  BY <1>1, IntersectInNumbers
<1> QED BY <1>1, <1>2 DEF Crosses

(* A cell that crosses a part of the box touches the same part of the box  *)
(* that ghosts are acquired for, be the cutoff as short as it may.         *)
LEMMA CrossingTouches ==
    ASSUME NEW owner \in Owners, NEW p \in Proc, NEW c \in Cells, Cutoff >= 0,
           Owned(owner, p) # {},
           NEW i \in MacroParts(owner, p), Crosses(Span(c), MacroPart(owner, p, i))
    PROVE  Touching(owner, p, c) # {}
<1> DEFINE H == 2 * NCells
           M == MacroPart(owner, p, i)
           E == Extended(owner, p)
           P == Part(owner, p, i)
<1> USE SizesAssumption
<1>1. PICK k \in Owned(owner, p), m \in Owned(owner, p) :
          BBox(owner, p).lo = 2 * (k - 1) /\ BBox(owner, p).hi = 2 * m
  BY BoxOfCells
<1>2. k \in 1 .. NCells /\ m \in 1 .. NCells /\ c \in 1 .. NCells
  BY DEF Owned, Cells
<1>3. i \in -1 .. 1 /\ (i = 0 \/ Periodic)
  BY DEF MacroParts
<1>4. /\ MacroBox(owner, p).lo = IF Periodic \/ k > 1 THEN 2 * k - 4 ELSE 0
      /\ MacroBox(owner, p).hi = IF Periodic \/ m < NCells THEN 2 * m + 2 ELSE H
  BY <1>1, MacroBoxInNumbers
<1>5. MacroBox(owner, p).lo \in Int /\ MacroBox(owner, p).hi \in Int
  BY <1>2, <1>4
<1>6. /\ M.lo = IF MacroBox(owner, p).lo + i * H >= 0 THEN MacroBox(owner, p).lo + i * H ELSE 0
      /\ M.hi = IF MacroBox(owner, p).hi + i * H <= H THEN MacroBox(owner, p).hi + i * H ELSE H
  BY <1>3, <1>5, MacroPartInNumbers
<1>7. /\ E.lo \in Int /\ E.lo <= 2 * (k - 1) /\ (Periodic /\ k = 1 => E.lo <= -1)
      /\ E.hi \in Int /\ E.hi >= 2 * m /\ (Periodic /\ m = NCells => E.hi >= 2 * NCells + 1)
      /\ E.hi >= 2 * k /\ E.lo <= 2 * (m - 1)
  BY ExtendedBox
<1>8. /\ P.lo = IF E.lo + i * H >= 0 THEN E.lo + i * H ELSE 0
      /\ P.hi = IF E.hi + i * H <= H THEN E.hi + i * H ELSE H
  BY <1>3, <1>7, PartInNumbers
<1>9. M.lo < 2 * c /\ 2 * (c - 1) < M.hi /\ M.lo < M.hi
  <2>1. M.lo \in Int /\ M.hi \in Int
    BY <1>3, <1>5, <1>6
  <2> QED BY <2>1, CrossesInNumbers
<1> HIDE DEF M, E, P
<1>10. P.lo \in Int /\ P.hi \in Int /\ P.lo < P.hi /\ P.lo <= 2 * c /\ 2 * (c - 1) <= P.hi
  <2>1. CASE i = 0
    BY <2>1, <1>2, <1>4, <1>6, <1>7, <1>8, <1>9
  <2>2. CASE i = 1
    <3>1. Periodic /\ i * H = H
      BY <1>3, <2>2
    <3> QED BY <3>1, <1>2, <1>4, <1>6, <1>7, <1>8, <1>9
  <2>3. CASE i = -1
    <3>1. Periodic /\ i * H = - H
      BY <1>3, <2>3
    <3> QED BY <3>1, <1>2, <1>4, <1>6, <1>7, <1>8, <1>9
  <2> QED BY <1>3, <2>1, <2>2, <2>3
<1> QED BY <1>3, <1>10, TouchedByPart DEF P

(* The lookup of what a process is sent never ends the run: it has ghosts, *)
(* full or EMPTY ones, of all these cells (grid_comm_macro.cpp:335).       *)
THEOREM SentCellsAreKnown == \A owner \in Owners : SentAreKnown(owner)
<1> SUFFICES ASSUME NEW owner \in Owners, NEW p \in Proc, NEW c \in Cells, SentTo(owner, p, c)
             PROVE  Known(owner, p, c)
  BY DEF SentAreKnown
<1>1. PICK i \in MacroParts(owner, p) : Crosses(Span(c), MacroPart(owner, p, i))
  BY DEF SentTo
<1>2. Owned(owner, p) # {}
  BY DEF SentTo
<1>3. Cutoff >= 0 => Touching(owner, p, c) # {}
  BY <1>1, <1>2, CrossingTouches
<1> QED BY <1>2, <1>3, CutoffAssumption DEF Known, Halo

(* A particle that looks half a cell around itself finds a cell of its     *)
(* process, or one whose owner sends its quantities                        *)
(* (grid_comm_macro.cpp:448).                                              *)
THEOREM CellsLookedAtAreSent == \A owner \in Owners : LookedAtAreSent(owner)
<1> SUFFICES ASSUME NEW owner \in Owners, NEW c \in Cells, NEW n \in LooksAt(c),
                    owner[n] # owner[c]
             PROVE  SentTo(owner, owner[c], n)
  BY DEF LookedAtAreSent
<1> USE SizesAssumption
<1> DEFINE p == owner[c]
           H == 2 * NCells
           M == MacroPart(owner, p, 0)
<1>1. p \in Proc /\ c \in Owned(owner, p)
  BY DEF Owners, Owned
<1>2. n \in Cells /\ n \in c - 1 .. c + 1 /\ n \in 1 .. NCells /\ c \in 1 .. NCells
  BY DEF LooksAt, Cells
<1>3. owner[n] # p /\ Owned(owner, p) # {}
  BY <1>1
<1> HIDE DEF p
<1>4. PICK k \in Owned(owner, p), m \in Owned(owner, p) :
          BBox(owner, p).lo = 2 * (k - 1) /\ BBox(owner, p).hi = 2 * m
  BY <1>1, BoxOfCells
<1>5. k \in 1 .. NCells /\ m \in 1 .. NCells /\ k <= c /\ c <= m
  <2>1. k \in 1 .. NCells /\ m \in 1 .. NCells
    BY DEF Owned, Cells
  <2>2. BBox(owner, p).lo \in 0 .. 2 * (c - 1) /\ BBox(owner, p).hi \in 2 * c .. 2 * NCells
    BY <1>1, BoundingBox
  <2> QED BY <1>2, <1>4, <2>1, <2>2
<1>6. /\ MacroBox(owner, p).lo = IF Periodic \/ k > 1 THEN 2 * k - 4 ELSE 0
      /\ MacroBox(owner, p).hi = IF Periodic \/ m < NCells THEN 2 * m + 2 ELSE H
  BY <1>1, <1>4, MacroBoxInNumbers
<1>7. MacroBox(owner, p).lo \in Int /\ MacroBox(owner, p).hi \in Int /\ 0 * H = 0
  BY <1>5, <1>6
<1>8. /\ M.lo = IF MacroBox(owner, p).lo >= 0 THEN MacroBox(owner, p).lo ELSE 0
      /\ M.hi = IF MacroBox(owner, p).hi <= H THEN MacroBox(owner, p).hi ELSE H
  BY <1>1, <1>7, MacroPartInNumbers
<1>9. M.lo \in Int /\ M.hi \in Int /\ M.lo < 2 * n /\ 2 * (n - 1) < M.hi /\ M.lo < M.hi
  <2> HIDE DEF M
  <2> QED BY <1>2, <1>5, <1>6, <1>8
<1>10. 0 \in MacroParts(owner, p)
  BY <1>9 DEF MacroParts
<1>11. Crosses(Span(n), M)
  BY <1>2, <1>9, CrossesInNumbers
<1> QED BY <1>3, <1>10, <1>11 DEF SentTo, p

-----------------------------------------------------------------------------
(* Sums over finite sets.                                                  *)
LEMMA SmallestSet ==
    ASSUME NEW S, IsFiniteSet(S), NEW Bad, Bad \subseteq SUBSET S, Bad # {}
    PROVE  \E T \in Bad : /\ IsFiniteSet(T)
                          /\ \A x \in T : T \ {x} \notin Bad
<1> DEFINE Sizes == {Cardinality(T) : T \in Bad}
<1>1. \A T \in Bad : IsFiniteSet(T) /\ Cardinality(T) \in Nat
  BY FS_Subset, FS_CardinalityType
<1>2. Sizes \subseteq Nat /\ Sizes # {}
  BY <1>1
<1> HIDE DEF Sizes
<1>3. PICK n \in Sizes : \A m \in Sizes : n <= m
  BY <1>2, LeastNat
<1>4. PICK T \in Bad : Cardinality(T) = n
  BY DEF Sizes
<1>5. ASSUME NEW x \in T PROVE T \ {x} \notin Bad
  <2>1. Cardinality(T \ {x}) = Cardinality(T) - 1
    BY <1>1, FS_RemoveElement
  <2>2. CASE T \ {x} \in Bad
    <3>1. Cardinality(T \ {x}) \in Sizes
      BY <2>2 DEF Sizes
    <3> QED BY <1>2, <1>3, <1>4, <2>1, <3>1
  <2> QED BY <2>2
<1> QED BY <1>1, <1>4, <1>5

-----------------------------------------------------------------------------
Measure(m, S, f) ==
  /\ m \in [SUBSET S -> Int] /\ m[{}] = 0
  /\ \A T \in SUBSET S : \A x \in T : m[T] = f[x] + m[T \ {x}]

LEMMA MeasureExists ==
    ASSUME NEW S, IsFiniteSet(S), NEW f, \A x \in S : f[x] \in Int
    PROVE  \E m : Measure(m, S, f)
<1> DEFINE Bad == {T \in SUBSET S : ~\E m : Measure(m, T, f)}
<1>1. SUFFICES ASSUME Bad # {} PROVE FALSE
  <2>1. S \in SUBSET S
    OBVIOUS
  <2> QED BY <2>1
<1>2. PICK T \in Bad : \A x \in T : T \ {x} \notin Bad
  <2>1. Bad \subseteq SUBSET S
    OBVIOUS
  <2> HIDE DEF Bad
  <2> QED BY <1>1, <2>1, SmallestSet
<1>3. CASE T = {}
  <2> DEFINE m == [U \in SUBSET {} |-> 0]
  <2>1. Measure(m, {}, f)
    BY DEF Measure
  <2> HIDE DEF m
  <2> QED BY <1>3, <2>1
<1>4. CASE T # {}
  <2>1. PICK x \in T : TRUE
    BY <1>4
  <2>2. T \ {x} \in SUBSET S /\ T \ {x} \notin Bad /\ f[x] \in Int
    BY <1>2
  <2>3. PICK m : Measure(m, T \ {x}, f)
    BY <2>2
  <2> DEFINE e == [U \in SUBSET T |-> IF x \in U THEN f[x] + m[U \ {x}] ELSE m[U]]
  <2>4. \A U \in SUBSET T : U \ {x} \in SUBSET (T \ {x}) /\ m[U \ {x}] \in Int /\ (x \notin U => U \ {x} = U)
    BY <2>3 DEF Measure
  <2>5. e \in [SUBSET T -> Int]
    <3>1. \A U \in SUBSET T : (IF x \in U THEN f[x] + m[U \ {x}] ELSE m[U]) \in Int
      <4> SUFFICES ASSUME NEW U \in SUBSET T PROVE (IF x \in U THEN f[x] + m[U \ {x}] ELSE m[U]) \in Int
        OBVIOUS
      <4>1. CASE x \in U
        <5>1. m[U \ {x}] \in Int
          BY <2>4
        <5>2. f[x] + m[U \ {x}] \in Int
          BY <2>2, <5>1
        <5> QED BY <4>1, <5>2
      <4>2. CASE x \notin U
        <5>1. m[U] \in Int
          BY <2>4, <4>2
        <5> QED BY <4>2, <5>1
      <4> QED BY <4>1, <4>2
    <3> QED BY <3>1
  <2>6. e[{}] = 0
    BY <2>3 DEF Measure
  <2>7. ASSUME NEW U \in SUBSET T, NEW y \in U PROVE e[U] = f[y] + e[U \ {y}]
    <3>1. CASE y = x
      <4>1. e[U] = f[x] + m[U \ {x}]
        BY <3>1
      <4>2. e[U \ {x}] = m[U \ {x}]
        OBVIOUS
      <4> QED BY <3>1, <4>1, <4>2
    <3>2. CASE y # x /\ x \in U
      <4>1. e[U] = f[x] + m[U \ {x}]
        BY <3>2
      <4>2. e[U \ {y}] = f[x] + m[(U \ {y}) \ {x}]
        BY <3>2
      <4>3. (U \ {y}) \ {x} = (U \ {x}) \ {y} /\ y \in U \ {x}
        BY <3>2
      <4>4. m[U \ {x}] = f[y] + m[(U \ {x}) \ {y}]
        BY <2>3, <2>4, <4>3 DEF Measure
      <4>5. m[(U \ {x}) \ {y}] \in Int /\ f[y] \in Int
        <5>1. (U \ {x}) \ {y} \in SUBSET (T \ {x}) /\ y \in S
          OBVIOUS
        <5> QED BY <2>3, <5>1 DEF Measure
      <4>6. \A a, b, c, d, r, t \in Int : a = b + c /\ d = b + r /\ c = t + r => a = t + d
        OBVIOUS
      <4>7. m[U \ {x}] \in Int /\ e[U] \in Int /\ e[U \ {y}] \in Int /\ e[U \ {y}] = f[x] + m[(U \ {x}) \ {y}]
        <5>1. U \ {y} \in SUBSET T
          OBVIOUS
        <5> HIDE DEF e
        <5> QED BY <2>4, <2>5, <4>2, <4>3, <5>1
      <4> HIDE DEF e
      <4> QED BY ONLY <2>2, <4>1, <4>4, <4>5, <4>6, <4>7
    <3>3. CASE x \notin U
      <4>1. e[U] = m[U] /\ e[U \ {y}] = m[U \ {y}]
        BY <3>3
      <4>2. U \in SUBSET (T \ {x})
        BY <3>3
      <4> QED BY <2>3, <4>1, <4>2 DEF Measure
    <3> QED BY <3>1, <3>2, <3>3
  <2>8. Measure(e, T, f)
    <3> HIDE DEF e
    <3> QED BY <2>5, <2>6, <2>7 DEF Measure
  <2> QED BY <2>8
<1> QED BY <1>3, <1>4

LEMMA MeasureAdds ==
    ASSUME NEW S, IsFiniteSet(S), NEW f, \A x \in S : f[x] \in Int, NEW m, Measure(m, S, f),
           NEW T \in SUBSET S, NEW U \in SUBSET S, T \cap U = {}
    PROVE  m[T \union U] = m[T] + m[U]
<1> DEFINE Bad == {V \in SUBSET U : m[T \union V] # m[T] + m[V]}
<1>1. SUFFICES ASSUME Bad # {} PROVE FALSE
  <2>1. U \in SUBSET U
    OBVIOUS
  <2> QED BY <2>1
<1>2. PICK V \in Bad : \A x \in V : V \ {x} \notin Bad
  <2>1. Bad \subseteq SUBSET U /\ IsFiniteSet(U)
    BY FS_Subset
  <2> HIDE DEF Bad
  <2> QED BY <1>1, <2>1, SmallestSet
<1>3. m[T] \in Int
  BY DEF Measure
<1>4. CASE V = {}
  <2>1. T \union V = T /\ m[V] = 0
    BY <1>4 DEF Measure
  <2>2. m[T] = m[T] + 0
    BY <1>3
  <2>3. m[T \union V] = m[T] + m[V]
    BY <2>1, <2>2
  <2> QED BY <2>3
<1>5. CASE V # {}
  <2>1. PICK x \in V : TRUE
    BY <1>5
  <2>2. V \ {x} \in SUBSET U /\ V \in SUBSET S /\ V \ {x} \in SUBSET S /\ T \union V \in SUBSET S /\ x \in S
        /\ x \in T \union V /\ (T \union V) \ {x} = T \union (V \ {x})
    OBVIOUS
  <2>3. m[T \union (V \ {x})] = m[T] + m[V \ {x}]
    BY <1>2, <2>2
  <2>4. m[V] = f[x] + m[V \ {x}] /\ m[T \union V] = f[x] + m[(T \union V) \ {x}]
    BY <2>2 DEF Measure
  <2>5. f[x] \in Int /\ m[V \ {x}] \in Int
    BY <2>2 DEF Measure
  <2>6. m[T \union V] = m[T] + m[V]
    <3>1. m[T \union V] = f[x] + m[T \union (V \ {x})]
      BY <2>2, <2>4
    <3> QED BY ONLY <1>3, <2>3, <2>4, <2>5, <3>1
  <2> QED BY <2>6
<1> QED BY <1>4, <1>5

SumOver(f, S) == MapThenSumSet(LAMBDA x : f[x], S)

\* A fold over the subsets of T, one chosen element after the other.
Unfolded(g, f, T) ==
  g = [s \in SUBSET T |-> IF s = {} THEN 0 ELSE f[CHOOSE x \in s : TRUE] + g[s \ {CHOOSE x \in s : TRUE}]]

LEMMA MeasureUnfolds ==
    ASSUME NEW T, NEW f, NEW m, Measure(m, T, f)
    PROVE  Unfolded(m, f, T)
<1> DEFINE e(s) == IF s = {} THEN 0 ELSE f[CHOOSE x \in s : TRUE] + m[s \ {CHOOSE x \in s : TRUE}]
<1>1. ASSUME NEW s \in SUBSET T PROVE m[s] = e(s)
  <2>1. CASE s = {}
    BY <2>1 DEF Measure
  <2>2. CASE s # {}
    <3>1. PICK c \in s : c = CHOOSE x \in s : TRUE
      BY <2>2
    <3>2. m[s] = f[c] + m[s \ {c}]
      BY DEF Measure
    <3> QED BY <2>2, <3>1, <3>2
  <2> QED BY <2>1, <2>2
<1>2. m = [s \in SUBSET T |-> m[s]]
  BY DEF Measure
<1> HIDE DEF e
<1>3. m = [s \in SUBSET T |-> e(s)]
  BY <1>1, <1>2
<1> QED BY <1>3 DEF Unfolded, e

LEMMA UnfoldedIsMeasure ==
    ASSUME NEW T, IsFiniteSet(T), NEW f, NEW g, Unfolded(g, f, T), NEW S, NEW m, Measure(m, S, f), T \subseteq S
    PROVE  g[T] = m[T]
<1> DEFINE Bad == {U \in SUBSET T : g[U] # m[U]}
<1>1. SUFFICES ASSUME Bad # {} PROVE FALSE
  <2>1. T \in SUBSET T
    OBVIOUS
  <2> QED BY <2>1
<1>2. PICK U \in Bad : \A x \in U : U \ {x} \notin Bad
  <2>1. Bad \subseteq SUBSET T
    OBVIOUS
  <2> HIDE DEF Bad
  <2> QED BY <1>1, <2>1, SmallestSet
<1>3. g[U] = IF U = {} THEN 0 ELSE f[CHOOSE x \in U : TRUE] + g[U \ {CHOOSE x \in U : TRUE}]
  BY DEF Unfolded
<1>4. CASE U = {}
  BY <1>3, <1>4 DEF Measure
<1>5. CASE U # {}
  <2>1. PICK c \in U : c = CHOOSE x \in U : TRUE
    BY <1>5
  <2>2. U \ {c} \in SUBSET T /\ U \in SUBSET S
    OBVIOUS
  <2>3. g[U \ {c}] = m[U \ {c}]
    BY <1>2, <2>2
  <2>4. m[U] = f[c] + m[U \ {c}]
    BY <2>2 DEF Measure
  <2>5. g[U] = f[c] + g[U \ {c}]
    BY <1>3, <1>5, <2>1
  <2> QED BY <2>3, <2>4, <2>5
<1> QED BY <1>4, <1>5

LEMMA SumUnfolds ==
    ASSUME NEW f, NEW T
    PROVE  \E g : SumOver(f, T) = g[T] /\ ((\E h : Unfolded(h, f, T)) => Unfolded(g, f, T))
BY DEF SumOver, MapThenSumSet, MapThenFoldSet, Unfolded

LEMMA SumIsMeasure ==
    ASSUME NEW S, NEW f, NEW m, Measure(m, S, f), NEW T, IsFiniteSet(T), T \subseteq S, \A x \in T : f[x] \in Int
    PROVE  SumOver(f, T) = m[T]
<1>1. PICK g : SumOver(f, T) = g[T] /\ ((\E h : Unfolded(h, f, T)) => Unfolded(g, f, T))
  BY SumUnfolds
<1>2. PICK n : Measure(n, T, f)
  BY MeasureExists
<1>3. Unfolded(n, f, T)
  BY <1>2, MeasureUnfolds
<1>4. Unfolded(g, f, T)
  BY <1>1, <1>3
<1>5. g[T] = m[T]
  BY <1>4, UnfoldedIsMeasure
<1> QED BY <1>1, <1>5

-----------------------------------------------------------------------------
LEMMA SumEmpty == \A f : SumOver(f, {}) = 0
<1> SUFFICES ASSUME NEW f PROVE SumOver(f, {}) = 0
  OBVIOUS
<1>1. IsFiniteSet({}) /\ \A x \in {} : f[x] \in Int
  BY FS_EmptySet
<1>2. PICK m : Measure(m, {}, f)
  BY <1>1, MeasureExists
<1>3. SumOver(f, {}) = m[{}]
  BY <1>1, <1>2, SumIsMeasure
<1> QED BY <1>2, <1>3 DEF Measure

LEMMA SumSame ==
    ASSUME NEW f, NEW g, NEW S, IsFiniteSet(S), \A x \in S : f[x] \in Int /\ g[x] = f[x]
    PROVE  SumOver(g, S) = SumOver(f, S)
<1>1. PICK m : Measure(m, S, f)
  BY MeasureExists
<1>2. Measure(m, S, g)
  <2>1. m \in [SUBSET S -> Int] /\ m[{}] = 0 /\ \A T \in SUBSET S : \A x \in T : m[T] = f[x] + m[T \ {x}]
    BY <1>1 DEF Measure
  <2>2. \A T \in SUBSET S : \A x \in T : g[x] = f[x]
    OBVIOUS
  <2>3. \A T \in SUBSET S : \A x \in T : m[T] = g[x] + m[T \ {x}]
    BY <2>1, <2>2
  <2> QED BY <2>1, <2>3 DEF Measure
<1>3. SumOver(f, S) = m[S]
  BY <1>1, SumIsMeasure
<1>4. SumOver(g, S) = m[S]
  BY <1>2, SumIsMeasure
<1> QED BY <1>3, <1>4

LEMMA SumAdds ==
    ASSUME NEW f, NEW T, NEW U, IsFiniteSet(T), IsFiniteSet(U), T \cap U = {},
           \A x \in T \union U : f[x] \in Int
    PROVE  /\ SumOver(f, T) \in Int /\ SumOver(f, U) \in Int
           /\ SumOver(f, T \union U) = SumOver(f, T) + SumOver(f, U)
<1>1. PICK S : S = T \union U
  OBVIOUS
<1>2. IsFiniteSet(S) /\ T \in SUBSET S /\ U \in SUBSET S /\ \A x \in S : f[x] \in Int
  BY <1>1, FS_Union
<1>3. PICK m : Measure(m, S, f)
  BY <1>2, MeasureExists
<1>4. m[S] = m[T] + m[U]
  BY <1>1, <1>2, <1>3, MeasureAdds
<1>5. SumOver(f, S) = m[S]
  BY <1>2, <1>3, SumIsMeasure
<1>6. SumOver(f, T) = m[T]
  BY <1>2, <1>3, SumIsMeasure
<1>7. SumOver(f, U) = m[U]
  BY <1>2, <1>3, SumIsMeasure
<1>8. m[T] \in Int /\ m[U] \in Int
  BY <1>2, <1>3 DEF Measure
<1> QED BY <1>1, <1>4, <1>5, <1>6, <1>7, <1>8

LEMMA SumSingle ==
    ASSUME NEW f, NEW x, f[x] \in Int
    PROVE  SumOver(f, {x}) = f[x]
<1>1. IsFiniteSet({x}) /\ \A y \in {x} : f[y] \in Int
  BY FS_Singleton
<1>2. PICK m : Measure(m, {x}, f)
  BY <1>1, MeasureExists
<1>3. SumOver(f, {x}) = m[{x}]
  BY <1>1, <1>2, SumIsMeasure
<1>4. m[{x}] = f[x] + m[{x} \ {x}] /\ m[{}] = 0
  BY <1>2 DEF Measure
<1>5. {x} \ {x} = {}
  OBVIOUS
<1> QED BY <1>3, <1>4, <1>5

(* The ascending sequence of a set of numbers.                             *)
LEMMA NthFacts ==
  ASSUME NEW S, IsFiniteSet(S), S \subseteq Int
  PROVE  /\ Cardinality(S) \in Nat
         /\ \A j \in 1 .. Cardinality(S) : Nth(S, j) \in S /\ Cardinality({h \in S : h <= Nth(S, j)}) = j
         /\ \A i \in S : Cardinality({h \in S : h <= i}) \in 1 .. Cardinality(S)
         /\ \A i, j \in S : i < j => Cardinality({h \in S : h <= i}) < Cardinality({h \in S : h <= j})
PROOF
  <1> DEFINE rank == [i \in S |-> Cardinality({h \in S : h <= i})]
             n == Cardinality(S)
  <1>1. n \in Nat /\ IsFiniteSet(1 .. n) /\ Cardinality(1 .. n) = n
    <2>1. n \in Nat  BY FS_CardinalityType
    <2>2. IsFiniteSet(1 .. n) /\ Cardinality(1 .. n) = IF 1 > n THEN 0 ELSE n - 1 + 1  BY <2>1, FS_Interval
    <2> QED  BY <2>1, <2>2
  <1>2. ASSUME NEW i \in S
        PROVE  IsFiniteSet({h \in S : h <= i}) /\ Cardinality({h \in S : h <= i}) \in 1 .. n
    <2> DEFINE T == {h \in S : h <= i}
    <2>1. IsFiniteSet(T) /\ Cardinality(T) <= n  BY FS_Subset
    <2>2. i \in T  OBVIOUS
    <2>3. Cardinality(T) \in Nat /\ Cardinality(T) # 0  BY <2>1, <2>2, FS_CardinalityType, FS_EmptySet
    <2> HIDE DEF T
    <2>4. Cardinality(T) \in 1 .. n  BY <1>1, <2>1, <2>3
    <2> QED  BY <2>1, <2>4 DEF T
  <1>3. ASSUME NEW i \in S, NEW j \in S, i < j
        PROVE  Cardinality({h \in S : h <= i}) < Cardinality({h \in S : h <= j})
    <2> DEFINE T == {h \in S : h <= i}
               U == {h \in S : h <= j}
    <2>1. T \subseteq U /\ j \in U /\ j \notin T
      <3>1. \A h \in S : h <= i => h <= j  BY <1>3
      <3>2. j <= j /\ ~(j <= i)  BY <1>3
      <3> QED  BY <3>1, <3>2
    <2>2. IsFiniteSet(U) /\ Cardinality(T) \in 1 .. n /\ Cardinality(U) \in 1 .. n  BY <1>2
    <2> HIDE DEF T, U
    <2>3. Cardinality(T) <= Cardinality(U) /\ Cardinality(T) # Cardinality(U)  BY <2>1, <2>2, FS_Subset
    <2>4. Cardinality(T) < Cardinality(U)  BY <2>2, <2>3
    <2> QED  BY <2>4 DEF T, U
  <1>4. \A i, j \in S : Cardinality({h \in S : h <= i}) = Cardinality({h \in S : h <= j}) => i = j
    <2> SUFFICES ASSUME NEW i \in S, NEW j \in S, i # j
                 PROVE  Cardinality({h \in S : h <= i}) # Cardinality({h \in S : h <= j})
      OBVIOUS
    <2>1. i < j \/ j < i  OBVIOUS
    <2>2. \A x, y \in Nat : x < y => x # y /\ y # x  OBVIOUS
    <2>3. Cardinality({h \in S : h <= i}) \in Nat /\ Cardinality({h \in S : h <= j}) \in Nat  BY <1>2
    <2> QED  BY <1>3, <2>1, <2>2, <2>3
  <1>5. rank \in Injection(S, 1 .. n)  BY <1>2, <1>4 DEF Injection, IsInjective
  <1>6. rank \in Surjection(S, 1 .. n)
    <2> HIDE DEF rank
    <2> QED  BY <1>1, <1>5, FS_Injection
  <1>7. \A j \in 1 .. n : \E i \in S : Cardinality({h \in S : h <= i}) = j  BY <1>6 DEF Surjection
  <1>8. \A j \in 1 .. n : Nth(S, j) \in S /\ Cardinality({h \in S : h <= Nth(S, j)}) = j  BY <1>7 DEF Nth
  <1> QED  BY <1>1, <1>2, <1>3, <1>8

LEMMA AscendingFacts ==
  ASSUME NEW S, IsFiniteSet(S), S \subseteq Int
  PROVE  Lists(Ascending(S), S) /\ Len(Ascending(S)) = Cardinality(S)
PROOF
  <1> DEFINE n == Cardinality(S)
             s == Ascending(S)
  <1>1. /\ n \in Nat
        /\ \A j \in 1 .. n : Nth(S, j) \in S /\ Cardinality({h \in S : h <= Nth(S, j)}) = j
        /\ \A i \in S : Cardinality({h \in S : h <= i}) \in 1 .. n
        /\ \A i, j \in S : i < j => Cardinality({h \in S : h <= i}) < Cardinality({h \in S : h <= j})
    BY NthFacts
  <1>2. s = [j \in 1 .. n |-> Nth(S, j)]  BY DEF Ascending
  <1> HIDE DEF s, n
  <1>3. s \in Seq(S) /\ DOMAIN s = 1 .. n /\ Len(s) = n /\ \A j \in 1 .. n : s[j] = Nth(S, j)
    <2>1. DOMAIN s = 1 .. n /\ s \in [1 .. n -> S]  BY <1>1, <1>2
    <2> QED  BY <1>1, <1>2, <2>1
  <1>4. ASSUME NEW i \in DOMAIN s, NEW j \in DOMAIN s, s[i] = s[j] PROVE i = j
    <2>1. PICK x \in S : x = Nth(S, i) /\ Cardinality({h \in S : h <= x}) = i  BY <1>1, <1>3
    <2>2. PICK y \in S : y = Nth(S, j) /\ Cardinality({h \in S : h <= y}) = j  BY <1>1, <1>3
    <2>3. x = y  BY <1>3, <1>4, <2>1, <2>2
    <2> QED  BY <2>1, <2>2, <2>3
  <1>5. ASSUME NEW c \in S PROVE \E i \in DOMAIN s : s[i] = c
    <2>1. PICK i : i = Cardinality({h \in S : h <= c}) /\ i \in 1 .. n  BY <1>1
    <2>2. PICK d \in S : d = Nth(S, i) /\ Cardinality({h \in S : h <= d}) = i  BY <1>1, <2>1
    <2>3. ~(d < c) /\ ~(c < d)
      <3>1. \A j \in 1 .. n : ~(j < j)  BY <1>1
      <3> QED  BY <1>1, <2>1, <2>2, <3>1
    <2>4. d = c  BY <2>3
    <2> QED  BY <1>3, <2>1, <2>2, <2>4
  <1> QED  BY <1>3, <1>4, <1>5 DEF Lists, s, n

-----------------------------------------------------------------------------
(* What the settings are.                                                  *)
LEMMA SettingFacts ==
  ASSUME setting \in Settings
  PROVE  /\ setting.all \in BOOLEAN /\ setting.surfs \subseteq Cells
         /\ setting.script \in Seq(Calls) /\ setting.layouts \subseteq Owners
         /\ Follows(setting.script, "compute", "receive") /\ Follows(setting.script, "contribute", "collate")
         /\ ~setting.all => \A i, j \in DOMAIN setting.script :
              i < j /\ setting.script[i] = "tally" /\ setting.script[j] = "balance" =>
                  \E m \in i .. j : setting.script[m] = "collate"
PROOF
  <1>1. setting \in [all : BOOLEAN, surfs : SUBSET Cells, script : Seq(Calls),
                     collate : {"array", "vector"}, layouts : SUBSET [Cells -> Proc]]
    BY SettingsAssumption
  <1>2. setting.all \in BOOLEAN /\ setting.surfs \subseteq Cells
        /\ setting.script \in Seq(Calls) /\ setting.layouts \subseteq Owners
    BY <1>1 DEF Owners
  <1> QED  BY <1>2, ScriptsAssumption

(* How often a call was made.                                              *)
LEMMA BeforeStep ==
  ASSUME setting.script \in Seq(Calls), NEW call
  PROVE  /\ Before(1, call) = 0
         /\ \A n \in Nat : Before(n, call) \in Nat
         /\ \A n \in DOMAIN setting.script :
              Before(n + 1, call) = Before(n, call) + (IF setting.script[n] = call THEN 1 ELSE 0)
PROOF
  <1> DEFINE S(n) == {k \in 1 .. n - 1 : setting.script[k] = call}
  <1>1. \A n : Before(n, call) = Cardinality(S(n))  BY DEF Before
  <1>2. ASSUME NEW n \in Nat PROVE IsFiniteSet(S(n)) /\ Cardinality(S(n)) \in Nat
    <2>1. IsFiniteSet(1 .. n - 1)  BY FS_Interval
    <2>2. IsFiniteSet(S(n))  BY <2>1, FS_Subset
    <2> QED  BY <2>2, FS_CardinalityType
  <1>3. S(1) = {}  OBVIOUS
  <1>4. ASSUME NEW n \in DOMAIN setting.script
        PROVE Cardinality(S(n + 1)) = Cardinality(S(n)) + (IF setting.script[n] = call THEN 1 ELSE 0)
    <2>1. n \in Nat /\ n >= 1  OBVIOUS
    <2>2. n \notin S(n) /\ IsFiniteSet(S(n)) /\ Cardinality(S(n)) \in Nat
      <3>1. n \notin 1 .. n - 1  BY <2>1
      <3>2. n \notin S(n)  BY <3>1
      <3> HIDE DEF S
      <3> QED  BY <1>2, <2>1, <3>2
    <2>3. CASE setting.script[n] = call
      <3>1. S(n + 1) = S(n) \union {n}  BY <2>1, <2>3
      <3> HIDE DEF S
      <3> QED  BY <2>2, <2>3, <3>1, FS_AddElement
    <2>4. CASE setting.script[n] # call
      <3>1. S(n + 1) = S(n)  BY <2>1, <2>4
      <3> HIDE DEF S
      <3> QED  BY <2>2, <2>4, <3>1
    <2> QED  BY <2>3, <2>4
  <1> HIDE DEF S
  <1> QED  BY <1>1, <1>2, <1>3, <1>4, FS_EmptySet

LEMMA BeforeGrows ==
  ASSUME setting.script \in Seq(Calls), NEW call, NEW m \in Nat, NEW n \in Nat, m <= n
  PROVE  /\ Before(m, call) <= Before(n, call)
         /\ m < n /\ m \in DOMAIN setting.script /\ setting.script[m] = call => Before(m, call) < Before(n, call)
PROOF
  <1> DEFINE S(i) == {k \in 1 .. i - 1 : setting.script[k] = call}
  <1>1. ASSUME NEW i \in Nat, NEW j \in Nat, i <= j PROVE Before(i, call) <= Before(j, call)
    <2>1. IsFiniteSet(1 .. j - 1)  BY FS_Interval
    <2>2. IsFiniteSet(S(j))  BY <2>1, FS_Subset
    <2>3. S(i) \subseteq S(j)  BY <1>1
    <2>4. Before(i, call) = Cardinality(S(i)) /\ Before(j, call) = Cardinality(S(j))  BY DEF Before
    <2> HIDE DEF S
    <2> QED  BY <2>2, <2>3, <2>4, FS_Subset
  <1>2. ASSUME m < n, m \in DOMAIN setting.script, setting.script[m] = call PROVE Before(m, call) < Before(n, call)
    <2>1. Before(m + 1, call) = Before(m, call) + 1  BY <1>2, BeforeStep
    <2>2. m + 1 \in Nat /\ m + 1 <= n  BY <1>2
    <2>3. Before(m + 1, call) <= Before(n, call)  BY <1>1, <2>2
    <2>4. Before(m, call) \in Nat /\ Before(n, call) \in Nat  BY BeforeStep
    <2> QED  BY <2>1, <2>3, <2>4
  <1> QED  BY <1>1, <1>2

(* Of two calls that follow each other one is behind only in between.      *)
LEMMA BeforePaired ==
  ASSUME setting.script \in Seq(Calls), NEW a, NEW b, Follows(setting.script, a, b), a # b,
         NEW n \in 1 .. Len(setting.script) + 1
  PROVE  Before(n, a) = Before(n, b) + (IF n \in DOMAIN setting.script /\ setting.script[n] = b THEN 1 ELSE 0)
PROOF
  <1> DEFINE Script == setting.script
             Odd(i) == IF i \in DOMAIN Script /\ Script[i] = b THEN 1 ELSE 0
             Bad == {i \in 1 .. Len(Script) + 1 : Before(i, a) # Before(i, b) + Odd(i)}
  <1>1. SUFFICES ASSUME Bad # {} PROVE FALSE  OBVIOUS
  <1>2. PICK i \in Bad : \A j \in Bad : i <= j
    <2>1. Bad \subseteq Nat  OBVIOUS
    <2> HIDE DEF Bad
    <2> QED  BY <1>1, <2>1, LeastNat
  <1>3. i \in 1 .. Len(Script) + 1 /\ Before(i, a) # Before(i, b) + Odd(i)  OBVIOUS
  <1>4. DOMAIN Script = 1 .. Len(Script) /\ Len(Script) \in Nat  OBVIOUS
  <1>5. CASE i = 1
    <2>1. Before(1, a) = 0 /\ Before(1, b) = 0  BY BeforeStep
    <2>2. ~(1 \in DOMAIN Script /\ Script[1] = b)  BY <1>4 DEF Follows
    <2> QED  BY <1>3, <1>5, <2>1, <2>2
  <1>6. CASE i # 1
    <2>1. i - 1 \in DOMAIN Script /\ (i - 1) + 1 = i /\ i - 1 \in 1 .. Len(Script) + 1 /\ ~(i <= i - 1)
      BY <1>3, <1>4, <1>6
    <2>2. i - 1 \notin Bad  BY <1>2, <2>1
    <2>3. Before(i - 1, a) = Before(i - 1, b) + Odd(i - 1)  BY <2>1, <2>2
    <2>4. /\ Before(i, a) = Before(i - 1, a) + (IF Script[i - 1] = a THEN 1 ELSE 0)
          /\ Before(i, b) = Before(i - 1, b) + (IF Script[i - 1] = b THEN 1 ELSE 0)
          /\ Before(i - 1, b) \in Nat
      <3>1. i - 1 \in Nat  BY <2>1
      <3>2. \A c : Before((i - 1) + 1, c) = Before(i - 1, c) + (IF Script[i - 1] = c THEN 1 ELSE 0)
        BY <2>1, BeforeStep
      <3> QED  BY <2>1, <3>1, <3>2, BeforeStep
    <2>5. (i \in DOMAIN Script /\ Script[i] = b) <=> Script[i - 1] = a
      BY <2>1 DEF Follows
    <2> QED  BY <1>3, <2>1, <2>3, <2>4, <2>5
  <1> QED  BY <1>5, <1>6

LEMMA TimesBefore == \A p, call : Times(p, call) = Before(at[p], call)
PROOF
  BY DEF Times, Before

-----------------------------------------------------------------------------
(* Arrays of cells and their hashes.                                       *)
LEMMA IndexFacts ==
  ASSUME NEW S, NEW s \in Seq(S), \A i, j \in DOMAIN s : s[i] = s[j] => i = j
  PROVE  /\ \A k \in DOMAIN s : Index(s, s[k]) = k
         /\ \A c : Index(s, c) # 0 => Index(s, c) \in DOMAIN s /\ s[Index(s, c)] = c
         /\ \A c : Index(s, c) \in 0 .. Len(s)
PROOF
  <1>1. DOMAIN s = 1 .. Len(s) /\ Len(s) \in Nat  OBVIOUS
  <1>2. ASSUME NEW k \in DOMAIN s PROVE Index(s, s[k]) = k
    <2>1. \E j \in DOMAIN s : s[j] = s[k]  OBVIOUS
    <2>2. PICK j \in DOMAIN s : j = Index(s, s[k]) /\ s[j] = s[k]  BY <2>1 DEF Index
    <2> QED  BY <2>2
  <1>3. ASSUME NEW c, Index(s, c) # 0 PROVE Index(s, c) \in DOMAIN s /\ s[Index(s, c)] = c
    BY <1>3 DEF Index
  <1>4. \A c : Index(s, c) \in 0 .. Len(s)
    <2> TAKE c
    <2>1. CASE Index(s, c) = 0  BY <1>1, <2>1
    <2>2. CASE Index(s, c) # 0  BY <1>1, <1>3, <2>2
    <2> QED  BY <2>1, <2>2
  <1> QED  BY <1>2, <1>3, <1>4

(* The owners are those in whose arrays the cells are.                     *)
OwnerIn(own) == [c \in Cells |-> CHOOSE p \in Proc : Index(own[p], c) # 0]

LEMMA OwnerIs ==
  ASSUME NEW owner \in Owners, NEW own, \A p \in Proc : Lists(own[p], {c \in Cells : owner[c] = p})
  PROVE  OwnerIn(own) = owner
PROOF
  <1>1. ASSUME NEW c \in Cells, NEW p \in Proc PROVE Index(own[p], c) # 0 <=> owner[c] = p
    <2> DEFINE S == {d \in Cells : owner[d] = p}
    <2>1. Lists(own[p], S)  OBVIOUS
    <2>2. own[p] \in Seq(S) /\ (\A i, j \in DOMAIN own[p] : own[p][i] = own[p][j] => i = j)
          /\ (\A d \in S : \E i \in DOMAIN own[p] : own[p][i] = d)
      <3> HIDE DEF S
      <3> QED  BY <2>1 DEF Lists
    <2>3. c \in S <=> owner[c] = p  OBVIOUS
    <2>4. \A i \in DOMAIN own[p] : own[p][i] \in S /\ i # 0
      <3> HIDE DEF S
      <3> QED  BY <2>2
    <2> HIDE DEF S
    <2>5. Index(own[p], c) # 0 => c \in S
      BY <2>2, <2>4, IndexFacts
    <2>6. c \in S => Index(own[p], c) # 0
      <3> SUFFICES ASSUME c \in S PROVE Index(own[p], c) # 0  OBVIOUS
      <3>1. PICK i \in DOMAIN own[p] : own[p][i] = c  BY <2>2
      <3>2. Index(own[p], own[p][i]) = i  BY <2>2, IndexFacts
      <3> QED  BY <2>4, <3>1, <3>2
    <2> QED  BY <2>3, <2>5, <2>6
  <1>2. ASSUME NEW c \in Cells PROVE (CHOOSE p \in Proc : Index(own[p], c) # 0) = owner[c]
    <2>1. owner[c] \in Proc  BY DEF Owners
    <2> QED  BY <1>1, <2>1
  <1>3. owner = [c \in Cells |-> owner[c]]  BY DEF Owners
  <1> QED  BY <1>2, <1>3 DEF OwnerIn

-----------------------------------------------------------------------------
(* Which cells are ghosts.                                                 *)
LEMMA HaloFacts ==
  ASSUME NEW owner, NEW p, NEW c, setting.all \in BOOLEAN
  PROVE  /\ owner[c] = p => HaloNow(owner, p, c) = "owned"
         /\ owner[c] # p => HaloNow(owner, p, c) \in {"full", "empty", "unknown"}
         /\ setting.all /\ owner[c] # p => HaloNow(owner, p, c) = "full"
PROOF
  <1>1. Halo(owner, p, c) = "owned" <=> owner[c] = p
    BY DEF Halo
  <1>2. Halo(owner, p, c) \in {"owned", "full", "empty", "unknown"}
    BY DEF Halo
  <1>3. All!Halo(owner, p, c) = IF owner[c] = p THEN "owned" ELSE "full"
    BY DEF All!Halo
  <1> QED  BY <1>1, <1>2, <1>3 DEF HaloNow

(* Whoever is sent a cell has a ghost of it.                               *)
LEMMA SentIsGhost ==
  ASSUME setting.all \in BOOLEAN, NEW owner \in Owners, NEW p \in Proc, NEW c \in Cells, SentTo(owner, p, c)
  PROVE  owner[c] # p /\ HaloNow(owner, p, c) \in {"full", "empty"}
PROOF
  <1>1. owner[c] # p  BY DEF SentTo
  <1>2. CASE setting.all  BY <1>1, <1>2, HaloFacts
  <1>3. CASE ~setting.all
    <2>1. Known(owner, p, c)  BY SentCellsAreKnown DEF SentAreKnown
    <2>2. HaloNow(owner, p, c) = Halo(owner, p, c)  BY <1>3 DEF HaloNow
    <2> QED  BY <1>1, <2>1, <2>2, HaloFacts DEF Known
  <1> QED  BY <1>1, <1>2, <1>3

LEMMA CellsFinite == IsFiniteSet(Cells) /\ Cells \subseteq Int /\ \A S : S \subseteq Cells => IsFiniteSet(S) /\ S \subseteq Int
PROOF
  <1>1. NCells \in Nat /\ Cells = 1 .. NCells  BY SizesAssumption DEF Cells
  <1>2. IsFiniteSet(1 .. NCells)  BY <1>1, FS_Interval
  <1>3. IsFiniteSet(Cells) /\ Cells \subseteq Int  BY <1>1, <1>2
  <1> QED  BY <1>3, FS_Subset

LEMMA ProcsFinite == IsFiniteSet(Proc) /\ Proc \subseteq Nat /\ Proc # {}
PROOF
  <1>1. NProcs \in Nat /\ NProcs >= 1 /\ Proc = 0 .. NProcs - 1  BY SizesAssumption DEF Proc
  <1>2. IsFiniteSet(0 .. NProcs - 1)  BY <1>1, FS_Interval
  <1>3. 0 \in Proc  BY <1>1
  <1> QED  BY <1>1, <1>2, <1>3

LEMMA GhostsFacts ==
  ASSUME NEW owner, NEW p
  PROVE  Lists(GhostsOf(owner, p), {c \in Cells : HaloNow(owner, p, c) \in {"full", "empty"}})
PROOF
  <1>1. PICK S : S = {c \in Cells : HaloNow(owner, p, c) \in {"full", "empty"}}  OBVIOUS
  <1>2. IsFiniteSet(S) /\ S \subseteq Int  BY <1>1, CellsFinite
  <1>3. Lists(Ascending(S), S)  BY <1>2, AscendingFacts
  <1> QED  BY <1>1, <1>3 DEF GhostsOf

(* The own cells come first, ghosts follow, and no cell is there twice.    *)
LEMMA ArrayFacts ==
  ASSUME setting.all \in BOOLEAN, NEW owner \in Owners, NEW p \in Proc, NEW own,
         Lists(own, {c \in Cells : owner[c] = p}), NEW array, array = Array(own, GhostsOf(owner, p))
  PROVE  /\ array \in Seq(Cells) /\ \A i, j \in DOMAIN array : array[i] = array[j] => i = j
         /\ Len(own) \in Nat /\ DOMAIN own = 1 .. Len(own) /\ DOMAIN own \subseteq DOMAIN array
         /\ \A k \in DOMAIN own : array[k] = own[k] /\ own[k] \in Cells /\ owner[own[k]] = p
         /\ \A k \in DOMAIN array : k <= Len(own) <=> owner[array[k]] = p
         /\ \A k \in DOMAIN array : k <= Len(own) => k \in DOMAIN own
         /\ \A k \in DOMAIN array : k > Len(own) => HaloNow(owner, p, array[k]) \in {"full", "empty"}
         /\ \A c \in Cells : HaloNow(owner, p, c) \in {"full", "empty", "owned"} =>
              \E k \in DOMAIN array : array[k] = c
PROOF
  <1>1. PICK G : G = GhostsOf(owner, p)  OBVIOUS
  <1>2. PICK S : S = {c \in Cells : owner[c] = p}  OBVIOUS
  <1>3. PICK T : T = {c \in Cells : HaloNow(owner, p, c) \in {"full", "empty"}}  OBVIOUS
  <1>4. /\ own \in Seq(S) /\ (\A i, j \in DOMAIN own : own[i] = own[j] => i = j)
        /\ \A c \in S : \E i \in DOMAIN own : own[i] = c
    BY <1>2 DEF Lists
  <1>5. /\ G \in Seq(T) /\ (\A i, j \in DOMAIN G : G[i] = G[j] => i = j)
        /\ \A c \in T : \E i \in DOMAIN G : G[i] = c
    <2>1. Lists(G, T)  BY <1>1, <1>3, GhostsFacts
    <2> QED  BY <2>1 DEF Lists
  <1>6. S \subseteq Cells /\ T \subseteq Cells /\ \A c \in Cells : c \in S <=> owner[c] = p  BY <1>2, <1>3
  <1>7. \A c \in T : owner[c] # p /\ HaloNow(owner, p, c) \in {"full", "empty"}
    BY <1>3, HaloFacts
  <1>8. PICK m \in Nat, n \in Nat : m = Len(own) /\ n = Len(G) /\ DOMAIN own = 1 .. m /\ DOMAIN G = 1 .. n
    BY <1>4, <1>5
  <1>9. /\ array \in Seq(Cells) /\ DOMAIN array = 1 .. m + n
        /\ \A k \in 1 .. m : array[k] = own[k] /\ own[k] \in S
        /\ \A k \in 1 .. n : array[m + k] = G[k] /\ G[k] \in T /\ m + k \in 1 .. m + n
    <2>1. array = own \o G  BY <1>1 DEF Array
    <2>2. own \in Seq(Cells) /\ G \in Seq(Cells)  BY <1>4, <1>5, <1>6
    <2>3. array \in Seq(Cells) /\ Len(array) = m + n  BY <1>8, <2>1, <2>2
    <2>4. DOMAIN array = 1 .. m + n  BY <2>3
    <2>5. \A k \in 1 .. m : own[k] \in S  BY <1>4, <1>8
    <2>6. \A k \in 1 .. n : G[k] \in T  BY <1>5, <1>8
    <2>7. \A k \in 1 .. m : array[k] = own[k]  BY <1>8, <2>1, <2>2
    <2>8. \A k \in 1 .. n : array[m + k] = G[k] /\ m + k \in 1 .. m + n  BY <1>8, <2>1, <2>2
    <2> QED  BY <2>3, <2>4, <2>5, <2>6, <2>7, <2>8
  <1>10. \A k \in 1 .. m + n : k \in 1 .. m \/ (k > m /\ k - m \in 1 .. n /\ m + (k - m) = k)  BY <1>8
  <1>11. \A k \in 1 .. m + n : k <= m => array[k] = own[k] /\ own[k] \in S /\ owner[array[k]] = p
    BY <1>2, <1>9, <1>10
  <1>12. \A k \in 1 .. m + n : k > m => array[k] = G[k - m] /\ array[k] \in T /\ owner[array[k]] # p
    BY <1>7, <1>9, <1>10
  <1>13. \A k \in 1 .. m + n : k <= m <=> owner[array[k]] = p  BY <1>11, <1>12
  <1>14. ASSUME NEW i \in 1 .. m + n, NEW j \in 1 .. m + n, array[i] = array[j] PROVE i = j
    <2>1. CASE i <= m
      <3>1. j <= m  BY <1>13, <1>14, <2>1
      <3>2. i \in DOMAIN own /\ j \in DOMAIN own  BY <1>8, <2>1, <3>1
      <3> QED  BY <1>4, <1>11, <1>14, <2>1, <3>1, <3>2
    <2>2. CASE i > m
      <3>1. j > m  BY <1>13, <1>14, <2>2
      <3>2. i - m \in DOMAIN G /\ j - m \in DOMAIN G  BY <1>8, <2>2, <3>1
      <3>3. i - m = j - m  BY <1>5, <1>12, <1>14, <2>2, <3>1, <3>2
      <3> QED  BY <3>3
    <2> QED  BY <2>1, <2>2
  <1>15. ASSUME NEW c \in Cells, HaloNow(owner, p, c) \in {"full", "empty", "owned"}
         PROVE  \E k \in 1 .. m + n : array[k] = c
    <2>1. CASE owner[c] = p
      <3>1. PICK k \in 1 .. m : own[k] = c  BY <1>4, <1>6, <1>8, <2>1
      <3>2. k \in 1 .. m + n  OBVIOUS
      <3> QED  BY <1>9, <3>1, <3>2
    <2>2. CASE owner[c] # p
      <3>1. c \in T  BY <1>3, <1>15, <2>2, HaloFacts
      <3>2. PICK k \in 1 .. n : G[k] = c  BY <1>5, <1>8, <3>1
      <3> QED  BY <1>9, <3>2
    <2> QED  BY <2>1, <2>2
  <1>16. \A k \in 1 .. m + n : k <= m => k \in 1 .. m  OBVIOUS
  <1>17. \A k \in 1 .. m : k \in 1 .. m + n /\ k <= m  OBVIOUS
  <1>18. DOMAIN array = 1 .. m + n /\ DOMAIN own = 1 .. m /\ Len(own) = m  BY <1>8, <1>9
  <1>19. /\ array \in Seq(Cells) /\ \A i, j \in DOMAIN array : array[i] = array[j] => i = j
    BY <1>9, <1>14, <1>18
  <1>20. Len(own) \in Nat /\ DOMAIN own = 1 .. Len(own) /\ DOMAIN own \subseteq DOMAIN array
    BY <1>17, <1>18
  <1>21. \A k \in DOMAIN own : array[k] = own[k] /\ own[k] \in Cells /\ owner[own[k]] = p
    BY <1>6, <1>9, <1>18
  <1>22. \A k \in DOMAIN array : k <= Len(own) <=> owner[array[k]] = p  BY <1>13, <1>18
  <1>23. \A k \in DOMAIN array : k <= Len(own) => k \in DOMAIN own  BY <1>16, <1>18
  <1>24. \A k \in DOMAIN array : k > Len(own) => HaloNow(owner, p, array[k]) \in {"full", "empty"}
    BY <1>7, <1>12, <1>18
  <1>25. \A c \in Cells : HaloNow(owner, p, c) \in {"full", "empty", "owned"} =>
              \E k \in DOMAIN array : array[k] = c
    BY <1>15, <1>18
  <1> QED  BY <1>19, <1>20, <1>21, <1>22, <1>23, <1>24, <1>25

-----------------------------------------------------------------------------
(* Which indices are sent and where they are put.                          *)
Fits(owner, own, q, p, send, recv, array) ==
  /\ send \in Seq(DOMAIN own[q]) /\ DOMAIN recv = DOMAIN send /\ (recv = <<>> <=> send = <<>>)
  /\ \A k \in DOMAIN send :
       /\ send[k] \in DOMAIN own[q] /\ own[q][send[k]] \in Cells
       /\ SentTo(owner, p, own[q][send[k]])
       /\ recv[k] \in DOMAIN array /\ array[recv[k]] = own[q][send[k]] /\ recv[k] > Len(own[p])
  /\ \A k \in DOMAIN own[q] : SentTo(owner, p, own[q][k]) => \E j \in DOMAIN send : send[j] = k

LEMMA ListsFacts ==
  ASSUME setting.all \in BOOLEAN, NEW owner \in Owners,
         NEW own, \A p \in Proc : Lists(own[p], {c \in Cells : owner[c] = p}),
         NEW q \in Proc, NEW p \in Proc
  PROVE  Fits(owner, own, q, p, SendLists(owner, own)[q][p], RecvLists(owner, own)[p][q],
              Array(own[p], GhostsOf(owner, p)))
PROOF
  <1>0. PICK send, recv, array : /\ send = SendLists(owner, own)[q][p] /\ recv = RecvLists(owner, own)[p][q]
                                 /\ array = Array(own[p], GhostsOf(owner, p))
    OBVIOUS
  <1>1. PICK S : S = {k \in DOMAIN own[q] : SentTo(owner, p, own[q][k])}  OBVIOUS
  <1>2. send = Ascending(S)
    BY <1>0, <1>1 DEF SendLists, ListFor
  <1>3. PICK ids : ids = [k \in DOMAIN send |-> own[q][send[k]]]  OBVIOUS
  <1>4. recv = [k \in DOMAIN ids |-> Index(array, ids[k])]
    <2>1. PICK l : l = ListFor(owner, own[q], p)  OBVIOUS
    <2>2. send = l  BY <1>0, <2>1 DEF SendLists
    <2>3. recv = LET i == [k \in DOMAIN l |-> own[q][l[k]]] IN [k \in DOMAIN i |-> Index(array, i[k])]
      BY <1>0, <2>1 DEF RecvLists
    <2> QED  BY <1>3, <2>2, <2>3
  <1>5. /\ own[q] \in Seq(Cells) /\ \A k \in DOMAIN own[q] : own[q][k] \in Cells
        /\ IsFiniteSet(DOMAIN own[q]) /\ DOMAIN own[q] \subseteq Int
    <2>1. PICK C : C = {c \in Cells : owner[c] = q}  OBVIOUS
    <2>2. Lists(own[q], C) /\ C \subseteq Cells  BY <2>1
    <2>3. own[q] \in Seq(C)  BY <2>2 DEF Lists
    <2>4. DOMAIN own[q] = 1 .. Len(own[q]) /\ Len(own[q]) \in Nat  BY <2>3
    <2>5. IsFiniteSet(1 .. Len(own[q]))  BY <2>4, FS_Interval
    <2> QED  BY <2>2, <2>3, <2>4, <2>5
  <1>6. Lists(send, S)
    <2>1. IsFiniteSet(S) /\ S \subseteq Int  BY <1>1, <1>5, FS_Subset
    <2> QED  BY <1>2, <2>1, AscendingFacts
  <1>7. send \in Seq(S) /\ \A k \in S : \E j \in DOMAIN send : send[j] = k  BY <1>6 DEF Lists
  <1>8. \A k \in S : k \in DOMAIN own[q] /\ SentTo(owner, p, own[q][k])  BY <1>1
  <1>9. DOMAIN ids = DOMAIN send /\ DOMAIN recv = DOMAIN send
        /\ \A k \in DOMAIN send : ids[k] = own[q][send[k]] /\ recv[k] = Index(array, ids[k])
    BY <1>3, <1>4
  <1>10. /\ array \in Seq(Cells) /\ \A i, j \in DOMAIN array : array[i] = array[j] => i = j
         /\ \A k \in DOMAIN array : k <= Len(own[p]) <=> owner[array[k]] = p
         /\ Len(own[p]) \in Nat
         /\ \A c \in Cells : HaloNow(owner, p, c) \in {"full", "empty", "owned"} =>
              \E k \in DOMAIN array : array[k] = c
    <2>1. PICK mine0 : mine0 = own[p]  OBVIOUS
    <2>2. Lists(mine0, {c \in Cells : owner[c] = p})  BY <2>1
    <2>3. array = Array(mine0, GhostsOf(owner, p))  BY <1>0, <2>1
    <2> QED  BY <2>1, <2>2, <2>3, ArrayFacts
  <1>11. ASSUME NEW k \in DOMAIN send
         PROVE  /\ send[k] \in DOMAIN own[q] /\ own[q][send[k]] \in Cells
                /\ SentTo(owner, p, own[q][send[k]])
                /\ recv[k] \in DOMAIN array /\ array[recv[k]] = own[q][send[k]] /\ recv[k] > Len(own[p])
    <2>1. PICK c : c = own[q][send[k]]  OBVIOUS
    <2>2. send[k] \in S  BY <1>7
    <2>3. send[k] \in DOMAIN own[q] /\ c \in Cells /\ SentTo(owner, p, c)  BY <1>5, <1>8, <2>1, <2>2
    <2>4. owner[c] # p /\ HaloNow(owner, p, c) \in {"full", "empty"}  BY <2>3, SentIsGhost
    <2>5. PICK i \in DOMAIN array : array[i] = c  BY <1>10, <2>3, <2>4
    <2>6. recv[k] = i
      <3>1. Index(array, array[i]) = i  BY <1>10, IndexFacts
      <3> QED  BY <1>9, <2>1, <2>5, <3>1
    <2>7. i \in Nat /\ ~(i <= Len(own[p]))
      <3>1. DOMAIN array \subseteq Nat  BY <1>10
      <3> QED  BY <1>10, <2>4, <2>5, <3>1
    <2> QED  BY <1>10, <2>1, <2>2, <2>3, <2>5, <2>6, <2>7
  <1>12. send \in Seq(DOMAIN own[q])
    <2>1. S \subseteq DOMAIN own[q]  BY <1>8
    <2> QED  BY <1>7, <2>1
  <1>13. recv = <<>> <=> send = <<>>
    <2>1. send = <<>> <=> DOMAIN send = {}
      <3>1. DOMAIN send = 1 .. Len(send) /\ Len(send) \in Nat  BY <1>7
      <3>2. DOMAIN send = {} => Len(send) = 0
        <4>1. \A n \in Nat : n # 0 => 1 \in 1 .. n  OBVIOUS
        <4> QED  BY <3>1, <4>1
      <3>3. Len(send) = 0 => send = <<>>  BY <1>7, EmptySeq
      <3> QED  BY <3>2, <3>3
    <2>2. recv = <<>> <=> DOMAIN recv = {}
      <3>1. recv = [k \in DOMAIN recv |-> recv[k]]  BY <1>4
      <3>2. <<>> = [k \in {} |-> recv[k]]  OBVIOUS
      <3> QED  BY <3>1, <3>2
    <2> QED  BY <1>9, <2>1, <2>2
  <1>14. \A k \in DOMAIN own[q] : SentTo(owner, p, own[q][k]) => \E j \in DOMAIN send : send[j] = k
    BY <1>1, <1>7
  <1>15. Fits(owner, own, q, p, send, recv, array)  BY <1>9, <1>11, <1>12, <1>13, <1>14 DEF Fits
  <1> QED  BY <1>0, <1>15

-----------------------------------------------------------------------------
(* Listing one after the other, and what is listed elsewhere.              *)
LEMMA ListsJoin ==
  ASSUME NEW S, NEW T, NEW s, NEW t, Lists(s, S), Lists(t, T), S \cap T = {}
  PROVE  Lists(s \o t, S \union T)
PROOF
  <1>1. s \in Seq(S) /\ (\A i, j \in DOMAIN s : s[i] = s[j] => i = j) /\ \A c \in S : \E i \in DOMAIN s : s[i] = c
    BY DEF Lists
  <1>2. t \in Seq(T) /\ (\A i, j \in DOMAIN t : t[i] = t[j] => i = j) /\ \A c \in T : \E i \in DOMAIN t : t[i] = c
    BY DEF Lists
  <1>3. PICK m \in Nat, n \in Nat : m = Len(s) /\ n = Len(t) /\ DOMAIN s = 1 .. m /\ DOMAIN t = 1 .. n
    BY <1>1, <1>2
  <1>4. PICK U : U = S \union T  OBVIOUS
  <1>5. PICK u : u = s \o t  OBVIOUS
  <1>6. s \in Seq(U) /\ t \in Seq(U)  BY <1>1, <1>2, <1>4
  <1>7. u \in Seq(U) /\ DOMAIN u = 1 .. m + n
    <2>1. u \in Seq(U) /\ Len(u) = m + n  BY <1>3, <1>5, <1>6
    <2> QED  BY <2>1
  <1>8. \A i \in 1 .. m : u[i] = s[i] /\ s[i] \in S /\ i \in 1 .. m + n
    <2>1. \A i \in 1 .. m : s[i] \in S /\ i \in 1 .. m + n  BY <1>1, <1>3
    <2> QED  BY <1>3, <1>5, <1>6, <2>1
  <1>9. \A i \in 1 .. n : u[m + i] = t[i] /\ t[i] \in T /\ m + i \in 1 .. m + n
    <2>1. \A i \in 1 .. n : t[i] \in T /\ m + i \in 1 .. m + n  BY <1>2, <1>3
    <2> QED  BY <1>3, <1>5, <1>6, <2>1
  <1>10. \A i \in 1 .. m + n : i \in 1 .. m \/ (i - m \in 1 .. n /\ m + (i - m) = i)  OBVIOUS
  <1>11. ASSUME NEW i \in 1 .. m + n, NEW j \in 1 .. m + n, u[i] = u[j] PROVE i = j
    <2>1. CASE i \in 1 .. m /\ j \in 1 .. m  BY <1>1, <1>3, <1>8, <1>11, <2>1
    <2>2. CASE i - m \in 1 .. n /\ m + (i - m) = i /\ j - m \in 1 .. n /\ m + (j - m) = j
      <3>1. u[i] = t[i - m] /\ u[j] = t[j - m]  BY <1>9, <2>2
      <3>2. i - m = j - m  BY <1>2, <1>3, <1>11, <2>2, <3>1
      <3> QED  BY <3>2
    <2>3. CASE i \in 1 .. m /\ j - m \in 1 .. n /\ m + (j - m) = j
      BY <1>8, <1>9, <1>11, <2>3
    <2>4. CASE i - m \in 1 .. n /\ m + (i - m) = i /\ j \in 1 .. m
      BY <1>8, <1>9, <1>11, <2>4
    <2> QED  BY <1>10, <2>1, <2>2, <2>3, <2>4
  <1>12. ASSUME NEW c \in U PROVE \E i \in 1 .. m + n : u[i] = c
    <2>1. CASE c \in S
      <3>1. PICK i \in 1 .. m : s[i] = c  BY <1>1, <1>3, <2>1
      <3> QED  BY <1>8, <3>1
    <2>2. CASE c \in T
      <3>1. PICK i \in 1 .. n : t[i] = c  BY <1>2, <1>3, <2>2
      <3> QED  BY <1>9, <3>1
    <2> QED  BY <1>4, <2>1, <2>2
  <1> QED  BY <1>4, <1>5, <1>7, <1>11, <1>12 DEF Lists

LEMMA ListsOver ==
  ASSUME NEW S, NEW T, NEW s, Lists(s, S), NEW f \in [S -> T],
         \A x, y \in S : f[x] = f[y] => x = y, \A c \in T : \E x \in S : f[x] = c
  PROVE  Lists([k \in DOMAIN s |-> f[s[k]]], T)
PROOF
  <1>1. s \in Seq(S) /\ (\A i, j \in DOMAIN s : s[i] = s[j] => i = j) /\ \A c \in S : \E i \in DOMAIN s : s[i] = c
    BY DEF Lists
  <1>2. PICK n \in Nat : DOMAIN s = 1 .. n  BY <1>1
  <1>3. \A k \in 1 .. n : s[k] \in S  BY <1>1, <1>2
  <1>4. PICK u : u = [k \in DOMAIN s |-> f[s[k]]]  OBVIOUS
  <1>5. u \in [1 .. n -> T] /\ \A k \in 1 .. n : u[k] = f[s[k]]  BY <1>2, <1>3, <1>4
  <1>6. u \in Seq(T) /\ DOMAIN u = 1 .. n  BY <1>5
  <1>7. \A i, j \in 1 .. n : u[i] = u[j] => i = j  BY <1>1, <1>2, <1>3, <1>5
  <1>8. \A c \in T : \E i \in 1 .. n : u[i] = c
    <2> TAKE c \in T
    <2>1. PICK x \in S : f[x] = c  OBVIOUS
    <2>2. PICK i \in 1 .. n : s[i] = x  BY <1>1, <1>2
    <2> QED  BY <1>5, <2>1, <2>2
  <1> QED  BY <1>4, <1>6, <1>7, <1>8 DEF Lists

LEMMA PlaceOnce ==
  ASSUME NEW n \in Nat, NEW a \in Nat, NEW b \in Nat, NEW i \in 1 .. n, NEW j \in 1 .. n,
         a * n + i = b * n + j
  PROVE  a = b /\ i = j
PROOF
  <1>1. \A x, y \in Nat : x < y => (x + 1) * n <= y * n
    <2> SUFFICES ASSUME NEW x \in Nat, NEW y \in Nat, x < y PROVE (x + 1) * n <= y * n  OBVIOUS
    <2>1. PICK d \in Nat : y = (x + 1) + d  
      <3>1. y - (x + 1) \in Nat /\ y = (x + 1) + (y - (x + 1))  OBVIOUS
      <3> QED  BY <3>1
    <2>2. y * n = (x + 1) * n + d * n  BY <2>1
    <2>3. d * n \in Nat /\ (x + 1) * n \in Nat  OBVIOUS
    <2> QED  BY <2>2, <2>3
  <1>2. \A x \in Nat : (x + 1) * n = x * n + n /\ x * n \in Nat  OBVIOUS
  <1>3. ~(a < b)
    <2>1. a < b => a * n + n <= b * n  BY <1>1, <1>2
    <2> QED  BY <1>2, <2>1
  <1>4. ~(b < a)
    <2>1. b < a => b * n + n <= a * n  BY <1>1, <1>2
    <2> QED  BY <1>2, <2>1
  <1>5. a = b  BY <1>3, <1>4
  <1>6. a * n \in Nat  OBVIOUS
  <1> QED  BY <1>5, <1>6

-----------------------------------------------------------------------------
(* The grid of a process and its lists, as GridInv has them.               *)
LEMMA OwnerFacts ==
  ASSUME setting \in Settings, GridInv
  PROVE  /\ setting.all \in BOOLEAN /\ Owner \in Owners
         /\ \A c \in Cells : /\ Owner[c] \in Proc
                             /\ Index(mine[Owner[c]], c) \in DOMAIN mine[Owner[c]]
                             /\ mine[Owner[c]][Index(mine[Owner[c]], c)] = c
         /\ \A p \in Proc : /\ mine[p] \in Seq(Cells) /\ Len(mine[p]) \in 0 .. NCells
                            /\ \A i, j \in DOMAIN mine[p] : mine[p][i] = mine[p][j] => i = j
                            /\ \A k \in DOMAIN mine[p] : mine[p][k] \in Cells /\ Owner[mine[p][k]] = p
PROOF
  <1>1. setting.all \in BOOLEAN /\ Owner \in Owners  BY SettingFacts DEF GridInv
  <1>2. ASSUME NEW p \in Proc
        PROVE /\ mine[p] \in Seq(Cells)
              /\ \A i, j \in DOMAIN mine[p] : mine[p][i] = mine[p][j] => i = j
              /\ \A k \in DOMAIN mine[p] : mine[p][k] \in Cells /\ Owner[mine[p][k]] = p
              /\ \A c \in Cells : Owner[c] = p => \E i \in DOMAIN mine[p] : mine[p][i] = c
    <2>1. PICK S : S = {c \in Cells : Owner[c] = p}  OBVIOUS
    <2>2. Lists(mine[p], S)  BY <2>1 DEF GridInv, Own
    <2>3. mine[p] \in Seq(S) /\ \A c \in S : \E i \in DOMAIN mine[p] : mine[p][i] = c  BY <2>2 DEF Lists
    <2>4. \A c : c \in S <=> c \in Cells /\ Owner[c] = p  BY <2>1
    <2>5. \A k \in DOMAIN mine[p] : mine[p][k] \in S  BY <2>3
    <2>6. mine[p] \in Seq(Cells)
      <3>1. S \subseteq Cells  BY <2>4
      <3> QED  BY <2>3, <3>1
    <2> QED  BY <2>2, <2>3, <2>4, <2>5, <2>6 DEF Lists
  <1>3. ASSUME NEW c \in Cells
        PROVE  /\ Owner[c] \in Proc
               /\ Index(mine[Owner[c]], c) \in DOMAIN mine[Owner[c]]
               /\ mine[Owner[c]][Index(mine[Owner[c]], c)] = c
    <2>1. PICK p \in Proc : p = Owner[c]  BY <1>1 DEF Owners
    <2>2. PICK k \in DOMAIN mine[p] : mine[p][k] = c  BY <1>2, <2>1
    <2>3. Index(mine[p], mine[p][k]) = k  BY <1>2, IndexFacts
    <2> QED  BY <2>1, <2>2, <2>3
  <1>4. ASSUME NEW p \in Proc PROVE Len(mine[p]) \in 0 .. NCells
    <2>1. PICK n : n = Len(mine[p])  OBVIOUS
    <2>2. mine[p] \in Injection(1 .. n, Cells) /\ n \in Nat
      <3>1. n \in Nat /\ DOMAIN mine[p] = 1 .. n /\ mine[p] \in [1 .. n -> Cells]  BY <1>2, <2>1
      <3> QED  BY <1>2, <3>1 DEF Injection, IsInjective
    <2>3. IsFiniteSet(1 .. n) /\ Cardinality(1 .. n) = n
      <3>1. IsFiniteSet(1 .. n) /\ Cardinality(1 .. n) = IF 1 > n THEN 0 ELSE n - 1 + 1  BY <2>2, FS_Interval
      <3> QED  BY <2>2, <3>1
    <2>4. IsFiniteSet(Cells) /\ Cardinality(Cells) = NCells /\ NCells \in Nat
      <3>1. NCells \in Nat /\ NCells >= 1 /\ Cells = 1 .. NCells  BY SizesAssumption DEF Cells
      <3>2. IsFiniteSet(1 .. NCells) /\ Cardinality(1 .. NCells) = IF 1 > NCells THEN 0 ELSE NCells - 1 + 1
        BY <3>1, FS_Interval
      <3> QED  BY <3>1, <3>2
    <2>5. n <= NCells  BY <2>2, <2>3, <2>4, FS_Injection
    <2> QED  BY <2>1, <2>2, <2>4, <2>5
  <1> QED  BY <1>1, <1>2, <1>3, <1>4

LEMMA StoredFacts ==
  ASSUME setting \in Settings, GridInv, NEW p \in Proc
  PROVE  /\ Stored(p) \in Seq(Cells) /\ \A i, j \in DOMAIN Stored(p) : Stored(p)[i] = Stored(p)[j] => i = j
         /\ Len(mine[p]) \in Nat /\ DOMAIN mine[p] = 1 .. Len(mine[p]) /\ DOMAIN mine[p] \subseteq DOMAIN Stored(p)
         /\ \A k \in DOMAIN mine[p] : Stored(p)[k] = mine[p][k] /\ mine[p][k] \in Cells /\ Owner[mine[p][k]] = p
         /\ \A k \in DOMAIN Stored(p) : k <= Len(mine[p]) <=> Owner[Stored(p)[k]] = p
         /\ \A k \in DOMAIN Stored(p) : k <= Len(mine[p]) => k \in DOMAIN mine[p]
         /\ \A k \in DOMAIN Stored(p) : k > Len(mine[p]) => HaloNow(Owner, p, Stored(p)[k]) \in {"full", "empty"}
         /\ \A c \in Cells : HaloNow(Owner, p, c) \in {"full", "empty", "owned"} =>
              \E k \in DOMAIN Stored(p) : Stored(p)[k] = c
PROOF
  <1>1. setting.all \in BOOLEAN /\ Owner \in Owners  BY OwnerFacts
  <1>2. PICK own, array, owner : own = mine[p] /\ array = Stored(p) /\ owner = Owner /\ owner \in Owners  BY <1>1
  <1>3. Lists(own, {c \in Cells : owner[c] = p})  BY <1>2 DEF GridInv, Own
  <1>4. array = Array(own, GhostsOf(owner, p))  BY <1>2 DEF Stored, GridInv
  <1>5. /\ array \in Seq(Cells) /\ \A i, j \in DOMAIN array : array[i] = array[j] => i = j
        /\ Len(own) \in Nat /\ DOMAIN own = 1 .. Len(own) /\ DOMAIN own \subseteq DOMAIN array
        /\ \A k \in DOMAIN own : array[k] = own[k] /\ own[k] \in Cells /\ owner[own[k]] = p
        /\ \A k \in DOMAIN array : k <= Len(own) <=> owner[array[k]] = p
        /\ \A k \in DOMAIN array : k <= Len(own) => k \in DOMAIN own
        /\ \A k \in DOMAIN array : k > Len(own) => HaloNow(owner, p, array[k]) \in {"full", "empty"}
        /\ \A c \in Cells : HaloNow(owner, p, c) \in {"full", "empty", "owned"} =>
             \E k \in DOMAIN array : array[k] = c
    BY <1>1, <1>2, <1>3, <1>4, ArrayFacts
  <1> QED  BY <1>2, <1>5

LEMMA SentFacts ==
  ASSUME setting \in Settings, GridInv, NEW q \in Proc, NEW p \in Proc
  PROVE  /\ sendlist[q][p] \in Seq(DOMAIN mine[q]) /\ DOMAIN recvlist[p][q] = DOMAIN sendlist[q][p]
         /\ recvlist[p][q] = <<>> <=> sendlist[q][p] = <<>>
         /\ \A k \in DOMAIN sendlist[q][p] :
              /\ sendlist[q][p][k] \in DOMAIN mine[q] /\ mine[q][sendlist[q][p][k]] \in Cells
              /\ SentTo(Owner, p, mine[q][sendlist[q][p][k]])
              /\ recvlist[p][q][k] \in DOMAIN Stored(p)
              /\ Stored(p)[recvlist[p][q][k]] = mine[q][sendlist[q][p][k]]
              /\ recvlist[p][q][k] > Len(mine[p])
         /\ \A k \in DOMAIN mine[q] : SentTo(Owner, p, mine[q][k]) =>
              \E j \in DOMAIN sendlist[q][p] : sendlist[q][p][j] = k
PROOF
  <1>1. setting.all \in BOOLEAN /\ Owner \in Owners  BY OwnerFacts
  <1>2. PICK own, owner : own = mine /\ owner = Owner /\ owner \in Owners  BY <1>1
  <1>3. PICK array, send, recv : array = Stored(p) /\ send = sendlist[q][p] /\ recv = recvlist[p][q]  OBVIOUS
  <1>4. \A x \in Proc : Lists(own[x], {c \in Cells : owner[c] = x})  BY <1>2 DEF GridInv, Own
  <1>5. array = Array(own[p], GhostsOf(owner, p))  BY <1>2, <1>3 DEF Stored, GridInv
  <1>6. send = SendLists(owner, own)[q][p] /\ recv = RecvLists(owner, own)[p][q]
    BY <1>2, <1>3 DEF GridInv
  <1>7. Fits(owner, own, q, p, send, recv, array)
    <2>1. Fits(owner, own, q, p, SendLists(owner, own)[q][p], RecvLists(owner, own)[p][q],
               Array(own[p], GhostsOf(owner, p)))
      BY <1>1, <1>2, <1>4, ListsFacts
    <2> QED  BY <1>5, <1>6, <2>1
  <1> QED  BY <1>2, <1>3, <1>7 DEF Fits

LEMMA GridKept ==
  ASSUME setting' = setting, UNCHANGED grid
  PROVE  /\ Owner' = Owner /\ UNCHANGED <<mine, ghosts, sendlist, recvlist>>
         /\ \A p : Stored(p)' = Stored(p) /\ Own(p)' = Own(p)
         /\ GridInv => GridInv'
PROOF
  <1>1. UNCHANGED <<mine, ghosts, sendlist, recvlist>>  BY DEF grid
  <1>2. Owner' = Owner  BY <1>1 DEF Owner, Index
  <1>3. \A p : Stored(p)' = Stored(p) /\ Own(p)' = Own(p)  BY <1>1, <1>2 DEF Stored, Array, Own
  <1>4. \A owner, p : GhostsOf(owner, p)' = GhostsOf(owner, p)
    BY DEF GhostsOf, HaloNow, Ascending, Nth
  <1>5. \A owner, own : /\ SendLists(owner, own)' = SendLists(owner, own)
                        /\ RecvLists(owner, own)' = RecvLists(owner, own)
    <2> TAKE owner, own
    <2>1. SendLists(owner, own)' = SendLists(owner, own)  BY DEF SendLists, ListFor, Ascending, Nth
    <2>2. RecvLists(owner, own)' = RecvLists(owner, own)
      BY <1>4 DEF RecvLists
    <2> QED  BY <2>1, <2>2
  <1>6. ASSUME GridInv PROVE GridInv'
    <2>1. Owner' \in setting'.layouts  BY <1>2, <1>6 DEF GridInv
    <2>2. mine' = [p \in Proc |-> mine'[p]] /\ \A p \in Proc : Lists(mine[p], Own(p))'
      BY <1>1, <1>3, <1>6 DEF GridInv, Lists
    <2>3. ghosts' = [p \in Proc |-> GhostsOf(Owner, p)']
      <3>1. \A p \in Proc : GhostsOf(Owner, p)' = GhostsOf(Owner, p)
        BY <1>2, <1>4 DEF GhostsOf, HaloNow, Ascending, Nth
      <3> QED  BY <1>1, <1>6, <3>1 DEF GridInv
    <2>4. sendlist' = SendLists(Owner, mine)' /\ recvlist' = RecvLists(Owner, mine)'
      <3>1. SendLists(Owner, mine)' = SendLists(Owner, mine)
        BY <1>1, <1>2 DEF SendLists, ListFor, Ascending, Nth
      <3>2. RecvLists(Owner, mine)' = RecvLists(Owner, mine)
        BY <1>1, <1>2 DEF RecvLists, ListFor, Ascending, Nth, Index, Array, GhostsOf, HaloNow
      <3> QED  BY <1>1, <1>6, <3>1, <3>2 DEF GridInv
    <2> QED  BY <2>1, <2>2, <2>3, <2>4 DEF GridInv
  <1> QED  BY <1>1, <1>2, <1>3, <1>6

-----------------------------------------------------------------------------
(* Fix balance gives every cell to one process.                            *)
LEMMA MovedFacts ==
  ASSUME setting \in Settings, GridInv, NEW owner \in Owners, NEW order \in Orders, NEW p \in Proc
  PROVE  Lists(Moved(owner, order, p), {c \in Cells : owner[c] = p})
PROOF
  <1> DEFINE K == {k \in DOMAIN mine[p] : owner[mine[p][k]] = p}
             place(c) == order[Owner[c]] * NCells + Index(mine[Owner[c]], c)
             come == {c \in Cells : owner[c] = p /\ Owner[c] # p}
             L == {place(c) : c \in come}
             kept == {c \in Cells : owner[c] = p /\ Owner[c] = p}
             stay == Ascending(K)
             arrived == Ascending(L)
             f == [k \in K |-> mine[p][k]]
             g == [l \in L |-> CHOOSE c \in come : place(c) = l]
             s == [k \in DOMAIN stay |-> mine[p][stay[k]]]
             t == [k \in DOMAIN arrived |-> CHOOSE c \in come : place(c) = arrived[k]]
  <1>1. Moved(owner, order, p) = s \o t  BY DEF Moved
  <1>2. /\ mine[p] \in Seq(Cells) /\ DOMAIN mine[p] \subseteq Int /\ IsFiniteSet(DOMAIN mine[p])
        /\ \A i, j \in DOMAIN mine[p] : mine[p][i] = mine[p][j] => i = j
        /\ \A k \in DOMAIN mine[p] : mine[p][k] \in Cells /\ Owner[mine[p][k]] = p
    <2>1. mine[p] \in Seq(Cells)  BY OwnerFacts
    <2>2. DOMAIN mine[p] = 1 .. Len(mine[p]) /\ Len(mine[p]) \in Nat  BY <2>1
    <2>3. IsFiniteSet(1 .. Len(mine[p]))  BY <2>2, FS_Interval
    <2> QED  BY <2>1, <2>2, <2>3, OwnerFacts
  <1>3. Lists(stay, K)
    <2>1. IsFiniteSet(K) /\ K \subseteq Int  BY <1>2, FS_Subset
    <2> HIDE DEF K
    <2> QED  BY <2>1, AscendingFacts
  <1>4. Lists(s, kept)
    <2>1. f \in [K -> kept] /\ \A x, y \in K : f[x] = f[y] => x = y  BY <1>2
    <2>2. \A c \in kept : \E x \in K : f[x] = c
      <3> TAKE c \in kept
      <3>1. PICK k \in DOMAIN mine[p] : mine[p][k] = c
        <4>1. c \in Cells /\ Owner[c] = p  OBVIOUS
        <4> QED  BY <4>1, OwnerFacts
      <3>2. k \in K  BY <3>1
      <3> QED  BY <3>1, <3>2
    <2>3. \A k \in DOMAIN stay : stay[k] \in K
      <3> HIDE DEF K, stay
      <3> QED  BY <1>3 DEF Lists
    <2>4. s = [k \in DOMAIN stay |-> f[stay[k]]]
      <3>1. \A k \in DOMAIN stay : f[stay[k]] = mine[p][stay[k]]  BY <2>3
      <3> QED  BY <3>1
    <2> HIDE DEF K, kept, f, stay, s
    <2> QED  BY <1>3, <2>1, <2>2, <2>4, ListsOver
  <1>5. ASSUME NEW c \in Cells
        PROVE  /\ order[Owner[c]] \in Nat /\ Index(mine[Owner[c]], c) \in 1 .. NCells /\ NCells \in Nat
               /\ Owner[c] \in Proc /\ mine[Owner[c]][Index(mine[Owner[c]], c)] = c
    <2>1. PICK q \in Proc : q = Owner[c]  BY OwnerFacts
    <2>2. Index(mine[q], c) \in DOMAIN mine[q] /\ mine[q][Index(mine[q], c)] = c  BY <2>1, OwnerFacts
    <2>3. mine[q] \in Seq(Cells) /\ Len(mine[q]) \in 0 .. NCells  BY OwnerFacts
    <2>4. DOMAIN mine[q] \subseteq 1 .. NCells  BY <2>3, SizesAssumption
    <2>5. order[q] \in Nat  BY ProcsFinite DEF Orders
    <2> QED  BY <2>1, <2>2, <2>4, <2>5, SizesAssumption
  <1>6. ASSUME NEW c \in Cells, NEW d \in Cells, place(c) = place(d) PROVE c = d
    <2>1. PICK q \in Proc, r \in Proc, i \in 1 .. NCells, j \in 1 .. NCells :
            q = Owner[c] /\ r = Owner[d] /\ i = Index(mine[q], c) /\ j = Index(mine[r], d)
      BY <1>5
    <2>2. order[q] \in Nat /\ order[r] \in Nat /\ NCells \in Nat  BY <1>5, <2>1
    <2>3. order[q] * NCells + i = order[r] * NCells + j  BY <1>6, <2>1
    <2>4. order[q] = order[r] /\ i = j
      <3>1. PICK a \in Nat, b \in Nat, n \in Nat : a = order[q] /\ b = order[r] /\ n = NCells  BY <2>2
      <3>2. i \in 1 .. n /\ j \in 1 .. n /\ a * n + i = b * n + j  BY <2>3, <3>1
      <3>3. a = b /\ i = j  BY <3>2, PlaceOnce
      <3> QED  BY <3>1, <3>3
    <2>5. q = r  BY <2>4 DEF Orders
    <2> QED  BY <1>5, <2>1, <2>4, <2>5
  <1>7. \A c \in Cells : place(c) \in Int  BY <1>5
  <1> HIDE DEF place
  <1>8. IsFiniteSet(L) /\ L \subseteq Int
    <2>1. IsFiniteSet(come)  BY CellsFinite
    <2>2. [c \in come |-> place(c)] \in Surjection(come, L)
      BY DEF Surjection
    <2>3. IsFiniteSet(L)
      <3> HIDE DEF L, come
      <3> QED  BY <2>1, <2>2, FS_Surjection
    <2> QED  BY <1>7, <2>3
  <1>9. Lists(arrived, L)
    <2> HIDE DEF L
    <2> QED  BY <1>8, AscendingFacts
  <1>10. Lists(t, come)
    <2>1. \A l \in L : g[l] \in come /\ place(g[l]) = l  OBVIOUS
    <2>2. \A c \in come : place(c) \in L /\ g[place(c)] = c
      <3> TAKE c \in come
      <3>1. place(c) \in L  OBVIOUS
      <3>2. g[place(c)] \in come /\ place(g[place(c)]) = place(c)
        <4> HIDE DEF g
        <4> QED  BY <2>1, <3>1
      <3>3. come \subseteq Cells  OBVIOUS
      <3> HIDE DEF come, g, L
      <3> QED  BY <1>6, <3>1, <3>2, <3>3
    <2>3. g \in [L -> come]
      <3>1. g = [l \in L |-> g[l]]  OBVIOUS
      <3> HIDE DEF g, L, come
      <3> QED  BY <2>1, <3>1
    <2>4. \A x, y \in L : g[x] = g[y] => x = y
      <3> HIDE DEF g, L, come
      <3> QED  BY <2>1
    <2>5. \A k \in DOMAIN arrived : arrived[k] \in L
      <3> HIDE DEF L, arrived
      <3> QED  BY <1>9 DEF Lists
    <2>6. t = [k \in DOMAIN arrived |-> g[arrived[k]]]
      <3>1. \A k \in DOMAIN arrived : g[arrived[k]] = CHOOSE c \in come : place(c) = arrived[k]
        <4> HIDE DEF arrived, L, come
        <4> QED  BY <2>5
      <3> HIDE DEF g, arrived, L, come
      <3> QED  BY <3>1
    <2>7. \A c \in come : \E x \in L : g[x] = c
      <3> HIDE DEF g, L, come
      <3> QED  BY <2>2
    <2> HIDE DEF g, L, come, arrived, t
    <2> QED  BY <1>9, <2>3, <2>4, <2>6, <2>7, ListsOver
  <1>11. kept \cap come = {}  OBVIOUS
  <1>12. kept \union come = {c \in Cells : owner[c] = p}  OBVIOUS
  <1> HIDE DEF kept, come, s, t
  <1>13. Lists(s \o t, kept \union come)  BY <1>4, <1>10, <1>11, ListsJoin
  <1> QED  BY <1>1, <1>12, <1>13

LEMMA BalanceGrid ==
  ASSUME setting \in Settings, GridInv, Balance
  PROVE  /\ GridInv'
         /\ macro' = [p \in Proc |-> [k \in DOMAIN Stored(p)' |->
              macro[Owner[Stored(p)'[k]]][Index(mine[Owner[Stored(p)'[k]]], Stored(p)'[k])]]]
PROOF
  <1>1. PICK owner \in setting.layouts : \E own \in Arrays(owner) :
          /\ mine' = own
          /\ ghosts' = [p \in Proc |-> GhostsOf(owner, p)]
          /\ macro' = [p \in Proc |-> [k \in DOMAIN Array(own[p], GhostsOf(owner, p)) |->
               macro[Owner[Array(own[p], GhostsOf(owner, p))[k]]]
                    [Index(mine[Owner[Array(own[p], GhostsOf(owner, p))[k]]],
                           Array(own[p], GhostsOf(owner, p))[k])]]]
          /\ sendlist' = SendLists(owner, own) /\ recvlist' = RecvLists(owner, own)
    BY DEF Balance, NewLists
  <1>2. owner \in Owners /\ setting' = setting  BY SettingFacts DEF Balance
  <1>3. PICK own \in Arrays(owner) :
          /\ mine' = own
          /\ ghosts' = [p \in Proc |-> GhostsOf(owner, p)]
          /\ macro' = [p \in Proc |-> [k \in DOMAIN Array(own[p], GhostsOf(owner, p)) |->
               macro[Owner[Array(own[p], GhostsOf(owner, p))[k]]]
                    [Index(mine[Owner[Array(own[p], GhostsOf(owner, p))[k]]],
                           Array(own[p], GhostsOf(owner, p))[k])]]]
          /\ sendlist' = SendLists(owner, own) /\ recvlist' = RecvLists(owner, own)
    BY <1>1
  <1>4. ASSUME NEW p \in Proc PROVE Lists(own[p], {c \in Cells : owner[c] = p})
    <2>1. PICK order \in Orders : own[p] = Moved(owner, order, p)  BY <1>3 DEF Arrays
    <2> QED  BY <1>2, <2>1, MovedFacts
  <1>5. OwnerIn(own) = owner  BY <1>2, <1>4, OwnerIs
  <1>6. Owner' = owner
    <2>1. mine' = own  BY <1>3
    <2> QED  BY <1>5, <2>1 DEF Owner, OwnerIn
  <1>7. \A p \in Proc : mine'[p] = own[p] /\ ghosts'[p] = GhostsOf(owner, p)  BY <1>3
  <1>8. ASSUME NEW p \in Proc PROVE Stored(p)' = Array(own[p], GhostsOf(owner, p))
    BY <1>3 DEF Stored
  <1>9. macro' = [p \in Proc |-> [k \in DOMAIN Stored(p)' |->
              macro[Owner[Stored(p)'[k]]][Index(mine[Owner[Stored(p)'[k]]], Stored(p)'[k])]]]
    BY <1>3, <1>8
  <1>10. GridInv'
    <2>1. Owner' \in setting'.layouts  BY <1>2, <1>6
    <2>2. mine' = [p \in Proc |-> mine'[p]]  BY <1>3 DEF Arrays
    <2>3. \A p \in Proc : Lists(mine[p], Own(p))'
      <3> TAKE p \in Proc
      <3>1. Own(p)' = {c \in Cells : owner[c] = p}  BY <1>6 DEF Own
      <3>2. Lists(mine'[p], Own(p)')  BY <1>4, <1>7, <3>1
      <3> QED  BY <3>2
    <2>4. ghosts' = [p \in Proc |-> GhostsOf(Owner, p)']
      <3>1. \A p : GhostsOf(Owner, p)' = GhostsOf(owner, p)
        BY <1>2, <1>6 DEF GhostsOf, HaloNow
      <3> QED  BY <1>3, <3>1
    <2>5. SendLists(Owner, mine)' = SendLists(owner, own) /\ RecvLists(Owner, mine)' = RecvLists(owner, own)
      <3>1. SendLists(Owner, mine)' = SendLists(Owner', mine')  OBVIOUS
      <3>2. \A p : GhostsOf(Owner, p)' = GhostsOf(owner, p)
        BY <1>2, <1>6 DEF GhostsOf, HaloNow
      <3>3. mine' = own  BY <1>3
      <3>4. RecvLists(Owner, mine)' = RecvLists(owner, own)
        BY <1>6, <3>2, <3>3 DEF RecvLists
      <3> QED  BY <1>6, <3>1, <3>3, <3>4
    <2>6. sendlist' = SendLists(Owner, mine)' /\ recvlist' = RecvLists(Owner, mine)'
      BY <1>3, <2>5
    <2> QED  BY <2>1, <2>2, <2>3, <2>4, <2>6 DEF GridInv
  <1> QED  BY <1>9, <1>10

-----------------------------------------------------------------------------
(* The calls of the script: one process returns from one, or all do from   *)
(* a balance.                                                              *)
Advance(p, call) == Call(p) = call /\ call \in Calls \ {"balance"} /\ Return(p) /\ setting' = setting

LEMMA CallFacts ==
  ASSUME CallsInv, NEW p \in Proc
  PROVE  /\ setting.script \in Seq(Calls) /\ DOMAIN setting.script = 1 .. Len(setting.script)
         /\ Len(setting.script) \in Nat /\ at[p] \in 1 .. Len(setting.script) + 1
         /\ Call(p) # "end" => at[p] \in DOMAIN setting.script /\ Call(p) = setting.script[at[p]]
         /\ Call(p) = "end" => at[p] \notin DOMAIN setting.script
PROOF
  <1>1. setting.script \in Seq(Calls)  BY SettingFacts DEF CallsInv
  <1>2. DOMAIN setting.script = 1 .. Len(setting.script) /\ Len(setting.script) \in Nat  BY <1>1
  <1>3. at[p] \in 1 .. Len(setting.script) + 1  BY <1>2 DEF CallsInv
  <1>4. Call(p) # "end" => at[p] \in DOMAIN setting.script /\ Call(p) = setting.script[at[p]]  BY DEF Call
  <1>5. at[p] \in DOMAIN setting.script => setting.script[at[p]] # "end"
    <2>1. \A call \in Calls : call # "end"  BY DEF Calls
    <2> QED  BY <1>1, <2>1
  <1> QED  BY <1>1, <1>2, <1>3, <1>4, <1>5 DEF Call

LEMMA AdvanceFacts ==
  ASSUME CallsInv, NEW p \in Proc, NEW call, Advance(p, call)
  PROVE  /\ at[p] \in DOMAIN setting.script /\ setting.script[at[p]] = call
         /\ at' = [q \in Proc |-> IF q = p THEN at[p] + 1 ELSE at[q]]
         /\ \A q \in Proc : at[q] \in Nat /\ at'[q] = IF q = p THEN at[p] + 1 ELSE at[q]
PROOF
  <1>1. call # "end"  BY DEF Advance, Calls
  <1>2. at[p] \in DOMAIN setting.script /\ setting.script[at[p]] = call  BY <1>1, CallFacts DEF Advance
  <1>3. at \in [Proc -> Nat \ {0}]  BY DEF CallsInv
  <1>4. at' = [at EXCEPT ![p] = @ + 1]  BY DEF Advance, Return
  <1>5. at' = [q \in Proc |-> IF q = p THEN at[p] + 1 ELSE at[q]]  BY <1>3, <1>4
  <1> QED  BY <1>2, <1>3, <1>5

LEMMA AdvanceCalls ==
  ASSUME CallsInv, NEW p \in Proc, NEW call, Advance(p, call)
  PROVE  CallsInv'
PROOF
  <1>1. /\ at[p] \in DOMAIN setting.script /\ setting.script[at[p]] = call
        /\ at' = [q \in Proc |-> IF q = p THEN at[p] + 1 ELSE at[q]]
        /\ \A q \in Proc : at[q] \in Nat /\ at'[q] = IF q = p THEN at[p] + 1 ELSE at[q]
    BY AdvanceFacts
  <1>2. setting' = setting /\ call # "balance"  BY DEF Advance
  <1>3. setting.script \in Seq(Calls) /\ DOMAIN setting.script = 1 .. Len(setting.script) /\ Len(setting.script) \in Nat
    BY CallFacts
  <1>4. at' \in [Proc -> Nat \ {0}]
    <2>1. at \in [Proc -> Nat \ {0}]  BY DEF CallsInv
    <2> QED  BY <1>1, <2>1
  <1>5. \A q \in Proc : at'[q] <= Len(setting'.script) + 1
    <2>1. at[p] <= Len(setting.script)  BY <1>1, <1>3
    <2> QED  BY <1>1, <1>2, <1>3, <2>1 DEF CallsInv
  <1>6. ASSUME NEW q \in Proc, NEW r \in Proc, NEW b \in DOMAIN setting.script, setting.script[b] = "balance"
        PROVE  at'[q] <= b <=> at'[r] <= b
    <2>1. at[q] <= b <=> at[r] <= b  BY <1>6 DEF CallsInv
    <2>2. b # at[p] /\ b \in Nat  BY <1>1, <1>2, <1>3, <1>6
    <2>3. \A s \in Proc : at'[s] <= b <=> at[s] <= b  BY <1>1, <2>2
    <2> QED  BY <2>1, <2>3
  <1> QED  BY <1>2, <1>4, <1>5, <1>6 DEF CallsInv

LEMMA BalanceFacts ==
  ASSUME CallsInv, Balance
  PROVE  \E n \in DOMAIN setting.script :
           /\ setting.script[n] = "balance"
           /\ \A p \in Proc : at[p] = n /\ at'[p] = n + 1
           /\ at' = [p \in Proc |-> n + 1]
PROOF
  <1>1. at' = [p \in Proc |-> at[p] + 1] /\ \A p \in Proc : Call(p) = "balance"  BY DEF Balance
  <1>2. PICK p \in Proc : TRUE  BY ProcsFinite
  <1>3. PICK n : n = at[p]  OBVIOUS
  <1>4. \A q \in Proc : at[q] \in DOMAIN setting.script /\ setting.script[at[q]] = "balance" /\ at[q] \in Nat
    <2> TAKE q \in Proc
    <2>1. Call(q) = "balance"  BY <1>1
    <2> QED  BY <2>1, CallFacts
  <1>5. ASSUME NEW q \in Proc PROVE at[q] = n
    <2>1. at[q] <= n /\ n <= at[q]
      <3>1. at[p] <= at[p] /\ at[q] <= at[q]  BY <1>4
      <3>2. at[p] <= at[p] <=> at[q] <= at[p]  BY <1>4 DEF CallsInv
      <3>3. at[p] <= at[q] <=> at[q] <= at[q]  BY <1>4 DEF CallsInv
      <3> QED  BY <1>3, <3>1, <3>2, <3>3
    <2> QED  BY <1>3, <1>4, <2>1
  <1>6. at' = [q \in Proc |-> n + 1]  BY <1>1, <1>5
  <1> QED  BY <1>3, <1>4, <1>5, <1>6

LEMMA BalanceCalls ==
  ASSUME CallsInv, Balance
  PROVE  CallsInv'
PROOF
  <1>1. PICK n \in DOMAIN setting.script : /\ setting.script[n] = "balance"
                                           /\ \A p \in Proc : at[p] = n /\ at'[p] = n + 1
                                           /\ at' = [p \in Proc |-> n + 1]
    BY BalanceFacts
  <1>2. setting' = setting  BY DEF Balance
  <1>3. PICK p \in Proc : TRUE  BY ProcsFinite
  <1>4. DOMAIN setting.script = 1 .. Len(setting.script) /\ Len(setting.script) \in Nat  BY CallFacts
  <1>5. n \in Nat /\ n + 1 \in Nat \ {0} /\ n <= Len(setting.script)  BY <1>1, <1>4
  <1> QED  BY <1>1, <1>2, <1>5 DEF CallsInv

LEMMA TimesAdvance ==
  ASSUME CallsInv, NEW p \in Proc, NEW call, Advance(p, call)
  PROVE  \A q \in Proc, any \in Calls :
           /\ Times(q, any) \in Nat
           /\ Times(q, any)' = Times(q, any) + (IF q = p /\ any = call THEN 1 ELSE 0)
PROOF
  <1> TAKE q \in Proc, any \in Calls
  <1>1. /\ at[p] \in DOMAIN setting.script /\ setting.script[at[p]] = call
        /\ at[q] \in Nat /\ at'[q] = IF q = p THEN at[p] + 1 ELSE at[q]
    BY AdvanceFacts
  <1>2. setting' = setting  BY DEF Advance
  <1>3. Times(q, any) = Before(at[q], any) /\ Times(q, any)' = Before(at'[q], any)  BY <1>2 DEF Times, Before
  <1>4. setting.script \in Seq(Calls)  BY CallFacts
  <1>5. Before(at[q], any) \in Nat
        /\ Before(at[p] + 1, any) = Before(at[p], any) + (IF setting.script[at[p]] = any THEN 1 ELSE 0)
    BY <1>1, <1>4, BeforeStep
  <1> QED  BY <1>1, <1>3, <1>5

LEMMA TimesBalance ==
  ASSUME CallsInv, Balance
  PROVE  \E t, u \in Nat : \A q \in Proc :
           /\ Times(q, "compute") = t /\ Times(q, "receive") = t
           /\ Times(q, "compute")' = t /\ Times(q, "receive")' = t
           /\ Times(q, "contribute") = u /\ Times(q, "collate") = u
           /\ Times(q, "contribute")' = u /\ Times(q, "collate")' = u
PROOF
  <1>1. PICK n \in DOMAIN setting.script : /\ setting.script[n] = "balance"
                                           /\ \A p \in Proc : at[p] = n /\ at'[p] = n + 1
    BY BalanceFacts
  <1>2. setting' = setting  BY DEF Balance
  <1>3. setting.script \in Seq(Calls) /\ DOMAIN setting.script = 1 .. Len(setting.script) /\ Len(setting.script) \in Nat
    <2>1. PICK p \in Proc : TRUE  BY ProcsFinite
    <2> QED  BY CallFacts
  <1>4. \A q \in Proc : \A any : Times(q, any) = Before(n, any) /\ Times(q, any)' = Before(n + 1, any)
    BY <1>1, <1>2 DEF Times, Before
  <1>5. \A any : any # "balance" => Before(n + 1, any) = Before(n, any) /\ Before(n, any) \in Nat
    <2> TAKE any
    <2>1. n \in Nat  BY <1>3
    <2>2. Before(n, any) \in Nat  BY <1>3, <2>1, BeforeStep
    <2>3. Before(n + 1, any) = Before(n, any) + (IF setting.script[n] = any THEN 1 ELSE 0)
      BY <1>3, BeforeStep
    <2> QED  BY <1>1, <2>2, <2>3
  <1>6. n \in 1 .. Len(setting.script) + 1  BY <1>3
  <1>7. /\ Follows(setting.script, "compute", "receive") /\ Follows(setting.script, "contribute", "collate")
    BY SettingFacts DEF CallsInv
  <1>8. Before(n, "compute") = Before(n, "receive") + (IF n \in DOMAIN setting.script /\ setting.script[n] = "receive" THEN 1 ELSE 0)
    BY <1>3, <1>6, <1>7, BeforePaired
  <1>9. Before(n, "contribute") = Before(n, "collate") + (IF n \in DOMAIN setting.script /\ setting.script[n] = "collate" THEN 1 ELSE 0)
    BY <1>3, <1>6, <1>7, BeforePaired
  <1>10. Before(n, "compute") = Before(n, "receive") /\ Before(n, "contribute") = Before(n, "collate")
    BY <1>1, <1>5, <1>8, <1>9
  <1> QED  BY <1>4, <1>5, <1>10

-----------------------------------------------------------------------------
(* Messages under way, the oldest first.                                   *)
LEMMA QueueAppend ==
  ASSUME NEW n \in Nat, NEW s, s = [j \in 1 .. n |-> s[j]], NEW e
  PROVE  Append(s, e) = [j \in 1 .. n + 1 |-> IF j <= n THEN s[j] ELSE e]
PROOF
  <1>1. PICK S : S = {s[j] : j \in 1 .. n} \union {e}  OBVIOUS
  <1>2. e \in S /\ \A j \in 1 .. n : s[j] \in S  BY <1>1
  <1>3. s \in Seq(S) /\ Len(s) = n  BY <1>2
  <1>4. PICK t : t = Append(s, e)  OBVIOUS
  <1>5. t \in Seq(S) /\ Len(t) = n + 1  BY <1>2, <1>3, <1>4
  <1>6. DOMAIN t = 1 .. n + 1  BY <1>5
  <1>7. \A j \in 1 .. n + 1 : t[j] = IF j <= n THEN s[j] ELSE e  BY <1>2, <1>3, <1>4
  <1>8. t = [j \in 1 .. n + 1 |-> t[j]]  BY <1>5, <1>6
  <1> QED  BY <1>4, <1>7, <1>8

LEMMA QueueTail ==
  ASSUME NEW n \in Nat, NEW s, s = [j \in 1 .. n |-> s[j]], s # <<>>
  PROVE  n >= 1 /\ Head(s) = s[1] /\ Tail(s) = [j \in 1 .. n - 1 |-> s[j + 1]]
PROOF
  <1>1. PICK S : S = {s[j] : j \in 1 .. n}  OBVIOUS
  <1>2. \A j \in 1 .. n : s[j] \in S  BY <1>1
  <1>3. s \in Seq(S) /\ Len(s) = n  BY <1>2
  <1>4. n >= 1 /\ Head(s) = s[1]  BY <1>3
  <1>5. PICK t : t = Tail(s)  OBVIOUS
  <1>6. t \in Seq(S) /\ Len(t) = n - 1  BY <1>3, <1>4, <1>5
  <1>7. DOMAIN t = 1 .. n - 1  BY <1>6
  <1>8. \A j \in 1 .. n - 1 : t[j] = s[j + 1]  BY <1>3, <1>4, <1>5
  <1>9. t = [j \in 1 .. n - 1 |-> t[j]]  BY <1>6, <1>7
  <1> QED  BY <1>4, <1>5, <1>8, <1>9

-----------------------------------------------------------------------------
(* Macroscopic quantities: what a process has of its own cells is of its   *)
(* last compute, what it has of those it is sent is of its last receive.   *)
LEMMA MacroKept ==
  ASSUME setting' = setting, UNCHANGED grid, UNCHANGED <<macro, mail>>, MacroInv, MailInv,
         \A p \in Proc, call \in {"compute", "receive"} : Times(p, call)' = Times(p, call)
  PROVE  MacroInv' /\ MailInv'
PROOF
  <1>1. /\ Owner' = Owner /\ UNCHANGED <<mine, ghosts, sendlist, recvlist>>
        /\ \A p : Stored(p)' = Stored(p)
    BY GridKept
  <1>2. \A p \in Proc : Times(p, "compute")' = Times(p, "compute") /\ Times(p, "receive")' = Times(p, "receive")
    OBVIOUS
  <1>3. \A owner, p, c : SentTo(owner, p, c)' = SentTo(owner, p, c)  OBVIOUS
  <1>4. macro' = macro /\ mail' = mail  OBVIOUS
  <1>5. MacroInv'
    <2>1. macro = [p \in Proc |-> macro[p]]  BY DEF MacroInv
    <2>2. ASSUME NEW p \in Proc
          PROVE  /\ macro[p] = [k \in DOMAIN Stored(p) |-> macro[p][k]]
                 /\ \A k \in DOMAIN Stored(p) :
                      /\ k <= Len(mine[p]) =>
                           macro[p][k] = [cell |-> Stored(p)[k], step |-> Times(p, "compute")]
                      /\ SentTo(Owner, p, Stored(p)[k]) =>
                           macro[p][k] = [cell |-> Stored(p)[k], step |-> Times(p, "receive")]
      BY DEF MacroInv
    <2> QED  BY <1>1, <1>2, <1>4, <2>1, <2>2 DEF MacroInv
  <1>6. MailInv'
    <2>3. mail' = [q \in Proc |-> [p \in Proc |-> mail'[q][p]]]  BY <1>4 DEF MailInv
    <2>4. ASSUME NEW q \in Proc, NEW p \in Proc
          PROVE  (IF sendlist[q][p] = <<>> THEN mail[q][p] = <<>>
                  ELSE /\ Times(p, "receive") <= Times(q, "compute")
                       /\ mail[q][p] = [j \in 1 .. Times(q, "compute") - Times(p, "receive") |->
                                          Parcel(q, p, Times(p, "receive") + j)])'
      <3>1. IF sendlist[q][p] = <<>> THEN mail[q][p] = <<>>
            ELSE /\ Times(p, "receive") <= Times(q, "compute")
                 /\ mail[q][p] = [j \in 1 .. Times(q, "compute") - Times(p, "receive") |->
                                    Parcel(q, p, Times(p, "receive") + j)]
        BY DEF MailInv
      <3> QED  BY <1>1, <1>2, <1>4, <3>1 DEF Parcel
    <2> QED  BY <2>3, <2>4 DEF MailInv
  <1> QED  BY <1>5, <1>6

LEMMA ComputeKeeps ==
  ASSUME CallsInv, GridInv, MacroInv, MailInv, NEW p \in Proc, Compute(p)
  PROVE  MacroInv' /\ MailInv'
PROOF
  <1>1. Advance(p, "compute")  BY DEF Compute, Advance, Calls
  <1>2. setting \in Settings /\ setting' = setting /\ UNCHANGED grid  BY DEF Compute, CallsInv
  <1>3. /\ Owner' = Owner /\ UNCHANGED <<mine, ghosts, sendlist, recvlist>>
        /\ \A q : Stored(q)' = Stored(q)
    BY <1>2, GridKept
  <1>4. PICK t \in Nat : t = Times(p, "compute")
    BY <1>1, TimesAdvance DEF Calls
  <1>5. \A q \in Proc : /\ Times(q, "compute")' = IF q = p THEN t + 1 ELSE Times(q, "compute")
                        /\ Times(q, "receive")' = Times(q, "receive")
                        /\ Times(q, "compute") \in Nat /\ Times(q, "receive") \in Nat
    <2> TAKE q \in Proc
    <2>1. Times(q, "compute")' = Times(q, "compute") + (IF q = p THEN 1 ELSE 0) /\ Times(q, "compute") \in Nat
      BY <1>1, TimesAdvance DEF Calls
    <2>2. Times(q, "receive")' = Times(q, "receive") /\ Times(q, "receive") \in Nat
      BY <1>1, TimesAdvance DEF Calls
    <2> QED  BY <1>4, <2>1, <2>2
  <1>6. /\ macro = [q \in Proc |-> macro[q]]
        /\ \A q \in Proc :
             /\ macro[q] = [k \in DOMAIN Stored(q) |-> macro[q][k]]
             /\ \A k \in DOMAIN Stored(q) :
                  /\ k <= Len(mine[q]) => macro[q][k] = [cell |-> Stored(q)[k], step |-> Times(q, "compute")]
                  /\ SentTo(Owner, q, Stored(q)[k]) => macro[q][k] = [cell |-> Stored(q)[k], step |-> Times(q, "receive")]
    BY DEF MacroInv
  <1>7. PICK new : new = Computed(p)  OBVIOUS
  <1>8. /\ new = [k \in DOMAIN Stored(p) |-> new[k]]
        /\ \A k \in DOMAIN mine[p] : new[k] = [cell |-> mine[p][k], step |-> t + 1]
        /\ \A k \in DOMAIN Stored(p) : ~(k <= Len(mine[p])) => new[k] = macro[p][k]
    <2>1. new = [k \in DOMAIN Stored(p) |-> IF k <= Len(mine[p]) THEN [cell |-> mine[p][k], step |-> t + 1]
                                            ELSE macro[p][k]]
      <3>1. DOMAIN macro[p] = DOMAIN Stored(p)  BY <1>6
      <3> QED  BY <1>4, <1>7, <3>1 DEF Computed
    <2>2. DOMAIN mine[p] = 1 .. Len(mine[p]) /\ Len(mine[p]) \in Nat /\ DOMAIN mine[p] \subseteq DOMAIN Stored(p)
      BY <1>2, StoredFacts
    <2> QED  BY <2>1, <2>2
  <1>9. macro' = [q \in Proc |-> IF q = p THEN new ELSE macro[q]]
    <2>1. macro' = [macro EXCEPT ![p] = new]  BY <1>7 DEF Compute
    <2> QED  BY <1>6, <2>1
  <1>10. MacroInv'
    <2>1. ASSUME NEW q \in Proc
          PROVE  /\ macro'[q] = [k \in DOMAIN Stored(q) |-> macro'[q][k]]
                 /\ \A k \in DOMAIN Stored(q) :
                      /\ k <= Len(mine[q]) =>
                           macro'[q][k] = [cell |-> Stored(q)[k], step |-> Times(q, "compute")']
                      /\ SentTo(Owner, q, Stored(q)[k]) =>
                           macro'[q][k] = [cell |-> Stored(q)[k], step |-> Times(q, "receive")']
      <3>1. CASE q # p  BY <1>5, <1>6, <1>9, <3>1
      <3>2. CASE q = p
        <4>1. macro'[p] = new  BY <1>9
        <4>2. ASSUME NEW k \in DOMAIN Stored(p), k <= Len(mine[p])
              PROVE  new[k] = [cell |-> Stored(p)[k], step |-> t + 1]
          <5>1. k \in DOMAIN mine[p] /\ Stored(p)[k] = mine[p][k]  BY <1>2, <4>2, StoredFacts
          <5> QED  BY <1>8, <5>1
        <4>3. ASSUME NEW k \in DOMAIN Stored(p), SentTo(Owner, p, Stored(p)[k])
              PROVE  new[k] = [cell |-> Stored(p)[k], step |-> Times(p, "receive")]
          <5>1. Owner[Stored(p)[k]] # p  BY <4>3 DEF SentTo
          <5>2. ~(k <= Len(mine[p]))  BY <1>2, <5>1, StoredFacts
          <5> QED  BY <1>6, <1>8, <4>3, <5>2
        <4> QED  BY <1>5, <1>8, <3>2, <4>1, <4>2, <4>3
      <3> QED  BY <3>1, <3>2
    <2>2. macro' = [q \in Proc |-> macro'[q]]  BY <1>9
    <2> QED  BY <1>3, <2>1, <2>2 DEF MacroInv
  <1>11. \A q, r, s : Parcel(q, r, s) = [k \in DOMAIN sendlist[q][r] |-> [cell |-> mine[q][sendlist[q][r][k]], step |-> s]]
    BY DEF Parcel
  <1>12. /\ mail = [q \in Proc |-> [r \in Proc |-> mail[q][r]]]
         /\ \A q, r \in Proc :
              IF sendlist[q][r] = <<>> THEN mail[q][r] = <<>>
              ELSE /\ Times(r, "receive") <= Times(q, "compute")
                   /\ mail[q][r] = [j \in 1 .. Times(q, "compute") - Times(r, "receive") |->
                                      Parcel(q, r, Times(r, "receive") + j)]
    BY DEF MailInv
  <1>13. mail' = [q \in Proc |-> [r \in Proc |->
                    IF q = p /\ sendlist[p][r] # <<>> THEN Append(mail[p][r], Parcel(p, r, t + 1)) ELSE mail[q][r]]]
    <2>1. ASSUME NEW r \in Proc
          PROVE  [k \in DOMAIN sendlist[p][r] |-> new[sendlist[p][r][k]]] = Parcel(p, r, t + 1)
      <3>1. \A k \in DOMAIN sendlist[p][r] : sendlist[p][r][k] \in DOMAIN mine[p]  BY <1>2, SentFacts
      <3>2. \A k \in DOMAIN sendlist[p][r] :
              new[sendlist[p][r][k]] = [cell |-> mine[p][sendlist[p][r][k]], step |-> t + 1]
        BY <1>8, <3>1
      <3> QED  BY <3>2 DEF Parcel
    <2>2. mail' = [mail EXCEPT ![p] = [r \in Proc |->
                     IF sendlist[p][r] = <<>> THEN mail[p][r]
                     ELSE Append(mail[p][r], [k \in DOMAIN sendlist[p][r] |-> new[sendlist[p][r][k]]])]]
      BY <1>7 DEF Compute
    <2>3. [r \in Proc |-> IF sendlist[p][r] = <<>> THEN mail[p][r]
                     ELSE Append(mail[p][r], [k \in DOMAIN sendlist[p][r] |-> new[sendlist[p][r][k]]])]
          = [r \in Proc |-> IF sendlist[p][r] # <<>> THEN Append(mail[p][r], Parcel(p, r, t + 1)) ELSE mail[p][r]]
      BY <2>1
    <2>4. PICK row : row = [r \in Proc |-> IF sendlist[p][r] # <<>> THEN Append(mail[p][r], Parcel(p, r, t + 1)) ELSE mail[p][r]]
      OBVIOUS
    <2>5. mail' = [mail EXCEPT ![p] = row]  BY <2>2, <2>3, <2>4
    <2>6. mail' = [q \in Proc |-> IF q = p THEN row ELSE mail[q]]  BY <1>12, <2>5
    <2>7. \A q \in Proc : mail[q] = [r \in Proc |-> mail[q][r]]  BY <1>12
    <2>8. ASSUME NEW q \in Proc
          PROVE  (IF q = p THEN row ELSE mail[q]) = [r \in Proc |->
                    IF q = p /\ sendlist[p][r] # <<>> THEN Append(mail[p][r], Parcel(p, r, t + 1)) ELSE mail[q][r]]
      <3>1. CASE q = p  BY <2>4, <3>1
      <3>2. CASE q # p  BY <2>7, <3>2
      <3> QED  BY <3>1, <3>2
    <2> QED  BY <2>6, <2>8
  <1>14. ASSUME NEW q \in Proc, NEW r \in Proc
         PROVE  IF sendlist[q][r] = <<>> THEN mail'[q][r] = <<>>
                ELSE /\ Times(r, "receive")' <= Times(q, "compute")'
                     /\ mail'[q][r] = [j \in 1 .. Times(q, "compute")' - Times(r, "receive")' |->
                                         Parcel(q, r, Times(r, "receive")' + j)]
    <2>1. CASE q # p
      <3>1. mail'[q][r] = mail[q][r]  BY <1>13, <2>1
      <3> QED  BY <1>5, <1>12, <2>1, <3>1
    <2>2. CASE q = p /\ sendlist[p][r] = <<>>
      <3>1. mail'[q][r] = mail[q][r]  BY <1>13, <2>2
      <3> QED  BY <1>12, <2>2, <3>1
    <2>3. CASE q = p /\ sendlist[p][r] # <<>>
      <3>1. PICK u \in Nat : u = Times(r, "receive")  BY <1>5
      <3>2. PICK s : s = mail[p][r]  OBVIOUS
      <3>3. u <= t /\ s = [j \in 1 .. t - u |-> Parcel(p, r, u + j)]
        BY <1>4, <1>12, <2>3, <3>1, <3>2
      <3>4. PICK n \in Nat : n = t - u  BY <3>3
      <3>5. s = [j \in 1 .. n |-> s[j]]  BY <3>3, <3>4
      <3>6. PICK e : e = Parcel(p, r, t + 1)  OBVIOUS
      <3>7. Append(s, e) = [j \in 1 .. n + 1 |-> IF j <= n THEN s[j] ELSE e]  BY <3>5, QueueAppend
      <3>8. \A j \in 1 .. n + 1 : (IF j <= n THEN s[j] ELSE e) = Parcel(p, r, u + j)
        <4> TAKE j \in 1 .. n + 1
        <4>1. CASE j <= n  BY <3>3, <3>4, <4>1
        <4>2. CASE ~(j <= n)
          <5>1. u + j = t + 1  BY <3>4, <4>2
          <5> QED  BY <3>6, <4>2, <5>1
        <4> QED  BY <4>1, <4>2
      <3>9. Append(s, e) = [j \in 1 .. n + 1 |-> Parcel(p, r, u + j)]  BY <3>7, <3>8
      <3>10. mail'[p][r] = Append(s, e)  BY <1>13, <2>3, <3>2, <3>6
      <3>11. Times(p, "compute")' = t + 1 /\ Times(r, "receive")' = u /\ n + 1 = (t + 1) - u /\ u <= t + 1
        BY <1>5, <3>1, <3>3, <3>4
      <3> QED  BY <2>3, <3>9, <3>10, <3>11
    <2> QED  BY <2>1, <2>2, <2>3
  <1>15. MailInv'
    <2>1. mail' = [q \in Proc |-> [r \in Proc |-> mail'[q][r]]]  BY <1>13
    <2>2. \A q, r, s : Parcel(q, r, s) = [k \in DOMAIN sendlist'[q][r] |-> [cell |-> mine'[q][sendlist'[q][r][k]], step |-> s]]
      BY <1>3, <1>11
    <2> QED  BY <1>3, <1>14, <2>1, <2>2 DEF MailInv, Parcel
  <1> QED  BY <1>10, <1>15

(* What is unpacked: of the cells that the process is sent, what the owner *)
(* computed next.                                                          *)
LEMMA UnpackedFacts ==
  ASSUME CallsInv, GridInv, MacroInv, MailInv, NEW p \in Proc, Receive(p), NEW k \in DOMAIN Stored(p)
  PROVE  /\ k <= Len(mine[p]) => Unpacked(p, k) = macro[p][k]
         /\ SentTo(Owner, p, Stored(p)[k]) =>
              Unpacked(p, k) = [cell |-> Stored(p)[k], step |-> Times(p, "receive") + 1]
PROOF
  <1> DEFINE places(q) == {m \in DOMAIN recvlist[p][q] : recvlist[p][q][m] = k}
             from == {q \in Senders(p) : places(q) # {}}
  <1>1. Unpacked(p, k) = IF from = {} THEN macro[p][k]
                         ELSE LET q == CHOOSE q \in from : TRUE
                              IN Head(mail[q][p])[CHOOSE m \in places(q) : TRUE]
    BY DEF Unpacked
  <1>2. setting \in Settings  BY DEF CallsInv
  <1>3. ASSUME NEW q \in Proc, NEW m \in places(q)
        PROVE  /\ m \in DOMAIN sendlist[q][p] /\ recvlist[p][q] # <<>> /\ sendlist[q][p] # <<>>
               /\ Stored(p)[k] = mine[q][sendlist[q][p][m]] /\ k > Len(mine[p])
    <2>1. m \in DOMAIN recvlist[p][q] /\ recvlist[p][q][m] = k  OBVIOUS
    <2>2. DOMAIN recvlist[p][q] = DOMAIN sendlist[q][p] /\ (recvlist[p][q] = <<>> <=> sendlist[q][p] = <<>>)
      BY <1>2, SentFacts
    <2>3. m \in DOMAIN sendlist[q][p]  BY <2>1, <2>2
    <2>4. Stored(p)[recvlist[p][q][m]] = mine[q][sendlist[q][p][m]] /\ recvlist[p][q][m] > Len(mine[p])
      BY <1>2, <2>3, SentFacts
    <2>5. recvlist[p][q] # <<>>
      <3>1. DOMAIN <<>> = {}  OBVIOUS
      <3> QED  BY <2>1, <3>1
    <2> QED  BY <2>1, <2>2, <2>3, <2>4, <2>5
  <1>4. ASSUME k <= Len(mine[p]) PROVE Unpacked(p, k) = macro[p][k]
    <2>1. Len(mine[p]) \in Nat /\ k \in Nat
      <3>1. Stored(p) \in Seq(Cells) /\ Len(mine[p]) \in Nat  BY <1>2, StoredFacts
      <3> QED  BY <3>1
    <2>2. \A q \in Proc : places(q) = {}
      <3> SUFFICES ASSUME NEW q \in Proc, NEW m \in places(q) PROVE FALSE  OBVIOUS
      <3>1. k > Len(mine[p])  BY <1>3
      <3> QED  BY <1>4, <2>1, <3>1
    <2>3. from = {}  BY <2>2 DEF Senders
    <2> HIDE DEF from
    <2> QED  BY <1>1, <2>3
  <1>5. ASSUME SentTo(Owner, p, Stored(p)[k])
        PROVE  Unpacked(p, k) = [cell |-> Stored(p)[k], step |-> Times(p, "receive") + 1]
    <2>1. PICK c \in Cells : c = Stored(p)[k]
      <3>1. Stored(p) \in Seq(Cells)  BY <1>2, StoredFacts
      <3> QED  BY <3>1
    <2>2. PICK q \in Proc : q = Owner[c]  BY <1>2, OwnerFacts
    <2>3. PICK i \in DOMAIN mine[q] : mine[q][i] = c  BY <1>2, <2>2, OwnerFacts
    <2>4. PICK j \in DOMAIN sendlist[q][p] : sendlist[q][p][j] = i
      BY <1>2, <1>5, <2>1, <2>3, SentFacts
    <2>5. recvlist[p][q][j] = k /\ j \in DOMAIN recvlist[p][q]
      <3>1. recvlist[p][q][j] \in DOMAIN Stored(p) /\ Stored(p)[recvlist[p][q][j]] = c
            /\ DOMAIN recvlist[p][q] = DOMAIN sendlist[q][p]
        BY <1>2, <2>3, <2>4, SentFacts
      <3> QED  BY <1>2, <2>1, <2>4, <3>1, StoredFacts
    <2>6. q \in from
      <3>1. j \in places(q)  BY <2>5
      <3>2. recvlist[p][q] # <<>>  BY <1>3, <3>1
      <3> QED  BY <3>1, <3>2 DEF Senders
    <2>7. PICK r \in from : r = CHOOSE x \in from : TRUE  BY <2>6
    <2>8. r \in Proc /\ r \in Senders(p) /\ places(r) # {}  BY DEF Senders
    <2>9. PICK m \in places(r) : m = CHOOSE x \in places(r) : TRUE  BY <2>8
    <2>10. /\ m \in DOMAIN sendlist[r][p] /\ sendlist[r][p] # <<>>
           /\ c = mine[r][sendlist[r][p][m]]
      BY <1>3, <2>1, <2>8
    <2>11. Unpacked(p, k) = Head(mail[r][p])[m]
      <3> HIDE DEF places, from
      <3> QED  BY <1>1, <2>6, <2>7, <2>9
    <2>12. PICK t \in Nat, u \in Nat : t = Times(r, "compute") /\ u = Times(p, "receive")
      <3>1. Advance(p, "receive")  BY DEF Receive, Advance, Calls
      <3> QED  BY <2>8, <3>1, TimesAdvance DEF Calls
    <2>13. PICK s : s = mail[r][p]  OBVIOUS
    <2>14. u <= t /\ s = [l \in 1 .. t - u |-> Parcel(r, p, u + l)]
      <3>1. IF sendlist[r][p] = <<>> THEN mail[r][p] = <<>>
            ELSE /\ Times(p, "receive") <= Times(r, "compute")
                 /\ mail[r][p] = [l \in 1 .. Times(r, "compute") - Times(p, "receive") |->
                                    Parcel(r, p, Times(p, "receive") + l)]
        BY <2>8 DEF MailInv
      <3> QED  BY <2>10, <2>12, <2>13, <3>1
    <2>15. s # <<>>  BY <2>8, <2>13 DEF Receive
    <2>16. PICK n \in Nat : n = t - u  BY <2>14
    <2>17. s = [l \in 1 .. n |-> s[l]]  BY <2>14, <2>16
    <2>18. n >= 1 /\ Head(s) = s[1]  BY <2>15, <2>17, QueueTail
    <2>19. s[1] = Parcel(r, p, u + 1)  BY <2>14, <2>16, <2>18
    <2>20. Head(mail[r][p])[m] = [cell |-> c, step |-> u + 1]
      BY <2>10, <2>13, <2>18, <2>19 DEF Parcel
    <2> QED  BY <2>1, <2>11, <2>12, <2>20
  <1> QED  BY <1>4, <1>5

LEMMA ReceiveKeeps ==
  ASSUME CallsInv, GridInv, MacroInv, MailInv, NEW p \in Proc, Receive(p)
  PROVE  MacroInv' /\ MailInv'
PROOF
  <1>1. Advance(p, "receive")  BY DEF Receive, Advance, Calls
  <1>2. setting \in Settings /\ setting' = setting /\ UNCHANGED grid  BY DEF Receive, CallsInv
  <1>3. /\ Owner' = Owner /\ UNCHANGED <<mine, ghosts, sendlist, recvlist>>
        /\ \A q : Stored(q)' = Stored(q)
    BY <1>2, GridKept
  <1>4. PICK u \in Nat : u = Times(p, "receive")
    BY <1>1, TimesAdvance DEF Calls
  <1>5. \A q \in Proc : /\ Times(q, "receive")' = IF q = p THEN u + 1 ELSE Times(q, "receive")
                        /\ Times(q, "compute")' = Times(q, "compute")
                        /\ Times(q, "compute") \in Nat /\ Times(q, "receive") \in Nat
    <2> TAKE q \in Proc
    <2>1. Times(q, "receive")' = Times(q, "receive") + (IF q = p THEN 1 ELSE 0) /\ Times(q, "receive") \in Nat
      BY <1>1, TimesAdvance DEF Calls
    <2>2. Times(q, "compute")' = Times(q, "compute") /\ Times(q, "compute") \in Nat
      BY <1>1, TimesAdvance DEF Calls
    <2> QED  BY <1>4, <2>1, <2>2
  <1>6. /\ macro = [q \in Proc |-> macro[q]]
        /\ \A q \in Proc :
             /\ macro[q] = [k \in DOMAIN Stored(q) |-> macro[q][k]]
             /\ \A k \in DOMAIN Stored(q) :
                  /\ k <= Len(mine[q]) => macro[q][k] = [cell |-> Stored(q)[k], step |-> Times(q, "compute")]
                  /\ SentTo(Owner, q, Stored(q)[k]) => macro[q][k] = [cell |-> Stored(q)[k], step |-> Times(q, "receive")]
    BY DEF MacroInv
  <1>7. PICK new : new = [k \in DOMAIN Stored(p) |-> Unpacked(p, k)]  OBVIOUS
  <1>8. macro' = [q \in Proc |-> IF q = p THEN new ELSE macro[q]]
    <2>1. DOMAIN macro[p] = DOMAIN Stored(p)  BY <1>6
    <2>2. macro' = [macro EXCEPT ![p] = new]  BY <1>7, <2>1 DEF Receive
    <2> QED  BY <1>6, <2>2
  <1>9. MacroInv'
    <2>1. ASSUME NEW q \in Proc
          PROVE  /\ macro'[q] = [k \in DOMAIN Stored(q) |-> macro'[q][k]]
                 /\ \A k \in DOMAIN Stored(q) :
                      /\ k <= Len(mine[q]) =>
                           macro'[q][k] = [cell |-> Stored(q)[k], step |-> Times(q, "compute")']
                      /\ SentTo(Owner, q, Stored(q)[k]) =>
                           macro'[q][k] = [cell |-> Stored(q)[k], step |-> Times(q, "receive")']
      <3>1. CASE q # p  BY <1>5, <1>6, <1>8, <3>1
      <3>2. CASE q = p
        <4>1. macro'[p] = new /\ new = [k \in DOMAIN Stored(p) |-> new[k]]  BY <1>7, <1>8
        <4>2. ASSUME NEW k \in DOMAIN Stored(p)
              PROVE  /\ k <= Len(mine[p]) => new[k] = [cell |-> Stored(p)[k], step |-> Times(p, "compute")]
                     /\ SentTo(Owner, p, Stored(p)[k]) => new[k] = [cell |-> Stored(p)[k], step |-> u + 1]
          <5>1. /\ k <= Len(mine[p]) => Unpacked(p, k) = macro[p][k]
                /\ SentTo(Owner, p, Stored(p)[k]) =>
                     Unpacked(p, k) = [cell |-> Stored(p)[k], step |-> Times(p, "receive") + 1]
            BY UnpackedFacts
          <5>2. new[k] = Unpacked(p, k)  BY <1>7
          <5> QED  BY <1>4, <1>6, <5>1, <5>2
        <4> QED  BY <1>5, <3>2, <4>1, <4>2
      <3> QED  BY <3>1, <3>2
    <2>2. macro' = [q \in Proc |-> macro'[q]]  BY <1>8
    <2> QED  BY <1>3, <2>1, <2>2 DEF MacroInv
  <1>10. \A q, r, s : Parcel(q, r, s) = [k \in DOMAIN sendlist[q][r] |-> [cell |-> mine[q][sendlist[q][r][k]], step |-> s]]
    BY DEF Parcel
  <1>11. /\ mail = [q \in Proc |-> [r \in Proc |-> mail[q][r]]]
         /\ \A q, r \in Proc :
              IF sendlist[q][r] = <<>> THEN mail[q][r] = <<>>
              ELSE /\ Times(r, "receive") <= Times(q, "compute")
                   /\ mail[q][r] = [j \in 1 .. Times(q, "compute") - Times(r, "receive") |->
                                      Parcel(q, r, Times(r, "receive") + j)]
    BY DEF MailInv
  <1>12. mail' = [q \in Proc |-> [r \in Proc |->
                    IF r = p /\ q \in Senders(p) THEN Tail(mail[q][p]) ELSE mail[q][r]]]
    <2>1. mail' = [q \in Proc |-> IF q \in Senders(p) THEN [mail[q] EXCEPT ![p] = Tail(@)] ELSE mail[q]]
      BY DEF Receive
    <2>2. ASSUME NEW q \in Proc
          PROVE  (IF q \in Senders(p) THEN [mail[q] EXCEPT ![p] = Tail(@)] ELSE mail[q])
                 = [r \in Proc |-> IF r = p /\ q \in Senders(p) THEN Tail(mail[q][p]) ELSE mail[q][r]]
      <3>1. PICK row : row = mail[q]  OBVIOUS
      <3>2. row = [r \in Proc |-> row[r]]  BY <1>11, <3>1
      <3>3. PICK b \in BOOLEAN : b <=> q \in Senders(p)  OBVIOUS
      <3>4. CASE b
        <4>1. [row EXCEPT ![p] = Tail(@)] = [r \in Proc |-> IF r = p THEN Tail(row[p]) ELSE row[r]]  BY <3>2
        <4> QED  BY <3>1, <3>3, <3>4, <4>1
      <3>5. CASE ~b  BY <3>1, <3>2, <3>3, <3>5
      <3> QED  BY <3>4, <3>5
    <2> QED  BY <2>1, <2>2
  <1>13. ASSUME NEW q \in Proc, NEW r \in Proc
         PROVE  IF sendlist[q][r] = <<>> THEN mail'[q][r] = <<>>
                ELSE /\ Times(r, "receive")' <= Times(q, "compute")'
                     /\ mail'[q][r] = [j \in 1 .. Times(q, "compute")' - Times(r, "receive")' |->
                                         Parcel(q, r, Times(r, "receive")' + j)]
    <2>1. q \in Senders(p) <=> sendlist[q][p] # <<>>
      <3>1. recvlist[p][q] = <<>> <=> sendlist[q][p] = <<>>  BY <1>2, SentFacts
      <3> QED  BY <3>1 DEF Senders
    <2>2. CASE r # p
      <3>1. mail'[q][r] = mail[q][r]  BY <1>12, <2>2
      <3> QED  BY <1>5, <1>11, <2>2, <3>1
    <2>3. CASE r = p /\ sendlist[q][p] = <<>>
      <3>1. mail'[q][r] = mail[q][r]  BY <1>12, <2>1, <2>3
      <3> QED  BY <1>11, <2>3, <3>1
    <2>4. CASE r = p /\ sendlist[q][p] # <<>>
      <3>1. PICK t \in Nat : t = Times(q, "compute")  BY <1>5
      <3>2. PICK s : s = mail[q][p]  OBVIOUS
      <3>3. u <= t /\ s = [j \in 1 .. t - u |-> Parcel(q, p, u + j)]
        BY <1>4, <1>11, <2>4, <3>1, <3>2
      <3>4. PICK n \in Nat : n = t - u  BY <3>3
      <3>5. s = [j \in 1 .. n |-> s[j]]  BY <3>3, <3>4
      <3>6. s # <<>>  BY <2>1, <2>4, <3>2 DEF Receive
      <3>7. n >= 1 /\ Tail(s) = [j \in 1 .. n - 1 |-> s[j + 1]]  BY <3>5, <3>6, QueueTail
      <3>8. \A j \in 1 .. n - 1 : s[j + 1] = Parcel(q, p, (u + 1) + j)
        <4> TAKE j \in 1 .. n - 1
        <4>1. j + 1 \in 1 .. t - u /\ u + (j + 1) = (u + 1) + j  BY <3>4
        <4> QED  BY <3>3, <4>1
      <3>9. Tail(s) = [j \in 1 .. n - 1 |-> Parcel(q, p, (u + 1) + j)]  BY <3>7, <3>8
      <3>10. mail'[q][p] = Tail(s)  BY <1>12, <2>1, <2>4, <3>2
      <3>11. Times(q, "compute")' = t /\ Times(p, "receive")' = u + 1 /\ n - 1 = t - (u + 1) /\ u + 1 <= t
        BY <1>5, <3>1, <3>3, <3>4, <3>7
      <3> QED  BY <2>4, <3>9, <3>10, <3>11
    <2> QED  BY <2>2, <2>3, <2>4
  <1>14. MailInv'
    <2>1. mail' = [q \in Proc |-> [r \in Proc |-> mail'[q][r]]]  BY <1>12
    <2>2. \A q, r, s : Parcel(q, r, s) = [k \in DOMAIN sendlist'[q][r] |-> [cell |-> mine'[q][sendlist'[q][r][k]], step |-> s]]
      BY <1>3, <1>10
    <2> QED  BY <1>3, <1>13, <2>1, <2>2 DEF MailInv, Parcel
  <1> QED  BY <1>9, <1>14

(* Fix balance finds nothing under way, and all quantities of the same     *)
(* step.                                                                   *)
LEMMA BalanceKeeps ==
  ASSUME CallsInv, GridInv, MacroInv, MailInv, Balance
  PROVE  MacroInv' /\ MailInv'
PROOF
  <1>1. setting \in Settings /\ setting' = setting /\ mail' = mail  BY DEF Balance, CallsInv
  <1>2. PICK t \in Nat : \A q \in Proc :
          /\ Times(q, "compute") = t /\ Times(q, "receive") = t
          /\ Times(q, "compute")' = t /\ Times(q, "receive")' = t
    BY TimesBalance
  <1>3. GridInv'  BY <1>1, BalanceGrid
  <1>4. macro' = [p \in Proc |-> [k \in DOMAIN Stored(p)' |->
              macro[Owner[Stored(p)'[k]]][Index(mine[Owner[Stored(p)'[k]]], Stored(p)'[k])]]]
    BY <1>1, BalanceGrid
  <1>5. \A p \in Proc : \A k \in DOMAIN Stored(p)' : Stored(p)'[k] \in Cells
    <2> TAKE p \in Proc
    <2>1. PICK own, owner : own = mine' /\ owner = Owner'  OBVIOUS
    <2>2. setting.all \in BOOLEAN /\ owner \in Owners
      <3>1. owner \in setting.layouts  BY <1>1, <1>3, <2>1 DEF GridInv
      <3> QED  BY <1>1, <3>1, SettingFacts
    <2>3. Lists(own[p], {c \in Cells : owner[c] = p})
      <3>1. Lists(mine[p], Own(p))'  BY <1>3 DEF GridInv
      <3>2. Own(p)' = {c \in Cells : owner[c] = p}  BY <2>1 DEF Own
      <3>3. Lists(mine[p], Own(p))' = Lists(mine'[p], Own(p)')  BY DEF Lists
      <3> QED  BY <2>1, <3>1, <3>2, <3>3
    <2>4. PICK array : array = Array(own[p], GhostsOf(owner, p))  OBVIOUS
    <2>5. Stored(p)' = array
      <3>1. \A r : GhostsOf(Owner, r)' = GhostsOf(owner, r)
        BY <1>1, <2>1 DEF GhostsOf, HaloNow, Ascending, Nth
      <3>2. ghosts'[p] = GhostsOf(owner, p)
        <4>1. ghosts' = [r \in Proc |-> GhostsOf(Owner, r)']  BY <1>3 DEF GridInv
        <4> QED  BY <3>1, <4>1
      <3> QED  BY <2>1, <2>4, <3>2 DEF Stored, Array
    <2>6. array \in Seq(Cells)
      <3>1. PICK mn : mn = own[p]  OBVIOUS
      <3> QED  BY <2>2, <2>3, <2>4, <3>1, ArrayFacts
    <2> QED  BY <2>5, <2>6
  <1>6. ASSUME NEW p \in Proc, NEW k \in DOMAIN Stored(p)'
        PROVE  macro'[p][k] = [cell |-> Stored(p)'[k], step |-> t]
    <2>1. PICK c \in Cells : c = Stored(p)'[k]  BY <1>5
    <2>2. PICK q \in Proc : q = Owner[c]  BY <1>1, OwnerFacts
    <2>3. PICK i \in DOMAIN mine[q] : i = Index(mine[q], c) /\ mine[q][i] = c
      <3>1. Index(mine[Owner[c]], c) \in DOMAIN mine[Owner[c]] /\ mine[Owner[c]][Index(mine[Owner[c]], c)] = c
        BY <1>1, OwnerFacts
      <3> QED  BY <2>2, <3>1
    <2>4. macro'[p][k] = macro[q][i]  BY <1>4, <2>1, <2>2, <2>3
    <2>5. i \in DOMAIN Stored(q) /\ Stored(q)[i] = c /\ i <= Len(mine[q])
      <3>1. /\ Len(mine[q]) \in Nat /\ DOMAIN mine[q] = 1 .. Len(mine[q]) /\ DOMAIN mine[q] \subseteq DOMAIN Stored(q)
            /\ \A j \in DOMAIN mine[q] : Stored(q)[j] = mine[q][j]
        BY <1>1, StoredFacts
      <3> QED  BY <2>3, <3>1
    <2>6. macro[q][i] = [cell |-> c, step |-> t]
      <3>1. macro[q][i] = [cell |-> Stored(q)[i], step |-> Times(q, "compute")]  BY <2>5 DEF MacroInv
      <3> QED  BY <1>2, <2>5, <3>1
    <2> QED  BY <2>1, <2>4, <2>6
  <1>7. MacroInv'
    <2>1. macro' = [p \in Proc |-> macro'[p]]  BY <1>4
    <2>2. \A p \in Proc : macro'[p] = [k \in DOMAIN Stored(p)' |-> macro'[p][k]]  BY <1>4
    <2> QED  BY <1>2, <1>6, <2>1, <2>2 DEF MacroInv
  <1>8. mail = [q \in Proc |-> [p \in Proc |-> <<>>]]
    <2>1. mail = [q \in Proc |-> [p \in Proc |-> mail[q][p]]]  BY DEF MailInv
    <2>2. ASSUME NEW q \in Proc, NEW p \in Proc PROVE mail[q][p] = <<>>
      <3>1. IF sendlist[q][p] = <<>> THEN mail[q][p] = <<>>
            ELSE mail[q][p] = [j \in 1 .. Times(q, "compute") - Times(p, "receive") |->
                                 Parcel(q, p, Times(p, "receive") + j)]
        BY DEF MailInv
      <3>2. 1 .. Times(q, "compute") - Times(p, "receive") = {}  BY <1>2
      <3>3. CASE sendlist[q][p] = <<>>  BY <3>1, <3>3
      <3>4. CASE sendlist[q][p] # <<>>
        <4>1. DOMAIN mail[q][p] = {}  BY <3>1, <3>2, <3>4
        <4>2. mail[q][p] = [j \in {} |-> j]  BY <3>1, <3>2, <3>4
        <4> QED  BY <4>2
      <3> QED  BY <3>3, <3>4
    <2> QED  BY <2>1, <2>2
  <1>9. MailInv'
    <2>1. mail' = [q \in Proc |-> [p \in Proc |-> mail'[q][p]]]  BY <1>1, <1>8
    <2>2. ASSUME NEW q \in Proc, NEW p \in Proc
          PROVE  /\ mail'[q][p] = <<>> /\ Times(p, "receive")' <= Times(q, "compute")'
                 /\ mail'[q][p] = [j \in 1 .. Times(q, "compute")' - Times(p, "receive")' |->
                                     Parcel(q, p, Times(p, "receive") + j)']
      <3>1. mail'[q][p] = <<>>  BY <1>1, <1>8
      <3>2. 1 .. Times(q, "compute")' - Times(p, "receive")' = {}  BY <1>2
      <3>3. [j \in 1 .. Times(q, "compute")' - Times(p, "receive")' |-> Parcel(q, p, Times(p, "receive") + j)'] = <<>>
        BY <3>2
      <3>4. Times(p, "receive")' <= Times(q, "compute")'  BY <1>2
      <3> QED  BY <3>1, <3>3, <3>4
    <2> QED  BY <2>1, <2>2 DEF MailInv
  <1> QED  BY <1>7, <1>9

-----------------------------------------------------------------------------
(* A particle finds what its process computed or got in this timestep.     *)
LEMMA FreshHere ==
  ASSUME CallsInv, GridInv, MacroInv
  PROVE  FreshMacros
PROOF
  <1> SUFFICES ASSUME NEW p \in Proc, Call(p) = "relax", NEW k \in DOMAIN mine[p], NEW n \in LooksAt(mine[p][k])
               PROVE  LookedUp(p, n) = [cell |-> n, step |-> Times(p, "compute")]
    BY DEF FreshMacros
  <1>1. setting \in Settings  BY DEF CallsInv
  <1>2. setting.all \in BOOLEAN /\ Owner \in Owners  BY <1>1, OwnerFacts
  <1>3. mine[p][k] \in Cells /\ Owner[mine[p][k]] = p  BY <1>1, OwnerFacts
  <1>4. n \in Cells  BY DEF LooksAt
  <1>5. Owner[n] = p \/ SentTo(Owner, p, n)
    BY <1>2, <1>3, CellsLookedAtAreSent DEF LookedAtAreSent
  <1>6. HaloNow(Owner, p, n) \in {"full", "empty", "owned"}
    <2>1. CASE Owner[n] = p  BY <1>2, <2>1, HaloFacts
    <2>2. CASE SentTo(Owner, p, n)  BY <1>2, <1>4, <2>2, SentIsGhost
    <2> QED  BY <1>5, <2>1, <2>2
  <1>7. PICK i \in DOMAIN Stored(p) : Stored(p)[i] = n  BY <1>1, <1>4, <1>6, StoredFacts
  <1>8. Index(Stored(p), n) = i
    <2>1. Stored(p) \in Seq(Cells) /\ \A a, b \in DOMAIN Stored(p) : Stored(p)[a] = Stored(p)[b] => a = b
      BY <1>1, StoredFacts
    <2> QED  BY <1>7, <2>1, IndexFacts
  <1>9. LookedUp(p, n) = macro[p][i]  BY <1>8 DEF LookedUp
  <1>10. Times(p, "receive") = Times(p, "compute")
    <2>1. at[p] \in 1 .. Len(setting.script) + 1 /\ setting.script \in Seq(Calls)
          /\ at[p] \in DOMAIN setting.script /\ setting.script[at[p]] = "relax" /\ at[p] \in Nat
      BY CallFacts
    <2>2. Follows(setting.script, "compute", "receive")  BY <1>1, SettingFacts
    <2>3. Before(at[p], "compute") = Before(at[p], "receive")
                                     + (IF at[p] \in DOMAIN setting.script /\ setting.script[at[p]] = "receive" THEN 1 ELSE 0)
      BY <2>1, <2>2, BeforePaired
    <2>4. Before(at[p], "receive") \in Nat  BY <2>1, BeforeStep
    <2> QED  BY <2>1, <2>3, <2>4, TimesBefore
  <1>11. CASE Owner[n] = p
    <2>1. i <= Len(mine[p])  BY <1>1, <1>7, <1>11, StoredFacts
    <2> QED  BY <1>7, <1>9, <2>1 DEF MacroInv
  <1>12. CASE SentTo(Owner, p, n)
    <2>1. SentTo(Owner, p, Stored(p)[i])  BY <1>7, <1>12
    <2>2. macro[p][i] = [cell |-> n, step |-> Times(p, "receive")]  BY <1>7, <2>1 DEF MacroInv
    <2> QED  BY <1>9, <1>10, <2>2
  <1> QED  BY <1>5, <1>11, <1>12

(* All that is sent has a place.                                           *)
LEMMA StoredHere ==
  ASSUME setting \in Settings, GridInv
  PROVE  SentAreStored
PROOF
  <1> SUFFICES ASSUME NEW p \in Proc, NEW q \in Proc, NEW k \in DOMAIN recvlist[p][q]
               PROVE  recvlist[p][q][k] # 0
    BY DEF SentAreStored
  <1>1. DOMAIN recvlist[p][q] = DOMAIN sendlist[q][p]  BY SentFacts
  <1>2. recvlist[p][q][k] \in DOMAIN Stored(p)  BY <1>1, SentFacts
  <1>3. Stored(p) \in Seq(Cells)  BY StoredFacts
  <1> QED  BY <1>2, <1>3

LEMMA InitCalls == Init => CallsInv
PROOF
  <1> SUFFICES ASSUME Init PROVE CallsInv  OBVIOUS
  <1>1. setting \in Settings /\ at = [p \in Proc |-> 1]  BY DEF Init
  <1>2. setting.script \in Seq(Calls)  BY <1>1, SettingFacts
  <1>3. Len(setting.script) \in Nat  BY <1>2
  <1> QED  BY <1>1, <1>3 DEF CallsInv

LEMMA InitTimes ==
  ASSUME Init
  PROVE  \A p \in Proc : \A call : Times(p, call) = 0
PROOF
  <1>1. setting.script \in Seq(Calls) /\ at = [p \in Proc |-> 1]  BY SettingFacts DEF Init
  <1>2. \A p \in Proc : \A call : Times(p, call) = Before(1, call)  BY <1>1, TimesBefore
  <1>3. \A call : Before(1, call) = 0  BY <1>1, BeforeStep
  <1> QED  BY <1>2, <1>3

LEMMA InitGrid == Init => GridInv
PROOF
  <1> SUFFICES ASSUME Init PROVE GridInv  OBVIOUS
  <1>1. setting \in Settings  BY DEF Init
  <1>2. PICK owner \in setting.layouts :
          /\ mine = [p \in Proc |-> Ascending({c \in Cells : owner[c] = p})]
          /\ ghosts = [p \in Proc |-> GhostsOf(owner, p)]
          /\ sendlist = SendLists(owner, mine) /\ recvlist = RecvLists(owner, mine)
    BY DEF Init
  <1>3. owner \in Owners  BY <1>1, SettingFacts
  <1>4. ASSUME NEW p \in Proc PROVE Lists(mine[p], {c \in Cells : owner[c] = p})
    <2>1. PICK S : S = {c \in Cells : owner[c] = p}  OBVIOUS
    <2>2. IsFiniteSet(S) /\ S \subseteq Int  BY <2>1, CellsFinite
    <2>3. Lists(Ascending(S), S)  BY <2>2, AscendingFacts
    <2> QED  BY <1>2, <2>1, <2>3
  <1>5. Owner = owner
    <2>1. PICK own : own = mine  OBVIOUS
    <2>2. OwnerIn(own) = owner  BY <1>3, <1>4, <2>1, OwnerIs
    <2> QED  BY <2>1, <2>2 DEF Owner, OwnerIn
  <1>6. \A p \in Proc : Lists(mine[p], Own(p))  BY <1>4, <1>5 DEF Own
  <1>7. mine = [p \in Proc |-> mine[p]]  BY <1>2
  <1> QED  BY <1>2, <1>5, <1>6, <1>7 DEF GridInv

LEMMA InitMacro == Init => MacroInv /\ MailInv
PROOF
  <1> SUFFICES ASSUME Init PROVE MacroInv /\ MailInv  OBVIOUS
  <1>1. \A p \in Proc : Times(p, "compute") = 0 /\ Times(p, "receive") = 0  BY InitTimes
  <1>2. macro = [p \in Proc |-> [k \in DOMAIN Stored(p) |-> [cell |-> Stored(p)[k], step |-> 0]]]  BY DEF Init
  <1>3. mail = [q \in Proc |-> [p \in Proc |-> <<>>]]  BY DEF Init
  <1>4. MacroInv
    <2>1. \A p \in Proc : macro[p] = [k \in DOMAIN Stored(p) |-> [cell |-> Stored(p)[k], step |-> 0]]  BY <1>2
    <2>2. \A p \in Proc : macro[p] = [k \in DOMAIN Stored(p) |-> macro[p][k]]  BY <2>1
    <2>3. macro = [p \in Proc |-> macro[p]]  BY <1>2
    <2> QED  BY <1>1, <2>1, <2>2, <2>3 DEF MacroInv
  <1>5. MailInv
    <2>1. mail = [q \in Proc |-> [p \in Proc |-> mail[q][p]]]  BY <1>3
    <2>2. ASSUME NEW q \in Proc, NEW p \in Proc
          PROVE  /\ mail[q][p] = <<>> /\ Times(p, "receive") <= Times(q, "compute")
                 /\ mail[q][p] = [j \in 1 .. Times(q, "compute") - Times(p, "receive") |->
                                     Parcel(q, p, Times(p, "receive") + j)]
      <3>1. mail[q][p] = <<>>  BY <1>3
      <3>2. 1 .. Times(q, "compute") - Times(p, "receive") = {}  BY <1>1
      <3>3. [j \in 1 .. Times(q, "compute") - Times(p, "receive") |-> Parcel(q, p, Times(p, "receive") + j)] = <<>>
        BY <3>2
      <3>4. Times(p, "receive") <= Times(q, "compute")  BY <1>1
      <3> QED  BY <3>1, <3>3, <3>4
    <2> QED  BY <2>1, <2>2 DEF MailInv
  <1> QED  BY <1>4, <1>5

-----------------------------------------------------------------------------
(* Who takes which step.                                                   *)
LEMMA StepFacts ==
  ASSUME CallsInv, NEW p \in Proc, Tally(p) \/ Relax(p) \/ Contribute(p) \/ Collate(p)
  PROVE  /\ setting' = setting /\ UNCHANGED grid /\ UNCHANGED <<macro, mail>>
         /\ \E call \in {"tally", "relax", "contribute", "collate"} : Advance(p, call)
PROOF
  <1>1. CASE Tally(p)
    <2>1. Advance(p, "tally")  BY <1>1 DEF Tally, Advance, Calls
    <2> QED  BY <1>1, <2>1 DEF Tally
  <1>2. CASE Relax(p)
    <2>1. Advance(p, "relax")  BY <1>2 DEF Relax, Advance, Calls
    <2> QED  BY <1>2, <2>1 DEF Relax
  <1>3. CASE Contribute(p)
    <2>1. Advance(p, "contribute")  BY <1>3 DEF Contribute, Advance, Calls
    <2> QED  BY <1>3, <2>1 DEF Contribute
  <1>4. CASE Collate(p)
    <2>1. Advance(p, "collate")  BY <1>4 DEF Collate, Advance, Calls
    <2> QED  BY <1>4, <2>1 DEF Collate
  <1> QED  BY <1>1, <1>2, <1>3, <1>4

MacrosInv == CallsInv /\ GridInv /\ MacroInv /\ MailInv

LEMMA InitMacros == Init => MacrosInv
BY InitCalls, InitGrid, InitMacro DEF MacrosInv

LEMMA StutterMacros ==
  ASSUME MacrosInv, UNCHANGED vars
  PROVE  MacrosInv'
PROOF
  <1>1. setting' = setting /\ at' = at /\ UNCHANGED grid /\ UNCHANGED <<macro, mail>>  BY DEF vars
  <1>2. \A p \in Proc, call \in {"compute", "receive"} : Times(p, call)' = Times(p, call)
    BY <1>1 DEF Times
  <1>3. CallsInv'  BY <1>1 DEF MacrosInv, CallsInv
  <1> QED  BY <1>1, <1>2, <1>3, GridKept, MacroKept DEF MacrosInv

LEMMA NextMacros ==
  ASSUME MacrosInv, [Next]_vars
  PROVE  MacrosInv'
PROOF
  <1>0. CallsInv /\ GridInv /\ MacroInv /\ MailInv /\ setting \in Settings  BY DEF MacrosInv, CallsInv
  <1>1. CASE UNCHANGED vars  BY <1>1, StutterMacros
  <1>2. ASSUME NEW p \in Proc, Tally(p) \/ Relax(p) \/ Contribute(p) \/ Collate(p)
        PROVE  MacrosInv'
    <2>1. setting' = setting /\ UNCHANGED grid /\ UNCHANGED <<macro, mail>>  BY <1>0, <1>2, StepFacts
    <2>2. PICK call \in {"tally", "relax", "contribute", "collate"} : Advance(p, call)  BY <1>0, <1>2, StepFacts
    <2>3. \A q \in Proc, any \in {"compute", "receive"} : Times(q, any)' = Times(q, any)
      <3> TAKE q \in Proc, any \in {"compute", "receive"}
      <3>1. any \in Calls /\ any # call  BY DEF Calls
      <3>2. Times(q, any) \in Nat /\ Times(q, any)' = Times(q, any) + 0
        BY <1>0, <2>2, <3>1, TimesAdvance
      <3> QED  BY <3>2
    <2>4. CallsInv'  BY <1>0, <2>2, AdvanceCalls
    <2>5. GridInv'  BY <1>0, <2>1, GridKept
    <2> QED  BY <1>0, <2>1, <2>3, <2>4, <2>5, MacroKept DEF MacrosInv
  <1>3. ASSUME NEW p \in Proc, Compute(p) PROVE MacrosInv'
    <2>1. Advance(p, "compute")  BY <1>3 DEF Compute, Advance, Calls
    <2>2. CallsInv'  BY <1>0, <2>1, AdvanceCalls
    <2>3. GridInv'  BY <1>0, <1>3, GridKept DEF Compute
    <2> QED  BY <1>0, <1>3, <2>2, <2>3, ComputeKeeps DEF MacrosInv
  <1>4. ASSUME NEW p \in Proc, Receive(p) PROVE MacrosInv'
    <2>1. Advance(p, "receive")  BY <1>4 DEF Receive, Advance, Calls
    <2>2. CallsInv'  BY <1>0, <2>1, AdvanceCalls
    <2>3. GridInv'  BY <1>0, <1>4, GridKept DEF Receive
    <2> QED  BY <1>0, <1>4, <2>2, <2>3, ReceiveKeeps DEF MacrosInv
  <1>5. CASE Balance
    BY <1>0, <1>5, BalanceCalls, BalanceGrid, BalanceKeeps DEF MacrosInv
  <1>6. CASE Ended  BY <1>6, <1>1 DEF Ended
  <1> QED  BY <1>1, <1>2, <1>3, <1>4, <1>5, <1>6 DEF Next

LEMMA MacrosAlways == Spec => []MacrosInv
PROOF
  <1>1. Init => MacrosInv  BY InitMacros
  <1>2. MacrosInv /\ [Next]_vars => MacrosInv'  BY NextMacros
  <1> QED  BY <1>1, <1>2, PTL DEF Spec

(* Every process has a place for what it is sent, whatever cells it has    *)
(* been given.                                                             *)
THEOREM NobodyIsSentUnknown == Spec => []SentAreStored
PROOF
  <1>1. MacrosInv => SentAreStored  BY StoredHere DEF MacrosInv, CallsInv
  <1> QED  BY <1>1, MacrosAlways, PTL

(* Particles relax with quantities of their own timestep.                  *)
THEOREM MacrosAreFresh == Spec => []FreshMacros
PROOF
  <1>1. MacrosInv => FreshMacros  BY FreshHere DEF MacrosInv
  <1> QED  BY <1>1, MacrosAlways, PTL

-----------------------------------------------------------------------------
(* The array of a process after cells were moved.                          *)
LEMMA StoredAfter ==
  ASSUME setting \in Settings, setting' = setting, GridInv', NEW p \in Proc
  PROVE  \A c \in Cells : setting.all => Index(Stored(p), c)' # 0
PROOF
  <1>1. PICK own, owner : own = mine' /\ owner = Owner'  OBVIOUS
  <1>2. setting.all \in BOOLEAN /\ owner \in Owners
    <2>1. owner \in setting.layouts  BY <1>1 DEF GridInv
    <2> QED  BY <2>1, SettingFacts
  <1>3. Lists(own[p], {c \in Cells : owner[c] = p})
    <2>1. Lists(mine[p], Own(p))'  BY DEF GridInv
    <2>2. Own(p)' = {c \in Cells : owner[c] = p}  BY <1>1 DEF Own
    <2>3. Lists(mine[p], Own(p))' = Lists(mine'[p], Own(p)')  BY DEF Lists
    <2> QED  BY <1>1, <2>1, <2>2, <2>3
  <1>4. PICK array : array = Array(own[p], GhostsOf(owner, p))  OBVIOUS
  <1>5. Stored(p)' = array
    <2>1. \A r : GhostsOf(Owner, r)' = GhostsOf(owner, r)
      BY <1>1 DEF GhostsOf, HaloNow, Ascending, Nth
    <2>2. ghosts'[p] = GhostsOf(owner, p)
      <3>1. ghosts' = [r \in Proc |-> GhostsOf(Owner, r)']  BY DEF GridInv
      <3> QED  BY <2>1, <3>1
    <2> QED  BY <1>1, <1>4, <2>2 DEF Stored, Array
  <1>6. /\ array \in Seq(Cells) /\ \A i, j \in DOMAIN array : array[i] = array[j] => i = j
        /\ \A c \in Cells : HaloNow(owner, p, c) \in {"full", "empty", "owned"} => \E k \in DOMAIN array : array[k] = c
    <2>1. PICK mn : mn = own[p]  OBVIOUS
    <2> QED  BY <1>2, <1>3, <1>4, <2>1, ArrayFacts
  <1>7. ASSUME NEW c \in Cells, setting.all PROVE Index(array, c) # 0
    <2>1. HaloNow(owner, p, c) \in {"full", "owned"}
      <3>1. CASE owner[c] = p  BY <1>2, <3>1, HaloFacts
      <3>2. CASE owner[c] # p  BY <1>2, <1>7, <3>2, HaloFacts
      <3> QED  BY <3>1, <3>2
    <2>2. PICK k \in DOMAIN array : array[k] = c  BY <1>6, <2>1
    <2>3. Index(array, c) = k  BY <1>6, <2>2, IndexFacts
    <2>4. k # 0  BY <1>6
    <2> QED  BY <2>3, <2>4
  <1>8. \A c : Index(Stored(p), c)' = Index(array, c)  BY <1>5 DEF Index
  <1> QED  BY <1>7, <1>8

-----------------------------------------------------------------------------
(* The contribute that is the t-th.                                        *)
LEMMA ContributeAt ==
  ASSUME setting.script \in Seq(Calls), NEW n \in DOMAIN setting.script, setting.script[n] = "contribute"
  PROVE  ContributeOf(Before(n, "contribute") + 1) = n
PROOF
  <1>1. DOMAIN setting.script \subseteq Nat  OBVIOUS
  <1>2. \A m \in Nat : Before(m, "contribute") \in Nat  BY BeforeStep
  <1>3. ASSUME NEW m \in DOMAIN setting.script, setting.script[m] = "contribute",
               Before(m, "contribute") + 1 = Before(n, "contribute") + 1
        PROVE  m = n
    <2>1. m \in Nat /\ n \in Nat  BY <1>1
    <2>2. Before(m, "contribute") = Before(n, "contribute")  BY <1>2, <1>3, <2>1
    <2>3. CASE m < n
      <3>1. Before(m, "contribute") < Before(n, "contribute")  BY <1>3, <2>1, <2>3, BeforeGrows
      <3> QED  BY <1>2, <2>1, <2>2, <3>1
    <2>4. CASE n < m
      <3>1. Before(n, "contribute") < Before(m, "contribute")  BY <2>1, <2>4, BeforeGrows
      <3> QED  BY <1>2, <2>1, <2>2, <3>1
    <2> QED  BY <2>1, <2>3, <2>4
  <1> QED  BY <1>3 DEF ContributeOf

LEMMA ContributeEarlier ==
  ASSUME setting.script \in Seq(Calls), NEW n \in 1 .. Len(setting.script) + 1,
         NEW t \in Nat, 1 <= t, t <= Before(n, "contribute")
  PROVE  /\ ContributeOf(t) \in DOMAIN setting.script /\ setting.script[ContributeOf(t)] = "contribute"
         /\ ContributeOf(t) < n /\ ContributeOf(t) \in Nat
PROOF
  <1> DEFINE S == {m \in 1 .. Len(setting.script) + 1 : t <= Before(m, "contribute")}
  <1>1. Len(setting.script) \in Nat /\ DOMAIN setting.script = 1 .. Len(setting.script)  OBVIOUS
  <1>2. PICK m \in S : \A l \in S : m <= l
    <2>1. S \subseteq Nat /\ n \in S  BY <1>1
    <2> HIDE DEF S
    <2> QED  BY <2>1, LeastNat
  <1>3. m \in 1 .. Len(setting.script) + 1 /\ t <= Before(m, "contribute") /\ m <= n /\ m \in Nat /\ n \in Nat
    <2>1. n \in S  OBVIOUS
    <2> QED  BY <1>1, <1>2, <2>1
  <1>4. m # 1
    <2>1. Before(1, "contribute") = 0  BY BeforeStep
    <2> QED  BY <1>3, <2>1
  <1>5. PICK l \in DOMAIN setting.script : l + 1 = m /\ l \in Nat /\ l < m
    <2>1. m - 1 \in DOMAIN setting.script /\ (m - 1) + 1 = m /\ m - 1 \in Nat /\ m - 1 < m  BY <1>1, <1>3, <1>4
    <2> QED  BY <2>1
  <1>6. Before(l, "contribute") \in Nat /\ Before(l, "contribute") < t
    <2>1. Before(l, "contribute") \in Nat  BY <1>5, BeforeStep
    <2>2. l \notin S  BY <1>2, <1>3, <1>5
    <2>3. l \in 1 .. Len(setting.script) + 1  BY <1>1
    <2> QED  BY <2>1, <2>2, <2>3
  <1>7. Before(m, "contribute") = Before(l, "contribute") + (IF setting.script[l] = "contribute" THEN 1 ELSE 0)
    BY <1>5, BeforeStep
  <1>8. setting.script[l] = "contribute" /\ Before(l, "contribute") + 1 = t
    BY <1>3, <1>6, <1>7
  <1>9. ContributeOf(t) = l  BY <1>8, ContributeAt
  <1> QED  BY <1>3, <1>5, <1>8, <1>9

-----------------------------------------------------------------------------
(* What the tallies before a call give does not change while the grid and  *)
(* these tallies do not.                                                   *)
LEMMA TalliesKept ==
  ASSUME setting' = setting, UNCHANGED grid, NEW q, NEW n, \A m \in 1 .. n - 1 : hits'[q][m] = hits[q][m]
  PROVE  /\ \A p : DatumsTo(q, p, n)' = DatumsTo(q, p, n)
         /\ \A c : Hits(q, c, n)' = Hits(q, c, n)
         /\ Tallies(q, n)' = Tallies(q, n)
PROOF
  <1>1. /\ Owner' = Owner /\ mine' = mine
        /\ \A p : Stored(p)' = Stored(p)
    BY GridKept
  <1>2. Window(n)' = Window(n)  BY DEF Window
  <1>3. \A m \in Window(n) : hits'[q][m] = hits[q][m]  BY DEF Window
  <1>4. Tallies(q, n)' = Tallies(q, n)
    <2>1. Tallies(q, n)' = {hits'[q][m] : m \in Window(n)} \ {0}  BY <1>2 DEF Tallies
    <2>2. {hits'[q][m] : m \in Window(n)} = {hits[q][m] : m \in Window(n)}  BY <1>3
    <2> QED  BY <2>1, <2>2 DEF Tallies
  <1>5. \A c : Hits(q, c, n)' = Hits(q, c, n)
    <2> TAKE c
    <2>1. Hits(q, c, n)' = Cardinality({m \in Window(n) : hits'[q][m] = c})  BY <1>2 DEF Hits
    <2>2. {m \in Window(n) : hits'[q][m] = c} = {m \in Window(n) : hits[q][m] = c}  BY <1>3
    <2> QED  BY <2>1, <2>2 DEF Hits
  <1>6. OfGhosts(q, n)' = OfGhosts(q, n)
    <2>0. PICK a : a = Stored(q) /\ Stored(q)' = a  BY <1>1
    <2>1. \A c : Hashed(Stored(q), c)' = Hashed(Stored(q), c)
      <3> TAKE c
      <3>1. Hashed(Stored(q), c)' = Hashed(a, c)  BY <2>0 DEF Hashed, Index
      <3>2. Hashed(Stored(q), c) = Hashed(a, c)  BY <2>0
      <3> QED  BY <3>1, <3>2
    <2> QED  BY <1>1, <1>4, <2>1 DEF OfGhosts
  <1>7. \A p : Sent(q, p, n)' = Sent(q, p, n)
    BY <1>1, <1>6 DEF Sent
  <1>8. \A p : DatumsTo(q, p, n)' = DatumsTo(q, p, n)
    <2> TAKE p
    <2>1. PICK S : S = Sent(q, p, n)  OBVIOUS
    <2>2. DatumsTo(q, p, n)' = [m \in 1 .. Cardinality(S) |->
                        LET c == Nth(S, m) IN [cell |-> c, value |-> Hits(q, c, n)']]
      BY <1>7, <2>1 DEF DatumsTo
    <2>3. DatumsTo(q, p, n) = [m \in 1 .. Cardinality(S) |->
                        LET c == Nth(S, m) IN [cell |-> c, value |-> Hits(q, c, n)]]
      BY <2>1 DEF DatumsTo
    <2> QED  BY <1>5, <2>2, <2>3
  <1> QED  BY <1>4, <1>5, <1>8

-----------------------------------------------------------------------------
(* What was hit was known when it was, and is as long as no cells move.    *)
HitOk(q, m) == hits[q][m] # 0 =>
    /\ m < at[q] /\ setting.script[m] = "tally" /\ hits[q][m] \in Cells
    /\ setting.all \/ (\A b \in m .. at[q] - 1 : setting.script[b] # "balance") =>
         Index(Stored(q), hits[q][m]) # 0

LEMMA HitsByOne ==
  HitsInv <=> /\ hits \in [Proc -> [DOMAIN setting.script -> Nat]]
              /\ \A q \in Proc, m \in DOMAIN setting.script : HitOk(q, m)
BY DEF HitsInv, HitOk

LEMMA IndexKept ==
  ASSUME setting' = setting, UNCHANGED grid, NEW q, NEW c
  PROVE  Index(Stored(q), c)' = Index(Stored(q), c)
PROOF
  <1>1. PICK a : a = Stored(q) /\ Stored(q)' = a  BY GridKept
  <1>2. Index(Stored(q), c)' = Index(a, c)  BY <1>1 DEF Index
  <1> QED  BY <1>1, <1>2

LEMMA HitKept ==
  ASSUME CallsInv, NEW p \in Proc, NEW call, Advance(p, call), UNCHANGED grid,
         NEW q \in Proc, NEW m \in DOMAIN setting.script, HitOk(q, m), hits'[q][m] = hits[q][m]
  PROVE  HitOk(q, m)'
PROOF
  <1>1. setting' = setting  BY DEF Advance
  <1>2. at[q] \in Nat /\ at'[q] \in {at[q], at[q] + 1}  BY AdvanceFacts
  <1>3. m \in Nat
    <2>1. setting.script \in Seq(Calls)  BY CallFacts
    <2> QED  BY <2>1
  <1>4. PICK c : c = hits[q][m] /\ hits'[q][m] = c  OBVIOUS
  <1>5. Index(Stored(q), c)' = Index(Stored(q), c)  BY <1>1, IndexKept
  <1>6. SUFFICES ASSUME c # 0
                 PROVE  /\ m < at'[q] /\ setting.script[m] = "tally" /\ c \in Cells
                        /\ setting.all \/ (\A b \in m .. at'[q] - 1 : setting.script[b] # "balance") =>
                             Index(Stored(q), c) # 0
    <2>1. Index(Stored(q), hits[q][m])' = Index(Stored(q), c)'  BY <1>4
    <2> QED  BY <1>1, <1>4, <1>5, <2>1 DEF HitOk
  <1>7. /\ m < at[q] /\ setting.script[m] = "tally" /\ c \in Cells
        /\ setting.all \/ (\A b \in m .. at[q] - 1 : setting.script[b] # "balance") => Index(Stored(q), c) # 0
    BY <1>4, <1>6 DEF HitOk
  <1>8. m < at'[q]  BY <1>2, <1>3, <1>7
  <1>9. \A b \in m .. at[q] - 1 : b \in m .. at'[q] - 1  BY <1>2, <1>3
  <1> QED  BY <1>7, <1>8, <1>9

LEMMA HitsAdvance ==
  ASSUME CallsInv, HitsInv, NEW p \in Proc, NEW call, Advance(p, call), UNCHANGED grid, hits' = hits
  PROVE  HitsInv'
PROOF
  <1>1. setting' = setting  BY DEF Advance
  <1>2. \A q \in Proc, m \in DOMAIN setting.script : HitOk(q, m)'
    <2> TAKE q \in Proc, m \in DOMAIN setting.script
    <2>1. HitOk(q, m)  BY HitsByOne
    <2> QED  BY <2>1, HitKept
  <1>3. hits' \in [Proc -> [DOMAIN setting'.script -> Nat]]  BY <1>1, HitsByOne
  <1>4. (/\ hits \in [Proc -> [DOMAIN setting.script -> Nat]]
         /\ \A q \in Proc, m \in DOMAIN setting.script : HitOk(q, m))'
    BY <1>1, <1>2, <1>3
  <1> QED  BY <1>4 DEF HitsInv, HitOk

LEMMA TallyHits ==
  ASSUME CallsInv, GridInv, HitsInv, NEW p \in Proc, Tally(p)
  PROVE  /\ HitsInv'
         /\ \A q \in Proc, m \in DOMAIN setting.script : m < at[q] => hits'[q][m] = hits[q][m]
PROOF
  <1>1. Advance(p, "tally") /\ UNCHANGED grid  BY DEF Tally, Advance, Calls
  <1>2. setting' = setting /\ setting \in Settings  BY DEF Tally, CallsInv
  <1>3. PICK c \in {0} \union {d \in setting.surfs : HaloNow(Owner, p, d) \in {"owned", "full"}} :
          hits' = [hits EXCEPT ![p][at[p]] = c]
    BY DEF Tally
  <1>4. PICK n \in DOMAIN setting.script : n = at[p] /\ setting.script[n] = "tally" /\ n \in Nat /\ at'[p] = n + 1
    BY <1>1, AdvanceFacts
  <1>5. DOMAIN setting.script \subseteq Nat
    <2>1. setting.script \in Seq(Calls)  BY CallFacts
    <2> QED  BY <2>1
  <1>6. hits \in [Proc -> [DOMAIN setting.script -> Nat]]  BY DEF HitsInv
  <1>7. c \in Nat
    <2>1. setting.surfs \subseteq Nat
      <3>1. setting.surfs \subseteq Cells /\ Cells \subseteq Nat
        BY <1>2, SettingFacts, SizesAssumption DEF Cells
      <3> QED  BY <3>1
    <2> QED  BY <2>1
  <1>8. hits' \in [Proc -> [DOMAIN setting.script -> Nat]]
    <2>1. PICK row : row = [hits[p] EXCEPT ![n] = c]  OBVIOUS
    <2>2. row \in [DOMAIN setting.script -> Nat]  BY <1>6, <1>7, <2>1
    <2>3. hits' = [hits EXCEPT ![p] = row]  BY <1>3, <1>4, <2>1
    <2> QED  BY <1>6, <2>2, <2>3
  <1>9. \A q \in Proc, m \in DOMAIN setting.script :
          hits'[q][m] = IF q = p /\ m = n THEN c ELSE hits[q][m]
    BY <1>3, <1>4, <1>6
  <1>10. ASSUME c # 0 PROVE c \in Cells /\ Index(Stored(p), c) # 0
    <2>1. c \in setting.surfs /\ HaloNow(Owner, p, c) \in {"owned", "full"}  BY <1>3, <1>10
    <2>2. c \in Cells  BY <1>2, <2>1, SettingFacts
    <2>3. PICK k \in DOMAIN Stored(p) : Stored(p)[k] = c  BY <1>2, <2>1, <2>2, StoredFacts
    <2>4. Stored(p) \in Seq(Cells) /\ \A a, b \in DOMAIN Stored(p) : Stored(p)[a] = Stored(p)[b] => a = b
      BY <1>2, StoredFacts
    <2>5. Index(Stored(p), c) = k /\ k # 0  BY <2>3, <2>4, IndexFacts
    <2> QED  BY <2>2, <2>5
  <1>11. ASSUME NEW q \in Proc, NEW m \in DOMAIN setting.script PROVE HitOk(q, m)'
    <2>1. CASE ~(q = p /\ m = n)
      <3>1. HitOk(q, m)  BY HitsByOne
      <3> QED  BY <1>1, <1>9, <2>1, <3>1, HitKept
    <2>2. CASE q = p /\ m = n
      <3>1. hits'[q][m] = c  BY <1>9, <2>2
      <3>2. Index(Stored(p), c)' = Index(Stored(p), c)  BY <1>1, <1>2, IndexKept
      <3>3. Index(Stored(q), hits[q][m])' = Index(Stored(p), c)'  BY <2>2, <3>1
      <3>4. m < at'[q] /\ setting'.script[m] = "tally"  BY <1>2, <1>4, <2>2
      <3>5. hits'[q][m] # 0 => hits'[q][m] \in Cells /\ Index(Stored(q), hits[q][m])' # 0
        BY <1>10, <3>1, <3>2, <3>3
      <3> QED  BY <3>4, <3>5 DEF HitOk
    <2> QED  BY <2>1, <2>2
  <1>12. (/\ hits \in [Proc -> [DOMAIN setting.script -> Nat]]
          /\ \A q \in Proc, m \in DOMAIN setting.script : HitOk(q, m))'
    BY <1>2, <1>8, <1>11
  <1>13. \A q \in Proc, m \in DOMAIN setting.script : m < at[q] => ~(q = p /\ m = n)  BY <1>4
  <1> QED  BY <1>9, <1>12, <1>13 DEF HitsInv, HitOk

LEMMA BalanceHits ==
  ASSUME CallsInv, GridInv, HitsInv, Balance
  PROVE  HitsInv'
PROOF
  <1>1. setting' = setting /\ setting \in Settings /\ hits' = hits  BY DEF Balance, CallsInv
  <1>2. GridInv'  BY <1>1, BalanceGrid
  <1>3. PICK n \in DOMAIN setting.script : /\ setting.script[n] = "balance"
                                           /\ \A p \in Proc : at[p] = n /\ at'[p] = n + 1
    BY BalanceFacts
  <1>4. DOMAIN setting.script \subseteq Nat
    <2>1. PICK p \in Proc : TRUE  BY ProcsFinite
    <2>2. setting.script \in Seq(Calls)  BY CallFacts
    <2> QED  BY <2>2
  <1>5. ASSUME NEW q \in Proc, NEW m \in DOMAIN setting.script PROVE HitOk(q, m)'
    <2>1. PICK c : c = hits[q][m] /\ hits'[q][m] = c  BY <1>1
    <2>2. c # 0 => m < n /\ setting.script[m] = "tally" /\ c \in Cells
      <3>1. HitOk(q, m)  BY HitsByOne
      <3> QED  BY <1>3, <2>1, <3>1 DEF HitOk
    <2>3. c # 0 => m < at'[q]  BY <1>3, <1>4, <2>2
    <2>4. c # 0 => n \in m .. at'[q] - 1  BY <1>3, <1>4, <2>2
    <2>5. c # 0 /\ setting.all => Index(Stored(q), c)' # 0
      BY <1>1, <1>2, <2>2, StoredAfter
    <2>6. Index(Stored(q), hits[q][m])' = Index(Stored(q), c)'  BY <2>1
    <2> QED  BY <1>1, <1>3, <2>1, <2>2, <2>3, <2>4, <2>5, <2>6 DEF HitOk
  <1>6. (/\ hits \in [Proc -> [DOMAIN setting.script -> Nat]]
         /\ \A q \in Proc, m \in DOMAIN setting.script : HitOk(q, m))'
    BY <1>1, <1>5 DEF HitsInv
  <1> QED  BY <1>6 DEF HitsInv, HitOk

-----------------------------------------------------------------------------
(* While no cells move, what a process tallied since the last collate is   *)
(* what it knows.                                                          *)
LEMMA TalliesKnown ==
  ASSUME CallsInv, HitsInv, NEW q \in Proc, NEW n \in DOMAIN setting.script, n <= at[q],
         \A b \in n .. at[q] - 1 : setting.script[b] # "balance",
         NEW c \in Tallies(q, n)
  PROVE  c \in Cells /\ Index(Stored(q), c) # 0
PROOF
  <1>1. setting \in Settings  BY DEF CallsInv
  <1>2. PICK m \in Window(n) : c = hits[q][m] /\ c # 0  BY DEF Tallies
  <1>3. n \in Nat /\ at[q] \in Nat /\ DOMAIN setting.script = 1 .. Len(setting.script) /\ Len(setting.script) \in Nat
    BY CallFacts
  <1>4. m \in 1 .. n - 1 /\ \A k \in m .. n - 1 : setting.script[k] # "collate"  BY DEF Window
  <1>5. m \in DOMAIN setting.script /\ m < n  BY <1>3, <1>4
  <1>6. /\ setting.script[m] = "tally" /\ c \in Cells
        /\ setting.all \/ (\A b \in m .. at[q] - 1 : setting.script[b] # "balance") => Index(Stored(q), c) # 0
    <2>1. HitOk(q, m)  BY <1>5, HitsByOne
    <2> QED  BY <1>2, <2>1 DEF HitOk
  <1>7. CASE setting.all  BY <1>6, <1>7
  <1>8. CASE ~setting.all
    <2>1. ASSUME NEW b \in m .. n - 1, setting.script[b] = "balance" PROVE FALSE
      <3>1. b \in DOMAIN setting.script /\ m < b
        <4>1. b # m  BY <1>6, <2>1
        <4> QED  BY <1>3, <1>4, <4>1
      <3>2. PICK k \in m .. b : setting.script[k] = "collate"
        BY <1>1, <1>5, <1>6, <1>8, <2>1, <3>1, SettingFacts
      <3>3. k \in m .. n - 1  BY <1>3, <1>4, <3>1
      <3> QED  BY <1>4, <3>2, <3>3
    <2>2. \A b \in m .. at[q] - 1 : b \in m .. n - 1 \/ b \in n .. at[q] - 1  BY <1>3, <1>4
    <2> QED  BY <1>6, <2>1, <2>2
  <1> QED  BY <1>7, <1>8

-----------------------------------------------------------------------------
(* Tallies on their way: what each process contributed and the other did   *)
(* not collate yet.                                                        *)
OldHits == \A q \in Proc, m \in DOMAIN setting.script : m < at[q] => hits'[q][m] = hits[q][m]

LEMMA DatumsOld ==
  ASSUME CallsInv, setting' = setting, UNCHANGED grid, OldHits,
         NEW q \in Proc, NEW p, NEW t \in Nat, 1 <= t, t <= Times(q, "contribute")
  PROVE  DatumsTo(q, p, ContributeOf(t))' = DatumsTo(q, p, ContributeOf(t))
PROOF
  <1>1. /\ setting.script \in Seq(Calls) /\ DOMAIN setting.script = 1 .. Len(setting.script)
        /\ Len(setting.script) \in Nat /\ at[q] \in 1 .. Len(setting.script) + 1
    BY CallFacts
  <1>2. t <= Before(at[q], "contribute")  BY TimesBefore
  <1>3. PICK n : n = ContributeOf(t)  OBVIOUS
  <1>4. n \in DOMAIN setting.script /\ n < at[q] /\ n \in Nat  BY <1>1, <1>2, <1>3, ContributeEarlier
  <1>5. \A m \in 1 .. n - 1 : hits'[q][m] = hits[q][m]
    <2> TAKE m \in 1 .. n - 1
    <2>1. m \in DOMAIN setting.script /\ m < at[q]  BY <1>1, <1>4
    <2> QED  BY <2>1 DEF OldHits
  <1>6. DatumsTo(q, p, n)' = DatumsTo(q, p, n)  BY <1>5, TalliesKept
  <1>7. ContributeOf(t)' = n  BY <1>3 DEF ContributeOf, Before
  <1>8. DatumsTo(q, p, ContributeOf(t))' = DatumsTo(q, p, n)'  BY <1>7
  <1> QED  BY <1>3, <1>6, <1>8

(* The queue from q to p, when u of v are collated.                        *)
Queue(q, p, u, v) == u <= v /\ datums[q][p] = [j \in 1 .. v - u |-> DatumsTo(q, p, ContributeOf(u + j))]

LEMMA DatumsByTwo ==
  DatumsInv <=> /\ datums = [q \in Proc |-> [p \in Proc |-> datums[q][p]]]
                /\ \A q, p \in Proc : Queue(q, p, Times(p, "collate"), Times(q, "contribute"))
BY DEF DatumsInv, Queue

LEMMA DatumsNext ==
  ASSUME datums' = [q \in Proc |-> [p \in Proc |-> datums'[q][p]]],
         \A q, p \in Proc : Queue(q, p, Times(p, "collate"), Times(q, "contribute"))'
  PROVE  DatumsInv'
PROOF
  <1>1. (/\ datums = [q \in Proc |-> [p \in Proc |-> datums[q][p]]]
         /\ \A q, p \in Proc : Queue(q, p, Times(p, "collate"), Times(q, "contribute")))'
    OBVIOUS
  <1> QED  BY <1>1 DEF DatumsInv, Queue

LEMMA QueueKept ==
  ASSUME CallsInv, setting' = setting, UNCHANGED grid, OldHits, NEW q \in Proc, NEW p \in Proc,
         NEW u \in Nat, NEW v \in Nat, v = Times(q, "contribute"), Queue(q, p, u, v),
         datums'[q][p] = datums[q][p]
  PROVE  Queue(q, p, u, v)'
PROOF
  <1>1. \A j \in 1 .. v - u : DatumsTo(q, p, ContributeOf(u + j))' = DatumsTo(q, p, ContributeOf(u + j))
    <2> TAKE j \in 1 .. v - u
    <2>1. PICK t \in Nat : t = u + j /\ 1 <= t /\ t <= v
      <3>1. u + j \in Nat /\ 1 <= u + j /\ u + j <= v  OBVIOUS
      <3> QED  BY <3>1
    <2> QED  BY <2>1, DatumsOld
  <1>2. datums[q][p] = [j \in 1 .. v - u |-> DatumsTo(q, p, ContributeOf(u + j))] /\ u <= v  BY DEF Queue
  <1>3. datums'[q][p] = [j \in 1 .. v - u |-> DatumsTo(q, p, ContributeOf(u + j))']  BY <1>1, <1>2
  <1> QED  BY <1>2, <1>3 DEF Queue

LEMMA DatumsKept ==
  ASSUME CallsInv, DatumsInv, setting' = setting, UNCHANGED grid, OldHits, datums' = datums,
         \A p \in Proc : /\ Times(p, "contribute")' = Times(p, "contribute") /\ Times(p, "contribute") \in Nat
                         /\ Times(p, "collate")' = Times(p, "collate") /\ Times(p, "collate") \in Nat
  PROVE  DatumsInv'
PROOF
  <1>1. ASSUME NEW q \in Proc, NEW p \in Proc
        PROVE  Queue(q, p, Times(p, "collate"), Times(q, "contribute"))'
    <2>1. PICK u \in Nat, v \in Nat : u = Times(p, "collate") /\ v = Times(q, "contribute")  OBVIOUS
    <2>2. Queue(q, p, u, v)  BY <2>1, DatumsByTwo
    <2>3. datums'[q][p] = datums[q][p]  OBVIOUS
    <2>4. Queue(q, p, u, v)'  BY <2>1, <2>2, <2>3, QueueKept
    <2>5. Times(p, "collate")' = u /\ Times(q, "contribute")' = v  BY <2>1
    <2> QED  BY <2>4, <2>5
  <1>2. datums' = [q \in Proc |-> [p \in Proc |-> datums'[q][p]]]  BY DatumsByTwo
  <1> QED  BY <1>1, <1>2, DatumsNext

LEMMA ContributeDatums ==
  ASSUME CallsInv, DatumsInv, NEW p \in Proc, Contribute(p)
  PROVE  DatumsInv'
PROOF
  <1>1. Advance(p, "contribute")  BY DEF Contribute, Advance, Calls
  <1>2. setting' = setting /\ UNCHANGED grid /\ OldHits  BY DEF Contribute, OldHits
  <1>3. PICK v \in Nat : v = Times(p, "contribute")
    BY <1>1, TimesAdvance DEF Calls
  <1>4. \A q \in Proc : /\ Times(q, "contribute")' = (IF q = p THEN v + 1 ELSE Times(q, "contribute"))
                        /\ Times(q, "collate")' = Times(q, "collate")
                        /\ Times(q, "contribute") \in Nat /\ Times(q, "collate") \in Nat
    <2> TAKE q \in Proc
    <2>1. Times(q, "contribute")' = Times(q, "contribute") + (IF q = p THEN 1 ELSE 0) /\ Times(q, "contribute") \in Nat
      BY <1>1, TimesAdvance DEF Calls
    <2>2. Times(q, "collate")' = Times(q, "collate") /\ Times(q, "collate") \in Nat
      BY <1>1, TimesAdvance DEF Calls
    <2> QED  BY <1>3, <2>1, <2>2
  <1>5. datums = [q \in Proc |-> [r \in Proc |-> datums[q][r]]]  BY DatumsByTwo
  <1>6. PICK n \in DOMAIN setting.script : n = at[p] /\ setting.script[n] = "contribute"  BY <1>1, AdvanceFacts
  <1>7. setting.script \in Seq(Calls) /\ n \in Nat
    <2>1. setting.script \in Seq(Calls)  BY CallFacts
    <2> QED  BY <2>1
  <1>8. datums' = [q \in Proc |-> [r \in Proc |->
                     IF q = p THEN Append(datums[p][r], DatumsTo(p, r, n)) ELSE datums[q][r]]]
    <2>1. datums' = [datums EXCEPT ![p] = [r \in Proc |-> Append(datums[p][r], DatumsTo(p, r, n))]]
      BY <1>6 DEF Contribute
    <2>2. PICK row : row = [r \in Proc |-> Append(datums[p][r], DatumsTo(p, r, n))]  OBVIOUS
    <2>3. datums' = [q \in Proc |-> IF q = p THEN row ELSE datums[q]]  BY <1>5, <2>1, <2>2
    <2>4. \A q \in Proc : datums[q] = [r \in Proc |-> datums[q][r]]  BY <1>5
    <2>5. ASSUME NEW q \in Proc
          PROVE  (IF q = p THEN row ELSE datums[q]) = [r \in Proc |->
                     IF q = p THEN Append(datums[p][r], DatumsTo(p, r, n)) ELSE datums[q][r]]
      <3>1. CASE q = p  BY <2>2, <3>1
      <3>2. CASE q # p  BY <2>4, <3>2
      <3> QED  BY <3>1, <3>2
    <2> QED  BY <2>3, <2>5
  <1>9. ContributeOf(v + 1) = n
    <2>1. v = Before(n, "contribute")  BY <1>3, <1>6, TimesBefore
    <2> QED  BY <1>6, <1>7, <2>1, ContributeAt
  <1>10. ASSUME NEW q \in Proc, NEW r \in Proc
         PROVE  Queue(q, r, Times(r, "collate"), Times(q, "contribute"))'
    <2>1. PICK u \in Nat : u = Times(r, "collate") /\ Times(r, "collate")' = u  BY <1>4
    <2>2. CASE q # p
      <3>1. PICK w \in Nat : w = Times(q, "contribute") /\ Times(q, "contribute")' = w  BY <1>4, <2>2
      <3>2. Queue(q, r, u, w)  BY <2>1, <3>1, DatumsByTwo
      <3>3. datums'[q][r] = datums[q][r]  BY <1>8, <2>2
      <3>4. Queue(q, r, u, w)'  BY <1>2, <3>1, <3>2, <3>3, QueueKept
      <3> QED  BY <2>1, <3>1, <3>4
    <2>3. CASE q = p
      <3>1. Queue(p, r, u, v)  BY <1>3, <2>1, DatumsByTwo
      <3>2. PICK s : s = datums[p][r]  OBVIOUS
      <3>3. u <= v /\ s = [j \in 1 .. v - u |-> DatumsTo(p, r, ContributeOf(u + j))]  BY <3>1, <3>2 DEF Queue
      <3>4. PICK k \in Nat : k = v - u  BY <3>3
      <3>5. s = [j \in 1 .. k |-> s[j]]  BY <3>3, <3>4
      <3>6. PICK e : e = DatumsTo(p, r, n)  OBVIOUS
      <3>7. Append(s, e) = [j \in 1 .. k + 1 |-> IF j <= k THEN s[j] ELSE e]  BY <3>5, QueueAppend
      <3>8. datums'[p][r] = Append(s, e)  BY <1>8, <3>2, <3>6
      <3>9. ASSUME NEW j \in 1 .. k + 1
            PROVE  (IF j <= k THEN s[j] ELSE e) = DatumsTo(p, r, ContributeOf(u + j))'
        <4>1. CASE j <= k
          <5>1. s[j] = DatumsTo(p, r, ContributeOf(u + j))  BY <3>3, <3>4, <4>1
          <5>2. PICK t \in Nat : t = u + j /\ 1 <= t /\ t <= v
            <6>1. u + j \in Nat /\ 1 <= u + j /\ u + j <= v  BY <3>4, <4>1
            <6> QED  BY <6>1
          <5>3. DatumsTo(p, r, ContributeOf(t))' = DatumsTo(p, r, ContributeOf(t))  BY <1>2, <1>3, <5>2, DatumsOld
          <5> QED  BY <4>1, <5>1, <5>2, <5>3
        <4>2. CASE ~(j <= k)
          <5>1. u + j = v + 1  BY <3>4, <4>2
          <5>2. ContributeOf(v + 1)' = n
            <6>1. ContributeOf(v + 1)' = ContributeOf(v + 1)  BY <1>2 DEF ContributeOf, Before
            <6> QED  BY <1>9, <6>1
          <5>3. DatumsTo(p, r, n)' = DatumsTo(p, r, n)
            <6>1. \A m \in 1 .. n - 1 : hits'[p][m] = hits[p][m]  BY DEF Contribute
            <6> QED  BY <1>2, <6>1, TalliesKept
          <5>4. DatumsTo(p, r, ContributeOf(u + j))' = DatumsTo(p, r, n)'  BY <5>1, <5>2
          <5> QED  BY <3>6, <4>2, <5>3, <5>4
        <4> QED  BY <4>1, <4>2
      <3>10. k + 1 = (v + 1) - u /\ u <= v + 1  BY <3>3, <3>4
      <3>11. datums'[p][r] = [j \in 1 .. (v + 1) - u |-> DatumsTo(p, r, ContributeOf(u + j))']
        BY <3>7, <3>8, <3>9, <3>10
      <3>12. Queue(p, r, u, v + 1)'  BY <3>10, <3>11 DEF Queue
      <3>13. Times(p, "contribute")' = v + 1  BY <1>4
      <3> QED  BY <2>1, <2>3, <3>12, <3>13
    <2> QED  BY <2>2, <2>3
  <1>11. datums' = [q \in Proc |-> [r \in Proc |-> datums'[q][r]]]  BY <1>8
  <1> QED  BY <1>10, <1>11, DatumsNext

LEMMA CollateDatums ==
  ASSUME CallsInv, DatumsInv, NEW p \in Proc, Collate(p)
  PROVE  DatumsInv'
PROOF
  <1>1. Advance(p, "collate")  BY DEF Collate, Advance, Calls
  <1>2. setting' = setting /\ UNCHANGED grid /\ OldHits  BY DEF Collate, OldHits
  <1>3. PICK u \in Nat : u = Times(p, "collate")
    BY <1>1, TimesAdvance DEF Calls
  <1>4. \A q \in Proc : /\ Times(q, "collate")' = (IF q = p THEN u + 1 ELSE Times(q, "collate"))
                        /\ Times(q, "contribute")' = Times(q, "contribute")
                        /\ Times(q, "contribute") \in Nat /\ Times(q, "collate") \in Nat
    <2> TAKE q \in Proc
    <2>1. Times(q, "collate")' = Times(q, "collate") + (IF q = p THEN 1 ELSE 0) /\ Times(q, "collate") \in Nat
      BY <1>1, TimesAdvance DEF Calls
    <2>2. Times(q, "contribute")' = Times(q, "contribute") /\ Times(q, "contribute") \in Nat
      BY <1>1, TimesAdvance DEF Calls
    <2> QED  BY <1>3, <2>1, <2>2
  <1>5. datums = [q \in Proc |-> [r \in Proc |-> datums[q][r]]]  BY DatumsByTwo
  <1>6. datums' = [q \in Proc |-> [r \in Proc |-> IF r = p THEN Tail(datums[q][p]) ELSE datums[q][r]]]
    <2>1. datums' = [q \in Proc |-> [datums[q] EXCEPT ![p] = Tail(@)]]  BY DEF Collate
    <2>2. ASSUME NEW q \in Proc
          PROVE  [datums[q] EXCEPT ![p] = Tail(@)] = [r \in Proc |-> IF r = p THEN Tail(datums[q][p]) ELSE datums[q][r]]
      <3>1. PICK row : row = datums[q]  OBVIOUS
      <3>2. row = [r \in Proc |-> row[r]]  BY <1>5, <3>1
      <3>3. [row EXCEPT ![p] = Tail(@)] = [r \in Proc |-> IF r = p THEN Tail(row[p]) ELSE row[r]]  BY <3>2
      <3> QED  BY <3>1, <3>3
    <2> QED  BY <2>1, <2>2
  <1>7. ASSUME NEW q \in Proc, NEW r \in Proc
        PROVE  Queue(q, r, Times(r, "collate"), Times(q, "contribute"))'
    <2>1. PICK v \in Nat : v = Times(q, "contribute") /\ Times(q, "contribute")' = v  BY <1>4
    <2>2. CASE r # p
      <3>1. PICK w \in Nat : w = Times(r, "collate") /\ Times(r, "collate")' = w  BY <1>4, <2>2
      <3>2. Queue(q, r, w, v)  BY <2>1, <3>1, DatumsByTwo
      <3>3. datums'[q][r] = datums[q][r]  BY <1>6, <2>2
      <3>4. Queue(q, r, w, v)'  BY <1>2, <2>1, <3>2, <3>3, QueueKept
      <3> QED  BY <2>1, <3>1, <3>4
    <2>3. CASE r = p
      <3>1. Queue(q, p, u, v)  BY <1>3, <2>1, DatumsByTwo
      <3>2. PICK s : s = datums[q][p]  OBVIOUS
      <3>3. u <= v /\ s = [j \in 1 .. v - u |-> DatumsTo(q, p, ContributeOf(u + j))]  BY <3>1, <3>2 DEF Queue
      <3>4. PICK k \in Nat : k = v - u  BY <3>3
      <3>5. s = [j \in 1 .. k |-> s[j]] /\ s # <<>>
        <4>1. s # <<>>  BY <3>2 DEF Collate
        <4> QED  BY <3>3, <3>4, <4>1
      <3>6. k >= 1 /\ Tail(s) = [j \in 1 .. k - 1 |-> s[j + 1]]  BY <3>5, QueueTail
      <3>7. datums'[q][p] = Tail(s)  BY <1>6, <3>2
      <3>8. ASSUME NEW j \in 1 .. k - 1
            PROVE  s[j + 1] = DatumsTo(q, p, ContributeOf((u + 1) + j))'
        <4>1. PICK t \in Nat : t = (u + 1) + j /\ t = u + (j + 1) /\ 1 <= t /\ t <= v /\ j + 1 \in 1 .. v - u
          <5>1. (u + 1) + j \in Nat /\ (u + 1) + j = u + (j + 1) /\ 1 <= (u + 1) + j /\ (u + 1) + j <= v
                /\ j + 1 \in 1 .. v - u
            BY <3>4
          <5> QED  BY <5>1
        <4>2. s[j + 1] = DatumsTo(q, p, ContributeOf(t))  BY <3>3, <4>1
        <4>3. DatumsTo(q, p, ContributeOf(t))' = DatumsTo(q, p, ContributeOf(t))  BY <1>2, <2>1, <4>1, DatumsOld
        <4> QED  BY <4>1, <4>2, <4>3
      <3>9. k - 1 = v - (u + 1) /\ u + 1 <= v  BY <3>3, <3>4, <3>6
      <3>10. datums'[q][p] = [j \in 1 .. v - (u + 1) |-> DatumsTo(q, p, ContributeOf((u + 1) + j))']
        BY <3>6, <3>7, <3>8, <3>9
      <3>11. Queue(q, p, u + 1, v)'  BY <3>9, <3>10 DEF Queue
      <3>12. Times(p, "collate")' = u + 1  BY <1>4
      <3> QED  BY <2>1, <2>3, <3>11, <3>12
    <2> QED  BY <2>2, <2>3
  <1>8. datums' = [q \in Proc |-> [r \in Proc |-> datums'[q][r]]]  BY <1>6
  <1> QED  BY <1>7, <1>8, DatumsNext

LEMMA NoDatums ==
  ASSUME NEW q, NEW p, NEW u \in Nat
  PROVE  [j \in 1 .. u - u |-> DatumsTo(q, p, ContributeOf(u + j))] = <<>>
PROOF
  <1>1. 1 .. u - u = {}  OBVIOUS
  <1> QED  BY <1>1

LEMMA BalanceDatums ==
  ASSUME CallsInv, DatumsInv, Balance
  PROVE  DatumsInv'
PROOF
  <1>1. datums' = datums  BY DEF Balance
  <1>2. PICK u \in Nat : \A q \in Proc :
          /\ Times(q, "contribute") = u /\ Times(q, "collate") = u
          /\ Times(q, "contribute")' = u /\ Times(q, "collate")' = u
    BY TimesBalance
  <1>3. datums = [q \in Proc |-> [p \in Proc |-> datums[q][p]]]  BY DatumsByTwo
  <1>4. ASSUME NEW q \in Proc, NEW p \in Proc PROVE Queue(q, p, Times(p, "collate"), Times(q, "contribute"))'
    <2>1. Queue(q, p, u, u)  BY <1>2, DatumsByTwo
    <2>2. 1 .. u - u = {}  OBVIOUS
    <2>3. datums[q][p] = <<>>  BY <2>1, NoDatums DEF Queue
    <2>4. [j \in 1 .. u - u |-> DatumsTo(q, p, ContributeOf(u + j))'] = <<>>  BY <2>2
    <2>5. datums'[q][p] = [j \in 1 .. u - u |-> DatumsTo(q, p, ContributeOf(u + j))']  BY <1>1, <2>3, <2>4
    <2>6. Queue(q, p, u, u)'  BY <2>5 DEF Queue
    <2> QED  BY <1>2, <2>6
  <1> QED  BY <1>1, <1>3, <1>4, DatumsNext

-----------------------------------------------------------------------------
(* Sums of the tallies of a cell.                                          *)
LEMMA SumOfOne ==
  ASSUME NEW S, NEW f, f = [x \in S |-> f[x]], NEW a, NEW v \in Int,
         S \subseteq {a}, a \in S => f[a] = v
  PROVE  SumOf(f) = IF a \in S THEN v ELSE 0
PROOF
  <1>1. SumOf(f) = SumOver(f, S)
    <2>1. DOMAIN f = S  OBVIOUS
    <2> QED  BY <2>1 DEF SumOf, SumOver
  <1>2. CASE a \in S
    <2>1. S = {a}  BY <1>2
    <2>2. SumOver(f, {a}) = f[a]  BY <1>2, SumSingle
    <2> QED  BY <1>1, <1>2, <2>1, <2>2
  <1>3. CASE a \notin S
    <2>1. S = {}  BY <1>3
    <2> QED  BY <1>1, <1>3, <2>1, SumEmpty
  <1> QED  BY <1>2, <1>3

LEMMA HitsFacts ==
  ASSUME NEW q, NEW n \in Nat
  PROVE  \A c : Hits(q, c, n) \in Nat /\ (c # 0 /\ c \notin Tallies(q, n) => Hits(q, c, n) = 0)
PROOF
  <1> TAKE c
  <1>1. PICK W : W = Window(n)  OBVIOUS
  <1>2. IsFiniteSet(W)
    <2>1. IsFiniteSet(1 .. n - 1)  BY FS_Interval
    <2>2. W \subseteq 1 .. n - 1  BY <1>1 DEF Window
    <2> QED  BY <2>1, <2>2, FS_Subset
  <1>3. PICK H : H = {m \in W : hits[q][m] = c}  OBVIOUS
  <1>4. IsFiniteSet(H)  BY <1>2, <1>3, FS_Subset
  <1>5. Cardinality(H) \in Nat  BY <1>4, FS_CardinalityType
  <1>6. Hits(q, c, n) = Cardinality(H)  BY <1>1, <1>3 DEF Hits
  <1>7. c # 0 /\ c \notin Tallies(q, n) => H = {}  BY <1>1, <1>3 DEF Tallies
  <1> QED  BY <1>5, <1>6, <1>7, FS_EmptySet

LEMMA StoredIndex ==
  ASSUME setting \in Settings, GridInv, NEW p \in Proc
  PROVE  /\ \A k \in DOMAIN mine[p] : /\ Index(Stored(p), mine[p][k]) = k /\ k # 0 /\ k <= Len(mine[p])
                                      /\ Hashed(Stored(p), mine[p][k]) = k
         /\ \A c : Index(Stored(p), c) # 0 =>
              /\ Hashed(Stored(p), c) = Index(Stored(p), c) /\ Index(Stored(p), c) \in DOMAIN Stored(p)
              /\ Stored(p)[Index(Stored(p), c)] = c /\ Index(Stored(p), c) \in Nat
         /\ Len(mine[p]) \in Nat
PROOF
  <1>1. PICK s : s = Stored(p)  OBVIOUS
  <1>2. /\ s \in Seq(Cells) /\ \A i, j \in DOMAIN s : s[i] = s[j] => i = j
        /\ Len(mine[p]) \in Nat /\ DOMAIN mine[p] = 1 .. Len(mine[p]) /\ DOMAIN mine[p] \subseteq DOMAIN s
        /\ \A k \in DOMAIN mine[p] : s[k] = mine[p][k]
    BY <1>1, StoredFacts
  <1>3. /\ \A k \in DOMAIN s : Index(s, s[k]) = k
        /\ \A c : Index(s, c) # 0 => Index(s, c) \in DOMAIN s /\ s[Index(s, c)] = c
        /\ \A c : Index(s, c) \in 0 .. Len(s)
    BY <1>2, IndexFacts
  <1>4. Len(s) \in Nat  BY <1>2
  <1>5. \A c : Index(s, c) # 0 => Hashed(s, c) = Index(s, c)  BY DEF Hashed
  <1>6. \A k \in DOMAIN mine[p] : Index(s, mine[p][k]) = k /\ k # 0 /\ k <= Len(mine[p])  BY <1>2, <1>3
  <1>7. \A c : Index(s, c) \in Nat  BY <1>3, <1>4
  <1> QED  BY <1>1, <1>2, <1>3, <1>5, <1>6, <1>7

(* What a process contributes to its own cells.                            *)
LEMMA OwnSumIs ==
  ASSUME CallsInv, GridInv, HitsInv, NEW p \in Proc, NEW n \in DOMAIN setting.script, n = at[p],
         NEW k \in DOMAIN mine[p]
  PROVE  OwnSum(p, k, n) = Hits(p, mine[p][k], n)
PROOF
  <1>1. setting \in Settings  BY DEF CallsInv
  <1>2. n \in Nat  BY CallFacts
  <1>3. PICK c \in Cells : c = mine[p][k]  BY <1>1, OwnerFacts
  <1>4. c # 0  BY SizesAssumption DEF Cells
  <1>5. PICK S : S = {d \in Tallies(p, n) : Hashed(Stored(p), d) = k}  OBVIOUS
  <1>6. PICK f : f = [d \in S |-> Hits(p, d, n)]  OBVIOUS
  <1>7. OwnSum(p, k, n) = SumOf(f)  BY <1>5, <1>6 DEF OwnSum
  <1>8. ASSUME NEW d \in Tallies(p, n), Hashed(Stored(p), d) = k PROVE d = c
    <2>1. \A b \in n .. at[p] - 1 : setting.script[b] # "balance"  BY <1>2
    <2>2. n <= at[p]  BY <1>2
    <2>3. Index(Stored(p), d) # 0  BY <2>1, <2>2, TalliesKnown
    <2>4. Stored(p)[k] = d  BY <1>1, <1>8, <2>3, StoredIndex
    <2> QED  BY <1>1, <1>3, <2>4, StoredFacts
  <1>9. S \subseteq {c}  BY <1>5, <1>8
  <1>10. Hits(p, c, n) \in Nat /\ (c \notin Tallies(p, n) => Hits(p, c, n) = 0)  BY <1>2, <1>4, HitsFacts
  <1>11. c \in Tallies(p, n) => c \in S
    <2>1. Hashed(Stored(p), c) = k  BY <1>1, <1>3, StoredIndex
    <2> QED  BY <1>5, <2>1
  <1>12. PICK v \in Int : v = Hits(p, c, n)  BY <1>10
  <1>13. SumOf(f) = IF c \in S THEN v ELSE 0
    <2>1. f = [x \in S |-> f[x]] /\ (c \in S => f[c] = v)  BY <1>6, <1>12
    <2> QED  BY <1>9, <2>1, SumOfOne
  <1> QED  BY <1>3, <1>7, <1>10, <1>11, <1>12, <1>13

(* What it contributes to a cell of another, as the other adds it up.      *)
LEMMA ReceivedIs ==
  ASSUME CallsInv, GridInv, HitsInv, setting.collate = "array",
         NEW q \in Proc, NEW p \in Proc, NEW n \in DOMAIN setting.script, n <= at[q],
         \A b \in n .. at[q] - 1 : setting.script[b] # "balance",
         NEW k \in DOMAIN mine[p]
  PROVE  Received(DatumsTo(q, p, n), Stored(p), k) = IF q = p THEN 0 ELSE Hits(q, mine[p][k], n)
PROOF
  <1>1. setting \in Settings  BY DEF CallsInv
  <1>2. n \in Nat  BY CallFacts
  <1>3. PICK c \in Cells : c = mine[p][k] /\ Owner[c] = p  BY <1>1, OwnerFacts
  <1>4. c # 0  BY SizesAssumption DEF Cells
  <1>5. \A d \in Tallies(q, n) : d \in Cells /\ Index(Stored(q), d) # 0  BY TalliesKnown
  <1>6. PICK S : S = Sent(q, p, n)  OBVIOUS
  <1>7. \A d : d \in S <=> d \in Tallies(q, n) /\ Hashed(Stored(q), d) > Len(mine[q]) /\ Owner[d] = p
    BY <1>6 DEF Sent, OfGhosts
  <1>8. IsFiniteSet(S) /\ S \subseteq Int /\ S \subseteq Cells
    <2>1. S \subseteq Cells  BY <1>5, <1>7
    <2> QED  BY <2>1, CellsFinite
  <1>9. PICK N : N = Cardinality(S)  OBVIOUS
  <1>10. /\ N \in Nat /\ \A j \in 1 .. N : Nth(S, j) \in S
         /\ \A i, j \in 1 .. N : Nth(S, i) = Nth(S, j) => i = j
         /\ \A d \in S : \E j \in 1 .. N : Nth(S, j) = d
    <2>1. PICK s : s = Ascending(S)  OBVIOUS
    <2>2. Lists(s, S)  BY <1>8, <2>1, AscendingFacts
    <2>3. N \in Nat  BY <1>8, <1>9, FS_CardinalityType
    <2>4. DOMAIN s = 1 .. N /\ \A j \in 1 .. N : s[j] = Nth(S, j)  BY <1>9, <2>1 DEF Ascending
    <2>5. \A j \in 1 .. N : s[j] \in S
      <3>1. s \in Seq(S)  BY <2>2 DEF Lists
      <3>2. \A j \in DOMAIN s : s[j] \in S  BY <3>1
      <3> QED  BY <2>4, <3>2
    <2> QED  BY <2>2, <2>3, <2>4, <2>5 DEF Lists
  <1>11. PICK list : list = DatumsTo(q, p, n)  OBVIOUS
  <1>12. DOMAIN list = 1 .. N /\ \A j \in 1 .. N : list[j].cell = Nth(S, j) /\ list[j].value = Hits(q, Nth(S, j), n)
    BY <1>6, <1>9, <1>11 DEF DatumsTo
  <1>13. \A d \in S : Hashed(Stored(p), d) = k <=> d = c
    <2> TAKE d \in S
    <2>1. d \in Cells /\ Owner[d] = p  BY <1>7, <1>8
    <2>2. PICK j \in DOMAIN mine[p] : mine[p][j] = d  BY <1>1, <2>1, OwnerFacts
    <2>3. Hashed(Stored(p), d) = j /\ Hashed(Stored(p), c) = k  BY <1>1, <1>3, <2>2, StoredIndex
    <2> QED  BY <1>3, <2>2, <2>3
  <1>14. PICK M : M = {m \in DOMAIN list : Hashed(Stored(p), list[m].cell) = k}  OBVIOUS
  <1>15. M = {m \in 1 .. N : Nth(S, m) = c}  BY <1>10, <1>12, <1>13, <1>14
  <1>16. PICK f : f = [m \in M |-> list[m].value]  OBVIOUS
  <1>17. Received(list, Stored(p), k) = SumOf(f)  BY <1>14, <1>16 DEF Received
  <1>18. Hits(q, c, n) \in Nat /\ (c \notin Tallies(q, n) => Hits(q, c, n) = 0)  BY <1>2, <1>4, HitsFacts
  <1>19. c \in S <=> c \in Tallies(q, n) /\ q # p
    <2>1. CASE q = p
      <3>1. Hashed(Stored(q), c) = k /\ k <= Len(mine[q]) /\ Len(mine[q]) \in Nat /\ k \in Nat
        <4>1. Index(Stored(p), c) = k /\ k # 0  BY <1>1, <1>3, StoredIndex
        <4>2. k \in Nat  BY <1>1, <4>1, StoredIndex
        <4> QED  BY <1>1, <1>3, <2>1, <4>2, StoredIndex
      <3> QED  BY <1>7, <2>1, <3>1
    <2>2. CASE q # p /\ c \in Tallies(q, n)
      <3>1. PICK i : i = Index(Stored(q), c) /\ i # 0 /\ Hashed(Stored(q), c) = i
                     /\ i \in DOMAIN Stored(q) /\ Stored(q)[i] = c /\ i \in Nat /\ Len(mine[q]) \in Nat
        BY <1>1, <1>5, <2>2, StoredIndex
      <3>2. ~(i <= Len(mine[q]))  BY <1>1, <1>3, <2>2, <3>1, StoredFacts
      <3>3. i > Len(mine[q])  BY <3>1, <3>2
      <3> QED  BY <1>3, <1>7, <2>2, <3>1, <3>3
    <2>3. CASE c \notin Tallies(q, n)  BY <1>7, <2>3
    <2> QED  BY <2>1, <2>2, <2>3
  <1>20. CASE c \in S
    <2>1. PICK j \in 1 .. N : Nth(S, j) = c  BY <1>10, <1>20
    <2>2. M = {j}  BY <1>10, <1>15, <2>1
    <2>3. PICK v \in Int : v = Hits(q, c, n)  BY <1>18
    <2>4. f = [x \in M |-> f[x]] /\ j \in M /\ f[j] = v  BY <1>12, <1>16, <2>1, <2>2, <2>3
    <2>5. SumOf(f) = v
      <3>1. M \subseteq {j}  BY <2>2
      <3>2. SumOf(f) = IF j \in M THEN v ELSE 0  BY <2>4, <3>1, SumOfOne
      <3> QED  BY <2>4, <3>2
    <2> QED  BY <1>3, <1>11, <1>17, <1>19, <1>20, <2>3, <2>5
  <1>21. CASE c \notin S
    <2>1. M = {}  BY <1>10, <1>15, <1>21
    <2>2. DOMAIN f = {}  BY <1>16, <2>1
    <2>3. SumOf(f) = 0
      <3>1. SumOf(f) = SumOver(f, {})  BY <2>2 DEF SumOf, SumOver
      <3> QED  BY <3>1, SumEmpty
    <2> QED  BY <1>3, <1>11, <1>17, <1>18, <1>19, <1>21, <2>3
  <1> QED  BY <1>20, <1>21

(* A contribute is no tally.                                               *)
LEMMA HitsAfter ==
  ASSUME CallsInv, HitsInv, NEW q \in Proc, NEW n \in DOMAIN setting.script, setting.script[n] = "contribute",
         NEW c, c # 0
  PROVE  Hits(q, c, n + 1) = Hits(q, c, n)
PROOF
  <1>1. n \in Nat /\ n >= 1
    <2>1. setting.script \in Seq(Calls)  BY CallFacts
    <2> QED  BY <2>1
  <1>2. hits[q][n] = 0
    <2>1. HitOk(q, n)  BY HitsByOne
    <2> QED  BY <2>1 DEF HitOk
  <1>3. \A m : m \in Window(n + 1) /\ hits[q][m] = c <=> m \in Window(n) /\ hits[q][m] = c
    <2> TAKE m
    <2>1. m \in Window(n + 1) <=> m \in 1 .. n /\ \A k \in m .. n : setting.script[k] # "collate"
      BY <1>1 DEF Window
    <2>2. m \in Window(n) <=> m \in 1 .. n - 1 /\ \A k \in m .. n - 1 : setting.script[k] # "collate"
      BY <1>1 DEF Window
    <2>3. CASE m \in 1 .. n - 1
      <3>1. \A k : k \in m .. n <=> k \in m .. n - 1 \/ k = n  BY <1>1, <2>3
      <3>2. m \in 1 .. n  BY <1>1, <2>3
      <3> QED  BY <2>1, <2>2, <2>3, <3>1, <3>2
    <2>4. CASE m = n  BY <1>1, <1>2, <2>2, <2>4
    <2>5. CASE m \notin 1 .. n  BY <1>1, <2>1, <2>2, <2>5
    <2> QED  BY <1>1, <2>3, <2>4, <2>5
  <1>4. {m \in Window(n + 1) : hits[q][m] = c} = {m \in Window(n) : hits[q][m] = c}  BY <1>3
  <1> QED  BY <1>4 DEF Hits

-----------------------------------------------------------------------------
(* Sums of own tallies, and with what the others contributed.              *)
SumOk(p) == at[p] > 1 /\ setting.script[at[p] - 1] = "contribute" =>
              sum[p] = [k \in DOMAIN mine[p] |-> Hits(p, mine[p][k], at[p] - 1)]
Collated(p) == at[p] > 1 /\ setting.script[at[p] - 1] = "collate" =>
                 \A k \in DOMAIN mine[p] :
                     sum[p][k] = SumOf([q \in Proc |-> Hits(q, mine[p][k], at[p] - 1)])

LEMMA SumsNext ==
  ASSUME sum' = [p \in Proc |-> sum'[p]], \A p \in Proc : SumOk(p)' /\ Collated(p)'
  PROVE  SumInv' /\ CollatedOnce'
PROOF
  <1>1. (sum = [p \in Proc |-> sum[p]] /\ \A p \in Proc : SumOk(p) /\ Collated(p))'  OBVIOUS
  <1> QED  BY <1>1 DEF SumInv, CollatedOnce, SumOk, Collated

LEMMA SumsByOne ==
  ASSUME SumInv, CollatedOnce
  PROVE  sum = [p \in Proc |-> sum[p]] /\ \A p \in Proc : SumOk(p) /\ Collated(p)
BY DEF SumInv, CollatedOnce, SumOk, Collated

(* A process that has collated knows that all have contributed.            *)
LEMMA AllContributed ==
  ASSUME CallsInv, DatumsInv, NEW p \in Proc, NEW n \in DOMAIN setting.script,
         setting.script[n] = "collate", at[p] = n + 1, NEW q \in Proc
  PROVE  n <= at[q]
PROOF
  <1>1. /\ setting.script \in Seq(Calls) /\ DOMAIN setting.script = 1 .. Len(setting.script)
        /\ Len(setting.script) \in Nat /\ at[q] \in 1 .. Len(setting.script) + 1
    BY CallFacts
  <1>2. n \in Nat /\ n \in 1 .. Len(setting.script) + 1 /\ n >= 1  BY <1>1
  <1>3. Follows(setting.script, "contribute", "collate")  BY SettingFacts DEF CallsInv
  <1>4. n - 1 \in DOMAIN setting.script /\ setting.script[n - 1] = "contribute"  BY <1>3 DEF Follows
  <1>5. Before(n + 1, "collate") = Before(n, "collate") + 1 /\ Before(n, "collate") \in Nat
    <2>1. Before(n + 1, "collate") = Before(n, "collate") + (IF setting.script[n] = "collate" THEN 1 ELSE 0)
      BY <1>1, BeforeStep
    <2>2. Before(n, "collate") \in Nat  BY <1>1, <1>2, BeforeStep
    <2> QED  BY <2>1, <2>2
  <1>6. Before(n, "contribute") = Before(n, "collate") + 1
    <2>1. Before(n, "contribute") = Before(n, "collate")
            + (IF n \in DOMAIN setting.script /\ setting.script[n] = "collate" THEN 1 ELSE 0)
      BY <1>1, <1>2, <1>3, BeforePaired
    <2> QED  BY <1>5, <2>1
  <1>7. Before(n + 1, "collate") <= Before(at[q], "contribute")
    <2>1. Times(p, "collate") <= Times(q, "contribute")  BY DEF DatumsInv
    <2>2. Times(p, "collate") = Before(n + 1, "collate")  BY TimesBefore
    <2>3. Times(q, "contribute") = Before(at[q], "contribute")  BY TimesBefore
    <2> QED  BY <2>1, <2>2, <2>3
  <1>8. SUFFICES ASSUME at[q] < n PROVE FALSE  BY <1>1, <1>2
  <1>9. at[q] \in Nat /\ n - 1 \in Nat /\ at[q] <= n - 1 /\ n - 1 < n  BY <1>1, <1>2, <1>8
  <1>10. Before(at[q], "contribute") <= Before(n - 1, "contribute")  BY <1>1, <1>9, BeforeGrows
  <1>11. Before(n - 1, "contribute") < Before(n, "contribute")  BY <1>1, <1>2, <1>4, <1>9, BeforeGrows
  <1>12. Before(n - 1, "contribute") \in Nat /\ Before(at[q], "contribute") \in Nat  BY <1>1, <1>9, BeforeStep
  <1> QED  BY <1>5, <1>6, <1>7, <1>10, <1>11, <1>12

(* Nobody's tallies in a window that was collated change.                  *)
LEMMA SumsKept ==
  ASSUME CallsInv, DatumsInv, setting' = setting, UNCHANGED grid, OldHits,
         NEW p \in Proc, at'[p] = at[p], sum'[p] = sum[p], SumOk(p), Collated(p)
  PROVE  SumOk(p)' /\ Collated(p)'
PROOF
  <1>1. mine' = mine  BY GridKept
  <1>2. /\ setting.script \in Seq(Calls) /\ DOMAIN setting.script = 1 .. Len(setting.script)
        /\ Len(setting.script) \in Nat /\ at[p] \in 1 .. Len(setting.script) + 1
    BY CallFacts
  <1>3. PICK n \in 0 .. Len(setting.script) : n = at[p] - 1 /\ at[p] = n + 1  
    <2>1. at[p] - 1 \in 0 .. Len(setting.script) /\ at[p] = (at[p] - 1) + 1  BY <1>2
    <2> QED  BY <2>1
  <1>4. at'[p] - 1 = n /\ n \in Nat  BY <1>2, <1>3
  <1>5. ASSUME NEW q \in Proc, n <= at[q], n >= 1
        PROVE  \A c : Hits(q, c, n)' = Hits(q, c, n)
    <2>1. at[q] \in Nat  BY CallFacts
    <2>2. \A m \in 1 .. n - 1 : hits'[q][m] = hits[q][m]
      <3> TAKE m \in 1 .. n - 1
      <3>1. m \in DOMAIN setting.script /\ m < at[q]  BY <1>2, <1>4, <1>5, <2>1
      <3> QED  BY <3>1 DEF OldHits
    <2> QED  BY <2>2, TalliesKept
  <1>6. SumOk(p)'
    <2>1. ASSUME n >= 1, setting.script[n] = "contribute"
          PROVE  sum'[p] = [k \in DOMAIN mine[p] |-> Hits(p, mine[p][k], n)']
      <3>1. sum[p] = [k \in DOMAIN mine[p] |-> Hits(p, mine[p][k], n)]  BY <1>2, <1>3, <2>1 DEF SumOk
      <3>2. \A c : Hits(p, c, n)' = Hits(p, c, n)
        <4>1. n <= at[p]  BY <1>3, <1>4
        <4> QED  BY <1>5, <2>1, <4>1
      <3>3. \A k \in DOMAIN mine[p] : Hits(p, mine[p][k], n)' = Hits(p, mine[p][k], n)
        <4> TAKE k \in DOMAIN mine[p]
        <4>1. PICK c : c = mine[p][k] /\ mine'[p][k] = c  BY <1>1
        <4>2. Hits(p, mine[p][k], n)' = Hits(p, c, n)'  BY <4>1
        <4> QED  BY <3>2, <4>1, <4>2
      <3> QED  BY <3>1, <3>3
    <2>2. at'[p] > 1 => n >= 1  BY <1>2, <1>3
    <2>3. \A k : Hits(p, mine[p][k], at[p] - 1)' = Hits(p, mine[p][k], n)'  BY <1>4
    <2> QED  BY <1>1, <1>4, <2>1, <2>2, <2>3 DEF SumOk
  <1>7. Collated(p)'
    <2>1. ASSUME n >= 1, setting.script[n] = "collate", NEW k \in DOMAIN mine[p]
          PROVE  sum'[p][k] = SumOf([q \in Proc |-> Hits(q, mine[p][k], n)'])
      <3>1. sum[p][k] = SumOf([q \in Proc |-> Hits(q, mine[p][k], n)])  BY <1>2, <1>3, <2>1 DEF Collated
      <3>2. \A q \in Proc : Hits(q, mine[p][k], n)' = Hits(q, mine[p][k], n)
        <4> TAKE q \in Proc
        <4>1. n \in DOMAIN setting.script  BY <1>2, <1>4, <2>1
        <4>2. n <= at[q]  BY <1>3, <2>1, <4>1, AllContributed
        <4>3. PICK c : c = mine[p][k] /\ mine'[p][k] = c  BY <1>1
        <4>4. Hits(q, mine[p][k], n)' = Hits(q, c, n)'  BY <4>3
        <4>5. Hits(q, c, n)' = Hits(q, c, n)  BY <1>5, <2>1, <4>2
        <4> QED  BY <4>3, <4>4, <4>5
      <3>3. [q \in Proc |-> Hits(q, mine[p][k], n)'] = [q \in Proc |-> Hits(q, mine[p][k], n)]  BY <3>2
      <3> QED  BY <3>1, <3>3
    <2>2. at'[p] > 1 => n >= 1  BY <1>2, <1>3
    <2>3. \A q, k : Hits(q, mine[p][k], at[p] - 1)' = Hits(q, mine[p][k], n)'  BY <1>4
    <2>4. \A k \in DOMAIN mine[p] : SumOf([q \in Proc |-> Hits(q, mine[p][k], at[p] - 1)])'
                                    = SumOf([q \in Proc |-> Hits(q, mine[p][k], n)'])
      <3> TAKE k \in DOMAIN mine[p]
      <3>1. [q \in Proc |-> Hits(q, mine[p][k], at[p] - 1)]' = [q \in Proc |-> Hits(q, mine[p][k], n)']  BY <2>3
      <3>2. PICK f : f = [q \in Proc |-> Hits(q, mine[p][k], n)']  OBVIOUS
      <3>3. SumOf([q \in Proc |-> Hits(q, mine[p][k], at[p] - 1)])' = SumOf(f)  BY <3>1, <3>2
      <3> QED  BY <3>2, <3>3
    <2> QED  BY <1>1, <1>4, <2>1, <2>2, <2>4 DEF Collated
  <1> QED  BY <1>6, <1>7

LEMMA ContributeSums ==
  ASSUME CallsInv, GridInv, HitsInv, DatumsInv, SumInv, CollatedOnce, NEW p \in Proc, Contribute(p)
  PROVE  SumInv' /\ CollatedOnce'
PROOF
  <1>1. Advance(p, "contribute")  BY DEF Contribute, Advance, Calls
  <1>2. setting' = setting /\ UNCHANGED grid /\ OldHits /\ hits' = hits  BY DEF Contribute, OldHits
  <1>3. PICK n \in DOMAIN setting.script : n = at[p] /\ setting.script[n] = "contribute" /\ n \in Nat /\ at'[p] = n + 1
    BY <1>1, AdvanceFacts
  <1>4. PICK new : new = [k \in DOMAIN mine[p] |-> Hits(p, mine[p][k], n)]  OBVIOUS
  <1>5. sum' = [q \in Proc |-> IF q = p THEN new ELSE sum[q]]
    <2>1. sum' = [sum EXCEPT ![p] = [k \in DOMAIN mine[p] |-> OwnSum(p, k, n)]]  BY <1>3 DEF Contribute
    <2>2. \A k \in DOMAIN mine[p] : OwnSum(p, k, n) = Hits(p, mine[p][k], n)  BY <1>3, OwnSumIs
    <2>3. sum' = [sum EXCEPT ![p] = new]  BY <1>4, <2>1, <2>2
    <2>4. sum = [q \in Proc |-> sum[q]]  BY DEF SumInv
    <2> QED  BY <2>3, <2>4
  <1>6. mine' = mine  BY <1>2, GridKept
  <1>7. ASSUME NEW q \in Proc PROVE SumOk(q)' /\ Collated(q)'
    <2>1. CASE q # p
      <3>1. at'[q] = at[q] /\ sum'[q] = sum[q]  BY <1>1, <1>5, <2>1, AdvanceFacts
      <3> QED  BY <1>2, <3>1, SumsByOne, SumsKept
    <2>2. CASE q = p
      <3>1. at'[p] - 1 = n  BY <1>3
      <3>2. Collated(p)'  BY <1>2, <1>3, <3>1 DEF Collated
      <3>3. \A k \in DOMAIN mine[p] : Hits(p, mine[p][k], n)' = Hits(p, mine[p][k], n)
        <4> TAKE k \in DOMAIN mine[p]
        <4>1. PICK c : c = mine[p][k] /\ mine'[p][k] = c  BY <1>6
        <4>2. Hits(p, mine[p][k], n)' = Hits(p, c, n)'  BY <4>1
        <4>3. \A m \in 1 .. n - 1 : hits'[p][m] = hits[p][m]  BY <1>2
        <4>4. Hits(p, c, n)' = Hits(p, c, n)  BY <1>2, <4>3, TalliesKept
        <4> QED  BY <4>1, <4>2, <4>4
      <3>4. sum'[p] = [k \in DOMAIN mine[p] |-> Hits(p, mine[p][k], n)']  BY <1>4, <1>5, <3>3
      <3>5. \A k : Hits(p, mine[p][k], at[p] - 1)' = Hits(p, mine[p][k], n)'  BY <3>1
      <3>6. SumOk(p)'  BY <1>6, <3>4, <3>5 DEF SumOk
      <3> QED  BY <2>2, <3>2, <3>6
    <2> QED  BY <2>1, <2>2
  <1>8. sum' = [q \in Proc |-> sum'[q]]  BY <1>5
  <1> QED  BY <1>7, <1>8, SumsNext

LEMMA SumApart ==
  ASSUME NEW S, IsFiniteSet(S), NEW p \in S, NEW f, f = [x \in S |-> f[x]], \A x \in S : f[x] \in Int,
         NEW g, g = [x \in S |-> IF x = p THEN 0 ELSE f[x]]
  PROVE  f[p] + SumOf(g) = SumOf(f)
PROOF
  <1>1. SumOf(f) = SumOver(f, S)
    <2>1. DOMAIN f = S  OBVIOUS
    <2> QED  BY <2>1 DEF SumOf, SumOver
  <1>2. SumOf(g) = SumOver(g, S)
    <2>1. DOMAIN g = S  OBVIOUS
    <2> QED  BY <2>1 DEF SumOf, SumOver
  <1>3. PICK T : T = S \ {p}  OBVIOUS
  <1>4. IsFiniteSet(T) /\ IsFiniteSet({p}) /\ S = {p} \union T /\ {p} \cap T = {}
    BY <1>3, FS_Subset, FS_Singleton
  <1>5. SumOver(f, {p} \union T) = SumOver(f, {p}) + SumOver(f, T) /\ SumOver(f, T) \in Int
    <2>1. \A x \in {p} \union T : f[x] \in Int  BY <1>4
    <2>2. IsFiniteSet(T) /\ IsFiniteSet({p}) /\ {p} \cap T = {}  BY <1>4
    <2>3. PICK P : P = {p}  OBVIOUS
    <2>4. SumOver(f, P \union T) = SumOver(f, P) + SumOver(f, T) /\ SumOver(f, T) \in Int
      BY <2>1, <2>2, <2>3, SumAdds
    <2> QED  BY <2>3, <2>4
  <1>6. SumOver(g, {p} \union T) = SumOver(g, {p}) + SumOver(g, T)
    <2>1. \A x \in {p} \union T : g[x] \in Int  BY <1>4
    <2>2. IsFiniteSet(T) /\ IsFiniteSet({p}) /\ {p} \cap T = {}  BY <1>4
    <2>3. PICK P : P = {p}  OBVIOUS
    <2>4. SumOver(g, P \union T) = SumOver(g, P) + SumOver(g, T)
      BY <2>1, <2>2, <2>3, SumAdds
    <2> QED  BY <2>3, <2>4
  <1>7. SumOver(f, {p}) = f[p]  BY SumSingle
  <1>8. SumOver(g, {p}) = 0
    <2>1. g[p] = 0  OBVIOUS
    <2> QED  BY <2>1, SumSingle
  <1>9. SumOver(g, T) = SumOver(f, T)
    <2>1. \A x \in T : f[x] \in Int /\ g[x] = f[x]  BY <1>3
    <2> QED  BY <1>4, <2>1, SumSame
  <1>10. f[p] \in Int  OBVIOUS
  <1> QED  BY <1>1, <1>2, <1>4, <1>5, <1>6, <1>7, <1>8, <1>9, <1>10

(* What waits for a process at its collate is what each process tallied    *)
(* up to the contribute before, and none of them has left the window.      *)
LEMMA CollateFacts ==
  ASSUME CallsInv, DatumsInv, NEW p \in Proc, NEW n \in DOMAIN setting.script, n = at[p],
         setting.script[n] = "collate", NEW q \in Proc, datums[q][p] # <<>>
  PROVE  /\ n - 1 \in DOMAIN setting.script /\ setting.script[n - 1] = "contribute"
         /\ n - 1 <= at[q] /\ \A b \in n - 1 .. at[q] - 1 : setting.script[b] # "balance"
         /\ Head(datums[q][p]) = DatumsTo(q, p, n - 1)
PROOF
  <1>1. /\ setting.script \in Seq(Calls) /\ DOMAIN setting.script = 1 .. Len(setting.script)
        /\ Len(setting.script) \in Nat /\ at[q] \in 1 .. Len(setting.script) + 1
    BY CallFacts
  <1>2. n \in Nat /\ n \in 1 .. Len(setting.script) + 1 /\ n >= 1  BY <1>1
  <1>3. Follows(setting.script, "contribute", "collate")  BY SettingFacts DEF CallsInv
  <1>4. n - 1 \in DOMAIN setting.script /\ setting.script[n - 1] = "contribute"  BY <1>3 DEF Follows
  <1>5. n - 1 \in Nat /\ (n - 1) + 1 = n  BY <1>1, <1>2, <1>4
  <1>6. PICK u \in Nat : u = Before(n - 1, "contribute")  BY <1>1, <1>5, BeforeStep
  <1>7. Before(n, "contribute") = u + 1
    <2>1. Before((n - 1) + 1, "contribute") = Before(n - 1, "contribute") + (IF setting.script[n - 1] = "contribute" THEN 1 ELSE 0)
      BY <1>1, <1>4, BeforeStep
    <2> QED  BY <1>4, <1>5, <1>6, <2>1
  <1>8. Times(p, "collate") = u
    <2>1. Before(n, "contribute") = Before(n, "collate")
            + (IF n \in DOMAIN setting.script /\ setting.script[n] = "collate" THEN 1 ELSE 0)
      BY <1>1, <1>2, <1>3, BeforePaired
    <2>2. Before(n, "collate") \in Nat  BY <1>1, <1>2, BeforeStep
    <2> QED  BY <1>7, <2>1, <2>2, TimesBefore
  <1>9. PICK v \in Nat : v = Times(q, "contribute")
    <2>1. Before(at[q], "contribute") \in Nat
      <3>1. at[q] \in Nat  BY <1>1
      <3> QED  BY <1>1, <3>1, BeforeStep
    <2> QED  BY <2>1, TimesBefore
  <1>10. PICK s : s = datums[q][p]  OBVIOUS
  <1>11. u <= v /\ s = [j \in 1 .. v - u |-> DatumsTo(q, p, ContributeOf(u + j))]
    <2>1. Queue(q, p, Times(p, "collate"), Times(q, "contribute"))  BY DatumsByTwo
    <2> QED  BY <1>8, <1>9, <1>10, <2>1 DEF Queue
  <1>12. PICK k \in Nat : k = v - u  BY <1>11
  <1>13. s = [j \in 1 .. k |-> s[j]] /\ s # <<>>  BY <1>10, <1>11, <1>12
  <1>14. k >= 1 /\ Head(s) = s[1]  BY <1>13, QueueTail
  <1>15. Head(s) = DatumsTo(q, p, ContributeOf(u + 1))  BY <1>11, <1>12, <1>14
  <1>16. ContributeOf(u + 1) = n - 1  BY <1>1, <1>4, <1>6, ContributeAt
  <1>17. n <= at[q]
    <2>1. SUFFICES ASSUME at[q] < n PROVE FALSE  BY <1>1, <1>2
    <2>2. at[q] \in Nat /\ at[q] <= n - 1  BY <1>1, <1>2, <2>1
    <2>3. Before(at[q], "contribute") <= Before(n - 1, "contribute")  BY <1>1, <1>5, <2>2, BeforeGrows
    <2>4. v = Before(at[q], "contribute")  BY <1>9, TimesBefore
    <2> QED  BY <1>6, <1>12, <1>14, <2>3, <2>4
  <1>18. ASSUME NEW b \in n - 1 .. at[q] - 1, setting.script[b] = "balance" PROVE FALSE
    <2>1. b # n - 1 /\ b # n  BY <1>4, <1>18
    <2>2. b \in DOMAIN setting.script /\ n <= b /\ b < at[q]  BY <1>1, <1>2, <1>18, <2>1
    <2>3. at[p] <= b <=> at[q] <= b  BY <1>18, <2>2 DEF CallsInv
    <2> QED  BY <1>1, <1>2, <2>2, <2>3
  <1>19. n - 1 <= at[q]  BY <1>1, <1>2, <1>17
  <1> QED  BY <1>4, <1>10, <1>15, <1>16, <1>18, <1>19

LEMMA CollateSums ==
  ASSUME CallsInv, GridInv, HitsInv, DatumsInv, SumInv, CollatedOnce, setting.collate = "array",
         NEW p \in Proc, Collate(p)
  PROVE  SumInv' /\ CollatedOnce'
PROOF
  <1>1. Advance(p, "collate")  BY DEF Collate, Advance, Calls
  <1>2. setting' = setting /\ UNCHANGED grid /\ OldHits /\ hits' = hits  BY DEF Collate, OldHits
  <1>3. PICK n \in DOMAIN setting.script : n = at[p] /\ setting.script[n] = "collate" /\ n \in Nat /\ at'[p] = n + 1
    BY <1>1, AdvanceFacts
  <1>4. n - 1 \in DOMAIN setting.script /\ setting.script[n - 1] = "contribute"
        /\ \A q \in Proc : /\ n - 1 <= at[q] /\ \A b \in n - 1 .. at[q] - 1 : setting.script[b] # "balance"
                           /\ Head(datums[q][p]) = DatumsTo(q, p, n - 1)
    <2>1. \A q \in Proc : datums[q][p] # <<>>  BY DEF Collate
    <2> QED  BY <1>3, <2>1, CollateFacts
  <1>5. PICK m \in DOMAIN setting.script : m = n - 1 /\ n = m + 1 /\ m \in Nat /\ m >= 1
    <2>1. setting.script \in Seq(Calls)  BY CallFacts
    <2>2. n = (n - 1) + 1 /\ n - 1 \in Nat /\ n - 1 >= 1  BY <1>3, <1>4, <2>1
    <2> QED  BY <1>4, <2>2
  <1>6. mine' = mine  BY <1>2, GridKept
  <1>7. PICK new : new = [k \in DOMAIN mine[p] |->
                 sum[p][k] + SumOf([q \in Proc |-> Received(Head(datums[q][p]), Stored(p), k)])]
    OBVIOUS
  <1>8. sum' = [q \in Proc |-> IF q = p THEN new ELSE sum[q]]
    <2>1. sum' = [sum EXCEPT ![p] = new]  BY <1>7 DEF Collate
    <2>2. sum = [q \in Proc |-> sum[q]]  BY DEF SumInv
    <2> QED  BY <2>1, <2>2
  <1>9. ASSUME NEW k \in DOMAIN mine[p] PROVE new[k] = SumOf([q \in Proc |-> Hits(q, mine[p][k], n)])
    <2>1. PICK c \in Cells : c = mine[p][k] /\ c # 0
      <3>1. mine[p][k] \in Cells
        <4>1. setting \in Settings  BY DEF CallsInv
        <4> QED  BY <4>1, OwnerFacts
      <3>2. mine[p][k] # 0  BY <3>1, SizesAssumption DEF Cells
      <3> QED  BY <3>1, <3>2
    <2>2. PICK f : f = [q \in Proc |-> Hits(q, c, m)]  OBVIOUS
    <2>3. PICK g : g = [q \in Proc |-> IF q = p THEN 0 ELSE f[q]]  OBVIOUS
    <2>4. \A q \in Proc : Received(Head(datums[q][p]), Stored(p), k) = IF q = p THEN 0 ELSE f[q]
      <3> TAKE q \in Proc
      <3>1. Received(DatumsTo(q, p, m), Stored(p), k) = IF q = p THEN 0 ELSE Hits(q, mine[p][k], m)
        BY <1>4, <1>5, ReceivedIs
      <3> QED  BY <1>4, <1>5, <2>1, <2>2, <3>1
    <2>5. [q \in Proc |-> Received(Head(datums[q][p]), Stored(p), k)] = g  BY <2>3, <2>4
    <2>6. sum[p][k] = f[p]
      <3>1. SumOk(p)  BY SumsByOne
      <3>2. at[p] > 1 /\ at[p] - 1 = m  BY <1>3, <1>5
      <3>3. sum[p] = [l \in DOMAIN mine[p] |-> Hits(p, mine[p][l], m)]
        BY <1>4, <1>5, <3>1, <3>2 DEF SumOk
      <3> QED  BY <2>1, <2>2, <3>3
    <2>7. \A q \in Proc : f[q] \in Int
      <3> TAKE q \in Proc
      <3>1. Hits(q, c, m) \in Nat  BY <1>5, HitsFacts
      <3> QED  BY <2>2, <3>1
    <2>8. f[p] + SumOf(g) = SumOf(f)
      <3>1. f = [q \in Proc |-> f[q]]  BY <2>2
      <3> QED  BY <2>3, <2>7, <3>1, ProcsFinite, SumApart
    <2>9. [q \in Proc |-> Hits(q, mine[p][k], n)] = f
      <3>1. \A q \in Proc : Hits(q, c, n) = Hits(q, c, m)
        <4> TAKE q \in Proc
        <4>1. Hits(q, c, m + 1) = Hits(q, c, m)  BY <1>4, <1>5, <2>1, HitsAfter
        <4> QED  BY <1>5, <4>1
      <3> QED  BY <2>1, <2>2, <3>1
    <2>10. new[k] = sum[p][k] + SumOf([q \in Proc |-> Received(Head(datums[q][p]), Stored(p), k)])  BY <1>7
    <2> QED  BY <2>5, <2>6, <2>8, <2>9, <2>10
  <1>10. ASSUME NEW q \in Proc PROVE SumOk(q)' /\ Collated(q)'
    <2>1. CASE q # p
      <3>1. at'[q] = at[q] /\ sum'[q] = sum[q]  BY <1>1, <1>8, <2>1, AdvanceFacts
      <3> QED  BY <1>2, <3>1, SumsByOne, SumsKept
    <2>2. CASE q = p
      <3>1. at'[p] - 1 = n  BY <1>3
      <3>2. SumOk(p)'  BY <1>2, <1>3, <3>1 DEF SumOk
      <3>3. ASSUME NEW k \in DOMAIN mine[p]
            PROVE  SumOf([r \in Proc |-> Hits(r, mine[p][k], at[p] - 1)])' = SumOf([r \in Proc |-> Hits(r, mine[p][k], n)])
        <4>1. PICK c : c = mine[p][k] /\ mine'[p][k] = c  BY <1>6
        <4>2. \A r \in Proc : Hits(r, mine[p][k], at[p] - 1)' = Hits(r, c, n)
          <5> TAKE r \in Proc
          <5>1. Hits(r, mine[p][k], at[p] - 1)' = Hits(r, c, n)'  BY <3>1, <4>1
          <5>2. \A i \in 1 .. n - 1 : hits'[r][i] = hits[r][i]  BY <1>2
          <5>3. Hits(r, c, n)' = Hits(r, c, n)  BY <1>2, <5>2, TalliesKept
          <5> QED  BY <5>1, <5>3
        <4>3. PICK f : f = [r \in Proc |-> Hits(r, mine[p][k], n)]  OBVIOUS
        <4>4. [r \in Proc |-> Hits(r, mine[p][k], at[p] - 1)]' = f  BY <4>1, <4>2, <4>3
        <4>5. SumOf([r \in Proc |-> Hits(r, mine[p][k], at[p] - 1)])' = SumOf(f)  BY <4>4
        <4> QED  BY <4>3, <4>5
      <3>4. sum'[p] = new  BY <1>8
      <3>5. Collated(p)'  BY <1>6, <1>9, <3>3, <3>4 DEF Collated
      <3> QED  BY <2>2, <3>2, <3>5
    <2> QED  BY <2>1, <2>2
  <1>11. sum' = [q \in Proc |-> sum'[q]]  BY <1>8
  <1> QED  BY <1>10, <1>11, SumsNext

-----------------------------------------------------------------------------
TalliesInv == HitsInv /\ DatumsInv /\ SumInv /\ CollatedOnce

LEMMA InitTallies == Init => TalliesInv
PROOF
  <1> SUFFICES ASSUME Init PROVE TalliesInv  OBVIOUS
  <1>1. HitsInv
    <2>1. hits = [p \in Proc |-> [n \in DOMAIN setting.script |-> 0]]  BY DEF Init
    <2> QED  BY <2>1 DEF HitsInv
  <1>2. DatumsInv
    <2>1. datums = [q \in Proc |-> [p \in Proc |-> <<>>]]  BY DEF Init
    <2>2. ASSUME NEW q \in Proc, NEW p \in Proc PROVE Queue(q, p, Times(p, "collate"), Times(q, "contribute"))
      <3>1. Times(p, "collate") = 0 /\ Times(q, "contribute") = 0  BY InitTimes
      <3>2. [j \in 1 .. 0 - 0 |-> DatumsTo(q, p, ContributeOf(0 + j))] = <<>>  BY NoDatums
      <3>3. Queue(q, p, 0, 0)  BY <2>1, <3>2 DEF Queue
      <3> QED  BY <3>1, <3>3
    <2> QED  BY <2>1, <2>2, DatumsByTwo
  <1>3. SumInv /\ CollatedOnce
    <2>1. sum = [p \in Proc |-> <<>>] /\ \A p \in Proc : at[p] = 1  BY DEF Init
    <2> QED  BY <2>1 DEF SumInv, CollatedOnce
  <1> QED  BY <1>1, <1>2, <1>3 DEF TalliesInv

LEMMA OtherTallies ==
  ASSUME MacrosInv, TalliesInv, NEW p \in Proc, NEW call, Advance(p, call), call \notin {"contribute", "collate"},
         UNCHANGED grid, HitsInv', OldHits, UNCHANGED <<datums, sum>>
  PROVE  TalliesInv'
PROOF
  <1>0. /\ CallsInv /\ GridInv /\ HitsInv /\ DatumsInv /\ SumInv /\ CollatedOnce  BY DEF MacrosInv, TalliesInv
  <1>1. setting' = setting  BY DEF Advance
  <1>2. \A q \in Proc : /\ Times(q, "contribute")' = Times(q, "contribute") /\ Times(q, "contribute") \in Nat
                        /\ Times(q, "collate")' = Times(q, "collate") /\ Times(q, "collate") \in Nat
    <2> TAKE q \in Proc
    <2>1. Times(q, "contribute")' = Times(q, "contribute") + (IF q = p /\ "contribute" = call THEN 1 ELSE 0)
          /\ Times(q, "contribute") \in Nat
      BY <1>0, TimesAdvance DEF Calls
    <2>2. Times(q, "collate")' = Times(q, "collate") + (IF q = p /\ "collate" = call THEN 1 ELSE 0)
          /\ Times(q, "collate") \in Nat
      BY <1>0, TimesAdvance DEF Calls
    <2> QED  BY <2>1, <2>2
  <1>3. DatumsInv'  BY <1>0, <1>1, <1>2, DatumsKept
  <1>4. ASSUME NEW q \in Proc PROVE SumOk(q)' /\ Collated(q)'
    <2>1. CASE q # p
      <3>1. at'[q] = at[q] /\ sum'[q] = sum[q]  BY <1>0, <2>1, AdvanceFacts
      <3> QED  BY <1>0, <1>1, <3>1, SumsByOne, SumsKept
    <2>2. CASE q = p
      <3>1. PICK n \in Nat : n = at[p] /\ at'[p] = n + 1 /\ setting.script[n] = call  BY <1>0, AdvanceFacts
      <3>2. at'[p] - 1 = n  BY <3>1
      <3> QED  BY <1>1, <2>2, <3>1, <3>2 DEF SumOk, Collated
    <2> QED  BY <2>1, <2>2
  <1>5. sum' = [q \in Proc |-> sum'[q]]  BY <1>0 DEF SumInv
  <1>6. SumInv' /\ CollatedOnce'  BY <1>4, <1>5, SumsNext
  <1> QED  BY <1>3, <1>6 DEF TalliesInv

LEMMA BalanceTallies ==
  ASSUME MacrosInv, TalliesInv, Balance
  PROVE  TalliesInv'
PROOF
  <1>0. /\ CallsInv /\ GridInv /\ HitsInv /\ DatumsInv /\ SumInv /\ CollatedOnce  BY DEF MacrosInv, TalliesInv
  <1>1. PICK n \in DOMAIN setting.script : /\ setting.script[n] = "balance"
                                           /\ \A p \in Proc : at[p] = n /\ at'[p] = n + 1
    BY <1>0, BalanceFacts
  <1>2. setting' = setting /\ sum' = sum  BY DEF Balance
  <1>3. ASSUME NEW q \in Proc PROVE SumOk(q)' /\ Collated(q)'
    <2>1. n \in Nat
      <3>1. setting.script \in Seq(Calls)  BY <1>0, CallFacts
      <3> QED  BY <3>1
    <2>2. at'[q] - 1 = n  BY <1>1, <2>1
    <2> QED  BY <1>1, <1>2, <2>2 DEF SumOk, Collated
  <1>4. sum' = [q \in Proc |-> sum'[q]]  BY <1>0, <1>2 DEF SumInv
  <1>5. SumInv' /\ CollatedOnce'  BY <1>3, <1>4, SumsNext
  <1> QED  BY <1>0, <1>5, BalanceHits, BalanceDatums DEF TalliesInv

LEMMA StutterTallies ==
  ASSUME MacrosInv, TalliesInv, UNCHANGED vars
  PROVE  TalliesInv'
PROOF
  <1>0. /\ CallsInv /\ GridInv /\ HitsInv /\ DatumsInv /\ SumInv /\ CollatedOnce  BY DEF MacrosInv, TalliesInv
  <1>1. /\ setting' = setting /\ at' = at /\ UNCHANGED grid /\ UNCHANGED <<macro, mail, hits, datums, sum>> /\ OldHits
    BY DEF vars, OldHits
  <1>2. HitsInv'
    <2>1. \A q, m : HitOk(q, m)' <=> HitOk(q, m)
      <3> TAKE q, m
      <3>1. PICK c : c = hits[q][m] /\ hits'[q][m] = c  BY <1>1
      <3>2. Index(Stored(q), c)' = Index(Stored(q), c)  BY <1>1, IndexKept
      <3>3. Index(Stored(q), hits[q][m])' = Index(Stored(q), c)'  BY <3>1
      <3> QED  BY <1>1, <3>1, <3>2, <3>3 DEF HitOk
    <2>2. (/\ hits \in [Proc -> [DOMAIN setting.script -> Nat]]
           /\ \A q \in Proc, m \in DOMAIN setting.script : HitOk(q, m))'
      BY <1>0, <1>1, <2>1, HitsByOne
    <2> QED  BY <2>2 DEF HitsInv, HitOk
  <1>3. \A q \in Proc, any \in {"contribute", "collate"} : Times(q, any)' = Times(q, any) /\ Times(q, any) \in Nat
    <2> TAKE q \in Proc, any \in {"contribute", "collate"}
    <2>1. Times(q, any)' = Times(q, any)  BY <1>1 DEF Times
    <2>2. Before(at[q], any) \in Nat
      <3>1. setting.script \in Seq(Calls) /\ at[q] \in Nat
        <4>1. setting.script \in Seq(Calls) /\ at[q] \in 1 .. Len(setting.script) + 1  BY <1>0, CallFacts
        <4> QED  BY <4>1
      <3> QED  BY <3>1, BeforeStep
    <2> QED  BY <2>1, <2>2, TimesBefore
  <1>4. DatumsInv'  BY <1>0, <1>1, <1>3, DatumsKept
  <1>5. \A q \in Proc : SumOk(q)' /\ Collated(q)'
    <2> TAKE q \in Proc
    <2>1. at'[q] = at[q] /\ sum'[q] = sum[q]  BY <1>1
    <2> QED  BY <1>0, <1>1, <2>1, SumsByOne, SumsKept
  <1>6. sum' = [q \in Proc |-> sum'[q]]  BY <1>0, <1>1 DEF SumInv
  <1>7. SumInv' /\ CollatedOnce'  BY <1>5, <1>6, SumsNext
  <1> QED  BY <1>2, <1>4, <1>7 DEF TalliesInv

LEMMA NextTallies ==
  ASSUME MacrosInv, TalliesInv, setting.collate = "array", [Next]_vars
  PROVE  TalliesInv'
PROOF
  <1>0. /\ CallsInv /\ GridInv /\ HitsInv /\ DatumsInv /\ SumInv /\ CollatedOnce  BY DEF MacrosInv, TalliesInv
  <1>1. CASE UNCHANGED vars  BY <1>1, StutterTallies
  <1>2. ASSUME NEW p \in Proc, Tally(p) PROVE TalliesInv'
    <2>1. Advance(p, "tally") /\ UNCHANGED grid /\ UNCHANGED <<datums, sum>>  BY <1>2 DEF Tally, Advance, Calls
    <2>2. HitsInv' /\ OldHits  BY <1>0, <1>2, TallyHits DEF OldHits
    <2> QED  BY <2>1, <2>2, OtherTallies
  <1>3. ASSUME NEW p \in Proc, NEW call \in {"compute", "receive", "relax"}, Advance(p, call),
               UNCHANGED grid, UNCHANGED <<hits, datums, sum>>
        PROVE  TalliesInv'
    <2>1. HitsInv' /\ OldHits  BY <1>0, <1>3, HitsAdvance DEF OldHits
    <2> QED  BY <1>3, <2>1, OtherTallies
  <1>4. ASSUME NEW p \in Proc, Compute(p) PROVE TalliesInv'
    <2>1. Advance(p, "compute") /\ UNCHANGED grid /\ UNCHANGED <<hits, datums, sum>>
      BY <1>4 DEF Compute, Advance, Calls
    <2> QED  BY <1>3, <2>1
  <1>5. ASSUME NEW p \in Proc, Receive(p) PROVE TalliesInv'
    <2>1. Advance(p, "receive") /\ UNCHANGED grid /\ UNCHANGED <<hits, datums, sum>>
      BY <1>5 DEF Receive, Advance, Calls
    <2> QED  BY <1>3, <2>1
  <1>6. ASSUME NEW p \in Proc, Relax(p) PROVE TalliesInv'
    <2>1. Advance(p, "relax") /\ UNCHANGED grid /\ UNCHANGED <<hits, datums, sum>>
      BY <1>6 DEF Relax, Advance, Calls
    <2> QED  BY <1>3, <2>1
  <1>7. ASSUME NEW p \in Proc, Contribute(p) PROVE TalliesInv'
    <2>1. Advance(p, "contribute") /\ UNCHANGED grid /\ hits' = hits  BY <1>7 DEF Contribute, Advance, Calls
    <2> QED  BY <1>0, <1>7, <2>1, HitsAdvance, ContributeDatums, ContributeSums DEF TalliesInv
  <1>8. ASSUME NEW p \in Proc, Collate(p) PROVE TalliesInv'
    <2>1. Advance(p, "collate") /\ UNCHANGED grid /\ hits' = hits  BY <1>8 DEF Collate, Advance, Calls
    <2> QED  BY <1>0, <1>8, <2>1, HitsAdvance, CollateDatums, CollateSums DEF TalliesInv
  <1>9. CASE Balance  BY <1>9, BalanceTallies
  <1>10. CASE Ended  BY <1>1, <1>10 DEF Ended
  <1> QED  BY <1>1, <1>2, <1>4, <1>5, <1>6, <1>7, <1>8, <1>9, <1>10 DEF Next

(* Each tally of collate_array_implicit is added once, wherever its cell   *)
(* was when it was made.                                                   *)
THEOREM TalliesAreCollatedOnce ==
  ASSUME \A s \in Settings : s.collate = "array"
  PROVE  Spec => []CollatedOnce
PROOF
  <1>1. Init => MacrosInv /\ TalliesInv  BY InitMacros, InitTallies
  <1>2. (MacrosInv /\ TalliesInv) /\ [Next]_vars => (MacrosInv /\ TalliesInv)'
    <2> SUFFICES ASSUME MacrosInv, TalliesInv, [Next]_vars PROVE (MacrosInv /\ TalliesInv)'  OBVIOUS
    <2>1. setting.collate = "array"  BY DEF MacrosInv, CallsInv
    <2> QED  BY <2>1, NextMacros, NextTallies
  <1>3. MacrosInv /\ TalliesInv => CollatedOnce  BY DEF TalliesInv
  <1> QED  BY <1>1, <1>2, <1>3, PTL DEF Spec

=============================================================================
