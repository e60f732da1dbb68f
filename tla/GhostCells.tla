---------------------------- MODULE GhostCells ----------------------------
(***************************************************************************)
(* Which grid cells a process knows (Grid::acquire_ghosts of               *)
(* src/src/grid.cpp): its own, full ghost cells within the cutoff of its   *)
(* bounding box, and EMPTY ghosts (nsurf = -1) that only touch it.         *)
(*                                                                         *)
(* The box is a row of NCells cells of width Width, cut in slabs across    *)
(* one dimension, in which every overlap of boxes is decided.  A grid cell *)
(* is named by its position 1 .. NCells, whatever its local index in the   *)
(* cells array of a process is.                                            *)
(***************************************************************************)
EXTENDS Integers, FiniteSets, FiniteSetsExt

CONSTANTS NProcs,    \* MPI processes
          NCells,    \* grid cells
          Cutoff,    \* Grid::cutoff, negative for "copy all cells"
          Boundary   \* what its two ends are (Domain::bflag), by direction

ASSUME SizesAssumption == NProcs \in Nat \ {0} /\ NCells \in Nat \ {0}
ASSUME CutoffAssumption == Cutoff \in Int
ASSUME BoundaryAssumption ==
    /\ Boundary \in [{-1, 1} -> {"periodic", "outflow", "reflect", "surface"}]
    /\ Boundary[-1] = "periodic" <=> Boundary[1] = "periodic"

Proc == 0 .. NProcs - 1
Cells == 1 .. NCells
Owners == [Cells -> Proc]      \* cells[icell].proc

Width == 2
Epsilon == 1                   \* cell_epsilon: half of the smallest cell
Periodic == Boundary[1] = "periodic"

Span(c) == [lo |-> Width * (c - 1), hi |-> Width * c]
Box == [lo |-> 0, hi |-> Width * NCells]
Intersect(a, b) == [lo |-> Max({a.lo, b.lo}), hi |-> Min({a.hi, b.hi})]

Overlaps(a, b) == Intersect(a, b).lo <= Intersect(a, b).hi
Grazes(a, b) == Intersect(a, b).lo = Intersect(a, b).hi

Owned(owner, p) == {c \in Cells : owner[c] = p}
BBox(owner, p) == [lo |-> Min({Span(c).lo : c \in Owned(owner, p)}),
                   hi |-> Max({Span(c).hi : c \in Owned(owner, p)})]

\* Mutant: no nudge.
NoNudge(atEdge) == 0
\* Only a box that ends exactly at a periodic boundary needs the nudge.
Nudge(atEdge) == IF Periodic /\ Cutoff = 0 /\ atEdge THEN Epsilon ELSE 0

Extended(owner, p) ==
    LET bb == BBox(owner, p)
        ext == [lo |-> bb.lo - Cutoff - Nudge(bb.lo = Box.lo),
                hi |-> bb.hi + Cutoff + Nudge(bb.hi = Box.hi)]
    IN IF Periodic THEN ext ELSE Intersect(ext, Box)

\* box_periodic: the parts of the extended box, by their periodic shift.
Shifted(box, i) == [lo |-> box.lo + i * Box.hi, hi |-> box.hi + i * Box.hi]
Part(owner, p, i) == Intersect(Shifted(Extended(owner, p), i), Box)
Parts(owner, p) == {i \in IF Periodic THEN -1 .. 1 ELSE {0} :
                      Part(owner, p, i).lo < Part(owner, p, i).hi}

Touching(owner, p, c) == {i \in Parts(owner, p) : Overlaps(Span(c), Part(owner, p, i))}

\* The owner packs a cell once for each process: the first part of its box
\* that the cell overlaps decides whether the ghost is EMPTY.
Halo(owner, p, c) ==
    IF owner[c] = p THEN "owned"
    ELSE IF Cutoff < 0 THEN "full"
    ELSE IF Owned(owner, p) = {} \/ Touching(owner, p, c) = {} THEN "unknown"
    ELSE IF Grazes(Span(c), Part(owner, p, Min(Touching(owner, p, c)))) THEN "empty"
    ELSE "full"

Known(owner, p, c) == Halo(owner, p, c) # "unknown"

\* The cell across the face in direction d, 0 beyond the end of the box.
Neighbor(c, d) ==
    IF c + d \in Cells THEN c + d ELSE IF Periodic THEN IF d > 0 THEN 1 ELSE NCells ELSE 0

-----------------------------------------------------------------------------
(* Grid::find_neighbors stops the run when an owned cell has a neighbor    *)
(* that the process does not know: such a particle could not be handed on. *)
OwnedNeighborsKnown(owner) ==
    \A c \in Cells, d \in {-1, 1} :
        Neighbor(c, d) # 0 => Known(owner, owner[c], Neighbor(c, d))

=============================================================================
