---------------------------- MODULE MacroCells ----------------------------
(***************************************************************************)
(* The cells whose macroscopic quantities a process is sent in every       *)
(* timestep (GridCommMacro::acquire_macro_comm_list_near of                *)
(* src/src/grid_comm_macro.cpp), and the cells in which its particles look *)
(* for them when they relax (GridCommMacro::interpolation).                *)
(***************************************************************************)
EXTENDS GhostCells

\* The bounding box and a bit less than a cell more, so that the second
\* layer of cells is not touched.
MacroBox(owner, p) ==
    LET bb == BBox(owner, p)
        ext == [lo |-> bb.lo - Width, hi |-> bb.hi + Width]
    IN IF Periodic THEN ext ELSE Intersect(ext, Box)

MacroPart(owner, p, i) == Intersect(Shifted(MacroBox(owner, p), i), Box)
MacroParts(owner, p) == {i \in IF Periodic THEN -1 .. 1 ELSE {0} :
                           MacroPart(owner, p, i).lo < MacroPart(owner, p, i).hi}

\* Mutant: a cell that only touches the box is sent as well.
Meets(a, b) == Overlaps(a, b)
\* box_overlap = 1: more than a common face.
Crosses(a, b) == Intersect(a, b).lo < Intersect(a, b).hi

\* The owner of cell c sends its quantities to p.
SentTo(owner, p, c) ==
    /\ owner[c] # p
    /\ Owned(owner, p) # {}
    /\ \E i \in MacroParts(owner, p) : Crosses(Span(c), MacroPart(owner, p, i))

\* A particle of cell c looks up to half a cell around itself, and not
\* across the ends of the box.
LooksAt(c) == {n \in Cells : n \in c - 1 .. c + 1}

-----------------------------------------------------------------------------
(* A process that is sent a cell it does not know stops the run.           *)
SentAreKnown(owner) ==
    \A p \in Proc, c \in Cells : SentTo(owner, p, c) => Known(owner, p, c)

(* What is looked at is one's own or is sent.                              *)
LookedAtAreSent(owner) ==
    \A c \in Cells : \A n \in LooksAt(c) : owner[n] = owner[c] \/ SentTo(owner, owner[c], n)

=============================================================================
