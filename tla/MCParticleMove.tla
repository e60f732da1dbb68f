-------------------------- MODULE MCParticleMove --------------------------
(***************************************************************************)
(* Small instances of ParticleMove: three processes in clumps of one or    *)
(* two cells, so that fast particles visit every process and even a slow   *)
(* one meets every kind of ghost.                                          *)
(***************************************************************************)
EXTENDS ParticleMove

Ends(lo, hi) == [d \in {-1, 1} |-> IF d < 0 THEN lo ELSE hi]
AroundBox == Ends("periodic", "periodic")
Wall == Ends("outflow", "surface")

At(id, cell, v) == [id |-> id, x |-> cell, icell |-> cell, v |-> v, flag |-> "keep",
                    dtremain |-> 0]
Inserted(id, cell, v, d) == [At(id, cell, v) EXCEPT !.flag = "insert", !.dtremain = d]

\* Slabs of cells, in several orders of the processes that own them.
Slabs == {<<0, 0, 1, 2>>, <<1, 0, 2, 2>>, <<2, 1, 1, 0>>}
WideSlabs == {<<0, 0, 1, 1, 2>>, <<1, 2, 2, 0, 0>>, <<2, 0, 1, 1, 1>>}
AllCells == -1

\* Two particles of one process, to see it hand on several at once.
Pairs == {{At(1, 1, 2), At(2, 1, 3), At(3, 4, -2)}, {At(1, 4, -3), At(2, 3, 1), At(3, 4, 1)}}
\* Beside the walls, two faces in half a timestep.
AtWalls == {{At(1, 4, 2), At(2, 1, -1)}, {At(1, 3, 1), At(2, 4, 2)}}

\* Four particles in a longer row, one of them new.
Four == {{At(1, 1, 3), At(2, 3, -2), At(3, 4, 2), Inserted(4, 5, -4, 3)}}
=============================================================================
