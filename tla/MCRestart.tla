----------------------------- MODULE MCRestart -----------------------------
(* Instances of Restart for TLC.                                           *)
EXTENDS Restart, TLC

Cell(id) == [id |-> id, nsplit |-> 1]
Split(id) == [id |-> id, nsplit |-> 2]
Sub(id, i) == [id |-> id, nsplit |-> -i]
Particle(n, id, s) == [n |-> n, id |-> id, nsplit |-> s]

\* Cells 1 to 6 in stretches; a sub cell comes some entries after its split
\* cell.  Process 1 of 3 has no cell at all.
Share(from, to) ==
  [cells |-> SelectSeq(<<Cell(1), Split(2), Cell(3), Sub(2, 0), Sub(2, 1), Cell(4), Cell(5), Cell(6)>>,
                       LAMBDA e : e.id \in from .. to),
   particles |-> SelectSeq(<<Particle(1, 2, 0), Particle(2, 3, 1), Particle(3, 2, -1), Particle(4, 5, 1)>>,
                           LAMBDA x : x.id \in from .. to),
   size |-> [grid |-> to - from + 1, surf |-> 6 - from]]
Chunks == <<  <<Share(1, 6)>>,
              <<Share(1, 3), Share(4, 6)>>,
              <<Share(1, 2), Share(3, 2), Share(3, 6)>>,
              <<Share(1, 1), Share(2, 3), Share(4, 5), Share(6, 6)>> >>

\* Surface m + 1 belongs to process m modulo w.
Surfs(p, w) == SelectSeq(<<1, 2, 3, 4, 5>>, LAMBDA id : (id - 1) % w = p)
MCData == [w \in 1 .. 4 |-> [p \in 0 .. w - 1 |->
             [cells |-> Chunks[w][p + 1].cells, particles |-> Chunks[w][p + 1].particles,
              size |-> Chunks[w][p + 1].size, surfs |-> Surfs(p, w)]]]

Kind(kind, num) == [kind |-> kind, num |-> num]
Multi == {Kind("single", 0), Kind("each", 0), Kind("fileper", 2), Kind("fileper", 3),
          Kind("nfile", 2), Kind("nfile", 3)}
All == [w : 1 .. 4, r : 1 .. 6, multi : Multi, surfs : BOOLEAN, less : {FALSE}, eager : {TRUE}]
Waiting == [w : {3, 4}, r : {3, 4}, multi : {Kind("single", 0), Kind("nfile", 2)},
            surfs : {TRUE}, less : {FALSE}, eager : {FALSE}]
Less == [w : {3}, r : {2}, multi : Multi, surfs : {TRUE}, less : {TRUE}, eager : BOOLEAN]
RoundTrips == All \union Waiting \union Less
=============================================================================
