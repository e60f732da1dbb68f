------------------------------- MODULE MCRCB -------------------------------
(* Instances of RCB for TLC: one to five processes, dots in line and in    *)
(* the plane, ties of coordinates within and between processes.            *)
EXTENDS RCB, TLC

D(x, y, w) == [x |-> <<x, y>>, wt |-> w]

Rows == {
  <<  <<D(1, 1, 1), D(2, 1, 3)>>  >>,
  <<  <<D(1, 1, 1), D(2, 1, 1), D(3, 1, 2), D(3, 2, 1)>>, <<>>  >>,
  <<  <<D(1, 1, 1), D(4, 1, 1), D(2, 2, 1)>>, <<D(3, 1, 5)>>, <<D(2, 1, 1), D(4, 2, 1)>>  >>,
  <<  <<D(3, 1, 1), D(3, 2, 1), D(3, 3, 1), D(1, 1, 1), D(1, 2, 1), D(3, 2, 1)>>,
      <<D(3, 3, 1), D(1, 3, 1), D(3, 1, 1), D(2, 2, 1), D(1, 1, 1), D(2, 1, 1)>>,
      <<D(3, 1, 1), D(1, 2, 1), D(2, 3, 1), D(1, 3, 1), D(1, 2, 1), D(2, 3, 1)>>  >>,
  <<  <<D(1, 1, 1), D(1, 2, 1)>>, <<D(2, 1, 1), D(2, 2, 1)>>, <<D(3, 1, 1), D(3, 2, 1)>>, <<D(4, 1, 1)>>  >> }
Five == {
  <<  <<D(3, 1, 1)>>, <<D(3, 1, 1), D(2, 1, 1)>>, <<D(3, 1, 1)>>, <<D(2, 2, 2)>>, <<D(1, 2, 1)>>  >> }
MCLoads == Rows \union Five
=============================================================================
