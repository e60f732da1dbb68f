---------------------------- MODULE RestartFiles ----------------------------
(***************************************************************************)
(* How the processes of a run share the files of one restart               *)
(* (write_restart.cpp, read_restart.cpp).  A name without "%" is a single  *)
(* file.  With "%" there is one file for each process, or, with the option *)
(* fileper, one for num processes, or, with nfile, num of them.  The       *)
(* processes of a file are consecutive; the first does its input/output.   *)
(* A reader with more processes than files forms its own clusters, always  *)
(* by the formula of nfile.                                                *)
(***************************************************************************)
EXTENDS Integers

\* The cluster of process p when n processes share f files.
NfileCluster(p, f, n) == (p * f) \div n

\* The quotient as it is: the last process of the cluster before.
NfileQuotient(c, f, n) == (c * n) \div f

\* The first process of cluster c: a quotient rounded down, and corrected
\* when the process found belongs to the cluster before.
NfileFirst(c, f, n) ==
  LET q == (c * n) \div f
  IN  IF (q * f) \div n < c THEN q + 1 ELSE q

\* m.kind is "single", "each", "fileper" or "nfile"; m.num its argument.
Nfile(m, n) == IF m.num < n THEN m.num ELSE n

\* multiproc: 0 for a single file, else the number of files.
NFiles(m, n) ==
  CASE m.kind = "single"  -> 0
    [] m.kind = "each"    -> n
    [] m.kind = "fileper" -> n \div m.num + (IF n % m.num = 0 THEN 0 ELSE 1)
    [] m.kind = "nfile"   -> Nfile(m, n)

\* The file of process p (0 for a single file).
Icluster(m, p, n) ==
  CASE m.kind = "single"  -> 0
    [] m.kind = "each"    -> p
    [] m.kind = "fileper" -> p \div m.num
    [] m.kind = "nfile"   -> NfileCluster(p, Nfile(m, n), n)

\* The first process of file c, and the end of the range of its processes.
FirstProc(m, c, n) ==
  CASE m.kind = "single"  -> IF c = 0 THEN 0 ELSE n
    [] m.kind = "each"    -> c
    [] m.kind = "fileper" -> IF c * m.num < n THEN c * m.num ELSE n
    [] m.kind = "nfile"   -> NfileFirst(c, Nfile(m, n), n)

FileProc(m, p, n) == FirstProc(m, Icluster(m, p, n), n)
ClusterProcs(m, c, n) == FirstProc(m, c + 1, n) - FirstProc(m, c, n)
==============================================================================
