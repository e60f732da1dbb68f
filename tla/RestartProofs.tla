----------------------------- MODULE RestartProofs -----------------------------
(***************************************************************************)
(* For every number of processes of both runs and of files:                *)
(*   1. the formulas by which the processes share the files agree;         *)
(*   2. every MPI_Rsend, of a chunk to the writer of a file or of a chunk  *)
(*      that a reader hands out, finds the receive it is meant for;        *)
(*   3. what one run wrote the other has, every entry once;                *)
(*   4. cells that are taken for clumped are.                              *)
(***************************************************************************)
EXTENDS Restart, FiniteSetTheorems, SequenceTheorems, TLAPS

(* A product with a larger factor is larger. *)
LEMMA ProductMonotone ==
  \A a, b, n \in Int : n > 0 => (a < b <=> a * n < b * n)
PROOF
  <1> SUFFICES ASSUME NEW a \in Int, NEW b \in Int, NEW n \in Int, n > 0
               PROVE  a < b <=> a * n < b * n
    OBVIOUS
  <1>1. (b - a) * n = b * n - a * n  BY SMT
  <1>2. \A x \in Int : x > 0 <=> x * n > 0  BY Z3
  <1> QED  BY <1>1, <1>2

(* Integer division rounds down. *)
LEMMA DivRounds ==
  \A a, n \in Int : n > 0 =>
    /\ a \div n \in Int
    /\ (a \div n) * n <= a /\ a < (a \div n + 1) * n
PROOF
  BY Z3

(* A quotient is at least c when the dividend is c divisors. *)
LEMMA DivAtLeast ==
  \A a, c, n \in Int : n > 0 => (a \div n >= c <=> a >= c * n)
PROOF
  <1> SUFFICES ASSUME NEW a \in Int, NEW c \in Int, NEW n \in Int, n > 0
               PROVE  a \div n >= c <=> a >= c * n
    OBVIOUS
  <1> DEFINE d == a \div n
  <1>1. d \in Int /\ d * n <= a /\ a < (d + 1) * n  BY DivRounds
  <1> HIDE DEF d
  <1>2. ASSUME d >= c PROVE a >= c * n
    <2>1. ~(d * n < c * n)  BY <1>1, <1>2, ProductMonotone
    <2> QED  BY <1>1, <2>1
  <1>3. ASSUME d < c PROVE a < c * n
    <2>1. d + 1 \in Int /\ ~(c < d + 1)  BY <1>1, <1>3
    <2>2. ~(c * n < (d + 1) * n)  BY <2>1, ProductMonotone
    <2> QED  BY <1>1, <2>2
  <1> QED  BY <1>1, <1>2, <1>3 DEF d

(* NfileFirst(c) is the first process whose cluster is c or a later one.   *)
LEMMA FirstOfLater ==
  \A n, f \in Nat \ {0}, c \in Nat, p \in Int :
    NfileFirst(c, f, n) \in Int /\ (NfileCluster(p, f, n) >= c <=> p >= NfileFirst(c, f, n))
PROOF
  <1> SUFFICES ASSUME NEW n \in Nat \ {0}, NEW f \in Nat \ {0}, NEW c \in Nat, NEW p \in Int
               PROVE  NfileFirst(c, f, n) \in Int /\ (NfileCluster(p, f, n) >= c <=> p >= NfileFirst(c, f, n))
    OBVIOUS
  <1> DEFINE q == (c * n) \div f
             t == c * n
  <1>1. t \in Int /\ q \in Int /\ q * f <= t /\ t < (q + 1) * f  BY DivRounds
  <1>2. p * f \in Int /\ q * f \in Int  OBVIOUS
  <1>3. NfileCluster(p, f, n) >= c <=> p * f >= t  BY <1>2, DivAtLeast DEF NfileCluster
  <1>4. (q * f) \div n \in Int /\ ((q * f) \div n >= c <=> q * f >= t)  BY <1>1, <1>2, DivAtLeast, DivRounds
  <1>5. NfileFirst(c, f, n) = IF (q * f) \div n < c THEN q + 1 ELSE q  BY DEF NfileFirst
  <1> HIDE DEF q, t
  <1>6. CASE q * f >= t
    <2>1. NfileFirst(c, f, n) = q /\ t = q * f  BY <1>1, <1>2, <1>4, <1>5, <1>6
    <2>2. p < q <=> p * f < q * f  BY <1>1, ProductMonotone
    <2> QED  BY <1>1, <1>2, <1>3, <2>1, <2>2
  <1>7. CASE q * f < t
    <2>1. NfileFirst(c, f, n) = q + 1  BY <1>1, <1>2, <1>4, <1>5, <1>7
    <2>2. p < q + 1 <=> p * f < (q + 1) * f  BY <1>1, ProductMonotone
    <2>3. p < q + 1 => p * f <= q * f
      <3>1. q < p <=> q * f < p * f  BY <1>1, ProductMonotone
      <3> QED  BY <1>1, <1>2, <3>1
    <2>4. p >= q + 1 => p * f >= (q + 1) * f  BY <1>1, <1>2, <2>2
    <2> QED  BY <1>1, <1>2, <1>3, <1>7, <2>1, <2>3, <2>4
  <1> QED  BY <1>1, <1>2, <1>6, <1>7

(* write_restart.cpp:158-171, read_restart.cpp:969-983: the processes      *)
(* whose cluster is c are those from the first of c up to the first of     *)
(* c + 1, so that a file is served by exactly the processes counted in     *)
(* nclusterprocs.                                                          *)
THEOREM ClustersAreRanges ==
  ASSUME NEW n \in Nat \ {0}, NEW f \in Nat \ {0}, NEW c \in Nat, NEW p \in Int
  PROVE  NfileCluster(p, f, n) = c <=> NfileFirst(c, f, n) <= p /\ p < NfileFirst(c + 1, f, n)
PROOF
  <1>1. p * f \in Int /\ NfileCluster(p, f, n) \in Int  BY DivRounds DEF NfileCluster
  <1>2. c + 1 \in Nat  OBVIOUS
  <1>3. NfileFirst(c, f, n) \in Int /\ (NfileCluster(p, f, n) >= c <=> p >= NfileFirst(c, f, n))
    BY FirstOfLater
  <1>4. /\ NfileFirst(c + 1, f, n) \in Int
        /\ NfileCluster(p, f, n) >= c + 1 <=> p >= NfileFirst(c + 1, f, n)
    BY <1>2, FirstOfLater
  <1> QED  BY <1>1, <1>3, <1>4

(* With no more files than processes no cluster is empty, the first starts *)
(* with process 0, and the last ends with the last process.                *)
THEOREM ClustersNotEmpty ==
  ASSUME NEW n \in Nat \ {0}, NEW f \in 1 .. n, NEW c \in 0 .. f - 1
  PROVE  /\ NfileFirst(c, f, n) < NfileFirst(c + 1, f, n)
         /\ NfileFirst(0, f, n) = 0 /\ NfileFirst(f, f, n) = n
PROOF
  <1>1. f \in Nat \ {0} /\ f <= n /\ c \in Nat /\ c + 1 \in Nat  OBVIOUS
  <1>2. NfileFirst(c, f, n) < NfileFirst(c + 1, f, n)
    <2> DEFINE p == NfileFirst(c, f, n)
    <2>1. p \in Int  BY <1>1, FirstOfLater
    <2>2. ~(NfileCluster(p - 1, f, n) >= c)  BY <1>1, <2>1, FirstOfLater
    <2> HIDE DEF p
    <2>3. (p - 1) * f \in Int /\ (p - 1) * f < c * n
      BY <1>1, <2>1, <2>2, DivAtLeast DEF NfileCluster
    <2>4. p * f = (p - 1) * f + f /\ (c + 1) * n = c * n + n  BY <1>1, <2>1
    <2>5. p * f \in Int /\ p * f < (c + 1) * n  BY <1>1, <2>3, <2>4
    <2>6. ~(NfileCluster(p, f, n) >= c + 1)  BY <1>1, <2>5, DivAtLeast DEF NfileCluster
    <2>7. NfileFirst(c + 1, f, n) \in Int /\ ~(p >= NfileFirst(c + 1, f, n))
      BY <1>1, <2>1, <2>6, FirstOfLater
    <2> QED  BY <2>1, <2>7 DEF p
  <1>3. NfileFirst(0, f, n) = 0
    <2>1. \A m \in Nat \ {0} : 0 \div m = 0  BY Z3
    <2>2. 0 * n = 0 /\ 0 * f = 0  BY <1>1
    <2> QED  BY <1>1, <2>1, <2>2 DEF NfileFirst
  <1>4. NfileFirst(f, f, n) = n
    <2>1. (f * n) \div f = n
      <3> DEFINE d == (f * n) \div f
      <3>1. d \in Int /\ d * f <= f * n /\ f * n < (d + 1) * f  BY <1>1, DivRounds
      <3> HIDE DEF d
      <3>2. f * n = n * f  BY <1>1
      <3>3. ~(n < d) /\ n < d + 1  BY <1>1, <3>1, <3>2, ProductMonotone
      <3> QED  BY <1>1, <3>1, <3>3 DEF d
    <2>2. (n * f) \div n >= f  BY <1>1, DivAtLeast
    <2>3. (n * f) \div n \in Int  BY <1>1, DivRounds
    <2> QED  BY <1>1, <2>1, <2>2, <2>3 DEF NfileFirst
  <1> QED  BY <1>2, <1>3, <1>4

-----------------------------------------------------------------------------
(* The files of a writing run.                                             *)

(* The cluster of a process is one of the f, and its range is within 0 .. n. *)
LEMMA NfileRanges ==
  ASSUME NEW n \in Nat \ {0}, NEW f \in 1 .. n, NEW p \in 0 .. n - 1
  PROVE  LET c == NfileCluster(p, f, n)
         IN  /\ c \in 0 .. f - 1
             /\ NfileFirst(c, f, n) \in 0 .. p /\ NfileFirst(c + 1, f, n) \in p + 1 .. n
PROOF
  <1> DEFINE c == NfileCluster(p, f, n)
  <1>1. f \in Nat \ {0} /\ f <= n /\ p \in Int /\ 0 <= p /\ p < n  OBVIOUS
  <1>2. \A x \in Int : x * f \in Int
    BY <1>1
  <1>3. c \in Int  BY <1>1, <1>2, DivRounds DEF NfileCluster
  <1>4. c >= 0
    <2>1. p * f >= 0 * n  BY <1>1, SMT
    <2> QED  BY <1>1, <1>2, <2>1, DivAtLeast DEF NfileCluster
  <1>5. c < f
    <2>1. p * f < n * f  BY <1>1, ProductMonotone
    <2>2. n * f = f * n  BY <1>1
    <2>3. ~(p * f >= f * n)  BY <1>1, <1>2, <2>1, <2>2
    <2> QED  BY <1>1, <1>2, <1>3, <2>3, DivAtLeast DEF NfileCluster
  <1>6. \A x \in Int : \A d \in Nat : NfileFirst(d, f, n) \in Int /\ (NfileCluster(x, f, n) >= d <=> x >= NfileFirst(d, f, n))
    BY <1>1, FirstOfLater
  <1>7. ~(NfileCluster(0 - 1, f, n) >= c)
    <2>1. (0 - 1) * f = 0 - f /\ 0 - f \in Int  BY <1>1
    <2>2. c * n >= 0 /\ c * n \in Int  BY <1>1, <1>3, <1>4, SMT
    <2>3. ~((0 - 1) * f >= c * n)  BY <1>1, <2>1, <2>2
    <2> QED  BY <1>1, <1>2, <1>3, <2>3, DivAtLeast DEF NfileCluster
  <1>8. NfileCluster(n, f, n) >= c + 1
    <2>1. n * f = f * n  BY <1>1
    <2>2. NfileCluster(n, f, n) >= f  BY <1>1, <1>2, <2>1, DivAtLeast DEF NfileCluster
    <2>3. NfileCluster(n, f, n) \in Int  BY <1>1, <1>2, DivRounds DEF NfileCluster
    <2> QED  BY <1>1, <1>3, <1>5, <2>2, <2>3
  <1> HIDE DEF c
  <1>9. c \in Nat /\ c + 1 \in Nat /\ n \in Int /\ 0 - 1 \in Int  BY <1>1, <1>3, <1>4
  <1>10. NfileFirst(c, f, n) \in Int /\ NfileFirst(c + 1, f, n) \in Int  BY <1>6, <1>9
  <1>11. p >= NfileFirst(c, f, n) /\ ~(p >= NfileFirst(c + 1, f, n))
    BY <1>1, <1>3, <1>6, <1>9 DEF c
  <1>12. ~(0 - 1 >= NfileFirst(c, f, n)) /\ n >= NfileFirst(c + 1, f, n)
    BY <1>6, <1>7, <1>8, <1>9
  <1>13. NfileFirst(c, f, n) \in 0 .. p /\ NfileFirst(c + 1, f, n) \in p + 1 .. n
    BY <1>1, <1>10, <1>11, <1>12
  <1> QED  BY <1>3, <1>4, <1>5, <1>13, <1>1 DEF c

(* The processes of a file are a range that starts with the first one.     *)
LEMMA FileRanges ==
  ASSUME NEW m \in MultiKinds, NEW n \in Nat \ {0}, NEW p \in 0 .. n - 1
  PROVE  /\ FirstProc(m, Icluster(m, p, n), n) \in 0 .. p
         /\ FirstProc(m, Icluster(m, p, n) + 1, n) \in p + 1 .. n
         /\ \A x \in 0 .. n - 1 :
              Icluster(m, x, n) = Icluster(m, p, n) <=>
                /\ FirstProc(m, Icluster(m, p, n), n) <= x
                /\ x < FirstProc(m, Icluster(m, p, n) + 1, n)
PROOF
  <1>1. n \in Int /\ n > 0 /\ p \in Int /\ 0 <= p /\ p < n  OBVIOUS
  <1>2. CASE m.kind = "single"
    BY <1>1, <1>2 DEF FirstProc, Icluster
  <1>3. CASE m.kind = "each"
    <2>1. \A x : Icluster(m, x, n) = x /\ FirstProc(m, x, n) = x  BY <1>3 DEF FirstProc, Icluster
    <2>2. \A x \in 0 .. n - 1 : x = p <=> p <= x /\ x < p + 1  BY <1>1
    <2> QED  BY <1>1, <2>1, <2>2
  <1>4. CASE m.kind = "fileper"
    <2>1. m.num \in Nat \ {0}  BY <1>4 DEF MultiKinds
    <2> DEFINE h == m.num
               c == p \div h
    <2>2. h \in Int /\ h > 0  BY <2>1
    <2>3. c \in Int /\ c * h <= p /\ p < (c + 1) * h  BY <1>1, <2>2, DivRounds
    <2> HIDE DEF c, h
    <2>16. c + 1 \in Int  BY <2>3
    <2>4. \A x \in Int : x \div h \in Int /\ (x \div h >= c <=> x >= c * h) /\ (x \div h >= c + 1 <=> x >= (c + 1) * h)
      BY <2>2, <2>3, <2>16, DivAtLeast, DivRounds
    <2>5. c * h \in Int /\ (c + 1) * h \in Int  BY <2>2, <2>3
    <2>6. c >= 0
      <3>1. p >= 0 * h  BY <1>1, <2>2
      <3> QED  BY <1>1, <2>2, <3>1, DivAtLeast DEF c
    <2>7. c * h >= 0  BY <2>2, <2>3, <2>6, SMT
    <2>8. Icluster(m, p, n) = c /\ \A x : Icluster(m, x, n) = x \div h  BY <1>4 DEF Icluster, c, h
    <2>9. /\ FirstProc(m, c, n) = IF c * h < n THEN c * h ELSE n
          /\ FirstProc(m, c + 1, n) = IF (c + 1) * h < n THEN (c + 1) * h ELSE n
      BY <1>4 DEF FirstProc, h
    <2>10. FirstProc(m, c, n) = c * h  BY <1>1, <2>3, <2>5, <2>9
    <2>11. \A x \in Int : x \div h = c <=> x >= c * h /\ x < (c + 1) * h
      BY <2>3, <2>4, <2>5
    <2>12. \A x \in 0 .. n - 1 : x < FirstProc(m, c + 1, n) <=> x < (c + 1) * h
      BY <1>1, <2>5, <2>9
    <2>13. FirstProc(m, c + 1, n) \in p + 1 .. n  BY <1>1, <2>3, <2>5, <2>9
    <2>14. \A x \in 0 .. n - 1 : x \in Int /\ (c * h <= x <=> x >= c * h)  BY <2>5
    <2>15. FirstProc(m, c, n) \in 0 .. p  BY <1>1, <2>3, <2>5, <2>7, <2>10
    <2> QED  BY <2>8, <2>10, <2>11, <2>12, <2>13, <2>14, <2>15
  <1>5. CASE m.kind = "nfile"
    <2>1. m.num \in Nat \ {0}  BY <1>5 DEF MultiKinds
    <2> DEFINE f == Nfile(m, n)
               c == NfileCluster(p, f, n)
    <2>2. f \in 1 .. n  BY <1>1, <2>1 DEF Nfile
    <2>3. Icluster(m, p, n) = c /\ \A x : Icluster(m, x, n) = NfileCluster(x, f, n)  BY <1>5 DEF Icluster
    <2>4. \A d : FirstProc(m, d, n) = NfileFirst(d, f, n)  BY <1>5 DEF FirstProc
    <2> HIDE DEF f
    <2>5. /\ c \in 0 .. f - 1
          /\ NfileFirst(c, f, n) \in 0 .. p /\ NfileFirst(c + 1, f, n) \in p + 1 .. n
      BY <2>2, NfileRanges
    <2>6. f \in Nat \ {0}  BY <2>2
    <2> HIDE DEF c
    <2>7. c \in Nat  BY <2>5
    <2>8. \A x \in Int : NfileCluster(x, f, n) = c <=> NfileFirst(c, f, n) <= x /\ x < NfileFirst(c + 1, f, n)
      BY <2>6, <2>7, ClustersAreRanges
    <2> QED  BY <2>3, <2>4, <2>5, <2>8
  <1> QED  BY <1>2, <1>3, <1>4, <1>5 DEF MultiKinds

(* write_restart.cpp:134-176, read_restart.cpp:158-171: every file that the *)
(* header counts has a process that wrote it, the first of its range, so   *)
(* that no reader opens a file that is not there.                          *)
THEOREM FilesAreWritten ==
  ASSUME NEW m \in MultiKinds, NEW n \in Nat \ {0}
  PROVE  /\ NFiles(m, n) \in 0 .. n
         /\ \A c \in 0 .. NFiles(m, n) - 1 : \E p \in 0 .. n - 1 : Icluster(m, p, n) = c
         /\ NFiles(m, n) = 0 => \A p \in 0 .. n - 1 : Icluster(m, p, n) = 0
PROOF
  <1>1. n \in Int /\ n > 0  OBVIOUS
  <1>2. CASE m.kind = "single"
    BY <1>1, <1>2 DEF NFiles, Icluster
  <1>3. CASE m.kind = "each"
    BY <1>1, <1>3 DEF NFiles, Icluster
  <1>4. CASE m.kind = "fileper"
    <2>1. m.num \in Nat \ {0}  BY <1>4 DEF MultiKinds
    <2> DEFINE h == m.num
               d == n \div h
               v == IF n % h = 0 THEN 0 ELSE 1
    <2>2. h \in Int /\ h > 0 /\ h >= 1  BY <2>1
    <2>3. d \in Int /\ d * h <= n /\ n < (d + 1) * h  BY <1>1, <2>2, DivRounds
    <2>4. n = h * d + (n % h) /\ n % h \in 0 .. h - 1  BY <1>1, <2>2, Z3
    <2>5. NFiles(m, n) = d + v  BY <1>4 DEF NFiles
    <2>6. \A c : Icluster(m, c, n) = c \div h  BY <1>4 DEF Icluster
    <2> HIDE DEF h, d
    <2>7. h * d = d * h /\ d * h \in Int  BY <2>2, <2>3
    <2>8. d >= 0
      <3>1. n >= 0 * h  BY <1>1, <2>2
      <3> QED  BY <1>1, <2>2, <3>1, DivAtLeast DEF d
    <2>9. d * h >= d  BY <2>2, <2>3, <2>8, Z3
    <2>10. d + v \in 0 .. n  BY <1>1, <2>2, <2>3, <2>4, <2>7, <2>8, <2>9
    <2>11. d + v >= 1
      <3>1. d = 0 => d * h = 0  BY <2>2
      <3> QED  BY <1>1, <2>3, <2>4, <2>7, <2>8, <3>1
    <2>12. ASSUME NEW c \in 0 .. d + v - 1 PROVE \E p \in 0 .. n - 1 : p \div h = c
      <3>1. c \in Int /\ 0 <= c /\ c <= d /\ (v = 0 => c < d)  BY <2>3
      <3>2. c * h \in Int /\ c * h >= 0  BY <2>2, <3>1, SMT
      <3>3. c * h < n
        <4>1. CASE c < d
          <5>1. c * h < d * h  BY <2>2, <2>3, <3>1, <4>1, ProductMonotone
          <5> QED  BY <1>1, <2>3, <2>7, <3>2, <5>1
        <4>2. CASE c = d
          <5>1. n % h # 0  BY <2>3, <3>1, <4>2
          <5> QED  BY <1>1, <2>2, <2>3, <2>4, <2>7, <4>2, <5>1
        <4> QED  BY <2>3, <3>1, <4>1, <4>2
      <3>4. (c * h) \div h = c
        <4> DEFINE e == (c * h) \div h
        <4>1. e \in Int /\ e * h <= c * h /\ c * h < (e + 1) * h  BY <2>2, <3>2, DivRounds
        <4> HIDE DEF e
        <4>2. ~(c < e) /\ c < e + 1  BY <2>2, <3>1, <3>2, <4>1, ProductMonotone
        <4> QED  BY <3>1, <4>1, <4>2 DEF e
      <3> QED  BY <1>1, <3>2, <3>3, <3>4
    <2> HIDE DEF v
    <2>13. v \in Int  BY DEF v
    <2> QED  BY <1>1, <2>3, <2>5, <2>6, <2>10, <2>11, <2>12, <2>13
  <1>5. CASE m.kind = "nfile"
    <2>1. m.num \in Nat \ {0}  BY <1>5 DEF MultiKinds
    <2> DEFINE f == Nfile(m, n)
    <2>2. f \in 1 .. n  BY <1>1, <2>1 DEF Nfile
    <2>3. NFiles(m, n) = f /\ \A x : Icluster(m, x, n) = NfileCluster(x, f, n)  BY <1>5 DEF Icluster, NFiles
    <2> HIDE DEF f
    <2>4. ASSUME NEW c \in 0 .. f - 1 PROVE \E p \in 0 .. n - 1 : NfileCluster(p, f, n) = c
      <3>1. f \in Nat \ {0} /\ c \in Nat /\ c + 1 \in Nat /\ f <= n  BY <2>2
      <3> DEFINE p == NfileFirst(c, f, n)
      <3>2. p < NfileFirst(c + 1, f, n)  BY <2>2, ClustersNotEmpty
      <3>3. p \in Int /\ NfileFirst(c + 1, f, n) \in Int  BY <1>1, <3>1, FirstOfLater
      <3> HIDE DEF p
      <3>4. NfileCluster(p, f, n) = c  BY <3>1, <3>2, <3>3, ClustersAreRanges DEF p
      <3>5. p >= 0
        <4>1. (0 - 1) * f = 0 - f /\ 0 - f \in Int  BY <3>1
        <4>2. c * n >= 0 /\ c * n \in Int  BY <1>1, <3>1, SMT
        <4>3. ~((0 - 1) * f >= c * n)  BY <3>1, <4>1, <4>2
        <4>4. ~(NfileCluster(0 - 1, f, n) >= c)  BY <1>1, <3>1, <4>1, <4>3, DivAtLeast DEF NfileCluster
        <4>5. ~(0 - 1 >= p)  BY <1>1, <3>1, <4>4, FirstOfLater DEF p
        <4> QED  BY <3>3, <4>5
      <3>6. p < n
        <4>1. NfileFirst(f, f, n) = n  BY <2>2, ClustersNotEmpty
        <4>2. ~(NfileCluster(p, f, n) >= f)  BY <2>2, <3>1, <3>4
        <4>3. ~(p >= n)  BY <1>1, <3>1, <3>3, <4>1, <4>2, FirstOfLater
        <4> QED  BY <1>1, <3>3, <4>3
      <3> QED  BY <1>1, <3>3, <3>4, <3>5, <3>6
    <2> QED  BY <1>1, <2>2, <2>3, <2>4
  <1> QED  BY <1>2, <1>3, <1>4, <1>5 DEF MultiKinds
-----------------------------------------------------------------------------
(* The handshake: types, and what a process of a file and its writer, or a *)
(* process of a cluster and its reader, know of each other.                *)

Chans == chan = [p \in Procs |-> [q \in Procs |-> chan[p][q]]]
Labelled == pc = [p \in Procs |-> pc[p]]
Types ==
  /\ set \in Settings /\ stage \in {"write", "read"}
  /\ Labelled /\ k \in [Procs -> Nat] /\ pass \in [Procs -> Int]
  /\ sec \in [Procs -> Sections] /\ posted \in [Procs -> Int] /\ Chans

Header == [w |-> set.w, surfs |-> set.surfs,
           multiproc |-> IF set.less THEN Missing ELSE NFiles(set.multi, set.w)]
Headed ==
  /\ base = Header
  /\ DOMAIN files = {Group(p) : p \in 0 .. set.w - 1}
  /\ \A c \in DOMAIN files : files[c] = [n |-> files[c].n, pieces |-> files[c].pieces] /\ files[c].n \in Int

(* Writing: q writes the file, p is another process of it.                 *)
Serving == {"write", "announced", "post", "sendping", "wait"}
Gone(p, s) ==
  IF set.surfs /\ ~set.less /\ s = "grid" THEN pc[p] = "buffer" /\ sec[p] = "surf" /\ k[p] = 0
  ELSE pc[p] = "written"
Still(p, q) == chan[p][q] = <<>> /\ chan[q][p] = <<>>

Level(q, p) ==
  /\ pc[q] \in {"open", "buffer"} /\ pc[p] = pc[q] /\ sec[p] = sec[q] /\ k[p] = 0 /\ k[q] = 0
  /\ posted[q] # p /\ Still(p, q)
Before(q, p) ==
  /\ pc[q] \in Serving /\ (k[q] < p - q \/ (k[q] = p - q /\ pc[q] \in {"write", "announced"}))
  /\ sec[p] = sec[q] /\ k[p] = 0 /\ posted[q] # p /\ chan[q][p] = <<>>
  /\ \/ pc[p] = "announce" /\ set.less /\ chan[p][q] = <<>>
     \/ pc[p] = "ping" /\ chan[p][q] = IF set.less THEN <<Size(NPieces(p))>> ELSE <<>>
Owing(q, p) ==
  /\ k[q] = p - q /\ sec[p] = sec[q] /\ chan[p][q] = <<>>
  /\ k[p] < NPieces(p) /\ pass[q] = NPieces(p) - k[p]
  /\ \/ pc[q] = "post" /\ pc[p] = "ping" /\ posted[q] # p /\ chan[q][p] = <<>>
     \/ pc[q] = "sendping" /\ pc[p] = "ping" /\ posted[q] = p /\ chan[q][p] = <<>>
     \/ pc[q] = "wait" /\ pc[p] = "ping" /\ posted[q] = p /\ chan[q][p] = <<Ping>>
     \/ pc[q] = "wait" /\ pc[p] = "rsend" /\ posted[q] = p /\ chan[q][p] = <<>>
Answered(q, p) ==
  /\ k[q] = p - q /\ pc[q] = "wait" /\ posted[q] = p
  /\ chan[q][p] = <<>> /\ \E x : chan[p][q] = <<x>>
  /\ \/ /\ pc[p] = "ping" /\ sec[p] = sec[q]
        /\ k[p] < NPieces(p) /\ pass[q] = NPieces(p) - k[p] + 1
     \/ Gone(p, sec[q]) /\ pass[q] = 1
After(q, p) ==
  /\ pc[q] \in Serving /\ k[q] > p - q /\ posted[q] # p /\ Still(p, q) /\ Gone(p, sec[q])
WritePair(q, p) ==
  \/ Level(q, p) \/ Before(q, p) \/ Owing(q, p) \/ Answered(q, p) \/ After(q, p)
  \/ pc[q] = "written" /\ pc[p] = "written"

WritePairs == \A p \in Procs : Mine(p) # p => WritePair(Mine(p), p)
WritePart(p) ==
  /\ pc[p] \in IF Mine(p) = p THEN {"open", "buffer", "written"} \union Serving
               ELSE {"open", "buffer", "announce", "ping", "rsend", "written"}
  /\ Mine(p) = p /\ pc[p] \in Serving \ {"write"} => k[p] \in 1 .. GroupSize(p) - 1
  /\ pc[p] \in {"announce", "ping", "rsend"} => SizeOf(p, sec[p]) <= maxsize
WriteParts == \A p \in Procs : WritePart(p)
Opened == At("open") \/ (Headed /\ \A p \in Procs : pc[p] # "open")

WriteInv == stage = "write" => WritePairs /\ WriteParts /\ Opened

(* Reading: q reads the file of the cluster of p.                          *)
Sharing == base.multiproc # 0 /\ ~(set.r <= base.multiproc)
FileOf(p) == IF Sharing THEN NfileCluster(p, base.multiproc, set.r) ELSE 0
ReaderOf(p) == IF Sharing THEN NfileFirst(FileOf(p), base.multiproc, set.r) ELSE 0
ClusterOf(p) == IF Sharing THEN NfileFirst(FileOf(p) + 1, base.multiproc, set.r) - ReaderOf(p) ELSE set.r
TurnOf(p) == ReaderOf(p) + (k[p] % ClusterOf(p))
ChunksOf(p) == files[FileOf(p)].n
Shared(s) == Method(s) \in {"same", "share"}
Left(p, s) ==
  IF base.surfs /\ s = "grid" THEN pc[p] = "enter" /\ sec[p] = "surf" ELSE pc[p] = "counted"
Aside(p) == pc[p] \in {"enter", "counted"} \/ (pc[p] = "read" /\ ~Shared(sec[p]))

\* n is the next chunk that p wants of q.
Ahead(q, p, n) == n % ClusterOf(p) = p - q /\ k[q] <= n /\ n < k[q] + ClusterOf(p)
Loose(q, p) == Aside(q) /\ Aside(p) /\ posted[p] = None /\ Still(p, q)
Resting(q, p, s) ==
  /\ \/ pc[q] \in {"read", "await", "rsend"} /\ sec[q] = s /\ (pc[q] = "read" \/ TurnOf(q) # p)
     \/ Left(q, s)
  /\ chan[p][q] = <<>>
  /\ \/ pc[p] = "size" /\ sec[p] = s /\ posted[p] = None /\ chan[q][p] = <<>> /\ Ahead(q, p, k[p])
     \/ /\ pc[p] = "wait" /\ sec[p] = s /\ posted[p] = q
        /\ \E x : chan[q][p] = <<x>>
        /\ Ahead(q, p, k[p] + ClusterOf(p))
     \/ Left(p, s) /\ posted[p] = None /\ chan[q][p] = <<>> /\ Ahead(q, p, k[p]) /\ k[p] >= ChunksOf(p)
Exchange(q, p, s) ==
  /\ sec[q] = s /\ sec[p] = s /\ TurnOf(q) = p /\ k[q] < ChunksOf(p)
  /\ \/ /\ pc[q] = "await" /\ pc[p] = "size" /\ posted[p] = None /\ k[p] = k[q]
        /\ chan[q][p] = <<Size(0)>> /\ chan[p][q] = <<>>
     \/ /\ pc[q] = "await" /\ pc[p] = "wait" /\ posted[p] = q /\ k[p] + ClusterOf(p) = k[q]
        /\ \E x : chan[q][p] = <<x, Size(0)>>
        /\ chan[p][q] = <<>>
     \/ pc[q] = "await" /\ pc[p] = "post" /\ posted[p] = None /\ k[p] = k[q] /\ Still(p, q)
     \/ pc[q] = "await" /\ pc[p] = "sendping" /\ posted[p] = q /\ k[p] = k[q] /\ Still(p, q)
     \/ /\ pc[q] = "await" /\ pc[p] = "wait" /\ posted[p] = q /\ k[p] = k[q]
        /\ chan[q][p] = <<>> /\ chan[p][q] = <<Ping>>
     \/ pc[q] = "rsend" /\ pc[p] = "wait" /\ posted[p] = q /\ k[p] = k[q] /\ Still(p, q)
ReadPair(q, p) ==
  \/ Loose(q, p)
  \/ \E s \in Sections : Shared(s) /\ (Resting(q, p, s) \/ Exchange(q, p, s))

ReadPairs == \A p \in Procs : ReaderOf(p) # p => ReadPair(ReaderOf(p), p)
ReadPart(p) ==
  /\ pc[p] \in IF ReaderOf(p) = p THEN {"enter", "read", "await", "rsend", "counted"}
               ELSE {"enter", "read", "size", "post", "sendping", "wait", "counted"}
  /\ pc[p] \in {"await", "rsend"} => TurnOf(p) # p
ReadParts == \A p \in Procs : ReadPart(p)
Entering ==
  \/ At("enter") /\ \A p \in Procs : sec[p] = "grid"
  \/ \A p \in Procs : pc[p] = "enter" => sec[p] = "surf"

Going == ~set.less /\ ReadPairs /\ ReadParts /\ Entering
ReadInv ==
  stage = "read" =>
    /\ Headed
    /\ \/ At("header") /\ (\A p \in Procs : sec[p] = "grid")
          /\ \A p, q \in Procs : chan[p][q] = <<>> /\ posted[p] = None
       \/ At("refused") \/ At("ready")
       \/ Going

HandshakeInv == WriteInv /\ ReadInv

-----------------------------------------------------------------------------
(* Which processes belong together.                                        *)

LEMMA SettingFacts ==
  ASSUME set \in Settings
  PROVE  /\ set.w \in Nat \ {0} /\ set.r \in Nat \ {0} /\ set.multi \in MultiKinds
         /\ set.surfs \in BOOLEAN /\ set.less \in BOOLEAN
         /\ \A p \in 0 .. set.w - 1, s \in Sections : SizeOf(p, s) \in Int
PROOF
  <1>1. set \in [w : Nat \ {0}, r : Nat \ {0}, multi : MultiKinds,
                 surfs : BOOLEAN, less : BOOLEAN, eager : BOOLEAN]
    BY SettingsAssumption
  <1>2. \A p \in 0 .. set.w - 1, s \in Sections : SizeOf(p, s) \in Int
    BY DataAssumption DEF SizeOf
  <1> QED  BY <1>1, <1>2

(* The writer of the file of a process, and the others of that file.       *)
LEMMA WriterFacts ==
  ASSUME set \in Settings, NEW p \in 0 .. set.w - 1
  PROVE  /\ Mine(p) \in 0 .. p /\ Mine(Mine(p)) = Mine(p)
         /\ Group(Mine(p)) = Group(p) /\ GroupSize(Mine(p)) = GroupSize(p)
         /\ GroupSize(p) \in Int /\ p - Mine(p) < GroupSize(p)
         /\ \A j \in 1 .. GroupSize(p) - 1 :
              Mine(p) + j \in 0 .. set.w - 1 /\ Mine(Mine(p) + j) = Mine(p)
PROOF
  <1> DEFINE m == set.multi
             n == set.w
             c == Icluster(m, p, n)
             q == FirstProc(m, c, n)
             e == FirstProc(m, c + 1, n)
  <1>1. m \in MultiKinds /\ n \in Nat \ {0}  BY SettingFacts
  <1>2. /\ q \in 0 .. p /\ e \in p + 1 .. n
        /\ \A x \in 0 .. n - 1 : Icluster(m, x, n) = c <=> q <= x /\ x < e
    BY <1>1, FileRanges
  <1>3. \A x : Mine(x) = FirstProc(m, Icluster(m, x, n), n) /\ Group(x) = Icluster(m, x, n)
               /\ GroupSize(x) = FirstProc(m, Icluster(m, x, n) + 1, n) - FirstProc(m, Icluster(m, x, n), n)
    BY DEF Mine, Group, GroupSize, FileProc, ClusterProcs
  <1>4. Mine(p) = q /\ Group(p) = c /\ GroupSize(p) = e - q  BY <1>3
  <1>5. \A x \in 0 .. n - 1 : Icluster(m, x, n) = c => Mine(x) = q /\ Group(x) = c /\ GroupSize(x) = e - q
    BY <1>3
  <1> HIDE DEF m, c, q, e
  <1>6. \A x \in 0 .. n - 1 : q <= x /\ x < e => Mine(x) = q /\ Group(x) = c /\ GroupSize(x) = e - q
    BY <1>2, <1>5
  <1>7. q \in 0 .. n - 1 /\ q <= q /\ q < e  BY <1>1, <1>2
  <1>8. e - q \in Int /\ p - q < e - q  BY <1>1, <1>2
  <1>9. \A j \in 1 .. e - q - 1 : q + j \in 0 .. n - 1 /\ q <= q + j /\ q + j < e  BY <1>1, <1>2
  <1> HIDE DEF n
  <1>10. Mine(q) = q /\ Group(q) = c /\ GroupSize(q) = e - q  BY <1>6, <1>7
  <1>11. \A j \in 1 .. e - q - 1 : q + j \in 0 .. n - 1 /\ Mine(q + j) = q  BY <1>6, <1>9
  <1> QED  BY <1>2, <1>4, <1>8, <1>10, <1>11 DEF n

(* The header and the files as the readers find them.                      *)
LEMMA HeaderFacts ==
  ASSUME set \in Settings, base = Header, ~set.less
  PROVE  /\ base.multiproc \in 0 .. set.w /\ base.surfs = set.surfs /\ base.w = set.w
         /\ base.multiproc = NFiles(set.multi, set.w)
PROOF
  <1>1. NFiles(set.multi, set.w) \in 0 .. set.w  BY SettingFacts, FilesAreWritten
  <1> QED  BY <1>1 DEF Header

(* The reader of the file of a process, and the others of its cluster.     *)
LEMMA ReaderFacts ==
  ASSUME set \in Settings, base = Header, ~set.less, NEW p \in 0 .. set.r - 1
  PROVE  /\ ReaderOf(p) \in 0 .. p /\ ReaderOf(ReaderOf(p)) = ReaderOf(p)
         /\ ClusterOf(ReaderOf(p)) = ClusterOf(p) /\ FileOf(ReaderOf(p)) = FileOf(p)
         /\ ClusterOf(p) \in Nat \ {0} /\ p - ReaderOf(p) \in 0 .. ClusterOf(p) - 1
         /\ \A j \in 0 .. ClusterOf(p) - 1 :
              ReaderOf(p) + j \in 0 .. set.r - 1 /\ ReaderOf(ReaderOf(p) + j) = ReaderOf(p)
PROOF
  <1> DEFINE n == set.r
             f == base.multiproc
             c == NfileCluster(p, f, n)
             q == NfileFirst(c, f, n)
             e == NfileFirst(c + 1, f, n)
  <1>1. n \in Nat \ {0} /\ f \in Nat  BY SettingFacts, HeaderFacts
  <1>2. CASE ~Sharing
    <2>1. \A x : ReaderOf(x) = 0 /\ ClusterOf(x) = n /\ FileOf(x) = 0
      BY <1>2 DEF ReaderOf, ClusterOf, FileOf
    <2> QED  BY <1>1, <2>1
  <1>3. CASE Sharing
    <2>1. f \in 1 .. n  BY <1>1, <1>3 DEF Sharing
    <2>2. c \in 0 .. f - 1 /\ q \in 0 .. p /\ e \in p + 1 .. n  BY <1>1, <2>1, NfileRanges
    <2>3. \A x : FileOf(x) = NfileCluster(x, f, n) /\ ReaderOf(x) = NfileFirst(FileOf(x), f, n)
                 /\ ClusterOf(x) = NfileFirst(FileOf(x) + 1, f, n) - ReaderOf(x)
      BY <1>3 DEF ReaderOf, ClusterOf, FileOf
    <2>4. \A x : FileOf(x) = c => ReaderOf(x) = q /\ ClusterOf(x) = e - q  BY <2>3
    <2>5. FileOf(p) = c  BY <2>3
    <2>6. \A x \in Int : NfileCluster(x, f, n) = c <=> q <= x /\ x < e
      BY <1>1, <2>1, <2>2, ClustersAreRanges
    <2> HIDE DEF c, q, e, f, n
    <2>7. \A x \in Int : q <= x /\ x < e => FileOf(x) = c  BY <2>3, <2>6
    <2>8. q \in Int /\ q <= q /\ q < e  BY <1>1, <2>2 DEF n
    <2>9. FileOf(q) = c /\ ReaderOf(q) = q /\ ClusterOf(q) = e - q  BY <2>4, <2>7, <2>8
    <2>10. e - q \in Nat \ {0} /\ p - q \in 0 .. e - q - 1  BY <1>1, <2>2 DEF n
    <2>11. ASSUME NEW j \in 0 .. e - q - 1 PROVE q + j \in 0 .. n - 1 /\ ReaderOf(q + j) = q
      <3>1. q + j \in 0 .. n - 1 /\ q + j \in Int /\ q <= q + j /\ q + j < e  BY <1>1, <2>2 DEF n
      <3> QED  BY <2>4, <2>7, <3>1
    <2> QED  BY <2>2, <2>4, <2>5, <2>9, <2>10, <2>11 DEF n
  <1> QED  BY <1>2, <1>3

(* Whatever section it is in, a process has the reader of its cluster, and *)
(* the file it asks for has been written.                                  *)
LEMMA ReaderSame ==
  ASSUME set \in Settings, Headed, ~set.less, NEW p \in 0 .. set.r - 1, sec[p] \in Sections
  PROVE  /\ Reader(p) = ReaderOf(p) /\ NCluster(p) = ClusterOf(p) /\ File(p) = FileOf(p)
         /\ Turn(p) = TurnOf(p) /\ NChunks(p) = ChunksOf(p) /\ ChunksOf(p) \in Int
PROOF
  <1>1. set.r \in Nat \ {0} /\ set.w \in Nat \ {0} /\ base.multiproc \in Nat /\ base = Header
    BY SettingFacts, HeaderFacts DEF Headed
  <1>2. Method(sec[p]) = "share" <=> Sharing
    <2>1. CASE base.multiproc = 0
      BY <2>1 DEF Method, Sharing
    <2>2. CASE base.multiproc # 0
      BY <1>1, <2>2 DEF Method, Sharing
    <2> QED  BY <2>1, <2>2
  <1>3. File(p) = FileOf(p)  BY <1>2 DEF File, FileOf
  <1>4. Reader(p) = ReaderOf(p)  BY <1>2, <1>3 DEF Reader, ReaderOf
  <1>5. NCluster(p) = ClusterOf(p)  BY <1>2, <1>3, <1>4 DEF NCluster, ClusterOf
  <1>6. Turn(p) = TurnOf(p)  BY <1>4, <1>5 DEF Turn, TurnOf
  <1>7. NChunks(p) = ChunksOf(p)  BY <1>3 DEF NChunks, ChunksOf
  <1>8. FileOf(p) \in DOMAIN files
    <2>1. base.multiproc = NFiles(set.multi, set.w)  BY <1>1, HeaderFacts
    <2>2. /\ \A c \in 0 .. base.multiproc - 1 : \E x \in 0 .. set.w - 1 : Group(x) = c
          /\ base.multiproc = 0 => \A x \in 0 .. set.w - 1 : Group(x) = 0
      BY <2>1, SettingFacts, FilesAreWritten DEF Group
    <2>3. base.multiproc = 0 => 0 \in DOMAIN files
      <3>1. 0 \in 0 .. set.w - 1  BY <1>1
      <3> QED  BY <2>2, <3>1 DEF Headed
    <2>4. \A c \in 0 .. base.multiproc - 1 : c \in DOMAIN files  BY <2>2 DEF Headed
    <2>5. CASE Sharing
      <3>1. base.multiproc \in 1 .. set.r  BY <1>1, <2>5 DEF Sharing
      <3>2. FileOf(p) \in 0 .. base.multiproc - 1  BY <1>1, <2>5, <3>1, NfileRanges DEF FileOf
      <3> QED  BY <2>4, <3>2
    <2>6. CASE ~Sharing
      <3>1. FileOf(p) = 0  BY <2>6 DEF FileOf
      <3>2. base.multiproc # 0 => 0 \in 0 .. base.multiproc - 1  BY <1>1
      <3> QED  BY <2>3, <2>4, <3>1, <3>2
    <2> QED  BY <2>5, <2>6
  <1>9. ChunksOf(p) \in Int  BY <1>8 DEF ChunksOf, Headed
  <1> QED  BY <1>3, <1>4, <1>5, <1>6, <1>7, <1>9

-----------------------------------------------------------------------------
(* Messages.                                                               *)

LEMMA ShortSequences ==
  /\ \A x : Append(<<>>, x) = <<x>> /\ Head(<<x>>) = x /\ Tail(<<x>>) = <<>> /\ <<x>> # <<>>
  /\ \A x, y : Append(<<x>>, y) = <<x, y>> /\ Tail(<<x, y>>) = <<y>> /\ Head(<<x, y>>) = x /\ <<x, y>> # <<>>
PROOF
  <1>1. ASSUME NEW x
        PROVE  Append(<<>>, x) = <<x>> /\ Head(<<x>>) = x /\ Tail(<<x>>) = <<>> /\ <<x>> # <<>>
    <2>1. <<>> \in Seq({x})  OBVIOUS
    <2>2. Append(<<>>, x) = <<x>>  BY <2>1
    <2>3. Head(<<x>>) = x /\ <<x>> # <<>>  OBVIOUS
    <2>4. Tail(<<x>>) = <<>>  OBVIOUS
    <2> QED  BY <2>2, <2>3, <2>4
  <1>2. ASSUME NEW x, NEW y
        PROVE  Append(<<x>>, y) = <<x, y>> /\ Tail(<<x, y>>) = <<y>> /\ Head(<<x, y>>) = x /\ <<x, y>> # <<>>
    <2>1. <<x>> \in Seq({x, y}) /\ Len(<<x>>) = 1  OBVIOUS
    <2>5. PICK s \in Seq({x, y}) : s = <<x>>  BY <2>1
    <2>6. Len(s) = 1 /\ s[1] = x  BY <2>5
    <2>7. Append(s, y) \in Seq({x, y}) /\ Len(Append(s, y)) = 2 /\ Append(s, y)[1] = x /\ Append(s, y)[2] = y
      <3> DEFINE S == {x, y}
      <3>1. s \in Seq(S) /\ y \in S  OBVIOUS
      <3> HIDE DEF S
      <3>2. /\ Append(s, y) \in Seq(S) /\ Len(Append(s, y)) = Len(s) + 1
            /\ \A i \in 1 .. Len(s) : Append(s, y)[i] = s[i]
            /\ Append(s, y)[Len(s) + 1] = y
        BY ONLY <3>1, AppendProperties
      <3> QED  BY <2>6, <3>2 DEF S
    <2>8. <<x, y>> \in Seq({x, y}) /\ Len(<<x, y>>) = 2 /\ <<x, y>>[1] = x /\ <<x, y>>[2] = y  OBVIOUS
    <2>9. PICK t \in Seq({x, y}) : t = <<x, y>>  BY <2>8
    <2>10. \A i \in 1 .. Len(t) : t[i] = Append(s, y)[i]  BY <2>7, <2>8, <2>9
    <2>11. Append(s, y) = t  BY <2>7, <2>8, <2>9, <2>10, SeqEqual
    <2>2. Append(<<x>>, y) = <<x, y>>  BY <2>5, <2>9, <2>11
    <2>3. Head(<<x, y>>) = x /\ <<x, y>> # <<>>  OBVIOUS
    <2>4. Tail(<<x, y>>) = <<y>>  OBVIOUS
    <2> QED  BY <2>2, <2>3, <2>4
  <1> QED  BY <1>1, <1>2

LEMMA SendFacts ==
  ASSUME Chans, Procs' = Procs, NEW p \in Procs, NEW q \in Procs, NEW m, Send(p, q, m)
  PROVE  /\ Chans' /\ chan'[p][q] = Append(chan[p][q], m)
         /\ \A x, y \in Procs : x # p \/ y # q => chan'[x][y] = chan[x][y]
PROOF
  BY DEF Chans, Send

LEMMA ReceiveFacts ==
  ASSUME Chans, Procs' = Procs, NEW p \in Procs, NEW q \in Procs, Receive(p, q)
  PROVE  /\ Chans' /\ chan'[q][p] = Tail(chan[q][p])
         /\ \A x, y \in Procs : x # q \/ y # p => chan'[x][y] = chan[x][y]
PROOF
  BY DEF Chans, Receive

LEMMA ProcsFacts ==
  ASSUME set \in Settings
  PROVE  /\ stage = "write" => Procs = 0 .. set.w - 1
         /\ stage = "read" => Procs = 0 .. set.r - 1
         /\ 0 \in Procs
         /\ Procs \subseteq Int /\ None \notin Procs /\ None \in Int
PROOF
  BY SettingFacts DEF Procs, N, None

-----------------------------------------------------------------------------
(* Writing: what a step changes.                                           *)

LEMMA PieceCount ==
  ASSUME set \in Settings, NEW p \in Int
  PROVE  NPieces(p) \in Nat /\ NPieces(p) >= 1 /\ (~set.less => NPieces(p) = 1)
PROOF
  BY SMT DEF NPieces

(* A pair that a step does not touch.                                      *)
LEMMA PairKept ==
  ASSUME NEW q, NEW p, WritePair(q, p), set' = set,
         pc'[q] = pc[q], pc'[p] = pc[p], k'[q] = k[q], k'[p] = k[p], sec'[q] = sec[q], sec'[p] = sec[p],
         posted'[q] = posted[q], pass'[q] = pass[q],
         chan'[p][q] = chan[p][q], chan'[q][p] = chan[q][p]
  PROVE  WritePair(q, p)'
PROOF
  <1>1. Level(q, p) => Level(q, p)'  BY DEF Level, Still
  <1>2. Before(q, p) => Before(q, p)'  BY DEF Before, Serving, NPieces, Size
  <1>3. Owing(q, p) => Owing(q, p)'  BY DEF Owing, NPieces, Ping
  <1>4. Answered(q, p) => Answered(q, p)'
    <2> SUFFICES ASSUME Answered(q, p) PROVE Answered(q, p)'  OBVIOUS
    <2>1. Gone(p, sec[q]) => Gone(p, sec[q])'  BY DEF Gone
    <2> QED  BY <2>1 DEF Answered, NPieces
  <1>5. After(q, p) => After(q, p)'
    <2>1. Gone(p, sec[q]) => Gone(p, sec[q])'  BY DEF Gone
    <2> QED  BY <2>1 DEF After, Serving, Still
  <1> QED  BY <1>1, <1>2, <1>3, <1>4, <1>5 DEF WritePair

(* A process that has opened the files moves, and the pairs it is in are   *)
(* as they should be.                                                      *)
LEMMA WriteMoves ==
  ASSUME Types, stage = "write", WriteInv, NEW p \in Procs, pc[p] # "open", pc'[p] # "open",
         UNCHANGED <<set, stage, maxsize, base>>,
         Headed => Headed',
         \A x \in Procs \ {p} : /\ pc'[x] = pc[x] /\ k'[x] = k[x] /\ sec'[x] = sec[x]
                                /\ posted'[x] = posted[x] /\ pass'[x] = pass[x],
         \A x, y \in Procs \ {p} : chan'[x][y] = chan[x][y],
         \A x \in Procs : Mine(x) # x /\ (x = p \/ Mine(x) = p) => WritePair(Mine(x), x)',
         WritePart(p)'
  PROVE  WriteInv'
PROOF
  <1>1. Procs' = Procs /\ Procs = 0 .. set.w - 1 /\ \A x \in Procs : Mine(x) \in Procs /\ Mine(x)' = Mine(x)
    <2>1. set \in Settings /\ Procs = 0 .. set.w - 1  BY ProcsFacts DEF Types
    <2>2. \A x \in Procs : Mine(x) \in Procs
      <3> TAKE x \in Procs
      <3>1. Mine(x) \in 0 .. x /\ set.w \in Nat /\ x \in 0 .. set.w - 1  BY <2>1, WriterFacts, SettingFacts
      <3>2. Mine(x) \in 0 .. set.w - 1  BY <3>1
      <3> QED  BY <2>1, <3>2
    <2> QED  BY <2>1, <2>2 DEF Procs, N, Mine
  <1>2. WritePairs /\ WriteParts /\ Opened  BY DEF WriteInv
  <1>3. WritePairs'
    <2> SUFFICES ASSUME NEW x \in Procs, Mine(x) # x PROVE WritePair(Mine(x), x)'
      BY <1>1 DEF WritePairs
    <2>1. CASE x = p \/ Mine(x) = p
      BY <2>1
    <2>2. CASE x # p /\ Mine(x) # p
      <3>1. PICK q : q = Mine(x)  OBVIOUS
      <3>2. q \in Procs \ {p} /\ x \in Procs \ {p} /\ WritePair(q, x)  BY <1>1, <1>2, <2>2, <3>1 DEF WritePairs
      <3>3. WritePair(q, x)'  BY <3>2, PairKept
      <3> QED  BY <1>1, <3>1, <3>3
    <2> QED  BY <2>1, <2>2
  <1>4. WriteParts'
    <2> SUFFICES ASSUME NEW x \in Procs PROVE WritePart(x)'
      BY <1>1 DEF WriteParts
    <2>1. CASE x = p  BY <2>1
    <2>2. CASE x # p
      <3>1. WritePart(x) /\ pc'[x] = pc[x] /\ k'[x] = k[x] /\ sec'[x] = sec[x]  BY <1>2, <2>2 DEF WriteParts
      <3> QED  BY <3>1 DEF WritePart, Mine, GroupSize, Group, SizeOf, Serving
    <2> QED  BY <2>1, <2>2
  <1>5. Opened'
    <2>1. Headed /\ \A x \in Procs : pc[x] # "open"  BY <1>2 DEF Opened, At
    <2>2. \A x \in Procs : pc'[x] # "open"  BY <2>1
    <2> QED  BY <1>1, <2>1, <2>2 DEF Opened
  <1> QED  BY <1>3, <1>4, <1>5 DEF WriteInv

(* The same for a process that does not write a file: it is in one pair.   *)
LEMMA OwnerMoves ==
  ASSUME Types, stage = "write", WriteInv, NEW p \in Procs, Mine(p) # p, pc[p] # "open", pc'[p] # "open",
         UNCHANGED <<set, stage, maxsize, base, files, posted, pass>>,
         \A x \in Procs \ {p} : pc'[x] = pc[x] /\ k'[x] = k[x] /\ sec'[x] = sec[x],
         \A x, y \in Procs \ {p} : chan'[x][y] = chan[x][y],
         WritePair(Mine(p), p)', WritePart(p)'
  PROVE  WriteInv'
PROOF
  <1>1. Headed => Headed'  BY DEF Headed, Header, Group
  <1>2. \A x \in Procs : Mine(x) # p
    <2> TAKE x \in Procs
    <2>1. set \in Settings /\ x \in 0 .. set.w - 1  BY ProcsFacts DEF Types
    <2> QED  BY <2>1, WriterFacts
  <1> QED  BY <1>1, <1>2, WriteMoves

(* The same for the writer of a file, whose pairs are with the others.     *)
LEMMA WriterMoves ==
  ASSUME Types, stage = "write", WriteInv, NEW q \in Procs, Mine(q) = q, pc[q] # "open", pc'[q] # "open",
         UNCHANGED <<set, stage, maxsize, base>>,
         Headed => Headed',
         \A x \in Procs \ {q} : /\ pc'[x] = pc[x] /\ k'[x] = k[x] /\ sec'[x] = sec[x]
                                /\ posted'[x] = posted[x] /\ pass'[x] = pass[x],
         \A x, y \in Procs \ {q} : chan'[x][y] = chan[x][y],
         \A p \in Procs : Mine(p) = q /\ p # q => WritePair(q, p)',
         WritePart(q)'
  PROVE  WriteInv'
PROOF
  <1>1. \A x \in Procs : Mine(x) # x /\ (x = q \/ Mine(x) = q) => WritePair(Mine(x), x)'
    <2> SUFFICES ASSUME NEW x \in Procs, Mine(x) # x, Mine(x) = q PROVE WritePair(Mine(x), x)'
      OBVIOUS
    <2>1. WritePair(q, x)'  OBVIOUS
    <2>2. Mine(x)' = q  BY DEF Mine
    <2> QED  BY <2>1, <2>2
  <1> QED  BY <1>1, WriteMoves

(* The piece counts of the files may change, not how many wrote them.      *)
LEMMA HeadedKept ==
  ASSUME Headed, set' = set, base' = base, NEW c, NEW s,
         files' = [files EXCEPT ![c].pieces = s]
  PROVE  Headed'
PROOF
  <1>1. \A d \in DOMAIN files : DOMAIN files' = DOMAIN files
           /\ files'[d] = [n |-> files[d].n, pieces |-> files'[d].pieces] /\ files'[d].n = files[d].n
    <2> TAKE d \in DOMAIN files
    <2>1. files[d] = [n |-> files[d].n, pieces |-> files[d].pieces]  BY DEF Headed
    <2>2. CASE d = c
      <3>1. files'[d] = [files[d] EXCEPT !.pieces = s]  BY <2>2
      <3> QED  BY <2>1, <3>1
    <2>3. CASE d # c
      <3>1. files'[d] = files[d]  BY <2>3
      <3> QED  BY <2>1, <3>1
    <2> QED  BY <2>2, <2>3
  <1>2. DOMAIN files' = DOMAIN files  OBVIOUS
  <1>3. base' = Header'  BY DEF Headed, Header
  <1>4. DOMAIN files' = {Group(p)' : p \in 0 .. set'.w - 1}  BY <1>2 DEF Headed, Group
  <1>5. ASSUME NEW d \in DOMAIN files'
        PROVE  files'[d] = [n |-> files'[d].n, pieces |-> files'[d].pieces] /\ files'[d].n \in Int
    <2>1. d \in DOMAIN files  BY <1>2
    <2>2. files[d].n \in Int  BY <2>1 DEF Headed
    <2>3. files'[d].n = files[d].n /\ files'[d] = [n |-> files[d].n, pieces |-> files'[d].pieces]  BY <1>1, <2>1
    <2> QED  BY <2>2, <2>3
  <1> QED  BY <1>3, <1>4, <1>5 DEF Headed

-----------------------------------------------------------------------------
(* Writing: the steps.                                                     *)

LEMMA GoFacts ==
  ASSUME Types, set' = set, stage' = stage, NEW p \in Procs, NEW l, Go(p, l)
  PROVE  Labelled' /\ pc'[p] = l /\ \A x \in Procs \ {p} : pc'[x] = pc[x]
PROOF
  BY DEF Go, Types, Labelled, Procs, N

LEMMA TypesKept ==
  ASSUME Types, set' = set, stage' = stage,
         Labelled', k' \in [Procs -> Nat], pass' \in [Procs -> Int],
         sec' \in [Procs -> Sections], posted' \in [Procs -> Int], Chans'
  PROVE  Types'
PROOF
  BY DEF Types, Labelled, Procs, N

LEMMA ServingFacts ==
  ASSUME Types, stage = "write", WriteInv, NEW q \in Procs, pc[q] \in Serving
  PROVE  /\ Mine(q) = q /\ WritePart(q) /\ k[q] \in Nat /\ q \in Int
         /\ \A p \in Procs : Mine(p) = q /\ p # q =>
              WritePair(q, p) /\ p - q \in 1 .. GroupSize(q) - 1 /\ p \in Int /\ k[p] \in Nat
         /\ pc[q] # "write" => /\ Partner(q) = q + k[q] /\ Partner(q) \in Procs /\ Partner(q) \in Int
                               /\ Partner(q) # q /\ Mine(Partner(q)) = q
PROOF
  <1>1. set \in Settings /\ Procs = 0 .. set.w - 1 /\ set.w \in Nat  BY ProcsFacts, SettingFacts DEF Types
  <1>2. WritePart(q) /\ WritePairs  BY DEF WriteInv, WriteParts
  <1>3. Mine(q) = q  BY <1>2 DEF WritePart, Serving
  <1>4. k[q] \in Nat /\ q \in Int  BY <1>1 DEF Types
  <1>5. ASSUME NEW p \in Procs, Mine(p) = q, p # q
        PROVE  WritePair(q, p) /\ p - q \in 1 .. GroupSize(q) - 1 /\ p \in Int /\ k[p] \in Nat
    <2>1. WritePair(q, p)  BY <1>2, <1>5 DEF WritePairs
    <2>2. p \in 0 .. set.w - 1 /\ p \in Int /\ k[p] \in Nat  BY <1>1 DEF Types
    <2>3. q \in 0 .. p /\ GroupSize(q) = GroupSize(p) /\ GroupSize(p) \in Int /\ p - q < GroupSize(p)
      BY <1>1, <1>5, <2>2, WriterFacts
    <2>4. p - q \in 1 .. GroupSize(q) - 1  BY <1>5, <2>2, <2>3
    <2> QED  BY <2>1, <2>2, <2>4
  <1>6. ASSUME pc[q] # "write"
        PROVE  /\ Partner(q) = q + k[q] /\ Partner(q) \in Procs /\ Partner(q) \in Int
               /\ Partner(q) # q /\ Mine(Partner(q)) = q
    <2>1. Partner(q) = q + k[q]  BY <1>3 DEF Partner
    <2>2. k[q] \in 1 .. GroupSize(q) - 1  BY <1>2, <1>3, <1>6 DEF WritePart
    <2>3. q + k[q] \in 0 .. set.w - 1 /\ Mine(q + k[q]) = q
      BY <1>1, <1>3, <2>2, WriterFacts
    <2>4. q + k[q] # q /\ q + k[q] \in Int  BY <1>4, <2>2
    <2> QED  BY <1>1, <2>1, <2>3, <2>4
  <1> QED  BY <1>2, <1>3, <1>4, <1>5, <1>6

(* The processes that the writer is not busy with.                         *)
LEMMA OthersKept ==
  ASSUME NEW q \in Int, NEW p \in Int, k[q] \in Int, k[p] \in Int, WritePair(q, p), pc[q] \in Serving, k[q] # p - q,
         set' = set, pc'[q] \in Serving,
         k'[q] = k[q] \/ (k'[q] = k[q] + 1 /\ pc'[q] = "write"),
         pc'[p] = pc[p], k'[p] = k[p], sec'[p] = sec[p], sec'[q] = sec[q], posted'[q] # p,
         chan'[p][q] = chan[p][q], chan'[q][p] = chan[q][p]
  PROVE  WritePair(q, p)'
PROOF
  <1>1. Before(q, p) \/ After(q, p)
    <2>1. ~Level(q, p) /\ ~(pc[q] = "written")  BY DEF Level, Serving
    <2>2. ~Owing(q, p) /\ ~Answered(q, p)  BY DEF Owing, Answered
    <2> QED  BY <2>1, <2>2 DEF WritePair
  <1>2. CASE Before(q, p)
    <2>1. k[q] < p - q  BY <1>2 DEF Before
    <2>2. k'[q] < p - q \/ (k'[q] = p - q /\ pc'[q] \in {"write", "announced"})  BY <2>1
    <2>3. Before(q, p)'  BY <1>2, <2>2 DEF Before, NPieces, Size
    <2> QED  BY <2>3 DEF WritePair
  <1>3. CASE After(q, p)
    <2>1. k'[q] > p - q  BY <1>3 DEF After
    <2>2. Gone(p, sec[q])'  BY <1>3 DEF After, Gone
    <2>3. After(q, p)'  BY <1>3, <2>1, <2>2 DEF After, Still
    <2> QED  BY <2>3 DEF WritePair
  <1> QED  BY <1>1, <1>2, <1>3

(* The process that the writer is busy with.                               *)
LEMMA WithPartner ==
  ASSUME NEW q \in Int, NEW p \in Int, k[q] = p - q, WritePair(q, p)
  PROVE  /\ pc[q] \in {"write", "announced"} => Before(q, p)
         /\ pc[q] \in {"post", "sendping"} => Owing(q, p)
         /\ pc[q] = "wait" => Owing(q, p) \/ Answered(q, p)
PROOF
  BY DEF WritePair, Level, Before, Owing, Answered, After

LEMMA WriteOwnKeeps ==
  ASSUME Types, stage = "write", WriteInv, NEW q \in Procs, WriteOwn(q)
  PROVE  Types' /\ WriteInv'
PROOF
  <1>1. pc[q] = "write" /\ pc[q] \in Serving /\ k[q] = 0  BY DEF WriteOwn, Serving
  <1>2. Types'  BY DEF WriteOwn, Types, Labelled, Procs, N, Chans
  <1>3. /\ Mine(q) = q /\ WritePart(q) /\ k[q] \in Nat /\ q \in Int
        /\ \A p \in Procs : Mine(p) = q /\ p # q =>
              WritePair(q, p) /\ p - q \in 1 .. GroupSize(q) - 1 /\ p \in Int /\ k[p] \in Nat
    BY <1>1, ServingFacts
  <1>4. Headed => Headed'  BY HeadedKept DEF WriteOwn
  <1>5. k'[q] = k[q] + 1  BY <1>1 DEF WriteOwn, Types
  <1>6. ASSUME NEW p \in Procs, Mine(p) = q, p # q PROVE WritePair(q, p)'
    <2>1. WritePair(q, p) /\ p - q \in 1 .. GroupSize(q) - 1 /\ p \in Int /\ k[p] \in Nat  BY <1>3, <1>6
    <2>2. k[q] # p - q  BY <1>1, <2>1
    <2>3. posted[q] # p
      <3>1. ~Owing(q, p) /\ ~Answered(q, p) /\ ~(pc[q] = "written") /\ ~Level(q, p)
        BY <1>1 DEF Owing, Answered, Level
      <3> QED  BY <2>1, <3>1 DEF WritePair, Before, After
    <2>4. /\ set' = set /\ pc' = pc /\ k'[p] = k[p] /\ sec' = sec /\ posted' = posted /\ chan' = chan
      BY <1>6 DEF WriteOwn, Types
    <2> QED  BY <1>1, <1>3, <1>5, <2>1, <2>2, <2>3, <2>4, OthersKept
  <1>7. WritePart(q)'
    BY <1>1, <1>3 DEF WriteOwn, WritePart, Mine, Serving
  <1>8. /\ UNCHANGED <<set, stage, maxsize, base>> /\ pc' = pc /\ sec' = sec /\ posted' = posted /\ pass' = pass
        /\ chan' = chan /\ \A x \in Procs \ {q} : k'[x] = k[x]
    BY DEF WriteOwn, Types
  <1>9. pc[q] # "open" /\ pc'[q] # "open"  BY <1>1, <1>8
  <1> QED  BY <1>2, <1>3, <1>4, <1>6, <1>7, <1>8, <1>9, WriterMoves

(* Between its steps, the writer has no receive posted for a process that  *)
(* it is not busy with.                                                    *)
LEMMA PostedFor ==
  ASSUME NEW q \in Int, NEW p \in Int, WritePair(q, p), pc[q] \in Serving,
         k[q] # p - q \/ pc[q] \in {"write", "announced", "post"}
  PROVE  posted[q] # p
PROOF
  BY DEF WritePair, Level, Before, Owing, Answered, After, Serving

LEMMA WriteNextKeeps ==
  ASSUME Types, stage = "write", WriteInv, NEW q \in Procs, WriteNext(q)
  PROVE  Types' /\ WriteInv'
PROOF
  <1>1. pc[q] = "write" /\ pc[q] \in Serving /\ k[q] \in 1 .. GroupSize(q) - 1  BY DEF WriteNext, Serving
  <1>2. Types'
    <2>1. PICK l : Go(q, l)  BY DEF WriteNext
    <2>2. Labelled'  BY <2>1, GoFacts DEF WriteNext
    <2>3. pass' \in [Procs -> Int]  BY DEF WriteNext, Types
    <2>4. Chans'  BY DEF WriteNext, Types, Chans, Procs, N
    <2> QED  BY <2>2, <2>3, <2>4, TypesKept DEF WriteNext, Types
  <1>3. /\ Mine(q) = q /\ WritePart(q) /\ k[q] \in Nat /\ q \in Int
        /\ \A p \in Procs : Mine(p) = q /\ p # q =>
              WritePair(q, p) /\ p - q \in 1 .. GroupSize(q) - 1 /\ p \in Int /\ k[p] \in Nat
    BY <1>1, ServingFacts
  <1>4. /\ UNCHANGED <<set, stage, maxsize, base, files>> /\ k' = k /\ sec' = sec /\ posted' = posted /\ chan' = chan
        /\ \A x \in Procs \ {q} : pc'[x] = pc[x] /\ pass'[x] = pass[x]
        /\ pc'[q] = IF set.less THEN "announced" ELSE "post"
        /\ ~set.less => pass'[q] = 1
    BY DEF WriteNext, Go, Types, Labelled
  <1>5. Headed => Headed'  BY <1>4 DEF Headed, Header, Group
  <1>6. ASSUME NEW p \in Procs, Mine(p) = q, p # q PROVE WritePair(q, p)'
    <2>1. WritePair(q, p) /\ p - q \in 1 .. GroupSize(q) - 1 /\ p \in Int /\ k[p] \in Nat  BY <1>3, <1>6
    <2>2. posted[q] # p  BY <1>1, <1>3, <2>1, PostedFor
    <2>3. CASE k[q] # p - q
      <3>1. pc'[q] \in Serving /\ pc'[p] = pc[p]  BY <1>4, <1>6 DEF Serving
      <3> QED  BY <1>1, <1>3, <1>4, <2>1, <2>2, <2>3, <3>1, OthersKept
    <2>4. CASE k[q] = p - q
      <3>1. Before(q, p)  BY <1>1, <1>3, <2>1, <2>4, WithPartner
      <3>2. CASE set.less
        <4>1. Before(q, p)'  BY <1>4, <1>6, <2>4, <3>1, <3>2 DEF Before, NPieces, Size, Serving
        <4> QED  BY <4>1 DEF WritePair
      <3>3. CASE ~set.less
        <4>1. NPieces(p) = 1 /\ NPieces(p)' = 1  BY <1>4, <3>3 DEF NPieces
        <4>2. Owing(q, p)'  BY <1>4, <1>6, <2>2, <2>4, <3>1, <3>3, <4>1 DEF Before, Owing
        <4> QED  BY <4>2 DEF WritePair
      <3> QED  BY <3>2, <3>3
    <2> QED  BY <2>3, <2>4
  <1>7. WritePart(q)'
    BY <1>1, <1>3, <1>4 DEF WritePart, Mine, Serving, GroupSize, Group
  <1>8. pc[q] # "open" /\ pc'[q] # "open"  BY <1>1, <1>4
  <1> QED  BY <1>2, <1>3, <1>4, <1>5, <1>6, <1>7, <1>8, WriterMoves

LEMMA HearPassesKeeps ==
  ASSUME Types, stage = "write", WriteInv, NEW q \in Procs, HearPasses(q)
  PROVE  Types' /\ WriteInv'
PROOF
  <1>1. pc[q] = "announced" /\ pc[q] \in Serving  BY DEF HearPasses, Serving
  <1>2. /\ Mine(q) = q /\ WritePart(q) /\ k[q] \in Nat /\ q \in Int
        /\ \A p \in Procs : Mine(p) = q /\ p # q =>
              WritePair(q, p) /\ p - q \in 1 .. GroupSize(q) - 1 /\ p \in Int /\ k[p] \in Nat
        /\ Partner(q) = q + k[q] /\ Partner(q) \in Procs /\ Partner(q) \in Int
        /\ Partner(q) # q /\ Mine(Partner(q)) = q
    BY <1>1, ServingFacts
  <1>3. PICK r \in Procs : r = Partner(q)  BY <1>2
  <1>4. r \in Int /\ k[q] = r - q /\ r # q /\ WritePair(q, r)  BY <1>2, <1>3
  <1>5. Before(q, r) /\ posted[q] # r  BY <1>1, <1>2, <1>4, WithPartner, PostedFor
  <1>6. chan[r][q] = <<Size(NPieces(r))>> /\ pc[r] = "ping" /\ set.less
    <2>1. chan[r][q] # <<>>  BY <1>3 DEF HearPasses, Arrived
    <2> QED  BY <1>5, <2>1 DEF Before
  <1>7. Head(chan[r][q]).v = NPieces(r) /\ Tail(chan[r][q]) = <<>>
    BY <1>6, ShortSequences DEF Size
  <1>8. Procs' = Procs /\ Chans /\ Receive(q, r)  BY <1>3 DEF HearPasses, Types, Procs, N
  <1>9. Chans' /\ chan'[r][q] = <<>> /\ \A x, y \in Procs : x # r \/ y # q => chan'[x][y] = chan[x][y]
    BY <1>7, <1>8, ReceiveFacts
  <1>10. /\ UNCHANGED <<set, stage, maxsize, base, files>> /\ k' = k /\ sec' = sec /\ posted' = posted
         /\ pass' = [pass EXCEPT ![q] = NPieces(r)] /\ Go(q, "post")
    BY <1>3, <1>7 DEF HearPasses
  <1>11. Labelled' /\ pc'[q] = "post" /\ \A x \in Procs \ {q} : pc'[x] = pc[x]
    BY <1>10, GoFacts
  <1>12. NPieces(r) \in Nat /\ NPieces(r) >= 1  BY <1>4, PieceCount DEF Types
  <1>13. pass' \in [Procs -> Int] /\ pass'[q] = NPieces(r) /\ \A x \in Procs \ {q} : pass'[x] = pass[x]
    BY <1>10, <1>12 DEF Types
  <1>14. Types'  BY <1>9, <1>10, <1>11, <1>13, TypesKept DEF Types
  <1>15. Headed => Headed'  BY <1>10 DEF Headed, Header, Group
  <1>16. ASSUME NEW p \in Procs, Mine(p) = q, p # q PROVE WritePair(q, p)'
    <2>1. WritePair(q, p) /\ p \in Int /\ k[p] \in Nat  BY <1>2, <1>16
    <2>2. CASE p # r
      <3>1. k[q] # p - q  BY <1>2, <1>4, <2>1, <2>2
      <3>2. posted[q] # p  BY <1>1, <1>2, <2>1, PostedFor
      <3>3. pc'[q] \in Serving  BY <1>11 DEF Serving
      <3>4. chan'[p][q] = chan[p][q] /\ chan'[q][p] = chan[q][p]  BY <1>4, <1>9, <2>2
      <3> QED  BY <1>1, <1>2, <1>10, <1>11, <1>16, <2>1, <3>1, <3>2, <3>3, <3>4, OthersKept
    <2>3. CASE p = r
      <3>1. /\ chan'[q][r] = <<>> /\ sec'[r] = sec'[q] /\ k'[r] = 0 /\ posted'[q] # r /\ pc'[r] = "ping"
        BY <1>4, <1>5, <1>6, <1>9, <1>10, <1>11 DEF Before
      <3>2. NPieces(r)' = NPieces(r)  BY <1>10 DEF NPieces
      <3>3. k'[r] < NPieces(r)' /\ pass'[q] = NPieces(r)' - k'[r]  BY <1>12, <1>13, <3>1, <3>2
      <3>4. Owing(q, r)'  BY <1>4, <1>9, <1>10, <1>11, <3>1, <3>3 DEF Owing
      <3> QED  BY <2>3, <3>4 DEF WritePair
    <2> QED  BY <2>2, <2>3
  <1>17. WritePart(q)'
    BY <1>1, <1>2, <1>10, <1>11 DEF WritePart, Mine, Serving, GroupSize, Group
  <1>18. pc[q] # "open" /\ pc'[q] # "open"  BY <1>1, <1>11
  <1>19. \A x, y \in Procs \ {q} : chan'[x][y] = chan[x][y]  BY <1>9
  <1> QED  BY <1>2, <1>10, <1>11, <1>13, <1>14, <1>15, <1>16, <1>17, <1>18, <1>19, WriterMoves

LEMMA WritePostKeeps ==
  ASSUME Types, stage = "write", WriteInv, NEW q \in Procs, PostReceive(q)
  PROVE  Types' /\ WriteInv'
PROOF
  <1>1. pc[q] = "post" /\ pc[q] \in Serving  BY DEF PostReceive, Serving
  <1>2. /\ Mine(q) = q /\ WritePart(q) /\ k[q] \in Nat /\ q \in Int
        /\ \A p \in Procs : Mine(p) = q /\ p # q =>
              WritePair(q, p) /\ p - q \in 1 .. GroupSize(q) - 1 /\ p \in Int /\ k[p] \in Nat
        /\ Partner(q) = q + k[q] /\ Partner(q) \in Procs /\ Partner(q) \in Int
        /\ Partner(q) # q /\ Mine(Partner(q)) = q
    BY <1>1, ServingFacts
  <1>3. /\ UNCHANGED <<set, stage, maxsize, base, files>> /\ k' = k /\ sec' = sec /\ chan' = chan /\ pass' = pass
        /\ posted' = [posted EXCEPT ![q] = Partner(q)] /\ Go(q, "sendping")
    BY DEF PostReceive
  <1>4. Labelled' /\ pc'[q] = "sendping" /\ \A x \in Procs \ {q} : pc'[x] = pc[x]
    BY <1>3, GoFacts
  <1>5. posted' \in [Procs -> Int] /\ posted'[q] = q + k[q] /\ \A x \in Procs \ {q} : posted'[x] = posted[x]
    BY <1>2, <1>3 DEF Types
  <1>6. Chans'  BY <1>3 DEF Types, Chans, Procs, N
  <1>7. Types'  BY <1>3, <1>4, <1>5, <1>6, TypesKept DEF Types
  <1>8. Headed => Headed'  BY <1>3 DEF Headed, Header, Group
  <1>9. ASSUME NEW p \in Procs, Mine(p) = q, p # q PROVE WritePair(q, p)'
    <2>1. WritePair(q, p) /\ p \in Int /\ k[p] \in Nat  BY <1>2, <1>9
    <2>2. CASE k[q] # p - q
      <3>1. posted'[q] # p  BY <1>2, <1>5, <2>1, <2>2
      <3>2. pc'[q] \in Serving  BY <1>4 DEF Serving
      <3> QED  BY <1>1, <1>2, <1>3, <1>4, <1>9, <2>1, <2>2, <3>1, <3>2, OthersKept
    <2>3. CASE k[q] = p - q
      <3>1. Owing(q, p)  BY <1>1, <1>2, <2>1, <2>3, WithPartner
      <3>2. posted'[q] = p  BY <1>2, <1>5, <2>1, <2>3
      <3>3. Owing(q, p)'  BY <1>1, <1>3, <1>4, <1>9, <3>1, <3>2 DEF Owing, NPieces
      <3> QED  BY <3>3 DEF WritePair
    <2> QED  BY <2>2, <2>3
  <1>10. WritePart(q)'
    BY <1>1, <1>2, <1>3, <1>4 DEF WritePart, Mine, Serving, GroupSize, Group
  <1>11. pc[q] # "open" /\ pc'[q] # "open"  BY <1>1, <1>4
  <1> QED  BY <1>2, <1>3, <1>4, <1>5, <1>7, <1>8, <1>9, <1>10, <1>11, WriterMoves

LEMMA WritePingKeeps ==
  ASSUME Types, stage = "write", WriteInv, NEW q \in Procs, SendPing(q)
  PROVE  Types' /\ WriteInv'
PROOF
  <1>1. pc[q] = "sendping" /\ pc[q] \in Serving  BY DEF SendPing, Serving
  <1>2. /\ Mine(q) = q /\ WritePart(q) /\ k[q] \in Nat /\ q \in Int
        /\ \A p \in Procs : Mine(p) = q /\ p # q =>
              WritePair(q, p) /\ p - q \in 1 .. GroupSize(q) - 1 /\ p \in Int /\ k[p] \in Nat
        /\ Partner(q) = q + k[q] /\ Partner(q) \in Procs /\ Partner(q) \in Int
        /\ Partner(q) # q /\ Mine(Partner(q)) = q
    BY <1>1, ServingFacts
  <1>3. PICK r \in Procs : r = Partner(q)  BY <1>2
  <1>4. r \in Int /\ k[q] = r - q /\ r # q /\ WritePair(q, r)  BY <1>2, <1>3
  <1>5. Owing(q, r)  BY <1>1, <1>2, <1>4, WithPartner
  <1>6. /\ UNCHANGED <<set, stage, maxsize, base, files>> /\ k' = k /\ sec' = sec /\ pass' = pass /\ posted' = posted
        /\ Send(q, r, Ping) /\ Go(q, "wait")
    BY <1>3 DEF SendPing
  <1>7. Labelled' /\ pc'[q] = "wait" /\ \A x \in Procs \ {q} : pc'[x] = pc[x]
    BY <1>6, GoFacts
  <1>8. chan[q][r] = <<>>  BY <1>1, <1>5 DEF Owing
  <1>9. Procs' = Procs /\ Chans  BY <1>6 DEF Types, Procs, N
  <1>10. Chans' /\ chan'[q][r] = <<Ping>> /\ \A x, y \in Procs : x # q \/ y # r => chan'[x][y] = chan[x][y]
    BY <1>6, <1>8, <1>9, SendFacts, ShortSequences
  <1>11. Types'  BY <1>6, <1>7, <1>10, TypesKept DEF Types
  <1>12. Headed => Headed'  BY <1>6 DEF Headed, Header, Group
  <1>13. ASSUME NEW p \in Procs, Mine(p) = q, p # q PROVE WritePair(q, p)'
    <2>1. WritePair(q, p) /\ p \in Int /\ k[p] \in Nat  BY <1>2, <1>13
    <2>2. CASE p # r
      <3>1. k[q] # p - q  BY <1>2, <1>4, <2>1, <2>2
      <3>2. posted[q] # p  BY <1>1, <1>2, <2>1, <3>1, PostedFor
      <3>3. pc'[q] \in Serving  BY <1>7 DEF Serving
      <3>4. chan'[p][q] = chan[p][q] /\ chan'[q][p] = chan[q][p]  BY <1>10, <1>13, <2>2
      <3> QED  BY <1>1, <1>2, <1>6, <1>7, <1>13, <2>1, <3>1, <3>2, <3>3, <3>4, OthersKept
    <2>3. CASE p = r
      <3>1. chan'[r][q] = chan[r][q] /\ pc'[r] = pc[r]  BY <1>4, <1>7, <1>10
      <3>2. Owing(q, r)'  BY <1>1, <1>5, <1>6, <1>7, <1>10, <3>1 DEF Owing, NPieces, Ping
      <3> QED  BY <2>3, <3>2 DEF WritePair
    <2> QED  BY <2>2, <2>3
  <1>14. WritePart(q)'
    BY <1>1, <1>2, <1>6, <1>7 DEF WritePart, Mine, Serving, GroupSize, Group
  <1>15. pc[q] # "open" /\ pc'[q] # "open"  BY <1>1, <1>7
  <1>16. \A x, y \in Procs \ {q} : chan'[x][y] = chan[x][y]  BY <1>10
  <1> QED  BY <1>2, <1>6, <1>7, <1>11, <1>12, <1>13, <1>14, <1>15, <1>16, WriterMoves

LEMMA WritePieceKeeps ==
  ASSUME Types, stage = "write", WriteInv, NEW q \in Procs, WritePiece(q)
  PROVE  Types' /\ WriteInv'
PROOF
  <1>1. pc[q] = "wait" /\ pc[q] \in Serving  BY DEF WritePiece, Serving
  <1>2. /\ Mine(q) = q /\ WritePart(q) /\ k[q] \in Nat /\ q \in Int
        /\ \A p \in Procs : Mine(p) = q /\ p # q =>
              WritePair(q, p) /\ p - q \in 1 .. GroupSize(q) - 1 /\ p \in Int /\ k[p] \in Nat
        /\ Partner(q) = q + k[q] /\ Partner(q) \in Procs /\ Partner(q) \in Int
        /\ Partner(q) # q /\ Mine(Partner(q)) = q
    BY <1>1, ServingFacts
  <1>3. PICK r \in Procs : r = Partner(q)  BY <1>2
  <1>4. r \in Int /\ k[q] = r - q /\ r # q /\ WritePair(q, r)  BY <1>2, <1>3
  <1>5. Owing(q, r) \/ Answered(q, r)  BY <1>1, <1>2, <1>4, WithPartner
  <1>6. chan[r][q] # <<>>  BY <1>3 DEF WritePiece, Arrived
  <1>7. Answered(q, r)  BY <1>5, <1>6 DEF Owing
  <1>8. Tail(chan[r][q]) = <<>>  BY <1>7, ShortSequences DEF Answered
  <1>9. /\ UNCHANGED <<set, stage, maxsize, base>> /\ sec' = sec
        /\ posted' = [posted EXCEPT ![q] = None] /\ pass' = [pass EXCEPT ![q] = @ - 1]
        /\ Receive(q, r)
        /\ IF pass[q] > 1 THEN Go(q, "post") /\ k' = k
           ELSE Go(q, "write") /\ k' = [k EXCEPT ![q] = @ + 1]
    BY <1>3 DEF WritePiece
  <1>10. /\ Labelled' /\ pc'[q] = IF pass[q] > 1 THEN "post" ELSE "write"
         /\ \A x \in Procs \ {q} : pc'[x] = pc[x]
    BY <1>9, GoFacts
  <1>11. /\ k' \in [Procs -> Nat] /\ k'[q] = IF pass[q] > 1 THEN k[q] ELSE k[q] + 1
         /\ \A x \in Procs \ {q} : k'[x] = k[x]
    BY <1>9 DEF Types
  <1>12. posted' \in [Procs -> Int] /\ posted'[q] = None /\ \A x \in Procs \ {q} : posted'[x] = posted[x]
    BY <1>9 DEF Types, None
  <1>13. pass' \in [Procs -> Int] /\ pass'[q] = pass[q] - 1 /\ pass[q] \in Int /\ \A x \in Procs \ {q} : pass'[x] = pass[x]
    BY <1>9 DEF Types
  <1>14. Procs' = Procs /\ Chans  BY <1>9 DEF Types, Procs, N
  <1>15. Chans' /\ chan'[r][q] = <<>> /\ \A x, y \in Procs : x # r \/ y # q => chan'[x][y] = chan[x][y]
    BY <1>8, <1>9, <1>14, ReceiveFacts
  <1>16. Types'  BY <1>9, <1>10, <1>11, <1>12, <1>13, <1>15, TypesKept DEF Types
  <1>17. Headed => Headed'  BY HeadedKept DEF WritePiece
  <1>18. None \notin Procs  BY ProcsFacts DEF Types
  <1>19. NPieces(r) \in Nat /\ NPieces(r)' = NPieces(r)  BY <1>4, <1>9, PieceCount DEF Types, NPieces
  <1>20. ASSUME NEW p \in Procs, Mine(p) = q, p # q PROVE WritePair(q, p)'
    <2>1. WritePair(q, p) /\ p \in Int /\ k[p] \in Nat /\ posted'[q] # p  BY <1>2, <1>12, <1>18, <1>20
    <2>2. CASE p # r
      <3>1. k[q] # p - q  BY <1>2, <1>4, <2>1, <2>2
      <3>2. pc'[q] \in Serving /\ (k'[q] = k[q] \/ (k'[q] = k[q] + 1 /\ pc'[q] = "write"))
        BY <1>10, <1>11 DEF Serving
      <3>3. chan'[p][q] = chan[p][q] /\ chan'[q][p] = chan[q][p]  BY <1>4, <1>15, <2>2
      <3> QED  BY <1>1, <1>2, <1>9, <1>10, <1>11, <1>20, <2>1, <3>1, <3>2, <3>3, OthersKept
    <2>3. CASE p = r
      <3>1. /\ chan'[q][r] = <<>> /\ chan'[r][q] = <<>> /\ pc'[r] = pc[r] /\ k'[r] = k[r] /\ k[r] \in Nat
            /\ sec' = sec /\ posted'[q] # r
        BY <1>4, <1>7, <1>9, <1>10, <1>11, <1>15, <2>1, <2>3 DEF Answered
      <3>2. CASE pc[r] = "ping" /\ sec[r] = sec[q] /\ k[r] < NPieces(r) /\ pass[q] = NPieces(r) - k[r] + 1
        <4>1. pass[q] > 1 /\ pass'[q] = NPieces(r) - k[r]  BY <1>13, <1>19, <3>1, <3>2
        <4>2. Owing(q, r)'  BY <1>4, <1>10, <1>11, <1>19, <3>1, <3>2, <4>1 DEF Owing
        <4> QED  BY <2>3, <4>2 DEF WritePair
      <3>3. CASE Gone(r, sec[q]) /\ pass[q] = 1
        <4>1. Gone(r, sec[q])'  BY <1>9, <3>1, <3>3 DEF Gone
        <4>2. pc'[q] = "write" /\ k'[q] = k[q] + 1 /\ k'[q] > r - q  BY <1>2, <1>4, <1>10, <1>11, <3>3
        <4>3. After(q, r)'  BY <3>1, <4>1, <4>2 DEF After, Serving, Still
        <4> QED  BY <2>3, <4>3 DEF WritePair
      <3> QED  BY <1>7, <3>2, <3>3 DEF Answered
    <2> QED  BY <2>2, <2>3
  <1>21. WritePart(q)'
    BY <1>1, <1>2, <1>9, <1>10, <1>11 DEF WritePart, Mine, Serving, GroupSize, Group
  <1>22. pc[q] # "open" /\ pc'[q] # "open"  BY <1>1, <1>10
  <1>23. \A x, y \in Procs \ {q} : chan'[x][y] = chan[x][y]  BY <1>15
  <1>24. \A x \in Procs \ {q} : /\ pc'[x] = pc[x] /\ k'[x] = k[x] /\ sec'[x] = sec[x]
                                /\ posted'[x] = posted[x] /\ pass'[x] = pass[x]
    BY <1>9, <1>10, <1>11, <1>12, <1>13
  <1> QED  BY <1>2, <1>9, <1>16, <1>17, <1>20, <1>21, <1>22, <1>23, <1>24, WriterMoves

(* The end of a section, for a writer and for the others.                  *)
LEMMA NextSectionFacts ==
  ASSUME Types, set' = set, stage' = stage, NEW p \in Procs, NextSection(p)
  PROVE  /\ Labelled' /\ k' \in [Procs -> Nat] /\ sec' \in [Procs -> Sections]
         /\ \A x \in Procs \ {p} : pc'[x] = pc[x] /\ k'[x] = k[x] /\ sec'[x] = sec[x]
         /\ IF set.surfs /\ ~set.less /\ sec[p] = "grid"
            THEN pc'[p] = "buffer" /\ sec'[p] = "surf" /\ k'[p] = 0
            ELSE pc'[p] = "written" /\ sec'[p] = sec[p] /\ k'[p] = k[p]
PROOF
  <1>1. CASE set.surfs /\ ~set.less /\ sec[p] = "grid"
    <2>1. /\ Go(p, "buffer") /\ sec' = [sec EXCEPT ![p] = "surf"] /\ k' = [k EXCEPT ![p] = 0]
      BY <1>1 DEF NextSection
    <2>2. Labelled' /\ pc'[p] = "buffer" /\ \A x \in Procs \ {p} : pc'[x] = pc[x]  BY <2>1, GoFacts
    <2>3. /\ k' \in [Procs -> Nat] /\ sec' \in [Procs -> Sections] /\ sec'[p] = "surf" /\ k'[p] = 0
          /\ \A x \in Procs \ {p} : k'[x] = k[x] /\ sec'[x] = sec[x]
      BY <2>1 DEF Types, Sections
    <2> QED  BY <1>1, <2>2, <2>3
  <1>2. CASE ~(set.surfs /\ ~set.less /\ sec[p] = "grid")
    <2>1. Go(p, "written") /\ sec' = sec /\ k' = k  BY <1>2 DEF NextSection
    <2>2. Labelled' /\ pc'[p] = "written" /\ \A x \in Procs \ {p} : pc'[x] = pc[x]  BY <2>1, GoFacts
    <2> QED  BY <1>2, <2>1, <2>2 DEF Types
  <1> QED  BY <1>1, <1>2

LEMMA EndSectionKeeps ==
  ASSUME Types, stage = "write", WriteInv, NEW q \in Procs, EndSection(q)
  PROVE  Types' /\ WriteInv'
PROOF
  <1>1. pc[q] = "write" /\ pc[q] \in Serving /\ k[q] >= GroupSize(q)  BY DEF EndSection, Serving
  <1>2. /\ Mine(q) = q /\ WritePart(q) /\ k[q] \in Nat /\ q \in Int
        /\ \A p \in Procs : Mine(p) = q /\ p # q =>
              WritePair(q, p) /\ p - q \in 1 .. GroupSize(q) - 1 /\ p \in Int /\ k[p] \in Nat
    BY <1>1, ServingFacts
  <1>3. /\ UNCHANGED <<set, stage, maxsize, base, files>> /\ chan' = chan /\ pass' = pass /\ posted' = posted
        /\ NextSection(q)
    BY DEF EndSection
  <1>4. /\ Labelled' /\ k' \in [Procs -> Nat] /\ sec' \in [Procs -> Sections]
        /\ \A x \in Procs \ {q} : pc'[x] = pc[x] /\ k'[x] = k[x] /\ sec'[x] = sec[x]
        /\ IF set.surfs /\ ~set.less /\ sec[q] = "grid"
           THEN pc'[q] = "buffer" /\ sec'[q] = "surf" /\ k'[q] = 0
           ELSE pc'[q] = "written" /\ sec'[q] = sec[q] /\ k'[q] = k[q]
    BY <1>3, NextSectionFacts
  <1>5. Chans'  BY <1>3 DEF Types, Chans, Procs, N
  <1>6. Types'  BY <1>3, <1>4, <1>5, TypesKept DEF Types
  <1>7. Headed => Headed'  BY <1>3 DEF Headed, Header, Group
  <1>8. ASSUME NEW p \in Procs, Mine(p) = q, p # q PROVE WritePair(q, p)'
    <2>1. WritePair(q, p) /\ p - q \in 1 .. GroupSize(q) - 1 /\ p \in Int /\ k[p] \in Nat  BY <1>2, <1>8
    <2>2. GroupSize(q) \in Int
      <3>1. set \in Settings /\ q \in 0 .. set.w - 1  BY ProcsFacts DEF Types
      <3> QED  BY <3>1, WriterFacts
    <2>3. p - q < k[q] /\ k[q] # p - q  BY <1>1, <1>2, <2>1, <2>2
    <2>4. After(q, p)
      <3>1. ~Level(q, p) /\ ~(pc[q] = "written")  BY <1>1 DEF Level
      <3>2. ~Before(q, p) /\ ~Owing(q, p) /\ ~Answered(q, p)
        BY <1>2, <2>1, <2>3 DEF Before, Owing, Answered
      <3> QED  BY <2>1, <3>1, <3>2 DEF WritePair
    <2>5. CASE set.surfs /\ ~set.less /\ sec[q] = "grid"
      <3>1. Level(q, p)'  BY <1>3, <1>4, <1>8, <2>4, <2>5 DEF After, Gone, Level, Still
      <3> QED  BY <3>1 DEF WritePair
    <2>6. CASE ~(set.surfs /\ ~set.less /\ sec[q] = "grid")
      <3>1. pc[p] = "written"  BY <2>4, <2>6 DEF After, Gone
      <3>2. pc'[p] = "written" /\ pc'[q] = "written"  BY <1>4, <1>8, <2>6, <3>1
      <3> QED  BY <3>2 DEF WritePair
    <2> QED  BY <2>5, <2>6
  <1>9. WritePart(q)'
    BY <1>1, <1>2, <1>3, <1>4 DEF WritePart, Mine, Serving
  <1>10. pc[q] # "open" /\ pc'[q] # "open"  BY <1>1, <1>4
  <1> QED  BY <1>2, <1>3, <1>4, <1>6, <1>7, <1>8, <1>9, <1>10, WriterMoves

(* What a process that does not write a file knows.                        *)
LEMMA OwnerFacts ==
  ASSUME Types, stage = "write", WriteInv, NEW p \in Procs, pc[p] \in {"announce", "ping", "rsend"}
  PROVE  /\ Mine(p) \in Procs /\ Mine(p) # p /\ WritePair(Mine(p), p) /\ WritePart(p)
         /\ Partner(p) = Mine(p) /\ k[p] \in Nat /\ NPieces(p) \in Nat /\ p \in Int
PROOF
  <1>1. set \in Settings /\ Procs = 0 .. set.w - 1 /\ set.w \in Nat  BY ProcsFacts, SettingFacts DEF Types
  <1>2. WritePart(p) /\ WritePairs  BY DEF WriteInv, WriteParts
  <1>3. Mine(p) # p  BY <1>2 DEF WritePart, Serving
  <1>4. Mine(p) \in 0 .. p  BY <1>1, WriterFacts
  <1>5. p \in 0 .. set.w - 1  BY <1>1
  <1>6. Mine(p) \in Procs  BY <1>1, <1>4, <1>5
  <1>7. k[p] \in Nat /\ p \in Int  BY <1>1 DEF Types
  <1>8. NPieces(p) \in Nat  BY <1>1, <1>7, PieceCount
  <1> QED  BY <1>2, <1>3, <1>6, <1>7, <1>8 DEF WritePairs, Partner

LEMMA AnnounceKeeps ==
  ASSUME Types, stage = "write", WriteInv, NEW p \in Procs, Announce(p)
  PROVE  Types' /\ WriteInv'
PROOF
  <1>1. pc[p] = "announce"  BY DEF Announce
  <1>2. /\ Mine(p) \in Procs /\ Mine(p) # p /\ WritePair(Mine(p), p) /\ WritePart(p)
        /\ k[p] \in Nat /\ NPieces(p) \in Nat /\ p \in Int
    BY <1>1, OwnerFacts
  <1>3. PICK q \in Procs : q = Mine(p)  BY <1>2
  <1>4. /\ UNCHANGED <<set, stage, maxsize, base, files, posted, pass>> /\ k' = k /\ sec' = sec
        /\ Send(p, q, Size(NPieces(p))) /\ Go(p, "ping")
    BY <1>3 DEF Announce
  <1>5. Labelled' /\ pc'[p] = "ping" /\ \A x \in Procs \ {p} : pc'[x] = pc[x]  BY <1>4, GoFacts
  <1>6. Before(q, p) /\ set.less /\ chan[p][q] = <<>>
    BY <1>1, <1>2, <1>3 DEF WritePair, Level, Before, Owing, Answered, After, Gone
  <1>7. Procs' = Procs /\ Chans  BY <1>4 DEF Types, Procs, N
  <1>8. Chans' /\ chan'[p][q] = <<Size(NPieces(p))>> /\ \A x, y \in Procs : x # p \/ y # q => chan'[x][y] = chan[x][y]
    BY <1>4, <1>6, <1>7, SendFacts, ShortSequences
  <1>9. Types'  BY <1>4, <1>5, <1>8, TypesKept DEF Types
  <1>10. WritePair(q, p)'
    <2>1. pc'[q] = pc[q] /\ chan'[q][p] = chan[q][p]  BY <1>2, <1>3, <1>5, <1>8
    <2>2. Before(q, p)'  BY <1>4, <1>5, <1>6, <1>8, <2>1 DEF Before, Serving, NPieces, Size
    <2> QED  BY <2>2 DEF WritePair
  <1>11. WritePair(Mine(p), p)'  BY <1>3, <1>4, <1>10 DEF Mine
  <1>12. WritePart(p)'  BY <1>1, <1>2, <1>4, <1>5 DEF WritePart, Mine, SizeOf, Serving
  <1>13. pc[p] # "open" /\ pc'[p] # "open"  BY <1>1, <1>5
  <1>14. \A x, y \in Procs \ {p} : chan'[x][y] = chan[x][y]  BY <1>8
  <1> QED  BY <1>2, <1>4, <1>5, <1>9, <1>11, <1>12, <1>13, <1>14, OwnerMoves

LEMMA WriteHearPingKeeps ==
  ASSUME Types, stage = "write", WriteInv, NEW p \in Procs, HearPing(p)
  PROVE  Types' /\ WriteInv'
PROOF
  <1>1. pc[p] = "ping"
    <2>1. WritePart(p)  BY DEF WriteInv, WriteParts
    <2> QED  BY <2>1 DEF HearPing, WritePart, Serving
  <1>2. /\ Mine(p) \in Procs /\ Mine(p) # p /\ WritePair(Mine(p), p) /\ WritePart(p) /\ Partner(p) = Mine(p)
        /\ k[p] \in Nat /\ NPieces(p) \in Nat /\ p \in Int
    BY <1>1, OwnerFacts
  <1>3. PICK q \in Procs : q = Mine(p)  BY <1>2
  <1>4. /\ UNCHANGED <<set, stage, maxsize, base, files, posted, pass>> /\ k' = k /\ sec' = sec
        /\ Receive(p, q) /\ Go(p, "rsend") /\ chan[q][p] # <<>>
    BY <1>2, <1>3 DEF HearPing, Arrived
  <1>5. Labelled' /\ pc'[p] = "rsend" /\ \A x \in Procs \ {p} : pc'[x] = pc[x]  BY <1>4, GoFacts
  <1>6. Owing(q, p) /\ pc[q] = "wait" /\ chan[q][p] = <<Ping>>
    <2>1. ~Level(q, p) /\ ~Before(q, p) /\ ~Answered(q, p) /\ ~After(q, p) /\ pc[p] # "written"
      BY <1>1, <1>4 DEF Level, Before, Answered, After, Gone, Still
    <2> QED  BY <1>2, <1>3, <1>4, <2>1 DEF WritePair, Owing
  <1>7. Procs' = Procs /\ Chans /\ Tail(chan[q][p]) = <<>>  BY <1>4, <1>6, ShortSequences DEF Types, Procs, N
  <1>8. Chans' /\ chan'[q][p] = <<>> /\ \A x, y \in Procs : x # q \/ y # p => chan'[x][y] = chan[x][y]
    BY <1>4, <1>7, ReceiveFacts
  <1>9. Types'  BY <1>4, <1>5, <1>8, TypesKept DEF Types
  <1>10. WritePair(q, p)'
    <2>1. pc'[q] = pc[q] /\ chan'[p][q] = chan[p][q]  BY <1>2, <1>3, <1>5, <1>8
    <2>2. Owing(q, p)'  BY <1>4, <1>5, <1>6, <1>8, <2>1 DEF Owing, NPieces
    <2> QED  BY <2>2 DEF WritePair
  <1>11. WritePair(Mine(p), p)'  BY <1>3, <1>4, <1>10 DEF Mine
  <1>12. WritePart(p)'  BY <1>1, <1>2, <1>4, <1>5 DEF WritePart, Mine, SizeOf, Serving
  <1>13. pc[p] # "open" /\ pc'[p] # "open"  BY <1>1, <1>5
  <1>14. \A x, y \in Procs \ {p} : chan'[x][y] = chan[x][y]  BY <1>8
  <1> QED  BY <1>2, <1>4, <1>5, <1>9, <1>11, <1>12, <1>13, <1>14, OwnerMoves

LEMMA SendPieceKeeps ==
  ASSUME Types, stage = "write", WriteInv, NEW p \in Procs, SendPiece(p)
  PROVE  Types' /\ WriteInv'
PROOF
  <1>1. pc[p] = "rsend"  BY DEF SendPiece
  <1>2. /\ Mine(p) \in Procs /\ Mine(p) # p /\ WritePair(Mine(p), p) /\ WritePart(p)
        /\ k[p] \in Nat /\ NPieces(p) \in Nat /\ p \in Int
    BY <1>1, OwnerFacts
  <1>3. PICK q \in Procs : q = Mine(p)  BY <1>2
  <1>4. PICK m : Send(p, q, m)  BY <1>3 DEF SendPiece
  <1>5. /\ UNCHANGED <<set, stage, maxsize, base, files, posted, pass>>
        /\ IF k[p] + 1 < NPieces(p)
           THEN Go(p, "ping") /\ k' = [k EXCEPT ![p] = @ + 1] /\ sec' = sec
           ELSE NextSection(p)
    BY DEF SendPiece
  <1>6. Owing(q, p) /\ pc[q] = "wait"
    <2>1. ~Level(q, p) /\ ~Before(q, p) /\ ~Answered(q, p) /\ ~After(q, p) /\ pc[p] # "written"
      BY <1>1 DEF Level, Before, Answered, After, Gone
    <2> QED  BY <1>1, <1>2, <1>3, <2>1 DEF WritePair, Owing
  <1>7. chan[p][q] = <<>> /\ chan[q][p] = <<>> /\ posted[q] = p /\ k[q] = p - q /\ k[p] < NPieces(p)
        /\ pass[q] = NPieces(p) - k[p] /\ sec[p] = sec[q]
    BY <1>1, <1>6 DEF Owing
  <1>8. Procs' = Procs /\ Chans  BY <1>5 DEF Types, Procs, N
  <1>9. Chans' /\ chan'[p][q] = <<m>> /\ \A x, y \in Procs : x # p \/ y # q => chan'[x][y] = chan[x][y]
    BY <1>4, <1>7, <1>8, SendFacts, ShortSequences
  <1>10. CASE k[p] + 1 < NPieces(p)
    <2>1. Go(p, "ping") /\ k' = [k EXCEPT ![p] = @ + 1] /\ sec' = sec  BY <1>5, <1>10
    <2>2. Labelled' /\ pc'[p] = "ping" /\ \A x \in Procs \ {p} : pc'[x] = pc[x]  BY <1>5, <2>1, GoFacts
    <2>3. k' \in [Procs -> Nat] /\ k'[p] = k[p] + 1 /\ \A x \in Procs \ {p} : k'[x] = k[x]
      BY <1>2, <2>1 DEF Types
    <2>4. Types'  BY <1>5, <1>9, <2>1, <2>2, <2>3, TypesKept DEF Types
    <2>5. pc'[q] = pc[q] /\ k'[q] = k[q] /\ chan'[q][p] = chan[q][p]  BY <1>2, <1>3, <1>9, <2>2, <2>3
    <2>6. k'[p] < NPieces(p) /\ pass[q] = NPieces(p) - k'[p] + 1  BY <1>2, <1>7, <1>10, <2>3
    <2>7. NPieces(p)' = NPieces(p)  BY <1>5 DEF NPieces
    <2>8. Answered(q, p)'  BY <1>5, <1>6, <1>7, <1>9, <2>1, <2>2, <2>5, <2>6, <2>7 DEF Answered
    <2>9. WritePair(Mine(p), p)'
      <3>1. WritePair(q, p)'  BY <2>8 DEF WritePair
      <3> QED  BY <1>3, <1>5, <3>1 DEF Mine
    <2>10. WritePart(p)'  BY <1>1, <1>2, <1>5, <2>1, <2>2 DEF WritePart, Mine, SizeOf, Serving
    <2>11. pc[p] # "open" /\ pc'[p] # "open"  BY <1>1, <2>2
    <2>12. \A x, y \in Procs \ {p} : chan'[x][y] = chan[x][y]  BY <1>9
    <2> QED  BY <1>2, <1>5, <2>1, <2>2, <2>3, <2>4, <2>9, <2>10, <2>11, <2>12, OwnerMoves
  <1>11. CASE ~(k[p] + 1 < NPieces(p))
    <2>1. NextSection(p)  BY <1>5, <1>11
    <2>2. /\ Labelled' /\ k' \in [Procs -> Nat] /\ sec' \in [Procs -> Sections]
          /\ \A x \in Procs \ {p} : pc'[x] = pc[x] /\ k'[x] = k[x] /\ sec'[x] = sec[x]
          /\ IF set.surfs /\ ~set.less /\ sec[p] = "grid"
             THEN pc'[p] = "buffer" /\ sec'[p] = "surf" /\ k'[p] = 0
             ELSE pc'[p] = "written" /\ sec'[p] = sec[p] /\ k'[p] = k[p]
      BY <1>5, <2>1, NextSectionFacts
    <2>3. Types'  BY <1>5, <1>9, <2>2, TypesKept DEF Types
    <2>4. pc'[q] = pc[q] /\ k'[q] = k[q] /\ sec'[q] = sec[q] /\ chan'[q][p] = chan[q][p]
      BY <1>2, <1>3, <1>9, <2>2
    <2>5. pass[q] = 1  BY <1>2, <1>7, <1>11
    <2>6. Gone(p, sec[q])'  BY <1>5, <1>7, <2>2, <2>4 DEF Gone
    <2>7. Answered(q, p)'  BY <1>5, <1>6, <1>7, <1>9, <2>4, <2>5, <2>6 DEF Answered
    <2>8. WritePair(Mine(p), p)'
      <3>1. WritePair(q, p)'  BY <2>7 DEF WritePair
      <3> QED  BY <1>3, <1>5, <3>1 DEF Mine
    <2>9. WritePart(p)'  BY <1>1, <1>2, <1>5, <2>2 DEF WritePart, Mine, Serving
    <2>10. pc[p] # "open" /\ pc'[p] # "open"  BY <1>1, <2>2
    <2>11. \A x, y \in Procs \ {p} : chan'[x][y] = chan[x][y]  BY <1>9
    <2> QED  BY <1>2, <1>5, <2>2, <2>3, <2>8, <2>9, <2>10, <2>11, OwnerMoves
  <1> QED  BY <1>10, <1>11

-----------------------------------------------------------------------------
(* Writing: the steps that all processes take together.                    *)

(* A finite set of integers has a largest element.                         *)
LEMMA MaxFacts ==
  ASSUME NEW S, IsFiniteSet(S), S \subseteq Int, S # {}
  PROVE  Max(S) \in S /\ \A h \in S : h <= Max(S)
PROOF
  <1> DEFINE upto(i) == {h \in S : h <= i}
             rank    == [i \in S |-> Cardinality(upto(i))]
             n       == Cardinality(S)
  <1>1. n \in Nat /\ n # 0  BY FS_CardinalityType, FS_EmptySet
  <1>2. IsFiniteSet(1 .. n) /\ Cardinality(1 .. n) = n
    <2>1. IsFiniteSet(1 .. n) /\ Cardinality(1 .. n) = IF 1 > n THEN 0 ELSE n - 1 + 1  BY <1>1, FS_Interval
    <2> QED  BY <1>1, <2>1
  <1>3. ASSUME NEW i \in S PROVE IsFiniteSet(upto(i)) /\ Cardinality(upto(i)) \in 1 .. n
    <2> DEFINE T == upto(i)
    <2>1. IsFiniteSet(T) /\ Cardinality(T) <= n  BY FS_Subset
    <2>2. i \in T  OBVIOUS
    <2> HIDE DEF T
    <2>3. Cardinality(T) \in Nat /\ Cardinality(T) # 0  BY <2>1, <2>2, FS_CardinalityType, FS_EmptySet
    <2>4. Cardinality(T) \in 1 .. n  BY <1>1, <2>1, <2>3
    <2> QED  BY <2>1, <2>4 DEF T
  <1>4. ASSUME NEW i \in S, NEW j \in S, i < j PROVE Cardinality(upto(i)) # Cardinality(upto(j))
    <2> DEFINE T == upto(i)
               U == upto(j)
    <2>1. T \subseteq U /\ j \in U /\ j \notin T
      <3>1. \A h \in S : h <= i => h <= j  BY <1>4
      <3>2. j <= j /\ ~(j <= i)  BY <1>4
      <3> QED  BY <3>1, <3>2
    <2>2. IsFiniteSet(U)  BY <1>3
    <2> HIDE DEF T, U
    <2>3. Cardinality(T) # Cardinality(U)  BY <2>1, <2>2, FS_Subset
    <2> QED  BY <2>3 DEF T, U
  <1>5. \A i, j \in S : Cardinality(upto(i)) = Cardinality(upto(j)) => i = j
    <2> SUFFICES ASSUME NEW i \in S, NEW j \in S, i # j PROVE Cardinality(upto(i)) # Cardinality(upto(j))
      OBVIOUS
    <2>1. i < j \/ j < i  OBVIOUS
    <2> QED  BY <1>4, <2>1
  <1>6. rank \in Injection(S, 1 .. n)
    <2> HIDE DEF upto
    <2> QED  BY <1>3, <1>5 DEF Injection, IsInjective
  <1>7. rank \in Surjection(S, 1 .. n)
    <2> HIDE DEF rank
    <2> QED  BY <1>2, <1>6, FS_Injection
  <1>8. PICK i \in S : Cardinality(upto(i)) = n
    <2>1. n \in 1 .. n  BY <1>1
    <2> HIDE DEF upto
    <2> QED  BY <1>7, <2>1 DEF Surjection
  <1>9. upto(i) = S
    <2> DEFINE T == upto(i)
    <2>1. T \subseteq S /\ Cardinality(T) = n  BY <1>8
    <2> HIDE DEF T
    <2>2. T = S  BY <2>1, FS_Subset
    <2> QED  BY <2>2 DEF T
  <1>10. \A h \in S : i >= h  BY <1>9
  <1>11. Max(S) \in S /\ \A h \in S : Max(S) >= h  BY <1>10 DEF Max
  <1> QED  BY <1>11

LEMMA WriteInit == Init => Types /\ WriteInv /\ stage = "write"
PROOF
  <1> SUFFICES ASSUME Init PROVE Types /\ WriteInv /\ stage = "write"
    OBVIOUS
  <1>1. set \in Settings /\ stage = "write" /\ Procs = 0 .. set.w - 1 /\ set.w \in Nat \ {0}
    BY SettingFacts DEF Init, Procs, N
  <1>2. /\ pc = [p \in Procs |-> "open"] /\ k = [p \in Procs |-> 0] /\ pass = [p \in Procs |-> 0]
        /\ sec = [p \in Procs |-> "grid"] /\ posted = [p \in Procs |-> None]
        /\ chan = [p \in Procs |-> [q \in Procs |-> <<>>]]
    BY <1>1 DEF Init
  <1>3. Types  BY <1>1, <1>2 DEF Types, Labelled, Chans, Sections, None
  <1>4. \A p \in Procs : Mine(p) \in Procs /\ None \notin Procs
    <2> TAKE p \in Procs
    <2>1. Mine(p) \in 0 .. p /\ p \in 0 .. set.w - 1  BY <1>1, WriterFacts
    <2>2. Mine(p) \in 0 .. set.w - 1  BY <1>1, <2>1
    <2> QED  BY <1>1, <2>2 DEF None
  <1>5. WritePairs
    <2> SUFFICES ASSUME NEW p \in Procs, Mine(p) # p PROVE WritePair(Mine(p), p)
      BY DEF WritePairs
    <2>1. Level(Mine(p), p)  BY <1>2, <1>4 DEF Level, Still
    <2> QED  BY <2>1 DEF WritePair
  <1>6. WriteParts  BY <1>2 DEF WriteParts, WritePart, Serving
  <1>7. Opened  BY <1>2 DEF Opened, At
  <1> QED  BY <1>1, <1>3, <1>5, <1>6, <1>7 DEF WriteInv

LEMMA WriteHeaderKeeps ==
  ASSUME Types, WriteInv, WriteHeader
  PROVE  Types' /\ WriteInv'
PROOF
  <1>1. stage = "write" /\ set \in Settings /\ Procs = 0 .. set.w - 1 /\ set.w \in Nat \ {0} /\ Procs' = Procs
        /\ At("open")
    BY ProcsFacts, SettingFacts DEF WriteHeader, Types, Procs, N
  <1>2. /\ UNCHANGED <<set, stage, maxsize, posted, pass, k, sec, chan>>
        /\ pc' = [p \in Procs |-> "buffer"]
        /\ base' = [w |-> set.w, surfs |-> set.surfs,
                    multiproc |-> IF set.less THEN Missing ELSE NFiles(set.multi, set.w)]
        /\ files' = [c \in {Group(p) : p \in Procs} |->
                 [n |-> ClusterProcs(set.multi, c, set.w), pieces |-> <<>>]]
    BY DEF WriteHeader
  <1>3. Labelled' /\ Chans'  BY <1>1, <1>2 DEF Labelled, Types, Chans
  <1>4. Types'  BY <1>2, <1>3, TypesKept DEF Types
  <1>5. \A p \in Procs : Mine(p) \in Procs /\ Mine(p)' = Mine(p)
    <2> TAKE p \in Procs
    <2>1. Mine(p) \in 0 .. p /\ p \in 0 .. set.w - 1  BY <1>1, WriterFacts
    <2>2. Mine(p) \in 0 .. set.w - 1  BY <1>1, <2>1
    <2> QED  BY <1>1, <1>2, <2>2 DEF Mine
  <1>6. WritePairs'
    <2> SUFFICES ASSUME NEW p \in Procs, Mine(p) # p PROVE WritePair(Mine(p), p)'
      BY <1>1, <1>5 DEF WritePairs
    <2>1. PICK q \in Procs : q = Mine(p) /\ q = Mine(p)'  BY <1>5
    <2>2. WritePair(q, p) /\ pc[q] = "open" /\ pc[p] = "open"  BY <1>1, <2>1 DEF WriteInv, WritePairs, At
    <2>3. Level(q, p)
      BY <2>2 DEF WritePair, Before, Owing, Answered, After, Serving
    <2>4. Level(q, p)'  BY <1>2, <2>3 DEF Level, Still
    <2> QED  BY <2>1, <2>4 DEF WritePair
  <1>7. WriteParts'  BY <1>1, <1>2 DEF WriteParts, WritePart, Serving
  <1>8. Headed'
    <2>1. base' = Header'  BY <1>2 DEF Header
    <2>2. DOMAIN files' = {Group(p)' : p \in 0 .. set'.w - 1}  BY <1>1, <1>2 DEF Group
    <2>3. ASSUME NEW c \in DOMAIN files'
          PROVE  files'[c] = [n |-> files'[c].n, pieces |-> files'[c].pieces] /\ files'[c].n \in Int
      <3>1. files'[c] = [n |-> ClusterProcs(set.multi, c, set.w), pieces |-> <<>>]  BY <1>2
      <3>2. PICK p \in Procs : c = Group(p)  BY <1>2
      <3>3. GroupSize(p) \in Int /\ GroupSize(p) = ClusterProcs(set.multi, c, set.w)
        BY <1>1, <3>2, WriterFacts DEF GroupSize
      <3> QED  BY <3>1, <3>3
    <2> QED  BY <2>1, <2>2, <2>3 DEF Headed
  <1>9. \A p \in Procs : pc'[p] # "open"  BY <1>2
  <1> QED  BY <1>1, <1>4, <1>6, <1>7, <1>8, <1>9 DEF WriteInv, Opened

LEMMA BufferKeeps ==
  ASSUME Types, WriteInv, Buffer
  PROVE  Types' /\ WriteInv'
PROOF
  <1>1. stage = "write" /\ set \in Settings /\ Procs = 0 .. set.w - 1 /\ set.w \in Nat \ {0} /\ Procs' = Procs
        /\ At("buffer")
    BY ProcsFacts, SettingFacts DEF Buffer, Types, Procs, N
  <1>2. /\ UNCHANGED <<set, stage, base, files, posted, pass, k, sec, chan>>
        /\ pc' = [p \in Procs |-> IF Mine(p) = p THEN "write" ELSE IF set.less THEN "announce" ELSE "ping"]
        /\ maxsize' = Max({SizeOf(p, sec[p]) : p \in Procs})
    BY DEF Buffer
  <1>3. Labelled' /\ Chans'  BY <1>1, <1>2 DEF Labelled, Types, Chans
  <1>4. Types'  BY <1>2, <1>3, TypesKept DEF Types
  <1>5. \A p \in Procs : Mine(p) \in Procs /\ Mine(p)' = Mine(p) /\ Mine(Mine(p)) = Mine(p) /\ Mine(p) <= p /\ p \in Int /\ Mine(p) \in Int
    <2> TAKE p \in Procs
    <2>1. Mine(p) \in 0 .. p /\ p \in 0 .. set.w - 1 /\ Mine(Mine(p)) = Mine(p)  BY <1>1, WriterFacts
    <2>2. Mine(p) \in 0 .. set.w - 1 /\ Mine(p) <= p /\ p \in Int /\ Mine(p) \in Int  BY <1>1, <2>1
    <2> QED  BY <1>1, <1>2, <2>1, <2>2 DEF Mine
  <1>6. \A p \in Procs : SizeOf(p, sec[p]) <= maxsize'
    <2> DEFINE S == {SizeOf(p, sec[p]) : p \in Procs}
               f == [p \in Procs |-> SizeOf(p, sec[p])]
    <2>1. S \subseteq Int
      <3>1. \A p \in Procs : SizeOf(p, sec[p]) \in Int  BY <1>1, SettingFacts DEF Types
      <3> QED  BY <3>1
    <2>2. 0 \in Procs /\ IsFiniteSet(Procs)  BY <1>1, FS_Interval
    <2>3. f \in Surjection(Procs, S)  BY DEF Surjection
    <2>4. S # {}  BY <2>2
    <2> HIDE DEF f, S
    <2>5. IsFiniteSet(S)  BY <2>2, <2>3, FS_Surjection
    <2>6. \A h \in S : h <= Max(S)  BY <2>1, <2>4, <2>5, MaxFacts
    <2> QED  BY <1>2, <2>6 DEF S
  <1>7. WritePairs'
    <2> SUFFICES ASSUME NEW p \in Procs, Mine(p) # p PROVE WritePair(Mine(p), p)'
      BY <1>1, <1>5 DEF WritePairs
    <2>1. PICK q \in Procs : q = Mine(p) /\ q = Mine(p)' /\ q < p /\ q \in Int /\ p \in Int /\ Mine(q) = q  BY <1>5
    <2>2. WritePair(q, p) /\ pc[q] = "buffer" /\ pc[p] = "buffer"  BY <1>1, <2>1 DEF WriteInv, WritePairs, At
    <2>3. Level(q, p)
      BY <2>2 DEF WritePair, Before, Owing, Answered, After, Serving
    <2>4. pc'[q] = "write" /\ pc'[p] = IF set.less THEN "announce" ELSE "ping"  BY <1>2, <2>1
    <2>5. k'[q] < p - q  BY <1>2, <2>1, <2>3 DEF Level
    <2>6. Before(q, p)'  BY <1>2, <2>3, <2>4, <2>5 DEF Level, Before, Still, Serving
    <2> QED  BY <2>1, <2>6 DEF WritePair
  <1>8. WriteParts'
    <2> SUFFICES ASSUME NEW p \in Procs PROVE WritePart(p)'
      BY <1>1 DEF WriteParts
    <2>1. pc'[p] = IF Mine(p) = p THEN "write" ELSE IF set.less THEN "announce" ELSE "ping"  BY <1>2
    <2> QED  BY <1>2, <1>5, <1>6, <2>1 DEF WritePart, Serving, SizeOf
  <1>9. Opened'
    <2>1. 0 \in Procs /\ pc[0] # "open"  BY <1>1 DEF At
    <2>2. Headed  BY <2>1, <1>1 DEF WriteInv, Opened, At
    <2>3. Headed'  BY <1>2, <2>2 DEF Headed, Header, Group
    <2>4. \A p \in Procs : pc'[p] # "open"  BY <1>2
    <2> QED  BY <1>1, <2>3, <2>4 DEF Opened
  <1> QED  BY <1>4, <1>7, <1>8, <1>9 DEF WriteInv

-----------------------------------------------------------------------------
(* Reading: what a step changes.                                           *)

LEMMA ModFacts ==
  ASSUME NEW n \in Nat \ {0}
  PROVE  /\ \A a \in Nat : a % n \in 0 .. n - 1 /\ (a < n => a % n = a) /\ (a + n) % n = a % n
         /\ \A a, b \in Nat : a % n = b % n /\ a <= b /\ b < a + n => a = b
PROOF
  <1>1. \A a \in Nat : a \div n \in Int /\ a % n \in 0 .. n - 1 /\ a = n * (a \div n) + (a % n)  BY Z3
  <1>2. \A a, b \in Int, c, d \in 0 .. n - 1 : n * a + c = n * b + d => a = b /\ c = d
    <2> SUFFICES ASSUME NEW a \in Int, NEW b \in Int, NEW c \in 0 .. n - 1, NEW d \in 0 .. n - 1,
                        n * a + c = n * b + d
                 PROVE  a = b /\ c = d
      OBVIOUS
    <2>1. n * a = a * n /\ n * b = b * n /\ (a + 1) * n = a * n + n /\ (b + 1) * n = b * n + n  OBVIOUS
    <2>2. a * n \in Int /\ b * n \in Int  OBVIOUS
    <2>3. ~(a < b)
      <3>1. a < b => ~(b < a + 1)  OBVIOUS
      <3>2. b < a + 1 <=> b * n < (a + 1) * n  BY ProductMonotone
      <3> QED  BY <2>1, <2>2, <3>1, <3>2
    <2>4. ~(b < a)
      <3>1. b < a => ~(a < b + 1)  OBVIOUS
      <3>2. a < b + 1 <=> a * n < (b + 1) * n  BY ProductMonotone
      <3> QED  BY <2>1, <2>2, <3>1, <3>2
    <2>5. a = b  BY <2>3, <2>4
    <2> QED  BY <2>1, <2>2, <2>5
  <1>3. ASSUME NEW a \in Nat PROVE (a < n => a % n = a) /\ (a + n) % n = a % n
    <2>1. CASE a < n
      <3>1. a = n * 0 + a /\ a \in 0 .. n - 1  BY <2>1
      <3> QED  BY <1>1, <1>2, <3>1
    <2>2. (a + n) % n = a % n
      <3> DEFINE d == a \div n
                 r == a % n
      <3>1. d \in Int /\ r \in 0 .. n - 1 /\ a = n * d + r  BY <1>1
      <3> HIDE DEF d, r
      <3>2. n * (d + 1) = n * d + n /\ n * d \in Int /\ d + 1 \in Int  BY <3>1
      <3>3. a + n \in Nat /\ a + n = n * (d + 1) + r  BY <3>1, <3>2
      <3>4. (a + n) % n = r  BY <1>1, <1>2, <3>1, <3>2, <3>3
      <3> QED  BY <3>4 DEF r
    <2> QED  BY <2>1, <2>2
  <1>4. ASSUME NEW a \in Nat, NEW b \in Nat, a % n = b % n, a <= b, b < a + n PROVE a = b
    <2>1. PICK c, d \in Int, r \in 0 .. n - 1 : a = n * c + r /\ b = n * d + r  BY <1>1, <1>4
    <2>2. n * c = c * n /\ n * d = d * n /\ c * n \in Int /\ d * n \in Int /\ (c + 1) * n = c * n + n  OBVIOUS
    <2>3. ~(d * n < c * n) /\ d * n < (c + 1) * n  BY <1>4, <2>1, <2>2
    <2>4. ~(d < c) /\ d < c + 1  BY <2>3, ProductMonotone
    <2>5. c = d  BY <2>4
    <2> QED  BY <2>1, <2>5
  <1> QED  BY <1>1, <1>3, <1>4

(* What depends only on the run and on the files.                          *)
LEMMA ClustersKept ==
  ASSUME set' = set, base' = base, files' = files
  PROVE  /\ \A p : ReaderOf(p)' = ReaderOf(p) /\ ClusterOf(p)' = ClusterOf(p)
                   /\ FileOf(p)' = FileOf(p) /\ ChunksOf(p)' = ChunksOf(p)
         /\ \A s : Shared(s)' <=> Shared(s)
         /\ Headed <=> Headed'
PROOF
  <1>1. \A p : FileOf(p)' = FileOf(p)  BY DEF FileOf, Sharing
  <1>2. \A p : ReaderOf(p)' = ReaderOf(p)  BY <1>1 DEF ReaderOf, Sharing
  <1>3. \A p : ClusterOf(p)' = ClusterOf(p)  BY <1>1, <1>2 DEF ClusterOf, Sharing
  <1>4. \A p : ChunksOf(p)' = ChunksOf(p)  BY <1>1 DEF ChunksOf
  <1>5. \A s : Shared(s)' <=> Shared(s)  BY DEF Shared, Method
  <1>6. Headed <=> Headed'  BY DEF Headed, Header, Group
  <1> QED  BY <1>1, <1>2, <1>3, <1>4, <1>5, <1>6

(* A pair that a step does not touch.                                      *)
LEMMA ReadPairKept ==
  ASSUME NEW q, NEW p, ReadPair(q, p), set' = set, base' = base, files' = files,
         pc'[q] = pc[q], pc'[p] = pc[p], k'[q] = k[q], k'[p] = k[p], sec'[q] = sec[q], sec'[p] = sec[p],
         posted'[p] = posted[p], chan'[p][q] = chan[p][q], chan'[q][p] = chan[q][p]
  PROVE  ReadPair(q, p)'
PROOF
  <1>1. /\ \A x : ClusterOf(x)' = ClusterOf(x) /\ ReaderOf(x)' = ReaderOf(x) /\ ChunksOf(x)' = ChunksOf(x)
        /\ \A s : Shared(s)' <=> Shared(s)
    BY ClustersKept
  <1>2. TurnOf(q)' = TurnOf(q)  BY <1>1 DEF TurnOf
  <1>3. Loose(q, p) => Loose(q, p)'  BY <1>1 DEF Loose, Aside, Still
  <1>4. \A s : Left(q, s) => Left(q, s)'  BY DEF Left
  <1>5. \A s : Left(p, s) => Left(p, s)'  BY DEF Left
  <1>6. \A n : Ahead(q, p, n) => Ahead(q, p, n)'  BY <1>1 DEF Ahead
  <1>7. ASSUME NEW s, Resting(q, p, s) PROVE Resting(q, p, s)'
    <2>1. Ahead(q, p, k[p]) => Ahead(q, p, k[p])'  BY <1>1 DEF Ahead
    <2>2. Ahead(q, p, k[p] + ClusterOf(p)) => Ahead(q, p, k[p] + ClusterOf(p))'  BY <1>1 DEF Ahead
    <2> QED  BY <1>1, <1>2, <1>4, <1>5, <1>7, <2>1, <2>2 DEF Resting
  <1>8. ASSUME NEW s, Exchange(q, p, s) PROVE Exchange(q, p, s)'
    BY <1>1, <1>2, <1>8 DEF Exchange, Still, Size, Ping
  <1> QED  BY <1>1, <1>3, <1>7, <1>8 DEF ReadPair

(* A process that reads moves, and the pairs it is in are as they should be. *)
LEMMA ReadMoves ==
  ASSUME Types, stage = "read", Headed, Going, NEW p \in Procs, pc[p] # "enter",
         UNCHANGED <<set, stage, base, files>>,
         \A x \in Procs \ {p} : /\ pc'[x] = pc[x] /\ k'[x] = k[x] /\ sec'[x] = sec[x] /\ posted'[x] = posted[x],
         \A x, y \in Procs \ {p} : chan'[x][y] = chan[x][y],
         \A x \in Procs : ReaderOf(x) # x /\ (x = p \/ ReaderOf(x) = p) => ReadPair(ReaderOf(x), x)',
         ReadPart(p)', pc'[p] = "enter" => sec'[p] = "surf"
  PROVE  ReadInv' /\ WriteInv'
PROOF
  <1>1. set \in Settings /\ Procs = 0 .. set.r - 1 /\ Procs' = Procs /\ base = Header /\ ~set.less
    BY ProcsFacts DEF Types, Headed, Going, Procs, N
  <1>2. /\ \A x : ReaderOf(x)' = ReaderOf(x) /\ ClusterOf(x)' = ClusterOf(x)
        /\ Headed'
    BY ClustersKept
  <1>3. \A x \in Procs : ReaderOf(x) \in Procs
    <2> TAKE x \in Procs
    <2>1. ReaderOf(x) \in 0 .. x /\ x \in 0 .. set.r - 1 /\ set.r \in Nat  BY <1>1, ReaderFacts, SettingFacts
    <2>2. ReaderOf(x) \in 0 .. set.r - 1  BY <2>1
    <2> QED  BY <1>1, <2>2
  <1>4. ReadPairs'
    <2> SUFFICES ASSUME NEW x \in Procs, ReaderOf(x) # x PROVE ReadPair(ReaderOf(x), x)'
      BY <1>1, <1>2 DEF ReadPairs
    <2>1. CASE x = p \/ ReaderOf(x) = p
      BY <2>1
    <2>2. CASE x # p /\ ReaderOf(x) # p
      <3>1. PICK q \in Procs : q = ReaderOf(x) /\ q = ReaderOf(x)'  BY <1>2, <1>3
      <3>2. q \in Procs \ {p} /\ x \in Procs \ {p} /\ ReadPair(q, x)  BY <2>2, <3>1 DEF Going, ReadPairs
      <3>3. ReadPair(q, x)'  BY <3>2, ReadPairKept
      <3> QED  BY <3>1, <3>3
    <2> QED  BY <2>1, <2>2
  <1>5. ReadParts'
    <2> SUFFICES ASSUME NEW x \in Procs, x # p PROVE ReadPart(x)'
      BY <1>1 DEF ReadParts
    <2>1. ReadPart(x) /\ pc'[x] = pc[x] /\ k'[x] = k[x]  BY DEF Going, ReadParts
    <2> QED  BY <1>2, <2>1 DEF ReadPart, TurnOf
  <1>6. Entering'
    <2>1. \A x \in Procs : pc[x] = "enter" => sec[x] = "surf"  BY DEF Going, Entering, At
    <2>2. \A x \in Procs : pc'[x] = "enter" => sec'[x] = "surf"  BY <2>1
    <2> QED  BY <1>1, <2>2 DEF Entering
  <1> QED  BY <1>1, <1>2, <1>4, <1>5, <1>6 DEF ReadInv, WriteInv, Going

(* The same for a process that does not read the file of its cluster.      *)
LEMMA MemberMoves ==
  ASSUME Types, stage = "read", Headed, Going, NEW p \in Procs, pc[p] # "enter", ReaderOf(p) # p,
         UNCHANGED <<set, stage, base, files>>,
         \A x \in Procs \ {p} : /\ pc'[x] = pc[x] /\ k'[x] = k[x] /\ sec'[x] = sec[x] /\ posted'[x] = posted[x],
         \A x, y \in Procs \ {p} : chan'[x][y] = chan[x][y],
         ReadPair(ReaderOf(p), p)', ReadPart(p)', pc'[p] = "enter" => sec'[p] = "surf"
  PROVE  ReadInv' /\ WriteInv'
PROOF
  <1>1. set \in Settings /\ Procs = 0 .. set.r - 1 /\ base = Header /\ ~set.less
    BY ProcsFacts DEF Types, Headed, Going
  <1>2. \A x \in Procs : ReaderOf(x) # p
    <2> TAKE x \in Procs
    <2>1. ReaderOf(ReaderOf(x)) = ReaderOf(x)  BY <1>1, ReaderFacts
    <2> QED  BY <2>1
  <1> QED  BY <1>2, ReadMoves

(* The same for a reader.                                                  *)
LEMMA ReaderMoves ==
  ASSUME Types, stage = "read", Headed, Going, NEW q \in Procs, pc[q] # "enter", ReaderOf(q) = q,
         UNCHANGED <<set, stage, base, files>>,
         \A x \in Procs \ {q} : /\ pc'[x] = pc[x] /\ k'[x] = k[x] /\ sec'[x] = sec[x] /\ posted'[x] = posted[x],
         \A x, y \in Procs \ {q} : chan'[x][y] = chan[x][y],
         \A p \in Procs : ReaderOf(p) = q /\ p # q => ReadPair(q, p)',
         ReadPart(q)', pc'[q] = "enter" => sec'[q] = "surf"
  PROVE  ReadInv' /\ WriteInv'
PROOF
  <1>1. \A x \in Procs : ReaderOf(x) # x /\ (x = q \/ ReaderOf(x) = q) => ReadPair(ReaderOf(x), x)'
    <2> SUFFICES ASSUME NEW x \in Procs, ReaderOf(x) # x, ReaderOf(x) = q PROVE ReadPair(ReaderOf(x), x)'
      OBVIOUS
    <2>1. ReadPair(q, x)'  OBVIOUS
    <2>2. ReaderOf(x)' = q  BY ClustersKept
    <2> QED  BY <2>1, <2>2
  <1> QED  BY <1>1, ReadMoves

-----------------------------------------------------------------------------
(* Reading: the steps of a process that is handed its chunks.              *)

ReadPcs == {"enter", "read", "size", "post", "sendping", "wait", "await", "rsend", "counted"}

LEMMA ReadingFacts ==
  ASSUME Types, stage = "read", ReadInv, NEW p \in Procs, pc[p] \in ReadPcs
  PROVE  /\ Headed /\ Going /\ set \in Settings /\ base = Header /\ ~set.less
         /\ Procs = 0 .. set.r - 1 /\ ReadPart(p)
         /\ Reader(p) = ReaderOf(p) /\ NCluster(p) = ClusterOf(p) /\ Turn(p) = TurnOf(p)
         /\ NChunks(p) = ChunksOf(p) /\ ChunksOf(p) \in Int
         /\ k[p] \in Nat /\ ClusterOf(p) \in Nat \ {0} /\ p \in Int
         /\ ReaderOf(p) \in Procs /\ ReaderOf(p) \in Int /\ ReaderOf(ReaderOf(p)) = ReaderOf(p)
         /\ ClusterOf(ReaderOf(p)) = ClusterOf(p) /\ p - ReaderOf(p) \in 0 .. ClusterOf(p) - 1
PROOF
  <1>1. set \in Settings /\ Procs = 0 .. set.r - 1 /\ set.r \in Nat  BY ProcsFacts, SettingFacts DEF Types
  <1>2. Headed /\ Going  BY DEF ReadInv, At, ReadPcs
  <1>3. base = Header /\ ~set.less /\ ReadPart(p)  BY <1>2 DEF Headed, Going, ReadParts
  <1>4. p \in 0 .. set.r - 1 /\ sec[p] \in Sections /\ k[p] \in Nat  BY <1>1 DEF Types
  <1>5. /\ Reader(p) = ReaderOf(p) /\ NCluster(p) = ClusterOf(p) /\ Turn(p) = TurnOf(p)
        /\ NChunks(p) = ChunksOf(p) /\ ChunksOf(p) \in Int
    BY <1>1, <1>2, <1>3, <1>4, ReaderSame
  <1>6. /\ ReaderOf(p) \in 0 .. p /\ ReaderOf(ReaderOf(p)) = ReaderOf(p)
        /\ ClusterOf(ReaderOf(p)) = ClusterOf(p)
        /\ ClusterOf(p) \in Nat \ {0} /\ p - ReaderOf(p) \in 0 .. ClusterOf(p) - 1
    BY <1>1, <1>3, <1>4, ReaderFacts
  <1>7. ReaderOf(p) \in 0 .. set.r - 1 /\ ReaderOf(p) \in Int /\ p \in Int  BY <1>1, <1>4, <1>6
  <1> QED  BY <1>1, <1>2, <1>3, <1>4, <1>5, <1>6, <1>7

LEMMA MemberFacts ==
  ASSUME Types, stage = "read", ReadInv, NEW p \in Procs, pc[p] \in {"size", "post", "sendping", "wait"}
  PROVE  /\ ReaderOf(p) # p /\ ReadPair(ReaderOf(p), p) /\ Partner(p) = ReaderOf(p)
PROOF
  <1>1. pc[p] \in ReadPcs  BY DEF ReadPcs
  <1>2. Going /\ ReadPart(p) /\ Reader(p) = ReaderOf(p)  BY <1>1, ReadingFacts
  <1>3. ReaderOf(p) # p  BY <1>2 DEF ReadPart
  <1> QED  BY <1>2, <1>3 DEF Going, ReadPairs, Partner

LEMMA HearSizeKeeps ==
  ASSUME Types, stage = "read", ReadInv, NEW p \in Procs, HearSize(p)
  PROVE  Types' /\ ReadInv' /\ WriteInv'
PROOF
  <1>1. pc[p] = "size" /\ pc[p] \in ReadPcs  BY DEF HearSize, ReadPcs
  <1>2. Headed /\ Going /\ ReadPart(p) /\ Reader(p) = ReaderOf(p) /\ ReaderOf(p) \in Procs
    BY <1>1, ReadingFacts
  <1>3. ReaderOf(p) # p /\ ReadPair(ReaderOf(p), p)  BY <1>1, MemberFacts
  <1>4. PICK q \in Procs : q = ReaderOf(p)  BY <1>2
  <1>5. /\ UNCHANGED <<set, stage, base, files>> /\ k' = k /\ sec' = sec /\ posted' = posted /\ pass' = pass
        /\ Receive(p, q) /\ Go(p, "post") /\ chan[q][p] # <<>>
    BY <1>2, <1>4 DEF HearSize, Arrived
  <1>6. Labelled' /\ pc'[p] = "post" /\ \A x \in Procs \ {p} : pc'[x] = pc[x]  BY <1>5, GoFacts
  <1>7. PICK s \in Sections : Shared(s) /\ Exchange(q, p, s)
    <2>1. ~Loose(q, p) /\ \A s : ~Resting(q, p, s)
      BY <1>1, <1>5 DEF Loose, Aside, Resting, Left
    <2> QED  BY <1>3, <1>4, <2>1 DEF ReadPair
  <1>8. /\ pc[q] = "await" /\ posted[p] = None /\ k[p] = k[q] /\ chan[q][p] = <<Size(0)>> /\ chan[p][q] = <<>>
        /\ sec[q] = s /\ sec[p] = s /\ TurnOf(q) = p /\ k[q] < ChunksOf(p)
    BY <1>1, <1>7 DEF Exchange
  <1>9. Procs' = Procs /\ Chans /\ Tail(chan[q][p]) = <<>>  BY <1>5, <1>8, ShortSequences DEF Types, Procs, N
  <1>10. Chans' /\ chan'[q][p] = <<>> /\ \A x, y \in Procs : x # q \/ y # p => chan'[x][y] = chan[x][y]
    BY <1>5, <1>9, ReceiveFacts
  <1>11. Types'  BY <1>5, <1>6, <1>10, TypesKept DEF Types
  <1>12. /\ \A x : ClusterOf(x)' = ClusterOf(x) /\ ReaderOf(x)' = ReaderOf(x) /\ ChunksOf(x)' = ChunksOf(x)
         /\ \A t : Shared(t)' <=> Shared(t)
    BY <1>5, ClustersKept
  <1>13. ReadPair(q, p)'
    <2>1. pc'[q] = pc[q] /\ chan'[p][q] = chan[p][q] /\ TurnOf(q)' = TurnOf(q)
      BY <1>3, <1>4, <1>5, <1>6, <1>10, <1>12 DEF TurnOf
    <2>2. Exchange(q, p, s)'  BY <1>5, <1>6, <1>8, <1>10, <1>12, <2>1 DEF Exchange, Still
    <2> QED  BY <1>7, <1>12, <2>2 DEF ReadPair
  <1>14. ReadPair(ReaderOf(p), p)'  BY <1>4, <1>12, <1>13
  <1>15. ReadPart(p)'  BY <1>3, <1>6, <1>12 DEF ReadPart
  <1>16. pc[p] # "enter" /\ pc'[p] # "enter"  BY <1>1, <1>6
  <1>17. \A x, y \in Procs \ {p} : chan'[x][y] = chan[x][y]  BY <1>10
  <1> QED  BY <1>2, <1>3, <1>5, <1>6, <1>11, <1>14, <1>15, <1>16, <1>17, MemberMoves

LEMMA ReadPostKeeps ==
  ASSUME Types, stage = "read", ReadInv, NEW p \in Procs, PostReceive(p)
  PROVE  Types' /\ ReadInv' /\ WriteInv'
PROOF
  <1>1. pc[p] = "post"  BY DEF PostReceive
  <1>2. ReaderOf(p) # p /\ ReadPair(ReaderOf(p), p) /\ Partner(p) = ReaderOf(p)  BY <1>1, MemberFacts
  <1>3. Headed /\ Going /\ ReadPart(p) /\ ReaderOf(p) \in Procs /\ ReaderOf(p) \in Int
    BY <1>1, ReadingFacts DEF ReadPcs
  <1>4. PICK q \in Procs : q = ReaderOf(p) /\ q \in Int  BY <1>3
  <1>5. /\ UNCHANGED <<set, stage, base, files>> /\ k' = k /\ sec' = sec /\ chan' = chan /\ pass' = pass
        /\ posted' = [posted EXCEPT ![p] = q] /\ Go(p, "sendping")
    BY <1>2, <1>4 DEF PostReceive
  <1>6. Labelled' /\ pc'[p] = "sendping" /\ \A x \in Procs \ {p} : pc'[x] = pc[x]  BY <1>5, GoFacts
  <1>7. posted' \in [Procs -> Int] /\ posted'[p] = q /\ \A x \in Procs \ {p} : posted'[x] = posted[x]
    BY <1>4, <1>5 DEF Types
  <1>8. Chans'  BY <1>5 DEF Types, Chans, Procs, N
  <1>9. Types'  BY <1>5, <1>6, <1>7, <1>8, TypesKept DEF Types
  <1>10. PICK s \in Sections : Shared(s) /\ Exchange(q, p, s)
    <2>1. ~Loose(q, p) /\ \A s : ~Resting(q, p, s)
      BY <1>1 DEF Loose, Aside, Resting, Left
    <2> QED  BY <1>2, <1>4, <2>1 DEF ReadPair
  <1>11. /\ pc[q] = "await" /\ k[p] = k[q] /\ Still(p, q)
         /\ sec[q] = s /\ sec[p] = s /\ TurnOf(q) = p /\ k[q] < ChunksOf(p)
    BY <1>1, <1>10 DEF Exchange
  <1>12. /\ \A x : ClusterOf(x)' = ClusterOf(x) /\ ReaderOf(x)' = ReaderOf(x) /\ ChunksOf(x)' = ChunksOf(x)
         /\ \A t : Shared(t)' <=> Shared(t)
    BY <1>5, ClustersKept
  <1>13. ReadPair(q, p)'
    <2>1. pc'[q] = pc[q] /\ TurnOf(q)' = TurnOf(q)  BY <1>2, <1>4, <1>5, <1>6, <1>12 DEF TurnOf
    <2>2. Exchange(q, p, s)'  BY <1>5, <1>6, <1>7, <1>11, <1>12, <2>1 DEF Exchange, Still
    <2> QED  BY <1>10, <1>12, <2>2 DEF ReadPair
  <1>14. ReadPair(ReaderOf(p), p)'  BY <1>4, <1>12, <1>13
  <1>15. ReadPart(p)'  BY <1>2, <1>6, <1>12 DEF ReadPart
  <1>16. pc[p] # "enter" /\ pc'[p] # "enter"  BY <1>1, <1>6
  <1> QED  BY <1>2, <1>3, <1>5, <1>6, <1>7, <1>9, <1>14, <1>15, <1>16, MemberMoves

LEMMA ReadPingKeeps ==
  ASSUME Types, stage = "read", ReadInv, NEW p \in Procs, SendPing(p)
  PROVE  Types' /\ ReadInv' /\ WriteInv'
PROOF
  <1>1. pc[p] = "sendping"  BY DEF SendPing
  <1>2. ReaderOf(p) # p /\ ReadPair(ReaderOf(p), p) /\ Partner(p) = ReaderOf(p)  BY <1>1, MemberFacts
  <1>3. Headed /\ Going /\ ReadPart(p) /\ ReaderOf(p) \in Procs
    BY <1>1, ReadingFacts DEF ReadPcs
  <1>4. PICK q \in Procs : q = ReaderOf(p)  BY <1>3
  <1>5. /\ UNCHANGED <<set, stage, base, files>> /\ k' = k /\ sec' = sec /\ posted' = posted /\ pass' = pass
        /\ Send(p, q, Ping) /\ Go(p, "wait")
    BY <1>2, <1>4 DEF SendPing
  <1>6. Labelled' /\ pc'[p] = "wait" /\ \A x \in Procs \ {p} : pc'[x] = pc[x]  BY <1>5, GoFacts
  <1>7. PICK s \in Sections : Shared(s) /\ Exchange(q, p, s)
    <2>1. ~Loose(q, p) /\ \A s : ~Resting(q, p, s)
      BY <1>1 DEF Loose, Aside, Resting, Left
    <2> QED  BY <1>2, <1>4, <2>1 DEF ReadPair
  <1>8. /\ pc[q] = "await" /\ k[p] = k[q] /\ chan[p][q] = <<>> /\ chan[q][p] = <<>> /\ posted[p] = q
        /\ sec[q] = s /\ sec[p] = s /\ TurnOf(q) = p /\ k[q] < ChunksOf(p)
    BY <1>1, <1>7 DEF Exchange, Still
  <1>9. Procs' = Procs /\ Chans  BY <1>5 DEF Types, Procs, N
  <1>10. Chans' /\ chan'[p][q] = <<Ping>> /\ \A x, y \in Procs : x # p \/ y # q => chan'[x][y] = chan[x][y]
    BY <1>5, <1>8, <1>9, SendFacts, ShortSequences
  <1>11. Types'  BY <1>5, <1>6, <1>10, TypesKept DEF Types
  <1>12. /\ \A x : ClusterOf(x)' = ClusterOf(x) /\ ReaderOf(x)' = ReaderOf(x) /\ ChunksOf(x)' = ChunksOf(x)
         /\ \A t : Shared(t)' <=> Shared(t)
    BY <1>5, ClustersKept
  <1>13. ReadPair(q, p)'
    <2>1. pc'[q] = pc[q] /\ chan'[q][p] = chan[q][p] /\ TurnOf(q)' = TurnOf(q)
      BY <1>2, <1>4, <1>5, <1>6, <1>10, <1>12 DEF TurnOf
    <2>2. Exchange(q, p, s)'  BY <1>5, <1>6, <1>8, <1>10, <1>12, <2>1 DEF Exchange, Ping
    <2> QED  BY <1>7, <1>12, <2>2 DEF ReadPair
  <1>14. ReadPair(ReaderOf(p), p)'  BY <1>4, <1>12, <1>13
  <1>15. ReadPart(p)'  BY <1>2, <1>6, <1>12 DEF ReadPart
  <1>16. pc[p] # "enter" /\ pc'[p] # "enter"  BY <1>1, <1>6
  <1>17. \A x, y \in Procs \ {p} : chan'[x][y] = chan[x][y]  BY <1>10
  <1> QED  BY <1>2, <1>3, <1>5, <1>6, <1>11, <1>14, <1>15, <1>16, <1>17, MemberMoves

LEMMA TakeChunkKeeps ==
  ASSUME Types, stage = "read", ReadInv, NEW p \in Procs, TakeChunk(p)
  PROVE  Types' /\ ReadInv' /\ WriteInv'
PROOF
  <1>1. pc[p] = "wait"  BY DEF TakeChunk
  <1>2. ReaderOf(p) # p /\ ReadPair(ReaderOf(p), p)  BY <1>1, MemberFacts
  <1>3. /\ Headed /\ Going /\ ReadPart(p) /\ ReaderOf(p) \in Procs /\ Reader(p) = ReaderOf(p)
        /\ NCluster(p) = ClusterOf(p) /\ k[p] \in Nat /\ ClusterOf(p) \in Nat \ {0}
    BY <1>1, ReadingFacts DEF ReadPcs
  <1>4. PICK q \in Procs : q = ReaderOf(p)  BY <1>3
  <1>5. /\ UNCHANGED <<set, stage, base, files>> /\ sec' = sec /\ pass' = pass
        /\ posted' = [posted EXCEPT ![p] = None] /\ k' = [k EXCEPT ![p] = @ + ClusterOf(p)]
        /\ Receive(p, q) /\ Go(p, "size") /\ chan[q][p] # <<>>
    BY <1>3, <1>4 DEF TakeChunk, Arrived
  <1>6. Labelled' /\ pc'[p] = "size" /\ \A x \in Procs \ {p} : pc'[x] = pc[x]  BY <1>5, GoFacts
  <1>7. /\ posted' \in [Procs -> Int] /\ posted'[p] = None /\ \A x \in Procs \ {p} : posted'[x] = posted[x]
        /\ k' \in [Procs -> Nat] /\ k'[p] = k[p] + ClusterOf(p) /\ \A x \in Procs \ {p} : k'[x] = k[x]
    BY <1>3, <1>5 DEF Types, None
  <1>8. Procs' = Procs /\ Chans  BY <1>5 DEF Types, Procs, N
  <1>9. Chans' /\ chan'[q][p] = Tail(chan[q][p]) /\ \A x, y \in Procs : x # q \/ y # p => chan'[x][y] = chan[x][y]
    BY <1>5, <1>8, ReceiveFacts
  <1>10. Types'  BY <1>5, <1>6, <1>7, <1>9, TypesKept DEF Types
  <1>11. /\ \A x : ClusterOf(x)' = ClusterOf(x) /\ ReaderOf(x)' = ReaderOf(x) /\ ChunksOf(x)' = ChunksOf(x)
         /\ \A t : Shared(t)' <=> Shared(t)
    BY <1>5, ClustersKept
  <1>12. /\ pc'[q] = pc[q] /\ k'[q] = k[q] /\ sec'[q] = sec[q] /\ chan'[p][q] = chan[p][q]
         /\ TurnOf(q)' = TurnOf(q) /\ \A s : Left(q, s)' <=> Left(q, s)
    BY <1>2, <1>4, <1>5, <1>6, <1>7, <1>9, <1>11 DEF TurnOf, Left
  <1>13. ReadPair(q, p)'
    <2>1. ~Loose(q, p)  BY <1>1 DEF Loose, Aside
    <2>2. ASSUME NEW s \in Sections, Shared(s), Resting(q, p, s) PROVE ReadPair(q, p)'
      <3>1. /\ \/ pc[q] \in {"read", "await", "rsend"} /\ sec[q] = s /\ (pc[q] = "read" \/ TurnOf(q) # p)
               \/ Left(q, s)
            /\ chan[p][q] = <<>> /\ sec[p] = s /\ Ahead(q, p, k[p] + ClusterOf(p))
        BY <1>1, <2>2 DEF Resting, Left
      <3>2. \E x : chan[q][p] = <<x>>  BY <1>1, <2>2 DEF Resting, Left
      <3>3. chan'[q][p] = <<>>  BY <1>9, <3>2, ShortSequences
      <3>4. Ahead(q, p, k[p])'  BY <1>7, <1>11, <1>12, <3>1 DEF Ahead
      <3>5. Resting(q, p, s)'  BY <1>5, <1>6, <1>7, <1>12, <3>1, <3>3, <3>4 DEF Resting
      <3> QED  BY <1>11, <2>2, <3>5 DEF ReadPair
    <2>3. ASSUME NEW s \in Sections, Shared(s), Exchange(q, p, s) PROVE ReadPair(q, p)'
      <3>1. /\ pc[q] = "await" /\ k[p] + ClusterOf(p) = k[q] /\ chan[p][q] = <<>>
            /\ sec[q] = s /\ sec[p] = s /\ TurnOf(q) = p /\ k[q] < ChunksOf(p)
        BY <1>1, <1>5, <2>3 DEF Exchange, Still
      <3>2. \E x : chan[q][p] = <<x, Size(0)>>  BY <1>1, <1>5, <2>3 DEF Exchange, Still
      <3>3. chan'[q][p] = <<Size(0)>>  BY <1>9, <3>2, ShortSequences
      <3>4. Size(0)' = Size(0)  BY DEF Size
      <3>5. Exchange(q, p, s)'  BY <1>5, <1>6, <1>7, <1>11, <1>12, <3>1, <3>3, <3>4 DEF Exchange
      <3> QED  BY <1>11, <2>3, <3>5 DEF ReadPair
    <2> QED  BY <1>2, <1>4, <2>1, <2>2, <2>3 DEF ReadPair
  <1>14. ReadPair(ReaderOf(p), p)'  BY <1>4, <1>11, <1>13
  <1>15. ReadPart(p)'  BY <1>2, <1>6, <1>11 DEF ReadPart
  <1>16. pc[p] # "enter" /\ pc'[p] # "enter"  BY <1>1, <1>6
  <1>17. \A x, y \in Procs \ {p} : chan'[x][y] = chan[x][y]  BY <1>9
  <1>18. \A x \in Procs \ {p} : /\ pc'[x] = pc[x] /\ k'[x] = k[x] /\ sec'[x] = sec[x] /\ posted'[x] = posted[x]
    BY <1>5, <1>6, <1>7
  <1> QED  BY <1>2, <1>3, <1>5, <1>10, <1>14, <1>15, <1>16, <1>17, <1>18, MemberMoves

(* The end of a section.                                                   *)
LEMMA NextReadSectionFacts ==
  ASSUME Types, set' = set, stage' = stage, base' = base, NEW p \in Procs, NextReadSection(p)
  PROVE  /\ Labelled' /\ sec' \in [Procs -> Sections]
         /\ \A x \in Procs \ {p} : pc'[x] = pc[x] /\ sec'[x] = sec[x]
         /\ \A s : s = sec[p] => Left(p, s)'
         /\ pc'[p] \in {"enter", "counted"} /\ (pc'[p] = "enter" => sec'[p] = "surf")
PROOF
  <1>1. CASE base.surfs /\ sec[p] = "grid"
    <2>1. Go(p, "enter") /\ sec' = [sec EXCEPT ![p] = "surf"]  BY <1>1 DEF NextReadSection
    <2>2. Labelled' /\ pc'[p] = "enter" /\ \A x \in Procs \ {p} : pc'[x] = pc[x]  BY <2>1, GoFacts
    <2>3. sec' \in [Procs -> Sections] /\ sec'[p] = "surf" /\ \A x \in Procs \ {p} : sec'[x] = sec[x]
      BY <2>1 DEF Types, Sections
    <2>4. \A s : s = sec[p] => Left(p, s)'  BY <1>1, <2>2, <2>3 DEF Left
    <2> QED  BY <2>2, <2>3, <2>4
  <1>2. CASE ~(base.surfs /\ sec[p] = "grid")
    <2>1. Go(p, "counted") /\ sec' = sec  BY <1>2 DEF NextReadSection
    <2>2. Labelled' /\ pc'[p] = "counted" /\ \A x \in Procs \ {p} : pc'[x] = pc[x]  BY <2>1, GoFacts
    <2>3. \A s : s = sec[p] => Left(p, s)'  BY <1>2, <2>2 DEF Left
    <2> QED  BY <2>1, <2>2, <2>3 DEF Types
  <1> QED  BY <1>1, <1>2

LEMMA EndTurnsKeeps ==
  ASSUME Types, stage = "read", ReadInv, NEW p \in Procs, EndTurns(p)
  PROVE  Types' /\ ReadInv' /\ WriteInv'
PROOF
  <1>1. pc[p] = "size"  BY DEF EndTurns
  <1>2. ReaderOf(p) # p /\ ReadPair(ReaderOf(p), p)  BY <1>1, MemberFacts
  <1>3. /\ Headed /\ Going /\ ReadPart(p) /\ ReaderOf(p) \in Procs
        /\ k[p] \in Nat /\ NChunks(p) = ChunksOf(p) /\ ChunksOf(p) \in Int
    BY <1>1, ReadingFacts DEF ReadPcs
  <1>4. PICK q \in Procs : q = ReaderOf(p)  BY <1>3
  <1>5. /\ UNCHANGED <<set, stage, base, files>> /\ k' = k /\ posted' = posted /\ pass' = pass /\ chan' = chan
        /\ k[p] >= ChunksOf(p) /\ NextReadSection(p)
    BY <1>3 DEF EndTurns
  <1>6. /\ Labelled' /\ sec' \in [Procs -> Sections]
        /\ \A x \in Procs \ {p} : pc'[x] = pc[x] /\ sec'[x] = sec[x]
        /\ \A s : s = sec[p] => Left(p, s)'
        /\ pc'[p] \in {"enter", "counted"} /\ (pc'[p] = "enter" => sec'[p] = "surf")
    BY <1>5, NextReadSectionFacts
  <1>7. Chans'  BY <1>5 DEF Types, Chans, Procs, N
  <1>8. Types'  BY <1>5, <1>6, <1>7, TypesKept DEF Types
  <1>9. PICK s \in Sections : Shared(s) /\ Resting(q, p, s)
    <2>1. ~Loose(q, p)  BY <1>1 DEF Loose, Aside
    <2>2. ASSUME NEW s, Exchange(q, p, s) PROVE FALSE
      <3>1. k[p] = k[q] /\ k[q] < ChunksOf(p)  BY <1>1, <2>2 DEF Exchange
      <3> QED  BY <1>3, <1>5, <3>1
    <2> QED  BY <1>2, <1>4, <2>1, <2>2 DEF ReadPair
  <1>10. /\ \/ pc[q] \in {"read", "await", "rsend"} /\ sec[q] = s /\ (pc[q] = "read" \/ TurnOf(q) # p)
            \/ Left(q, s)
         /\ chan[p][q] = <<>> /\ chan[q][p] = <<>> /\ posted[p] = None /\ sec[p] = s /\ Ahead(q, p, k[p])
    BY <1>1, <1>9 DEF Resting, Left
  <1>11. /\ \A x : ClusterOf(x)' = ClusterOf(x) /\ ReaderOf(x)' = ReaderOf(x) /\ ChunksOf(x)' = ChunksOf(x)
         /\ \A t : Shared(t)' <=> Shared(t)
    BY <1>5, ClustersKept
  <1>12. /\ pc'[q] = pc[q] /\ sec'[q] = sec[q] /\ TurnOf(q)' = TurnOf(q) /\ \A t : Left(q, t)' <=> Left(q, t)
    BY <1>2, <1>4, <1>5, <1>6, <1>11 DEF TurnOf, Left
  <1>13. ReadPair(q, p)'
    <2>1. Ahead(q, p, k[p])'  BY <1>5, <1>10, <1>11 DEF Ahead
    <2>2. Left(p, s)'  BY <1>6, <1>10
    <2>3. k'[p] >= ChunksOf(p)'  BY <1>5, <1>11
    <2>4. Resting(q, p, s)'  BY <1>5, <1>10, <1>12, <2>1, <2>2, <2>3 DEF Resting
    <2> QED  BY <1>9, <1>11, <2>4 DEF ReadPair
  <1>14. ReadPair(ReaderOf(p), p)'  BY <1>4, <1>11, <1>13
  <1>15. ReadPart(p)'  BY <1>2, <1>6, <1>11 DEF ReadPart
  <1>16. pc[p] # "enter"  BY <1>1
  <1> QED  BY <1>2, <1>3, <1>5, <1>6, <1>8, <1>14, <1>15, <1>16, MemberMoves

-----------------------------------------------------------------------------
(* Reading: the steps of the reader of a file.                             *)

LEMMA ReaderReads ==
  ASSUME Types, stage = "read", ReadInv, NEW q \in Procs, pc[q] \in {"read", "await", "rsend"},
         pc[q] = "read" => Shared(sec[q])
  PROVE  ReaderOf(q) = q
PROOF
  <1>1. pc[q] \in ReadPcs  BY DEF ReadPcs
  <1>2. Going /\ ReadPart(q) /\ ReaderOf(q) \in Procs  BY <1>1, ReadingFacts
  <1>3. CASE pc[q] # "read"
    BY <1>2, <1>3 DEF ReadPart
  <1>4. CASE pc[q] = "read"
    <2> SUFFICES ASSUME ReaderOf(q) # q PROVE FALSE
      OBVIOUS
    <2>1. ReadPair(ReaderOf(q), q)  BY <1>2 DEF Going, ReadPairs
    <2>2. PICK x : x = ReaderOf(q)  OBVIOUS
    <2>3. ~Loose(x, q)  BY <1>4 DEF Loose, Aside
    <2>4. \A s : ~Resting(x, q, s) /\ ~Exchange(x, q, s)  BY <1>4 DEF Resting, Exchange, Left
    <2> QED  BY <2>1, <2>2, <2>3, <2>4 DEF ReadPair
  <1> QED  BY <1>3, <1>4

(* Whose turn it is, and where the others of the cluster are.              *)
LEMMA TurnFacts ==
  ASSUME Types, stage = "read", ReadInv, NEW q \in Procs, pc[q] \in ReadPcs, ReaderOf(q) = q
  PROVE  /\ TurnOf(q) = q + (k[q] % ClusterOf(q)) /\ k[q] % ClusterOf(q) \in Int
         /\ TurnOf(q) \in Procs /\ ReaderOf(TurnOf(q)) = q
         /\ \A p \in Procs : ReaderOf(p) = q =>
              /\ p \in Int /\ k[p] \in Nat /\ p - q \in 0 .. ClusterOf(q) - 1
              /\ ClusterOf(p) = ClusterOf(q) /\ ChunksOf(p) = ChunksOf(q)
PROOF
  <1>1. /\ set \in Settings /\ base = Header /\ ~set.less /\ Procs = 0 .. set.r - 1
        /\ k[q] \in Nat /\ ClusterOf(q) \in Nat \ {0} /\ q \in Int
    BY ReadingFacts
  <1>2. PICK n \in Nat \ {0} : n = ClusterOf(q)  BY <1>1
  <1>3. PICK t : t = k[q] % n  OBVIOUS
  <1>4. t \in 0 .. n - 1  BY <1>1, <1>3, ModFacts
  <1>5. \A j \in 0 .. n - 1 : ReaderOf(q) + j \in 0 .. set.r - 1 /\ ReaderOf(ReaderOf(q) + j) = ReaderOf(q)
    BY <1>1, <1>2, ReaderFacts
  <1>6. q + t \in 0 .. set.r - 1 /\ ReaderOf(q + t) = q  BY <1>4, <1>5
  <1>7. TurnOf(q) = q + t  BY <1>2, <1>3 DEF TurnOf
  <1>8. ASSUME NEW p \in Procs, ReaderOf(p) = q
        PROVE  /\ p \in Int /\ k[p] \in Nat /\ p - q \in 0 .. ClusterOf(q) - 1
               /\ ClusterOf(p) = ClusterOf(q) /\ ChunksOf(p) = ChunksOf(q)
    <2>1. p \in 0 .. set.r - 1  BY <1>1
    <2>2. /\ ClusterOf(ReaderOf(p)) = ClusterOf(p) /\ FileOf(ReaderOf(p)) = FileOf(p)
          /\ p - ReaderOf(p) \in 0 .. ClusterOf(p) - 1
      BY <1>1, <2>1, ReaderFacts
    <2>3. k[p] \in Nat /\ p \in Int  BY <2>1 DEF Types
    <2> QED  BY <1>8, <2>2, <2>3 DEF ChunksOf
  <1> QED  BY <1>1, <1>2, <1>3, <1>4, <1>6, <1>7, <1>8

LEMMA PairOfReader ==
  ASSUME Types, stage = "read", ReadInv, NEW q \in Procs, pc[q] \in {"read", "await", "rsend"},
         pc[q] = "read" => Shared(sec[q]),
         NEW p \in Procs, ReaderOf(p) = q, p # q
  PROVE  /\ sec[q] \in Sections /\ Shared(sec[q])
         /\ pc[q] = "read" \/ TurnOf(q) # p => Resting(q, p, sec[q])
         /\ pc[q] # "read" /\ TurnOf(q) = p => Exchange(q, p, sec[q])
PROOF
  <1>1. pc[q] \in ReadPcs  BY DEF ReadPcs
  <1>2. Going  BY <1>1, ReadingFacts
  <1>3. ReadPair(q, p)  BY <1>2 DEF Going, ReadPairs
  <1>4. ~Loose(q, p)  BY DEF Loose, Aside
  <1>5. PICK s \in Sections : Shared(s) /\ (Resting(q, p, s) \/ Exchange(q, p, s))  BY <1>3, <1>4 DEF ReadPair
  <1>6. CASE Resting(q, p, s)
    <2>1. sec[q] = s /\ (pc[q] = "read" \/ TurnOf(q) # p)  BY <1>6 DEF Resting, Left
    <2> QED  BY <1>5, <1>6, <2>1
  <1>7. CASE Exchange(q, p, s)
    <2>1. sec[q] = s /\ pc[q] # "read" /\ TurnOf(q) = p  BY <1>7 DEF Exchange
    <2> QED  BY <1>5, <1>7, <2>1
  <1> QED  BY <1>5, <1>6, <1>7

(* The pairs with the processes whose turn it is not.                      *)
LEMMA RestingKept ==
  ASSUME NEW q \in Int, NEW p \in Int, NEW s \in Sections, Shared(s), Resting(q, p, s), TurnOf(q) # p,
         TurnOf(q) = q + (k[q] % ClusterOf(q)), k[q] % ClusterOf(q) \in Int,
         k[q] \in Nat, k[p] \in Nat, ClusterOf(q) \in Nat \ {0}, ClusterOf(p) = ClusterOf(q),
         set' = set, base' = base, files' = files,
         sec[q] = s, sec'[q] = s, pc[q] \in {"read", "await", "rsend"},
         \/ pc'[q] \in {"read", "await", "rsend"} /\ k'[q] = k[q] /\ TurnOf(q)' = TurnOf(q)
         \/ pc'[q] = "read" /\ k'[q] = k[q] + 1,
         pc'[p] = pc[p], k'[p] = k[p], sec'[p] = sec[p], posted'[p] = posted[p],
         chan'[p][q] = chan[p][q], chan'[q][p] = chan[q][p]
  PROVE  ReadPair(q, p)'
PROOF
  <1>1. /\ \A x : ClusterOf(x)' = ClusterOf(x) /\ ReaderOf(x)' = ReaderOf(x) /\ ChunksOf(x)' = ChunksOf(x)
        /\ \A t : Shared(t)' <=> Shared(t)
    BY ClustersKept
  <1>2. PICK c \in Nat \ {0}, u \in Nat, v \in Nat, w \in Nat : c = ClusterOf(q) /\ u = k[q] /\ v = k[p] /\ w = k'[q]
    <2>1. k'[q] \in Nat  OBVIOUS
    <2> QED  BY <2>1
  <1>3. u % c # p - q /\ u % c \in Int /\ (w = u \/ w = u + 1)  BY <1>2
  <1>4. \A n \in Nat : n % c = p - q /\ u <= n /\ n < u + c => w <= n /\ n < w + c  BY <1>3
  <1>5. Ahead(q, p, k[p]) => Ahead(q, p, k[p])'
    <2>1. Ahead(q, p, k[p]) <=> v % c = p - q /\ u <= v /\ v < u + c  BY <1>2 DEF Ahead
    <2>2. Ahead(q, p, k[p])' <=> v % c = p - q /\ w <= v /\ v < w + c  BY <1>1, <1>2 DEF Ahead
    <2> QED  BY <1>4, <2>1, <2>2
  <1>6. Ahead(q, p, k[p] + ClusterOf(p)) => Ahead(q, p, k[p] + ClusterOf(p))'
    <2>1. Ahead(q, p, k[p] + ClusterOf(p)) <=> (v + c) % c = p - q /\ u <= v + c /\ v + c < u + c  BY <1>2 DEF Ahead
    <2>2. Ahead(q, p, k[p] + ClusterOf(p))' <=> (v + c) % c = p - q /\ w <= v + c /\ v + c < w + c
      BY <1>1, <1>2 DEF Ahead
    <2>3. v + c \in Nat  OBVIOUS
    <2> QED  BY <1>4, <2>1, <2>2, <2>3
  <1>7. Left(p, s) => Left(p, s)'  BY DEF Left
  <1>8. pc'[q] \in {"read", "await", "rsend"} /\ (pc'[q] = "read" \/ TurnOf(q)' # p)  OBVIOUS
  <1>9. Resting(q, p, s)'  BY <1>1, <1>5, <1>6, <1>7, <1>8 DEF Resting
  <1> QED  BY <1>1, <1>9 DEF ReadPair

(* The step of a reader that moves on to the next chunk, or to an exchange. *)
LEMMA OthersRest ==
  ASSUME Types, stage = "read", ReadInv, NEW q \in Procs, pc[q] \in {"read", "await", "rsend"},
         pc[q] = "read" => Shared(sec[q]),
         UNCHANGED <<set, stage, base, files, sec, posted>>,
         \/ pc'[q] \in {"read", "await", "rsend"} /\ k'[q] = k[q]
         \/ pc'[q] = "read" /\ k'[q] = k[q] + 1,
         \A x \in Procs \ {q} : pc'[x] = pc[x] /\ k'[x] = k[x],
         \A x \in Procs : x # TurnOf(q) => chan'[x][q] = chan[x][q] /\ chan'[q][x] = chan[q][x]
  PROVE  \A p \in Procs : ReaderOf(p) = q /\ p # q /\ p # TurnOf(q) => ReadPair(q, p)'
PROOF
  <1>1. pc[q] \in ReadPcs /\ ReaderOf(q) = q  BY ReaderReads DEF ReadPcs
  <1>2. k[q] \in Nat /\ ClusterOf(q) \in Nat \ {0} /\ q \in Int  BY <1>1, ReadingFacts
  <1> SUFFICES ASSUME NEW p \in Procs, ReaderOf(p) = q, p # q, p # TurnOf(q) PROVE ReadPair(q, p)'
    OBVIOUS
  <1>3. sec[q] \in Sections /\ Shared(sec[q]) /\ Resting(q, p, sec[q])  BY PairOfReader
  <1>4. /\ TurnOf(q) = q + (k[q] % ClusterOf(q)) /\ k[q] % ClusterOf(q) \in Int
        /\ p \in Int /\ k[p] \in Nat /\ ClusterOf(p) = ClusterOf(q)
    BY <1>1, TurnFacts
  <1>5. ReaderOf(q)' = ReaderOf(q) /\ ClusterOf(q)' = ClusterOf(q)  BY ClustersKept
  <1>6. k'[q] = k[q] => TurnOf(q)' = TurnOf(q)  BY <1>5 DEF TurnOf
  <1>7. sec'[q] = sec[q] /\ sec'[p] = sec[p] /\ posted'[p] = posted[p] /\ pc'[p] = pc[p] /\ k'[p] = k[p]
        /\ chan'[p][q] = chan[p][q] /\ chan'[q][p] = chan[q][p]
    OBVIOUS
  <1>8. \/ pc'[q] \in {"read", "await", "rsend"} /\ k'[q] = k[q] /\ TurnOf(q)' = TurnOf(q)
        \/ pc'[q] = "read" /\ k'[q] = k[q] + 1
    BY <1>6
  <1>9. PICK s \in Sections : s = sec[q]  BY <1>3
  <1> QED  BY <1>2, <1>3, <1>4, <1>7, <1>8, <1>9, RestingKept

LEMMA ReadsForFacts ==
  ASSUME Types, stage = "read", ReadInv, NEW q \in Procs, ReadsFor(q)
  PROVE  /\ pc[q] = "read" /\ Shared(sec[q]) /\ ReaderOf(q) = q /\ pc[q] \in ReadPcs
         /\ Turn(q) = TurnOf(q) /\ NChunks(q) = ChunksOf(q)
PROOF
  <1>1. pc[q] = "read" /\ Shared(sec[q]) /\ pc[q] \in ReadPcs  BY DEF ReadsFor, Shared, ReadPcs
  <1>2. ReaderOf(q) = q  BY <1>1, ReaderReads
  <1> QED  BY <1>1, <1>2, ReadingFacts

LEMMA ReadMineKeeps ==
  ASSUME Types, stage = "read", ReadInv, NEW q \in Procs, ReadMine(q)
  PROVE  Types' /\ ReadInv' /\ WriteInv'
PROOF
  <1>1. /\ pc[q] = "read" /\ Shared(sec[q]) /\ ReaderOf(q) = q /\ pc[q] \in ReadPcs /\ TurnOf(q) = q
    BY ReadsForFacts DEF ReadMine
  <1>2. Headed /\ Going /\ k[q] \in Nat  BY <1>1, ReadingFacts
  <1>3. /\ UNCHANGED <<set, stage, pc, pass, sec, chan, posted, base, files>> /\ k' = [k EXCEPT ![q] = @ + 1]
    BY DEF ReadMine
  <1>4. k' \in [Procs -> Nat] /\ k'[q] = k[q] + 1 /\ \A x \in Procs \ {q} : k'[x] = k[x]
    BY <1>2, <1>3 DEF Types
  <1>5. Labelled' /\ Chans'  BY <1>3 DEF Types, Labelled, Chans, Procs, N
  <1>6. Types'  BY <1>3, <1>4, <1>5, TypesKept DEF Types
  <1>7. \A p \in Procs : ReaderOf(p) = q /\ p # q => ReadPair(q, p)'  BY <1>1, <1>3, <1>4, OthersRest
  <1>8. ReadPart(q)'
    <2>1. ReaderOf(q)' = q  BY <1>1, <1>3, ClustersKept
    <2> QED  BY <1>1, <1>3, <2>1 DEF ReadPart
  <1> QED  BY <1>1, <1>2, <1>3, <1>4, <1>6, <1>7, <1>8, ReaderMoves

LEMMA SendSizeKeeps ==
  ASSUME Types, stage = "read", ReadInv, NEW q \in Procs, SendSize(q)
  PROVE  Types' /\ ReadInv' /\ WriteInv'
PROOF
  <1>1. /\ pc[q] = "read" /\ Shared(sec[q]) /\ ReaderOf(q) = q /\ pc[q] \in ReadPcs
        /\ Turn(q) = TurnOf(q) /\ NChunks(q) = ChunksOf(q)
    BY ReadsForFacts DEF SendSize
  <1>2. /\ Headed /\ Going /\ k[q] \in Nat /\ ClusterOf(q) \in Nat \ {0} /\ q \in Int /\ ChunksOf(q) \in Int
    BY <1>1, ReadingFacts
  <1>3. TurnOf(q) \in Procs  BY <1>1, TurnFacts
  <1>4. PICK r \in Procs : r = TurnOf(q)  BY <1>3
  <1>5. /\ r # q /\ k[q] < ChunksOf(q) /\ Send(q, r, Size(0)) /\ Go(q, "await")
        /\ UNCHANGED <<set, stage, k, pass, sec, posted, base, files>>
    BY <1>1, <1>4 DEF SendSize
  <1>6. Labelled' /\ pc'[q] = "await" /\ \A x \in Procs \ {q} : pc'[x] = pc[x]  BY <1>5, GoFacts
  <1>7. Procs' = Procs /\ Chans  BY <1>5 DEF Types, Procs, N
  <1>8. /\ Chans' /\ chan'[q][r] = Append(chan[q][r], Size(0))
        /\ \A x, y \in Procs : x # q \/ y # r => chan'[x][y] = chan[x][y]
    BY <1>5, <1>7, SendFacts
  <1>9. Types'  BY <1>5, <1>6, <1>8, TypesKept DEF Types
  <1>10. /\ \A x : ClusterOf(x)' = ClusterOf(x) /\ ReaderOf(x)' = ReaderOf(x) /\ ChunksOf(x)' = ChunksOf(x)
         /\ \A t : Shared(t)' <=> Shared(t)
    BY <1>5, ClustersKept
  <1>11. TurnOf(q)' = r  BY <1>4, <1>5, <1>10 DEF TurnOf
  <1>12. /\ r = q + (k[q] % ClusterOf(q)) /\ ReaderOf(r) = q /\ r \in Int /\ k[r] \in Nat
         /\ ClusterOf(r) = ClusterOf(q) /\ ChunksOf(r) = ChunksOf(q) /\ k[q] % ClusterOf(q) \in Int
    BY <1>1, <1>4, TurnFacts
  <1>13. ReadPair(q, r)'
    <2>1. sec[q] \in Sections /\ Resting(q, r, sec[q])  BY <1>1, <1>5, <1>12, PairOfReader
    <2>2. PICK s \in Sections : s = sec[q]  BY <2>1
    <2>3. PICK c \in Nat \ {0}, u \in Nat : c = ClusterOf(q) /\ u = k[q]  BY <1>2
    <2>4. \A n \in Nat : Ahead(q, r, n) => n = u
      <3> TAKE n \in Nat
      <3>1. Ahead(q, r, n) => n % c = u % c /\ u <= n /\ n < u + c  BY <1>2, <1>12, <2>3 DEF Ahead
      <3>2. n % c = u % c /\ u <= n /\ n < u + c => u = n  BY ModFacts
      <3> QED  BY <3>1, <3>2
    <2>5. /\ chan[r][q] = <<>>
          /\ \/ pc[r] = "size" /\ sec[r] = s /\ posted[r] = None /\ chan[q][r] = <<>> /\ k[r] = u
             \/ /\ pc[r] = "wait" /\ sec[r] = s /\ posted[r] = q
                /\ \E x : chan[q][r] = <<x>>
                /\ k[r] + c = u
      <3>1. k[r] \in Nat /\ k[r] + c \in Nat  BY <1>12
      <3>2. chan[r][q] = <<>>  BY <2>1 DEF Resting
      <3>3. ~(Left(r, s) /\ Ahead(q, r, k[r]) /\ k[r] >= ChunksOf(r))
        <4>1. Ahead(q, r, k[r]) => k[r] = u  BY <2>4, <3>1
        <4>2. k[r] = u => ~(k[r] >= ChunksOf(r))  BY <1>2, <1>5, <1>12, <2>3
        <4> QED  BY <4>1, <4>2
      <3>4. Ahead(q, r, k[r]) => k[r] = u  BY <2>4, <3>1
      <3>5. Ahead(q, r, k[r] + ClusterOf(r)) => k[r] + c = u  BY <1>12, <2>3, <2>4, <3>1
      <3> QED  BY <2>1, <2>2, <3>2, <3>3, <3>4, <3>5 DEF Resting
    <2>6. chan'[r][q] = chan[r][q]  BY <1>5, <1>8
    <2>7. /\ pc'[q] = "await" /\ pc'[r] = pc[r] /\ sec'[q] = s /\ sec'[r] = sec[r] /\ k'[r] = k[r] /\ k'[q] = u
          /\ posted'[r] = posted[r] /\ k'[q] < ChunksOf(r)' /\ ClusterOf(r)' = c /\ Size(0)' = Size(0)
      BY <1>5, <1>6, <1>10, <1>12, <2>2, <2>3 DEF Size
    <2>8. Exchange(q, r, s)'
      <3>1. CASE pc[r] = "size"
        <4>1. sec[r] = s /\ posted[r] = None /\ chan[q][r] = <<>> /\ k[r] = u  BY <2>5, <3>1
        <4>2. chan'[q][r] = <<Size(0)>>  BY <1>8, <4>1, ShortSequences
        <4> QED  BY <1>11, <2>5, <2>6, <2>7, <3>1, <4>1, <4>2 DEF Exchange
      <3>2. CASE pc[r] = "wait"
        <4>1. sec[r] = s /\ posted[r] = q /\ k[r] + c = u  BY <2>5, <3>2
        <4>2. PICK x : chan[q][r] = <<x>>  BY <2>5, <3>2
        <4>3. chan'[q][r] = <<x, Size(0)>>  BY <1>8, <4>2, ShortSequences
        <4> QED  BY <1>11, <2>5, <2>6, <2>7, <3>2, <4>1, <4>3 DEF Exchange
      <3> QED  BY <2>5, <3>1, <3>2
    <2> QED  BY <1>1, <1>10, <2>2, <2>8 DEF ReadPair
  <1>14. \A p \in Procs : ReaderOf(p) = q /\ p # q => ReadPair(q, p)'
    <2>1. \A p \in Procs : ReaderOf(p) = q /\ p # q /\ p # TurnOf(q) => ReadPair(q, p)'
      BY <1>1, <1>4, <1>5, <1>6, <1>8, OthersRest
    <2> QED  BY <1>4, <1>13, <2>1
  <1>15. ReadPart(q)'  BY <1>1, <1>5, <1>6, <1>10, <1>11 DEF ReadPart
  <1>16. \A x, y \in Procs \ {q} : chan'[x][y] = chan[x][y]  BY <1>8
  <1> QED  BY <1>1, <1>2, <1>5, <1>6, <1>9, <1>14, <1>15, <1>16, ReaderMoves

(* A reader in an exchange, and the process it is with.                    *)
LEMMA ExchangeFacts ==
  ASSUME Types, stage = "read", ReadInv, NEW q \in Procs, pc[q] \in {"await", "rsend"}
  PROVE  /\ ReaderOf(q) = q /\ pc[q] \in ReadPcs /\ TurnOf(q) \in Procs /\ TurnOf(q) # q /\ ReaderOf(TurnOf(q)) = q
         /\ Partner(q) = TurnOf(q) /\ Turn(q) = TurnOf(q)
         /\ sec[q] \in Sections /\ Shared(sec[q])
         /\ \A r \in Procs : r = TurnOf(q) => Exchange(q, r, sec[q])
PROOF
  <1>1. pc[q] \in ReadPcs /\ ReaderOf(q) = q  BY ReaderReads DEF ReadPcs
  <1>2. Reader(q) = ReaderOf(q) /\ Turn(q) = TurnOf(q) /\ ReadPart(q)  BY <1>1, ReadingFacts
  <1>3. TurnOf(q) # q  BY <1>2 DEF ReadPart
  <1>4. TurnOf(q) \in Procs /\ ReaderOf(TurnOf(q)) = q  BY <1>1, TurnFacts
  <1>5. Partner(q) = TurnOf(q)  BY <1>1, <1>2 DEF Partner
  <1>6. PICK r \in Procs : r = TurnOf(q)  BY <1>4
  <1>7. sec[q] \in Sections /\ Shared(sec[q]) /\ Exchange(q, r, sec[q])  BY <1>3, <1>4, <1>6, PairOfReader
  <1> QED  BY <1>1, <1>2, <1>3, <1>4, <1>5, <1>6, <1>7

LEMMA ReadHearPingKeeps ==
  ASSUME Types, stage = "read", ReadInv, NEW q \in Procs, pc[q] = "await", HearPing(q)
  PROVE  Types' /\ ReadInv' /\ WriteInv'
PROOF
  <1>1. /\ ReaderOf(q) = q /\ pc[q] \in ReadPcs /\ TurnOf(q) \in Procs /\ TurnOf(q) # q /\ ReaderOf(TurnOf(q)) = q
        /\ Partner(q) = TurnOf(q) /\ sec[q] \in Sections /\ Shared(sec[q])
        /\ \A r \in Procs : r = TurnOf(q) => Exchange(q, r, sec[q])
    BY ExchangeFacts
  <1>2. Headed /\ Going /\ ReadPart(q)  BY <1>1, ReadingFacts
  <1>3. PICK r \in Procs : r = TurnOf(q)  BY <1>1
  <1>4. /\ chan[r][q] # <<>> /\ Receive(q, r) /\ Go(q, "rsend")
        /\ UNCHANGED <<set, stage, k, pass, sec, posted, base, files>>
    BY <1>1, <1>3 DEF HearPing, Arrived
  <1>5. Labelled' /\ pc'[q] = "rsend" /\ \A x \in Procs \ {q} : pc'[x] = pc[x]  BY <1>4, GoFacts
  <1>6. /\ pc[r] = "wait" /\ posted[r] = q /\ k[r] = k[q] /\ chan[q][r] = <<>> /\ chan[r][q] = <<Ping>>
        /\ sec[r] = sec[q] /\ k[q] < ChunksOf(r)
    BY <1>1, <1>3, <1>4 DEF Exchange, Still
  <1>7. Procs' = Procs /\ Chans /\ Tail(chan[r][q]) = <<>>  BY <1>4, <1>6, ShortSequences DEF Types, Procs, N
  <1>8. Chans' /\ chan'[r][q] = <<>> /\ \A x, y \in Procs : x # r \/ y # q => chan'[x][y] = chan[x][y]
    BY <1>4, <1>7, ReceiveFacts
  <1>9. Types'  BY <1>4, <1>5, <1>8, TypesKept DEF Types
  <1>10. /\ \A x : ClusterOf(x)' = ClusterOf(x) /\ ReaderOf(x)' = ReaderOf(x) /\ ChunksOf(x)' = ChunksOf(x)
         /\ \A t : Shared(t)' <=> Shared(t)
    BY <1>4, ClustersKept
  <1>11. TurnOf(q)' = r  BY <1>3, <1>4, <1>10 DEF TurnOf
  <1>12. ReadPair(q, r)'
    <2>1. PICK s \in Sections : s = sec[q]  BY <1>1
    <2>2. pc'[r] = pc[r] /\ chan'[q][r] = chan[q][r]  BY <1>1, <1>3, <1>5, <1>8
    <2>3. Exchange(q, r, s)'  BY <1>4, <1>5, <1>6, <1>8, <1>10, <1>11, <2>1, <2>2 DEF Exchange, Still
    <2> QED  BY <1>1, <1>10, <2>1, <2>3 DEF ReadPair
  <1>13. \A p \in Procs : ReaderOf(p) = q /\ p # q => ReadPair(q, p)'
    <2>1. \A p \in Procs : ReaderOf(p) = q /\ p # q /\ p # TurnOf(q) => ReadPair(q, p)'
      BY <1>3, <1>4, <1>5, <1>8, OthersRest
    <2> QED  BY <1>3, <1>12, <2>1
  <1>14. ReadPart(q)'  BY <1>1, <1>3, <1>5, <1>10, <1>11 DEF ReadPart
  <1>15. \A x, y \in Procs \ {q} : chan'[x][y] = chan[x][y]  BY <1>8
  <1> QED  BY <1>1, <1>2, <1>4, <1>5, <1>9, <1>13, <1>14, <1>15, ReaderMoves

LEMMA SendChunkKeeps ==
  ASSUME Types, stage = "read", ReadInv, NEW q \in Procs, SendChunk(q)
  PROVE  Types' /\ ReadInv' /\ WriteInv'
PROOF
  <1>1. pc[q] = "rsend"  BY DEF SendChunk
  <1>2. /\ ReaderOf(q) = q /\ pc[q] \in ReadPcs /\ TurnOf(q) \in Procs /\ TurnOf(q) # q /\ ReaderOf(TurnOf(q)) = q
        /\ Turn(q) = TurnOf(q) /\ sec[q] \in Sections /\ Shared(sec[q])
        /\ \A r \in Procs : r = TurnOf(q) => Exchange(q, r, sec[q])
    BY <1>1, ExchangeFacts
  <1>3. Headed /\ Going /\ k[q] \in Nat /\ ClusterOf(q) \in Nat \ {0} /\ q \in Int  BY <1>2, ReadingFacts
  <1>4. PICK r \in Procs : r = TurnOf(q)  BY <1>2
  <1>5. PICK m : m = Chunk(File(q), sec[q], k[q])  OBVIOUS
  <1>6. /\ Send(q, r, m) /\ Go(q, "read") /\ k' = [k EXCEPT ![q] = @ + 1]
        /\ UNCHANGED <<set, stage, pass, sec, posted, base, files>>
    BY <1>2, <1>4, <1>5 DEF SendChunk
  <1>7. Labelled' /\ pc'[q] = "read" /\ \A x \in Procs \ {q} : pc'[x] = pc[x]  BY <1>6, GoFacts
  <1>8. k' \in [Procs -> Nat] /\ k'[q] = k[q] + 1 /\ \A x \in Procs \ {q} : k'[x] = k[x]
    BY <1>3, <1>6 DEF Types
  <1>9. /\ pc[r] = "wait" /\ posted[r] = q /\ k[r] = k[q] /\ chan[q][r] = <<>> /\ chan[r][q] = <<>>
        /\ sec[r] = sec[q]
    BY <1>1, <1>2, <1>4 DEF Exchange, Still
  <1>10. Procs' = Procs /\ Chans /\ Append(chan[q][r], m) = <<m>>  BY <1>6, <1>9, ShortSequences DEF Types, Procs, N
  <1>11. Chans' /\ chan'[q][r] = <<m>> /\ \A x, y \in Procs : x # q \/ y # r => chan'[x][y] = chan[x][y]
    <2>1. /\ Chans' /\ chan'[q][r] = Append(chan[q][r], m)
          /\ \A x, y \in Procs : x # q \/ y # r => chan'[x][y] = chan[x][y]
      BY <1>6, <1>10, SendFacts
    <2>2. chan'[q][r] = <<m>>  BY <1>10, <2>1
    <2> QED  BY <2>1, <2>2
  <1>12. Types'  BY <1>6, <1>7, <1>8, <1>11, TypesKept DEF Types
  <1>13. /\ \A x : ClusterOf(x)' = ClusterOf(x) /\ ReaderOf(x)' = ReaderOf(x) /\ ChunksOf(x)' = ChunksOf(x)
         /\ \A t : Shared(t)' <=> Shared(t)
    BY <1>6, ClustersKept
  <1>14. /\ r = q + (k[q] % ClusterOf(q)) /\ r \in Int /\ ClusterOf(r) = ClusterOf(q) /\ k[q] % ClusterOf(q) \in Int
    BY <1>2, <1>4, TurnFacts
  <1>15. ReadPair(q, r)'
    <2>1. PICK s \in Sections : s = sec[q]  BY <1>2
    <2>2. PICK c \in Nat \ {0}, u \in Nat : c = ClusterOf(q) /\ u = k[q]  BY <1>3
    <2>3. pc'[r] = pc[r] /\ k'[r] = k[r] /\ chan'[r][q] = chan[r][q]  BY <1>2, <1>4, <1>7, <1>8, <1>11
    <2>4. Ahead(q, r, k[r] + ClusterOf(r))'
      <3>1. (u + c) % c = u % c  BY ModFacts
      <3>2. (u + c) % c = r - q  BY <1>3, <1>14, <2>2, <3>1
      <3>3. u + 1 <= u + c /\ u + c < u + 1 + c  OBVIOUS
      <3>4. Ahead(q, r, k[r] + ClusterOf(r))' <=> (u + c) % c = r - q /\ u + 1 <= u + c /\ u + c < u + 1 + c
        BY <1>8, <1>9, <1>13, <1>14, <2>2, <2>3 DEF Ahead
      <3> QED  BY <3>2, <3>3, <3>4
    <2>5. Resting(q, r, s)'  BY <1>6, <1>7, <1>9, <1>11, <2>1, <2>3, <2>4 DEF Resting
    <2> QED  BY <1>2, <1>13, <2>1, <2>5 DEF ReadPair
  <1>16. \A p \in Procs : ReaderOf(p) = q /\ p # q => ReadPair(q, p)'
    <2>1. \A p \in Procs : ReaderOf(p) = q /\ p # q /\ p # TurnOf(q) => ReadPair(q, p)'
      BY <1>1, <1>4, <1>6, <1>7, <1>8, <1>11, OthersRest
    <2> QED  BY <1>4, <1>15, <2>1
  <1>17. ReadPart(q)'  BY <1>2, <1>7, <1>13 DEF ReadPart
  <1>18. \A x, y \in Procs \ {q} : chan'[x][y] = chan[x][y]  BY <1>11
  <1> QED  BY <1>1, <1>2, <1>3, <1>6, <1>7, <1>8, <1>12, <1>16, <1>17, <1>18, ReaderMoves

LEMMA EndFileKeeps ==
  ASSUME Types, stage = "read", ReadInv, NEW q \in Procs, EndFile(q)
  PROVE  Types' /\ ReadInv' /\ WriteInv'
PROOF
  <1>1. pc[q] = "read" /\ Shared(sec[q]) /\ ReaderOf(q) = q /\ pc[q] \in ReadPcs
    BY ReadsForFacts DEF EndFile
  <1>2. Headed /\ Going  BY <1>1, ReadingFacts
  <1>3. NextReadSection(q) /\ UNCHANGED <<set, stage, k, pass, chan, posted, base, files>>
    BY DEF EndFile
  <1>4. /\ Labelled' /\ sec' \in [Procs -> Sections]
        /\ \A x \in Procs \ {q} : pc'[x] = pc[x] /\ sec'[x] = sec[x]
        /\ \A s : s = sec[q] => Left(q, s)'
        /\ pc'[q] \in {"enter", "counted"} /\ (pc'[q] = "enter" => sec'[q] = "surf")
    BY <1>3, NextReadSectionFacts
  <1>5. Chans'  BY <1>3 DEF Types, Chans, Procs, N
  <1>6. Types'  BY <1>3, <1>4, <1>5, TypesKept DEF Types
  <1>7. /\ \A x : ClusterOf(x)' = ClusterOf(x) /\ ReaderOf(x)' = ReaderOf(x) /\ ChunksOf(x)' = ChunksOf(x)
        /\ \A t : Shared(t)' <=> Shared(t)
    BY <1>3, ClustersKept
  <1>8. ASSUME NEW p \in Procs, ReaderOf(p) = q, p # q PROVE ReadPair(q, p)'
    <2>1. sec[q] \in Sections /\ Resting(q, p, sec[q])  BY <1>1, <1>8, PairOfReader
    <2>2. PICK s \in Sections : s = sec[q]  BY <2>1
    <2>3. pc'[p] = pc[p] /\ sec'[p] = sec[p] /\ Left(q, s)'  BY <1>4, <1>8, <2>2
    <2>4. Left(p, s) => Left(p, s)'  BY <1>3, <2>3 DEF Left
    <2>5. Ahead(q, p, k[p]) => Ahead(q, p, k[p])'  BY <1>3, <1>7 DEF Ahead
    <2>6. Ahead(q, p, k[p] + ClusterOf(p)) => Ahead(q, p, k[p] + ClusterOf(p))'  BY <1>3, <1>7 DEF Ahead
    <2>7. Resting(q, p, s)'  BY <1>3, <1>7, <2>1, <2>2, <2>3, <2>4, <2>5, <2>6 DEF Resting
    <2> QED  BY <1>1, <1>7, <2>2, <2>7 DEF ReadPair
  <1>9. ReadPart(q)'  BY <1>1, <1>4, <1>7 DEF ReadPart
  <1> QED  BY <1>1, <1>2, <1>3, <1>4, <1>6, <1>8, <1>9, ReaderMoves

LEMMA ReadOwnKeeps ==
  ASSUME Types, stage = "read", ReadInv, NEW p \in Procs, ReadOwn(p)
  PROVE  Types' /\ ReadInv' /\ WriteInv'
PROOF
  <1>1. pc[p] = "read" /\ ~Shared(sec[p]) /\ pc[p] \in ReadPcs  BY DEF ReadOwn, Shared, ReadPcs
  <1>2. Headed /\ Going /\ ReadPart(p) /\ k[p] \in Nat /\ set \in Settings  BY <1>1, ReadingFacts
  <1>3. set.r \in Int  BY <1>2, SettingFacts
  <1>4. UNCHANGED <<set, stage, chan, posted, base, files>>  BY DEF ReadOwn
  <1>5. /\ Labelled' /\ sec' \in [Procs -> Sections] /\ k' \in [Procs -> Nat] /\ pass' \in [Procs -> Int]
        /\ \A x \in Procs \ {p} : pc'[x] = pc[x] /\ sec'[x] = sec[x] /\ k'[x] = k[x]
        /\ Aside(p)' /\ pc'[p] \in {"read", "enter", "counted"} /\ (pc'[p] = "enter" => sec'[p] = "surf")
    <2>1. CASE pass[p] < base.multiproc
      <3>1. pc' = pc /\ sec' = sec  BY <2>1 DEF ReadOwn
      <3>2. \/ k' = [k EXCEPT ![p] = @ + 1] /\ pass' = pass
            \/ k' = [k EXCEPT ![p] = 0] /\ pass' = [pass EXCEPT ![p] = @ + set.r]
        BY <2>1 DEF ReadOwn
      <3>3. k' \in [Procs -> Nat] /\ \A x \in Procs \ {p} : k'[x] = k[x]  BY <1>2, <3>2 DEF Types
      <3>4. pass' \in [Procs -> Int]  BY <1>3, <3>2 DEF Types
      <3>5. Shared(sec[p])' <=> Shared(sec[p])  BY <1>4, <3>1 DEF Shared, Method
      <3>6. Aside(p)'  BY <1>1, <3>1, <3>5 DEF Aside
      <3>7. Labelled'  BY <1>4, <3>1 DEF Types, Labelled, Procs, N
      <3> QED  BY <1>1, <3>1, <3>3, <3>4, <3>6, <3>7 DEF Types
    <2>2. CASE ~(pass[p] < base.multiproc)
      <3>1. NextReadSection(p) /\ k' = k /\ pass' = pass  BY <2>2 DEF ReadOwn
      <3>2. /\ Labelled' /\ sec' \in [Procs -> Sections]
            /\ \A x \in Procs \ {p} : pc'[x] = pc[x] /\ sec'[x] = sec[x]
            /\ pc'[p] \in {"enter", "counted"} /\ (pc'[p] = "enter" => sec'[p] = "surf")
        BY <1>4, <3>1, NextReadSectionFacts
      <3>3. Aside(p)'  BY <3>2 DEF Aside
      <3> QED  BY <3>1, <3>2, <3>3 DEF Types
    <2> QED  BY <2>1, <2>2
  <1>6. Chans'  BY <1>4 DEF Types, Chans, Procs, N
  <1>7. Types'  BY <1>4, <1>5, <1>6, TypesKept DEF Types
  <1>8. \A x : ReaderOf(x)' = ReaderOf(x)  BY <1>4, ClustersKept
  <1>9. ASSUME NEW x \in Procs, ReaderOf(x) # x, x = p \/ ReaderOf(x) = p PROVE ReadPair(ReaderOf(x), x)'
    <2>1. PICK q : q = ReaderOf(x)  OBVIOUS
    <2>2. ReadPair(q, x) /\ (x = p \/ q = p)  BY <1>2, <1>9, <2>1 DEF Going, ReadPairs
    <2>3. Loose(q, x)
      <3>1. ASSUME NEW s, Shared(s) PROVE ~Resting(q, x, s) /\ ~Exchange(q, x, s)
        BY <1>1, <2>2, <3>1 DEF Resting, Exchange, Left
      <3> QED  BY <2>2, <3>1 DEF ReadPair
    <2>4. \A y : y \in Procs /\ Aside(y) => Aside(y)'
      <3> SUFFICES ASSUME NEW y \in Procs, y # p, Aside(y) PROVE Aside(y)'
        BY <1>5
      <3>1. pc'[y] = pc[y] /\ sec'[y] = sec[y]  BY <1>5
      <3>2. Shared(sec[y])' <=> Shared(sec[y])  BY <1>4, <3>1 DEF Shared, Method
      <3> QED  BY <3>1, <3>2 DEF Aside
    <2>5. q \in Procs
      <3>1. x \in 0 .. set.r - 1 /\ base = Header /\ ~set.less /\ set.r \in Nat /\ Procs = 0 .. set.r - 1
        BY <1>2, SettingFacts, ProcsFacts DEF Headed, Going
      <3>2. ReaderOf(x) \in 0 .. x  BY <1>2, <3>1, ReaderFacts
      <3> QED  BY <2>1, <3>1, <3>2
    <2>6. Loose(q, x)'  BY <1>4, <2>3, <2>4, <2>5 DEF Loose, Still
    <2>7. q = ReaderOf(x)'  BY <1>8, <2>1
    <2>8. ReadPair(q, x)'  BY <2>6 DEF ReadPair
    <2> QED  BY <2>7, <2>8
  <1>10. ReadPart(p)'  BY <1>5, <1>8 DEF ReadPart
  <1> QED  BY <1>1, <1>2, <1>4, <1>5, <1>7, <1>9, <1>10, ReadMoves

-----------------------------------------------------------------------------
(* The steps that all processes take together.                             *)

LEMMA StartReadingKeeps ==
  ASSUME Types, WriteInv, StartReading
  PROVE  Types' /\ ReadInv' /\ WriteInv'
PROOF
  <1>1. stage = "write" /\ At("written") /\ stage' = "read" /\ UNCHANGED <<set, base, files>>
    BY DEF StartReading
  <1>2. set \in Settings /\ set.r \in Nat \ {0}  BY SettingFacts DEF Types
  <1>3. Procs' = 0 .. set.r - 1 /\ 0 \in Procs  BY <1>1, <1>2, ProcsFacts DEF Procs, N
  <1>4. Headed
    <2>1. pc[0] # "open"  BY <1>1, <1>3 DEF At
    <2> QED  BY <1>1, <1>3, <2>1 DEF WriteInv, Opened, At
  <1>5. Headed'  BY <1>1, <1>4, ClustersKept
  <1> DEFINE R == 0 .. set.r - 1
  <1>6. /\ pc' = [p \in R |-> "header"] /\ k' = [p \in R |-> 0] /\ pass' = [p \in R |-> 0]
        /\ sec' = [p \in R |-> "grid"] /\ chan' = [p \in R |-> [q \in R |-> <<>>]]
        /\ posted' = [p \in R |-> None]
    BY DEF StartReading, Each
  <1>7. Procs' = R /\ set' = set  BY <1>1, <1>3
  <1> HIDE DEF R
  <1>8. Types'
    <2>1. k' \in [R -> Nat] /\ pass' \in [R -> Int]  BY <1>6
    <2>2. posted' \in [R -> Int]  BY <1>6 DEF None
    <2>3. sec' \in [R -> Sections]  BY <1>6 DEF Sections
    <2>4. Labelled'
      <3>1. pc' = [p \in R |-> pc'[p]]  BY <1>6
      <3> QED  BY <1>7, <3>1 DEF Labelled
    <2>5. Chans'
      <3>1. chan' = [p \in R |-> [q \in R |-> chan'[p][q]]]  BY <1>6
      <3> QED  BY <1>7, <3>1 DEF Chans
    <2> QED  BY <1>1, <1>2, <1>7, <2>1, <2>2, <2>3, <2>4, <2>5 DEF Types
  <1>9. At("header")' /\ (\A p \in R : sec'[p] = "grid") /\ \A p, q \in R : chan'[p][q] = <<>> /\ posted'[p] = None
    BY <1>6, <1>7 DEF At
  <1> QED  BY <1>1, <1>5, <1>7, <1>8, <1>9 DEF ReadInv, WriteInv, None

\* What is the same for every process of a reading run.
LEMMA ReadingRun ==
  ASSUME Types, stage = "read", ReadInv, UNCHANGED <<set, stage, base, files>>
  PROVE  /\ set \in Settings /\ set.r \in Nat \ {0} /\ Procs = 0 .. set.r - 1 /\ Procs' = Procs /\ 0 \in Procs
         /\ Headed /\ Headed' /\ base = Header
         /\ \A x : ReaderOf(x)' = ReaderOf(x) /\ ClusterOf(x)' = ClusterOf(x)
         /\ \A s : Shared(s)' <=> Shared(s)
         /\ WriteInv'
PROOF
  <1>1. set \in Settings  BY DEF Types
  <1>2. Headed  BY DEF ReadInv
  <1>3. /\ Headed' /\ \A x : ReaderOf(x)' = ReaderOf(x) /\ ClusterOf(x)' = ClusterOf(x)
        /\ \A s : Shared(s)' <=> Shared(s)
    BY <1>2, ClustersKept
  <1>4. Procs' = Procs  BY DEF Procs, N
  <1> QED  BY <1>1, <1>2, <1>3, <1>4, SettingFacts, ProcsFacts DEF Headed, WriteInv

LEMMA ReadHeaderKeeps ==
  ASSUME Types, ReadInv, ReadHeader
  PROVE  Types' /\ ReadInv' /\ WriteInv'
PROOF
  <1>1. /\ stage = "read" /\ At("header")
        /\ UNCHANGED <<set, stage, k, pass, sec, chan, posted, base, files>>
        /\ pc' = [p \in 0 .. set.r - 1 |-> IF base.multiproc = Missing THEN "refused" ELSE "enter"]
    BY DEF ReadHeader, Each
  <1>2. /\ set \in Settings /\ Procs = 0 .. set.r - 1 /\ Procs' = Procs /\ 0 \in Procs
        /\ Headed /\ Headed' /\ base = Header /\ WriteInv' /\ \A x : ReaderOf(x)' = ReaderOf(x)
    BY <1>1, ReadingRun
  <1>3. Labelled'
    <2>1. pc' = [p \in 0 .. set.r - 1 |-> pc'[p]]  BY <1>1
    <2> QED  BY <1>2, <2>1 DEF Labelled
  <1>4. Chans'  BY <1>1, <1>2 DEF Types, Chans
  <1>5. Types'  BY <1>1, <1>3, <1>4, TypesKept DEF Types
  <1>6. (\A p \in Procs : sec[p] = "grid") /\ \A p, q \in Procs : chan[p][q] = <<>> /\ posted[p] = None
    <2>1. pc[0] = "header"  BY <1>1, <1>2 DEF At
    <2>2. ~At("refused") /\ ~At("ready")  BY <1>2, <2>1 DEF At
    <2>3. ~Going  BY <1>2, <2>1 DEF Going, ReadParts, ReadPart
    <2> QED  BY <1>1, <2>2, <2>3 DEF ReadInv
  <1>7. CASE base.multiproc = Missing
    <2>1. At("refused")'  BY <1>1, <1>2, <1>7 DEF At
    <2> QED  BY <1>1, <1>2, <1>5, <2>1 DEF ReadInv
  <1>8. CASE base.multiproc # Missing
    <2>1. \A p \in Procs : pc'[p] = "enter"  BY <1>1, <1>2, <1>8
    <2>2. ~set.less  BY <1>2, <1>8 DEF Header
    <2>3. \A p \in Procs : ReaderOf(p) \in Procs
      <3> TAKE p \in Procs
      <3>1. p \in 0 .. set.r - 1 /\ set.r \in Nat  BY <1>2, SettingFacts
      <3>2. ReaderOf(p) \in 0 .. p  BY <1>2, <2>2, <3>1, ReaderFacts
      <3> QED  BY <1>2, <3>1, <3>2
    <2>4. ReadPairs'
      <3> SUFFICES ASSUME NEW p \in Procs PROVE ReadPair(ReaderOf(p), p)'
        BY <1>2 DEF ReadPairs
      <3>1. PICK q \in Procs : q = ReaderOf(p)  BY <2>3
      <3>2. Loose(q, p)'  BY <1>1, <1>6, <2>1 DEF Loose, Aside, Still, None
      <3>3. q = ReaderOf(p)'  BY <1>2, <3>1
      <3> QED  BY <3>2, <3>3 DEF ReadPair
    <2>5. ReadParts'  BY <1>2, <2>1 DEF ReadParts, ReadPart
    <2>6. Entering'  BY <1>1, <1>2, <1>6, <2>1 DEF Entering, At
    <2> QED  BY <1>1, <1>2, <1>5, <2>2, <2>4, <2>5, <2>6 DEF ReadInv, Going
  <1> QED  BY <1>7, <1>8

LEMMA EnterKeeps ==
  ASSUME Types, ReadInv, Enter
  PROVE  Types' /\ ReadInv' /\ WriteInv'
PROOF
  <1>1. /\ stage = "read" /\ At("enter")
        /\ UNCHANGED <<set, stage, sec, chan, posted, base, files>>
        /\ pc' = [p \in Procs |-> IF Shared(sec[p]) /\ Reader(p) # p THEN "size" ELSE "read"]
        /\ k' = [p \in Procs |-> IF Shared(sec[p]) THEN p - Reader(p) ELSE 0]
        /\ pass' = [p \in Procs |-> p]
    BY DEF Enter, Shared
  <1>2. /\ set \in Settings /\ Procs = 0 .. set.r - 1 /\ Procs' = Procs /\ 0 \in Procs /\ set.r \in Nat
        /\ Headed /\ Headed' /\ base = Header /\ WriteInv'
        /\ \A x : ReaderOf(x)' = ReaderOf(x) /\ ClusterOf(x)' = ClusterOf(x)
        /\ \A s : Shared(s)' <=> Shared(s)
    BY <1>1, ReadingRun
  <1>3. \A p \in Procs : pc[p] = "enter" /\ pc[p] \in ReadPcs  BY <1>1 DEF At, ReadPcs
  <1>4. Going /\ ~set.less  BY <1>1, <1>2, <1>3, ReadingFacts
  <1>5. PICK s \in Sections : \A p \in Procs : sec[p] = s
    <2>1. (\A p \in Procs : sec[p] = "grid") \/ (\A p \in Procs : sec[p] = "surf")
      BY <1>3, <1>4 DEF Going, Entering
    <2> QED  BY <2>1 DEF Sections
  <1>6. ASSUME NEW p \in Procs
        PROVE  /\ Reader(p) = ReaderOf(p) /\ ReaderOf(p) \in Procs /\ ReaderOf(ReaderOf(p)) = ReaderOf(p)
               /\ p \in Int /\ ReaderOf(p) \in Int /\ ClusterOf(p) \in Nat \ {0}
               /\ p - ReaderOf(p) \in 0 .. ClusterOf(p) - 1 /\ p - ReaderOf(p) \in Nat
    <2>1. /\ Reader(p) = ReaderOf(p) /\ ReaderOf(p) \in Procs /\ ReaderOf(ReaderOf(p)) = ReaderOf(p)
          /\ p \in Int /\ ReaderOf(p) \in Int /\ ClusterOf(p) \in Nat \ {0}
          /\ p - ReaderOf(p) \in 0 .. ClusterOf(p) - 1
      BY <1>1, <1>3, ReadingFacts
    <2> QED  BY <2>1
  <1>7. Types'
    <2>1. k' \in [Procs -> Nat]
      <3>1. \A p \in Procs : (IF Shared(sec[p]) THEN p - Reader(p) ELSE 0) \in Nat  BY <1>6
      <3> QED  BY <1>1, <3>1
    <2>2. pass' \in [Procs -> Int]  BY <1>1, <1>6
    <2>3. Labelled'  BY <1>1, <1>2 DEF Labelled
    <2>4. Chans'  BY <1>1, <1>2 DEF Types, Chans
    <2> QED  BY <1>1, <2>1, <2>2, <2>3, <2>4, TypesKept DEF Types
  <1>8. \A p \in Procs : pc'[p] = IF Shared(s) /\ ReaderOf(p) # p THEN "size" ELSE "read"
    BY <1>1, <1>5, <1>6
  <1>9. \A p \in Procs : k'[p] = IF Shared(s) THEN p - ReaderOf(p) ELSE 0
    BY <1>1, <1>5, <1>6
  <1>10. ReadPairs'
    <2> SUFFICES ASSUME NEW p \in Procs, ReaderOf(p) # p PROVE ReadPair(ReaderOf(p), p)'
      BY <1>2 DEF ReadPairs
    <2>1. PICK q \in Procs : q = ReaderOf(p) /\ q \in Int  BY <1>6
    <2>2. ReaderOf(q) = q  BY <1>6, <2>1
    <2>3. posted[p] = None /\ Still(p, q)
      <3>1. ReadPair(q, p)  BY <1>4, <2>1 DEF Going, ReadPairs
      <3>2. \A t : ~Exchange(q, p, t)  BY <1>3 DEF Exchange
      <3>3. \A t : Resting(q, p, t) => posted[p] = None /\ Still(p, q)  BY <1>3 DEF Resting, Still
      <3> QED  BY <3>1, <3>2, <3>3 DEF ReadPair, Loose
    <2>4. /\ posted'[p] = None /\ chan'[p][q] = <<>> /\ chan'[q][p] = <<>> /\ sec'[p] = s /\ sec'[q] = s
          /\ pc'[q] = "read" /\ (Shared(s)' <=> Shared(s))
      BY <1>1, <1>2, <1>5, <1>8, <2>2, <2>3 DEF Still, None
    <2>5. CASE Shared(s)
      <3>1. pc'[p] = "size" /\ k'[p] = p - q /\ k'[q] = 0
        <4>1. pc'[p] = "size" /\ k'[p] = p - q  BY <1>8, <1>9, <2>1, <2>5
        <4>2. k'[q] = q - q  BY <1>9, <2>2, <2>5
        <4> QED  BY <2>1, <4>1, <4>2
      <3>2. PICK c \in Nat \ {0}, d \in Nat : c = ClusterOf(p) /\ d = p - q /\ d \in 0 .. c - 1  BY <1>6, <2>1
      <3>3. d % c = d /\ 0 <= d /\ d < 0 + c
        <4>1. d < c  BY <3>2
        <4>2. d % c = d  BY <4>1, ModFacts
        <4> QED  BY <4>1, <4>2
      <3>4. Ahead(q, p, k[p])'
        <4>1. k'[p] = d /\ k'[q] = 0 /\ ClusterOf(p)' = c  BY <1>2, <3>1, <3>2
        <4> QED  BY <3>2, <3>3, <4>1 DEF Ahead
      <3>5. Resting(q, p, s)'  BY <2>4, <3>1, <3>4 DEF Resting, None
      <3>6. ReadPair(q, p)'  BY <2>4, <2>5, <3>5 DEF ReadPair
      <3>7. q = ReaderOf(p)'  BY <1>2, <2>1
      <3> QED  BY <3>6, <3>7
    <2>6. CASE ~Shared(s)
      <3>1. pc'[p] = "read"  BY <1>8, <2>6
      <3>2. Loose(q, p)'  BY <2>4, <2>6, <3>1 DEF Loose, Aside, Still, None
      <3>3. q = ReaderOf(p)'  BY <1>2, <2>1
      <3> QED  BY <3>2, <3>3 DEF ReadPair
    <2> QED  BY <2>5, <2>6
  <1>11. ReadParts'  BY <1>2, <1>8 DEF ReadParts, ReadPart
  <1>12. Entering'
    <2>1. \A p \in Procs : pc'[p] # "enter"  BY <1>8
    <2> QED  BY <1>2, <2>1 DEF Entering
  <1> QED  BY <1>1, <1>2, <1>4, <1>7, <1>10, <1>11, <1>12 DEF ReadInv, Going

LEMMA ReadBroadcastKeeps ==
  ASSUME Types, ReadInv, ReadBroadcast
  PROVE  Types' /\ ReadInv' /\ WriteInv'
PROOF
  <1>1. /\ stage = "read" /\ At("read")
        /\ UNCHANGED <<set, stage, pass, chan, posted, base, files>>
    BY DEF ReadBroadcast
  <1>2. /\ set \in Settings /\ Procs = 0 .. set.r - 1 /\ Procs' = Procs /\ 0 \in Procs /\ set.r \in Nat
        /\ Headed /\ Headed' /\ base = Header /\ WriteInv'
        /\ \A x : ReaderOf(x)' = ReaderOf(x)
        /\ \A s : Shared(s)' <=> Shared(s)
    BY <1>1, ReadingRun
  <1>3. \A p \in Procs : pc[p] = "read" /\ pc[p] \in ReadPcs  BY <1>1 DEF At, ReadPcs
  <1>4. Going /\ ~set.less  BY <1>1, <1>2, <1>3, ReadingFacts
  <1>5. /\ Labelled' /\ sec' \in [Procs -> Sections] /\ k' \in [Procs -> Nat]
        /\ \A p \in Procs : \/ pc'[p] = "read" /\ sec'[p] = sec[p]
                            \/ pc'[p] = "enter" /\ sec'[p] = "surf"
                            \/ pc'[p] = "counted"
    <2>1. CASE k[0] < base.w
      <3>1. k' = [p \in Procs |-> k[p] + 1] /\ pc' = pc /\ sec' = sec  BY <2>1 DEF ReadBroadcast
      <3>2. k' \in [Procs -> Nat]  BY <3>1 DEF Types
      <3>3. Labelled'  BY <1>2, <3>1 DEF Types, Labelled
      <3> QED  BY <1>3, <3>1, <3>2, <3>3 DEF Types
    <2>2. CASE ~(k[0] < base.w)
      <3>1. /\ pc' = [p \in Procs |-> IF base.surfs /\ sec[0] = "grid" THEN "enter" ELSE "counted"]
            /\ sec' = [p \in Procs |-> IF base.surfs THEN "surf" ELSE "grid"] /\ k' = k
        BY <1>2, <2>2 DEF ReadBroadcast, Each
      <3>2. sec' \in [Procs -> Sections]  BY <3>1 DEF Sections
      <3>3. Labelled'
        <4>1. pc' = [p \in Procs |-> pc'[p]]  BY <3>1
        <4> QED  BY <1>2, <4>1 DEF Labelled
      <3> QED  BY <3>1, <3>2, <3>3 DEF Types
    <2> QED  BY <2>1, <2>2
  <1>6. Chans'  BY <1>1, <1>2 DEF Types, Chans
  <1>7. Types'  BY <1>1, <1>5, <1>6, TypesKept DEF Types
  <1>8. ReadPairs'
    <2> SUFFICES ASSUME NEW p \in Procs, ReaderOf(p) # p PROVE ReadPair(ReaderOf(p), p)'
      BY <1>2 DEF ReadPairs
    <2>1. PICK q \in Procs : q = ReaderOf(p)  BY <1>1, <1>3, ReadingFacts
    <2>2. Loose(q, p)
      <3>1. ReadPair(q, p)  BY <1>4, <2>1 DEF Going, ReadPairs
      <3>2. \A t : ~Exchange(q, p, t) /\ ~Resting(q, p, t)  BY <1>3 DEF Exchange, Resting, Left
      <3> QED  BY <3>1, <3>2 DEF ReadPair
    <2>3. Aside(q)' /\ Aside(p)'
      <3>1. \A x \in Procs : Aside(x) => Aside(x)'  BY <1>2, <1>3, <1>5 DEF Aside
      <3> QED  BY <2>2, <3>1 DEF Loose
    <2>4. Loose(q, p)'  BY <1>1, <2>2, <2>3 DEF Loose, Still, None
    <2>5. q = ReaderOf(p)'  BY <1>2, <2>1
    <2> QED  BY <2>4, <2>5 DEF ReadPair
  <1>9. ReadParts'  BY <1>2, <1>5 DEF ReadParts, ReadPart
  <1>10. Entering'  BY <1>2, <1>5 DEF Entering
  <1> QED  BY <1>1, <1>2, <1>4, <1>7, <1>8, <1>9, <1>10 DEF ReadInv, Going

LEMMA FinishKeeps ==
  ASSUME Types, ReadInv, Finish
  PROVE  Types' /\ ReadInv' /\ WriteInv'
PROOF
  <1>1. /\ stage = "read" /\ UNCHANGED <<set, stage, k, pass, sec, chan, posted, base, files>>
        /\ pc' = [p \in 0 .. set.r - 1 |-> IF SumOK THEN "ready" ELSE "refused"]
    BY DEF Finish, Each
  <1>2. Procs = 0 .. set.r - 1 /\ Procs' = Procs /\ Headed' /\ WriteInv'  BY <1>1, ReadingRun
  <1>3. Labelled'
    <2>1. pc' = [p \in 0 .. set.r - 1 |-> pc'[p]]  BY <1>1
    <2> QED  BY <1>2, <2>1 DEF Labelled
  <1>4. Chans'  BY <1>1, <1>2 DEF Types, Chans
  <1>5. Types'  BY <1>1, <1>3, <1>4, TypesKept DEF Types
  <1>6. At("ready")' \/ At("refused")'  BY <1>1, <1>2 DEF At
  <1> QED  BY <1>1, <1>2, <1>5, <1>6 DEF ReadInv

-----------------------------------------------------------------------------
(* Where a process can be in each run.                                     *)
LEMMA WritePcs ==
  ASSUME Types, stage = "write", WriteInv, NEW p \in Procs
  PROVE  pc[p] \in {"open", "buffer", "announce", "ping", "rsend", "written"} \union Serving
PROOF
  <1>1. WritePart(p)  BY DEF WriteInv, WriteParts
  <1> QED  BY <1>1 DEF WritePart

LEMMA ReadStagePcs ==
  ASSUME Types, stage = "read", ReadInv, NEW p \in Procs
  PROVE  pc[p] \in {"header", "refused", "ready"} \union ReadPcs
PROOF
  <1>1. CASE ~Going
    BY <1>1 DEF ReadInv, At
  <1>2. CASE Going
    <2>1. ReadPart(p)  BY <1>2 DEF Going, ReadParts
    <2> QED  BY <2>1 DEF ReadPart, ReadPcs
  <1> QED  BY <1>1, <1>2

(* A step of one process while the files are written.                      *)
LEMMA WriteStep ==
  ASSUME Types, stage = "write", WriteInv, NEW p \in Procs,
         \/ WriteOwn(p) \/ WriteNext(p) \/ HearPasses(p) \/ PostReceive(p) \/ SendPing(p)
         \/ WritePiece(p) \/ EndSection(p) \/ Announce(p) \/ HearPing(p) \/ SendPiece(p)
         \/ ReadOwn(p) \/ ReadMine(p) \/ SendSize(p) \/ SendChunk(p) \/ EndFile(p)
         \/ HearSize(p) \/ TakeChunk(p) \/ EndTurns(p)
  PROVE  Types' /\ WriteInv' /\ stage' = "write"
PROOF
  <1>1. ~(ReadOwn(p) \/ ReadMine(p) \/ SendSize(p) \/ SendChunk(p) \/ EndFile(p) \/ TakeChunk(p))
    BY DEF ReadOwn, ReadMine, SendSize, SendChunk, EndFile, TakeChunk, ReadsFor
  <1>2. ~(HearSize(p) \/ EndTurns(p))
    <2>1. pc[p] # "size"  BY WritePcs DEF Serving
    <2> QED  BY <2>1 DEF HearSize, EndTurns
  <1>3. CASE WriteOwn(p)  BY <1>3, WriteOwnKeeps DEF WriteOwn
  <1>4. CASE WriteNext(p)  BY <1>4, WriteNextKeeps DEF WriteNext
  <1>5. CASE HearPasses(p)  BY <1>5, HearPassesKeeps DEF HearPasses
  <1>6. CASE PostReceive(p)  BY <1>6, WritePostKeeps DEF PostReceive
  <1>7. CASE SendPing(p)  BY <1>7, WritePingKeeps DEF SendPing
  <1>8. CASE WritePiece(p)  BY <1>8, WritePieceKeeps DEF WritePiece
  <1>9. CASE EndSection(p)  BY <1>9, EndSectionKeeps DEF EndSection
  <1>10. CASE Announce(p)  BY <1>10, AnnounceKeeps DEF Announce
  <1>11. CASE HearPing(p)  BY <1>11, WriteHearPingKeeps DEF HearPing
  <1>12. CASE SendPiece(p)  BY <1>12, SendPieceKeeps DEF SendPiece
  <1> QED  BY <1>1, <1>2, <1>3, <1>4, <1>5, <1>6, <1>7, <1>8, <1>9, <1>10, <1>11, <1>12

(* The same while they are read.                                           *)
LEMMA ReadStep ==
  ASSUME Types, stage = "read", ReadInv, NEW p \in Procs,
         \/ WriteOwn(p) \/ WriteNext(p) \/ HearPasses(p) \/ PostReceive(p) \/ SendPing(p)
         \/ WritePiece(p) \/ EndSection(p) \/ Announce(p) \/ HearPing(p) \/ SendPiece(p)
         \/ ReadOwn(p) \/ ReadMine(p) \/ SendSize(p) \/ SendChunk(p) \/ EndFile(p)
         \/ HearSize(p) \/ TakeChunk(p) \/ EndTurns(p)
  PROVE  Types' /\ ReadInv' /\ WriteInv'
PROOF
  <1>1. pc[p] \notin {"write", "announced", "announce", "ping"}  BY ReadStagePcs DEF ReadPcs
  <1>2. ~(WriteOwn(p) \/ WriteNext(p) \/ HearPasses(p) \/ EndSection(p) \/ Announce(p))
    BY <1>1 DEF WriteOwn, WriteNext, HearPasses, EndSection, Announce
  <1>3. ~(WritePiece(p) \/ SendPiece(p))  BY DEF WritePiece, SendPiece
  <1>4. CASE PostReceive(p)  BY <1>4, ReadPostKeeps
  <1>5. CASE SendPing(p)  BY <1>5, ReadPingKeeps
  <1>6. CASE HearPing(p)
    <2>1. pc[p] = "await"  BY <1>1, <1>6 DEF HearPing
    <2> QED  BY <1>6, <2>1, ReadHearPingKeeps
  <1>7. CASE ReadOwn(p)  BY <1>7, ReadOwnKeeps
  <1>8. CASE ReadMine(p)  BY <1>8, ReadMineKeeps
  <1>9. CASE SendSize(p)  BY <1>9, SendSizeKeeps
  <1>10. CASE SendChunk(p)  BY <1>10, SendChunkKeeps
  <1>11. CASE EndFile(p)  BY <1>11, EndFileKeeps
  <1>12. CASE HearSize(p)  BY <1>12, HearSizeKeeps
  <1>13. CASE TakeChunk(p)  BY <1>13, TakeChunkKeeps
  <1>14. CASE EndTurns(p)  BY <1>14, EndTurnsKeeps
  <1> QED  BY <1>2, <1>3, <1>4, <1>5, <1>6, <1>7, <1>8, <1>9, <1>10, <1>11, <1>12, <1>13, <1>14

LEMMA HandshakeInit == Init => Types /\ HandshakeInv
PROOF
  BY WriteInit DEF HandshakeInv, ReadInv

LEMMA HandshakeStep == Types /\ HandshakeInv /\ [Next]_vars => Types' /\ HandshakeInv'
PROOF
  <1> SUFFICES ASSUME Types, WriteInv, ReadInv, [Next]_vars PROVE Types' /\ WriteInv' /\ ReadInv'
    BY DEF HandshakeInv
  <1>1. stage \in {"write", "read"} /\ ~("write" = "read")  BY DEF Types
  <1>2. CASE WriteHeader
    <2>1. stage' = "write"  BY <1>2 DEF WriteHeader
    <2> QED  BY <1>1, <1>2, <2>1, WriteHeaderKeeps DEF ReadInv
  <1>3. CASE Buffer
    <2>1. stage' = "write"  BY <1>3 DEF Buffer
    <2> QED  BY <1>1, <1>3, <2>1, BufferKeeps DEF ReadInv
  <1>4. CASE StartReading  BY <1>4, StartReadingKeeps
  <1>5. CASE ReadHeader  BY <1>5, ReadHeaderKeeps
  <1>6. CASE Enter  BY <1>6, EnterKeeps
  <1>7. CASE ReadBroadcast  BY <1>7, ReadBroadcastKeeps
  <1>8. CASE Finish  BY <1>8, FinishKeeps
  <1>9. ASSUME NEW p \in Procs,
               \/ WriteOwn(p) \/ WriteNext(p) \/ HearPasses(p) \/ PostReceive(p) \/ SendPing(p)
               \/ WritePiece(p) \/ EndSection(p) \/ Announce(p) \/ HearPing(p) \/ SendPiece(p)
               \/ ReadOwn(p) \/ ReadMine(p) \/ SendSize(p) \/ SendChunk(p) \/ EndFile(p)
               \/ HearSize(p) \/ TakeChunk(p) \/ EndTurns(p)
        PROVE  Types' /\ WriteInv' /\ ReadInv'
    <2>1. CASE stage = "write"
      <3>1. Types' /\ WriteInv' /\ stage' = "write"  BY <1>9, <2>1, WriteStep
      <3> QED  BY <3>1 DEF ReadInv
    <2>2. CASE stage = "read"  BY <1>9, <2>2, ReadStep
    <2> QED  BY <1>1, <2>1, <2>2
  <1>10. CASE UNCHANGED vars
    <2>1. /\ set' = set /\ stage' = stage /\ pc' = pc /\ k' = k /\ pass' = pass /\ sec' = sec /\ chan' = chan
          /\ posted' = posted /\ maxsize' = maxsize /\ base' = base /\ files' = files
      BY <1>10 DEF vars
    <2>2. Procs' = Procs  BY <2>1 DEF Procs, N
    <2>3. Types'  BY <2>1, <2>2 DEF Types, Labelled, Chans
    <2>4. WriteInv'
      <3> SUFFICES ASSUME stage = "write" PROVE WritePairs' /\ WriteParts' /\ Opened'
        BY <2>1 DEF WriteInv
      <3>1. \A p : Mine(p)' = Mine(p) /\ GroupSize(p)' = GroupSize(p) /\ \A s : SizeOf(p, s)' = SizeOf(p, s)
        BY <2>1 DEF Mine, GroupSize, Group, SizeOf
      <3>2. WritePairs'
        <4> SUFFICES ASSUME NEW p \in Procs, Mine(p) # p PROVE WritePair(Mine(p), p)'
          BY <2>2, <3>1 DEF WritePairs
        <4>1. PICK q : q = Mine(p)  OBVIOUS
        <4>2. WritePair(q, p)  BY <4>1 DEF WriteInv, WritePairs
        <4>3. WritePair(q, p)'  BY <2>1, <4>2, PairKept
        <4>4. q = Mine(p)'  BY <3>1, <4>1
        <4> QED  BY <4>3, <4>4
      <3>3. WriteParts'
        <4>1. WriteParts  BY DEF WriteInv
        <4> QED  BY <2>1, <2>2, <3>1, <4>1 DEF WriteParts, WritePart
      <3>4. Opened'
        <4>1. Opened  BY DEF WriteInv
        <4>2. Headed => Headed'  BY <2>1, ClustersKept
        <4> QED  BY <2>1, <2>2, <4>1, <4>2 DEF Opened, At
      <3> QED  BY <3>2, <3>3, <3>4
    <2>5. ReadInv'
      <3> SUFFICES ASSUME stage = "read"
                   PROVE  Headed' /\ (\/ (At("header") /\ (\A p \in Procs : sec[p] = "grid")
                                            /\ \A p, q \in Procs : chan[p][q] = <<>> /\ posted[p] = None)'
                                      \/ At("refused")' \/ At("ready")' \/ Going')
        BY <2>1 DEF ReadInv
      <3>1. Headed'  BY <2>1, ClustersKept DEF ReadInv
      <3>2. \A l : At(l) => At(l)'  BY <2>1, <2>2 DEF At
      <3>3. \A x : ReaderOf(x)' = ReaderOf(x) /\ ClusterOf(x)' = ClusterOf(x)  BY <2>1, ClustersKept
      <3>4. ASSUME Going PROVE Going'
        <4>1. ReadPairs'
          <5> SUFFICES ASSUME NEW p \in Procs, ReaderOf(p) # p PROVE ReadPair(ReaderOf(p), p)'
            BY <2>2, <3>3 DEF ReadPairs
          <5>1. PICK q : q = ReaderOf(p)  OBVIOUS
          <5>2. ReadPair(q, p)  BY <3>4, <5>1 DEF Going, ReadPairs
          <5>3. ReadPair(q, p)'  BY <2>1, <5>2, ReadPairKept
          <5>4. q = ReaderOf(p)'  BY <3>3, <5>1
          <5> QED  BY <5>3, <5>4
        <4>2. ReadParts'  BY <2>1, <2>2, <3>3, <3>4 DEF Going, ReadParts, ReadPart, TurnOf
        <4>3. Entering'  BY <2>1, <2>2, <3>2, <3>4 DEF Going, Entering
        <4> QED  BY <2>1, <3>4, <4>1, <4>2, <4>3 DEF Going
      <3> QED  BY <2>1, <2>2, <3>1, <3>2, <3>4 DEF ReadInv, None
    <2> QED  BY <2>3, <2>4, <2>5
  <1> QED  BY <1>2, <1>3, <1>4, <1>5, <1>6, <1>7, <1>8, <1>9, <1>10 DEF Next

LEMMA AnswerFromHandshake == Types /\ HandshakeInv => AnswerIsAwaited
PROOF
  <1> SUFFICES ASSUME Types, WriteInv, ReadInv, NEW p \in Procs, pc[p] = "rsend"
               PROVE  /\ posted[Partner(p)] = p /\ chan[p][Partner(p)] = <<>>
                      /\ stage = "write" => SizeOf(p, sec[p]) <= maxsize
    BY DEF HandshakeInv, AnswerIsAwaited
  <1>1. CASE stage = "write"
    <2>1. Mine(p) # p /\ WritePair(Mine(p), p) /\ WritePart(p) /\ Partner(p) = Mine(p)
      BY <1>1, OwnerFacts
    <2>2. PICK q : q = Mine(p)  OBVIOUS
    <2>3. Owing(q, p)
      <3>1. ~Level(q, p) /\ ~Before(q, p)  BY DEF Level, Before
      <3>2. ~Answered(q, p) /\ ~After(q, p)  BY DEF Answered, After, Gone
      <3> QED  BY <2>1, <2>2, <3>1, <3>2 DEF WritePair
    <2>4. posted[q] = p /\ chan[p][q] = <<>>  BY <2>3 DEF Owing
    <2>5. SizeOf(p, sec[p]) <= maxsize  BY <2>1 DEF WritePart
    <2> QED  BY <2>1, <2>2, <2>4, <2>5
  <1>2. CASE stage = "read"
    <2>1. /\ TurnOf(p) \in Procs /\ Partner(p) = TurnOf(p)
          /\ \A r \in Procs : r = TurnOf(p) => Exchange(p, r, sec[p])
      BY <1>2, ExchangeFacts
    <2>2. PICK r \in Procs : r = TurnOf(p)  BY <2>1
    <2>3. Exchange(p, r, sec[p])  BY <2>1, <2>2
    <2>4. posted[r] = p /\ chan[p][r] = <<>>  BY <2>3 DEF Exchange, Still
    <2> QED  BY <1>2, <2>1, <2>2, <2>4
  <1> QED  BY <1>1, <1>2 DEF Types

(* Whoever answers a ping with MPI_Rsend, a process of a file that is      *)
(* written or the reader of a file that is shared, is the one whose        *)
(* message the posted receive is for; nothing of its own is on the way     *)
(* that the receive would take instead, and the piece fits the buffer.     *)
THEOREM ReadySendsAreAwaited == Spec => []AnswerIsAwaited
PROOF
  <1>1. Init => Types /\ HandshakeInv  BY HandshakeInit
  <1>2. Types /\ HandshakeInv /\ [Next]_vars => Types' /\ HandshakeInv'  BY HandshakeStep
  <1>3. Types /\ HandshakeInv => AnswerIsAwaited  BY AnswerFromHandshake
  <1> QED  BY <1>1, <1>2, <1>3, PTL DEF Spec

-----------------------------------------------------------------------------
(* What a process takes of a chunk.                                        *)

LEMMA NthFacts ==
  ASSUME NEW S, IsFiniteSet(S), S \subseteq Int
  PROVE  /\ Cardinality(S) \in Nat
         /\ \A j \in 1 .. Cardinality(S) : Nth(S, j) \in S /\ Cardinality({h \in S : h <= Nth(S, j)}) = j
         /\ \A i \in S : Cardinality({h \in S : h <= i}) \in 1 .. Cardinality(S)
         /\ \A i, j \in S : i < j => Cardinality({h \in S : h <= i}) < Cardinality({h \in S : h <= j})
PROOF
  <1> DEFINE rank == [i \in S |-> Cardinality({h \in S : h <= i})]
             n == Cardinality(S)
  <1>1. n \in Nat /\ IsFiniteSet(1 .. n) /\ Cardinality(1 .. n) = n
    <2>1. n \in Nat  BY FS_CardinalityType
    <2>2. IsFiniteSet(1 .. n) /\ Cardinality(1 .. n) = IF 1 > n THEN 0 ELSE n - 1 + 1  BY <2>1, FS_Interval
    <2> QED  BY <2>1, <2>2
  <1>2. ASSUME NEW i \in S
        PROVE  IsFiniteSet({h \in S : h <= i}) /\ Cardinality({h \in S : h <= i}) \in 1 .. n
    <2> DEFINE T == {h \in S : h <= i}
    <2>1. IsFiniteSet(T) /\ Cardinality(T) <= n  BY FS_Subset
    <2>2. i \in T  OBVIOUS
    <2>3. Cardinality(T) \in Nat /\ Cardinality(T) # 0  BY <2>1, <2>2, FS_CardinalityType, FS_EmptySet
    <2> HIDE DEF T
    <2>4. Cardinality(T) \in 1 .. n  BY <1>1, <2>1, <2>3
    <2> QED  BY <2>1, <2>4 DEF T
  <1>3. ASSUME NEW i \in S, NEW j \in S, i < j
        PROVE  Cardinality({h \in S : h <= i}) < Cardinality({h \in S : h <= j})
    <2> DEFINE T == {h \in S : h <= i}
               U == {h \in S : h <= j}
    <2>1. T \subseteq U /\ j \in U /\ j \notin T
      <3>1. \A h \in S : h <= i => h <= j  BY <1>3
      <3>2. j <= j /\ ~(j <= i)  BY <1>3
      <3> QED  BY <3>1, <3>2
    <2>2. IsFiniteSet(U) /\ Cardinality(T) \in 1 .. n /\ Cardinality(U) \in 1 .. n  BY <1>2
    <2> HIDE DEF T, U
    <2>3. Cardinality(T) <= Cardinality(U) /\ Cardinality(T) # Cardinality(U)  BY <2>1, <2>2, FS_Subset
    <2>4. Cardinality(T) < Cardinality(U)  BY <2>2, <2>3
    <2> QED  BY <2>4 DEF T, U
  <1>4. \A i, j \in S : Cardinality({h \in S : h <= i}) = Cardinality({h \in S : h <= j}) => i = j
    <2> SUFFICES ASSUME NEW i \in S, NEW j \in S, i # j
                 PROVE  Cardinality({h \in S : h <= i}) # Cardinality({h \in S : h <= j})
      OBVIOUS
    <2>1. i < j \/ j < i  OBVIOUS
    <2>2. \A x, y \in Nat : x < y => x # y /\ y # x  OBVIOUS
    <2>3. Cardinality({h \in S : h <= i}) \in Nat /\ Cardinality({h \in S : h <= j}) \in Nat  BY <1>2
    <2> QED  BY <1>3, <2>1, <2>2, <2>3
  <1>5. rank \in Injection(S, 1 .. n)  BY <1>2, <1>4 DEF Injection, IsInjective
  <1>6. rank \in Surjection(S, 1 .. n)
    <2> HIDE DEF rank
    <2> QED  BY <1>1, <1>5, FS_Injection
  <1>7. \A j \in 1 .. n : \E i \in S : Cardinality({h \in S : h <= i}) = j  BY <1>6 DEF Surjection
  <1>8. \A j \in 1 .. n : Nth(S, j) \in S /\ Cardinality({h \in S : h <= Nth(S, j)}) = j  BY <1>7 DEF Nth
  <1> QED  BY <1>1, <1>2, <1>3, <1>8

(* The entries at the indices I, in their order.                           *)
LEMMA PickedFacts ==
  ASSUME NEW A, NEW s \in Seq(A), NEW I, I \subseteq DOMAIN s
  PROVE  /\ Picked(s, I) \in Seq(A)
         /\ \A i \in I : \E j \in DOMAIN Picked(s, I) : Picked(s, I)[j] = s[i]
         /\ \A j \in DOMAIN Picked(s, I) : Nth(I, j) \in I /\ Picked(s, I)[j] = s[Nth(I, j)]
         /\ \A i, j \in DOMAIN Picked(s, I) : Nth(I, i) = Nth(I, j) => i = j
         /\ \A j \in DOMAIN Picked(s, I), i \in I : i < Nth(I, j) =>
              \E h \in DOMAIN Picked(s, I) : h < j /\ Picked(s, I)[h] = s[i]
PROOF
  <1> DEFINE n == Cardinality(I)
             r(i) == Cardinality({h \in I : h <= i})
  <1>1. DOMAIN s = 1 .. Len(s) /\ Len(s) \in Nat  OBVIOUS
  <1>2. IsFiniteSet(I) /\ I \subseteq Int
    <2>1. IsFiniteSet(1 .. Len(s))  BY <1>1, FS_Interval
    <2> QED  BY <1>1, <2>1, FS_Subset
  <1>3. /\ n \in Nat
        /\ \A j \in 1 .. n : Nth(I, j) \in I /\ r(Nth(I, j)) = j
        /\ \A i \in I : r(i) \in 1 .. n
        /\ \A i, j \in I : i < j => r(i) < r(j)
    BY <1>2, NthFacts
  <1> HIDE DEF r
  <1>4. \A i, j \in I : r(i) = r(j) => i = j
    <2> SUFFICES ASSUME NEW i \in I, NEW j \in I, i # j PROVE r(i) # r(j)
      OBVIOUS
    <2>1. i < j \/ j < i  BY <1>2
    <2>2. r(i) \in Int /\ r(j) \in Int  BY <1>3
    <2> QED  BY <1>3, <2>1, <2>2
  <1>5. DOMAIN Picked(s, I) = 1 .. n /\ \A j \in 1 .. n : Picked(s, I)[j] = s[Nth(I, j)]
    BY DEF Picked
  <1> HIDE DEF n
  <1>6. Picked(s, I) \in Seq(A)
    <2>1. \A j \in 1 .. n : s[Nth(I, j)] \in A  BY <1>1, <1>3
    <2>2. Picked(s, I) \in [1 .. n -> A]
      <3>1. Picked(s, I) = [j \in 1 .. n |-> s[Nth(I, j)]]  BY DEF Picked, n
      <3> QED  BY <2>1, <3>1
    <2> QED  BY <1>3, <2>2
  <1>7. ASSUME NEW i \in I PROVE r(i) \in 1 .. n /\ Picked(s, I)[r(i)] = s[i]
    <2>1. r(i) \in 1 .. n  BY <1>3
    <2>2. Nth(I, r(i)) \in I /\ r(Nth(I, r(i))) = r(i)  BY <1>3, <2>1
    <2>3. Nth(I, r(i)) = i  BY <1>4, <2>2
    <2> QED  BY <1>5, <2>1, <2>3
  <1>8. ASSUME NEW j \in 1 .. n, NEW i \in I, i < Nth(I, j)
        PROVE  \E h \in 1 .. n : h < j /\ Picked(s, I)[h] = s[i]
    <2>1. r(i) < r(Nth(I, j)) /\ r(Nth(I, j)) = j  BY <1>3, <1>8
    <2>2. r(i) < j  BY <2>1
    <2> QED  BY <1>7, <2>2
  <1>9. \A i \in I : \E j \in 1 .. n : Picked(s, I)[j] = s[i]  BY <1>7
  <1>10. \A i, j \in 1 .. n : Nth(I, i) = Nth(I, j) => i = j
    <2> SUFFICES ASSUME NEW i \in 1 .. n, NEW j \in 1 .. n, Nth(I, i) = Nth(I, j) PROVE i = j
      OBVIOUS
    <2>1. r(Nth(I, i)) = i /\ r(Nth(I, j)) = j  BY <1>3
    <2> QED  BY <2>1
  <1> QED  BY <1>3, <1>5, <1>6, <1>8, <1>9, <1>10

(* All entries are the sequence itself.                                    *)
LEMMA PickedAll ==
  ASSUME NEW A, NEW s \in Seq(A)
  PROVE  Picked(s, DOMAIN s) = s
PROOF
  <1> DEFINE n == Len(s)
  <1>1. DOMAIN s = 1 .. n /\ n \in Nat  OBVIOUS
  <1>2. IsFiniteSet(1 .. n) /\ Cardinality(1 .. n) = n
    <2>1. IsFiniteSet(1 .. n) /\ Cardinality(1 .. n) = IF 1 > n THEN 0 ELSE n - 1 + 1  BY <1>1, FS_Interval
    <2> QED  BY <1>1, <2>1
  <1>3. ASSUME NEW i \in 1 .. n PROVE Cardinality({h \in 1 .. n : h <= i}) = i
    <2>1. {h \in 1 .. n : h <= i} = 1 .. i  BY <1>1
    <2>2. Cardinality(1 .. i) = IF 1 > i THEN 0 ELSE i - 1 + 1  BY <1>1, FS_Interval
    <2>3. Cardinality(1 .. i) = i  BY <1>1, <2>2
    <2> QED  BY <2>1, <2>3
  <1>4. \A j \in 1 .. n : Nth(1 .. n, j) = j
    <2> TAKE j \in 1 .. n
    <2>1. \E i \in 1 .. n : Cardinality({h \in 1 .. n : h <= i}) = j  BY <1>3
    <2>2. Nth(1 .. n, j) \in 1 .. n /\ Cardinality({h \in 1 .. n : h <= Nth(1 .. n, j)}) = j
      BY <2>1 DEF Nth
    <2> QED  BY <1>3, <2>2
  <1>5. Picked(s, DOMAIN s) = [j \in 1 .. n |-> s[Nth(1 .. n, j)]]  BY <1>1, <1>2 DEF Picked
  <1>6. [j \in 1 .. n |-> s[Nth(1 .. n, j)]] = [j \in 1 .. n |-> s[j]]  BY <1>4
  <1>7. s = [j \in 1 .. n |-> s[j]]  OBVIOUS
  <1> QED  BY <1>5, <1>6, <1>7

(* What is written, and what a process has to keep of it.                  *)

(* Lot(q) is what process q of the first run writes; Goes(q, p, f) are the *)
(* indices of the entries of it that process p of the second run is to     *)
(* have if the chunk is due to it.                                         *)
Writers == 0 .. set.w - 1
Lot(q) == Data[set.w][q]
SectionOf(f) == IF f = "surfs" THEN "surf" ELSE "grid"
Goes(q, p, f) ==
  {i \in DOMAIN Lot(q)[f] : Method(SectionOf(f)) = "bcast" =>
     IF f = "surfs" THEN Lot(q)[f][i] % set.r = p
     ELSE \E j \in DOMAIN Lot(q).cells :
            /\ Lot(q).cells[j].id = Lot(q)[f][i].id
            /\ Lot(q).cells[j].nsplit > 0 /\ (j - 1) % set.r = p}

(* The sequence h is what a process p that has had the chunks of G holds.  *)
Holds(h, p, f, G) ==
  /\ h \in Seq(Entries(f))
  /\ \A q \in G : \A i \in Goes(q, p, f) : \E j \in DOMAIN h : h[j] = Lot(q)[f][i]
  /\ \A j \in DOMAIN h : \E q \in G : \E i \in Goes(q, p, f) : h[j] = Lot(q)[f][i]
  /\ \A i, j \in DOMAIN h : h[i] = h[j] => i = j

LEMMA WrittenFacts ==
  ASSUME set \in Settings, NEW q \in Writers
  PROVE  /\ \A f \in Fields : /\ Lot(q)[f] \in Seq(Entries(f))
                              /\ \A i, j \in DOMAIN Lot(q)[f] : Lot(q)[f][i] = Lot(q)[f][j] => i = j
         /\ \A i, j \in DOMAIN Lot(q).cells :
              /\ Lot(q).cells[i].id = Lot(q).cells[j].id
              /\ Lot(q).cells[i].nsplit > 0 /\ Lot(q).cells[j].nsplit > 0
              => i = j
         /\ \A i \in DOMAIN Lot(q).cells : Lot(q).cells[i].nsplit <= 0 =>
              \E j \in 1 .. i - 1 : Lot(q).cells[j].id = Lot(q).cells[i].id /\ Lot(q).cells[j].nsplit > 0
         /\ \A i \in DOMAIN Lot(q).particles : \E j \in DOMAIN Lot(q).cells :
              /\ Lot(q).cells[j].id = Lot(q).particles[i].id
              /\ Lot(q).cells[j].nsplit = Lot(q).particles[i].nsplit
         /\ \A x \in Writers : x # q =>
              /\ \A i \in DOMAIN Lot(q).cells, j \in DOMAIN Lot(x).cells :
                   Lot(q).cells[i].id # Lot(x).cells[j].id
              /\ \A i \in DOMAIN Lot(q).surfs, j \in DOMAIN Lot(x).surfs :
                   Lot(q).surfs[i] # Lot(x).surfs[j]
PROOF
  BY DataAssumption DEF Writers, Lot

(* No entry is written twice.                                              *)
LEMMA EntriesApart ==
  ASSUME set \in Settings, NEW f \in Fields, NEW q \in Writers, NEW x \in Writers,
         NEW i \in DOMAIN Lot(q)[f], NEW j \in DOMAIN Lot(x)[f], Lot(q)[f][i] = Lot(x)[f][j]
  PROVE  q = x /\ i = j
PROOF
  <1>1. q = x => i = j
    <2>1. \A h, l \in DOMAIN Lot(q)[f] : Lot(q)[f][h] = Lot(q)[f][l] => h = l  BY WrittenFacts
    <2> QED  BY <2>1
  <1>2. ASSUME q # x PROVE FALSE
    <2>1. CASE f = "surfs"
      <3>1. Lot(q).surfs[i] # Lot(x).surfs[j]  BY <1>2, <2>1, WrittenFacts
      <3> QED  BY <2>1, <3>1
    <2>2. CASE f = "cells"
      <3>1. Lot(q).cells[i].id # Lot(x).cells[j].id  BY <1>2, <2>2, WrittenFacts
      <3> QED  BY <2>2, <3>1
    <2>3. CASE f = "particles"
      <3>1. PICK a \in DOMAIN Lot(q).cells : Lot(q).cells[a].id = Lot(q).particles[i].id
        BY <2>3, WrittenFacts
      <3>2. PICK b \in DOMAIN Lot(x).cells : Lot(x).cells[b].id = Lot(x).particles[j].id
        BY <2>3, WrittenFacts
      <3>3. Lot(q).cells[a].id # Lot(x).cells[b].id  BY <1>2, WrittenFacts
      <3> QED  BY <2>3, <3>1, <3>2, <3>3
    <2> QED  BY <2>1, <2>2, <2>3 DEF Fields
  <1> QED  BY <1>1, <1>2

LEMMA Joined ==
  ASSUME NEW A, NEW h \in Seq(A), NEW t \in Seq(A),
         \A i, j \in DOMAIN h : h[i] = h[j] => i = j,
         \A i, j \in DOMAIN t : t[i] = t[j] => i = j,
         \A i \in DOMAIN h, j \in DOMAIN t : h[i] # t[j]
  PROVE  /\ h \o t \in Seq(A)
         /\ \A i \in DOMAIN h : i \in DOMAIN (h \o t) /\ (h \o t)[i] = h[i]
         /\ \A i \in DOMAIN t : Len(h) + i \in DOMAIN (h \o t) /\ (h \o t)[Len(h) + i] = t[i]
         /\ \A j \in DOMAIN (h \o t) : \/ j \in DOMAIN h
                                       \/ \E i \in DOMAIN t : j = Len(h) + i
         /\ \A i, j \in DOMAIN (h \o t) : (h \o t)[i] = (h \o t)[j] => i = j
PROOF
  <1> DEFINE g == h \o t
             m == Len(h)
             n == Len(t)
  <1>1. /\ DOMAIN h = 1 .. m /\ DOMAIN t = 1 .. n /\ m \in Nat /\ n \in Nat
        /\ g \in Seq(A) /\ Len(g) = m + n /\ DOMAIN g = 1 .. m + n
    OBVIOUS
  <1>2. \A i \in 1 .. m : g[i] = h[i]  BY <1>1
  <1>3. \A i \in 1 .. n : g[m + i] = t[i]
    <2> TAKE i \in 1 .. n
    <2>1. m + i \in 1 .. m + n /\ m + i > m /\ (m + i) - m = i  BY <1>1
    <2> QED  BY <1>1, <2>1
  <1> HIDE DEF g, m, n
  <1>4. \A j \in 1 .. m + n : j \in 1 .. m \/ \E i \in 1 .. n : j = m + i
    <2> TAKE j \in 1 .. m + n
    <2>1. j \in 1 .. m \/ (j - m \in 1 .. n /\ j = m + (j - m))  BY <1>1
    <2> QED  BY <2>1
  <1>5. ASSUME NEW i \in 1 .. m + n, NEW j \in 1 .. m + n, g[i] = g[j] PROVE i = j
    <2>1. CASE i \in 1 .. m /\ j \in 1 .. m  BY <1>1, <1>2, <1>5, <2>1
    <2>2. ASSUME NEW a \in 1 .. n, NEW b \in 1 .. n, i = m + a, j = m + b PROVE i = j
      <3>1. t[a] = t[b]  BY <1>3, <1>5, <2>2
      <3> QED  BY <1>1, <2>2, <3>1
    <2>3. ASSUME i \in 1 .. m, NEW b \in 1 .. n, j = m + b PROVE FALSE
      <3>1. h[i] = t[b]  BY <1>2, <1>3, <1>5, <2>3
      <3> QED  BY <1>1, <2>3, <3>1
    <2>4. ASSUME j \in 1 .. m, NEW b \in 1 .. n, i = m + b PROVE FALSE
      <3>1. h[j] = t[b]  BY <1>2, <1>3, <1>5, <2>4
      <3> QED  BY <1>1, <2>4, <3>1
    <2> QED  BY <1>4, <2>1, <2>2, <2>3, <2>4
  <1>6. \A i \in 1 .. m : i \in 1 .. m + n  BY <1>1
  <1>7. \A i \in 1 .. n : m + i \in 1 .. m + n  BY <1>1
  <1> QED  BY <1>1, <1>2, <1>3, <1>4, <1>5, <1>6, <1>7 DEF g, m

(* A process takes what it is to have of another chunk.                    *)
LEMMA HoldsMore ==
  ASSUME set \in Settings, NEW f \in Fields, NEW p, NEW h, NEW G, G \subseteq Writers,
         Holds(h, p, f, G), NEW q \in Writers, q \notin G
  PROVE  Holds(h \o Picked(Lot(q)[f], Goes(q, p, f)), p, f, G \union {q})
PROOF
  <1>1. PICK s : s = Lot(q)[f]  OBVIOUS
  <1>2. PICK I : I = Goes(q, p, f)  OBVIOUS
  <1>3. PICK t : t = Picked(s, I)  OBVIOUS
  <1>4. PICK A : A = Entries(f)  OBVIOUS
  <1>5. s \in Seq(A) /\ I \subseteq DOMAIN s  BY <1>1, <1>2, <1>4, WrittenFacts DEF Goes
  <1>6. /\ t \in Seq(A)
        /\ \A i \in I : \E j \in DOMAIN t : t[j] = s[i]
        /\ \A j \in DOMAIN t : Nth(I, j) \in I /\ t[j] = s[Nth(I, j)]
        /\ \A i, j \in DOMAIN t : Nth(I, i) = Nth(I, j) => i = j
    BY <1>3, <1>5, PickedFacts
  <1>7. \A i, j \in DOMAIN t : t[i] = t[j] => i = j
    <2> SUFFICES ASSUME NEW i \in DOMAIN t, NEW j \in DOMAIN t, t[i] = t[j] PROVE i = j
      OBVIOUS
    <2>1. PICK a, b \in I : a = Nth(I, i) /\ b = Nth(I, j) /\ s[a] = s[b]  BY <1>6
    <2>2. a = b  BY <1>1, <1>5, <2>1, EntriesApart
    <2> QED  BY <1>6, <2>1, <2>2
  <1>8. /\ h \in Seq(A)
        /\ \A x \in G : \A i \in Goes(x, p, f) : \E j \in DOMAIN h : h[j] = Lot(x)[f][i]
        /\ \A j \in DOMAIN h : \E x \in G : \E i \in Goes(x, p, f) : h[j] = Lot(x)[f][i]
        /\ \A i, j \in DOMAIN h : h[i] = h[j] => i = j
    BY <1>4 DEF Holds
  <1>9. \A i \in DOMAIN h, j \in DOMAIN t : h[i] # t[j]
    <2> SUFFICES ASSUME NEW i \in DOMAIN h, NEW j \in DOMAIN t, h[i] = t[j] PROVE FALSE
      OBVIOUS
    <2>1. PICK x \in G : \E a \in Goes(x, p, f) : h[i] = Lot(x)[f][a]  BY <1>8
    <2>2. PICK a \in Goes(x, p, f) : h[i] = Lot(x)[f][a]  BY <2>1
    <2>3. PICK b \in I : t[j] = s[b]  BY <1>6
    <2>4. a \in DOMAIN Lot(x)[f] /\ b \in DOMAIN Lot(q)[f] /\ x \in Writers  BY <1>1, <1>5, <2>2 DEF Goes
    <2>5. Lot(x)[f][a] = Lot(q)[f][b]  BY <1>1, <2>2, <2>3
    <2>6. x = q  BY <2>4, <2>5, EntriesApart
    <2> QED  BY <2>6
  <1>10. PICK g : g = h \o t  OBVIOUS
  <1>11. /\ g \in Seq(A)
         /\ \A i \in DOMAIN h : i \in DOMAIN g /\ g[i] = h[i]
         /\ \A i \in DOMAIN t : Len(h) + i \in DOMAIN g /\ g[Len(h) + i] = t[i]
         /\ \A j \in DOMAIN g : j \in DOMAIN h \/ \E i \in DOMAIN t : j = Len(h) + i
         /\ \A i, j \in DOMAIN g : g[i] = g[j] => i = j
    <2>1. h \in Seq(A) /\ t \in Seq(A) /\ \A i, j \in DOMAIN h : h[i] = h[j] => i = j  BY <1>6, <1>8
    <2>2. /\ h \o t \in Seq(A)
          /\ \A i \in DOMAIN h : i \in DOMAIN (h \o t) /\ (h \o t)[i] = h[i]
          /\ \A i \in DOMAIN t : Len(h) + i \in DOMAIN (h \o t) /\ (h \o t)[Len(h) + i] = t[i]
          /\ \A j \in DOMAIN (h \o t) : \/ j \in DOMAIN h
                                        \/ \E i \in DOMAIN t : j = Len(h) + i
          /\ \A i, j \in DOMAIN (h \o t) : (h \o t)[i] = (h \o t)[j] => i = j
      BY ONLY <2>1, <1>7, <1>9, Joined
    <2> QED  BY ONLY <1>10, <2>2
  <1>12. ASSUME NEW x \in G \union {q}, NEW i \in Goes(x, p, f) PROVE \E j \in DOMAIN g : g[j] = Lot(x)[f][i]
    <2>1. CASE x \in G
      <3>1. PICK j \in DOMAIN h : h[j] = Lot(x)[f][i]  BY <1>8, <1>12, <2>1
      <3> QED  BY <1>11, <3>1
    <2>2. CASE x = q
      <3>1. PICK j \in DOMAIN t : t[j] = s[i]  BY <1>2, <1>6, <1>12, <2>2
      <3> QED  BY <1>1, <1>11, <2>2, <3>1
    <2> QED  BY <2>1, <2>2
  <1>13. ASSUME NEW j \in DOMAIN g PROVE \E x \in G \union {q} : \E i \in Goes(x, p, f) : g[j] = Lot(x)[f][i]
    <2>1. CASE j \in DOMAIN h
      <3>1. g[j] = h[j]  BY <1>11, <2>1
      <3> QED  BY <1>8, <2>1, <3>1
    <2>2. ASSUME NEW i \in DOMAIN t, j = Len(h) + i PROVE \E y \in Goes(q, p, f) : g[j] = Lot(q)[f][y]
      <3>1. g[j] = t[i]  BY <1>11, <2>2
      <3> QED  BY <1>1, <1>2, <1>6, <3>1
    <2> QED  BY <1>11, <2>1, <2>2
  <1>14. Holds(g, p, f, G \union {q})  BY <1>4, <1>11, <1>12, <1>13 DEF Holds
  <1> QED  BY <1>1, <1>2, <1>3, <1>10, <1>14

(* A sub cell comes behind its split cell.                                 *)
Ordered(h) ==
  \A i \in DOMAIN h : h[i].nsplit <= 0 => \E j \in 1 .. i - 1 : h[j].id = h[i].id /\ h[j].nsplit > 0

(* The record r is right for a process that has had the grid chunks of G   *)
(* and the surface chunks of S.                                            *)
Right(r, p, G, S) ==
  /\ r = [cells |-> r.cells, particles |-> r.particles, surfs |-> r.surfs, clumped |-> r.clumped]
  /\ Holds(r.cells, p, "cells", G) /\ Holds(r.particles, p, "particles", G) /\ Holds(r.surfs, p, "surfs", S)
  /\ Ordered(r.cells)
  /\ r.clumped = (G # {})
  /\ G = {} => r.cells = <<>>
  /\ Method("grid") # "bcast" => \A q \in G : G = {q} => r.cells = Lot(q).cells

LEMMA OrderedMore ==
  ASSUME set \in Settings, NEW p, NEW h \in Seq(CellEntries), Ordered(h), NEW q \in Writers
  PROVE  Ordered(h \o Picked(Lot(q).cells, Goes(q, p, "cells")))
PROOF
  <1>1. PICK s : s = Lot(q).cells  OBVIOUS
  <1>2. PICK I : I = Goes(q, p, "cells")  OBVIOUS
  <1>3. PICK t : t = Picked(s, I)  OBVIOUS
  <1>4. s \in Seq(CellEntries) /\ I \subseteq DOMAIN s
    <2>1. "cells" \in Fields /\ Entries("cells") = CellEntries  BY DEF Fields, Entries
    <2> QED  BY <1>1, <1>2, <2>1, WrittenFacts DEF Goes
  <1>5. /\ t \in Seq(CellEntries)
        /\ \A j \in DOMAIN t : Nth(I, j) \in I /\ t[j] = s[Nth(I, j)]
        /\ \A j \in DOMAIN t, i \in I : i < Nth(I, j) => \E l \in DOMAIN t : l < j /\ t[l] = s[i]
    BY <1>3, <1>4, PickedFacts
  <1>6. PICK m \in Nat, n \in Nat : m = Len(h) /\ n = Len(t) /\ DOMAIN h = 1 .. m /\ DOMAIN t = 1 .. n
    BY <1>5
  <1>7. PICK g : g = h \o t  OBVIOUS
  <1>8. /\ DOMAIN g = 1 .. m + n
        /\ \A i \in 1 .. m : g[i] = h[i]
        /\ \A i \in 1 .. n : m + i \in 1 .. m + n /\ g[m + i] = t[i]
    <2>1. DOMAIN g = 1 .. m + n /\ \A i \in 1 .. m : g[i] = h[i]  BY <1>5, <1>6, <1>7
    <2>2. ASSUME NEW i \in 1 .. n PROVE m + i \in 1 .. m + n /\ g[m + i] = t[i]
      <3>1. m + i \in 1 .. m + n /\ m + i > m /\ (m + i) - m = i  BY <1>6
      <3> QED  BY <1>5, <1>6, <1>7, <3>1
    <2> QED  BY <2>1, <2>2
  <1>9. ASSUME NEW i \in 1 .. m, g[i].nsplit <= 0
        PROVE  \E j \in 1 .. i - 1 : g[j].id = g[i].id /\ g[j].nsplit > 0
    <2>1. PICK j \in 1 .. i - 1 : h[j].id = h[i].id /\ h[j].nsplit > 0  BY <1>6, <1>8, <1>9 DEF Ordered
    <2>2. j \in 1 .. m  BY <1>6
    <2> QED  BY <1>8, <2>1, <2>2
  <1>10. ASSUME NEW i \in 1 .. n, t[i].nsplit <= 0
         PROVE  \E l \in 1 .. i - 1 : t[l].id = t[i].id /\ t[l].nsplit > 0
    <2>1. PICK a \in I : a = Nth(I, i) /\ t[i] = s[a]  BY <1>5, <1>6
    <2>2. a \in DOMAIN s /\ a \in Int  BY <1>4, <2>1
    <2>3. PICK b \in 1 .. a - 1 : s[b].id = s[a].id /\ s[b].nsplit > 0
      BY <1>1, <1>10, <2>1, <2>2, WrittenFacts
    <2>4. b < a /\ b \in DOMAIN s  BY <1>4, <2>2
    <2>5. b \in I
      <3>1. "cells" # "surfs"  OBVIOUS
      <3> QED  BY <1>1, <1>2, <2>1, <2>3, <2>4, <3>1 DEF Goes
    <2>6. PICK l \in DOMAIN t : l < i /\ t[l] = s[b]  BY <1>5, <1>6, <2>1, <2>4, <2>5
    <2>7. l \in 1 .. i - 1  BY <1>6, <2>6
    <2> QED  BY <2>1, <2>3, <2>6, <2>7
  <1>11. ASSUME NEW i \in 1 .. n, g[m + i].nsplit <= 0
         PROVE  \E j \in 1 .. m + i - 1 : g[j].id = g[m + i].id /\ g[j].nsplit > 0
    <2>1. PICK l \in 1 .. i - 1 : t[l].id = t[i].id /\ t[l].nsplit > 0  BY <1>8, <1>10, <1>11
    <2>2. l \in 1 .. n /\ m + l \in 1 .. m + i - 1  BY <1>6
    <2> QED  BY <1>8, <2>1, <2>2
  <1>12. \A j \in 1 .. m + n : j \in 1 .. m \/ \E i \in 1 .. n : j = m + i
    <2> TAKE j \in 1 .. m + n
    <2>1. j \in 1 .. m \/ (j - m \in 1 .. n /\ j = m + (j - m))  BY <1>6
    <2> QED  BY <2>1
  <1>13. Ordered(g)
    <2> SUFFICES ASSUME NEW j \in 1 .. m + n, g[j].nsplit <= 0
                 PROVE  \E l \in 1 .. j - 1 : g[l].id = g[j].id /\ g[l].nsplit > 0
      BY <1>8 DEF Ordered
    <2>1. CASE j \in 1 .. m  BY <1>9, <2>1
    <2>2. ASSUME NEW i \in 1 .. n, j = m + i PROVE \E l \in 1 .. j - 1 : g[l].id = g[j].id /\ g[l].nsplit > 0
      <3>1. g[m + i].nsplit <= 0  BY <2>2
      <3>2. \E l \in 1 .. m + i - 1 : g[l].id = g[m + i].id /\ g[l].nsplit > 0  BY <1>11, <3>1
      <3> QED  BY <2>2, <3>2
    <2> QED  BY <1>12, <2>1, <2>2
  <1> QED  BY <1>1, <1>2, <1>3, <1>7, <1>13

(* The code takes exactly what goes to the process: the cells it had       *)
(* before are none of this chunk.                                          *)
LEMMA GridTaken ==
  ASSUME set \in Settings, NEW p, NEW G, G \subseteq Writers, Holds(have[p].cells, p, "cells", G),
         NEW q \in Writers, q \notin G, NEW skip \in BOOLEAN, skip <=> Method("grid") = "bcast",
         have[p] = [cells |-> have[p].cells, particles |-> have[p].particles,
                    surfs |-> have[p].surfs, clumped |-> have[p].clumped]
  PROVE  RestoreGrid(p, Lot(q), skip) =
           [cells |-> have[p].cells \o Picked(Lot(q).cells, Goes(q, p, "cells")),
            particles |-> have[p].particles \o Picked(Lot(q).particles, Goes(q, p, "particles")),
            surfs |-> have[p].surfs, clumped |-> TRUE]
PROOF
  <1> DEFINE e == Lot(q).cells
             x == Lot(q).particles
             cell == {i \in DOMAIN e : e[i].nsplit > 0 /\ (skip => (i - 1) % set.r = p)}
             known == {have[p].cells[i].id : i \in DOMAIN have[p].cells}
             sub == {i \in DOMAIN e : /\ e[i].nsplit <= 0
                                      /\ skip => e[i].id \in known \union {e[j].id : j \in {n \in cell : n < i}}}
             hash == known \union {e[i].id : i \in cell}
             in == {i \in DOMAIN x : skip => x[i].id \in hash}
  <1>1. RestoreGrid(p, Lot(q), skip) =
          [cells |-> have[p].cells \o Picked(e, cell \union sub),
           particles |-> have[p].particles \o Picked(x, in),
           surfs |-> have[p].surfs, clumped |-> TRUE]
    <2>1. RestoreGrid(p, Lot(q), skip) =
            [have[p] EXCEPT !.cells = @ \o Picked(e, cell \union sub), !.particles = @ \o Picked(x, in),
                            !.clumped = TRUE]
      BY DEF RestoreGrid
    <2> HIDE DEF e, x, cell, sub, in
    <2>2. PICK a, b, c, d : a = have[p].cells /\ b = have[p].particles /\ c = have[p].surfs /\ d = have[p].clumped
      OBVIOUS
    <2>3. have[p] = [cells |-> a, particles |-> b, surfs |-> c, clumped |-> d]  BY <2>2
    <2>4. PICK u, v : u = a \o Picked(e, cell \union sub) /\ v = b \o Picked(x, in)  OBVIOUS
    <2>5. RestoreGrid(p, Lot(q), skip) = [have[p] EXCEPT !.cells = u, !.particles = v, !.clumped = TRUE]
      BY <2>1, <2>2, <2>4
    <2>6. [have[p] EXCEPT !.cells = u, !.particles = v, !.clumped = TRUE] =
            [cells |-> u, particles |-> v, surfs |-> c, clumped |-> TRUE]
      <3>1. \A r, w : r = [cells |-> a, particles |-> b, surfs |-> c, clumped |-> d] =>
              [r EXCEPT !.cells = u, !.particles = v, !.clumped = w] =
                [cells |-> u, particles |-> v, surfs |-> c, clumped |-> w]
        <4> TAKE r, w
        <4> HAVE r = [cells |-> a, particles |-> b, surfs |-> c, clumped |-> d]
        <4>1. PICK z : z = [r EXCEPT !.cells = u, !.particles = v, !.clumped = w]  OBVIOUS
        <4>2. DOMAIN r = {"cells", "particles", "surfs", "clumped"} /\ DOMAIN z = DOMAIN r  BY <4>1
        <4>3. z.cells = u /\ z.particles = v /\ z.surfs = c /\ z.clumped = w  BY <4>1, <4>2
        <4>4. z = [y \in DOMAIN z |-> z[y]]  BY <4>1
        <4>5. z = [cells |-> u, particles |-> v, surfs |-> c, clumped |-> w]  BY <4>2, <4>3, <4>4
        <4> QED  BY <4>1, <4>5
      <3> QED  BY <2>3, <3>1
    <2> QED  BY <2>2, <2>4, <2>5, <2>6
  <1>2. "cells" \in Fields /\ "particles" \in Fields /\ "cells" # "surfs" /\ "particles" # "surfs"  BY DEF Fields
  <1>3. Lot(q)["cells"] = e /\ Lot(q)["particles"] = x  OBVIOUS
  <1>4. e \in Seq(CellEntries) /\ x \in Seq(ParticleEntries)
    <2>1. Entries("cells") = CellEntries /\ Entries("particles") = ParticleEntries  BY DEF Entries
    <2>2. Lot(q)["cells"] \in Seq(Entries("cells")) /\ Lot(q)["particles"] \in Seq(Entries("particles"))
      BY <1>2, WrittenFacts
    <2> QED  BY <2>1, <2>2
  <1>5. \A i \in DOMAIN e : e[i].id \in Int /\ e[i].nsplit \in Int
    <2> TAKE i \in DOMAIN e
    <2>1. e[i] \in CellEntries  BY <1>4
    <2> QED  BY <2>1 DEF CellEntries
  <1>6. \A i \in DOMAIN e : e[i].id \notin known
    <2> SUFFICES ASSUME NEW i \in DOMAIN e, NEW j \in DOMAIN have[p].cells, have[p].cells[j].id = e[i].id PROVE FALSE
      OBVIOUS
    <2>1. PICK y \in G : \E a \in Goes(y, p, "cells") : have[p].cells[j] = Lot(y)["cells"][a]  BY DEF Holds
    <2>2. PICK a \in Goes(y, p, "cells") : have[p].cells[j] = Lot(y)["cells"][a]  BY <2>1
    <2>3. a \in DOMAIN Lot(y).cells /\ have[p].cells[j] = Lot(y).cells[a]  BY <2>2 DEF Goes
    <2>4. y \in Writers /\ y # q  OBVIOUS
    <2>5. Lot(q).cells[i].id # Lot(y).cells[a].id  BY <2>3, <2>4, WrittenFacts
    <2> QED  BY <2>3, <2>5
  <1>7. /\ \A i \in DOMAIN e : e[i].nsplit <= 0 => \E j \in 1 .. i - 1 : e[j].id = e[i].id /\ e[j].nsplit > 0
        /\ \A i, j \in DOMAIN e : e[i].id = e[j].id /\ e[i].nsplit > 0 /\ e[j].nsplit > 0 => i = j
    BY WrittenFacts
  <1>8. Goes(q, p, "cells") = {i \in DOMAIN e : skip => \E j \in cell : e[j].id = e[i].id}
    <2>1. SectionOf("cells") = "grid"  BY <1>2 DEF SectionOf
    <2>2. Goes(q, p, "cells") =
            {i \in DOMAIN e : skip => \E j \in DOMAIN e : e[j].id = e[i].id /\ e[j].nsplit > 0 /\ (j - 1) % set.r = p}
      BY <1>2, <1>3, <2>1 DEF Goes
    <2>3. ASSUME skip PROVE \A j : j \in cell <=> j \in DOMAIN e /\ e[j].nsplit > 0 /\ (j - 1) % set.r = p
      BY <2>3
    <2> HIDE DEF cell
    <2> QED  BY <2>2, <2>3
  <1>9. Goes(q, p, "particles") = {i \in DOMAIN x : skip => \E j \in cell : e[j].id = x[i].id}
    <2>1. SectionOf("particles") = "grid"  BY <1>2 DEF SectionOf
    <2>2. Goes(q, p, "particles") =
            {i \in DOMAIN x : skip => \E j \in DOMAIN e : e[j].id = x[i].id /\ e[j].nsplit > 0 /\ (j - 1) % set.r = p}
      BY <1>2, <1>3, <2>1 DEF Goes
    <2>3. ASSUME skip PROVE \A j : j \in cell <=> j \in DOMAIN e /\ e[j].nsplit > 0 /\ (j - 1) % set.r = p
      BY <2>3
    <2> HIDE DEF cell
    <2> QED  BY <2>2, <2>3
  <1>10. cell \union sub = Goes(q, p, "cells")
    <2> SUFFICES ASSUME NEW i \in DOMAIN e
                 PROVE  i \in cell \union sub <=> (skip => \E j \in cell : e[j].id = e[i].id)
      BY <1>8
    <2>1. CASE e[i].nsplit > 0
      <3>1. i \notin sub  BY <1>5, <2>1
      <3>2. i \in cell <=> (skip => (i - 1) % set.r = p)  BY <2>1
      <3>3. ASSUME skip, NEW j \in cell, e[j].id = e[i].id PROVE (i - 1) % set.r = p
        <4>1. j \in DOMAIN e /\ e[j].nsplit > 0 /\ (j - 1) % set.r = p  BY <3>3
        <4>2. i = j  BY <1>7, <2>1, <3>3, <4>1
        <4> QED  BY <4>1, <4>2
      <3> HIDE DEF cell, sub
      <3> QED  BY <3>1, <3>2, <3>3
    <2>2. CASE e[i].nsplit <= 0
      <3>1. i \notin cell  BY <1>5, <2>2
      <3>2. i \in sub <=> (skip => \E j \in cell : j < i /\ e[j].id = e[i].id)
        <4>1. e[i].id \notin known  BY <1>6
        <4>2. e[i].id \in {e[j].id : j \in {n \in cell : n < i}} <=> \E j \in cell : j < i /\ e[j].id = e[i].id
          OBVIOUS
        <4>3. i \in sub <=> (skip => e[i].id \in known \union {e[j].id : j \in {n \in cell : n < i}})  BY <2>2
        <4> HIDE DEF known, cell, sub
        <4> QED  BY <4>1, <4>2, <4>3
      <3>3. ASSUME skip, NEW j \in cell, e[j].id = e[i].id PROVE j < i
        <4>1. j \in DOMAIN e /\ e[j].nsplit > 0  OBVIOUS
        <4>2. PICK l \in 1 .. i - 1 : e[l].id = e[i].id /\ e[l].nsplit > 0  BY <1>7, <2>2
        <4>3. l \in DOMAIN e /\ l < i  BY <1>4
        <4>4. l = j  BY <1>7, <3>3, <4>1, <4>2, <4>3
        <4> QED  BY <4>3, <4>4
      <3> HIDE DEF cell, sub
      <3> QED  BY <3>1, <3>2, <3>3
    <2> QED  BY <1>5, <2>1, <2>2
  <1>11. in = Goes(q, p, "particles")
    <2> SUFFICES ASSUME NEW i \in DOMAIN x PROVE x[i].id \in hash <=> \E j \in cell : e[j].id = x[i].id
      BY <1>9
    <2>1. x[i].id \notin known
      <3>1. PICK j \in DOMAIN e : e[j].id = x[i].id  BY WrittenFacts
      <3> QED  BY <1>6, <3>1
    <2> HIDE DEF known, cell
    <2> QED  BY <2>1
  <1> HIDE DEF cell, sub, in
  <1> QED  BY <1>1, <1>10, <1>11

(* A process that has had the chunks of G and S takes another one.         *)
LEMMA GridMore ==
  ASSUME set \in Settings, NEW p, NEW G, NEW S, G \subseteq Writers, Right(have[p], p, G, S),
         NEW q \in Writers, q \notin G, NEW skip \in BOOLEAN, skip <=> Method("grid") = "bcast"
  PROVE  Right(RestoreGrid(p, Lot(q), skip), p, G \union {q}, S)
PROOF
  <1>1. PICK r : r = have[p]  OBVIOUS
  <1>2. /\ r = [cells |-> r.cells, particles |-> r.particles, surfs |-> r.surfs, clumped |-> r.clumped]
        /\ Holds(r.cells, p, "cells", G) /\ Holds(r.particles, p, "particles", G) /\ Holds(r.surfs, p, "surfs", S)
        /\ Ordered(r.cells) /\ (G = {} => r.cells = <<>>)
    BY <1>1 DEF Right
  <1>3. PICK a, b : /\ a = r.cells \o Picked(Lot(q).cells, Goes(q, p, "cells"))
                   /\ b = r.particles \o Picked(Lot(q).particles, Goes(q, p, "particles"))
    OBVIOUS
  <1>4. RestoreGrid(p, Lot(q), skip) = [cells |-> a, particles |-> b, surfs |-> r.surfs, clumped |-> TRUE]
    BY <1>1, <1>2, <1>3, GridTaken
  <1>5. "cells" \in Fields /\ "particles" \in Fields /\ "cells" # "surfs"  BY DEF Fields
  <1>6. Lot(q)["cells"] = Lot(q).cells /\ Lot(q)["particles"] = Lot(q).particles  OBVIOUS
  <1>7. Holds(a, p, "cells", G \union {q})  BY <1>2, <1>3, <1>5, <1>6, HoldsMore
  <1>8. Holds(b, p, "particles", G \union {q})  BY <1>2, <1>3, <1>5, <1>6, HoldsMore
  <1>9. r.cells \in Seq(CellEntries)
    <2>1. Entries("cells") = CellEntries  BY DEF Entries
    <2> QED  BY <1>2, <2>1 DEF Holds
  <1>10. Ordered(a)  BY <1>2, <1>3, <1>9, OrderedMore
  <1>11. G \union {q} # {}  OBVIOUS
  <1>12. ASSUME Method("grid") # "bcast", NEW x \in G \union {q}, G \union {q} = {x} PROVE a = Lot(x).cells
    <2>1. x = q /\ G = {}  BY <1>12
    <2>2. SectionOf("cells") = "grid"  BY <1>5 DEF SectionOf
    <2>3. Goes(q, p, "cells") = DOMAIN Lot(q).cells  BY <1>6, <1>12, <2>2 DEF Goes
    <2>4. Lot(q).cells \in Seq(CellEntries)
      <3>1. Entries("cells") = CellEntries  BY DEF Entries
      <3> QED  BY <1>5, <1>6, <3>1, WrittenFacts
    <2>5. Picked(Lot(q).cells, DOMAIN Lot(q).cells) = Lot(q).cells  BY <2>4, PickedAll
    <2>6. a = <<>> \o Lot(q).cells  BY <1>2, <1>3, <2>1, <2>3, <2>5
    <2>7. PICK s \in Seq(CellEntries) : s = Lot(q).cells  BY <2>4
    <2>8. <<>> \o s = s  OBVIOUS
    <2> QED  BY <2>1, <2>6, <2>7, <2>8
  <1>13. PICK z : z = RestoreGrid(p, Lot(q), skip)  OBVIOUS
  <1>14. z.cells = a /\ z.particles = b /\ z.surfs = r.surfs /\ z.clumped = TRUE  BY <1>4, <1>13
  <1>15. z = [cells |-> z.cells, particles |-> z.particles, surfs |-> z.surfs, clumped |-> z.clumped]
    BY <1>4, <1>13, <1>14
  <1>16. z.clumped = (G \union {q} # {})  BY <1>11, <1>14
  <1>17. Right(z, p, G \union {q}, S)
    BY <1>2, <1>7, <1>8, <1>10, <1>11, <1>12, <1>14, <1>15, <1>16 DEF Right
  <1> QED  BY <1>13, <1>17

LEMMA SurfsMore ==
  ASSUME set \in Settings, NEW p, NEW G, NEW S, S \subseteq Writers, Right(have[p], p, G, S),
         NEW q \in Writers, q \notin S, NEW skip \in BOOLEAN, skip <=> Method("surf") = "bcast"
  PROVE  Right(RestoreSurfs(p, Lot(q), skip), p, G, S \union {q})
PROOF
  <1>1. PICK r : r = have[p]  OBVIOUS
  <1>2. /\ r = [cells |-> r.cells, particles |-> r.particles, surfs |-> r.surfs, clumped |-> r.clumped]
        /\ Holds(r.surfs, p, "surfs", S)
    BY <1>1 DEF Right
  <1>3. PICK I : I = {i \in DOMAIN Lot(q).surfs : skip => Lot(q).surfs[i] % set.r = p}  OBVIOUS
  <1>4. PICK c : c = r.surfs \o Picked(Lot(q).surfs, I)  OBVIOUS
  <1>5. RestoreSurfs(p, Lot(q), skip) = [r EXCEPT !.surfs = c]  BY <1>1, <1>3, <1>4 DEF RestoreSurfs
  <1>6. "surfs" \in Fields /\ Lot(q)["surfs"] = Lot(q).surfs /\ SectionOf("surfs") = "surf"
    BY DEF Fields, SectionOf
  <1>7. I = Goes(q, p, "surfs")  BY <1>3, <1>6 DEF Goes
  <1>8. Holds(c, p, "surfs", S \union {q})  BY <1>2, <1>4, <1>6, <1>7, HoldsMore
  <1>9. PICK z : z = [r EXCEPT !.surfs = c]  OBVIOUS
  <1>10. DOMAIN r = {"cells", "particles", "surfs", "clumped"} /\ DOMAIN z = DOMAIN r  BY <1>2, <1>9
  <1>11. z.cells = r.cells /\ z.particles = r.particles /\ z.surfs = c /\ z.clumped = r.clumped  BY <1>9, <1>10
  <1>12. z = [y \in DOMAIN z |-> z[y]]  BY <1>9
  <1>13. z = [cells |-> z.cells, particles |-> z.particles, surfs |-> z.surfs, clumped |-> z.clumped]
    BY <1>10, <1>11, <1>12
  <1>14. Right(z, p, G, S \union {q})  BY <1>1, <1>8, <1>11, <1>13 DEF Right
  <1> QED  BY <1>5, <1>9, <1>14

-----------------------------------------------------------------------------
(* What is in the files: the pieces of the processes of a file, one after  *)
(* another, and the second section behind the first.                       *)

NthPiece(q, j) == IF j <= GroupSize(q) THEN Piece(q + j - 1, "grid", 1)
                  ELSE Piece(q + j - 1 - GroupSize(q), "surf", 1)
Filed(q) == IF sec[q] = "surf" THEN GroupSize(q) + k[q] ELSE k[q]
FileOk(q) ==
  /\ k[q] <= GroupSize(q) /\ files[Group(q)].n = GroupSize(q)
  /\ files[Group(q)].pieces = [j \in 1 .. Filed(q) |-> NthPiece(q, j)]
  /\ pc[q] # "announced"
  /\ pc[q] \in {"post", "sendping", "wait"} => pass[q] = 1
  /\ pc[q] = "written" => k[q] = GroupSize(q) /\ (set.surfs => sec[q] = "surf")
MailOk(q, p) ==
  pc[q] = "wait" /\ k[q] = p - q => chan[p][q] = <<>> \/ chan[p][q] = <<Piece(p, sec[q], 1)>>
Filling ==
  /\ \A q \in Procs : Mine(q) = q => IF pc[q] = "open" THEN k[q] = 0 /\ sec[q] = "grid" ELSE FileOk(q)
  /\ \A p \in Procs : Mine(p) # p => MailOk(Mine(p), p)

(* What the readers find.                                                  *)
Filled ==
  \A q \in Writers :
    /\ files[Group(q)].n = GroupSize(q)
    /\ Chunk(Group(q), "grid", q - Mine(q)) = Piece(q, "grid", 1)
    /\ base.surfs => Chunk(Group(q), "surf", q - Mine(q)) = Piece(q, "surf", 1)
FilesInv == ~set.less => (stage = "write" => Filling) /\ (stage = "read" => Filled)

LEMMA GroupFacts ==
  ASSUME Types, stage = "write", NEW q \in Procs
  PROVE  /\ Procs = 0 .. set.w - 1 /\ Mine(q) \in Procs /\ Mine(Mine(q)) = Mine(q)
         /\ GroupSize(q) \in Nat \ {0} /\ q \in Int /\ k[q] \in Nat
         /\ \A x \in Procs : Mine(q) = q /\ Mine(x) = x /\ Group(x) = Group(q) => x = q
PROOF
  <1>1. set \in Settings /\ Procs = 0 .. set.w - 1 /\ set.w \in Nat \ {0}
    BY ProcsFacts, SettingFacts DEF Types
  <1>2. q \in 0 .. set.w - 1  BY <1>1
  <1>3. Mine(q) \in 0 .. q /\ Mine(Mine(q)) = Mine(q) /\ GroupSize(q) \in Int /\ q - Mine(q) < GroupSize(q)
    BY <1>1, <1>2, WriterFacts
  <1>4. Mine(q) \in Procs /\ GroupSize(q) \in Nat \ {0} /\ q \in Int  BY <1>1, <1>2, <1>3
  <1>5. \A x \in Procs : Group(x) = Group(q) => Mine(x) = Mine(q)  BY DEF Mine, Group, FileProc
  <1>6. k[q] \in Nat  BY DEF Types
  <1> QED  BY <1>1, <1>3, <1>4, <1>5, <1>6

LEMMA FileKept ==
  ASSUME NEW q, FileOk(q), set' = set, pc'[q] = pc[q], k'[q] = k[q], sec'[q] = sec[q], pass'[q] = pass[q],
         files'[Group(q)] = files[Group(q)]
  PROVE  FileOk(q)'
PROOF
  <1>1. GroupSize(q)' = GroupSize(q) /\ Group(q)' = Group(q)  BY DEF GroupSize, Group
  <1>2. \A j : NthPiece(q, j)' = NthPiece(q, j)  BY <1>1 DEF NthPiece, Piece
  <1>3. Filed(q)' = Filed(q)  BY <1>1 DEF Filed
  <1>4. PICK m : m = Filed(q)  OBVIOUS
  <1>5. files[Group(q)].pieces = [j \in 1 .. m |-> NthPiece(q, j)]  BY <1>4 DEF FileOk
  <1>6. files'[Group(q)'].pieces = [j \in 1 .. m |-> NthPiece(q, j)']  BY <1>1, <1>2, <1>5
  <1> QED  BY <1>1, <1>3, <1>4, <1>6 DEF FileOk

(* The step of a writer.                                                   *)
LEMMA WriterFiles ==
  ASSUME Types, stage = "write", Filling, set' = set, stage' = stage, NEW q \in Procs, Mine(q) = q,
         \A x \in Procs \ {q} : pc'[x] = pc[x] /\ k'[x] = k[x] /\ sec'[x] = sec[x] /\ pass'[x] = pass[x],
         \A x \in Procs : x # q /\ Mine(x) = x => files'[Group(x)] = files[Group(x)],
         \A x, y \in Procs \ {q} : chan'[x][y] = chan[x][y],
         pc'[q] # "open", FileOk(q)', \A p \in Procs : Mine(p) = q /\ p # q => MailOk(q, p)'
  PROVE  Filling'
PROOF
  <1>1. Procs' = Procs /\ \A x : Mine(x)' = Mine(x)  BY DEF Procs, N, Mine
  <1>2. ASSUME NEW x \in Procs, Mine(x) = x
        PROVE  (IF pc[x] = "open" THEN k[x] = 0 /\ sec[x] = "grid" ELSE FileOk(x))'
    <2>1. CASE x = q  BY <2>1
    <2>2. CASE x # q
      <3>1. pc'[x] = pc[x] /\ k'[x] = k[x] /\ sec'[x] = sec[x] /\ pass'[x] = pass[x]
            /\ files'[Group(x)] = files[Group(x)]
        BY <1>2, <2>2
      <3>2. IF pc[x] = "open" THEN k[x] = 0 /\ sec[x] = "grid" ELSE FileOk(x)  BY <1>2 DEF Filling
      <3>3. FileOk(x) => FileOk(x)'  BY <3>1, FileKept
      <3> QED  BY <3>1, <3>2, <3>3
    <2> QED  BY <2>1, <2>2
  <1>3. ASSUME NEW p \in Procs, Mine(p) # p PROVE MailOk(Mine(p), p)'
    <2>1. PICK x \in Procs : x = Mine(p) /\ Mine(x) = x  BY GroupFacts
    <2>2. x = Mine(p)'  BY <1>1, <2>1
    <2>3. CASE x = q
      <3>1. MailOk(q, p)'  BY <1>3, <2>1, <2>3
      <3> QED  BY <2>2, <2>3, <3>1
    <2>4. CASE x # q
      <3>1. p # q  BY <1>3
      <3>2. MailOk(x, p)  BY <1>3, <2>1 DEF Filling
      <3>3. pc'[x] = pc[x] /\ k'[x] = k[x] /\ sec'[x] = sec[x] /\ chan'[p][x] = chan[p][x]  BY <2>4, <3>1
      <3>4. MailOk(x, p)'  BY <3>2, <3>3 DEF MailOk, Piece
      <3> QED  BY <2>2, <3>4
    <2> QED  BY <2>3, <2>4
  <1> QED  BY <1>1, <1>2, <1>3 DEF Filling

(* The step of another process of a file.                                  *)
LEMMA OwnerFiles ==
  ASSUME Types, stage = "write", Filling, UNCHANGED <<set, stage, files, pass>>, NEW p \in Procs, Mine(p) # p,
         \A x \in Procs \ {p} : pc'[x] = pc[x] /\ k'[x] = k[x] /\ sec'[x] = sec[x],
         \A x, y \in Procs \ {p} : chan'[x][y] = chan[x][y],
         MailOk(Mine(p), p)'
  PROVE  Filling'
PROOF
  <1>1. Procs' = Procs /\ \A x : Mine(x)' = Mine(x)  BY DEF Procs, N, Mine
  <1>2. ASSUME NEW x \in Procs, Mine(x) = x
        PROVE  (IF pc[x] = "open" THEN k[x] = 0 /\ sec[x] = "grid" ELSE FileOk(x))'
    <2>1. x # p  BY <1>2
    <2>2. pc'[x] = pc[x] /\ k'[x] = k[x] /\ sec'[x] = sec[x] /\ pass'[x] = pass[x]
          /\ files'[Group(x)] = files[Group(x)]
      BY <2>1
    <2>3. IF pc[x] = "open" THEN k[x] = 0 /\ sec[x] = "grid" ELSE FileOk(x)  BY <1>2 DEF Filling
    <2>4. FileOk(x) => FileOk(x)'  BY <2>2, FileKept
    <2> QED  BY <2>2, <2>3, <2>4
  <1>3. ASSUME NEW y \in Procs, Mine(y) # y PROVE MailOk(Mine(y), y)'
    <2>1. PICK x \in Procs : x = Mine(y) /\ Mine(x) = x  BY GroupFacts
    <2>2. x = Mine(y)' /\ x # p  BY <1>1, <2>1
    <2>3. CASE y = p  BY <2>3
    <2>4. CASE y # p
      <3>1. MailOk(x, y)  BY <1>3, <2>1 DEF Filling
      <3>2. pc'[x] = pc[x] /\ k'[x] = k[x] /\ sec'[x] = sec[x] /\ chan'[y][x] = chan[y][x]  BY <2>2, <2>4
      <3>3. MailOk(x, y)'  BY <3>1, <3>2 DEF MailOk, Piece
      <3> QED  BY <2>2, <3>3
    <2> QED  BY <2>3, <2>4
  <1> QED  BY <1>1, <1>2, <1>3 DEF Filling

(* Another piece in the file of q.                                         *)
LEMMA PieceAdded ==
  ASSUME Types, stage = "write", set' = set, NEW q \in Procs, Mine(q) = q, FileOk(q), sec'[q] = sec[q],
         sec[q] \in Sections, k[q] < GroupSize(q), k'[q] = k[q] + 1, pc'[q] = "write",
         files'[Group(q)].n = files[Group(q)].n,
         files'[Group(q)].pieces = Append(files[Group(q)].pieces, Piece(q + k[q], sec[q], 1))
  PROVE  FileOk(q)'
PROOF
  <1>1. GroupSize(q)' = GroupSize(q) /\ Group(q)' = Group(q)  BY DEF GroupSize, Group
  <1>2. \A j : NthPiece(q, j)' = NthPiece(q, j)  BY <1>1 DEF NthPiece, Piece
  <1>3. PICK g \in Nat \ {0}, i \in Nat : g = GroupSize(q) /\ i = k[q] /\ i < g  BY GroupFacts
  <1>4. PICK m \in Nat : m = IF sec[q] = "surf" THEN g + i ELSE i  BY <1>3
  <1>5. Filed(q) = m /\ Filed(q)' = m + 1
    <2>1. Filed(q) = m  BY <1>3, <1>4 DEF Filed
    <2>2. Filed(q)' = IF sec[q] = "surf" THEN g + (i + 1) ELSE i + 1  BY <1>1, <1>3 DEF Filed
    <2>3. (IF sec[q] = "surf" THEN g + (i + 1) ELSE i + 1) = m + 1  BY <1>3, <1>4
    <2> QED  BY <2>1, <2>2, <2>3
  <1>6. q \in Int  BY GroupFacts
  <1>7. PICK x : x = Piece(q + k[q], sec[q], 1)  OBVIOUS
  <1>8. NthPiece(q, m + 1) = x
    <2>1. CASE sec[q] = "grid"
      <3>1. m + 1 <= g /\ q + (m + 1) - 1 = q + i  BY <1>3, <1>4, <1>6, <2>1
      <3> QED  BY <1>3, <1>7, <2>1, <3>1 DEF NthPiece
    <2>2. CASE sec[q] = "surf"
      <3>1. ~(m + 1 <= g) /\ q + (m + 1) - 1 - g = q + i  BY <1>3, <1>4, <1>6, <2>2
      <3> QED  BY <1>3, <1>7, <2>2, <3>1 DEF NthPiece
    <2> QED  BY <2>1, <2>2 DEF Sections
  <1>9. PICK s : s = files[Group(q)].pieces  OBVIOUS
  <1>10. s = [j \in 1 .. m |-> NthPiece(q, j)]  BY <1>5, <1>9 DEF FileOk
  <1>11. Append(s, x) = [j \in 1 .. m + 1 |-> NthPiece(q, j)]
    <2> DEFINE A == {NthPiece(q, j) : j \in 1 .. m + 1}
    <2>1. s \in Seq(A) /\ Len(s) = m
      <3>1. \A j \in 1 .. m : j \in 1 .. m + 1  OBVIOUS
      <3>2. \A j \in 1 .. m : NthPiece(q, j) \in A  BY <3>1
      <3> HIDE DEF A
      <3> QED  BY <1>10, <3>2
    <2>2. x \in A
      <3>1. m + 1 \in 1 .. m + 1  OBVIOUS
      <3> QED  BY <1>8, <3>1
    <2> HIDE DEF A
    <2>3. /\ Append(s, x) \in Seq(A) /\ Len(Append(s, x)) = m + 1
          /\ \A j \in 1 .. m : Append(s, x)[j] = s[j]
          /\ Append(s, x)[m + 1] = x
      BY <2>1, <2>2
    <2>4. PICK t : t = Append(s, x)  OBVIOUS
    <2>5. t = [j \in 1 .. m + 1 |-> t[j]]
      <3>1. t \in Seq(A) /\ Len(t) = m + 1  BY <2>3, <2>4
      <3>2. DOMAIN t = 1 .. m + 1 /\ t = [j \in DOMAIN t |-> t[j]]  BY <3>1
      <3> QED  BY <3>2
    <2>6. \A j \in 1 .. m : t[j] = NthPiece(q, j)  BY <1>10, <2>3, <2>4
    <2>7. \A j \in 1 .. m + 1 : j \in 1 .. m \/ j = m + 1  OBVIOUS
    <2>8. \A j \in 1 .. m + 1 : t[j] = NthPiece(q, j)  BY <1>8, <2>3, <2>4, <2>6, <2>7
    <2> QED  BY <2>4, <2>5, <2>8
  <1>12. files'[Group(q)'].pieces = [j \in 1 .. m + 1 |-> NthPiece(q, j)']  BY <1>1, <1>2, <1>7, <1>9, <1>11
  <1>13. k'[q] <= GroupSize(q)' /\ files'[Group(q)'].n = GroupSize(q)'  BY <1>1, <1>3 DEF FileOk
  <1> QED  BY <1>5, <1>12, <1>13 DEF FileOk

LEMMA FilesInit == Init => FilesInv
PROOF
  <1> SUFFICES ASSUME Init PROVE FilesInv
    OBVIOUS
  <1>1. set \in Settings /\ stage = "write" /\ Procs = 0 .. set.w - 1
    BY DEF Init, Procs, N
  <1>2. \A p \in Procs : pc[p] = "open" /\ k[p] = 0 /\ sec[p] = "grid"  BY <1>1 DEF Init
  <1>3. Types  BY WriteInit
  <1>4. \A p \in Procs : Mine(p) \in Procs  BY <1>1, <1>3, GroupFacts
  <1>5. Filling  BY <1>2, <1>4 DEF Filling, MailOk
  <1> QED  BY <1>1, <1>5 DEF FilesInv

LEMMA HeaderFiles ==
  ASSUME Types, WriteInv, Filling, WriteHeader
  PROVE  Filling'
PROOF
  <1>1. stage = "write" /\ set' = set /\ stage' = stage /\ k' = k /\ sec' = sec /\ At("open")  BY DEF WriteHeader
  <1>2. /\ pc' = [p \in Procs |-> "buffer"]
        /\ files' = [c \in {Group(p) : p \in Procs} |->
                 [n |-> ClusterProcs(set.multi, c, set.w), pieces |-> <<>>]]
    BY DEF WriteHeader
  <1>3. Procs' = Procs /\ \A x : Mine(x)' = Mine(x)  BY <1>1 DEF Procs, N, Mine
  <1>4. ASSUME NEW q \in Procs, Mine(q) = q PROVE FileOk(q)'
    <2>1. k[q] = 0 /\ sec[q] = "grid"  BY <1>1, <1>4 DEF Filling, At
    <2>2. GroupSize(q)' = GroupSize(q) /\ Group(q)' = Group(q)  BY <1>1 DEF GroupSize, Group
    <2>3. GroupSize(q) \in Nat \ {0}  BY <1>1, GroupFacts
    <2>4. Filed(q)' = 0  BY <1>1, <2>1 DEF Filed
    <2>5. files'[Group(q)] = [n |-> GroupSize(q), pieces |-> <<>>]  BY <1>2 DEF GroupSize
    <2>6. [j \in 1 .. 0 |-> NthPiece(q, j)'] = <<>>
      <3>1. 1 .. 0 = {}  OBVIOUS
      <3> QED  BY <3>1
    <2>7. pc'[q] = "buffer"  BY <1>2
    <2>8. files'[Group(q)'].pieces = [j \in 1 .. Filed(q)' |-> NthPiece(q, j)']  BY <2>2, <2>4, <2>5, <2>6
    <2>9. k'[q] <= GroupSize(q)' /\ files'[Group(q)'].n = GroupSize(q)'  BY <1>1, <2>1, <2>2, <2>3, <2>5
    <2> QED  BY <2>7, <2>8, <2>9 DEF FileOk
  <1>5. \A p \in Procs : Mine(p) \in Procs  BY <1>1, GroupFacts
  <1>6. \A p \in Procs : MailOk(Mine(p), p)'
    <2> TAKE p \in Procs
    <2>1. PICK x \in Procs : x = Mine(p) /\ x = Mine(p)'  BY <1>3, <1>5
    <2>2. MailOk(x, p)'  BY <1>2 DEF MailOk
    <2> QED  BY <2>1, <2>2
  <1> QED  BY <1>2, <1>3, <1>4, <1>6 DEF Filling

LEMMA BufferFiles ==
  ASSUME Types, WriteInv, Filling, Buffer
  PROVE  Filling'
PROOF
  <1>1. stage = "write" /\ UNCHANGED <<set, stage, k, pass, sec, files>> /\ At("buffer")  BY DEF Buffer
  <1>2. \A p \in Procs : pc'[p] \in {"write", "announce", "ping"}  BY DEF Buffer
  <1>3. Procs' = Procs /\ \A x : Mine(x)' = Mine(x)  BY <1>1 DEF Procs, N, Mine
  <1>4. ASSUME NEW q \in Procs, Mine(q) = q PROVE FileOk(q)'
    <2>1. FileOk(q)  BY <1>1, <1>4 DEF Filling, At
    <2>2. GroupSize(q)' = GroupSize(q) /\ Group(q)' = Group(q)  BY <1>1 DEF GroupSize, Group
    <2>3. \A j : NthPiece(q, j)' = NthPiece(q, j)  BY <2>2 DEF NthPiece, Piece
    <2>4. Filed(q)' = Filed(q)  BY <1>1, <2>2 DEF Filed
    <2>5. PICK m : m = Filed(q)  OBVIOUS
    <2>6. files[Group(q)].pieces = [j \in 1 .. m |-> NthPiece(q, j)]  BY <2>1, <2>5 DEF FileOk
    <2>7. files'[Group(q)'].pieces = [j \in 1 .. m |-> NthPiece(q, j)']  BY <1>1, <2>2, <2>3, <2>6
    <2> QED  BY <1>1, <1>2, <2>1, <2>2, <2>4, <2>5, <2>7 DEF FileOk
  <1>5. \A p \in Procs : Mine(p) \in Procs  BY <1>1, GroupFacts
  <1>6. \A p \in Procs : MailOk(Mine(p), p)'
    <2> TAKE p \in Procs
    <2>1. PICK x \in Procs : x = Mine(p) /\ x = Mine(p)'  BY <1>3, <1>5
    <2>2. MailOk(x, p)'  BY <1>2 DEF MailOk
    <2> QED  BY <2>1, <2>2
  <1> QED  BY <1>2, <1>3, <1>4, <1>6 DEF Filling

(* All files are complete when the other run starts.                       *)
LEMMA StartFiles ==
  ASSUME Types, WriteInv, Filling, StartReading, ~set.less
  PROVE  Filled'
PROOF
  <1>1. stage = "write" /\ At("written") /\ UNCHANGED <<set, base, files>>  BY DEF StartReading
  <1>2. set \in Settings /\ Procs = 0 .. set.w - 1 /\ Writers = Procs
    BY <1>1, ProcsFacts DEF Types, Writers
  <1>3. base = Header
    <2>1. 0 \in Procs  BY <1>1, <1>2, ProcsFacts DEF Types
    <2>2. pc[0] # "open"  BY <1>1, <2>1 DEF At
    <2> QED  BY <1>1, <2>1, <2>2 DEF WriteInv, Opened, At, Headed
  <1>4. base.surfs = set.surfs  BY <1>2, <1>3, HeaderFacts
  <1>5. ASSUME NEW q \in Procs
        PROVE  /\ files[Group(q)].n = GroupSize(q)
               /\ Chunk(Group(q), "grid", q - Mine(q)) = Piece(q, "grid", 1)
               /\ base.surfs => Chunk(Group(q), "surf", q - Mine(q)) = Piece(q, "surf", 1)
    <2>1. PICK x \in Procs : x = Mine(q) /\ Mine(x) = x  BY <1>1, GroupFacts
    <2>2. FileOk(x) /\ pc[x] = "written"
      <3>1. pc[x] = "written"  BY <1>1 DEF At
      <3> QED  BY <2>1, <3>1 DEF Filling
    <2>3. PICK g \in Nat : g = GroupSize(q) /\ g = GroupSize(x) /\ Group(x) = Group(q) /\ q - x < g
      <3>1. q \in 0 .. set.w - 1  BY <1>2
      <3>2. Group(Mine(q)) = Group(q) /\ GroupSize(Mine(q)) = GroupSize(q) /\ q - Mine(q) < GroupSize(q)
        BY <1>2, <3>1, WriterFacts
      <3>3. GroupSize(q) \in Nat  BY <1>1, GroupFacts
      <3> QED  BY <2>1, <3>2, <3>3
    <2>4. x \in Int /\ q \in Int /\ x <= q
      <3>1. q \in 0 .. set.w - 1  BY <1>2
      <3>2. Mine(q) \in 0 .. q  BY <1>2, <3>1, WriterFacts
      <3> QED  BY <2>1, <3>1, <3>2
    <2>5. PICK i \in Nat : i = q - x  BY <2>4
    <2>6. PICK m : m = Filed(x)  OBVIOUS
    <2>7. m = IF set.surfs THEN g + g ELSE (IF sec[x] = "surf" THEN g + g ELSE g)
      BY <2>2, <2>3, <2>6 DEF FileOk, Filed
    <2>8. files[Group(q)].n = g /\ files[Group(q)].pieces = [j \in 1 .. m |-> NthPiece(x, j)]
      BY <2>2, <2>3, <2>6 DEF FileOk
    <2>9. Chunk(Group(q), "grid", i) = Piece(q, "grid", 1)
      <3>1. i + 1 \in 1 .. m /\ i + 1 <= g /\ x + (i + 1) - 1 = q /\ 0 + i + 1 = i + 1
        BY <2>3, <2>4, <2>5, <2>7
      <3>2. NthPiece(x, i + 1) = Piece(q, "grid", 1)  BY <2>3, <3>1 DEF NthPiece
      <3> QED  BY <2>8, <3>1, <3>2 DEF Chunk
    <2>10. ASSUME set.surfs PROVE Chunk(Group(q), "surf", i) = Piece(q, "surf", 1)
      <3>1. g + i + 1 \in 1 .. m /\ ~(g + i + 1 <= g) /\ x + (g + i + 1) - 1 - g = q
        BY <2>3, <2>4, <2>5, <2>7, <2>10
      <3>2. NthPiece(x, g + i + 1) = Piece(q, "surf", 1)  BY <2>3, <3>1 DEF NthPiece
      <3> QED  BY <2>8, <3>1, <3>2 DEF Chunk
    <2> QED  BY <1>4, <2>1, <2>3, <2>5, <2>8, <2>9, <2>10
  <1>6. Filled
    BY <1>2, <1>5 DEF Filled
  <1>7. \A q : Group(q)' = Group(q) /\ Mine(q)' = Mine(q) /\ GroupSize(q)' = GroupSize(q)
    BY <1>1 DEF Group, Mine, GroupSize
  <1>8. Writers' = Writers /\ \A c, s, i : Chunk(c, s, i)' = Chunk(c, s, i) /\ Piece(c, s, i)' = Piece(c, s, i)
    BY <1>1 DEF Writers, Chunk, Piece
  <1> QED  BY <1>1, <1>6, <1>7, <1>8 DEF Filled

LEMMA FilledKept ==
  ASSUME Filled, UNCHANGED <<set, base, files>>
  PROVE  Filled'
PROOF
  <1>1. \A q : Group(q)' = Group(q) /\ Mine(q)' = Mine(q) /\ GroupSize(q)' = GroupSize(q)
    BY DEF Group, Mine, GroupSize
  <1>2. Writers' = Writers /\ \A c, s, i : Chunk(c, s, i)' = Chunk(c, s, i) /\ Piece(c, s, i)' = Piece(c, s, i)
    BY DEF Writers, Chunk, Piece
  <1> QED  BY <1>1, <1>2 DEF Filled

(* The steps of a writer.                                                  *)
LEMMA OnePiece ==
  ASSUME ~set.less, NEW p, NEW s
  PROVE  NPieces(p) = 1 /\ [i \in 1 .. NPieces(p) |-> Piece(p, s, i)] = <<Piece(p, s, 1)>>
PROOF
  <1>1. NPieces(p) = 1  BY DEF NPieces
  <1>2. 1 .. 1 = {1}  OBVIOUS
  <1>3. [i \in 1 .. 1 |-> Piece(p, s, i)] = <<Piece(p, s, 1)>>  BY <1>2
  <1> QED  BY <1>1, <1>3

LEMMA WriteOwnFiles ==
  ASSUME Types, stage = "write", WriteInv, Filling, ~set.less, NEW q \in Procs, WriteOwn(q)
  PROVE  Filling'
PROOF
  <1>1. pc[q] = "write" /\ pc[q] \in Serving /\ k[q] = 0  BY DEF WriteOwn, Serving
  <1>2. Mine(q) = q  BY <1>1, ServingFacts
  <1>3. /\ UNCHANGED <<set, stage, pc, pass, sec, chan>> /\ k' = [k EXCEPT ![q] = 1]
        /\ files' = [files EXCEPT ![Group(q)].pieces = @ \o <<Piece(q, sec[q], 1)>>]
    BY OnePiece DEF WriteOwn
  <1>4. k'[q] = 1 /\ \A x \in Procs \ {q} : k'[x] = k[x]  BY <1>3 DEF Types
  <1>5. FileOk(q)  BY <1>1, <1>2 DEF Filling
  <1>6. GroupSize(q) \in Nat \ {0} /\ q \in Int  BY GroupFacts
  <1>7. \A x \in Procs : x # q /\ Mine(x) = x => files'[Group(x)] = files[Group(x)]
    <2> TAKE x \in Procs
    <2> HAVE x # q /\ Mine(x) = x
    <2>1. Group(x) # Group(q)  BY <1>2, GroupFacts
    <2> QED  BY <1>3, <2>1
  <1>8. PICK f : f = files[Group(q)]  OBVIOUS
  <1>9. /\ files'[Group(q)].n = f.n
        /\ files'[Group(q)].pieces = f.pieces \o <<Piece(q, sec[q], 1)>>
    <2>1. Group(q) \in DOMAIN files /\ f = [n |-> f.n, pieces |-> f.pieces]
      <3>1. Headed  BY <1>1 DEF WriteInv, Opened, At
      <3>2. q \in 0 .. set.w - 1  BY GroupFacts
      <3> QED  BY <1>8, <3>1, <3>2 DEF Headed
    <2>2. files'[Group(q)] = [f EXCEPT !.pieces = f.pieces \o <<Piece(q, sec[q], 1)>>]  BY <1>3, <1>8, <2>1
    <2> QED  BY <2>1, <2>2
  <1>10. f.pieces \o <<Piece(q, sec[q], 1)>> = Append(f.pieces, Piece(q + k[q], sec[q], 1))
    <2>1. PICK m : m = Filed(q)  OBVIOUS
    <2>2. f.pieces = [j \in 1 .. m |-> NthPiece(q, j)]  BY <1>5, <1>8, <2>1 DEF FileOk
    <2>3. m \in Nat  BY <1>1, <1>6, <2>1 DEF Filed
    <2>4. PICK x : x = Piece(q, sec[q], 1) /\ x = Piece(q + k[q], sec[q], 1)
      <3>1. q + 0 = q  BY <1>6
      <3> QED  BY <1>1, <3>1
    <2>5. f.pieces \o <<x>> = Append(f.pieces, x)
      <3> DEFINE A == {NthPiece(q, j) : j \in 1 .. m} \union {x}
      <3>1. f.pieces \in Seq(A) /\ x \in A
        <4>1. \A j \in 1 .. m : NthPiece(q, j) \in A  OBVIOUS
        <4>2. x \in A  OBVIOUS
        <4> HIDE DEF A
        <4> QED  BY <2>2, <2>3, <4>1, <4>2
      <3> HIDE DEF A
      <3> QED  BY <3>1
    <2> QED  BY <2>4, <2>5
  <1>11. FileOk(q)'
    <2>1. /\ sec'[q] = sec[q] /\ sec[q] \in Sections /\ k[q] < GroupSize(q) /\ k'[q] = k[q] + 1 /\ pc'[q] = "write"
      BY <1>1, <1>3, <1>4, <1>6 DEF Types
    <2>2. files'[Group(q)].n = files[Group(q)].n  BY <1>8, <1>9
    <2>3. files'[Group(q)].pieces = Append(files[Group(q)].pieces, Piece(q + k[q], sec[q], 1))
      BY <1>8, <1>9, <1>10
    <2> QED  BY <1>2, <1>3, <1>5, <2>1, <2>2, <2>3, PieceAdded
  <1>12. \A p \in Procs : Mine(p) = q /\ p # q => MailOk(q, p)'  BY <1>1, <1>3 DEF MailOk
  <1> QED  BY <1>1, <1>2, <1>3, <1>4, <1>7, <1>11, <1>12, WriterFiles

LEMMA WritePieceFiles ==
  ASSUME Types, stage = "write", WriteInv, Filling, ~set.less, NEW q \in Procs, WritePiece(q)
  PROVE  Filling'
PROOF
  <1>1. pc[q] = "wait" /\ pc[q] \in Serving  BY DEF WritePiece, Serving
  <1>2. /\ Mine(q) = q /\ k[q] \in Nat /\ WritePart(q)
        /\ Partner(q) = q + k[q] /\ Partner(q) \in Procs
        /\ Partner(q) # q /\ Mine(Partner(q)) = q
    BY <1>1, ServingFacts
  <1>3. FileOk(q)  BY <1>1, <1>2 DEF Filling
  <1>4. pass[q] = 1  BY <1>1, <1>3 DEF FileOk
  <1>5. PICK r \in Procs : r = Partner(q)  BY <1>2
  <1>6. Head(chan[r][q]) = Piece(q + k[q], sec[q], 1)
    <2>1. q \in Int /\ r = q + k[q] /\ Mine(r) = q /\ r # q  BY <1>2, <1>5, GroupFacts
    <2>2. k[q] = r - q  BY <1>2, <2>1
    <2>3. MailOk(q, r)  BY <2>1 DEF Filling
    <2>4. chan[r][q] # <<>>  BY <1>5 DEF WritePiece, Arrived
    <2>5. chan[r][q] = <<Piece(r, sec[q], 1)>>  BY <1>1, <2>2, <2>3, <2>4 DEF MailOk
    <2> QED  BY <2>1, <2>5, ShortSequences
  <1>7. /\ UNCHANGED <<set, stage, sec>> /\ Receive(q, r)
        /\ pass' = [pass EXCEPT ![q] = @ - 1]
        /\ files' = [files EXCEPT ![Group(q)].pieces = Append(@, Piece(q + k[q], sec[q], 1))]
        /\ Go(q, "write") /\ k' = [k EXCEPT ![q] = @ + 1]
    <2>1. ~(pass[q] > 1)  BY <1>4
    <2> QED  BY <1>5, <1>6, <2>1 DEF WritePiece
  <1>8. /\ k'[q] = k[q] + 1 /\ \A x \in Procs \ {q} : k'[x] = k[x] /\ pass'[x] = pass[x]
    BY <1>7 DEF Types
  <1>9. pc'[q] = "write" /\ \A x \in Procs \ {q} : pc'[x] = pc[x]  BY <1>7, GoFacts
  <1>10. \A x \in Procs : x # q /\ Mine(x) = x => files'[Group(x)] = files[Group(x)]
    <2> TAKE x \in Procs
    <2> HAVE x # q /\ Mine(x) = x
    <2>1. Group(x) # Group(q)  BY <1>2, GroupFacts
    <2> QED  BY <1>7, <2>1
  <1>11. /\ files'[Group(q)].n = files[Group(q)].n
         /\ files'[Group(q)].pieces = Append(files[Group(q)].pieces, Piece(q + k[q], sec[q], 1))
    <2>1. PICK f : f = files[Group(q)]  OBVIOUS
    <2>2. Group(q) \in DOMAIN files /\ f = [n |-> f.n, pieces |-> f.pieces]
      <3>1. Headed  BY <1>1 DEF WriteInv, Opened, At
      <3>2. q \in 0 .. set.w - 1  BY GroupFacts
      <3> QED  BY <2>1, <3>1, <3>2 DEF Headed
    <2>3. PICK x : x = Append(f.pieces, Piece(q + k[q], sec[q], 1))  OBVIOUS
    <2>4. files'[Group(q)] = [f EXCEPT !.pieces = x]  BY <1>7, <2>1, <2>2, <2>3
    <2> QED  BY <2>1, <2>2, <2>3, <2>4
  <1>12. FileOk(q)'
    <2>1. sec'[q] = sec[q] /\ sec[q] \in Sections  BY <1>7 DEF Types
    <2>2. k[q] < GroupSize(q)
      <3>1. k[q] \in 1 .. GroupSize(q) - 1  BY <1>1, <1>2 DEF WritePart
      <3>2. GroupSize(q) \in Nat \ {0}  BY GroupFacts
      <3> QED  BY <3>1, <3>2
    <2> QED  BY <1>2, <1>3, <1>7, <1>8, <1>9, <1>11, <2>1, <2>2, PieceAdded
  <1>13. \A p \in Procs : Mine(p) = q /\ p # q => MailOk(q, p)'  BY <1>9 DEF MailOk
  <1>14. \A x, y \in Procs \ {q} : chan'[x][y] = chan[x][y]
    <2>1. Chans /\ Procs' = Procs  BY <1>7 DEF Types, Procs, N
    <2> QED  BY <1>7, <2>1, ReceiveFacts
  <1> QED  BY <1>2, <1>7, <1>8, <1>9, <1>10, <1>12, <1>13, <1>14, WriterFiles

(* A writer that only moves on within a piece.                             *)
LEMMA WriterTurns ==
  ASSUME NEW q, FileOk(q), set' = set, k'[q] = k[q], sec'[q] = sec[q], files' = files,
         pc'[q] \in {"post", "sendping", "wait"}, pass'[q] = 1
  PROVE  FileOk(q)'
PROOF
  <1>1. GroupSize(q)' = GroupSize(q) /\ Group(q)' = Group(q)  BY DEF GroupSize, Group
  <1>2. \A j : NthPiece(q, j)' = NthPiece(q, j)  BY <1>1 DEF NthPiece, Piece
  <1>3. Filed(q)' = Filed(q)  BY <1>1 DEF Filed
  <1>4. PICK m : m = Filed(q)  OBVIOUS
  <1>5. files[Group(q)].pieces = [j \in 1 .. m |-> NthPiece(q, j)]  BY <1>4 DEF FileOk
  <1>6. files'[Group(q)'].pieces = [j \in 1 .. m |-> NthPiece(q, j)']  BY <1>1, <1>2, <1>5
  <1> QED  BY <1>1, <1>3, <1>4, <1>6 DEF FileOk

LEMMA WriteNextFiles ==
  ASSUME Types, stage = "write", WriteInv, Filling, ~set.less, NEW q \in Procs, WriteNext(q)
  PROVE  Filling'
PROOF
  <1>1. pc[q] = "write" /\ pc[q] \in Serving  BY DEF WriteNext, Serving
  <1>2. Mine(q) = q /\ FileOk(q)
    <2>1. Mine(q) = q  BY <1>1, ServingFacts
    <2> QED  BY <1>1, <2>1 DEF Filling
  <1>3. /\ UNCHANGED <<set, stage, k, sec, chan, files>> /\ Go(q, "post") /\ pass' = [pass EXCEPT ![q] = 1]
    BY DEF WriteNext
  <1>4. pc'[q] = "post" /\ \A x \in Procs \ {q} : pc'[x] = pc[x]  BY <1>3, GoFacts
  <1>5. pass'[q] = 1 /\ \A x \in Procs \ {q} : pass'[x] = pass[x]  BY <1>3 DEF Types
  <1>6. FileOk(q)'  BY <1>2, <1>3, <1>4, <1>5, WriterTurns
  <1>7. \A p \in Procs : Mine(p) = q /\ p # q => MailOk(q, p)'  BY <1>4 DEF MailOk
  <1> QED  BY <1>2, <1>3, <1>4, <1>5, <1>6, <1>7, WriterFiles

LEMMA WritePostFiles ==
  ASSUME Types, stage = "write", WriteInv, Filling, ~set.less, NEW q \in Procs, PostReceive(q)
  PROVE  Filling'
PROOF
  <1>1. pc[q] = "post" /\ pc[q] \in Serving  BY DEF PostReceive, Serving
  <1>2. Mine(q) = q /\ FileOk(q)
    <2>1. Mine(q) = q  BY <1>1, ServingFacts
    <2> QED  BY <1>1, <2>1 DEF Filling
  <1>3. UNCHANGED <<set, stage, k, sec, chan, files, pass>> /\ Go(q, "sendping")  BY DEF PostReceive
  <1>4. pc'[q] = "sendping" /\ \A x \in Procs \ {q} : pc'[x] = pc[x]  BY <1>3, GoFacts
  <1>5. pass'[q] = 1  BY <1>1, <1>2, <1>3 DEF FileOk
  <1>6. FileOk(q)'  BY <1>2, <1>3, <1>4, <1>5, WriterTurns
  <1>7. \A p \in Procs : Mine(p) = q /\ p # q => MailOk(q, p)'  BY <1>4 DEF MailOk
  <1> QED  BY <1>2, <1>3, <1>4, <1>6, <1>7, WriterFiles

LEMMA WritePingFiles ==
  ASSUME Types, stage = "write", WriteInv, Filling, ~set.less, NEW q \in Procs, SendPing(q)
  PROVE  Filling'
PROOF
  <1>1. pc[q] = "sendping" /\ pc[q] \in Serving  BY DEF SendPing, Serving
  <1>2. Mine(q) = q /\ FileOk(q)
    <2>1. Mine(q) = q  BY <1>1, ServingFacts
    <2> QED  BY <1>1, <2>1 DEF Filling
  <1>3. PICK r \in Procs : r = Partner(q) /\ r # q  BY <1>1, ServingFacts
  <1>4. UNCHANGED <<set, stage, k, sec, files, pass>> /\ Go(q, "wait") /\ Send(q, r, Ping)
    BY <1>3 DEF SendPing
  <1>5. pc'[q] = "wait" /\ \A x \in Procs \ {q} : pc'[x] = pc[x]  BY <1>4, GoFacts
  <1>6. pass'[q] = 1  BY <1>1, <1>2, <1>4 DEF FileOk
  <1>7. FileOk(q)'  BY <1>2, <1>4, <1>5, <1>6, WriterTurns
  <1>8. \A x, y \in Procs : x # q \/ y # r => chan'[x][y] = chan[x][y]
    <2>1. Chans /\ Procs' = Procs  BY <1>4 DEF Types, Procs, N
    <2> QED  BY <1>4, <2>1, SendFacts
  <1>9. ASSUME NEW p \in Procs, Mine(p) = q, p # q PROVE MailOk(q, p)'
    <2> SUFFICES ASSUME k[q] = p - q PROVE chan'[p][q] = <<>>
      BY <1>4 DEF MailOk
    <2>1. WritePair(q, p) /\ q \in Int /\ p \in Int  BY <1>1, <1>9, ServingFacts
    <2>2. Owing(q, p)  BY <1>1, <2>1, WithPartner
    <2> QED  BY <1>8, <1>9, <2>2 DEF Owing
  <1> QED  BY <1>2, <1>4, <1>5, <1>7, <1>8, <1>9, WriterFiles

LEMMA EndSectionFiles ==
  ASSUME Types, stage = "write", WriteInv, Filling, ~set.less, NEW q \in Procs, EndSection(q)
  PROVE  Filling'
PROOF
  <1>1. pc[q] = "write" /\ pc[q] \in Serving /\ k[q] >= GroupSize(q)  BY DEF EndSection, Serving
  <1>2. Mine(q) = q /\ FileOk(q)
    <2>1. Mine(q) = q  BY <1>1, ServingFacts
    <2> QED  BY <1>1, <2>1 DEF Filling
  <1>3. UNCHANGED <<set, stage, chan, files, pass>> /\ NextSection(q)  BY DEF EndSection
  <1>4. /\ \A x \in Procs \ {q} : pc'[x] = pc[x] /\ k'[x] = k[x] /\ sec'[x] = sec[x]
        /\ IF set.surfs /\ ~set.less /\ sec[q] = "grid"
           THEN pc'[q] = "buffer" /\ sec'[q] = "surf" /\ k'[q] = 0
           ELSE pc'[q] = "written" /\ sec'[q] = sec[q] /\ k'[q] = k[q]
    BY <1>3, NextSectionFacts
  <1>5. PICK g \in Nat : g = GroupSize(q) /\ k[q] = g
    <2>1. GroupSize(q) \in Nat /\ k[q] \in Nat  BY GroupFacts
    <2> QED  BY <1>1, <1>2, <2>1 DEF FileOk
  <1>6. sec[q] \in Sections  BY DEF Types
  <1>7. FileOk(q)'
    <2>1. GroupSize(q)' = GroupSize(q) /\ Group(q)' = Group(q)  BY <1>3 DEF GroupSize, Group
    <2>2. \A j : NthPiece(q, j)' = NthPiece(q, j)  BY <2>1 DEF NthPiece, Piece
    <2>3. Filed(q)' = Filed(q)  BY <1>4, <1>5, <1>6, <2>1 DEF Filed, Sections
    <2>4. PICK m : m = Filed(q)  OBVIOUS
    <2>5. files[Group(q)].pieces = [j \in 1 .. m |-> NthPiece(q, j)]  BY <1>2, <2>4 DEF FileOk
    <2>6. files'[Group(q)'].pieces = [j \in 1 .. m |-> NthPiece(q, j)']  BY <1>3, <2>1, <2>2, <2>5
    <2>7. k'[q] <= GroupSize(q)' /\ files'[Group(q)'].n = GroupSize(q)'
      BY <1>2, <1>3, <1>4, <1>5, <2>1 DEF FileOk
    <2>8. pc'[q] \in {"buffer", "written"}  BY <1>4
    <2>9. pc'[q] = "written" => k'[q] = GroupSize(q)' /\ (set'.surfs => sec'[q] = "surf")
      BY <1>3, <1>4, <1>5, <1>6, <2>1 DEF Sections
    <2> QED  BY <2>3, <2>4, <2>6, <2>7, <2>8, <2>9 DEF FileOk
  <1>8. pc'[q] # "open" /\ pc'[q] # "wait"  BY <1>4
  <1>9. \A p \in Procs : Mine(p) = q /\ p # q => MailOk(q, p)'  BY <1>8 DEF MailOk
  <1> QED  BY <1>2, <1>3, <1>4, <1>7, <1>8, <1>9, WriterFiles

LEMMA WriteHearPingFiles ==
  ASSUME Types, stage = "write", WriteInv, Filling, ~set.less, NEW p \in Procs, HearPing(p)
  PROVE  Filling'
PROOF
  <1>1. pc[p] = "ping"
    <2>1. pc[p] # "await"  BY WritePcs DEF Serving
    <2> QED  BY <2>1 DEF HearPing
  <1>2. Mine(p) # p /\ Mine(p) \in Procs /\ Partner(p) = Mine(p)  BY <1>1, OwnerFacts
  <1>3. PICK q \in Procs : q = Mine(p)  BY <1>2
  <1>4. UNCHANGED <<set, stage, k, sec, files, pass>> /\ Receive(p, q) /\ Go(p, "rsend")
    BY <1>2, <1>3 DEF HearPing
  <1>5. \A x \in Procs \ {p} : pc'[x] = pc[x]  BY <1>4, GoFacts
  <1>6. \A x, y \in Procs : x # q \/ y # p => chan'[x][y] = chan[x][y]
    <2>1. Chans /\ Procs' = Procs  BY <1>4 DEF Types, Procs, N
    <2> QED  BY <1>4, <2>1, ReceiveFacts
  <1>7. MailOk(Mine(p), p)'
    <2>1. MailOk(q, p)  BY <1>2, <1>3 DEF Filling
    <2>2. chan'[p][q] = chan[p][q] /\ pc'[q] = pc[q]  BY <1>2, <1>3, <1>5, <1>6
    <2>3. MailOk(q, p)'  BY <1>4, <2>1, <2>2 DEF MailOk, Piece
    <2>4. q = Mine(p)'  BY <1>3, <1>4 DEF Mine
    <2> QED  BY <2>3, <2>4
  <1>8. \A x, y \in Procs \ {p} : chan'[x][y] = chan[x][y]  BY <1>6
  <1> QED  BY <1>2, <1>4, <1>5, <1>7, <1>8, OwnerFiles

LEMMA SendPieceFiles ==
  ASSUME Types, stage = "write", WriteInv, Filling, ~set.less, NEW p \in Procs, SendPiece(p)
  PROVE  Filling'
PROOF
  <1>1. pc[p] = "rsend"  BY DEF SendPiece
  <1>2. Mine(p) # p /\ Mine(p) \in Procs /\ WritePair(Mine(p), p) /\ k[p] \in Nat  BY <1>1, OwnerFacts
  <1>3. PICK q \in Procs : q = Mine(p)  BY <1>2
  <1>4. Owing(q, p) /\ pc[q] = "wait"
    <2>1. ~Level(q, p) /\ ~Before(q, p) /\ ~Answered(q, p) /\ ~After(q, p) /\ pc[p] # "written"
      BY <1>1 DEF Level, Before, Answered, After, Gone
    <2> QED  BY <1>1, <1>2, <1>3, <2>1 DEF WritePair, Owing
  <1>5. k[p] = 0 /\ sec[p] = sec[q] /\ chan[p][q] = <<>>
    <2>1. k[p] < NPieces(p) /\ NPieces(p) = 1  BY <1>4 DEF Owing, NPieces
    <2> QED  BY <1>2, <1>4, <2>1 DEF Owing
  <1>6. /\ UNCHANGED <<set, stage, files, pass>> /\ Send(p, q, Piece(p, sec[q], 1)) /\ NextSection(p)
    <2>1. NPieces(p) = 1 /\ k[p] + 1 = 1 /\ ~(1 < 1)  BY <1>5 DEF NPieces
    <2> QED  BY <1>3, <1>5, <2>1 DEF SendPiece
  <1>7. \A x \in Procs \ {p} : pc'[x] = pc[x] /\ k'[x] = k[x] /\ sec'[x] = sec[x]
    BY <1>6, NextSectionFacts
  <1>8. /\ chan'[p][q] = <<Piece(p, sec[q], 1)>>
        /\ \A x, y \in Procs : x # p \/ y # q => chan'[x][y] = chan[x][y]
    <2>1. PICK m : m = Piece(p, sec[q], 1)  OBVIOUS
    <2>2. Chans /\ Procs' = Procs /\ Send(p, q, m)  BY <1>6, <2>1 DEF Types, Procs, N
    <2>3. /\ chan'[p][q] = Append(chan[p][q], m)
          /\ \A x, y \in Procs : x # p \/ y # q => chan'[x][y] = chan[x][y]
      BY <2>2, SendFacts
    <2>4. Append(<<>>, m) = <<m>>  BY ShortSequences
    <2> QED  BY <1>5, <2>1, <2>3, <2>4
  <1>9. MailOk(Mine(p), p)'
    <2>1. sec'[q] = sec[q]  BY <1>2, <1>3, <1>7
    <2>2. MailOk(q, p)'  BY <1>8, <2>1 DEF MailOk, Piece
    <2>3. q = Mine(p)'  BY <1>3, <1>6 DEF Mine
    <2> QED  BY <2>2, <2>3
  <1>10. \A x, y \in Procs \ {p} : chan'[x][y] = chan[x][y]  BY <1>8
  <1> QED  BY <1>2, <1>6, <1>7, <1>9, <1>10, OwnerFiles

LEMMA SetKept == [Next]_vars => set' = set
PROOF
  <1> SUFFICES ASSUME [Next]_vars PROVE set' = set
    OBVIOUS
  <1>1. CASE UNCHANGED vars  BY <1>1 DEF vars
  <1>2. CASE WriteHeader \/ Buffer \/ StartReading \/ ReadHeader \/ Enter \/ ReadBroadcast \/ Finish
    BY <1>2 DEF WriteHeader, Buffer, StartReading, ReadHeader, Enter, ReadBroadcast, Finish
  <1>3. ASSUME NEW p \in Procs,
               \/ WriteOwn(p) \/ WriteNext(p) \/ HearPasses(p) \/ PostReceive(p) \/ SendPing(p)
               \/ WritePiece(p) \/ EndSection(p) \/ Announce(p) \/ HearPing(p) \/ SendPiece(p)
        PROVE  set' = set
    BY <1>3 DEF WriteOwn, WriteNext, HearPasses, PostReceive, SendPing, WritePiece, EndSection, Announce,
                HearPing, SendPiece
  <1>4. ASSUME NEW p \in Procs,
               \/ ReadOwn(p) \/ ReadMine(p) \/ SendSize(p) \/ SendChunk(p) \/ EndFile(p)
               \/ HearSize(p) \/ TakeChunk(p) \/ EndTurns(p)
        PROVE  set' = set
    BY <1>4 DEF ReadOwn, ReadMine, SendSize, SendChunk, EndFile, HearSize, TakeChunk, EndTurns
  <1> QED  BY <1>1, <1>2, <1>3, <1>4 DEF Next

LEMMA FilesStep == Types /\ HandshakeInv /\ FilesInv /\ [Next]_vars => FilesInv'
PROOF
  <1> SUFFICES ASSUME Types, WriteInv, ReadInv, FilesInv, [Next]_vars, ~set.less PROVE FilesInv'
    <2>1. [Next]_vars => set' = set  BY SetKept
    <2> QED  BY <2>1 DEF HandshakeInv, FilesInv
  <1>1. stage \in {"write", "read"} /\ ~("write" = "read")  BY DEF Types
  <1>2. stage = "write" => Filling  BY DEF FilesInv
  <1>3. stage = "read" => Filled  BY DEF FilesInv
  <1>4. CASE WriteHeader
    <2>1. stage = "write" /\ stage' = "write"  BY <1>4 DEF WriteHeader
    <2> QED  BY <1>2, <1>4, <2>1, HeaderFiles DEF FilesInv
  <1>5. CASE Buffer
    <2>1. stage = "write" /\ stage' = "write"  BY <1>5 DEF Buffer
    <2> QED  BY <1>2, <1>5, <2>1, BufferFiles DEF FilesInv
  <1>6. CASE StartReading
    <2>1. stage = "write" /\ stage' = "read"  BY <1>6 DEF StartReading
    <2> QED  BY <1>2, <1>6, <2>1, StartFiles DEF FilesInv
  <1>7. CASE ReadHeader \/ Enter \/ ReadBroadcast \/ Finish
    <2>1. stage = "read" /\ UNCHANGED <<set, stage, base, files>>
      BY <1>7 DEF ReadHeader, Enter, ReadBroadcast, Finish
    <2> QED  BY <1>3, <2>1, FilledKept DEF FilesInv
  <1>8. ASSUME NEW p \in Procs,
               \/ WriteOwn(p) \/ WriteNext(p) \/ HearPasses(p) \/ PostReceive(p) \/ SendPing(p)
               \/ WritePiece(p) \/ EndSection(p) \/ Announce(p) \/ HearPing(p) \/ SendPiece(p)
               \/ ReadOwn(p) \/ ReadMine(p) \/ SendSize(p) \/ SendChunk(p) \/ EndFile(p)
               \/ HearSize(p) \/ TakeChunk(p) \/ EndTurns(p)
        PROVE  FilesInv'
    <2>1. CASE stage = "write"
      <3>1. Filling /\ stage' = "write"  BY <1>2, <1>8, <2>1, WriteStep
      <3>2. ~(ReadOwn(p) \/ ReadMine(p) \/ SendSize(p) \/ SendChunk(p) \/ EndFile(p) \/ TakeChunk(p))
        BY <2>1 DEF ReadOwn, ReadMine, SendSize, SendChunk, EndFile, TakeChunk, ReadsFor
      <3>3. ~(HearSize(p) \/ EndTurns(p))
        <4>1. pc[p] # "size"  BY <2>1, WritePcs DEF Serving
        <4> QED  BY <4>1 DEF HearSize, EndTurns
      <3>4. ~HearPasses(p)
        <4> SUFFICES ASSUME pc[p] = "announced" PROVE FALSE
          BY DEF HearPasses
        <4>1. Mine(p) = p  BY <2>1, ServingFacts DEF Serving
        <4> QED  BY <3>1, <4>1 DEF Filling, FileOk
      <3>5. ~Announce(p)
        <4> SUFFICES ASSUME pc[p] = "announce" PROVE FALSE
          BY DEF Announce
        <4>1. WritePair(Mine(p), p)  BY <2>1, OwnerFacts
        <4>2. PICK q : q = Mine(p)  OBVIOUS
        <4>3. ~Level(q, p) /\ ~Before(q, p) /\ ~Owing(q, p)  BY DEF Level, Before, Owing
        <4>4. ~Answered(q, p) /\ ~After(q, p)  BY DEF Answered, After, Gone
        <4> QED  BY <4>1, <4>2, <4>3, <4>4 DEF WritePair
      <3>6. Filling'
        <4>1. CASE WriteOwn(p)  BY <2>1, <3>1, <4>1, WriteOwnFiles
        <4>2. CASE WriteNext(p)  BY <2>1, <3>1, <4>2, WriteNextFiles
        <4>3. CASE PostReceive(p)  BY <2>1, <3>1, <4>3, WritePostFiles
        <4>4. CASE SendPing(p)  BY <2>1, <3>1, <4>4, WritePingFiles
        <4>5. CASE WritePiece(p)  BY <2>1, <3>1, <4>5, WritePieceFiles
        <4>6. CASE EndSection(p)  BY <2>1, <3>1, <4>6, EndSectionFiles
        <4>7. CASE HearPing(p)  BY <2>1, <3>1, <4>7, WriteHearPingFiles
        <4>8. CASE SendPiece(p)  BY <2>1, <3>1, <4>8, SendPieceFiles
        <4> QED  BY <1>8, <3>2, <3>3, <3>4, <3>5, <4>1, <4>2, <4>3, <4>4, <4>5, <4>6, <4>7, <4>8
      <3> QED  BY <3>1, <3>6 DEF FilesInv
    <2>2. CASE stage = "read"
      <3>1. UNCHANGED <<set, stage, base, files>>
        <4>1. pc[p] \notin {"write", "announced", "announce", "ping"}  BY <2>2, ReadStagePcs DEF ReadPcs
        <4>2. ~(WriteOwn(p) \/ WriteNext(p) \/ HearPasses(p) \/ EndSection(p) \/ Announce(p))
          BY <4>1 DEF WriteOwn, WriteNext, HearPasses, EndSection, Announce
        <4>3. ~(WritePiece(p) \/ SendPiece(p))  BY <2>2 DEF WritePiece, SendPiece
        <4> QED  BY <1>8, <4>2, <4>3 DEF PostReceive, SendPing, HearPing, ReadOwn, ReadMine, SendSize, SendChunk,
                  EndFile, HearSize, TakeChunk, EndTurns
      <3> QED  BY <1>3, <2>2, <3>1, FilledKept DEF FilesInv
    <2> QED  BY <1>1, <2>1, <2>2
  <1>9. CASE UNCHANGED vars
    <2>1. /\ set' = set /\ stage' = stage /\ pc' = pc /\ k' = k /\ pass' = pass /\ sec' = sec /\ chan' = chan
          /\ base' = base /\ files' = files
      BY <1>9 DEF vars
    <2>2. CASE stage = "write"
      <3>1. Procs' = Procs /\ \A x : Mine(x)' = Mine(x)  BY <2>1 DEF Procs, N, Mine
      <3>2. \A q : FileOk(q) => FileOk(q)'
        <4> TAKE q
        <4> HAVE FileOk(q)
        <4> QED  BY <2>1, FileKept
      <3>3. \A p \in Procs : Mine(p) # p => MailOk(Mine(p), p)'
        <4> SUFFICES ASSUME NEW p \in Procs, Mine(p) # p PROVE MailOk(Mine(p), p)'
          OBVIOUS
        <4>1. PICK x : x = Mine(p) /\ x = Mine(p)'  BY <3>1
        <4>2. MailOk(x, p)  BY <1>2, <2>2, <4>1 DEF Filling
        <4>3. MailOk(x, p)'  BY <2>1, <4>2 DEF MailOk, Piece
        <4> QED  BY <4>1, <4>3
      <3>4. Filling'  BY <1>2, <2>1, <2>2, <3>1, <3>2, <3>3 DEF Filling
      <3> QED  BY <2>1, <2>2, <3>4 DEF FilesInv
    <2>3. CASE stage = "read"  BY <1>3, <2>1, <2>3, FilledKept DEF FilesInv
    <2> QED  BY <1>1, <2>2, <2>3
  <1> QED  BY <1>4, <1>5, <1>6, <1>7, <1>8, <1>9 DEF Next

-----------------------------------------------------------------------------
LEMMA FilesBounded ==
  ASSUME NEW m \in MultiKinds, NEW n \in Nat \ {0}, NEW p \in 0 .. n - 1
  PROVE  IF NFiles(m, n) = 0 THEN \A c : FirstProc(m, Icluster(m, c, n), n) = 0 /\ Icluster(m, c, n) = 0
         ELSE Icluster(m, p, n) \in 0 .. NFiles(m, n) - 1
PROOF
  <1>1. n \in Int /\ n > 0 /\ p \in Nat /\ p < n  OBVIOUS
  <1>2. CASE m.kind = "single"  BY <1>2 DEF NFiles, Icluster, FirstProc
  <1>3. CASE m.kind = "each"
    <2>1. NFiles(m, n) = n /\ Icluster(m, p, n) = p  BY <1>3 DEF NFiles, Icluster
    <2> QED  BY <1>1, <2>1
  <1>4. CASE m.kind = "fileper"
    <2>1. m.num \in Nat \ {0}  BY <1>4 DEF MultiKinds
    <2>2. PICK h \in Nat \ {0} : h = m.num  BY <2>1
    <2>3. PICK d \in Int : d = n \div h /\ d * h <= n  BY <1>1, <2>2, DivRounds
    <2>4. PICK v \in Int : v = IF n % h = 0 THEN 0 ELSE 1  OBVIOUS
    <2>5. n = h * d + (n % h) /\ n % h \in 0 .. h - 1
      <3>1. h \in Int /\ h > 0  BY <2>2
      <3>2. n = h * (n \div h) + (n % h) /\ n % h \in 0 .. h - 1  BY <1>1, <3>1, Z3
      <3> QED  BY <2>3, <3>2
    <2>6. PICK c \in Int : c = p \div h /\ c * h <= p  BY <1>1, <2>2, DivRounds
    <2>7. NFiles(m, n) = d + v /\ Icluster(m, p, n) = c
      BY <1>4, <2>2, <2>3, <2>4, <2>6 DEF NFiles, Icluster
    <2>8. c >= 0
      <3>1. p >= 0 * h  BY <1>1, <2>2
      <3> QED  BY <1>1, <2>2, <2>6, <3>1, DivAtLeast
    <2>9. h * d = d * h /\ d * h \in Int /\ c * h \in Int  BY <2>2, <2>3, <2>6
    <2>10. (d + 1) * h = d * h + h  BY <2>2, <2>3
    <2>11. c < d + v
      <3>1. CASE v = 0
        <4>1. c * h < d * h
          <5>1. n = d * h  BY <2>4, <2>5, <2>9, <3>1
          <5> QED  BY <1>1, <2>6, <2>9, <5>1
        <4>2. c < d  BY <2>2, <2>3, <2>6, <4>1, ProductMonotone
        <4> QED  BY <3>1, <4>2
      <3>2. CASE v = 1
        <4>1. c * h < (d + 1) * h  BY <1>1, <2>2, <2>5, <2>6, <2>9, <2>10
        <4>2. d + 1 \in Int /\ h \in Int /\ h > 0  BY <2>2, <2>3
        <4>3. c < d + 1  BY <2>6, <4>1, <4>2, ProductMonotone
        <4> QED  BY <3>2, <4>3
      <3> QED  BY <2>4, <3>1, <3>2
    <2> QED  BY <2>3, <2>4, <2>6, <2>7, <2>8, <2>11
  <1>5. CASE m.kind = "nfile"
    <2>1. m.num \in Nat \ {0}  BY <1>5 DEF MultiKinds
    <2>2. PICK f \in 1 .. n : f = Nfile(m, n)  BY <1>1, <2>1 DEF Nfile
    <2>3. NFiles(m, n) = f /\ Icluster(m, p, n) = NfileCluster(p, f, n)  BY <1>5, <2>2 DEF Icluster, NFiles
    <2>4. NfileCluster(p, f, n) \in 0 .. f - 1  BY NfileRanges
    <2> QED  BY <2>2, <2>3, <2>4
  <1> QED  BY <1>2, <1>3, <1>4, <1>5 DEF MultiKinds

(* Where the chunk of a writer is: the file, and the place in it.          *)
Place(q) == q - Mine(q)

LEMMA Places ==
  ASSUME set \in Settings, Headed, ~set.less, Filled
  PROVE  /\ base.w = set.w /\ base.multiproc \in Nat
         /\ \A q \in Writers : /\ Group(q) \in DOMAIN files /\ Group(q) \in Nat
                               /\ Place(q) \in Nat /\ Place(q) < files[Group(q)].n
         /\ \A c \in DOMAIN files, i \in Nat : i < files[c].n =>
              \E q \in Writers : Group(q) = c /\ Place(q) = i
         /\ \A q, x \in Writers : Group(q) = Group(x) /\ Place(q) = Place(x) => q = x
         /\ \A q \in Writers : /\ Chunk(Group(q), "grid", Place(q)) = Piece(q, "grid", 1)
                               /\ base.surfs => Chunk(Group(q), "surf", Place(q)) = Piece(q, "surf", 1)
         /\ base.multiproc = 0 => 0 \in DOMAIN files /\ \A q \in Writers : Group(q) = 0 /\ Place(q) = q
         /\ base.multiproc # 0 => /\ \A q \in Writers : Group(q) < base.multiproc
                                  /\ \A c \in Nat : c < base.multiproc => c \in DOMAIN files
PROOF
  <1>1. base = Header /\ DOMAIN files = {Group(p) : p \in Writers}  BY DEF Headed, Writers
  <1>2. /\ base.multiproc \in Nat /\ base.w = set.w /\ base.multiproc = NFiles(set.multi, set.w)
        /\ set.w \in Nat \ {0} /\ set.multi \in MultiKinds
    BY <1>1, HeaderFacts, SettingFacts
  <1>3. ASSUME NEW q \in Writers
        PROVE  /\ Mine(q) \in Writers /\ Mine(q) \in Nat /\ q \in Nat /\ Place(q) \in Nat
               /\ Group(Mine(q)) = Group(q) /\ Group(q) \in DOMAIN files
               /\ GroupSize(q) = files[Group(q)].n /\ GroupSize(q) \in Int /\ Place(q) < GroupSize(q)
               /\ \A j \in 1 .. GroupSize(q) - 1 :
                    Mine(q) + j \in Writers /\ Mine(Mine(q) + j) = Mine(q)
    <2>1. q \in 0 .. set.w - 1  BY DEF Writers
    <2>2. /\ Mine(q) \in 0 .. q /\ Group(Mine(q)) = Group(q) /\ GroupSize(q) \in Int /\ q - Mine(q) < GroupSize(q)
          /\ \A j \in 1 .. GroupSize(q) - 1 :
               Mine(q) + j \in 0 .. set.w - 1 /\ Mine(Mine(q) + j) = Mine(q)
      BY <2>1, WriterFacts
    <2>3. q \in Nat /\ Mine(q) \in Nat /\ Mine(q) \in 0 .. set.w - 1 /\ q - Mine(q) \in Nat  BY <1>2, <2>1, <2>2
    <2>4. GroupSize(q) = files[Group(q)].n  BY DEF Filled
    <2> QED  BY <1>1, <2>2, <2>3, <2>4 DEF Place, Writers
  <1>4. \A x : Mine(x) = FirstProc(set.multi, Group(x), set.w)  BY DEF Mine, Group, FileProc
  <1>5. \A q, x \in Writers : Group(q) = Group(x) /\ Place(q) = Place(x) => q = x
    <2> SUFFICES ASSUME NEW q \in Writers, NEW x \in Writers, Group(q) = Group(x), Place(q) = Place(x) PROVE q = x
      OBVIOUS
    <2>1. Mine(q) = Mine(x)  BY <1>4
    <2>2. PICK a \in Nat, b \in Nat, c \in Nat : a = q /\ b = x /\ c = Mine(q)  BY <1>3
    <2>3. a - c = b - c  BY <2>1, <2>2 DEF Place
    <2> QED  BY <2>2, <2>3
  <1>6. ASSUME NEW c \in DOMAIN files, NEW i \in Nat, i < files[c].n
        PROVE  \E q \in Writers : Group(q) = c /\ Place(q) = i
    <2>1. PICK p \in Writers : Group(p) = c  BY <1>1
    <2>2. PICK z \in Writers : z = Mine(p) /\ Group(z) = c  BY <1>3, <2>1
    <2>3. z \in Nat /\ Mine(z) = z
      <3>1. Mine(z) = Mine(p)  BY <1>4, <2>1, <2>2
      <3> QED  BY <1>3, <2>2, <3>1
    <2>4. CASE i = 0
      <3>1. Place(z) = 0  BY <2>3 DEF Place
      <3> QED  BY <2>2, <2>4, <3>1
    <2>5. CASE i # 0
      <3>1. i \in 1 .. GroupSize(p) - 1  BY <1>3, <1>6, <2>1, <2>5
      <3>2. z + i \in Writers /\ Mine(z + i) = z  BY <1>3, <2>2, <3>1
      <3>3. PICK q \in Writers : q = z + i  BY <3>2
      <3>4. Mine(q) = z  BY <3>2, <3>3
      <3>5. Group(q) = c
        <4>1. Group(Mine(q)) = Group(q)  BY <1>3
        <4> QED  BY <2>2, <3>4, <4>1
      <3>6. Place(q) = (z + i) - z  BY <3>3, <3>4 DEF Place
      <3> QED  BY <2>3, <3>5, <3>6
    <2> QED  BY <2>4, <2>5
  <1>7. ASSUME NEW q \in Writers
        PROVE  /\ Chunk(Group(q), "grid", Place(q)) = Piece(q, "grid", 1)
               /\ base.surfs => Chunk(Group(q), "surf", Place(q)) = Piece(q, "surf", 1)
    <2>1. Place(q) = q - Mine(q)  BY DEF Place
    <2> QED  BY <2>1 DEF Filled
  <1>8. ASSUME NEW q \in Writers
        PROVE  IF base.multiproc = 0 THEN Group(q) = 0 /\ Place(q) = q ELSE Group(q) \in 0 .. base.multiproc - 1
    <2>1. q \in 0 .. set.w - 1  BY DEF Writers
    <2>2. IF base.multiproc = 0 THEN Mine(q) = 0 /\ Group(q) = 0 ELSE Group(q) \in 0 .. base.multiproc - 1
      BY <1>2, <2>1, FilesBounded DEF Mine, Group, FileProc
    <2>3. q \in Nat  BY <1>3
    <2>4. Mine(q) = 0 => Place(q) = q  BY <2>3 DEF Place
    <2> QED  BY <2>2, <2>4
  <1>9. 0 \in Writers  BY <1>2 DEF Writers
  <1>10. \A c \in Nat : c < base.multiproc => c \in DOMAIN files
    <2> SUFFICES ASSUME NEW c \in Nat, c < base.multiproc PROVE c \in DOMAIN files
      OBVIOUS
    <2>1. c \in 0 .. NFiles(set.multi, set.w) - 1  BY <1>2
    <2>2. PICK p \in 0 .. set.w - 1 : Icluster(set.multi, p, set.w) = c  BY <1>2, <2>1, FilesAreWritten
    <2> QED  BY <1>1, <2>2 DEF Group, Writers
  <1>11. \A q \in Writers : Group(q) \in Nat
    <2> TAKE q \in Writers
    <2> QED  BY <1>2, <1>8
  <1>12. base.multiproc = 0 => 0 \in DOMAIN files /\ \A q \in Writers : Group(q) = 0 /\ Place(q) = q
    BY <1>3, <1>8, <1>9
  <1>13. base.multiproc # 0 => \A q \in Writers : Group(q) < base.multiproc
    BY <1>2, <1>8, <1>11
  <1>14. \A q \in Writers : /\ Group(q) \in DOMAIN files /\ Group(q) \in Nat
                            /\ Place(q) \in Nat /\ Place(q) < files[Group(q)].n
    BY <1>3, <1>11
  <1> QED  BY <1>2, <1>5, <1>6, <1>7, <1>10, <1>12, <1>13, <1>14

-----------------------------------------------------------------------------
(* Which chunks a process has taken.  The chunk of writer q is due to p in *)
(* section s by the way the section is read; in that section p has passed  *)
(* it or not; and when it has finished the section it has got all of them. *)
Due(p, s, q) ==
  CASE Method(s) = "bcast" -> TRUE
    [] Method(s) = "own" -> Group(q) % set.r = p
    [] OTHER -> FileOf(p) = Group(q) /\ Place(q) % ClusterOf(p) = p - ReaderOf(p)
Passed(p, s, q) ==
  CASE Method(s) = "bcast" -> Place(q) < k[p]
    [] Method(s) = "own" -> Group(q) < pass[p] \/ (Group(q) = pass[p] /\ Place(q) < k[p])
    [] OTHER -> (Method(s) = "share" \/ ReaderOf(p) # p) /\ Place(q) < k[p]
Inside(p, s) == sec[p] = s /\ pc[p] \notin {"header", "enter", "counted"}
Finished(p, s) == (sec[p] = s /\ pc[p] = "counted") \/ (s = "grid" /\ sec[p] = "surf")
Took(p, s, q) == Due(p, s, q) /\ (Finished(p, s) \/ (Inside(p, s) /\ Passed(p, s, q)))
Got(p, s) == {q \in Writers : Took(p, s, q)}

OwnPart(p) ==
  pc[p] = "read" /\ Method(sec[p]) = "own" =>
    pass[p] \in Nat /\ pass[p] % set.r = p /\ (pass[p] < base.multiproc => k[p] < files[pass[p]].n)
SecPart(p) == (sec[p] = "surf" => base.surfs) /\ (pc[p] = "counted" /\ base.surfs => sec[p] = "surf")
HadPart(p) == OwnPart(p) /\ SecPart(p) /\ Right(have[p], p, Got(p, "grid"), Got(p, "surf"))
(* The message that p waits for is the chunk it wants.                     *)
MailIn(q, p) ==
  pc[p] = "wait" /\ chan[q][p] # <<>> =>
    Head(chan[q][p]) = Chunk(FileOf(p), sec[p], k[p]) /\ k[p] < ChunksOf(p)
(* A broadcast is heard by all at once.                                    *)
Hears(p) == pc[p] = "read" /\ Method(sec[p]) = "bcast"
Together == \A p, x \in Procs : Hears(p) => pc[x] = "read" /\ sec[x] = sec[p] /\ k[x] = k[p]
Had ==
  /\ have = [p \in Procs |-> have[p]]
  /\ \A p \in Procs : HadPart(p) /\ (ReaderOf(p) # p => MailIn(ReaderOf(p), p))
  /\ Together
HadInv == stage = "read" /\ ~set.less /\ (At("header") \/ Going) => Had

(* What only depends on the two runs does not change.                      *)
LEMMA DueKept ==
  ASSUME set' = set, base' = base
  PROVE  /\ \A s : Method(s)' = Method(s) /\ \A q : Group(q)' = Group(q) /\ Place(q)' = Place(q)
         /\ \A p : ReaderOf(p)' = ReaderOf(p) /\ ClusterOf(p)' = ClusterOf(p) /\ FileOf(p)' = FileOf(p)
         /\ \A p, s, q : Due(p, s, q)' <=> Due(p, s, q)
         /\ Writers' = Writers
PROOF
  <1>1. /\ \A s : Method(s)' = Method(s) /\ \A q : Group(q)' = Group(q) /\ Place(q)' = Place(q)
    BY DEF Method, Group, Place, Mine
  <1>2. \A p : FileOf(p)' = FileOf(p)  BY DEF FileOf, Sharing
  <1>3. \A p : ReaderOf(p)' = ReaderOf(p)  BY <1>2 DEF ReaderOf, Sharing
  <1>4. \A p : ClusterOf(p)' = ClusterOf(p)  BY <1>2, <1>3 DEF ClusterOf, Sharing
  <1>5. ASSUME NEW p, NEW s, NEW q PROVE Due(p, s, q)' <=> Due(p, s, q)
    <2>1. PICK m : m = Method(s) /\ m = Method(s)'  BY <1>1
    <2>2. PICK g, i, f, c, r : /\ g = Group(q) /\ g = Group(q)' /\ i = Place(q) /\ i = Place(q)'
                               /\ f = FileOf(p) /\ f = FileOf(p)' /\ c = ClusterOf(p) /\ c = ClusterOf(p)'
                               /\ r = ReaderOf(p) /\ r = ReaderOf(p)'
      BY <1>1, <1>2, <1>3, <1>4
    <2> QED  BY <2>1, <2>2 DEF Due
  <1> QED  BY <1>1, <1>2, <1>3, <1>4, <1>5 DEF Writers

LEMMA PassedKept ==
  ASSUME set' = set, base' = base, NEW p, k'[p] = k[p], pass'[p] = pass[p], NEW s, NEW q
  PROVE  Passed(p, s, q)' <=> Passed(p, s, q)
PROOF
  <1>1. PICK m : m = Method(s) /\ m = Method(s)'  BY DueKept
  <1>2. PICK g, i, r : /\ g = Group(q) /\ g = Group(q)' /\ i = Place(q) /\ i = Place(q)'
                       /\ r = ReaderOf(p) /\ r = ReaderOf(p)'
    BY DueKept
  <1> QED  BY <1>1, <1>2 DEF Passed

LEMMA RightSame ==
  ASSUME set' = set, base' = base, NEW r, NEW p, NEW G, NEW S
  PROVE  Right(r, p, G, S)' <=> Right(r, p, G, S)
PROOF
  <1>1. \A q : Lot(q)' = Lot(q)  BY DEF Lot
  <1>2. \A s : Method(s)' = Method(s)  BY DueKept
  <1>3. \A q, f : Goes(q, p, f)' = Goes(q, p, f)
    <2> TAKE q, f
    <2>1. PICK l : l = Lot(q) /\ l = Lot(q)'  BY <1>1
    <2>2. PICK m : m = Method(SectionOf(f)) /\ m = Method(SectionOf(f))'  BY <1>2 DEF SectionOf
    <2> QED  BY <2>1, <2>2 DEF Goes
  <1>4. ASSUME NEW h, NEW f, NEW A PROVE Holds(h, p, f, A)' <=> Holds(h, p, f, A)
    <2>1. \A q : Goes(q, p, f)' = Goes(q, p, f)  BY <1>3
    <2> QED  BY <1>1, <2>1 DEF Holds
  <1>5. Ordered(r.cells)' <=> Ordered(r.cells)  BY DEF Ordered
  <1> QED  BY <1>1, <1>2, <1>4, <1>5 DEF Right

(* A process goes on within a section, whose chunks it has taken if they   *)
(* are due to it and it has passed them; or ends the section.              *)
LEMMA TookInside ==
  ASSUME NEW p, pc[p] \notin {"header", "enter", "counted"}, NEW q
  PROVE  /\ Took(p, sec[p], q) <=> Due(p, sec[p], q) /\ Passed(p, sec[p], q)
         /\ \A s : s # sec[p] => (Took(p, s, q) <=> Due(p, s, q) /\ s = "grid" /\ sec[p] = "surf")
PROOF
  BY DEF Took, Finished, Inside

LEMMA Within ==
  ASSUME set' = set, base' = base, NEW p, sec'[p] = sec[p], NEW T, T \subseteq Writers,
         pc[p] \notin {"header", "enter", "counted"}, pc'[p] \notin {"header", "enter", "counted"},
         \A q \in Writers : Due(p, sec[p], q) =>
           (Passed(p, sec[p], q)' <=> Passed(p, sec[p], q) \/ q \in T),
         \A q \in T : Due(p, sec[p], q)
  PROVE  /\ \A s : s = sec[p] => Got(p, s)' = Got(p, s) \union T
         /\ \A s : s # sec[p] => Got(p, s)' = Got(p, s)
PROOF
  <1>1. PICK t : t = sec[p] /\ t = sec'[p]  OBVIOUS
  <1>2. \A q : Took(p, t, q) <=> Due(p, t, q) /\ Passed(p, t, q)  BY <1>1, TookInside
  <1>3. \A q : Took(p, t, q)' <=> Due(p, t, q)' /\ Passed(p, t, q)'
    BY <1>1 DEF Took, Finished, Inside
  <1>4. \A s, q : s # t => (Took(p, s, q) <=> Due(p, s, q) /\ s = "grid" /\ t = "surf")
    BY <1>1, TookInside
  <1>5. \A s, q : s # t => (Took(p, s, q)' <=> Due(p, s, q)' /\ s = "grid" /\ t = "surf")
    BY <1>1 DEF Took, Finished, Inside
  <1>6. (\A s, q : Due(p, s, q)' <=> Due(p, s, q)) /\ Writers' = Writers  BY DueKept
  <1>7. \A q \in Writers : Due(p, t, q) => (Passed(p, t, q)' <=> Passed(p, t, q) \/ q \in T)
    BY <1>1
  <1>8. \A q \in Writers : Took(p, t, q)' <=> Took(p, t, q) \/ q \in T
    BY <1>1, <1>2, <1>3, <1>6, <1>7
  <1>9. Got(p, t)' = Got(p, t) \union T
    <2>1. Got(p, t)' = {q \in Writers : Took(p, t, q)'}  BY <1>6 DEF Got
    <2>2. Got(p, t) = {q \in Writers : Took(p, t, q)}  BY DEF Got
    <2> QED  BY <1>8, <2>1, <2>2
  <1>10. ASSUME NEW s, s # t PROVE Got(p, s)' = Got(p, s)
    <2>1. \A q : Took(p, s, q)' <=> Took(p, s, q)  BY <1>4, <1>5, <1>6, <1>10
    <2> QED  BY <1>6, <2>1 DEF Got
  <1> QED  BY <1>1, <1>9, <1>10

LEMMA SectionEnds ==
  ASSUME set' = set, base' = base, NEW p, sec[p] \in Sections, NEW T, T \subseteq Writers,
         pc[p] \notin {"header", "enter", "counted"}, SecPart(p),
         IF base.surfs /\ sec[p] = "grid" THEN pc'[p] = "enter" /\ sec'[p] = "surf"
         ELSE pc'[p] = "counted" /\ sec'[p] = sec[p],
         \A q \in Writers : Due(p, sec[p], q) => Passed(p, sec[p], q) \/ q \in T,
         \A q \in T : Due(p, sec[p], q)
  PROVE  /\ \A s \in Sections : s = sec[p] => Got(p, s)' = Got(p, s) \union T
         /\ \A s \in Sections : s # sec[p] => Got(p, s)' = Got(p, s)
         /\ SecPart(p)'
PROOF
  <1>1. PICK t \in Sections : t = sec[p]  OBVIOUS
  <1>2. \A q : Took(p, t, q) <=> Due(p, t, q) /\ Passed(p, t, q)  BY <1>1, TookInside
  <1>3. \A s, q : s # t => (Took(p, s, q) <=> Due(p, s, q) /\ s = "grid" /\ t = "surf")
    BY <1>1, TookInside
  <1>4. \A q : Took(p, t, q)' <=> Due(p, t, q)'
    BY <1>1 DEF Took, Finished, Inside, Sections
  <1>5. \A s \in Sections : s # t => \A q : Took(p, s, q)' <=> Due(p, s, q)' /\ s = "grid" /\ t = "surf"
    BY <1>1 DEF Took, Finished, Inside, Sections
  <1>6. (\A s, q : Due(p, s, q)' <=> Due(p, s, q)) /\ Writers' = Writers  BY DueKept
  <1>7. \A q \in Writers : Took(p, t, q)' <=> Took(p, t, q) \/ q \in T  BY <1>1, <1>2, <1>4, <1>6
  <1>8. Got(p, t)' = Got(p, t) \union T
    <2>1. Got(p, t)' = {q \in Writers : Took(p, t, q)'}  BY <1>6 DEF Got
    <2>2. Got(p, t) = {q \in Writers : Took(p, t, q)}  BY DEF Got
    <2> QED  BY <1>7, <2>1, <2>2
  <1>9. ASSUME NEW s \in Sections, s # t PROVE Got(p, s)' = Got(p, s)
    <2>1. \A q : Took(p, s, q)' <=> Took(p, s, q)  BY <1>3, <1>5, <1>6, <1>9
    <2> QED  BY <1>6, <2>1 DEF Got
  <1>10. SecPart(p)'  BY <1>1 DEF SecPart, Sections
  <1> QED  BY <1>1, <1>8, <1>9, <1>10

LEMMA GotKept ==
  ASSUME set' = set, base' = base, NEW p, sec'[p] = sec[p], pc'[p] = pc[p], k'[p] = k[p], pass'[p] = pass[p]
  PROVE  \A s : Got(p, s)' = Got(p, s)
PROOF
  <1>1. (\A s, q : Due(p, s, q)' <=> Due(p, s, q)) /\ Writers' = Writers  BY DueKept
  <1>2. \A s, q : Passed(p, s, q)' <=> Passed(p, s, q)  BY PassedKept
  <1>3. \A s : (Finished(p, s)' <=> Finished(p, s)) /\ (Inside(p, s)' <=> Inside(p, s))
    BY DEF Finished, Inside
  <1>4. \A s, q : Took(p, s, q)' <=> Took(p, s, q)  BY <1>1, <1>2, <1>3 DEF Took
  <1> QED  BY <1>1, <1>4 DEF Got

-----------------------------------------------------------------------------
(* What a reading process can rely on.                                     *)
LEMMA RunFacts ==
  ASSUME Types, stage = "read", ReadInv, FilesInv, HadInv, NEW p \in Procs, pc[p] \in ReadPcs
  PROVE  /\ set \in Settings /\ set.r \in Nat \ {0} /\ Procs = 0 .. set.r - 1 /\ p \in 0 .. set.r - 1
         /\ Headed /\ base = Header /\ ~set.less /\ Filled /\ Had /\ Going
         /\ base.multiproc \in Nat /\ k[p] \in Nat /\ sec[p] \in Sections /\ pass[p] \in Int
         /\ OwnPart(p) /\ SecPart(p) /\ Right(have[p], p, Got(p, "grid"), Got(p, "surf"))
PROOF
  <1>1. Headed /\ Going /\ set \in Settings /\ base = Header /\ ~set.less /\ Procs = 0 .. set.r - 1
    BY ReadingFacts
  <1>2. Filled  BY <1>1 DEF FilesInv
  <1>3. Had  BY <1>1 DEF HadInv
  <1>4. base.multiproc \in Nat /\ set.r \in Nat \ {0}  BY <1>1, HeaderFacts, SettingFacts
  <1>5. k[p] \in Nat /\ sec[p] \in Sections /\ pass[p] \in Int  BY DEF Types
  <1>6. HadPart(p)  BY <1>3 DEF Had
  <1> QED  BY <1>1, <1>2, <1>3, <1>4, <1>5, <1>6 DEF HadPart

(* One process moves.                                                      *)
LEMMA HadMoves ==
  ASSUME Types, stage = "read", ReadInv, Had, ~set.less, Headed, NEW p \in Procs,
         UNCHANGED <<set, stage, base, files>>,
         \A x \in Procs \ {p} : /\ pc'[x] = pc[x] /\ k'[x] = k[x] /\ pass'[x] = pass[x] /\ sec'[x] = sec[x]
                                /\ have'[x] = have[x],
         have' = have \/ \E r : have' = [have EXCEPT ![p] = r],
         \A x, y \in Procs \ {p} : chan'[x][y] = chan[x][y],
         \A x \in Procs : ReaderOf(x) # x /\ (x = p \/ ReaderOf(x) = p) => MailIn(ReaderOf(x), x)',
         ~Hears(p), ~Hears(p)',
         OwnPart(p)', SecPart(p)',
         \A r, G, S : r = have'[p] /\ G = Got(p, "grid")' /\ S = Got(p, "surf")' => Right(r, p, G, S)
  PROVE  Had'
PROOF
  <1>1. Procs' = Procs /\ set \in Settings /\ base = Header /\ Procs = 0 .. set.r - 1 /\ set.r \in Nat \ {0}
    BY SettingFacts, ProcsFacts DEF Types, Headed, Procs, N
  <1>2. /\ \A s : Method(s)' = Method(s)
        /\ \A x : ReaderOf(x)' = ReaderOf(x) /\ FileOf(x)' = FileOf(x) /\ ChunksOf(x)' = ChunksOf(x)
    <2>1. \A x : ChunksOf(x)' = ChunksOf(x)  BY ClustersKept
    <2> QED  BY <2>1, DueKept
  <1>3. have' = [x \in Procs |-> have'[x]]
    <2>1. have = [x \in Procs |-> have[x]]  BY DEF Had
    <2>2. CASE have' = have  BY <2>1, <2>2
    <2>3. ASSUME NEW r, have' = [have EXCEPT ![p] = r] PROVE have' = [x \in Procs |-> have'[x]]
      BY <2>1, <2>3
    <2> QED  BY <2>2, <2>3
  <1>4. ASSUME NEW x \in Procs PROVE HadPart(x)'
    <2>1. PICK r, G, S : r = have'[x] /\ G = Got(x, "grid")' /\ S = Got(x, "surf")'  OBVIOUS
    <2>2. Right(r, x, G, S) /\ OwnPart(x)' /\ SecPart(x)'
      <3>1. CASE x = p  BY <2>1, <3>1
      <3>2. CASE x # p
        <4>1. /\ pc'[x] = pc[x] /\ k'[x] = k[x] /\ pass'[x] = pass[x] /\ sec'[x] = sec[x]
              /\ have'[x] = have[x]
          BY <3>2
        <4>2. HadPart(x)  BY DEF Had
        <4>3. \A s : Got(x, s)' = Got(x, s)  BY <4>1, GotKept
        <4>4. Right(r, x, G, S)  BY <2>1, <4>1, <4>2, <4>3 DEF HadPart
        <4>5. Method(sec[x])' = Method(sec[x])  BY <1>2, <4>1
        <4>6. OwnPart(x)'  BY <4>1, <4>2, <4>5 DEF HadPart, OwnPart
        <4>7. SecPart(x)'  BY <4>1, <4>2 DEF HadPart, SecPart
        <4> QED  BY <4>4, <4>6, <4>7
      <3> QED  BY <3>1, <3>2
    <2>3. Right(r, x, G, S)'  BY <2>2, RightSame
    <2> QED  BY <2>1, <2>2, <2>3 DEF HadPart
  <1>5. ASSUME NEW x \in Procs, ReaderOf(x) # x PROVE MailIn(ReaderOf(x), x)'
    <2>1. CASE x = p \/ ReaderOf(x) = p  BY <1>5, <2>1
    <2>2. CASE x # p /\ ReaderOf(x) # p
      <3>1. PICK q : q = ReaderOf(x) /\ q = ReaderOf(x)'  BY <1>2
      <3>2. q \in Procs
        <4>1. q \in 0 .. x  BY <1>1, <3>1, ReaderFacts
        <4> QED  BY <1>1, <4>1
      <3>3. chan'[q][x] = chan[q][x] /\ pc'[x] = pc[x] /\ k'[x] = k[x] /\ sec'[x] = sec[x]
        BY <2>2, <3>1, <3>2
      <3>4. MailIn(q, x)  BY <1>5, <3>1 DEF Had
      <3>5. PICK f, n : f = FileOf(x) /\ f = FileOf(x)' /\ n = ChunksOf(x) /\ n = ChunksOf(x)'  BY <1>2
      <3>6. Chunk(f, sec[x], k[x])' = Chunk(f, sec[x], k[x])  BY <3>3 DEF Chunk
      <3>7. MailIn(q, x)'  BY <3>3, <3>4, <3>5, <3>6 DEF MailIn
      <3> QED  BY <3>1, <3>7
    <2> QED  BY <2>1, <2>2
  <1>6. Together'
    <2> SUFFICES ASSUME NEW x \in Procs, NEW y \in Procs, Hears(x)'
                 PROVE  (pc[y] = "read" /\ sec[y] = sec[x] /\ k[y] = k[x])'
      BY <1>1 DEF Together
    <2>1. x # p  OBVIOUS
    <2>2. pc'[x] = pc[x] /\ k'[x] = k[x] /\ sec'[x] = sec[x]  BY <2>1
    <2>3. Hears(x)
      <3>1. Method(sec[x])' = Method(sec[x])  BY <1>2, <2>2
      <3> QED  BY <2>2, <3>1 DEF Hears
    <2>4. \A z \in Procs : pc[z] = "read" /\ sec[z] = sec[x] /\ k[z] = k[x]  BY <2>3 DEF Had, Together
    <2>5. Hears(p)  BY <2>3, <2>4 DEF Hears
    <2> QED  BY <2>5
  <1> QED  BY <1>1, <1>2, <1>3, <1>4, <1>5, <1>6 DEF Had

(* A process takes the chunk of writer q.                                  *)
LEMMA TakenIn ==
  ASSUME set \in Settings, Headed, ~set.less, NEW p, NEW s \in Sections, NEW G, NEW S,
         G \subseteq Writers, S \subseteq Writers, Right(have[p], p, G, S),
         NEW q \in Writers, IF s = "grid" THEN q \notin G ELSE q \notin S,
         NEW skip \in BOOLEAN, skip <=> Method(s) = "bcast", NEW m, m = Piece(q, s, 1)
  PROVE  IF s = "grid" THEN Right(Restored(p, m, skip), p, G \union {q}, S)
         ELSE Right(Restored(p, m, skip), p, G, S \union {q})
PROOF
  <1>1. base.w = set.w  BY HeaderFacts DEF Headed
  <1>2. m.sec = s /\ m.p = q  BY DEF Piece
  <1>3. Restored(p, m, skip) = IF s = "grid" THEN RestoreGrid(p, Lot(q), skip) ELSE RestoreSurfs(p, Lot(q), skip)
    BY <1>1, <1>2 DEF Restored, Lot
  <1>4. CASE s = "grid"
    <2>1. Right(RestoreGrid(p, Lot(q), skip), p, G \union {q}, S)  BY <1>4, GridMore
    <2> QED  BY <1>3, <1>4, <2>1
  <1>5. CASE s # "grid"
    <2>1. s = "surf"  BY <1>5 DEF Sections
    <2>2. Right(RestoreSurfs(p, Lot(q), skip), p, G, S \union {q})  BY <1>5, <2>1, SurfsMore
    <2> QED  BY <1>3, <1>5, <2>2
  <1> QED  BY <1>4, <1>5

(* It keeps what it has, or the chunk of writer q comes in.                *)
LEMMA RightKept ==
  ASSUME NEW p, Right(have[p], p, Got(p, "grid"), Got(p, "surf")), have'[p] = have[p],
         \A s \in Sections : Got(p, s)' = Got(p, s)
  PROVE  \A r, G, S : r = have'[p] /\ G = Got(p, "grid")' /\ S = Got(p, "surf")' => Right(r, p, G, S)
PROOF
  BY DEF Sections

LEMMA RightTaken ==
  ASSUME set \in Settings, Headed, ~set.less, NEW p, Right(have[p], p, Got(p, "grid"), Got(p, "surf")),
         NEW s \in Sections, NEW q \in Writers, q \notin Got(p, s),
         NEW skip \in BOOLEAN, skip <=> Method(s) = "bcast", NEW m, m = Piece(q, s, 1),
         have'[p] = Restored(p, m, skip),
         \A t \in Sections : t = s => Got(p, t)' = Got(p, t) \union {q},
         \A t \in Sections : t # s => Got(p, t)' = Got(p, t)
  PROVE  \A r, G, S : r = have'[p] /\ G = Got(p, "grid")' /\ S = Got(p, "surf")' => Right(r, p, G, S)
PROOF
  <1>1. PICK G, S : G = Got(p, "grid") /\ S = Got(p, "surf")  OBVIOUS
  <1>2. G \subseteq Writers /\ S \subseteq Writers  BY <1>1 DEF Got
  <1>3. Right(have[p], p, G, S)  BY <1>1
  <1>4. CASE s = "grid"
    <2>1. q \notin G  BY <1>1, <1>4
    <2>2. Right(Restored(p, m, skip), p, G \union {q}, S)  BY <1>2, <1>3, <1>4, <2>1, TakenIn
    <2>3. Got(p, "grid")' = G \union {q} /\ Got(p, "surf")' = S  BY <1>1, <1>4 DEF Sections
    <2> QED  BY <2>2, <2>3
  <1>5. CASE s # "grid"
    <2>1. s = "surf"  BY <1>5 DEF Sections
    <2>2. q \notin S  BY <1>1, <2>1
    <2>3. Right(Restored(p, m, skip), p, G, S \union {q})  BY <1>2, <1>3, <1>5, <2>2, TakenIn
    <2>4. Got(p, "grid")' = G /\ Got(p, "surf")' = S \union {q}  BY <1>1, <2>1 DEF Sections
    <2> QED  BY <2>3, <2>4
  <1> QED  BY <1>4, <1>5

LEMMA MailKept ==
  ASSUME UNCHANGED <<set, base, files>>, NEW q, NEW p, pc'[p] = pc[p], k'[p] = k[p], sec'[p] = sec[p],
         chan'[q][p] = chan[q][p] \/ (\E x, y : chan[q][p] = <<x>> /\ chan'[q][p] = <<x, y>>), MailIn(q, p)
  PROVE  MailIn(q, p)'
PROOF
  <1>1. PICK f, n : f = FileOf(p) /\ f = FileOf(p)' /\ n = ChunksOf(p) /\ n = ChunksOf(p)'
    BY ClustersKept
  <1>2. Chunk(f, sec[p], k[p])' = Chunk(f, sec[p], k[p])  BY DEF Chunk
  <1>3. chan'[q][p] # <<>> => chan[q][p] # <<>> /\ Head(chan'[q][p]) = Head(chan[q][p])
    BY ShortSequences
  <1> QED  BY <1>1, <1>2, <1>3 DEF MailIn

(* A process moves on and takes nothing.                                   *)
LEMMA Quiet ==
  ASSUME Types, stage = "read", ReadInv, FilesInv, HadInv, NEW p \in Procs, pc[p] \in ReadPcs,
         UNCHANGED <<set, stage, base, files, pass, sec, have>>,
         \A x \in Procs \ {p} : pc'[x] = pc[x] /\ k'[x] = k[x],
         \A x, y \in Procs \ {p} : chan'[x][y] = chan[x][y],
         pc[p] \notin {"enter", "counted"}, pc'[p] \notin {"header", "enter", "counted"},
         \A q \in Writers : Due(p, sec[p], q) => (Passed(p, sec[p], q)' <=> Passed(p, sec[p], q)),
         pc[p] = "read" \/ pc'[p] = "read" => Shared(sec[p]),
         \A x \in Procs : ReaderOf(x) # x /\ (x = p \/ ReaderOf(x) = p) => MailIn(ReaderOf(x), x)'
  PROVE  Had'
PROOF
  <1>1. /\ set \in Settings /\ Had /\ Headed /\ ~set.less /\ sec[p] \in Sections
        /\ OwnPart(p) /\ SecPart(p) /\ Right(have[p], p, Got(p, "grid"), Got(p, "surf"))
    BY RunFacts
  <1>2. pc[p] # "header"  BY DEF ReadPcs
  <1>3. PICK T : T = {}  OBVIOUS
  <1>4. /\ \A s : s = sec[p] => Got(p, s)' = Got(p, s) \union T
        /\ \A s : s # sec[p] => Got(p, s)' = Got(p, s)
    <2>1. /\ T \subseteq Writers /\ \A q \in T : Due(p, sec[p], q)
          /\ \A q \in Writers : Due(p, sec[p], q) =>
               (Passed(p, sec[p], q)' <=> Passed(p, sec[p], q) \/ q \in T)
      BY <1>3
    <2>2. sec'[p] = sec[p]  OBVIOUS
    <2> QED  BY <1>2, <2>1, <2>2, Within
  <1>5. \A s \in Sections : Got(p, s)' = Got(p, s)  BY <1>3, <1>4
  <1>6. have'[p] = have[p]  OBVIOUS
  <1>7. \A r, G, S : r = have'[p] /\ G = Got(p, "grid")' /\ S = Got(p, "surf")' => Right(r, p, G, S)
    BY <1>1, <1>5, <1>6, RightKept
  <1>8. Method(sec[p])' = Method(sec[p])  BY DueKept
  <1>9. ~Hears(p) /\ ~Hears(p)' /\ OwnPart(p)'  BY <1>8 DEF Hears, OwnPart, Shared
  <1>10. SecPart(p)'  BY <1>1 DEF SecPart
  <1> QED  BY <1>1, <1>7, <1>9, <1>10, HadMoves

(* A member of a cluster has no mail of its own to see to but that of its  *)
(* reader.                                                                 *)
LEMMA MemberMail ==
  ASSUME Types, stage = "read", ReadInv, NEW p \in Procs, pc[p] \in {"size", "post", "sendping", "wait"},
         set' = set, base' = base, NEW q, q = ReaderOf(p), MailIn(q, p)'
  PROVE  \A x \in Procs : ReaderOf(x) # x /\ (x = p \/ ReaderOf(x) = p) => MailIn(ReaderOf(x), x)'
PROOF
  <1> SUFFICES ASSUME NEW x \in Procs, ReaderOf(x) # x, x = p \/ ReaderOf(x) = p
               PROVE  MailIn(ReaderOf(x), x)'
    OBVIOUS
  <1>1. ReaderOf(p) # p /\ pc[p] \in ReadPcs  BY MemberFacts DEF ReadPcs
  <1>2. set \in Settings /\ base = Header /\ ~set.less /\ Procs = 0 .. set.r - 1  BY <1>1, ReadingFacts
  <1>3. ReaderOf(ReaderOf(x)) = ReaderOf(x)  BY <1>2, ReaderFacts
  <1>4. x = p  BY <1>1, <1>3
  <1>5. q = ReaderOf(x)'  BY <1>4, DueKept
  <1>6. MailIn(q, x)'  BY <1>4
  <1> QED  BY <1>5, <1>6

LEMMA PassedStays ==
  ASSUME set' = set, base' = base, NEW p, sec'[p] = sec[p], k'[p] = k[p], pass'[p] = pass[p]
  PROVE  \A q \in Writers : Due(p, sec[p], q) => (Passed(p, sec[p], q)' <=> Passed(p, sec[p], q))
PROOF
  <1>1. PICK s : s = sec[p] /\ s = sec'[p]  OBVIOUS
  <1>2. \A q : Passed(p, s, q)' <=> Passed(p, s, q)  BY PassedKept
  <1>3. ASSUME NEW q PROVE Passed(p, sec[p], q)' <=> Passed(p, sec[p], q)
    <2>1. Passed(p, s, q)' <=> Passed(p, s, q)  BY <1>2
    <2> QED  BY <1>1, <2>1
  <1> QED  BY <1>3

-----------------------------------------------------------------------------
LEMMA HearSizeHad ==
  ASSUME Types, stage = "read", ReadInv, FilesInv, HadInv, NEW p \in Procs, HearSize(p)
  PROVE  Had'
PROOF
  <1>1. pc[p] = "size" /\ pc[p] \in ReadPcs  BY DEF HearSize, ReadPcs
  <1>2. Reader(p) = ReaderOf(p) /\ ReaderOf(p) \in Procs  BY <1>1, ReadingFacts
  <1>3. PICK q \in Procs : q = ReaderOf(p)  BY <1>2
  <1>4. UNCHANGED <<set, stage, base, files, k, pass, sec, have>> /\ Receive(p, q) /\ Go(p, "post")
    BY <1>2, <1>3 DEF HearSize
  <1>5. pc'[p] = "post" /\ \A x \in Procs \ {p} : pc'[x] = pc[x]  BY <1>4, GoFacts
  <1>6. \A x, y \in Procs \ {p} : chan'[x][y] = chan[x][y]
    <2>1. Chans /\ Procs' = Procs  BY <1>4 DEF Types, Procs, N
    <2> QED  BY <1>4, <2>1, ReceiveFacts
  <1>7. MailIn(q, p)'  BY <1>5 DEF MailIn
  <1>8. \A x \in Procs : ReaderOf(x) # x /\ (x = p \/ ReaderOf(x) = p) => MailIn(ReaderOf(x), x)'
    BY <1>1, <1>3, <1>4, <1>7, MemberMail
  <1>9. \A y \in Writers : Due(p, sec[p], y) => (Passed(p, sec[p], y)' <=> Passed(p, sec[p], y))
    BY <1>4, PassedStays
  <1> QED  BY <1>1, <1>4, <1>5, <1>6, <1>8, <1>9, Quiet

LEMMA PostHad ==
  ASSUME Types, stage = "read", ReadInv, FilesInv, HadInv, NEW p \in Procs, PostReceive(p)
  PROVE  Had'
PROOF
  <1>1. pc[p] = "post" /\ pc[p] \in ReadPcs  BY DEF PostReceive, ReadPcs
  <1>2. ReaderOf(p) \in Procs  BY <1>1, ReadingFacts
  <1>3. PICK q \in Procs : q = ReaderOf(p)  BY <1>2
  <1>4. UNCHANGED <<set, stage, base, files, k, pass, sec, have, chan>> /\ Go(p, "sendping")
    BY DEF PostReceive
  <1>5. pc'[p] = "sendping" /\ \A x \in Procs \ {p} : pc'[x] = pc[x]  BY <1>4, GoFacts
  <1>7. MailIn(q, p)'  BY <1>5 DEF MailIn
  <1>8. \A x \in Procs : ReaderOf(x) # x /\ (x = p \/ ReaderOf(x) = p) => MailIn(ReaderOf(x), x)'
    BY <1>1, <1>3, <1>4, <1>7, MemberMail
  <1>9. \A y \in Writers : Due(p, sec[p], y) => (Passed(p, sec[p], y)' <=> Passed(p, sec[p], y))
    BY <1>4, PassedStays
  <1> QED  BY <1>1, <1>4, <1>5, <1>8, <1>9, Quiet

LEMMA PingHad ==
  ASSUME Types, stage = "read", ReadInv, FilesInv, HadInv, NEW p \in Procs, SendPing(p)
  PROVE  Had'
PROOF
  <1>1. pc[p] = "sendping" /\ pc[p] \in ReadPcs  BY DEF SendPing, ReadPcs
  <1>2. ReaderOf(p) \in Procs  BY <1>1, ReadingFacts
  <1>3. ReaderOf(p) # p /\ ReadPair(ReaderOf(p), p) /\ Partner(p) = ReaderOf(p)  BY <1>1, MemberFacts
  <1>4. PICK q \in Procs : q = ReaderOf(p)  BY <1>2
  <1>5. UNCHANGED <<set, stage, base, files, k, pass, sec, have>> /\ Send(p, q, Ping) /\ Go(p, "wait")
    BY <1>3, <1>4 DEF SendPing
  <1>6. pc'[p] = "wait" /\ \A x \in Procs \ {p} : pc'[x] = pc[x]  BY <1>5, GoFacts
  <1>7. \A x, y \in Procs : x # p \/ y # q => chan'[x][y] = chan[x][y]
    <2>1. Chans /\ Procs' = Procs  BY <1>5 DEF Types, Procs, N
    <2> QED  BY <1>5, <2>1, SendFacts
  <1>8. chan'[q][p] = <<>>
    <2>1. ~Loose(q, p) /\ \A s : ~Resting(q, p, s)  BY <1>1 DEF Loose, Aside, Resting, Left
    <2>2. \A s : Exchange(q, p, s) => chan[q][p] = <<>>  BY <1>1 DEF Exchange, Still
    <2>3. chan[q][p] = <<>>  BY <1>3, <1>4, <2>1, <2>2 DEF ReadPair
    <2> QED  BY <1>3, <1>4, <1>7, <2>3
  <1>9. MailIn(q, p)'  BY <1>8 DEF MailIn
  <1>10. \A x \in Procs : ReaderOf(x) # x /\ (x = p \/ ReaderOf(x) = p) => MailIn(ReaderOf(x), x)'
    BY <1>1, <1>4, <1>5, <1>9, MemberMail
  <1>11. \A y \in Writers : Due(p, sec[p], y) => (Passed(p, sec[p], y)' <=> Passed(p, sec[p], y))
    BY <1>5, PassedStays
  <1> QED  BY <1>1, <1>5, <1>6, <1>7, <1>10, <1>11, Quiet

(* A reader sees to the mail of the one process whose turn it is.          *)
LEMMA ReaderMail ==
  ASSUME Types, stage = "read", ReadInv, FilesInv, HadInv, NEW q \in Procs, pc[q] \in ReadPcs, ReaderOf(q) = q,
         UNCHANGED <<set, stage, base, files, sec>>, NEW r \in Procs, r # q,
         \A x \in Procs \ {q} : pc'[x] = pc[x] /\ k'[x] = k[x],
         \A x \in Procs : x # r => chan'[q][x] = chan[q][x],
         MailIn(q, r)'
  PROVE  \A x \in Procs : ReaderOf(x) # x /\ (x = q \/ ReaderOf(x) = q) => MailIn(ReaderOf(x), x)'
PROOF
  <1> SUFFICES ASSUME NEW x \in Procs, ReaderOf(x) # x, x = q \/ ReaderOf(x) = q
               PROVE  MailIn(ReaderOf(x), x)'
    OBVIOUS
  <1>1. x # q /\ ReaderOf(x) = q  OBVIOUS
  <1>2. q = ReaderOf(x)'  BY <1>1, DueKept
  <1>3. MailIn(q, x)'
    <2>1. CASE x = r  BY <2>1
    <2>2. CASE x # r
      <3>1. MailIn(q, x)
        <4>1. Had  BY RunFacts
        <4> QED  BY <1>1, <4>1 DEF Had
      <3>2. pc'[x] = pc[x] /\ k'[x] = k[x] /\ sec'[x] = sec[x] /\ chan'[q][x] = chan[q][x]  BY <1>1, <2>2
      <3> QED  BY <3>1, <3>2, MailKept
    <2> QED  BY <2>1, <2>2
  <1> QED  BY <1>2, <1>3

LEMMA SendSizeHad ==
  ASSUME Types, stage = "read", ReadInv, FilesInv, HadInv, NEW q \in Procs, SendSize(q)
  PROVE  Had'
PROOF
  <1>1. /\ pc[q] = "read" /\ Shared(sec[q]) /\ ReaderOf(q) = q /\ pc[q] \in ReadPcs /\ Turn(q) = TurnOf(q)
    BY ReadsForFacts DEF SendSize
  <1>2. TurnOf(q) \in Procs /\ ReaderOf(TurnOf(q)) = q  BY <1>1, TurnFacts
  <1>3. PICK r \in Procs : r = TurnOf(q) /\ ReaderOf(r) = q  BY <1>2
  <1>4. /\ r # q /\ Send(q, r, Size(0)) /\ Go(q, "await")
        /\ UNCHANGED <<set, stage, base, files, k, pass, sec, have>>
    BY <1>1, <1>3 DEF SendSize
  <1>5. pc'[q] = "await" /\ \A x \in Procs \ {q} : pc'[x] = pc[x]  BY <1>4, GoFacts
  <1>6. /\ chan'[q][r] = Append(chan[q][r], Size(0))
        /\ \A x, y \in Procs : x # q \/ y # r => chan'[x][y] = chan[x][y]
    <2>1. Chans /\ Procs' = Procs  BY <1>4 DEF Types, Procs, N
    <2> QED  BY <1>4, <2>1, SendFacts
  <1>7. MailIn(q, r)'
    <2>1. pc'[r] = pc[r] /\ k'[r] = k[r] /\ sec'[r] = sec[r]  BY <1>4, <1>5
    <2>2. CASE pc[r] # "wait"  BY <2>1, <2>2 DEF MailIn
    <2>3. CASE pc[r] = "wait"
      <3>1. Resting(q, r, sec[q])  BY <1>1, <1>3, <1>4, PairOfReader
      <3>2. PICK x : chan[q][r] = <<x>>  BY <2>3, <3>1 DEF Resting, Left
      <3>3. chan'[q][r] = <<x, Size(0)>>  BY <1>6, <3>2, ShortSequences
      <3>4. MailIn(q, r)
        <4>1. Had  BY <1>1, RunFacts
        <4> QED  BY <1>3, <1>4, <4>1 DEF Had
      <3>5. \E a, b : chan[q][r] = <<a>> /\ chan'[q][r] = <<a, b>>  BY <3>2, <3>3
      <3> QED  BY <1>4, <2>1, <3>4, <3>5, MailKept
    <2> QED  BY <2>2, <2>3
  <1>8. \A x \in Procs : ReaderOf(x) # x /\ (x = q \/ ReaderOf(x) = q) => MailIn(ReaderOf(x), x)'
    BY <1>1, <1>4, <1>5, <1>6, <1>7, ReaderMail
  <1>9. \A y \in Writers : Due(q, sec[q], y) => (Passed(q, sec[q], y)' <=> Passed(q, sec[q], y))
    BY <1>4, PassedStays
  <1> QED  BY <1>1, <1>4, <1>5, <1>6, <1>8, <1>9, Quiet

LEMMA HearPingHad ==
  ASSUME Types, stage = "read", ReadInv, FilesInv, HadInv, NEW q \in Procs, pc[q] = "await", HearPing(q)
  PROVE  Had'
PROOF
  <1>1. /\ ReaderOf(q) = q /\ pc[q] \in ReadPcs /\ TurnOf(q) \in Procs /\ TurnOf(q) # q
        /\ Partner(q) = TurnOf(q) /\ Shared(sec[q])
        /\ \A r \in Procs : r = TurnOf(q) => Exchange(q, r, sec[q])
    BY ExchangeFacts
  <1>2. PICK r \in Procs : r = TurnOf(q) /\ r # q  BY <1>1
  <1>3. /\ chan[r][q] # <<>> /\ Receive(q, r) /\ Go(q, "rsend")
        /\ UNCHANGED <<set, stage, base, files, k, pass, sec, have>>
    BY <1>1, <1>2 DEF HearPing, Arrived
  <1>4. pc'[q] = "rsend" /\ \A x \in Procs \ {q} : pc'[x] = pc[x]  BY <1>3, GoFacts
  <1>5. \A x, y \in Procs : x # r \/ y # q => chan'[x][y] = chan[x][y]
    <2>1. Chans /\ Procs' = Procs  BY <1>3 DEF Types, Procs, N
    <2> QED  BY <1>3, <2>1, ReceiveFacts
  <1>6. MailIn(q, r)'
    <2>1. Exchange(q, r, sec[q])  BY <1>1, <1>2
    <2>2. chan[q][r] = <<>>  BY <1>3, <2>1 DEF Exchange, Still
    <2>3. chan'[q][r] = <<>>  BY <1>2, <1>5, <2>2
    <2> QED  BY <2>3 DEF MailIn
  <1>7. \A x \in Procs : x # r => chan'[q][x] = chan[q][x]  BY <1>2, <1>5
  <1>8. \A x \in Procs : ReaderOf(x) # x /\ (x = q \/ ReaderOf(x) = q) => MailIn(ReaderOf(x), x)'
    BY <1>1, <1>2, <1>3, <1>4, <1>6, <1>7, ReaderMail
  <1>9. \A y \in Writers : Due(q, sec[q], y) => (Passed(q, sec[q], y)' <=> Passed(q, sec[q], y))
    BY <1>3, PassedStays
  <1> QED  BY <1>1, <1>3, <1>4, <1>5, <1>8, <1>9, Quiet

LEMMA NextFacts ==
  ASSUME Types, set' = set, stage' = stage, base' = base, NEW p \in Procs, NextReadSection(p)
  PROVE  /\ \A x \in Procs \ {p} : pc'[x] = pc[x] /\ sec'[x] = sec[x]
         /\ IF base.surfs /\ sec[p] = "grid" THEN pc'[p] = "enter" /\ sec'[p] = "surf"
            ELSE pc'[p] = "counted" /\ sec'[p] = sec[p]
PROOF
  <1>1. CASE base.surfs /\ sec[p] = "grid"
    <2>1. Go(p, "enter") /\ sec' = [sec EXCEPT ![p] = "surf"]  BY <1>1 DEF NextReadSection
    <2>2. pc'[p] = "enter" /\ \A x \in Procs \ {p} : pc'[x] = pc[x]  BY <2>1, GoFacts
    <2>3. sec'[p] = "surf" /\ \A x \in Procs \ {p} : sec'[x] = sec[x]  BY <2>1 DEF Types
    <2> QED  BY <1>1, <2>2, <2>3
  <1>2. CASE ~(base.surfs /\ sec[p] = "grid")
    <2>1. Go(p, "counted") /\ sec' = sec  BY <1>2 DEF NextReadSection
    <2>2. pc'[p] = "counted" /\ \A x \in Procs \ {p} : pc'[x] = pc[x]  BY <2>1, GoFacts
    <2> QED  BY <1>2, <2>1, <2>2
  <1> QED  BY <1>1, <1>2

(* A chunk of a file is the piece of one writer.                           *)
LEMMA ChunkFound ==
  ASSUME set \in Settings, Headed, ~set.less, Filled, NEW s \in Sections, s = "surf" => base.surfs,
         NEW c \in DOMAIN files, NEW i \in Nat, i < files[c].n
  PROVE  \E z \in Writers : /\ Group(z) = c /\ Place(z) = i /\ Chunk(c, s, i) = Piece(z, s, 1)
                            /\ \A y \in Writers : Group(y) = c /\ Place(y) = i => y = z
PROOF
  <1>1. PICK z \in Writers : Group(z) = c /\ Place(z) = i  BY Places
  <1>2. /\ Chunk(Group(z), "grid", Place(z)) = Piece(z, "grid", 1)
        /\ base.surfs => Chunk(Group(z), "surf", Place(z)) = Piece(z, "surf", 1)
    BY Places
  <1>3. Chunk(c, s, i) = Piece(z, s, 1)  BY <1>1, <1>2 DEF Sections
  <1>4. \A y \in Writers : Group(y) = Group(z) /\ Place(y) = Place(z) => y = z  BY Places
  <1> QED  BY <1>1, <1>3, <1>4

LEMMA SharedFile ==
  ASSUME set \in Settings, Headed, ~set.less, Filled, NEW p \in 0 .. set.r - 1, NEW s, Shared(s)
  PROVE  FileOf(p) \in DOMAIN files /\ (Method(s) = "same" => ~Sharing) /\ Method(s) \in {"same", "share"}
PROOF
  <1>1. base.multiproc \in Nat /\ set.r \in Nat \ {0}  BY Places, SettingFacts
  <1>2. CASE Method(s) = "same"
    <2>1. base.multiproc = 0  BY <1>2 DEF Method
    <2>2. ~Sharing /\ FileOf(p) = 0  BY <2>1 DEF Sharing, FileOf
    <2>3. 0 \in DOMAIN files  BY <2>1, Places
    <2> QED  BY <1>2, <2>2, <2>3
  <1>3. CASE Method(s) = "share"
    <2>1. base.multiproc # 0 /\ ~(set.r <= base.multiproc)  BY <1>3 DEF Method
    <2>2. PICK f \in 1 .. set.r : f = base.multiproc  BY <1>1, <2>1
    <2>3. NfileCluster(p, f, set.r) \in 0 .. f - 1  BY <1>1, NfileRanges
    <2>4. FileOf(p) = NfileCluster(p, f, set.r)  BY <2>1, <2>2 DEF FileOf, Sharing
    <2>5. FileOf(p) \in Nat /\ FileOf(p) < base.multiproc  BY <1>1, <2>2, <2>3, <2>4
    <2>6. \A c \in Nat : c < base.multiproc => c \in DOMAIN files  BY <2>1, Places
    <2> QED  BY <1>3, <2>5, <2>6
  <1> QED  BY <1>2, <1>3 DEF Shared

(* In a shared section.                                                    *)
LEMMA SharedDue ==
  ASSUME NEW p, NEW s, Shared(s), NEW y
  PROVE  /\ Due(p, s, y) <=> FileOf(p) = Group(y) /\ Place(y) % ClusterOf(p) = p - ReaderOf(p)
         /\ Passed(p, s, y) <=> (Method(s) = "share" \/ ReaderOf(p) # p) /\ Place(y) < k[p]
         /\ Method(s) # "own" /\ Method(s) # "bcast"
PROOF
  BY DEF Shared, Due, Passed

LEMMA SharedPassed ==
  ASSUME set' = set, base' = base, NEW p, NEW s, sec'[p] = s, Shared(s), NEW y
  PROVE  Passed(p, sec[p], y)' <=> (Method(s) = "share" \/ ReaderOf(p) # p) /\ Place(y) < k'[p]
PROOF
  <1>1. PICK m, i, r : /\ m = Method(s) /\ m = Method(s)' /\ i = Place(y) /\ i = Place(y)'
                       /\ r = ReaderOf(p) /\ r = ReaderOf(p)'
    BY DueKept
  <1>2. m # "own" /\ m # "bcast"  BY <1>1 DEF Shared
  <1>3. Passed(p, s, y)' <=> (m = "share" \/ r # p) /\ i < k'[p]  BY <1>1, <1>2 DEF Passed
  <1>4. Passed(p, sec[p], y)' <=> Passed(p, s, y)'  OBVIOUS
  <1> QED  BY <1>1, <1>3, <1>4

(* The member of a cluster, and the section it is in.                      *)
LEMMA MemberShares ==
  ASSUME Types, stage = "read", ReadInv, NEW p \in Procs, pc[p] \in {"size", "wait"}, NEW q, q = ReaderOf(p)
  PROVE  /\ Shared(sec[p]) /\ sec[p] \in Sections /\ q # p
         /\ pc[p] = "wait" /\ chan[q][p] # <<>> =>
              \/ Ahead(q, p, k[p] + ClusterOf(p))
              \/ k[p] + ClusterOf(p) = k[q] /\ TurnOf(q) = p
PROOF
  <1>1. q # p /\ ReadPair(q, p)  BY MemberFacts
  <1>2. ~Loose(q, p)  BY DEF Loose, Aside
  <1>3. PICK s \in Sections : Shared(s) /\ (Resting(q, p, s) \/ Exchange(q, p, s))
    BY <1>1, <1>2 DEF ReadPair
  <1>4. sec[p] = s  BY <1>3 DEF Resting, Exchange, Left
  <1>5. pc[p] = "wait" /\ chan[q][p] # <<>> /\ Resting(q, p, s) => Ahead(q, p, k[p] + ClusterOf(p))
    BY DEF Resting, Left
  <1>6. pc[p] = "wait" /\ chan[q][p] # <<>> /\ Exchange(q, p, s) =>
          k[p] + ClusterOf(p) = k[q] /\ TurnOf(q) = p
    BY DEF Exchange, Still
  <1> QED  BY <1>1, <1>3, <1>4, <1>5, <1>6

LEMMA TakeChunkHad ==
  ASSUME Types, stage = "read", ReadInv, FilesInv, HadInv, NEW p \in Procs, TakeChunk(p)
  PROVE  Had'
PROOF
  <1>1. pc[p] = "wait" /\ pc[p] \in ReadPcs  BY DEF TakeChunk, ReadPcs
  <1>2. /\ ReaderOf(p) \in Procs /\ Reader(p) = ReaderOf(p) /\ NCluster(p) = ClusterOf(p)
        /\ ClusterOf(p) \in Nat \ {0} /\ p \in Int /\ ReaderOf(p) \in Int
        /\ ClusterOf(ReaderOf(p)) = ClusterOf(p) /\ ReaderOf(ReaderOf(p)) = ReaderOf(p)
    BY <1>1, ReadingFacts
  <1>3. /\ set \in Settings /\ p \in 0 .. set.r - 1 /\ Headed /\ ~set.less /\ Filled /\ Had
        /\ SecPart(p) /\ Right(have[p], p, Got(p, "grid"), Got(p, "surf")) /\ k[p] \in Nat
    BY <1>1, RunFacts
  <1>4. PICK q \in Procs : q = ReaderOf(p) /\ q \in Int  BY <1>2
  <1>5. PICK m : m = Head(chan[q][p])  OBVIOUS
  <1>6. /\ UNCHANGED <<set, stage, base, files, pass, sec>> /\ Receive(p, q) /\ Go(p, "size")
        /\ have' = [have EXCEPT ![p] = Restored(p, m, FALSE)] /\ k' = [k EXCEPT ![p] = @ + ClusterOf(p)]
        /\ chan[q][p] # <<>>
    BY <1>2, <1>4, <1>5 DEF TakeChunk, Keep, Arrived
  <1>7. PICK s \in Sections : s = sec[p] /\ s = sec'[p] /\ Shared(s) /\ q # p
    BY <1>1, <1>4, <1>6, MemberShares
  <1>8. m = Chunk(FileOf(p), s, k[p]) /\ k[p] < ChunksOf(p)
    <2>1. MailIn(q, p)  BY <1>3, <1>4, <1>7 DEF Had
    <2> QED  BY <1>1, <1>5, <1>6, <1>7, <2>1 DEF MailIn
  <1>9. PICK c \in Nat \ {0}, u \in Nat : c = ClusterOf(p) /\ u = k[p]  BY <1>2, <1>3
  <1>10. u % c = p - q
    <2>1. (u + c) % c = p - q
      <3>1. CASE Ahead(q, p, k[p] + ClusterOf(p))  BY <1>9, <3>1 DEF Ahead
      <3>2. CASE k[p] + ClusterOf(p) = k[q] /\ TurnOf(q) = p
        <4>1. p = q + ((u + c) % c)  BY <1>2, <1>4, <1>9, <3>2 DEF TurnOf
        <4>2. (u + c) % c \in Int
          <5>1. u + c \in Nat  OBVIOUS
          <5> QED  BY <5>1, ModFacts
        <4> QED  BY <1>2, <1>4, <4>1, <4>2
      <3> QED  BY <1>1, <1>4, <1>6, <3>1, <3>2, MemberShares
    <2>2. (u + c) % c = u % c  BY ModFacts
    <2> QED  BY <2>1, <2>2
  <1>11. PICK z \in Writers : /\ Group(z) = FileOf(p) /\ Place(z) = u /\ m = Piece(z, s, 1)
                              /\ \A y \in Writers : Group(y) = FileOf(p) /\ Place(y) = u => y = z
    <2>1. FileOf(p) \in DOMAIN files  BY <1>3, <1>7, SharedFile
    <2>2. PICK f \in DOMAIN files : f = FileOf(p) /\ u < files[f].n  BY <1>8, <1>9, <2>1 DEF ChunksOf
    <2>3. s = "surf" => base.surfs  BY <1>3, <1>7 DEF SecPart
    <2>4. \E z \in Writers : /\ Group(z) = f /\ Place(z) = u /\ Chunk(f, s, u) = Piece(z, s, 1)
                            /\ \A y \in Writers : Group(y) = f /\ Place(y) = u => y = z
      BY <1>3, <2>2, <2>3, ChunkFound
    <2> QED  BY <1>8, <1>9, <2>2, <2>4
  <1>12. pc'[p] = "size" /\ \A x \in Procs \ {p} : pc'[x] = pc[x]  BY <1>6, GoFacts
  <1>13. k'[p] = u + c /\ (\A x \in Procs \ {p} : k'[x] = k[x]) /\ have'[p] = Restored(p, m, FALSE)
         /\ \A x \in Procs \ {p} : have'[x] = have[x]
    <2>1. have = [x \in Procs |-> have[x]]  BY <1>3 DEF Had
    <2>2. have'[p] = Restored(p, m, FALSE) /\ \A x \in Procs \ {p} : have'[x] = have[x]  BY <1>6, <2>1
    <2>3. k'[p] = u + c /\ \A x \in Procs \ {p} : k'[x] = k[x]  BY <1>6, <1>9 DEF Types
    <2> QED  BY <2>2, <2>3
  <1>14. \A x, y \in Procs \ {p} : chan'[x][y] = chan[x][y]
    <2>1. Chans /\ Procs' = Procs  BY <1>6 DEF Types, Procs, N
    <2> QED  BY <1>6, <2>1, ReceiveFacts
  <1>15. PICK T : T = {z}  OBVIOUS
  <1>16. ASSUME NEW y \in Writers, Due(p, s, y)
         PROVE  Passed(p, sec[p], y)' <=> Passed(p, s, y) \/ y \in T
    <2>1. Group(y) = FileOf(p) /\ Place(y) % c = p - q  BY <1>4, <1>7, <1>9, <1>16, SharedDue
    <2>2. PICK i \in Nat : i = Place(y)  BY <1>3, Places
    <2>3. Passed(p, s, y) <=> i < u  BY <1>4, <1>7, <1>9, <2>2, SharedDue
    <2>4. Passed(p, sec[p], y)' <=> i < u + c  BY <1>4, <1>6, <1>7, <1>13, <2>2, SharedPassed
    <2>5. y \in T <=> i = u  BY <1>11, <1>15, <2>1, <2>2
    <2>6. i < u + c <=> i < u \/ i = u
      <3>1. u % c = i % c  BY <1>10, <2>1, <2>2
      <3>2. u <= i /\ i < u + c => u = i  BY <3>1, ModFacts
      <3> QED  BY <3>2
    <2> QED  BY <2>3, <2>4, <2>5, <2>6
  <1>17. Due(p, s, z) /\ z \notin Got(p, s)
    <2>1. Due(p, s, z)  BY <1>4, <1>7, <1>9, <1>10, <1>11, SharedDue
    <2>2. ~Passed(p, s, z)  BY <1>7, <1>9, <1>11, SharedDue
    <2>3. ~Took(p, s, z)  BY <1>1, <1>7, <2>2, TookInside
    <2> QED  BY <2>1, <2>3 DEF Got
  <1>18. /\ \A t : t = s => Got(p, t)' = Got(p, t) \union T
         /\ \A t : t # s => Got(p, t)' = Got(p, t)
    <2>1. /\ pc[p] \notin {"header", "enter", "counted"} /\ pc'[p] \notin {"header", "enter", "counted"}
          /\ sec'[p] = sec[p]
      BY <1>1, <1>7, <1>12
    <2>2. T \subseteq Writers /\ \A y \in T : Due(p, sec[p], y)  BY <1>7, <1>15, <1>17
    <2>3. \A y \in Writers : Due(p, sec[p], y) => (Passed(p, sec[p], y)' <=> Passed(p, sec[p], y) \/ y \in T)
      BY <1>7, <1>16
    <2>4. set' = set /\ base' = base  BY <1>6
    <2>5. /\ \A t : t = sec[p] => Got(p, t)' = Got(p, t) \union T
          /\ \A t : t # sec[p] => Got(p, t)' = Got(p, t)
      BY <2>1, <2>2, <2>3, <2>4, Within
    <2> QED  BY <1>7, <2>5
  <1>19. \A r, G, S : r = have'[p] /\ G = Got(p, "grid")' /\ S = Got(p, "surf")' => Right(r, p, G, S)
    <2>1. /\ \A t \in Sections : t = s => Got(p, t)' = Got(p, t) \union {z}
          /\ \A t \in Sections : t # s => Got(p, t)' = Got(p, t)
      BY <1>15, <1>18
    <2>2. PICK skip \in BOOLEAN : skip = FALSE  OBVIOUS
    <2>3. skip <=> Method(s) = "bcast"  BY <1>7, <2>2, SharedDue
    <2>4. have'[p] = Restored(p, m, skip)  BY <1>13, <2>2
    <2> QED  BY <1>3, <1>11, <1>17, <2>1, <2>3, <2>4, RightTaken
  <1>20. MailIn(q, p)'  BY <1>12 DEF MailIn
  <1>21. \A x \in Procs : ReaderOf(x) # x /\ (x = p \/ ReaderOf(x) = p) => MailIn(ReaderOf(x), x)'
    BY <1>1, <1>4, <1>6, <1>20, MemberMail
  <1>22. ~Hears(p) /\ ~Hears(p)' /\ OwnPart(p)' /\ SecPart(p)'
    BY <1>1, <1>3, <1>6, <1>12 DEF Hears, OwnPart, SecPart
  <1>23. have' = have \/ \E r : have' = [have EXCEPT ![p] = r]  BY <1>6
  <1> QED  BY <1>3, <1>6, <1>12, <1>13, <1>14, <1>19, <1>21, <1>22, <1>23, HadMoves

(* The messages to the others of a cluster stay as they are.               *)
LEMMA MailStays ==
  ASSUME Types, stage = "read", ReadInv, FilesInv, HadInv, NEW p \in Procs, pc[p] \in ReadPcs,
         UNCHANGED <<set, base, files, chan>>,
         \A x \in Procs \ {p} : pc'[x] = pc[x] /\ k'[x] = k[x] /\ sec'[x] = sec[x],
         pc'[p] # "wait"
  PROVE  \A x \in Procs : ReaderOf(x) # x /\ (x = p \/ ReaderOf(x) = p) => MailIn(ReaderOf(x), x)'
PROOF
  <1> SUFFICES ASSUME NEW x \in Procs, ReaderOf(x) # x, x = p \/ ReaderOf(x) = p
               PROVE  MailIn(ReaderOf(x), x)'
    OBVIOUS
  <1>1. PICK q : q = ReaderOf(x) /\ q = ReaderOf(x)'  BY DueKept
  <1>2. MailIn(q, x)'
    <2>1. CASE x = p  BY <2>1 DEF MailIn
    <2>2. CASE x # p
      <3>1. MailIn(q, x)
        <4>1. Had  BY RunFacts
        <4> QED  BY <1>1, <4>1 DEF Had
      <3>2. pc'[x] = pc[x] /\ k'[x] = k[x] /\ sec'[x] = sec[x] /\ chan'[q][x] = chan[q][x]  BY <2>2
      <3> QED  BY <3>1, <3>2, MailKept
    <2> QED  BY <2>1, <2>2
  <1> QED  BY <1>1, <1>2

LEMMA EndMoves ==
  ASSUME Types, stage = "read", ReadInv, FilesInv, HadInv, NEW p \in Procs, pc[p] \in ReadPcs,
         UNCHANGED <<set, stage, base, files, k, pass, chan>>, NextReadSection(p),
         pc[p] \notin {"enter", "counted"}, ~Hears(p),
         have' = have \/ \E r : have' = [have EXCEPT ![p] = r],
         NEW T, T \subseteq Writers, \A q \in T : Due(p, sec[p], q),
         \A q \in Writers : Due(p, sec[p], q) => Passed(p, sec[p], q) \/ q \in T,
         \/ have'[p] = have[p] /\ T = {}
         \/ \E q \in Writers : \E m :
              /\ T = {q} /\ ~Passed(p, sec[p], q) /\ m = Piece(q, sec[p], 1)
              /\ have'[p] = Restored(p, m, FALSE) /\ Method(sec[p]) # "bcast"
  PROVE  Had'
PROOF
  <1>1. /\ set \in Settings /\ Had /\ Headed /\ ~set.less /\ sec[p] \in Sections
        /\ SecPart(p) /\ Right(have[p], p, Got(p, "grid"), Got(p, "surf"))
    BY RunFacts
  <1>2. pc[p] \notin {"header", "enter", "counted"}  BY DEF ReadPcs
  <1>3. /\ \A x \in Procs \ {p} : pc'[x] = pc[x] /\ sec'[x] = sec[x]
        /\ IF base.surfs /\ sec[p] = "grid" THEN pc'[p] = "enter" /\ sec'[p] = "surf"
           ELSE pc'[p] = "counted" /\ sec'[p] = sec[p]
    BY NextFacts
  <1>4. /\ \A s \in Sections : s = sec[p] => Got(p, s)' = Got(p, s) \union T
        /\ \A s \in Sections : s # sec[p] => Got(p, s)' = Got(p, s)
        /\ SecPart(p)'
    BY <1>1, <1>2, <1>3, SectionEnds
  <1>5. \A r, G, S : r = have'[p] /\ G = Got(p, "grid")' /\ S = Got(p, "surf")' => Right(r, p, G, S)
    <2>1. CASE have'[p] = have[p] /\ T = {}
      <3>1. \A s \in Sections : Got(p, s)' = Got(p, s)  BY <1>4, <2>1
      <3> QED  BY <1>1, <2>1, <3>1, RightKept
    <2>2. ASSUME NEW q \in Writers, NEW m, T = {q}, ~Passed(p, sec[p], q), m = Piece(q, sec[p], 1),
                 have'[p] = Restored(p, m, FALSE), Method(sec[p]) # "bcast"
          PROVE  \A r, G, S : r = have'[p] /\ G = Got(p, "grid")' /\ S = Got(p, "surf")' => Right(r, p, G, S)
      <3>1. PICK s \in Sections : s = sec[p]  BY <1>1
      <3>2. q \notin Got(p, s)
        <4>1. ~Took(p, s, q)  BY <1>2, <2>2, <3>1, TookInside
        <4> QED  BY <4>1 DEF Got
      <3>3. /\ \A t \in Sections : t = s => Got(p, t)' = Got(p, t) \union {q}
            /\ \A t \in Sections : t # s => Got(p, t)' = Got(p, t)
        BY <1>4, <2>2, <3>1
      <3>4. PICK skip \in BOOLEAN : skip = FALSE  OBVIOUS
      <3>5. (skip <=> Method(s) = "bcast") /\ have'[p] = Restored(p, m, skip) /\ m = Piece(q, s, 1)
        BY <2>2, <3>1, <3>4
      <3> QED  BY <1>1, <3>2, <3>3, <3>5, RightTaken
    <2> QED  BY <2>1, <2>2
  <1>6. \A x \in Procs : ReaderOf(x) # x /\ (x = p \/ ReaderOf(x) = p) => MailIn(ReaderOf(x), x)'
    <2>1. pc'[p] # "wait"  BY <1>3
    <2> QED  BY <1>3, <2>1, MailStays
  <1>7. ~Hears(p)' /\ OwnPart(p)'  BY <1>3 DEF Hears, OwnPart
  <1>8. \A x \in Procs \ {p} : have'[x] = have[x]
    <2>1. have = [x \in Procs |-> have[x]]  BY <1>1 DEF Had
    <2> QED  BY <2>1
  <1> QED  BY <1>1, <1>3, <1>4, <1>5, <1>6, <1>7, <1>8, HadMoves

(* What is due is behind a process that has reached the end of the file.   *)
LEMMA AllPassed ==
  ASSUME set \in Settings, Headed, ~set.less, Filled, NEW p, NEW s, Shared(s), k[p] \in Nat,
         k[p] >= ChunksOf(p), ChunksOf(p) \in Int, NEW y \in Writers, Due(p, s, y)
  PROVE  Place(y) < k[p]
PROOF
  <1>1. Group(y) = FileOf(p)  BY SharedDue
  <1>2. Place(y) \in Nat /\ Place(y) < ChunksOf(p)  BY <1>1, Places DEF ChunksOf
  <1> QED  BY <1>2

LEMMA EndTurnsHad ==
  ASSUME Types, stage = "read", ReadInv, FilesInv, HadInv, NEW p \in Procs, EndTurns(p)
  PROVE  Had'
PROOF
  <1>1. pc[p] = "size" /\ pc[p] \in ReadPcs  BY DEF EndTurns, ReadPcs
  <1>2. NChunks(p) = ChunksOf(p) /\ ChunksOf(p) \in Int  BY <1>1, ReadingFacts
  <1>3. set \in Settings /\ Headed /\ ~set.less /\ Filled /\ k[p] \in Nat  BY <1>1, RunFacts
  <1>4. /\ UNCHANGED <<set, stage, base, files, k, pass, chan, have>> /\ NextReadSection(p)
        /\ k[p] >= ChunksOf(p)
    BY <1>2 DEF EndTurns
  <1>5. Shared(sec[p]) /\ ReaderOf(p) # p  BY <1>1, MemberShares
  <1>6. PICK T : T = {}  OBVIOUS
  <1>7. \A y \in Writers : Due(p, sec[p], y) => Passed(p, sec[p], y) \/ y \in T
    <2> SUFFICES ASSUME NEW y \in Writers, Due(p, sec[p], y) PROVE Passed(p, sec[p], y)
      OBVIOUS
    <2>1. Place(y) < k[p]  BY <1>2, <1>3, <1>4, <1>5, AllPassed
    <2> QED  BY <1>5, <2>1, SharedDue
  <1>8. T \subseteq Writers /\ (\A q \in T : Due(p, sec[p], q)) /\ have'[p] = have[p] /\ T = {}
    BY <1>4, <1>6
  <1>9. ~Hears(p)  BY <1>1 DEF Hears
  <1> QED  BY <1>1, <1>4, <1>7, <1>8, <1>9, EndMoves

LEMMA EndFileHad ==
  ASSUME Types, stage = "read", ReadInv, FilesInv, HadInv, NEW q \in Procs, EndFile(q)
  PROVE  Had'
PROOF
  <1>1. /\ pc[q] = "read" /\ Shared(sec[q]) /\ ReaderOf(q) = q /\ pc[q] \in ReadPcs
        /\ NChunks(q) = ChunksOf(q)
    BY ReadsForFacts DEF EndFile
  <1>2. ChunksOf(q) \in Int  BY <1>1, ReadingFacts
  <1>3. /\ set \in Settings /\ Headed /\ ~set.less /\ Filled /\ k[q] \in Nat /\ q \in 0 .. set.r - 1
        /\ sec[q] \in Sections /\ base = Header
    BY <1>1, RunFacts
  <1>4. /\ UNCHANGED <<set, stage, base, files, k, pass, chan>> /\ NextReadSection(q)
        /\ k[q] >= ChunksOf(q)
    BY <1>1 DEF EndFile
  <1>5. ~Hears(q)  BY <1>1 DEF Hears, Shared
  <1>6. \A y \in Writers : Due(q, sec[q], y) => Place(y) < k[q]
    BY <1>1, <1>2, <1>3, <1>4, AllPassed
  <1>7. CASE Method(sec[q]) = "share"
    <2>1. PICK T : T = {}  OBVIOUS
    <2>2. \A y \in Writers : Due(q, sec[q], y) => Passed(q, sec[q], y) \/ y \in T
      BY <1>1, <1>6, <1>7, SharedDue
    <2>3. have' = have  BY <1>7 DEF EndFile
    <2>4. T \subseteq Writers /\ (\A y \in T : Due(q, sec[q], y)) /\ have'[q] = have[q] /\ T = {}
      BY <2>1, <2>3
    <2> QED  BY <1>1, <1>4, <1>5, <2>2, <2>3, <2>4, EndMoves
  <1>8. CASE Method(sec[q]) = "same"
    <2>1. PICK s \in Sections : s = sec[q] /\ Method(s) = "same"  BY <1>3, <1>8
    <2>2. base.multiproc = 0 /\ s = "grid" /\ set.r = base.w  BY <2>1 DEF Method
    <2>3. ~Sharing /\ FileOf(q) = 0 /\ ReaderOf(q) = 0 /\ ClusterOf(q) = set.r
      BY <2>2 DEF Sharing, FileOf, ReaderOf, ClusterOf
    <2>4. q = 0 /\ set.w \in Nat \ {0} /\ base.w = set.w  BY <1>1, <1>3, <2>3, SettingFacts, HeaderFacts
    <2>5. PICK z \in Writers : z = 0  BY <2>4 DEF Writers
    <2>6. \A y \in Writers : Group(y) = 0 /\ Place(y) = y  BY <1>3, <2>2, Places
    <2>7. \A y \in Writers : y \in Nat /\ y < set.w /\ y % set.w = y
      <3> TAKE y \in Writers
      <3>1. y \in Nat /\ y < set.w  BY <2>4 DEF Writers
      <3> QED  BY <2>4, <3>1, ModFacts
    <2>8. \A y \in Writers : Due(q, s, y) <=> y = z
      <3> TAKE y \in Writers
      <3>1. Due(q, s, y) <=> 0 = Group(y) /\ Place(y) % set.w = 0
        <4>1. q - ReaderOf(q) = 0  BY <2>3, <2>4
        <4> QED  BY <1>1, <2>1, <2>2, <2>3, <2>4, <4>1, SharedDue
      <3> QED  BY <2>5, <2>6, <2>7, <3>1
    <2>9. ~Passed(q, s, z)  BY <1>1, <2>1, SharedDue
    <2>10. Chunk(0, "grid", 0) = Piece(z, "grid", 1)
      <3>1. Chunk(Group(z), "grid", Place(z)) = Piece(z, "grid", 1)  BY <1>3, Places
      <3> QED  BY <2>5, <2>6, <3>1
    <2>11. PICK m : m = Piece(z, s, 1) /\ m = Chunk(0, "grid", 0)  BY <2>2, <2>10
    <2>12. have' = [have EXCEPT ![q] = Restored(q, m, FALSE)]  BY <1>8, <2>11 DEF EndFile, Keep
    <2>13. have'[q] = Restored(q, m, FALSE)
      <3>1. have = [x \in Procs |-> have[x]]
        <4>1. Had  BY <1>1, RunFacts
        <4> QED  BY <4>1 DEF Had
      <3> QED  BY <2>12, <3>1
    <2>14. PICK T : T = {z}  OBVIOUS
    <2>15. T \subseteq Writers /\ (\A y \in T : Due(q, sec[q], y))  BY <2>1, <2>8, <2>14
    <2>16. \A y \in Writers : Due(q, sec[q], y) => Passed(q, sec[q], y) \/ y \in T
      BY <2>1, <2>8, <2>14
    <2>17. \E y \in Writers : \E n :
             /\ T = {y} /\ ~Passed(q, sec[q], y) /\ n = Piece(y, sec[q], 1)
             /\ have'[q] = Restored(q, n, FALSE) /\ Method(sec[q]) # "bcast"
      BY <1>8, <2>1, <2>9, <2>11, <2>13, <2>14
    <2>18. \E r : have' = [have EXCEPT ![q] = r]  BY <2>12
    <2> QED  BY <1>1, <1>4, <1>5, <2>15, <2>16, <2>17, <2>18, EndMoves
  <1> QED  BY <1>1, <1>7, <1>8 DEF Shared

LEMMA SendChunkHad ==
  ASSUME Types, stage = "read", ReadInv, FilesInv, HadInv, NEW q \in Procs, SendChunk(q)
  PROVE  Had'
PROOF
  <1>1. pc[q] = "rsend"  BY DEF SendChunk
  <1>2. /\ ReaderOf(q) = q /\ pc[q] \in ReadPcs /\ TurnOf(q) \in Procs /\ TurnOf(q) # q /\ ReaderOf(TurnOf(q)) = q
        /\ Turn(q) = TurnOf(q) /\ sec[q] \in Sections /\ Shared(sec[q])
        /\ \A r \in Procs : r = TurnOf(q) => Exchange(q, r, sec[q])
    BY <1>1, ExchangeFacts
  <1>3. k[q] \in Nat /\ ClusterOf(q) \in Nat \ {0} /\ q \in Int  BY <1>2, ReadingFacts
  <1>4. /\ set \in Settings /\ Headed /\ ~set.less /\ Filled /\ base = Header
        /\ Procs = 0 .. set.r - 1
    BY <1>2, RunFacts
  <1>5. PICK r \in Procs : r = TurnOf(q) /\ r # q /\ ReaderOf(r) = q  BY <1>2
  <1>6. PICK m : m = Chunk(File(q), sec[q], k[q])  OBVIOUS
  <1>7. /\ Send(q, r, m) /\ Go(q, "read") /\ k' = [k EXCEPT ![q] = @ + 1]
        /\ UNCHANGED <<set, stage, pass, sec, base, files, have>>
    BY <1>2, <1>5, <1>6 DEF SendChunk
  <1>8. pc'[q] = "read" /\ \A x \in Procs \ {q} : pc'[x] = pc[x]  BY <1>7, GoFacts
  <1>9. k'[q] = k[q] + 1 /\ \A x \in Procs \ {q} : k'[x] = k[x]  BY <1>7 DEF Types
  <1>10. /\ pc[r] = "wait" /\ k[r] = k[q] /\ chan[q][r] = <<>> /\ sec[r] = sec[q] /\ k[q] < ChunksOf(r)
    BY <1>1, <1>2, <1>5 DEF Exchange, Still
  <1>11. chan'[q][r] = <<m>> /\ \A x, y \in Procs : x # q \/ y # r => chan'[x][y] = chan[x][y]
    <2>1. Chans /\ Procs' = Procs  BY <1>7 DEF Types, Procs, N
    <2>2. /\ chan'[q][r] = Append(chan[q][r], m)
          /\ \A x, y \in Procs : x # q \/ y # r => chan'[x][y] = chan[x][y]
      BY <1>7, <2>1, SendFacts
    <2> QED  BY <1>10, <2>2, ShortSequences
  <1>12. MailIn(q, r)'
    <2>1. File(q) = FileOf(q)  BY <1>2, <1>4, ReaderSame
    <2>2. FileOf(q) = FileOf(r)  BY <1>4, <1>5, ReaderFacts
    <2>3. PICK f, n : f = FileOf(r) /\ f = FileOf(r)' /\ n = ChunksOf(r) /\ n = ChunksOf(r)'
      BY <1>7, ClustersKept
    <2>4. pc'[r] = pc[r] /\ k'[r] = k[q] /\ sec'[r] = sec[q]  BY <1>5, <1>7, <1>8, <1>9, <1>10
    <2>5. m = Chunk(f, sec[r], k[r])'
      <3>1. m = Chunk(f, sec[q], k[q])  BY <1>6, <2>1, <2>2, <2>3
      <3> QED  BY <1>7, <2>4, <3>1 DEF Chunk
    <2>6. Head(chan'[q][r]) = m  BY <1>11, ShortSequences
    <2>7. k'[r] < n  BY <1>10, <2>3, <2>4
    <2> QED  BY <2>3, <2>5, <2>6, <2>7 DEF MailIn
  <1>13. \A x \in Procs : ReaderOf(x) # x /\ (x = q \/ ReaderOf(x) = q) => MailIn(ReaderOf(x), x)'
    BY <1>2, <1>5, <1>7, <1>8, <1>9, <1>11, <1>12, ReaderMail
  <1>14. ASSUME NEW y \in Writers, Due(q, sec[q], y)
         PROVE  Passed(q, sec[q], y)' <=> Passed(q, sec[q], y)
    <2>1. PICK c \in Nat \ {0}, u \in Nat : c = ClusterOf(q) /\ u = k[q]  BY <1>3
    <2>2. PICK i \in Nat : i = Place(y)  BY <1>4, Places
    <2>3. i % c = 0
      <3>1. Place(y) % ClusterOf(q) = q - ReaderOf(q)  BY <1>2, <1>14, SharedDue
      <3> QED  BY <1>2, <1>3, <2>1, <2>2, <3>1
    <2>4. i # u
      <3>1. u % c # 0
        <4>1. TurnOf(q) = q + (u % c)  BY <1>2, <2>1, TurnFacts
        <4> QED  BY <1>2, <1>3, <4>1
      <3> QED  BY <2>3, <3>1
    <2>5. i < u + 1 <=> i < u  BY <2>4
    <2>6. Passed(q, sec[q], y) <=> Method(sec[q]) = "share" /\ i < u  BY <1>2, <2>1, <2>2, SharedDue
    <2>7. Passed(q, sec[q], y)' <=> Method(sec[q]) = "share" /\ i < u + 1
      BY <1>2, <1>7, <1>9, <2>1, <2>2, SharedPassed
    <2> QED  BY <2>5, <2>6, <2>7
  <1> QED  BY <1>1, <1>2, <1>7, <1>8, <1>9, <1>11, <1>13, <1>14, Quiet

LEMMA ReadMineHad ==
  ASSUME Types, stage = "read", ReadInv, FilesInv, HadInv, NEW q \in Procs, ReadMine(q)
  PROVE  Had'
PROOF
  <1>1. /\ pc[q] = "read" /\ Shared(sec[q]) /\ ReaderOf(q) = q /\ pc[q] \in ReadPcs /\ TurnOf(q) = q
        /\ NChunks(q) = ChunksOf(q)
    BY ReadsForFacts DEF ReadMine
  <1>2. ClusterOf(q) \in Nat \ {0} /\ q \in Int /\ ChunksOf(q) \in Int  BY <1>1, ReadingFacts
  <1>3. /\ set \in Settings /\ Headed /\ ~set.less /\ Filled /\ k[q] \in Nat /\ q \in 0 .. set.r - 1
        /\ sec[q] \in Sections /\ Had /\ SecPart(q) /\ Right(have[q], q, Got(q, "grid"), Got(q, "surf"))
    BY <1>1, RunFacts
  <1>4. /\ UNCHANGED <<set, stage, base, files, pc, pass, sec, chan>> /\ k' = [k EXCEPT ![q] = @ + 1]
        /\ k[q] < ChunksOf(q)
    BY <1>1 DEF ReadMine
  <1>5. k'[q] = k[q] + 1 /\ \A x \in Procs \ {q} : k'[x] = k[x]  BY <1>4 DEF Types
  <1>6. \A x \in Procs : ReaderOf(x) # x /\ (x = q \/ ReaderOf(x) = q) => MailIn(ReaderOf(x), x)'
    BY <1>1, <1>4, <1>5, MailStays
  <1>7. PICK s \in Sections : s = sec[q] /\ s = sec'[q] /\ Shared(s)  BY <1>1, <1>3, <1>4
  <1>8. PICK c \in Nat \ {0}, u \in Nat : c = ClusterOf(q) /\ u = k[q]  BY <1>2, <1>3
  <1>10. \A y : Passed(q, s, y) <=> Method(s) = "share" /\ Place(y) < u  BY <1>1, <1>7, <1>8, SharedDue
  <1>11. \A y : Passed(q, sec[q], y)' <=> Method(s) = "share" /\ Place(y) < u + 1
    BY <1>1, <1>4, <1>5, <1>7, <1>8, SharedPassed
  <1>12. CASE Method(s) # "share"
    <2>1. have' = have  BY <1>7, <1>12 DEF ReadMine
    <2>2. \A y \in Writers : Due(q, sec[q], y) => (Passed(q, sec[q], y)' <=> Passed(q, sec[q], y))
      BY <1>7, <1>10, <1>11, <1>12
    <2> QED  BY <1>1, <1>4, <1>5, <1>6, <2>1, <2>2, Quiet
  <1>13. CASE Method(s) = "share"
    <2>1. u % c = 0
      <3>1. q = q + (u % c) /\ u % c \in Int  BY <1>1, <1>8, TurnFacts
      <3> QED  BY <1>2, <3>1
    <2>2. PICK f \in DOMAIN files : f = FileOf(q) /\ u < files[f].n
      <3>1. FileOf(q) \in DOMAIN files  BY <1>3, <1>7, SharedFile
      <3> QED  BY <1>4, <1>8, <3>1 DEF ChunksOf
    <2>3. s = "surf" => base.surfs  BY <1>3, <1>7 DEF SecPart
    <2>4. PICK z \in Writers : /\ Group(z) = f /\ Place(z) = u /\ Chunk(f, s, u) = Piece(z, s, 1)
                               /\ \A y \in Writers : Group(y) = f /\ Place(y) = u => y = z
      BY <1>3, <2>2, <2>3, ChunkFound
    <2>5. PICK m : m = Piece(z, s, 1)  OBVIOUS
    <2>6. have' = [have EXCEPT ![q] = Restored(q, m, FALSE)]
      <3>1. File(q) = FileOf(q)
        <4>1. Going  BY <1>1, ReadingFacts
        <4> QED  BY <1>3, ReaderSame
      <3> QED  BY <1>7, <1>8, <1>13, <2>2, <2>4, <2>5, <3>1 DEF ReadMine, Keep
    <2>7. have'[q] = Restored(q, m, FALSE) /\ \A x \in Procs \ {q} : have'[x] = have[x]
      <3>1. have = [x \in Procs |-> have[x]]  BY <1>3 DEF Had
      <3> QED  BY <2>6, <3>1
    <2>8. PICK T : T = {z}  OBVIOUS
    <2>9. Due(q, s, z) /\ z \notin Got(q, s)
      <3>1. Due(q, s, z)  BY <1>1, <1>2, <1>7, <1>8, <2>1, <2>2, <2>4, SharedDue
      <3>2. ~Passed(q, s, z)  BY <1>10, <2>4
      <3>3. ~Took(q, s, z)  BY <1>1, <1>7, <3>2, TookInside
      <3> QED  BY <3>1, <3>3 DEF Got
    <2>10. ASSUME NEW y \in Writers, Due(q, sec[q], y)
           PROVE  Passed(q, sec[q], y)' <=> Passed(q, sec[q], y) \/ y \in T
      <3>1. PICK i \in Nat : i = Place(y)  BY <1>3, Places
      <3>2. Group(y) = f  BY <1>7, <2>2, <2>10, SharedDue
      <3>3. y \in T <=> i = u  BY <2>4, <2>8, <3>1, <3>2
      <3>4. Passed(q, sec[q], y) <=> i < u  BY <1>7, <1>10, <1>13, <3>1
      <3>5. Passed(q, sec[q], y)' <=> i < u + 1  BY <1>11, <1>13, <3>1
      <3> QED  BY <3>3, <3>4, <3>5
    <2>11. /\ \A t : t = sec[q] => Got(q, t)' = Got(q, t) \union T
           /\ \A t : t # sec[q] => Got(q, t)' = Got(q, t)
      <3>1. /\ pc[q] \notin {"header", "enter", "counted"} /\ pc'[q] \notin {"header", "enter", "counted"}
            /\ sec'[q] = sec[q] /\ set' = set /\ base' = base
        BY <1>1, <1>4
      <3>2. T \subseteq Writers /\ \A y \in T : Due(q, sec[q], y)  BY <1>7, <2>8, <2>9
      <3> QED  BY <2>10, <3>1, <3>2, Within
    <2>12. \A r, G, S : r = have'[q] /\ G = Got(q, "grid")' /\ S = Got(q, "surf")' => Right(r, q, G, S)
      <3>1. /\ \A t \in Sections : t = s => Got(q, t)' = Got(q, t) \union {z}
            /\ \A t \in Sections : t # s => Got(q, t)' = Got(q, t)
        BY <1>7, <2>8, <2>11
      <3>2. PICK skip \in BOOLEAN : skip = FALSE  OBVIOUS
      <3>3. skip <=> Method(s) = "bcast"  BY <1>13, <3>2
      <3>4. have'[q] = Restored(q, m, skip)  BY <2>7, <3>2
      <3> QED  BY <1>3, <2>5, <2>9, <3>1, <3>3, <3>4, RightTaken
    <2>13. ~Hears(q) /\ ~Hears(q)' /\ OwnPart(q)' /\ SecPart(q)'
      <3>1. Method(s)' = Method(s)  BY <1>4, DueKept
      <3> QED  BY <1>3, <1>4, <1>7, <1>13, <3>1 DEF Hears, OwnPart, SecPart
    <2>14. have' = have \/ \E r : have' = [have EXCEPT ![q] = r]  BY <2>6
    <2> QED  BY <1>3, <1>4, <1>5, <1>6, <2>7, <2>12, <2>13, <2>14, HadMoves
  <1> QED  BY <1>12, <1>13

LEMMA FileNotEmpty ==
  ASSUME set \in Settings, Headed, ~set.less, Filled, NEW c \in DOMAIN files
  PROVE  files[c].n \in Int /\ 0 < files[c].n
PROOF
  <1>1. PICK y \in Writers : Group(y) = c  BY DEF Headed, Writers
  <1>2. Place(y) \in Nat /\ Place(y) < files[c].n  BY <1>1, Places
  <1>3. files[c].n \in Int  BY DEF Headed
  <1> QED  BY <1>2, <1>3

LEMMA OwnDue ==
  ASSUME NEW p, NEW s, Method(s) = "own", NEW y
  PROVE  /\ Due(p, s, y) <=> Group(y) % set.r = p
         /\ Passed(p, s, y) <=> Group(y) < pass[p] \/ (Group(y) = pass[p] /\ Place(y) < k[p])
PROOF
  BY DEF Due, Passed

LEMMA OwnPassed ==
  ASSUME set' = set, base' = base, NEW p, NEW s, sec'[p] = s, Method(s) = "own", NEW y
  PROVE  Passed(p, sec[p], y)' <=> Group(y) < pass'[p] \/ (Group(y) = pass'[p] /\ Place(y) < k'[p])
PROOF
  <1>1. PICK m, i, g : /\ m = Method(s) /\ m = Method(s)' /\ i = Place(y) /\ i = Place(y)'
                       /\ g = Group(y) /\ g = Group(y)'
    BY DueKept
  <1>2. Passed(p, s, y)' <=> g < pass'[p] \/ (g = pass'[p] /\ i < k'[p])  BY <1>1 DEF Passed
  <1>3. Passed(p, sec[p], y)' <=> Passed(p, s, y)'  OBVIOUS
  <1> QED  BY <1>1, <1>2, <1>3

(* The next chunk that a process with files of its own reads.              *)
LEMMA OwnChunk ==
  ASSUME Types, stage = "read", ReadInv, FilesInv, HadInv, NEW p \in Procs, ReadOwn(p), pass[p] < base.multiproc
  PROVE  Had'
PROOF
  <1>1. pc[p] = "read" /\ pc[p] \in ReadPcs /\ Method(sec[p]) = "own"  BY DEF ReadOwn, ReadPcs
  <1>2. /\ set \in Settings /\ Headed /\ ~set.less /\ Filled /\ k[p] \in Nat /\ set.r \in Nat \ {0}
        /\ sec[p] \in Sections /\ Had /\ SecPart(p) /\ Right(have[p], p, Got(p, "grid"), Got(p, "surf"))
        /\ OwnPart(p) /\ base.multiproc \in Nat
    BY <1>1, RunFacts
  <1>3. PICK s \in Sections : s = sec[p] /\ Method(s) = "own"  BY <1>1, <1>2
  <1>4. PICK a \in Nat, u \in Nat, n \in Nat \ {0} : a = pass[p] /\ u = k[p] /\ n = set.r /\ a % n = p
    BY <1>1, <1>2 DEF OwnPart
  <1>5. base.multiproc # 0  BY <1>3 DEF Method
  <1>6. a \in DOMAIN files /\ u < files[a].n
    <2>1. a \in DOMAIN files  BY <1>2, <1>4, <1>5, Places
    <2>2. u < files[a].n  BY <1>1, <1>2, <1>4 DEF OwnPart
    <2> QED  BY <2>1, <2>2
  <1>7. s = "surf" => base.surfs  BY <1>2, <1>3 DEF SecPart
  <1>8. PICK z \in Writers : /\ Group(z) = a /\ Place(z) = u /\ Chunk(a, s, u) = Piece(z, s, 1)
                             /\ \A y \in Writers : Group(y) = a /\ Place(y) = u => y = z
    BY <1>2, <1>6, <1>7, ChunkFound
  <1>9. PICK m : m = Piece(z, s, 1)  OBVIOUS
  <1>10. /\ UNCHANGED <<set, stage, base, files, pc, sec, chan>>
         /\ have' = [have EXCEPT ![p] = Restored(p, m, FALSE)]
         /\ IF u + 1 < files[a].n THEN k' = [k EXCEPT ![p] = @ + 1] /\ pass' = pass
            ELSE k' = [k EXCEPT ![p] = 0] /\ pass' = [pass EXCEPT ![p] = @ + n]
    BY <1>3, <1>4, <1>8, <1>9 DEF ReadOwn, Keep
  <1>11. /\ \A x \in Procs \ {p} : k'[x] = k[x] /\ pass'[x] = pass[x]
         /\ IF u + 1 < files[a].n THEN k'[p] = u + 1 /\ pass'[p] = a ELSE k'[p] = 0 /\ pass'[p] = a + n
    <2>1. k \in [Procs -> Nat] /\ pass \in [Procs -> Int]  BY DEF Types
    <2>2. CASE u + 1 < files[a].n
      <3>1. k' = [k EXCEPT ![p] = @ + 1] /\ pass' = pass  BY <1>10, <2>2
      <3> QED  BY <1>4, <2>1, <2>2, <3>1
    <2>3. CASE ~(u + 1 < files[a].n)
      <3>1. k' = [k EXCEPT ![p] = 0] /\ pass' = [pass EXCEPT ![p] = @ + n]  BY <1>10, <2>3
      <3> QED  BY <1>4, <2>1, <2>3, <3>1
    <2> QED  BY <2>2, <2>3
  <1>12. have'[p] = Restored(p, m, FALSE) /\ \A x \in Procs \ {p} : have'[x] = have[x]
    <2>1. have = [x \in Procs |-> have[x]]  BY <1>2 DEF Had
    <2> QED  BY <1>10, <2>1
  <1>13. PICK T : T = {z}  OBVIOUS
  <1>14. Due(p, s, z) /\ z \notin Got(p, s)
    <2>1. Due(p, s, z)  BY <1>3, <1>4, <1>8, OwnDue
    <2>2. ~Passed(p, s, z)
      <3>1. Passed(p, s, z) <=> Group(z) < pass[p] \/ (Group(z) = pass[p] /\ Place(z) < k[p])
        BY <1>3, OwnDue
      <3>2. ~(a < a) /\ ~(u < u)  BY <1>4
      <3>3. Passed(p, s, z) <=> a < a \/ (a = a /\ u < u)  BY <1>4, <1>8, <3>1
      <3> QED  BY <3>2, <3>3
    <2>3. ~Took(p, s, z)  BY <1>1, <1>3, <2>2, TookInside
    <2> QED  BY <2>1, <2>3 DEF Got
  <1>15. ASSUME NEW y \in Writers, Due(p, sec[p], y)
         PROVE  Passed(p, sec[p], y)' <=> Passed(p, sec[p], y) \/ y \in T
    <2>1. PICK g \in Nat, i \in Nat : g = Group(y) /\ i = Place(y) /\ i < files[g].n  BY <1>2, Places
    <2>2. g % n = p  BY <1>3, <1>4, <1>15, <2>1, OwnDue
    <2>3. Passed(p, sec[p], y) <=> g < a \/ (g = a /\ i < u)  BY <1>3, <1>4, <2>1, OwnDue
    <2>4. Passed(p, sec[p], y)' <=> g < pass'[p] \/ (g = pass'[p] /\ i < k'[p])
      <3>1. sec'[p] = s  BY <1>3, <1>10
      <3> QED  BY <1>3, <1>10, <2>1, <3>1, OwnPassed
    <2>5. y \in T <=> g = a /\ i = u  BY <1>8, <1>13, <2>1
    <2>6. CASE u + 1 < files[a].n
      <3>1. k'[p] = u + 1 /\ pass'[p] = a  BY <1>11, <2>6
      <3>2. i < u + 1 <=> i < u \/ i = u  OBVIOUS
      <3> QED  BY <2>3, <2>4, <2>5, <3>1, <3>2
    <2>7. CASE ~(u + 1 < files[a].n)
      <3>1. k'[p] = 0 /\ pass'[p] = a + n  BY <1>11, <2>7
      <3>2. a <= g /\ g < a + n => a = g  BY <1>4, <2>2, ModFacts
      <3>3. g < a + n <=> g < a \/ g = a  BY <3>2
      <3>4. ~(i < 0)  OBVIOUS
      <3>5. g = a => i < u \/ i = u
        <4> SUFFICES ASSUME g = a PROVE i < u \/ i = u
          OBVIOUS
        <4>1. files[a].n \in Int  BY <1>2, <1>6, FileNotEmpty
        <4>2. i < files[a].n  BY <2>1
        <4> QED  BY <2>7, <4>1, <4>2
      <3> QED  BY <2>3, <2>4, <2>5, <3>1, <3>3, <3>4, <3>5
    <2> QED  BY <2>6, <2>7
  <1>16. /\ \A t : t = sec[p] => Got(p, t)' = Got(p, t) \union T
         /\ \A t : t # sec[p] => Got(p, t)' = Got(p, t)
    <2>1. /\ pc[p] \notin {"header", "enter", "counted"} /\ pc'[p] \notin {"header", "enter", "counted"}
          /\ sec'[p] = sec[p] /\ set' = set /\ base' = base
      BY <1>1, <1>10
    <2>2. T \subseteq Writers /\ \A y \in T : Due(p, sec[p], y)  BY <1>3, <1>13, <1>14
    <2> QED  BY <1>15, <2>1, <2>2, Within
  <1>17. \A r, G, S : r = have'[p] /\ G = Got(p, "grid")' /\ S = Got(p, "surf")' => Right(r, p, G, S)
    <2>1. /\ \A t \in Sections : t = s => Got(p, t)' = Got(p, t) \union {z}
          /\ \A t \in Sections : t # s => Got(p, t)' = Got(p, t)
      BY <1>3, <1>13, <1>16
    <2>2. PICK skip \in BOOLEAN : skip = FALSE  OBVIOUS
    <2>3. skip <=> Method(s) = "bcast"  BY <1>3, <2>2
    <2>4. have'[p] = Restored(p, m, skip)  BY <1>12, <2>2
    <2> QED  BY <1>2, <1>9, <1>14, <2>1, <2>3, <2>4, RightTaken
  <1>18. ~Hears(p) /\ ~Hears(p)' /\ SecPart(p)'
    <2>1. Method(s)' = Method(s)  BY <1>10, DueKept
    <2> QED  BY <1>2, <1>3, <1>10, <2>1 DEF Hears, SecPart
  <1>19. OwnPart(p)'
    <2>1. CASE u + 1 < files[a].n
      <3>1. k'[p] = u + 1 /\ pass'[p] = a  BY <1>11, <2>1
      <3> QED  BY <1>4, <1>10, <2>1, <3>1 DEF OwnPart
    <2>2. CASE ~(u + 1 < files[a].n)
      <3>1. k'[p] = 0 /\ pass'[p] = a + n  BY <1>11, <2>2
      <3>2. a + n \in Nat /\ (a + n) % n = p
        <4>1. (a + n) % n = a % n  BY <1>4, ModFacts
        <4>2. a + n \in Nat  BY <1>4
        <4> QED  BY <1>4, <4>1, <4>2
      <3>3. a + n < base.multiproc => 0 < files[a + n].n
        <4> SUFFICES ASSUME a + n < base.multiproc PROVE 0 < files[a + n].n
          OBVIOUS
        <4>1. \A c \in Nat : c < base.multiproc => c \in DOMAIN files  BY <1>2, <1>5, Places
        <4>2. PICK c \in DOMAIN files : c = a + n  BY <3>2, <4>1
        <4>3. 0 < files[c].n  BY <1>2, FileNotEmpty
        <4> QED  BY <4>2, <4>3
      <3> QED  BY <1>4, <1>10, <3>1, <3>2, <3>3 DEF OwnPart
    <2> QED  BY <2>1, <2>2
  <1>20. \A x \in Procs : ReaderOf(x) # x /\ (x = p \/ ReaderOf(x) = p) => MailIn(ReaderOf(x), x)'
    BY <1>1, <1>10, <1>11, MailStays
  <1>21. have' = have \/ \E r : have' = [have EXCEPT ![p] = r]  BY <1>10
  <1> QED  BY <1>2, <1>10, <1>11, <1>12, <1>17, <1>18, <1>19, <1>20, <1>21, HadMoves

LEMMA ReadOwnHad ==
  ASSUME Types, stage = "read", ReadInv, FilesInv, HadInv, NEW p \in Procs, ReadOwn(p)
  PROVE  Had'
PROOF
  <1>1. CASE pass[p] < base.multiproc  BY <1>1, OwnChunk
  <1>2. CASE ~(pass[p] < base.multiproc)
    <2>1. pc[p] = "read" /\ pc[p] \in ReadPcs /\ Method(sec[p]) = "own"  BY DEF ReadOwn, ReadPcs
    <2>2. /\ set \in Settings /\ Headed /\ ~set.less /\ Filled /\ base.multiproc \in Nat /\ pass[p] \in Int
      BY <2>1, RunFacts
    <2>3. UNCHANGED <<set, stage, base, files, k, pass, chan, have>> /\ NextReadSection(p)
      BY <1>2 DEF ReadOwn
    <2>4. PICK T : T = {}  OBVIOUS
    <2>5. base.multiproc # 0  BY <2>1 DEF Method
    <2>6. \A y \in Writers : Due(p, sec[p], y) => Passed(p, sec[p], y) \/ y \in T
      <3> SUFFICES ASSUME NEW y \in Writers PROVE Passed(p, sec[p], y)
        OBVIOUS
      <3>1. Group(y) \in Nat /\ Group(y) < base.multiproc  BY <2>2, <2>5, Places
      <3>2. Group(y) < pass[p]  BY <1>2, <2>2, <3>1
      <3> QED  BY <2>1, <3>2, OwnDue
    <2>7. T \subseteq Writers /\ (\A y \in T : Due(p, sec[p], y)) /\ have'[p] = have[p] /\ T = {}
      BY <2>3, <2>4
    <2>8. ~Hears(p)  BY <2>1 DEF Hears
    <2> QED  BY <2>1, <2>3, <2>6, <2>7, <2>8, EndMoves
  <1> QED  BY <1>1, <1>2

-----------------------------------------------------------------------------
(* All processes move together.                                            *)
LEMMA HadAll ==
  ASSUME UNCHANGED <<set, base>>, NEW R, Procs' = R, have' = [p \in R |-> have'[p]],
         \A p \in R : pc'[p] # "wait",
         \A p \in R : OwnPart(p)' /\ SecPart(p)',
         \A p \in R : \A r, G, S : r = have'[p] /\ G = Got(p, "grid")' /\ S = Got(p, "surf")' => Right(r, p, G, S),
         Together'
  PROVE  Had'
PROOF
  <1>1. ASSUME NEW p \in R PROVE HadPart(p)'
    <2>1. PICK r, G, S : r = have'[p] /\ G = Got(p, "grid")' /\ S = Got(p, "surf")'  OBVIOUS
    <2>2. Right(r, p, G, S)  BY <2>1
    <2>3. Right(r, p, G, S)'  BY <2>2, RightSame
    <2> QED  BY <2>1, <2>3 DEF HadPart
  <1>2. ASSUME NEW p \in R PROVE MailIn(ReaderOf(p), p)'
    BY DEF MailIn
  <1> QED  BY <1>1, <1>2 DEF Had

Nothing == [cells |-> <<>>, particles |-> <<>>, surfs |-> <<>>, clumped |-> FALSE]
LEMMA RightNothing ==
  ASSUME NEW p
  PROVE  Right(Nothing, p, {}, {})
PROOF
  <1>1. PICK e : e = <<>>  OBVIOUS
  <1>2. Nothing = [cells |-> e, particles |-> e, surfs |-> e, clumped |-> FALSE]  BY <1>1 DEF Nothing
  <1>3. DOMAIN e = {} /\ \A A : e \in Seq(A)
    <2>1. DOMAIN e = 1 .. 0  BY <1>1
    <2> QED  BY <1>1, <2>1
  <1>4. \A f : Holds(e, p, f, {})  BY <1>3 DEF Holds
  <1>5. Ordered(e)  BY <1>3 DEF Ordered
  <1>6. Nothing.cells = e /\ Nothing.particles = e /\ Nothing.surfs = e /\ Nothing.clumped = FALSE
    BY <1>2
  <1>7. Nothing = [cells |-> Nothing.cells, particles |-> Nothing.particles, surfs |-> Nothing.surfs,
                   clumped |-> Nothing.clumped]
    BY <1>2, <1>6
  <1> QED  BY <1>1, <1>4, <1>5, <1>6, <1>7 DEF Right

LEMMA StartHad ==
  ASSUME Types, StartReading
  PROVE  Had'
PROOF
  <1>1. PICK R : R = 0 .. set.r - 1  OBVIOUS
  <1>2. /\ set' = set /\ base' = base /\ stage' = "read"
        /\ pc' = [p \in R |-> "header"] /\ sec' = [p \in R |-> "grid"]
        /\ have' = [p \in R |-> Nothing]
    BY <1>1 DEF StartReading, Each, Nothing
  <1>3. Procs' = R  BY <1>1, <1>2 DEF Procs, N
  <1>4. have' = [p \in R |-> have'[p]] /\ \A p \in R : pc'[p] = "header" /\ sec'[p] = "grid" /\ have'[p] = Nothing
    BY <1>2
  <1>5. \A p \in R : OwnPart(p)' /\ SecPart(p)'  BY <1>4 DEF OwnPart, SecPart
  <1>6. ASSUME NEW p \in R, NEW s PROVE Got(p, s)' = {}
    <2>1. ~Finished(p, s)' /\ ~Inside(p, s)'  BY <1>4 DEF Finished, Inside
    <2> QED  BY <2>1 DEF Got, Took
  <1>7. \A p \in R : \A r, G, S : r = have'[p] /\ G = Got(p, "grid")' /\ S = Got(p, "surf")' => Right(r, p, G, S)
    <2> SUFFICES ASSUME NEW p \in R PROVE Right(have'[p], p, Got(p, "grid")', Got(p, "surf")')
      OBVIOUS
    <2>1. Right(Nothing, p, {}, {})  BY RightNothing
    <2> QED  BY <1>4, <1>6, <2>1
  <1>8. Together'  BY <1>3, <1>4 DEF Together, Hears
  <1>9. \A p \in R : pc'[p] # "wait"  BY <1>4
  <1> QED  BY <1>2, <1>3, <1>4, <1>5, <1>7, <1>8, <1>9, HadAll

(* Nothing is read with the header.                                        *)
LEMMA HeaderHad ==
  ASSUME Types, ReadInv, HadInv, ReadHeader, ~set.less
  PROVE  Had'
PROOF
  <1>1. PICK R : R = Procs  OBVIOUS
  <1>2. /\ stage = "read" /\ At("header") /\ UNCHANGED <<set, stage, sec, base, files, have>>
        /\ \A p \in 0 .. set.r - 1 : pc'[p] = "enter"
    <2>1. /\ stage = "read" /\ At("header") /\ UNCHANGED <<set, stage, sec, base, files, have>>
          /\ \A p \in 0 .. set.r - 1 : pc'[p] = IF base.multiproc = Missing THEN "refused" ELSE "enter"
      BY DEF ReadHeader, Each
    <2>2. base.multiproc # Missing
      <3>1. set \in Settings /\ base = Header  BY <2>1 DEF Types, ReadInv, Headed
      <3>2. base.multiproc \in Nat  BY <3>1, HeaderFacts, SettingFacts
      <3> QED  BY <3>2 DEF Missing
    <2> QED  BY <2>1, <2>2
  <1>3. R = 0 .. set.r - 1 /\ Procs' = R  BY <1>1, <1>2, ReadingRun
  <1>4. Had  BY <1>2 DEF HadInv
  <1>5. \A p \in R : pc[p] = "header" /\ pc'[p] = "enter"  BY <1>1, <1>2, <1>3 DEF At
  <1>6. have' = [p \in R |-> have'[p]]  BY <1>1, <1>2, <1>4 DEF Had
  <1>7. ASSUME NEW p \in R PROVE OwnPart(p)' /\ SecPart(p)'
    <2>1. SecPart(p)  BY <1>1, <1>4 DEF Had, HadPart
    <2> QED  BY <1>2, <1>5, <2>1 DEF OwnPart, SecPart
  <1>8. ASSUME NEW p \in R
        PROVE  \A r, G, S : r = have'[p] /\ G = Got(p, "grid")' /\ S = Got(p, "surf")' => Right(r, p, G, S)
    <2>1. (\A s, q : Due(p, s, q)' <=> Due(p, s, q)) /\ Writers' = Writers  BY <1>2, DueKept
    <2>2. \A s : (Finished(p, s)' <=> Finished(p, s)) /\ ~Inside(p, s) /\ ~Inside(p, s)'
      <3>1. pc[p] = "header" /\ pc'[p] = "enter" /\ sec'[p] = sec[p]  BY <1>2, <1>5
      <3>2. sec[p] = "grid"  BY <1>1, <1>2, <1>5, <3>1 DEF ReadInv, At, Going, ReadParts, ReadPart
      <3> QED  BY <3>1, <3>2 DEF Finished, Inside
    <2>3. \A s : Got(p, s)' = Got(p, s)  BY <2>1, <2>2 DEF Got, Took
    <2>4. Right(have[p], p, Got(p, "grid"), Got(p, "surf"))  BY <1>1, <1>4 DEF Had, HadPart
    <2> QED  BY <1>2, <2>3, <2>4
  <1>9. Together'  BY <1>3, <1>5 DEF Together, Hears
  <1> QED  BY <1>2, <1>3, <1>5, <1>6, <1>7, <1>8, <1>9, HadAll

(* A section starts: no process has passed a chunk that is due to it.      *)
LEMMA NotPassed ==
  ASSUME set \in Settings, Headed, ~set.less, Filled, set' = set, base' = base, NEW p \in 0 .. set.r - 1,
         NEW s, sec'[p] = s, pass'[p] = p,
         k'[p] = IF Shared(s) THEN p - ReaderOf(p) ELSE 0,
         NEW y \in Writers, Due(p, s, y)
  PROVE  ~Passed(p, sec[p], y)'
PROOF
  <1>1. PICK i \in Nat, g \in Nat : i = Place(y) /\ g = Group(y)  BY Places
  <1>2. PICK n \in Nat \ {0} : n = set.r  BY SettingFacts
  <1>3. p \in Nat /\ p < n  BY <1>2
  <1>4. CASE Shared(s)
    <2>1. PICK c \in Nat \ {0}, d \in Nat : c = ClusterOf(p) /\ d = p - ReaderOf(p) /\ d < c
      BY ReaderFacts DEF Headed
    <2>2. i % c = d  BY <1>1, <1>4, <2>1, SharedDue
    <2>3. ~(i < d)
      <3>1. i < c => i % c = i  BY <1>1, <2>1, ModFacts
      <3> QED  BY <1>1, <2>1, <2>2, <3>1
    <2>4. Passed(p, sec[p], y)' => Place(y) < k'[p]  BY <1>4, SharedPassed
    <2> QED  BY <1>1, <1>4, <2>1, <2>3, <2>4
  <1>5. CASE Method(s) = "own"
    <2>1. g % n = p  BY <1>1, <1>2, <1>5, OwnDue
    <2>2. ~(g < p)
      <3>1. g < n => g % n = g  BY <1>1, <1>2, ModFacts
      <3> QED  BY <1>1, <1>2, <1>3, <2>1, <3>1
    <2>3. k'[p] = 0 /\ pass'[p] = p  BY <1>5 DEF Shared
    <2>4. Passed(p, sec[p], y)' <=> g < pass'[p] \/ (g = pass'[p] /\ i < k'[p])  BY <1>1, <1>5, OwnPassed
    <2>5. ~(i < 0)  BY <1>1
    <2> QED  BY <2>2, <2>3, <2>4, <2>5
  <1>6. CASE ~Shared(s) /\ Method(s) # "own"
    <2>1. Method(s) = "bcast"  BY <1>6 DEF Shared, Method
    <2>2. PICK m, j : m = Method(s) /\ m = Method(s)' /\ j = Place(y) /\ j = Place(y)'  BY DueKept
    <2>3. Passed(p, s, y)' <=> j < k'[p]  BY <2>1, <2>2 DEF Passed
    <2>4. Passed(p, sec[p], y)' <=> Passed(p, s, y)'  OBVIOUS
    <2>5. k'[p] = 0 /\ ~(i < 0)  BY <1>1, <1>6
    <2> QED  BY <1>1, <2>2, <2>3, <2>4, <2>5
  <1> QED  BY <1>4, <1>5, <1>6

LEMMA EnterHad ==
  ASSUME Types, ReadInv, FilesInv, HadInv, Enter
  PROVE  Had'
PROOF
  <1>1. /\ stage = "read" /\ At("enter") /\ UNCHANGED <<set, stage, sec, base, files, have>>
        /\ pc' = [p \in Procs |-> IF Shared(sec[p]) /\ Reader(p) # p THEN "size" ELSE "read"]
        /\ k' = [p \in Procs |-> IF Shared(sec[p]) THEN p - Reader(p) ELSE 0]
        /\ pass' = [p \in Procs |-> p]
    BY DEF Enter, Shared
  <1>2. Procs = 0 .. set.r - 1 /\ Procs' = Procs /\ 0 \in Procs  BY <1>1, ReadingRun
  <1>3. \A p \in Procs : pc[p] = "enter" /\ pc[p] \in ReadPcs  BY <1>1 DEF At, ReadPcs
  <1>4. /\ set \in Settings /\ set.r \in Nat \ {0} /\ Headed /\ ~set.less /\ Filled /\ Had /\ Going
        /\ base.multiproc \in Nat
    BY <1>1, <1>2, <1>3, RunFacts
  <1>5. PICK s \in Sections : \A p \in Procs : sec[p] = s
    <2>1. (\A p \in Procs : sec[p] = "grid") \/ (\A p \in Procs : sec[p] = "surf")
      BY <1>3, <1>4 DEF Going, Entering
    <2> QED  BY <2>1 DEF Sections
  <1>6. ASSUME NEW p \in Procs
        PROVE  /\ pc'[p] \in {"size", "read"} /\ (~Shared(s) => pc'[p] = "read") /\ sec'[p] = s /\ pass'[p] = p
               /\ k'[p] = IF Shared(s) THEN p - ReaderOf(p) ELSE 0
    <2>1. Reader(p) = ReaderOf(p)  BY <1>1, <1>3, ReadingFacts
    <2> QED  BY <1>1, <1>5, <2>1
  <1>7. have' = [p \in Procs |-> have'[p]]  BY <1>1, <1>4 DEF Had
  <1>8. ASSUME NEW p \in Procs PROVE OwnPart(p)' /\ SecPart(p)'
    <2>1. SecPart(p)  BY <1>4 DEF Had, HadPart
    <2>2. SecPart(p)'  BY <1>1, <1>6, <2>1 DEF SecPart
    <2>3. Method(s)' = Method(s)  BY <1>1, DueKept
    <2>4. ASSUME Method(s) = "own"
          PROVE  pass'[p] \in Nat /\ pass'[p] % set.r = p /\ (pass'[p] < base.multiproc => k'[p] < files[pass'[p]].n)
      <3>1. k'[p] = 0 /\ pass'[p] = p  BY <1>6, <2>4 DEF Shared
      <3>2. p \in Nat /\ p < set.r  BY <1>2, <1>4
      <3>3. p % set.r = p  BY <1>4, <3>2, ModFacts
      <3>4. base.multiproc # 0  BY <2>4 DEF Method
      <3>5. p < base.multiproc => 0 < files[p].n
        <4> SUFFICES ASSUME p < base.multiproc PROVE 0 < files[p].n
          OBVIOUS
        <4>1. p \in DOMAIN files  BY <1>4, <3>2, <3>4, Places
        <4> QED  BY <1>4, <4>1, FileNotEmpty
      <3> QED  BY <3>1, <3>2, <3>3, <3>5
    <2>5. OwnPart(p)'  BY <1>1, <1>6, <2>3, <2>4 DEF OwnPart
    <2> QED  BY <2>2, <2>5
  <1>9. ASSUME NEW p \in Procs
        PROVE  \A r, G, S : r = have'[p] /\ G = Got(p, "grid")' /\ S = Got(p, "surf")' => Right(r, p, G, S)
    <2>1. (\A t, q : Due(p, t, q)' <=> Due(p, t, q)) /\ Writers' = Writers  BY <1>1, DueKept
    <2>2. pc[p] = "enter" /\ pc'[p] \in {"size", "read"} /\ sec[p] = s /\ sec'[p] = s  BY <1>3, <1>5, <1>6
    <2>3. \A t : (Finished(p, t)' <=> Finished(p, t)) /\ ~Inside(p, t) /\ (Inside(p, t)' => t = s)
      BY <2>2 DEF Finished, Inside
    <2>4. ASSUME NEW y \in Writers, Due(p, s, y) PROVE ~Passed(p, s, y)'
      <3>1. p \in 0 .. set.r - 1  BY <1>2
      <3>2. pass'[p] = p /\ k'[p] = IF Shared(s) THEN p - ReaderOf(p) ELSE 0  BY <1>6
      <3>3. ~Passed(p, sec[p], y)'  BY <1>1, <1>4, <2>2, <2>4, <3>1, <3>2, NotPassed
      <3> QED  BY <2>2, <3>3
    <2>5. \A t : \A y \in Writers : Took(p, t, y)' <=> Took(p, t, y)
      <3> SUFFICES ASSUME NEW t, NEW y \in Writers PROVE Took(p, t, y)' <=> Took(p, t, y)
        OBVIOUS
      <3>1. t = s /\ Due(p, t, y) => ~Passed(p, t, y)'  BY <2>4
      <3> QED  BY <2>1, <2>3, <3>1 DEF Took
    <2>6. \A t : Got(p, t)' = Got(p, t)  BY <2>1, <2>5 DEF Got
    <2>7. Right(have[p], p, Got(p, "grid"), Got(p, "surf"))  BY <1>4 DEF Had, HadPart
    <2> QED  BY <1>1, <2>6, <2>7
  <1>10. Together'
    <2> SUFFICES ASSUME NEW p \in Procs, NEW x \in Procs, Hears(p)'
                 PROVE  (pc[x] = "read" /\ sec[x] = sec[p] /\ k[x] = k[p])'
      BY <1>2 DEF Together
    <2>1. Method(s)' = Method(s)  BY <1>1, DueKept
    <2>2. Method(s) = "bcast"  BY <1>6, <2>1 DEF Hears
    <2>3. ~Shared(s)  BY <2>2 DEF Shared
    <2> QED  BY <1>6, <2>3
  <1>11. \A p \in Procs : pc'[p] # "wait"  BY <1>6
  <1> QED  BY <1>1, <1>2, <1>7, <1>8, <1>9, <1>10, <1>11, HadAll

(* What all processes hear is the chunk of the next writer.                *)
LEMMA HeardFacts ==
  ASSUME Types, ReadInv, FilesInv, HadInv, ReadBroadcast
  PROVE  \E s \in Sections, u \in Nat :
           /\ Method(s) = "bcast" /\ (s = "surf" => base.surfs)
           /\ \A p \in Procs : /\ pc[p] = "read" /\ sec[p] = s /\ k[p] = u
                               /\ SecPart(p) /\ Right(have[p], p, Got(p, "grid"), Got(p, "surf"))
           /\ \A p \in Procs, y \in Writers : /\ Due(p, s, y) /\ y \in Nat /\ y < base.w
                                              /\ Passed(p, s, y) <=> y < u
           /\ u < base.w => u \in Writers /\ Chunk(0, s, u) = Piece(u, s, 1)
           /\ set \in Settings /\ Headed /\ ~set.less /\ stage = "read"
           /\ Procs = 0 .. set.r - 1 /\ Procs' = Procs /\ 0 \in Procs
PROOF
  <1>1. /\ stage = "read" /\ At("read") /\ Method(sec[0]) = "bcast" /\ UNCHANGED <<set, stage, base, files>>
    BY DEF ReadBroadcast
  <1>2. Procs = 0 .. set.r - 1 /\ Procs' = Procs /\ 0 \in Procs  BY <1>1, ReadingRun
  <1>3. \A p \in Procs : pc[p] = "read" /\ pc[p] \in ReadPcs  BY <1>1 DEF At, ReadPcs
  <1>4. /\ set \in Settings /\ set.r \in Nat \ {0} /\ Headed /\ ~set.less /\ Filled /\ Had /\ k[0] \in Nat
        /\ sec[0] \in Sections /\ SecPart(0)
    BY <1>1, <1>2, <1>3, RunFacts
  <1>5. PICK s \in Sections, u \in Nat : s = sec[0] /\ u = k[0]  BY <1>4
  <1>6. Method(s) = "bcast" /\ (s = "surf" => base.surfs)  BY <1>1, <1>4, <1>5 DEF SecPart
  <1>7. Hears(0)  BY <1>1, <1>2, <1>3 DEF Hears
  <1>8. ASSUME NEW p \in Procs
        PROVE  /\ pc[p] = "read" /\ sec[p] = s /\ k[p] = u
               /\ SecPart(p) /\ Right(have[p], p, Got(p, "grid"), Got(p, "surf"))
    <2>1. sec[p] = s /\ k[p] = u  BY <1>2, <1>4, <1>5, <1>7 DEF Had, Together
    <2> QED  BY <1>3, <1>4, <2>1 DEF Had, HadPart
  <1>9. base.multiproc = 0 /\ base.w = set.w /\ set.w \in Nat \ {0}
    <2>1. base.multiproc = 0  BY <1>6 DEF Method
    <2> QED  BY <1>4, <2>1, HeaderFacts, SettingFacts DEF Headed
  <1>10. \A y \in Writers : Group(y) = 0 /\ Place(y) = y /\ y \in Nat /\ y < base.w
    <2>1. \A y \in Writers : Group(y) = 0 /\ Place(y) = y  BY <1>4, <1>9, Places
    <2> QED  BY <1>9, <2>1 DEF Writers
  <1>11. ASSUME NEW p \in Procs, NEW y \in Writers PROVE Due(p, s, y) /\ (Passed(p, s, y) <=> y < u)
    <2>1. Place(y) = y /\ k[p] = u  BY <1>8, <1>10
    <2> QED  BY <1>6, <2>1 DEF Due, Passed
  <1>12. u < base.w => u \in Writers /\ Chunk(0, s, u) = Piece(u, s, 1)
    <2> SUFFICES ASSUME u < base.w PROVE u \in Writers /\ Chunk(0, s, u) = Piece(u, s, 1)
      OBVIOUS
    <2>1. u \in Writers  BY <1>9 DEF Writers
    <2>2. Group(u) = 0 /\ Place(u) = u  BY <1>10, <2>1
    <2>3. /\ Chunk(Group(u), "grid", Place(u)) = Piece(u, "grid", 1)
          /\ base.surfs => Chunk(Group(u), "surf", Place(u)) = Piece(u, "surf", 1)
      BY <1>4, <2>1, Places
    <2>4. Chunk(0, "grid", u) = Piece(u, "grid", 1) /\ (base.surfs => Chunk(0, "surf", u) = Piece(u, "surf", 1))
      BY <2>2, <2>3
    <2> QED  BY <1>6, <2>1, <2>4 DEF Sections
  <1> QED  BY <1>1, <1>2, <1>4, <1>6, <1>8, <1>10, <1>11, <1>12

LEMMA BroadcastHad ==
  ASSUME Types, ReadInv, FilesInv, HadInv, ReadBroadcast
  PROVE  Had'
PROOF
  <1>1. PICK s \in Sections, u \in Nat :
           /\ Method(s) = "bcast" /\ (s = "surf" => base.surfs)
           /\ \A p \in Procs : /\ pc[p] = "read" /\ sec[p] = s /\ k[p] = u
                               /\ SecPart(p) /\ Right(have[p], p, Got(p, "grid"), Got(p, "surf"))
           /\ \A p \in Procs, y \in Writers : /\ Due(p, s, y) /\ y \in Nat /\ y < base.w
                                              /\ Passed(p, s, y) <=> y < u
           /\ u < base.w => u \in Writers /\ Chunk(0, s, u) = Piece(u, s, 1)
           /\ set \in Settings /\ Headed /\ ~set.less /\ stage = "read"
           /\ Procs = 0 .. set.r - 1 /\ Procs' = Procs /\ 0 \in Procs
    BY HeardFacts
  <1>2. UNCHANGED <<set, base>>  BY DEF ReadBroadcast
  <1>3. Method(s)' = Method(s) /\ \A y : Place(y)' = Place(y)  BY <1>2, DueKept
  <1>4. sec[0] = s /\ k[0] = u  BY <1>1
  <1>7. ASSUME NEW p \in Procs, NEW y \in Writers
        PROVE  Due(p, s, y) /\ y \in Nat /\ y < base.w /\ (Passed(p, s, y) <=> y < u)
    <2>1. \A x \in Procs, z \in Writers : /\ Due(x, s, z) /\ z \in Nat /\ z < base.w
                                          /\ Passed(x, s, z) <=> z < u
      BY <1>1
    <2> QED  BY <2>1
  <1>8. set \in Settings /\ Headed /\ ~set.less  BY <1>1
  <1>5. CASE u < base.w
    <2>1. PICK m : m = Piece(u, s, 1)  OBVIOUS
    <2>2. u \in Writers /\ Chunk(0, s, u) = m  BY <1>1, <1>5, <2>1
    <2>3. /\ have' = [p \in Procs |-> Restored(p, m, TRUE)] /\ k' = [p \in Procs |-> k[p] + 1]
          /\ pc' = pc /\ sec' = sec
      <3>1. /\ have' = [p \in Procs |-> Restored(p, Chunk(0, sec[0], k[0]), TRUE)]
            /\ k' = [p \in Procs |-> k[p] + 1] /\ pc' = pc /\ sec' = sec
        BY <1>4, <1>5 DEF ReadBroadcast
      <3>2. Chunk(0, sec[0], k[0]) = m  BY <1>4, <2>2
      <3> QED  BY <3>1, <3>2
    <2>4. \A p \in Procs : pc'[p] = "read" /\ sec'[p] = s /\ k'[p] = u + 1 /\ have'[p] = Restored(p, m, TRUE)
      BY <1>1, <2>3
    <2>5. have' = [p \in Procs |-> have'[p]]  BY <2>3
    <2>6. ASSUME NEW p \in Procs PROVE OwnPart(p)' /\ SecPart(p)'
      <3>1. OwnPart(p)'  BY <1>1, <1>3, <2>4 DEF OwnPart
      <3>2. SecPart(p)'  BY <1>1, <1>2, <2>3 DEF SecPart
      <3> QED  BY <3>1, <3>2
    <2>7. ASSUME NEW p \in Procs
          PROVE  \A r, G, S : r = have'[p] /\ G = Got(p, "grid")' /\ S = Got(p, "surf")' => Right(r, p, G, S)
      <3>1. PICK T : T = {u}  OBVIOUS
      <3>2. pc[p] = "read" /\ sec[p] = s /\ Right(have[p], p, Got(p, "grid"), Got(p, "surf"))  BY <1>1
      <3>3. T \subseteq Writers /\ \A y \in T : Due(p, sec[p], y)  BY <1>7, <2>2, <3>1, <3>2
      <3>4. ASSUME NEW y \in Writers PROVE Passed(p, sec[p], y)' <=> Passed(p, sec[p], y) \/ y \in T
        <4>1. PICK g, i : g = Method(s) /\ g = Method(s)' /\ i = Place(y) /\ i = Place(y)'  BY <1>3
        <4>2. Passed(p, s, y)' <=> i < k'[p]  BY <1>1, <4>1 DEF Passed
        <4>3. Passed(p, s, y) <=> i < k[p]  BY <1>1, <4>1 DEF Passed
        <4>4. (Passed(p, s, y) <=> y < u) /\ y \in Nat  BY <1>7
        <4>5. base.multiproc = 0  BY <1>1 DEF Method
        <4>6. i = y
          <5>1. Filled  BY <1>1 DEF FilesInv
          <5>2. Place(y) = y  BY <1>1, <4>5, <5>1, Places
          <5> QED  BY <4>1, <5>2
        <4>7. Passed(p, s, y)' <=> y < u + 1  BY <2>4, <4>2, <4>6
        <4>8. y < u + 1 <=> y < u \/ y = u  BY <4>4
        <4>9. Passed(p, sec[p], y)' <=> Passed(p, s, y)'  BY <2>4
        <4> QED  BY <3>1, <3>2, <4>4, <4>7, <4>8, <4>9
      <3>5. /\ \A t : t = sec[p] => Got(p, t)' = Got(p, t) \union T
            /\ \A t : t # sec[p] => Got(p, t)' = Got(p, t)
        <4>1. sec'[p] = sec[p] /\ pc'[p] = "read" /\ pc[p] = "read"  BY <2>4, <3>2
        <4> QED  BY <1>2, <3>3, <3>4, <4>1, Within
      <3>6. u \notin Got(p, s)
        <4>1. ~Passed(p, s, u)  BY <1>7, <2>2
        <4>2. ~Took(p, s, u)  BY <3>2, <4>1, TookInside
        <4> QED  BY <4>2 DEF Got
      <3>7. PICK skip \in BOOLEAN : skip = TRUE  OBVIOUS
      <3>8. skip <=> Method(s) = "bcast"  BY <1>1, <3>7
      <3>9. have'[p] = Restored(p, m, skip)  BY <2>4, <3>7
      <3>10. /\ \A t \in Sections : t = s => Got(p, t)' = Got(p, t) \union {u}
             /\ \A t \in Sections : t # s => Got(p, t)' = Got(p, t)
        BY <3>1, <3>2, <3>5
      <3>11. Right(have[p], p, Got(p, "grid"), Got(p, "surf")) /\ u \in Writers  BY <2>2, <3>2
      <3>12. \A q \in Writers : q = u =>
               /\ q \notin Got(p, s) /\ m = Piece(q, s, 1)
               /\ \A t \in Sections : t = s => Got(p, t)' = Got(p, t) \union {q}
               /\ \A t \in Sections : t # s => Got(p, t)' = Got(p, t)
        BY <2>1, <3>6, <3>10
      <3>13. PICK q \in Writers : q = u  BY <2>2
      <3>14. /\ q \notin Got(p, s) /\ m = Piece(q, s, 1)
             /\ \A t \in Sections : t = s => Got(p, t)' = Got(p, t) \union {q}
             /\ \A t \in Sections : t # s => Got(p, t)' = Got(p, t)
        BY <3>12, <3>13
      <3> QED  BY <1>8, <3>8, <3>9, <3>11, <3>14, RightTaken, SMTT(60)
    <2>8. Together'  BY <1>1, <2>4 DEF Together
    <2>9. \A p \in Procs : pc'[p] # "wait"  BY <2>4
    <2> QED  BY <1>1, <1>2, <2>5, <2>6, <2>7, <2>8, <2>9, HadAll
  <1>6. CASE ~(u < base.w)
    <2>1. /\ pc' = [p \in Procs |-> IF base.surfs /\ s = "grid" THEN "enter" ELSE "counted"]
          /\ sec' = [p \in Procs |-> IF base.surfs THEN "surf" ELSE "grid"] /\ have' = have
      BY <1>1, <1>4, <1>6 DEF ReadBroadcast, Each
    <2>2. ASSUME NEW p \in Procs
          PROVE  IF base.surfs /\ sec[p] = "grid" THEN pc'[p] = "enter" /\ sec'[p] = "surf"
                 ELSE pc'[p] = "counted" /\ sec'[p] = sec[p]
      <3>1. sec[p] = s /\ pc'[p] = IF base.surfs /\ s = "grid" THEN "enter" ELSE "counted"  BY <1>1, <2>1
      <3>2. sec'[p] = IF base.surfs THEN "surf" ELSE "grid"  BY <2>1
      <3> QED  BY <1>1, <3>1, <3>2 DEF Sections
    <2>3. \A p \in Procs : pc'[p] \in {"enter", "counted"}  BY <2>1
    <2>4. have' = [p \in Procs |-> have'[p]]
      <3>1. pc[0] = "read" /\ "read" \in ReadPcs  BY <1>1 DEF ReadPcs
      <3>2. Had  BY <1>1, <3>1, RunFacts
      <3> QED  BY <2>1, <3>2 DEF Had
    <2>5. ASSUME NEW p \in Procs
          PROVE  /\ SecPart(p)'
                 /\ \A r, G, S : r = have'[p] /\ G = Got(p, "grid")' /\ S = Got(p, "surf")' => Right(r, p, G, S)
      <3>1. PICK T : T = {}  OBVIOUS
      <3>2. pc[p] = "read" /\ sec[p] = s /\ SecPart(p) /\ Right(have[p], p, Got(p, "grid"), Got(p, "surf"))
        BY <1>1
      <3>3. \A y \in Writers : Due(p, sec[p], y) => Passed(p, sec[p], y) \/ y \in T
        <4> SUFFICES ASSUME NEW y \in Writers PROVE Passed(p, sec[p], y)
          OBVIOUS
        <4>1. y \in Nat /\ y < base.w /\ (Passed(p, s, y) <=> y < u)  BY <1>7
        <4>2. base.w \in Nat  BY <1>1, HeaderFacts, SettingFacts DEF Headed
        <4>3. y < u  BY <1>6, <4>1, <4>2
        <4> QED  BY <3>2, <4>1, <4>3
      <3>4. T \subseteq Writers /\ \A y \in T : Due(p, sec[p], y)  BY <3>1
      <3>5. sec[p] \in Sections /\ pc[p] \notin {"header", "enter", "counted"}  BY <3>2
      <3>6. /\ \A t \in Sections : t = sec[p] => Got(p, t)' = Got(p, t) \union T
            /\ \A t \in Sections : t # sec[p] => Got(p, t)' = Got(p, t)
            /\ SecPart(p)'
        BY <1>2, <2>2, <3>2, <3>3, <3>4, <3>5, SectionEnds
      <3>7. \A t \in Sections : Got(p, t)' = Got(p, t)  BY <3>1, <3>6
      <3>8. have'[p] = have[p]  BY <2>1
      <3> QED  BY <3>2, <3>6, <3>7, <3>8, RightKept
    <2>6. \A p \in Procs : OwnPart(p)'  BY <2>3 DEF OwnPart
    <2>7. Together'  BY <1>1, <2>3 DEF Together, Hears
    <2>8. \A p \in Procs : pc'[p] # "wait"  BY <2>3
    <2> QED  BY <1>1, <1>2, <2>4, <2>5, <2>6, <2>7, <2>8, HadAll
  <1> QED  BY <1>5, <1>6

LEMMA HadStill ==
  ASSUME Had, UNCHANGED vars
  PROVE  Had'
PROOF
  <1>1. /\ set' = set /\ stage' = stage /\ pc' = pc /\ k' = k /\ pass' = pass /\ sec' = sec /\ chan' = chan
        /\ base' = base /\ files' = files /\ have' = have
    BY DEF vars
  <1>2. Procs' = Procs  BY <1>1 DEF Procs, N
  <1>3. (\A s : Method(s)' = Method(s)) /\ \A x : ReaderOf(x)' = ReaderOf(x)  BY <1>1, DueKept
  <1>4. ASSUME NEW p \in Procs PROVE HadPart(p)'
    <2>1. OwnPart(p) /\ SecPart(p) /\ Right(have[p], p, Got(p, "grid"), Got(p, "surf"))  BY DEF Had, HadPart
    <2>2. \A s : Got(p, s)' = Got(p, s)  BY <1>1, GotKept
    <2>3. PICK r, G, S : r = have'[p] /\ G = Got(p, "grid")' /\ S = Got(p, "surf")'  OBVIOUS
    <2>4. Right(r, p, G, S)  BY <1>1, <2>1, <2>2, <2>3
    <2>5. Right(r, p, G, S)'  BY <1>1, <2>4, RightSame
    <2>6. Method(sec[p])' = Method(sec[p])  BY <1>1, <1>3
    <2>7. OwnPart(p)' /\ SecPart(p)'  BY <1>1, <2>1, <2>6 DEF OwnPart, SecPart
    <2> QED  BY <2>3, <2>5, <2>7 DEF HadPart
  <1>5. ASSUME NEW p \in Procs, ReaderOf(p) # p PROVE MailIn(ReaderOf(p), p)'
    <2>1. PICK q : q = ReaderOf(p) /\ q = ReaderOf(p)'  BY <1>3
    <2>2. MailIn(q, p)  BY <1>5, <2>1 DEF Had
    <2>3. MailIn(q, p)'  BY <1>1, <2>2, MailKept
    <2> QED  BY <2>1, <2>3
  <1>6. Together'
    <2>1. \A p \in Procs : Hears(p)' => Hears(p)
      <3> SUFFICES ASSUME NEW p \in Procs PROVE Hears(p)' => Hears(p)
        OBVIOUS
      <3>1. Method(sec[p])' = Method(sec[p])  BY <1>1, <1>3
      <3> QED  BY <1>1, <3>1 DEF Hears
    <2> QED  BY <1>1, <1>2, <2>1 DEF Had, Together
  <1>7. have' = [p \in Procs |-> have'[p]]  BY <1>1 DEF Had
  <1> QED  BY <1>2, <1>3, <1>4, <1>5, <1>6, <1>7 DEF Had

(* A step of one process while it reads.                                   *)
LEMMA HadReadStep ==
  ASSUME Types, stage = "read", ReadInv, FilesInv, HadInv, NEW p \in Procs,
         \/ WriteOwn(p) \/ WriteNext(p) \/ HearPasses(p) \/ PostReceive(p) \/ SendPing(p)
         \/ WritePiece(p) \/ EndSection(p) \/ Announce(p) \/ HearPing(p) \/ SendPiece(p)
         \/ ReadOwn(p) \/ ReadMine(p) \/ SendSize(p) \/ SendChunk(p) \/ EndFile(p)
         \/ HearSize(p) \/ TakeChunk(p) \/ EndTurns(p)
  PROVE  Had'
PROOF
  <1>1. pc[p] \notin {"write", "announced", "announce", "ping"}  BY ReadStagePcs DEF ReadPcs
  <1>2. ~(WriteOwn(p) \/ WriteNext(p) \/ HearPasses(p) \/ EndSection(p) \/ Announce(p))
    BY <1>1 DEF WriteOwn, WriteNext, HearPasses, EndSection, Announce
  <1>3. ~(WritePiece(p) \/ SendPiece(p))  BY DEF WritePiece, SendPiece
  <1>4. CASE PostReceive(p)  BY <1>4, PostHad
  <1>5. CASE SendPing(p)  BY <1>5, PingHad
  <1>6. CASE HearPing(p)  BY <1>1, <1>6, HearPingHad DEF HearPing
  <1>7. CASE ReadOwn(p)  BY <1>7, ReadOwnHad
  <1>8. CASE ReadMine(p)  BY <1>8, ReadMineHad
  <1>9. CASE SendSize(p)  BY <1>9, SendSizeHad
  <1>10. CASE SendChunk(p)  BY <1>10, SendChunkHad
  <1>11. CASE EndFile(p)  BY <1>11, EndFileHad
  <1>12. CASE HearSize(p)  BY <1>12, HearSizeHad
  <1>13. CASE TakeChunk(p)  BY <1>13, TakeChunkHad
  <1>14. CASE EndTurns(p)  BY <1>14, EndTurnsHad
  <1> QED  BY <1>2, <1>3, <1>4, <1>5, <1>6, <1>7, <1>8, <1>9, <1>10, <1>11, <1>12, <1>13, <1>14

LEMMA HadInit == Init => HadInv
PROOF
  BY DEF Init, HadInv

LEMMA HadStep == Types /\ HandshakeInv /\ FilesInv /\ HadInv /\ [Next]_vars => HadInv'
PROOF
  <1> SUFFICES ASSUME Types, WriteInv, ReadInv, FilesInv, HadInv, [Next]_vars,
                      stage' = "read", ~set'.less, At("header")' \/ Going'
               PROVE  Had'
    BY DEF HandshakeInv, HadInv
  <1>1. stage \in {"write", "read"} /\ set' = set /\ ~set.less  BY SetKept DEF Types
  <1>2. ~WriteHeader /\ ~Buffer  BY DEF WriteHeader, Buffer
  <1>3. CASE StartReading  BY <1>3, StartHad
  <1>4. CASE ReadHeader  BY <1>1, <1>4, HeaderHad
  <1>5. CASE Enter  BY <1>5, EnterHad
  <1>6. CASE ReadBroadcast  BY <1>6, BroadcastHad
  <1>7. ASSUME \A p \in Procs : pc'[p] \in {"ready", "refused"}, Procs' = Procs, 0 \in Procs PROVE FALSE
    <2>1. pc'[0] \in {"ready", "refused"}  BY <1>7
    <2>2. ~At("header")'  BY <1>7, <2>1 DEF At
    <2>3. ~Going'  BY <1>7, <2>1 DEF Going, ReadParts, ReadPart
    <2> QED  BY <2>2, <2>3
  <1>8. CASE Finish
    <2>1. /\ stage = "read" /\ UNCHANGED <<set, stage, base, files>>
          /\ \A p \in 0 .. set.r - 1 : pc'[p] \in {"ready", "refused"}
      BY <1>8 DEF Finish, Each
    <2>2. Procs = 0 .. set.r - 1 /\ Procs' = Procs /\ 0 \in Procs  BY <2>1, ReadingRun
    <2> QED  BY <1>7, <2>1, <2>2
  <1>9. ASSUME NEW p \in Procs,
               \/ WriteOwn(p) \/ WriteNext(p) \/ HearPasses(p) \/ PostReceive(p) \/ SendPing(p)
               \/ WritePiece(p) \/ EndSection(p) \/ Announce(p) \/ HearPing(p) \/ SendPiece(p)
               \/ ReadOwn(p) \/ ReadMine(p) \/ SendSize(p) \/ SendChunk(p) \/ EndFile(p)
               \/ HearSize(p) \/ TakeChunk(p) \/ EndTurns(p)
        PROVE  Had'
    <2>1. CASE stage = "write"
      <3>1. stage' = "write"  BY <1>9, <2>1, WriteStep
      <3> QED  BY <3>1
    <2>2. CASE stage = "read"  BY <1>9, <2>2, HadReadStep
    <2> QED  BY <1>1, <2>1, <2>2
  <1>10. CASE UNCHANGED vars
    <2>1. pc' = pc /\ stage' = stage /\ UNCHANGED <<set, stage, base, files>>  BY <1>10 DEF vars
    <2>2. stage = "read"  BY <2>1
    <2>3. Procs' = Procs /\ 0 \in Procs  BY <2>1, <2>2, ReadingRun
    <2>4. ~At("ready") /\ ~At("refused")
      <3> SUFFICES ASSUME At("ready") \/ At("refused") PROVE FALSE
        OBVIOUS
      <3>1. \A p \in Procs : pc'[p] \in {"ready", "refused"}  BY <2>1 DEF At
      <3> QED  BY <1>7, <2>3, <3>1
    <2>5. Had  BY <1>1, <2>2, <2>4 DEF ReadInv, HadInv
    <2> QED  BY <1>10, <2>5, HadStill
  <1> QED  BY <1>2, <1>3, <1>4, <1>5, <1>6, <1>8, <1>9, <1>10 DEF Next

-----------------------------------------------------------------------------
(* The clusters of a reading run serve all files.                          *)
LEMMA FileServed ==
  ASSUME set \in Settings, Headed, ~set.less, Filled, NEW s, Shared(s), NEW q \in Writers
  PROVE  \E x \in 0 .. set.r - 1 : FileOf(x) = Group(q)
PROOF
  <1>1. PICK n \in Nat \ {0}, f \in Nat : n = set.r /\ f = base.multiproc
    BY HeaderFacts, SettingFacts DEF Headed
  <1>2. CASE ~Sharing
    <2>1. 0 \in 0 .. set.r - 1 /\ FileOf(0) = 0  BY <1>1, <1>2 DEF FileOf
    <2>2. base.multiproc = 0
      <3>1. base.multiproc # 0 => Method(s) \in {"own", "share"} /\ (Method(s) = "share" <=> Sharing)
        BY DEF Method, Sharing
      <3> QED  BY <1>2, <3>1 DEF Shared
    <2>3. Group(q) = 0  BY <2>2, Places
    <2> QED  BY <2>1, <2>3
  <1>3. CASE Sharing
    <2>1. f # 0 /\ f < n  BY <1>1, <1>3 DEF Sharing
    <2>2. Group(q) \in Nat /\ Group(q) < f  BY <1>1, <2>1, Places
    <2>3. PICK m : m = [kind |-> "nfile", num |-> f]  OBVIOUS
    <2>4. m \in MultiKinds /\ m.kind = "nfile" /\ m.num = f  BY <1>1, <2>1, <2>3 DEF MultiKinds
    <2>5. Nfile(m, n) = f  BY <2>1, <2>4 DEF Nfile
    <2>6. NFiles(m, n) = f /\ \A x : Icluster(m, x, n) = NfileCluster(x, f, n)
      BY <2>4, <2>5 DEF NFiles, Icluster
    <2>7. \A c \in 0 .. NFiles(m, n) - 1 : \E x \in 0 .. n - 1 : Icluster(m, x, n) = c
      BY <2>4, FilesAreWritten
    <2>8. Group(q) \in 0 .. NFiles(m, n) - 1  BY <1>1, <2>2, <2>6
    <2>9. PICK x \in 0 .. n - 1 : NfileCluster(x, f, n) = Group(q)  BY <2>6, <2>7, <2>8
    <2>10. FileOf(x) = Group(q)  BY <1>1, <1>3, <2>9 DEF FileOf
    <2> QED  BY <1>1, <2>10
  <1> QED  BY <1>2, <1>3

(* Unless every process is shown it, a chunk is due to one process.        *)
LEMMA DueToOne ==
  ASSUME set \in Settings, Headed, ~set.less, Filled, NEW s, Method(s) # "bcast", NEW q \in Writers
  PROVE  /\ \E p \in 0 .. set.r - 1 : Due(p, s, q)
         /\ \A p, x \in 0 .. set.r - 1 : Due(p, s, q) /\ Due(x, s, q) => p = x
PROOF
  <1>1. PICK n \in Nat \ {0} : n = set.r  BY SettingFacts
  <1>2. PICK g \in Nat, i \in Nat : g = Group(q) /\ i = Place(q)  BY Places
  <1>3. CASE Method(s) = "own"
    <2>1. \A p : Due(p, s, q) <=> g % n = p  BY <1>1, <1>2, <1>3, OwnDue
    <2>2. g % n \in 0 .. n - 1  BY <1>1, <1>2, ModFacts
    <2> QED  BY <1>1, <2>1, <2>2
  <1>4. CASE Shared(s)
    <2>1. \A p : Due(p, s, q) <=> FileOf(p) = g /\ i % ClusterOf(p) = p - ReaderOf(p)
      BY <1>2, <1>4, SharedDue
    <2>3. \A p, x : FileOf(p) = FileOf(x) => ReaderOf(p) = ReaderOf(x) /\ ClusterOf(p) = ClusterOf(x)
      BY DEF ReaderOf, ClusterOf
    <2>4. ASSUME NEW p \in 0 .. n - 1, NEW x \in 0 .. n - 1, Due(p, s, q), Due(x, s, q) PROVE p = x
      <3>1. PICK r \in Int : r = ReaderOf(p)
        <4>1. ReaderOf(p) \in 0 .. p  BY <1>1, ReaderFacts DEF Headed
        <4> QED  BY <4>1
      <3>2. ReaderOf(x) = r /\ ClusterOf(x) = ClusterOf(p)  BY <2>1, <2>3, <2>4, <3>1
      <3>3. p - r = x - r  BY <2>1, <2>4, <3>1, <3>2
      <3> QED  BY <3>1, <3>3
    <2>5. PICK x \in 0 .. n - 1 : FileOf(x) = g  BY <1>1, <1>2, <1>4, FileServed
    <2>6. PICK r \in Int, c \in Nat \ {0} :
            /\ r = ReaderOf(x) /\ c = ClusterOf(x) /\ FileOf(r) = g
            /\ \A j \in 0 .. c - 1 : r + j \in 0 .. n - 1 /\ ReaderOf(r + j) = r
      <3>1. /\ ReaderOf(x) \in 0 .. x /\ FileOf(ReaderOf(x)) = FileOf(x) /\ ClusterOf(x) \in Nat \ {0}
            /\ \A j \in 0 .. ClusterOf(x) - 1 :
                 ReaderOf(x) + j \in 0 .. set.r - 1 /\ ReaderOf(ReaderOf(x) + j) = ReaderOf(x)
        BY <1>1, ReaderFacts DEF Headed
      <3>2. PICK r \in Int, c \in Nat \ {0} : r = ReaderOf(x) /\ c = ClusterOf(x)  BY <3>1
      <3>3. FileOf(r) = g  BY <2>5, <3>1, <3>2
      <3>4. \A j \in 0 .. c - 1 : r + j \in 0 .. n - 1 /\ ReaderOf(r + j) = r  BY <1>1, <3>1, <3>2
      <3> QED  BY <3>2, <3>3, <3>4
    <2>7. PICK j \in 0 .. c - 1 : j = i % c  BY <1>2, <2>6, ModFacts
    <2>8. PICK p \in 0 .. n - 1 : p = r + j /\ ReaderOf(p) = r  BY <2>6, <2>7
    <2>9. FileOf(p) = g
      <3>1. FileOf(ReaderOf(p)) = FileOf(p)  BY <1>1, ReaderFacts DEF Headed
      <3> QED  BY <2>6, <2>8, <3>1
    <2>10. ClusterOf(p) = c  BY <2>3, <2>5, <2>6, <2>9
    <2>11. p - r = j  BY <2>6, <2>7, <2>8
    <2>12. Due(p, s, q)  BY <2>1, <2>7, <2>8, <2>9, <2>10, <2>11
    <2> QED  BY <1>1, <2>4, <2>12
  <1>5. Method(s) \in {"own", "bcast"} \/ Shared(s)  BY DEF Method, Shared
  <1> QED  BY <1>3, <1>4, <1>5

(* An entry that was written goes to one process.                          *)
LEMMA GoesToOne ==
  ASSUME set \in Settings, Headed, ~set.less, Filled, NEW f \in Fields, NEW q \in Writers,
         NEW i \in DOMAIN Lot(q)[f]
  PROVE  /\ \E p \in 0 .. set.r - 1 : Due(p, SectionOf(f), q) /\ i \in Goes(q, p, f)
         /\ \A p, x \in 0 .. set.r - 1 :
              /\ Due(p, SectionOf(f), q) /\ i \in Goes(q, p, f)
              /\ Due(x, SectionOf(f), q) /\ i \in Goes(q, x, f)
              => p = x
PROOF
  <1>1. PICK s : s = SectionOf(f)  OBVIOUS
  <1>2. PICK n \in Nat \ {0} : n = set.r  BY SettingFacts
  <1>3. CASE Method(s) # "bcast"
    <2>1. \A p : i \in Goes(q, p, f)  BY <1>1, <1>3 DEF Goes
    <2> QED  BY <1>1, <1>3, <2>1, DueToOne
  <1>4. CASE Method(s) = "bcast"
    <2>1. \A p : Due(p, s, q)  BY <1>4 DEF Due
    <2>2. CASE f = "surfs"
      <3>1. Lot(q)[f][i] \in Int
        <4>1. Lot(q)[f] \in Seq(Int)  BY <2>2, WrittenFacts DEF Entries
        <4> QED  BY <4>1
      <3>2. PICK z \in Int : z = Lot(q)[f][i]  BY <3>1
      <3>3. PICK y : y = z % n /\ y \in 0 .. n - 1  BY <1>2, <3>2, Z3
      <3>4. \A p : i \in Goes(q, p, f) <=> y = p  BY <1>1, <1>2, <1>4, <2>2, <3>2, <3>3 DEF Goes
      <3> QED  BY <1>1, <1>2, <2>1, <3>3, <3>4
    <2>3. CASE f # "surfs"
      <3>1. PICK c, id : c = Lot(q).cells /\ id = Lot(q)[f][i].id  OBVIOUS
      <3>2. \A p : i \in Goes(q, p, f) <=> \E j \in DOMAIN c : c[j].id = id /\ c[j].nsplit > 0 /\ (j - 1) % n = p
        BY <1>1, <1>2, <1>4, <2>3, <3>1 DEF Goes
      <3>3. \A a, b \in DOMAIN c : c[a].id = c[b].id /\ c[a].nsplit > 0 /\ c[b].nsplit > 0 => a = b
        BY <3>1, WrittenFacts
      <3>4. \A a \in DOMAIN c : c[a].nsplit <= 0 => \E b \in 1 .. a - 1 : c[b].id = c[a].id /\ c[b].nsplit > 0
        BY <3>1, WrittenFacts
      <3>5. c \in Seq(CellEntries)
        <4>1. Lot(q)["cells"] \in Seq(CellEntries)  BY WrittenFacts DEF Entries, Fields
        <4> QED  BY <3>1, <4>1
      <3>6. \E a \in DOMAIN c : c[a].id = id
        <4>1. CASE f = "cells"  BY <3>1, <4>1
        <4>2. CASE f = "particles"  BY <3>1, <4>2, WrittenFacts
        <4> QED  BY <2>3, <4>1, <4>2 DEF Fields
      <3>7. PICK a \in DOMAIN c : c[a].id = id  BY <3>6
      <3>8. PICK l \in Nat : DOMAIN c = 1 .. l
        <4>1. Len(c) \in Nat /\ DOMAIN c = 1 .. Len(c)  BY <3>5
        <4> QED  BY <4>1
      <3>9. \E b \in DOMAIN c : c[b].id = id /\ c[b].nsplit > 0
        <4>1. c[a].nsplit \in Int
          <5>1. c[a] \in CellEntries  BY <3>5
          <5> QED  BY <5>1 DEF CellEntries
        <4>2. CASE c[a].nsplit > 0  BY <3>7, <4>2
        <4>3. CASE c[a].nsplit <= 0
          <5>1. PICK b \in 1 .. a - 1 : c[b].id = c[a].id /\ c[b].nsplit > 0  BY <3>4, <4>3
          <5>2. b \in DOMAIN c  BY <3>8
          <5> QED  BY <3>7, <5>1, <5>2
        <4> QED  BY <4>1, <4>2, <4>3
      <3>10. PICK b \in DOMAIN c : c[b].id = id /\ c[b].nsplit > 0  BY <3>9
      <3>11. PICK y \in 0 .. n - 1 : y = (b - 1) % n
        <4>1. b - 1 \in Nat  BY <3>8
        <4> QED  BY <4>1, ModFacts
      <3>12. \A p : i \in Goes(q, p, f) <=> y = p
        <4> SUFFICES ASSUME NEW p PROVE i \in Goes(q, p, f) <=> y = p
          OBVIOUS
        <4>1. i \in Goes(q, p, f) <=> \E j \in DOMAIN c : c[j].id = id /\ c[j].nsplit > 0 /\ (j - 1) % n = p
          BY <3>2
        <4>2. \A j \in DOMAIN c : c[j].id = id /\ c[j].nsplit > 0 => j = b  BY <3>3, <3>10
        <4> QED  BY <3>10, <3>11, <4>1, <4>2
      <3> QED  BY <1>1, <1>2, <2>1, <3>12
    <2> QED  BY <2>2, <2>3
  <1> QED  BY <1>3, <1>4

(* When all sections have been read, each process has what is due to it.   *)
LEMMA AllGot ==
  ASSUME Types, ReadInv, FilesInv, HadInv, stage = "read", At("counted"), NEW p \in Procs
  PROVE  /\ set \in Settings /\ Headed /\ ~set.less /\ Filled /\ Procs = 0 .. set.r - 1 /\ base.w = set.w
         /\ Right(have[p], p, Got(p, "grid"), Got(p, "surf"))
         /\ Got(p, "grid") = {q \in Writers : Due(p, "grid", q)}
         /\ base.surfs => Got(p, "surf") = {q \in Writers : Due(p, "surf", q)}
PROOF
  <1>1. pc[p] = "counted" /\ pc[p] \in ReadPcs  BY DEF At, ReadPcs
  <1>2. /\ set \in Settings /\ Headed /\ ~set.less /\ Filled /\ Procs = 0 .. set.r - 1
        /\ Right(have[p], p, Got(p, "grid"), Got(p, "surf")) /\ sec[p] \in Sections /\ SecPart(p)
    BY <1>1, RunFacts
  <1>3. base.w = set.w  BY <1>2, HeaderFacts DEF Headed
  <1>4. Finished(p, "grid") /\ (base.surfs => Finished(p, "surf"))
    BY <1>1, <1>2 DEF Finished, SecPart, Sections
  <1>5. \A s, q : Finished(p, s) => (Took(p, s, q) <=> Due(p, s, q))  BY DEF Took
  <1> QED  BY <1>2, <1>3, <1>4, <1>5 DEF Got

(* What a process holds of one kind is what goes to it.                    *)
LEMMA HoldsDue ==
  ASSUME Types, ReadInv, FilesInv, HadInv, stage = "read", At("counted"), NEW p \in Procs,
         NEW f \in Fields, f = "surfs" => base.surfs
  PROVE  /\ have[p][f] \in Seq(Entries(f))
         /\ \A q \in Writers : \A i \in Goes(q, p, f) : Due(p, SectionOf(f), q) =>
              \E j \in DOMAIN have[p][f] : have[p][f][j] = Lot(q)[f][i]
         /\ \A j \in DOMAIN have[p][f] : \E q \in Writers : \E i \in Goes(q, p, f) :
              Due(p, SectionOf(f), q) /\ have[p][f][j] = Lot(q)[f][i]
         /\ \A i, j \in DOMAIN have[p][f] : have[p][f][i] = have[p][f][j] => i = j
PROOF
  <1>1. PICK G : G = {q \in Writers : Due(p, SectionOf(f), q)}  OBVIOUS
  <1>2. Holds(have[p][f], p, f, G)
    <2>1. /\ Right(have[p], p, Got(p, "grid"), Got(p, "surf"))
          /\ Got(p, "grid") = {q \in Writers : Due(p, "grid", q)}
          /\ base.surfs => Got(p, "surf") = {q \in Writers : Due(p, "surf", q)}
      BY AllGot
    <2>2. /\ Holds(have[p].cells, p, "cells", Got(p, "grid"))
          /\ Holds(have[p].particles, p, "particles", Got(p, "grid"))
          /\ Holds(have[p].surfs, p, "surfs", Got(p, "surf"))
      BY <2>1 DEF Right
    <2>3. CASE f = "surfs"
      <3>1. SectionOf(f) = "surf"  BY <2>3 DEF SectionOf
      <3>2. G = Got(p, "surf")  BY <1>1, <2>1, <2>3, <3>1
      <3> QED  BY <2>2, <2>3, <3>2
    <2>4. CASE f # "surfs"
      <3>1. SectionOf(f) = "grid"  BY <2>4 DEF SectionOf
      <3>2. G = Got(p, "grid")  BY <1>1, <2>1, <3>1
      <3> QED  BY <2>2, <2>4, <3>2 DEF Fields
    <2> QED  BY <2>3, <2>4
  <1> QED  BY <1>1, <1>2 DEF Holds

LEMMA EachOnce ==
  ASSUME Types, ReadInv, FilesInv, HadInv, stage = "read", At("counted"),
         NEW f \in Fields, f = "surfs" => base.surfs
  PROVE  Once(f)
PROOF
  <1>1. 0 \in Procs  BY ReadingRun, ProcsFacts, SettingFacts DEF Types
  <1>2. /\ set \in Settings /\ Headed /\ ~set.less /\ Filled /\ Procs = 0 .. set.r - 1 /\ base.w = set.w
    BY <1>1, AllGot
  <1>3. Writers = 0 .. base.w - 1 /\ \A q : Lot(q) = Data[base.w][q]  BY <1>2 DEF Writers, Lot
  <1>4. \A x : x \in Slots(f) <=> \E p \in Procs : \E j \in DOMAIN have[p][f] : x = <<p, j>>
    BY DEF Slots
  <1>5. \A p, j : In(<<p, j>>, f) = have[p][f][j]  BY DEF In
  <1>6. ASSUME NEW q \in Writers, NEW i \in DOMAIN Lot(q)[f]
        PROVE  Cardinality({x \in Slots(f) : In(x, f) = Lot(q)[f][i]}) = 1
    <2>1. PICK p \in Procs : Due(p, SectionOf(f), q) /\ i \in Goes(q, p, f)  BY <1>2, GoesToOne
    <2>2. PICK j \in DOMAIN have[p][f] : have[p][f][j] = Lot(q)[f][i]  BY <2>1, HoldsDue
    <2>3. ASSUME NEW a \in Procs, NEW b \in DOMAIN have[a][f], have[a][f][b] = Lot(q)[f][i]
          PROVE  a = p /\ b = j
      <3>1. PICK y \in Writers : \E e \in Goes(y, a, f) :
               Due(a, SectionOf(f), y) /\ have[a][f][b] = Lot(y)[f][e]
        BY HoldsDue
      <3>2. PICK e \in Goes(y, a, f) : Due(a, SectionOf(f), y) /\ have[a][f][b] = Lot(y)[f][e]  BY <3>1
      <3>3. e \in DOMAIN Lot(y)[f]  BY DEF Goes
      <3>4. y = q /\ e = i
        <4>1. Lot(y)[f][e] = Lot(q)[f][i] /\ set \in Settings  BY <1>2, <2>3, <3>2
        <4> QED  BY <3>3, <4>1, EntriesApart
      <3>5. Due(a, SectionOf(f), q) /\ i \in Goes(q, a, f)  BY <3>2, <3>4
      <3>6. a = p  BY <1>2, <2>1, <3>5, GoesToOne
      <3>7. b = j  BY <2>2, <2>3, <3>6, HoldsDue
      <3> QED  BY <3>6, <3>7
    <2>4. {x \in Slots(f) : In(x, f) = Lot(q)[f][i]} = {<<p, j>>}
      <3>1. <<p, j>> \in Slots(f) /\ In(<<p, j>>, f) = Lot(q)[f][i]  BY <1>4, <1>5, <2>2
      <3>2. ASSUME NEW x \in Slots(f), In(x, f) = Lot(q)[f][i] PROVE x = <<p, j>>
        <4>1. PICK a \in Procs : \E b \in DOMAIN have[a][f] : x = <<a, b>>  BY <1>4
        <4>2. PICK b \in DOMAIN have[a][f] : x = <<a, b>>  BY <4>1
        <4>3. have[a][f][b] = Lot(q)[f][i]  BY <1>5, <3>2, <4>2
        <4> QED  BY <2>3, <4>2, <4>3
      <3> QED  BY <3>1, <3>2
    <2> QED  BY <2>4, FS_Singleton
  <1>7. ASSUME NEW x \in Slots(f)
        PROVE  \E q \in Writers : \E i \in DOMAIN Lot(q)[f] : In(x, f) = Lot(q)[f][i]
    <2>1. PICK p \in Procs : \E j \in DOMAIN have[p][f] : x = <<p, j>>  BY <1>4
    <2>2. PICK j \in DOMAIN have[p][f] : x = <<p, j>>  BY <2>1
    <2>3. PICK q \in Writers : \E i \in Goes(q, p, f) : have[p][f][j] = Lot(q)[f][i]  BY HoldsDue
    <2>4. PICK i \in Goes(q, p, f) : have[p][f][j] = Lot(q)[f][i]  BY <2>3
    <2>5. i \in DOMAIN Lot(q)[f]  BY DEF Goes
    <2> QED  BY <1>5, <2>2, <2>4, <2>5
  <1> QED  BY <1>3, <1>6, <1>7 DEF Once

(* Cells come with what belongs to them.                                   *)
LEMMA EachInItsCell ==
  ASSUME Types, ReadInv, FilesInv, HadInv, stage = "read", At("counted"), NEW p \in Procs,
         NEW j \in DOMAIN have[p].particles
  PROVE  \E i \in DOMAIN have[p].cells : /\ have[p].cells[i].id = have[p].particles[j].id
                                         /\ have[p].cells[i].nsplit = have[p].particles[j].nsplit
PROOF
  <1>1. set \in Settings /\ SectionOf("particles") = "grid" /\ SectionOf("cells") = "grid"
    BY AllGot DEF SectionOf
  <1>2. PICK q \in Writers : \E i \in Goes(q, p, "particles") :
          Due(p, "grid", q) /\ have[p].particles[j] = Lot(q).particles[i]
    <2>1. "particles" \in Fields /\ "particles" # "surfs"  BY DEF Fields
    <2>2. \A e \in DOMAIN have[p]["particles"] : \E q \in Writers : \E i \in Goes(q, p, "particles") :
            Due(p, SectionOf("particles"), q) /\ have[p]["particles"][e] = Lot(q)["particles"][i]
      BY <2>1, HoldsDue
    <2> QED  BY <1>1, <2>2
  <1>3. PICK i \in Goes(q, p, "particles") : Due(p, "grid", q) /\ have[p].particles[j] = Lot(q).particles[i]
    BY <1>2
  <1>4. PICK c \in DOMAIN Lot(q).cells : /\ Lot(q).cells[c].id = Lot(q).particles[i].id
                                         /\ Lot(q).cells[c].nsplit = Lot(q).particles[i].nsplit
    <2>1. i \in DOMAIN Lot(q).particles  BY DEF Goes
    <2> QED  BY <1>1, <2>1, WrittenFacts
  <1>5. c \in Goes(q, p, "cells")
    <2>1. Method("grid") = "bcast" => \E a \in DOMAIN Lot(q).cells :
            /\ Lot(q).cells[a].id = Lot(q).particles[i].id
            /\ Lot(q).cells[a].nsplit > 0 /\ (a - 1) % set.r = p
      BY <1>1 DEF Goes
    <2>2. Method("grid") = "bcast" => \E a \in DOMAIN Lot(q).cells :
            /\ Lot(q).cells[a].id = Lot(q).cells[c].id
            /\ Lot(q).cells[a].nsplit > 0 /\ (a - 1) % set.r = p
      BY <1>4, <2>1
    <2> QED  BY <1>1, <2>2 DEF Goes
  <1>6. \E e \in DOMAIN have[p].cells : have[p].cells[e] = Lot(q).cells[c]
    <2>1. "cells" \in Fields /\ "cells" # "surfs"  BY DEF Fields
    <2>2. \A y \in Writers : \A b \in Goes(y, p, "cells") : Due(p, SectionOf("cells"), y) =>
            \E e \in DOMAIN have[p]["cells"] : have[p]["cells"][e] = Lot(y)["cells"][b]
      BY <2>1, HoldsDue
    <2> QED  BY <1>1, <1>3, <1>5, <2>2
  <1> QED  BY <1>3, <1>4, <1>6

LEMMA RestoredFromHad == Types /\ HandshakeInv /\ FilesInv /\ HadInv => RestoredOnce
PROOF
  <1> SUFFICES ASSUME Types, ReadInv, FilesInv, HadInv, stage = "read", At("counted")
               PROVE  /\ \A f \in {"cells", "particles"} \union (IF base.surfs THEN {"surfs"} ELSE {}) : Once(f)
                      /\ \A p \in Procs : \A j \in DOMAIN have[p].particles :
                           \E i \in DOMAIN have[p].cells :
                             /\ have[p].cells[i].id = have[p].particles[j].id
                             /\ have[p].cells[i].nsplit = have[p].particles[j].nsplit
                      /\ \A p \in Procs : \A i \in DOMAIN have[p].cells : have[p].cells[i].nsplit <= 0 =>
                           \E h \in 1 .. i - 1 : /\ have[p].cells[h].id = have[p].cells[i].id
                                                /\ have[p].cells[h].nsplit > 0
    BY DEF HandshakeInv, RestoredOnce
  <1>1. \A f \in {"cells", "particles"} \union (IF base.surfs THEN {"surfs"} ELSE {}) : Once(f)
    <2> SUFFICES ASSUME NEW f \in {"cells", "particles"} \union (IF base.surfs THEN {"surfs"} ELSE {})
                 PROVE  Once(f)
      OBVIOUS
    <2>1. f \in Fields /\ (f = "surfs" => base.surfs)  BY DEF Fields
    <2> QED  BY <2>1, EachOnce
  <1>2. \A p \in Procs : Ordered(have[p].cells)
    <2> TAKE p \in Procs
    <2>1. Right(have[p], p, Got(p, "grid"), Got(p, "surf"))  BY AllGot
    <2> QED  BY <2>1 DEF Right
  <1>3. \A p \in Procs : \A i \in DOMAIN have[p].cells : have[p].cells[i].nsplit <= 0 =>
          \E h \in 1 .. i - 1 : have[p].cells[h].id = have[p].cells[i].id /\ have[p].cells[h].nsplit > 0
    BY <1>2 DEF Ordered
  <1> QED  BY <1>1, <1>3, EachInItsCell

(* As many files as writers: each has its own.                             *)
LEMMA GroupsApart ==
  ASSUME set \in Settings, Headed, ~set.less, Filled, base.multiproc = set.w
  PROVE  \A q, x \in Writers : Group(q) = Group(x) => q = x
PROOF
  <1>1. set.w \in Nat \ {0} /\ base.multiproc # 0  BY SettingFacts
  <1>2. IsFiniteSet(Writers)
    <2>1. 0 \in Int /\ set.w - 1 \in Int  BY <1>1
    <2> QED  BY <2>1, FS_Interval DEF Writers
  <1>3. \A q \in Writers : Group(q) \in Writers
    <2> TAKE q \in Writers
    <2>1. Group(q) \in Nat /\ Group(q) < base.multiproc  BY <1>1, Places
    <2> QED  BY <1>1, <2>1 DEF Writers
  <1>4. \A c \in Writers : \E q \in Writers : Group(q) = c
    <2> TAKE c \in Writers
    <2>1. c \in Nat /\ c < base.multiproc  BY <1>1 DEF Writers
    <2>2. c \in DOMAIN files  BY <1>1, <2>1, Places
    <2> QED  BY <2>2 DEF Headed, Writers
  <1>5. PICK g : g = [q \in Writers |-> Group(q)]  OBVIOUS
  <1>6. g \in Surjection(Writers, Writers)
    <2>1. g \in [Writers -> Writers]  BY <1>3, <1>5
    <2>2. \A c \in Writers : \E q \in Writers : g[q] = c  BY <1>4, <1>5
    <2> QED  BY <2>1, <2>2 DEF Surjection
  <1>7. g \in Injection(Writers, Writers)  BY <1>2, <1>6, FS_Surjection
  <1> QED  BY <1>5, <1>7 DEF Injection, IsInjective

(* As many processes as before, and as many chunks in each file as it has  *)
(* processes: each takes one chunk.                                        *)
Matched == Method("grid") = "share" => \A q \in Procs : files[FileOf(q)].n = ClusterOf(q)

LEMMA OneChunkEach ==
  ASSUME set \in Settings, Headed, ~set.less, Filled, Procs = 0 .. set.r - 1, set.w = set.r, Matched,
         NEW p \in Procs
  PROVE  Method("grid") # "bcast" /\ \E q \in Writers : \A y \in Writers : Due(p, "grid", y) <=> y = q
PROOF
  <1>1. PICK n \in Nat \ {0}, f \in Nat : n = set.r /\ f = base.multiproc /\ f <= n
    <2>1. set.r \in Nat \ {0} /\ base.multiproc \in 0 .. set.w  BY HeaderFacts, SettingFacts DEF Headed
    <2> QED  BY <2>1
  <1>2. p \in Nat /\ p < n /\ Writers = 0 .. n - 1  BY <1>1 DEF Writers
  <1>3. base.w = set.r  BY HeaderFacts DEF Headed
  <1>4. CASE f = 0
    <2>1. Method("grid") = "same" /\ ~Sharing  BY <1>1, <1>3, <1>4 DEF Method, Sharing
    <2>2. FileOf(p) = 0 /\ ReaderOf(p) = 0 /\ ClusterOf(p) = n  BY <1>1, <2>1 DEF FileOf, ReaderOf, ClusterOf
    <2>3. ASSUME NEW y \in Writers PROVE Due(p, "grid", y) <=> y = p
      <3>1. Group(y) = 0 /\ Place(y) = y  BY <1>1, <1>4, Places
      <3>2. y \in Nat /\ y < n  BY <1>2
      <3>3. y % n = y  BY <3>2, ModFacts
      <3>4. Due(p, "grid", y) <=> y % n = p - 0
        <4>1. Due(p, "grid", y) <=> FileOf(p) = Group(y) /\ Place(y) % ClusterOf(p) = p - ReaderOf(p)
          BY <2>1, SharedDue DEF Shared
        <4> QED  BY <2>2, <3>1, <4>1
      <3>5. p - 0 = p  BY <1>2
      <3> QED  BY <3>3, <3>4, <3>5
    <2>4. p \in Writers  BY <1>2
    <2> QED  BY <2>1, <2>3, <2>4
  <1>5. CASE f = n
    <2>1. Method("grid") = "own"  BY <1>1, <1>5 DEF Method
    <2>2. PICK q \in Writers : Group(q) = p
      <3>1. p \in DOMAIN files  BY <1>1, <1>2, <1>5, Places
      <3> QED  BY <3>1 DEF Headed, Writers
    <2>3. ASSUME NEW y \in Writers PROVE Due(p, "grid", y) <=> y = q
      <3>1. Group(y) \in Nat /\ Group(y) < n  BY <1>1, <1>5, Places
      <3>2. Group(y) % n = Group(y)  BY <3>1, ModFacts
      <3>3. Due(p, "grid", y) <=> Group(y) = p  BY <1>1, <2>1, <3>2, OwnDue
      <3>4. Group(y) = Group(q) => y = q  BY <1>1, <1>5, GroupsApart
      <3> QED  BY <2>2, <3>3, <3>4
    <2> QED  BY <2>1, <2>3
  <1>6. CASE f # 0 /\ f # n
    <2>1. Method("grid") = "share"
      <3>1. ~(n <= f)  BY <1>1, <1>6
      <3> QED  BY <1>1, <1>6, <3>1 DEF Method
    <2>2. PICK r \in Int, c \in Nat \ {0}, d \in Nat : r = ReaderOf(p) /\ c = ClusterOf(p) /\ d = p - r /\ d < c
      <3>1. p \in 0 .. set.r - 1 /\ base = Header  BY DEF Headed
      <3>2. /\ ReaderOf(p) \in 0 .. p /\ ClusterOf(p) \in Nat \ {0}
            /\ p - ReaderOf(p) \in 0 .. ClusterOf(p) - 1
        BY <3>1, ReaderFacts
      <3> QED  BY <3>2
    <2>3. files[FileOf(p)].n = c  BY <2>1, <2>2 DEF Matched
    <2>4. PICK q \in Writers : Group(q) = FileOf(p) /\ Place(q) = d
      <3>1. FileOf(p) \in DOMAIN files
        <4>1. p \in 0 .. set.r - 1 /\ Shared("grid")  BY <2>1 DEF Shared
        <4> QED  BY <4>1, SharedFile
      <3> QED  BY <2>2, <2>3, <3>1, Places
    <2>5. ASSUME NEW y \in Writers PROVE Due(p, "grid", y) <=> y = q
      <3>1. Due(p, "grid", y) <=> FileOf(p) = Group(y) /\ Place(y) % c = d
        <4>1. Shared("grid")  BY <2>1 DEF Shared
        <4> QED  BY <2>2, <4>1, SharedDue
      <3>2. Place(y) \in Nat /\ Place(y) < files[Group(y)].n  BY Places
      <3>3. FileOf(p) = Group(y) => Place(y) % c = Place(y)
        <4> SUFFICES ASSUME FileOf(p) = Group(y) PROVE Place(y) % c = Place(y)
          OBVIOUS
        <4>1. Place(y) < c  BY <2>3, <3>2
        <4> QED  BY <3>2, <4>1, ModFacts
      <3>4. Group(q) = Group(y) /\ Place(q) = Place(y) => q = y  BY Places
      <3>5. y = q => FileOf(p) = Group(y) /\ Place(y) = d  BY <2>4
      <3> QED  BY <2>4, <3>1, <3>3, <3>4, <3>5
    <2> QED  BY <2>1, <2>5
  <1> QED  BY <1>4, <1>5, <1>6

LEMMA StillMatched ==
  ASSUME set \in Settings, Headed, ~set.less, Procs = 0 .. set.r - 1, \A q \in Procs : sec[q] \in Sections,
         NEW p \in Procs
  PROVE  StillClumped(p) <=> have[p].clumped /\ Matched
PROOF
  <1>1. \A q \in Procs : File(q) = FileOf(q) /\ NCluster(q) = ClusterOf(q)
    <2> TAKE q \in Procs
    <2>1. q \in 0 .. set.r - 1 /\ sec[q] \in Sections  OBVIOUS
    <2> QED  BY <2>1, ReaderSame
  <1> QED  BY <1>1 DEF StillClumped, Matched

LEMMA FinishClumps ==
  ASSUME Types, ReadInv, FilesInv, HadInv, Finish
  PROVE  ClumpedIsTrue'
PROOF
  <1>1. /\ stage = "read" /\ At("counted") /\ UNCHANGED <<set, stage, base, files>>
        /\ have' = [p \in Procs |-> [have[p] EXCEPT !.clumped = Clumped(p)]]
    BY DEF Finish
  <1>2. Procs' = Procs /\ 0 \in Procs  BY <1>1, ReadingRun
  <1>3. /\ set \in Settings /\ Headed /\ ~set.less /\ Filled /\ Procs = 0 .. set.r - 1 /\ base.w = set.w
    BY <1>1, <1>2, AllGot
  <1>4. \A p \in Procs : sec[p] \in Sections  BY DEF Types
  <1>5. \A p \in Procs : Right(have[p], p, Got(p, "grid"), Got(p, "surf"))
    <2> TAKE p \in Procs
    <2> QED  BY <1>1, AllGot
  <1>6. ASSUME NEW p \in Procs
        PROVE  have'[p].clumped = Clumped(p) /\ have'[p].cells = have[p].cells
    <2>1. PICK c : c = Clumped(p)  OBVIOUS
    <2>2. have'[p] = [have[p] EXCEPT !.clumped = c]  BY <1>1, <2>1
    <2>3. have[p] = [cells |-> have[p].cells, particles |-> have[p].particles, surfs |-> have[p].surfs,
                     clumped |-> have[p].clumped]
      BY <1>5 DEF Right
    <2> QED  BY <2>1, <2>2, <2>3
  <1>7. ASSUME set.w = set.r, Matched, NEW p \in Procs
        PROVE  have[p].clumped /\ \E q \in Writers : have[p].cells = Lot(q).cells
    <2>1. /\ Method("grid") # "bcast"
          /\ \E q \in Writers : \A y \in Writers : Due(p, "grid", y) <=> y = q
      BY <1>3, <1>7, OneChunkEach
    <2>2. PICK q \in Writers : \A y \in Writers : Due(p, "grid", y) <=> y = q  BY <2>1
    <2>3. Got(p, "grid") = {y \in Writers : Due(p, "grid", y)}  BY <1>1, AllGot
    <2>4. PICK G : G = Got(p, "grid") /\ G = {q}  BY <2>2, <2>3
    <2>5. Right(have[p], p, G, Got(p, "surf"))  BY <1>5, <2>4
    <2>6. have[p].clumped = (G # {})  BY <2>5 DEF Right
    <2>7. have[p].cells = Lot(q).cells  BY <2>1, <2>4, <2>5 DEF Right
    <2> QED  BY <2>4, <2>6, <2>7
  <1>8. \A p \in Procs : Clumped(p) <=> set.r = 1 \/ (set.w = set.r /\ Matched)
    <2> TAKE p \in Procs
    <2>1. StillClumped(p) <=> have[p].clumped /\ Matched  BY <1>3, <1>4, StillMatched
    <2> QED  BY <1>3, <1>7, <2>1 DEF Clumped
  <1>9. \A p \in Procs : Clumped(p) \in BOOLEAN  BY DEF Clumped
  <1>10. \A p \in Procs : have'[p].clumped = have'[0].clumped
    <2> TAKE p \in Procs
    <2>1. Clumped(p) = Clumped(0)  BY <1>2, <1>8, <1>9
    <2> QED  BY <1>2, <1>6, <2>1
  <1>11. ASSUME NEW p \in Procs, have'[p].clumped, set.r > 1
         PROVE  \E q \in 0 .. base.w - 1 : have'[p].cells = Data[base.w][q].cells
    <2>1. set.r # 1  BY <1>3, <1>11, SettingFacts
    <2>2. set.w = set.r /\ Matched  BY <1>6, <1>8, <1>11, <2>1
    <2>3. PICK q \in Writers : have[p].cells = Lot(q).cells  BY <1>7, <2>2
    <2> QED  BY <1>3, <1>6, <2>3 DEF Writers, Lot
  <1>12. ASSUME NEW p \in Procs
         PROVE  /\ have'[p].clumped = have'[0].clumped
                /\ have'[p].clumped /\ set'.r > 1 =>
                     \E q \in 0 .. base'.w - 1 : have'[p].cells = Data[base'.w][q].cells
    BY <1>1, <1>10, <1>11
  <1> QED  BY <1>2, <1>12 DEF ClumpedIsTrue

(* Nobody else says that the run is ready.                                 *)
LEMMA NotReady ==
  ASSUME Types, stage = "read", ReadInv, NEW p \in Procs,
         \/ WriteOwn(p) \/ WriteNext(p) \/ HearPasses(p) \/ PostReceive(p) \/ SendPing(p)
         \/ WritePiece(p) \/ EndSection(p) \/ Announce(p) \/ HearPing(p) \/ SendPiece(p)
         \/ ReadOwn(p) \/ ReadMine(p) \/ SendSize(p) \/ SendChunk(p) \/ EndFile(p)
         \/ HearSize(p) \/ TakeChunk(p) \/ EndTurns(p)
  PROVE  pc'[p] # "ready" /\ UNCHANGED <<set, stage>>
PROOF
  <1>1. \A l : Go(p, l) => pc'[p] = l  BY DEF Types, Labelled, Go
  <1>2. NextReadSection(p) => pc'[p] \in {"enter", "counted"}  BY <1>1 DEF NextReadSection
  <1>3. NextSection(p) => pc'[p] \in {"buffer", "written"}  BY <1>1 DEF NextSection
  <1>4. WriteOwn(p) \/ WriteNext(p) \/ HearPasses(p) => pc'[p] # "ready" /\ UNCHANGED <<set, stage>>
    BY <1>1 DEF WriteOwn, WriteNext, HearPasses
  <1>5. PostReceive(p) \/ SendPing(p) \/ HearPing(p) => pc'[p] # "ready" /\ UNCHANGED <<set, stage>>
    BY <1>1 DEF PostReceive, SendPing, HearPing
  <1>6. ~WritePiece(p) /\ ~SendPiece(p)  BY DEF WritePiece, SendPiece
  <1>7. EndSection(p) \/ Announce(p) => pc'[p] # "ready" /\ UNCHANGED <<set, stage>>
    BY <1>1, <1>3 DEF EndSection, Announce
  <1>8. ReadOwn(p) \/ ReadMine(p) \/ EndFile(p) => pc'[p] # "ready" /\ UNCHANGED <<set, stage>>
    BY <1>2 DEF ReadOwn, ReadMine, EndFile, ReadsFor
  <1>9. SendSize(p) \/ SendChunk(p) \/ HearSize(p) \/ TakeChunk(p) =>
          pc'[p] # "ready" /\ UNCHANGED <<set, stage>>
    BY <1>1 DEF SendSize, SendChunk, HearSize, TakeChunk
  <1>10. EndTurns(p) => pc'[p] # "ready" /\ UNCHANGED <<set, stage>>  BY <1>2 DEF EndTurns
  <1> QED  BY <1>4, <1>5, <1>6, <1>7, <1>8, <1>9, <1>10

LEMMA ClumpsStep ==
  Types /\ HandshakeInv /\ FilesInv /\ HadInv /\ ClumpedIsTrue /\ [Next]_vars => ClumpedIsTrue'
PROOF
  <1> SUFFICES ASSUME Types, WriteInv, ReadInv, FilesInv, HadInv, ClumpedIsTrue, [Next]_vars
               PROVE  ClumpedIsTrue'
    BY DEF HandshakeInv
  <1>1. stage \in {"write", "read"}  BY DEF Types
  <1>2. ASSUME NEW p \in Procs', pc'[p] # "ready" PROVE ClumpedIsTrue'
    BY <1>2 DEF ClumpedIsTrue, At
  <1>3. CASE WriteHeader \/ Buffer
    <2>1. stage' = "write"  BY <1>3 DEF WriteHeader, Buffer
    <2> QED  BY <2>1 DEF ClumpedIsTrue
  <1>4. CASE StartReading
    <2>1. stage' = "read" /\ set' = set /\ pc' = [p \in 0 .. set.r - 1 |-> "header"]
      BY <1>4 DEF StartReading, Each
    <2>2. Procs' = 0 .. set.r - 1 /\ 0 \in 0 .. set.r - 1
      <3>1. Procs' = 0 .. set.r - 1  BY <2>1 DEF Procs, N
      <3> QED  BY <3>1, SettingFacts DEF Types
    <2>3. 0 \in Procs' /\ pc'[0] # "ready"  BY <2>1, <2>2
    <2> QED  BY <1>2, <2>3
  <1>5. ASSUME stage = "read", UNCHANGED <<set, stage, base, files>> PROVE Procs' = 0 .. set.r - 1 /\ 0 \in Procs'
    BY <1>5, ReadingRun
  <1>6. CASE ReadHeader
    <2>1. /\ stage = "read" /\ UNCHANGED <<set, stage, base, files>>
          /\ \A p \in 0 .. set.r - 1 : pc'[p] \in {"refused", "enter"}
      BY <1>6 DEF ReadHeader, Each
    <2>2. 0 \in Procs' /\ pc'[0] # "ready"  BY <1>5, <2>1
    <2> QED  BY <1>2, <2>2
  <1>7. CASE Enter \/ ReadBroadcast
    <2>1. /\ stage = "read" /\ UNCHANGED <<set, stage, base, files>>
          /\ \A p \in Procs : pc'[p] \in {"size", "read", "enter", "counted"}
      <3>1. stage = "read" /\ UNCHANGED <<set, stage, base, files>>  BY <1>7 DEF Enter, ReadBroadcast
      <3>2. Enter => \A p \in Procs : pc'[p] \in {"size", "read"}  BY DEF Enter
      <3>3. ReadBroadcast => \A p \in Procs : pc'[p] \in {"read", "enter", "counted"}
        <4>1. Procs = 0 .. set.r - 1  BY <3>1, ReadingRun
        <4> QED  BY <4>1 DEF ReadBroadcast, At, Each
      <3> QED  BY <1>7, <3>1, <3>2, <3>3
    <2>2. Procs' = Procs  BY <2>1, ReadingRun
    <2>3. 0 \in Procs' /\ pc'[0] # "ready"  BY <1>5, <2>1, <2>2
    <2> QED  BY <1>2, <2>3
  <1>8. CASE Finish  BY <1>8, FinishClumps
  <1>9. ASSUME NEW p \in Procs,
               \/ WriteOwn(p) \/ WriteNext(p) \/ HearPasses(p) \/ PostReceive(p) \/ SendPing(p)
               \/ WritePiece(p) \/ EndSection(p) \/ Announce(p) \/ HearPing(p) \/ SendPiece(p)
               \/ ReadOwn(p) \/ ReadMine(p) \/ SendSize(p) \/ SendChunk(p) \/ EndFile(p)
               \/ HearSize(p) \/ TakeChunk(p) \/ EndTurns(p)
        PROVE  ClumpedIsTrue'
    <2>1. CASE stage = "write"
      <3>1. stage' = "write"  BY <1>9, <2>1, WriteStep
      <3> QED  BY <3>1 DEF ClumpedIsTrue
    <2>2. CASE stage = "read"
      <3>1. pc'[p] # "ready" /\ UNCHANGED <<set, stage>>  BY <1>9, <2>2, NotReady
      <3>2. Procs' = Procs  BY <3>1 DEF Procs, N
      <3> QED  BY <1>2, <3>1, <3>2
    <2> QED  BY <1>1, <2>1, <2>2
  <1>10. CASE UNCHANGED vars
    <2>1. /\ set' = set /\ stage' = stage /\ pc' = pc /\ base' = base /\ have' = have  BY <1>10 DEF vars
    <2>2. Procs' = Procs  BY <2>1 DEF Procs, N
    <2>3. At("ready")' <=> At("ready")  BY <2>1, <2>2 DEF At
    <2> QED  BY <2>1, <2>2, <2>3 DEF ClumpedIsTrue
  <1> QED  BY <1>3, <1>4, <1>6, <1>7, <1>8, <1>9, <1>10 DEF Next

LEMMA ClumpsInit == Init => ClumpedIsTrue
PROOF
  BY DEF Init, ClumpedIsTrue

(* However many files there are and however many processes read them,      *)
(* every cell, particle and surface of the run that wrote is on one        *)
(* process, once, with its cell and behind its split cell: the pieces are  *)
(* in the files in the order of the processes, and every reader hands each *)
(* chunk to the process that waits for it, or every process picks its own. *)
THEOREM WhatIsWrittenIsRestored == Spec => []RestoredOnce
PROOF
  <1>1. Init => Types /\ HandshakeInv /\ FilesInv /\ HadInv  BY HandshakeInit, FilesInit, HadInit
  <1>2. Types /\ HandshakeInv /\ [Next]_vars => Types' /\ HandshakeInv'  BY HandshakeStep
  <1>3. Types /\ HandshakeInv /\ FilesInv /\ [Next]_vars => FilesInv'  BY FilesStep
  <1>4. Types /\ HandshakeInv /\ FilesInv /\ HadInv /\ [Next]_vars => HadInv'  BY HadStep
  <1>5. Types /\ HandshakeInv /\ FilesInv /\ HadInv => RestoredOnce  BY RestoredFromHad
  <1> QED  BY <1>1, <1>2, <1>3, <1>4, <1>5, PTL DEF Spec

(* A run that takes its cells for clumped is right: the processes agree,   *)
(* and each has the cells of one process of the run that wrote.            *)
THEOREM ClumpedIsClumped == Spec => []ClumpedIsTrue
PROOF
  <1>1. Init => Types /\ HandshakeInv /\ FilesInv /\ HadInv /\ ClumpedIsTrue
    BY HandshakeInit, FilesInit, HadInit, ClumpsInit
  <1>2. Types /\ HandshakeInv /\ [Next]_vars => Types' /\ HandshakeInv'  BY HandshakeStep
  <1>3. Types /\ HandshakeInv /\ FilesInv /\ [Next]_vars => FilesInv'  BY FilesStep
  <1>4. Types /\ HandshakeInv /\ FilesInv /\ HadInv /\ [Next]_vars => HadInv'  BY HadStep
  <1>5. Types /\ HandshakeInv /\ FilesInv /\ HadInv /\ ClumpedIsTrue /\ [Next]_vars => ClumpedIsTrue'
    BY ClumpsStep
  <1> QED  BY <1>1, <1>2, <1>3, <1>4, <1>5, PTL DEF Spec
=============================================================================
