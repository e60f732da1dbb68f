------------------------ MODULE ParticleListProofs ------------------------
(***************************************************************************)
(* For any number of particles and cells, any settings and any Delta:      *)
(*   1. the types of the state of ParticleList, with every access of the   *)
(*      arrays within them;                                                *)
(*   2. that a particle is stored once, in the cell that it lies in,       *)
(*      whatever moves its index or that of its cell;                      *)
(*   3. that a linked list in use is the list of its cell: whole when it   *)
(*      is relied upon, and never with a particle of another cell;         *)
(*   4. that the array implements ParticleSet: its loops remove what they  *)
(*      were called for and decide once upon each particle.                *)
(* All follow from one inductive invariant, Inv.                           *)
(***************************************************************************)
EXTENDS ParticleList, FiniteSetTheorems, NaturalsInduction, TLAPS

Sizes == nlocal \in Nat /\ maxsort \in Nat /\ maxlocal \in Nat /\ setting \in Settings

Distinct == \A j, k \in Indices : particles[j].id = particles[k].id => j = k
NamesDistinct == \A c, d \in Owned : cells[c] = cells[d] => c = d

Placed(k) == particles[k].icell \in Owned /\ cells[particles[k].icell] = particles[k].x
At(places) == stage \in places
Rebalancing == At({"pack", "squeeze", "unpack", "unpacked"})

-----------------------------------------------------------------------------
(* What the helpers return.                                                *)
LEMMA Below ==
    ASSUME NEW n \in Nat
    PROVE  IsFiniteSet(0 .. n - 1) /\ Cardinality(0 .. n - 1) = n
<1>1. 0 \in Int /\ n - 1 \in Int
  OBVIOUS
<1>2. IsFiniteSet(0 .. n - 1) /\ Cardinality(0 .. n - 1) = IF 0 > n - 1 THEN 0 ELSE n - 1 - 0 + 1
  BY <1>1, FS_Interval
<1> QED BY <1>2

LEMMA ArrayOf ==
    ASSUME NEW n \in Nat, NEW f, DOMAIN f = 0 .. n - 1, particles' = f
    PROVE  nlocal' = n /\ nlocal' \in Nat /\ Indices' = 0 .. n - 1 /\ DOMAIN particles' = Indices'
<1>1. nlocal' = n
  BY Below DEF nlocal
<1> QED BY <1>1 DEF Indices

(* particles[j] = particles[nlocal-1]; nlocal--                            *)
LEMMA OverwrittenArray ==
    ASSUME nlocal \in Nat, NEW j \in Indices, particles' = Overwritten(j)
    PROVE  /\ nlocal' = nlocal - 1 /\ nlocal' \in Nat /\ nlocal - 1 \in Indices
           /\ Indices' = 0 .. nlocal - 2 /\ Indices' \subseteq Indices
           /\ nlocal - 1 \notin Indices' /\ \A k \in Indices : k \in Indices' \/ k = nlocal - 1
           /\ DOMAIN particles' = Indices'
           /\ \A k \in Indices' : particles'[k] = IF k = j THEN particles[nlocal - 1] ELSE particles[k]
<1>1. nlocal - 1 \in Nat /\ (nlocal - 1) - 1 = nlocal - 2 /\ nlocal - 1 \in Indices
  BY DEF Indices
<1>2. DOMAIN Overwritten(j) = 0 .. (nlocal - 1) - 1
  BY <1>1 DEF Overwritten
<1>3. nlocal' = nlocal - 1 /\ nlocal' \in Nat /\ Indices' = 0 .. nlocal - 2 /\ DOMAIN particles' = Indices'
  BY <1>1, <1>2, ArrayOf
<1>4. /\ \A k \in 0 .. nlocal - 2 : k \in Indices
      /\ \A k \in Indices : k \in 0 .. nlocal - 2 \/ k = nlocal - 1
      /\ nlocal - 1 \notin 0 .. nlocal - 2
  BY DEF Indices
<1> QED BY <1>1, <1>3, <1>4 DEF Overwritten

LEMMA OverwrittenHeld ==
    ASSUME nlocal \in Nat, Distinct, NEW j \in Indices, particles' = Overwritten(j)
    PROVE  Distinct' /\ Held' = Held \ {particles[j].id}
<1>1. /\ Indices' \subseteq Indices /\ nlocal - 1 \in Indices
      /\ \A k \in Indices' : particles'[k] = IF k = j THEN particles[nlocal - 1] ELSE particles[k]
  BY OverwrittenArray
<1>2. \A k \in Indices : k \in Indices' \/ k = nlocal - 1
  BY OverwrittenArray
<1>3. nlocal - 1 \notin Indices'
  BY OverwrittenArray
<1>4. Distinct'
  <2> SUFFICES ASSUME NEW k \in Indices', NEW m \in Indices', particles'[k].id = particles'[m].id
               PROVE  k = m
    BY DEF Distinct
  <2> QED BY <1>1, <1>3 DEF Distinct
<1>5. ASSUME NEW a \in Held' PROVE a \in Held \ {particles[j].id}
  <2>1. PICK k \in Indices' : a = particles'[k].id
    BY <1>5 DEF Held
  <2>2. CASE k = j
    BY <1>1, <1>3, <2>1, <2>2 DEF Held, Distinct
  <2>3. CASE k # j
    BY <1>1, <2>1, <2>3 DEF Held, Distinct
  <2> QED BY <2>2, <2>3
<1>6. ASSUME NEW a \in Held \ {particles[j].id} PROVE a \in Held'
  <2>1. PICK k \in Indices : a = particles[k].id
    BY <1>6 DEF Held
  <2>2. k # j
    BY <1>6, <2>1
  <2>3. CASE k = nlocal - 1
    <3>1. j \in Indices' /\ particles'[j] = particles[k]
      BY <1>1, <1>2, <2>2, <2>3
    <3> QED BY <2>1, <3>1 DEF Held
  <2>4. CASE k # nlocal - 1
    <3>1. k \in Indices' /\ particles'[k] = particles[k]
      BY <1>1, <1>2, <2>2, <2>4
    <3> QED BY <2>1, <3>1 DEF Held
  <2> QED BY <2>3, <2>4
<1> QED BY <1>4, <1>5, <1>6

(* Particle::grow makes an array large enough and never smaller.           *)
LEMMA GrownIsEnough ==
    ASSUME maxlocal \in Nat, NEW need \in Nat
    PROVE  Grown(need) \in Nat /\ Grown(need) >= need /\ Grown(need) >= maxlocal
<1>1. CASE need <= maxlocal
  BY <1>1 DEF Grown
<1>2. CASE need > maxlocal
  <2> DEFINE m == need - maxlocal + Delta - 1
             d == m \div Delta
  <2>1. m \in Nat /\ Delta \in Nat \ {0}
    BY <1>2, DeltaAssumption
  <2>2. d \in Nat /\ Delta * d <= m /\ m < Delta * d + Delta
    <3> HIDE DEF m
    <3> QED BY <2>1, DeltaAssumption
  <2>3. Grown(need) = maxlocal + Delta * d
    BY <1>2 DEF Grown
  <2> DEFINE e == Delta * d
  <2>4. e \in Nat
    <3> HIDE DEF d
    <3> QED BY <2>1, <2>2
  <2>5. e <= m /\ m < e + Delta /\ Grown(need) = maxlocal + e
    BY <2>2, <2>3
  <2> HIDE DEF d, e
  <2> QED BY <2>1, <2>4, <2>5
<1> QED BY <1>1, <1>2

\* What may be added to the array: particles with ids of their own.
Newcomers(new) == /\ new \in Seq(Particles)
                  /\ \A m \in DOMAIN new : new[m].id \in FreeIds
                  /\ \A m, n \in DOMAIN new : new[m].id = new[n].id => m = n
AllPlaced(new) == \A m \in DOMAIN new : new[m].icell \in Owned /\ cells[new[m].icell] = new[m].x

LEMMA AddedArray ==
    ASSUME Sizes, NEW new \in Seq(Particles), Add(new)
    PROVE  /\ nlocal' = nlocal + Len(new) /\ nlocal' \in Nat /\ maxlocal' \in Nat
           /\ nlocal' <= maxlocal' /\ maxlocal <= maxlocal'
           /\ Len(new) \in Nat
           /\ Indices' = 0 .. nlocal' - 1 /\ Indices \subseteq Indices'
           /\ DOMAIN particles' = Indices'
           /\ \A k \in Indices : particles'[k] = particles[k]
           /\ \A m \in DOMAIN new : nlocal + m - 1 \in Indices' /\ nlocal + m - 1 \notin Indices 
                                    /\ particles'[nlocal + m - 1] = new[m]
           /\ \A k \in Indices' : k \in Indices \/ (k - nlocal + 1 \in DOMAIN new /\ k >= nlocal
                                                     /\ particles'[k] = new[k - nlocal + 1])
<1>1. Len(new) \in Nat /\ nlocal + Len(new) \in Nat /\ DOMAIN new = 1 .. Len(new)
  BY DEF Sizes
<1>2. particles' = Joined(new) /\ DOMAIN Joined(new) = 0 .. (nlocal + Len(new)) - 1
  <2>1. DOMAIN Joined(new) = 0 .. nlocal + Len(new) - 1
    BY DEF Joined
  <2>2. nlocal + Len(new) - 1 = (nlocal + Len(new)) - 1
    BY <1>1 DEF Sizes
  <2> QED BY <2>1, <2>2 DEF Add
<1>3. nlocal' = nlocal + Len(new) /\ nlocal' \in Nat /\ Indices' = 0 .. nlocal' - 1 /\ DOMAIN particles' = Indices'
  BY <1>1, <1>2, ArrayOf
<1>4. maxlocal' \in Nat /\ nlocal' <= maxlocal' /\ maxlocal <= maxlocal'
  BY <1>1, <1>3, GrownIsEnough DEF Add, Sizes
<1>5. \A k \in Indices' : particles'[k] = IF k < nlocal THEN particles[k] ELSE new[k - nlocal + 1]
  BY <1>1, <1>2, <1>3 DEF Joined
<1>6. \A k \in Indices : k \in Indices' /\ k < nlocal
  BY <1>1, <1>3 DEF Indices, Sizes
<1>7. ASSUME NEW m \in DOMAIN new
      PROVE  /\ nlocal + m - 1 \in Indices' /\ nlocal + m - 1 \notin Indices
             /\ ~(nlocal + m - 1 < nlocal) /\ (nlocal + m - 1) - nlocal + 1 = m
  BY <1>1, <1>3 DEF Indices, Sizes
<1>8. ASSUME NEW k \in Indices'
      PROVE  k \in Indices \/ (k - nlocal + 1 \in DOMAIN new /\ k >= nlocal /\ ~(k < nlocal))
  BY <1>1, <1>3 DEF Indices, Sizes
<1>9. \A m \in DOMAIN new : particles'[nlocal + m - 1] = new[m]
  BY <1>5, <1>7
<1> QED BY <1>1, <1>3, <1>4, <1>5, <1>6, <1>7, <1>8, <1>9

LEMMA AddedHeld ==
    ASSUME Sizes, Distinct, NEW new, Newcomers(new), Add(new)
    PROVE  /\ Distinct' /\ Held' = Held \union {new[m].id : m \in DOMAIN new}
           /\ {new[m].id : m \in DOMAIN new} \in SUBSET (Ids \ Held)
<1>1. new \in Seq(Particles)
  BY DEF Newcomers
<1>2. /\ Indices \subseteq Indices' /\ \A k \in Indices : particles'[k] = particles[k]
      /\ \A m \in DOMAIN new : nlocal + m - 1 \in Indices' /\ particles'[nlocal + m - 1] = new[m]
      /\ \A k \in Indices' : k \in Indices \/ (k - nlocal + 1 \in DOMAIN new /\ k >= nlocal
                                                /\ particles'[k] = new[k - nlocal + 1])
  BY <1>1, AddedArray
<1>3. {new[m].id : m \in DOMAIN new} \in SUBSET (Ids \ Held)
  BY DEF Newcomers, FreeIds
<1>4. \A k \in Indices : particles'[k].id \in Held
  BY <1>2 DEF Held
<1>5. \A k \in Indices' : k \notin Indices => particles'[k].id \notin Held
  BY <1>2, <1>3
<1>6. Distinct'
  <2> SUFFICES ASSUME NEW j \in Indices', NEW k \in Indices', particles'[j].id = particles'[k].id PROVE j = k
    BY DEF Distinct
  <2>1. CASE j \in Indices
    BY <1>2, <1>4, <1>5, <2>1 DEF Distinct
  <2>2. CASE j \notin Indices
    <3>1. k \notin Indices
      BY <1>4, <1>5, <2>2
    <3>2. j - nlocal + 1 = k - nlocal + 1
      BY <1>2, <2>2, <3>1 DEF Newcomers
    <3>3. j \in Int /\ k \in Int /\ nlocal \in Int
      BY <1>1, AddedArray DEF Sizes
    <3> QED BY <3>2, <3>3
  <2> QED BY <2>1, <2>2
<1>7. ASSUME NEW a PROVE a \in Held' <=> a \in Held \union {new[m].id : m \in DOMAIN new}
  BY <1>2 DEF Held
<1> QED BY <1>3, <1>6, <1>7

LEMMA WeightIs ==
    ASSUME setting \in Settings, NEW name \in CellNames
    PROVE  WeightOf(name) \in Nat \ {0}
<1>1. setting.weight \in [CellNames -> Nat \ {0}]
  BY SettingsAssumption
<1> QED BY <1>1 DEF WeightOf

LEMMA NewParticlesAre ==
    ASSUME setting \in Settings, NEW n \in Nat, NEW c \in Nat, NEW name \in CellNames,
           NEW new \in NewParticles(n, c, name)
    PROVE  /\ Newcomers(new) /\ Len(new) <= n
           /\ \A m \in DOMAIN new : new[m].icell = c /\ new[m].x = name /\ new[m].weight = WeightOf(name)
<1>1. PICK k \in 0 .. n : new \in {[j \in 1 .. k |-> [id |-> ids[j], x |-> name, icell |-> c, weight |-> WeightOf(name)]] :
               ids \in Injection(1 .. k, FreeIds)}
  BY DEF NewParticles
<1>2. PICK ids \in Injection(1 .. k, FreeIds) :
          new = [j \in 1 .. k |-> [id |-> ids[j], x |-> name, icell |-> c, weight |-> WeightOf(name)]]
  BY <1>1
<1>3. /\ ids \in [1 .. k -> FreeIds] /\ \A a, b \in 1 .. k : ids[a] = ids[b] => a = b
  BY <1>2 DEF Injection, IsInjective
<1>4. WeightOf(name) \in Nat
  BY WeightIs
<1>5. \A j \in 1 .. k : new[j] \in Particles
  BY <1>2, <1>3, <1>4 DEF Particles, FreeIds
<1>6. new = [j \in 1 .. k |-> new[j]] /\ k \in Nat
  BY <1>2
<1>7. new \in Seq(Particles) /\ Len(new) = k /\ DOMAIN new = 1 .. k
  BY <1>5, <1>6
<1> QED BY <1>2, <1>3, <1>7 DEF Newcomers

LEMMA NewHereIs ==
    ASSUME setting \in Settings, cells \in Seq(setting.names), NEW n \in Nat, NEW new \in NewHere(n)
    PROVE  Newcomers(new) /\ AllPlaced(new) /\ Len(new) <= n
<1>1. CASE new = <<>>
  BY <1>1 DEF Newcomers, AllPlaced
<1>2. CASE new # <<>>
  <2>1. PICK c \in Owned : new \in NewParticles(n, c, cells[c])
    BY <1>2 DEF NewHere
  <2>2. cells[c] \in CellNames /\ c \in Nat
    <3>1. setting.names \subseteq CellNames
      BY SettingsAssumption
    <3> QED BY <3>1 DEF Owned
  <2> QED BY <2>1, <2>2, NewParticlesAre DEF AllPlaced
<1> QED BY <1>1, <1>2

-----------------------------------------------------------------------------
(* A finite set of numbers in ascending order.                             *)
LEMMA LeastNat ==
    ASSUME NEW S, S \subseteq Nat, S # {}
    PROVE  \E x \in S : \A y \in S : x <= y
<1>1. PICK x \in S : \A y \in S : ~ (<<y, x>> \in OpToRel(<, Nat))
  BY NatLessThanWellFounded, WFMin, Zenon
<1>2. \A y \in S : ~ (y < x)
  BY <1>1, Zenon DEF OpToRel
<1> QED BY <1>2

Rank(S, k) == Cardinality({m \in S : m <= k})

LEMMA RankGrows ==
    ASSUME NEW S \in SUBSET Nat, IsFiniteSet(S)
    PROVE  /\ Cardinality(S) \in Nat
           /\ \A k \in S : Rank(S, k) \in 1 .. Cardinality(S)
           /\ \A k, m \in S : k < m => Rank(S, k) < Rank(S, m)
           /\ \A k, m \in S : Rank(S, k) = Rank(S, m) => k = m
<1>1. Cardinality(S) \in Nat
  BY FS_CardinalityType
<1>2. ASSUME NEW k \in S PROVE /\ {m \in S : m <= k} \in SUBSET S /\ IsFiniteSet({m \in S : m <= k})
                               /\ Rank(S, k) \in Nat /\ Rank(S, k) <= Cardinality(S)
  <2>1. {m \in S : m <= k} \in SUBSET S
    OBVIOUS
  <2>2. IsFiniteSet({m \in S : m <= k}) /\ Cardinality({m \in S : m <= k}) <= Cardinality(S)
    BY <2>1, FS_Subset
  <2>3. Cardinality({m \in S : m <= k}) \in Nat
    BY <2>2, FS_CardinalityType
  <2> QED BY <2>1, <2>2, <2>3 DEF Rank
<1>3. ASSUME NEW k \in S PROVE Rank(S, k) # 0
  <2>1. k \in {m \in S : m <= k}
    OBVIOUS
  <2> QED BY <1>2, <2>1, FS_EmptySet DEF Rank
<1>4. \A k \in S : k \in Nat /\ Rank(S, k) \in Nat /\ Rank(S, k) <= Cardinality(S)
  BY <1>2
<1>5. ASSUME NEW k \in S, NEW m \in S, k < m PROVE Rank(S, k) < Rank(S, m)
  <2>1. \A j \in S : j <= k => j <= m
    BY <1>5
  <2>2. {j \in S : j <= k} \in SUBSET {j \in S : j <= m}
    BY <2>1
  <2>3. m \in {j \in S : j <= m} /\ m \notin {j \in S : j <= k}
    BY <1>5
  <2>4. Rank(S, k) <= Rank(S, m) /\ Rank(S, k) # Rank(S, m)
    BY <1>2, <2>2, <2>3, FS_Subset DEF Rank
  <2> QED BY <1>4, <2>4
<1>6. ASSUME NEW k \in S, NEW m \in S, Rank(S, k) = Rank(S, m) PROVE k = m
  <2>1. k \in Nat /\ m \in Nat /\ Rank(S, k) \in Nat
    BY <1>4
  <2>2. ~(k < m) /\ ~(m < k)
    BY <1>5, <1>6, <2>1
  <2> QED BY <2>1, <2>2
<1>7. \A k \in S : Rank(S, k) \in 1 .. Cardinality(S)
  BY <1>1, <1>3, <1>4
<1> QED BY <1>1, <1>5, <1>6, <1>7

LEMMA RankIsOnto ==
    ASSUME NEW S \in SUBSET Nat, IsFiniteSet(S), NEW n \in 1 .. Cardinality(S)
    PROVE  \E k \in S : Rank(S, k) = n
<1> DEFINE r == [k \in S |-> Rank(S, k)]
           T == 1 .. Cardinality(S)
<1>1. Cardinality(S) \in Nat
  BY RankGrows
<1>2. r \in [S -> T] /\ \A k, m \in S : r[k] = r[m] => k = m
  BY RankGrows
<1>3. r \in Injection(S, T)
  BY <1>2 DEF Injection, IsInjective
<1>4. IsFiniteSet(T) /\ Cardinality(T) = Cardinality(S)
  BY <1>1, FS_Interval
<1>5. r \in Surjection(S, T)
  <2> HIDE DEF r, T
  <2> QED BY <1>3, <1>4, FS_Injection
<1> QED BY <1>5 DEF Surjection

\* s lists the members of S in ascending order.
Ascends(s, S) == /\ s \in Seq(S) /\ \A m, n \in DOMAIN s : m < n => s[m] < s[n]
                 /\ \A k \in S : \E m \in DOMAIN s : s[m] = k

LEMMA AscendingOrder ==
    ASSUME NEW S \in SUBSET Nat, IsFiniteSet(S)
    PROVE  \E s : /\ Ascends(s, S) /\ Len(s) = Cardinality(S)
                  /\ \A n \in 1 .. Cardinality(S) : Rank(S, s[n]) = n
<1> DEFINE s == [n \in 1 .. Cardinality(S) |-> CHOOSE k \in S : Rank(S, k) = n]
<1>1. Cardinality(S) \in Nat
  BY RankGrows
<1>2. \A n \in 1 .. Cardinality(S) : s[n] \in S /\ Rank(S, s[n]) = n
  BY RankIsOnto
<1>3. s \in Seq(S) /\ Len(s) = Cardinality(S) /\ DOMAIN s = 1 .. Cardinality(S)
  BY <1>1, <1>2
<1>4. ASSUME NEW m \in 1 .. Cardinality(S), NEW n \in 1 .. Cardinality(S), m < n PROVE s[m] < s[n]
  <2>1. s[m] \in S /\ s[n] \in S /\ Rank(S, s[m]) = m /\ Rank(S, s[n]) = n
    BY <1>2
  <2>2. \A j, k \in S : j < k => Rank(S, j) < Rank(S, k)
    BY RankGrows
  <2> HIDE DEF s
  <2>3. s[n] < s[m] => Rank(S, s[n]) < Rank(S, s[m])
    BY <2>1, <2>2
  <2>4. m \in Int /\ n \in Int /\ ~(n < m) /\ n # m
    BY <1>1, <1>4
  <2>5. ~(s[n] < s[m]) /\ s[n] # s[m]
    BY <2>1, <2>4, <2>3
  <2>6. s[m] \in Nat /\ s[n] \in Nat
    BY <2>1
  <2> QED BY <2>5, <2>6
<1>5. ASSUME NEW k \in S PROVE \E m \in 1 .. Cardinality(S) : s[m] = k
  <2>1. Rank(S, k) \in 1 .. Cardinality(S)
    BY RankGrows
  <2>2. s[Rank(S, k)] = k
    <3>1. s[Rank(S, k)] \in S /\ Rank(S, s[Rank(S, k)]) = Rank(S, k)
      BY <1>2, <2>1
    <3>2. \A j \in S : Rank(S, j) = Rank(S, k) => j = k
      BY RankGrows
    <3> HIDE DEF s
    <3> QED BY <3>1, <3>2
  <2> QED BY <2>1, <2>2
<1> HIDE DEF s
<1> QED BY <1>2, <1>3, <1>4, <1>5 DEF Ascends

LEMMA LeastIs ==
    ASSUME NEW S, S \subseteq Nat
    PROVE  /\ S = {} => LeastIn(S) = -1
           /\ S # {} => LeastIn(S) \in S /\ \A m \in S : LeastIn(S) <= m
           /\ LeastIn(S) \in Int
<1>1. CASE S = {}
  BY <1>1 DEF LeastIn
<1>2. CASE S # {}
  <2>1. \E k \in S : \A m \in S : k <= m
    BY <1>2, LeastNat
  <2>2. LeastIn(S) \in S /\ \A m \in S : LeastIn(S) <= m
    BY <1>2, <2>1 DEF LeastIn
  <2>3. LeastIn(S) \in Nat
    BY <2>2, Zenon
  <2> QED BY <1>2, <2>2, <2>3
<1> QED BY <1>1, <1>2

LEMMA LeastWhenIs ==
    ASSUME NEW S, S \subseteq Nat, NEW k \in S, \A m \in S : k <= m
    PROVE  LeastIn(S) = k
<1>1. LeastIn(S) \in S /\ LeastIn(S) <= k
  BY LeastIs
<1>2. k <= LeastIn(S) /\ LeastIn(S) \in Nat /\ k \in Nat
  BY <1>1
<1> QED BY <1>1, <1>2

-----------------------------------------------------------------------------
(* The linked list of a cell, written as a sequence.                       *)
Linked(c, s) ==
    /\ s \in Seq(Indices)
    /\ \A m, n \in DOMAIN s : s[m] = s[n] => m = n
    /\ first[c] = IF s = <<>> THEN -1 ELSE s[1]
    /\ \A m \in DOMAIN s : s[m] \in DOMAIN next /\ next[s[m]] = IF m = Len(s) THEN -1 ELSE s[m + 1]
On(s) == {s[m] : m \in DOMAIN s}

IsVisit(f, c) == f = [n \in 0 .. nlocal |->
                        IF n = 0 THEN first[c]
                        ELSE IF f[n - 1] \in DOMAIN next THEN next[f[n - 1]] ELSE -1]

LEMMA ListedVisit ==
    ASSUME NEW c
    PROVE  Listed(c) = {(CHOOSE f : IsVisit(f, c))[n] : n \in 0 .. nlocal} \ {-1}
BY DEF Listed, IsVisit

LEMMA LinkedIsShort ==
    ASSUME nlocal \in Nat, NEW c, NEW s, Linked(c, s)
    PROVE  Len(s) \in Nat /\ Len(s) <= nlocal /\ DOMAIN s = 1 .. Len(s)
<1>1. s \in Seq(Indices) /\ Len(s) \in Nat /\ DOMAIN s = 1 .. Len(s) /\ s \in [1 .. Len(s) -> Indices]
  BY DEF Linked
<1>2. s \in Injection(1 .. Len(s), Indices)
  BY <1>1 DEF Linked, Injection, IsInjective
<1>3. IsFiniteSet(Indices) /\ Cardinality(Indices) = nlocal
  BY Below DEF Indices
<1>4. Cardinality(1 .. Len(s)) <= Cardinality(Indices)
  BY <1>2, <1>3, FS_Injection
<1>5. Cardinality(1 .. Len(s)) = Len(s)
  BY <1>1, FS_Interval
<1> QED BY <1>1, <1>3, <1>4, <1>5

(* Following next from first visits the particles on the list, and no other.*)
LEMMA ListedOn ==
    ASSUME Sizes, DOMAIN next = 0 .. maxsort - 1, NEW c, NEW s, Linked(c, s)
    PROVE  Listed(c) = On(s)
<1>1. Len(s) \in Nat /\ Len(s) <= nlocal /\ DOMAIN s = 1 .. Len(s) /\ s \in Seq(Indices) /\ nlocal \in Nat
  BY LinkedIsShort DEF Linked, Sizes
<1>2. \A m \in 1 .. Len(s) : s[m] \in Indices
  BY <1>1
<1>3. \A m \in 1 .. Len(s) : s[m] \in Nat /\ s[m] \in DOMAIN next /\ s[m] # -1
  BY <1>1, <1>2 DEF Linked, Indices
<1>4. -1 \notin DOMAIN next
  BY DEF Sizes
<1> DEFINE g == [n \in 0 .. nlocal |-> IF n < Len(s) THEN s[n + 1] ELSE -1]
<1>5. IsVisit(g, c)
  <2> SUFFICES ASSUME NEW n \in 0 .. nlocal
               PROVE  g[n] = IF n = 0 THEN first[c]
                             ELSE IF g[n - 1] \in DOMAIN next THEN next[g[n - 1]] ELSE -1
    BY DEF IsVisit
  <2>1. n \in Nat
    BY <1>1
  <2>2. CASE n = 0
    <3>1. s = <<>> <=> Len(s) = 0
      BY <1>1
    <3> QED BY <1>1, <2>2, <3>1 DEF Linked
  <2>3. CASE n # 0 /\ n - 1 < Len(s)
    <3>1. n \in 1 .. Len(s) /\ n - 1 \in 0 .. nlocal /\ (n - 1) + 1 = n
      BY <1>1, <2>1, <2>3
    <3>2. g[n - 1] = s[n] /\ s[n] \in DOMAIN next
      BY <1>3, <2>3, <3>1
    <3>3. next[s[n]] = IF n = Len(s) THEN -1 ELSE s[n + 1]
      BY <1>1, <3>1 DEF Linked
    <3>4. g[n] = IF n < Len(s) THEN s[n + 1] ELSE -1
      OBVIOUS
    <3>5. n < Len(s) <=> n # Len(s)
      <4>1. n \in Int /\ Len(s) \in Int /\ n <= Len(s)
        BY <1>1, <3>1
      <4> QED BY <4>1
    <3> HIDE DEF g
    <3> QED BY <2>3, <3>2, <3>3, <3>4, <3>5
  <2>4. CASE n # 0 /\ ~(n - 1 < Len(s))
    <3>1. n - 1 \in 0 .. nlocal /\ ~(n < Len(s))
      BY <1>1, <2>1, <2>4
    <3>2. g[n - 1] = -1 /\ g[n] = -1
      BY <2>4, <3>1
    <3> HIDE DEF g
    <3> QED BY <1>4, <2>4, <3>2
  <2> QED BY <2>2, <2>3, <2>4
<1> DEFINE f == CHOOSE f : IsVisit(f, c)
<1>6. IsVisit(f, c)
  <2> HIDE DEF g
  <2> QED BY <1>5
<1>7. \A n \in 0 .. nlocal : f[n] = g[n]
  <2> HIDE DEF f, g
  <2> DEFINE D == {n \in 0 .. nlocal : f[n] # g[n]}
  <2> SUFFICES ASSUME D # {} PROVE FALSE
    OBVIOUS
  <2>1. PICK k \in D : \A j \in D : k <= j
    <3>1. D \subseteq Nat
      BY <1>1
    <3> HIDE DEF D
    <3> QED BY <3>1, LeastNat
  <2>2. k \in 0 .. nlocal /\ f[k] # g[k] /\ k \in Nat
    BY <1>1
  <2>3. f[k] = (IF k = 0 THEN first[c] ELSE IF f[k - 1] \in DOMAIN next THEN next[f[k - 1]] ELSE -1)
    BY <1>6, <2>2 DEF IsVisit
  <2>4. g[k] = (IF k = 0 THEN first[c] ELSE IF g[k - 1] \in DOMAIN next THEN next[g[k - 1]] ELSE -1)
    BY <1>5, <2>2 DEF IsVisit
  <2>5. k # 0
    BY <2>2, <2>3, <2>4
  <2>6. k - 1 \in 0 .. nlocal /\ ~(k <= k - 1)
    BY <1>1, <2>2, <2>5
  <2>7. f[k - 1] = g[k - 1]
    BY <2>1, <2>6
  <2> QED BY <2>2, <2>3, <2>4, <2>7
<1>8. Listed(c) = {f[n] : n \in 0 .. nlocal} \ {-1}
  BY ListedVisit
<1>9. Listed(c) = {g[n] : n \in 0 .. nlocal} \ {-1}
  <2> HIDE DEF f, g
  <2> QED BY <1>7, <1>8
<1>10. ASSUME NEW k \in Listed(c) PROVE k \in On(s)
  <2>1. PICK n \in 0 .. nlocal : k = g[n] /\ k # -1
    BY <1>9
  <2>2. n < Len(s) /\ k = s[n + 1]
    BY <2>1
  <2>3. n + 1 \in 1 .. Len(s)
    BY <1>1, <2>2
  <2> QED BY <1>1, <2>2, <2>3 DEF On
<1>11. ASSUME NEW k \in On(s) PROVE k \in Listed(c)
  <2>1. PICK m \in 1 .. Len(s) : k = s[m]
    BY <1>1 DEF On
  <2>2. m - 1 \in 0 .. nlocal /\ m - 1 < Len(s) /\ (m - 1) + 1 = m
    BY <1>1
  <2>3. g[m - 1] = k /\ k # -1
    BY <1>3, <2>1, <2>2
  <2> HIDE DEF g
  <2> QED BY <1>9, <2>2, <2>3
<1> QED BY <1>10, <1>11

LEMMA NextOf ==
    ASSUME NEW n \in Nat, NEW f, DOMAIN f = 0 .. n - 1, next' = f
    PROVE  maxsort' = n
BY Below DEF maxsort

LEMMA RenewedIs ==
    ASSUME Sizes, ListsType
    PROVE  \E n \in Nat : /\ n >= maxlocal /\ n >= maxsort /\ DOMAIN Renewed = 0 .. n - 1
                          /\ \A k \in DOMAIN Renewed : Renewed[k] \in Int
<1>1. maxlocal \in Nat /\ maxsort \in Nat /\ DOMAIN next = 0 .. maxsort - 1 /\ \A k \in DOMAIN next : next[k] \in Int
  BY DEF Sizes, ListsType
<1>2. CASE maxsort < maxlocal
  <2>1. Renewed = [k \in 0 .. maxlocal - 1 |-> Garbage]
    BY <1>2 DEF Renewed
  <2> QED BY <1>1, <1>2, <2>1 DEF Garbage
<1>3. CASE ~(maxsort < maxlocal)
  <2>1. Renewed = next
    BY <1>3 DEF Renewed
  <2> QED BY <1>1, <1>3, <2>1
<1> QED BY <1>2, <1>3

LEMMA InCells ==
    ASSUME Sizes, NEW c
    PROVE  InCell(c) \in SUBSET Nat /\ IsFiniteSet(InCell(c)) /\ InCell(c) \subseteq Indices
<1>1. Indices \subseteq Nat /\ IsFiniteSet(Indices)
  BY Below DEF Sizes, Indices
<1>2. InCell(c) \in SUBSET Indices
  BY DEF InCell
<1> QED BY <1>1, <1>2, FS_Subset

(* Particle::sort lists exactly the particles of each cell.                *)
LEMMA SortLinks ==
    ASSUME Sizes, ParticlesType, ListsType, Sort, UNCHANGED <<array, grid>>
    PROVE  /\ ListsType' /\ Sizes'
           /\ \A c \in Owned : \E s : Linked(c, s)' /\ On(s) = InCell(c)
<1>1. PICK n \in Nat : /\ n >= maxlocal /\ DOMAIN Renewed = 0 .. n - 1
                       /\ \A k \in DOMAIN Renewed : Renewed[k] \in Int
  BY RenewedIs
<1>2. /\ first' = SortedFirst /\ next' = SortedNext /\ sorted' = TRUE
      /\ UNCHANGED <<particles, maxlocal, setting, cells>>
  BY DEF Sort, array, grid
<1>3. /\ DOMAIN first' = Owned /\ \A c \in Owned : first'[c] = LeastIn(InCell(c))
      /\ DOMAIN next' = 0 .. n - 1
      /\ \A k \in 0 .. n - 1 : next'[k] = IF k \in Indices
                   THEN LeastIn({m \in InCell(particles[k].icell) : m > k})
                   ELSE Renewed[k]
  BY <1>1, <1>2 DEF SortedFirst, SortedNext
<1>4. maxsort' = n
  BY <1>3, NextOf
<1>5. Owned' = Owned /\ nlocal' = nlocal /\ Indices' = Indices
  BY <1>2 DEF Owned, nlocal, Indices
<1>6. \A c : LeastIn(InCell(c)) \in Int /\ \A k : LeastIn({m \in InCell(c) : m > k}) \in Int
  <2> SUFFICES ASSUME NEW c, NEW k
               PROVE  LeastIn(InCell(c)) \in Int /\ LeastIn({m \in InCell(c) : m > k}) \in Int
    OBVIOUS
  <2>1. InCell(c) \subseteq Nat /\ {m \in InCell(c) : m > k} \subseteq Nat
    BY InCells
  <2>2. LeastIn(InCell(c)) \in Int
    BY <2>1, LeastIs
  <2>3. LeastIn({m \in InCell(c) : m > k}) \in Int
    BY <2>1, LeastIs
  <2> QED BY <2>2, <2>3
<1>7. ListsType'
  <2>1. \A c \in Owned : first'[c] \in Int
    BY <1>3, <1>6
  <2>2. \A k \in 0 .. n - 1 : next'[k] \in Int
    <3> SUFFICES ASSUME NEW k \in 0 .. n - 1 PROVE next'[k] \in Int
      OBVIOUS
    <3>1. CASE k \in Indices
      <4>1. next'[k] = LeastIn({m \in InCell(particles[k].icell) : m > k})
        BY <1>3, <3>1
      <4>2. LeastIn({m \in InCell(particles[k].icell) : m > k}) \in Int
        BY <1>6
      <4> QED BY <4>1, <4>2
    <3>2. CASE k \notin Indices
      BY <1>1, <1>3, <3>2
    <3> QED BY <3>1, <3>2
  <2>3. first' \in [Owned -> Int]
    <3>1. \A c \in Owned : LeastIn(InCell(c)) \in Int
      BY <1>6
    <3> QED BY <1>2, <3>1 DEF SortedFirst
  <2> QED BY <1>2, <1>3, <1>4, <1>5, <2>2, <2>3 DEF ListsType
<1>8. Sizes'
  BY <1>1, <1>2, <1>4, <1>5 DEF Sizes
<1>9. ASSUME NEW c \in Owned PROVE \E s : Linked(c, s)' /\ On(s) = InCell(c)
  <2>1. PICK s : Ascends(s, InCell(c))
    BY InCells, AscendingOrder
  <2>2. /\ s \in Seq(InCell(c)) /\ DOMAIN s = 1 .. Len(s) /\ Len(s) \in Nat
        /\ \A m, k \in DOMAIN s : m < k => s[m] < s[k]
        /\ \A k \in InCell(c) : \E m \in DOMAIN s : s[m] = k
    BY <2>1 DEF Ascends
  <2>3. \A m \in DOMAIN s : s[m] \in InCell(c)
    BY <2>2
  <2>4. \A m \in DOMAIN s : s[m] \in Nat /\ s[m] \in Indices /\ m \in Nat
    BY <2>2, <2>3, InCells
  <2>5. On(s) = InCell(c)
    BY <2>2, <2>3 DEF On
  <2>6. s \in Seq(Indices)
    <3>1. InCell(c) \subseteq Indices
      BY InCells
    <3> QED BY <2>2, <3>1
  <2>7. \A m, k \in DOMAIN s : s[m] = s[k] => m = k
    <3> SUFFICES ASSUME NEW m \in DOMAIN s, NEW k \in DOMAIN s, m # k PROVE s[m] # s[k]
      OBVIOUS
    <3>1. m < k \/ k < m
      BY <2>2
    <3> QED BY <2>2, <2>4, <3>1
  <2>8. first'[c] = IF s = <<>> THEN -1 ELSE s[1]
    <3>1. CASE s = <<>>
      <4>1. InCell(c) = {}
        BY <2>2, <3>1
      <4> QED BY <1>3, <3>1, <4>1, LeastIs
    <3>2. CASE s # <<>>
      <4>1. 1 \in DOMAIN s
        BY <2>2, <3>2
      <4>2. \A k \in InCell(c) : s[1] <= k
        <5> SUFFICES ASSUME NEW k \in InCell(c) PROVE s[1] <= k
          OBVIOUS
        <5>1. PICK m \in DOMAIN s : s[m] = k
          BY <2>2
        <5>2. m = 1 \/ 1 < m
          BY <2>2
        <5> QED BY <2>2, <2>4, <4>1, <5>1, <5>2
      <4>3. LeastIn(InCell(c)) = s[1]
        BY <2>3, <4>1, <4>2, InCells, LeastWhenIs
      <4> QED BY <1>3, <3>2, <4>3
    <3> QED BY <3>1, <3>2
  <2>9. \A m \in DOMAIN s : s[m] \in DOMAIN next'
    <3>1. nlocal <= maxlocal /\ nlocal \in Nat /\ maxlocal \in Nat
      BY DEF Sizes, ParticlesType
    <3>2. \A k \in Indices : k \in 0 .. n - 1
      BY <1>1, <3>1 DEF Indices
    <3> QED BY <1>3, <2>4, <3>2
  <2>10. ASSUME NEW m \in DOMAIN s
         PROVE  next'[s[m]] = IF m = Len(s) THEN -1 ELSE s[m + 1]
    <3> DEFINE L == {k \in InCell(c) : k > s[m]}
    <3>1. next'[s[m]] = LeastIn(L)
      <4>1. particles[s[m]].icell = c
        BY <2>3 DEF InCell
      <4> QED BY <1>3, <2>4, <2>9, <4>1
    <3>2. CASE m = Len(s)
      <4>1. \A k \in DOMAIN s : k = m \/ k < m
        BY <2>2, <3>2
      <4>2. \A k \in DOMAIN s : ~(s[k] > s[m])
        BY <2>2, <2>4, <4>1
      <4>3. L = {}
        BY <2>2, <4>2
      <4> QED BY <3>1, <3>2, <4>3, LeastIs
    <3>3. CASE m # Len(s)
      <4>1. m + 1 \in DOMAIN s /\ m < m + 1 /\ \A k \in DOMAIN s : k <= m \/ k = m + 1 \/ k > m + 1
        BY <2>2, <2>4, <3>3
      <4>2. s[m + 1] \in L
        BY <2>2, <2>3, <2>4, <4>1
      <4>3. \A k \in L : s[m + 1] <= k
        <5> SUFFICES ASSUME NEW k \in InCell(c), k > s[m] PROVE s[m + 1] <= k
          OBVIOUS
        <5>1. PICK j \in DOMAIN s : s[j] = k
          BY <2>2
        <5>2. ~(j < m) /\ j # m
          BY <2>2, <2>4, <5>1
        <5>3. j = m + 1 \/ m + 1 < j
          BY <2>4, <4>1, <5>2
        <5> QED BY <2>2, <2>4, <4>1, <5>1, <5>3
      <4>4. L \subseteq Nat
        BY InCells
      <4>5. LeastIn(L) = s[m + 1]
        <5> HIDE DEF L
        <5> QED BY <4>2, <4>3, <4>4, LeastWhenIs
      <4> QED BY <3>1, <3>3, <4>5
    <3> QED BY <3>2, <3>3
  <2>11. Linked(c, s)'
    BY <1>5, <2>6, <2>7, <2>8, <2>9, <2>10 DEF Linked
  <2> QED BY <2>5, <2>11
<1> QED BY <1>7, <1>8, <1>9

-----------------------------------------------------------------------------
(* The lists that the compressions are called with.                        *)
LEMMA OrdersOf ==
    ASSUME NEW S \in SUBSET Nat, IsFiniteSet(S), NEW s \in Orders(S)
    PROVE  /\ s \in Seq(Nat) /\ s \in Seq(S) /\ On(s) = S
           /\ \A m, n \in DOMAIN s : s[m] = s[n] => m = n
<1>1. Cardinality(S) \in Nat
  BY FS_CardinalityType
<1>2. s \in Injection(1 .. Cardinality(S), S)
  BY DEF Orders
<1>3. s \in [1 .. Cardinality(S) -> S] /\ \A m, n \in DOMAIN s : s[m] = s[n] => m = n
  BY <1>2 DEF Injection, IsInjective
<1>4. Cardinality(1 .. Cardinality(S)) = Cardinality(S)
  BY <1>1, FS_Interval
<1>5. s \in Surjection(1 .. Cardinality(S), S)
  BY <1>2, <1>4, FS_Injection
<1>6. \A k \in S : \E m \in 1 .. Cardinality(S) : s[m] = k
  BY <1>5 DEF Surjection
<1>7. \A n \in 1 .. Cardinality(S) : s[n] \in S /\ s[n] \in Nat
  BY <1>3
<1>8. s = [n \in 1 .. Cardinality(S) |-> s[n]]
  BY <1>3
<1>9. s \in Seq(S) /\ s \in Seq(Nat) /\ DOMAIN s = 1 .. Cardinality(S)
  BY <1>1, <1>7, <1>8
<1>10. On(s) = S
  BY <1>6, <1>7, <1>9 DEF On
<1> QED BY <1>3, <1>9, <1>10

LEMMA InOrderIs ==
    ASSUME NEW S \in SUBSET Nat, IsFiniteSet(S)
    PROVE  Ascends(InOrder(S), S)
<1>1. PICK s : /\ Ascends(s, S) /\ Len(s) = Cardinality(S)
               /\ \A n \in 1 .. Cardinality(S) : Rank(S, s[n]) = n
  BY AscendingOrder
<1>2. s \in Seq(S) /\ DOMAIN s = 1 .. Cardinality(S) /\ Cardinality(S) \in Nat
  BY <1>1, FS_CardinalityType DEF Ascends
<1>3. ASSUME NEW k \in S
      PROVE  Rank(S, k) = Cardinality({m \in S : m < k}) + 1 /\ Cardinality({m \in S : m < k}) \in Nat
  <2>1. {m \in S : m < k} \in SUBSET S
    OBVIOUS
  <2>2. IsFiniteSet({m \in S : m < k})
    BY <2>1, FS_Subset
  <2>3. k \in Nat /\ k \notin {m \in S : m < k}
    OBVIOUS
  <2>4. Cardinality({m \in S : m < k} \union {k}) = Cardinality({m \in S : m < k}) + 1
    BY <2>2, <2>3, FS_AddElement
  <2>5. {m \in S : m < k} \union {k} = {m \in S : m <= k}
    <3>1. \A m \in S : m \in Nat /\ (m <= k <=> m < k \/ m = k)
      BY <2>3
    <3> QED BY <3>1
  <2>6. Cardinality({m \in S : m < k}) \in Nat
    BY <2>2, FS_CardinalityType
  <2> QED BY <2>4, <2>5, <2>6 DEF Rank
<1>4. ASSUME NEW n \in 1 .. Cardinality(S) PROVE InOrder(S)[n] = s[n]
  <2>1. s[n] \in S /\ Rank(S, s[n]) = n /\ n \in Int
    BY <1>1, <1>2
  <2>2. Rank(S, s[n]) = Cardinality({m \in S : m < s[n]}) + 1 /\ Cardinality({m \in S : m < s[n]}) \in Nat
    BY <1>3, <2>1
  <2>3. Cardinality({m \in S : m < s[n]}) = n - 1
    BY <2>2, <2>1
  <2>4. \A k \in S : Cardinality({m \in S : m < k}) = n - 1 => k = s[n]
    <3> SUFFICES ASSUME NEW k \in S, Cardinality({m \in S : m < k}) = n - 1 PROVE k = s[n]
      OBVIOUS
    <3>1. Rank(S, k) = n
      BY <1>3, <2>1
    <3>2. \A j \in S : Rank(S, j) = Rank(S, k) => j = k
      BY RankGrows
    <3> QED BY <2>1, <3>1, <3>2
  <2> QED BY <2>1, <2>3, <2>4 DEF InOrder
<1>5. InOrder(S) \in [1 .. Cardinality(S) -> S]
  <2>1. \A n \in 1 .. Cardinality(S) : InOrder(S)[n] \in S
    BY <1>2, <1>4
  <2> QED BY <2>1 DEF InOrder
<1> DEFINE o == InOrder(S)
<1>6. DOMAIN o = 1 .. Cardinality(S) /\ \A n \in 1 .. Cardinality(S) : o[n] = s[n] /\ o[n] \in S
  BY <1>4, <1>5
<1>7. o \in Seq(S)
  BY <1>2, <1>5
<1>8. /\ \A m, n \in 1 .. Cardinality(S) : m < n => s[m] < s[n]
      /\ \A k \in S : \E m \in 1 .. Cardinality(S) : s[m] = k
  BY <1>1, <1>2 DEF Ascends
<1> HIDE DEF o
<1>9. Ascends(o, S)
  BY <1>6, <1>7, <1>8 DEF Ascends
<1> QED BY <1>9 DEF o

\* A list of indices without repetition.
OfIndices(l) == l \in Seq(Nat) /\ \A m, n \in DOMAIN l : l[m] = l[n] => m = n
Ascending(l) == \A m, n \in DOMAIN l : m < n => l[m] < l[n]

LEMMA MlistIs ==
    ASSUME NEW S \in SUBSET Nat, IsFiniteSet(S), NEW l \in Mlists(S)
    PROVE  OfIndices(l) /\ On(l) = S /\ (setting.optmove \/ Ascending(l))
<1>1. CASE setting.optmove
  BY <1>1, OrdersOf DEF Mlists, OfIndices
<1>2. CASE ~setting.optmove
  <2>1. Ascends(l, S)
    BY <1>2, InOrderIs DEF Mlists
  <2>2. l \in Seq(S) /\ DOMAIN l = 1 .. Len(l) /\ Len(l) \in Nat
        /\ (\A m, n \in DOMAIN l : m < n => l[m] < l[n]) /\ \A k \in S : \E m \in DOMAIN l : l[m] = k
    BY <2>1 DEF Ascends
  <2>3. \A m \in DOMAIN l : l[m] \in S
    BY <2>2
  <2>4. \A m \in DOMAIN l : m \in Nat
    BY <2>2
  <2>5. \A k \in S : k \in Nat
    OBVIOUS
  <2>6. \A m \in DOMAIN l : l[m] \in S /\ l[m] \in Nat /\ m \in Nat
    BY <2>3, <2>4, <2>5
  <2>7. l \in Seq(Nat)
    <3>1. l = [m \in 1 .. Len(l) |-> l[m]]
      BY <2>2
    <3> QED BY <2>2, <2>6, <3>1
  <2>8. l \in Seq(Nat) /\ On(l) = S
    BY <2>2, <2>6, <2>7 DEF On
  <2>9. \A m, n \in DOMAIN l : l[m] = l[n] => m = n
    <3> SUFFICES ASSUME NEW m \in DOMAIN l, NEW n \in DOMAIN l, m # n PROVE l[m] # l[n]
      OBVIOUS
    <3>1. m < n \/ n < m
      BY <2>6
    <3> QED BY <2>2, <2>6, <3>1
  <2> QED BY <2>2, <2>8, <2>9 DEF OfIndices, Ascending
<1> QED BY <1>1, <1>2

-----------------------------------------------------------------------------
(* Grid::compress: the new indices of the remaining cells.                 *)
LEMMA Reindexing ==
    ASSUME cells \in Seq(setting.names)
    PROVE  /\ Cardinality(Remaining) \in Nat
           /\ \A c \in Remaining : NewIndex(c) \in 1 .. Cardinality(Remaining) /\ OldIndex(NewIndex(c)) = c
           /\ \A n \in 1 .. Cardinality(Remaining) : OldIndex(n) \in Remaining /\ NewIndex(OldIndex(n)) = n
<1>1. Len(cells) \in Nat
  OBVIOUS
<1>2. IsFiniteSet(Owned) /\ Owned \subseteq Nat
  BY <1>1, FS_Interval DEF Owned
<1>3. Remaining \in SUBSET Owned
  BY DEF Remaining
<1>4. Remaining \in SUBSET Nat /\ IsFiniteSet(Remaining)
  BY <1>2, <1>3, FS_Subset
<1>5. \A c : NewIndex(c) = Rank(Remaining, c)
  BY DEF NewIndex, Rank
<1>6. /\ Cardinality(Remaining) \in Nat
      /\ \A k \in Remaining : Rank(Remaining, k) \in 1 .. Cardinality(Remaining)
      /\ \A k, m \in Remaining : Rank(Remaining, k) = Rank(Remaining, m) => k = m
  BY <1>4, RankGrows
<1>7. \A n \in 1 .. Cardinality(Remaining) : \E k \in Remaining : Rank(Remaining, k) = n
  BY <1>4, RankIsOnto
<1>8. \A n \in 1 .. Cardinality(Remaining) : OldIndex(n) \in Remaining /\ NewIndex(OldIndex(n)) = n
  BY <1>5, <1>7 DEF OldIndex
<1>9. \A c \in Remaining : NewIndex(c) \in 1 .. Cardinality(Remaining)
  BY <1>5, <1>6
<1>10. \A c \in Remaining : OldIndex(NewIndex(c)) = c
  BY <1>5, <1>6, <1>8, <1>9
<1> QED BY <1>6, <1>8, <1>9, <1>10

Ahead == i .. Len(list)
ListedAhead == {list[m] : m \in Ahead}
LocatedAhead == {Location(m) : m \in Ahead}
Leavers == {k \in Indices : particles[k].icell = 0}

\* A particle is in the cell that it lies in, but for leavers (in cell 0)
\* until they are deleted, and marked ones that compress_rebalance has not
\* reached: none is behind i.
PlacesInv ==
    /\ At(Stages \ {"migrate", "compress", "squeeze"}) => \A k \in Indices : Placed(k)
    /\ At({"migrate", "compress"}) => \A k \in Indices : Placed(k) \/ particles[k].icell = 0
    /\ At({"squeeze"}) => \A k \in Indices : Placed(k) \/ (particles[k].icell = -1 /\ k >= i)

\* compress_reactions: next holds the place of a particle whose index is
\* gone, and the first index of a particle near the end of the array.
Tracked ==
    /\ upper = nlocal - (Len(list) - i + 1)
    /\ Indices \subseteq DOMAIN next
    /\ \A m \in Ahead : list[m] \in DOMAIN next /\ Location(m) \in Indices
    /\ \A m, n \in Ahead : Location(m) = Location(n) => m = n
    /\ \A m \in Ahead : /\ list[m] \in upper .. nlocal - 1 => next[list[m]] = list[m]
                        /\ list[m] >= nlocal /\ Location(m) >= upper => next[Location(m)] = list[m]
    /\ \A k \in upper .. nlocal - 1 :
          next[k] = k \/ (next[k] >= nlocal /\ next[k] \in DOMAIN next /\ next[next[k]] = k)

IdleInv == At({"start", "collide", "react", "end", "pack", "unpack", "unpacked"}) => i = 0
WeighInv == At({"weigh"}) => norig <= nlocal
ListInv ==
    /\ At({"migrate", "reacted", "compress", "delete"}) => i >= 1 /\ OfIndices(list)
    /\ At({"migrate", "reacted"}) => i = 1 /\ On(list) \subseteq Indices
    /\ At({"reacted", "delete"}) /\ ~setting.react => list = <<>>
\* What is still on the list is what has to be deleted, wherever it is now.
LeaversInv ==
    /\ At({"migrate"}) => ListedAhead = Leavers
    /\ At({"compress"}) /\ ~setting.optmove => ListedAhead = Leavers
    /\ At({"compress"}) /\ setting.optmove => LocatedAhead = Leavers
    /\ At({"migrate", "compress"}) /\ ~setting.optmove => Ascending(list)
TrackInv ==
    ((At({"compress"}) /\ setting.optmove) \/ At({"delete"})) /\ i <= Len(list) => Tracked

Gone == leaving \ unpacked
\* Cells on their way to others; one that is packed has no particles left.
LeavingInv ==
    /\ ~Rebalancing => leaving = {} /\ unpacked = {}
    /\ Rebalancing => setting.balance # "none"
    /\ Rebalancing /\ (At({"pack"}) \/ setting.balance = "less memory") => leaving \subseteq Names
    /\ At({"pack"}) /\ setting.balance = "at once" => unpacked = leaving
    /\ At({"squeeze", "unpack", "unpacked"}) /\ setting.balance = "at once"
       => Names \intersect leaving = {} /\ unpacked = {}
    /\ \A c \in Owned : cells[c] \in Gone => InCell(c) = {}

SortedInv ==
    /\ At({"migrate", "compress", "arrive", "weigh", "collide"}) => ~sorted
    /\ At({"react", "reacted", "delete", "pack"}) => sorted
    /\ Rebalancing /\ setting.balance = "less memory" => sorted
    /\ At({"unpack", "unpacked"}) /\ setting.balance = "at once" => ~sorted

InUse == sorted /\ ~GivenUp /\ ~(At({"delete"}) /\ setting.react)
Complete == ~At({"start", "reacted", "delete"})
\* The linked list of c is s: that of the cell, or without what came since.
ChainOf(c, s) == Linked(c, s) /\ On(s) \subseteq InCell(c) /\ (Complete => On(s) = InCell(c))
ChainInv == InUse => \A c \in Owned : cells[c] \notin Gone => \E s : ChainOf(c, s)

Inv == /\ Sizes /\ TypeOK /\ Distinct /\ NamesDistinct
       /\ PlacesInv /\ IdleInv /\ WeighInv /\ ListInv /\ LeaversInv /\ TrackInv
       /\ LeavingInv /\ SortedInv /\ ChainInv

-----------------------------------------------------------------------------
LEMMA InitInv == Init => Inv
<1> SUFFICES ASSUME Init PROVE Inv
  OBVIOUS
<1>1. particles = <<>> /\ next = <<>> /\ DOMAIN particles = 0 .. 0 - 1 /\ DOMAIN next = 0 .. 0 - 1
  BY DEF Init
<1>2. nlocal = 0 /\ maxsort = 0
  BY <1>1, Below DEF nlocal, maxsort
<1>3. Indices = {}
  BY <1>2 DEF Indices
<1>4. setting \in Settings /\ setting.names \subseteq CellNames
  BY SettingsAssumption DEF Init
<1>5. cells \in Seq(setting.names) /\ NamesDistinct
  <2>1. PICK n \in 1 .. 2 : cells \in Injection(1 .. n, setting.names)
    BY DEF Init
  <2>2. cells \in [1 .. n -> setting.names] /\ \A a, b \in 1 .. n : cells[a] = cells[b] => a = b
    BY <2>1 DEF Injection, IsInjective
  <2>3. cells \in Seq(setting.names) /\ Len(cells) = n
    BY <2>2
  <2> QED BY <2>2, <2>3 DEF NamesDistinct, Owned
<1>6. stage = "start" /\ sorted = FALSE /\ leaving = {} /\ unpacked = {} /\ list = <<>> /\ i = 0
      /\ half = 1 /\ upper = 0 /\ norig = 0 /\ maxlocal = 0
      /\ first = [c \in Owned |-> Garbage]
  BY DEF Init
<1>7. ParticlesType /\ ListsType
  <2>1. 0 .. 0 - 1 = {}
    OBVIOUS
  <2>2. ParticlesType
    BY <1>1, <1>2, <1>3, <1>6, <2>1 DEF ParticlesType
  <2>3. DOMAIN first = Owned /\ \A c \in Owned : first[c] \in Int
    BY <1>6 DEF Garbage
  <2>4. DOMAIN next = {} /\ DOMAIN next = 0 .. maxsort - 1
    BY <1>1, <1>2, <2>1
  <2> QED BY <1>6, <2>2, <2>3, <2>4 DEF ListsType
<1>8. LoopType
  BY <1>6 DEF LoopType, Stages
<1>9. TypeOK /\ Sizes
  BY <1>2, <1>4, <1>5, <1>6, <1>7, <1>8 DEF TypeOK, Sizes
<1>10. PlacesInv /\ IdleInv /\ WeighInv /\ ListInv /\ LeaversInv /\ TrackInv /\ SortedInv /\ Distinct
  BY <1>3, <1>6 DEF PlacesInv, IdleInv, WeighInv, ListInv, LeaversInv, TrackInv, SortedInv, Distinct,
                    At, Rebalancing
<1>11. LeavingInv /\ ChainInv
  BY <1>3, <1>6 DEF LeavingInv, ChainInv, At, Rebalancing, InUse, Gone
<1> QED BY <1>5, <1>9, <1>10, <1>11 DEF Inv

-----------------------------------------------------------------------------
(* What stays as it is when variables do.                                  *)
LEMMA SameArray ==
    ASSUME particles' = particles
    PROVE  nlocal' = nlocal /\ Indices' = Indices /\ \A c : InCell(c)' = InCell(c)
BY DEF nlocal, Indices, InCell

LEMMA SameCells ==
    ASSUME cells' = cells
    PROVE  Owned' = Owned /\ Names' = Names /\ (NamesDistinct => NamesDistinct')
BY DEF Owned, Names, NamesDistinct

LEMMA SamePlaces ==
    ASSUME particles' = particles, cells' = cells
    PROVE  /\ \A k : Placed(k)' <=> Placed(k)
           /\ (Distinct => Distinct') /\ Leavers' = Leavers
BY SameArray, SameCells DEF Placed, Distinct, Leavers

LEMMA SameLinks ==
    ASSUME first' = first, next' = next, Indices' = Indices
    PROVE  maxsort' = maxsort /\ \A c, s : Linked(c, s)' <=> Linked(c, s)
BY DEF maxsort, Linked

LEMMA ChainSame ==
    ASSUME Inv, particles' = particles, cells' = cells, first' = first, next' = next,
           InUse' => InUse, (Complete' => Complete) \/ ~InUse', Gone \subseteq Gone'
    PROVE  ChainInv'
<1> SUFFICES ASSUME InUse', NEW c \in Owned, cells[c] \notin Gone'
             PROVE  \E s : ChainOf(c, s)'
  BY SameCells DEF ChainInv
<1>1. PICK s : ChainOf(c, s)
  BY DEF ChainInv, Inv
<1>2. InCell(c)' = InCell(c) /\ Indices' = Indices
  BY SameArray
<1>3. Linked(c, s)'
  BY <1>1, <1>2, SameLinks DEF ChainOf
<1>4. ChainOf(c, s)'
  BY <1>1, <1>2, <1>3 DEF ChainOf
<1> QED BY <1>4

\* A step that touches no particle, no cell and no list of particles.
LEMMA SameTypes ==
    ASSUME Inv, UNCHANGED <<array, grid>>
    PROVE  /\ ParticlesType' /\ Distinct' /\ NamesDistinct'
           /\ cells' \in Seq(setting'.names) /\ setting' = setting /\ cells' = cells
           /\ nlocal' \in Nat /\ maxlocal' \in Nat /\ setting' \in Settings
           /\ UNCHANGED <<first, next>> /\ sorted' \in BOOLEAN => ListsType' /\ Sizes'
<1>1. particles' = particles /\ maxlocal' = maxlocal /\ setting' = setting /\ cells' = cells
  BY DEF array, grid
<1>2. nlocal' = nlocal /\ Indices' = Indices /\ Owned' = Owned
  BY <1>1, SameArray, SameCells
<1>3. Distinct' /\ NamesDistinct'
  BY <1>1, SamePlaces, SameCells DEF Inv
<1>4. ParticlesType'
  BY <1>1, <1>2 DEF Inv, TypeOK, ParticlesType
<1>5. nlocal' \in Nat /\ maxlocal' \in Nat /\ setting' \in Settings /\ cells' \in Seq(setting'.names)
  BY <1>1, <1>2 DEF Inv, Sizes, TypeOK
<1>6. ASSUME UNCHANGED <<first, next>>, sorted' \in BOOLEAN PROVE ListsType' /\ Sizes'
  <2>1. maxsort' = maxsort
    BY <1>6 DEF maxsort
  <2> QED BY <1>2, <1>5, <1>6, <2>1 DEF Inv, TypeOK, ListsType, Sizes
<1> QED BY <1>1, <1>3, <1>4, <1>5, <1>6

(* Actions that touch neither the array nor the grid nor the lists.        *)
LEMMA QuietStep ==
    ASSUME Inv, UNCHANGED <<array, grid, first, next>>, LoopType', sorted' \in BOOLEAN,
           unpacked' \subseteq leaving', leaving' \subseteq CellNames,
           IdleInv', WeighInv', ListInv', LeaversInv', TrackInv', LeavingInv', SortedInv', PlacesInv',
           InUse' => InUse, (Complete' => Complete) \/ ~InUse', Gone \subseteq Gone'
    PROVE  Inv'
<1>1. particles' = particles /\ cells' = cells /\ UNCHANGED <<array, grid>>
  BY DEF array, grid
<1>2. ChainInv'
  BY <1>1, ChainSame
<1>3. /\ ParticlesType' /\ Distinct' /\ NamesDistinct'
      /\ cells' \in Seq(setting'.names) /\ ListsType' /\ Sizes'
  BY <1>1, SameTypes
<1>4. TypeOK'
  BY <1>3 DEF TypeOK
<1> QED BY <1>2, <1>3, <1>4 DEF Inv

LEMMA Untouched ==
    ASSUME particles' = particles, cells' = cells
    PROVE  /\ nlocal' = nlocal /\ Indices' = Indices /\ Owned' = Owned /\ Names' = Names
           /\ (\A c : InCell(c)' = InCell(c)) /\ (\A k : Placed(k)' <=> Placed(k)) /\ Leavers' = Leavers
BY SameArray, SameCells, SamePlaces

LEMMA CompressedStep == Inv /\ Compressed => Inv'
<1> SUFFICES ASSUME Inv, Compressed PROVE Inv'
  OBVIOUS
<1>1. /\ UNCHANGED <<array, grid, first, next>> /\ particles' = particles /\ cells' = cells /\ setting' = setting
      /\ first' = first /\ next' = next
  BY DEF Compressed, array, grid, lists, Sort
<1>2. /\ nlocal' = nlocal /\ Indices' = Indices /\ Owned' = Owned /\ Names' = Names
      /\ (\A c : InCell(c)' = InCell(c)) /\ (\A k : Placed(k)' <=> Placed(k)) /\ Leavers' = Leavers
  BY <1>1, Untouched
<1>3. LoopType /\ sorted \in BOOLEAN /\ unpacked \subseteq leaving /\ leaving \subseteq CellNames
      /\ nlocal \in Nat
  BY DEF Inv, TypeOK, ListsType, Sizes
<1>4. sorted' \in BOOLEAN
  BY <1>3, Zenon DEF Compressed, lists, ReactedSorted
<1>5. LoopType'
  BY <1>3 DEF Compressed, LoopType, Stages, Go, loop, lists, Squeezing, Weighing, ReactedSorted
<1>6. unpacked' \subseteq leaving' /\ leaving' \subseteq CellNames
  BY <1>3 DEF Compressed, migration
<1>7. PlacesInv'
  <2>1. Leavers = {}
    <3>1. Ahead = {}
      BY <1>3 DEF Compressed, Ahead, LoopType
    <3>2. ListedAhead = {} /\ LocatedAhead = {}
      BY <3>1 DEF ListedAhead, LocatedAhead
    <3> QED BY <3>2 DEF Compressed, Go, Inv, LeaversInv, At
  <2>2. \A k \in Indices : Placed(k)
    BY <2>1 DEF Leavers, Compressed, Go, Inv, PlacesInv, At
  <2> QED BY <1>2, <2>2 DEF PlacesInv, Compressed, Go, At
<1>8. IdleInv' /\ WeighInv'
  BY <1>2, <1>3 DEF Compressed, IdleInv, WeighInv, At, Go, Inv, loop, Squeezing, Weighing, LoopType
<1>9. ListInv' /\ LeaversInv' /\ TrackInv'
  BY <1>1, <1>2, <1>3 DEF Compressed, ListInv, LeaversInv, TrackInv, At, Go, Inv, loop, Squeezing, Weighing
<1>10. LeavingInv'
  BY <1>1, <1>2, <1>3 DEF Compressed, LeavingInv, Rebalancing, Gone, At, Go, Inv, migration, Squeezing, Weighing
<1>11. SortedInv'
  BY <1>1, <1>3 DEF Compressed, SortedInv, Rebalancing, At, Go, Inv, lists, Squeezing, Weighing, ReactedSorted
<1>12. InUse' => InUse
  BY <1>1, <1>3 DEF Compressed, InUse, GivenUp, At, Go, Inv, lists, SortedInv, Squeezing, Weighing, ReactedSorted
<1>13. (Complete' => Complete) \/ ~InUse'
  BY <1>1, <1>3 DEF Compressed, Complete, InUse, SortedInv, At, Go, Inv, lists, Squeezing, Weighing
<1>14. Gone \subseteq Gone'
  BY DEF Compressed, Gone, migration
<1> QED BY <1>4, <1>1, <1>5, <1>6, <1>7, <1>8, <1>9, <1>10, <1>11, <1>12, <1>13, <1>14, QuietStep

LEMMA KeepOneStep == Inv /\ KeepOne => Inv'
<1> SUFFICES ASSUME Inv, KeepOne PROVE Inv'
  OBVIOUS
<1>1. /\ UNCHANGED <<array, grid, first, next>> /\ particles' = particles /\ cells' = cells /\ setting' = setting
      /\ first' = first /\ next' = next
  BY DEF KeepOne, array, grid, lists, Sort
<1>2. /\ nlocal' = nlocal /\ Indices' = Indices /\ Owned' = Owned /\ Names' = Names
      /\ (\A c : InCell(c)' = InCell(c)) /\ (\A k : Placed(k)' <=> Placed(k)) /\ Leavers' = Leavers
  BY <1>1, Untouched
<1>3. LoopType /\ sorted \in BOOLEAN /\ unpacked \subseteq leaving /\ leaving \subseteq CellNames
      /\ nlocal \in Nat
  BY DEF Inv, TypeOK, ListsType, Sizes
<1>4. sorted' \in BOOLEAN
  BY <1>3, Zenon DEF KeepOne, lists, ReactedSorted
<1>5. LoopType'
  BY <1>3 DEF KeepOne, LoopType, Stages, Go, loop, lists, Squeezing, Weighing, ReactedSorted
<1>6. unpacked' \subseteq leaving' /\ leaving' \subseteq CellNames
  BY <1>3 DEF KeepOne, migration
<1>7. PlacesInv'
  BY <1>2, <1>3 DEF KeepOne, PlacesInv, At, Stages, Go, Inv, loop, Squeezing, Weighing, LoopType, Placed, Indices
<1>8. IdleInv' /\ WeighInv'
  BY <1>2, <1>3 DEF KeepOne, IdleInv, WeighInv, At, Go, Inv, loop, Squeezing, Weighing, LoopType
<1>9. ListInv' /\ LeaversInv' /\ TrackInv'
  BY <1>1, <1>2, <1>3 DEF KeepOne, ListInv, LeaversInv, TrackInv, At, Go, Inv, loop, Squeezing, Weighing
<1>10. LeavingInv'
  BY <1>1, <1>2, <1>3 DEF KeepOne, LeavingInv, Rebalancing, Gone, At, Go, Inv, migration, Squeezing, Weighing
<1>11. SortedInv'
  BY <1>1, <1>3 DEF KeepOne, SortedInv, Rebalancing, At, Go, Inv, lists, Squeezing, Weighing, ReactedSorted
<1>12. InUse' => InUse
  BY <1>1, <1>3 DEF KeepOne, InUse, GivenUp, At, Go, Inv, lists, SortedInv, Squeezing, Weighing, ReactedSorted
<1>13. (Complete' => Complete) \/ ~InUse'
  BY <1>1, <1>3 DEF KeepOne, Complete, InUse, SortedInv, At, Go, Inv, lists, Squeezing, Weighing
<1>14. Gone \subseteq Gone'
  BY DEF KeepOne, Gone, migration
<1> QED BY <1>4, <1>1, <1>5, <1>6, <1>7, <1>8, <1>9, <1>10, <1>11, <1>12, <1>13, <1>14, QuietStep

LEMMA WeighedStep == Inv /\ Weighed => Inv'
<1> SUFFICES ASSUME Inv, Weighed PROVE Inv'
  OBVIOUS
<1>1. /\ UNCHANGED <<array, grid, first, next>> /\ particles' = particles /\ cells' = cells /\ setting' = setting
      /\ first' = first /\ next' = next
  BY DEF Weighed, array, grid, lists, Sort
<1>2. /\ nlocal' = nlocal /\ Indices' = Indices /\ Owned' = Owned /\ Names' = Names
      /\ (\A c : InCell(c)' = InCell(c)) /\ (\A k : Placed(k)' <=> Placed(k)) /\ Leavers' = Leavers
  BY <1>1, Untouched
<1>3. LoopType /\ sorted \in BOOLEAN /\ unpacked \subseteq leaving /\ leaving \subseteq CellNames
      /\ nlocal \in Nat
  BY DEF Inv, TypeOK, ListsType, Sizes
<1>4. sorted' \in BOOLEAN
  BY <1>3, Zenon DEF Weighed, lists, ReactedSorted
<1>5. LoopType'
  BY <1>3 DEF Weighed, LoopType, Stages, Go, loop, lists, Squeezing, Weighing, ReactedSorted
<1>6. unpacked' \subseteq leaving' /\ leaving' \subseteq CellNames
  BY <1>3 DEF Weighed, migration
<1>7. PlacesInv'
  BY <1>2, <1>3 DEF Weighed, PlacesInv, At, Stages, Go, Inv, loop, Squeezing, Weighing, LoopType, Placed, Indices
<1>8. IdleInv' /\ WeighInv'
  BY <1>2, <1>3 DEF Weighed, IdleInv, WeighInv, At, Go, Inv, loop, Squeezing, Weighing, LoopType
<1>9. ListInv' /\ LeaversInv' /\ TrackInv'
  BY <1>1, <1>2, <1>3 DEF Weighed, ListInv, LeaversInv, TrackInv, At, Go, Inv, loop, Squeezing, Weighing
<1>10. LeavingInv'
  BY <1>1, <1>2, <1>3 DEF Weighed, LeavingInv, Rebalancing, Gone, At, Go, Inv, migration, Squeezing, Weighing
<1>11. SortedInv'
  BY <1>1, <1>3 DEF Weighed, SortedInv, Rebalancing, At, Go, Inv, lists, Squeezing, Weighing, ReactedSorted
<1>12. InUse' => InUse
  BY <1>1, <1>3 DEF Weighed, InUse, GivenUp, At, Go, Inv, lists, SortedInv, Squeezing, Weighing, ReactedSorted
<1>13. (Complete' => Complete) \/ ~InUse'
  BY <1>1, <1>3 DEF Weighed, Complete, InUse, SortedInv, At, Go, Inv, lists, Squeezing, Weighing
<1>14. Gone \subseteq Gone'
  BY DEF Weighed, Gone, migration
<1> QED BY <1>4, <1>1, <1>5, <1>6, <1>7, <1>8, <1>9, <1>10, <1>11, <1>12, <1>13, <1>14, QuietStep

LEMMA EndStepStep == Inv /\ EndStep => Inv'
<1> SUFFICES ASSUME Inv, EndStep PROVE Inv'
  OBVIOUS
<1>1. /\ UNCHANGED <<array, grid, first, next>> /\ particles' = particles /\ cells' = cells /\ setting' = setting
      /\ first' = first /\ next' = next
  BY DEF EndStep, array, grid, lists, Sort
<1>2. /\ nlocal' = nlocal /\ Indices' = Indices /\ Owned' = Owned /\ Names' = Names
      /\ (\A c : InCell(c)' = InCell(c)) /\ (\A k : Placed(k)' <=> Placed(k)) /\ Leavers' = Leavers
  BY <1>1, Untouched
<1>3. LoopType /\ sorted \in BOOLEAN /\ unpacked \subseteq leaving /\ leaving \subseteq CellNames
      /\ nlocal \in Nat
  BY DEF Inv, TypeOK, ListsType, Sizes
<1>4. sorted' \in BOOLEAN
  BY <1>3, Zenon DEF EndStep, lists, ReactedSorted
<1>5. LoopType'
  BY <1>3 DEF EndStep, LoopType, Stages, Go, loop, lists, Squeezing, Weighing, ReactedSorted
<1>6. unpacked' \subseteq leaving' /\ leaving' \subseteq CellNames
  BY <1>3 DEF EndStep, migration
<1>7. PlacesInv'
  BY <1>2, <1>3 DEF EndStep, PlacesInv, At, Stages, Go, Inv, loop, Squeezing, Weighing, LoopType, Placed, Indices
<1>8. IdleInv' /\ WeighInv'
  BY <1>2, <1>3 DEF EndStep, IdleInv, WeighInv, At, Go, Inv, loop, Squeezing, Weighing, LoopType
<1>9. ListInv' /\ LeaversInv' /\ TrackInv'
  BY <1>1, <1>2, <1>3 DEF EndStep, ListInv, LeaversInv, TrackInv, At, Go, Inv, loop, Squeezing, Weighing
<1>10. LeavingInv'
  BY <1>1, <1>2, <1>3 DEF EndStep, LeavingInv, Rebalancing, Gone, At, Go, Inv, migration, Squeezing, Weighing
<1>11. SortedInv'
  BY <1>1, <1>3 DEF EndStep, SortedInv, Rebalancing, At, Go, Inv, lists, Squeezing, Weighing, ReactedSorted
<1>12. InUse' => InUse
  BY <1>1, <1>3 DEF EndStep, InUse, GivenUp, At, Go, Inv, lists, SortedInv, Squeezing, Weighing, ReactedSorted
<1>13. (Complete' => Complete) \/ ~InUse'
  BY <1>1, <1>3 DEF EndStep, Complete, InUse, SortedInv, At, Go, Inv, lists, Squeezing, Weighing
<1>14. Gone \subseteq Gone'
  BY DEF EndStep, Gone, migration
<1> QED BY <1>4, <1>1, <1>5, <1>6, <1>7, <1>8, <1>9, <1>10, <1>11, <1>12, <1>13, <1>14, QuietStep

LEMMA KeepCellsStep == Inv /\ KeepCells => Inv'
<1> SUFFICES ASSUME Inv, KeepCells PROVE Inv'
  OBVIOUS
<1>1. /\ UNCHANGED <<array, grid, first, next>> /\ particles' = particles /\ cells' = cells /\ setting' = setting
      /\ first' = first /\ next' = next
  BY DEF KeepCells, array, grid, lists, Sort
<1>2. /\ nlocal' = nlocal /\ Indices' = Indices /\ Owned' = Owned /\ Names' = Names
      /\ (\A c : InCell(c)' = InCell(c)) /\ (\A k : Placed(k)' <=> Placed(k)) /\ Leavers' = Leavers
  BY <1>1, Untouched
<1>3. LoopType /\ sorted \in BOOLEAN /\ unpacked \subseteq leaving /\ leaving \subseteq CellNames
      /\ nlocal \in Nat
  BY DEF Inv, TypeOK, ListsType, Sizes
<1>4. sorted' \in BOOLEAN
  BY <1>3, Zenon DEF KeepCells, lists, ReactedSorted
<1>5. LoopType'
  BY <1>3 DEF KeepCells, LoopType, Stages, Go, loop, lists, Squeezing, Weighing, ReactedSorted
<1>6. unpacked' \subseteq leaving' /\ leaving' \subseteq CellNames
  BY <1>3 DEF KeepCells, migration
<1>7. PlacesInv'
  BY <1>2, <1>3 DEF KeepCells, PlacesInv, At, Stages, Go, Inv, loop, Squeezing, Weighing, LoopType, Placed, Indices
<1>8. IdleInv' /\ WeighInv'
  BY <1>2, <1>3 DEF KeepCells, IdleInv, WeighInv, At, Go, Inv, loop, Squeezing, Weighing, LoopType
<1>9. ListInv' /\ LeaversInv' /\ TrackInv'
  BY <1>1, <1>2, <1>3 DEF KeepCells, ListInv, LeaversInv, TrackInv, At, Go, Inv, loop, Squeezing, Weighing
<1>10. LeavingInv'
  BY <1>1, <1>2, <1>3 DEF KeepCells, LeavingInv, Rebalancing, Gone, At, Go, Inv, migration, Squeezing, Weighing
<1>11. SortedInv'
  BY <1>1, <1>3 DEF KeepCells, SortedInv, Rebalancing, At, Go, Inv, lists, Squeezing, Weighing, ReactedSorted
<1>12. InUse' => InUse
  BY <1>1, <1>3 DEF KeepCells, InUse, GivenUp, At, Go, Inv, lists, SortedInv, Squeezing, Weighing, ReactedSorted
<1>13. (Complete' => Complete) \/ ~InUse'
  BY <1>1, <1>3 DEF KeepCells, Complete, InUse, SortedInv, At, Go, Inv, lists, Squeezing, Weighing
<1>14. Gone \subseteq Gone'
  BY DEF KeepCells, Gone, migration
<1> QED BY <1>4, <1>1, <1>5, <1>6, <1>7, <1>8, <1>9, <1>10, <1>11, <1>12, <1>13, <1>14, QuietStep

LEMMA SkipOneStep == Inv /\ SkipOne => Inv'
<1> SUFFICES ASSUME Inv, SkipOne PROVE Inv'
  OBVIOUS
<1>1. /\ UNCHANGED <<array, grid, first, next>> /\ particles' = particles /\ cells' = cells /\ setting' = setting
      /\ first' = first /\ next' = next
  BY DEF SkipOne, array, grid, lists, Sort
<1>2. /\ nlocal' = nlocal /\ Indices' = Indices /\ Owned' = Owned /\ Names' = Names
      /\ (\A c : InCell(c)' = InCell(c)) /\ (\A k : Placed(k)' <=> Placed(k)) /\ Leavers' = Leavers
  BY <1>1, Untouched
<1>3. LoopType /\ sorted \in BOOLEAN /\ unpacked \subseteq leaving /\ leaving \subseteq CellNames
      /\ nlocal \in Nat
  BY DEF Inv, TypeOK, ListsType, Sizes
<1>4. sorted' \in BOOLEAN
  BY <1>3, Zenon DEF SkipOne, lists, ReactedSorted
<1>5. LoopType'
  BY <1>3 DEF SkipOne, LoopType, Stages, Go, loop, lists, Squeezing, Weighing, ReactedSorted
<1>6. unpacked' \subseteq leaving' /\ leaving' \subseteq CellNames
  BY <1>3 DEF SkipOne, migration
<1>7. PlacesInv'
  <2>1. \A k \in Indices : Placed(k) \/ (particles[k].icell = -1 /\ k >= i)
    BY DEF SkipOne, Squeezing, Inv, PlacesInv, At
  <2>2. \A k \in Indices : k >= i => k = i \/ k >= i + 1
    BY <1>3 DEF LoopType, Indices
  <2>3. \A k \in Indices : Placed(k) \/ (particles[k].icell = -1 /\ k >= i + 1)
    BY <2>1, <2>2 DEF SkipOne
  <2>4. stage' = "squeeze" /\ i' = i + 1
    BY DEF SkipOne, Squeezing
  <2> QED BY <1>1, <1>2, <2>3, <2>4 DEF PlacesInv, At
<1>8. IdleInv' /\ WeighInv'
  BY <1>2, <1>3 DEF SkipOne, IdleInv, WeighInv, At, Go, Inv, loop, Squeezing, Weighing, LoopType
<1>9. ListInv' /\ LeaversInv' /\ TrackInv'
  BY <1>1, <1>2, <1>3 DEF SkipOne, ListInv, LeaversInv, TrackInv, At, Go, Inv, loop, Squeezing, Weighing
<1>10. LeavingInv'
  BY <1>1, <1>2, <1>3 DEF SkipOne, LeavingInv, Rebalancing, Gone, At, Go, Inv, migration, Squeezing, Weighing
<1>11. SortedInv'
  BY <1>1, <1>3 DEF SkipOne, SortedInv, Rebalancing, At, Go, Inv, lists, Squeezing, Weighing, ReactedSorted
<1>12. InUse' => InUse
  BY <1>1, <1>3 DEF SkipOne, InUse, GivenUp, At, Go, Inv, lists, SortedInv, Squeezing, Weighing, ReactedSorted
<1>13. (Complete' => Complete) \/ ~InUse'
  BY <1>1, <1>3 DEF SkipOne, Complete, InUse, SortedInv, At, Go, Inv, lists, Squeezing, Weighing
<1>14. Gone \subseteq Gone'
  BY DEF SkipOne, Gone, migration
<1> QED BY <1>4, <1>1, <1>5, <1>6, <1>7, <1>8, <1>9, <1>10, <1>11, <1>12, <1>13, <1>14, QuietStep

LEMMA SqueezedStep == Inv /\ Squeezed => Inv'
<1> SUFFICES ASSUME Inv, Squeezed PROVE Inv'
  OBVIOUS
<1>1. /\ UNCHANGED <<array, grid, first, next>> /\ particles' = particles /\ cells' = cells /\ setting' = setting
      /\ first' = first /\ next' = next
  BY DEF Squeezed, array, grid, lists, Sort
<1>2. /\ nlocal' = nlocal /\ Indices' = Indices /\ Owned' = Owned /\ Names' = Names
      /\ (\A c : InCell(c)' = InCell(c)) /\ (\A k : Placed(k)' <=> Placed(k)) /\ Leavers' = Leavers
  BY <1>1, Untouched
<1>3. LoopType /\ sorted \in BOOLEAN /\ unpacked \subseteq leaving /\ leaving \subseteq CellNames
      /\ nlocal \in Nat
  BY DEF Inv, TypeOK, ListsType, Sizes
<1>4. sorted' \in BOOLEAN
  BY <1>3, Zenon DEF Squeezed, lists, ReactedSorted
<1>5. LoopType'
  <2>1. stage' = "unpack" /\ i' = 0 /\ UNCHANGED <<half, list, upper, norig>>
    BY DEF Squeezed, Go
  <2> QED BY <1>3, <2>1 DEF LoopType, Stages
<1>6. unpacked' \subseteq leaving' /\ leaving' \subseteq CellNames
  BY <1>3 DEF Squeezed, migration
<1>7. PlacesInv'
  <2>1. \A k \in Indices : Placed(k) \/ (particles[k].icell = -1 /\ k >= i)
    BY DEF Squeezed, Go, Inv, PlacesInv, At
  <2>2. \A k \in Indices : ~(k >= i)
    <3>1. i >= nlocal /\ i \in Nat
      BY <1>3 DEF Squeezed, LoopType
    <3> QED BY <1>3, <3>1 DEF Indices
  <2>3. \A k \in Indices : Placed(k)
    BY <2>1, <2>2
  <2> QED BY <1>2, <2>3 DEF PlacesInv, Squeezed, Go, At
<1>8. IdleInv' /\ WeighInv'
  BY <1>2, <1>3 DEF Squeezed, IdleInv, WeighInv, At, Go, Inv, loop, Squeezing, Weighing, LoopType
<1>9. ListInv' /\ LeaversInv' /\ TrackInv'
  BY <1>1, <1>2, <1>3 DEF Squeezed, ListInv, LeaversInv, TrackInv, At, Go, Inv, loop, Squeezing, Weighing
<1>10. LeavingInv'
  BY <1>1, <1>2, <1>3 DEF Squeezed, LeavingInv, Rebalancing, Gone, At, Go, Inv, migration, Squeezing, Weighing
<1>11. SortedInv'
  BY <1>1, <1>3 DEF Squeezed, SortedInv, Rebalancing, At, Go, Inv, lists, Squeezing, Weighing, ReactedSorted
<1>12. InUse' => InUse
  BY <1>1, <1>3 DEF Squeezed, InUse, GivenUp, At, Go, Inv, lists, SortedInv, Squeezing, Weighing, ReactedSorted
<1>13. (Complete' => Complete) \/ ~InUse'
  BY <1>1, <1>3 DEF Squeezed, Complete, InUse, SortedInv, At, Go, Inv, lists, Squeezing, Weighing
<1>14. Gone \subseteq Gone'
  BY DEF Squeezed, Gone, migration
<1> QED BY <1>4, <1>1, <1>5, <1>6, <1>7, <1>8, <1>9, <1>10, <1>11, <1>12, <1>13, <1>14, QuietStep

LEMMA UnpackNothingStep == Inv /\ UnpackNothing => Inv'
<1> SUFFICES ASSUME Inv, UnpackNothing PROVE Inv'
  OBVIOUS
<1>1. /\ UNCHANGED <<array, grid, first, next>> /\ particles' = particles /\ cells' = cells /\ setting' = setting
      /\ first' = first /\ next' = next
  BY DEF UnpackNothing, array, grid, lists, Sort
<1>2. /\ nlocal' = nlocal /\ Indices' = Indices /\ Owned' = Owned /\ Names' = Names
      /\ (\A c : InCell(c)' = InCell(c)) /\ (\A k : Placed(k)' <=> Placed(k)) /\ Leavers' = Leavers
  BY <1>1, Untouched
<1>3. LoopType /\ sorted \in BOOLEAN /\ unpacked \subseteq leaving /\ leaving \subseteq CellNames
      /\ nlocal \in Nat
  BY DEF Inv, TypeOK, ListsType, Sizes
<1>4. sorted' \in BOOLEAN
  BY <1>3, Zenon DEF UnpackNothing, lists, ReactedSorted
<1>5. LoopType'
  BY <1>3 DEF UnpackNothing, LoopType, Stages, Go, loop, lists, Squeezing, Weighing, ReactedSorted
<1>6. unpacked' \subseteq leaving' /\ leaving' \subseteq CellNames
  BY <1>3 DEF UnpackNothing, migration
<1>7. PlacesInv'
  BY <1>2, <1>3 DEF UnpackNothing, PlacesInv, At, Stages, Go, Inv, loop, Squeezing, Weighing, LoopType, Placed, Indices
<1>8. IdleInv' /\ WeighInv'
  BY <1>2, <1>3 DEF UnpackNothing, IdleInv, WeighInv, At, Go, Inv, loop, Squeezing, Weighing, LoopType
<1>9. ListInv' /\ LeaversInv' /\ TrackInv'
  BY <1>1, <1>2, <1>3 DEF UnpackNothing, ListInv, LeaversInv, TrackInv, At, Go, Inv, loop, Squeezing, Weighing
<1>10. LeavingInv'
  BY <1>1, <1>2, <1>3 DEF UnpackNothing, LeavingInv, Rebalancing, Gone, At, Go, Inv, migration, Squeezing, Weighing
<1>11. SortedInv'
  BY <1>1, <1>3 DEF UnpackNothing, SortedInv, Rebalancing, At, Go, Inv, lists, Squeezing, Weighing, ReactedSorted
<1>12. InUse' => InUse
  BY <1>1, <1>3 DEF UnpackNothing, InUse, GivenUp, At, Go, Inv, lists, SortedInv, Squeezing, Weighing, ReactedSorted
<1>13. (Complete' => Complete) \/ ~InUse'
  BY <1>1, <1>3 DEF UnpackNothing, Complete, InUse, SortedInv, At, Go, Inv, lists, Squeezing, Weighing
<1>14. Gone \subseteq Gone'
  BY DEF UnpackNothing, Gone, migration
<1> QED BY <1>4, <1>1, <1>5, <1>6, <1>7, <1>8, <1>9, <1>10, <1>11, <1>12, <1>13, <1>14, QuietStep

LEMMA NextBatchStep == Inv /\ NextBatch => Inv'
<1> SUFFICES ASSUME Inv, NextBatch PROVE Inv'
  OBVIOUS
<1>1. /\ UNCHANGED <<array, grid, first, next>> /\ particles' = particles /\ cells' = cells /\ setting' = setting
      /\ first' = first /\ next' = next
  BY DEF NextBatch, array, grid, lists, Sort
<1>2. /\ nlocal' = nlocal /\ Indices' = Indices /\ Owned' = Owned /\ Names' = Names
      /\ (\A c : InCell(c)' = InCell(c)) /\ (\A k : Placed(k)' <=> Placed(k)) /\ Leavers' = Leavers
  BY <1>1, Untouched
<1>3. LoopType /\ sorted \in BOOLEAN /\ unpacked \subseteq leaving /\ leaving \subseteq CellNames
      /\ nlocal \in Nat
  BY DEF Inv, TypeOK, ListsType, Sizes
<1>4. sorted' \in BOOLEAN
  BY <1>3, Zenon DEF NextBatch, lists, ReactedSorted
<1>5. LoopType'
  BY <1>3 DEF NextBatch, LoopType, Stages, Go, loop, lists, Squeezing, Weighing, ReactedSorted
<1>6. unpacked' \subseteq leaving' /\ leaving' \subseteq CellNames
  BY <1>3 DEF NextBatch, migration
<1>7. PlacesInv'
  BY <1>2, <1>3 DEF NextBatch, PlacesInv, At, Stages, Go, Inv, loop, Squeezing, Weighing, LoopType, Placed, Indices
<1>8. IdleInv' /\ WeighInv'
  BY <1>2, <1>3 DEF NextBatch, IdleInv, WeighInv, At, Go, Inv, loop, Squeezing, Weighing, LoopType
<1>9. ListInv' /\ LeaversInv' /\ TrackInv'
  BY <1>1, <1>2, <1>3 DEF NextBatch, ListInv, LeaversInv, TrackInv, At, Go, Inv, loop, Squeezing, Weighing
<1>10. LeavingInv'
  BY <1>1, <1>2, <1>3 DEF NextBatch, LeavingInv, Rebalancing, Gone, At, Go, Inv, migration, Squeezing, Weighing
<1>11. SortedInv'
  BY <1>1, <1>3 DEF NextBatch, SortedInv, Rebalancing, At, Go, Inv, lists, Squeezing, Weighing, ReactedSorted
<1>12. InUse' => InUse
  BY <1>1, <1>3 DEF NextBatch, InUse, GivenUp, At, Go, Inv, lists, SortedInv, Squeezing, Weighing, ReactedSorted
<1>13. (Complete' => Complete) \/ ~InUse'
  BY <1>1, <1>3 DEF NextBatch, Complete, InUse, SortedInv, At, Go, Inv, lists, Squeezing, Weighing
<1>14. Gone \subseteq Gone'
  BY DEF NextBatch, Gone, migration
<1> QED BY <1>4, <1>1, <1>5, <1>6, <1>7, <1>8, <1>9, <1>10, <1>11, <1>12, <1>13, <1>14, QuietStep

LEMMA CollidedStep == Inv /\ Collided => Inv'
<1> SUFFICES ASSUME Inv, Collided PROVE Inv'
  OBVIOUS
<1>1. /\ UNCHANGED <<array, grid, first, next>> /\ particles' = particles /\ cells' = cells /\ setting' = setting
      /\ first' = first /\ next' = next
  BY DEF Collided, array, grid, lists, Sort
<1>2. /\ nlocal' = nlocal /\ Indices' = Indices /\ Owned' = Owned /\ Names' = Names
      /\ (\A c : InCell(c)' = InCell(c)) /\ (\A k : Placed(k)' <=> Placed(k)) /\ Leavers' = Leavers
  BY <1>1, Untouched
<1>3. LoopType /\ sorted \in BOOLEAN /\ unpacked \subseteq leaving /\ leaving \subseteq CellNames
      /\ nlocal \in Nat
  BY DEF Inv, TypeOK, ListsType, Sizes
<1>4. sorted' \in BOOLEAN
  BY <1>3, Zenon DEF Collided, lists, ReactedSorted
<1>5. LoopType'
  BY <1>3 DEF Collided, LoopType, Stages, Go, loop, lists, Squeezing, Weighing, ReactedSorted
<1>6. unpacked' \subseteq leaving' /\ leaving' \subseteq CellNames
  BY <1>3 DEF Collided, migration
<1>7. PlacesInv'
  BY <1>2, <1>3 DEF Collided, PlacesInv, At, Stages, Go, Inv, loop, Squeezing, Weighing, LoopType, Placed, Indices
<1>8. IdleInv' /\ WeighInv'
  BY <1>2, <1>3 DEF Collided, IdleInv, WeighInv, At, Go, Inv, loop, Squeezing, Weighing, LoopType
<1>9. ListInv' /\ LeaversInv' /\ TrackInv'
  BY <1>1, <1>2, <1>3 DEF Collided, ListInv, LeaversInv, TrackInv, At, Go, Inv, loop, Squeezing, Weighing
<1>10. LeavingInv'
  BY <1>1, <1>2, <1>3 DEF Collided, LeavingInv, Rebalancing, Gone, At, Go, Inv, migration, Squeezing, Weighing
<1>11. SortedInv'
  BY <1>1, <1>3 DEF Collided, SortedInv, Rebalancing, At, Go, Inv, lists, Squeezing, Weighing, ReactedSorted
<1>12. InUse' => InUse
  BY <1>1, <1>3 DEF Collided, InUse, GivenUp, At, Go, Inv, lists, SortedInv, Squeezing, Weighing, ReactedSorted
<1>13. (Complete' => Complete) \/ ~InUse'
  BY <1>1, <1>3 DEF Collided, Complete, InUse, SortedInv, At, Go, Inv, lists, Squeezing, Weighing
<1>14. Gone \subseteq Gone'
  BY DEF Collided, Gone, migration
<1> QED BY <1>4, <1>1, <1>5, <1>6, <1>7, <1>8, <1>9, <1>10, <1>11, <1>12, <1>13, <1>14, QuietStep

(* Actions that make the linked lists anew, or find them up to date.       *)
LEMMA SortedAnew ==
    ASSUME Inv, UNCHANGED <<array, grid>>, Sort \/ (sorted /\ UNCHANGED lists),
           sorted => InUse, (Complete' => Complete), Gone \subseteq Gone'
    PROVE  ListsType' /\ Sizes' /\ ChainInv' /\ sorted'
<1>1. particles' = particles /\ cells' = cells
  BY DEF array, grid
<1>2. Owned' = Owned /\ \A c : InCell(c)' = InCell(c)
  BY <1>1, SameArray, SameCells
<1>3. CASE Sort
  <2>1. Sizes /\ ParticlesType /\ ListsType
    BY DEF Inv, TypeOK
  <2>2. ListsType' /\ Sizes' /\ \A c \in Owned : \E s : Linked(c, s)' /\ On(s) = InCell(c)
    BY <1>3, <2>1, SortLinks
  <2>3. ChainInv'
    <3> SUFFICES ASSUME NEW c \in Owned PROVE \E s : ChainOf(c, s)'
      BY <1>2 DEF ChainInv
    <3>1. PICK s : Linked(c, s)' /\ On(s) = InCell(c)
      BY <2>2
    <3>2. ChainOf(c, s)'
      BY <1>2, <3>1 DEF ChainOf
    <3> QED BY <3>2
  <2>4. sorted'
    BY <1>3 DEF Sort
  <2> QED BY <2>2, <2>3, <2>4
<1>4. CASE sorted /\ UNCHANGED lists
  <2>1. first' = first /\ next' = next /\ sorted' = sorted
    BY <1>4 DEF lists
  <2>2. ChainInv'
    BY <1>1, <1>4, <2>1, ChainSame
  <2>3. sorted \in BOOLEAN
    BY DEF Inv, TypeOK, ListsType
  <2>4. ListsType' /\ Sizes'
    BY <2>1, <2>3, SameTypes
  <2> QED BY <1>4, <2>1, <2>2, <2>4
<1> QED BY <1>3, <1>4

LEMMA SortParticlesStep == Inv /\ SortParticles => Inv'
<1> SUFFICES ASSUME Inv, SortParticles PROVE Inv'
  OBVIOUS
<1>1. /\ UNCHANGED <<array, grid>> /\ particles' = particles /\ cells' = cells /\ setting' = setting
  BY DEF SortParticles, array, grid
<1>2. /\ nlocal' = nlocal /\ Indices' = Indices /\ Owned' = Owned /\ Names' = Names
      /\ (\A c : InCell(c)' = InCell(c)) /\ (\A k : Placed(k)' <=> Placed(k)) /\ Leavers' = Leavers
  BY <1>1, Untouched
<1>3. LoopType /\ sorted \in BOOLEAN /\ unpacked \subseteq leaving /\ leaving \subseteq CellNames
      /\ nlocal \in Nat
  BY DEF Inv, TypeOK, ListsType, Sizes
<1>4. LoopType'
  BY <1>3 DEF SortParticles, LoopType, Stages, Go, loop
<1>5. unpacked' \subseteq leaving' /\ leaving' \subseteq CellNames
  <2>1. Names \subseteq CellNames
    <3>1. cells \in Seq(setting.names) /\ setting.names \subseteq CellNames
      BY SettingsAssumption DEF Inv, TypeOK, Sizes
    <3> QED BY <3>1 DEF Names, Owned
  <2> QED BY <1>3, <2>1 DEF SortParticles, migration
<1>6. PlacesInv'
  BY <1>2, <1>3 DEF SortParticles, PlacesInv, At, Stages, Go, Inv
<1>7. IdleInv' /\ WeighInv'
  BY <1>2, <1>3 DEF SortParticles, IdleInv, WeighInv, At, Go, Inv, loop
<1>8. ListInv' /\ LeaversInv' /\ TrackInv'
  BY <1>1, <1>2, <1>3 DEF SortParticles, ListInv, LeaversInv, TrackInv, At, Go, Inv, loop
<1>9. LeavingInv'
  BY <1>1, <1>2, <1>3 DEF SortParticles, LeavingInv, Rebalancing, Gone, At, Go, Inv, migration
<1>10. Sort \/ (sorted /\ UNCHANGED lists)
  BY DEF SortParticles, SortIfNeeded
<1>11. sorted => InUse
  BY <1>1, <1>3 DEF SortParticles, InUse, GivenUp, At, Go, Inv, SortedInv
<1>12. Complete' => Complete
  BY DEF SortParticles, Complete, At, Go
<1>13. Gone \subseteq Gone'
  BY <1>3 DEF SortParticles, Gone, migration, Go, Inv, LeavingInv, Rebalancing, At
<1>14. ListsType' /\ Sizes' /\ ChainInv' /\ sorted'
  BY <1>1, <1>10, <1>11, <1>12, <1>13, SortedAnew
<1>15. SortedInv'
  BY <1>1, <1>14 DEF SortParticles, SortedInv, Rebalancing, At, Go
<1>16. ParticlesType' /\ Distinct' /\ NamesDistinct' /\ cells' \in Seq(setting'.names)
  BY <1>1, SameTypes
<1>17. TypeOK'
  BY <1>4, <1>5, <1>14, <1>16 DEF TypeOK
<1> QED BY <1>6, <1>7, <1>8, <1>9, <1>14, <1>15, <1>16, <1>17 DEF Inv

LEMMA RescaleStep == Inv /\ Rescale => Inv'
<1> SUFFICES ASSUME Inv, Rescale PROVE Inv'
  OBVIOUS
<1>1. /\ UNCHANGED <<array, grid>> /\ particles' = particles /\ cells' = cells /\ setting' = setting
  BY DEF Rescale, array, grid
<1>2. /\ nlocal' = nlocal /\ Indices' = Indices /\ Owned' = Owned /\ Names' = Names
      /\ (\A c : InCell(c)' = InCell(c)) /\ (\A k : Placed(k)' <=> Placed(k)) /\ Leavers' = Leavers
  BY <1>1, Untouched
<1>3. LoopType /\ sorted \in BOOLEAN /\ unpacked \subseteq leaving /\ leaving \subseteq CellNames
      /\ nlocal \in Nat
  BY DEF Inv, TypeOK, ListsType, Sizes
<1>4. LoopType'
  BY <1>3 DEF Rescale, LoopType, Stages, Go, loop
<1>5. unpacked' \subseteq leaving' /\ leaving' \subseteq CellNames
  <2>1. Names \subseteq CellNames
    <3>1. cells \in Seq(setting.names) /\ setting.names \subseteq CellNames
      BY SettingsAssumption DEF Inv, TypeOK, Sizes
    <3> QED BY <3>1 DEF Names, Owned
  <2> QED BY <1>3, <2>1 DEF Rescale, migration
<1>6. PlacesInv'
  BY <1>2, <1>3 DEF Rescale, PlacesInv, At, Stages, Go, Inv
<1>7. IdleInv' /\ WeighInv'
  BY <1>2, <1>3 DEF Rescale, IdleInv, WeighInv, At, Go, Inv, loop
<1>8. ListInv' /\ LeaversInv' /\ TrackInv'
  BY <1>1, <1>2, <1>3 DEF Rescale, ListInv, LeaversInv, TrackInv, At, Go, Inv, loop
<1>9. LeavingInv'
  BY <1>1, <1>2, <1>3 DEF Rescale, LeavingInv, Rebalancing, Gone, At, Go, Inv, migration
<1>10. Sort \/ (sorted /\ UNCHANGED lists)
  BY DEF Rescale, SortIfNeeded
<1>11. sorted => InUse
  BY <1>1, <1>3 DEF Rescale, InUse, GivenUp, At, Go, Inv, SortedInv
<1>12. Complete' => Complete
  BY DEF Rescale, Complete, At, Go
<1>13. Gone \subseteq Gone'
  BY <1>3 DEF Rescale, Gone, migration, Go, Inv, LeavingInv, Rebalancing, At
<1>14. ListsType' /\ Sizes' /\ ChainInv' /\ sorted'
  BY <1>1, <1>10, <1>11, <1>12, <1>13, SortedAnew
<1>15. SortedInv'
  BY <1>1, <1>14 DEF Rescale, SortedInv, Rebalancing, At, Go
<1>16. ParticlesType' /\ Distinct' /\ NamesDistinct' /\ cells' \in Seq(setting'.names)
  BY <1>1, SameTypes
<1>17. TypeOK'
  BY <1>4, <1>5, <1>14, <1>16 DEF TypeOK
<1> QED BY <1>6, <1>7, <1>8, <1>9, <1>14, <1>15, <1>16, <1>17 DEF Inv

LEMMA RebalanceStep == Inv /\ Rebalance => Inv'
<1> SUFFICES ASSUME Inv, Rebalance PROVE Inv'
  OBVIOUS
<1>1. /\ UNCHANGED <<array, grid>> /\ particles' = particles /\ cells' = cells /\ setting' = setting
  BY DEF Rebalance, array, grid
<1>2. /\ nlocal' = nlocal /\ Indices' = Indices /\ Owned' = Owned /\ Names' = Names
      /\ (\A c : InCell(c)' = InCell(c)) /\ (\A k : Placed(k)' <=> Placed(k)) /\ Leavers' = Leavers
  BY <1>1, Untouched
<1>3. LoopType /\ sorted \in BOOLEAN /\ unpacked \subseteq leaving /\ leaving \subseteq CellNames
      /\ nlocal \in Nat
  BY DEF Inv, TypeOK, ListsType, Sizes
<1>4. LoopType'
  BY <1>3 DEF Rebalance, LoopType, Stages, Go, loop
<1>5. unpacked' \subseteq leaving' /\ leaving' \subseteq CellNames
  <2>1. Names \subseteq CellNames
    <3>1. cells \in Seq(setting.names) /\ setting.names \subseteq CellNames
      BY SettingsAssumption DEF Inv, TypeOK, Sizes
    <3> QED BY <3>1 DEF Names, Owned
  <2> QED BY <1>3, <2>1 DEF Rebalance, migration
<1>6. PlacesInv'
  BY <1>2, <1>3 DEF Rebalance, PlacesInv, At, Stages, Go, Inv
<1>7. IdleInv' /\ WeighInv'
  BY <1>2, <1>3 DEF Rebalance, IdleInv, WeighInv, At, Go, Inv, loop
<1>8. ListInv' /\ LeaversInv' /\ TrackInv'
  BY <1>1, <1>2, <1>3 DEF Rebalance, ListInv, LeaversInv, TrackInv, At, Go, Inv, loop
<1>9. LeavingInv'
  BY <1>1, <1>2, <1>3 DEF Rebalance, LeavingInv, Rebalancing, Gone, At, Go, Inv, migration
<1>10. Sort \/ (sorted /\ UNCHANGED lists)
  BY DEF Rebalance, SortIfNeeded
<1>11. sorted => InUse
  BY <1>1, <1>3 DEF Rebalance, InUse, GivenUp, At, Go, Inv, SortedInv
<1>12. Complete' => Complete
  BY DEF Rebalance, Complete, At, Go
<1>13. Gone \subseteq Gone'
  BY <1>3 DEF Rebalance, Gone, migration, Go, Inv, LeavingInv, Rebalancing, At
<1>14. ListsType' /\ Sizes' /\ ChainInv' /\ sorted'
  BY <1>1, <1>10, <1>11, <1>12, <1>13, SortedAnew
<1>15. SortedInv'
  BY <1>1, <1>14 DEF Rebalance, SortedInv, Rebalancing, At, Go
<1>16. ParticlesType' /\ Distinct' /\ NamesDistinct' /\ cells' \in Seq(setting'.names)
  BY <1>1, SameTypes
<1>17. TypeOK'
  BY <1>4, <1>5, <1>14, <1>16 DEF TypeOK
<1> QED BY <1>6, <1>7, <1>8, <1>9, <1>14, <1>15, <1>16, <1>17 DEF Inv

LEMMA ListIsShort ==
    ASSUME nlocal \in Nat, OfIndices(list), On(list) \subseteq Indices
    PROVE  Len(list) \in Nat /\ Len(list) <= nlocal /\ DOMAIN list = 1 .. Len(list)
<1>1. list \in Seq(Nat) /\ Len(list) \in Nat /\ DOMAIN list = 1 .. Len(list)
  BY DEF OfIndices
<1>2. list \in [1 .. Len(list) -> Indices]
  <2>1. \A m \in DOMAIN list : list[m] \in Indices
    BY DEF On
  <2> QED BY <1>1, <2>1
<1>3. list \in Injection(1 .. Len(list), Indices)
  BY <1>1, <1>2 DEF OfIndices, Injection, IsInjective
<1>4. IsFiniteSet(Indices) /\ Cardinality(Indices) = nlocal
  BY Below DEF Indices
<1>5. Cardinality(1 .. Len(list)) <= Cardinality(Indices)
  BY <1>3, <1>4, FS_Injection
<1>6. Cardinality(1 .. Len(list)) = Len(list)
  <2>1. \A k \in Nat : Cardinality(1 .. k) = k
    BY FS_Interval
  <2> QED BY <1>1, <2>1
<1> QED BY <1>1, <1>4, <1>5, <1>6

(* The beginning of compress_reactions: every particle is where it was.    *)
LEMMA ScratchTracks ==
    ASSUME Sizes, ParticlesType, ListsType, i = 1, OfIndices(list), On(list) \subseteq Indices,
           Scratch(nlocal, list), UNCHANGED <<array, grid, first, sorted, list, i>>
    PROVE  /\ ListsType' /\ Sizes' /\ upper' \in Nat /\ Tracked'
           /\ \A m \in Ahead : Location(m)' = list[m]
<1>1. PICK n \in Nat : /\ n >= maxlocal /\ DOMAIN Renewed = 0 .. n - 1
                       /\ \A k \in DOMAIN Renewed : Renewed[k] \in Int
  BY RenewedIs
<1>2. /\ particles' = particles /\ maxlocal' = maxlocal /\ setting' = setting /\ cells' = cells
      /\ first' = first /\ sorted' = sorted /\ list' = list /\ i' = i
  BY DEF array, grid
<1>3. nlocal' = nlocal /\ Indices' = Indices /\ Owned' = Owned
  BY <1>2, SameArray, SameCells
<1>4. Len(list) \in Nat /\ Len(list) <= nlocal /\ DOMAIN list = 1 .. Len(list)
  BY ListIsShort DEF Sizes
<1>5. nlocal \in Nat /\ maxlocal \in Nat /\ nlocal <= maxlocal
  BY DEF Sizes, ParticlesType
<1>6. upper' = nlocal - Len(list) /\ upper' \in Nat
  BY <1>4, <1>5 DEF Scratch
<1>7. /\ DOMAIN next' = 0 .. n - 1
      /\ \A k \in 0 .. n - 1 : next'[k] = IF k \in upper' .. nlocal - 1 THEN k ELSE Renewed[k]
  BY <1>1, <1>6 DEF Scratch
<1>8. maxsort' = n
  BY <1>7, NextOf
<1>9. ListsType' /\ Sizes'
  <2>1. \A k \in 0 .. n - 1 : next'[k] \in Int
    BY <1>1, <1>7
  <2>2. Sizes'
    BY <1>2, <1>3, <1>8 DEF Sizes
  <2> QED BY <1>2, <1>3, <1>7, <1>8, <2>1, <2>2 DEF ListsType
<1>10. \A k \in Indices : k \in Nat /\ k < nlocal /\ k \in 0 .. n - 1
  BY <1>1, <1>5 DEF Indices
<1>11. Ahead' = 1 .. Len(list) /\ Ahead = 1 .. Len(list)
  BY <1>2 DEF Ahead
<1>12. \A m \in 1 .. Len(list) : list[m] \in Indices
  BY <1>4 DEF On
<1>13. \A m \in 1 .. Len(list) : Location(m)' = list[m]
  <2> SUFFICES ASSUME NEW m \in 1 .. Len(list) PROVE Location(m)' = list[m]
    OBVIOUS
  <2>1. ~(list[m] >= nlocal)
    BY <1>5, <1>10, <1>12
  <2> QED BY <1>2, <1>3, <2>1 DEF Location
<1>14. \A m \in 1 .. Len(list) : list'[m] \in DOMAIN next' /\ Location(m)' \in Indices'
  BY <1>2, <1>3, <1>7, <1>10, <1>12, <1>13
<1>15. \A m, k \in 1 .. Len(list) : Location(m)' = Location(k)' => m = k
  BY <1>4, <1>13 DEF OfIndices
<1>16. \A k \in upper' .. nlocal - 1 : next'[k] = k
  <2>1. \A k \in upper' .. nlocal - 1 : k \in 0 .. n - 1
    BY <1>1, <1>5, <1>6
  <2> QED BY <1>7, <2>1
<1>17. \A m \in 1 .. Len(list) : ~(list'[m] >= nlocal)
  BY <1>2, <1>5, <1>10, <1>12
<1>18. upper' = nlocal' - (Len(list') - i' + 1)
  BY <1>2, <1>3, <1>4, <1>5, <1>6
<1>19. Indices' \subseteq DOMAIN next'
  BY <1>3, <1>7, <1>10
<1>20. Tracked'
  BY <1>2, <1>3, <1>11, <1>14, <1>15, <1>16, <1>17, <1>18, <1>19 DEF Tracked
<1> QED BY <1>6, <1>9, <1>11, <1>13, <1>20

LEMMA SameListed ==
    ASSUME list' = list, i' = i
    PROVE  Ahead' = Ahead /\ ListedAhead' = ListedAhead /\ (OfIndices(list) => OfIndices(list)')
           /\ (Ascending(list) => Ascending(list)')
BY DEF Ahead, ListedAhead, OfIndices, Ascending

(* The calls of compress_migrate and of compress_reactions.                *)
LEMMA MigrateStep == Inv /\ Migrate => Inv'
<1> SUFFICES ASSUME Inv, Migrate PROVE Inv'
  OBVIOUS
<1>1. /\ UNCHANGED <<array, grid, first, sorted, list, i>> /\ particles' = particles /\ cells' = cells
      /\ setting' = setting /\ list' = list /\ i' = i /\ stage = "migrate" /\ stage' = "compress"
      /\ UNCHANGED <<half, norig, leaving, unpacked, first, sorted>>
  BY DEF Migrate, array, grid, Go, migration
<1>2. /\ nlocal' = nlocal /\ Indices' = Indices /\ Owned' = Owned /\ Names' = Names
      /\ (\A c : InCell(c)' = InCell(c)) /\ (\A k : Placed(k)' <=> Placed(k)) /\ Leavers' = Leavers
  <2>1. nlocal' = nlocal /\ Indices' = Indices /\ \A c : InCell(c)' = InCell(c)
    BY <1>1, SameArray
  <2>2. Owned' = Owned /\ Names' = Names
    BY <1>1, SameCells
  <2>3. (\A k : Placed(k)' <=> Placed(k)) /\ Leavers' = Leavers
    BY <1>1, SamePlaces
  <2> QED BY <2>1, <2>2, <2>3
<1>3. /\ i = 1 /\ OfIndices(list) /\ On(list) \subseteq Indices /\ ListedAhead = Leavers
      /\ (~setting.optmove => Ascending(list))
  BY <1>1 DEF Inv, ListInv, LeaversInv, At
<1>4. Sizes /\ ParticlesType /\ ListsType /\ LoopType
  BY DEF Inv, TypeOK
<1>5. setting.optmove => /\ ListsType' /\ Sizes' /\ upper' \in Nat /\ Tracked'
                         /\ \A m \in Ahead : Location(m)' = list[m]
  <2> SUFFICES ASSUME setting.optmove
               PROVE  /\ ListsType' /\ Sizes' /\ upper' \in Nat /\ Tracked'
                      /\ \A m \in Ahead : Location(m)' = list[m]
    OBVIOUS
  <2>1. Scratch(nlocal, list)
    BY DEF Migrate
  <2> QED BY <1>1, <1>3, <1>4, <2>1, ScratchTracks
<1>6. ~setting.optmove => ListsType' /\ Sizes' /\ upper' \in Nat
  <2> SUFFICES ASSUME ~setting.optmove PROVE ListsType' /\ Sizes' /\ upper' \in Nat
    OBVIOUS
  <2>1. upper' = upper /\ next' = next
    BY DEF Migrate
  <2>2. sorted' \in BOOLEAN
    BY <1>1, <1>4 DEF ListsType
  <2>3. ListsType' /\ Sizes'
    BY <1>1, <2>1, <2>2, SameTypes
  <2> QED BY <1>4, <2>1, <2>3 DEF LoopType
<1>7. ParticlesType' /\ Distinct' /\ NamesDistinct' /\ cells' \in Seq(setting'.names)
  BY <1>1, SameTypes
<1>8. TypeOK'
  <2>1. LoopType'
    BY <1>1, <1>4, <1>5, <1>6 DEF LoopType, Stages
  <2> QED BY <1>1, <1>5, <1>6, <1>7, <2>1 DEF TypeOK, Inv
<1>9. PlacesInv' /\ IdleInv' /\ WeighInv'
  BY <1>1, <1>2 DEF PlacesInv, IdleInv, WeighInv, At, Inv, Stages
<1>10. ListInv'
  <2>1. i' >= 1
    BY <1>1, <1>3
  <2> QED BY <1>1, <1>3, <2>1, SameListed DEF ListInv, At
<1>11. LeaversInv'
  <2>1. Ahead' = Ahead /\ ListedAhead' = ListedAhead /\ (Ascending(list) => Ascending(list)')
    BY <1>1, SameListed
  <2>2. setting.optmove => LocatedAhead' = ListedAhead
    BY <1>5, <2>1 DEF LocatedAhead, ListedAhead
  <2> QED BY <1>1, <1>2, <1>3, <2>1, <2>2 DEF LeaversInv, At
<1>12. TrackInv'
  BY <1>1, <1>5 DEF TrackInv, At
<1>13. LeavingInv' /\ SortedInv'
  BY <1>1, <1>2 DEF LeavingInv, SortedInv, At, Inv, Rebalancing, Gone
<1>14. ChainInv'
  BY <1>1 DEF Inv, SortedInv, ChainInv, InUse, At
<1> QED BY <1>5, <1>6, <1>7, <1>8, <1>9, <1>10, <1>11, <1>12, <1>13, <1>14 DEF Inv

LEMMA StartDeleteStep == Inv /\ StartDelete => Inv'
<1> SUFFICES ASSUME Inv, StartDelete PROVE Inv'
  OBVIOUS
<1>1. /\ UNCHANGED <<array, grid, first, sorted, list, i>> /\ particles' = particles /\ cells' = cells
      /\ setting' = setting /\ list' = list /\ i' = i /\ stage = "reacted" /\ stage' = "delete"
      /\ UNCHANGED <<half, norig, leaving, unpacked, first, sorted>>
  BY DEF StartDelete, array, grid, Go, migration
<1>2. /\ nlocal' = nlocal /\ Indices' = Indices /\ Owned' = Owned /\ Names' = Names
      /\ (\A c : InCell(c)' = InCell(c)) /\ (\A k : Placed(k)' <=> Placed(k)) /\ Leavers' = Leavers
  <2>1. nlocal' = nlocal /\ Indices' = Indices /\ \A c : InCell(c)' = InCell(c)
    BY <1>1, SameArray
  <2>2. Owned' = Owned /\ Names' = Names
    BY <1>1, SameCells
  <2>3. (\A k : Placed(k)' <=> Placed(k)) /\ Leavers' = Leavers
    BY <1>1, SamePlaces
  <2> QED BY <2>1, <2>2, <2>3
<1>3. /\ i = 1 /\ OfIndices(list) /\ On(list) \subseteq Indices
      /\ (~setting.react => list = <<>>)
  BY <1>1 DEF Inv, ListInv, At
<1>4. Sizes /\ ParticlesType /\ ListsType /\ LoopType
  BY DEF Inv, TypeOK
<1>5. list # <<>> => ListsType' /\ Sizes' /\ upper' \in Nat /\ Tracked'
  <2> SUFFICES ASSUME list # <<>> PROVE ListsType' /\ Sizes' /\ upper' \in Nat /\ Tracked'
    OBVIOUS
  <2>1. Scratch(nlocal, list)
    BY DEF StartDelete
  <2> QED BY <1>1, <1>3, <1>4, <2>1, ScratchTracks
<1>6. list = <<>> => ListsType' /\ Sizes' /\ upper' = upper /\ next' = next
  <2> SUFFICES ASSUME list = <<>> PROVE ListsType' /\ Sizes' /\ upper' = upper /\ next' = next
    OBVIOUS
  <2>1. upper' = upper /\ next' = next
    BY DEF StartDelete
  <2>2. sorted' \in BOOLEAN
    BY <1>1, <1>4 DEF ListsType
  <2> QED BY <1>1, <2>1, <2>2, SameTypes
<1>7. ParticlesType' /\ Distinct' /\ NamesDistinct' /\ cells' \in Seq(setting'.names)
  BY <1>1, SameTypes
<1>8. TypeOK'
  <2>1. upper' \in Nat
    BY <1>4, <1>5, <1>6 DEF LoopType
  <2>2. LoopType'
    BY <1>1, <1>4, <2>1 DEF LoopType, Stages
  <2> QED BY <1>1, <1>5, <1>6, <1>7, <2>2 DEF TypeOK, Inv
<1>9. PlacesInv' /\ IdleInv' /\ WeighInv'
  BY <1>1, <1>2 DEF PlacesInv, IdleInv, WeighInv, At, Inv, Stages
<1>10. ListInv'
  <2>1. i' >= 1
    BY <1>1, <1>3
  <2> QED BY <1>1, <1>3, <2>1, SameListed DEF ListInv, At
<1>11. LeaversInv'
  BY <1>1 DEF LeaversInv, At
<1>12. TrackInv'
  <2>1. list = <<>> => ~(i' <= Len(list'))
    BY <1>1, <1>3
  <2> QED BY <1>5, <2>1 DEF TrackInv
<1>13. LeavingInv' /\ SortedInv'
  BY <1>1, <1>2 DEF LeavingInv, SortedInv, At, Inv, Rebalancing, Gone
<1>14. ChainInv'
  <2>1. CASE setting.react
    BY <1>1, <2>1 DEF ChainInv, InUse, At
  <2>2. CASE ~setting.react
    <3>1. next' = next
      BY <1>3, <1>6, <2>2
    <3>2. (InUse /\ Gone \subseteq Gone') \/ ~InUse'
      BY <1>1 DEF InUse, GivenUp, At, Gone
    <3>3. Complete' => Complete
      BY <1>1 DEF Complete, At
    <3>4. CASE InUse'
      BY <1>1, <3>1, <3>2, <3>3, <3>4, ChainSame
    <3>5. CASE ~InUse'
      BY <3>5 DEF ChainInv
    <3> QED BY <3>4, <3>5
  <2> QED BY <2>1, <2>2
<1> QED BY <1>5, <1>6, <1>7, <1>8, <1>9, <1>10, <1>11, <1>12, <1>13, <1>14 DEF Inv

(* A particle is overwritten by the last one.                              *)
LEMMA Deleted ==
    ASSUME Inv, NEW j \in Indices, particles' = Overwritten(j), UNCHANGED <<maxlocal, grid>>
    PROVE  /\ ParticlesType' /\ Distinct' /\ NamesDistinct' /\ cells' \in Seq(setting'.names)
           /\ nlocal' = nlocal - 1 /\ nlocal' \in Nat /\ nlocal \in Nat /\ maxlocal' \in Nat /\ setting' \in Settings
           /\ setting' = setting /\ cells' = cells /\ Owned' = Owned /\ Names' = Names
           /\ \A k \in Indices : k \in Nat /\ k < nlocal
           /\ \A k \in Indices' : \E q \in Indices :
                 /\ particles'[k] = particles[q] /\ (Placed(k)' <=> Placed(q))
                 /\ q = k \/ (k = j /\ q = nlocal - 1)
           /\ \A c : InCell(c) = {} => InCell(c)' = {}
<1>1. Sizes /\ nlocal \in Nat /\ ParticlesType /\ Distinct /\ NamesDistinct /\ cells \in Seq(setting.names)
  BY DEF Inv, Sizes, TypeOK
<1>2. setting' = setting /\ cells' = cells /\ maxlocal' = maxlocal
  BY DEF grid
<1>3. Owned' = Owned /\ Names' = Names /\ NamesDistinct'
  BY <1>1, <1>2, SameCells
<1>4. /\ nlocal' = nlocal - 1 /\ nlocal' \in Nat /\ nlocal - 1 \in Indices
      /\ Indices' \subseteq Indices /\ DOMAIN particles' = Indices'
      /\ \A k \in Indices' : particles'[k] = IF k = j THEN particles[nlocal - 1] ELSE particles[k]
  BY <1>1, OverwrittenArray
<1>5. Distinct'
  BY <1>1, OverwrittenHeld
<1>6. ASSUME NEW k \in Indices'
      PROVE  \E q \in Indices : /\ particles'[k] = particles[q] /\ (Placed(k)' <=> Placed(q))
                                /\ q = k \/ (k = j /\ q = nlocal - 1)
  <2>1. CASE k = j
    <3>1. particles'[k] = particles[nlocal - 1]
      BY <1>4, <2>1
    <3>2. Placed(k)' <=> Placed(nlocal - 1)
      BY <1>2, <1>3, <3>1 DEF Placed
    <3> QED BY <1>4, <2>1, <3>1, <3>2
  <2>2. CASE k # j
    <3>1. particles'[k] = particles[k] /\ k \in Indices
      BY <1>4, <2>2
    <3>2. Placed(k)' <=> Placed(k)
      BY <1>2, <1>3, <3>1 DEF Placed
    <3> QED BY <3>1, <3>2
  <2> QED BY <2>1, <2>2
<1>7. ParticlesType'
  <2>1. \A k \in Indices' : particles'[k] \in Particles
    BY <1>1, <1>6 DEF ParticlesType
  <2>2. nlocal' <= maxlocal'
    BY <1>1, <1>2, <1>4 DEF ParticlesType, Sizes
  <2> QED BY <1>4, <2>1, <2>2 DEF ParticlesType
<1>8. \A c : InCell(c) = {} => InCell(c)' = {}
  BY <1>6 DEF InCell
<1>9. \A k \in Indices : k \in Nat /\ k < nlocal
  BY <1>1 DEF Indices
<1> QED BY <1>1, <1>2, <1>3, <1>4, <1>5, <1>6, <1>7, <1>8, <1>9 DEF Sizes

LEMMA SameNext ==
    ASSUME Inv, Owned' = Owned, first' = first, next' = next, sorted' = sorted
    PROVE  ListsType' /\ maxsort' = maxsort /\ maxsort' \in Nat
<1>1. maxsort' = maxsort
  BY DEF maxsort
<1> QED BY <1>1 DEF Inv, TypeOK, ListsType, Sizes

\* Who leaves, after a deletion.
LEMMA LeaversLess ==
    ASSUME Inv, NEW j \in Indices, particles' = Overwritten(j), UNCHANGED <<maxlocal, grid>>, j \in Leavers
    PROVE  /\ \A k : k \in Leavers' <=> \/ k \in Leavers /\ k # j /\ k # nlocal - 1
                                        \/ k = j /\ j # nlocal - 1 /\ nlocal - 1 \in Leavers
<1>1. nlocal \in Nat
  BY DEF Inv, Sizes
<1>2. /\ nlocal - 1 \in Indices /\ Indices' \subseteq Indices
      /\ nlocal - 1 \notin Indices' /\ \A k \in Indices : k \in Indices' \/ k = nlocal - 1
      /\ \A k \in Indices' : particles'[k] = IF k = j THEN particles[nlocal - 1] ELSE particles[k]
  BY <1>1, OverwrittenArray
<1> QED BY <1>2 DEF Leavers

-----------------------------------------------------------------------------
(* compress_migrate *)
LEMMA DropTailStep == Inv /\ DropTail => Inv'
<1> SUFFICES ASSUME Inv, DropTail PROVE Inv'
  OBVIOUS
<1>1. /\ stage = "compress" /\ stage' = "compress" /\ i <= Len(list) /\ ~setting.optmove
      /\ nlocal - 1 = list[Len(list)] /\ nlocal - 1 > list[i]
      /\ particles' = Overwritten(nlocal - 1) /\ list' = SubSeq(list, 1, Len(list) - 1) /\ i' = i
      /\ UNCHANGED <<maxlocal, grid>> /\ UNCHANGED <<setting, cells, first, next, sorted, half, upper, norig, leaving, unpacked>>
  BY DEF DropTail, Busy, LastIsDoomed, grid, lists, migration
<1>2. i >= 1 /\ i \in Nat /\ OfIndices(list) /\ Ascending(list) /\ ListedAhead = Leavers
  BY <1>1 DEF Inv, ListInv, LeaversInv, At, TypeOK, LoopType
<1>3. /\ Len(list) \in Nat /\ DOMAIN list = 1 .. Len(list) /\ list \in Seq(Nat) /\ Len(list) \in Ahead
      /\ Ahead \subseteq DOMAIN list
  BY <1>1, <1>2 DEF OfIndices, Ahead
<1>4. nlocal - 1 \in Leavers /\ nlocal - 1 \in Indices
  <2>1. nlocal - 1 \in Leavers
    BY <1>1, <1>2, <1>3 DEF ListedAhead
  <2> QED BY <2>1 DEF Leavers
<1>5. i # Len(list)
  <2>1. nlocal - 1 \in Nat
    BY <1>4 DEF Indices, Inv, Sizes
  <2> QED BY <1>1, <2>1
<1> DEFINE L == Len(list)
<1>6. /\ Len(list') = L - 1 /\ DOMAIN list' = 1 .. L - 1 /\ (\A m \in 1 .. L - 1 : list'[m] = list[m] /\ m \in DOMAIN list)
      /\ list' \in Seq(Nat) /\ Ahead' = i .. L - 1
  <2>1. L \in Nat /\ L - 1 \in Nat
    BY <1>1, <1>2, <1>3
  <2>2. /\ Len(list') = L - 1 /\ DOMAIN list' = 1 .. L - 1 /\ list' \in Seq(Nat)
        /\ \A m \in 1 .. L - 1 : list'[m] = list[m]
    BY <1>1, <1>3, <2>1
  <2>3. \A m \in 1 .. L - 1 : m \in DOMAIN list
    BY <1>3, <2>1
  <2> QED BY <1>1, <2>1, <2>2, <2>3 DEF Ahead
<1>7. /\ ParticlesType' /\ Distinct' /\ NamesDistinct' /\ cells' \in Seq(setting'.names)
      /\ nlocal' = nlocal - 1 /\ nlocal' \in Nat /\ maxlocal' \in Nat /\ setting' \in Settings
      /\ Owned' = Owned /\ Names' = Names /\ \A c : InCell(c) = {} => InCell(c)' = {}
  BY <1>1, <1>4, Deleted
<1>8. \A k \in Indices' : \E q \in Indices : particles'[k] = particles[q] /\ (Placed(k)' <=> Placed(q))
  BY <1>1, <1>4, Deleted
<1>9. ListsType' /\ maxsort' \in Nat
  BY <1>1, <1>7, SameNext
<1>10. TypeOK' /\ Sizes'
  <2>1. LoopType'
    BY <1>1, <1>6 DEF Inv, TypeOK, LoopType, Stages
  <2> QED BY <1>1, <1>7, <1>9, <2>1 DEF TypeOK, Sizes, Inv
<1>11. PlacesInv' /\ IdleInv' /\ WeighInv'
  <2>1. \A k \in Indices : Placed(k) \/ particles[k].icell = 0
    BY <1>1 DEF Inv, PlacesInv, At
  <2>2. \A k \in Indices' : Placed(k)' \/ particles'[k].icell = 0
    BY <1>8, <2>1
  <2> QED BY <1>1, <2>2 DEF PlacesInv, IdleInv, WeighInv, At, Stages
<1>12. OfIndices(list)' /\ Ascending(list)'
  <2>1. OfIndices(list)'
    BY <1>2, <1>6 DEF OfIndices
  <2>2. ASSUME NEW m \in DOMAIN list', NEW n \in DOMAIN list', m < n PROVE list'[m] < list'[n]
    <3>1. m \in DOMAIN list /\ n \in DOMAIN list /\ list'[m] = list[m] /\ list'[n] = list[n]
      BY <1>6
    <3>2. list[m] < list[n]
      BY <1>2, <2>2, <3>1 DEF Ascending
    <3> QED BY <3>1, <3>2
  <2> QED BY <2>1, <2>2 DEF Ascending
<1>13. ListInv'
  BY <1>1, <1>2, <1>12 DEF ListInv, At
<1>14. ListedAhead' = Leavers'
  <2>1. \A k : k \in Leavers' <=> k \in Leavers /\ k # nlocal - 1
    BY <1>1, <1>4, LeaversLess
  <2>2. \A m : m \in Ahead' <=> m \in Ahead /\ m # L
    BY <1>1, <1>2, <1>3, <1>6 DEF Ahead
  <2>3. \A m \in Ahead' : list'[m] = list[m]
    BY <1>2, <1>3, <1>6
  <2>4. \A m \in Ahead : list[m] = nlocal - 1 <=> m = L
    BY <1>1, <1>2, <1>3 DEF OfIndices
  <2>5. ASSUME NEW k \in ListedAhead' PROVE k \in Leavers'
    <3>1. PICK m \in Ahead' : k = list'[m]
      BY <2>5 DEF ListedAhead
    <3>2. m \in Ahead /\ k = list[m] /\ k # nlocal - 1
      BY <2>2, <2>3, <2>4, <3>1
    <3> QED BY <1>2, <2>1, <3>2 DEF ListedAhead
  <2>6. ASSUME NEW k \in Leavers' PROVE k \in ListedAhead'
    <3>1. PICK m \in Ahead : k = list[m]
      BY <1>2, <2>1, <2>6 DEF ListedAhead
    <3>2. m \in Ahead' /\ list'[m] = k
      BY <2>1, <2>2, <2>3, <2>4, <2>6, <3>1
    <3> QED BY <3>2 DEF ListedAhead
  <2> QED BY <2>5, <2>6
<1>15. LeaversInv' /\ TrackInv'
  BY <1>1, <1>12, <1>14 DEF LeaversInv, TrackInv, At
<1>16. LeavingInv' /\ SortedInv'
  BY <1>1, <1>7 DEF LeavingInv, SortedInv, At, Inv, Rebalancing, Gone
<1>17. ChainInv'
  BY <1>1 DEF Inv, SortedInv, ChainInv, InUse, At
<1> QED BY <1>7, <1>10, <1>11, <1>13, <1>15, <1>16, <1>17 DEF Inv

LEMMA FillHoleStep == Inv /\ FillHole => Inv'
<1> SUFFICES ASSUME Inv, FillHole PROVE Inv'
  OBVIOUS
<1>1. /\ stage = "compress" /\ stage' = "compress" /\ i <= Len(list) /\ ~setting.optmove
      /\ ~(nlocal - 1 = list[Len(list)] /\ nlocal - 1 > list[i])
      /\ particles' = Overwritten(list[i]) /\ list' = list /\ i' = i + 1
      /\ UNCHANGED <<maxlocal, grid>> /\ UNCHANGED <<setting, cells, first, next, sorted, half, upper, norig, leaving, unpacked>>
  BY DEF FillHole, Busy, LastIsDoomed, grid, lists, migration
<1>2. i >= 1 /\ i \in Nat /\ OfIndices(list) /\ Ascending(list) /\ ListedAhead = Leavers
  BY <1>1 DEF Inv, ListInv, LeaversInv, At, TypeOK, LoopType
<1> DEFINE L == Len(list)
<1>3. /\ L \in Nat /\ DOMAIN list = 1 .. L /\ list \in Seq(Nat) /\ L \in Ahead /\ i \in Ahead
      /\ Ahead \subseteq DOMAIN list /\ Ahead = i .. L /\ Ahead' = i + 1 .. L
  BY <1>1, <1>2 DEF OfIndices, Ahead
<1>4. list[i] \in Leavers /\ list[i] \in Indices /\ \A m \in Ahead : list[m] \in Indices /\ list[m] \in Leavers
  <2>1. \A m \in Ahead : list[m] \in Leavers
    BY <1>2 DEF ListedAhead
  <2> QED BY <1>3, <2>1 DEF Leavers
<1>5. /\ ParticlesType' /\ Distinct' /\ NamesDistinct' /\ cells' \in Seq(setting'.names)
      /\ nlocal' = nlocal - 1 /\ nlocal \in Nat /\ nlocal' \in Nat /\ maxlocal' \in Nat /\ setting' \in Settings
      /\ Owned' = Owned /\ Names' = Names /\ \A c : InCell(c) = {} => InCell(c)' = {}
  BY <1>1, <1>4, Deleted
<1>6. \A k \in Indices' : \E q \in Indices : particles'[k] = particles[q] /\ (Placed(k)' <=> Placed(q))
  BY <1>1, <1>4, Deleted
<1>7. ListsType' /\ maxsort' \in Nat
  BY <1>1, <1>5, SameNext
<1>8. TypeOK' /\ Sizes'
  <2>1. LoopType'
    BY <1>1, <1>2 DEF Inv, TypeOK, LoopType, Stages
  <2> QED BY <1>1, <1>5, <1>7, <2>1 DEF TypeOK, Sizes, Inv
<1>9. PlacesInv' /\ IdleInv' /\ WeighInv'
  <2>1. \A k \in Indices : Placed(k) \/ particles[k].icell = 0
    BY <1>1 DEF Inv, PlacesInv, At
  <2>2. \A k \in Indices' : Placed(k)' \/ particles'[k].icell = 0
    BY <1>6, <2>1
  <2> QED BY <1>1, <2>2 DEF PlacesInv, IdleInv, WeighInv, At, Stages
<1>10. OfIndices(list)' /\ Ascending(list)'
  BY <1>1, <1>2 DEF OfIndices, Ascending
<1>11. ListInv'
  <2>1. i' >= 1
    BY <1>1, <1>2
  <2> QED BY <1>1, <1>10, <2>1 DEF ListInv, At
\* Either the hole is the last place, or the last particle stays.
<1>12. nlocal - 1 \in Leavers => list[i] = nlocal - 1
  <2> SUFFICES ASSUME nlocal - 1 \in Leavers, list[i] # nlocal - 1 PROVE FALSE
    OBVIOUS
  <2>1. PICK m \in Ahead : list[m] = nlocal - 1
    BY <1>2 DEF ListedAhead
  <2>2. \A k \in Ahead : list[k] \in Nat /\ list[k] <= nlocal - 1
    BY <1>4, <1>5 DEF Indices
  <2>3. m = L
    <3>1. m \in Nat /\ m <= L
      BY <1>2, <1>3
    <3>2. ~(m < L)
      <4>1. m < L => list[m] < list[L]
        BY <1>2, <1>3 DEF Ascending
      <4>2. L \in Ahead
        BY <1>3
      <4>3. list[L] <= nlocal - 1 /\ list[L] \in Nat
        BY <2>2, <4>2
      <4>4. nlocal \in Nat
        BY <1>5
      <4> QED BY <2>1, <4>1, <4>3, <4>4
    <3>3. L \in Nat
      BY <1>3
    <3> HIDE DEF L
    <3> QED BY <3>1, <3>2, <3>3
  <2>4. list[i] < nlocal - 1
    BY <1>3, <1>5, <2>2
  <2>5. ~(nlocal - 1 > list[i])
    BY <1>1, <2>1, <2>3
  <2> QED BY <1>3, <1>5, <2>2, <2>4, <2>5
<1>13. ListedAhead' = Leavers'
  <2>1. \A k : k \in Leavers' <=> k \in Leavers /\ k # list[i]
    <3>1. \A k : k \in Leavers' <=> \/ k \in Leavers /\ k # list[i] /\ k # nlocal - 1
                                    \/ k = list[i] /\ list[i] # nlocal - 1 /\ nlocal - 1 \in Leavers
      BY <1>1, <1>4, LeaversLess
    <3> QED BY <1>12, <3>1
  <2>2. \A m : m \in Ahead' <=> m \in Ahead /\ m # i
    BY <1>2, <1>3
  <2>3. \A m \in Ahead : list[m] = list[i] <=> m = i
    BY <1>2, <1>3 DEF OfIndices
  <2>4. \A k : k \in ListedAhead <=> k \in Leavers
    BY <1>2
  <2> QED BY <1>1, <2>1, <2>2, <2>3, <2>4 DEF ListedAhead
<1>14. LeaversInv' /\ TrackInv'
  BY <1>1, <1>10, <1>13 DEF LeaversInv, TrackInv, At
<1>15. LeavingInv' /\ SortedInv'
  BY <1>1, <1>5 DEF LeavingInv, SortedInv, At, Inv, Rebalancing, Gone
<1>16. ChainInv'
  BY <1>1 DEF Inv, SortedInv, ChainInv, InUse, At
<1> QED BY <1>5, <1>8, <1>9, <1>11, <1>14, <1>15, <1>16 DEF Inv

(* compress_reactions: the last particle moves to where a deleted one was, *)
(* and next tells where, whatever has been moved before.                   *)
LEMMA LocationsFollow ==
    ASSUME Sizes, ListsType, Tracked, list \in Seq(Nat), i \in Nat, i >= 1, i <= Len(list), upper \in Nat,
           nlocal' = nlocal - 1, Indices' = 0 .. nlocal - 2, list' = list, i' = i + 1, upper' = upper,
           next' = IF Location(i) = nlocal - 1 THEN next ELSE Followed(Location(i))
    PROVE  /\ Tracked' /\ Location(i) \in Indices
           /\ DOMAIN next' = DOMAIN next /\ \A k \in DOMAIN next : next'[k] \in Int
           /\ \A m : m \in Ahead' <=> m \in Ahead /\ m # i
           /\ \A m \in Ahead' : Location(m)' = IF Location(m) = nlocal - 1 THEN Location(i) ELSE Location(m)
<1> DEFINE at == Location(i)
           last == nlocal - 1
           q == next[last]
<1>1. /\ Len(list) \in Nat /\ Ahead = i .. Len(list) /\ Ahead' = i + 1 .. Len(list) /\ i \in Ahead
      /\ nlocal \in Nat /\ DOMAIN next = 0 .. maxsort - 1 /\ maxsort \in Nat
      /\ \A k \in DOMAIN next : next[k] \in Int
  BY DEF Ahead, Sizes, ListsType
<1>2. \A m : m \in Ahead' <=> m \in Ahead /\ m # i
  BY <1>1
<1>3. /\ upper = nlocal - (Len(list) - i + 1) /\ Indices \subseteq DOMAIN next
      /\ \A m \in Ahead : list[m] \in DOMAIN next /\ Location(m) \in Indices
      /\ \A m, n \in Ahead : Location(m) = Location(n) => m = n
  BY DEF Tracked
<1>4. \A m \in Ahead : /\ list[m] \in upper .. nlocal - 1 => next[list[m]] = list[m]
                       /\ list[m] >= nlocal /\ Location(m) >= upper => next[Location(m)] = list[m]
  BY DEF Tracked
<1>5. \A k \in upper .. nlocal - 1 :
          next[k] = k \/ (next[k] >= nlocal /\ next[k] \in DOMAIN next /\ next[next[k]] = k)
  BY DEF Tracked
<1>6. at \in Indices /\ at \in Nat /\ at <= last /\ last \in Nat /\ last \in Indices /\ last \in upper .. nlocal - 1
      /\ last \in DOMAIN next /\ at \in DOMAIN next /\ last >= upper
  <2>1. at \in Indices
    BY <1>1, <1>3
  <2>2. at \in Nat /\ at <= last /\ last \in Nat /\ last \in Indices
    BY <1>1, <2>1 DEF Indices
  <2>3. last >= upper
    BY <1>1, <1>3
  <2> QED BY <1>1, <1>3, <2>1, <2>2, <2>3
<1>7. \A k \in Nat : k <= last /\ k # last => k \in 0 .. nlocal - 2
  BY <1>1
<1>8. \A m \in Ahead : Location(m) = IF list[m] >= nlocal THEN next[list[m]] ELSE list[m]
  BY DEF Location
<1>9. \A m : Location(m)' = IF list[m] >= last THEN next'[list[m]] ELSE list[m]
  BY DEF Location
<1>10. \A m \in Ahead : list[m] \in Nat /\ list[m] \in DOMAIN next /\ Location(m) \in Nat /\ Location(m) <= last
  <2>1. \A m \in Ahead : list[m] \in DOMAIN next /\ Location(m) \in Indices
    BY <1>3
  <2>2. \A k \in DOMAIN next : k \in Nat
    BY <1>1
  <2>3. \A k \in Indices : k \in Nat /\ k <= last
    BY <1>1 DEF Indices
  <2> QED BY <2>1, <2>2, <2>3
<1>11. \A m \in Ahead' : Location(m) # at
  BY <1>1, <1>2, <1>3
<1>12. upper' = nlocal' - (Len(list') - i' + 1)
  BY <1>1, <1>3
<1>13. CASE at = last
  <2>1. next' = next
    BY <1>13
  <2>2. ASSUME NEW m \in Ahead' PROVE Location(m)' = Location(m) /\ Location(m) # last
    <3>1. m \in Ahead /\ Location(m) # last
      BY <1>2, <1>11, <1>13
    <3>2. list[m] \in Nat /\ list[m] # last
      BY <1>1, <1>8, <1>10, <3>1
    <3>3. list[m] >= last <=> list[m] >= nlocal
      BY <1>1, <3>2
    <3> QED BY <1>8, <1>9, <2>1, <3>1, <3>3
  <2>3. \A m \in Ahead' : Location(m)' \in Indices'
    <3> SUFFICES ASSUME NEW m \in Ahead' PROVE Location(m)' \in Indices'
      OBVIOUS
    <3>1. Location(m) \in Nat /\ Location(m) <= last /\ Location(m) # last
      BY <1>2, <1>10, <2>2
    <3>2. Location(m) \in 0 .. nlocal - 2
      BY <1>7, <3>1
    <3> QED BY <2>2, <3>2
  <2>4. \A m \in Ahead' : /\ list'[m] \in upper' .. nlocal' - 1 => next'[list'[m]] = list'[m]
                          /\ list'[m] >= nlocal' /\ Location(m)' >= upper' => next'[Location(m)'] = list'[m]
    <3> SUFFICES ASSUME NEW m \in Ahead'
                 PROVE  /\ list[m] \in upper .. nlocal' - 1 => next[list[m]] = list[m]
                        /\ list[m] >= nlocal' /\ Location(m)' >= upper => next[Location(m)'] = list[m]
      BY <2>1
    <3>1. m \in Ahead /\ Location(m)' = Location(m) /\ Location(m) # last /\ list[m] \in Nat
      BY <1>2, <1>10, <2>2
    <3>2. list[m] # last
      BY <1>1, <1>8, <1>10, <3>1
    <3>3. (list[m] >= nlocal' <=> list[m] >= nlocal) /\ (list[m] \in upper .. nlocal' - 1 => list[m] \in upper .. nlocal - 1)
      BY <1>1, <3>1, <3>2
    <3> QED BY <1>4, <3>1, <3>3
  <2>5. \A k \in upper' .. nlocal' - 1 :
          next'[k] = k \/ (next'[k] >= nlocal' /\ next'[k] \in DOMAIN next' /\ next'[next'[k]] = k)
    <3> SUFFICES ASSUME NEW k \in upper .. nlocal' - 1
                 PROVE next[k] = k \/ (next[k] >= nlocal' /\ next[k] \in DOMAIN next /\ next[next[k]] = k)
      BY <2>1
    <3>1. k \in upper .. nlocal - 1
      BY <1>1
    <3>2. next[k] \in DOMAIN next /\ next[k] >= nlocal => next[k] >= nlocal'
      BY <1>1
    <3> QED BY <1>5, <3>1, <3>2
  <2>6. \A k \in Indices' : k \in DOMAIN next'
    <3>1. \A k \in Indices' : k \in Indices
      BY <1>1 DEF Indices
    <3> QED BY <1>3, <2>1, <3>1
  <2>7. \A m \in Ahead' : list'[m] \in DOMAIN next'
    BY <1>2, <1>3, <2>1
  <2>8. \A m, n \in Ahead' : Location(m)' = Location(n)' => m = n
    BY <1>2, <1>3, <2>2
  <2>9. Tracked'
    BY <1>12, <2>3, <2>4, <2>5, <2>6, <2>7, <2>8 DEF Tracked
  <2> QED BY <1>1, <1>2, <1>6, <2>1, <2>2, <2>9
<1>14. CASE at # last
  <2>1. q = last \/ (q >= nlocal /\ q \in DOMAIN next /\ next[q] = last)
    BY <1>5, <1>6
  <2>2. q \in DOMAIN next /\ q \in Nat /\ q >= last /\ q # at /\ at < last
    BY <1>1, <1>6, <1>14, <2>1
  <2>3. next' = [next EXCEPT ![at] = IF at >= upper THEN q ELSE @, ![q] = at]
    BY <1>14 DEF Followed
  <2>4. /\ DOMAIN next' = DOMAIN next /\ next'[q] = at
        /\ at >= upper => next'[at] = q
        /\ \A k \in DOMAIN next : k # at /\ k # q => next'[k] = next[k]
    <3> HIDE DEF at, q
    <3> QED BY <1>6, <2>2, <2>3
  <2>5. \A k \in DOMAIN next : next'[k] \in Int
    <3>1. next'[at] \in Int
      <4> HIDE DEF at, q
      <4>1. next'[at] = IF at >= upper THEN q ELSE next[at]
        BY <1>6, <2>2, <2>3
      <4>2. next[at] \in Int /\ q \in Int
        BY <1>1, <1>6, <2>2
      <4> QED BY <4>1, <4>2
    <3>2. next'[q] \in Int
      <4>1. at \in Int
        BY <1>6
      <4> QED BY <2>4, <4>1
    <3>3. \A k \in DOMAIN next : k # at /\ k # q => next'[k] \in Int
      BY <1>1, <2>4
    <3> HIDE DEF at, q
    <3> QED BY <3>1, <3>2, <3>3
  <2> HIDE DEF at, q
  <2>6. ASSUME NEW m \in Ahead'
        PROVE  /\ Location(m)' = IF Location(m) = last THEN at ELSE Location(m)
               /\ Location(m) = last <=> list[m] = q
               /\ Location(m) # last => (list[m] >= last <=> list[m] >= nlocal)
               /\ list[m] # at
    <3>1. m \in Ahead /\ Location(m) # at /\ list[m] \in Nat /\ list[m] \in DOMAIN next
          /\ Location(m) \in Nat /\ Location(m) <= last
      BY <1>2, <1>10, <1>11
    <3>2. Location(m) = IF list[m] >= nlocal THEN next[list[m]] ELSE list[m]
      BY <1>8, <3>1
    <3>3. Location(m)' = IF list[m] >= last THEN next'[list[m]] ELSE list[m]
      BY <1>9
    <3>4. list[m] # at
      BY <1>1, <1>6, <3>1, <3>2
    <3>5. list[m] \in Nat /\ nlocal \in Nat /\ last = nlocal - 1
      <4>1. list[m] \in Nat
        BY <3>1
      <4>2. nlocal \in Nat
        BY <1>1
      <4> QED BY <4>1, <4>2 DEF last
    <3>6. list[m] < last \/ list[m] = last \/ list[m] >= nlocal
      BY <3>5
    <3>7. CASE list[m] < last
      <4>1. ~(list[m] >= nlocal) /\ ~(list[m] >= last) /\ list[m] # q /\ list[m] # last
        BY <2>2, <3>7, <3>5
      <4> QED BY <3>2, <3>3, <3>4, <4>1
    <3>8. CASE list[m] = last
      <4>1. ~(last >= nlocal) /\ last >= last
        BY <1>1
      <4>2. next[list[m]] = list[m]
        BY <1>4, <1>6, <3>1, <3>8
      <4>3. list[m] = q /\ Location(m) = last
        BY <3>2, <3>8, <4>1, <4>2 DEF q
      <4> QED BY <2>4, <3>3, <3>4, <3>8, <4>1, <4>3
    <3>9. CASE list[m] >= nlocal
      <4>1. Location(m) = next[list[m]] /\ list[m] >= last
        BY <1>1, <3>1, <3>2, <3>9
      <4>2. list[m] = q => Location(m) = last
        <5>1. list[m] = q => q # last
          BY <1>1, <3>9
        <5> QED BY <2>1, <4>1, <5>1
      <4>3. Location(m) = last => list[m] = q
        <5>1. list[m] >= nlocal /\ Location(m) >= upper => next[Location(m)] = list[m]
          BY <1>4, <3>1
        <5>2. Location(m) = last => next[last] = list[m]
          BY <1>6, <3>9, <5>1
        <5> QED BY <5>2 DEF q
      <4>4. Location(m) # last => Location(m)' = Location(m)
        BY <2>4, <3>1, <3>3, <3>4, <4>1, <4>2
      <4>5. Location(m) = last => Location(m)' = at
        BY <2>4, <3>3, <4>1, <4>3
      <4> QED BY <3>4, <3>9, <4>1, <4>2, <4>3, <4>4, <4>5
    <3> QED BY <3>6, <3>7, <3>8, <3>9
  <2>7. \A m \in Ahead' : Location(m)' \in Indices'
    <3> SUFFICES ASSUME NEW m \in Ahead' PROVE Location(m)' \in Indices'
      OBVIOUS
    <3>1. Location(m) \in Nat /\ Location(m) <= last
      BY <1>2, <1>10
    <3>2. Location(m) # last => Location(m) \in 0 .. nlocal - 2
      BY <1>7, <3>1
    <3>3. at \in 0 .. nlocal - 2
      BY <1>1, <1>6, <2>2
    <3> QED BY <2>6, <3>2, <3>3
  <2>8. \A m, n \in Ahead' : Location(m)' = Location(n)' => m = n
    BY <1>2, <1>3, <1>11, <2>6
  <2>9. ASSUME NEW m \in Ahead'
        PROVE  list[m] \in upper .. nlocal' - 1 => next'[list[m]] = list[m]
    <3> SUFFICES ASSUME list[m] \in upper .. nlocal' - 1 PROVE next'[list[m]] = list[m]
      OBVIOUS
    <3>1. m \in Ahead /\ list[m] \in Nat /\ list[m] \in DOMAIN next
      BY <1>2, <1>10
    <3>2. list[m] \in upper .. nlocal - 1 /\ ~(list[m] >= last)
      BY <1>1
    <3>3. next[list[m]] = list[m]
      BY <1>4, <3>1, <3>2
    <3>4. list[m] # q /\ list[m] # at
      BY <2>2, <2>6, <3>2
    <3> QED BY <2>4, <3>1, <3>3, <3>4
  <2>10. ASSUME NEW m \in Ahead'
         PROVE  list[m] >= nlocal' /\ Location(m)' >= upper => next'[Location(m)'] = list[m]
    <3> SUFFICES ASSUME list[m] >= last, Location(m)' >= upper PROVE next'[Location(m)'] = list[m]
      OBVIOUS
    <3>1. CASE Location(m) = last
      BY <2>4, <2>6, <3>1
    <3>2. CASE Location(m) # last
      <4>1. Location(m)' = Location(m) /\ list[m] >= nlocal /\ m \in Ahead
        BY <1>2, <2>6, <3>2
      <4>2. next[Location(m)] = list[m]
        BY <1>4, <4>1
      <4>3. Location(m) # at /\ Location(m) # q /\ Location(m) \in DOMAIN next
        <5>1. Location(m) \in Nat /\ Location(m) <= last /\ Location(m) \in Indices
          BY <1>3, <1>10, <4>1
        <5>2. ~(Location(m) >= last)
          BY <1>6, <3>2, <5>1
        <5> QED BY <1>3, <1>11, <2>2, <5>1, <5>2
      <4> QED BY <2>4, <4>1, <4>2, <4>3
    <3> QED BY <3>1, <3>2
  <2>11. ASSUME NEW k \in upper .. nlocal' - 1
         PROVE  next'[k] = k \/ (next'[k] >= nlocal' /\ next'[k] \in DOMAIN next' /\ next'[next'[k]] = k)
    <3>1. k \in upper .. nlocal - 1 /\ k \in Int /\ k < last /\ k >= upper
      BY <1>1
    <3>2. k \in DOMAIN next /\ k # q
      <4>1. k \in Indices
        BY <1>1, <3>1 DEF Indices
      <4> QED BY <1>3, <2>2, <3>1, <4>1
    <3>3. CASE k = at
      <4>1. next'[k] = q /\ next'[q] = at
        BY <2>4, <3>1, <3>3
      <4> QED BY <2>2, <2>4, <3>3, <4>1
    <3>4. CASE k # at
      <4>1. next'[k] = next[k]
        BY <2>4, <3>2, <3>4
      <4>2. next[k] = k \/ (next[k] >= nlocal /\ next[k] \in DOMAIN next /\ next[next[k]] = k)
        BY <1>5, <3>1
      <4>3. CASE next[k] # k
        <5>1. next[k] >= nlocal /\ next[k] \in DOMAIN next /\ next[next[k]] = k
          BY <4>2, <4>3
        <5>2. next[k] # q
          <6>1. next[k] # last
            BY <1>1, <5>1
          <6>2. next[k] = q => k = last
            BY <2>1, <5>1, <6>1
          <6> QED BY <3>1, <6>2
        <5>3. next[k] # at /\ next[k] >= nlocal'
          BY <1>1, <1>6, <5>1
        <5>4. next'[next[k]] = k
          BY <2>4, <5>1, <5>2, <5>3
        <5> QED BY <2>4, <4>1, <5>1, <5>3, <5>4
      <4> QED BY <4>1, <4>3
    <3> QED BY <3>3, <3>4
  <2>12. \A k \in Indices' : k \in DOMAIN next'
    <3>1. \A k \in Indices' : k \in Indices
      BY <1>1 DEF Indices
    <3> QED BY <1>3, <2>4, <3>1
  <2>13. \A m \in Ahead' : list'[m] \in DOMAIN next'
    BY <1>2, <1>3, <2>4
  <2>14. Tracked'
    BY <1>12, <2>7, <2>8, <2>9, <2>10, <2>11, <2>12, <2>13 DEF Tracked
  <2> QED BY <1>2, <1>6, <2>4, <2>5, <2>6, <2>14 DEF at
<1> QED BY <1>13, <1>14

(* compress_reactions *)
LEMMA DeleteNextStep == Inv /\ DeleteNext => Inv'
<1> SUFFICES ASSUME Inv, DeleteNext PROVE Inv'
  OBVIOUS
<1> DEFINE at == Location(i)
<1>1. /\ stage' = stage /\ i <= Len(list) /\ ((stage = "compress" /\ setting.optmove) \/ stage = "delete")
      /\ particles' = Overwritten(at) /\ list' = list /\ i' = i + 1 /\ first' = first /\ upper' = upper
      /\ next' = IF at = nlocal - 1 THEN next ELSE Followed(at)
      /\ UNCHANGED <<maxlocal, grid>> /\ UNCHANGED <<setting, cells, first, sorted, half, norig, leaving, unpacked>>
  BY DEF DeleteNext, Busy, grid, migration
<1>2. Tracked /\ i >= 1 /\ i \in Nat /\ OfIndices(list) /\ list \in Seq(Nat) /\ upper \in Nat
  BY <1>1 DEF Inv, ListInv, TrackInv, At, TypeOK, LoopType
<1>3. Sizes /\ ListsType /\ nlocal \in Nat
  BY DEF Inv, TypeOK, Sizes
<1>4. at \in Indices
  <2>1. i \in Ahead
    BY <1>1, <1>2 DEF Ahead, OfIndices
  <2> QED BY <1>2, <2>1 DEF Tracked
<1>5. nlocal' = nlocal - 1 /\ Indices' = 0 .. nlocal - 2
  BY <1>1, <1>3, <1>4, OverwrittenArray
<1>6. /\ Tracked' /\ DOMAIN next' = DOMAIN next /\ (\A k \in DOMAIN next : next'[k] \in Int)
      /\ \A m : m \in Ahead' <=> m \in Ahead /\ m # i
      /\ \A m \in Ahead' : Location(m)' = IF Location(m) = nlocal - 1 THEN at ELSE Location(m)
  BY <1>1, <1>2, <1>3, <1>5, LocationsFollow
<1>7. /\ ParticlesType' /\ Distinct' /\ NamesDistinct' /\ cells' \in Seq(setting'.names)
      /\ nlocal' \in Nat /\ maxlocal' \in Nat /\ setting' \in Settings
      /\ Owned' = Owned /\ Names' = Names /\ \A c : InCell(c) = {} => InCell(c)' = {}
  BY <1>1, <1>4, Deleted
<1>8. \A k \in Indices' : \E q \in Indices : particles'[k] = particles[q] /\ (Placed(k)' <=> Placed(q))
  BY <1>1, <1>4, Deleted
<1>9. ListsType' /\ maxsort' \in Nat
  <2>1. maxsort' = maxsort
    BY <1>6 DEF maxsort
  <2> QED BY <1>1, <1>3, <1>6, <1>7, <2>1 DEF ListsType, Sizes
<1>10. TypeOK' /\ Sizes'
  <2>1. LoopType'
    BY <1>1, <1>2 DEF Inv, TypeOK, LoopType, Stages
  <2> QED BY <1>1, <1>7, <1>9, <2>1 DEF TypeOK, Sizes, Inv
<1>11. PlacesInv' /\ IdleInv' /\ WeighInv'
  <2>1. stage = "compress" => \A k \in Indices' : Placed(k)' \/ particles'[k].icell = 0
    <3>1. stage = "compress" => \A k \in Indices : Placed(k) \/ particles[k].icell = 0
      BY DEF Inv, PlacesInv, At
    <3> QED BY <1>8, <3>1
  <2>2. stage = "delete" => \A k \in Indices' : Placed(k)'
    <3>1. stage = "delete" => \A k \in Indices : Placed(k)
      BY DEF Inv, PlacesInv, At, Stages
    <3> QED BY <1>8, <3>1
  <2> QED BY <1>1, <2>1, <2>2 DEF PlacesInv, IdleInv, WeighInv, At, Stages
<1>12. ListInv'
  <2>1. i' >= 1
    BY <1>1, <1>2
  <2>2. OfIndices(list)'
    BY <1>1, <1>2 DEF OfIndices
  <2>3. ~setting.react /\ stage = "delete" => list = <<>>
    BY DEF Inv, ListInv, At
  <2> QED BY <1>1, <2>1, <2>2, <2>3 DEF ListInv, At
<1>13. stage = "compress" => LocatedAhead' = Leavers'
  <2> SUFFICES ASSUME stage = "compress" PROVE LocatedAhead' = Leavers'
    OBVIOUS
  <2>1. LocatedAhead = Leavers
    BY <1>1 DEF Inv, LeaversInv, At
  <2>2. i \in Ahead
    BY <1>1, <1>2 DEF Ahead, OfIndices
  <2>3. at \in Leavers
    BY <2>1, <2>2 DEF LocatedAhead
  <2>4. \A k : k \in Leavers' <=> \/ k \in Leavers /\ k # at /\ k # nlocal - 1
                                  \/ k = at /\ at # nlocal - 1 /\ nlocal - 1 \in Leavers
    BY <1>1, <1>4, <2>3, LeaversLess
  <2>5. \A m, n \in Ahead : Location(m) = Location(n) => m = n
    BY <1>2 DEF Tracked
  <2> HIDE DEF at
  <2>6. \A m \in Ahead : Location(m) = at <=> m = i
    BY <2>2, <2>5 DEF at
  <2>7. ASSUME NEW k \in LocatedAhead' PROVE k \in Leavers'
    <3>1. PICK m \in Ahead' : k = Location(m)'
      BY <2>7 DEF LocatedAhead
    <3>2. m \in Ahead /\ m # i /\ k = IF Location(m) = nlocal - 1 THEN at ELSE Location(m)
      BY <1>6, <3>1 DEF at
    <3>3. Location(m) \in Leavers /\ Location(m) # at
      BY <2>1, <2>6, <3>2 DEF LocatedAhead
    <3> QED BY <2>4, <3>2, <3>3
  <2>8. ASSUME NEW k \in Leavers' PROVE k \in LocatedAhead'
    <3>1. CASE k # at
      <4>1. k \in Leavers /\ k # nlocal - 1
        BY <2>4, <2>8, <3>1
      <4>2. PICK m \in Ahead : k = Location(m)
        BY <2>1, <4>1 DEF LocatedAhead
      <4>3. m \in Ahead' /\ Location(m)' = k
        BY <1>6, <2>6, <3>1, <4>1, <4>2 DEF at
      <4> QED BY <4>3 DEF LocatedAhead
    <3>2. CASE k = at
      <4>1. at # nlocal - 1 /\ nlocal - 1 \in Leavers
        BY <2>4, <2>8, <3>2
      <4>2. PICK m \in Ahead : nlocal - 1 = Location(m)
        BY <2>1, <4>1 DEF LocatedAhead
      <4>3. m \in Ahead' /\ Location(m)' = k
        BY <1>6, <2>6, <3>2, <4>1, <4>2 DEF at
      <4> QED BY <4>3 DEF LocatedAhead
    <3> QED BY <3>1, <3>2
  <2> QED BY <2>7, <2>8
<1>14. LeaversInv' /\ TrackInv'
  BY <1>1, <1>6, <1>13 DEF LeaversInv, TrackInv, At
<1>15. LeavingInv' /\ SortedInv'
  BY <1>1, <1>7 DEF LeavingInv, SortedInv, At, Inv, Rebalancing, Gone
<1>16. ChainInv'
  <2>1. stage = "compress" => ~sorted
    BY DEF Inv, SortedInv, At
  <2>2. stage = "delete" => setting.react
    <3>1. stage = "delete" /\ ~setting.react => list = <<>>
      BY DEF Inv, ListInv, At
    <3>2. list # <<>>
      BY <1>1, <1>2
    <3> QED BY <3>1, <3>2
  <2> QED BY <1>1, <2>1, <2>2 DEF ChainInv, InUse, At
<1> QED BY <1>7, <1>10, <1>11, <1>12, <1>14, <1>15, <1>16 DEF Inv

-----------------------------------------------------------------------------
(* post_weight *)
LEMMA DeleteOneStep == Inv /\ DeleteOne => Inv'
<1> SUFFICES ASSUME Inv, DeleteOne PROVE Inv'
  OBVIOUS
<1>1. /\ stage' = stage /\ stage = "weigh" /\ i < norig
      /\ particles' = Overwritten(i) /\ list' = list
      /\ i' = AfterDeletion.i /\ norig' = AfterDeletion.norig
      /\ UNCHANGED <<maxlocal, grid>>
      /\ UNCHANGED <<setting, cells, first, next, sorted, half, upper, leaving, unpacked>>
  BY DEF DeleteOne, Weighing, grid, lists, migration
<1>2. i \in Nat /\ norig \in Nat /\ norig <= nlocal /\ nlocal \in Nat
  BY <1>1 DEF Inv, TypeOK, LoopType, WeighInv, At, Sizes
<1>3. i \in Indices
  BY <1>1, <1>2 DEF Indices
<1>4. /\ ParticlesType' /\ Distinct' /\ NamesDistinct' /\ cells' \in Seq(setting'.names)
      /\ nlocal' = nlocal - 1 /\ nlocal' \in Nat /\ maxlocal' \in Nat /\ setting' \in Settings
      /\ Owned' = Owned /\ Names' = Names /\ \A c : InCell(c) = {} => InCell(c)' = {}
  BY <1>1, <1>3, Deleted
<1>5. \A k \in Indices' : \E q \in Indices : particles'[k] = particles[q] /\ (Placed(k)' <=> Placed(q))
  BY <1>1, <1>3, Deleted
<1>6. ListsType' /\ maxsort' \in Nat
  BY <1>1, <1>4, SameNext
<1>7. i' \in Nat /\ norig' \in Nat /\ norig' <= nlocal'
  <2>1. CASE nlocal > norig
    BY <1>1, <1>2, <1>4, <2>1 DEF AfterDeletion
  <2>2. CASE ~(nlocal > norig)
    <3>1. i' = i /\ norig' = norig - 1
      BY <1>1, <2>2 DEF AfterDeletion
    <3> QED BY <1>1, <1>2, <1>4, <2>2, <3>1
  <2> QED BY <2>1, <2>2
<1>8. TypeOK' /\ Sizes'
  <2>1. LoopType'
    BY <1>1, <1>7 DEF Inv, TypeOK, LoopType, Stages
  <2> QED BY <1>1, <1>4, <1>6, <2>1 DEF TypeOK, Sizes, Inv
<1>9. PlacesInv'
  <2>1. \A k \in Indices : Placed(k)
    BY <1>1 DEF Inv, PlacesInv, At, Stages
  <2>2. \A k \in Indices' : Placed(k)'
    BY <1>5, <2>1
  <2> QED BY <1>1, <2>2 DEF PlacesInv, At, Stages
<1>10. IdleInv' /\ WeighInv' /\ ListInv' /\ LeaversInv' /\ TrackInv'
  BY <1>1, <1>7 DEF IdleInv, WeighInv, ListInv, LeaversInv, TrackInv, At
<1>11. LeavingInv' /\ SortedInv'
  BY <1>1, <1>4 DEF LeavingInv, SortedInv, At, Inv, Rebalancing, Gone
<1>12. ChainInv'
  BY <1>1 DEF Inv, SortedInv, ChainInv, InUse, At
<1> QED BY <1>4, <1>8, <1>9, <1>10, <1>11, <1>12 DEF Inv

LEMMA Added ==
    ASSUME Inv, NEW new, Newcomers(new), AllPlaced(new), Add(new), UNCHANGED grid
    PROVE  /\ ParticlesType' /\ Distinct' /\ NamesDistinct' /\ cells' \in Seq(setting'.names)
           /\ nlocal' \in Nat /\ maxlocal' \in Nat /\ setting' \in Settings
           /\ nlocal' = nlocal + Len(new) /\ Len(new) \in Nat /\ nlocal \in Nat
           /\ setting' = setting /\ cells' = cells /\ Owned' = Owned /\ Names' = Names
           /\ Indices' = 0 .. nlocal' - 1 /\ Indices \subseteq Indices'
           /\ \A k \in Indices : particles'[k] = particles[k]
           /\ (\A k \in Indices : Placed(k)) => (\A k \in Indices' : Placed(k)')
<1>1. Sizes /\ nlocal \in Nat /\ ParticlesType /\ Distinct /\ NamesDistinct /\ cells \in Seq(setting.names)
  BY DEF Inv, Sizes, TypeOK
<1>2. setting' = setting /\ cells' = cells
  BY DEF grid
<1>3. Owned' = Owned /\ Names' = Names /\ NamesDistinct'
  BY <1>1, <1>2, SameCells
<1>4. new \in Seq(Particles) /\ DOMAIN new = 1 .. Len(new) /\ \A m \in DOMAIN new : new[m] \in Particles
  BY DEF Newcomers
<1>5. /\ nlocal' = nlocal + Len(new) /\ nlocal' \in Nat /\ maxlocal' \in Nat
      /\ nlocal' <= maxlocal' /\ Len(new) \in Nat
      /\ Indices' = 0 .. nlocal' - 1 /\ Indices \subseteq Indices'
      /\ DOMAIN particles' = Indices' /\ \A k \in Indices : particles'[k] = particles[k]
      /\ \A k \in Indices' : k \in Indices \/ (k - nlocal + 1 \in DOMAIN new
                                                /\ particles'[k] = new[k - nlocal + 1])
  BY <1>1, <1>4, AddedArray
<1>6. Distinct'
  BY <1>1, AddedHeld
<1>7. ParticlesType'
  <2>1. \A k \in Indices : particles[k] \in Particles
    BY <1>1 DEF ParticlesType
  <2>2. \A k \in Indices' : particles'[k] \in Particles
    BY <1>4, <1>5, <2>1
  <2> QED BY <1>5, <2>2 DEF ParticlesType
<1>8. ASSUME \A k \in Indices : Placed(k), NEW k \in Indices' PROVE Placed(k)'
  <2>1. CASE k \in Indices
    BY <1>2, <1>3, <1>5, <1>8, <2>1 DEF Placed
  <2>2. CASE k \notin Indices
    <3>1. PICK m \in DOMAIN new : particles'[k] = new[m]
      BY <1>5, <2>2
    <3> QED BY <1>2, <1>3, <3>1 DEF Placed, AllPlaced
  <2> QED BY <2>1, <2>2
<1> QED BY <1>1, <1>2, <1>3, <1>5, <1>6, <1>7, <1>8 DEF Sizes

\* With more particles the lists hold those that they held.
LEMMA ChainMore ==
    ASSUME Inv, Indices \subseteq Indices', \A k \in Indices : particles'[k] = particles[k],
           cells' = cells, first' = first, next' = next,
           InUse' => InUse, Complete' => FALSE, Gone \subseteq Gone'
    PROVE  ChainInv'
<1> SUFFICES ASSUME InUse', NEW c \in Owned, cells[c] \notin Gone'
             PROVE  \E s : ChainOf(c, s)'
  BY SameCells DEF ChainInv
<1>1. PICK s : ChainOf(c, s)
  BY DEF ChainInv, Inv
<1>2. On(s) \subseteq InCell(c)' /\ Linked(c, s)
  BY <1>1 DEF ChainOf, InCell
<1>3. s \in Seq(Indices')
  BY <1>2 DEF Linked
<1>4. Linked(c, s)'
  BY <1>2, <1>3 DEF Linked
<1>5. ChainOf(c, s)'
  BY <1>2, <1>4 DEF ChainOf
<1> QED BY <1>5

LEMMA EmitStep == Inv /\ Emit => Inv'
<1> SUFFICES ASSUME Inv, Emit PROVE Inv'
  OBVIOUS
<1>1. PICK new \in NewHere(1) : Add(new)
  BY DEF Emit
<1>2. /\ stage = "start" /\ stage' = "start" /\ list' = list /\ i' = i /\ UNCHANGED grid
      /\ UNCHANGED <<setting, cells, first, next, sorted, half, upper, norig, leaving, unpacked>>
  BY DEF Emit, Go, grid, lists, loop, migration
<1>3. Newcomers(new) /\ AllPlaced(new)
  BY NewHereIs DEF Inv, Sizes, TypeOK
<1>4. /\ ParticlesType' /\ Distinct' /\ NamesDistinct' /\ cells' \in Seq(setting'.names)
      /\ nlocal' \in Nat /\ maxlocal' \in Nat /\ setting' \in Settings
      /\ Owned' = Owned /\ Names' = Names /\ Indices \subseteq Indices'
      /\ \A k \in Indices : particles'[k] = particles[k]
      /\ (\A k \in Indices : Placed(k)) => (\A k \in Indices' : Placed(k)')
  BY <1>1, <1>2, <1>3, Added
<1>5. ListsType' /\ maxsort' \in Nat
  BY <1>2, <1>4, SameNext
<1>6. TypeOK' /\ Sizes'
  <2>1. LoopType'
    BY <1>2 DEF Inv, TypeOK, LoopType
  <2> QED BY <1>2, <1>4, <1>5, <2>1 DEF TypeOK, Sizes, Inv
<1>7. PlacesInv'
  <2>1. \A k \in Indices : Placed(k)
    BY <1>2 DEF Inv, PlacesInv, At, Stages
  <2> QED BY <1>2, <1>4, <2>1 DEF PlacesInv, At
<1>8. IdleInv' /\ WeighInv' /\ ListInv' /\ LeaversInv' /\ TrackInv'
  BY <1>2 DEF IdleInv, WeighInv, ListInv, LeaversInv, TrackInv, At, Inv
<1>9. LeavingInv' /\ SortedInv'
  BY <1>2, <1>4 DEF LeavingInv, SortedInv, At, Inv, Rebalancing, Gone
<1>10. ChainInv'
  BY <1>2, <1>4, ChainMore DEF InUse, Complete, At, GivenUp, Gone
<1> QED BY <1>4, <1>6, <1>7, <1>8, <1>9, <1>10 DEF Inv

\* What comes in carries the weight of its cell.
LEMMA CameAre ==
    ASSUME Inv, NEW new \in NewHere(1), NEW name \in setting.names,
           NEW came, came = [k \in DOMAIN new |-> [new[k] EXCEPT !.weight = WeightOf(name)]]
    PROVE  Newcomers(came) /\ AllPlaced(came) /\ Len(came) = Len(new)
<1>1. Newcomers(new) /\ AllPlaced(new)
  BY NewHereIs DEF Inv, Sizes, TypeOK
<1>2. name \in CellNames /\ setting \in Settings
  BY SettingsAssumption DEF Inv, Sizes
<1>3. WeightOf(name) \in Nat
  BY <1>2, WeightIs
<1>4. new \in Seq(Particles) /\ DOMAIN new = 1 .. Len(new) /\ Len(new) \in Nat
  BY <1>1 DEF Newcomers
<1>5. ASSUME NEW k \in DOMAIN new
      PROVE  came[k] \in Particles /\ came[k].id = new[k].id /\ came[k].icell = new[k].icell /\ came[k].x = new[k].x
  <2>1. new[k] \in Particles /\ came[k] = [new[k] EXCEPT !.weight = WeightOf(name)]
    BY <1>4
  <2> QED BY <1>3, <2>1 DEF Particles
<1>6. DOMAIN came = 1 .. Len(new) /\ came = [k \in 1 .. Len(new) |-> came[k]]
  BY <1>4
<1>7. came \in Seq(Particles) /\ Len(came) = Len(new)
  BY <1>4, <1>5, <1>6
<1> QED BY <1>1, <1>4, <1>5, <1>6, <1>7 DEF Newcomers, AllPlaced

LEMMA ArriveStep == Inv /\ Arrive => Inv'
<1> SUFFICES ASSUME Inv, Arrive PROVE Inv'
  OBVIOUS
<1>1. PICK new \in NewHere(1), name \in setting.names :
         /\ Add([k \in DOMAIN new |-> [new[k] EXCEPT !.weight = WeightOf(name)]])
         /\ norig' = IF setting.weighted THEN nlocal + Len(new) ELSE 0
  BY DEF Arrive
<1> DEFINE came == [k \in DOMAIN new |-> [new[k] EXCEPT !.weight = WeightOf(name)]]
<1>2. /\ stage = "arrive" /\ stage' = "weigh" /\ list' = list /\ i' = 0 /\ UNCHANGED grid
      /\ UNCHANGED <<setting, cells, first, next, sorted, half, upper, leaving, unpacked>>
  BY DEF Arrive, Go, grid, lists, migration
<1>3. Newcomers(came) /\ AllPlaced(came) /\ Len(came) = Len(new)
  BY CameAre
<1>4. Add(came)
  BY <1>1
<1> HIDE DEF came
<1>5. /\ ParticlesType' /\ Distinct' /\ NamesDistinct' /\ cells' \in Seq(setting'.names)
      /\ nlocal' \in Nat /\ maxlocal' \in Nat /\ setting' \in Settings
      /\ Owned' = Owned /\ Names' = Names
      /\ (\A k \in Indices : Placed(k)) => (\A k \in Indices' : Placed(k)')
  BY <1>2, <1>3, <1>4, Added
<1>6. norig' \in Nat /\ norig' <= nlocal'
  <2>1. nlocal' = nlocal + Len(came) /\ nlocal' \in Nat
    BY <1>2, <1>3, <1>4, Added
  <2> QED BY <1>1, <1>3, <2>1
<1>7. ListsType' /\ maxsort' \in Nat
  BY <1>2, <1>5, SameNext
<1>8. TypeOK' /\ Sizes'
  <2>1. LoopType'
    BY <1>2, <1>6 DEF Inv, TypeOK, LoopType, Stages
  <2> QED BY <1>2, <1>5, <1>7, <2>1 DEF TypeOK, Sizes, Inv
<1>9. PlacesInv'
  <2>1. \A k \in Indices : Placed(k)
    BY <1>2 DEF Inv, PlacesInv, At, Stages
  <2> QED BY <1>2, <1>5, <2>1 DEF PlacesInv, At
<1>10. IdleInv' /\ WeighInv' /\ ListInv' /\ LeaversInv' /\ TrackInv'
  BY <1>2, <1>6 DEF IdleInv, WeighInv, ListInv, LeaversInv, TrackInv, At
<1>11. LeavingInv' /\ SortedInv'
  BY <1>2, <1>5 DEF LeavingInv, SortedInv, At, Inv, Rebalancing, Gone
<1>12. ChainInv'
  BY <1>2 DEF Inv, SortedInv, ChainInv, InUse, At
<1> QED BY <1>5, <1>8, <1>9, <1>10, <1>11, <1>12 DEF Inv

\* A cell with a smaller weight needs at least one copy of a particle.
LEMMA CloneCountsAre ==
    ASSUME Inv, Weighing, particles[i].weight > CellWeight, NEW n \in CloneCounts
    PROVE  n \in Nat
<1>1. i \in Indices
  <2>1. i \in Nat /\ norig \in Nat /\ norig <= nlocal /\ nlocal \in Nat /\ i < norig
    BY DEF Inv, TypeOK, LoopType, WeighInv, At, Sizes, Weighing
  <2> QED BY <2>1 DEF Indices
<1>2. particles[i] \in Particles /\ Placed(i)
  BY <1>1 DEF Inv, TypeOK, ParticlesType, PlacesInv, At, Weighing, Stages
<1>3. CellWeight \in Nat \ {0}
  <2>1. cells \in Seq(setting.names) /\ setting \in Settings /\ setting.names \subseteq CellNames
    BY SettingsAssumption DEF Inv, TypeOK, Sizes
  <2>2. cells[particles[i].icell] \in CellNames
    BY <1>2, <2>1 DEF Placed, Owned
  <2> QED BY <2>1, <2>2, WeightIs DEF CellWeight
<1>4. particles[i].weight \in Nat
  BY <1>2 DEF Particles
<1> DEFINE w == particles[i].weight
           r == w \div CellWeight
<1>5. r \in Nat /\ w < CellWeight * r + CellWeight
  <2> HIDE DEF w
  <2>1. w \in Nat
    BY <1>4 DEF w
  <2> QED BY <1>3, <2>1
<1>6. r # 0
  <2> SUFFICES ASSUME r = 0 PROVE FALSE
    OBVIOUS
  <2>1. CellWeight * r = 0
    BY <1>3
  <2>2. w < CellWeight
    <3> HIDE DEF w, r
    <3> QED BY <1>3, <1>5, <2>1
  <2>3. w \in Int /\ CellWeight \in Int
    BY <1>3, <1>4
  <2> HIDE DEF w
  <2> QED BY <2>2, <2>3 DEF w
<1>7. n = r - 1 \/ n = r
  BY DEF CloneCounts
<1> HIDE DEF r
<1> QED BY <1>5, <1>6, <1>7

LEMMA ClonesAre ==
    ASSUME Inv, Weighing, particles[i].weight > CellWeight, NEW n \in CloneCounts,
           NEW ids \in Injection(1 .. n, FreeIds), NEW new, new = [k \in 1 .. n |-> [particles[i] EXCEPT !.id = ids[k]]]
    PROVE  /\ Newcomers(new) /\ AllPlaced(new)
           /\ i \in Indices /\ i \in Nat /\ norig \in Nat /\ norig <= nlocal /\ nlocal \in Nat
<1>1. i < norig /\ i \in Nat /\ norig \in Nat /\ norig <= nlocal /\ nlocal \in Nat
  BY DEF Inv, TypeOK, LoopType, WeighInv, At, Sizes, Weighing
<1>2. i \in Indices
  BY <1>1 DEF Indices
<1>3. particles[i] \in Particles /\ Placed(i)
  BY <1>2 DEF Inv, TypeOK, ParticlesType, PlacesInv, At, Stages, Weighing
<1>4. n \in Nat
  BY CloneCountsAre
<1>5. ids \in [1 .. n -> FreeIds] /\ \A a, b \in 1 .. n : ids[a] = ids[b] => a = b
  BY DEF Injection, IsInjective
<1>6. ASSUME NEW k \in 1 .. n
      PROVE  new[k] \in Particles /\ new[k].id = ids[k] /\ new[k].icell = particles[i].icell /\ new[k].x = particles[i].x
  <2>1. new[k] = [particles[i] EXCEPT !.id = ids[k]] /\ ids[k] \in Ids
    BY <1>5 DEF FreeIds
  <2> QED BY <1>3, <2>1 DEF Particles
<1>7. new = [k \in 1 .. n |-> new[k]]
  OBVIOUS
<1>8. new \in Seq(Particles) /\ DOMAIN new = 1 .. n
  BY <1>4, <1>6, <1>7
<1>9. Newcomers(new) /\ AllPlaced(new)
  BY <1>3, <1>5, <1>6, <1>8 DEF Newcomers, AllPlaced, Placed
<1> QED BY <1>1, <1>2, <1>9

LEMMA CloneOneStep == Inv /\ CloneOne => Inv'
<1> SUFFICES ASSUME Inv, CloneOne PROVE Inv'
  OBVIOUS
<1>1. PICK n \in CloneCounts : \E ids \in Injection(1 .. n, FreeIds) :
         Add([k \in 1 .. n |-> [particles[i] EXCEPT !.id = ids[k]]])
  BY DEF CloneOne
<1>2. PICK ids \in Injection(1 .. n, FreeIds) :
         Add([k \in 1 .. n |-> [particles[i] EXCEPT !.id = ids[k]]])
  BY <1>1
<1> DEFINE new == [k \in 1 .. n |-> [particles[i] EXCEPT !.id = ids[k]]]
<1>3. /\ stage = "weigh" /\ stage' = stage /\ i < norig /\ list' = list /\ i' = i + 1 /\ UNCHANGED grid
      /\ UNCHANGED <<setting, cells, first, next, sorted, half, upper, norig, leaving, unpacked>>
  BY DEF CloneOne, Weighing, grid, lists, migration
<1>4. Newcomers(new) /\ AllPlaced(new) /\ norig <= nlocal /\ norig \in Nat /\ nlocal \in Nat
  BY <1>2, ClonesAre DEF CloneOne
<1>5. Add(new)
  BY <1>2
<1> HIDE DEF new
<1>6. /\ ParticlesType' /\ Distinct' /\ NamesDistinct' /\ cells' \in Seq(setting'.names)
      /\ nlocal' \in Nat /\ maxlocal' \in Nat /\ setting' \in Settings /\ nlocal' = nlocal + Len(new) /\ Len(new) \in Nat
      /\ Owned' = Owned /\ Names' = Names
      /\ (\A k \in Indices : Placed(k)) => (\A k \in Indices' : Placed(k)')
  BY <1>3, <1>4, <1>5, Added
<1>7. ListsType' /\ maxsort' \in Nat
  BY <1>3, <1>6, SameNext
<1>8. TypeOK' /\ Sizes'
  <2>1. LoopType'
    BY <1>3 DEF Inv, TypeOK, LoopType, Stages
  <2> QED BY <1>3, <1>6, <1>7, <2>1 DEF TypeOK, Sizes, Inv
<1>9. PlacesInv'
  <2>1. \A k \in Indices : Placed(k)
    BY <1>3 DEF Inv, PlacesInv, At, Stages
  <2> QED BY <1>3, <1>6, <2>1 DEF PlacesInv, At
<1>10. IdleInv' /\ WeighInv' /\ ListInv' /\ LeaversInv' /\ TrackInv'
  <2>1. norig' <= nlocal'
    BY <1>3, <1>6, <1>4
  <2> QED BY <1>3, <2>1 DEF IdleInv, WeighInv, ListInv, LeaversInv, TrackInv, At
<1>11. LeavingInv' /\ SortedInv'
  BY <1>3, <1>6 DEF LeavingInv, SortedInv, At, Inv, Rebalancing, Gone
<1>12. ChainInv'
  BY <1>3 DEF Inv, SortedInv, ChainInv, InUse, At
<1> QED BY <1>6, <1>8, <1>9, <1>10, <1>11, <1>12 DEF Inv

LEMMA CollisionsStep == Inv /\ Collisions => Inv'
<1> SUFFICES ASSUME Inv, Collisions PROVE Inv'
  OBVIOUS
<1>1. PICK new \in NewHere(1) : \E gone \in SUBSET (0 .. nlocal + Len(new) - 1) : \E dellist \in Orders(gone) :
        /\ ~setting.react => new = <<>> /\ gone = {}
        /\ Add(new) /\ list' = dellist
  BY DEF Collisions
<1>2. PICK gone \in SUBSET (0 .. nlocal + Len(new) - 1) : \E dellist \in Orders(gone) :
        /\ ~setting.react => new = <<>> /\ gone = {}
        /\ Add(new) /\ list' = dellist
  BY <1>1
<1>3. /\ stage = "react" /\ stage' = "reacted" /\ i' = 1 /\ UNCHANGED grid
      /\ UNCHANGED <<setting, cells, first, next, sorted, half, upper, norig, leaving, unpacked>>
  BY DEF Collisions, Go, grid, lists, migration
<1>4. Newcomers(new) /\ AllPlaced(new)
  BY NewHereIs DEF Inv, Sizes, TypeOK
<1>5. Add(new) /\ list' \in Orders(gone) /\ (~setting.react => gone = {})
  BY <1>2
<1>6. /\ ParticlesType' /\ Distinct' /\ NamesDistinct' /\ cells' \in Seq(setting'.names)
      /\ nlocal' \in Nat /\ maxlocal' \in Nat /\ setting' \in Settings
      /\ nlocal' = nlocal + Len(new) /\ Len(new) \in Nat /\ nlocal \in Nat /\ Indices' = 0 .. nlocal' - 1
      /\ Owned' = Owned /\ Names' = Names /\ Indices \subseteq Indices'
      /\ \A k \in Indices : particles'[k] = particles[k]
      /\ (\A k \in Indices : Placed(k)) => (\A k \in Indices' : Placed(k)')
  BY <1>3, <1>4, <1>5, Added
<1>7. OfIndices(list)' /\ On(list') \subseteq Indices' /\ (~setting.react => list' = <<>>) /\ list' \in Seq(Nat)
  <2>1. 0 .. nlocal + Len(new) - 1 = Indices'
    BY <1>6
  <2>2. gone \in SUBSET Nat /\ IsFiniteSet(gone) /\ gone \subseteq Indices'
    <3>1. IsFiniteSet(Indices') /\ Indices' \subseteq Nat
      BY <1>6, Below
    <3> QED BY <2>1, <3>1, FS_Subset
  <2>3. list' \in Seq(Nat) /\ On(list') = gone /\ \A m, n \in DOMAIN list' : list'[m] = list'[n] => m = n
    BY <1>5, <2>2, OrdersOf
  <2>4. gone = {} => list' = <<>>
    <3>1. gone = {} => DOMAIN list' = {}
      BY <2>3 DEF On
    <3> QED BY <2>3, <3>1
  <2> QED BY <1>5, <2>2, <2>3, <2>4 DEF OfIndices
<1>8. ListsType' /\ maxsort' \in Nat
  BY <1>3, <1>6, SameNext
<1>9. TypeOK' /\ Sizes'
  <2>1. LoopType'
    BY <1>3, <1>7 DEF Inv, TypeOK, LoopType, Stages
  <2> QED BY <1>3, <1>6, <1>8, <2>1 DEF TypeOK, Sizes, Inv
<1>10. PlacesInv'
  <2>1. \A k \in Indices : Placed(k)
    BY <1>3 DEF Inv, PlacesInv, At, Stages
  <2> QED BY <1>3, <1>6, <2>1 DEF PlacesInv, At
<1>11. IdleInv' /\ WeighInv' /\ LeaversInv' /\ TrackInv'
  BY <1>3 DEF IdleInv, WeighInv, LeaversInv, TrackInv, At
<1>12. ListInv'
  <2>1. On(list)' \subseteq Indices'
    BY <1>7 DEF On
  <2> QED BY <1>3, <1>7, <2>1 DEF ListInv, At
<1>13. LeavingInv' /\ SortedInv'
  BY <1>3, <1>6 DEF LeavingInv, SortedInv, At, Inv, Rebalancing, Gone
<1>14. ChainInv'
  BY <1>3, <1>6, ChainMore DEF InUse, Complete, At, GivenUp, Gone
<1> QED BY <1>6, <1>9, <1>10, <1>11, <1>13, <1>14, <1>12 DEF Inv

LEMMA MoveStep == Inv /\ Move => Inv'
<1> SUFFICES ASSUME Inv, Move PROVE Inv'
  OBVIOUS
<1>1. PICK at \in [Indices -> Owned \union {0}] :
        /\ list' \in Mlists({k \in Indices : at[k] = 0})
        /\ particles' = [k \in Indices |->
              [id |-> particles[k].id,
               x |-> IF at[k] = 0 THEN particles[k].x ELSE cells[at[k]],
               icell |-> at[k],
               weight |-> WeightOf(cells[particles[k].icell])]]
  BY DEF Move
<1>2. /\ stage = "start" /\ stage' = "migrate" /\ i' = 1 /\ sorted' = FALSE
      /\ UNCHANGED <<maxlocal, setting, cells, first, next, half, upper, norig, leaving, unpacked>>
  BY DEF Move, Go, MovedSorted, grid, migration
<1>3. /\ Sizes /\ nlocal \in Nat /\ maxlocal \in Nat /\ maxsort \in Nat /\ setting \in Settings
      /\ ParticlesType /\ ListsType /\ LoopType
      /\ cells \in Seq(setting.names) /\ setting.names \subseteq CellNames
  BY SettingsAssumption DEF Inv, Sizes, TypeOK
<1>4. DOMAIN particles' = 0 .. nlocal - 1
  BY <1>1 DEF Indices
<1>5. nlocal' = nlocal /\ Indices' = Indices /\ DOMAIN particles' = Indices'
  BY <1>3, <1>4, ArrayOf DEF Indices
<1>6. Owned' = Owned /\ Names' = Names /\ NamesDistinct'
  BY <1>2, SameCells DEF Inv
<1>7. ASSUME NEW k \in Indices
      PROVE  /\ particles'[k] \in Particles /\ particles'[k].id = particles[k].id
             /\ particles'[k].icell = at[k] /\ (at[k] # 0 => particles'[k].x = cells[at[k]] /\ at[k] \in Owned)
  <2>1. particles[k] \in Particles /\ Placed(k)
    BY <1>2, <1>3 DEF ParticlesType, Inv, PlacesInv, At, Stages
  <2>2. \A c \in Owned : cells[c] \in CellNames /\ c \in Nat
    BY <1>3 DEF Owned
  <2>3. at[k] \in Owned \union {0} /\ at[k] \in Nat /\ (at[k] # 0 => at[k] \in Owned)
    BY <2>2
  <2>4. WeightOf(cells[particles[k].icell]) \in Nat
    <3>1. cells[particles[k].icell] \in CellNames
      BY <2>1, <2>2 DEF Placed
    <3> QED BY <1>3, <3>1, WeightIs
  <2>5. particles[k].id \in Ids /\ particles[k].x \in CellNames
    BY <2>1 DEF Particles
  <2>6. particles'[k] =
              [id |-> particles[k].id,
               x |-> IF at[k] = 0 THEN particles[k].x ELSE cells[at[k]],
               icell |-> at[k],
               weight |-> WeightOf(cells[particles[k].icell])]
    BY <1>1
  <2>7. at[k] # 0 => cells[at[k]] \in CellNames
    BY <2>2, <2>3
  <2>8. particles'[k] \in Particles
    BY <2>3, <2>4, <2>5, <2>6, <2>7 DEF Particles
  <2> QED BY <2>3, <2>6, <2>8
<1>8. ParticlesType' /\ Distinct'
  BY <1>2, <1>3, <1>5, <1>7 DEF ParticlesType, Distinct, Inv
<1>9. ListsType' /\ Sizes'
  <2>1. maxsort' = maxsort
    BY <1>2 DEF maxsort
  <2> QED BY <1>2, <1>3, <1>5, <1>6, <2>1 DEF ListsType, Sizes
<1>10. Leavers' = {k \in Indices : at[k] = 0}
  BY <1>5, <1>7 DEF Leavers
<1>11. OfIndices(list') /\ On(list') = Leavers' /\ (setting.optmove \/ Ascending(list'))
  <2>1. IsFiniteSet(Indices) /\ Indices \subseteq Nat
    <3>1. IsFiniteSet(0 .. nlocal - 1)
      BY <1>3, Below
    <3>2. 0 .. nlocal - 1 \subseteq Nat
      OBVIOUS
    <3> QED BY <3>1, <3>2 DEF Indices
  <2>2. {k \in Indices : at[k] = 0} \in SUBSET Nat /\ IsFiniteSet({k \in Indices : at[k] = 0})
    BY <2>1, FS_Subset
  <2> DEFINE S == {k \in Indices : at[k] = 0}
  <2>3. list' \in Mlists(S) /\ S \in SUBSET Nat /\ IsFiniteSet(S) /\ S = Leavers'
    BY <1>1, <1>10, <2>2
  <2> HIDE DEF S
  <2>4. OfIndices(list') /\ On(list') = S /\ (setting.optmove \/ Ascending(list'))
    BY <2>3, MlistIs
  <2> QED BY <2>3, <2>4
<1>12. ListedAhead' = Leavers' /\ OfIndices(list)' /\ On(list)' = Leavers' /\ (~setting.optmove => Ascending(list)')
  <2>1. OfIndices(list)' /\ On(list)' = Leavers' /\ (~setting.optmove => Ascending(list)')
    BY <1>11 DEF OfIndices, On, Ascending
  <2>2. Ahead' = DOMAIN list'
    BY <1>2, <1>11 DEF Ahead, OfIndices
  <2> QED BY <2>1, <2>2 DEF ListedAhead, On
<1>13. TypeOK'
  <2>1. LoopType'
    BY <1>2, <1>3, <1>11 DEF LoopType, Stages, OfIndices
  <2> QED BY <1>2, <1>3, <1>8, <1>9, <2>1 DEF TypeOK, Inv
<1>14. PlacesInv' /\ IdleInv' /\ WeighInv'
  <2>1. \A k \in Indices' : Placed(k)' \/ particles'[k].icell = 0
    BY <1>2, <1>5, <1>6, <1>7 DEF Placed
  <2> QED BY <1>2, <2>1 DEF PlacesInv, IdleInv, WeighInv, At, Stages
<1>15. ListInv' /\ LeaversInv' /\ TrackInv'
  <2>1. Leavers' \subseteq Indices'
    BY DEF Leavers
  <2> QED BY <1>2, <1>12, <2>1 DEF ListInv, LeaversInv, TrackInv, At
<1>16. LeavingInv' /\ SortedInv' /\ ChainInv'
  BY <1>2, <1>6 DEF LeavingInv, SortedInv, ChainInv, InUse, At, Inv, Rebalancing, Gone
<1> QED BY <1>6, <1>8, <1>9, <1>13, <1>14, <1>15, <1>16 DEF Inv

(* What the linked lists say of the cells that migrate.                    *)
LEMMA ListedIs ==
    ASSUME Inv, InUse, Complete, NEW c \in Owned, cells[c] \notin Gone
    PROVE  Listed(c) = InCell(c)
<1>1. PICK s : ChainOf(c, s)
  BY DEF Inv, ChainInv
<1>2. Linked(c, s) /\ On(s) = InCell(c)
  BY <1>1 DEF ChainOf
<1>3. Sizes /\ DOMAIN next = 0 .. maxsort - 1
  BY DEF Inv, TypeOK, ListsType
<1> QED BY <1>2, <1>3, ListedOn

LEMMA IndexOfIs ==
    ASSUME NamesDistinct, NEW name \in Names
    PROVE  /\ IndexOf(name) \in Owned /\ cells[IndexOf(name)] = name
           /\ \A c \in Owned : cells[c] = name => c = IndexOf(name)
<1>1. \E c \in Owned : cells[c] = name
  BY DEF Names
<1>2. IndexOf(name) \in Owned /\ cells[IndexOf(name)] = name
  BY <1>1 DEF IndexOf
<1> QED BY <1>2 DEF NamesDistinct

(* pack_particles marks the particles of the cells, and no other.          *)
LEMMA PackedIs ==
    ASSUME Inv, stage = "pack", NEW names \in SUBSET unpacked
    PROVE  /\ \A k \in Indices : Packed(names)[k] = IF cells[particles[k].icell] \in names
                                   THEN [particles[k] EXCEPT !.icell = -1] ELSE particles[k]
           /\ DOMAIN Packed(names) = Indices
<1>1. sorted /\ Rebalancing /\ (\A k \in Indices : Placed(k)) /\ leaving \subseteq Names /\ NamesDistinct
  BY DEF Inv, SortedInv, PlacesInv, LeavingInv, At, Stages, Rebalancing
<1>2. InUse /\ Complete
  BY <1>1 DEF InUse, Complete, GivenUp, At
<1>3. \A name \in names : name \in Names /\ name \notin Gone
  BY <1>1 DEF Inv, TypeOK, Gone
<1>4. ASSUME NEW k \in Indices, NEW name \in names
      PROVE  k \in Listed(IndexOf(name)) <=> cells[particles[k].icell] = name
  <2>1. /\ IndexOf(name) \in Owned /\ cells[IndexOf(name)] = name
        /\ \A c \in Owned : cells[c] = name => c = IndexOf(name)
    BY <1>1, <1>3, IndexOfIs
  <2>2. Listed(IndexOf(name)) = InCell(IndexOf(name))
    BY <1>2, <1>3, <2>1, ListedIs
  <2>3. particles[k].icell \in Owned
    BY <1>1 DEF Placed
  <2> QED BY <2>1, <2>2, <2>3 DEF InCell
<1>5. DOMAIN Packed(names) = Indices
  BY DEF Packed
<1>6. ASSUME NEW k \in Indices
      PROVE  Packed(names)[k] = IF cells[particles[k].icell] \in names
                                   THEN [particles[k] EXCEPT !.icell = -1] ELSE particles[k]
  <2>1. (\E name \in names : k \in Listed(IndexOf(name))) <=> cells[particles[k].icell] \in names
    BY <1>4
  <2>2. Packed(names)[k] = IF \E name \in names : k \in Listed(IndexOf(name))
                                      THEN [particles[k] EXCEPT !.icell = -1] ELSE particles[k]
    BY DEF Packed
  <2> QED BY <2>1, <2>2
<1> QED BY <1>5, <1>6

\* Grid::compress points the particles of the remaining cells to them.
LEMMA RepointedIs ==
    ASSUME \A c \in Remaining : Listed(c) = InCell(c), NEW ps
    PROVE  /\ \A k \in Indices : Repointed(ps)[k] = IF particles[k].icell \in Remaining
                                   THEN [ps[k] EXCEPT !.icell = NewIndex(particles[k].icell)] ELSE ps[k]
           /\ DOMAIN Repointed(ps) = Indices
<1>1. ASSUME NEW k \in Indices, NEW c \in Remaining PROVE k \in Listed(c) <=> particles[k].icell = c
  BY DEF InCell
<1>2. ASSUME NEW k \in Indices
      PROVE  Repointed(ps)[k] = IF particles[k].icell \in Remaining
                                   THEN [ps[k] EXCEPT !.icell = NewIndex(particles[k].icell)] ELSE ps[k]
  <2>1. Repointed(ps)[k] = IF \E c \in Remaining : k \in Listed(c)
         THEN [ps[k] EXCEPT !.icell = NewIndex(CHOOSE c \in Remaining : k \in Listed(c))]
         ELSE ps[k]
    BY DEF Repointed
  <2>2. (\E c \in Remaining : k \in Listed(c)) <=> particles[k].icell \in Remaining
    BY <1>1
  <2>3. particles[k].icell \in Remaining => (CHOOSE c \in Remaining : k \in Listed(c)) = particles[k].icell
    BY <1>1
  <2> QED BY <2>1, <2>2, <2>3
<1>3. DOMAIN Repointed(ps) = Indices
  BY DEF Repointed
<1> QED BY <1>2, <1>3

LEMMA CompactedIs ==
    ASSUME cells \in Seq(setting.names), NamesDistinct, first \in [Owned -> Int],
           cells' = Compacted(cells), first' = Compacted(first), setting' = setting
    PROVE  /\ cells' \in Seq(setting'.names) /\ NamesDistinct' /\ Names' = Names \ leaving
           /\ first' \in [Owned' -> Int]
           /\ \A n \in Owned' : /\ OldIndex(n) \in Remaining /\ NewIndex(OldIndex(n)) = n
                                /\ cells'[n] = cells[OldIndex(n)] /\ first'[n] = first[OldIndex(n)]
           /\ \A c \in Remaining : /\ c \in Owned /\ NewIndex(c) \in Owned' /\ OldIndex(NewIndex(c)) = c
                                   /\ cells'[NewIndex(c)] = cells[c]
<1> DEFINE N == Cardinality(Remaining)
<1>1. /\ N \in Nat
      /\ \A c \in Remaining : NewIndex(c) \in 1 .. N /\ OldIndex(NewIndex(c)) = c
      /\ \A n \in 1 .. N : OldIndex(n) \in Remaining /\ NewIndex(OldIndex(n)) = n
  BY Reindexing
<1>2. /\ cells' = [n \in 1 .. N |-> cells[OldIndex(n)]]
      /\ first' = [n \in 1 .. N |-> first[OldIndex(n)]]
  BY DEF Compacted
<1>3. \A c \in Remaining : c \in Owned /\ cells[c] \in setting.names /\ first[c] \in Int /\ cells[c] \notin leaving
  BY DEF Remaining, Owned
<1> HIDE DEF N
<1>4. \A n \in 1 .. N : cells'[n] = cells[OldIndex(n)] /\ first'[n] = first[OldIndex(n)]
  BY <1>2
<1>5. \A n \in 1 .. N : cells'[n] \in setting'.names /\ first'[n] \in Int
  BY <1>1, <1>3, <1>4
<1>6. cells' \in Seq(setting'.names) /\ Len(cells') = N /\ first' \in [1 .. N -> Int]
  <2>1. cells' = [n \in 1 .. N |-> cells'[n]] /\ first' = [n \in 1 .. N |-> first'[n]]
    BY <1>2, <1>4
  <2>2. cells' \in Seq(setting'.names) /\ Len(cells') = N
    <3> DEFINE f == cells'
               T == setting'.names
    <3>1. N \in Nat /\ f = [n \in 1 .. N |-> f[n]] /\ \A n \in 1 .. N : f[n] \in T
      BY <1>1, <1>5, <2>1
    <3> HIDE DEF f, T
    <3>2. f \in Seq(T) /\ Len(f) = N
      BY <3>1
    <3> QED BY <3>2 DEF f, T
  <2> QED BY <1>5, <2>1, <2>2
<1>7. Owned' = 1 .. N
  BY <1>6 DEF Owned
<1>8. NamesDistinct'
  <2> SUFFICES ASSUME NEW m \in 1 .. N, NEW n \in 1 .. N, cells'[m] = cells'[n] PROVE m = n
    BY <1>7 DEF NamesDistinct
  <2>1. OldIndex(m) = OldIndex(n)
    BY <1>1, <1>3, <1>4 DEF NamesDistinct
  <2> QED BY <1>1, <2>1
<1>9. Names' = Names \ leaving
  <2>1. ASSUME NEW a \in Names' PROVE a \in Names \ leaving
    <3>1. PICK n \in 1 .. N : a = cells'[n]
      BY <1>7 DEF Names
    <3> QED BY <1>1, <1>3, <1>4, <3>1 DEF Names
  <2>2. ASSUME NEW a \in Names \ leaving PROVE a \in Names'
    <3>1. PICK c \in Owned : a = cells[c]
      BY DEF Names
    <3>2. c \in Remaining
      BY <3>1 DEF Remaining
    <3>3. NewIndex(c) \in 1 .. N /\ cells'[NewIndex(c)] = a
      BY <1>1, <1>4, <3>1, <3>2
    <3> QED BY <1>7, <3>3 DEF Names
  <2> QED BY <2>1, <2>2
<1> QED BY <1>1, <1>3, <1>4, <1>6, <1>7, <1>8, <1>9

LEMMA Marked ==
    ASSUME Inv, DOMAIN particles' = Indices, maxlocal' = maxlocal,
           \A k \in Indices : particles'[k] \in Particles /\ particles'[k].id = particles[k].id
    PROVE  ParticlesType' /\ Distinct' /\ nlocal' = nlocal /\ nlocal' \in Nat /\ Indices' = Indices
<1>1. nlocal \in Nat /\ nlocal <= maxlocal /\ Distinct
  BY DEF Inv, Sizes, TypeOK, ParticlesType
<1>2. nlocal' = nlocal /\ Indices' = Indices
  <2>1. DOMAIN particles' = 0 .. nlocal - 1
    BY DEF Indices
  <2> QED BY <1>1, <2>1, ArrayOf DEF Indices
<1> QED BY <1>1, <1>2 DEF ParticlesType, Distinct

(* Comm::migrate_cells: all cells are packed, the others moved up.         *)
LEMMA PackCellsStep == Inv /\ PackCells => Inv'
<1> SUFFICES ASSUME Inv, PackCells PROVE Inv'
  OBVIOUS
<1>1. /\ stage = "pack" /\ stage' = "squeeze" /\ setting.balance = "at once"
      /\ cells' = Compacted(cells) /\ first' = Compacted(first) /\ particles' = Repointed(Packed(leaving))
      /\ unpacked' = {} /\ list' = list /\ i' = i
      /\ UNCHANGED <<setting, maxlocal, next, sorted, half, upper, norig, leaving>>
  BY DEF PackCells, Go, CompressGrid, loop
<1>2. /\ cells \in Seq(setting.names) /\ NamesDistinct /\ first \in [Owned -> Int] /\ LoopType /\ ListsType
      /\ setting \in Settings /\ maxlocal \in Nat /\ maxsort \in Nat /\ nlocal \in Nat
      /\ leaving \subseteq CellNames
  BY DEF Inv, TypeOK, ListsType, Sizes
<1>3. /\ cells' \in Seq(setting'.names) /\ NamesDistinct' /\ Names' = Names \ leaving
      /\ first' \in [Owned' -> Int]
      /\ \A c \in Remaining : c \in Owned /\ NewIndex(c) \in Owned' /\ cells'[NewIndex(c)] = cells[c]
  BY <1>1, <1>2, CompactedIs
<1>4. unpacked = leaving /\ sorted /\ i = 0 /\ \A k \in Indices : Placed(k) /\ particles[k] \in Particles
  BY <1>1 DEF Inv, LeavingInv, SortedInv, PlacesInv, IdleInv, At, Stages, TypeOK, ParticlesType
<1>5. InUse /\ Complete /\ Gone = {}
  BY <1>1, <1>4 DEF InUse, Complete, Gone, GivenUp, At
<1>6. \A c \in Remaining : Listed(c) = InCell(c)
  BY <1>3, <1>5, ListedIs
<1>7. /\ DOMAIN particles' = Indices
      /\ \A k \in Indices : particles'[k] = IF particles[k].icell \in Remaining
                                   THEN [Packed(leaving)[k] EXCEPT !.icell = NewIndex(particles[k].icell)]
                                   ELSE Packed(leaving)[k]
  BY <1>1, <1>6, RepointedIs
<1>8. \A k \in Indices : Packed(leaving)[k] = IF cells[particles[k].icell] \in leaving
                                   THEN [particles[k] EXCEPT !.icell = -1] ELSE particles[k]
  BY <1>1, <1>4, PackedIs
<1>9. ASSUME NEW k \in Indices
      PROVE  /\ particles'[k] \in Particles /\ particles'[k].id = particles[k].id
             /\ particles'[k].icell = -1
                \/ (particles'[k].icell \in Owned' /\ cells'[particles'[k].icell] = particles'[k].x)
  <2>1. particles[k] \in Particles /\ Placed(k)
    BY <1>4
  <2> DEFINE c == particles[k].icell
  <2>2. c \in Owned /\ cells[c] = particles[k].x
    BY <2>1 DEF Placed
  <2>3. CASE cells[c] \in leaving
    <3>1. c \notin Remaining
      BY <2>3 DEF Remaining
    <3>2. particles'[k] = [particles[k] EXCEPT !.icell = -1]
      BY <1>7, <1>8, <2>3, <3>1
    <3> QED BY <2>1, <3>2 DEF Particles
  <2>4. CASE cells[c] \notin leaving
    <3>1. c \in Remaining
      BY <2>2, <2>4 DEF Remaining
    <3>2. particles'[k] = [particles[k] EXCEPT !.icell = NewIndex(c)]
      BY <1>7, <1>8, <2>4, <3>1
    <3>3. NewIndex(c) \in Owned' /\ cells'[NewIndex(c)] = cells[c] /\ NewIndex(c) \in Nat
      <4>1. NewIndex(c) \in Owned' /\ cells'[NewIndex(c)] = cells[c]
        BY <1>3, <3>1
      <4> QED BY <4>1 DEF Owned
    <3> HIDE DEF c
    <3> QED BY <2>1, <2>2, <3>2, <3>3 DEF Particles
  <2> QED BY <2>3, <2>4
<1>10. ParticlesType' /\ Distinct' /\ nlocal' = nlocal /\ nlocal' \in Nat /\ Indices' = Indices
  BY <1>1, <1>7, <1>9, Marked
<1>11. ListsType' /\ maxsort' = maxsort
  BY <1>1, <1>2, <1>3 DEF ListsType, maxsort
<1>12. TypeOK' /\ Sizes'
  <2>1. LoopType'
    BY <1>1, <1>2 DEF LoopType, Stages
  <2> QED BY <1>1, <1>2, <1>3, <1>10, <1>11, <2>1 DEF TypeOK, Sizes
<1>13. PlacesInv'
  <2>1. \A k \in Indices : k >= i
    BY <1>4 DEF Indices
  <2> QED BY <1>1, <1>9, <1>10, <2>1 DEF PlacesInv, At, Placed, Stages
<1>14. IdleInv' /\ WeighInv' /\ ListInv' /\ LeaversInv' /\ TrackInv' /\ SortedInv'
  BY <1>1 DEF IdleInv, WeighInv, ListInv, LeaversInv, TrackInv, SortedInv, At, Rebalancing
<1>15. LeavingInv'
  <2>1. \A c \in Owned' : cells'[c] \notin leaving
    BY <1>3 DEF Names
  <2> QED BY <1>1, <1>3, <2>1 DEF LeavingInv, At, Rebalancing, Gone
<1>16. ChainInv'
  BY <1>1 DEF ChainInv, InUse, GivenUp
<1> QED BY <1>3, <1>10, <1>12, <1>13, <1>14, <1>15, <1>16 DEF Inv

(* Comm::migrate_cells_less_memory: some cells are packed.                 *)
LEMMA PackBatchStep == Inv /\ PackBatch => Inv'
<1> SUFFICES ASSUME Inv, PackBatch PROVE Inv'
  OBVIOUS
<1>1. PICK batch \in SUBSET unpacked : particles' = Packed(batch) /\ unpacked' = unpacked \ batch
  BY DEF PackBatch
<1>2. /\ stage = "pack" /\ stage' = (IF leaving = {} THEN "unpack" ELSE "squeeze") /\ setting.balance = "less memory"
      /\ list' = list /\ i' = i /\ UNCHANGED grid
      /\ UNCHANGED <<setting, cells, maxlocal, first, next, sorted, half, upper, norig, leaving>>
  BY DEF PackBatch, Go, loop, grid, lists
<1>3. LoopType /\ setting \in Settings /\ maxlocal \in Nat /\ unpacked \subseteq leaving /\ leaving \subseteq CellNames
      /\ cells \in Seq(setting.names)
  BY DEF Inv, TypeOK, Sizes
<1>4. Owned' = Owned /\ Names' = Names /\ NamesDistinct'
  BY <1>2, SameCells DEF Inv
<1>5. sorted /\ i = 0 /\ leaving \subseteq Names /\ (\A k \in Indices : Placed(k) /\ particles[k] \in Particles)
      /\ \A c \in Owned : cells[c] \in Gone => InCell(c) = {}
  BY <1>2 DEF Inv, LeavingInv, SortedInv, PlacesInv, IdleInv, At, Stages, TypeOK, ParticlesType, Rebalancing
<1>6. /\ DOMAIN particles' = Indices
      /\ \A k \in Indices : particles'[k] = IF cells[particles[k].icell] \in batch
                                   THEN [particles[k] EXCEPT !.icell = -1] ELSE particles[k]
  BY <1>1, <1>2, PackedIs
<1>7. ASSUME NEW k \in Indices
      PROVE  /\ particles'[k] \in Particles /\ particles'[k].id = particles[k].id
             /\ \/ cells[particles[k].icell] \in batch /\ particles'[k].icell = -1
                \/ cells[particles[k].icell] \notin batch /\ particles'[k] = particles[k] /\ Placed(k)'
  <2>1. particles[k] \in Particles /\ Placed(k)
    BY <1>5
  <2>2. CASE cells[particles[k].icell] \in batch
    <3>1. particles'[k] = [particles[k] EXCEPT !.icell = -1]
      BY <1>6, <2>2
    <3>2. particles'[k] \in Particles /\ particles'[k].id = particles[k].id /\ particles'[k].icell = -1
      BY <2>1, <3>1 DEF Particles
    <3> QED BY <2>2, <3>2
  <2>3. CASE cells[particles[k].icell] \notin batch
    <3>1. particles'[k] = particles[k]
      BY <1>6, <2>3
    <3>2. Placed(k)'
      BY <1>2, <1>4, <2>1, <3>1 DEF Placed
    <3> QED BY <2>1, <2>3, <3>1, <3>2
  <2> QED BY <2>2, <2>3
<1>8. ParticlesType' /\ Distinct' /\ nlocal' = nlocal /\ nlocal' \in Nat /\ Indices' = Indices
  BY <1>2, <1>6, <1>7, Marked
<1>9. ListsType' /\ maxsort' \in Nat
  BY <1>2, <1>4, SameNext
<1>10. TypeOK' /\ Sizes'
  <2>1. LoopType'
    BY <1>2, <1>3 DEF LoopType, Stages
  <2> QED BY <1>1, <1>2, <1>3, <1>8, <1>9, <2>1 DEF TypeOK, Sizes
<1>11. PlacesInv'
  <2>1. \A k \in Indices : k >= i
    BY <1>5 DEF Indices
  <2>2. leaving = {} => \A k \in Indices : Placed(k)'
    BY <1>1, <1>3, <1>7
  <2> QED BY <1>2, <1>7, <1>8, <2>1, <2>2 DEF PlacesInv, At, Stages
<1>12. IdleInv' /\ WeighInv' /\ ListInv' /\ LeaversInv' /\ TrackInv' /\ SortedInv'
  BY <1>2, <1>5 DEF IdleInv, WeighInv, ListInv, LeaversInv, TrackInv, SortedInv, At, Rebalancing
<1>13. \A c \in Owned : /\ cells[c] \notin batch => InCell(c)' = InCell(c)
                        /\ cells[c] \in batch => InCell(c)' = {}
  <2> SUFFICES ASSUME NEW c \in Owned
               PROVE  /\ cells[c] \notin batch => InCell(c)' = InCell(c)
                      /\ cells[c] \in batch => InCell(c)' = {}
    OBVIOUS
  <2>1. c # -1
    BY <1>3 DEF Owned
  <2>2. \A k \in Indices : particles'[k].icell = c => particles[k].icell = c /\ cells[c] \notin batch
    BY <1>7, <2>1
  <2>3. \A k \in Indices : particles[k].icell = c /\ cells[c] \notin batch => particles'[k].icell = c
    BY <1>7
  <2>4. InCell(c)' = {k \in Indices : particles'[k].icell = c}
    BY <1>8 DEF InCell
  <2> QED BY <2>2, <2>3, <2>4 DEF InCell
<1>14. Gone' = Gone \union batch
  BY <1>1, <1>2, <1>3 DEF Gone
<1>15. LeavingInv'
  <2>1. \A c \in Owned : cells[c] \in Gone' => InCell(c)' = {}
    BY <1>5, <1>13, <1>14
  <2> QED BY <1>2, <1>4, <1>5, <2>1 DEF LeavingInv, At, Rebalancing
<1>16. ChainInv'
  <2> SUFFICES ASSUME NEW c \in Owned, cells[c] \notin Gone' PROVE \E s : ChainOf(c, s)'
    BY <1>2, <1>4 DEF ChainInv
  <2>1. InUse /\ Complete
    BY <1>2, <1>5 DEF InUse, Complete, GivenUp, At
  <2>2. PICK s : ChainOf(c, s)
    BY <1>14, <2>1 DEF Inv, ChainInv
  <2>3. InCell(c)' = InCell(c)
    BY <1>13, <1>14
  <2>4. Linked(c, s)' /\ On(s) = InCell(c)'
    BY <1>2, <1>8, <2>1, <2>2, <2>3, SameLinks DEF ChainOf
  <2>5. ChainOf(c, s)'
    BY <2>4 DEF ChainOf
  <2> QED BY <2>5
<1> QED BY <1>4, <1>8, <1>10, <1>11, <1>12, <1>15, <1>16 DEF Inv

(* The end of a rebalancing in batches: the remaining cells are moved up.  *)
LEMMA RebalancedStep == Inv /\ Rebalanced => Inv'
<1> SUFFICES ASSUME Inv, Rebalanced PROVE Inv'
  OBVIOUS
<1>1. /\ stage = "unpacked" /\ stage' = "start" /\ half' = 1 /\ unpacked = {} /\ unpacked' = {} /\ leaving' = {}
      /\ list' = list /\ i' = i
      /\ UNCHANGED <<setting, maxlocal, next, sorted, upper, norig>>
      /\ IF setting.balance = "less memory" /\ leaving # {}
         THEN CompressGrid(particles)
         ELSE UNCHANGED <<cells, first, particles>>
  BY DEF Rebalanced, Go, loop
<1>2. /\ cells \in Seq(setting.names) /\ NamesDistinct /\ first \in [Owned -> Int] /\ LoopType /\ ListsType
      /\ setting \in Settings /\ maxlocal \in Nat /\ maxsort \in Nat /\ nlocal \in Nat
      /\ DOMAIN next = 0 .. maxsort - 1 /\ ParticlesType /\ Distinct
  BY DEF Inv, TypeOK, ListsType, Sizes
<1>3. i = 0 /\ \A k \in Indices : Placed(k) /\ particles[k] \in Particles
  BY <1>1 DEF Inv, PlacesInv, IdleInv, At, Stages, TypeOK, ParticlesType
<1>4. maxsort' = maxsort /\ maxsort' \in Nat /\ LoopType'
  BY <1>1, <1>2 DEF maxsort, LoopType, Stages
<1>5. IdleInv' /\ WeighInv' /\ ListInv' /\ LeaversInv' /\ TrackInv' /\ SortedInv' /\ LeavingInv'
  BY <1>1, <1>3 DEF IdleInv, WeighInv, ListInv, LeaversInv, TrackInv, SortedInv, LeavingInv, At, Rebalancing, Gone
<1>6. CASE ~(setting.balance = "less memory" /\ leaving # {})
  <2>1. particles' = particles /\ cells' = cells /\ first' = first /\ next' = next /\ UNCHANGED <<array, grid>>
    BY <1>1, <1>6 DEF array, grid
  <2>2. ParticlesType' /\ Distinct' /\ NamesDistinct' /\ cells' \in Seq(setting'.names)
        /\ ListsType' /\ Sizes'
    <3>1. sorted' \in BOOLEAN
      BY <1>1, <1>2 DEF ListsType
    <3> QED BY <2>1, <3>1, SameTypes
  <2>3. Indices' = Indices /\ \A k : Placed(k)' <=> Placed(k)
    BY <2>1, SameArray, SamePlaces
  <2>4. PlacesInv'
    BY <1>1, <1>3, <2>3 DEF PlacesInv, At
  <2>5. TypeOK'
    BY <1>1, <1>4, <2>2 DEF TypeOK
  <2>6. ChainInv'
    <3>1. leaving # {} => ~sorted
      <4>1. setting.balance \in {"none", "at once", "less memory"}
        BY <1>2, SettingsAssumption
      <4>2. setting.balance # "none"
        BY <1>1 DEF Inv, LeavingInv, At, Rebalancing
      <4>3. leaving # {} => setting.balance = "at once"
        BY <1>6, <4>1, <4>2
      <4> QED BY <1>1, <4>3 DEF Inv, SortedInv, At
    <3>2. CASE ~sorted
      BY <1>1, <3>2 DEF ChainInv, InUse
    <3>3. CASE leaving = {}
      <4>1. (InUse' => InUse) /\ (Complete' => Complete) /\ Gone \subseteq Gone'
        BY <1>1, <3>3 DEF InUse, Complete, Gone, GivenUp, At
      <4> QED BY <2>1, <4>1, ChainSame
    <3> QED BY <3>1, <3>2, <3>3
  <2> QED BY <1>5, <2>2, <2>4, <2>5, <2>6 DEF Inv
<1>7. CASE setting.balance = "less memory" /\ leaving # {}
  <2>1. cells' = Compacted(cells) /\ first' = Compacted(first) /\ particles' = Repointed(particles)
    BY <1>1, <1>7 DEF CompressGrid
  <2>2. sorted /\ \A c \in Owned : cells[c] \in Gone => InCell(c) = {}
    BY <1>1, <1>7 DEF Inv, SortedInv, LeavingInv, At, Rebalancing
  <2>3. /\ cells' \in Seq(setting'.names) /\ NamesDistinct' /\ Names' = Names \ leaving
        /\ first' \in [Owned' -> Int]
        /\ \A n \in Owned' : /\ OldIndex(n) \in Remaining /\ NewIndex(OldIndex(n)) = n
                             /\ cells'[n] = cells[OldIndex(n)] /\ first'[n] = first[OldIndex(n)]
        /\ \A c \in Remaining : /\ c \in Owned /\ NewIndex(c) \in Owned' /\ OldIndex(NewIndex(c)) = c
                                /\ cells'[NewIndex(c)] = cells[c]
    BY <1>1, <1>2, <2>1, CompactedIs
  <2>4. Gone = leaving /\ InUse /\ Complete
    BY <1>1, <2>2 DEF Gone, InUse, Complete, GivenUp, At
  <2>5. \A c \in Remaining : Listed(c) = InCell(c) /\ cells[c] \notin Gone
    <3>1. \A c \in Remaining : c \in Owned /\ cells[c] \notin Gone
      BY <2>4 DEF Remaining
    <3> QED BY <2>4, <3>1, ListedIs
  <2>6. /\ DOMAIN particles' = Indices
        /\ \A k \in Indices : particles'[k] = IF particles[k].icell \in Remaining
                                   THEN [particles[k] EXCEPT !.icell = NewIndex(particles[k].icell)]
                                   ELSE particles[k]
    BY <2>1, <2>5, RepointedIs
  <2>7. ASSUME NEW k \in Indices
        PROVE  /\ particles'[k] \in Particles /\ particles'[k].id = particles[k].id
               /\ particles[k].icell \in Remaining /\ particles'[k].icell = NewIndex(particles[k].icell)
               /\ particles'[k].icell \in Owned' /\ cells'[particles'[k].icell] = particles'[k].x
    <3>1. particles[k] \in Particles /\ Placed(k)
      BY <1>3
    <3> DEFINE c == particles[k].icell
    <3>2. c \in Owned /\ cells[c] = particles[k].x /\ k \in InCell(c)
      BY <3>1 DEF Placed, InCell
    <3>3. c \in Remaining
      BY <2>2, <2>4, <3>2 DEF Remaining
    <3>4. particles'[k] = [particles[k] EXCEPT !.icell = NewIndex(c)]
      BY <2>6, <3>3
    <3>5. NewIndex(c) \in Owned' /\ cells'[NewIndex(c)] = cells[c] /\ NewIndex(c) \in Nat
      <4>1. NewIndex(c) \in Owned' /\ cells'[NewIndex(c)] = cells[c]
        BY <2>3, <3>3
      <4> QED BY <4>1 DEF Owned
    <3> HIDE DEF c
    <3>6. particles'[k] \in Particles /\ particles'[k].id = particles[k].id /\ particles'[k].icell = NewIndex(c)
          /\ particles'[k].x = particles[k].x
      BY <3>1, <3>4, <3>5 DEF Particles
    <3>7. c \in Remaining
      BY <3>3
    <3> QED BY <3>2, <3>5, <3>6, <3>7 DEF c
  <2>8. ParticlesType' /\ Distinct' /\ nlocal' = nlocal /\ nlocal' \in Nat /\ Indices' = Indices
    BY <1>1, <2>6, <2>7, Marked
  <2>9. ListsType'
    BY <1>1, <1>2, <1>4, <2>3 DEF ListsType
  <2>10. TypeOK' /\ Sizes'
    BY <1>1, <1>2, <1>4, <2>3, <2>8, <2>9 DEF TypeOK, Sizes
  <2>11. PlacesInv'
    BY <1>1, <2>7, <2>8 DEF PlacesInv, At, Placed
  <2>12. ChainInv'
    <3> SUFFICES ASSUME NEW n \in Owned' PROVE \E s : ChainOf(n, s)'
      BY DEF ChainInv
    <3> DEFINE c == OldIndex(n)
    <3>1. c \in Remaining /\ c \in Owned /\ NewIndex(c) = n /\ first'[n] = first[c] /\ cells[c] \notin Gone
      BY <2>3, <2>5
    <3> HIDE DEF c
    <3>2. PICK s : ChainOf(c, s)
      BY <2>4, <3>1 DEF Inv, ChainInv
    <3>3. Linked(n, s)'
      BY <1>1, <2>8, <3>1, <3>2 DEF ChainOf, Linked
    <3>4. InCell(n)' = InCell(c)
      <4>1. \A k \in Indices : particles[k].icell = c => particles'[k].icell = n
        BY <2>7, <3>1
      <4>2. \A k \in Indices : particles'[k].icell = n => particles[k].icell = c
        BY <2>3, <2>7, <3>1
      <4>3. InCell(n)' = {k \in Indices : particles'[k].icell = n}
        BY <2>8 DEF InCell
      <4> QED BY <4>1, <4>2, <4>3 DEF InCell
    <3>5. On(s) = InCell(c)
      BY <2>4, <3>2 DEF ChainOf
    <3>6. ChainOf(n, s)'
      BY <3>3, <3>4, <3>5 DEF ChainOf
    <3> QED BY <3>6
  <2> QED BY <1>5, <2>3, <2>8, <2>10, <2>11, <2>12 DEF Inv
<1> QED BY <1>6, <1>7

(* compress_rebalance and compress_rebalance_sorted                        *)
LEMMA SqueezedPlaces ==
    ASSUME Inv, stage = "squeeze", i \in Indices, particles' = Overwritten(i), UNCHANGED <<maxlocal, grid>>
    PROVE  \A k \in Indices' : Placed(k)' \/ (particles'[k].icell = -1 /\ k >= i)
<1> SUFFICES ASSUME NEW k \in Indices' PROVE Placed(k)' \/ (particles'[k].icell = -1 /\ k >= i)
  OBVIOUS
<1>1. PICK q \in Indices : /\ particles'[k] = particles[q] /\ (Placed(k)' <=> Placed(q))
                           /\ q = k \/ (k = i /\ q = nlocal - 1)
  BY Deleted
<1>2. Placed(q) \/ (particles[q].icell = -1 /\ q >= i)
  BY DEF Inv, PlacesInv, At
<1>3. i >= i
  BY DEF Inv, TypeOK, LoopType
<1> QED BY <1>1, <1>2, <1>3

LEMMA SqueezeStep == Inv /\ Squeeze => Inv'
<1> SUFFICES ASSUME Inv, Squeeze PROVE Inv'
  OBVIOUS
<1>1. /\ stage = "squeeze" /\ stage' = "squeeze" /\ setting.balance = "at once" /\ i < nlocal
      /\ particles' = Overwritten(i) /\ list' = list /\ i' = i /\ UNCHANGED <<maxlocal, grid>>
      /\ UNCHANGED <<setting, cells, maxlocal, first, next, sorted, half, upper, norig, leaving, unpacked>>
  BY DEF Squeeze, Squeezing, Again, grid, lists, migration
<1>2. i \in Indices
  <2>1. i \in Nat /\ nlocal \in Nat
    BY DEF Inv, Sizes, TypeOK, LoopType
  <2>2. i < nlocal
    BY <1>1
  <2> QED BY <2>1, <2>2 DEF Indices
<1>3. /\ ParticlesType' /\ Distinct' /\ NamesDistinct' /\ cells' \in Seq(setting'.names)
      /\ nlocal' \in Nat /\ maxlocal' \in Nat /\ setting' \in Settings
      /\ Owned' = Owned /\ Names' = Names /\ \A c : InCell(c) = {} => InCell(c)' = {}
  BY <1>1, <1>2, Deleted
<1>4. ListsType' /\ maxsort' \in Nat
  BY <1>1, <1>3, SameNext
<1>5. TypeOK' /\ Sizes'
  <2>1. LoopType'
    BY <1>1 DEF Inv, TypeOK, LoopType, Stages
  <2> QED BY <1>1, <1>3, <1>4, <2>1 DEF TypeOK, Sizes, Inv
<1>6. PlacesInv'
  BY <1>1, <1>2, SqueezedPlaces DEF PlacesInv, At, Stages
<1>7. IdleInv' /\ WeighInv' /\ ListInv' /\ LeaversInv' /\ TrackInv'
  BY <1>1 DEF IdleInv, WeighInv, ListInv, LeaversInv, TrackInv, At
<1>8. LeavingInv' /\ SortedInv'
  BY <1>1, <1>3 DEF LeavingInv, SortedInv, At, Inv, Rebalancing, Gone
<1>9. ChainInv'
  BY <1>1 DEF ChainInv, InUse, GivenUp
<1> QED BY <1>3, <1>5, <1>6, <1>7, <1>8, <1>9 DEF Inv

\* In the list of a cell one index takes the place of another.
Replaced(s, from, to) == [m \in DOMAIN s |-> IF s[m] = from THEN to ELSE s[m]]

LEMMA ReplacedIs ==
    ASSUME NEW S, NEW T, NEW s \in Seq(S), NEW from, NEW to \in T, \A k \in S : k # from => k \in T,
           \A m, n \in DOMAIN s : s[m] = s[n] => m = n, \A m \in DOMAIN s : s[m] # to,
           NEW t, t = Replaced(s, from, to)
    PROVE     /\ t \in Seq(T) /\ Len(t) = Len(s) /\ DOMAIN t = DOMAIN s
              /\ \A m \in DOMAIN s : t[m] = IF s[m] = from THEN to ELSE s[m]
              /\ \A m, n \in DOMAIN t : t[m] = t[n] => m = n
              /\ t = <<>> <=> s = <<>>
<1>1. Len(s) \in Nat /\ DOMAIN s = 1 .. Len(s)
  OBVIOUS
<1>2. t = [m \in 1 .. Len(s) |-> IF s[m] = from THEN to ELSE s[m]]
  BY <1>1 DEF Replaced
<1>3. \A m \in 1 .. Len(s) : s[m] \in S
  BY <1>1
<1>4. \A m \in 1 .. Len(s) : t[m] = (IF s[m] = from THEN to ELSE s[m]) /\ t[m] \in T
  BY <1>2, <1>3
<1>5. t \in Seq(T) /\ Len(t) = Len(s) /\ DOMAIN t = 1 .. Len(s)
  <2>1. t = [m \in 1 .. Len(s) |-> t[m]]
    BY <1>2, <1>4
  <2> QED BY <1>1, <1>4, <2>1
<1>6. \A m, n \in DOMAIN t : t[m] = t[n] => m = n
  BY <1>1, <1>4, <1>5
<1>7. t = <<>> <=> s = <<>>
  BY <1>1, <1>5
<1> QED BY <1>1, <1>4, <1>5, <1>6, <1>7

LEMMA SqueezeSortedStep == Inv /\ SqueezeSorted => Inv'
<1> SUFFICES ASSUME Inv, SqueezeSorted PROVE Inv'
  OBVIOUS
<1>1. PICK last : last = nlocal - 1
  OBVIOUS
<1>2. PICK c0 : c0 = particles[last].icell
  OBVIOUS
<1>3. /\ stage = "squeeze" /\ stage' = "squeeze" /\ setting.balance = "less memory" /\ i < nlocal
      /\ particles[i].icell = -1
      /\ particles' = Overwritten(i) /\ list' = list /\ i' = i /\ UNCHANGED <<maxlocal, grid>>
      /\ UNCHANGED <<setting, cells, maxlocal, sorted, half, upper, norig, leaving, unpacked>>
      /\ IF c0 = -1 THEN UNCHANGED <<first, next>> ELSE Relinked(c0, last, i)
  BY <1>1, <1>2 DEF SqueezeSorted, Squeezing, grid, loop, migration
<1>4. i \in Indices /\ i \in Nat /\ nlocal \in Nat /\ maxsort \in Nat
  <2>1. i \in Nat /\ nlocal \in Nat /\ maxsort \in Nat
    BY DEF Inv, Sizes, TypeOK, LoopType
  <2>2. i < nlocal
    BY <1>3
  <2> QED BY <2>1, <2>2 DEF Indices
<1>5. /\ ParticlesType' /\ Distinct' /\ NamesDistinct' /\ cells' \in Seq(setting'.names)
      /\ nlocal' = nlocal - 1 /\ nlocal' \in Nat /\ maxlocal' \in Nat /\ setting' \in Settings
      /\ Owned' = Owned /\ Names' = Names /\ \A c : InCell(c) = {} => InCell(c)' = {}
  BY <1>3, <1>4, Deleted
<1>6. /\ last \in Indices /\ Indices' \subseteq Indices /\ last \notin Indices'
      /\ \A k \in Indices : k \in Indices' \/ k = last
      /\ \A k \in Indices' : particles'[k] = IF k = i THEN particles[last] ELSE particles[k]
  BY <1>1, <1>3, <1>4, OverwrittenArray
<1>7. first \in [Owned -> Int] /\ DOMAIN next = 0 .. maxsort - 1 /\ (\A k \in DOMAIN next : next[k] \in Int)
      /\ sorted \in BOOLEAN
  BY DEF Inv, TypeOK, ListsType
<1>8. InUse /\ Complete /\ sorted
  BY <1>3 DEF Inv, SortedInv, InUse, Complete, GivenUp, At, Rebalancing
<1>9. c0 = -1 \/ (c0 \in Owned /\ cells[c0] \notin Gone /\ last # i)
  <2>1. Placed(last) \/ c0 = -1
    BY <1>2, <1>3, <1>6 DEF Inv, PlacesInv, At
  <2>2. last \in InCell(c0)
    BY <1>2, <1>6 DEF InCell
  <2>3. c0 \in Owned => cells[c0] \notin Gone
    BY <2>2 DEF Inv, LeavingInv
  <2>4. c0 # -1 => last # i
    BY <1>2, <1>3
  <2> QED BY <1>2, <2>1, <2>3, <2>4 DEF Placed
\* Every cell's list, before the step.
<1>10. \A c \in Owned : cells[c] \notin Gone => \E s : Linked(c, s) /\ On(s) = InCell(c)
  BY <1>8 DEF Inv, ChainInv, ChainOf
<1>11. ASSUME c0 = -1
       PROVE  /\ ListsType' /\ maxsort' \in Nat
              /\ \A c \in Owned : cells[c] \notin Gone => \E s : Linked(c, s)' /\ On(s) = InCell(c)'
  <2>1. first' = first /\ next' = next
    BY <1>3, <1>11
  <2>2. ListsType' /\ maxsort' \in Nat
    BY <1>3, <1>5, <2>1, SameNext
  <2>3. ASSUME NEW c \in Owned, cells[c] \notin Gone PROVE \E s : Linked(c, s)' /\ On(s) = InCell(c)'
    <3>1. PICK s : Linked(c, s) /\ On(s) = InCell(c)
      BY <1>10, <2>3
    <3>2. c # -1
      BY DEF Owned
    <3>3. InCell(c)' = InCell(c) /\ last \notin InCell(c)
      <4>1. \A k \in Indices' : particles'[k].icell = c <=> particles[k].icell = c
        BY <1>2, <1>3, <1>6, <1>11, <3>2
      <4>2. last \notin InCell(c)
        BY <1>2, <1>11, <3>2 DEF InCell
      <4> QED BY <1>6, <4>1, <4>2 DEF InCell
    <3>4. s \in Seq(Indices')
      <4>1. s \in Seq(Indices) /\ \A m \in DOMAIN s : s[m] \in Indices'
        BY <1>6, <3>1, <3>3 DEF Linked, On
      <4>2. s = [m \in 1 .. Len(s) |-> s[m]] /\ Len(s) \in Nat /\ DOMAIN s = 1 .. Len(s)
        BY <4>1
      <4> QED BY <4>1, <4>2
    <3>5. Linked(c, s)'
      BY <2>1, <3>1, <3>4 DEF Linked
    <3> QED BY <3>1, <3>3, <3>5
  <2> QED BY <2>2, <2>3
<1>12. ASSUME c0 # -1
       PROVE  /\ ListsType' /\ maxsort' \in Nat
              /\ \A c \in Owned : cells[c] \notin Gone => \E s : Linked(c, s)' /\ On(s) = InCell(c)'
  <2>1. c0 \in Owned /\ cells[c0] \notin Gone /\ last # i /\ Relinked(c0, last, i)
    BY <1>3, <1>9, <1>12
  <2>2. PICK s0 : Linked(c0, s0) /\ On(s0) = InCell(c0)
    BY <1>10, <2>1
  <2>3. /\ s0 \in Seq(Indices) /\ Len(s0) \in Nat /\ DOMAIN s0 = 1 .. Len(s0)
        /\ \A m, n \in DOMAIN s0 : s0[m] = s0[n] => m = n
        /\ first[c0] = IF s0 = <<>> THEN -1 ELSE s0[1]
        /\ \A m \in DOMAIN s0 : /\ s0[m] \in DOMAIN next /\ s0[m] \in Indices
                                /\ next[s0[m]] = IF m = Len(s0) THEN -1 ELSE s0[m + 1]
    BY <2>2 DEF Linked
  <2>4. PICK j \in DOMAIN s0 : s0[j] = last
    <3>1. last \in InCell(c0)
      BY <1>2, <1>6 DEF InCell
    <3> QED BY <2>2, <3>1 DEF On
  <2>5. last \in DOMAIN next /\ next[last] = IF j = Len(s0) THEN -1 ELSE s0[j + 1]
    BY <2>3, <2>4
  <2>6. i \in DOMAIN next
    <3>1. last \in Nat /\ i <= last
      <4>1. i < nlocal
        BY <1>3
      <4> QED BY <1>1, <1>4, <4>1
    <3> QED BY <1>4, <1>7, <2>5, <3>1
  <2>7. \A m \in DOMAIN s0 : s0[m] # i
    <3>1. i \notin InCell(c0)
      BY <1>3, <1>12 DEF InCell
    <3> QED BY <2>2, <3>1 DEF On
  <2>8. Listed(c0) = On(s0)
    BY <1>7, <2>2, ListedOn DEF Inv
  \* Who precedes the last particle is told of its new place.
  <2>9. /\ DOMAIN next' = DOMAIN next /\ next'[i] = next[last]
        /\ first' \in [Owned -> Int]
        /\ \A c \in Owned : c # c0 => first'[c] = first[c]
        /\ first'[c0] = IF first[c0] = last THEN i ELSE first[c0]
        /\ \A k \in DOMAIN next : k # i /\ k \notin On(s0) => next'[k] = next[k]
        /\ \A k \in On(s0) : next'[k] = IF next[k] = last THEN i ELSE next[k]
    <3>1. \A m \in DOMAIN s0 : next[s0[m]] = last => first[c0] # last
      <4> SUFFICES ASSUME NEW m \in DOMAIN s0, next[s0[m]] = last, first[c0] = last PROVE FALSE
        OBVIOUS
      <4>1. last \in Nat /\ last # -1
        BY <1>4, <1>6 DEF Indices
      <4>2. m # Len(s0) /\ s0[m + 1] = last
        BY <2>3, <4>1
      <4>3. s0[1] = last /\ 1 \in DOMAIN s0 /\ m + 1 \in DOMAIN s0 /\ m + 1 # 1
        BY <2>3, <4>1, <4>2
      <4> QED BY <2>3, <4>2, <4>3
    <3>2. \A k \in On(s0) : k \in DOMAIN next /\ k # i
      BY <2>3, <2>7 DEF On
    <3>3. CASE first[c0] = last
      <4>1. first' = [first EXCEPT ![c0] = i] /\ next' = [next EXCEPT ![i] = next[last]]
        BY <2>1, <3>3 DEF Relinked
      <4>2. first' \in [Owned -> Int] /\ first'[c0] = i /\ \A c \in Owned : c # c0 => first'[c] = first[c]
        BY <1>4, <1>7, <2>1, <4>1
      <4>3. DOMAIN next' = DOMAIN next /\ next'[i] = next[last] /\ \A k \in DOMAIN next : k # i => next'[k] = next[k]
        BY <2>6, <4>1
      <4>4. \A k \in On(s0) : next[k] # last
        BY <3>1, <3>3 DEF On
      <4> QED BY <3>2, <3>3, <4>2, <4>3, <4>4
    <3>4. CASE first[c0] # last
      <4>1. /\ first' = first
            /\ next' = [k \in DOMAIN next |->
                         IF k = i THEN next[last]
                         ELSE IF k \in Listed(c0) /\ next[k] = last THEN i ELSE next[k]]
        BY <2>1, <3>4 DEF Relinked
      <4>2. DOMAIN next' = DOMAIN next /\ next'[i] = next[last]
            /\ \A k \in DOMAIN next : k # i => next'[k] = IF k \in On(s0) /\ next[k] = last THEN i ELSE next[k]
        BY <2>6, <2>8, <4>1
      <4> QED BY <1>7, <3>2, <3>4, <4>1, <4>2
    <3> QED BY <3>3, <3>4
  <2>10. ListsType' /\ maxsort' \in Nat
    <3>1. \A k \in DOMAIN next : next'[k] \in Int
      <4> SUFFICES ASSUME NEW k \in DOMAIN next PROVE next'[k] \in Int
        OBVIOUS
      <4>1. CASE k = i
        BY <1>7, <2>5, <2>9, <4>1
      <4>2. CASE k # i /\ k \in On(s0)
        <5>1. next[k] \in Int /\ i \in Int
          BY <1>4, <1>7
        <5>2. next'[k] = IF next[k] = last THEN i ELSE next[k]
          BY <2>9, <4>2
        <5> QED BY <5>1, <5>2
      <4>3. CASE k # i /\ k \notin On(s0)
        BY <1>7, <2>9, <4>3
      <4> QED BY <4>1, <4>2, <4>3
    <3>2. maxsort' = maxsort
      BY <2>9 DEF maxsort
    <3> QED BY <1>3, <1>4, <1>5, <1>7, <2>9, <3>1, <3>2 DEF ListsType
  <2>11. i \in Indices' /\ i # -1
    BY <1>4, <1>6, <2>1
  <2>12. \E s : Linked(c0, s)' /\ On(s) = InCell(c0)'
    <3>1. PICK t : t = Replaced(s0, last, i)
      OBVIOUS
    <3>2. /\ t \in Seq(Indices') /\ Len(t) = Len(s0) /\ DOMAIN t = DOMAIN s0
          /\ \A m \in DOMAIN s0 : t[m] = IF s0[m] = last THEN i ELSE s0[m]
          /\ \A m, n \in DOMAIN t : t[m] = t[n] => m = n
          /\ t = <<>> <=> s0 = <<>>
      <4>1. \A k \in Indices : k # last => k \in Indices'
        BY <1>6
      <4>2. PICK J : J = Indices'
        OBVIOUS
      <4>3. i \in J /\ \A k \in Indices : k # last => k \in J
        BY <2>11, <4>1, <4>2
      <4>4. /\ t \in Seq(J) /\ Len(t) = Len(s0) /\ DOMAIN t = DOMAIN s0
            /\ \A m \in DOMAIN s0 : t[m] = IF s0[m] = last THEN i ELSE s0[m]
            /\ \A m, n \in DOMAIN t : t[m] = t[n] => m = n
            /\ t = <<>> <=> s0 = <<>>
        <5>1. s0 \in Seq(Indices) /\ (\A m, n \in DOMAIN s0 : s0[m] = s0[n] => m = n)
              /\ \A m \in DOMAIN s0 : s0[m] # i
          BY <2>3, <2>7
        <5>2. i \in J /\ (\A k \in Indices : k # last => k \in J) /\ t = Replaced(s0, last, i)
          BY <3>1, <4>3
        <5> QED BY ONLY <5>1, <5>2, ReplacedIs
      <4> QED BY <4>2, <4>4
    <3>3. first'[c0] = IF t = <<>> THEN -1 ELSE t[1]
      <4>1. CASE s0 = <<>>
        BY <2>3, <2>4, <4>1
      <4>2. CASE s0 # <<>>
        <5>1. 1 \in DOMAIN s0
          BY <2>3, <4>2
        <5> QED BY <2>3, <2>9, <3>2, <4>2, <5>1
      <4> QED BY <4>1, <4>2
    <3>4. ASSUME NEW m \in DOMAIN t
          PROVE  t[m] \in DOMAIN next' /\ next'[t[m]] = IF m = Len(t) THEN -1 ELSE t[m + 1]
      <4>1. m \in DOMAIN s0 /\ m \in Nat /\ (m # Len(s0) => m + 1 \in DOMAIN s0)
        BY <2>3, <3>2
      <4>2. next[s0[m]] = IF m = Len(s0) THEN -1 ELSE s0[m + 1]
        BY <2>3, <4>1
      <4>3. last # -1
        BY <1>4, <1>6 DEF Indices
      <4>4. CASE s0[m] = last
        <5>1. t[m] = i /\ next'[i] = next[last]
          BY <2>9, <3>2, <4>1, <4>4
        <5>2. m # Len(s0) => s0[m + 1] # last
          BY <2>3, <4>1, <4>4
        <5>3. m # Len(s0) => t[m + 1] = s0[m + 1]
          BY <3>2, <4>1, <5>2
        <5> QED BY <2>6, <2>9, <3>2, <4>2, <4>4, <5>1, <5>3
      <4>5. CASE s0[m] # last
        <5>1. t[m] = s0[m] /\ s0[m] \in On(s0) /\ s0[m] \in DOMAIN next
          BY <2>3, <3>2, <4>1, <4>5 DEF On
        <5>2. next'[s0[m]] = IF next[s0[m]] = last THEN i ELSE next[s0[m]]
          BY <2>9, <5>1
        <5>3. m # Len(s0) => t[m + 1] = IF s0[m + 1] = last THEN i ELSE s0[m + 1]
          BY <3>2, <4>1
        <5> QED BY <2>9, <3>2, <4>2, <4>3, <5>1, <5>2, <5>3
      <4> QED BY <4>4, <4>5
    <3>5. Linked(c0, t)'
      BY <3>2, <3>3, <3>4 DEF Linked
    <3>6. On(t) = InCell(c0)'
      <4>1. \A k : k \in InCell(c0)' <=> k = i \/ (k \in InCell(c0) /\ k # last)
        BY <1>2, <1>6, <2>11 DEF InCell
      <4>2. \A k : k \in On(t) <=> k = i \/ (k \in On(s0) /\ k # last)
        <5>1. ASSUME NEW k \in On(t) PROVE k = i \/ (k \in On(s0) /\ k # last)
          BY <3>2 DEF On
        <5>2. i \in On(t)
          BY <2>4, <3>2 DEF On
        <5>3. ASSUME NEW k \in On(s0), k # last PROVE k \in On(t)
          BY <3>2, <5>3 DEF On
        <5> QED BY <5>1, <5>2, <5>3
      <4> QED BY <2>2, <4>1, <4>2
    <3> QED BY <3>5, <3>6
  <2>13. ASSUME NEW c \in Owned, c # c0, cells[c] \notin Gone PROVE \E s : Linked(c, s)' /\ On(s) = InCell(c)'
    <3>1. PICK s : Linked(c, s) /\ On(s) = InCell(c)
      BY <1>10, <2>13
    <3>2. c # -1
      BY DEF Owned
    <3>3. InCell(c)' = InCell(c) /\ last \notin InCell(c) /\ i \notin InCell(c)
      <4>1. \A k \in Indices' : particles'[k].icell = c <=> particles[k].icell = c
        BY <1>2, <1>3, <1>6, <2>13, <3>2
      <4>2. last \notin InCell(c) /\ i \notin InCell(c)
        BY <1>2, <1>3, <2>13, <3>2 DEF InCell
      <4> QED BY <1>6, <4>1, <4>2 DEF InCell
    <3>4. s \in Seq(Indices')
      <4>1. s \in Seq(Indices) /\ \A m \in DOMAIN s : s[m] \in Indices'
        BY <1>6, <3>1, <3>3 DEF Linked, On
      <4>2. s = [m \in 1 .. Len(s) |-> s[m]] /\ Len(s) \in Nat /\ DOMAIN s = 1 .. Len(s)
        BY <4>1
      <4> QED BY <4>1, <4>2
    <3>5. \A m \in DOMAIN s : s[m] \notin On(s0) /\ s[m] # i
      <4>1. \A m \in DOMAIN s : s[m] \in InCell(c)
        BY <3>1 DEF On
      <4> QED BY <2>2, <2>13, <3>3, <4>1 DEF InCell
    <3>6. \A m \in DOMAIN s : s[m] \in DOMAIN next' /\ next'[s[m]] = next[s[m]]
      BY <2>9, <3>1, <3>5 DEF Linked
    <3>7. first'[c] = first[c]
      BY <2>9, <2>13
    <3>8. Linked(c, s)'
      BY <3>1, <3>4, <3>6, <3>7 DEF Linked
    <3> QED BY <3>1, <3>3, <3>8
  <2> QED BY <2>10, <2>12, <2>13
<1>13. ListsType' /\ maxsort' \in Nat
  BY <1>11, <1>12
<1>14. \A c \in Owned : cells[c] \notin Gone => \E s : Linked(c, s)' /\ On(s) = InCell(c)'
  BY <1>11, <1>12
<1>15. TypeOK' /\ Sizes'
  <2>1. LoopType'
    BY <1>3 DEF Inv, TypeOK, LoopType, Stages
  <2> QED BY <1>3, <1>5, <1>13, <2>1 DEF TypeOK, Sizes, Inv
<1>16. PlacesInv'
  BY <1>3, <1>4, SqueezedPlaces DEF PlacesInv, At, Stages
<1>17. IdleInv' /\ WeighInv' /\ ListInv' /\ LeaversInv' /\ TrackInv'
  BY <1>3 DEF IdleInv, WeighInv, ListInv, LeaversInv, TrackInv, At
<1>18. LeavingInv' /\ SortedInv'
  BY <1>3, <1>5 DEF LeavingInv, SortedInv, At, Inv, Rebalancing, Gone
<1>19. ChainInv'
  <2> SUFFICES ASSUME NEW c \in Owned, cells[c] \notin Gone PROVE \E s : ChainOf(c, s)'
    BY <1>3, <1>5 DEF ChainInv, Gone
  <2>1. PICK s : Linked(c, s)' /\ On(s) = InCell(c)'
    BY <1>14
  <2>2. ChainOf(c, s)'
    BY <2>1 DEF ChainOf
  <2> QED BY <2>2
<1> QED BY <1>5, <1>13, <1>15, <1>16, <1>17, <1>18, <1>19 DEF Inv

\* A cell more, behind the others.
LEMMA OneMore ==
    ASSUME NEW T, NEW f \in Seq(T), NEW x \in T
    PROVE  /\ Append(f, x) \in Seq(T) /\ Len(Append(f, x)) = Len(f) + 1 /\ Len(f) \in Nat
           /\ \A m \in 1 .. Len(f) : Append(f, x)[m] = f[m]
           /\ Append(f, x)[Len(f) + 1] = x
OBVIOUS

(* unpack_one links the particles of the new cell and leaves other lists   *)
(* as they are.                                                            *)
LEMMA LinkedNextIs ==
    ASSUME Sizes, DOMAIN next = 0 .. maxsort - 1, \A k \in DOMAIN next : next[k] \in Int,
           NEW n \in Nat, next' = LinkedNext(n)
    PROVE  /\ maxsort' \in Nat /\ DOMAIN next' = 0 .. maxsort' - 1 /\ \A k \in DOMAIN next' : next'[k] \in Int
           /\ \A k \in Indices : k \in DOMAIN next => k \in DOMAIN next' /\ next'[k] = next[k]
           /\ \A m \in 1 .. n : /\ nlocal + m - 1 \in DOMAIN next'
                                /\ next'[nlocal + m - 1] = IF m = n THEN -1 ELSE nlocal + m
<1> DEFINE grown == IF maxsort < nlocal + n THEN Grown(nlocal + n) ELSE maxsort
<1>1. nlocal \in Nat /\ maxsort \in Nat /\ maxlocal \in Nat /\ nlocal + n \in Nat
  BY DEF Sizes
<1>2. Grown(nlocal + n) \in Nat /\ Grown(nlocal + n) >= nlocal + n
  BY <1>1, GrownIsEnough
<1>3. grown \in Nat /\ grown >= nlocal + n /\ grown >= maxsort
  BY <1>1, <1>2
<1>4. next' = [k \in 0 .. grown - 1 |->
          IF k \in nlocal .. nlocal + n - 2 THEN k + 1
          ELSE IF k = nlocal + n - 1 /\ n > 0 THEN -1
          ELSE IF k \in DOMAIN next THEN next[k] ELSE Garbage]
  BY DEF LinkedNext
<1> HIDE DEF grown
<1>5. DOMAIN next' = 0 .. grown - 1
  BY <1>4
<1>6. maxsort' = grown
  BY <1>3, <1>5, Below DEF maxsort
<1>7. \A k \in 0 .. grown - 1 : next'[k] = IF k \in nlocal .. nlocal + n - 2 THEN k + 1
          ELSE IF k = nlocal + n - 1 /\ n > 0 THEN -1
          ELSE IF k \in DOMAIN next THEN next[k] ELSE Garbage
  BY <1>4
<1>8. ASSUME NEW k \in 0 .. grown - 1 PROVE next'[k] \in Int
  <2>1. k \in Int /\ Garbage \in Int /\ (k \in DOMAIN next => next[k] \in Int)
    BY <1>3 DEF Garbage
  <2> QED BY <1>7, <2>1
<1>9. ASSUME NEW k \in Indices, k \in DOMAIN next PROVE k \in 0 .. grown - 1 /\ next'[k] = next[k]
  <2>1. k \in Nat /\ k < nlocal
    BY <1>1 DEF Indices
  <2>2. k \in 0 .. grown - 1
    BY <1>1, <1>3, <2>1
  <2>3. k \notin nlocal .. nlocal + n - 2 /\ ~(k = nlocal + n - 1 /\ n > 0)
    BY <1>1, <2>1
  <2> QED BY <1>7, <1>9, <2>2, <2>3
<1>10. ASSUME NEW m \in 1 .. n
       PROVE  nlocal + m - 1 \in 0 .. grown - 1 /\ next'[nlocal + m - 1] = IF m = n THEN -1 ELSE nlocal + m
  <2>1. nlocal + m - 1 \in 0 .. grown - 1 /\ n > 0 /\ m \in Nat
    BY <1>1, <1>3
  <2>2. (m = n => nlocal + m - 1 = nlocal + n - 1 /\ nlocal + m - 1 \notin nlocal .. nlocal + n - 2)
        /\ (m # n => nlocal + m - 1 \in nlocal .. nlocal + n - 2 /\ (nlocal + m - 1) + 1 = nlocal + m)
    BY <1>1, <2>1
  <2>3. m = n => next'[nlocal + m - 1] = -1
    BY <1>7, <2>1, <2>2
  <2>4. m # n => next'[nlocal + m - 1] = nlocal + m
    BY <1>7, <2>1, <2>2
  <2> QED BY <2>1, <2>3, <2>4
<1> QED BY <1>3, <1>5, <1>6, <1>8, <1>9, <1>10

LEMMA UnpackCellStep == Inv /\ UnpackCell => Inv'
<1> SUFFICES ASSUME Inv, UnpackCell PROVE Inv'
  OBVIOUS
<1>1. PICK name \in setting.names \ (Names \union leaving) : \E new \in NewParticles(2, Len(cells) + 1, name) :
        /\ cells' = Append(cells, name) /\ Add(new)
        /\ IF sorted
             THEN first' = Append(first, LinkedFirst(Len(new))) /\ next' = LinkedNext(Len(new))
             ELSE first' = Append(first, Garbage) /\ next' = next
  BY DEF UnpackCell
<1>2. PICK new \in NewParticles(2, Len(cells) + 1, name) :
        /\ cells' = Append(cells, name) /\ Add(new)
        /\ IF sorted
             THEN first' = Append(first, LinkedFirst(Len(new))) /\ next' = LinkedNext(Len(new))
             ELSE first' = Append(first, Garbage) /\ next' = next
  BY <1>1
<1>3. /\ stage = "unpack" /\ stage' = "unpacked" /\ list' = list /\ i' = i
      /\ UNCHANGED <<setting, sorted, half, upper, norig, leaving, unpacked>>
  BY DEF UnpackCell, Go, loop, migration
<1>4. PICK c0 : c0 = Len(cells) + 1
  OBVIOUS
<1>5. /\ cells \in Seq(setting.names) /\ NamesDistinct /\ first \in [Owned -> Int] /\ LoopType /\ Sizes
      /\ setting \in Settings /\ maxlocal \in Nat /\ maxsort \in Nat /\ nlocal \in Nat /\ Distinct
      /\ DOMAIN next = 0 .. maxsort - 1 /\ (\A k \in DOMAIN next : next[k] \in Int) /\ sorted \in BOOLEAN
      /\ name \in CellNames /\ unpacked \subseteq leaving /\ leaving \subseteq CellNames
  BY SettingsAssumption DEF Inv, TypeOK, ListsType, Sizes
<1>6. /\ i = 0 /\ (\A k \in Indices : Placed(k) /\ particles[k] \in Particles)
      /\ \A c \in Owned : cells[c] \in Gone => InCell(c) = {}
  BY <1>3 DEF Inv, PlacesInv, IdleInv, LeavingInv, At, Stages, TypeOK, ParticlesType
<1>7. /\ Newcomers(new) /\ Len(new) \in Nat /\ DOMAIN new = 1 .. Len(new) /\ new \in Seq(Particles)
      /\ \A m \in DOMAIN new : new[m].icell = c0 /\ new[m].x = name
  <2>1. c0 \in Nat /\ 2 \in Nat /\ setting \in Settings /\ name \in CellNames
    BY <1>4, <1>5
  <2>2. new \in NewParticles(2, c0, name)
    BY <1>4
  <2>3. Newcomers(new) /\ \A m \in DOMAIN new : new[m].icell = c0 /\ new[m].x = name
    BY <2>1, <2>2, NewParticlesAre
  <2> QED BY <2>3 DEF Newcomers
<1>8. /\ cells' \in Seq(setting'.names) /\ Owned' = 1 .. c0 /\ Owned \subseteq Owned' /\ c0 \in Owned' /\ c0 \in Nat
      /\ c0 \notin Owned /\ \A c \in Owned' : c \in Owned \/ c = c0
      /\ (\A c \in Owned : cells'[c] = cells[c]) /\ cells'[c0] = name
  <2>1. /\ cells' \in Seq(setting.names) /\ Len(cells') = c0 /\ Len(cells) \in Nat
        /\ (\A m \in 1 .. Len(cells) : cells'[m] = cells[m]) /\ cells'[c0] = name
    BY <1>1, <1>4, <1>5, OneMore
  <2>2. Owned = 1 .. Len(cells) /\ Owned' = 1 .. c0
    BY <2>1 DEF Owned
  <2> QED BY <1>3, <1>4, <2>1, <2>2
<1>9. NamesDistinct' /\ Names' = Names \union {name} /\ name \notin Names /\ name \notin leaving
  <2>1. name \notin Names /\ \A c \in Owned : cells[c] # name
    BY DEF Names
  <2>2. NamesDistinct'
    BY <1>5, <1>8, <2>1 DEF NamesDistinct
  <2>3. Names' = Names \union {name}
    BY <1>8 DEF Names
  <2> QED BY <2>1, <2>2, <2>3
<1>10. first' \in [Owned' -> Int] /\ (\A c \in Owned : first'[c] = first[c])
      /\ (sorted => first'[c0] = LinkedFirst(Len(new)))
  <2>1. first \in Seq(Int) /\ Len(first) = Len(cells) /\ Owned = 1 .. Len(cells) /\ Len(cells) \in Nat
    BY <1>5 DEF Owned
  <2>2. LinkedFirst(Len(new)) \in Int /\ Garbage \in Int
    BY <1>5 DEF LinkedFirst, Garbage
  <2>3. PICK x \in Int : first' = Append(first, x) /\ (sorted => x = LinkedFirst(Len(new)))
    BY <1>2, <2>2
  <2>4. /\ first' \in Seq(Int) /\ Len(first') = Len(first) + 1
        /\ (\A m \in 1 .. Len(first) : first'[m] = first[m]) /\ first'[Len(first) + 1] = x
    BY <2>1, <2>3, OneMore
  <2>5. first' \in [1 .. c0 -> Int]
    BY <1>4, <2>1, <2>4
  <2> QED BY <1>4, <1>8, <2>1, <2>3, <2>4, <2>5
<1>11. /\ nlocal' = nlocal + Len(new) /\ nlocal' \in Nat /\ maxlocal' \in Nat /\ nlocal' <= maxlocal'
      /\ DOMAIN particles' = Indices' /\ Indices \subseteq Indices' /\ \A k \in Indices : particles'[k] = particles[k]
      /\ Indices' = 0 .. nlocal' - 1
  BY <1>2, <1>5, <1>7, AddedArray
<1>12. \A m \in DOMAIN new : nlocal + m - 1 \in Indices' /\ nlocal + m - 1 \notin Indices
                              /\ particles'[nlocal + m - 1] = new[m]
  BY <1>2, <1>5, <1>7, AddedArray
<1>13. \A k \in Indices' : k \in Indices \/ (k - nlocal + 1 \in DOMAIN new /\ k >= nlocal
                                                /\ particles'[k] = new[k - nlocal + 1])
  BY <1>2, <1>5, <1>7, AddedArray
<1>14. Indices' \subseteq Int
  <2>1. nlocal' \in Nat
    BY <1>11
  <2> QED BY <2>1 DEF Indices
<1>15. Distinct'
  BY <1>2, <1>5, <1>7, AddedHeld
<1>16. ASSUME NEW k \in Indices' \ Indices
       PROVE  /\ particles'[k] \in Particles /\ particles'[k].icell = c0 /\ particles'[k].x = name
              /\ \E m \in DOMAIN new : k = nlocal + m - 1
  <2>1. k - nlocal + 1 \in DOMAIN new /\ k >= nlocal /\ particles'[k] = new[k - nlocal + 1]
    BY <1>13
  <2>2. k \in Int
    BY <1>14
  <2>3. k = nlocal + (k - nlocal + 1) - 1
    BY <1>5, <2>2
  <2>4. new[k - nlocal + 1] \in Particles
    BY <1>7, <2>1
  <2> QED BY <1>7, <2>1, <2>3, <2>4
<1>17. ParticlesType'
  <2>1. \A k \in Indices' : particles'[k] \in Particles
    BY <1>6, <1>11, <1>16
  <2> QED BY <1>11, <2>1 DEF ParticlesType
<1>18. \A k \in Indices' : Placed(k)'
  <2> SUFFICES ASSUME NEW k \in Indices' PROVE Placed(k)'
    OBVIOUS
  <2>1. CASE k \in Indices
    <3>1. Placed(k) /\ particles'[k] = particles[k]
      BY <1>6, <1>11, <2>1
    <3>2. particles[k].icell \in Owned /\ cells[particles[k].icell] = particles[k].x
      BY <3>1 DEF Placed
    <3>3. particles[k].icell \in Owned' /\ cells'[particles[k].icell] = particles[k].x
      BY <1>8, <3>2
    <3> QED BY <3>1, <3>3 DEF Placed
  <2>2. CASE k \notin Indices
    BY <1>8, <1>16, <2>2 DEF Placed
  <2> QED BY <2>1, <2>2
<1>19. ASSUME NEW c \in Owned PROVE InCell(c)' = InCell(c)
  BY <1>8, <1>11, <1>16 DEF InCell
<1>20. \A k : k \in InCell(c0)' <=> \E m \in DOMAIN new : k = nlocal + m - 1
  <2>1. \A k \in Indices : particles'[k].icell # c0
    BY <1>6, <1>8, <1>11 DEF Placed
  <2>2. \A m \in DOMAIN new : nlocal + m - 1 \in Indices' /\ particles'[nlocal + m - 1].icell = c0
    BY <1>7, <1>12
  <2>3. \A k : k \in InCell(c0)' <=> k \in Indices' /\ particles'[k].icell = c0
    BY <1>4 DEF InCell
  <2> QED BY <1>16, <2>1, <2>2, <2>3
<1>21. sorted => /\ maxsort' \in Nat /\ DOMAIN next' = 0 .. maxsort' - 1 /\ \A k \in DOMAIN next' : next'[k] \in Int
                 /\ \A k \in Indices : k \in DOMAIN next => k \in DOMAIN next' /\ next'[k] = next[k]
                 /\ \A m \in 1 .. Len(new) :
                      /\ nlocal + m - 1 \in DOMAIN next'
                      /\ next'[nlocal + m - 1] = IF m = Len(new) THEN -1 ELSE nlocal + m
  BY <1>2, <1>5, <1>7, LinkedNextIs
<1>22. ~sorted => maxsort' \in Nat /\ DOMAIN next' = 0 .. maxsort' - 1 /\ \A k \in DOMAIN next' : next'[k] \in Int
  <2>1. ~sorted => next' = next /\ maxsort' = maxsort
    BY <1>2 DEF maxsort
  <2> QED BY <1>5, <2>1
<1>23. TypeOK' /\ Sizes'
  <2>1. LoopType'
    BY <1>3, <1>5 DEF LoopType, Stages
  <2>2. ListsType' /\ maxsort' \in Nat
    BY <1>3, <1>5, <1>10, <1>21, <1>22 DEF ListsType
  <2> QED BY <1>3, <1>5, <1>8, <1>11, <1>17, <2>1, <2>2 DEF TypeOK, Sizes
<1>24. PlacesInv' /\ IdleInv' /\ WeighInv' /\ ListInv' /\ LeaversInv' /\ TrackInv'
  BY <1>3, <1>6, <1>18 DEF PlacesInv, IdleInv, WeighInv, ListInv, LeaversInv, TrackInv, At
<1>25. SortedInv'
  BY <1>3 DEF SortedInv, At, Inv, Rebalancing
<1>26. Gone' = Gone
  BY <1>3 DEF Gone
<1>27. LeavingInv'
  <2>1. \A c \in Owned' : cells'[c] \in Gone' => InCell(c)' = {}
    <3> SUFFICES ASSUME NEW c \in Owned', cells'[c] \in Gone' PROVE InCell(c)' = {}
      OBVIOUS
    <3>1. c \in Owned
      BY <1>8, <1>9, <1>26 DEF Gone
    <3> QED BY <1>6, <1>8, <1>19, <1>26, <3>1
  <2>2. /\ setting.balance # "none"
        /\ setting.balance = "less memory" => leaving \subseteq Names
        /\ setting.balance = "at once" => Names \intersect leaving = {} /\ unpacked = {}
    BY <1>3 DEF Inv, LeavingInv, At, Rebalancing
  <2> QED BY <1>3, <1>9, <2>1, <2>2 DEF LeavingInv, At, Rebalancing
<1>28. ChainInv'
  <2> SUFFICES ASSUME InUse', NEW c \in Owned', cells'[c] \notin Gone' PROVE \E s : ChainOf(c, s)'
    BY DEF ChainInv
  <2>1. sorted /\ InUse /\ Complete
    BY <1>3 DEF InUse, Complete, GivenUp, At
  <2>2. CASE c \in Owned
    <3>1. PICK s : Linked(c, s) /\ On(s) = InCell(c)
      BY <1>8, <1>26, <2>1, <2>2 DEF Inv, ChainInv, ChainOf
    <3>2. s \in Seq(Indices') /\ \A m \in DOMAIN s : s[m] \in Indices
      <4>1. s \in Seq(Indices) /\ Indices \subseteq Indices'
        BY <1>11, <3>1 DEF Linked
      <4> QED BY <4>1
    <3>3. \A m \in DOMAIN s : s[m] \in DOMAIN next' /\ next'[s[m]] = next[s[m]]
      BY <1>21, <2>1, <3>1, <3>2 DEF Linked
    <3>4. first'[c] = first[c]
      BY <1>10, <2>2
    <3>5. Linked(c, s)'
      BY <3>1, <3>2, <3>3, <3>4 DEF Linked
    <3>6. ChainOf(c, s)'
      BY <1>19, <2>2, <3>1, <3>5 DEF ChainOf
    <3> QED BY <3>6
  <2>3. CASE c = c0
    <3>1. PICK s : s = [m \in 1 .. Len(new) |-> nlocal + m - 1]
      OBVIOUS
    <3>2. \A m \in 1 .. Len(new) : s[m] = nlocal + m - 1 /\ s[m] \in Indices'
      <4>1. \A m \in 1 .. Len(new) : s[m] = nlocal + m - 1
        BY <3>1
      <4> QED BY <1>7, <1>12, <4>1
    <3>3. s \in Seq(Indices') /\ Len(s) = Len(new) /\ DOMAIN s = 1 .. Len(new)
      BY <1>7, <3>1, <3>2
    <3>4. \A m, n \in 1 .. Len(new) : s[m] = s[n] => m = n
      <4> SUFFICES ASSUME NEW m \in 1 .. Len(new), NEW n \in 1 .. Len(new), s[m] = s[n] PROVE m = n
        OBVIOUS
      <4>1. nlocal + m - 1 = nlocal + n - 1
        BY <3>2
      <4> QED BY <1>5, <1>7, <4>1
    <3>5. first'[c] = IF s = <<>> THEN -1 ELSE s[1]
      <4>1. first'[c] = IF Len(new) = 0 THEN -1 ELSE nlocal
        BY <1>10, <2>1, <2>3 DEF LinkedFirst
      <4>2. CASE Len(new) = 0
        <5>1. s = <<>>
          BY <3>3, <4>2
        <5> QED BY <4>1, <4>2, <5>1
      <4>3. CASE Len(new) # 0
        <5>1. s # <<>> /\ 1 \in 1 .. Len(new)
          BY <1>7, <3>3, <4>3
        <5>2. s[1] = nlocal
          BY <1>5, <3>2, <5>1
        <5> QED BY <4>1, <4>3, <5>1, <5>2
      <4> QED BY <4>2, <4>3
    <3>6. ASSUME NEW m \in 1 .. Len(new)
          PROVE  s[m] \in DOMAIN next' /\ next'[s[m]] = IF m = Len(s) THEN -1 ELSE s[m + 1]
      <4>1. nlocal + m - 1 \in DOMAIN next' /\ next'[nlocal + m - 1] = IF m = Len(new) THEN -1 ELSE nlocal + m
        BY <1>21, <2>1
      <4>2. m # Len(new) => s[m + 1] = nlocal + m
        <5> SUFFICES ASSUME m # Len(new) PROVE s[m + 1] = nlocal + m
          OBVIOUS
        <5>1. m + 1 \in 1 .. Len(new) /\ nlocal + (m + 1) - 1 = nlocal + m
          <6>1. nlocal \in Nat /\ Len(new) \in Nat
            BY <1>5, <1>7
          <6> QED BY <6>1
        <5> QED BY <3>2, <5>1
      <4> QED BY <3>2, <3>3, <4>1, <4>2
    <3>7. Linked(c, s)'
      BY <3>3, <3>4, <3>5, <3>6 DEF Linked
    <3>8. On(s) = InCell(c0)'
      <4>1. \A k : k \in On(s) <=> \E m \in DOMAIN new : k = nlocal + m - 1
        BY <1>7, <3>2, <3>3 DEF On
      <4> QED BY <1>20, <4>1
    <3>9. ChainOf(c0, s)'
      BY <2>3, <3>7, <3>8 DEF ChainOf
    <3> QED BY <2>3, <3>9
  <2> QED BY <1>8, <2>2, <2>3
<1> QED BY <1>9, <1>15, <1>23, <1>24, <1>25, <1>27, <1>28 DEF Inv

-----------------------------------------------------------------------------
LEMMA StutterStep == Inv /\ UNCHANGED vars => Inv'
<1> SUFFICES ASSUME Inv, UNCHANGED vars PROVE Inv'
  OBVIOUS
<1>1. /\ UNCHANGED <<array, grid, stage, list, i, upper, norig, half, first, next, sorted, leaving, unpacked>>
      /\ UNCHANGED <<particles, maxlocal, cells, setting>>
  BY DEF vars, array, grid, lists, loop, migration
<1>2. Sizes' /\ TypeOK' /\ Distinct' /\ NamesDistinct'
  <2>1. ParticlesType' /\ Distinct' /\ NamesDistinct' /\ cells' \in Seq(setting'.names) /\ ListsType' /\ Sizes'
    BY <1>1, SameTypes DEF Inv, TypeOK, ListsType
  <2> QED BY <1>1, <2>1 DEF Inv, TypeOK, LoopType
<1>3. Indices' = Indices /\ nlocal' = nlocal /\ Owned' = Owned /\ Names' = Names /\ Leavers' = Leavers
      /\ (\A k : Placed(k)' <=> Placed(k)) /\ (\A c : InCell(c)' = InCell(c)) /\ Gone' = Gone
  BY <1>1, SameArray, SameCells, SamePlaces DEF Gone
<1>4. PlacesInv' /\ IdleInv' /\ WeighInv' /\ SortedInv' /\ LeavingInv'
  BY <1>1, <1>3 DEF Inv, PlacesInv, IdleInv, WeighInv, SortedInv, LeavingInv, At, Rebalancing
<1>5. ListInv' /\ LeaversInv' /\ TrackInv'
  <2>1. ListInv'
    BY <1>1, <1>3 DEF Inv, ListInv, At, OfIndices, On
  <2>2. Location(1)' = Location(1) /\ \A m : Location(m)' = Location(m)
    BY <1>1, <1>3 DEF Location
  <2>3. Ahead' = Ahead /\ ListedAhead' = ListedAhead /\ LocatedAhead' = LocatedAhead
    BY <1>1, <2>2 DEF Ahead, ListedAhead, LocatedAhead
  <2>4. LeaversInv'
    BY <1>1, <1>3, <2>3 DEF Inv, LeaversInv, At, Ascending
  <2>5. TrackInv'
    BY <1>1, <1>3, <2>2, <2>3 DEF Inv, TrackInv, Tracked, At
  <2> QED BY <2>1, <2>4, <2>5
<1>6. ChainInv'
  BY <1>1, <1>3, ChainSame DEF InUse, Complete, GivenUp, At
<1> QED BY <1>2, <1>4, <1>5, <1>6 DEF Inv

LEMMA NextInv == Inv /\ [Next]_vars => Inv'
<1> SUFFICES ASSUME Inv, [Next]_vars PROVE Inv'
  OBVIOUS
<1>1. CASE Emit \/ Move \/ Migrate \/ DropTail \/ FillHole \/ DeleteNext \/ Compressed \/ Arrive
  BY <1>1, EmitStep, MoveStep, MigrateStep, DropTailStep, FillHoleStep, DeleteNextStep, CompressedStep, ArriveStep
<1>2. CASE KeepOne \/ DeleteOne \/ CloneOne \/ Weighed
  BY <1>2, KeepOneStep, DeleteOneStep, CloneOneStep, WeighedStep
<1>3. CASE SortParticles \/ Collisions \/ StartDelete \/ Collided
  BY <1>3, SortParticlesStep, CollisionsStep, StartDeleteStep, CollidedStep
<1>4. CASE EndStep \/ Rescale \/ Rebalance \/ PackCells \/ KeepCells \/ PackBatch
  BY <1>4, EndStepStep, RescaleStep, RebalanceStep, PackCellsStep, KeepCellsStep, PackBatchStep
<1>5. CASE SkipOne \/ Squeeze \/ SqueezeSorted \/ Squeezed
  BY <1>5, SkipOneStep, SqueezeStep, SqueezeSortedStep, SqueezedStep
<1>6. CASE UnpackCell \/ UnpackNothing \/ NextBatch \/ Rebalanced
  BY <1>6, UnpackCellStep, UnpackNothingStep, NextBatchStep, RebalancedStep
<1>7. CASE UNCHANGED vars
  BY <1>7, StutterStep
<1> QED BY <1>1, <1>2, <1>3, <1>4, <1>5, <1>6, <1>7 DEF Next

(* Inv is inductive.                                                       *)
LEMMA AlwaysInv == Spec => []Inv
BY InitInv, NextInv, PTL DEF Spec

LEMMA InvServes == Inv => TypeOK /\ StoredWhereItIs /\ ListsServe /\ ListsSound
<1> SUFFICES ASSUME Inv PROVE TypeOK /\ StoredWhereItIs /\ ListsServe /\ ListsSound
  OBVIOUS
<1>1. TypeOK
  BY DEF Inv
<1>2. StoredWhereItIs
  <2> SUFFICES ASSUME stage \in {"start", "arrive", "weigh", "collide", "react", "reacted", "delete", "end"}
               PROVE  /\ \A k \in Indices : particles[k].icell \in Owned /\ cells[particles[k].icell] = particles[k].x
                      /\ IsInjective([k \in Indices |-> particles[k].id])
    BY DEF StoredWhereItIs
  <2>1. \A k \in Indices : Placed(k)
    BY DEF Inv, PlacesInv, At, Stages
  <2>2. IsInjective([k \in Indices |-> particles[k].id])
    BY DEF Inv, Distinct, IsInjective
  <2> QED BY <2>1, <2>2 DEF Placed
<1>3. ListsServe
  <2> SUFFICES ASSUME stage \in {"react", "pack"}, NEW c \in Owned PROVE InCell(c) \subseteq Listed(c)
    BY DEF ListsServe
  <2>1. InUse /\ Complete
    BY DEF Inv, SortedInv, InUse, Complete, GivenUp, At
  <2>2. CASE cells[c] \in Gone
    BY <2>2 DEF Inv, LeavingInv
  <2>3. CASE cells[c] \notin Gone
    BY <2>1, <2>3, ListedIs
  <2> QED BY <2>2, <2>3
<1>4. ListsSound
  <2> SUFFICES ASSUME sorted, ~GivenUp, stage # "delete", NEW c \in Owned, cells[c] \notin leaving
               PROVE  Listed(c) \subseteq InCell(c)
    BY DEF ListsSound
  <2>1. InUse /\ cells[c] \notin Gone
    BY DEF InUse, Gone, At
  <2>2. PICK s : ChainOf(c, s)
    BY <2>1 DEF Inv, ChainInv
  <2>3. Sizes /\ DOMAIN next = 0 .. maxsort - 1
    BY DEF Inv, TypeOK, ListsType
  <2>4. Listed(c) = On(s)
    BY <2>2, <2>3, ListedOn DEF ChainOf
  <2> QED BY <2>2, <2>4 DEF ChainOf
<1> QED BY <1>1, <1>2, <1>3, <1>4

(* The state has its types: the array never outgrows maxlocal (grow is     *)
(* called in time), next is as long as maxsort says, and the loops read no *)
(* element beyond them.                                                    *)
THEOREM ListTypeCorrect == Spec => []TypeOK
BY AlwaysInv, InvServes, PTL

(* Between two stages every particle is stored once, and in the cell that  *)
(* its coordinates lie in, although compress_migrate, compress_reactions,  *)
(* post_weight, compress_rebalance and Grid::compress change the indices   *)
(* of particles and of cells in between.                                   *)
THEOREM AlwaysStoredWhereItIs == Spec => []StoredWhereItIs
BY AlwaysInv, InvServes, PTL

(* When collisions are made from the linked lists, and when pack_particles *)
(* sends the particles of a cell, the list of a cell has all its particles.*)
THEOREM ListsAlwaysServe == Spec => []ListsServe
BY AlwaysInv, InvServes, PTL

(* As long as sorted is set, the list of a cell that stays has no particle *)
(* of another cell and none that is gone, also where particles have been   *)
(* added or reactions deleted some since the sort.                         *)
THEOREM ListsAlwaysSound == Spec => []ListsSound
BY AlwaysInv, InvServes, PTL

-----------------------------------------------------------------------------
(* The particle list implements ParticleSet.                               *)
Settled == stage \notin {"migrate", "compress", "reacted", "delete", "squeeze"}

NothingDoomed == Doomed = {}
NothingPending == Pending = {}
DoomedAreHeld == Doomed \subseteq Held
\* What is doomed: leavers, marked particles, what is still to be located.
WithCell(v) == {particles[k].id : k \in {k \in Indices : particles[k].icell = v}}
LeaversAre == stage \in {"migrate", "compress"} => Doomed = WithCell(0)
MarkedAre == stage = "squeeze" => Doomed = WithCell(-1)
ListedAre == stage = "reacted" => Doomed = IdsAt(ListedAhead)
LocatedAre == stage = "delete" => Doomed = IdsAt(LocatedAhead)
DoomedInv == /\ Settled => NothingDoomed
             /\ LeaversAre /\ MarkedAre /\ ListedAre /\ LocatedAre /\ DoomedAreHeld
             /\ stage # "weigh" => NothingPending

LEMMA DoomedIs == Inv => DoomedInv
<1> SUFFICES ASSUME Inv PROVE DoomedInv
  OBVIOUS
<1>1. ASSUME Settled PROVE NothingDoomed
  <2>1. \A k \in Indices : particles[k].icell \in Owned
    BY <1>1 DEF Inv, PlacesInv, At, Settled, Stages, TypeOK, LoopType, Placed
  <2>2. {k \in Indices : particles[k].icell = -1} = {}
    BY <2>1 DEF Owned
  <2>3. Doomed = IdsAt({k \in Indices : particles[k].icell = -1})
    BY <1>1 DEF Doomed, Settled
  <2> QED BY <2>2, <2>3 DEF IdsAt, NothingDoomed
<1>2. LeaversAre
  <2>1. stage = "migrate" \/ (stage = "compress" /\ ~setting.optmove) => Doomed = IdsAt(ListedAhead)
    BY DEF Doomed, ListedAhead, Ahead
  <2>2. stage = "compress" /\ setting.optmove => Doomed = IdsAt(LocatedAhead)
    BY DEF Doomed, LocatedAhead, Ahead
  <2>3. IdsAt(Leavers) = WithCell(0)
    BY DEF IdsAt, Leavers, WithCell
  <2> QED BY <2>1, <2>2, <2>3 DEF Inv, LeaversInv, At, LeaversAre
<1>3. MarkedAre /\ ListedAre /\ LocatedAre
  BY DEF Doomed, IdsAt, WithCell, ListedAhead, LocatedAhead, Ahead, MarkedAre, ListedAre, LocatedAre
<1>4. DoomedAreHeld
  BY DEF Doomed, IdsAt, Held, DoomedAreHeld
<1>5. stage # "weigh" => NothingPending
  BY DEF Pending, NothingPending
<1> QED BY <1>1, <1>2, <1>3, <1>4, <1>5 DEF DoomedInv

LEMMA DoomedNext == Inv' => DoomedInv'
BY DoomedIs, PTL

-----------------------------------------------------------------------------
(* Steps of the set.                                                       *)
LEMMA SetStutters ==
    ASSUME Held' = Held, Doomed' = Doomed, Pending' = Pending
    PROVE  [Set!Next]_Set!vars
BY DEF Set!vars

LEMMA SetAdmits ==
    ASSUME Doomed = {}, Pending = {}, NEW new \in SUBSET (Ids \ Held), Held' = Held \union new,
           Doomed' \subseteq Held', Pending' = {} \/ (Pending' = Held' /\ Doomed' = {})
    PROVE  [Set!Next]_Set!vars
<1>1. Doomed' \in SUBSET Held'
  OBVIOUS
<1>2. Set!Admit
  BY <1>1 DEF Set!Admit
<1> QED BY <1>2 DEF Set!Next

LEMMA SetRemoves ==
    ASSUME NEW a \in Doomed, Held' = Held \ {a}, Doomed' = Doomed \ {a}, Pending' = Pending
    PROVE  [Set!Next]_Set!vars
<1>1. Set!Remove
  BY DEF Set!Remove
<1> QED BY <1>1 DEF Set!Next

LEMMA SetKeeps ==
    ASSUME NEW a \in Pending, NEW new \in SUBSET (Ids \ Held), Held' = Held \union new,
           Pending' = Pending \ {a}, Doomed' = Doomed
    PROVE  [Set!Next]_Set!vars
<1>1. Set!Decide
  BY DEF Set!Decide
<1> QED BY <1>1 DEF Set!Next

LEMMA SetDeletes ==
    ASSUME NEW a \in Pending, Held' = Held \ {a}, Pending' = Pending \ {a}, Doomed' = Doomed
    PROVE  [Set!Next]_Set!vars
<1>1. Set!Decide
  BY DEF Set!Decide
<1> QED BY <1>1 DEF Set!Next

-----------------------------------------------------------------------------
(* The particles held.                                                     *)
LEMMA HeldStays ==
    ASSUME Inv, DOMAIN particles' = Indices, \A k \in Indices : particles'[k].id = particles[k].id
    PROVE  Held' = Held /\ Indices' = Indices
<1>1. nlocal \in Nat
  BY DEF Inv, Sizes
<1>2. Indices' = Indices
  <2>1. DOMAIN particles' = 0 .. nlocal - 1
    BY DEF Indices
  <2> QED BY <1>1, <2>1, ArrayOf DEF Indices
<1> QED BY <1>2 DEF Held

LEMMA HeldSame ==
    ASSUME particles' = particles
    PROVE  Held' = Held /\ (\A v : WithCell(v)' = WithCell(v)) /\ \A S : IdsAt(S)' = IdsAt(S)
BY SameArray DEF Held, WithCell, IdsAt

LEMMA HeldMore ==
    ASSUME Inv, NEW new, Newcomers(new), Add(new)
    PROVE  \E more \in SUBSET (Ids \ Held) : Held' = Held \union more
BY AddedHeld DEF Inv

\* An overwritten particle is gone, and it alone.
LEMMA HeldLess ==
    ASSUME Inv, NEW j \in Indices, particles' = Overwritten(j)
    PROVE  /\ Held' = Held \ {particles[j].id}
           /\ \A v : WithCell(v)' = WithCell(v) \ {particles[j].id}
<1>1. nlocal \in Nat /\ Distinct
  BY DEF Inv, Sizes
<1>2. /\ nlocal - 1 \in Indices /\ Indices' \subseteq Indices
      /\ nlocal - 1 \notin Indices' /\ \A k \in Indices : k \in Indices' \/ k = nlocal - 1
      /\ \A k \in Indices' : particles'[k] = IF k = j THEN particles[nlocal - 1] ELSE particles[k]
  BY <1>1, OverwrittenArray
<1>3. ASSUME NEW k \in Indices'
      PROVE  \E q \in Indices : q # j /\ particles'[k] = particles[q]
  <2>1. CASE k = j
    BY <1>2, <2>1
  <2>2. CASE k # j
    BY <1>2, <2>2
  <2> QED BY <2>1, <2>2
<1>4. ASSUME NEW q \in Indices, q # j PROVE \E k \in Indices' : particles'[k] = particles[q]
  <2>1. CASE q = nlocal - 1
    <3>1. j \in Indices' /\ particles'[j] = particles[q]
      BY <1>2, <1>4, <2>1
    <3> QED BY <3>1
  <2>2. CASE q # nlocal - 1
    <3>1. q \in Indices' /\ particles'[q] = particles[q]
      BY <1>2, <1>4, <2>2
    <3> QED BY <3>1
  <2> QED BY <2>1, <2>2
<1>5. ASSUME NEW v, NEW a PROVE a \in WithCell(v)' <=> a \in WithCell(v) \ {particles[j].id}
  <2>1. a \in WithCell(v)' <=> \E k \in Indices' : particles'[k].icell = v /\ a = particles'[k].id
    BY DEF WithCell
  <2>2. a \in WithCell(v) <=> \E k \in Indices : particles[k].icell = v /\ a = particles[k].id
    BY DEF WithCell
  <2>3. \A q \in Indices : particles[q].id = particles[j].id <=> q = j
    BY <1>1 DEF Distinct
  <2> QED BY <1>3, <1>4, <2>1, <2>2, <2>3
<1>6. Held' = Held \ {particles[j].id}
  BY <1>1, OverwrittenHeld
<1> QED BY <1>5, <1>6

\* Nothing is doomed or pending, before and after.
LEMMA SetRests ==
    ASSUME Inv, Inv', Settled, Settled', Held' = Held, Pending = {}, stage' # "weigh"
    PROVE  [Set!Next]_Set!vars
<1>1. Doomed = {} /\ Doomed' = {} /\ Pending' = {}
  BY DoomedIs, DoomedNext DEF DoomedInv, NothingDoomed, NothingPending
<1> QED BY <1>1, SetStutters

LEMMA RestSet ==
    ASSUME Inv, Inv', Weighed \/ SortParticles \/ EndStep \/ Rescale \/ Rebalance \/ KeepCells
                      \/ UnpackNothing \/ NextBatch \/ Rebalanced
    PROVE  [Set!Next]_Set!vars
<1>1. CASE Weighed
  <2>1. particles' = particles /\ Settled /\ Settled' /\ stage' # "weigh" /\ stage = "weigh" /\ i >= norig
    BY <1>1 DEF Weighed, Go, Settled, array
  <2>2. Pending = {}
    <3>1. i .. norig - 1 = {}
      <4>1. i \in Nat /\ norig \in Nat
        BY DEF Inv, TypeOK, LoopType
      <4> QED BY <2>1, <4>1
    <3> QED BY <2>1, <3>1 DEF Pending, IdsAt
  <2> QED BY <2>1, <2>2, HeldSame, SetRests
<1>2. CASE SortParticles \/ EndStep \/ Rescale \/ Rebalance \/ KeepCells \/ UnpackNothing \/ NextBatch
  <2>1. particles' = particles /\ Settled /\ Settled' /\ stage' # "weigh" /\ stage # "weigh"
    BY <1>2 DEF SortParticles, EndStep, Rescale, Rebalance, KeepCells, UnpackNothing, NextBatch, Go, Settled, array
  <2>2. Pending = {}
    BY <2>1, DoomedIs DEF DoomedInv, NothingPending
  <2> QED BY <2>1, <2>2, HeldSame, SetRests
<1>3. CASE Rebalanced
  <2>1. Settled /\ Settled' /\ stage' # "weigh" /\ stage # "weigh"
    BY <1>3 DEF Rebalanced, Go, Settled
  <2>2. Pending = {}
    BY <2>1, DoomedIs DEF DoomedInv, NothingPending
  <2>3. DOMAIN particles' = Indices /\ \A k \in Indices : particles'[k].id = particles[k].id
    <3>1. \A k \in Indices : particles[k] \in Particles
      BY DEF Inv, TypeOK, ParticlesType
    <3>2. CASE particles' = particles
      BY <3>2 DEF Inv, TypeOK, ParticlesType
    <3>3. CASE particles' = Repointed(particles)
      <4>1. DOMAIN particles' = Indices
        BY <3>3 DEF Repointed
      <4>2. ASSUME NEW k \in Indices PROVE particles'[k].id = particles[k].id
        <5>1. \/ particles'[k] = particles[k]
              \/ \E n : particles'[k] = [particles[k] EXCEPT !.icell = n]
          BY <3>3 DEF Repointed
        <5> QED BY <3>1, <5>1 DEF Particles
      <4> QED BY <4>1, <4>2
    <3> QED BY <1>3, <3>2, <3>3 DEF Rebalanced, CompressGrid
  <2> QED BY <2>1, <2>2, <2>3, HeldStays, SetRests
<1> QED BY <1>1, <1>2, <1>3

LEMMA EmptyIds ==
    ASSUME Inv, i > Len(list)
    PROVE  Ahead = {} /\ IdsAt(ListedAhead) = {} /\ IdsAt(LocatedAhead) = {}
<1>1. i \in Nat /\ Len(list) \in Nat
  BY DEF Inv, TypeOK, LoopType
<1>2. Ahead = {}
  BY <1>1 DEF Ahead
<1> QED BY <1>2 DEF ListedAhead, LocatedAhead, IdsAt

LEMMA LoopSet ==
    ASSUME Inv, Inv', Compressed \/ Collided \/ Migrate \/ StartDelete \/ Squeezed \/ SkipOne
    PROVE  [Set!Next]_Set!vars
<1>1. particles' = particles /\ Held' = Held /\ (\A v : WithCell(v)' = WithCell(v))
  BY HeldSame DEF Compressed, Collided, Migrate, StartDelete, Squeezed, SkipOne, array
<1>2. stage # "weigh" /\ stage' # "weigh"
  BY DEF Compressed, Collided, Migrate, StartDelete, Squeezed, SkipOne, Squeezing, Go
<1>3. Pending = {} /\ Pending' = {}
  BY <1>2, DoomedIs, DoomedNext DEF DoomedInv, NothingPending
<1>4. Doomed' = Doomed
  <2>1. CASE Compressed
    <3>1. stage = "compress" /\ i > Len(list) /\ Settled'
      BY <2>1 DEF Compressed, Go, Settled
    <3>2. Doomed' = {}
      BY <3>1, DoomedNext DEF DoomedInv, NothingDoomed
    <3>3. Doomed = IdsAt(ListedAhead) \/ Doomed = IdsAt(LocatedAhead)
      BY <3>1 DEF Doomed, ListedAhead, LocatedAhead, Ahead
    <3> QED BY <3>1, <3>2, <3>3, EmptyIds
  <2>2. CASE Collided
    <3>1. stage = "delete" /\ i > Len(list) /\ Settled'
      BY <2>2 DEF Collided, Go, Settled
    <3>2. Doomed' = {}
      BY <3>1, DoomedNext DEF DoomedInv, NothingDoomed
    <3>3. Doomed = IdsAt(LocatedAhead)
      BY <3>1, DoomedIs DEF DoomedInv, LocatedAre
    <3> QED BY <3>1, <3>2, <3>3, EmptyIds
  <2>3. CASE Migrate
    <3>1. stage = "migrate" /\ stage' = "compress"
      BY <2>3 DEF Migrate, Go
    <3> QED BY <1>1, <3>1, DoomedIs, DoomedNext DEF DoomedInv, LeaversAre
  <2>4. CASE StartDelete
    <3>1. stage = "reacted" /\ stage' = "delete" /\ list' = list /\ i' = i /\ i = 1
      BY <2>4 DEF StartDelete, Go, Inv, ListInv, At
    <3>2. Doomed = IdsAt(ListedAhead) /\ Doomed' = IdsAt(LocatedAhead)'
      BY <3>1, DoomedIs, DoomedNext DEF DoomedInv, ListedAre, LocatedAre
    <3>3. Ahead' = Ahead
      BY <3>1 DEF Ahead
    <3>4. \A m \in Ahead : Location(m)' = list[m]
      <4>1. Ahead = 1 .. Len(list) /\ DOMAIN list = 1 .. Len(list) /\ On(list) \subseteq Indices
        BY <3>1 DEF Ahead, Inv, ListInv, At, TypeOK, LoopType
      <4>2. \A m \in Ahead : list[m] \in Indices
        BY <4>1 DEF On
      <4>3. nlocal' = nlocal /\ nlocal \in Nat
        BY <1>1, SameArray DEF Inv, Sizes
      <4>4. \A m \in Ahead : ~(list[m] >= nlocal)
        BY <4>2, <4>3 DEF Indices
      <4> QED BY <3>1, <4>3, <4>4 DEF Location
    <3>5. LocatedAhead' = ListedAhead
      BY <3>3, <3>4 DEF LocatedAhead, ListedAhead
    <3>6. IdsAt(LocatedAhead)' = IdsAt(ListedAhead)
      BY <1>1, <3>5, SameArray DEF IdsAt
    <3> QED BY <3>2, <3>6
  <2>5. CASE Squeezed
    <3>1. stage = "squeeze" /\ i >= nlocal /\ Settled'
      BY <2>5 DEF Squeezed, Go, Settled
    <3>2. Doomed' = {}
      BY <3>1, DoomedNext DEF DoomedInv, NothingDoomed
    <3>3. Doomed = WithCell(-1)
      BY <3>1, DoomedIs DEF DoomedInv, MarkedAre
    <3>4. \A k \in Indices : ~(k >= i)
      <4>1. i \in Nat /\ nlocal \in Nat
        BY DEF Inv, TypeOK, LoopType, Sizes
      <4> QED BY <3>1, <4>1 DEF Indices
    <3>5. \A k \in Indices : particles[k].icell # -1
      BY <3>1, <3>4 DEF Inv, PlacesInv, At, Placed, Owned
    <3> QED BY <3>2, <3>3, <3>5 DEF WithCell
  <2>6. CASE SkipOne
    <3>1. stage = "squeeze" /\ stage' = "squeeze"
      BY <2>6 DEF SkipOne, Squeezing
    <3> QED BY <1>1, <3>1, DoomedIs, DoomedNext DEF DoomedInv, MarkedAre
  <2> QED BY <2>1, <2>2, <2>3, <2>4, <2>5, <2>6
<1> QED BY <1>1, <1>3, <1>4, SetStutters

\* Particles that come in, or are told where to go.
LEMMA SetTakes ==
    ASSUME Inv, Inv', Settled, stage # "weigh", NEW more \in SUBSET (Ids \ Held), Held' = Held \union more,
           Pending' = {} \/ (Pending' = Held' /\ Settled')
    PROVE  [Set!Next]_Set!vars
<1>1. Doomed = {} /\ Pending = {}
  BY DoomedIs DEF DoomedInv, NothingDoomed, NothingPending
<1>2. Doomed' \subseteq Held' /\ (Settled' => Doomed' = {})
  BY DoomedNext DEF DoomedInv, NothingDoomed, DoomedAreHeld
<1> QED BY <1>1, <1>2, SetAdmits

LEMMA AdmitSet ==
    ASSUME Inv, Inv', Emit \/ Collisions \/ UnpackCell \/ Move \/ PackCells \/ PackBatch
    PROVE  [Set!Next]_Set!vars
<1>1. Settled /\ stage # "weigh" /\ stage' # "weigh"
  BY DEF Emit, Collisions, UnpackCell, Move, PackCells, PackBatch, Go, Settled
<1>2. Pending' = {}
  BY <1>1, DoomedNext DEF DoomedInv, NothingPending
<1>3. \E more \in SUBSET (Ids \ Held) : Held' = Held \union more
  <2>1. CASE Emit
    <3>1. PICK new \in NewHere(1) : Add(new)
      BY <2>1 DEF Emit
    <3>2. Newcomers(new)
      BY NewHereIs DEF Inv, Sizes, TypeOK
    <3> QED BY <3>1, <3>2, HeldMore
  <2>2. CASE Collisions
    <3>1. PICK new \in NewHere(1) : Add(new)
      BY <2>2 DEF Collisions
    <3>2. Newcomers(new)
      BY NewHereIs DEF Inv, Sizes, TypeOK
    <3> QED BY <3>1, <3>2, HeldMore
  <2>3. CASE UnpackCell
    <3>1. PICK name \in setting.names \ (Names \union leaving) :
              \E new \in NewParticles(2, Len(cells) + 1, name) : Add(new)
      BY <2>3 DEF UnpackCell
    <3>2. PICK new \in NewParticles(2, Len(cells) + 1, name) : Add(new)
      BY <3>1
    <3>3. setting \in Settings /\ name \in CellNames /\ Len(cells) + 1 \in Nat /\ 2 \in Nat
      <4>1. setting \in Settings /\ cells \in Seq(setting.names)
        BY DEF Inv, Sizes, TypeOK
      <4>2. name \in CellNames
        BY <4>1, SettingsAssumption
      <4>3. Len(cells) \in Nat
        BY <4>1
      <4> QED BY <4>1, <4>2, <4>3
    <3>4. Newcomers(new)
      BY <3>2, <3>3, NewParticlesAre
    <3> QED BY <3>2, <3>4, HeldMore
  <2>4. CASE Move \/ PackCells \/ PackBatch
    <3>1. DOMAIN particles' = Indices /\ \A k \in Indices : particles'[k].id = particles[k].id
      <4>1. \A k \in Indices : particles[k] \in Particles
        BY DEF Inv, TypeOK, ParticlesType
      <4>2. CASE Move
        BY <4>2 DEF Move
      <4>3. ASSUME NEW ps, particles' = Packed(ps) \/ particles' = Repointed(Packed(ps))
            PROVE  DOMAIN particles' = Indices /\ \A k \in Indices : particles'[k].id = particles[k].id
        <5>1. ASSUME NEW k \in Indices
              PROVE  /\ Packed(ps)[k].id = particles[k].id
                     /\ \E c : Packed(ps)[k] = [particles[k] EXCEPT !.icell = c] \/ Packed(ps)[k] = particles[k]
          BY <4>1 DEF Packed, Particles
        <5>2. CASE particles' = Packed(ps)
          BY <5>1, <5>2 DEF Packed
        <5>3. CASE particles' = Repointed(Packed(ps))
          <6>1. DOMAIN particles' = Indices
            BY <5>3 DEF Repointed
          <6>2. ASSUME NEW k \in Indices PROVE particles'[k].id = particles[k].id
            <7>1. \/ particles'[k] = Packed(ps)[k]
                  \/ \E n : particles'[k] = [Packed(ps)[k] EXCEPT !.icell = n]
              BY <5>3 DEF Repointed
            <7>2. \E c : Packed(ps)[k] = [particles[k] EXCEPT !.icell = c] \/ Packed(ps)[k] = particles[k]
              BY <5>1
            <7> QED BY <4>1, <7>1, <7>2 DEF Particles
          <6> QED BY <6>1, <6>2
        <5> QED BY <4>3, <5>2, <5>3
      <4>4. CASE PackCells
        BY <4>3, <4>4 DEF PackCells, CompressGrid
      <4>5. CASE PackBatch
        BY <4>3, <4>5 DEF PackBatch
      <4> QED BY <2>4, <4>2, <4>4, <4>5
    <3>2. Held' = Held \union {}
      BY <3>1, HeldStays
    <3> QED BY <3>2
  <2> QED BY <2>1, <2>2, <2>3, <2>4
<1>4. PICK more \in SUBSET (Ids \ Held) : Held' = Held \union more
  BY <1>3
<1> QED BY <1>1, <1>2, <1>4, SetTakes

LEMMA ArriveSet ==
    ASSUME Inv, Inv', Arrive
    PROVE  [Set!Next]_Set!vars
<1>1. PICK new \in NewHere(1), name \in setting.names :
         /\ Add([k \in DOMAIN new |-> [new[k] EXCEPT !.weight = WeightOf(name)]])
         /\ norig' = IF setting.weighted THEN nlocal + Len(new) ELSE 0
  BY DEF Arrive
<1>2. PICK came : came = [k \in DOMAIN new |-> [new[k] EXCEPT !.weight = WeightOf(name)]]
  OBVIOUS
<1>3. Add(came) /\ Newcomers(came) /\ Len(came) = Len(new)
  BY <1>1, <1>2, CameAre
<1>4. PICK more \in SUBSET (Ids \ Held) : Held' = Held \union more
  BY <1>3, HeldMore
<1>5. Settled /\ Settled' /\ stage # "weigh" /\ stage' = "weigh" /\ i' = 0
  BY DEF Arrive, Go, Settled
<1>6. Pending' = {} \/ Pending' = Held'
  <2>1. nlocal' = nlocal + Len(new) /\ nlocal' \in Nat
    <3>1. came \in Seq(Particles) /\ Sizes
      BY <1>3 DEF Newcomers, Inv
    <3> QED BY <1>3, <3>1, AddedArray
  <2>2. CASE norig' = nlocal'
    <3>1. 0 .. norig' - 1 = Indices'
      BY <2>2 DEF Indices
    <3>2. Pending' = {particles'[k].id : k \in Indices' \intersect Indices'}
      BY <1>5, <3>1 DEF Pending, IdsAt
    <3> QED BY <3>2 DEF Held
  <2>3. CASE norig' = 0
    <3>1. i' .. norig' - 1 = {}
      BY <1>5, <2>3
    <3> QED BY <1>5, <3>1 DEF Pending, IdsAt
  <2> QED BY <1>1, <2>1, <2>2, <2>3
<1> QED BY <1>4, <1>5, <1>6, SetTakes

-----------------------------------------------------------------------------
(* Deletions.                                                              *)
LEMMA LeaverSet ==
    ASSUME Inv, Inv', stage = "compress", stage' = "compress", NEW j \in Leavers, particles' = Overwritten(j)
    PROVE  [Set!Next]_Set!vars
<1>1. j \in Indices
  BY DEF Leavers
<1>2. Held' = Held \ {particles[j].id} /\ WithCell(0)' = WithCell(0) \ {particles[j].id}
  BY <1>1, HeldLess
<1>3. Doomed = WithCell(0) /\ Doomed' = WithCell(0)'
  BY DoomedIs, DoomedNext DEF DoomedInv, LeaversAre
<1>4. Pending = {} /\ Pending' = {}
  BY DoomedIs, DoomedNext DEF DoomedInv, NothingPending
<1>5. particles[j].id \in Doomed
  BY <1>3 DEF Leavers, WithCell
<1> QED BY <1>2, <1>3, <1>4, <1>5, SetRemoves

LEMMA MarkedSet ==
    ASSUME Inv, Inv', Squeeze \/ SqueezeSorted
    PROVE  [Set!Next]_Set!vars
<1>1. stage = "squeeze" /\ stage' = "squeeze" /\ i < nlocal /\ particles[i].icell = -1 /\ particles' = Overwritten(i)
  BY DEF Squeeze, SqueezeSorted, Squeezing
<1>2. i \in Indices
  <2>1. i \in Nat /\ nlocal \in Nat
    BY DEF Inv, Sizes, TypeOK, LoopType
  <2>2. i < nlocal
    BY <1>1
  <2> QED BY <2>1, <2>2 DEF Indices
<1>3. Held' = Held \ {particles[i].id} /\ WithCell(-1)' = WithCell(-1) \ {particles[i].id}
  BY <1>1, <1>2, HeldLess
<1>4. Doomed = WithCell(-1) /\ Doomed' = WithCell(-1)'
  BY <1>1, DoomedIs, DoomedNext DEF DoomedInv, MarkedAre
<1>5. Pending = {} /\ Pending' = {}
  BY <1>1, DoomedIs, DoomedNext DEF DoomedInv, NothingPending
<1>6. particles[i].id \in Doomed
  BY <1>1, <1>2, <1>4 DEF WithCell
<1> QED BY <1>3, <1>4, <1>5, <1>6, SetRemoves

LEMMA TailSet ==
    ASSUME Inv, Inv', DropTail \/ FillHole
    PROVE  [Set!Next]_Set!vars
<1>1. /\ stage = "compress" /\ stage' = "compress" /\ i <= Len(list) /\ ~setting.optmove
      /\ particles' = Overwritten(list[i]) \/ (particles' = Overwritten(list[Len(list)]))
  BY DEF DropTail, FillHole, Busy, LastIsDoomed
<1>2. i >= 1 /\ i \in Nat /\ Len(list) \in Nat /\ ListedAhead = Leavers
  BY <1>1 DEF Inv, ListInv, LeaversInv, At, TypeOK, LoopType
<1>3. i \in Ahead /\ Len(list) \in Ahead
  BY <1>1, <1>2 DEF Ahead
<1>4. list[i] \in Leavers /\ list[Len(list)] \in Leavers
  BY <1>2, <1>3 DEF ListedAhead
<1> QED BY <1>1, <1>4, LeaverSet

LEMMA LocatedSet ==
    ASSUME Inv, Inv', DeleteNext
    PROVE  [Set!Next]_Set!vars
<1> DEFINE at == Location(i)
<1>1. /\ stage' = stage /\ i <= Len(list) /\ ((stage = "compress" /\ setting.optmove) \/ stage = "delete")
      /\ particles' = Overwritten(at) /\ list' = list /\ i' = i + 1 /\ upper' = upper
      /\ next' = IF at = nlocal - 1 THEN next ELSE Followed(at)
  BY DEF DeleteNext, Busy
<1>2. Tracked /\ i >= 1 /\ i \in Nat /\ list \in Seq(Nat) /\ upper \in Nat /\ Len(list) \in Nat
  BY <1>1 DEF Inv, ListInv, TrackInv, At, TypeOK, LoopType
<1>3. Sizes /\ ListsType /\ nlocal \in Nat /\ Distinct
  BY DEF Inv, TypeOK, Sizes
<1>4. at \in Indices /\ i \in Ahead /\ \A m \in Ahead : Location(m) \in Indices
  <2>1. i \in Ahead
    BY <1>1, <1>2 DEF Ahead
  <2> QED BY <1>2, <2>1 DEF Tracked
<1>5. CASE stage = "compress"
  <2>1. LocatedAhead = Leavers
    BY <1>1, <1>5 DEF Inv, LeaversInv, At
  <2>2. at \in Leavers
    BY <1>4, <2>1 DEF LocatedAhead
  <2> QED BY <1>1, <1>5, <2>2, LeaverSet
<1>6. CASE stage = "delete"
  <2>1. /\ nlocal' = nlocal - 1 /\ Indices' = 0 .. nlocal - 2 /\ Indices' \subseteq Indices /\ nlocal - 1 \notin Indices'
        /\ \A k \in Indices : k \in Indices' \/ k = nlocal - 1
        /\ \A k \in Indices' : particles'[k] = IF k = at THEN particles[nlocal - 1] ELSE particles[k]
    BY <1>1, <1>3, <1>4, OverwrittenArray
  <2>2. /\ \A m : m \in Ahead' <=> m \in Ahead /\ m # i
        /\ \A m \in Ahead' : Location(m)' = IF Location(m) = nlocal - 1 THEN at ELSE Location(m)
    BY <1>1, <1>2, <1>3, <2>1, LocationsFollow
  <2>3. \A m \in Ahead' : Location(m) \in Indices /\ Location(m) # at /\ m \in Ahead
    <3>1. \A m, n \in Ahead : Location(m) = Location(n) => m = n
      BY <1>2 DEF Tracked
    <3> QED BY <1>4, <2>2, <3>1
  <2> HIDE DEF at
  <2>4. ASSUME NEW m \in Ahead'
        PROVE  Location(m)' \in Indices' /\ particles'[Location(m)'].id = particles[Location(m)].id
    <3>1. CASE Location(m) = nlocal - 1
      <4>1. at \in Indices' /\ Location(m)' = at
        BY <1>4, <2>1, <2>2, <2>3, <3>1
      <4> QED BY <2>1, <3>1, <4>1
    <3>2. CASE Location(m) # nlocal - 1
      <4>1. Location(m) \in Indices' /\ Location(m)' = Location(m) /\ Location(m) # at
        BY <2>1, <2>2, <2>3, <3>2
      <4> QED BY <2>1, <4>1
    <3> QED BY <3>1, <3>2
  <2>5. IdsAt(LocatedAhead) = {particles[Location(m)].id : m \in Ahead}
    BY <1>4 DEF IdsAt, LocatedAhead
  <2>6. IdsAt(LocatedAhead)' = {particles'[Location(m)'].id : m \in Ahead'}
    BY <2>4 DEF IdsAt, LocatedAhead
  <2>7. IdsAt(LocatedAhead)' = {particles[Location(m)].id : m \in Ahead'}
    BY <2>4, <2>6
  <2>8. \A m \in Ahead : particles[Location(m)].id = particles[at].id <=> m = i
    BY <1>3, <1>4, <2>2, <2>3 DEF Distinct, at
  <2>9. Doomed' = Doomed \ {particles[at].id} /\ particles[at].id \in Doomed
    <3>1. Doomed = IdsAt(LocatedAhead) /\ Doomed' = IdsAt(LocatedAhead)'
      BY <1>1, <1>6, DoomedIs, DoomedNext DEF DoomedInv, LocatedAre
    <3> QED BY <1>4, <2>2, <2>5, <2>7, <2>8, <3>1
  <2>10. Held' = Held \ {particles[at].id}
    BY <1>1, <1>4, HeldLess DEF at
  <2>11. Pending = {} /\ Pending' = {}
    BY <1>1, <1>6, DoomedIs, DoomedNext DEF DoomedInv, NothingPending
  <2> QED BY <2>9, <2>10, <2>11, SetRemoves
<1> QED BY <1>1, <1>5, <1>6

-----------------------------------------------------------------------------
(* A weighting decides once upon each particle.                            *)
LEMMA WeighingIs ==
    ASSUME Inv, Weighing
    PROVE  /\ i \in Nat /\ norig \in Nat /\ nlocal \in Nat /\ i < norig /\ norig <= nlocal /\ i \in Indices
           /\ i .. norig - 1 \subseteq Indices /\ stage = "weigh" /\ Distinct
           /\ Pending = {particles[k].id : k \in i .. norig - 1} /\ Doomed = {}
           /\ particles[i].id \in Pending
           /\ \A k \in Indices : particles[k].id = particles[i].id <=> k = i
<1>1. i \in Nat /\ norig \in Nat /\ nlocal \in Nat /\ i < norig /\ norig <= nlocal /\ stage = "weigh" /\ Distinct
  BY DEF Inv, TypeOK, LoopType, WeighInv, At, Sizes, Weighing
<1>2. i \in Indices /\ i \in i .. norig - 1
  BY <1>1 DEF Indices
<1>3. \A k \in i .. norig - 1 : k \in Indices
  BY <1>1 DEF Indices
<1>4. Pending = {particles[k].id : k \in i .. norig - 1}
  BY <1>1, <1>3 DEF Pending, IdsAt
<1>5. Doomed = {}
  BY <1>1, DoomedIs DEF DoomedInv, Settled, NothingDoomed
<1>6. particles[i].id \in Pending
  BY <1>2, <1>4
<1> QED BY <1>1, <1>2, <1>3, <1>4, <1>5, <1>6 DEF Distinct

\* The particle at i is done with, all others that were pending remain.
LEMMA OneDecided ==
    ASSUME Inv, Weighing, i' = i + 1, norig' = norig, stage' = "weigh",
           \A k \in i + 1 .. norig - 1 : k \in Indices' /\ particles'[k].id = particles[k].id
    PROVE  Pending' = Pending \ {particles[i].id}
<1>1. /\ i \in Nat /\ norig \in Nat /\ i .. norig - 1 \subseteq Indices
      /\ Pending = {particles[k].id : k \in i .. norig - 1}
      /\ \A k \in Indices : particles[k].id = particles[i].id <=> k = i
  BY WeighingIs
<1>2. \A k : k \in i + 1 .. norig - 1 <=> k \in i .. norig - 1 /\ k # i
  BY <1>1
<1>3. Pending' = {particles'[k].id : k \in i + 1 .. norig - 1}
  BY DEF Pending, IdsAt
<1>4. Pending' = {particles[k].id : k \in i + 1 .. norig - 1}
  BY <1>3
<1> QED BY <1>1, <1>2, <1>4

LEMMA DecideSet ==
    ASSUME Inv, Inv', KeepOne \/ CloneOne \/ DeleteOne
    PROVE  [Set!Next]_Set!vars
<1>1. Weighing /\ stage' = "weigh"
  BY DEF KeepOne, CloneOne, DeleteOne, Weighing
<1>2. /\ i \in Nat /\ norig \in Nat /\ nlocal \in Nat /\ i < norig /\ norig <= nlocal /\ i \in Indices
      /\ i .. norig - 1 \subseteq Indices
      /\ Pending = {particles[k].id : k \in i .. norig - 1} /\ Doomed = {}
      /\ particles[i].id \in Pending
      /\ \A k \in Indices : particles[k].id = particles[i].id <=> k = i
  BY <1>1, WeighingIs
<1>3. Doomed' = Doomed
  BY <1>1, <1>2, DoomedNext DEF DoomedInv, Settled, NothingDoomed
<1>4. \A k \in i + 1 .. norig - 1 : k \in i .. norig - 1 /\ k \in Indices /\ k # i
  <2>1. \A k \in i + 1 .. norig - 1 : k \in i .. norig - 1 /\ k # i
    BY <1>2
  <2> QED BY <1>2, <2>1
<1>5. CASE KeepOne
  <2>1. particles' = particles /\ i' = i + 1 /\ norig' = norig
    BY <1>5 DEF KeepOne, array
  <2>2. Held' = Held \union {} /\ Indices' = Indices
    BY <2>1, HeldSame, SameArray
  <2>3. Pending' = Pending \ {particles[i].id}
    BY <1>1, <1>4, <2>1, <2>2, OneDecided
  <2> QED BY <1>2, <1>3, <2>2, <2>3, SetKeeps
<1>6. CASE CloneOne
  <2>1. i' = i + 1 /\ norig' = norig /\ particles[i].weight > CellWeight
    BY <1>6 DEF CloneOne
  <2>2. PICK n \in CloneCounts : \E ids \in Injection(1 .. n, FreeIds) :
           Add([k \in 1 .. n |-> [particles[i] EXCEPT !.id = ids[k]]])
    BY <1>6 DEF CloneOne
  <2>3. PICK ids \in Injection(1 .. n, FreeIds) :
           Add([k \in 1 .. n |-> [particles[i] EXCEPT !.id = ids[k]]])
    BY <2>2
  <2>4. PICK new : new = [k \in 1 .. n |-> [particles[i] EXCEPT !.id = ids[k]]]
    OBVIOUS
  <2>5. Newcomers(new) /\ Add(new)
    BY <1>1, <2>1, <2>3, <2>4, ClonesAre
  <2>6. PICK more \in SUBSET (Ids \ Held) : Held' = Held \union more
    BY <2>5, HeldMore
  <2>7. Indices \subseteq Indices' /\ \A k \in Indices : particles'[k] = particles[k]
    <3>1. new \in Seq(Particles) /\ Sizes
      BY <2>5 DEF Newcomers, Inv
    <3> QED BY <2>5, <3>1, AddedArray
  <2>8. Pending' = Pending \ {particles[i].id}
    BY <1>1, <1>4, <2>1, <2>7, OneDecided
  <2> QED BY <1>2, <1>3, <2>6, <2>8, SetKeeps
<1>7. CASE DeleteOne
  <2>1. particles' = Overwritten(i) /\ i' = AfterDeletion.i /\ norig' = AfterDeletion.norig
    BY <1>7 DEF DeleteOne
  <2>2. Held' = Held \ {particles[i].id}
    BY <1>2, <2>1, HeldLess
  <2>3. /\ nlocal' = nlocal - 1 /\ Indices' = 0 .. nlocal - 2
        /\ \A k \in Indices' : particles'[k] = IF k = i THEN particles[nlocal - 1] ELSE particles[k]
    BY <1>2, <2>1, OverwrittenArray
  <2>4. Pending' = Pending \ {particles[i].id}
    <3>1. CASE nlocal > norig
      <4>1. i' = i + 1 /\ norig' = norig
        BY <2>1, <3>1 DEF AfterDeletion
      <4>2. \A k \in i + 1 .. norig - 1 : k \in Indices' /\ k # i
        BY <1>2, <2>3, <3>1
      <4> QED BY <1>1, <2>3, <4>1, <4>2, OneDecided
    <3>2. CASE ~(nlocal > norig)
      <4>1. i' = i /\ norig' = norig - 1 /\ norig = nlocal
        BY <1>2, <2>1, <3>2 DEF AfterDeletion
      <4>2. Pending' = {particles'[k].id : k \in i .. norig - 2}
        <5>1. \A k \in i .. norig - 2 : k \in Indices'
          BY <1>2, <2>3, <4>1
        <5>2. norig' - 1 = norig - 2
          BY <1>2, <4>1
        <5>3. Pending' = {particles'[k].id : k \in (i .. norig - 2) \intersect Indices'}
          BY <1>1, <4>1, <5>2 DEF Pending, IdsAt
        <5> QED BY <5>1, <5>3
      <4>3. ASSUME NEW k \in i .. norig - 2
            PROVE  \E q \in i .. norig - 1 : q # i /\ particles'[k] = particles[q]
        <5>1. k \in Indices' /\ k \in i .. norig - 1 /\ nlocal - 1 \in i .. norig - 1 /\ (k = i => nlocal - 1 # i)
          BY <1>2, <2>3, <4>1
        <5>2. CASE k = i
          BY <2>3, <5>1, <5>2
        <5>3. CASE k # i
          BY <2>3, <5>1, <5>3
        <5> QED BY <5>2, <5>3
      <4>4. ASSUME NEW q \in i .. norig - 1, q # i
            PROVE  \E k \in i .. norig - 2 : particles'[k] = particles[q]
        <5>1. CASE q = nlocal - 1
          <6>1. i \in i .. norig - 2 /\ i \in Indices'
            BY <1>2, <2>3, <4>1, <4>4, <5>1
          <6> QED BY <2>3, <5>1, <6>1
        <5>2. CASE q # nlocal - 1
          <6>1. q \in i .. norig - 2 /\ q \in Indices'
            BY <1>2, <2>3, <4>1, <4>4, <5>2
          <6> QED BY <2>3, <4>4, <6>1
        <5> QED BY <5>1, <5>2
      <4>5. ASSUME NEW a PROVE a \in Pending' <=> a \in Pending \ {particles[i].id}
        <5>1. a \in Pending' <=> \E k \in i .. norig - 2 : a = particles'[k].id
          BY <4>2
        <5>2. a \in Pending <=> \E q \in i .. norig - 1 : a = particles[q].id
          BY <1>2
        <5>3. \A q \in i .. norig - 1 : particles[q].id = particles[i].id <=> q = i
          BY <1>2
        <5> QED BY <4>3, <4>4, <5>1, <5>2, <5>3
      <4> QED BY <4>5
    <3> QED BY <3>1, <3>2
  <2> QED BY <1>2, <1>3, <2>2, <2>4, SetDeletes
<1> QED BY <1>5, <1>6, <1>7

-----------------------------------------------------------------------------
LEMMA NextIsSetNext == Inv /\ Inv' /\ [Next]_vars => [Set!Next]_Set!vars
<1> SUFFICES ASSUME Inv, Inv', [Next]_vars PROVE [Set!Next]_Set!vars
  OBVIOUS
<1>1. CASE Emit \/ Collisions \/ UnpackCell \/ Move \/ PackCells \/ PackBatch
  BY <1>1, AdmitSet
<1>2. CASE Arrive
  BY <1>2, ArriveSet
<1>3. CASE DropTail \/ FillHole
  BY <1>3, TailSet
<1>4. CASE DeleteNext
  BY <1>4, LocatedSet
<1>5. CASE Squeeze \/ SqueezeSorted
  BY <1>5, MarkedSet
<1>6. CASE KeepOne \/ CloneOne \/ DeleteOne
  BY <1>6, DecideSet
<1>7. CASE Weighed \/ SortParticles \/ EndStep \/ Rescale \/ Rebalance \/ KeepCells \/ UnpackNothing
           \/ NextBatch \/ Rebalanced
  BY <1>7, RestSet
<1>8. CASE Compressed \/ Collided \/ Migrate \/ StartDelete \/ Squeezed \/ SkipOne
  BY <1>8, LoopSet
<1>9. CASE UNCHANGED vars
  <2>1. UNCHANGED <<particles, stage, setting, list, i, norig, next>>
    BY <1>9 DEF vars, array, grid, lists, loop
  <2>2. nlocal' = nlocal /\ Indices' = Indices /\ Held' = Held /\ (\A S : IdsAt(S)' = IdsAt(S))
    BY <2>1, HeldSame, SameArray
  <2>3. \A m : Location(m)' = Location(m)
    BY <2>1, <2>2 DEF Location
  <2>4. Pending' = Pending
    BY <2>1, <2>2 DEF Pending, IdsAt
  <2>5. Doomed' = Doomed
    BY <2>1, <2>2, <2>3 DEF Doomed, IdsAt
  <2> QED BY <2>2, <2>4, <2>5, SetStutters
<1> QED BY <1>1, <1>2, <1>3, <1>4, <1>5, <1>6, <1>7, <1>8, <1>9 DEF Next

LEMMA InitIsSetInit == Init => Set!Init
<1> SUFFICES ASSUME Init PROVE Set!Init
  OBVIOUS
<1>1. Inv /\ stage = "start" /\ particles = <<>>
  BY InitInv DEF Init
<1>2. Doomed = {} /\ Pending = {}
  BY <1>1, DoomedIs DEF DoomedInv, Settled, NothingDoomed, NothingPending
<1>3. Held \in SUBSET Ids
  BY <1>1 DEF Held, Inv, TypeOK, ParticlesType, Particles
<1> QED BY <1>2, <1>3 DEF Set!Init

(* The array is the set that its users take it for: whatever the order in  *)
(* which mlist and dellist name particles, and although each deletion      *)
(* moves another particle, compress_migrate, compress_reactions and the    *)
(* compressions of a rebalancing remove exactly the particles they were    *)
(* called for; post_weight decides once upon each particle that was there  *)
(* when it began, and never upon a clone.                                  *)
THEOREM ListImplementsSet == Spec => SetSpec
<1>1. Inv /\ [Next]_vars => Inv'
  BY NextInv
<1> QED BY InitInv, InitIsSetInit, NextIsSetNext, <1>1, PTL DEF Spec, SetSpec, Set!Spec
=============================================================================
