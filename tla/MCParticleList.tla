-------------------------- MODULE MCParticleList --------------------------
(* Instances of ParticleList for TLC: grids of two cells without balancing *)
(* and grids of three with it.  Particles are alike, and so are cells: for *)
(* every setting those with the cells exchanged are settings, too.         *)
EXTENDS ParticleList, TLC

Alike == [name \in CellNames |-> 1]
Plain == [names |-> CellNames, weight |-> Alike, weighted |-> FALSE,
          optmove |-> FALSE, react |-> FALSE, balance |-> "none"]
OnTwoCells == {[Plain EXCEPT !.names = pair] : pair \in {s \in SUBSET CellNames : Cardinality(s) = 2}}
HeavyAndLight(heavy) == [name \in CellNames |-> IF name = heavy THEN 3 ELSE 2]

MCSettings ==
    OnTwoCells
    \union {[s EXCEPT !.optmove = TRUE, !.react = TRUE] : s \in OnTwoCells}
    \union UNION {{[s EXCEPT !.weighted = TRUE, !.weight = HeavyAndLight(heavy)] : heavy \in s.names}
                     : s \in OnTwoCells}
    \union {[Plain EXCEPT !.balance = how] : how \in {"at once", "less memory"}}

Interchangeable == Permutations(Ids) \union Permutations(CellNames)

=============================================================================
