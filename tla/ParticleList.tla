--------------------------- MODULE ParticleList ---------------------------
(***************************************************************************)
(* The particle list of one process (class Particle of                     *)
(* src/src/particle.cpp) over the timesteps of Update::run: an array that  *)
(* is compressed when particles leave it, and linked lists of its indices, *)
(* one for each grid cell, that are only valid while sorted is set.        *)
(*                                                                         *)
(* Every iteration of a loop that compresses or weights the array is an    *)
(* action.  What happens to a particle in a move or a collision is any     *)
(* change of its cell, and the particles and cells that other processes    *)
(* send are any; modules ParticleMove and Irregular show how they get      *)
(* here.  The array is indexed from 0, as in the code.                     *)
(***************************************************************************)
EXTENDS Integers, Sequences, FiniteSets, Functions

CONSTANTS Ids,          \* what particles are told apart by
          CellNames,    \* grid cells
          Settings,     \* what grids there may be and what the input script may have set
          Delta         \* DELTA of particle.cpp, by which arrays grow

ASSUME IdsAssumption == IsFiniteSet(Ids)
ASSUME CellsAssumption == IsFiniteSet(CellNames)
ASSUME SettingsAssumption ==
    Settings \subseteq [names : SUBSET CellNames,                \* the cells of the grid
                       weight : [CellNames -> Nat \ {0}],       \* their cinfo.weight
                       weighted : BOOLEAN,   \* global weight
                       optmove : BOOLEAN,    \* global optmove: mlist is in any order
                       react : BOOLEAN,      \* collisions have reactions
                       balance : {"none", "at once", "less memory"}]  \* of fix balance
ASSUME DeltaAssumption == Delta \in Nat \ {0}

\* x is the cell that the coordinates lie in, icell its index in cells (0
\* is a ghost, -1 a packed particle), weight that of the cell it came from.
Particles == [id : Ids, x : CellNames, icell : {-1} \union Nat, weight : Nat]

VARIABLES
    particles,  \* the array, from 0 to nlocal-1
    maxlocal,   \* its size
    setting,    \* what is set
    cells,      \* names of the owned grid cells, by their indices
    first,      \* cinfo[].first
    next,       \* next[k]: the next particle in the cell of k; also scratch
    sorted,     \* the linked lists are up to date
    stage,      \* where in a timestep the process is
    half,       \* which of the two moves of a timestep is next, or at work
    list,       \* mlist or dellist: what is left of it is from i on
    i,          \* the index of the loop at work
    upper,      \* of compress_reactions
    norig,      \* nlocal_original of post_weight
    leaving,    \* names of the cells that a rebalancing gives away
    unpacked    \* those of them that are still to be packed

array == <<particles, maxlocal>>
lists == <<first, next, sorted>>
loop == <<list, i, upper, norig>>
migration == <<leaving, unpacked>>
grid == <<setting, cells>>
vars == <<array, grid, lists, stage, half, loop, migration>>

nlocal == Cardinality(DOMAIN particles)
maxsort == Cardinality(DOMAIN next)
Indices == 0 .. nlocal - 1
Owned == 1 .. Len(cells)
Garbage == -2                  \* memory that nobody has written

InCell(c) == {k \in Indices : particles[k].icell = c}
Held == {particles[k].id : k \in Indices}
FreeIds == Ids \ Held

\* Mutant: the array keeps its size.
NotGrown(need) == maxlocal
\* Particle::grow: the size of the array when it is to hold need particles.
Grown(need) ==
    IF need <= maxlocal THEN maxlocal
    ELSE maxlocal + Delta * ((need - maxlocal + Delta - 1) \div Delta)

Joined(new) ==
    [k \in 0 .. nlocal + Len(new) - 1 |-> IF k < nlocal THEN particles[k] ELSE new[k - nlocal + 1]]
Add(new) == particles' = Joined(new) /\ maxlocal' = Grown(nlocal + Len(new))

WeightOf(name) == IF setting.weighted THEN setting.weight[name] ELSE 1

\* New particles in the cell with index c and that name, at most n of them.
NewParticles(n, c, name) ==
    UNION {{[k \in 1 .. m |-> [id |-> ids[k], x |-> name, icell |-> c, weight |-> WeightOf(name)]] :
               ids \in Injection(1 .. m, FreeIds)} : m \in 0 .. n}
NewHere(n) == {<<>>} \union UNION {NewParticles(n, c, cells[c]) : c \in Owned}

\* particles[j] = particles[nlocal-1]; nlocal--
Overwritten(j) ==
    [k \in 0 .. nlocal - 2 |-> IF k = j THEN particles[nlocal - 1] ELSE particles[k]]

\* The list next after a reallocation, which keeps old entries or does not.
Renewed == IF maxsort < maxlocal THEN [k \in 0 .. maxlocal - 1 |-> Garbage] ELSE next

\* The linked list of a cell, as far as it can be followed.
Listed(c) ==
    LET visit[n \in 0 .. nlocal] ==
            IF n = 0 THEN first[c]
            ELSE IF visit[n - 1] \in DOMAIN next THEN next[visit[n - 1]] ELSE -1
    IN {visit[n] : n \in 0 .. nlocal} \ {-1}

Init == /\ setting \in Settings
        /\ cells \in UNION {Injection(1 .. n, setting.names) : n \in 1 .. 2}
        /\ particles = <<>> /\ maxlocal = 0
        /\ first = [c \in Owned |-> Garbage] /\ next = <<>> /\ sorted = FALSE
        /\ stage = "start" /\ half = 1
        /\ list = <<>> /\ i = 0 /\ upper = 0 /\ norig = 0
        /\ leaving = {} /\ unpacked = {}

Stages == {"start", "migrate", "compress", "arrive", "weigh", "collide", "react", "reacted",
           "delete", "end", "pack", "squeeze", "unpack", "unpacked"}
Go(from, to) == stage = from /\ stage' = to

-----------------------------------------------------------------------------
(* Particle::sort *)
LeastIn(S) == IF S = {} THEN -1 ELSE CHOOSE k \in S : \A m \in S : k <= m
SortedFirst == [c \in Owned |-> LeastIn(InCell(c))]
SortedNext == [k \in DOMAIN Renewed |->
                 IF k \in Indices
                   THEN LeastIn({m \in InCell(particles[k].icell) : m > k})
                   ELSE Renewed[k]]
Sort == first' = SortedFirst /\ next' = SortedNext /\ sorted' = TRUE
SortIfNeeded == IF sorted THEN UNCHANGED lists ELSE Sort

-----------------------------------------------------------------------------
(* A move and the migration of particles after it. *)
\* add_particle, called by a fix at the start of a timestep.
Emit ==
    \E new \in NewHere(1) \ {<<>>} :
        /\ Go("start", "start") /\ half = 1
        /\ Add(new)
        /\ UNCHANGED <<grid, lists, half, loop, migration>>

Orders(S) == Injection(1 .. Cardinality(S), S)
InOrder(S) == [n \in 1 .. Cardinality(S) |-> CHOOSE k \in S : Cardinality({m \in S : m < k}) = n - 1]
Mlists(goes) == IF setting.optmove THEN Orders(goes) ELSE {InOrder(goes)}

\* Mutant: the flag is not reset.
StillSorted == sorted
\* The linked lists are not valid after a move.
MovedSorted == FALSE

\* pre_weight and move: particles leave or are in any owned cell.
Move ==
    \E at \in [Indices -> Owned \union {0}] : \E mlist \in Mlists({k \in Indices : at[k] = 0}) :
        /\ Go("start", "migrate")
        /\ particles' = [k \in Indices |->
              [id |-> particles[k].id,
               x |-> IF at[k] = 0 THEN particles[k].x ELSE cells[at[k]],
               icell |-> at[k],
               weight |-> WeightOf(cells[particles[k].icell])]]
        /\ sorted' = MovedSorted
        /\ list' = mlist /\ i' = 1
        /\ UNCHANGED <<maxlocal, grid, first, next, half, upper, norig, migration>>

\* The beginning of compress_reactions: next becomes scratch.
Scratch(n, dellist) ==
    /\ upper' = n - Len(dellist)
    /\ next' = [k \in DOMAIN Renewed |-> IF k \in n - Len(dellist) .. n - 1 THEN k ELSE Renewed[k]]

Migrate ==
    /\ Go("migrate", "compress")
    /\ IF setting.optmove THEN Scratch(nlocal, list) ELSE UNCHANGED <<upper, next>>
    /\ UNCHANGED <<array, grid, first, sorted, half, list, i, norig, migration>>

Busy(where) == stage = where /\ i <= Len(list)

(* compress_migrate *)
\* Mutant: the particles to be deleted at the end of the array are not skipped.
NeverAtTail == FALSE
LastIsDoomed == nlocal - 1 = list[Len(list)] /\ nlocal - 1 > list[i]

DropTail ==
    /\ Busy("compress") /\ ~setting.optmove
    /\ LastIsDoomed
    /\ particles' = Overwritten(nlocal - 1)
    /\ list' = SubSeq(list, 1, Len(list) - 1)
    /\ UNCHANGED <<maxlocal, grid, lists, stage, half, i, upper, norig, migration>>

FillHole ==
    /\ Busy("compress") /\ ~setting.optmove
    /\ ~LastIsDoomed
    /\ particles' = Overwritten(list[i])
    /\ i' = i + 1
    /\ UNCHANGED <<maxlocal, grid, lists, stage, half, list, upper, norig, migration>>

(* compress_reactions *)
\* Where the particle is that was at list[k] when the list was made.
Location(k) == IF list[k] >= nlocal THEN next[list[k]] ELSE list[k]

\* Mutant: next[] does not record which particle is at an index.
ForgetOriginal(at) == [next EXCEPT ![next[nlocal - 1]] = at]
\* The particle at nlocal-1 moves to at.
Followed(at) ==
    [next EXCEPT ![at] = IF at >= upper THEN next[nlocal - 1] ELSE @,
                 ![next[nlocal - 1]] = at]

DeleteNext ==
    /\ (Busy("compress") /\ setting.optmove) \/ Busy("delete")
    /\ particles' = Overwritten(Location(i))
    /\ next' = IF Location(i) = nlocal - 1 THEN next ELSE Followed(Location(i))
    /\ i' = i + 1
    /\ UNCHANGED <<maxlocal, grid, first, sorted, stage, half, list, upper, norig, migration>>

Compressed ==
    /\ Go("compress", "arrive") /\ i > Len(list)
    /\ list' = <<>> /\ i' = 0 /\ upper' = 0
    /\ UNCHANGED <<array, grid, lists, half, norig, migration>>

\* What the exchange brings in is appended.
Arrive ==
    \E new \in NewHere(1), name \in setting.names :
        /\ Go("arrive", "weigh")
        /\ Add([k \in DOMAIN new |-> [new[k] EXCEPT !.weight = WeightOf(name)]])
        /\ i' = 0
        /\ norig' = IF setting.weighted THEN nlocal + Len(new) ELSE 0
        /\ UNCHANGED <<grid, lists, half, list, upper, migration>>

-----------------------------------------------------------------------------
(* post_weight: the original particles, one in each iteration. *)
CellWeight == WeightOf(cells[particles[i].icell])
Weighing == stage = "weigh" /\ i < norig

KeepOne ==
    /\ Weighing /\ particles[i].weight <= CellWeight
    /\ i' = i + 1
    /\ UNCHANGED <<array, grid, lists, stage, half, list, upper, norig, migration>>

\* Mutant: whatever takes the place of a deleted particle is skipped.
SkipIt == [i |-> i + 1, norig |-> norig]
\* A clone that takes its place is skipped, an original is not.
AfterDeletion == IF nlocal > norig THEN [i |-> i + 1, norig |-> norig]
                                   ELSE [i |-> i, norig |-> norig - 1]

DeleteOne ==
    /\ Weighing /\ particles[i].weight < CellWeight
    /\ particles' = Overwritten(i)
    /\ i' = AfterDeletion.i /\ norig' = AfterDeletion.norig
    /\ UNCHANGED <<maxlocal, grid, lists, stage, half, list, upper, migration>>

CloneCounts == LET ratio == particles[i].weight \div CellWeight
               IN {ratio - 1} \union (IF particles[i].weight % CellWeight = 0 THEN {} ELSE {ratio})

CloneOne ==
    /\ Weighing /\ particles[i].weight > CellWeight
    /\ \E n \in CloneCounts : \E ids \in Injection(1 .. n, FreeIds) :
        /\ Add([k \in 1 .. n |-> [particles[i] EXCEPT !.id = ids[k]]])
        /\ i' = i + 1
        /\ UNCHANGED <<grid, lists, stage, half, list, upper, norig, migration>>

Weighed ==
    /\ i >= norig
    /\ Go("weigh", IF half = 1 THEN "collide" ELSE "end")
    /\ i' = 0 /\ norig' = 0
    /\ UNCHANGED <<array, grid, lists, half, list, upper, migration>>

-----------------------------------------------------------------------------
(* Collide::collisions, after a sort. *)
SortParticles ==
    /\ Go("collide", "react")
    /\ Sort
    /\ UNCHANGED <<array, grid, half, loop, migration>>

\* Reactions add particles and list others, in any order, to be deleted.
Collisions ==
    \E new \in NewHere(1) : \E gone \in SUBSET (0 .. nlocal + Len(new) - 1) :
    \E dellist \in Orders(gone) :
        /\ Go("react", "reacted")
        /\ ~setting.react => new = <<>> /\ gone = {}
        /\ Add(new)
        /\ list' = dellist /\ i' = 1
        /\ UNCHANGED <<grid, lists, half, upper, norig, migration>>

\* compress_reactions is called when there is something to delete.
StartDelete ==
    /\ Go("reacted", "delete")
    /\ IF list = <<>> THEN UNCHANGED <<upper, next>> ELSE Scratch(nlocal, list)
    /\ UNCHANGED <<array, grid, first, sorted, half, list, i, norig, migration>>

ReactedSorted == sorted /\ ~setting.react

Collided ==
    /\ Go("delete", "start") /\ i > Len(list)
    /\ sorted' = ReactedSorted
    /\ half' = 2
    /\ list' = <<>> /\ i' = 0 /\ upper' = 0
    /\ UNCHANGED <<array, grid, first, next, norig, migration>>

-----------------------------------------------------------------------------
(* The end of a timestep. *)
EndStep ==
    /\ Go("end", "start")
    /\ half' = 1
    /\ UNCHANGED <<array, grid, lists, loop, migration>>

\* A fix that needs the linked lists, such as temp/rescale.
Rescale ==
    /\ Go("end", "end")
    /\ SortIfNeeded
    /\ UNCHANGED <<array, grid, half, loop, migration>>

(* FixBalance::end_of_step and Comm::migrate_cells *)
Names == {cells[c] : c \in Owned}
IndexOf(name) == CHOOSE c \in Owned : cells[c] = name

Rebalance ==
    \E away \in SUBSET Names :
        /\ setting.balance # "none"
        /\ Go("end", "pack")
        /\ SortIfNeeded
        /\ leaving' = away /\ unpacked' = away
        /\ UNCHANGED <<array, grid, half, loop>>

\* pack_particles marks the particles in the linked lists of the cells.
Packed(names) == [k \in Indices |-> IF \E name \in names : k \in Listed(IndexOf(name))
                                      THEN [particles[k] EXCEPT !.icell = -1] ELSE particles[k]]

\* Grid::compress moves the remaining cells to the front ...
Remaining == {c \in Owned : cells[c] \notin leaving}
NewIndex(c) == Cardinality({d \in Remaining : d <= c})
OldIndex(c) == CHOOSE d \in Remaining : NewIndex(d) = c
Compacted(f) == [c \in 1 .. Cardinality(Remaining) |-> f[OldIndex(c)]]
\* Mutant: the particles are not pointed to the new cells.
NotRepointed(ps) == ps
\* ... and points the particles in their linked lists to them.
Repointed(ps) ==
    [k \in Indices |->
       IF \E c \in Remaining : k \in Listed(c)
         THEN [ps[k] EXCEPT !.icell = NewIndex(CHOOSE c \in Remaining : k \in Listed(c))]
         ELSE ps[k]]
CompressGrid(ps) ==
    /\ cells' = Compacted(cells)
    /\ first' = Compacted(first)
    /\ particles' = Repointed(ps)

\* All cells in one message.
PackCells ==
    /\ setting.balance = "at once" /\ leaving # {}
    /\ Go("pack", "squeeze")
    /\ CompressGrid(Packed(leaving))
    /\ unpacked' = {}
    /\ UNCHANGED <<setting, maxlocal, next, sorted, half, loop, leaving>>

KeepCells ==
    /\ setting.balance = "at once" /\ leaving = {}
    /\ Go("pack", "unpack")
    /\ sorted' = FALSE
    /\ UNCHANGED <<array, grid, first, next, half, loop, migration>>

\* In batches, in the order of the indices, as many cells as the limit allows.
PackBatch ==
    \E batch \in SUBSET unpacked :
        /\ setting.balance = "less memory"
        /\ batch = {} <=> unpacked = {}
        /\ \A a \in batch, b \in unpacked \ batch : IndexOf(a) < IndexOf(b)
        /\ Go("pack", IF leaving = {} THEN "unpack" ELSE "squeeze")
        /\ particles' = Packed(batch)
        /\ unpacked' = unpacked \ batch
        /\ UNCHANGED <<maxlocal, grid, lists, half, loop, leaving>>

Squeezing == stage = "squeeze" /\ i < nlocal

SkipOne ==
    /\ Squeezing /\ particles[i].icell # -1
    /\ i' = i + 1
    /\ UNCHANGED <<array, grid, lists, stage, half, list, upper, norig, migration>>

\* Mutant: the particle that takes the place is not looked at.
NotAgain == i + 1
Again == i

\* compress_rebalance
Squeeze ==
    /\ Squeezing /\ particles[i].icell = -1 /\ setting.balance = "at once"
    /\ particles' = Overwritten(i)
    /\ i' = Again
    /\ UNCHANGED <<maxlocal, grid, lists, stage, half, list, upper, norig, migration>>

\* Mutant: the list of the cell still has the old index.
NotRelinked(c, from, to) == UNCHANGED <<first, next>>
\* In the list of its cell, index from becomes to.
Relinked(c, from, to) ==
    IF first[c] = from
      THEN first' = [first EXCEPT ![c] = to] /\ next' = [next EXCEPT ![to] = next[from]]
      ELSE /\ first' = first
           /\ next' = [k \in DOMAIN next |->
                         IF k = to THEN next[from]
                         ELSE IF k \in Listed(c) /\ next[k] = from THEN to ELSE next[k]]

\* compress_rebalance_sorted
SqueezeSorted ==
    /\ Squeezing /\ particles[i].icell = -1 /\ setting.balance = "less memory"
    /\ particles' = Overwritten(i)
    /\ IF particles[nlocal - 1].icell = -1
         THEN UNCHANGED <<first, next>>
         ELSE Relinked(particles[nlocal - 1].icell, nlocal - 1, i)
    /\ UNCHANGED <<maxlocal, grid, sorted, stage, half, loop, migration>>

Squeezed ==
    /\ Go("squeeze", "unpack") /\ i >= nlocal
    /\ sorted' = (sorted /\ setting.balance # "at once")
    /\ i' = 0
    /\ UNCHANGED <<array, grid, first, next, half, list, upper, norig, migration>>

\* The linked list of a cell that has come in with n particles.
LinkedFirst(n) == IF n = 0 THEN -1 ELSE nlocal
LinkedNext(n) ==
    LET grown == IF maxsort < nlocal + n THEN Grown(nlocal + n) ELSE maxsort
    IN [k \in 0 .. grown - 1 |->
          IF k \in nlocal .. nlocal + n - 2 THEN k + 1
          ELSE IF k = nlocal + n - 1 /\ n > 0 THEN -1
          ELSE IF k \in DOMAIN next THEN next[k] ELSE Garbage]

\* unpack_one: a cell of another process, with its particles.
UnpackCell ==
    \E name \in setting.names \ (Names \union leaving) :
    \E new \in NewParticles(2, Len(cells) + 1, name) :
        /\ Go("unpack", "unpacked")
        /\ cells' = Append(cells, name)
        /\ Add(new)
        /\ IF sorted
             THEN /\ first' = Append(first, LinkedFirst(Len(new)))
                  /\ next' = LinkedNext(Len(new))
             ELSE first' = Append(first, Garbage) /\ next' = next
        /\ UNCHANGED <<setting, sorted, half, loop, migration>>

UnpackNothing ==
    /\ Go("unpack", "unpacked")
    /\ UNCHANGED <<array, grid, lists, half, loop, migration>>

\* Some process has more to pack.
NextBatch ==
    /\ setting.balance = "less memory"
    /\ Go("unpacked", "pack")
    /\ UNCHANGED <<array, grid, lists, half, loop, migration>>

Rebalanced ==
    /\ unpacked = {}
    /\ Go("unpacked", "start") /\ half' = 1
    /\ IF setting.balance = "less memory" /\ leaving # {}
         THEN CompressGrid(particles)
         ELSE UNCHANGED <<cells, first, particles>>
    /\ leaving' = {}
    /\ UNCHANGED <<setting, maxlocal, next, sorted, loop, unpacked>>

Next == \/ Emit \/ Move \/ Migrate \/ DropTail \/ FillHole \/ DeleteNext \/ Compressed \/ Arrive
        \/ KeepOne \/ DeleteOne \/ CloneOne \/ Weighed
        \/ SortParticles \/ Collisions \/ StartDelete \/ Collided
        \/ EndStep \/ Rescale \/ Rebalance \/ PackCells \/ KeepCells \/ PackBatch
        \/ SkipOne \/ Squeeze \/ SqueezeSorted \/ Squeezed
        \/ UnpackCell \/ UnpackNothing \/ NextBatch \/ Rebalanced

Spec == Init /\ [][Next]_vars

-----------------------------------------------------------------------------
ParticlesType == /\ DOMAIN particles = Indices
                 /\ \A k \in Indices : particles[k] \in Particles
                 /\ nlocal <= maxlocal
ListsType == /\ first \in [Owned -> Int]
             /\ DOMAIN next = 0 .. maxsort - 1 /\ \A k \in DOMAIN next : next[k] \in Int
             /\ sorted \in BOOLEAN
LoopType == /\ stage \in Stages /\ half \in {1, 2}
            /\ list \in Seq(Nat) /\ {i, upper, norig} \subseteq Nat
TypeOK == ParticlesType /\ ListsType /\ LoopType
          /\ cells \in Seq(setting.names) /\ unpacked \subseteq leaving /\ leaving \subseteq CellNames

(* Between two stages a particle is stored in the cell that it lies in,    *)
(* however often cells and particles have changed their indices, and each  *)
(* is there once.                                                          *)
StoredWhereItIs ==
    stage \in {"start", "arrive", "weigh", "collide", "react", "reacted", "delete", "end"} =>
        /\ \A k \in Indices : particles[k].icell \in Owned /\ cells[particles[k].icell] = particles[k].x
        /\ IsInjective([k \in Indices |-> particles[k].id])

(* The linked lists hold every particle of a cell when collisions or a     *)
(* message to the new owner of the cell are made from them.                *)
ListsServe == stage \in {"react", "pack"} => \A c \in Owned : InCell(c) \subseteq Listed(c)

(* A list that goes with sorted has no particle of another cell, and none  *)
(* that has left, until compress_rebalance gives the lists up; in between  *)
(* compress_reactions has next for itself.                                 *)
GivenUp == stage = "squeeze" /\ setting.balance = "at once"
ListsSound ==
    sorted /\ ~GivenUp /\ stage # "delete" => \A c \in Owned : cells[c] \notin leaving => Listed(c) \subseteq InCell(c)

-----------------------------------------------------------------------------
(* What the array is to its users: module ParticleSet.  A particle is      *)
(* doomed while a loop has its index, or its mark, still ahead of it.      *)
IdsAt(places) == {particles[k].id : k \in places \intersect Indices}
Doomed ==
    CASE stage \in {"migrate", "reacted"} \/ (stage = "compress" /\ ~setting.optmove) ->
           IdsAt({list[k] : k \in i .. Len(list)})
      [] stage = "delete" \/ (stage = "compress" /\ setting.optmove) ->
           IdsAt({Location(k) : k \in i .. Len(list)})
      [] OTHER -> IdsAt({k \in Indices : particles[k].icell = -1})
Pending == IF stage = "weigh" THEN IdsAt(i .. norig - 1) ELSE {}

Set == INSTANCE ParticleSet WITH held <- Held, doomed <- Doomed, pending <- Pending

(* Whatever order the loops take the array through, they remove exactly    *)
(* the particles they were called for and no other, and a weighting        *)
(* decides once upon every particle and never upon a clone.                *)
SetSpec == Set!Spec

=============================================================================
