--------------------------- MODULE ParticleMove ---------------------------
(***************************************************************************)
(* Advection of particles through the distributed grid: Update::move       *)
(* (src/src/update.cpp) and Comm::migrate_particles (src/src/comm.cpp).    *)
(*                                                                         *)
(* Every process moves its particles from cell to cell, as far as it knows *)
(* the cells.  A particle that leaves them is handed on and moved further  *)
(* by its receiver, in as many passes as any process asks for.             *)
(*                                                                         *)
(* A velocity is the number of faces that a particle crosses in half a     *)
(* timestep, with the direction as its sign, and dtremain the number it    *)
(* still has to cross.  The arrays of particles are sets: their order is   *)
(* the business of module ParticleList.  A message carries the batch of    *)
(* particles of one migration; what an exchange guarantees is shown for    *)
(* class Irregular in module Irregular.                                    *)
(***************************************************************************)
EXTENDS GhostCells, Sequences

CONSTANTS Starts,     \* sets of particles to begin with
          Ids,        \* particle ids, also those of surface reactions
          Decompositions, \* owners of the cells to begin with
          NHalves,    \* half timesteps to run
          Optmove,    \* global optmove: jump to the final cell
          Weighted,   \* move_weighted instead of move
          Chunk       \* DELTA of particle.cpp, by which arrays grow

Flags == {"keep", "insert", "done", "discard", "entry", "exit", "surf"}

\* x is the cell that the coordinates lie in, icell the one the code stores.
Particles == [id : Ids, x : Cells, icell : Cells, v : Int, flag : Flags, dtremain : Nat]

ASSUME StartsAssumption ==
    \A s \in Starts : /\ IsFiniteSet(s) /\ s \subseteq Particles
                      /\ \A a, b \in s : a.id = b.id => a = b
                      /\ \A a \in s : a.x = a.icell /\ a.flag \in {"keep", "insert"}
ASSUME IdsAssumption == IsFiniteSet(Ids)
ASSUME DecompositionsAssumption == Decompositions \subseteq Owners
ASSUME HalvesAssumption == NHalves \in Nat
ASSUME OptionsAssumption == Optmove \in BOOLEAN /\ Weighted \in BOOLEAN
ASSUME ChunkAssumption == Chunk \in Nat \ {0}

VARIABLES
    start,      \* the particles at the beginning
    owner,      \* who owns each cell: cells[icell].proc
    halo,       \* what each process knows of each cell since acquire_ghosts
    half,       \* half timesteps each process has finished
    pc,         \* where in move and migrate_particles each process is
    todo,       \* particles[i .. pstop-1]: still to be advected in this pass
    kept,       \* particles that stay, at least for this pass
    leaving,    \* particles in mlist
    part,       \* the particle being advected, with its stored icell
    icell,      \* the local variable icell: the cell it has reached
    first,      \* niterate = 1
    entryexit,  \* some particle of mine needs another pass
    final,      \* the migration is the one Update::run asks for
    votes,      \* votes[p][q]: values p gave to MPI_Allreduce, not yet taken by q
    batches,    \* batches[p][q]: particles p sent to q, one set each migration
    maxlocal,   \* room in the particle array
    maxmigrate  \* room in mlist

grid == <<start, owner, halo>>
lists == <<todo, kept, leaving>>
room == <<maxlocal, maxmigrate>>
mail == <<votes, batches>>
vars == <<start, owner, halo, half, pc, lists, part, icell, first, entryexit, final, mail, room>>

Abs(n) == IF n < 0 THEN -n ELSE n
Direction(v) == IF v < 0 THEN -1 ELSE 1

\* Mutant: an array that is too small stays so.
NotGrown(size, need) == size
\* Particle::grow: the size of an array of that size after room for need.
Grown(size, need) ==
    IF need <= size THEN size ELSE size + Chunk * ((need - size + Chunk - 1) \div Chunk)

Moving(p) == IF pc[p] = "walk" THEN {part[p]} ELSE {}
Mine(p) == todo[p] \union kept[p] \union leaving[p] \union Moving(p)
InFlight(p) == UNION {UNION {batches[p][q][k] : k \in DOMAIN batches[p][q]} : q \in Proc}
nlocal(p) == Cardinality(Mine(p))

NoPart == [flag |-> "none"]

Init == /\ start \in Starts
        /\ owner \in Decompositions
        /\ halo = [p \in Proc |-> [c \in Cells |-> Halo(owner, p, c)]]
        /\ half = [p \in Proc |-> 0]
        /\ pc = [p \in Proc |-> "idle"]
        /\ kept = [p \in Proc |-> {a \in start : owner[a.icell] = p}]
        /\ todo = [p \in Proc |-> {}]
        /\ leaving = [p \in Proc |-> {}]
        /\ part = [p \in Proc |-> NoPart]
        /\ icell = [p \in Proc |-> 1]
        /\ first = [p \in Proc |-> TRUE]
        /\ entryexit = [p \in Proc |-> FALSE]
        /\ final = [p \in Proc |-> FALSE]
        /\ votes = [p \in Proc |-> [q \in Proc |-> <<>>]]
        /\ batches = [p \in Proc |-> [q \in Proc |-> <<>>]]
        /\ maxlocal = [p \in Proc |-> Grown(0, Cardinality(kept[p]))]
        /\ maxmigrate = [p \in Proc |-> 0]

Places == {"idle", "pass", "walk", "reduce", "pack", "unpack"}
Go(p, from, to) == pc[p] = from /\ pc' = [pc EXCEPT ![p] = to]

-----------------------------------------------------------------------------
(* Update::move, up to its first pass. *)
\* Mutant: mlist keeps its size.
NeverExtended(p) == maxmigrate[p]
ExtendedMlist(p) == IF Cardinality(kept[p]) > maxmigrate[p] THEN maxlocal[p] ELSE maxmigrate[p]

StartMove(p) ==
    /\ half[p] < NHalves
    /\ Go(p, "idle", "pass")
    /\ todo' = [todo EXCEPT ![p] = kept[p]]
    /\ kept' = [kept EXCEPT ![p] = {}]
    /\ first' = [first EXCEPT ![p] = TRUE]
    /\ entryexit' = [entryexit EXCEPT ![p] = FALSE]
    /\ maxmigrate' = [maxmigrate EXCEPT ![p] = ExtendedMlist(p)]
    /\ UNCHANGED <<grid, half, leaving, part, icell, final, mail, maxlocal>>

(* The particles of a pass, in any order. *)

\* A move of the time of one call: two calls make a timestep.
FacesOfMove(v) == IF Weighted THEN 2 * Abs(v) ELSE Abs(v)
\* Mutant: a particle handed on begins its move again.
Restarted(a) == FacesOfMove(a.v)
Remaining(a) == IF a.flag \in {"keep", "done"} THEN FacesOfMove(a.v) ELSE a.dtremain

\* Mutant: PDONE is not looked at.
NeverArrived(p, a) == FALSE
\* Its move was finished by the sender.
Arrived(p, a) == a.flag = "done" /\ ~first[p]

Skip(p) ==
    \E a \in todo[p] :
        /\ Arrived(p, a)
        /\ Go(p, "pass", "pass")
        /\ todo' = [todo EXCEPT ![p] = @ \ {a}]
        /\ kept' = [kept EXCEPT ![p] = @ \union {[a EXCEPT !.flag = "keep"]}]
        /\ UNCHANGED <<grid, half, leaving, part, icell, first, entryexit, final,
                       mail, room>>

\* The optimized move: straight to the cell of the new position.
JumpCell(a) == a.x + Direction(a.v) * Remaining(a)
CanJump(p, a) == Optmove /\ ~Weighted /\ JumpCell(a) \in Cells /\ halo[p][JumpCell(a)] # "unknown"

\* Mutant: a particle that is put on mlist is not taken out of the array.
SettleTwice(p, a) ==
    /\ kept' = [kept EXCEPT ![p] = @ \union {a}]
    /\ leaving' = IF a.flag = "keep" THEN leaving ELSE [leaving EXCEPT ![p] = @ \union {a}]
\* Put a particle where the loop over particles leaves it.
Settle(p, a) ==
    IF a.flag = "keep"
      THEN kept' = [kept EXCEPT ![p] = @ \union {a}] /\ leaving' = leaving
      ELSE leaving' = [leaving EXCEPT ![p] = @ \union {a}] /\ kept' = kept

\* A move that ends in a ghost cell is not to be continued by the receiver.
EndFlag(p, c) == IF owner[c] = p THEN "keep" ELSE "done"

Jump(p) ==
    \E a \in todo[p] :
        /\ ~Arrived(p, a) /\ CanJump(p, a)
        /\ Go(p, "pass", "pass")
        /\ todo' = [todo EXCEPT ![p] = @ \ {a}]
        /\ Settle(p, [a EXCEPT !.x = JumpCell(a), !.icell = JumpCell(a),
                               !.flag = EndFlag(p, JumpCell(a))])
        /\ UNCHANGED <<grid, half, part, icell, first, entryexit, final, mail, room>>

Pick(p) ==
    \E a \in todo[p] :
        /\ ~Arrived(p, a) /\ ~CanJump(p, a)
        /\ Go(p, "pass", "walk")
        /\ todo' = [todo EXCEPT ![p] = @ \ {a}]
        /\ part' = [part EXCEPT ![p] = [a EXCEPT !.flag = "keep", !.dtremain = Remaining(a)]]
        /\ icell' = [icell EXCEPT ![p] = a.icell]
        /\ UNCHANGED <<grid, half, kept, leaving, first, entryexit, final, mail, room>>

-----------------------------------------------------------------------------
(* One particle, from face to face. *)
Across(p) == Neighbor(icell[p], Direction(part[p].v))
Walking(p) == pc[p] = "walk" /\ part[p].dtremain > 0
Stop(p, a) ==
    /\ Go(p, "walk", "pass")
    /\ Settle(p, a)
    /\ part' = [part EXCEPT ![p] = NoPart]
    /\ icell' = [icell EXCEPT ![p] = 1]

\* No face is left to cross.
Interior(p) ==
    /\ pc[p] = "walk" /\ part[p].dtremain = 0
    /\ Stop(p, [part[p] EXCEPT !.icell = icell[p], !.flag = EndFlag(p, icell[p])])
    /\ UNCHANGED <<grid, half, todo, first, entryexit, final, mail, room>>

Crossed(p) == [part[p] EXCEPT !.x = Across(p), !.dtremain = @ - 1]

Cross(p) ==
    /\ Walking(p) /\ Across(p) # 0
    /\ halo[p][Across(p)] \in {"owned", "full"}
    /\ part' = [part EXCEPT ![p] = Crossed(p)]
    /\ icell' = [icell EXCEPT ![p] = Across(p)]
    /\ UNCHANGED <<grid, half, pc, lists, first, entryexit, final, mail, room>>

\* Into an EMPTY ghost: its owner continues the move.
EnterEmpty(p) ==
    /\ Walking(p) /\ Across(p) # 0
    /\ halo[p][Across(p)] = "empty"
    /\ Stop(p, [Crossed(p) EXCEPT !.icell = Across(p), !.flag = "entry"])
    /\ entryexit' = [entryexit EXCEPT ![p] = TRUE]
    /\ UNCHANGED <<grid, half, todo, first, final, mail, room>>

\* Mutant: x stays at the other end of the box.
NotUncollided(p) == IF icell[p] + Direction(part[p].v) \in Cells THEN icell[p] ELSE Across(p)
\* The cell across the face is unknown: the owner of this cell, a ghost,
\* crosses it.  A periodic remap of x is undone.
Uncollided(p) == icell[p]
ExitUnknown(p) ==
    /\ Walking(p) /\ Across(p) # 0
    /\ halo[p][Across(p)] = "unknown"
    /\ Stop(p, [part[p] EXCEPT !.x = Uncollided(p), !.icell = icell[p], !.flag = "exit"])
    /\ entryexit' = [entryexit EXCEPT ![p] = TRUE]
    /\ UNCHANGED <<grid, half, todo, first, final, mail, room>>

AtWall(p, kinds) == Walking(p) /\ Across(p) = 0
                    /\ Boundary[Direction(part[p].v)] \in kinds

Discard(p) == Stop(p, [part[p] EXCEPT !.icell = icell[p], !.flag = "discard"])

Outflow(p) ==
    /\ AtWall(p, {"outflow"})
    /\ Discard(p)
    /\ UNCHANGED <<grid, half, todo, first, entryexit, final, mail, room>>

\* Mutant: the time to the wall is subtracted twice.
BouncedLate(a) == [a EXCEPT !.v = -@, !.dtremain = @ - 2]
Bounced(a) == [a EXCEPT !.v = -@, !.dtremain = @ - 1]

Bounce(p) ==
    /\ AtWall(p, {"reflect", "surface"})
    /\ part' = [part EXCEPT ![p] = Bounced(@)]
    /\ UNCHANGED <<grid, half, pc, lists, icell, first, entryexit, final, mail, room>>

\* Surface chemistry destroys the particle ...
Destroy(p) ==
    /\ AtWall(p, {"surface"})
    /\ Discard(p)
    /\ UNCHANGED <<grid, half, todo, first, entryexit, final, mail, room>>

InUse == {a.id : a \in start} \union
         UNION {{a.id : a \in Mine(p) \union InFlight(p)} : p \in Proc}

\* ... or adds a second one to this pass, with the icell the first has stored.
Create(p) ==
    \E id \in Ids \ InUse :
        /\ AtWall(p, {"surface"})
        /\ part' = [part EXCEPT ![p] = Bounced(@)]
        /\ todo' = [todo EXCEPT ![p] =
                      @ \union {[Bounced(part[p]) EXCEPT !.id = id, !.flag = "surf"]}]
        /\ maxlocal' = [maxlocal EXCEPT ![p] = Grown(@, nlocal(p) + 1)]
        /\ UNCHANGED <<grid, half, pc, kept, leaving, icell, first, entryexit, final,
                       mail, maxmigrate>>

-----------------------------------------------------------------------------
(* The end of a pass: is another one required? *)
Post(box, p, value) == [box EXCEPT ![p] = [q \in Proc |-> Append(@[q], value[q])]]
Taken(box, p) == [q \in Proc |-> [box[q] EXCEPT ![p] = Tail(@)]]
AllPosted(box, p) == \A q \in Proc : box[q][p] # <<>>

EndPass(p) ==
    /\ todo[p] = {} /\ Cutoff >= 0
    /\ Go(p, "pass", "reduce")
    /\ votes' = Post(votes, p, [q \in Proc |-> entryexit[p]])
    /\ UNCHANGED <<grid, half, lists, part, icell, first, entryexit, final, batches, room>>

EndOnlyPass(p) ==
    /\ todo[p] = {} /\ Cutoff < 0
    /\ Go(p, "pass", "pack")
    /\ final' = [final EXCEPT ![p] = TRUE]
    /\ UNCHANGED <<grid, half, lists, part, icell, first, entryexit, mail, room>>

AnyEntryexit(p) == \E q \in Proc : Head(votes[q][p])
Reduced(p) ==
    /\ AllPosted(votes, p)
    /\ Go(p, "reduce", "pack")
    /\ final' = [final EXCEPT ![p] = ~AnyEntryexit(p)]
    /\ votes' = Taken(votes, p)
    /\ UNCHANGED <<grid, half, lists, part, icell, first, entryexit, batches, room>>

(* Comm::migrate_particles. *)
Sendbuf(p, q) == {a \in leaving[p] : a.flag # "discard" /\ owner[a.icell] = q}

Pack(p) ==
    /\ Go(p, "pack", "unpack")
    /\ batches' = Post(batches, p, [q \in Proc |-> Sendbuf(p, q)])
    /\ leaving' = [leaving EXCEPT ![p] = {}]
    /\ UNCHANGED <<grid, half, todo, kept, part, icell, first, entryexit, final,
                   votes, room>>

Incoming(p) == UNION {Head(batches[q][p]) : q \in Proc}

\* The plan is made by all processes together, so all have packed.
Unpack(p) ==
    /\ AllPosted(batches, p)
    /\ batches' = Taken(batches, p)
    /\ maxlocal' = [maxlocal EXCEPT ![p] =
                      Grown(@, Cardinality(kept[p]) + Cardinality(Incoming(p)))]

\* Mutant: the next pass starts at the first particle of the array.
PassFromZero(p) == kept[p] \union Incoming(p)
NextPass(p) == Incoming(p)

\* Another pass, over what has come in.
Continue(p) ==
    /\ ~final[p]
    /\ Go(p, "unpack", "pass")
    /\ Unpack(p)
    /\ todo' = [todo EXCEPT ![p] = NextPass(p)]
    /\ first' = [first EXCEPT ![p] = FALSE]
    /\ entryexit' = [entryexit EXCEPT ![p] = FALSE]
    /\ maxmigrate' = [maxmigrate EXCEPT ![p] = Max({@, Cardinality(Incoming(p))})]
    /\ UNCHANGED <<grid, half, kept, leaving, part, icell, final, votes>>

\* Update::run has made the last migration of this half timestep.
EndHalf(p) ==
    /\ final[p]
    /\ Go(p, "unpack", "idle")
    /\ Unpack(p)
    /\ kept' = [kept EXCEPT ![p] = @ \union Incoming(p)]
    /\ half' = [half EXCEPT ![p] = @ + 1]
    /\ final' = [final EXCEPT ![p] = FALSE]
    /\ UNCHANGED <<grid, todo, leaving, part, icell, first, entryexit, votes, maxmigrate>>

Finished(p) == pc[p] = "idle" /\ half[p] = NHalves
Done == (\A p \in Proc : Finished(p)) /\ UNCHANGED vars

Step(p) == \/ StartMove(p) \/ Skip(p) \/ Jump(p) \/ Pick(p)
           \/ Interior(p) \/ Cross(p) \/ EnterEmpty(p) \/ ExitUnknown(p)
           \/ Outflow(p) \/ Bounce(p) \/ Destroy(p) \/ Create(p)
           \/ EndPass(p) \/ EndOnlyPass(p) \/ Reduced(p)
           \/ Pack(p) \/ Continue(p) \/ EndHalf(p)

Next == (\E p \in Proc : Step(p)) \/ Done

Spec == Init /\ [][Next]_vars
FairSpec == Spec /\ \A p \in Proc : WF_vars(Step(p))

-----------------------------------------------------------------------------
(* Where a particle is after crossing n faces, if one process did it all.  *)
(* 0 is outside of the box.                                                *)
SerialStep(w) ==
    LET to == Neighbor(w.x, Direction(w.v))
    IN IF w.x = 0 \/ to # 0 \/ Boundary[Direction(w.v)] = "outflow"
         THEN [w EXCEPT !.x = IF @ = 0 THEN 0 ELSE to]
         ELSE [w EXCEPT !.v = -@]
Serial(cell, v, n) ==
    LET walk[k \in 0 .. n] == IF k = 0 THEN [x |-> cell, v |-> v] ELSE SerialStep(walk[k - 1])
    IN walk[n]

\* A particle of start after h half timesteps.
Faces(a, h) == IF h = 0 THEN 0
               ELSE IF a.flag = "insert" THEN a.dtremain + (h - 1) * Abs(a.v)
               ELSE h * Abs(a.v)
After(a, h) == Serial(a.icell, a.v, Faces(a, h))

ControlType == /\ half \in [Proc -> 0 .. NHalves] /\ pc \in [Proc -> Places]
               /\ first \in [Proc -> BOOLEAN]
               /\ entryexit \in [Proc -> BOOLEAN]
               /\ final \in [Proc -> BOOLEAN]
ListsType == /\ todo \in [Proc -> SUBSET Particles]
             /\ kept \in [Proc -> SUBSET Particles]
             /\ leaving \in [Proc -> SUBSET Particles]
WalkerType == /\ part \in [Proc -> Particles \union {NoPart}]
              /\ icell \in [Proc -> Cells]
              /\ \A p \in Proc : pc[p] = "walk" => part[p] \in Particles
MailType == /\ votes \in [Proc -> [Proc -> Seq(BOOLEAN)]]
            /\ batches \in [Proc -> [Proc -> Seq(SUBSET Particles)]]

\* A list is empty where the code has no use for it.
ListsUsed ==
    \A p \in Proc : /\ pc[p] \in {"idle", "reduce", "pack", "unpack"} => todo[p] = {}
                    /\ pc[p] \in {"idle", "unpack"} => leaving[p] = {}

TypeOK == ControlType /\ ListsType /\ WalkerType /\ MailType /\ ListsUsed

(* After every half timestep each process has exactly the particles that a *)
(* single process would have moved into its cells: none is lost, copied,   *)
(* moved twice or not far enough, whatever passes the move took, and each  *)
(* is stored in an owned cell, as Particle::sort assumes.                  *)
SerialMove ==
    \A p \in Proc : pc[p] = "idle" =>
        /\ {<<a.id, a.icell, a.x, a.v>> : a \in kept[p]} =
              {<<a.id, After(a, half[p]).x, After(a, half[p]).x, After(a, half[p]).v>> :
                  a \in {b \in start : After(b, half[p]).x \in Owned(owner, p)}}
        /\ \A a, b \in kept[p] : a.id = b.id => a = b

(* A particle that a process can move no further goes to one that can.  It *)
(* is handed over in the cell of another process (update.cpp:1223 says it  *)
(* "must be" a ghost; update.cpp:1280 stops the run otherwise), and if the *)
(* next cell is unknown here, it is known to the process which owns this   *)
(* one, "so receiver can identify neighbor" (update.cpp:1224).             *)
HandedOn ==
    \A p \in Proc : \A a \in leaving[p] :
        /\ a.flag # "discard" => owner[a.icell] # p
        /\ a.flag = "exit" => halo[owner[a.icell]][Neighbor(a.icell, Direction(a.v))] # "unknown"

(* A particle lies in the cell that it is stored in whenever its move is   *)
(* begun or taken up again by a receiver.                                  *)
InStoredCell == \A p \in Proc : \A a \in todo[p] \union InFlight(p) : a.x = a.icell

(* The particle array has room for every particle added to it, also when   *)
(* particles of other processes arrive after some have left.               *)
ArrayHasRoom == \A p \in Proc : nlocal(p) <= maxlocal[p]

(* The migration list has room for every particle put on it.               *)
MlistHasRoom == \A p \in Proc : Cardinality(leaving[p]) <= maxmigrate[p]

\* No owned cell has a neighbor that its process cannot hand a particle to.
NoUnknownNeighbors ==
    \A c \in Cells, d \in {-1, 1} :
        Neighbor(c, d) # 0 => halo[owner[c]][Neighbor(c, d)] # "unknown"

\* Every process gets to the end of the run: the passes of a move end.
AllFinish == \A p \in Proc : <>[]Finished(p)

=============================================================================
