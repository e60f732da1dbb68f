# A TLA+ model of MSPD

MSPD is a parallel particle code (SPARTA and SPARTACUS with a multiscale
stochastic particle method for diatomic gases). Its physics is floating-point
arithmetic and random numbers; what can be right or wrong for reasons of control
is how MPI processes that own parts of one grid hand particles, cells, values and
sums to each other, how each keeps its arrays consistent while it does, what is
written to and read from files by whom, and when. This project models that part of
the code, checks it with TLC on small instances and proves part of it with TLAPS
for every number of processes.

All paths are relative to `src/src/` unless they say otherwise.

## 1. The system

A run (`run.cpp`, `update.cpp`, `Update::run`) repeats timesteps. In each, fixes add
particles, all processes move their particles twice for half a timestep
(`Update::move`), each time migrating those that left (`Comm::migrate_particles`),
particles are weighted, sorted by grid cell, collided and perhaps deleted, and at
the end of the step fixes may rebalance or adapt the grid, and output is written.

| Component | State | Operations | Talks to | What is hard | What makes it correct |
|---|---|---|---|---|---|
| Irregular (`irregular.cpp`) | a plan: whom I send to, who sends to me, how much; MPI requests | create_procs, three create_data methods, augment, two exchanges, reverse | every component that sends datums to owners | wildcard receives, same tag for counts and data, different speeds of processes | plans agree, no message is taken for another, an exchange returns what was sent, everybody returns |
| Move and migrate (`update.cpp`, `comm.cpp`) | particles with flag, cell and remaining time; mlist; pstart, pstop | move, move_weighted, optimized move; migrate_particles | Grid (cells, neighbors, owners), Irregular, boundary reactions | number of passes differs, flags left from earlier steps, unknown and EMPTY ghosts, array growth in the loop | the result is that of one process; particles go to who can move them; passes end |
| Ghost cells (`grid.cpp`) | owned cells, full and EMPTY ghosts | acquire_ghosts, find_neighbors | Move, GridCommMacro | zero cutoff, periodic ends | across every face of an owned cell is a cell I know |
| Particle list (`particle.cpp`) | array, `next`, `first`, `sorted` | add, compress in four ways, sort, weight, grow | Move, Collide, migration of cells | deleting while walking, the tail may be doomed, stale lists | exactly the doomed go, each particle once and in its own cell |
| Migration of cells (`comm.cpp`, `grid_comm.cpp`) | cells, particles, batches | migrate_cells, migrate_cells_less_memory, Grid::compress | Particle list, Irregular | renumbering, batches between compressions | no particle lost, indices and lists follow the cells |
| Macroscopic ghosts (`grid_comm_macro.cpp`, `collide_bgk.cpp`) | lists of cells to send and receive; quantities of own and ghost cells | acquire the lists, runComm, interpolation | CollideBGK, Irregular, rebalancing | indices taken long before they are used, its own rule of what is near | a particle relaxes with the quantities of the cell it looks at, of this timestep |
| Grid sums (`grid_collate.cpp`, `Comm::rendezvous`) | tallies on own and ghost cells over a window | collate, owned_to_ghost | Irregular, fixes and computes | cells change owner and index in a window | each tally is added once at its owner |
| Output schedule (`output.cpp`, `modify.cpp`, `run.cpp`) | next step of every output, time lists of computes, windows of averages | setup, write, reset_timestep; clearstep, addstep | Run, variables, computes | variable intervals, several runs | an output is written on every step it is due and its computes were told before |
| Restart files (`write_restart.cpp`, `read_restart.cpp`) | file writer and its cluster, buffers, header | ping, ready send, write; turns of the readers | files, another run with other processes | ready sends, all messages of one tag, rounding of clusters | each piece restored once |
| Partitions (`universe.cpp`, `variable.cpp`) | index in a lock file | Variable::set, Variable::next | file system | a lock by rename | each index taken once |
| Load balance (`balance_grid.cpp`, `fix_balance.cpp`, `rcb.cpp`) | dots, partitions, cuts | RCB compute and invert; random, stride | migration of cells | odd numbers of processes, ready sends, ties | halves and loads balanced, each cell has one new owner |
| Grid adaptation (`adapt_grid.cpp`, `grid_adapt.cpp`) | parents, children, tasks | refine, coarsen | Irregular, Particle list | children on several processes | one process coarsens, particles follow |
| Cell IDs (`grid_id.cpp`) | packed bits of a hierarchy | child, parent, neighbor IDs | adaptation, move | widths, levels | inverse functions |
| Collisions (`collide*.cpp`, `react*.cpp`), surfaces, fixes, computes | per-cell and per-element values | numerical | Particle list | — | numerical |
| Ablation (`fix_ablate.cpp`) | corner values, shared by up to eight cells | decrement, sync, create surfs | Irregular-like exchange | copies on several processes | copies stay equal |

`PROJECT.json` lists every component with its status, also those that are not
modelled, with the reason, and the hazards of the code line by line. A hazard
without a property has a note: the code has the fault and the model shows or avoids
it, or no module has come to it (section 8).

## 2. The modules

    IrregularPlan  <- DatumExchange          what an exchange promises
                   <- Irregular              the MPI protocol, implements DatumExchange
                        <- MCIrregular
                        <- IrregularProofs
    GhostCells     <- ParticleMove           composed: the move walks the ghosts
                        <- MCParticleMove, ParticleMoveProofs
                   <- MacroCells  <- GhostValues (and an instance for all ghosts)
                                        <- MCGhostValues, GhostValuesProofs
    ParticleSet                              what a particle list promises
    ParticleList   INSTANCE ParticleSet, implements it
                        <- MCParticleList, ParticleListProofs
    RestartFiles   <- Restart <- MCRestart, RestartProofs
    Output         <- MCOutput, OutputProofs
    RCBPartners    <- RCB <- MCRCB, RCBProofs
    SharedIndex                              what a shared variable promises
    VariableLock   INSTANCE SharedIndex, implements it
                        <- MCVariableLock, VariableLockProofs

### Irregular

Every process runs the same `Program` of method calls at its own pace; an action is
one MPI call, or the code between two. `send`, `nrecv`, `procRecv`, `numRecv` and
`sizeRecv` are the members of the class, indexed by process where the code keeps a
map (`proc2recv`). MPI is modelled as its standard says: messages of one source,
destination and tag do not overtake, a wildcard receive takes the next message of
any source, a send of data may return at once or block until its match
(`Send`, `Unblock`), and a collective ends when no process is still before it.
Counts and sizes of four bytes are sent as buffered. Buffers are sequences of
*blocks*: the datums from one process, named by their positions in its list.

`DatumExchange` has no messages and no plan. A plan is a rendezvous; an exchange
hands a process its own datums and then those of each source. The refinement keeps
`proclist`, `call` and `recvbuf` as they are and hides the rest.

### GhostCells and ParticleMove

The grid is a row of slabs of equal width; a velocity is the number of faces to be
crossed in half a timestep, so that floating-point geometry becomes counting while
every overlap of boxes that `acquire_ghosts_near` decides still occurs: inside,
grazing (EMPTY ghost), outside, across a periodic end. A grid cell is named by its
position, so a local index on the owner (`ilocal`) is not modelled.

| ParticleMove | `update.cpp`, `comm.cpp` |
|---|---|
| `todo`, `kept`, `leaving` | particles from `i` to `pstop`, those that stay, those in `mlist` |
| `part`, `icell`, `pc = "walk"` | the particle inside the loop over faces |
| StartMove, Skip, Pick | the head of the loop: flags, `dtremain`, the `continue` on PDONE |
| Jump | the optimized move |
| Interior, Cross, EnterEmpty, ExitUnknown | end of the path; child; EMPTY ghost (PENTRY); unknown neighbor (PEXIT) |
| Outflow, Bounce, Destroy, Create | outflow, reflection, and reactions at the box face |
| EndPass, Reduced, EndOnlyPass | `entryexit`, the Allreduce; with a cutoff of -1 there is none |
| Pack, Continue, EndHalf | migrate_particles, the next pass, or the migration by `Update::run` |

An exchange of particles is one set per pair of processes; that this is what class
Irregular gives is the refinement above (create_procs and augment_data_uniform, as
`Comm::migrate_particles` calls them with neighbors, are in its program). Arrays are
sets, except for their sizes `maxlocal` and `maxmigrate`; the order is the business of:

### ParticleList

One process, whole timesteps. The array is indexed from 0, `next` and `first` are
the linked lists, and every iteration of a compressing or weighting loop is an
action, so that the array in the middle of a loop is a state. A move is any change
of cells and any list of particles to give away (ascending, or in any order with
optmove); a reaction deletes any particles in the order of the cells' lists and
adds any. What arrives from others is any particle or cell. `ParticleSet` says what
this is to its users: a set, from which exactly the doomed are removed, and of which
every member is weighted once.

Its settings (optmove, weights, reactions, balancing) are chosen in `Init` from the
constant `Settings`, so that one run goes through several; the modules below do the same.

### MacroCells and GhostValues

`MacroCells` has the geometry of `GridCommMacro`: the box extended by the width of a
cell (`MacroBox`, `MacroParts`), which cells are sent to whom (`SentTo`, more than a
common face), and the cells a particle looks at (`LooksAt`: `interpolation_2d` moves
a copy of the position by up to half a cell).

`GhostValues` has the two ways of values between the owner of a cell and the
processes with a ghost of it, over the calls of a script that all processes run at
their own pace: `compute` (quantities of own cells, packed and sent by `runComm`),
`receive`, `relax` (read), `tally` (a hit on an implicit surface), `contribute` and
`collate` (the two halves of `collate_array_implicit`, around its rendezvous), and
`balance`, which all make together. `mine` and `ghosts` are the cells array of a
process in the order of its indices, `sendlist` and `recvlist` hold *indices*, as
`sendcelllist` and `recvicelllist` do, and the tallies carry cell IDs, which are
looked up in the hash as it is when they are used. A rebalance appends cells to the
array sender after sender, in any order of the senders, as `exchange_variable` may
deliver them (comm.cpp:309). A setting's `all` is a global gridcut of -1, where
`acquire_ghosts_all` makes every cell a ghost; otherwise the ghosts are those of `Cutoff`.
`ScriptsAssumption` is what the callers do: what is computed is received before anything
else, the two halves of a collate follow each other, and with a cutoff no cells move
within a window of tallies (the code has a fault there, see section 4). A quantity is the cell and the
timestep that it was computed for, so that a value in the wrong place can be told.
The sum of tallies is compared with the history of hits.

### RestartFiles and Restart

`RestartFiles` has the arithmetic of clusters of processes and files, with the
options single, each, fileper and nfile. `Restart` is a pair of runs: one writes,
another with its own number of processes reads. Processes answer pings with ready
sends; a message is a ping, a size or a piece of data, all of one tag, and a posted
receive is a variable, so that a ready send without it is a state TLC can find.
`MPI_Send` of a size either returns at once or waits (`eager`). Data of a process is
its list of cells, particles and surfaces, with sub cells behind their split cells;
no entry is there twice, and a particle is on the process of its cell. What a process
takes from a chunk is a set of indices of its list, in order (`Picked`).

### Output

One thread, since all processes do the same: commands run (with every and pre) and
reset_timestep, and within a step what `Update::run` calls: the move, which tallies
what was asked for (`bounce_set`), the fixes, and `Output::write`. `told` is
the list of steps of each compute, `tallied` the step whose collisions it holds.

### RCBPartners and RCB

`RCBPartners` says who sends dots to whom. `RCB` searches the cuts by reductions over
a partition (one action for all its processes) and exchanges dots by single messages:
counts, posted receives, pings, ready sends. The first guess of a cut is any.

### VariableLock and SharedIndex

`name` maps the two file names to files, so that a file renamed while it is open is
written all the same; opening to write empties a file and closing it fills it.
Renaming to lock, reading, truncating, writing, renaming back are steps that other
partitions come between. `SharedIndex` takes a value in one step.

## 3. What the passing runs check

| Run | Instance | What it shows |
|---|---|---|
| irregular_every | 3 processes, 13 calls, 2 loads | All methods, sorted and not; a plan used twice; a plan replaced; neighbors with nothing to send. Plans agree (`PlanAgrees`), no message is heard in another phase (`NothingOvertakes`, `WildcardsHearSizes`), messages fit their segments (`IrecvsFit`), `reverse` names the senders, and with fairness the whole is a `DatumExchange`, termination included |
| move_exit | cutoff 1, 5 cells, periodic, 4 particles, optmove | unknown cells, EMPTY ghosts, several passes: `SerialMove`, `InStoredCell`, `AllFinish` |
| move_entry | cutoff 0, 4 cells, periodic, 3 half steps | EMPTY ghosts inside, full ghosts from the nudge around the ends and unknown cells behind them: `NoUnknownNeighbors`, `HandedOn` (to a process that can move the particle on), `MlistHasRoom` |
| move_walls | all cells are ghosts, weighted, a wall and an open end | one pass without a vote, growing arrays, reactions that extend the pass: `ArrayHasRoom`, `TypeOK` |
| list_steps | 3 particles; 2 cells, or 3 with balancing; 14 settings | migration, reactions, weighting, and cells that migrate at once or in batches: `StoredWhereItIs`, `ListsServe`, `ListsSound`, refinement `SetSpec` |
| ghost_values | 3 processes, 4 cells in a ring, two scripts with a rebalance | `FreshMacros`, `SentAreStored`, `CollatedOnce` |
| restart_roundtrip | 1 to 4 writers, 1 to 6 readers, six layouts of files, with and without surfaces, some with waiting sends or passes | `AnswerIsAwaited`, `RestoredOnce`, `ClumpedIsTrue`, both runs end (`Ends`) |
| output_runs | 760 scripts of two or three commands, up to 16 steps | `TalliedWhenUsed`, `DumpsOnTime`, `RestartsOnTime`, `StatsOnTime`, `WindowsAreFull` |
| rcb_levels | 1 to 5 processes, dots in line and plane, ties within and across processes, any guess | `AnswerIsAwaited`, `HalvesBalanced`, `LoadBalanced`, `OwnersKnown`, `Ends` |
| lock_once | 3 partitions, 5 values, a file left by another run or none | `EachOnce`; refinement `ImplementsSharedIndex`, termination included |

The central properties:

- `SerialMove`: after each half timestep every process has exactly the particles
  that one process alone, walking face by face through an undivided box, would have
  put into its cells, each once. It fails if a flag is misread, a pass starts at the
  wrong particle, a vote is lost, a particle is put in two lists, or handed on in a
  wrong cell.
- `FreshMacros`: what a process reads before it relaxes a particle is the value of
  the very cell it looks at, of the present timestep. It fails if lists outlive
  the order of cells that they were made for, if the two processes order them
  differently, or if a fast neighbor's next message is taken for this one.
- `CollatedOnce`: the sum of an own cell is the number of hits that all processes
  had in it in the window, across rebalances.
- `RestoredOnce`: the reading run has every cell, particle and surface of the writing
  one once, for every combination of process numbers and files.
- `TalliedWhenUsed`: a value that is printed, averaged or decides on a next output is a
  tally of the very step.
- `LoadBalanced`: after any number of cuts, a process is off its share of the whole
  weight by no more than two and a half of the largest weights. Each cut may be off by
  one of them, but what it is off is shared by the processes of the half, so that it
  does not add up. `RCB::check` tolerates a little less on few processes (section 4).

### Bounds

- Three processes are the least for which a receiver hears from two senders in
  either order while a third is a phase ahead or behind, and for which a particle
  crosses a process it neither starts nor ends in. In a ring of four cells with
  three processes a process has neighbors on both sides, and both periodic images.
- The loads of MCIrregular contain two datums for one receiver, interleaved
  destinations, datums to self, a receiver of everyone's, and a process that neither
  sends nor hears. A longer program adds only repetitions: a message can be at most
  one barrier ahead.
- Four or five cells and velocities up to four faces give particles that end in
  their process, in a ghost, in an unknown cell, and around the box; two or three
  half timesteps are needed for flags that survive one.
- Three particles in a list allow one to be doomed in the middle, one at the tail
  and one to be kept; weights 3 and 2 give deletion, keeping and cloning; Delta is 2
  so that arrays grow. At most one particle arrives in a migration and one cell with
  at most two in a batch. Particles and cells are interchangeable there (for each
  setting those with the cells exchanged are settings, too), so the run uses
  symmetry, with an action property but no liveness.
- The scripts of MCGhostValues have two timesteps after a rebalance, or one before and
  one after it, two tallies in a window, on both sides of the rebalance where all cells
  are ghosts, and a second window. With cutoff 0 tallies are collated before cells
  move, for the reason given in section 4. The layouts have a process with no cells,
  dispersed cells (with all ghosts), and cells that come back.
- Restarts of one to four and up to six processes have more files than readers, as
  many, and fewer, with equal and unequal clusters; a process without cells; sub cells
  apart from their split cell.
- Intervals of 2, 3, 4 and 6 steps in runs of 0, 1, 4, 5, 6 and 10 meet and miss each
  other's ends. Script variables have values that fall on ends of runs and beyond them.
- Five processes halve into 3 + 2 and 2 + 1: odd partitions on two levels.

### Fairness

`FairSpec` of Irregular and of ParticleMove is weak fairness of each process's own
step and, in Irregular, of the matching that MPI does for it. A process is a program
that runs on; MPI guarantees progress of a posted pair. No fairness is assumed of a
choice: a send that blocks may always block. Restart and RCB assume only that
something that can go on does (`WF_vars(Next)`), as every behaviour there is finite.
In VariableLock each partition goes on: weak fairness is enough although a rename may
fail any number of times, because the values run out for the others. ParticleList,
GhostValues and Output state no liveness: their loops are bounded and their scripts
finite; GhostValues checks that no reachable state is a deadlock.

## 4. Disagreements found

With a run that TLC finds violated:

- `restart_less` — `write_less_memory` writes no MULTIPROC (write_restart.cpp:378) and no
  surface section, and every reader refuses its files (read_restart.cpp:161), although
  doc/global.txt:394-396 describes restart files of memory-limited runs.
- `ghost_vector` — `collate_vector_implicit` never counts up the tallies it packs
  (grid_collate.cpp:77), so that what processes tallied in ghost cells is lost. Fix
  ave/grid with one value uses it (fix_ave_grid.cpp:729).

Met while modelling; the models do as the code does, or leave the case out where this
is said:

- A script that defines a uloop or universe variable again for a second loop makes the
  file anew while other partitions are in the first (variable.cpp:276). VariableLock
  has this: with NLoops = 2 `EachOnce` fails; doc/next.txt:53 allows such a script.
- `create_data_uniform_grouped` (irregular.cpp:401) sums numbers of datums into `nrecv`,
  which the comment at :406 and the other methods say is a number of processes; a
  process with two datums for another makes it wait for ever. No caller in this
  repository sets `inorder` or `outorder`; the loads have single datums there.
- move_weighted takes the whole timestep (update.cpp:1392) where move takes half of it
  (update.cpp:447); Update::run calls either in both half steps.
- An emitted particle gets a random fraction of a whole timestep
  (fix_emit_face.cpp:556) and moves for it and another half step
  (doc/fix_emit_face.txt:97 says a random fraction of the timestep).
- A reaction at a box face makes its product in `ip->icell` (surf_react_global.cpp:104),
  which is updated before in-cell surface reactions (update.cpp:928) but not before
  those at a face (update.cpp:1147).
- A reaction at a box face adds its product to the pass under way (update.cpp:1211), but
  mlist is extended between passes only (update.cpp:427 and :1306), so that it may
  be overrun at update.cpp:1272. With the constants of move_walls `MlistHasRoom` fails;
  it is checked and proved without reactions.
- `sorted` stays 1 when particles are added after a sort at the end of a step
  (particle.cpp:625), although particle.h:26 says it means that particles are sorted.
- reset_timestep leaves `last_restart` and `last_dump` (output.cpp:305), so that an
  output whose step comes again is not written. The scripts set the step forward.
- The next step of a variable for statistics is not capped by the last step in `setup`
  (output.cpp:239), against doc/stats_modify.txt:81-82. The scripts avoid it.
- `setup` evaluates the variable of a restart without the clear and add of computes
  that the comment at output.cpp:192 says surround it.
- fix print and fix adapt tell computes of their next use only when they are used
  (fix_print.cpp:128); the first line has tallies of the setup.
- Readers form clusters by the formula of nfile for files written with fileper
  (read_restart.cpp:969), so that on the same number of processors a chunk may go to
  another process than wrote it, against doc/read_restart.txt:52-55.
- With gridcut >= 0 a rebalance between a tally and its collate leaves tallies of cells
  that the process no longer knows; `(*hash)[id]` makes an entry with index 0
  (grid_collate.cpp:156) and the tally is added to the first own cell. The cutoff-0
  script of ghost_values collates before it rebalances.
- With gridcut >= 0 on a dispersed grid `acquire_ghosts` goes on after its warning to
  the lists of GridCommMacro, which stop the run (grid_comm_macro.cpp:123);
  doc/global.txt:256-262 promises a warning that a later balance_grid settles.
- `interpolation_2d` reads `do_relaxation` of the own cell, not of the one it has found
  (grid_comm_macro.cpp:510); acquiring the lists again leaks `rbuf`.
- `RCB::check` (rcb.cpp:758-776), which nothing calls, says that the loads of two
  processes differ by no more than the largest weight times log2(P), which it takes for 2
  on three processes. The cuts do not keep to it. Dots at (1,5), (2,6), (3,7),
  (5,8) with weights 1, 2, 2, 1 on one process and (6,1), (7,2), (8,8) of weight 2 on
  another are given out in loads of 1, 5 and 6, even if every first guess is half way: the
  first cut is accepted with 6 below where 8 were due, and the second with 1 where 3
  were. By `LoadBalanced` two loads differ by no more than 5 of the largest
  weights, which the check allows from 16 processes on.
- read_gp_multi_file_less_procs_memlimit closes its file inside its loop
  (read_restart.cpp:1172). The memory-limited readers are not modelled.

## 5. What is proved

Proofs are for every number of processes, every program, load, decomposition,
cutoff and boundary allowed by the named assumptions on constants.

- **IrregularProofs.** `TypeCorrect`: `Spec => []TypeOK`. `PhasesSeparated`:
  `Spec => []NothingOvertakes`, that is, what the comments at the barriers promise.
  `NothingOvertakes` is not inductive: nothing in it keeps a fast process from leaving
  the call early. The invariant `PhaseInv` adds to the types `PhaseOfMethod` (a phase
  belongs to a method that has it), `BarrierHolds` (when one process is past the
  barrier of a call that is no exchange, no process is before it any more) and
  `MailNotNewer` (a message is of no later call than its sender is in, and data
  are of an exchange). A message of a later call on its way to a process before
  the barrier would have a sender past that barrier.
  Each action is shown to move its process forward (`StepMovesOn`), from
  which `BarrierStep` follows; messages are handled by one lemma per kind of step
  (`MailPush`, `MailPop`, `MailOther`).
  `PlanCorrect`, `SizesOfThisCall`, `SegmentsFit` and
  `ReverseTellsTheTruth` state `PlanAgrees`, `WildcardsHearSizes`, `IrecvsFit` and
  `ReverseNamesSenders`. None is inductive: that a plan agrees with what others
  send depends on which of their messages have been heard. `PlanInv` therefore says of each
  process what each half of its plan is in each phase (`SendHalf`, `RecvPlan`, and, while
  it hears wildcard messages, `Listening`: those heard so far are different senders of
  this call), and of each channel that it contains just what the one process has sent
  and the other has not heard, in the order of the calls (`DataMail`, `SizeMail`).
  `ReduceHolds` keeps the Reduce_scatter, by which a process learns how many will send
  to it, from mixing calls. A wildcard receive takes the first message of
  some source; by `PhaseInv` it is of this call, by `DataMail` not a repeated one, so that
  the count of senders is reached by all of them. `ProgramOrderAssumption` (an
  augment follows create_data_uniform, an exchange follows the method that
  makes its plan) is what the callers do. `SafelyImplements`: every step is a step of
  `DatumExchange` or changes nothing that its callers see.
- **GhostValuesProofs**, for every number of processes and cells, every cutoff, every
  script that `ScriptsAssumption` allows and every set of layouts.
  1. Geometry. `SentCellsAreKnown`: what the rule of GridCommMacro sends is within what
     the rule of acquire_ghosts makes known, for every owner of the cells and both kinds of
     ends: a cell that crosses the box extended by less than a cell touches the bounding box
     or an image of it. `CellsLookedAtAreSent`: the rule covers every cell that
     interpolation can read. Together they are why both kinds of ghosts can share one array.
     The first lemmas on boxes are also in ParticleMoveProofs: each of the two modules
     extends a component with its own variables, and cannot extend the other.
  2. `NobodyIsSentUnknown` and `MacrosAreFresh` state `SentAreStored` and `FreshMacros`.
     Neither is inductive: what a particle reads was put there by a message whose
     sender has long gone on. `MacrosInv` has, besides the places in the script
     (`CallsInv`: at a rebalance nobody is ahead), that lists, ghosts and cells are those of
     one assignment of owners (`GridInv`: each own cell has one index), that
     a quantity is of the cell in whose place it is and of the number of timesteps that its
     process has received (`MacroInv`), and that a channel holds just the messages of
     the computes of its sender that its receiver has not come to, in order, each cell by cell
     as the receiver's list will unpack it (`MailInv`). That sender and receiver count
     cells alike is that both lists come from the same `ListFor`. A rebalance finds
     all channels empty, because compute and receive are never apart in a script.
  3. `TalliesAreCollatedOnce` states `CollatedOnce`, if all settings collate arrays (the
     other method loses tallies, section 4). A sum over processes is compared with sums
     over lists of datums that were packed for other indices, so the invariant keeps the
     parts: a hit is in a cell which its process knows as long as its window lasts
     (`HitsInv`; this is where the cutoff matters), a channel holds the datums of the
     contributes that its receiver has not collated, as `DatumsTo` makes them (`DatumsInv`: what
     was packed then would be packed now, as hits of earlier calls do not change and
     cells have not moved in between), and after a contribute the sums are of
     the process's own hits (`SumInv`). A collate then adds for each own cell one datum of
     each other process that hit it (`DatumsTo` has a cell once) and none of the rest.
- **ParticleMoveProofs**, in five parts.
  0. `NeighborsKnown`: for every assignment of cells to processes and every cutoff, the cell
     across each face of an owned cell is known. The argument is the code's
     geometry: the extended box contains the bounding box, the bounding box contains
     the owned cell, so the cell beyond its face overlaps or grazes a part of it; at a
     periodic end the nudge or the cutoff makes the shifted part reach the first cell.
  1. `MoveInv == TypeOK /\ Unfinished /\ GridInv /\ NotToSelf` is inductive: `GridInv` says
     that the ghosts are those of the decomposition, `Unfinished` that a process at work has
     not finished its half steps (needed to type the counter). From it `MoveTypeCorrect`,
     `NoOwnedCellAtTheEdge`, which uses `NeighborsKnown`, and with the invariant
     `ExitsInside` (a particle flagged PEXIT stands before a cell, not before the end of
     the box) `HandedToWhoKnows`: who stops before an unknown cell stands in a cell of
     another process (update.cpp:1223), and its owner knows the cells around it.
  2. `Content` gives what is in each place: the three lists of a process, its walk, and the
     messages to each other process, by position. Every action carries at most one
     particle from one place to another or renames places (`Carry`), so that
     `OneParticleOnePlace`. What lies where (`WellStored`), and how many particles there
     can be on a list (`RoomType`, `MlistFits`: those still to come and those listed
     are no more than the entries), give `StoredWhereTheyAre`, `ArrayIsLargeEnough` and
     `MlistIsLargeEnough`.
  3. There is no barrier in a move. `Ahead(p, q)` is the number of migrations that p has
     finished and q has not, as the length of a channel shows it. `SyncInv`: it is a
     difference of two counts (`Rounds`); the half steps follow it (`Halves`); a vote is
     in its channel until it is read and is the present one (`Votes`); and the last
     migration is the one for which nobody voted, for all (`FinalWhen`,
     `FinalForAll`). `ProcessesInStep` follows: nobody is two migrations ahead, and
     processes in the same one agree whether it is the last.
  4. `TrackInv`: a particle, wherever it is, is on the way of one that the run started with,
     at the point that its place stands for (`Going`: the rest of its walk, face by face, ends
     where the serial walk of this half step ends). `Present`: one that has not left
     the box is somewhere. The walk is a recursive function of the faces to be
     crossed; what is needed of it (a jump is as good as the steps it replaces, a walk
     can be interrupted anywhere) is proved from the least counterexample. With
     `OneParticleOnePlace` and `SyncInv` this gives `MigrationIsSerial`.

  `NoReactions` (no face with surface reactions) is a hypothesis where the code needs it:
  a product is stored in the cell in which the first particle began (section 4), and
  is not counted when mlist is sized. `~Weighted` is one of
  `MigrationIsSerial`, as move_weighted moves for the whole timestep twice (section 4).
- **ParticleListProofs.** One inductive invariant, `Inv`, for any number of particles and
  cells, any settings and Delta. `Distinct` and `PlacesInv`: a particle is stored once and
  in its own cell, except the leavers in cell 0 and, until compress_rebalance has reached
  them, marked ones at or beyond `i`. `LeaversInv`: what is on the list
  from `i` on is what is still to be deleted, *wherever it is by now*. With optmove and in
  compress_reactions a listed index need not be that of its particle any more, and
  `Tracked` says what the code's use of `next` keeps true: `next` of an index beyond the
  end of the array is the place to which its particle was moved, and near the
  end of the array it leads back to the index that was listed; different entries are at
  different places. `ChainInv`: the linked list of a cell is a sequence `s` without
  repetition whose links are `first` and `next` (`Linked`), whose members are in the cell, and
  which has all of them where lists are relied upon; `SortedInv` and `LeavingInv` say
  where that is, and that a cell that has been packed has no particles left. The linking of
  sort, of compress_rebalance_sorted (which replaces one index in one chain) and of
  unpacking are lemmas about such sequences. From `Inv` follow `ListTypeCorrect`,
  `AlwaysStoredWhereItIs`, `ListsAlwaysServe` and `ListsAlwaysSound`, which are the four
  invariants of the run. `ListImplementsSet`, the refinement, adds `DoomedInv`
  (who the doomed and those not yet weighed are at each stage) and shows each action to be
  `Admit`, `Remove` or `Decide` of ParticleSet, or a stutter.
- **RestartProofs.** `ClustersAreRanges`: for any numbers of processes and files,
  the processes of a file are those from its first up to the next file's first, so that
  the correction of the rounded quotient is right. `ClustersNotEmpty`: with no more
  files than processes each file has one, and the clusters cover all processes.
  `FilesAreWritten`: under every option the files that the header counts are those that
  have a process. `ReadySendsAreAwaited`, for any numbers of processes of the two runs,
  any options and chunks: `Spec => []AnswerIsAwaited`. The inductive invariant is `Types`
  and `HandshakeInv`, which says of each process of a file and its writer
  (`WritePair`), and of each process of a cluster and its reader (`ReadPair`), how
  far the one may be when the other is where it is, and what is on the way between them.
  A process is before its exchange, in it (`Owing`, `Answered`) or gone on, and only one
  process of a file is in an exchange, as the writer takes them in order.
  A reader and a process count the chunks each for itself, in steps of one and of
  the size of the cluster; `Ahead` says that they mean the same one: the next chunk the process
  wants is its turn's and less than one round ahead of the reader, so that it is the chunk
  on offer as soon as it is that process's turn (`ModFacts`). Since the size of the next chunk may
  be sent before the process has taken the last, two messages may be on the way. One of
  the two may have left a section while the other is still in it (`Left`, `Gone`), but neither begins
  the next before all have come to it (the reduction of the sizes, the split of the
  communicator), so that messages of two sections, all of tag 0, do not meet. That
  a piece fits the buffer follows from the maximum over all sizes.
  `WhatIsWrittenIsRestored`, `Spec => []RestoredOnce`, follows what is written through
  both runs. `FilesInv`: a file holds, of each section, the pieces of those
  processes of its cluster that the writer has had, in their order (`Filling`), and in the
  end of all (`Filled`), so that the chunks of the files together are the writing processes.
  `Due(p, s, q)` says which chunks are a process's to take, by each of the four ways to
  read: each chunk of its file that falls to its turn (with one file for all or
  one for each cluster), all chunks of its files, or a share of every chunk;
  `Passed` says how far the reading has got with them. `HadInv` says that a process has
  the chunks that are due to it and passed, and nothing else (`Had`, `Right`), that the
  chunk on its way to a process is the one that the process is waiting for (`MailIn`),
  and that a broadcast is heard by all (`Together`). At the end all are passed, each
  chunk was due to one process (with shares: each entry of it, as all count a chunk's entries
  alike), and an entry is in one chunk. A split cell may be a share of one process, and its
  sub cells follow it since they are behind it in the same chunk: they are
  looked up in the hash of cells so far. From the same invariant,
  `ClumpedIsClumped`, `Spec => []ClumpedIsTrue`: where clumped is set
  and there are several processes, the readers are as many as the writers were and in
  the same clusters, so that what is due to a process is one chunk.
  The assumptions, `SettingsAssumption` and `DataAssumption`, are that there are
  processes, that counts in options are positive (write_restart.cpp:143, 161), that sizes
  are integers, and of the data what section 2 says of it, which the grid guarantees:
  a cell is owned by one process, its sub cells are appended after
  it, and particles are in owned cells after every migration.
- **OutputProofs.** For any scripts of commands, outputs and fixes that the code accepts
  (`ScriptsAssumption`: intervals are positive, an output has a number or a variable, fix
  ave/time keeps its two conditions). `Tables`, which needs no more: the next step of an
  output is due and none between the last step done and it is (`NextInv`, `IsNext`), so
  that a step equal to `next` is one on which something is due and no due step is
  passed, through any division into runs; and what an average has
  collected is the beginning of the window that ends on a multiple of Nfreq, or the full
  window before it (`WinInv`, `WindowTo`), whence `AveragesAreFull`. `DumpsAreOnTime`
  and `RestartsAreOnTime` need `LastInv` (`last` is not ahead of the timestep),
  which fails if the timestep is set back (section 4): their hypothesis, `[]ResetsAhead`, is
  that resets go ahead, come after a run, and not onto a value of a dump's variable (on
  which the setup of the next run writes nothing). At a setup a dump has been
  written on this step or can still be (`Settled`, `Untouched`). `StatsAreOnTime` adds
  `[]StatsInRun`, a value of the variable in each run, without which `setup` goes past the end
  (section 4). `TallyWhenUsed` follows the requests: `ToldInv` says that an output
  or average whose next step is ahead has told it to all computes that it will ask,
  that a compute which was told of the step is tallied when the step is
  reached, and that what statistics use is up to date from the end of a run until
  the next is set up, which is what a run with pre no relies on. Its hypothesis
  `Foretold` names what the code does not see to: fix print and the commands between
  runs ask for no more than the statistics of the same step, a run with pre no follows a
  run and finds no more in the variables of dumps, and restart variables use no
  tallies (section 4). The scripts of output_runs meet the three hypotheses.
- **RCBProofs.** `PartnerAcross` and `SourcesArePartners`: in a partition of any
  size every process receives from just those whose partner it is, each once.
  `ReadySendsAreAwaited`, for any number of processes, any dots and any choice of cuts:
  `Spec => []AnswerIsAwaited`. The inductive invariant `HandshakeInv`, with the types:
  partitions are disjoint intervals (`PartsInv`); a channel holds a count that was told and is
  not yet heard, behind it at most one answer, and dots until the receiver has them
  (`ChannelsInv`: the length of every channel is a function of how far its two ends have
  come); whose count was heard has told it, who goes on was answered by its partner, and
  who has all its dots was sent them by each source (`AnswersInv`); the positions in
  the loops over the sources (`LoopsInv`); and the count that was heard is the number of dots that
  will come (`CountsInv`). So what releases a sender cannot be a count of the other
  source or of an earlier level: all of those have been taken from the channel by then.

  `HalvesAreBalanced`, `OwnersAreKnown` and `LoadsAreBalanced` state `HalvesBalanced`,
  `OwnersKnown` and `LoadBalanced`. Their invariant, `BalanceInv`, looks at dots as a
  `View`: every dot is in a slot of a process, at rest or on its way, and is bound for
  some process. Most steps leave the View, a step of the exchange moves dots between slots
  (`Shifted`), and a cut changes only where dots are bound for; most of the proofs are
  of these three kinds of steps.
  `OwnersInv` says that no dot is in two slots and none is lost (`PlacesInv`), that
  a dot which left its process is out of the group of that process (`HomeInv`, so that it never
  comes back), and that the first `nkeep` dots of a process are its own and no others
  are (`KeptInv`). Then `Invert` names every other dot to its owner, once.
  `SearchInv` says of a search what is known at every guess: the weight on each side is
  that of the dots which are marked and active no more, they lie beyond the limits of the
  interval, and each side is short of its share, so that the other can give
  (`Narrowed`); and at its end that the cut is near (`Halved`). `MovedNear` is the lemma on
  ties: each process decides how many of its dots to move from what those before it have,
  and all together miss what is wanted by no more than the largest weight.
  `BoxInv` says that the processes of a group have one box, and that it holds every dot
  that is bound for them. `LoadInv` bounds the load of every group of n processes:
  n shares of the whole are missed by no more than 3 times the largest weight (by 5/2 for
  n = 1), and a cut into any proportion keeps this, since of c processes out of n each
  gets c/n of what was missed and one weight for the cut. Sums of weights are folds over
  sets; that they add up is proved by a smallest set for which they would not, as
  the library's induction cannot be used.
  The one assumption, `LoadsAssumption`, is that there is a process, that a dot has integer
  coordinates and a natural weight, and that there is a dot.
- **VariableLockProofs.** `ValuesOnce`: for any number of partitions and values and one
  loop, `Spec => []EachOnce`. Its inductive invariant says that at most one partition is
  between its renames, and then it has the lock and the name of the variable stands for no
  file; that the file holds the number of values taken whenever nobody has it;
  and that every smaller value was simulated, or is about to be, by one partition.
  `TakesAtOnce` is the safety part of the refinement: every step implements a step of
  SharedIndex or none.

Only model-checked: all liveness (fairness and ENABLED are outside of the prover), so
also that every call of DatumExchange ends, that moves finish, that both runs of a restart
end and that the search and the recursion of RCB do (`Ends`). Every safety invariant of a passing
run is stated by a theorem.

## 6. What the models leave out

- Of the move: in-cell surface elements, split and sub cells, axisymmetry (where
  round-off may put a particle outside of its cell, update.cpp:1054), particles stuck
  between surfaces (update.cpp:1014), external fields, the cell time-step weights, two
  and three dimensions and refined cells.
- Velocities after surface or gas collisions: any change is allowed where it matters.
- Reallocation and byte layout of buffers, except the sizes that limit an index.
- MPI_Send of one or two integers before the matching receive is buffered in Irregular
  (irregular.cpp:326) and RCB (rcb.cpp:487), as MPI does below its eager limit; without
  any buffering these would deadlock.
- Datums of zero bytes (irregular.cpp:627), and a send to a process outside of the plan of
  create_procs (irregular.cpp:713, comm.cpp:92): no caller has them, since ghosts and
  neighbors are acquired again after every migration of cells.
- A list of create_procs with a process in it twice (irregular.cpp:121 counts it twice):
  its caller names the owners of neighbor cells once each (comm.cpp:92-114).
- A grid that changes while particles move: ParticleMove fixes the decomposition,
  ParticleList and GhostValues change it.
- MacroCells has equal cells. With cells of several sizes and a short cutoff the rule,
  which takes the largest width of the coarsest level, can send a cell that is no
  ghost, which stops the run.
- GhostValues: cells with few particles have no temperature and readers fall back to
  their own cell; the other interpolations; `owned_to_ghost_array`; which of the two
  kinds of rendezvous is used.
- Output: adaptation, reductions and other users of tallying computes; dump files, whose
  writers use the protocol of WriteRestart; the toggle of restart files.
- Restart: readers of memory-limited runs, and the header beyond what readers act on.
- RCB: the other styles and the weights.
- VariableLock: renaming is atomic (variable.cpp:602 doubts it); `LongRuns` assumes
  that a first simulation lasts longer than the making of the file. A partition that
  stops between its renames leaves all others waiting: the code has no recovery.
- Faults: the code has no recovery from a failed process or message; it aborts.

Kokkos variants, vendored libraries, geometry and numerics are most of the
repository's lines and have no protocol of their own to model.

## 7. Running

In this directory, with `tlc` and `tlapm` on the path:

    tlc -workers 2 -config MCIrregular_Every.cfg MCIrregular
    tlc -workers 2 -config MCParticleMove_Exit.cfg MCParticleMove
    tlc -workers 2 -config MCGhostValues_Steps.cfg MCGhostValues
    tlapm VariableLockProofs.tla

`PROJECT.json` lists all runs. Every property has a mutant, an operator defined before
the definition that it changes the way a plausible mistake would; `PROJECT.json` says
which run finds it.

## 8. Plan

Done: Irregular and DatumExchange, GhostCells, ParticleMove, ParticleList and
ParticleSet, Restart, Output, RCB, VariableLock and SharedIndex, MacroCells and
GhostValues, with the proofs of section 5. Next, in this order:

1. `AdaptCells`: which process coarsens a parent cell, how particles follow, and the
   composition with ghosts and lists.
2. `CornerSync` of FixAblate: copies of corner values on several processes.
3. `GridId` operators against a reference definition on small hierarchies.
4. Surf collate with the callback of the rendezvous; dump files.
