---------------------------- MODULE GhostValues ----------------------------
(***************************************************************************)
(* Values of grid cells that go between the owner of a cell and the        *)
(* processes that have a ghost of it: the macroscopic quantities that      *)
(* particles relax with (CollideBGK of src/src/collide_bgk.cpp,            *)
(* GridCommMacro of grid_comm_macro.cpp) go from the owner in every        *)
(* timestep, by lists of cell indices made when ghosts were acquired; the  *)
(* tallies of collisions with implicit surfaces (ComputeISurfGrid, kept    *)
(* over several steps by fix ave/grid, and Grid::collate_array_implicit of *)
(* grid_collate.cpp) go to it at the end of a window, by cell IDs.  In     *)
(* between fix balance gives cells other owners and all cells other        *)
(* indices.                                                                *)
(*                                                                         *)
(* All processes make the calls of a script, each at its own pace.  An     *)
(* exchange is as module DatumExchange has it: it ends when the sources    *)
(* have come to it.                                                        *)
(***************************************************************************)
EXTENDS MacroCells, Sequences

CONSTANT Settings

Calls == {"tally", "compute", "receive", "relax", "contribute", "collate", "balance"}
ASSUME SettingsAssumption ==
    Settings \subseteq [all : BOOLEAN,                         \* global gridcut -1, or Cutoff
                       surfs : SUBSET Cells,                  \* cells with a surface
                       script : Seq(Calls),
                       collate : {"array", "vector"},         \* several values, or one
                       layouts : SUBSET [Cells -> Proc]]     \* what fix balance may choose

\* What is computed is sent and received before anything else is done, and
\* collate_array_implicit is one call.  With a cutoff no cells move within
\* a window of tallies: the ID of a cell that is gone would be an entry of
\* the hash with index 0 (grid_collate.cpp:156).
Follows(script, a, b) ==
    \A n \in DOMAIN script :
        /\ script[n] = a => n + 1 \in DOMAIN script /\ script[n + 1] = b
        /\ script[n] = b => n - 1 \in DOMAIN script /\ script[n - 1] = a
ASSUME ScriptsAssumption ==
    \A s \in Settings :
        /\ Follows(s.script, "compute", "receive") /\ Follows(s.script, "contribute", "collate")
        /\ ~s.all => \A i, j \in DOMAIN s.script :
              i < j /\ s.script[i] = "tally" /\ s.script[j] = "balance" =>
                  \E m \in i .. j : s.script[m] = "collate"

All == INSTANCE GhostCells WITH Cutoff <- -1

VARIABLES
    setting,
    at,         \* the next call of each process
    mine,       \* its own cells, in the order of their indices
    ghosts,     \* its ghost cells, which follow them
    macro,      \* cells[].macro, of all of these
    sendlist,   \* sendcelllist: the indices it sends to each process
    recvlist,   \* recvicelllist: the indices of those it gets from each
    mail,       \* mail[q][p]: quantities under way from q to p
    hits,       \* the cell in which a particle of the process hit a surface,
                \* or 0, by the number of the call
    datums,     \* datums[q][p]: the tallies on their way to the owner
    sum         \* array_grid

grid == <<mine, ghosts, sendlist, recvlist>>
vars == <<setting, at, grid, macro, mail, hits, datums, sum>>

Call(p) == IF at[p] \in DOMAIN setting.script THEN setting.script[at[p]] ELSE "end"
Times(p, call) == Cardinality({k \in 1 .. at[p] - 1 : setting.script[k] = call})
Return(p) == at' = [at EXCEPT ![p] = @ + 1]
Nth(S, j) == CHOOSE x \in S : Cardinality({y \in S : y <= x}) = j
Ascending(S) == [j \in 1 .. Cardinality(S) |-> Nth(S, j)]
SumOf(f) == MapThenSumSet(LAMBDA x : f[x], DOMAIN f)

HaloNow(owner, p, c) == IF setting.all THEN All!Halo(owner, p, c) ELSE Halo(owner, p, c)

-----------------------------------------------------------------------------
(* The cells of a process and their indices *)
Array(own, ghost) == own \o ghost
Stored(p) == Array(mine[p], ghosts[p])
\* Grid::hash, 0 for an ID that is not in it.
Index(array, c) == IF \E k \in DOMAIN array : array[k] = c
                     THEN CHOOSE k \in DOMAIN array : array[k] = c ELSE 0
\* hash[c] makes an entry for what is not there, with the first index.
Hashed(array, c) == IF Index(array, c) = 0 THEN 1 ELSE Index(array, c)

GhostsOf(owner, p) == Ascending({c \in Cells : HaloNow(owner, p, c) \in {"full", "empty"}})
\* Indices of the cells in own that are to be sent to p.
ListFor(owner, own, p) == Ascending({k \in DOMAIN own : SentTo(owner, p, own[k])})
SendLists(owner, own) == [q \in Proc |-> [p \in Proc |-> ListFor(owner, own[q], p)]]
\* The IDs that come from q are looked up one by one.
RecvLists(owner, own) ==
    [p \in Proc |-> [q \in Proc |->
        LET ids == [k \in DOMAIN ListFor(owner, own[q], p) |-> own[q][ListFor(owner, own[q], p)[k]]]
        IN [k \in DOMAIN ids |-> Index(Array(own[p], GhostsOf(owner, p)), ids[k])]]]

\* Mutant: the lists are made once.
OldLists(owner, own) == UNCHANGED <<sendlist, recvlist>>
NewLists(owner, own) == sendlist' = SendLists(owner, own) /\ recvlist' = RecvLists(owner, own)

Init ==
    /\ setting \in Settings
    /\ \E owner \in setting.layouts :
         /\ mine = [p \in Proc |-> Ascending({c \in Cells : owner[c] = p})]
         /\ ghosts = [p \in Proc |-> GhostsOf(owner, p)]
         /\ sendlist = SendLists(owner, mine) /\ recvlist = RecvLists(owner, mine)
    /\ at = [p \in Proc |-> 1]
    /\ macro = [p \in Proc |-> [k \in DOMAIN Stored(p) |-> [cell |-> Stored(p)[k], step |-> 0]]]
    /\ mail = [q \in Proc |-> [p \in Proc |-> <<>>]]
    /\ hits = [p \in Proc |-> [n \in DOMAIN setting.script |-> 0]]
    /\ datums = [q \in Proc |-> [p \in Proc |-> <<>>]]
    /\ sum = [p \in Proc |-> <<>>]

-----------------------------------------------------------------------------
(* Macroscopic quantities *)
\* computeMacro: those of all own cells, and a message to each receiver.
Computed(p) == [k \in DOMAIN macro[p] |->
                  IF k <= Len(mine[p]) THEN [cell |-> mine[p][k], step |-> Times(p, "compute") + 1]
                  ELSE macro[p][k]]
Compute(p) ==
    /\ Call(p) = "compute"
    /\ macro' = [macro EXCEPT ![p] = Computed(p)]
    /\ mail' = [mail EXCEPT ![p] = [q \in Proc |->
                  IF sendlist[p][q] = <<>> THEN @[q]
                  ELSE Append(@[q], [k \in DOMAIN sendlist[p][q] |-> Computed(p)[sendlist[p][q][k]]])]]
    /\ Return(p)
    /\ UNCHANGED <<setting, grid, hits, datums, sum>>

Senders(p) == {q \in Proc : recvlist[p][q] # <<>>}
Unpacked(p, k) ==
    LET places(q) == {m \in DOMAIN recvlist[p][q] : recvlist[p][q][m] = k}
        from == {q \in Senders(p) : places(q) # {}}
    IN IF from = {} THEN macro[p][k]
       ELSE LET q == CHOOSE q \in from : TRUE
            IN Head(mail[q][p])[CHOOSE m \in places(q) : TRUE]
Receive(p) ==
    /\ Call(p) = "receive"
    /\ \A q \in Senders(p) : mail[q][p] # <<>>
    /\ macro' = [macro EXCEPT ![p] = [k \in DOMAIN macro[p] |-> Unpacked(p, k)]]
    /\ mail' = [q \in Proc |-> IF q \in Senders(p) THEN [mail[q] EXCEPT ![p] = Tail(@)] ELSE mail[q]]
    /\ Return(p)
    /\ UNCHANGED <<setting, grid, hits, datums, sum>>

\* Particles of own cells read the quantities of the cell they look at.
LookedUp(p, c) == macro[p][Index(Stored(p), c)]
Relax(p) == /\ Call(p) = "relax" /\ Return(p)
            /\ UNCHANGED <<setting, grid, macro, mail, hits, datums, sum>>

-----------------------------------------------------------------------------
(* Tallies of collisions with the surfaces in cells *)
Owner == [c \in Cells |-> CHOOSE p \in Proc : Index(mine[p], c) # 0]

\* surf_tally, for at most one of the cells the process knows.
Tally(p) ==
    /\ Call(p) = "tally"
    /\ \E c \in {0} \union {d \in setting.surfs : HaloNow(Owner, p, d) \in {"owned", "full"}} :
         hits' = [hits EXCEPT ![p][at[p]] = c]
    /\ Return(p)
    /\ UNCHANGED <<setting, grid, macro, mail, datums, sum>>

\* The calls since the tallies were cleared, which is after a collate.
Window(n) == {m \in 1 .. n - 1 : "collate" \notin {setting.script[k] : k \in m .. n - 1}}
\* tally2surf and array_tally: what was hit, and how often.
Tallies(p, n) == {hits[p][m] : m \in Window(n)} \ {0}
Hits(p, c, n) == Cardinality({m \in Window(n) : hits[p][m] = c})
\* Mutant: the first ghost is taken for one's own.
OfLaterGhosts(p, n) == {c \in Tallies(p, n) : Hashed(Stored(p), c) > Len(mine[p]) + 1}
OfGhosts(p, n) == {c \in Tallies(p, n) : Hashed(Stored(p), c) > Len(mine[p])}
\* collate_vector_implicit does not count nsend up.
Sent(p, q, n) == {c \in OfGhosts(p, n) : setting.collate = "array" /\ Owner[c] = q}
DatumsTo(p, q, n) == [m \in 1 .. Cardinality(Sent(p, q, n)) |->
                        LET c == Nth(Sent(p, q, n), m) IN [cell |-> c, value |-> Hits(p, c, n)]]

\* What is one's own is summed, what is of a ghost is sent to its owner.
OwnSum(p, k, n) == SumOf([c \in {d \in Tallies(p, n) : Hashed(Stored(p), d) = k} |-> Hits(p, c, n)])
Contribute(p) ==
    /\ Call(p) = "contribute"
    /\ sum' = [sum EXCEPT ![p] = [k \in DOMAIN mine[p] |-> OwnSum(p, k, at[p])]]
    /\ datums' = [datums EXCEPT ![p] = [q \in Proc |-> Append(@[q], DatumsTo(p, q, at[p]))]]
    /\ Return(p)
    /\ UNCHANGED <<setting, grid, macro, mail, hits>>

Received(list, array, k) ==
    SumOf([m \in {n \in DOMAIN list : Hashed(array, list[n].cell) = k} |-> list[m].value])
\* What others sent is added, when all have come to this call.
Collate(p) ==
    /\ Call(p) = "collate"
    /\ \A q \in Proc : datums[q][p] # <<>>
    /\ sum' = [sum EXCEPT ![p] = [k \in DOMAIN mine[p] |->
                 sum[p][k] + SumOf([q \in Proc |-> Received(Head(datums[q][p]), Stored(p), k)])]]
    /\ datums' = [q \in Proc |-> [datums[q] EXCEPT ![p] = Tail(@)]]
    /\ Return(p)
    /\ UNCHANGED <<setting, grid, macro, mail, hits>>

-----------------------------------------------------------------------------
(* Fix balance: cells go to new owners with their quantities, those that   *)
(* stay close up, and ghosts and lists are acquired again.  What comes is  *)
(* appended as it arrives: sender after sender, in any order there.        *)
Orders == {order \in [Proc -> Proc] : \A p, q \in Proc : order[p] = order[q] => p = q}
Moved(owner, order, p) ==
    LET stay     == Ascending({k \in DOMAIN mine[p] : owner[mine[p][k]] = p})
        place(c) == order[Owner[c]] * NCells + Index(mine[Owner[c]], c)
        come     == {c \in Cells : owner[c] = p /\ Owner[c] # p}
        arrived  == Ascending({place(c) : c \in come})
    IN [k \in DOMAIN stay |-> mine[p][stay[k]]]
         \o [k \in DOMAIN arrived |-> CHOOSE c \in come : place(c) = arrived[k]]
\* Each process has an order of its own.
Arrays(owner) ==
    LET any(p) == {Moved(owner, order, p) : order \in Orders}
    IN {own \in [Proc -> UNION {any(p) : p \in Proc}] : \A p \in Proc : own[p] \in any(p)}

Balance ==
    /\ \A p \in Proc : Call(p) = "balance"
    /\ \E owner \in setting.layouts : \E own \in Arrays(owner) :
         LET value(c) == macro[Owner[c]][Index(mine[Owner[c]], c)]
         IN /\ mine' = own
            /\ ghosts' = [p \in Proc |-> GhostsOf(owner, p)]
            /\ macro' = [p \in Proc |-> [k \in DOMAIN Array(own[p], GhostsOf(owner, p)) |->
                           value(Array(own[p], GhostsOf(owner, p))[k])]]
            /\ NewLists(owner, own)
    /\ at' = [p \in Proc |-> at[p] + 1]
    /\ UNCHANGED <<setting, mail, hits, datums, sum>>

Ended == (\A p \in Proc : Call(p) = "end") /\ UNCHANGED vars

Next == \/ \E p \in Proc : \/ Tally(p) \/ Compute(p) \/ Receive(p) \/ Relax(p)
                           \/ Contribute(p) \/ Collate(p)
        \/ Balance
        \/ Ended

Spec == Init /\ [][Next]_vars

-----------------------------------------------------------------------------
(* Every particle that relaxes finds the quantities of the very cell it    *)
(* looks at, as the owner computed them in this timestep: whatever was     *)
(* renumbered since the lists were made, and however far ahead the owner   *)
(* is (collide_bgk.cpp:236).                                               *)
FreshMacros ==
    \A p \in Proc : Call(p) = "relax" =>
        \A k \in DOMAIN mine[p] : \A n \in LooksAt(mine[p][k]) :
            LookedUp(p, n) = [cell |-> n, step |-> Times(p, "compute")]

(* No process is sent a cell that it has no ghost of, which would end the  *)
(* run (grid_comm_macro.cpp:335).                                          *)
SentAreStored == \A p, q \in Proc : \A k \in DOMAIN recvlist[p][q] : recvlist[p][q][k] # 0

(* A collate adds up for each own cell what all processes tallied in it    *)
(* since the last one, each tally once, also when cells have changed their *)
(* owners and indices in between (grid_collate.cpp:34).                    *)
CollatedOnce ==
    \A p \in Proc : at[p] > 1 /\ setting.script[at[p] - 1] = "collate" =>
        \A k \in DOMAIN mine[p] :
            sum[p][k] = SumOf([q \in Proc |-> Hits(q, mine[p][k], at[p] - 1)])

=============================================================================
