------------------------------- MODULE Restart -------------------------------
(***************************************************************************)
(* One run writes a restart (WriteRestart::write, write_less_memory) and   *)
(* another, on a number of processes of its own, reads it (ReadRestart).   *)
(* A writer of a file fetches the chunks of its processes one by one: it   *)
(* posts a receive into its buffer, pings the owner, and the owner answers *)
(* with MPI_Rsend, which is only correct if the receive is there.  A       *)
(* reader hands the chunks of its file out in turns: it sends the size,    *)
(* the process posts a receive and pings, and the reader answers.  All     *)
(* messages have tag 0.                                                    *)
(*                                                                         *)
(* A grid chunk is the cells of one process and their particles, in the    *)
(* order of its arrays; a cell of nsplit <= 0 is sub cell -nsplit of the   *)
(* split cell of that id.  A surface chunk is the ids of its own surfaces. *)
(***************************************************************************)
EXTENDS RestartFiles, SequencesExt, FiniteSetsExt

CONSTANTS Settings,  \* the two runs: records [w, r, multi, surfs, less, eager]
          Data       \* Data[w][p]: [cells, particles, surfs, size] of writer p of w

Sections == {"grid", "surf"}
MultiKinds == [kind : {"single", "each"}, num : {0}] \union
              [kind : {"fileper", "nfile"}, num : Nat \ {0}]
ASSUME SettingsAssumption ==
  Settings \subseteq [w : Nat \ {0}, r : Nat \ {0}, multi : MultiKinds,
                     surfs : BOOLEAN, less : BOOLEAN, eager : BOOLEAN]
CellEntries == [id : Int, nsplit : Int]
ParticleEntries == [n : Int, id : Int, nsplit : Int]
Entries(f) == CASE f = "cells" -> CellEntries [] f = "particles" -> ParticleEntries [] f = "surfs" -> Int
Fields == {"cells", "particles", "surfs"}

\* What a process writes: a cell is on one process, with its sub cells behind
\* it and its particles; no entry is there twice.
ASSUME DataAssumption ==
  \A s \in Settings : \A p \in 0 .. s.w - 1 :
    LET d == Data[s.w][p]
    IN  /\ d.size \in [Sections -> Int]
        /\ \A f \in Fields : /\ d[f] \in Seq(Entries(f))
                             /\ \A i, j \in DOMAIN d[f] : d[f][i] = d[f][j] => i = j
        /\ \A i \in DOMAIN d.cells :
             /\ \A j \in DOMAIN d.cells :
                  d.cells[i].id = d.cells[j].id /\ d.cells[i].nsplit > 0 /\ d.cells[j].nsplit > 0 => i = j
             /\ d.cells[i].nsplit <= 0 =>
                  \E j \in 1 .. i - 1 : d.cells[j].id = d.cells[i].id /\ d.cells[j].nsplit > 0
        /\ \A i \in DOMAIN d.particles : \E j \in DOMAIN d.cells :
             d.cells[j].id = d.particles[i].id /\ d.cells[j].nsplit = d.particles[i].nsplit
        /\ \A q \in 0 .. s.w - 1 : q # p =>
             /\ \A i \in DOMAIN d.cells, j \in DOMAIN Data[s.w][q].cells :
                  d.cells[i].id # Data[s.w][q].cells[j].id
             /\ \A i \in DOMAIN d.surfs, j \in DOMAIN Data[s.w][q].surfs :
                  d.surfs[i] # Data[s.w][q].surfs[j]

VARIABLES set,       \* the setting of this behaviour
          stage,     \* "write", then "read"
          pc, k,     \* each process: where it is, and its loop index
          pass,      \* the passes a file writer still has to receive; the
                     \* file a process is at when it reads files of its own
          sec,       \* the section each process is in, "grid" or "surf"
          chan,      \* chan[p][q]: messages on the way from p to q
          posted,    \* whom the posted MPI_Irecv of a process is for, or None
          maxsize,   \* the size of the buffers of a writing run
          base,      \* the header: [w, multiproc, surfs]
          files,     \* each file: PROCSPERFILE and the pieces in it
          have       \* what a reading process has got: [cells, particles,
                     \* surfs, clumped]

vars == <<set, stage, pc, k, pass, sec, chan, posted, maxsize, base, files, have>>

None == -1
Missing == -2            \* no MULTIPROC in the header
N == IF stage = "write" THEN set.w ELSE set.r
Procs == 0 .. N - 1
At(l) == \A p \in Procs : pc[p] = l

Ping == [kind |-> "ping"]
Size(v) == [kind |-> "size", v |-> v]
Piece(p, s, i) == [kind |-> "data", p |-> p, sec |-> s, i |-> i]

\* write_less_memory sends the grid first and then the particles in at least
\* one pass; here the passes differ from process to process.
NPieces(p) == IF set.less THEN 2 + (p % 2) ELSE 1
SizeOf(p, s) == Data[set.w][p].size[s]

(***************************************************************************)
(* Messages.  A small message may be sent before it is asked for (eager),  *)
(* or MPI_Send may wait for the receiver.  from[q] is the process that q   *)
(* is waiting to hear from, in MPI_Recv or with a posted receive.          *)
(***************************************************************************)
Mine(p) == FileProc(set.multi, p, set.w)
Group(p) == Icluster(set.multi, p, set.w)
GroupSize(p) == ClusterProcs(set.multi, Group(p), set.w)

Method(s) ==
  CASE base.multiproc = 0 -> IF s = "grid" /\ set.r = base.w THEN "same" ELSE "bcast"
    [] OTHER -> IF set.r <= base.multiproc THEN "own" ELSE "share"

\* The file, the cluster, its reader and its size in a reading run.
File(p) == IF Method(sec[p]) = "share" THEN NfileCluster(p, base.multiproc, set.r) ELSE 0
Reader(p) == IF Method(sec[p]) = "share" THEN NfileFirst(File(p), base.multiproc, set.r) ELSE 0
NCluster(p) ==
  IF Method(sec[p]) = "share"
  THEN NfileFirst(File(p) + 1, base.multiproc, set.r) - Reader(p) ELSE set.r
Turn(p) == Reader(p) + (k[p] % NCluster(p))

\* The partner of the exchange a process is in.
Partner(p) ==
  IF stage = "write" THEN (IF Mine(p) = p THEN p + k[p] ELSE Mine(p))
  ELSE (IF Reader(p) = p THEN Turn(p) ELSE Reader(p))

Waits(q) == IF posted[q] # None THEN posted[q]
            ELSE IF pc[q] \in {"ping", "await", "announced", "size"} THEN Partner(q) ELSE None
CanSend(p, q) == set.eager \/ (Waits(q) = p /\ chan[p][q] = <<>>)

Send(p, q, m) == chan' = [chan EXCEPT ![p][q] = Append(@, m)]
Arrived(p, q, kind) == chan[q][p] # <<>> /\ Head(chan[q][p]).kind = kind
Receive(p, q) == chan' = [chan EXCEPT ![q][p] = Tail(@)]

Go(p, l) == pc' = [pc EXCEPT ![p] = l]

Init ==
  /\ set \in Settings
  /\ stage = "write"
  /\ pc = [p \in 0 .. set.w - 1 |-> "open"]
  /\ k = [p \in 0 .. set.w - 1 |-> 0]
  /\ pass = [p \in 0 .. set.w - 1 |-> 0]
  /\ sec = [p \in 0 .. set.w - 1 |-> "grid"]
  /\ chan = [p \in 0 .. set.w - 1 |-> [q \in 0 .. set.w - 1 |-> <<>>]]
  /\ posted = [p \in 0 .. set.w - 1 |-> None]
  /\ maxsize = 0 /\ base = <<>> /\ files = <<>> /\ have = <<>>

-----------------------------------------------------------------------------
(* Writing.                                                                *)

\* Process 0 writes the header, the first process of each file the number of
\* processes in it.  write_less_memory leaves MULTIPROC out of the header.
WriteHeader ==
  /\ stage = "write" /\ At("open")
  /\ base' = [w |-> set.w, surfs |-> set.surfs,
              multiproc |-> IF set.less THEN Missing ELSE NFiles(set.multi, set.w)]
  /\ files' = [c \in {Group(p) : p \in Procs} |->
                 [n |-> ClusterProcs(set.multi, c, set.w), pieces |-> <<>>]]
  /\ pc' = [p \in Procs |-> "buffer"]
  /\ UNCHANGED <<set, stage, k, pass, sec, chan, posted, maxsize, have>>

\* MPI_Allreduce of the sizes of a section, and a buffer of the largest.
Buffer ==
  /\ stage = "write" /\ At("buffer")
  /\ maxsize' = Max({SizeOf(p, sec[p]) : p \in Procs})
  /\ pc' = [p \in Procs |-> IF Mine(p) = p THEN "write"
                            ELSE IF set.less THEN "announce" ELSE "ping"]
  /\ UNCHANGED <<set, stage, k, pass, sec, chan, posted, base, files, have>>

\* What a process does after a section: write_less_memory has only one.
NextSection(p) ==
  IF set.surfs /\ ~set.less /\ sec[p] = "grid"
  THEN Go(p, "buffer") /\ sec' = [sec EXCEPT ![p] = "surf"] /\ k' = [k EXCEPT ![p] = 0]
  ELSE Go(p, "written") /\ UNCHANGED <<sec, k>>

WriteOwn(p) ==
  /\ pc[p] = "write" /\ k[p] = 0
  /\ files' = [files EXCEPT ![Group(p)].pieces =
                 @ \o [i \in 1 .. NPieces(p) |-> Piece(p, sec[p], i)]]
  /\ k' = [k EXCEPT ![p] = 1]
  /\ UNCHANGED <<set, stage, pc, pass, sec, chan, posted, maxsize, base, have>>

\* The next process: write_less_memory hears the number of its passes first.
WriteNext(p) ==
  /\ pc[p] = "write" /\ k[p] \in 1 .. GroupSize(p) - 1
  /\ IF set.less THEN Go(p, "announced") /\ UNCHANGED pass
     ELSE Go(p, "post") /\ pass' = [pass EXCEPT ![p] = 1]
  /\ UNCHANGED <<set, stage, k, sec, chan, posted, maxsize, base, files, have>>

HearPasses(p) ==
  /\ pc[p] = "announced" /\ Arrived(p, Partner(p), "size")
  /\ pass' = [pass EXCEPT ![p] = Head(chan[Partner(p)][p]).v]
  /\ Receive(p, Partner(p))
  /\ Go(p, "post")
  /\ UNCHANGED <<set, stage, k, sec, posted, maxsize, base, files, have>>

\* The ping goes out before the receive is posted.
PingFirst(p) ==
  /\ pc[p] = "post" /\ CanSend(p, Partner(p))
  /\ Send(p, Partner(p), Ping)
  /\ Go(p, "wait")
  /\ UNCHANGED <<set, stage, k, pass, sec, posted, maxsize, base, files, have>>

\* MPI_Irecv and then the ping, of a file writer and of a reading process.
PostReceive(p) ==
  /\ pc[p] = "post"
  /\ posted' = [posted EXCEPT ![p] = Partner(p)]
  /\ Go(p, "sendping")
  /\ UNCHANGED <<set, stage, k, pass, sec, chan, maxsize, base, files, have>>

SendPing(p) ==
  /\ pc[p] = "sendping" /\ CanSend(p, Partner(p))
  /\ Send(p, Partner(p), Ping)
  /\ Go(p, "wait")
  /\ UNCHANGED <<set, stage, k, pass, sec, posted, maxsize, base, files, have>>

\* MPI_Wait, and the piece to the file: pass counts the pieces still to come.
WritePiece(p) ==
  /\ stage = "write" /\ pc[p] = "wait" /\ Arrived(p, Partner(p), "data")
  /\ files' = [files EXCEPT ![Group(p)].pieces = Append(@, Head(chan[Partner(p)][p]))]
  /\ Receive(p, Partner(p))
  /\ posted' = [posted EXCEPT ![p] = None]
  /\ pass' = [pass EXCEPT ![p] = @ - 1]
  /\ IF pass[p] > 1 THEN Go(p, "post") /\ UNCHANGED k
     ELSE Go(p, "write") /\ k' = [k EXCEPT ![p] = @ + 1]
  /\ UNCHANGED <<set, stage, sec, maxsize, base, have>>

EndSection(p) ==
  /\ pc[p] = "write" /\ k[p] >= GroupSize(p)
  /\ NextSection(p)
  /\ UNCHANGED <<set, stage, pass, chan, posted, maxsize, base, files, have>>

\* The other processes of a file.  Two MPI_Isend tell the size and the passes.
Announce(p) ==
  /\ pc[p] = "announce"
  /\ Send(p, Mine(p), Size(NPieces(p)))
  /\ Go(p, "ping")
  /\ UNCHANGED <<set, stage, k, pass, sec, posted, maxsize, base, files, have>>

HearPing(p) ==
  /\ pc[p] \in {"ping", "await"} /\ Arrived(p, Partner(p), "ping")
  /\ Receive(p, Partner(p))
  /\ Go(p, "rsend")
  /\ UNCHANGED <<set, stage, k, pass, sec, posted, maxsize, base, files, have>>

SendPiece(p) ==
  /\ stage = "write" /\ pc[p] = "rsend"
  /\ Send(p, Mine(p), Piece(p, sec[p], k[p] + 1))
  /\ IF k[p] + 1 < NPieces(p)
     THEN Go(p, "ping") /\ k' = [k EXCEPT ![p] = @ + 1] /\ UNCHANGED sec
     ELSE NextSection(p)
  /\ UNCHANGED <<set, stage, pass, posted, maxsize, base, files, have>>

-----------------------------------------------------------------------------
(* Reading, by a new run with r processes.                                 *)

Each(v) == [p \in 0 .. set.r - 1 |-> v]
StartReading ==
  /\ stage = "write" /\ At("written")
  /\ stage' = "read"
  /\ pc' = Each("header") /\ k' = Each(0) /\ pass' = Each(0) /\ sec' = Each("grid")
  /\ chan' = Each(Each(<<>>)) /\ posted' = Each(None)
  /\ have' = Each([cells |-> <<>>, particles |-> <<>>, surfs |-> <<>>, clumped |-> FALSE])
  /\ UNCHANGED <<set, maxsize, base, files>>

\* "Invalid flag for multiproc value" stops the run.
ReadHeader ==
  /\ stage = "read" /\ At("header")
  /\ pc' = Each(IF base.multiproc = Missing THEN "refused" ELSE "enter")
  /\ UNCHANGED <<set, stage, k, pass, sec, chan, posted, maxsize, base, files, have>>

\* The start of a section: the split of the communicator, or the broadcast of
\* the first flag, has every process take part.
Enter ==
  /\ stage = "read" /\ At("enter")
  /\ pc' = [p \in Procs |-> IF Method(sec[p]) \in {"same", "share"} /\ Reader(p) # p
                            THEN "size" ELSE "read"]
  /\ k' = [p \in Procs |-> IF Method(sec[p]) \in {"same", "share"} THEN p - Reader(p) ELSE 0]
  /\ pass' = [p \in Procs |-> p]
  /\ UNCHANGED <<set, stage, sec, chan, posted, maxsize, base, files, have>>

NextReadSection(p) ==
  IF base.surfs /\ sec[p] = "grid"
  THEN Go(p, "enter") /\ sec' = [sec EXCEPT ![p] = "surf"]
  ELSE Go(p, "counted") /\ UNCHANGED sec

\* Chunk i of a section: the second section follows the first in the file.
Chunk(c, s, i) == files[c].pieces[(IF s = "grid" THEN 0 ELSE files[c].n) + i + 1]
NChunks(p) == files[File(p)].n

(***************************************************************************)
(* create_child_cells and assign_particles, unpack_surfs.  With skip every *)
(* process is shown every chunk: it takes each r-th entry that is a cell,  *)
(* the sub cells of the split cells it has, the particles in its cells,    *)
(* and the surfaces whose id falls to it.                                  *)
(***************************************************************************)
Nth(I, j) == CHOOSE i \in I : Cardinality({h \in I : h <= i}) = j
Picked(s, I) == [j \in 1 .. Cardinality(I) |-> s[Nth(I, j)]]
RestoreGrid(p, chunk, skip) ==
  LET e     == chunk.cells
      cell  == {i \in DOMAIN e : e[i].nsplit > 0 /\ (skip => (i - 1) % set.r = p)}
      known == {have[p].cells[i].id : i \in DOMAIN have[p].cells}
      sub   == {i \in DOMAIN e : /\ e[i].nsplit <= 0
                                 /\ skip => e[i].id \in known \union {e[j].id : j \in {n \in cell : n < i}}}
      hash  == known \union {e[i].id : i \in cell}
      in    == {i \in DOMAIN chunk.particles : skip => chunk.particles[i].id \in hash}
  IN  [have[p] EXCEPT !.cells = @ \o Picked(e, cell \union sub),
                      !.particles = @ \o Picked(chunk.particles, in),
                      !.clumped = TRUE]
RestoreSurfs(p, chunk, skip) ==
  LET mine == {i \in DOMAIN chunk.surfs : skip => chunk.surfs[i] % set.r = p}
  IN  [have[p] EXCEPT !.surfs = @ \o Picked(chunk.surfs, mine)]
Restored(p, m, skip) ==
  IF m.sec = "grid" THEN RestoreGrid(p, Data[base.w][m.p], skip)
  ELSE RestoreSurfs(p, Data[base.w][m.p], skip)
Keep(p, m) == have' = [have EXCEPT ![p] = Restored(p, m, FALSE)]

\* A single file for another number of processes: chunks are broadcast.
ReadBroadcast ==
  /\ stage = "read" /\ At("read") /\ Method(sec[0]) = "bcast"
  /\ IF k[0] < base.w
     THEN /\ have' = [p \in Procs |-> Restored(p, Chunk(0, sec[0], k[0]), TRUE)]
          /\ k' = [p \in Procs |-> k[p] + 1]
          /\ UNCHANGED <<pc, sec>>
     ELSE /\ pc' = Each(IF base.surfs /\ sec[0] = "grid" THEN "enter" ELSE "counted")
          /\ sec' = Each(IF base.surfs THEN "surf" ELSE "grid")
          /\ UNCHANGED <<k, have>>
  /\ UNCHANGED <<set, stage, pass, chan, posted, maxsize, base, files>>

\* No more processes than files: each reads every r-th file, all chunks of it.
ReadOwn(p) ==
  /\ stage = "read" /\ pc[p] = "read" /\ Method(sec[p]) = "own"
  /\ IF pass[p] < base.multiproc
     THEN /\ Keep(p, Chunk(pass[p], sec[p], k[p]))
          /\ IF k[p] + 1 < files[pass[p]].n
             THEN k' = [k EXCEPT ![p] = @ + 1] /\ UNCHANGED pass
             ELSE k' = [k EXCEPT ![p] = 0] /\ pass' = [pass EXCEPT ![p] = @ + set.r]
          /\ UNCHANGED <<pc, sec>>
     ELSE NextReadSection(p) /\ UNCHANGED <<k, pass, have>>
  /\ UNCHANGED <<set, stage, chan, posted, maxsize, base, files>>

\* The reader of a file that several processes share, or of the single file
\* if the run has as many processes as the one before.
ReadsFor(p) == stage = "read" /\ pc[p] = "read" /\ Method(sec[p]) \in {"same", "share"}

\* Its own chunk; that of the single file it skips, and reads it at the end.
ReadMine(p) ==
  /\ ReadsFor(p) /\ k[p] < NChunks(p) /\ Turn(p) = p
  /\ IF Method(sec[p]) = "share" THEN Keep(p, Chunk(File(p), sec[p], k[p])) ELSE UNCHANGED have
  /\ k' = [k EXCEPT ![p] = @ + 1]
  /\ UNCHANGED <<set, stage, pc, pass, sec, chan, posted, maxsize, base, files>>

SendSize(p) ==
  /\ ReadsFor(p) /\ k[p] < NChunks(p) /\ Turn(p) # p
  /\ CanSend(p, Turn(p))
  /\ Send(p, Turn(p), Size(0))
  /\ Go(p, "await")
  /\ UNCHANGED <<set, stage, k, pass, sec, posted, maxsize, base, files, have>>

SendChunk(p) ==
  /\ stage = "read" /\ pc[p] = "rsend"
  /\ Send(p, Turn(p), Chunk(File(p), sec[p], k[p]))
  /\ k' = [k EXCEPT ![p] = @ + 1]
  /\ Go(p, "read")
  /\ UNCHANGED <<set, stage, pass, sec, posted, maxsize, base, files, have>>

EndFile(p) ==
  /\ ReadsFor(p) /\ k[p] >= NChunks(p)
  /\ IF Method(sec[p]) = "same" THEN Keep(p, Chunk(0, "grid", 0)) ELSE UNCHANGED have
  /\ NextReadSection(p)
  /\ UNCHANGED <<set, stage, k, pass, chan, posted, maxsize, base, files>>

\* The other processes of a shared file: chunk k, k + cluster size, ...
HearSize(p) ==
  /\ pc[p] = "size" /\ k[p] < NChunks(p) /\ Arrived(p, Reader(p), "size")
  /\ Receive(p, Reader(p))
  /\ Go(p, "post")
  /\ UNCHANGED <<set, stage, k, pass, sec, posted, maxsize, base, files, have>>

\* The process takes the chunks from its first one on instead.
TakeChunksOn(p) ==
  /\ stage = "read" /\ pc[p] = "wait" /\ Arrived(p, Reader(p), "data")
  /\ Keep(p, Head(chan[Reader(p)][p]))
  /\ Receive(p, Reader(p))
  /\ posted' = [posted EXCEPT ![p] = None]
  /\ k' = [k EXCEPT ![p] = @ + 1]
  /\ Go(p, "size")
  /\ UNCHANGED <<set, stage, pass, sec, maxsize, base, files>>

TakeChunk(p) ==
  /\ stage = "read" /\ pc[p] = "wait" /\ Arrived(p, Reader(p), "data")
  /\ Keep(p, Head(chan[Reader(p)][p]))
  /\ Receive(p, Reader(p))
  /\ posted' = [posted EXCEPT ![p] = None]
  /\ k' = [k EXCEPT ![p] = @ + NCluster(p)]
  /\ Go(p, "size")
  /\ UNCHANGED <<set, stage, pass, sec, maxsize, base, files>>

EndTurns(p) ==
  /\ pc[p] = "size" /\ k[p] >= NChunks(p)
  /\ NextReadSection(p)
  /\ UNCHANGED <<set, stage, k, pass, chan, posted, maxsize, base, files, have>>

\* The end of ReadRestart::command: is the decomposition still clumped, and
\* has every cell and particle found a process?
Total(f) == SumFunction([i \in 1 .. set.r |-> Len(have[i - 1][f])])
Written(f) == SumFunction([i \in 1 .. base.w |-> Len(Data[base.w][i - 1][f])])
SumOK == \A f \in {"cells", "particles"} : Total(f) = Written(f)
\* The number of processes alone decides.
AsManyProcs(p) == have[p].clumped
StillClumped(p) ==
  have[p].clumped /\ (Method("grid") = "share" => \A q \in Procs : files[File(q)].n = NCluster(q))
Clumped(p) == set.r = 1 \/ (base.w = set.r /\ StillClumped(p))
Finish ==
  /\ stage = "read" /\ At("counted")
  /\ have' = [p \in Procs |-> [have[p] EXCEPT !.clumped = Clumped(p)]]
  /\ pc' = Each(IF SumOK THEN "ready" ELSE "refused")
  /\ UNCHANGED <<set, stage, k, pass, sec, chan, posted, maxsize, base, files>>

Next ==
  \/ WriteHeader \/ Buffer \/ StartReading \/ ReadHeader \/ Enter \/ ReadBroadcast
  \/ Finish
  \/ \E p \in Procs :
       \/ WriteOwn(p) \/ WriteNext(p) \/ HearPasses(p) \/ PostReceive(p) \/ SendPing(p)
       \/ WritePiece(p) \/ EndSection(p) \/ Announce(p) \/ HearPing(p) \/ SendPiece(p)
       \/ ReadOwn(p) \/ ReadMine(p) \/ SendSize(p) \/ SendChunk(p) \/ EndFile(p)
       \/ HearSize(p) \/ TakeChunk(p) \/ EndTurns(p)

\* A process that can go on does, and a message arrives.
Spec == Init /\ [][Next]_vars /\ WF_vars(Next)

-----------------------------------------------------------------------------
(* MPI_Rsend finds the receive it is meant for: whoever is about to answer *)
(* a ping is the one its partner's posted receive names, and nothing of    *)
(* its own is still on the way that this receive would take instead.       *)
AnswerIsAwaited ==
  \A p \in Procs : pc[p] = "rsend" =>
     /\ posted[Partner(p)] = p
     /\ chan[p][Partner(p)] = <<>>
     /\ stage = "write" => SizeOf(p, sec[p]) <= maxsize

(* Every cell, particle and surface of the writing run is on one process   *)
(* of the reading run, once and with nothing else, a sub cell behind its   *)
(* split cell, and a particle with its cell, however many files and        *)
(* processes there are.                                                    *)
Slots(f) == UNION {{p} \X DOMAIN have[p][f] : p \in Procs}
In(x, f) == have[x[1]][f][x[2]]
Once(f) ==
  /\ \A q \in 0 .. base.w - 1 : \A i \in DOMAIN Data[base.w][q][f] :
       Cardinality({x \in Slots(f) : In(x, f) = Data[base.w][q][f][i]}) = 1
  /\ \A x \in Slots(f) : \E q \in 0 .. base.w - 1 : \E i \in DOMAIN Data[base.w][q][f] :
       In(x, f) = Data[base.w][q][f][i]
RestoredOnce ==
  stage = "read" /\ At("counted") =>
    /\ \A f \in {"cells", "particles"} \union (IF base.surfs THEN {"surfs"} ELSE {}) : Once(f)
    /\ \A p \in Procs : \A j \in DOMAIN have[p].particles :
          \E i \in DOMAIN have[p].cells : /\ have[p].cells[i].id = have[p].particles[j].id
                                         /\ have[p].cells[i].nsplit = have[p].particles[j].nsplit
    /\ \A p \in Procs : \A i \in DOMAIN have[p].cells : have[p].cells[i].nsplit <= 0 =>
          \E h \in 1 .. i - 1 : have[p].cells[h].id = have[p].cells[i].id /\ have[p].cells[h].nsplit > 0

(* The processes agree whether their cells are clumped, and if they say so *)
(* each has the cells that one process had (or there is one process).      *)
ClumpedIsTrue ==
  stage = "read" /\ At("ready") => \A p \in Procs :
    /\ have[p].clumped = have[0].clumped
    /\ have[p].clumped /\ set.r > 1 =>
         \E q \in 0 .. base.w - 1 : have[p].cells = Data[base.w][q].cells

(* Both runs come to an end, whatever MPI_Send waits for, and nothing that *)
(* was sent stays behind for the next command to receive.                  *)
Ends == <>(stage = "read" /\ (At("ready") \/ At("refused")) /\ \A p, q \in Procs : chan[p][q] = <<>>)

(* doc/global.txt:394-396: with mem/limit restart files are written and read   *)
(* in passes; so what was written is read.                                 *)
Readable == stage = "read" => ~At("refused")
=============================================================================
