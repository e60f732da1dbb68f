------------------------------ MODULE VariableLock ------------------------------
(***************************************************************************)
(* The index that the partitions (worlds) of a run share through a file    *)
(* (Variable::set and Variable::next, styles universe and uloop).  A       *)
(* script defines the variable, runs a simulation with its value, and      *)
(* takes another with the command next until there is none.  Process 0 of  *)
(* a world locks the file by renaming it.                                  *)
(*                                                                         *)
(* A file that is renamed or replaced while it is open is written all the  *)
(* same, so names and files are told apart, and opening a file for writing *)
(* (which empties it) and closing it (which writes it) are two steps.  A   *)
(* rename is atomic here; the code fears it may not be (variable.cpp:602). *)
(***************************************************************************)
EXTENDS Integers

CONSTANTS NWorlds,    \* partitions
          NValues,    \* values of the variable
          NLoops,     \* how often the script defines the variable and loops
          LongRuns    \* a first simulation outlasts the making of the file

ASSUME SizesAssumption == NWorlds \in Nat \ {0} /\ NValues \in Nat /\ NValues >= NWorlds
ASSUME LoopsAssumption == NLoops \in Nat \ {0} /\ LongRuns \in BOOLEAN

Worlds == 0 .. NWorlds - 1
Values == 0 .. NValues - 1
Loops == 1 .. NLoops
Names == {"variable", "lock"}      \* tmp.sparta.variable, tmp.sparta.variable.lock
None == 0
Files == 1 .. NWorlds + 3
Empty == -1

VARIABLES name,       \* the file that a name stands for, or None
          content,    \* of a file: Empty or an index
          pc, loop,   \* where the script of each world is
          which,      \* the value it has
          nextindex,  \* what it has read
          open,       \* the file it is writing
          made,       \* the file has been made in this run
          ran         \* simulations of each loop with each value

vars == <<name, content, pc, loop, which, nextindex, open, made, ran>>

Init ==
  \* another run may have left a file
  /\ name \in {[n \in Names |-> IF n = "variable" THEN f ELSE None] : f \in {None, 1}}
  /\ content = [f \in Files |-> NWorlds]
  /\ pc = [w \in Worlds |-> "define"] /\ loop = [w \in Worlds |-> 1]
  /\ which = [w \in Worlds |-> w] /\ nextindex = [w \in Worlds |-> 0]
  /\ open = [w \in Worlds |-> None]
  /\ made = FALSE
  /\ ran = [l \in Loops |-> [v \in Values |-> 0]]

Go(w, l) == pc' = [pc EXCEPT ![w] = l]

Unused == {f \in Files : (\A n \in Names : name[n] # f) /\ (\A w \in Worlds : open[w] # f)}
Opened(n) == IF name[n] = None THEN CHOOSE f \in Unused : TRUE ELSE name[n]
OpenToWrite(n, w) ==
  /\ name' = [name EXCEPT ![n] = Opened(n)]
  /\ content' = [content EXCEPT ![Opened(n)] = Empty]
  /\ open' = [open EXCEPT ![w] = Opened(n)]
Close(w, x) ==
  /\ content' = [content EXCEPT ![open[w]] = x]
  /\ open' = [open EXCEPT ![w] = None]

-----------------------------------------------------------------------------
(* The command variable.  Process 0 of the universe makes the file.        *)

Define(w) ==
  /\ pc[w] = "define"
  /\ which' = [which EXCEPT ![w] = w]
  /\ IF w = 0 THEN OpenToWrite("variable", w) /\ Go(w, "make")
              ELSE UNCHANGED <<name, content, open>> /\ Go(w, "run")
  /\ UNCHANGED <<loop, nextindex, made, ran>>

Make(w) ==
  /\ pc[w] = "make"
  /\ Close(w, NWorlds)
  /\ made' = TRUE
  /\ Go(w, "run")
  /\ UNCHANGED <<name, loop, which, nextindex, ran>>

Simulate(w) ==
  /\ pc[w] = "run" /\ (LongRuns => made)
  /\ ran' = [ran EXCEPT ![loop[w]][which[w]] = @ + 1]
  /\ Go(w, "next")
  /\ UNCHANGED <<name, content, loop, which, nextindex, open, made>>

-----------------------------------------------------------------------------
(* The command next.                                                       *)

\* Copies the file and leaves it for the others to find.
CopyToLock == [name EXCEPT !["lock"] = name["variable"]]
\* rename: what the new name stood for is gone.
MoveToLock == [name EXCEPT !["lock"] = name["variable"], !["variable"] = None]

\* Until it succeeds, the rename is tried again after a random delay.
Acquire(w) ==
  /\ pc[w] = "next" /\ name["variable"] # None
  /\ name' = MoveToLock
  /\ Go(w, "read")
  /\ UNCHANGED <<content, loop, which, nextindex, open, made, ran>>

\* An index read from an empty file is not initialized; without a file
\* fscanf is given a null pointer.
Read(w) ==
  /\ pc[w] = "read"
  /\ IF name["lock"] = None
     THEN UNCHANGED nextindex /\ Go(w, "failed")
     ELSE /\ \E x \in (IF content[name["lock"]] = Empty THEN Values ELSE {content[name["lock"]]}) :
               nextindex' = [nextindex EXCEPT ![w] = x]
          /\ Go(w, "truncate")
  /\ UNCHANGED <<name, content, loop, which, open, made, ran>>

Truncate(w) ==
  /\ pc[w] = "truncate"
  /\ OpenToWrite("lock", w)
  /\ Go(w, "write")
  /\ UNCHANGED <<loop, which, nextindex, made, ran>>

Write(w) ==
  /\ pc[w] = "write"
  /\ Close(w, nextindex[w] + 1)
  /\ Go(w, "release")
  /\ UNCHANGED <<name, loop, which, nextindex, made, ran>>

\* A world that gets no value keeps the lock.
MoveIfUsed(w) == IF name["lock"] = None \/ nextindex[w] >= NValues THEN name
                 ELSE [name EXCEPT !["variable"] = name["lock"], !["lock"] = None]
MoveBack(w) == IF name["lock"] = None THEN name
               ELSE [name EXCEPT !["variable"] = name["lock"], !["lock"] = None]

\* The variable is removed when it has no more values, and the loop left.
Release(w) ==
  /\ pc[w] = "release"
  /\ name' = MoveBack(w)
  /\ IF nextindex[w] < NValues
     THEN /\ which' = [which EXCEPT ![w] = nextindex[w]]
          /\ Go(w, "run")
          /\ UNCHANGED loop
     ELSE /\ loop' = [loop EXCEPT ![w] = IF @ < NLoops THEN @ + 1 ELSE @]
          /\ Go(w, IF loop[w] < NLoops THEN "define" ELSE "done")
          /\ UNCHANGED which
  /\ UNCHANGED <<content, nextindex, open, made, ran>>

Step(w) ==
  \/ Define(w) \/ Make(w) \/ Simulate(w) \/ Acquire(w) \/ Read(w)
  \/ Truncate(w) \/ Write(w) \/ Release(w)
Next == \E w \in Worlds : Step(w)

\* A process goes on, and a rename that can succeed for ever will be tried.
Spec == Init /\ [][Next]_vars /\ \A w \in Worlds : WF_vars(Step(w))

-----------------------------------------------------------------------------
(* doc/variable.txt:238-243: no two simulations of a loop have the same    *)
(* value, and when the loops have ended there was one with every value.    *)
EachOnce ==
  \A l \in Loops, v \in Values :
    /\ ran[l][v] <= 1
    /\ (\A w \in Worlds : pc[w] = "done") => ran[l][v] = 1

(* In one loop the lock file makes reading and incrementing the index one  *)
(* step for all the others, and every world gets to the end of the values. *)
HasRead(w) == pc[w] \in {"truncate", "write", "release"}
Available ==
  IF ~made THEN NWorlds
  ELSE IF \E w \in Worlds : HasRead(w) THEN nextindex[CHOOSE w \in Worlds : HasRead(w)] + 1
  ELSE IF name["lock"] # None THEN content[name["lock"]] ELSE content[name["variable"]]
Mine == [w \in Worlds |-> IF HasRead(w) \/ pc[w] = "done" THEN nextindex[w] ELSE which[w]]
Shared == INSTANCE SharedIndex WITH available <- Available, mine <- Mine
ImplementsSharedIndex == Shared!Spec
=============================================================================
