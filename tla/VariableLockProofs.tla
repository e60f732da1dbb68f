-------------------------- MODULE VariableLockProofs --------------------------
(***************************************************************************)
(* One loop over a shared variable, for any number of partitions and of    *)
(* values: every value is simulated once, and the lock file makes taking   *)
(* a value one step.                                                       *)
(*                                                                         *)
(* The invariant: at most one world holds the lock, and then the other     *)
(* name does not exist; there is a counter, which the file or the world    *)
(* with the lock knows, above all values that worlds have; and a value     *)
(* below it has been simulated unless just one world has it and will.      *)
(***************************************************************************)
EXTENDS VariableLock, TLAPS

PCs == {"define", "make", "run", "next", "read", "truncate", "write", "release", "done"}
Holding(w) == pc[w] \in {"read", "truncate", "write", "release"}
Starting(w) == pc[w] \in {"define", "make", "run"}
Pending(w) == Starting(w) \/ HasRead(w)
Value(w) == IF HasRead(w) THEN nextindex[w] ELSE which[w]

TypeOK ==
  /\ name \in [Names -> Files \union {None}]
  /\ content \in [Files -> Int]
  /\ pc \in [Worlds -> PCs]
  /\ loop \in [Worlds -> Loops]
  /\ which \in [Worlds -> Values]
  /\ nextindex \in [Worlds -> Nat]
  /\ open \in [Worlds -> Files \union {None}]
  /\ made \in BOOLEAN
  /\ ran \in [Loops -> [Values -> Nat]]

\* Before the file is made nobody has finished a simulation.
Beginning ==
  /\ ~made => name["lock"] = None /\ \A w \in Worlds : Starting(w)
  /\ \A w \in Worlds :
       /\ pc[w] = "make" => w = 0 /\ name["variable"] # None /\ open[w] = name["variable"]
       /\ pc[w] = "define" => which[w] = w
       /\ open[w] # None => pc[w] \in {"make", "write"}
       /\ w = 0 /\ pc[w] \in {"define", "make"} => ~made
       /\ ~made => which[w] = w /\ (w = 0 => pc[w] # "run")

OneHolder ==
  /\ \A u, w \in Worlds : Holding(u) /\ Holding(w) => u = w
  /\ \A w \in Worlds : Holding(w) => made /\ name["lock"] # None /\ name["variable"] = None
  /\ made /\ (\A w \in Worlds : ~Holding(w)) => name["lock"] = None /\ name["variable"] # None
  /\ \A w \in Worlds : pc[w] = "write" => open[w] = name["lock"]

Control == TypeOK /\ Beginning /\ OneHolder

Known(c) ==
  /\ c >= NWorlds
  /\ ~made => c = NWorlds
  /\ made /\ (\A w \in Worlds : ~Holding(w)) => content[name["variable"]] = c
  /\ \A w \in Worlds : pc[w] \in {"read", "release"} => content[name["lock"]] = c
  /\ \A w \in Worlds : HasRead(w) => nextindex[w] + 1 = c

Given(c) ==
  /\ \A w \in Worlds : Pending(w) => Value(w) < c /\ (Value(w) \in Values => ran[1][Value(w)] = 0)
  /\ \A u, w \in Worlds : Pending(u) /\ Pending(w) /\ Value(u) = Value(w) => u = w
  /\ \A w \in Worlds : pc[w] = "done" => nextindex[w] >= NValues /\ nextindex[w] < c

Used(c) ==
  \A v \in Values :
    /\ ran[1][v] <= 1
    /\ v >= c => ran[1][v] = 0
    /\ v < c /\ ran[1][v] = 0 => \E w \in Worlds : Pending(w) /\ Value(w) = v

Counter(c) == Known(c) /\ Given(c) /\ Used(c)
IInv == Control /\ \E c \in Nat : Counter(c)

OneLoop == NLoops = 1 /\ LongRuns

LEMMA Initially == OneLoop /\ Init => IInv
PROOF
  <1> SUFFICES ASSUME OneLoop, Init PROVE IInv
    OBVIOUS
  <1> USE SizesAssumption, LoopsAssumption DEF OneLoop
  <1>1. TypeOK
    <2>1. PICK f \in {None, 1} : name = [n \in Names |-> IF n = "variable" THEN f ELSE None]
      BY DEF Init
    <2>2. name \in [Names -> Files \union {None}]
      BY <2>1 DEF Names, None, Files
    <2>3. ran \in [Loops -> [Values -> Nat]] /\ which \in [Worlds -> Values]
      BY DEF Init, Worlds, Values
    <2>4. content \in [Files -> Int] /\ pc \in [Worlds -> PCs] /\ loop \in [Worlds -> Loops]
      BY DEF Init, Worlds, Files, PCs, Loops
    <2>5. nextindex \in [Worlds -> Nat] /\ open \in [Worlds -> Files \union {None}] /\ made \in BOOLEAN
      BY DEF Init, Files, None
    <2> QED  BY <2>2, <2>3, <2>4, <2>5 DEF TypeOK
  <1>2. Beginning
    <2>1. name["lock"] = None  BY DEF Init, Names, None
    <2> QED  BY <2>1 DEF Init, Beginning, Starting
  <1>3. OneHolder
    BY DEF Init, OneHolder, Holding
  <1>4. Known(NWorlds) /\ Given(NWorlds) /\ Used(NWorlds)
    <2>1. Known(NWorlds)  BY DEF Init, Known, Holding, HasRead
    <2>2. Given(NWorlds)
      BY DEF Init, Given, Pending, Starting, HasRead, Value, Worlds, Values, Loops
    <2>3. Used(NWorlds)
      BY DEF Init, Used, Pending, Starting, HasRead, Value, Worlds, Values, Loops
    <2> QED  BY <2>1, <2>2, <2>3
  <1> QED  BY <1>1, <1>2, <1>3, <1>4 DEF IInv, Control, Counter

(* A step after which the same worlds have the same values to simulate.    *)
LEMMA SamePending ==
  ASSUME NEW c \in Nat, Given(c), Used(c), ran' = ran,
         \A u \in Worlds : Pending(u)' <=> Pending(u),
         \A u \in Worlds : Pending(u) => Value(u)' = Value(u),
         \A u \in Worlds : pc'[u] = "done" => pc[u] = "done" /\ nextindex'[u] = nextindex[u]
  PROVE  Given(c)' /\ Used(c)'
PROOF
  <1> USE DEF Worlds, Values
  <1>1. Given(c)'
    <2>1. ASSUME NEW u \in Worlds, Pending(u)'
          PROVE  Value(u)' < c /\ (Value(u)' \in Values => ran'[1][Value(u)'] = 0)
      BY <2>1 DEF Given
    <2>2. ASSUME NEW u \in Worlds, NEW x \in Worlds, Pending(u)', Pending(x)', Value(u)' = Value(x)'
          PROVE  u = x
      BY <2>2 DEF Given
    <2>3. ASSUME NEW u \in Worlds, pc'[u] = "done"
          PROVE  nextindex'[u] >= NValues /\ nextindex'[u] < c
      BY <2>3 DEF Given
    <2> QED  BY <2>1, <2>2, <2>3 DEF Given
  <1>2. Used(c)'
    <2> SUFFICES ASSUME NEW v \in Values
                 PROVE  /\ ran'[1][v] <= 1
                        /\ v >= c => ran'[1][v] = 0
                        /\ v < c /\ ran'[1][v] = 0 => \E u \in Worlds : Pending(u)' /\ Value(u)' = v
      BY DEF Used
    <2> QED  BY DEF Used
  <1> QED  BY <1>1, <1>2

LEMMA AfterDefine ==
  ASSUME OneLoop, Control, NEW c \in Nat, Known(c), Given(c), Used(c), NEW w \in Worlds, Define(w)
  PROVE  Control' /\ Counter(c)'
PROOF
  <1> USE SizesAssumption, LoopsAssumption DEF OneLoop, Control, Go
  <1> DEFINE f == Opened("variable")
  <1>a. /\ pc[w] = "define" /\ which' = [which EXCEPT ![w] = w]
        /\ pc' = [pc EXCEPT ![w] = IF w = 0 THEN "make" ELSE "run"]
        /\ loop' = loop /\ nextindex' = nextindex /\ made' = made /\ ran' = ran
        /\ w = 0 => /\ name' = [name EXCEPT !["variable"] = f]
                     /\ content' = [content EXCEPT ![f] = Empty]
                     /\ open' = [open EXCEPT ![w] = f]
        /\ w # 0 => name' = name /\ content' = content /\ open' = open
    BY DEF Define, OpenToWrite
  <1>b. which' = which
    BY <1>a DEF Beginning, TypeOK
  <1>c. w = 0 => f \in Files /\ ~made
    <2> SUFFICES ASSUME w = 0 PROVE f \in Files /\ ~made
      OBVIOUS
    <2>1. ~made  BY <1>a DEF Beginning
    <2>2. name["lock"] = None /\ \A u \in Worlds : open[u] = None
      BY <1>a, <2>1 DEF Beginning, Starting
    <2>3. CASE name["variable"] = None
      <3>1. 1 \in Unused  BY <2>2, <2>3 DEF Unused, Names, Files, None
      <3> QED  BY <2>1, <2>3, <3>1 DEF Opened, Unused
    <2>4. CASE name["variable"] # None
      BY <2>1, <2>4 DEF Opened, TypeOK, Names
    <2> QED  BY <2>3, <2>4
  <1> HIDE DEF f
  <1>1. TypeOK'
    <2>1. name' \in [Names -> Files \union {None}]  BY <1>a, <1>c DEF TypeOK, Names
    <2>2. content' \in [Files -> Int]  BY <1>a, <1>c DEF TypeOK, Empty
    <2>3. open' \in [Worlds -> Files \union {None}]  BY <1>a, <1>c DEF TypeOK
    <2>4. pc' \in [Worlds -> PCs]  BY <1>a DEF TypeOK, PCs
    <2> QED  BY <1>a, <1>b, <2>1, <2>2, <2>3, <2>4 DEF TypeOK
  <1>x. /\ \A u \in Worlds : Holding(u)' => Holding(u)
        /\ \A u \in Worlds : Holding(u) => Holding(u)'
        /\ \A u \in Worlds : HasRead(u)' => HasRead(u)
        /\ \A u \in Worlds : pc'[u] \in {"read", "release"} => pc[u] \in {"read", "release"}
        /\ \A u \in Worlds : pc'[u] = "write" => pc[u] = "write"
    BY <1>a DEF Holding, HasRead, TypeOK
  <1>2. Beginning'
    <2>1. ~made => name'["lock"] = None /\ \A u \in Worlds : Starting(u)'
      BY <1>a DEF Beginning, Starting, TypeOK, Names
    <2>2. ASSUME NEW u \in Worlds
          PROVE  /\ pc'[u] = "make" => u = 0 /\ name'["variable"] # None /\ open'[u] = name'["variable"]
                 /\ pc'[u] = "define" => which'[u] = u
                 /\ open'[u] # None => pc'[u] \in {"make", "write"}
                 /\ u = 0 /\ pc'[u] \in {"define", "make"} => ~made'
                 /\ ~made' => which'[u] = u /\ (u = 0 => pc'[u] # "run")
      <3>1. CASE u = w
        BY <1>a, <1>b, <1>c, <3>1 DEF Beginning, TypeOK, Names, None, Files
      <3>2. CASE u # w
        <4>1. pc'[u] = pc[u] /\ open'[u] = open[u]  BY <1>a, <3>2 DEF TypeOK
        <4>2. w = 0 => pc[u] # "make"  BY <3>2 DEF Beginning
        <4>3. w # 0 => name' = name  BY <1>a
        <4> QED  BY <1>a, <1>b, <4>1, <4>2, <4>3 DEF Beginning
      <3> QED  BY <3>1, <3>2
    <2> QED  BY <1>a, <2>1, <2>2 DEF Beginning
  <1>3. OneHolder'
    <2>1. CASE w = 0
      <3>1. ~made' /\ \A u \in Worlds : ~Holding(u)'  BY <1>a, <1>c, <1>x, <2>1 DEF OneHolder
      <3> QED  BY <3>1 DEF OneHolder, Holding
    <2>2. CASE w # 0
      BY <1>a, <1>x, <2>2 DEF OneHolder
    <2> QED  BY <2>1, <2>2
  <1>4. Known(c)'
    <2>1. CASE w = 0
      <3>1. ~made' /\ \A u \in Worlds : ~Holding(u)'  BY <1>a, <1>c, <1>x, <2>1 DEF OneHolder
      <3> QED  BY <1>a, <3>1 DEF Known, Holding, HasRead
    <2>2. CASE w # 0
      BY <1>a, <1>x, <2>2 DEF Known
    <2> QED  BY <2>1, <2>2
  <1>5. Given(c)' /\ Used(c)'
    <2>1. \A u \in Worlds : Pending(u)' <=> Pending(u)
      BY <1>a, <1>b DEF Pending, Starting, HasRead, Holding, Beginning, TypeOK, Worlds, Values, Loops, Names, None, Files, PCs
    <2>2. \A u \in Worlds : Pending(u) => Value(u)' = Value(u)
      BY <1>a, <1>b DEF Pending, Value, Starting, HasRead, Holding, Beginning, TypeOK, Worlds, Values, Loops, Names, None, Files, PCs
    <2>3. \A u \in Worlds : pc'[u] = "done" => pc[u] = "done" /\ nextindex'[u] = nextindex[u]
      BY <1>a, <1>b DEF TypeOK, Worlds, Values, Loops, Names, None, Files, PCs
    <2> QED  BY <1>a, <2>1, <2>2, <2>3, SamePending
  <1> QED  BY <1>1, <1>2, <1>3, <1>4, <1>5 DEF Counter

LEMMA AfterMake ==
  ASSUME OneLoop, Control, NEW c \in Nat, Known(c), Given(c), Used(c), NEW w \in Worlds, Make(w)
  PROVE  Control' /\ Counter(c)'
PROOF
  <1> USE SizesAssumption, LoopsAssumption DEF OneLoop, Control, Make, Close, Go
  <1>1. TypeOK'
    <2>1. open[w] \in Files  BY DEF Beginning, TypeOK, Worlds, Names, None, Files
    <2>2. content' \in [Files -> Int] /\ open' \in [Worlds -> Files \union {None}]  BY <2>1 DEF TypeOK
    <2>3. pc' \in [Worlds -> PCs]  BY DEF TypeOK, PCs
    <2> QED  BY <2>2, <2>3 DEF TypeOK
  <1>x. /\ \A u \in Worlds : Holding(u)' => Holding(u)
        /\ \A u \in Worlds : Holding(u) => Holding(u)'
        /\ \A u \in Worlds : HasRead(u)' => HasRead(u)
        /\ \A u \in Worlds : pc'[u] \in {"read", "release"} => pc[u] \in {"read", "release"}
        /\ \A u \in Worlds : pc'[u] = "write" => pc[u] = "write"
    BY DEF Holding, HasRead, TypeOK
  <1>a. /\ w = 0 /\ ~made /\ made' /\ name' = name /\ name["variable"] \in Files /\ name["lock"] = None
        /\ content' = [content EXCEPT ![name["variable"]] = NWorlds] /\ c = NWorlds
        /\ \A u \in Worlds : ~Holding(u)
    BY DEF Beginning, Known, OneHolder, TypeOK, Names, None, Files
  <1>2. Beginning'
    <2> SUFFICES ASSUME NEW u \in Worlds
                 PROVE  /\ pc'[u] # "make"
                        /\ pc'[u] = "define" => which[u] = u
                        /\ open'[u] # None => pc'[u] \in {"make", "write"}
                        /\ ~(u = 0 /\ pc'[u] \in {"define", "make"})
      BY <1>a DEF Beginning
    <2>1. CASE u = w
      BY <1>a, <2>1 DEF TypeOK
    <2>2. CASE u # w
      <3>1. pc'[u] = pc[u] /\ open'[u] = open[u]  BY <2>2 DEF TypeOK
      <3> QED  BY <1>a, <2>2, <3>1 DEF Beginning
    <2> QED  BY <2>1, <2>2
  <1>3. OneHolder'
    <2>1. \A u \in Worlds : ~Holding(u)' /\ pc'[u] # "write"  BY <1>a, <1>x DEF Holding
    <2> QED  BY <1>a, <2>1 DEF OneHolder, Files, None
  <1>4. Known(c)'
    <2>1. \A u \in Worlds : ~Holding(u)'  BY <1>a, <1>x
    <2>2. content'[name'["variable"]] = c  BY <1>a DEF TypeOK
    <2> QED  BY <1>a, <2>1, <2>2 DEF Known, Holding, HasRead
  <1>5. Given(c)' /\ Used(c)'
    <2>1. \A u \in Worlds : Pending(u)' <=> Pending(u)
      BY DEF Pending, Starting, HasRead, Holding, Beginning, TypeOK, Worlds, Values, Loops, Names, None, Files, PCs
    <2>2. \A u \in Worlds : Pending(u) => Value(u)' = Value(u)
      BY DEF Pending, Value, Starting, HasRead, Holding, Beginning, TypeOK, Worlds, Values, Loops, Names, None, Files, PCs
    <2>3. \A u \in Worlds : pc'[u] = "done" => pc[u] = "done" /\ nextindex'[u] = nextindex[u]
      BY DEF TypeOK, Worlds, Values, Loops, Names, None, Files, PCs
    <2> QED  BY <2>1, <2>2, <2>3, SamePending
  <1> QED  BY <1>1, <1>2, <1>3, <1>4, <1>5 DEF Counter

LEMMA AfterAcquire ==
  ASSUME OneLoop, Control, NEW c \in Nat, Known(c), Given(c), Used(c), NEW w \in Worlds, Acquire(w)
  PROVE  Control' /\ Counter(c)'
PROOF
  <1> USE SizesAssumption, LoopsAssumption DEF OneLoop, Control, Acquire, MoveToLock, Go
  <1>1. TypeOK'
    <2>1. name' \in [Names -> Files \union {None}]  BY DEF TypeOK, Names
    <2>2. pc' \in [Worlds -> PCs]  BY DEF TypeOK, PCs
    <2> QED  BY <2>1, <2>2 DEF TypeOK
  <1>2. Beginning'  BY DEF Beginning, OneHolder, Starting, Holding, TypeOK, Worlds, Values, Loops, Names, None, Files, PCs
  <1>3. OneHolder'  BY DEF Beginning, OneHolder, Starting, Holding, TypeOK, Worlds, Values, Loops, Names, None, Files, PCs
  <1>4. Known(c)'  BY DEF Known, Beginning, OneHolder, Starting, Holding, HasRead, TypeOK, Worlds, Values, Loops, Names, None, Files, PCs
  <1>5. Given(c)' /\ Used(c)'
    <2>1. \A u \in Worlds : Pending(u)' <=> Pending(u)
      BY DEF Pending, Starting, HasRead, Holding, Beginning, TypeOK, Worlds, Values, Loops, Names, None, Files, PCs
    <2>2. \A u \in Worlds : Pending(u) => Value(u)' = Value(u)
      BY DEF Pending, Value, Starting, HasRead, Holding, Beginning, TypeOK, Worlds, Values, Loops, Names, None, Files, PCs
    <2>3. \A u \in Worlds : pc'[u] = "done" => pc[u] = "done" /\ nextindex'[u] = nextindex[u]
      BY DEF TypeOK, Worlds, Values, Loops, Names, None, Files, PCs
    <2> QED  BY <2>1, <2>2, <2>3, SamePending
  <1> QED  BY <1>1, <1>2, <1>3, <1>4, <1>5 DEF Counter

LEMMA AfterTruncate ==
  ASSUME OneLoop, Control, NEW c \in Nat, Known(c), Given(c), Used(c), NEW w \in Worlds, Truncate(w)
  PROVE  Control' /\ Counter(c)'
PROOF
  <1> USE SizesAssumption, LoopsAssumption DEF OneLoop, Control, Truncate, OpenToWrite, Opened, Go
  <1>1. TypeOK'
    <2>1. Opened("lock") = name["lock"] /\ name["lock"] \in Files
      BY DEF OneHolder, Holding, TypeOK, Names, None, Files
    <2>2. content' \in [Files -> Int] /\ open' \in [Worlds -> Files \union {None}]  BY <2>1 DEF TypeOK, Empty
    <2>3. pc' \in [Worlds -> PCs] /\ name' \in [Names -> Files \union {None}]  BY <2>1 DEF TypeOK, PCs, Names
    <2> QED  BY <2>2, <2>3 DEF TypeOK
  <1>2. Beginning'  BY DEF Beginning, OneHolder, Starting, Holding, TypeOK, Worlds, Values, Loops, Names, None, Files, PCs
  <1>3. OneHolder'  BY DEF Beginning, OneHolder, Starting, Holding, TypeOK, Worlds, Values, Loops, Names, None, Files, PCs
  <1>4. Known(c)'  BY DEF Known, Beginning, OneHolder, Starting, Holding, HasRead, TypeOK, Worlds, Values, Loops, Names, None, Files, PCs
  <1>5. Given(c)' /\ Used(c)'
    <2>1. \A u \in Worlds : Pending(u)' <=> Pending(u)
      BY DEF Pending, Starting, HasRead, Holding, Beginning, TypeOK, Worlds, Values, Loops, Names, None, Files, PCs
    <2>2. \A u \in Worlds : Pending(u) => Value(u)' = Value(u)
      BY DEF Pending, Value, Starting, HasRead, Holding, Beginning, TypeOK, Worlds, Values, Loops, Names, None, Files, PCs
    <2>3. \A u \in Worlds : pc'[u] = "done" => pc[u] = "done" /\ nextindex'[u] = nextindex[u]
      BY DEF TypeOK, Worlds, Values, Loops, Names, None, Files, PCs
    <2> QED  BY <2>1, <2>2, <2>3, SamePending
  <1> QED  BY <1>1, <1>2, <1>3, <1>4, <1>5 DEF Counter

LEMMA AfterWrite ==
  ASSUME OneLoop, Control, NEW c \in Nat, Known(c), Given(c), Used(c), NEW w \in Worlds, Write(w)
  PROVE  Control' /\ Counter(c)'
PROOF
  <1> USE SizesAssumption, LoopsAssumption DEF OneLoop, Control, Write, Close, Go
  <1>1. TypeOK'
    <2>1. open[w] \in Files  BY DEF OneHolder, Holding, TypeOK, Names, None, Files
    <2>2. content' \in [Files -> Int] /\ open' \in [Worlds -> Files \union {None}]  BY <2>1 DEF TypeOK
    <2>3. pc' \in [Worlds -> PCs]  BY DEF TypeOK, PCs
    <2> QED  BY <2>2, <2>3 DEF TypeOK
  <1>2. Beginning'  BY DEF Beginning, OneHolder, Starting, Holding, TypeOK, Worlds, Values, Loops, Names, None, Files, PCs
  <1>3. OneHolder'  BY DEF Beginning, OneHolder, Starting, Holding, TypeOK, Worlds, Values, Loops, Names, None, Files, PCs
  <1>4. Known(c)'  BY DEF Known, Beginning, OneHolder, Starting, Holding, HasRead, TypeOK, Worlds, Values, Loops, Names, None, Files, PCs
  <1>5. Given(c)' /\ Used(c)'
    <2>1. \A u \in Worlds : Pending(u)' <=> Pending(u)
      BY DEF Pending, Starting, HasRead, Holding, Beginning, TypeOK, Worlds, Values, Loops, Names, None, Files, PCs
    <2>2. \A u \in Worlds : Pending(u) => Value(u)' = Value(u)
      BY DEF Pending, Value, Starting, HasRead, Holding, Beginning, TypeOK, Worlds, Values, Loops, Names, None, Files, PCs
    <2>3. \A u \in Worlds : pc'[u] = "done" => pc[u] = "done" /\ nextindex'[u] = nextindex[u]
      BY DEF TypeOK, Worlds, Values, Loops, Names, None, Files, PCs
    <2> QED  BY <2>1, <2>2, <2>3, SamePending
  <1> QED  BY <1>1, <1>2, <1>3, <1>4, <1>5 DEF Counter

LEMMA AfterSimulate ==
  ASSUME OneLoop, Control, NEW c \in Nat, Known(c), Given(c), Used(c), NEW w \in Worlds, Simulate(w)
  PROVE  Control' /\ Counter(c)'
PROOF
  <1> USE SizesAssumption, LoopsAssumption DEF OneLoop, Control, Simulate, Go
  <1>a. made /\ loop[w] = 1 /\ which[w] \in Values /\ Pending(w) /\ Value(w) = which[w]
    BY DEF TypeOK, Loops, Pending, Starting, Value, HasRead
  <1>b. ran' = [ran EXCEPT ![1] = [ran[1] EXCEPT ![which[w]] = @ + 1]]
    BY <1>a
  <1>c. ran[1] \in [Values -> Nat] /\ ran[1][which[w]] = 0
    BY <1>a DEF TypeOK, Loops, Given
  <1>d. ran'[1] = [ran[1] EXCEPT ![which[w]] = 1]
    BY <1>b, <1>c DEF TypeOK, Loops
  <1>e. /\ \A u \in Worlds : Pending(u)' => Pending(u) /\ u # w
        /\ \A u \in Worlds : Pending(u) /\ u # w => Pending(u)'
    BY DEF Pending, Starting, HasRead, TypeOK
  <1>g. \A u \in Worlds : Value(u)' = Value(u)
    BY DEF HasRead, Value, TypeOK
  <1>h. \A u \in Worlds : pc'[u] = "done" => pc[u] = "done"
    BY DEF TypeOK
  <1>1. TypeOK'
    <2>1. pc' \in [Worlds -> PCs]  BY DEF TypeOK, PCs
    <2>2. ran' \in [Loops -> [Values -> Nat]]  BY <1>a, <1>b, <1>c DEF TypeOK, Loops
    <2> QED  BY <2>1, <2>2 DEF TypeOK
  <1>x. /\ \A u \in Worlds : Holding(u)' => Holding(u)
        /\ \A u \in Worlds : Holding(u) => Holding(u)'
        /\ \A u \in Worlds : HasRead(u)' => HasRead(u)
        /\ \A u \in Worlds : pc'[u] \in {"read", "release"} => pc[u] \in {"read", "release"}
        /\ \A u \in Worlds : pc'[u] = "write" => pc[u] = "write"
    BY DEF Holding, HasRead, TypeOK
  <1>2. Beginning'
    <2>1. \A u \in Worlds : pc'[u] \in {"define", "make", "write"} <=> pc[u] \in {"define", "make", "write"}
      BY DEF TypeOK
    <2>2. \A u \in Worlds : pc'[u] \in {"define", "make", "write"} => pc'[u] = pc[u]
      BY DEF TypeOK
    <2>3. \A u \in Worlds : open[u] # None => pc[u] \in {"define", "make", "write"}
      BY DEF Beginning
    <2> QED  BY <1>a, <2>1, <2>2, <2>3 DEF Beginning
  <1>3. OneHolder'  BY <1>x DEF OneHolder
  <1>4. Known(c)'  BY <1>x DEF Known
  <1>5. Given(c)'
    <2>1. ASSUME NEW u \in Worlds, Pending(u)'
          PROVE  Value(u)' < c /\ (Value(u)' \in Values => ran'[1][Value(u)'] = 0)
      <3>1. Pending(u) /\ u # w /\ Value(u)' = Value(u)  BY <1>e, <1>g, <2>1
      <3>2. Value(u) # which[w]  BY <1>a, <3>1 DEF Given
      <3> QED  BY <1>c, <1>d, <3>1, <3>2 DEF Given
    <2>2. ASSUME NEW u \in Worlds, NEW x \in Worlds, Pending(u)', Pending(x)', Value(u)' = Value(x)'
          PROVE  u = x
      BY <1>e, <1>g, <2>2 DEF Given
    <2>3. ASSUME NEW u \in Worlds, pc'[u] = "done"
          PROVE  nextindex'[u] >= NValues /\ nextindex'[u] < c
      BY <1>h, <2>3 DEF Given
    <2> QED  BY <2>1, <2>2, <2>3 DEF Given
  <1>6. Used(c)'
    <2> SUFFICES ASSUME NEW v \in Values
                 PROVE  /\ ran'[1][v] <= 1
                        /\ v >= c => ran'[1][v] = 0
                        /\ v < c /\ ran'[1][v] = 0 => \E u \in Worlds : Pending(u)' /\ Value(u)' = v
      BY DEF Used
    <2>1. CASE v = which[w]
      <3>1. which[w] < c  BY <1>a DEF Given
      <3> QED  BY <1>c, <1>d, <2>1, <3>1 DEF Values
    <2>2. CASE v # which[w]
      <3>1. ran'[1][v] = ran[1][v]  BY <1>c, <1>d, <2>2
      <3>2. ran[1][v] <= 1 /\ (v >= c => ran[1][v] = 0)  BY DEF Used
      <3>3. ASSUME v < c, ran[1][v] = 0 PROVE \E u \in Worlds : Pending(u)' /\ Value(u)' = v
        <4>1. PICK u \in Worlds : Pending(u) /\ Value(u) = v  BY <3>3 DEF Used
        <4>2. u # w  BY <1>a, <2>2, <4>1
        <4> QED  BY <1>e, <1>g, <4>1, <4>2
      <3> QED  BY <3>1, <3>2, <3>3
    <2> QED  BY <2>1, <2>2
  <1> QED  BY <1>1, <1>2, <1>3, <1>4, <1>5, <1>6 DEF Counter

LEMMA AfterRead ==
  ASSUME OneLoop, Control, NEW c \in Nat, Known(c), Given(c), Used(c), NEW w \in Worlds, Read(w)
  PROVE  Control' /\ Counter(c + 1)'
PROOF
  <1> USE SizesAssumption, LoopsAssumption DEF OneLoop, Control, Read, Go
  <1>a. /\ name["lock"] \in Files /\ content[name["lock"]] = c /\ c # Empty /\ c \in Nat
        /\ \A u \in Worlds : u # w => ~Holding(u)
    BY DEF OneHolder, Holding, Known, Names, None, Files, TypeOK, Empty
  <1>b. nextindex' = [nextindex EXCEPT ![w] = c] /\ pc' = [pc EXCEPT ![w] = "truncate"]
    BY <1>a DEF OneHolder, Holding
  <1>c. /\ ~Pending(w) /\ Pending(w)' /\ Value(w)' = c /\ nextindex'[w] = c
        /\ \A u \in Worlds : u # w /\ Pending(u)' => Pending(u)
        /\ \A u \in Worlds : u # w /\ Pending(u) => Pending(u)'
        /\ \A u \in Worlds : u # w => Value(u)' = Value(u)
        /\ \A u \in Worlds : u # w => pc'[u] = pc[u] /\ nextindex'[u] = nextindex[u]
    BY <1>b DEF Pending, Starting, HasRead, Value, TypeOK
  <1>1. TypeOK'
    <2>1. pc' \in [Worlds -> PCs] /\ nextindex' \in [Worlds -> Nat]  BY <1>a, <1>b DEF TypeOK, PCs
    <2> QED  BY <2>1 DEF TypeOK
  <1>2. Beginning'  BY <1>b DEF Beginning, OneHolder, Starting, Holding, TypeOK, Worlds, Values, Loops, Names, None, Files, PCs
  <1>3. OneHolder'  BY <1>b DEF Beginning, OneHolder, Starting, Holding, TypeOK, Worlds, Values, Loops, Names, None, Files, PCs
  <1>4. Known(c + 1)'
    <2>1. made /\ Holding(w)'  BY <1>b DEF OneHolder, Holding, TypeOK
    <2>2. \A u \in Worlds : u # w => ~HasRead(u)' /\ pc'[u] # "read"
      BY <1>a, <1>c DEF Holding, HasRead
    <2>3. \A u \in Worlds : pc'[u] \in {"read", "release"} => FALSE
      BY <1>b, <2>2 DEF HasRead, TypeOK
    <2>4. c + 1 >= NWorlds  BY DEF Known
    <2> QED  BY <1>c, <2>1, <2>2, <2>3, <2>4 DEF Known
  <1>5. Given(c + 1)'
    <2>1. ASSUME NEW u \in Worlds, Pending(u)'
          PROVE  Value(u)' < c + 1 /\ (Value(u)' \in Values => ran'[1][Value(u)'] = 0)
      <3>1. CASE u = w
        BY <1>c, <3>1 DEF Used
      <3>2. CASE u # w
        <4>1. Value(u) < c /\ Value(u) \in Int /\ (Value(u) \in Values => ran[1][Value(u)] = 0)
          BY <1>c, <2>1, <3>2 DEF Given, Value, TypeOK, Values
        <4> QED  BY <1>c, <3>2, <4>1
      <3> QED  BY <3>1, <3>2
    <2>2. ASSUME NEW u \in Worlds, NEW x \in Worlds, Pending(u)', Pending(x)', Value(u)' = Value(x)'
          PROVE  u = x
      <3>1. \A y \in Worlds : Pending(y) => Value(y) < c  BY DEF Given
      <3> QED  BY <1>c, <2>2, <3>1 DEF Given
    <2>3. ASSUME NEW u \in Worlds, pc'[u] = "done"
          PROVE  nextindex'[u] >= NValues /\ nextindex'[u] < c + 1
      <3>1. u # w  BY <1>b, <2>3 DEF TypeOK
      <3>2. nextindex[u] >= NValues /\ nextindex[u] < c /\ nextindex[u] \in Nat
        BY <1>c, <2>3, <3>1 DEF Given, TypeOK
      <3> QED  BY <1>c, <3>1, <3>2
    <2> QED  BY <2>1, <2>2, <2>3 DEF Given
  <1>6. Used(c + 1)'
    <2> SUFFICES ASSUME NEW v \in Values
                 PROVE  /\ ran'[1][v] <= 1
                        /\ v >= c + 1 => ran'[1][v] = 0
                        /\ v < c + 1 /\ ran'[1][v] = 0 => \E u \in Worlds : Pending(u)' /\ Value(u)' = v
      BY DEF Used
    <2>1. v \in Int /\ ran'[1][v] <= 1 /\ (v >= c => ran'[1][v] = 0)  BY DEF Used, Values
    <2>2. ASSUME v < c, ran[1][v] = 0 PROVE \E u \in Worlds : Pending(u)' /\ Value(u)' = v
      <3>1. PICK u \in Worlds : Pending(u) /\ Value(u) = v  BY <2>2 DEF Used
      <3> QED  BY <1>c, <3>1
    <2>3. CASE v = c
      BY <1>c, <2>1, <2>3
    <2>4. CASE v # c
      BY <2>1, <2>2, <2>4
    <2> QED  BY <2>3, <2>4
  <1> QED  BY <1>1, <1>2, <1>3, <1>4, <1>5, <1>6 DEF Counter

LEMMA AfterRelease ==
  ASSUME OneLoop, Control, NEW c \in Nat, Known(c), Given(c), Used(c), NEW w \in Worlds, Release(w)
  PROVE  Control' /\ Counter(c)'
PROOF
  <1> USE SizesAssumption, LoopsAssumption DEF OneLoop, Control, Release, MoveBack, Go
  <1>a. /\ name["lock"] \in Files /\ content[name["lock"]] = c /\ nextindex[w] + 1 = c
        /\ name["variable"] = None /\ made /\ nextindex[w] \in Nat
        /\ \A u \in Worlds : u # w => ~Holding(u)
    BY DEF OneHolder, Holding, Known, HasRead, Names, None, Files, TypeOK
  <1>b. name' = [name EXCEPT !["variable"] = name["lock"], !["lock"] = None]
    BY <1>a DEF Files, None
  <1>c. /\ loop' = loop
        /\ pc' = [pc EXCEPT ![w] = IF nextindex[w] < NValues THEN "run" ELSE "done"]
        /\ which' = IF nextindex[w] < NValues THEN [which EXCEPT ![w] = nextindex[w]] ELSE which
    BY DEF TypeOK, Loops
  <1>d. /\ \A u \in Worlds : u # w /\ Pending(u)' => Pending(u)
        /\ \A u \in Worlds : u # w /\ Pending(u) => Pending(u)'
        /\ \A u \in Worlds : u # w => Value(u)' = Value(u) /\ pc'[u] = pc[u]
    BY <1>c DEF Pending, Starting, HasRead, Value, TypeOK
  <1>e. Pending(w) /\ Value(w) = nextindex[w]
    BY DEF Pending, HasRead, Value
  <1>f. /\ Pending(w)' <=> nextindex[w] < NValues
        /\ Pending(w)' => Value(w)' = nextindex[w]
    BY <1>c DEF Pending, Starting, HasRead, Value, TypeOK
  <1>1. TypeOK'
    <2>1. name' \in [Names -> Files \union {None}]  BY <1>a, <1>b DEF TypeOK, Names
    <2>2. pc' \in [Worlds -> PCs]  BY <1>c DEF TypeOK, PCs
    <2>3. which' \in [Worlds -> Values]  BY <1>a, <1>c DEF TypeOK, Values
    <2> QED  BY <1>c, <2>1, <2>2, <2>3 DEF TypeOK
  <1>2. Beginning'  BY <1>a, <1>b, <1>c DEF Beginning, OneHolder, Starting, Holding, TypeOK, Worlds, Values, Loops, Names, None, Files, PCs
  <1>3. OneHolder'
    <2>1. \A u \in Worlds : ~Holding(u)'  BY <1>a, <1>c, <1>d DEF Holding, TypeOK
    <2>2. name'["lock"] = None /\ name'["variable"] # None  BY <1>a, <1>b DEF TypeOK, Names, Files, None
    <2> QED  BY <2>1, <2>2 DEF OneHolder, Holding
  <1>4. Known(c)'
    <2>1. \A u \in Worlds : ~Holding(u)'  BY <1>a, <1>c, <1>d DEF Holding, TypeOK
    <2>2. content'[name'["variable"]] = c  BY <1>a, <1>b DEF TypeOK, Names
    <2> QED  BY <1>a, <2>1, <2>2 DEF Known, Holding, HasRead
  <1>5. Given(c)'
    <2>1. ASSUME NEW u \in Worlds, Pending(u)'
          PROVE  Value(u)' < c /\ (Value(u)' \in Values => ran'[1][Value(u)'] = 0)
      BY <1>d, <1>e, <1>f, <2>1 DEF Given
    <2>2. ASSUME NEW u \in Worlds, NEW x \in Worlds, Pending(u)', Pending(x)', Value(u)' = Value(x)'
          PROVE  u = x
      BY <1>d, <1>e, <1>f, <2>2 DEF Given
    <2>3. ASSUME NEW u \in Worlds, pc'[u] = "done"
          PROVE  nextindex'[u] >= NValues /\ nextindex'[u] < c
      BY <1>a, <1>c, <1>d, <2>3 DEF Given, TypeOK
    <2> QED  BY <2>1, <2>2, <2>3 DEF Given
  <1>6. Used(c)'
    <2> SUFFICES ASSUME NEW v \in Values
                 PROVE  /\ ran'[1][v] <= 1
                        /\ v >= c => ran'[1][v] = 0
                        /\ v < c /\ ran'[1][v] = 0 => \E u \in Worlds : Pending(u)' /\ Value(u)' = v
      BY DEF Used
    <2>1. ran'[1][v] <= 1 /\ (v >= c => ran'[1][v] = 0)  BY DEF Used
    <2>2. ASSUME v < c, ran[1][v] = 0 PROVE \E u \in Worlds : Pending(u)' /\ Value(u)' = v
      <3>1. PICK u \in Worlds : Pending(u) /\ Value(u) = v  BY <2>2 DEF Used
      <3>2. u = w => Pending(w)' /\ Value(w)' = v
        BY <1>e, <1>f, <3>1 DEF Values
      <3> QED  BY <1>d, <3>1, <3>2
    <2> QED  BY <2>1, <2>2
  <1> QED  BY <1>1, <1>2, <1>3, <1>4, <1>5, <1>6 DEF Counter

(* Every step of a run with one loop keeps the invariant.                  *)
LEMMA IInvKept == OneLoop /\ IInv /\ [Next]_vars => IInv'
PROOF
  <1> SUFFICES ASSUME OneLoop, IInv, [Next]_vars PROVE IInv'
    OBVIOUS
  <1>1. PICK c \in Nat : Known(c) /\ Given(c) /\ Used(c)  BY DEF IInv, Counter
  <1>2. Control  BY DEF IInv
  <1>3. CASE Next
    <2>1. PICK w \in Worlds : Step(w)  BY <1>3 DEF Next
    <2>2. c + 1 \in Nat  OBVIOUS
    <2> QED
      BY <1>1, <1>2, <2>1, <2>2, AfterDefine, AfterMake, AfterSimulate, AfterAcquire, AfterRead,
         AfterTruncate, AfterWrite, AfterRelease DEF Step, IInv
  <1>4. CASE UNCHANGED vars
    <2>1. Control'
      BY <1>2, <1>4 DEF Control, TypeOK, Beginning, OneHolder, Starting, Holding, vars
    <2>2. Known(c)'  BY <1>1, <1>4 DEF Known, Holding, HasRead, vars
    <2>3. Given(c)' /\ Used(c)'
      <3>1. \A u \in Worlds : Pending(u)' <=> Pending(u)  BY <1>4 DEF Pending, Starting, HasRead, vars
      <3>2. \A u \in Worlds : Pending(u) => Value(u)' = Value(u)  BY <1>4 DEF Value, HasRead, vars
      <3> QED  BY <1>1, <1>4, <3>1, <3>2, SamePending DEF vars
    <2> QED  BY <2>1, <2>2, <2>3 DEF IInv, Counter
  <1> QED  BY <1>3, <1>4

LEMMA IInvEachOnce == OneLoop /\ IInv => EachOnce
PROOF
  <1> SUFFICES ASSUME OneLoop, IInv, NEW v \in Values
               PROVE  /\ ran[1][v] <= 1
                      /\ (\A w \in Worlds : pc[w] = "done") => ran[1][v] = 1
    BY DEF EachOnce, OneLoop, Loops
  <1>1. PICK c \in Nat : Known(c) /\ Given(c) /\ Used(c)  BY DEF IInv, Counter
  <1>2. ran[1][v] \in Nat  BY LoopsAssumption DEF IInv, Control, TypeOK, OneLoop, Loops
  <1>3. ASSUME \A w \in Worlds : pc[w] = "done" PROVE v < c
    <2>1. 0 \in Worlds  BY SizesAssumption DEF Worlds
    <2>2. nextindex[0] >= NValues /\ nextindex[0] < c /\ nextindex[0] \in Nat
      BY <1>1, <1>3, <2>1 DEF Given, IInv, Control, TypeOK
    <2> QED  BY <2>2, SizesAssumption DEF Values
  <1>4. ASSUME \A w \in Worlds : pc[w] = "done" PROVE ~\E w \in Worlds : Pending(w)
    BY <1>4 DEF Pending, Starting, HasRead
  <1> QED  BY <1>1, <1>2, <1>3, <1>4 DEF Used

(* variable.cpp:597-648: with one loop and first simulations longer than   *)
(* the making of the file, no value is simulated twice and none is left    *)
(* out, whatever the interleaving of the partitions.                       *)
THEOREM ValuesOnce == OneLoop => (Spec => []EachOnce)
PROOF
  <1> SUFFICES ASSUME OneLoop PROVE Spec => []EachOnce
    OBVIOUS
  <1>1. Init => IInv  BY Initially
  <1>2. IInv /\ [Next]_vars => IInv'  BY IInvKept
  <1>3. IInv => EachOnce  BY IInvEachOnce
  <1> QED  BY <1>1, <1>2, <1>3, PTL DEF Spec

(* What the refinement takes for the next value is the counter.            *)
AvailableIsCounter == \A c \in Nat : Control /\ Known(c) => Available = c

LEMMA CounterIs == AvailableIsCounter
PROOF
  <1> SUFFICES ASSUME NEW c \in Nat, Control, Known(c) PROVE Available = c
    BY DEF AvailableIsCounter
  <1>1. CASE ~made
    BY <1>1 DEF Available, Known
  <1>2. CASE made /\ \E w \in Worlds : HasRead(w)
    <2> DEFINE x == CHOOSE w \in Worlds : HasRead(w)
    <2>1. x \in Worlds /\ HasRead(x)  BY <1>2
    <2>2. Available = nextindex[x] + 1  BY <1>2 DEF Available
    <2> HIDE DEF x
    <2> QED  BY <2>1, <2>2 DEF Known
  <1>3. CASE made /\ ~\E w \in Worlds : HasRead(w)
    <2>1. Available = IF name["lock"] # None THEN content[name["lock"]] ELSE content[name["variable"]]
      BY <1>3 DEF Available
    <2>2. CASE name["lock"] # None
      <3>1. PICK w \in Worlds : Holding(w)  BY <1>3, <2>2 DEF Control, OneHolder
      <3>2. pc[w] = "read"  BY <1>3, <3>1 DEF Holding, HasRead
      <3> QED  BY <2>1, <2>2, <3>2 DEF Known
    <2>3. CASE name["lock"] = None
      <3>1. \A w \in Worlds : ~Holding(w)  BY <2>3 DEF Control, OneHolder
      <3> QED  BY <1>3, <2>1, <2>3, <3>1 DEF Known
    <2> QED  BY <2>2, <2>3
  <1> QED  BY <1>1, <1>2, <1>3

LEMMA CounterIsNext == AvailableIsCounter'
PROOF BY CounterIs, PTL

(* Reading the locked file is the step in which a world takes a value.     *)
LEMMA ReadTakes ==
  ASSUME OneLoop, Control, NEW c \in Nat, Known(c), Given(c), Used(c), NEW w \in Worlds, Read(w)
  PROVE  Shared!Take(w)
PROOF
  <1>1. Control' /\ Known(c + 1)'  BY AfterRead DEF Counter
  <1>2. Available = c  BY CounterIs DEF AvailableIsCounter
  <1>3. Available' = c + 1
    <2>1. Control' /\ Known(c + 1)' => Available' = c + 1
      BY CounterIsNext DEF AvailableIsCounter
    <2> QED  BY <1>1, <2>1
  <1>4. Mine[w] = which[w] /\ which[w] \in Values
    BY DEF Read, Mine, HasRead, Control, TypeOK
  <1>5. pc'[w] = "truncate" /\ nextindex'[w] = c
    <2>1. name["lock"] # None /\ content[name["lock"]] = c /\ c # Empty
      BY DEF Read, Control, OneHolder, Holding, Known, Empty
    <2> QED  BY <2>1 DEF Read, Go, Control, TypeOK
  <1>6. \A u \in Worlds : u # w => pc'[u] = pc[u] /\ nextindex'[u] = nextindex[u] /\ which'[u] = which[u]
    <2>1. name["lock"] # None  BY DEF Read, Control, OneHolder, Holding
    <2> QED  BY <2>1 DEF Read, Go, Control, TypeOK
  <1>7. Mine' = [Mine EXCEPT ![w] = c]
    BY <1>5, <1>6 DEF Mine, HasRead
  <1>8. Mine[w] < NValues  BY <1>4, SizesAssumption DEF Values
  <1>9. Mine' = [Mine EXCEPT ![w] = Available]  BY <1>2, <1>7
  <1>10. Available' = Available + 1  BY <1>2, <1>3
  <1> QED  BY <1>8, <1>9, <1>10 DEF Shared!Take

(* No other step changes what the worlds have or the counter.              *)
LEMMA OthersStutter ==
  ASSUME OneLoop, Control, NEW c \in Nat, Known(c), Given(c), Used(c), NEW w \in Worlds, Step(w), ~Read(w)
  PROVE  UNCHANGED Shared!vars
PROOF
  <1>1. Control' /\ Known(c)'
    BY AfterDefine, AfterMake, AfterSimulate, AfterAcquire, AfterTruncate, AfterWrite, AfterRelease
       DEF Step, Counter
  <1>2. Available' = Available
    <2>1. Available = c  BY CounterIs DEF AvailableIsCounter
    <2>2. Available' = c  BY <1>1, CounterIsNext DEF AvailableIsCounter
    <2> QED  BY <2>1, <2>2
  <1>3. Mine' = Mine
    <2> SUFFICES ASSUME NEW u \in Worlds PROVE Mine'[u] = Mine[u]
      BY DEF Mine
    <2> USE DEF Mine, HasRead, Control, TypeOK, Go
    <2>1. CASE Define(w)  BY <2>1 DEF Define, Beginning
    <2>2. CASE Make(w)  BY <2>2 DEF Make
    <2>3. CASE Simulate(w)  BY <2>3 DEF Simulate
    <2>4. CASE Acquire(w)  BY <2>4 DEF Acquire
    <2>5. CASE Truncate(w)  BY <2>5 DEF Truncate
    <2>6. CASE Write(w)  BY <2>6 DEF Write
    <2>7. CASE Release(w)
      <3>1. loop[w] = 1  BY LoopsAssumption DEF OneLoop, Loops
      <3> QED  BY <2>7, <3>1 DEF Release, OneLoop
    <2> QED  BY <2>1, <2>2, <2>3, <2>4, <2>5, <2>6, <2>7 DEF Step
  <1> QED  BY <1>2, <1>3 DEF Shared!vars

(* variable.cpp:597-648: renaming, reading, writing and renaming back is,  *)
(* for all other partitions, the one step of taking the next value.        *)
THEOREM TakesAtOnce == OneLoop => (Spec => Shared!Init /\ [][Shared!Next]_(Shared!vars))
PROOF
  <1> SUFFICES ASSUME OneLoop PROVE Spec => Shared!Init /\ [][Shared!Next]_(Shared!vars)
    OBVIOUS
  <1>1. Init => IInv  BY Initially
  <1>2. IInv /\ [Next]_vars => IInv'  BY IInvKept
  <1>3. Init => Shared!Init
    BY DEF Init, Shared!Init, Available, Mine, HasRead, Worlds, Shared!Worlds
  <1>4. IInv /\ [Next]_vars => [Shared!Next]_(Shared!vars)
    <2> SUFFICES ASSUME IInv, [Next]_vars PROVE [Shared!Next]_(Shared!vars)
      OBVIOUS
    <2>1. PICK c \in Nat : Known(c) /\ Given(c) /\ Used(c)  BY DEF IInv, Counter
    <2>2. Control  BY DEF IInv
    <2>3. CASE UNCHANGED vars
      BY <2>3 DEF vars, Shared!vars, Available, Mine, HasRead
    <2>4. ASSUME NEW w \in Worlds, Step(w) PROVE [Shared!Next]_(Shared!vars)
      <3>1. CASE Read(w)
        BY <2>1, <2>2, <2>4, <3>1, ReadTakes DEF Shared!Next, Shared!Worlds, Worlds
      <3>2. CASE ~Read(w)
        BY <2>1, <2>2, <2>4, <3>2, OthersStutter
      <3> QED  BY <3>1, <3>2
    <2> QED  BY <2>3, <2>4 DEF Next
  <1> QED  BY <1>1, <1>2, <1>3, <1>4, PTL DEF Spec

=============================================================================
