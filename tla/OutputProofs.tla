----------------------------- MODULE OutputProofs -----------------------------
(***************************************************************************)
(* Proofs about Output for any scripts: its outputs come on their steps,   *)
(* averages are full, and whoever asks for tallies asked for them before.  *)
(*                                                                         *)
(* Tables: the next steps of the outputs (NextInv: each is the first after *)
(* the last step done, so that none is passed) and the windows of averages *)
(* (WinInv).  Written: what was written on the last step (DumpsInv,        *)
(* RestartsInv), which needs that last is not ahead of the timestep        *)
(* (LastInv), and hence ResetsAhead.  Reported: the statistics, which need *)
(* that the step of the next line is not past the end of the run (Capped), *)
(* and hence StatsInRun.  ToldInv: what each compute has been told.        *)
(*                                                                         *)
(* ResetsAhead and StatsInRun are hypotheses, not invariants: with scripts *)
(* that break them the code leaves output out (output.cpp:305, 239).       *)
(***************************************************************************)
EXTENDS Output, TLAPS, WellFoundedInduction, FiniteSetTheorems, SequenceTheorems

-----------------------------------------------------------------------------
(* Numbers.                                                                *)

\* Multiplying by a positive number keeps the order.
LEMMA ProductMonotone ==
  \A a, b, n \in Int : n > 0 => (a < b <=> a * n < b * n)
PROOF
  <1> SUFFICES ASSUME NEW a \in Int, NEW b \in Int, NEW n \in Int, n > 0
               PROVE  a < b <=> a * n < b * n
    OBVIOUS
  <1>1. (b - a) * n = b * n - a * n  BY SMT
  <1>2. \A x \in Int : x > 0 <=> x * n > 0  BY Z3
  <1> QED  BY <1>1, <1>2

\* What leaves no remainder is a product.
LEMMA Products ==
  ASSUME NEW n \in Positive, NEW a \in Nat
  PROVE  a % n = 0 <=> \E k \in Nat : a = k * n
PROOF
  <1>1. n \in Nat /\ n > 0  BY DEF Positive
  <1>2. a \div n \in Int /\ a % n \in 0 .. n - 1 /\ a = n * (a \div n) + (a % n)  BY <1>1, Z3
  <1>3. \A k \in Int : n * k = k * n /\ k * n \in Int  BY <1>1
  <1> DEFINE d == a \div n
             r == a % n
  <1>4. d \in Int /\ r \in 0 .. n - 1 /\ a = d * n + r  BY <1>2, <1>3
  <1> HIDE DEF d, r
  <1>5. ASSUME r = 0 PROVE \E k \in Nat : a = k * n
    <2>1. a = d * n  BY <1>1, <1>3, <1>4, <1>5
    <2>2. ~(d < 0)
      <3>1. d < 0 => d * n < 0 * n  BY <1>1, <1>4, ProductMonotone
      <3>2. 0 * n = 0  BY <1>1
      <3> QED  BY <2>1, <3>1, <3>2
    <2>3. d \in Nat  BY <1>4, <2>2
    <2> QED  BY <2>1, <2>3
  <1>6. ASSUME NEW k \in Nat, a = k * n PROVE r = 0
    <2>1. k * n \in Int /\ d * n \in Int /\ (d + 1) * n = d * n + n  BY <1>1, <1>3, <1>4
    <2>2. ~(k * n < d * n) /\ k * n < (d + 1) * n  BY <1>1, <1>4, <1>6, <2>1
    <2>3. (k < d <=> k * n < d * n) /\ (k < d + 1 <=> k * n < (d + 1) * n)  BY <1>1, <1>4, ProductMonotone
    <2>4. k = d  BY <1>4, <2>2, <2>3
    <2> QED  BY <1>4, <1>6, <2>1, <2>4
  <1> QED  BY <1>5, <1>6 DEF r

LEMMA MultipleSums ==
  ASSUME NEW n \in Positive, NEW a \in Nat, NEW b \in Nat, a % n = 0, b % n = 0
  PROVE  (a + b) % n = 0 /\ (b <= a => (a - b) % n = 0) /\ (a < b => a + n <= b)
PROOF
  <1>1. PICK k, m \in Nat : a = k * n /\ b = m * n  BY Products
  <1>2. n \in Nat /\ n > 0  BY DEF Positive
  <1>3. a + b = (k + m) * n /\ a - b = (k - m) * n /\ a + n = (k + 1) * n  BY <1>1, <1>2
  <1>4. a + b \in Nat /\ k + m \in Nat  OBVIOUS
  <1>5. (a + b) % n = 0  BY <1>3, <1>4, Products
  <1>6. ASSUME b <= a PROVE (a - b) % n = 0
    <2>1. k < m <=> a < b  BY <1>1, <1>2, ProductMonotone
    <2>2. k - m \in Nat /\ a - b \in Nat  BY <1>6, <2>1
    <2> QED  BY <1>3, <2>2, Products
  <1>7. ASSUME a < b PROVE a + n <= b
    <2>1. k < m  BY <1>1, <1>2, <1>7, ProductMonotone
    <2>2. m < k + 1 <=> m * n < (k + 1) * n  BY <1>2, ProductMonotone
    <2>3. ~(m < k + 1)  BY <2>1
    <2>4. ~(b < a + n)  BY <1>1, <1>3, <2>2, <2>3
    <2> QED  BY <1>2, <2>4
  <1> QED  BY <1>5, <1>6, <1>7

\* A multiple of a multiple is one, and so is a product.
LEMMA MultipleOf ==
  ASSUME NEW n \in Positive
  PROVE  /\ \A k \in Nat : k * n \in Nat /\ (k * n) % n = 0
         /\ \A f \in Positive, a \in Nat : f % n = 0 /\ a % f = 0 => a % n = 0
         /\ 0 % n = 0
PROOF
  <1>1. n \in Nat /\ n > 0  BY DEF Positive
  <1>2. ASSUME NEW k \in Nat PROVE k * n \in Nat /\ (k * n) % n = 0
    <2>1. k * n \in Nat  BY <1>1
    <2> QED  BY <2>1, Products
  <1>3. ASSUME NEW f \in Positive, NEW a \in Nat, f % n = 0, a % f = 0 PROVE a % n = 0
    <2>1. f \in Nat  BY DEF Positive
    <2>2. PICK k \in Nat : a = k * f  BY <1>3, Products
    <2>3. PICK m \in Nat : f = m * n  BY <1>3, <2>1, Products
    <2>4. a = (k * m) * n /\ k * m \in Nat  BY <1>1, <2>2, <2>3
    <2> QED  BY <2>4, Products
  <1>4. 0 * n = 0  BY <1>1
  <1> QED  BY <1>2, <1>3, <1>4

\* The greatest multiple up to t.
LEMMA MultipleUpTo ==
  ASSUME NEW t \in Nat, NEW n \in Positive
  PROVE  /\ Multiple(t, n) \in Nat /\ Multiple(t, n) <= t /\ t < Multiple(t, n) + n
         /\ Multiple(t, n) % n = 0 /\ (Multiple(t, n) + n) % n = 0
PROOF
  <1>1. n \in Nat /\ n > 0  BY DEF Positive
  <1>2. t \div n \in Nat /\ t % n \in 0 .. n - 1 /\ t = n * (t \div n) + (t % n)  BY <1>1, Z3
  <1>3. n * (t \div n) = (t \div n) * n /\ n * (t \div n) \in Nat  BY <1>1, <1>2
  <1>4. Multiple(t, n) \in Nat /\ Multiple(t, n) <= t /\ t < Multiple(t, n) + n
    BY <1>1, <1>2, <1>3 DEF Multiple
  <1>5. Multiple(t, n) % n = 0  BY <1>2, MultipleOf DEF Multiple
  <1>6. n % n = 0
    <2>1. n = 1 * n  BY <1>1
    <2> QED  BY <2>1, MultipleOf
  <1>7. (Multiple(t, n) + n) % n = 0  BY <1>1, <1>4, <1>5, <1>6, MultipleSums
  <1> QED  BY <1>4, <1>5, <1>7

\* A set of natural numbers has a least element, which is its Min.
LEMMA MinOfNats ==
  ASSUME NEW S, S \subseteq Nat, S # {}
  PROVE  Min(S) \in S /\ \A y \in S : Min(S) <= y
PROOF
  <1>1. PICK x \in S : \A y \in S : ~ (<<y, x>> \in OpToRel(<, Nat))
    BY NatLessThanWellFounded, WFMin, Zenon
  <1>2. \A y \in S : ~ (y < x)
    BY <1>1, Zenon DEF OpToRel
  <1>3. \E z \in S : \A y \in S : z <= y
    BY <1>2
  <1> QED  BY <1>3 DEF Min

-----------------------------------------------------------------------------
(* Scripts.                                                                *)

LEMMA ScriptFacts ==
  ASSUME script \in Scripts
  PROVE  /\ script.commands \in Seq(Commands)
         /\ script.fixes \in Seq(Averages \union Prints)
         /\ IsFiniteSet(Outputs) /\ "stats" \in Outputs
PROOF
  BY ScriptsAssumption DEF Outputs, O

LEMMA ItemFacts ==
  ASSUME script \in Scripts, NEW n \in Outputs
  PROVE  /\ O[n].kind \in {"dump", "restart", "stats"} /\ (O[n].kind = "stats" <=> n = "stats")
         /\ O[n].every \in Nat /\ O[n].on \subseteq Nat /\ 0 \notin O[n].on /\ O[n].first \in BOOLEAN
         /\ O[n].uses \subseteq Computes /\ O[n].when \subseteq Computes
         /\ O[n].kind = "restart" => O[n].uses = {}
         /\ O[n].every > 0 => O[n].on = {} /\ ~ByVariable(n)
         /\ n # "stats" => O[n].every > 0 \/ ByVariable(n)
PROOF
  <1>1. O[n] \in Items  BY ScriptsAssumption DEF Outputs, O
  <1>2. /\ O[n].kind = "stats" <=> n = "stats"
        /\ O[n].kind = "restart" => O[n].uses = {}
        /\ O[n].every = 0 \/ O[n].on = {}
        /\ n = "stats" \/ O[n].every > 0 \/ O[n].on # {}
    BY ScriptsAssumption DEF Outputs, O
  <1>3. /\ O[n].kind \in {"dump", "restart", "stats"} /\ O[n].every \in Nat
        /\ O[n].on \in SUBSET Positive /\ O[n].first \in BOOLEAN
        /\ O[n].uses \subseteq Computes /\ O[n].when \subseteq Computes
    BY <1>1 DEF Items
  <1>4. O[n].on \subseteq Nat /\ 0 \notin O[n].on  BY <1>3 DEF Positive
  <1>5. O[n].every > 0 => O[n].on = {} /\ ~ByVariable(n)  BY <1>2, <1>3 DEF ByVariable
  <1>6. n # "stats" => O[n].every > 0 \/ ByVariable(n)  BY <1>2, <1>3 DEF ByVariable
  <1> QED  BY <1>2, <1>3, <1>4, <1>5, <1>6

LEMMA FixFacts ==
  ASSUME script \in Scripts, NEW i \in DOMAIN F
  PROVE  /\ F[i].kind \in {"ave", "print"} /\ F[i].uses \subseteq Computes /\ F[i].every \in Positive
         /\ F[i].kind = "ave" => /\ F[i].repeat \in Positive /\ F[i].freq \in Positive
                                 /\ F[i].freq % F[i].every = 0
                                 /\ (F[i].repeat - 1) * F[i].every < F[i].freq
PROOF
  <1>1. F[i] \in Averages \union Prints  BY ScriptFacts DEF F
  <1>2. F[i].kind = "ave" => /\ F[i].freq % F[i].every = 0
                             /\ (F[i].repeat - 1) * F[i].every < F[i].freq
    BY ScriptsAssumption DEF F
  <1> QED  BY <1>1, <1>2 DEF Averages, Prints

LEMMA RunFacts ==
  ASSUME script \in Scripts, NEW i \in DOMAIN script.commands
  PROVE  /\ script.commands[i].cmd = "run" =>
              /\ script.commands[i].n \in Nat /\ script.commands[i].every \in Nat
              /\ script.commands[i].pre \in BOOLEAN /\ script.commands[i].uses \subseteq Computes
         /\ script.commands[i].cmd = "reset" => script.commands[i].to \in Nat
         /\ script.commands[i].cmd \in {"run", "reset"}
PROOF
  <1>1. script.commands[i] \in Commands  BY ScriptFacts
  <1> QED  BY <1>1 DEF Commands

-----------------------------------------------------------------------------
(* Types, and where the commands stand.                                    *)

Types ==
  /\ script \in Scripts
  /\ cmd \in Nat \ {0}
  /\ pc \in {"command", "setup", "loop", "fixes", "output", "again"}
  /\ left \in Nat /\ step \in Nat /\ firststep \in Nat /\ laststep \in Nat
  /\ last \in [Outputs -> Int] /\ out \in [Outputs -> Nat]
  /\ valid = [i \in DOMAIN F |-> valid[i]] /\ win = [i \in DOMAIN F |-> win[i]]
  /\ told = [c \in Computes |-> told[c]] /\ tallied = [c \in Computes |-> tallied[c]]
Control ==
  /\ pc # "command" => /\ cmd \in DOMAIN script.commands /\ Command.cmd = "run"
                       /\ firststep <= step /\ step <= laststep
  /\ pc = "setup" => step = firststep
  /\ pc \in {"fixes", "output"} => step > firststep
  /\ pc = "again" => step = laststep

LEMMA TypesInit == Init => Types /\ Control
PROOF
  <1> SUFFICES ASSUME Init PROVE Types /\ Control
    OBVIOUS
  <1> USE DEF Init
  <1>1. last \in [Outputs -> Int] /\ out \in [Outputs -> Nat]  OBVIOUS
  <1>2. cmd \in Nat \ {0} /\ left \in Nat /\ step \in Nat /\ firststep \in Nat /\ laststep \in Nat
    OBVIOUS
  <1>3. valid = [i \in DOMAIN F |-> valid[i]] /\ win = [i \in DOMAIN F |-> win[i]]  OBVIOUS
  <1>4. told = [c \in Computes |-> told[c]] /\ tallied = [c \in Computes |-> tallied[c]]  OBVIOUS
  <1> QED  BY <1>1, <1>2, <1>3, <1>4 DEF Types, Control

\* What a run command still has to do is split into chunks.
LEMMA ChunkFits ==
  ASSUME Types, StartRun
  PROVE  LET n == IF pc = "again" THEN left ELSE Command.n
         IN  Chunk \in Nat /\ Chunk <= n /\ n \in Nat /\ cmd \in DOMAIN script.commands
PROOF
  <1> DEFINE n == IF pc = "again" THEN left ELSE Command.n
  <1>1. cmd \in DOMAIN script.commands /\ Command.cmd = "run"
    BY ScriptFacts DEF Types, StartRun
  <1>2. n \in Nat /\ Command.every \in Nat  BY <1>1, RunFacts DEF Types, Command
  <1>3. Chunk = IF Command.every = 0 THEN n ELSE Min({n, Command.every})  BY DEF Chunk
  <1> HIDE DEF n
  <1>4. Min({n, Command.every}) \in {n, Command.every} /\ Min({n, Command.every}) <= n
    <2> DEFINE S == {n, Command.every}
    <2>1. S \subseteq Nat /\ S # {} /\ n \in S  BY <1>2
    <2> HIDE DEF S
    <2>2. Min(S) \in S /\ Min(S) <= n  BY <2>1, MinOfNats
    <2> QED  BY <2>2 DEF S
  <1>5. Chunk \in Nat /\ Chunk <= n  BY <1>2, <1>3, <1>4
  <1> QED  BY <1>1, <1>2, <1>5 DEF n

LEMMA TypesStep == Types /\ Control /\ [Next]_vars => Types' /\ Control'
PROOF
  <1> SUFFICES ASSUME Types, Control, [Next]_vars PROVE Types' /\ Control'
    OBVIOUS
  <1>1. CASE StartRun
    <2>1. /\ Chunk \in Nat /\ left' \in Nat /\ cmd \in DOMAIN script.commands
      BY <1>1, ChunkFits DEF StartRun
    <2>2. firststep' = step /\ laststep' = step + Chunk /\ pc' = "setup" /\ UNCHANGED <<script, cmd, step, nxt, last, out>>
      BY <1>1 DEF StartRun
    <2>3. Command' = Command /\ Command.cmd = "run" /\ Outputs' = Outputs /\ F' = F
      BY <1>1, <2>2 DEF StartRun, Command, Outputs, O, F
    <2>4. /\ valid' = [i \in DOMAIN F |-> valid'[i]] /\ win' = [i \in DOMAIN F |-> win'[i]]
          /\ told' = [c \in Computes |-> told'[c]]
      BY <1>1 DEF StartRun, InvokeFixes, Tell
    <2>5. tallied' = [c \in Computes |-> tallied'[c]]
      BY <1>1 DEF StartRun, Types
    <2> QED  BY <2>1, <2>2, <2>3, <2>4, <2>5 DEF Types, Control
  <1>2. CASE Setup
    <2>1. pc = "setup" /\ pc' = "loop" /\ UNCHANGED <<script, cmd, left, step, firststep, laststep, tallied, valid, win>>
      BY <1>2 DEF Setup
    <2>2. Command' = Command /\ Outputs' = Outputs /\ F' = F
      BY <2>1 DEF Command, Outputs, O, F
    <2>3. last' \in [Outputs -> Int] /\ out' \in [Outputs -> Nat] /\ told' = [c \in Computes |-> told'[c]]
      BY <1>2 DEF Setup, Tell, Types
    <2> QED  BY <2>1, <2>2, <2>3 DEF Types, Control
  <1>3. CASE Move
    <2>1. /\ pc = "loop" /\ step < laststep /\ step' = step + 1 /\ pc' = "fixes"
          /\ UNCHANGED <<script, cmd, left, firststep, laststep, nxt, last, valid, win>>
      BY <1>3 DEF Move
    <2>2. Command' = Command /\ Outputs' = Outputs /\ F' = F
      BY <2>1 DEF Command, Outputs, O, F
    <2>3. out' \in [Outputs -> Nat] /\ told' = [c \in Computes |-> told'[c]] /\ tallied' = [c \in Computes |-> tallied'[c]]
      BY <1>3 DEF Move
    <2>4. step' \in Nat /\ firststep <= step' /\ step' > firststep /\ step' <= laststep
      BY <2>1 DEF Types, Control
    <2> QED  BY <2>1, <2>2, <2>3, <2>4 DEF Types, Control
  <1>4. CASE EndOfStep
    <2>1. /\ pc = "fixes" /\ pc' = "output"
          /\ UNCHANGED <<script, cmd, left, step, firststep, laststep, nxt, last, tallied, out>>
      BY <1>4 DEF EndOfStep
    <2>2. Command' = Command /\ Outputs' = Outputs /\ F' = F
      BY <2>1 DEF Command, Outputs, O, F
    <2>3. /\ valid' = [i \in DOMAIN F |-> valid'[i]] /\ win' = [i \in DOMAIN F |-> win'[i]]
          /\ told' = [c \in Computes |-> told'[c]]
      BY <1>4 DEF EndOfStep, InvokeFixes, Tell
    <2> QED  BY <2>1, <2>2, <2>3 DEF Types, Control
  <1>5. CASE Write
    <2>1. /\ pc = "output" /\ pc' = "loop"
          /\ UNCHANGED <<script, cmd, left, step, firststep, laststep, tallied, valid, win>>
      BY <1>5 DEF Write
    <2>2. Command' = Command /\ Outputs' = Outputs /\ F' = F
      BY <2>1 DEF Command, Outputs, O, F
    <2>3. last' \in [Outputs -> Int] /\ out' \in [Outputs -> Nat] /\ told' = [c \in Computes |-> told'[c]]
      BY <1>5 DEF Write, Tell, Types
    <2> QED  BY <2>1, <2>2, <2>3 DEF Types, Control
  <1>6. CASE NoOutput
    <2>1. /\ pc = "output" /\ pc' = "loop"
          /\ UNCHANGED <<script, cmd, left, step, firststep, laststep, nxt, last, told,
                 tallied, valid, win, used, out>>
      BY <1>6 DEF NoOutput
    <2>2. Command' = Command /\ Outputs' = Outputs /\ F' = F
      BY <2>1 DEF Command, Outputs, O, F
    <2> QED  BY <2>1, <2>2 DEF Types, Control
  <1>7. CASE EndRun
    <2>1. /\ pc = "loop" /\ step = laststep
          /\ UNCHANGED <<script, left, step, nxt, last, tallied, valid, win, out>>
      BY <1>7 DEF EndRun
    <2>2. Outputs' = Outputs /\ F' = F
      BY <2>1 DEF Outputs, O, F
    <2>3. told' = [c \in Computes |-> told'[c]]  BY <1>7 DEF EndRun, Tell
    <2>4. CASE pc' = "again" /\ UNCHANGED <<cmd, firststep, laststep>>
      <3>1. Command' = Command  BY <2>1, <2>4 DEF Command
      <3> QED  BY <2>1, <2>2, <2>3, <2>4, <3>1 DEF Types, Control
    <2>5. CASE pc' = "command" /\ cmd' = cmd + 1 /\ firststep' = 0 /\ laststep' = 0
      BY <2>1, <2>2, <2>3, <2>5 DEF Types, Control
    <2> QED  BY <1>7, <2>4, <2>5 DEF EndRun
  <1>8. CASE Reset
    <2>1. /\ pc = "command" /\ pc' = "command" /\ step' = Command.to /\ cmd' = cmd + 1
          /\ UNCHANGED <<script, pc, left, firststep, laststep, last, tallied, valid, win>>
      BY <1>8 DEF Reset
    <2>2. Outputs' = Outputs /\ F' = F
      BY <2>1 DEF Outputs, O, F
    <2>3. told' = [c \in Computes |-> told'[c]] /\ out' \in [Outputs -> Nat]  BY <1>8 DEF Reset
    <2>4. cmd \in DOMAIN script.commands /\ Command.cmd = "reset"
      BY <1>8, ScriptFacts DEF Types, Reset
    <2>5. Command.to \in Nat  BY <2>4, RunFacts DEF Types, Command
    <2> QED  BY <2>1, <2>2, <2>3, <2>5 DEF Types, Control
  <1>9. CASE UNCHANGED vars
    <2>1. Command' = Command /\ Outputs' = Outputs /\ F' = F
      BY <1>9 DEF Command, Outputs, O, F, vars
    <2> QED  BY <1>9, <2>1 DEF Types, Control, vars
  <1> QED  BY <1>1, <1>2, <1>3, <1>4, <1>5, <1>6, <1>7, <1>8, <1>9 DEF Next

-----------------------------------------------------------------------------
(* The tables of steps.                                                    *)

DueAt(o, t) == t \in o.on \/ (o.every > 0 /\ t % o.every = 0)
Free(o, t, b) == \A s \in Nat : t < s /\ s < b => ~DueAt(o, s)
\* b is the first step after t on which output o is due.
IsNext(o, t, b) == b \in Nat /\ t < b /\ DueAt(o, b) /\ Free(o, t, b)
\* The statistics are also due on the last step of a run.
IsNextStats(o, end, t, b) ==
  b \in Nat /\ t < b /\ (b = end \/ DueAt(o, b)) /\ Free(o, t, b)

InRun == pc \in {"loop", "fixes", "output"}
\* The last step whose output is done.
Since == IF pc = "loop" THEN step ELSE step - 1
NextInv ==
  /\ InRun => \A n \in Outputs \ {"stats"} : IsNext(O[n], Since, nxt[n])
  /\ InRun /\ Since < laststep => IsNextStats(O["stats"], laststep, Since, nxt["stats"])

LEMMA DueFacts ==
  ASSUME script \in Scripts, NEW n \in Outputs
  PROVE  /\ ByVariable(n) => \A t : DueAt(O[n], t) <=> t \in O[n].on
         /\ ~ByVariable(n) => \A t : DueAt(O[n], t) <=> O[n].every > 0 /\ t % O[n].every = 0
PROOF
  <1>1. O[n].every \in Nat /\ (O[n].every > 0 => O[n].on = {})  BY ItemFacts
  <1>2. ByVariable(n) => ~(O[n].every > 0)  BY DEF ByVariable
  <1>3. ~ByVariable(n) => O[n].on = {}  BY <1>1 DEF ByVariable
  <1> QED  BY <1>2, <1>3 DEF DueAt

LEMMA VariableFacts ==
  ASSUME script \in Scripts, NEW n \in Outputs, NEW t \in Nat, ByVariable(n), HasLater(n, t)
  PROVE  IsNext(O[n], t, Variable(n, t))
PROOF
  <1> DEFINE S == {s \in O[n].on : s > t}
  <1>1. S \subseteq Nat /\ S # {}  BY ItemFacts DEF HasLater
  <1>2. Variable(n, t) = Min(S)  BY DEF Variable
  <1>3. Min(S) \in S /\ \A y \in S : Min(S) <= y
    <2> HIDE DEF S
    <2> QED  BY <1>1, MinOfNats
  <1>4. Min(S) \in Nat /\ Min(S) > t /\ Min(S) \in O[n].on  BY <1>1, <1>3
  <1>5. \A s \in Nat : t < s /\ s < Min(S) => s \notin O[n].on
    <2> SUFFICES ASSUME NEW s \in Nat, t < s, s \in O[n].on PROVE ~(s < Min(S))
      OBVIOUS
    <2>1. s \in S  OBVIOUS
    <2>2. Min(S) <= s  BY <1>3, <2>1
    <2> HIDE DEF S
    <2> QED  BY <1>4, <2>2
  <1> HIDE DEF S
  <1> QED  BY <1>2, <1>4, <1>5, DueFacts DEF IsNext, Free

\* Multiples of every follow each other at this distance.
LEMMA EveryFacts ==
  ASSUME script \in Scripts, NEW n \in Outputs, O[n].every > 0, NEW m \in Nat, NEW t \in Nat,
         m % O[n].every = 0, m <= t, t < m + O[n].every
  PROVE  IsNext(O[n], t, m + O[n].every)
PROOF
  <1> DEFINE e == O[n].every
  <1>1. e \in Positive /\ e \in Nat /\ ~ByVariable(n)  BY ItemFacts DEF Positive
  <1>2. m + e \in Nat /\ m < m + e  BY <1>1
  <1>3. e % e = 0
    <2>1. e = 1 * e  BY <1>1
    <2>2. (1 * e) % e = 0
      <3> HIDE DEF e
      <3> QED  BY <1>1, MultipleOf
    <2> QED  BY <2>1, <2>2
  <1>4. (m + e) % e = 0
    <2> HIDE DEF e
    <2>1. m % e = 0  BY DEF e
    <2> QED  BY <1>1, <1>3, <2>1, MultipleSums
  <1>5. ASSUME NEW s \in Nat, t < s, s < m + e PROVE s % e # 0
    <2>1. m < s  BY <1>5
    <2>2. m % e = 0  OBVIOUS
    <2> HIDE DEF e
    <2>3. ~(m + e <= s)  BY <1>1, <1>5
    <2> QED  BY <1>1, <2>1, <2>2, <2>3, MultipleSums
  <1>6. O[n].every > 0 /\ t < m + e  OBVIOUS
  <1> QED  BY <1>1, <1>2, <1>4, <1>5, <1>6, DueFacts DEF IsNext, Free

LEMMA AfterIsNext ==
  ASSUME script \in Scripts, NEW n \in Outputs, NEW t \in Nat, HasLater(n, t), O[n].every > 0 \/ ByVariable(n)
  PROVE  IsNext(O[n], t, After(n, t))
PROOF
  <1>1. CASE ByVariable(n)  BY <1>1, VariableFacts DEF After
  <1>2. CASE ~ByVariable(n)
    <2> DEFINE e == O[n].every
    <2>1. e > 0 /\ e \in Positive  BY <1>2, ItemFacts DEF Positive
    <2>2. /\ Multiple(t, e) \in Nat /\ Multiple(t, e) <= t /\ t < Multiple(t, e) + e
          /\ Multiple(t, e) % e = 0
      <3> HIDE DEF e
      <3> QED  BY <2>1, MultipleUpTo
    <2>3. IsNext(O[n], t, Multiple(t, e) + e)  BY <2>1, <2>2, EveryFacts
    <2> QED  BY <1>2, <2>3 DEF After
  <1> QED  BY <1>1, <1>2

LEMMA NextOfIsNext ==
  ASSUME script \in Scripts, NEW n \in Outputs \ {"stats"}, HasLater(n, step), step \in Nat,
         nxt[n] = step, DueAt(O[n], step)
  PROVE  IsNext(O[n], step, NextOf(n))
PROOF
  <1>1. CASE ByVariable(n)  BY <1>1, VariableFacts DEF NextOf
  <1>2. CASE ~ByVariable(n)
    <2>1. O[n].every > 0 /\ O[n].every \in Nat /\ step % O[n].every = 0  BY <1>2, ItemFacts, DueFacts
    <2>2. step <= step /\ step < step + O[n].every  BY <2>1
    <2>3. IsNext(O[n], step, step + O[n].every)  BY <2>1, <2>2, EveryFacts
    <2> QED  BY <1>2, <2>3 DEF NextOf
  <1> QED  BY <1>1, <1>2

\* The smaller of a next step and the end of the run.
LEMMA CapIsNext ==
  ASSUME NEW b, step \in Nat, laststep \in Nat, step < laststep, IsNext(O["stats"], step, b)
  PROVE  IsNextStats(O["stats"], laststep, step, Min({b, laststep})) /\ Min({b, laststep}) <= laststep
         /\ Min({laststep, b}) = Min({b, laststep})
PROOF
  <1>1. b \in Nat  BY DEF IsNext
  <1> DEFINE S == {b, laststep}
  <1>2. S \subseteq Nat /\ S # {}  BY <1>1
  <1>3. Min(S) \in S /\ \A y \in S : Min(S) <= y
    <2> HIDE DEF S
    <2> QED  BY <1>2, MinOfNats
  <1>4. Min(S) <= b /\ Min(S) <= laststep /\ (Min(S) = b \/ Min(S) = laststep)  BY <1>3
  <1>5. {laststep, b} = S  OBVIOUS
  <1> HIDE DEF S
  <1>6. IsNextStats(O["stats"], laststep, step, Min(S)) /\ Min(S) <= laststep
    BY <1>1, <1>4 DEF IsNext, IsNextStats, Free
  <1> QED  BY <1>5, <1>6 DEF S

LEMMA FirstStatsIsNext ==
  ASSUME script \in Scripts, step \in Nat, laststep \in Nat, step < laststep, HasLater("stats", step)
  PROVE  IsNextStats(O["stats"], laststep, step, FirstStats)
PROOF
  <1>1. "stats" \in Outputs  BY ScriptFacts
  <1>2. CASE ByVariable("stats")
    <2>1. IsNext(O["stats"], step, Variable("stats", step))  BY <1>1, <1>2, VariableFacts
    <2>2. ~(O["stats"].every > 0)  BY <1>2 DEF ByVariable
    <2>3. FirstStats = Variable("stats", step)  BY <1>2, <2>2 DEF FirstStats
    <2> QED  BY <2>1, <2>3 DEF IsNext, IsNextStats
  <1>3. CASE ~ByVariable("stats") /\ O["stats"].every > 0
    <2>1. IsNext(O["stats"], step, After("stats", step))  BY <1>1, <1>3, AfterIsNext
    <2>2. FirstStats = Min({After("stats", step), laststep})  BY <1>3 DEF FirstStats
    <2> QED  BY <2>1, <2>2, CapIsNext
  <1>4. CASE ~ByVariable("stats") /\ ~(O["stats"].every > 0)
    <2>1. FirstStats = laststep  BY <1>4 DEF FirstStats
    <2>2. \A s : ~DueAt(O["stats"], s)  BY <1>1, <1>4, DueFacts
    <2> QED  BY <2>1, <2>2 DEF IsNextStats, Free
  <1> QED  BY <1>2, <1>3, <1>4

LEMMA NextStatsIsNext ==
  ASSUME script \in Scripts, step \in Nat, laststep \in Nat, step < laststep, HasLater("stats", step),
         nxt["stats"] = step, DueAt(O["stats"], step)
  PROVE  IsNextStats(O["stats"], laststep, step, NextStats) /\ NextStats <= laststep
PROOF
  <1>1. "stats" \in Outputs  BY ScriptFacts
  <1>2. CASE ByVariable("stats")
    <2>1. IsNext(O["stats"], step, Variable("stats", step))  BY <1>1, <1>2, VariableFacts
    <2>2. ~(O["stats"].every > 0)  BY <1>2 DEF ByVariable
    <2>3. NextStats = Min({laststep, Variable("stats", step)})  BY <1>2, <2>2 DEF NextStats
    <2> QED  BY <2>1, <2>3, CapIsNext
  <1>3. CASE ~ByVariable("stats")
    <2>1. O["stats"].every > 0 /\ O["stats"].every \in Nat /\ step % O["stats"].every = 0
      BY <1>1, <1>3, ItemFacts, DueFacts
    <2>2. step <= step /\ step < step + O["stats"].every  BY <2>1
    <2>3. IsNext(O["stats"], step, step + O["stats"].every)  BY <1>1, <2>1, <2>2, EveryFacts
    <2>4. NextStats = Min({laststep, step + O["stats"].every})  BY <1>3, <2>1 DEF NextStats
    <2> QED  BY <2>3, <2>4, CapIsNext
  <1> QED  BY <1>2, <1>3

\* A step that is not the next one is passed without output.
LEMMA Advance ==
  ASSUME NEW o, NEW t \in Nat, NEW b, NEW end \in Nat
  PROVE  /\ IsNext(o, t - 1, b) => /\ b >= t /\ (b # t => IsNext(o, t, b))
                                   /\ DueAt(o, t) <=> b = t
         /\ IsNextStats(o, end, t - 1, b) =>
              /\ b >= t /\ (b # t => IsNextStats(o, end, t, b))
              /\ t # end => (DueAt(o, t) <=> b = t)
              /\ b = t => t = end \/ DueAt(o, t)
PROOF
  BY DEF IsNext, IsNextStats, Free

LEMMA OutputTables ==
  ASSUME Types, Control, NextInv, pc \in {"fixes", "output"}
  PROVE  /\ \A n \in Outputs : nxt[n] \in Nat /\ nxt[n] >= step
         /\ \A n \in Outputs \ {"stats"} : IsNext(O[n], step - 1, nxt[n])
         /\ IsNextStats(O["stats"], laststep, step - 1, nxt["stats"])
         /\ step = next <=> \E n \in Outputs : nxt[n] = step
PROOF
  <1>1. step - 1 \in Nat /\ step \in Nat /\ step - 1 < laststep
    BY DEF Types, Control
  <1>2. Since = step - 1 /\ InRun  BY DEF Since, InRun
  <1>3. \A n \in Outputs \ {"stats"} : IsNext(O[n], step - 1, nxt[n])  BY <1>2 DEF NextInv
  <1>4. IsNextStats(O["stats"], laststep, step - 1, nxt["stats"])  BY <1>1, <1>2 DEF NextInv
  <1>5. \A n \in Outputs : nxt[n] \in Nat /\ nxt[n] >= step
    <2> SUFFICES ASSUME NEW n \in Outputs PROVE nxt[n] \in Nat /\ nxt[n] >= step
      OBVIOUS
    <2>1. nxt[n] \in Nat /\ step - 1 < nxt[n]
      BY <1>3, <1>4 DEF IsNext, IsNextStats
    <2> QED  BY <1>1, <2>1
  <1> DEFINE S == {nxt[n] : n \in Outputs}
  <1>6. S \subseteq Nat /\ S # {}
    <2>1. "stats" \in Outputs  BY ScriptFacts DEF Types
    <2>2. nxt["stats"] \in S  BY <2>1
    <2> QED  BY <1>5, <2>2
  <1>7. Min(S) \in S /\ \A y \in S : Min(S) <= y
    <2> HIDE DEF S
    <2> QED  BY <1>6, MinOfNats
  <1>8. \A n \in Outputs : nxt[n] \in S  OBVIOUS
  <1>9. \A x \in S : x \in Nat /\ x >= step  BY <1>5
  <1>10. \A x \in S : \E n \in Outputs : nxt[n] = x  OBVIOUS
  <1>11. next = Min(S)  BY DEF next
  <1> HIDE DEF S
  <1>12. step = next <=> \E n \in Outputs : nxt[n] = step
    <2>1. ASSUME NEW n \in Outputs, nxt[n] = step PROVE step = next
      BY <1>1, <1>7, <1>8, <1>9, <1>11, <2>1
    <2> QED  BY <1>7, <1>10, <1>11, <2>1
  <1> QED  BY <1>3, <1>4, <1>5, <1>12

LEMMA NextInvStep == Types /\ Control /\ NextInv /\ [Next]_vars => NextInv'
PROOF
  <1> SUFFICES ASSUME Types, Control, NextInv, [Next]_vars PROVE NextInv'
    OBVIOUS
  <1> USE DEF Types
  <1>1. CASE StartRun  BY <1>1 DEF StartRun, NextInv, InRun
  <1>2. CASE Setup
    <2>1. /\ pc' = "loop" /\ script' = script /\ step' = step /\ laststep' = laststep
          /\ \A n \in Outputs : nxt'[n] = FirstOf(n) /\ HasLater(n, step)
      BY <1>2 DEF Setup
    <2>2. O' = O /\ Outputs' = Outputs /\ Since' = step  BY <2>1 DEF O, Outputs, Since
    <2>3. ASSUME NEW n \in Outputs \ {"stats"} PROVE IsNext(O[n], step, nxt'[n])
      <3>1. nxt'[n] = After(n, step)  BY <2>1 DEF FirstOf
      <3> QED  BY <2>1, <3>1, ItemFacts, AfterIsNext
    <2>4. ASSUME step < laststep PROVE IsNextStats(O["stats"], laststep, step, nxt'["stats"])
      <3>1. nxt'["stats"] = FirstStats /\ HasLater("stats", step)  BY <2>1, ScriptFacts DEF FirstOf
      <3> QED  BY <2>4, <3>1, FirstStatsIsNext
    <2> QED  BY <2>1, <2>2, <2>3, <2>4 DEF NextInv
  <1>3. CASE Move
    <2>1. /\ pc = "loop" /\ pc' = "fixes" /\ step < laststep /\ step' = step + 1
          /\ UNCHANGED <<script, laststep, nxt>>
      BY <1>3 DEF Move
    <2>2. O' = O /\ Outputs' = Outputs /\ Since' = Since /\ InRun  BY <2>1 DEF O, Outputs, Since, InRun
    <2> QED  BY <2>1, <2>2 DEF NextInv
  <1>4. CASE EndOfStep
    <2>1. /\ pc = "fixes" /\ pc' = "output" /\ UNCHANGED <<script, laststep, nxt, step>>
      BY <1>4 DEF EndOfStep
    <2>2. O' = O /\ Outputs' = Outputs /\ Since' = Since /\ InRun  BY <2>1 DEF O, Outputs, Since, InRun
    <2> QED  BY <2>1, <2>2 DEF NextInv
  <1>5. CASE Write
    <2>1. /\ pc = "output" /\ pc' = "loop" /\ UNCHANGED <<script, laststep, step>>
      BY <1>5 DEF Write
    <2>2. O' = O /\ Outputs' = Outputs /\ Since' = step  BY <2>1 DEF O, Outputs, Since
    <2>3. \A n \in Outputs : nxt'[n] = IF nxt[n] = step THEN NextOf(n) ELSE nxt[n]
      BY <1>5 DEF Write
    <2>4. \A n \in Outputs : nxt[n] = step => HasLater(n, step)  BY <1>5 DEF Write
    <2>5. ASSUME NEW n \in Outputs \ {"stats"} PROVE IsNext(O[n], step, nxt'[n])
      <3>1. IsNext(O[n], step - 1, nxt[n])  BY <2>1, OutputTables
      <3>2. CASE nxt[n] = step
        <4>1. DueAt(O[n], step)  BY <3>1, <3>2, Advance
        <4>2. IsNext(O[n], step, NextOf(n))  BY <2>4, <3>2, <4>1, NextOfIsNext
        <4> QED  BY <2>3, <3>2, <4>2
      <3>3. CASE nxt[n] # step
        BY <2>3, <3>1, <3>3, Advance
      <3> QED  BY <3>2, <3>3
    <2>6. ASSUME step < laststep PROVE IsNextStats(O["stats"], laststep, step, nxt'["stats"])
      <3>1. IsNextStats(O["stats"], laststep, step - 1, nxt["stats"])  BY <2>1, OutputTables
      <3>2. "stats" \in Outputs  BY ScriptFacts
      <3>3. CASE nxt["stats"] = step
        <4>1. DueAt(O["stats"], step)  BY <2>6, <3>1, <3>3, Advance
        <4>2. nxt'["stats"] = NextStats  BY <2>3, <3>2, <3>3 DEF NextOf
        <4> QED  BY <2>4, <2>6, <3>2, <3>3, <4>1, <4>2, NextStatsIsNext
      <3>4. CASE nxt["stats"] # step
        BY <2>3, <3>1, <3>2, <3>4, Advance
      <3> QED  BY <3>3, <3>4
    <2> QED  BY <2>1, <2>2, <2>5, <2>6 DEF NextInv
  <1>6. CASE NoOutput
    <2>1. /\ pc = "output" /\ pc' = "loop" /\ UNCHANGED <<script, laststep, step, nxt>> /\ step # next
      BY <1>6 DEF NoOutput
    <2>2. O' = O /\ Outputs' = Outputs /\ Since' = step  BY <2>1 DEF O, Outputs, Since
    <2>3. \A n \in Outputs : nxt[n] # step  BY <2>1, OutputTables
    <2>4. ASSUME NEW n \in Outputs \ {"stats"} PROVE IsNext(O[n], step, nxt[n])
      BY <2>1, <2>3, Advance, OutputTables
    <2>5. IsNextStats(O["stats"], laststep, step, nxt["stats"])
      BY <2>1, <2>3, Advance, OutputTables, ScriptFacts
    <2> QED  BY <2>1, <2>2, <2>4, <2>5 DEF NextInv
  <1>7. CASE EndRun  BY <1>7 DEF EndRun, NextInv, InRun
  <1>8. CASE Reset  BY <1>8 DEF Reset, NextInv, InRun
  <1>9. CASE UNCHANGED vars
    BY <1>9 DEF NextInv, InRun, Since, O, Outputs, vars
  <1> QED  BY <1>1, <1>2, <1>3, <1>4, <1>5, <1>6, <1>7, <1>8, <1>9 DEF Next

-----------------------------------------------------------------------------
(* What has been written.                                                  *)

\* A reset sets the timestep forward, after a run, and not onto a step that a
\* dump's variable names.
ResetsAhead ==
  pc = "command" /\ cmd <= Len(script.commands) /\ Command.cmd = "reset" =>
    /\ step < Command.to /\ ~FirstUpdate
    /\ \A n \in Kind("dump") : Command.to \notin O[n].on

LastInv ==
  /\ \A n \in Outputs : last[n] <= step
  /\ pc \in {"fixes", "output"} => \A n \in Outputs : last[n] < step /\ out[n] = 0

LEMMA SetupFacts ==
  ASSUME Types, Control, Setup
  PROVE  /\ pc = "setup" /\ pc' = "loop" /\ step = firststep /\ Outputs' = Outputs /\ O' = O
         /\ UNCHANGED <<script, cmd, left, step, firststep, laststep, tallied, valid, win>>
         /\ \A n \in Outputs : last'[n] = (IF WriteAtSetup(n) THEN step ELSE last[n])
                               /\ out'[n] = (IF WriteAtSetup(n) THEN out[n] + 1 ELSE out[n])
PROOF
  <1>1. /\ pc = "setup" /\ pc' = "loop" /\ step = firststep
        /\ UNCHANGED <<script, cmd, left, step, firststep, laststep, tallied, valid, win>>
    BY DEF Setup, Control
  <1>2. \A n \in Outputs : last'[n] = (IF WriteAtSetup(n) THEN step ELSE last[n])
    BY DEF Setup
  <1>3. \A n \in Outputs : out'[n] = out[n] + (IF WriteAtSetup(n) THEN 1 ELSE 0)
    BY DEF Setup
  <1>4. \A n \in Outputs : out[n] \in Nat  BY DEF Types
  <1>5. \A n \in Outputs : out'[n] = (IF WriteAtSetup(n) THEN out[n] + 1 ELSE out[n])
    BY <1>3, <1>4
  <1> QED  BY <1>1, <1>2, <1>5 DEF Outputs, O

LEMMA WriteFacts ==
  ASSUME Types, Control, LastInv, Write
  PROVE  /\ pc = "output" /\ pc' = "loop" /\ step > firststep /\ Outputs' = Outputs /\ O' = O
         /\ UNCHANGED <<script, cmd, left, step, firststep, laststep, tallied, valid, win>>
         /\ \A n \in Outputs :
              /\ out'[n] = (IF nxt[n] = step THEN 1 ELSE 0)
              /\ last'[n] <= step /\ (nxt[n] = step => last'[n] = step)
              /\ n \notin Kind("restart") /\ nxt[n] # step => last'[n] = last[n]
PROOF
  <1>1. /\ pc = "output" /\ pc' = "loop" /\ step > firststep
        /\ UNCHANGED <<script, cmd, left, step, firststep, laststep, tallied, valid, win>>
    BY DEF Write, Control
  <1> DEFINE due     == {n \in Outputs : nxt[n] = step}
             written == {n \in due : NotYet(n, due)}
             stamped == due \union (IF due \cap Kind("restart") = {} THEN {} ELSE Kind("restart"))
  <1>2. /\ \A n \in Outputs : out'[n] = out[n] + (IF n \in written THEN 1 ELSE 0)
        /\ \A n \in Outputs : last'[n] = (IF n \in stamped THEN step ELSE last[n])
    BY DEF Write
  <1>3. \A n \in Outputs : out[n] = 0 /\ last[n] < step /\ last[n] \in Int
    BY <1>1 DEF LastInv, Types
  <1>4. step \in Nat  BY DEF Types
  <1>5. \A n \in due : n \in written  BY <1>3, <1>4 DEF NotYet
  <1>6. \A n \in Outputs : (n \in written <=> nxt[n] = step)  BY <1>5
  <1>7. \A n \in Outputs : out'[n] = (IF nxt[n] = step THEN 1 ELSE 0)
    <2> HIDE DEF written
    <2> SUFFICES ASSUME NEW n \in Outputs PROVE out'[n] = (IF nxt[n] = step THEN 1 ELSE 0)
      OBVIOUS
    <2>1. out'[n] = 0 + (IF n \in written THEN 1 ELSE 0)  BY <1>2, <1>3
    <2> QED  BY <1>6, <2>1
  <1>8. ASSUME NEW n \in Outputs
        PROVE  /\ last'[n] <= step /\ (nxt[n] = step => last'[n] = step)
               /\ n \notin Kind("restart") /\ nxt[n] # step => last'[n] = last[n]
    <2>1. nxt[n] = step => n \in stamped  OBVIOUS
    <2>2. n \notin Kind("restart") /\ nxt[n] # step => n \notin stamped  OBVIOUS
    <2> HIDE DEF stamped
    <2> QED  BY <1>2, <1>3, <1>4, <2>1, <2>2
  <1> QED  BY <1>1, <1>7, <1>8 DEF Outputs, O

LEMMA LastInvStep == Types /\ Control /\ LastInv /\ ResetsAhead /\ [Next]_vars => LastInv'
PROOF
  <1> SUFFICES ASSUME Types, Control, LastInv, ResetsAhead, [Next]_vars PROVE LastInv'
    OBVIOUS
  <1>0. step \in Nat /\ \A n \in Outputs : last[n] \in Int /\ out[n] \in Nat  BY DEF Types
  <1>1. CASE StartRun  BY <1>1 DEF StartRun, LastInv, Outputs, O
  <1>2. CASE Setup
    <2>1. \A n \in Outputs : last'[n] <= step  BY <1>0, <1>2, SetupFacts DEF LastInv
    <2> QED  BY <1>2, <2>1, SetupFacts DEF LastInv
  <1>3. CASE Move
    <2>1. /\ pc' = "fixes" /\ step' = step + 1 /\ UNCHANGED <<script, last>>
          /\ \A n \in Outputs : out'[n] = 0
      BY <1>3 DEF Move
    <2>2. \A n \in Outputs : last[n] < step + 1  BY <1>0 DEF LastInv
    <2> QED  BY <1>0, <2>1, <2>2 DEF LastInv, Outputs, O
  <1>4. CASE EndOfStep  BY <1>4 DEF EndOfStep, LastInv, Outputs, O
  <1>5. CASE Write  BY <1>5, WriteFacts DEF LastInv
  <1>6. CASE NoOutput  BY <1>6 DEF NoOutput, LastInv, Outputs, O
  <1>7. CASE EndRun  BY <1>7 DEF EndRun, LastInv, Outputs, O
  <1>8. CASE Reset
    <2>1. /\ pc' = "command" /\ step' = Command.to /\ step < Command.to /\ UNCHANGED <<script, last>>
      BY <1>8 DEF Reset, ResetsAhead
    <2>2. cmd \in DOMAIN script.commands /\ Command.cmd = "reset"
      BY <1>8, ScriptFacts DEF Reset, Types
    <2>3. Command.to \in Nat  BY <2>2, RunFacts DEF Types, Command
    <2>4. \A n \in Outputs : last[n] <= Command.to  BY <1>0, <2>1, <2>3 DEF LastInv
    <2> QED  BY <2>1, <2>4 DEF LastInv, Outputs, O
  <1>9. CASE UNCHANGED vars  BY <1>9 DEF vars, LastInv, Outputs, O
  <1> QED  BY <1>1, <1>2, <1>3, <1>4, <1>5, <1>6, <1>7, <1>8, <1>9 DEF Next

-----------------------------------------------------------------------------
(* Dumps.                                                                  *)

DueDump(n) == DueAt(O[n], step) \/ (O[n].first /\ step = 0)
\* Dump n has been on this step, if it was due.
Settled(n) == out[n] = (IF DueDump(n) THEN 1 ELSE 0) /\ (out[n] = 1 <=> last[n] = step)
\* It has not been, and can still be, in the setup.
Untouched(n) == /\ out[n] = 0 /\ last[n] # step
                /\ step \notin O[n].on
                /\ O[n].first /\ step = 0 => last[n] < 0
DumpsInv ==
  /\ \A n \in Kind("dump") : O[n].first /\ last[n] < 0 =>
        step = 0 /\ pc \in {"command", "setup"} /\ FirstUpdate
  /\ pc \in {"loop", "again"} => \A n \in Kind("dump") : Settled(n)
  /\ pc \in {"command", "setup"} => \A n \in Kind("dump") : Settled(n) \/ Untouched(n)

LEMMA DumpSetup ==
  ASSUME Types, Control, NEW n \in Kind("dump")
  PROVE  /\ WriteAtSetup(n) <=> \/ O[n].every > 0 /\ step % O[n].every = 0 /\ last[n] # step
                                \/ last[n] < 0 /\ O[n].first
         /\ DueAt(O[n], step) <=> step \in O[n].on \/ (O[n].every > 0 /\ step % O[n].every = 0)
         /\ n \in Outputs /\ last[n] \in Int /\ out[n] \in Nat /\ step \in Nat
PROOF
  <1>1. O[n].kind = "dump" /\ n \in Outputs  BY DEF Kind
  <1> QED  BY <1>1 DEF WriteAtSetup, DueAt, Types

\* A dump that has been on this step is not written again in a setup.
LEMMA SettledIsWritten ==
  ASSUME Types, Control, DumpsInv, NEW n \in Kind("dump"), Settled(n)
  PROVE  ~WriteAtSetup(n)
PROOF
  <1>0. last[n] \in Int /\ out[n] \in Nat /\ step \in Nat  BY DumpSetup
  <1>1. O[n].every > 0 /\ step % O[n].every = 0 => last[n] = step
    BY DumpSetup DEF Settled, DueDump
  <1>2. ~(last[n] < 0 /\ O[n].first)
    <2>1. O[n].first /\ last[n] < 0 => step = 0  BY DEF DumpsInv
    <2> QED  BY <1>0, <2>1 DEF Settled, DueDump
  <1> QED  BY <1>1, <1>2, DumpSetup

LEMMA DumpsInvStep ==
  Types /\ Control /\ NextInv /\ LastInv /\ DumpsInv /\ ResetsAhead /\ [Next]_vars => DumpsInv'
PROOF
  <1> SUFFICES ASSUME Types, Control, NextInv, LastInv, DumpsInv, ResetsAhead, [Next]_vars
               PROVE  DumpsInv'
    OBVIOUS
  <1>0. step \in Nat /\ \A n \in Outputs : last[n] \in Int /\ out[n] \in Nat  BY DEF Types
  <1>1. CASE StartRun
    <2>1. /\ pc \in {"command", "again"} /\ pc' = "setup" /\ UNCHANGED <<script, cmd, step, last, out>>
      BY <1>1 DEF StartRun
    <2>2. /\ O' = O /\ Kind("dump")' = Kind("dump") /\ FirstUpdate' = FirstUpdate
          /\ \A n \in Kind("dump") : /\ Settled(n)' = Settled(n)
                                     /\ Untouched(n)' = Untouched(n)
      BY <2>1 DEF O, Kind, Outputs, FirstUpdate, Settled, Untouched, DueDump
    <2> QED  BY <2>1, <2>2 DEF DumpsInv
  <1>2. CASE Setup
    <2> SUFFICES ASSUME NEW n \in Kind("dump")' PROVE Settled(n)' /\ ~(O'[n].first /\ last'[n] < 0)
      BY <1>2, SetupFacts DEF DumpsInv
    <2>1. n \in Kind("dump") /\ n \in Outputs  BY <1>2, SetupFacts DEF Kind
    <2>2. /\ pc = "setup" /\ O' = O /\ step' = step
          /\ last'[n] = (IF WriteAtSetup(n) THEN step ELSE last[n])
          /\ out'[n] = (IF WriteAtSetup(n) THEN out[n] + 1 ELSE out[n])
      BY <1>2, <2>1, SetupFacts
    <2>3. DueDump(n)' <=> DueDump(n)  BY <2>2 DEF DueDump
    <2>4. O[n].first /\ last[n] < 0 => step = 0  BY <2>1 DEF DumpsInv
    <2>5. CASE Settled(n)
      <3>1. ~WriteAtSetup(n)  BY <2>1, <2>2, <2>5, SettledIsWritten
      <3>2. ~(O[n].first /\ last[n] < 0)
        BY <1>0, <2>1, <2>4, <2>5 DEF Settled, DueDump
      <3> QED  BY <2>2, <2>3, <2>5, <3>1, <3>2 DEF Settled
    <2>6. CASE Untouched(n)
      <3>1. WriteAtSetup(n) <=> DueDump(n)
        BY <1>0, <2>1, <2>4, <2>6, DumpSetup DEF Untouched, DueDump
      <3>2. O[n].first /\ last[n] < 0 => WriteAtSetup(n)  BY <2>1, DumpSetup
      <3>3. last[n] # step /\ out[n] = 0  BY <2>6 DEF Untouched
      <3> QED  BY <1>0, <2>2, <2>3, <3>1, <3>2, <3>3 DEF Settled
    <2> QED  BY <2>1, <2>2, <2>5, <2>6 DEF DumpsInv
  <1>3. CASE Move
    <2>1. /\ pc = "loop" /\ pc' = "fixes" /\ UNCHANGED <<script, last>>
      BY <1>3 DEF Move
    <2> QED  BY <2>1 DEF DumpsInv, O, Kind, Outputs
  <1>4. CASE EndOfStep
    <2>1. /\ pc = "fixes" /\ pc' = "output" /\ UNCHANGED <<script, last>>
      BY <1>4 DEF EndOfStep
    <2> QED  BY <2>1 DEF DumpsInv, O, Kind, Outputs
  <1>5. CASE Write
    <2> SUFFICES ASSUME NEW n \in Kind("dump")' PROVE Settled(n)' /\ ~(O'[n].first /\ last'[n] < 0)
      BY <1>5, WriteFacts DEF DumpsInv
    <2>1. n \in Kind("dump") /\ n \in Outputs /\ n \notin Kind("restart")  BY <1>5, WriteFacts DEF Kind
    <2>2. n # "stats"  BY <2>1, ItemFacts DEF Kind, Types
    <2>3. /\ pc = "output" /\ O' = O /\ step' = step /\ step > firststep
          /\ out'[n] = (IF nxt[n] = step THEN 1 ELSE 0)
          /\ nxt[n] = step => last'[n] = step
          /\ nxt[n] # step => last'[n] = last[n]
      BY <1>5, <2>1, WriteFacts
    <2>4. DueAt(O[n], step) <=> nxt[n] = step
      <3>1. IsNext(O[n], step - 1, nxt[n])  BY <2>1, <2>2, <2>3, OutputTables
      <3> QED  BY <1>0, <3>1, Advance DEF Types
    <2>5. step # 0  BY <2>3 DEF Types
    <2>6. last[n] < step  BY <2>1, <2>3 DEF LastInv
    <2>7. ~(O[n].first /\ last[n] < 0)  BY <2>1, <2>3 DEF DumpsInv
    <2>8. Settled(n)'  BY <1>0, <2>1, <2>3, <2>4, <2>5, <2>6 DEF Settled, DueDump
    <2> QED  BY <1>0, <2>3, <2>7, <2>8
  <1>6. CASE NoOutput
    <2>1. /\ pc = "output" /\ pc' = "loop" /\ step # next /\ UNCHANGED <<script, cmd, last, out, step>>
      BY <1>6 DEF NoOutput
    <2>2. O' = O /\ Kind("dump")' = Kind("dump")  BY <2>1 DEF O, Kind, Outputs
    <2> SUFFICES ASSUME NEW n \in Kind("dump") PROVE Settled(n)' /\ ~(O'[n].first /\ last'[n] < 0)
      BY <2>1, <2>2 DEF DumpsInv
    <2>3. n \in Outputs /\ n # "stats"  BY ItemFacts DEF Kind, Types
    <2>4. ~DueAt(O[n], step)  BY <1>0, <2>1, <2>3, OutputTables, Advance DEF Types
    <2>5. step # 0  BY <2>1 DEF Types, Control
    <2>6. last[n] < step /\ out[n] = 0  BY <2>1, <2>3 DEF LastInv
    <2>7. ~(O[n].first /\ last[n] < 0)  BY <2>1 DEF DumpsInv
    <2>8. Settled(n)'  BY <1>0, <2>1, <2>2, <2>3, <2>4, <2>5, <2>6 DEF Settled, DueDump
    <2> QED  BY <2>1, <2>2, <2>7, <2>8
  <1>7. CASE EndRun
    <2>1. /\ pc = "loop" /\ pc' \in {"again", "command"} /\ UNCHANGED <<script, last, out, step>>
      BY <1>7 DEF EndRun
    <2>2. /\ O' = O /\ Kind("dump")' = Kind("dump")
          /\ \A n \in Kind("dump") : Settled(n)' = Settled(n)
      BY <2>1 DEF O, Kind, Outputs, Settled, DueDump
    <2> QED  BY <2>1, <2>2 DEF DumpsInv
  <1>8. CASE Reset
    <2>1. /\ pc = "command" /\ pc' = "command" /\ step' = Command.to /\ UNCHANGED <<script, last>>
          /\ step < Command.to /\ ~FirstUpdate
          /\ \A n \in Kind("dump") : Command.to \notin O[n].on
          /\ \A n \in Outputs : out'[n] = 0
      BY <1>8 DEF Reset, ResetsAhead
    <2>2. O' = O /\ Kind("dump")' = Kind("dump")  BY <2>1 DEF O, Kind, Outputs
    <2>3. cmd \in DOMAIN script.commands /\ Command.cmd = "reset"
      BY <1>8, ScriptFacts DEF Reset, Types
    <2>4. Command.to \in Nat  BY <2>3, RunFacts DEF Types, Command
    <2>5. \A n \in Kind("dump") : ~(O[n].first /\ last[n] < 0)  BY <2>1 DEF DumpsInv
    <2>6. ASSUME NEW n \in Kind("dump") PROVE Untouched(n)'
      <3>1. n \in Outputs  BY DEF Kind
      <3>2. last[n] <= step  BY <3>1 DEF LastInv
      <3>3. last[n] # Command.to /\ Command.to # 0  BY <1>0, <2>1, <2>4, <3>1, <3>2
      <3> QED  BY <2>1, <2>2, <3>1, <3>3 DEF Untouched
    <2> QED  BY <2>1, <2>2, <2>5, <2>6 DEF DumpsInv
  <1>9. CASE UNCHANGED vars
    <2>1. pc' = pc /\ UNCHANGED <<script, cmd, step, last, out>>  BY <1>9 DEF vars
    <2>2. /\ O' = O /\ Kind("dump")' = Kind("dump") /\ FirstUpdate' = FirstUpdate
          /\ \A n \in Kind("dump") : /\ Settled(n)' = Settled(n)
                                     /\ Untouched(n)' = Untouched(n)
      BY <2>1 DEF O, Kind, Outputs, FirstUpdate, Settled, Untouched, DueDump
    <2> QED  BY <2>1, <2>2 DEF DumpsInv
  <1> QED  BY <1>1, <1>2, <1>3, <1>4, <1>5, <1>6, <1>7, <1>8, <1>9 DEF Next

-----------------------------------------------------------------------------
(* Restarts and statistics.                                                *)

RestartsInv ==
  pc = "loop" /\ step > firststep =>
    \A n \in Kind("restart") : out[n] = IF DueAt(O[n], step) THEN 1 ELSE 0

LEMMA RestartsInvStep ==
  Types /\ Control /\ NextInv /\ LastInv /\ RestartsInv /\ [Next]_vars => RestartsInv'
PROOF
  <1> SUFFICES ASSUME Types, Control, NextInv, LastInv, RestartsInv, [Next]_vars
               PROVE  RestartsInv'
    OBVIOUS
  <1>0. step \in Nat  BY DEF Types
  <1>1. CASE StartRun  BY <1>1 DEF StartRun, RestartsInv
  <1>2. CASE Setup  BY <1>0, <1>2, SetupFacts DEF RestartsInv
  <1>3. CASE Move  BY <1>3 DEF Move, RestartsInv
  <1>4. CASE EndOfStep  BY <1>4 DEF EndOfStep, RestartsInv
  <1>5. CASE Write
    <2> SUFFICES ASSUME NEW n \in Kind("restart")' PROVE out'[n] = IF DueAt(O'[n], step') THEN 1 ELSE 0
      BY DEF RestartsInv
    <2>1. n \in Kind("restart") /\ n \in Outputs  BY <1>5, WriteFacts DEF Kind
    <2>2. n # "stats"  BY <2>1, ItemFacts DEF Kind, Types
    <2>3. IsNext(O[n], step - 1, nxt[n])  BY <1>5, <2>1, <2>2, WriteFacts, OutputTables
    <2>4. DueAt(O[n], step) <=> nxt[n] = step  BY <1>0, <2>3, Advance
    <2> QED  BY <1>5, <2>1, <2>4, WriteFacts
  <1>6. CASE NoOutput
    <2>1. /\ pc = "output" /\ pc' = "loop" /\ step # next /\ UNCHANGED <<script, out, step>>
      BY <1>6 DEF NoOutput
    <2>2. O' = O /\ Kind("restart")' = Kind("restart")  BY <2>1 DEF O, Kind, Outputs
    <2> SUFFICES ASSUME NEW n \in Kind("restart") PROVE out[n] = 0 /\ ~DueAt(O[n], step)
      BY <2>1, <2>2 DEF RestartsInv
    <2>3. n \in Outputs /\ n # "stats"  BY ItemFacts DEF Kind, Types
    <2>4. IsNext(O[n], step - 1, nxt[n]) /\ nxt[n] # step  BY <2>1, <2>3, OutputTables
    <2>5. ~DueAt(O[n], step)  BY <1>0, <2>4, Advance
    <2> QED  BY <2>1, <2>3, <2>5 DEF LastInv
  <1>7. CASE EndRun  BY <1>7 DEF EndRun, RestartsInv
  <1>8. CASE Reset  BY <1>8 DEF Reset, RestartsInv
  <1>9. CASE UNCHANGED vars
    <2>1. pc' = pc /\ UNCHANGED <<script, step, firststep, out>>  BY <1>9 DEF vars
    <2> QED  BY <2>1 DEF RestartsInv, O, Kind, Outputs
  <1> QED  BY <1>1, <1>2, <1>3, <1>4, <1>5, <1>6, <1>7, <1>8, <1>9 DEF Next

\* A variable for the statistics has a value in each run: Output::setup does
\* not cap it.
StatsInRun ==
  pc = "setup" /\ ByVariable("stats") /\ step < laststep => Variable("stats", step) <= laststep

Capped == InRun /\ Since < laststep => nxt["stats"] <= laststep
StatsInv ==
  pc = "loop" =>
    /\ step = firststep => out["stats"] >= 1
    /\ step > firststep => out["stats"] = IF step = laststep \/ DueAt(O["stats"], step) THEN 1 ELSE 0

LEMMA CappedStep ==
  Types /\ Control /\ NextInv /\ Capped /\ StatsInRun /\ [Next]_vars => Capped'
PROOF
  <1> SUFFICES ASSUME Types, Control, NextInv, Capped, StatsInRun, [Next]_vars
               PROVE  Capped'
    OBVIOUS
  <1>0. step \in Nat /\ laststep \in Nat /\ "stats" \in Outputs  BY ScriptFacts DEF Types
  <1>1. CASE StartRun  BY <1>1 DEF StartRun, Capped, InRun
  <1>2. CASE Setup
    <2>1. /\ pc = "setup" /\ pc' = "loop" /\ UNCHANGED <<step, laststep>>
          /\ nxt'["stats"] = FirstOf("stats") /\ HasLater("stats", step)
      BY <1>0, <1>2 DEF Setup
    <2>2. nxt'["stats"] = FirstStats  BY <2>1 DEF FirstOf
    <2>3. ASSUME step < laststep PROVE FirstStats <= laststep
      <3>1. CASE ByVariable("stats")
        <4>1. ~(O["stats"].every > 0)  BY <3>1 DEF ByVariable
        <4>2. FirstStats = Variable("stats", step)  BY <3>1, <4>1 DEF FirstStats
        <4> QED  BY <2>1, <2>3, <3>1, <4>2 DEF StatsInRun
      <3>2. CASE ~ByVariable("stats") /\ O["stats"].every > 0
        <4>1. IsNext(O["stats"], step, After("stats", step))
          BY <1>0, <2>1, <3>2, AfterIsNext DEF Types
        <4>2. FirstStats = Min({After("stats", step), laststep})  BY <3>2 DEF FirstStats
        <4> QED  BY <1>0, <2>3, <4>1, <4>2, CapIsNext
      <3>3. CASE ~ByVariable("stats") /\ ~(O["stats"].every > 0)
        <4>1. FirstStats = laststep  BY <3>3 DEF FirstStats
        <4> QED  BY <1>0, <4>1
      <3> QED  BY <3>1, <3>2, <3>3
    <2> QED  BY <2>1, <2>2, <2>3 DEF Capped, Since
  <1>3. CASE Move
    <2>1. /\ pc = "loop" /\ pc' = "fixes" /\ step < laststep /\ step' = step + 1
          /\ UNCHANGED <<laststep, nxt>>
      BY <1>3 DEF Move
    <2>2. Since' = Since /\ InRun  BY <1>0, <2>1 DEF Since, InRun
    <2> QED  BY <2>1, <2>2 DEF Capped
  <1>4. CASE EndOfStep
    <2>1. /\ pc = "fixes" /\ pc' = "output" /\ UNCHANGED <<laststep, nxt, step>>
      BY <1>4 DEF EndOfStep
    <2>2. Since' = Since /\ InRun  BY <2>1 DEF Since, InRun
    <2> QED  BY <2>1, <2>2 DEF Capped
  <1>5. CASE Write
    <2>1. /\ pc = "output" /\ pc' = "loop" /\ UNCHANGED <<laststep, step>>
          /\ nxt'["stats"] = IF nxt["stats"] = step THEN NextOf("stats") ELSE nxt["stats"]
          /\ nxt["stats"] = step => HasLater("stats", step)
      BY <1>0, <1>5 DEF Write
    <2>2. IsNextStats(O["stats"], laststep, step - 1, nxt["stats"])  BY <2>1, OutputTables
    <2>3. nxt["stats"] <= laststep
      <3>1. InRun /\ Since < laststep  BY <1>0, <2>1 DEF InRun, Since, Control
      <3> QED  BY <3>1 DEF Capped
    <2>4. ASSUME step < laststep, nxt["stats"] = step PROVE NextOf("stats") <= laststep
      <3>0. nxt["stats"] = step => step = laststep \/ DueAt(O["stats"], step)  BY <2>2 DEF IsNextStats
      <3>1. DueAt(O["stats"], step)  BY <1>0, <2>4, <3>0
      <3>2. NextStats <= laststep  BY <1>0, <2>1, <2>4, <3>1, NextStatsIsNext DEF Types
      <3> QED  BY <3>2 DEF NextOf
    <2> QED  BY <2>1, <2>3, <2>4 DEF Capped, Since
  <1>6. CASE NoOutput
    <2>1. /\ pc = "output" /\ pc' = "loop" /\ UNCHANGED <<laststep, step, nxt>>
      BY <1>6 DEF NoOutput
    <2>2. InRun /\ (step < laststep => Since < laststep)  BY <1>0, <2>1 DEF InRun, Since
    <2> QED  BY <2>1, <2>2 DEF Capped, Since
  <1>7. CASE EndRun  BY <1>7 DEF EndRun, Capped, InRun
  <1>8. CASE Reset  BY <1>8 DEF Reset, Capped, InRun
  <1>9. CASE UNCHANGED vars  BY <1>9 DEF vars, Capped, InRun, Since
  <1> QED  BY <1>1, <1>2, <1>3, <1>4, <1>5, <1>6, <1>7, <1>8, <1>9 DEF Next

LEMMA StatsTable ==
  ASSUME Types, Control, NextInv, Capped, pc \in {"fixes", "output"}
  PROVE  nxt["stats"] = step <=> step = laststep \/ DueAt(O["stats"], step)
PROOF
  <1>1. IsNextStats(O["stats"], laststep, step - 1, nxt["stats"])  BY OutputTables
  <1>2. step \in Nat /\ laststep \in Nat /\ step <= laststep  BY DEF Types, Control
  <1>3. nxt["stats"] <= laststep
    <2>1. InRun /\ Since < laststep  BY <1>2 DEF InRun, Since
    <2> QED  BY <2>1 DEF Capped
  <1>4. nxt["stats"] \in Nat /\ nxt["stats"] >= step  BY OutputTables, ScriptFacts DEF Types
  <1>5. step # laststep => (DueAt(O["stats"], step) <=> nxt["stats"] = step)
    BY <1>1, <1>2, Advance
  <1>6. nxt["stats"] = step => step = laststep \/ DueAt(O["stats"], step)
    BY <1>1 DEF IsNextStats
  <1> QED  BY <1>2, <1>3, <1>4, <1>5, <1>6

LEMMA StatsInvStep ==
  Types /\ Control /\ NextInv /\ LastInv /\ Capped /\ StatsInv /\ [Next]_vars => StatsInv'
PROOF
  <1> SUFFICES ASSUME Types, Control, NextInv, LastInv, Capped, StatsInv, [Next]_vars
               PROVE  StatsInv'
    OBVIOUS
  <1>0. step \in Nat /\ "stats" \in Outputs  BY ScriptFacts DEF Types
  <1>1. CASE StartRun  BY <1>1 DEF StartRun, StatsInv
  <1>2. CASE Setup
    <2>1. O["stats"].kind = "stats"  BY <1>0, ItemFacts DEF Types
    <2>2. WriteAtSetup("stats")  BY <2>1 DEF WriteAtSetup
    <2>3. out["stats"] \in Nat  BY <1>0 DEF Types
    <2> QED  BY <1>0, <1>2, <2>2, <2>3, SetupFacts DEF StatsInv
  <1>3. CASE Move  BY <1>3 DEF Move, StatsInv
  <1>4. CASE EndOfStep  BY <1>4 DEF EndOfStep, StatsInv
  <1>5. CASE Write  BY <1>0, <1>5, WriteFacts, StatsTable DEF StatsInv, Types
  <1>6. CASE NoOutput
    <2>1. /\ pc = "output" /\ pc' = "loop" /\ step # next /\ UNCHANGED <<script, out, step, firststep, laststep>>
      BY <1>6 DEF NoOutput
    <2>2. nxt["stats"] # step  BY <1>0, <2>1, OutputTables
    <2>3. out["stats"] = 0 /\ step > firststep  BY <1>0, <2>1 DEF LastInv, Control
    <2>4. ~(step = laststep \/ DueAt(O["stats"], step))  BY <2>1, <2>2, StatsTable
    <2>5. firststep \in Nat  BY DEF Types
    <2> QED  BY <1>0, <2>1, <2>3, <2>4, <2>5 DEF StatsInv, O
  <1>7. CASE EndRun  BY <1>7 DEF EndRun, StatsInv
  <1>8. CASE Reset  BY <1>8 DEF Reset, StatsInv
  <1>9. CASE UNCHANGED vars
    <2>1. pc' = pc /\ UNCHANGED <<script, step, firststep, laststep, out>>  BY <1>9 DEF vars
    <2> QED  BY <2>1 DEF StatsInv, O
  <1> QED  BY <1>1, <1>2, <1>3, <1>4, <1>5, <1>6, <1>7, <1>8, <1>9 DEF Next

-----------------------------------------------------------------------------
(* Windows of averages.                                                    *)

\* The first L samples of the window that ends on step B.
WinOf(f, B, L) == [j \in 1 .. L |-> B - (f.repeat - j) * f.every]
\* The next window to be filled ends on step B: it is empty and the first of
\* all, has L samples, or those of the last window are still there.
WindowTo(f, v, w, B) ==
  /\ B \in Nat /\ f.freq <= B /\ B % f.freq = 0
  /\ \/ w = <<>> /\ B = f.freq /\ f.repeat > 1 /\ v = B - (f.repeat - 1) * f.every
     \/ \E L \in 1 .. f.repeat - 1 :
          w = WinOf(f, B, L) /\ v = B - (f.repeat - (L + 1)) * f.every
     \/ w = WinOf(f, B - f.freq, f.repeat) /\ v = B - (f.repeat - 1) * f.every
InTime(f, w, B, t) == B - f.freq <= t /\ (Len(w) \in 1 .. f.repeat - 1 => B - f.freq < t)

\* Average i is to be made in the first setup.
Before(i) == /\ pc = "command" /\ FirstUpdate /\ step = 0
             /\ F[i].repeat = 1 /\ valid[i] = 0 /\ win[i] = <<>>
UnderwayAt(f, v, w, t, p) ==
  /\ \E B \in Nat : WindowTo(f, v, w, B) /\ InTime(f, w, B, t)
  /\ IF p = "fixes" THEN t <= v ELSE t < v
Underway(i) == UnderwayAt(F[i], valid[i], win[i], step, pc)
WinInv == \A i \in DOMAIN F : F[i].kind = "ave" => Before(i) \/ Underway(i)

\* What the code calls irepeat.
LEMMA RepeatFacts ==
  ASSUME NEW r \in Positive
  PROVE  /\ r % r = 0
         /\ \A x \in Nat : 0 < x /\ x < r => x % r # 0
         /\ r > 1 => (r + 1) % r # 0
         /\ r = 1 => \A x \in Nat : x % r = 0
PROOF
  <1>1. r \in Nat /\ r > 0 /\ r = 1 * r  BY DEF Positive
  <1>2. r % r = 0
    <2>1. (1 * r) % r = 0  BY MultipleOf
    <2> QED  BY <1>1, <2>1
  <1>3. ASSUME NEW x \in Nat, 0 < x, x < r PROVE x % r # 0
    <2>1. ~(0 + r <= x)  BY <1>1, <1>3
    <2>2. 0 % r = 0  BY MultipleOf
    <2> QED  BY <1>3, <2>1, <2>2, MultipleSums
  <1>4. ASSUME r > 1 PROVE (r + 1) % r # 0
    <2>1. ~(r + r <= r + 1) /\ r < r + 1 /\ r + 1 \in Nat  BY <1>1, <1>4
    <2> QED  BY <1>1, <1>2, <2>1, MultipleSums
  <1>5. ASSUME r = 1, NEW x \in Nat PROVE x % r = 0
    <2>1. (x * r) % r = 0  BY MultipleOf
    <2>2. x * r = x  BY <1>5
    <2> QED  BY <2>1, <2>2
  <1> QED  BY <1>2, <1>3, <1>4, <1>5

AveOK(f) == /\ f.every \in Positive /\ f.repeat \in Positive /\ f.freq \in Positive
            /\ f.freq % f.every = 0 /\ (f.repeat - 1) * f.every < f.freq

\* Samples are Nevery apart and after the last window.
LEMMA SampleTimes ==
  ASSUME NEW f, AveOK(f), NEW x \in Nat, x <= f.repeat - 1
  PROVE  /\ x * f.every \in Nat /\ (x + 1) * f.every = x * f.every + f.every
         /\ x * f.every <= (f.repeat - 1) * f.every /\ x * f.every < f.freq
         /\ (x * f.every) % f.every = 0
PROOF
  <1> DEFINE e == f.every
             r == f.repeat
  <1>1. e \in Nat /\ e > 0 /\ r \in Nat /\ r > 0 /\ f.freq \in Nat  BY DEF AveOK, Positive
  <1>2. (r - 1) * e < f.freq /\ e \in Positive  BY DEF AveOK
  <1>3. x <= r - 1  OBVIOUS
  <1> HIDE DEF e, r
  <1>4. x * e \in Nat /\ (x + 1) * e = x * e + e  BY <1>1
  <1>5. x * e <= (r - 1) * e /\ (r - 1) * e \in Int
    <2>1. (r - 1) * e \in Int /\ r - 1 \in Int  BY <1>1
    <2>2. r - 1 < x <=> (r - 1) * e < x * e  BY <1>1, <2>1, ProductMonotone
    <2> QED  BY <1>1, <1>3, <1>4, <2>1, <2>2
  <1>6. (x * e) % e = 0  BY <1>2, MultipleOf
  <1> QED  BY <1>1, <1>2, <1>4, <1>5, <1>6 DEF e, r

\* The next sample is due on a multiple of Nevery, up to the end of the window.
LEMMA ValidFacts ==
  ASSUME NEW f, AveOK(f), NEW v, NEW w, NEW B, WindowTo(f, v, w, B)
  PROVE  v \in Nat /\ v <= B /\ B - f.freq < v /\ v % f.every = 0
PROOF
  <1>1. f.every \in Positive /\ f.freq \in Positive /\ f.freq % f.every = 0 /\ f.repeat \in Nat /\ f.repeat > 0 /\ f.freq \in Nat
    BY DEF AveOK, Positive
  <1>2. B \in Nat /\ f.freq <= B /\ B % f.freq = 0  BY DEF WindowTo
  <1>3. B % f.every = 0  BY <1>1, <1>2, MultipleOf
  <1>4. PICK x \in Nat : x <= f.repeat - 1 /\ v = B - x * f.every
    <2>1. f.repeat - 1 \in Nat /\ f.repeat - 1 <= f.repeat - 1  BY <1>1
    <2>2. \A L \in 1 .. f.repeat - 1 : f.repeat - (L + 1) \in Nat /\ f.repeat - (L + 1) <= f.repeat - 1
      BY <1>1
    <2> QED  BY <2>1, <2>2 DEF WindowTo
  <1>5. x * f.every \in Nat /\ x * f.every < f.freq /\ (x * f.every) % f.every = 0
    BY <1>4, SampleTimes
  <1>6. v \in Nat /\ v <= B /\ B - f.freq < v  BY <1>1, <1>2, <1>4, <1>5
  <1>7. v % f.every = 0
    <2>1. PICK y \in Nat : y = x * f.every  BY <1>5
    <2>2. y % f.every = 0 /\ v = B - y /\ y <= B  BY <1>1, <1>2, <1>4, <1>5, <2>1
    <2>3. (B - y) % f.every = 0
      BY ONLY <1>1, <1>2, <1>3, <2>2, y \in Nat, MultipleSums
    <2> QED  BY <2>2, <2>3
  <1> QED  BY <1>6, <1>7

LEMMA AppendAsFunction ==
  ASSUME NEW s \in Seq(Int), NEW x \in Int, NEW L \in Nat, Len(s) = L
  PROVE  Append(s, x) = [j \in 1 .. L + 1 |-> IF j = L + 1 THEN x ELSE s[j]]
PROOF
  <1> DEFINE u == [j \in 1 .. L + 1 |-> IF j = L + 1 THEN x ELSE s[j]]
  <1>1. Append(s, x) \in Seq(Int) /\ Len(Append(s, x)) = L + 1
    BY AppendProperties
  <1>2. \A j \in 1 .. L : s[j] \in Int  BY ElementOfSeq
  <1>3. u \in Seq(Int) /\ Len(u) = L + 1
    <2>1. u \in [1 .. L + 1 -> Int]  BY <1>2
    <2> HIDE DEF u
    <2> QED  BY <2>1
  <1>4. ASSUME NEW j \in 1 .. L + 1 PROVE Append(s, x)[j] = u[j]
    <2>1. u[j] = IF j = L + 1 THEN x ELSE s[j]  OBVIOUS
    <2>2. CASE j = L + 1  BY <2>1, <2>2, AppendProperties
    <2>3. CASE j \in 1 .. L
      <3>1. Append(s, x)[j] = s[j]  BY <2>3, AppendProperties
      <3> QED  BY <2>1, <2>3, <3>1
    <2> QED  BY <2>2, <2>3
  <1> HIDE DEF u
  <1>5. Append(s, x) = u  BY <1>1, <1>3, <1>4, SeqEqual
  <1> QED  BY <1>5 DEF u

LEMMA WinOfFacts ==
  ASSUME NEW f, AveOK(f), NEW B \in Int, NEW L \in Nat
  PROVE  /\ Len(WinOf(f, B, L)) = L /\ WinOf(f, B, L) \in Seq(Int)
         /\ Append(WinOf(f, B, L), B - (f.repeat - (L + 1)) * f.every) = WinOf(f, B, L + 1)
         /\ WinOf(f, B, 1) = <<B - (f.repeat - 1) * f.every>>
PROOF
  <1>1. f.every \in Nat /\ f.repeat \in Nat  BY DEF AveOK, Positive
  <1>2. \A j \in Int : B - (f.repeat - j) * f.every \in Int  BY <1>1
  <1>3. ASSUME NEW M \in Nat PROVE WinOf(f, B, M) \in Seq(Int) /\ Len(WinOf(f, B, M)) = M
    <2>1. WinOf(f, B, M) \in [1 .. M -> Int]  BY <1>2 DEF WinOf
    <2> QED  BY <2>1
  <1>4. Append(WinOf(f, B, L), B - (f.repeat - (L + 1)) * f.every) = WinOf(f, B, L + 1)
    <2> DEFINE s == WinOf(f, B, L)
               x == B - (f.repeat - (L + 1)) * f.every
    <2>0. L + 1 \in Int  OBVIOUS
    <2>6. x \in Int  BY <1>2, <2>0
    <2>7. s \in Seq(Int) /\ Len(s) = L  BY <1>3
    <2>1. s \in Seq(Int) /\ Len(s) = L /\ x \in Int  BY <2>6, <2>7
    <2>2. \A j \in 1 .. L : s[j] = B - (f.repeat - j) * f.every  BY DEF WinOf
    <2>3. \A j \in 1 .. L + 1 : B - (f.repeat - j) * f.every = IF j = L + 1 THEN x ELSE s[j]
      <3> SUFFICES ASSUME NEW j \in 1 .. L + 1
                   PROVE  B - (f.repeat - j) * f.every = IF j = L + 1 THEN x ELSE s[j]
        OBVIOUS
      <3>1. CASE j = L + 1  BY <3>1
      <3>2. CASE j \in 1 .. L /\ j # L + 1  BY <2>2, <3>2
      <3> QED  BY <3>1, <3>2
    <2>5. WinOf(f, B, L + 1) = [j \in 1 .. L + 1 |-> IF j = L + 1 THEN x ELSE s[j]]
      BY <2>3 DEF WinOf
    <2> HIDE DEF s, x
    <2>4. Append(s, x) = [j \in 1 .. L + 1 |-> IF j = L + 1 THEN x ELSE s[j]]
      BY <2>1, AppendAsFunction
    <2> QED  BY <2>4, <2>5 DEF s, x
  <1>5. WinOf(f, B, 1) = <<B - (f.repeat - 1) * f.every>>
    BY DEF WinOf
  <1> QED  BY <1>3, <1>4, <1>5

NextUseOf(f, v, w, t) == IF (Len(w) + 1) % f.repeat # 0 THEN v + f.every
                         ELSE t + f.freq - (f.repeat - 1) * f.every
SampleOf(f, w, t) == IF Len(w) = f.repeat THEN <<t>> ELSE Append(w, t)

\* A sample that is made on its step goes on with the window, or ends it.
LEMMA SampleStep ==
  ASSUME NEW f, AveOK(f), NEW v, NEW w, NEW B, WindowTo(f, v, w, B)
  PROVE  /\ NextUseOf(f, v, w, v) > v
         /\ \E C \in Nat : /\ WindowTo(f, NextUseOf(f, v, w, v), SampleOf(f, w, v), C)
                           /\ InTime(f, SampleOf(f, w, v), C, v)
PROOF
  <1> DEFINE r == f.repeat
             e == f.every
             q == f.freq
  <1>1. r \in Positive /\ r \in Nat /\ r > 0 /\ e \in Nat /\ e > 0 /\ q \in Nat /\ q > 0 /\ q \in Positive
    BY DEF AveOK, Positive
  <1>2. B \in Nat /\ q <= B /\ B % q = 0 /\ v \in Nat /\ B - q < v /\ v <= B
    BY ValidFacts DEF WindowTo
  <1>3. (r - 1) * e \in Nat /\ (r - 1) * e < q /\ r - 1 \in Nat
    <2>1. r - 1 \in Nat  BY <1>1
    <2> QED  BY <2>1, SampleTimes
  <1>4. (B + q) % q = 0
    <2>1. q % q = 0  BY <1>1, RepeatFacts
    <2> QED  BY <1>1, <1>2, <2>1, MultipleSums
  \* One more sample, which is not the last.
  <1>5. ASSUME NEW L \in 0 .. r - 2, v = B - (r - (L + 1)) * e, SampleOf(f, w, v) = WinOf(f, B, L + 1),
               (Len(w) + 1) % r # 0
        PROVE  /\ NextUseOf(f, v, w, v) > v
               /\ \E C \in Nat : /\ WindowTo(f, NextUseOf(f, v, w, v), SampleOf(f, w, v), C)
                                 /\ InTime(f, SampleOf(f, w, v), C, v)
    <2>1. NextUseOf(f, v, w, v) = v + e  BY <1>5 DEF NextUseOf
    <2>2. r - (L + 2) \in Nat /\ r - (L + 2) <= r - 1 /\ r - (L + 1) = r - (L + 2) + 1 /\ L + 1 \in 1 .. r - 1
      BY <1>1
    <2>3. (r - (L + 1)) * e = (r - (L + 2)) * e + e /\ (r - (L + 2)) * e \in Nat
      BY <2>2, SampleTimes
    <2>4. v + e = B - (r - (L + 2)) * e
      <3>1. PICK p \in Nat : p = (r - (L + 2)) * e  BY <2>3
      <3>2. (r - (L + 1)) * e = p + e  BY <2>3, <3>1
      <3>3. v = B - (p + e)  BY <1>5, <3>2
      <3>4. v + e = B - p  BY <1>1, <1>2, <3>3
      <3> QED  BY <3>1, <3>4
    <2>5. (L + 1) + 1 = L + 2  OBVIOUS
    <2>6. WindowTo(f, v + e, WinOf(f, B, L + 1), B)  BY <1>2, <2>2, <2>4, <2>5 DEF WindowTo
    <2>7. InTime(f, WinOf(f, B, L + 1), B, v)  BY <1>1, <1>2 DEF InTime
    <2>8. v + e > v  BY <1>1, <1>2
    <2> QED  BY <1>2, <1>5, <2>1, <2>6, <2>7, <2>8
  \* The last sample of the window.
  <1>6. ASSUME v = B, SampleOf(f, w, v) = WinOf(f, B, r), (Len(w) + 1) % r = 0
        PROVE  /\ NextUseOf(f, v, w, v) > v
               /\ \E C \in Nat : /\ WindowTo(f, NextUseOf(f, v, w, v), SampleOf(f, w, v), C)
                                 /\ InTime(f, SampleOf(f, w, v), C, v)
    <2>1. NextUseOf(f, v, w, v) = B + q - (r - 1) * e  BY <1>6 DEF NextUseOf
    <2>2. PICK C \in Nat : C = B + q  BY <1>1, <1>2
    <2>3. q <= C /\ C - q = B /\ C % q = 0
      <3> HIDE DEF q
      <3>1. B \in Nat /\ q \in Nat  BY <1>1, <1>2
      <3>2. q <= C /\ C - q = B  BY <2>2, <3>1
      <3> QED  BY <1>4, <2>2, <3>2
    <2>4. WindowTo(f, C - (r - 1) * e, WinOf(f, B, r), C)
      <3>1. WinOf(f, C - q, r) = WinOf(f, B, r)  BY <2>3
      <3> QED  BY <2>3, <3>1 DEF WindowTo
    <2>5. Len(WinOf(f, B, r)) = r  BY <1>1, <1>2, WinOfFacts
    <2>6. InTime(f, WinOf(f, B, r), C, v)
      <3>1. r \notin 1 .. r - 1  BY <1>1
      <3>2. C - q <= v  BY <1>2, <1>6, <2>3
      <3>3. Len(WinOf(f, B, r)) \notin 1 .. f.repeat - 1  BY <2>5, <3>1
      <3> QED  BY <3>2, <3>3 DEF InTime
    <2>7. C - (r - 1) * e > v  BY <1>1, <1>2, <1>3, <1>6, <2>2
    <2>8. NextUseOf(f, v, w, v) = C - (r - 1) * e  BY <1>1, <1>2, <1>3, <2>1, <2>2
    <2> QED  BY <1>6, <2>4, <2>6, <2>7, <2>8
  <1>7. CASE w = <<>> /\ B = q /\ r > 1 /\ v = B - (r - 1) * e
    <2>1. Len(w) = 0 /\ SampleOf(f, w, v) = <<v>>  BY <1>1, <1>7 DEF SampleOf
    <2>2. WinOf(f, B, 1) = <<B - (r - 1) * e>>  BY <1>2, WinOfFacts
    <2>3. (Len(w) + 1) % r # 0  BY <1>1, <1>7, <2>1, RepeatFacts
    <2>4. 0 \in 0 .. r - 2 /\ 0 + 1 = 1  BY <1>1, <1>7
    <2>5. SampleOf(f, w, v) = WinOf(f, B, 0 + 1) /\ v = B - (r - (0 + 1)) * e
      BY <1>7, <2>1, <2>2, <2>4
    <2> QED  BY <1>5, <2>3, <2>4, <2>5
  <1>8. ASSUME NEW L \in 1 .. r - 1, w = WinOf(f, B, L), v = B - (r - (L + 1)) * e
        PROVE  /\ NextUseOf(f, v, w, v) > v
               /\ \E C \in Nat : /\ WindowTo(f, NextUseOf(f, v, w, v), SampleOf(f, w, v), C)
                                 /\ InTime(f, SampleOf(f, w, v), C, v)
    <2>1. Len(w) = L /\ L \in Nat  BY <1>2, <1>8, WinOfFacts
    <2>2. SampleOf(f, w, v) = Append(w, v)  BY <1>1, <2>1 DEF SampleOf
    <2>3. SampleOf(f, w, v) = WinOf(f, B, L + 1)
      <3>1. B \in Int /\ L \in Nat  BY <1>2, <2>1
      <3>2. Append(WinOf(f, B, L), B - (f.repeat - (L + 1)) * f.every) = WinOf(f, B, L + 1)
        BY <3>1, WinOfFacts
      <3> QED  BY <1>8, <2>2, <3>2
    <2>4. CASE L + 1 < r
      <3>1. (L + 1) % r # 0 /\ L \in 0 .. r - 2  BY <1>1, <2>1, <2>4, RepeatFacts
      <3> QED  BY <1>5, <1>8, <2>1, <2>3, <3>1
    <2>5. CASE L + 1 = r
      <3>1. (L + 1) % r = 0  BY <1>1, <2>5, RepeatFacts
      <3>2. r - (L + 1) = 0 /\ 0 * e = 0  BY <1>1, <2>5
      <3>3. v = B  BY <1>2, <1>8, <3>2
      <3> QED  BY <1>6, <2>1, <2>3, <2>5, <3>1, <3>3
    <2> QED  BY <1>1, <2>4, <2>5
  <1>9. CASE w = WinOf(f, B - q, r) /\ v = B - (r - 1) * e
    <2>1. Len(w) = r  BY <1>1, <1>2, <1>9, WinOfFacts
    <2>2. SampleOf(f, w, v) = <<v>>  BY <2>1 DEF SampleOf
    <2>3. WinOf(f, B, 1) = <<B - (r - 1) * e>>  BY <1>2, WinOfFacts
    <2>4. SampleOf(f, w, v) = WinOf(f, B, 1)  BY <1>9, <2>2, <2>3
    <2>5. CASE r = 1
      <3>1. (r + 1) % r = 0  BY <1>1, <2>5, RepeatFacts
      <3>2. r - 1 = 0 /\ 0 * e = 0  BY <1>1, <2>5
      <3>3. v = B  BY <1>2, <1>9, <3>2
      <3> QED  BY <1>6, <2>1, <2>4, <2>5, <3>1, <3>3
    <2>6. CASE r > 1
      <3>1. (r + 1) % r # 0  BY <1>1, <2>6, RepeatFacts
      <3>2. 0 \in 0 .. r - 2 /\ 0 + 1 = 1  BY <1>1, <2>6
      <3>3. SampleOf(f, w, v) = WinOf(f, B, 0 + 1) /\ v = B - (r - (0 + 1)) * e
        BY <1>9, <2>4, <3>2
      <3> QED  BY <1>5, <2>1, <3>1, <3>2, <3>3
    <2> QED  BY <1>1, <2>5, <2>6
  <1> QED  BY <1>7, <1>8, <1>9 DEF WindowTo

LEMMA AverageFacts ==
  ASSUME script \in Scripts, NEW i \in DOMAIN F, F[i].kind = "ave"
  PROVE  AveOK(F[i])
PROOF
  BY FixFacts DEF AveOK

LEMMA WinInvInit == Init => WinInv
PROOF
  <1> SUFFICES ASSUME Init, NEW i \in DOMAIN F, F[i].kind = "ave"
               PROVE  Before(i) \/ Underway(i)
    BY DEF WinInv
  <1>1. AveOK(F[i])  BY AverageFacts DEF Init
  <1>2. valid[i] = NextValid(F[i]) /\ win[i] = <<>> /\ step = 0 /\ pc = "command" /\ cmd = 1
    BY DEF Init
  <1>3. FirstUpdate  BY <1>2 DEF FirstUpdate
  <1>4. CASE F[i].repeat = 1
    <2>1. valid[i] = 0  BY <1>2, <1>4 DEF NextValid
    <2> QED  BY <1>2, <1>3, <1>4, <2>1 DEF Before
  <1>5. CASE F[i].repeat # 1
    <2>1. valid[i] = F[i].freq - (F[i].repeat - 1) * F[i].every
      BY <1>2, <1>5 DEF NextValid
    <2>2. F[i].freq \in Nat /\ F[i].freq \in Positive /\ F[i].repeat \in Nat /\ F[i].repeat > 0
          /\ (F[i].repeat - 1) * F[i].every < F[i].freq
      BY <1>1 DEF AveOK, Positive
    <2>3. F[i].freq % F[i].freq = 0  BY <2>2, RepeatFacts
    <2>4. WindowTo(F[i], valid[i], <<>>, F[i].freq)
      BY <1>5, <2>1, <2>2, <2>3 DEF WindowTo
    <2>5. Len(<<>>) \notin 1 .. F[i].repeat - 1  OBVIOUS
    <2>6. InTime(F[i], <<>>, F[i].freq, 0)  BY <2>2, <2>5 DEF InTime
    <2>7. 0 < valid[i]
      <3>1. valid[i] \in Nat /\ F[i].freq - F[i].freq < valid[i]  BY <1>1, <2>4, ValidFacts
      <3> QED  BY <2>2, <3>1
    <2> QED  BY <1>2, <2>2, <2>4, <2>6, <2>7 DEF Underway, UnderwayAt
  <1> QED  BY <1>4, <1>5

\* The first sample of an average of one sample, made in the first setup.
LEMMA FirstSample ==
  ASSUME NEW f, AveOK(f), f.repeat = 1
  PROVE  /\ NextUseOf(f, 0, <<>>, 0) = f.freq /\ SampleOf(f, <<>>, 0) = <<0>>
         /\ UnderwayAt(f, f.freq, <<0>>, 0, "setup")
PROOF
  <1>1. f.freq \in Nat /\ f.freq > 0 /\ f.freq \in Positive /\ f.every \in Nat
    BY DEF AveOK, Positive
  <1>2. f.repeat - 1 = 0 /\ 0 * f.every = 0  BY <1>1
  <1>3. (Len(<<>>) + 1) % f.repeat = 0  BY RepeatFacts DEF AveOK
  <1>4. NextUseOf(f, 0, <<>>, 0) = f.freq  BY <1>1, <1>2, <1>3 DEF NextUseOf
  <1>5. SampleOf(f, <<>>, 0) = <<0>>  BY DEF SampleOf
  <1>6. WinOf(f, f.freq - f.freq, f.repeat) = <<0>>
    <2>0. 0 \in Int /\ 1 \in Nat  OBVIOUS
    <2>1. WinOf(f, 0, 1) = <<0 - (f.repeat - 1) * f.every>>  BY <2>0, WinOfFacts
    <2>2. f.freq - f.freq = 0 /\ 0 - (f.repeat - 1) * f.every = 0  BY <1>1, <1>2
    <2> QED  BY <2>1, <2>2
  <1>7. WindowTo(f, f.freq, <<0>>, f.freq)
    <2>1. f.freq % f.freq = 0  BY <1>1, RepeatFacts
    <2>2. f.freq = f.freq - (f.repeat - 1) * f.every  BY <1>1, <1>2
    <2> QED  BY <1>1, <1>6, <2>1, <2>2 DEF WindowTo
  <1>8. InTime(f, <<0>>, f.freq, 0)  BY <1>1 DEF InTime
  <1> QED  BY <1>1, <1>4, <1>5, <1>7, <1>8 DEF UnderwayAt

\* What InvokeFixes does to an average.
LEMMA InvokeFacts ==
  ASSUME NEW act, InvokeFixes(act), NEW i \in DOMAIN F, F[i].kind = "ave", Types
  PROVE  /\ i \in act => /\ valid'[i] = NextUseOf(F[i], valid[i], win[i], step)
                         /\ win'[i] = SampleOf(F[i], win[i], step)
         /\ i \notin act => valid'[i] = valid[i] /\ win'[i] = win[i]
PROOF
  <1>1. NextUse(i) = NextUseOf(F[i], valid[i], win[i], step)  BY DEF NextUse, NextUseOf
  <1>2. Sample(i) = SampleOf(F[i], win[i], step)  BY DEF Sample, SampleOf
  <1> QED  BY <1>1, <1>2 DEF InvokeFixes

LEMMA WinInvStep == Types /\ Control /\ WinInv /\ [Next]_vars => WinInv'
PROOF
  <1> SUFFICES ASSUME Types, Control, WinInv, [Next]_vars, NEW i \in DOMAIN F', F'[i].kind = "ave"
               PROVE  Before(i)' \/ Underway(i)'
    BY DEF WinInv
  <1>1. script' = script /\ F' = F
    BY DEF Next, StartRun, Setup, Move, EndOfStep, Write, NoOutput, EndRun, Reset, vars, F
  <1>2. i \in DOMAIN F /\ F[i].kind = "ave" /\ AveOK(F[i])
    <2>1. i \in DOMAIN F /\ F[i].kind = "ave"  BY <1>1
    <2> QED  BY <2>1, AverageFacts DEF Types
  <1>3. Before(i) \/ Underway(i)  BY <1>2 DEF WinInv
  <1>4. ASSUME UnderwayAt(F[i], valid'[i], win'[i], step', pc') PROVE Underway(i)'
    BY <1>1, <1>4 DEF Underway
  <1>5. step \in Nat  BY DEF Types
  <1>6. CASE StartRun
    <2>1. step' = step /\ pc' = "setup" /\ pc \in {"command", "again"}  BY <1>6 DEF StartRun
    <2>2. PICK act : /\ act = IF Full THEN {j \in DOMAIN F : F[j].kind = "ave" /\ Acting(j)} ELSE {}
                     /\ InvokeFixes(act)
      BY <1>6 DEF StartRun
    <2>3. CASE Before(i)
      <3>1. Full /\ valid[i] = step /\ step = 0 /\ win[i] = <<>> /\ F[i].repeat = 1
        BY <2>3 DEF Before, Full
      <3>2. i \in act  BY <1>2, <2>2, <3>1 DEF Acting
      <3>3. valid'[i] = NextUseOf(F[i], 0, <<>>, 0) /\ win'[i] = SampleOf(F[i], <<>>, 0)
        BY <1>2, <2>2, <3>1, <3>2, InvokeFacts
      <3>4. UnderwayAt(F[i], valid'[i], win'[i], 0, "setup")
        BY <1>2, <3>1, <3>3, FirstSample
      <3> QED  BY <1>4, <2>1, <3>1, <3>4
    <2>4. CASE Underway(i)
      <3>1. step < valid[i]  BY <2>1, <2>4 DEF Underway, UnderwayAt
      <3>2. i \notin act  BY <1>2, <1>5, <2>2, <3>1 DEF Acting
      <3>3. valid'[i] = valid[i] /\ win'[i] = win[i]
        BY <1>2, <2>2, <3>2, InvokeFacts
      <3>4. UnderwayAt(F[i], valid'[i], win'[i], step', pc')
        BY <2>1, <2>4, <3>3 DEF Underway, UnderwayAt
      <3> QED  BY <1>4, <3>4
    <2> QED  BY <1>3, <2>3, <2>4
  <1>7. CASE EndOfStep
    <2>1. step' = step /\ pc' = "output" /\ pc = "fixes"  BY <1>7 DEF EndOfStep
    <2>2. PICK act : /\ act = {j \in DOMAIN F : step % F[j].every = 0 /\ Acting(j)}
                     /\ InvokeFixes(act)
      BY <1>7 DEF EndOfStep
    <2>3. Underway(i)  BY <1>3, <2>1 DEF Before
    <2>4. PICK B \in Nat : WindowTo(F[i], valid[i], win[i], B) /\ InTime(F[i], win[i], B, step)
      BY <2>3 DEF Underway, UnderwayAt
    <2>5. step <= valid[i] /\ valid[i] \in Nat /\ valid[i] % F[i].every = 0
      <3>1. step <= valid[i]  BY <2>1, <2>3 DEF Underway, UnderwayAt
      <3> QED  BY <1>2, <2>4, <3>1, ValidFacts
    <2>6. CASE valid[i] = step
      <3>1. i \in act  BY <1>2, <2>2, <2>5, <2>6 DEF Acting
      <3>2. /\ valid'[i] = NextUseOf(F[i], valid[i], win[i], valid[i])
            /\ win'[i] = SampleOf(F[i], win[i], valid[i])
        BY <1>2, <2>2, <2>6, <3>1, InvokeFacts
      <3>3. /\ valid'[i] > valid[i]
            /\ \E C \in Nat : WindowTo(F[i], valid'[i], win'[i], C) /\ InTime(F[i], win'[i], C, valid[i])
        BY <1>2, <2>4, <3>2, SampleStep
      <3>4. valid'[i] \in Nat  BY <1>2, <3>3, ValidFacts
      <3>5. step' < valid'[i]  BY <2>1, <2>5, <2>6, <3>3, <3>4
      <3>6. UnderwayAt(F[i], valid'[i], win'[i], step', pc')
        BY <2>1, <2>6, <3>3, <3>5 DEF UnderwayAt
      <3> QED  BY <1>4, <3>6
    <2>7. CASE valid[i] # step
      <3>1. i \notin act  BY <1>2, <2>2, <2>7 DEF Acting
      <3>2. valid'[i] = valid[i] /\ win'[i] = win[i]  BY <1>2, <2>2, <3>1, InvokeFacts
      <3>3. step < valid[i]  BY <1>5, <2>5, <2>7
      <3>4. UnderwayAt(F[i], valid'[i], win'[i], step', pc')
        BY <2>1, <2>4, <3>2, <3>3 DEF UnderwayAt
      <3> QED  BY <1>4, <3>4
    <2> QED  BY <2>6, <2>7
  <1>8. CASE Move
    <2>1. step' = step + 1 /\ pc = "loop" /\ pc' = "fixes" /\ valid' = valid /\ win' = win
      BY <1>8 DEF Move
    <2>2. Underway(i)  BY <1>3, <2>1 DEF Before
    <2>3. PICK B \in Nat : WindowTo(F[i], valid[i], win[i], B) /\ InTime(F[i], win[i], B, step)
      BY <2>2 DEF Underway, UnderwayAt
    <2>4. step < valid[i] /\ valid[i] \in Nat
      <3>1. step < valid[i]  BY <2>1, <2>2 DEF Underway, UnderwayAt
      <3> QED  BY <1>2, <2>3, <3>1, ValidFacts
    <2>5. F[i].freq \in Nat  BY <1>2 DEF AveOK, Positive
    <2>6. InTime(F[i], win[i], B, step + 1)  BY <1>5, <2>3, <2>5 DEF InTime
    <2>7. step + 1 <= valid[i]  BY <1>5, <2>4
    <2>8. UnderwayAt(F[i], valid'[i], win'[i], step', pc')
      BY <2>1, <2>3, <2>6, <2>7 DEF UnderwayAt
    <2> QED  BY <1>4, <2>8
  <1>9. CASE /\ pc \notin {"command", "fixes"} /\ pc' # "fixes"
             /\ step' = step /\ valid' = valid /\ win' = win
    <2>1. Underway(i)  BY <1>3, <1>9 DEF Before
    <2>2. UnderwayAt(F[i], valid'[i], win'[i], step', pc')
      BY <1>9, <2>1 DEF Underway, UnderwayAt
    <2> QED  BY <1>4, <2>2
  <1>10. CASE Setup \/ Write \/ NoOutput \/ EndRun
    BY <1>9, <1>10 DEF Setup, Write, NoOutput, EndRun
  <1>11. CASE Reset
    BY <1>2, <1>11 DEF Reset
  <1>12. CASE UNCHANGED vars
    <2>1. CASE Underway(i)
      BY <1>4, <1>12, <2>1 DEF Underway, vars
    <2>2. CASE Before(i)
      BY <1>1, <1>12, <2>2 DEF Before, FirstUpdate, vars
    <2> QED  BY <1>3, <2>1, <2>2
  <1> QED  BY <1>6, <1>7, <1>8, <1>10, <1>11, <1>12 DEF Next

\* The window that has just been filled.
LEMMA FullWindow ==
  ASSUME Types, WinInv, pc = "loop", NEW i \in DOMAIN F, F[i].kind = "ave",
         step % F[i].freq = 0, step > 0 \/ F[i].repeat = 1
  PROVE  win[i] = [j \in 1 .. F[i].repeat |-> step - (F[i].repeat - j) * F[i].every]
PROOF
  <1>1. AveOK(F[i])  BY AverageFacts DEF Types
  <1>2. Underway(i)  BY DEF WinInv, Before
  <1>3. PICK B \in Nat : WindowTo(F[i], valid[i], win[i], B) /\ InTime(F[i], win[i], B, step)
    BY <1>2 DEF Underway, UnderwayAt
  <1>4. step < valid[i]  BY <1>2 DEF Underway, UnderwayAt
  <1>5. step < B
    <2>1. valid[i] \in Nat /\ valid[i] <= B  BY <1>1, <1>3, ValidFacts
    <2> QED  BY <1>4, <2>1 DEF Types
  <1>6. /\ F[i].freq \in Positive /\ F[i].freq \in Nat /\ B % F[i].freq = 0 /\ F[i].freq <= B /\ step \in Nat
        /\ B - F[i].freq <= step /\ F[i].repeat \in Nat /\ F[i].repeat > 0
    BY <1>1, <1>3 DEF AveOK, Positive, WindowTo, InTime, Types
  <1>7. step + F[i].freq <= B  BY <1>5, <1>6, MultipleSums
  <1>8. B - F[i].freq = step  BY <1>6, <1>7
  <1>9. CASE win[i] = WinOf(F[i], B - F[i].freq, F[i].repeat)
    BY <1>8, <1>9 DEF WinOf
  <1>10. CASE win[i] = <<>> /\ B = F[i].freq /\ F[i].repeat > 1
    BY <1>6, <1>8, <1>10
  <1>11. CASE \E L \in 1 .. F[i].repeat - 1 : win[i] = WinOf(F[i], B, L)
    <2>1. PICK L \in 1 .. F[i].repeat - 1 : win[i] = WinOf(F[i], B, L)  BY <1>11
    <2>2. Len(win[i]) = L
      <3>1. L \in Nat  BY <2>1
      <3> QED  BY <1>1, <2>1, <3>1, WinOfFacts
    <2>3. B - F[i].freq < step  BY <1>3, <2>2 DEF InTime
    <2> QED  BY <1>6, <1>8, <2>3
  <1> QED  BY <1>3, <1>9, <1>10, <1>11 DEF WindowTo

-----------------------------------------------------------------------------
(* Requests of tallies.                                                    *)

\* The computes that output o uses on the steps on which it is written.
Uses(o) == o.uses \union (IF o.every = 0 /\ o.on # {} THEN o.when ELSE {})
InStats == Uses(O["stats"])
Asks == Outputs \ Kind("restart")

\* What the statistics use is asked for at the end of every run.  The commands
\* between runs, the fixes print and what a run without setup finds in the
\* variables of dumps use no more; a run without setup follows a run; variables
\* for restarts use no computes.
Foretold ==
  \A s \in Scripts :
    /\ \A i \in DOMAIN s.commands : s.commands[i].cmd = "run" =>
         /\ s.commands[i].uses \subseteq Uses(s.out["stats"])
         /\ ~s.commands[i].pre =>
              /\ s.commands[i].every = 0 /\ i > 1 => s.commands[i - 1].cmd = "run"
              /\ \A n \in DOMAIN s.out : s.out[n].kind = "dump" =>
                                           s.out[n].when \subseteq Uses(s.out["stats"])
    /\ \A n \in DOMAIN s.out : s.out[n].kind = "restart" => s.out[n].when = {}
    /\ \A i \in DOMAIN s.fixes : s.fixes[i].kind = "print" =>
         /\ s.out["stats"].every > 0 /\ s.fixes[i].every % s.out["stats"].every = 0
         /\ s.fixes[i].uses \subseteq Uses(s.out["stats"])

Current(c) == tallied[c] = step
UsedInv == used \subseteq Computes /\ TalliedWhenUsed
\* The outputs have told what they use of their next steps.
AskInv ==
  InRun => \A n \in Asks : \A c \in Uses(O[n]) :
    /\ nxt[n] > step => nxt[n] \in told[c]
    /\ nxt[n] = step /\ pc # "loop" => Current(c)
\* The averages have told what they use of their next samples.
AveInv ==
  \A i \in DOMAIN F : F[i].kind = "ave" => \A c \in F[i].uses :
    /\ valid[i] > step => valid[i] \in told[c]
    /\ valid[i] = step /\ pc = "fixes" => Current(c)
AfterRun == pc = "command" /\ cmd > 1 /\ script.commands[cmd - 1].cmd = "run"
\* The tallies that the statistics use are of the last step of a run, when it
\* has ended, and until the next one is set up.
EndInv ==
  /\ pc = "again" \/ (pc = "loop" /\ step = laststep) \/ AfterRun => \A c \in InStats : Current(c)
  /\ AfterRun => \A n \in Kind("dump") : Settled(n)
  /\ pc = "setup" => \/ \A c \in Computes : Current(c)
                     \/ /\ \A c \in InStats : Current(c)
                        /\ \A n \in Kind("dump") : Settled(n) /\ O[n].when \subseteq InStats
ToldInv == UsedInv /\ AskInv /\ AveInv /\ EndInv

LEMMA UsesFacts ==
  ASSUME script \in Scripts, NEW n \in Outputs
  PROVE  /\ Invoked(n, TRUE) = Uses(O[n]) /\ Uses(O[n]) \subseteq Computes
         /\ \A w \in BOOLEAN : Invoked(n, w) \subseteq Uses(O[n])
         /\ Invoked(n, FALSE) \subseteq O[n].when
PROOF
  BY ItemFacts DEF Invoked, Uses, ByVariable

LEMMA ForetoldFacts ==
  ASSUME Foretold, script \in Scripts
  PROVE  /\ \A i \in DOMAIN script.commands : script.commands[i].cmd = "run" =>
              /\ script.commands[i].uses \subseteq InStats
              /\ ~script.commands[i].pre =>
                   /\ script.commands[i].every = 0 /\ i > 1 => script.commands[i - 1].cmd = "run"
                   /\ \A n \in Kind("dump") : O[n].when \subseteq InStats
         /\ \A n \in Kind("restart") : Uses(O[n]) = {}
         /\ \A i \in DOMAIN F : F[i].kind = "print" =>
              /\ O["stats"].every > 0 /\ F[i].every % O["stats"].every = 0
              /\ F[i].uses \subseteq InStats
PROOF
  <1>1. \A n \in Kind("restart") : O[n].when = {} /\ O[n].uses = {}
    BY ItemFacts DEF Foretold, Kind, Outputs, O
  <1>2. \A n \in Kind("restart") : Uses(O[n]) = {}  BY <1>1 DEF Uses
  <1> QED  BY <1>2 DEF Foretold, Kind, Outputs, O, F, InStats

LEMMA TellFacts ==
  ASSUME Types, NEW req, Tell(req), NEW c \in Computes
  PROVE  told[c] \subseteq told'[c] /\ \A t : <<c, t>> \in req => t \in told'[c]
PROOF
  <1>1. told'[c] = told[c] \union {r[2] : r \in {q \in req : q[1] = c}}
    BY DEF Tell
  <1>2. ASSUME NEW t, <<c, t>> \in req PROVE t \in {r[2] : r \in {q \in req : q[1] = c}}
    <2>1. <<c, t>> \in {q \in req : q[1] = c}  BY <1>2
    <2> QED  BY <2>1
  <1> QED  BY <1>1, <1>2

LEMMA StatsAsk ==
  ASSUME Types
  PROVE  "stats" \in Outputs /\ "stats" \in Asks /\ InStats \subseteq Computes
PROOF
  <1>1. "stats" \in Outputs  BY ScriptFacts DEF Types
  <1>2. O["stats"].kind = "stats"  BY <1>1, ItemFacts DEF Types
  <1> QED  BY <1>1, <1>2, UsesFacts DEF Types, Asks, Kind, InStats

\* On a step with statistics their computes are asked.
LEMMA StatsStep ==
  ASSUME Types, Control, NextInv, Capped, AskInv, pc \in {"fixes", "output"},
         step = laststep \/ DueAt(O["stats"], step)
  PROVE  nxt["stats"] = step /\ \A c \in InStats : Current(c)
PROOF
  <1>1. nxt["stats"] = step  BY StatsTable
  <1>2. InRun /\ pc # "loop"  BY DEF InRun
  <1> QED  BY <1>1, <1>2, StatsAsk DEF AskInv, InStats

LEMMA ToldInit == Init => ToldInv
PROOF
  <1> SUFFICES ASSUME Init PROVE ToldInv
    OBVIOUS
  <1>1. used = {} /\ pc = "command" /\ cmd = 1  BY DEF Init
  <1>2. UsedInv /\ AskInv /\ EndInv
    BY <1>1 DEF UsedInv, TalliedWhenUsed, AskInv, EndInv, InRun, AfterRun
  <1>3. ASSUME NEW i \in DOMAIN F, F[i].kind = "ave", NEW c \in F[i].uses
        PROVE  valid[i] \in told[c]
    <2>1. c \in Computes  BY <1>3, FixFacts DEF Init
    <2>2. told[c] = {valid[j] : j \in {k \in DOMAIN F : F[k].kind = "ave"}}
      BY <2>1 DEF Init
    <2> QED  BY <1>3, <2>2
  <1>4. AveInv  BY <1>1, <1>3 DEF AveInv
  <1> QED  BY <1>2, <1>4 DEF ToldInv

LEMMA SameScript ==
  ASSUME script' = script
  PROVE  /\ O' = O /\ Outputs' = Outputs /\ F' = F /\ Asks' = Asks /\ InStats' = InStats
         /\ Kind("dump")' = Kind("dump")
         /\ UNCHANGED <<step, last, out>> => \A n \in Kind("dump") : Settled(n)' = Settled(n)
         /\ UNCHANGED <<step, tallied>> => \A c : Current(c)' = Current(c)
PROOF
  BY DEF O, Outputs, F, Asks, InStats, Kind, Settled, DueDump, Current

LEMMA ToldStartRun ==
  ASSUME Foretold, Types, Control, DumpsInv, ToldInv, StartRun
  PROVE  ToldInv'
PROOF
  <1>0. script \in Scripts /\ script' = script /\ step' = step /\ step \in Nat
    BY DEF Types, StartRun
  <1>1. /\ pc \in {"command", "again"} /\ pc' = "setup" /\ UNCHANGED <<cmd, last, out>>
        /\ tallied' = IF Full THEN [c \in Computes |-> step] ELSE tallied
    BY DEF StartRun
  <1>2. PICK act : /\ act = IF Full THEN {i \in DOMAIN F : F[i].kind = "ave" /\ Acting(i)} ELSE {}
                   /\ InvokeFixes(act)
                   /\ Tell(FixRequests(act) \union (IF Full THEN Computes \X {step} ELSE {}))
                   /\ used' = used \union FixUses(act)
    BY DEF StartRun
  <1>3. act \subseteq DOMAIN F /\ \A i \in act : F[i].kind = "ave" /\ valid[i] = step
    BY <1>2 DEF Acting
  <1>4. AskInv'  BY <1>1 DEF AskInv, InRun
  <1>5. AveInv'
    <2> SUFFICES ASSUME NEW i \in DOMAIN F, F[i].kind = "ave", NEW c \in F[i].uses,
                        valid'[i] > step
                 PROVE  valid'[i] \in told'[c]
      BY <1>0, <1>1, SameScript DEF AveInv
    <2>1. c \in Computes  BY <1>0, FixFacts
    <2>2. CASE i \in act
      <3>1. valid'[i] = NextUse(i)  BY <1>2, <2>2 DEF InvokeFixes
      <3>2. <<c, NextUse(i)>> \in FixRequests(act)  BY <2>2 DEF FixRequests
      <3> QED  BY <1>2, <2>1, <3>1, <3>2, TellFacts
    <2>3. CASE i \notin act
      <3>1. valid'[i] = valid[i]  BY <1>2, <2>3 DEF InvokeFixes
      <3>2. valid[i] \in told[c]  BY <3>1 DEF ToldInv, AveInv
      <3> QED  BY <1>2, <2>1, <3>1, <3>2, TellFacts
    <2> QED  BY <2>2, <2>3
  <1>6. CASE Full
    <2>1. \A c \in Computes : Current(c)'  BY <1>0, <1>1, <1>6 DEF Current
    <2>2. FixUses(act) \subseteq Computes  BY <1>0, <1>3, FixFacts DEF FixUses
    <2>3. used' \subseteq Computes  BY <1>2, <2>2 DEF ToldInv, UsedInv
    <2>4. UsedInv'  BY <2>1, <2>3 DEF UsedInv, TalliedWhenUsed, Current
    <2>5. EndInv'  BY <1>1, <2>1 DEF EndInv, AfterRun
    <2> QED  BY <1>4, <1>5, <2>4, <2>5 DEF ToldInv
  <1>7. CASE ~Full
    <2>1. used' = used /\ tallied' = tallied
      BY <1>1, <1>2, <1>7 DEF FixUses
    <2>2. UsedInv'  BY <1>0, <2>1 DEF ToldInv, UsedInv, TalliedWhenUsed
    <2>3. cmd \in DOMAIN script.commands /\ Command.cmd = "run"
      BY <1>0, ScriptFacts DEF Types, StartRun
    <2>4. ~Command.pre /\ (pc = "command" => ~(Command.every > 0) /\ ~FirstUpdate)
      BY <1>7 DEF Full
    <2>5. \A n \in Kind("dump") : O[n].when \subseteq InStats
      BY <1>0, <2>3, <2>4, ForetoldFacts DEF Command
    <2>6. pc = "command" => AfterRun
      <3> SUFFICES ASSUME pc = "command" PROVE AfterRun
        OBVIOUS
      <3>1. Command.every = 0
        BY <1>0, <2>3, <2>4, RunFacts DEF Command
      <3>2. cmd > 1  BY <2>4 DEF FirstUpdate, Types
      <3>3. script.commands[cmd - 1].cmd = "run"
        BY <1>0, <2>3, <2>4, <3>1, <3>2, ForetoldFacts DEF Command
      <3> QED  BY <3>2, <3>3 DEF AfterRun
    <2>7. \A c \in InStats : Current(c)  BY <1>1, <2>6 DEF ToldInv, EndInv
    <2>8. \A n \in Kind("dump") : Settled(n)  BY <1>1, <2>6 DEF ToldInv, EndInv, DumpsInv
    <2>9. EndInv'
      <3>1. pc' = "setup" /\ ~AfterRun'  BY <1>1 DEF AfterRun
      <3>2. /\ O' = O /\ Kind("dump")' = Kind("dump") /\ InStats' = InStats
            /\ \A n \in Kind("dump") : Settled(n)'
            /\ \A c \in InStats : Current(c)'
        BY <1>0, <1>1, <2>1, <2>7, <2>8, SameScript
      <3> QED  BY <2>5, <3>1, <3>2 DEF EndInv
    <2> QED  BY <1>4, <1>5, <2>2, <2>9 DEF ToldInv
  <1> QED  BY <1>6, <1>7

LEMMA ToldSetup ==
  ASSUME Foretold, Types, Control, DumpsInv, ToldInv, Setup
  PROVE  ToldInv'
PROOF
  <1>0. script \in Scripts /\ script' = script /\ step' = step /\ step \in Nat
    BY DEF Types, Setup
  <1>1. /\ pc = "setup" /\ pc' = "loop" /\ UNCHANGED <<valid, tallied>>
        /\ Tell(SetupRequests)
        /\ used' = used \union UNION {Invoked(n, WriteAtSetup(n)) : n \in Outputs}
        /\ \A n \in Outputs : nxt'[n] = FirstOf(n)
    BY DEF Setup
  <1>2. AskInv'
    <2> SUFFICES ASSUME NEW n \in Asks, NEW c \in Uses(O[n]) PROVE nxt'[n] \in told'[c]
      BY <1>0, <1>1, SameScript DEF AskInv
    <2>1. n \in Outputs /\ n \notin Kind("restart")  BY DEF Asks
    <2>2. c \in Computes /\ c \in Invoked(n, TRUE)  BY <1>0, <2>1, UsesFacts
    <2>3. <<c, FirstOf(n)>> \in SetupRequests
      <3> DEFINE Asked(m) == IF O[m].kind = "dump" /\ ~WriteAtSetup(m) THEN Computes ELSE Invoked(m, TRUE)
      <3>1. <<c, FirstOf(n)>> \in Asked(n) \X {FirstOf(n)}  BY <2>2
      <3>2. SetupRequests = UNION {Asked(m) \X {FirstOf(m)} : m \in Outputs \ Kind("restart")}
        BY DEF SetupRequests
      <3> HIDE DEF Asked
      <3> QED  BY <2>1, <3>1, <3>2
    <2> QED  BY <1>1, <2>1, <2>2, <2>3, TellFacts
  <1>3. AveInv'
    <2> SUFFICES ASSUME NEW i \in DOMAIN F, F[i].kind = "ave", NEW c \in F[i].uses, valid[i] > step
                 PROVE  valid[i] \in told'[c]
      BY <1>0, <1>1, SameScript DEF AveInv
    <2>1. c \in Computes  BY <1>0, FixFacts
    <2>2. valid[i] \in told[c]  BY DEF ToldInv, AveInv
    <2> QED  BY <1>1, <2>1, <2>2, TellFacts
  <1>4. \A c \in InStats : Current(c)
    BY <1>1, StatsAsk DEF ToldInv, EndInv
  <1>5. ASSUME NEW n \in Outputs, NEW c \in Invoked(n, WriteAtSetup(n)) PROVE c \in Computes /\ Current(c)
    <2>1. O[n].kind \in {"dump", "restart", "stats"} /\ (O[n].kind = "stats" <=> n = "stats")
      BY <1>0, ItemFacts
    <2>2. WriteAtSetup(n) \in BOOLEAN  BY <2>1 DEF WriteAtSetup
    <2>3. c \in Uses(O[n]) /\ c \in Computes  BY <1>0, <1>5, <2>2, UsesFacts
    <2>4. CASE \A d \in Computes : Current(d)  BY <2>3, <2>4
    <2>5. CASE \A m \in Kind("dump") : Settled(m) /\ O[m].when \subseteq InStats
      <3>1. CASE O[n].kind = "dump"
        <4>1. n \in Kind("dump")  BY <3>1 DEF Kind
        <4>2. ~WriteAtSetup(n)  BY <2>5, <4>1, SettledIsWritten
        <4>3. WriteAtSetup(n) = FALSE  BY <2>2, <4>2
        <4>4. c \in Invoked(n, FALSE)  BY <1>5, <4>3
        <4>5. c \in O[n].when  BY <1>0, <4>4, UsesFacts
        <4> QED  BY <1>4, <2>3, <2>5, <4>1, <4>5
      <3>2. CASE O[n].kind = "restart"
        <4>1. n \in Kind("restart")  BY <3>2 DEF Kind
        <4> QED  BY <1>0, <2>3, <4>1, ForetoldFacts
      <3>3. CASE n = "stats"
        BY <1>4, <2>3, <3>3 DEF InStats
      <3> QED  BY <2>1, <3>1, <3>2, <3>3
    <2> QED  BY <1>1, <2>4, <2>5 DEF ToldInv, EndInv
  <1>6. UsedInv'
    BY <1>0, <1>1, <1>5 DEF ToldInv, UsedInv, TalliedWhenUsed, Current
  <1>7. EndInv'
    <2>1. pc' = "loop" /\ ~AfterRun'  BY <1>1 DEF AfterRun
    <2>2. \A c \in InStats' : Current(c)'  BY <1>0, <1>1, <1>4, SameScript
    <2> QED  BY <2>1, <2>2 DEF EndInv
  <1> QED  BY <1>2, <1>3, <1>6, <1>7 DEF ToldInv

LEMMA ToldMove ==
  ASSUME Types, Control, NextInv, ToldInv, WinInv, Move
  PROVE  ToldInv'
PROOF
  <1>0. script \in Scripts /\ script' = script /\ step \in Nat /\ step' = step + 1
    BY DEF Types, Move
  <1>1. /\ pc = "loop" /\ pc' = "fixes" /\ step < laststep /\ UNCHANGED <<valid, nxt>> /\ used' = {}
    BY DEF Move
  <1>2. ASSUME NEW c \in Computes
        PROVE  /\ step' \in told[c] => tallied'[c] = step'
               /\ \A t \in told[c] : t >= step' => t \in told'[c]
    BY DEF Move
  <1>3. UsedInv'  BY <1>1 DEF UsedInv, TalliedWhenUsed
  <1>4. AskInv'
    <2> SUFFICES ASSUME NEW n \in Asks, NEW c \in Uses(O[n])
                 PROVE  /\ nxt[n] > step' => nxt[n] \in told'[c]
                        /\ nxt[n] = step' => tallied'[c] = step'
      BY <1>0, <1>1, SameScript DEF AskInv, Current
    <2>1. n \in Outputs /\ c \in Computes  BY <1>0, UsesFacts DEF Asks
    <2>2. nxt[n] \in Nat
      <3>1. InRun /\ Since = step  BY <1>1 DEF InRun, Since
      <3> QED  BY <1>1, <2>1, <3>1 DEF NextInv, IsNext, IsNextStats
    <2>3. nxt[n] > step => nxt[n] \in told[c]  BY <1>1 DEF ToldInv, AskInv, InRun
    <2> QED  BY <1>0, <1>2, <2>1, <2>2, <2>3
  <1>5. AveInv'
    <2> SUFFICES ASSUME NEW i \in DOMAIN F, F[i].kind = "ave", NEW c \in F[i].uses
                 PROVE  /\ valid[i] > step' => valid[i] \in told'[c]
                        /\ valid[i] = step' => tallied'[c] = step'
      BY <1>0, <1>1, SameScript DEF AveInv, Current
    <2>1. c \in Computes  BY <1>0, FixFacts
    <2>2. valid[i] \in Nat
      <3>1. Underway(i)  BY <1>1 DEF WinInv, Before
      <3> QED  BY <1>0, <3>1, AverageFacts, ValidFacts DEF Underway, UnderwayAt
    <2>3. valid[i] > step => valid[i] \in told[c]  BY DEF ToldInv, AveInv
    <2> QED  BY <1>0, <1>2, <2>1, <2>2, <2>3
  <1>6. EndInv'  BY <1>1 DEF EndInv, AfterRun
  <1> QED  BY <1>3, <1>4, <1>5, <1>6 DEF ToldInv

LEMMA ToldEndOfStep ==
  ASSUME Foretold, Types, Control, NextInv, Capped, ToldInv, EndOfStep
  PROVE  ToldInv'
PROOF
  <1>0. script \in Scripts /\ script' = script /\ step \in Nat /\ step' = step
    BY DEF Types, EndOfStep
  <1>1. pc = "fixes" /\ pc' = "output" /\ UNCHANGED <<nxt, tallied>>
    BY DEF EndOfStep
  <1>2. PICK act : /\ act = {i \in DOMAIN F : step % F[i].every = 0 /\ Acting(i)}
                   /\ InvokeFixes(act) /\ Tell(FixRequests(act)) /\ used' = used \union FixUses(act)
    BY DEF EndOfStep
  <1>3. ASSUME NEW i \in act, NEW c \in F[i].uses PROVE c \in Computes /\ Current(c)
    <2>1. i \in DOMAIN F /\ step % F[i].every = 0 /\ Acting(i)  BY <1>2
    <2>2. c \in Computes /\ F[i].kind \in {"ave", "print"} /\ F[i].every \in Positive
      BY <1>0, <2>1, FixFacts
    <2>3. CASE F[i].kind = "ave"
      BY <1>1, <2>1, <2>2, <2>3 DEF Acting, ToldInv, AveInv
    <2>4. CASE F[i].kind = "print"
      <3>1. O["stats"].every > 0 /\ F[i].every % O["stats"].every = 0 /\ F[i].uses \subseteq InStats
        BY <1>0, <2>1, <2>4, ForetoldFacts
      <3>2. "stats" \in Outputs  BY StatsAsk
      <3>3. O["stats"].every \in Positive  BY <1>0, <3>1, <3>2, ItemFacts DEF Positive
      <3>4. step % O["stats"].every = 0  BY <1>0, <2>1, <2>2, <3>1, <3>3, MultipleOf
      <3>5. DueAt(O["stats"], step)  BY <3>1, <3>4 DEF DueAt
      <3>6. \A d \in InStats : Current(d)  BY <1>1, <3>5, StatsStep DEF ToldInv
      <3> QED  BY <2>2, <3>1, <3>6
    <2> QED  BY <2>2, <2>3, <2>4
  <1>4. \A c \in FixUses(act) : c \in Computes /\ Current(c)  BY <1>3 DEF FixUses
  <1>5. UsedInv'
    BY <1>0, <1>1, <1>2, <1>4 DEF ToldInv, UsedInv, TalliedWhenUsed, Current
  <1>6. AskInv'
    <2> SUFFICES ASSUME NEW n \in Asks, NEW c \in Uses(O[n])
                 PROVE  /\ nxt[n] > step => nxt[n] \in told'[c]
                        /\ nxt[n] = step => tallied[c] = step
      BY <1>0, <1>1, SameScript DEF AskInv, Current
    <2>1. c \in Computes  BY <1>0, UsesFacts DEF Asks
    <2>2. /\ nxt[n] > step => nxt[n] \in told[c]
          /\ nxt[n] = step => tallied[c] = step
      BY <1>1 DEF ToldInv, AskInv, InRun, Current
    <2> QED  BY <1>2, <2>1, <2>2, TellFacts
  <1>7. AveInv'
    <2> SUFFICES ASSUME NEW i \in DOMAIN F, F[i].kind = "ave", NEW c \in F[i].uses, valid'[i] > step
                 PROVE  valid'[i] \in told'[c]
      BY <1>0, <1>1, SameScript DEF AveInv
    <2>1. c \in Computes  BY <1>0, FixFacts
    <2>2. CASE i \in act
      <3>1. valid'[i] = NextUse(i)  BY <1>2, <2>2 DEF InvokeFixes
      <3>2. <<c, NextUse(i)>> \in FixRequests(act)  BY <2>2 DEF FixRequests
      <3> QED  BY <1>2, <2>1, <3>1, <3>2, TellFacts
    <2>3. CASE i \notin act
      <3>1. valid'[i] = valid[i]  BY <1>2, <2>3 DEF InvokeFixes
      <3>2. valid[i] \in told[c]  BY <3>1 DEF ToldInv, AveInv
      <3> QED  BY <1>2, <2>1, <3>1, <3>2, TellFacts
    <2> QED  BY <2>2, <2>3
  <1>8. EndInv'  BY <1>1 DEF EndInv, AfterRun
  <1> QED  BY <1>5, <1>6, <1>7, <1>8 DEF ToldInv

LEMMA ToldWrite ==
  ASSUME Foretold, Types, Control, NextInv, Capped, LastInv, ToldInv, Write
  PROVE  ToldInv'
PROOF
  <1>0. script \in Scripts /\ script' = script /\ step \in Nat /\ step' = step
    BY DEF Types, Write
  <1>1. pc = "output" /\ pc' = "loop" /\ UNCHANGED <<valid, tallied, laststep>>
    BY DEF Write
  <1> DEFINE due     == {n \in Outputs : nxt[n] = step}
             written == {n \in due : NotYet(n, due)}
  <1>2. /\ \A n \in Outputs : nxt'[n] = IF n \in due THEN NextOf(n) ELSE nxt[n]
        /\ used' = used \union UNION {Invoked(n, n \in written) : n \in due}
        /\ Tell(UNION {Invoked(n, n \in written) \X {NextOf(n)} : n \in due})
    BY DEF Write
  <1>3. \A n \in due : n \in Outputs /\ nxt[n] = step /\ n \in written
    <2>1. \A n \in Outputs : last[n] < step /\ last[n] \in Int  BY <1>1 DEF LastInv, Types
    <2> QED  BY <1>0, <2>1 DEF NotYet
  <1> HIDE DEF due, written
  <1>4. ASSUME NEW n \in due PROVE Invoked(n, n \in written) = Uses(O[n])
    <2>1. (n \in written) = TRUE  BY <1>3
    <2> QED  BY <1>0, <1>3, <2>1, UsesFacts
  <1>5. ASSUME NEW n \in due, NEW c \in Uses(O[n]) PROVE c \in Computes /\ Current(c)
    <2>1. c \in Computes  BY <1>0, <1>3, UsesFacts
    <2>2. CASE n \in Kind("restart")  BY <1>0, <2>2, ForetoldFacts
    <2>3. CASE n \notin Kind("restart")
      <3>1. n \in Asks  BY <1>3, <2>3 DEF Asks
      <3> QED  BY <1>1, <1>3, <2>1, <3>1 DEF ToldInv, AskInv, InRun
    <2> QED  BY <2>2, <2>3
  <1>6. UsedInv'
    <2>1. \A c \in UNION {Invoked(n, n \in written) : n \in due} : c \in Computes /\ Current(c)
      BY <1>4, <1>5
    <2> QED  BY <1>0, <1>1, <1>2, <2>1 DEF ToldInv, UsedInv, TalliedWhenUsed, Current
  <1>7. AskInv'
    <2> SUFFICES ASSUME NEW n \in Asks, NEW c \in Uses(O[n]), nxt'[n] > step
                 PROVE  nxt'[n] \in told'[c]
      BY <1>0, <1>1, SameScript DEF AskInv
    <2>1. n \in Outputs /\ c \in Computes  BY <1>0, UsesFacts DEF Asks
    <2>2. CASE n \in due
      <3>1. c \in Invoked(n, n \in written)  BY <1>4, <2>2
      <3>2. <<c, NextOf(n)>> \in UNION {Invoked(m, m \in written) \X {NextOf(m)} : m \in due}
        BY <2>2, <3>1
      <3> QED  BY <1>2, <2>1, <2>2, <3>2, TellFacts
    <2>3. CASE n \notin due
      <3>1. nxt'[n] = nxt[n]  BY <1>2, <2>1, <2>3
      <3>2. nxt[n] \in told[c]  BY <1>1, <3>1 DEF ToldInv, AskInv, InRun
      <3> QED  BY <1>2, <2>1, <3>1, <3>2, TellFacts
    <2> QED  BY <2>2, <2>3
  <1>8. AveInv'
    <2> SUFFICES ASSUME NEW i \in DOMAIN F, F[i].kind = "ave", NEW c \in F[i].uses, valid[i] > step
                 PROVE  valid[i] \in told'[c]
      BY <1>0, <1>1, SameScript DEF AveInv
    <2>1. c \in Computes  BY <1>0, FixFacts
    <2>2. valid[i] \in told[c]  BY DEF ToldInv, AveInv
    <2> QED  BY <1>2, <2>1, <2>2, TellFacts
  <1>9. EndInv'
    <2>1. pc' = "loop" /\ ~AfterRun'  BY <1>1 DEF AfterRun
    <2>2. step = laststep => \A c \in InStats : Current(c)  BY <1>1, StatsStep DEF ToldInv
    <2>3. step' = laststep' => \A c \in InStats' : Current(c)'
      BY <1>0, <1>1, <2>2, SameScript
    <2> QED  BY <2>1, <2>3 DEF EndInv
  <1> QED  BY <1>6, <1>7, <1>8, <1>9 DEF ToldInv

LEMMA ToldNoOutput ==
  ASSUME Types, Control, NextInv, Capped, ToldInv, NoOutput
  PROVE  ToldInv'
PROOF
  <1>0. script' = script /\ step' = step /\ tallied' = tallied /\ laststep' = laststep
    BY DEF NoOutput
  <1>1. pc = "output" /\ pc' = "loop" /\ UNCHANGED <<valid, nxt, used, told>> /\ step # next
    BY DEF NoOutput
  <1>2. UsedInv'  BY <1>0, <1>1 DEF ToldInv, UsedInv, TalliedWhenUsed
  <1>3. AskInv'  BY <1>0, <1>1, SameScript DEF ToldInv, AskInv, InRun
  <1>4. AveInv'  BY <1>0, <1>1, SameScript DEF ToldInv, AveInv
  <1>5. EndInv'
    <2>1. nxt["stats"] # step  BY <1>1, OutputTables, StatsAsk
    <2>2. step' # laststep'  BY <1>0, <1>1, <2>1, StatsTable
    <2> QED  BY <1>1, <2>2 DEF EndInv, AfterRun
  <1> QED  BY <1>2, <1>3, <1>4, <1>5 DEF ToldInv

LEMMA ToldEndRun ==
  ASSUME Foretold, Types, Control, DumpsInv, ToldInv, EndRun
  PROVE  ToldInv'
PROOF
  <1>0. script \in Scripts /\ script' = script /\ step' = step /\ tallied' = tallied
    BY DEF EndRun, Types
  <1>1. /\ pc = "loop" /\ step = laststep /\ UNCHANGED <<valid, last, out>>
        /\ used' = used \union Command.uses /\ Tell(Command.uses \X {step + Command.every})
    BY DEF EndRun
  <1>2. cmd \in DOMAIN script.commands /\ Command.cmd = "run" /\ cmd \in Nat
    BY <1>1 DEF Control, Types
  <1>3. pc' = "again" \/ (pc' = "command" /\ cmd' = cmd + 1)  BY DEF EndRun
  <1>4. \A c \in InStats : Current(c)  BY <1>1 DEF ToldInv, EndInv
  <1>5. Command.uses \subseteq InStats  BY <1>0, <1>2, ForetoldFacts DEF Command
  <1>6. UsedInv'
    <2>1. InStats \subseteq Computes  BY StatsAsk
    <2> QED  BY <1>0, <1>1, <1>4, <1>5, <2>1 DEF ToldInv, UsedInv, TalliedWhenUsed, Current
  <1>7. AskInv'  BY <1>3 DEF AskInv, InRun
  <1>8. AveInv'
    <2> SUFFICES ASSUME NEW i \in DOMAIN F, F[i].kind = "ave", NEW c \in F[i].uses, valid[i] > step
                 PROVE  valid[i] \in told'[c]
      BY <1>0, <1>1, <1>3, SameScript DEF AveInv
    <2>1. c \in Computes  BY <1>0, FixFacts
    <2>2. valid[i] \in told[c]  BY DEF ToldInv, AveInv
    <2> QED  BY <1>1, <2>1, <2>2, TellFacts
  <1>9. EndInv'
    <2>1. \A c \in InStats' : Current(c)'  BY <1>0, <1>4, SameScript
    <2>2. \A n \in Kind("dump")' : Settled(n)'  BY <1>0, <1>1, SameScript DEF DumpsInv
    <2> QED  BY <1>3, <2>1, <2>2 DEF EndInv
  <1> QED  BY <1>6, <1>7, <1>8, <1>9 DEF ToldInv

LEMMA ToldReset ==
  ASSUME Types, Reset
  PROVE  ToldInv'
PROOF
  <1>1. /\ pc = "command" /\ pc' = "command" /\ script' = script /\ cmd' = cmd + 1 /\ used' = {}
        /\ Command.cmd = "reset" /\ \A i \in DOMAIN F : F[i].kind # "ave"
    BY DEF Reset
  <1>2. cmd' - 1 = cmd  BY <1>1 DEF Types
  <1>3. ~AfterRun'  BY <1>1, <1>2 DEF AfterRun, Command
  <1>4. AveInv'  BY <1>1 DEF AveInv, F
  <1>5. UsedInv' /\ AskInv' /\ EndInv'
    BY <1>1, <1>3 DEF UsedInv, TalliedWhenUsed, AskInv, InRun, EndInv
  <1> QED  BY <1>4, <1>5 DEF ToldInv

LEMMA ToldInvStep ==
  ASSUME Foretold
  PROVE  Types /\ Control /\ NextInv /\ WinInv /\ LastInv /\ DumpsInv /\ Capped /\ ToldInv /\ [Next]_vars
           => ToldInv'
PROOF
  <1> SUFFICES ASSUME Types, Control, NextInv, WinInv, LastInv, DumpsInv, Capped, ToldInv, [Next]_vars
               PROVE  ToldInv'
    OBVIOUS
  <1>1. CASE UNCHANGED vars
    <2>1. /\ script' = script /\ UNCHANGED <<step, last, out, tallied, told, valid, nxt, cmd, pc, laststep, used>>
      BY <1>1 DEF vars
    <2>2. UsedInv'  BY <2>1 DEF ToldInv, UsedInv, TalliedWhenUsed
    <2>3. AskInv' /\ AveInv'
      BY <2>1, SameScript DEF ToldInv, AskInv, AveInv, InRun, Current
    <2>4. AfterRun' = AfterRun  BY <2>1 DEF AfterRun
    <2>5. EndInv'  BY <2>1, <2>4, SameScript DEF ToldInv, EndInv
    <2> QED  BY <2>2, <2>3, <2>5 DEF ToldInv
  <1> QED
    BY <1>1, ToldStartRun, ToldSetup, ToldMove, ToldEndOfStep, ToldWrite, ToldNoOutput, ToldEndRun,
       ToldReset DEF Next

-----------------------------------------------------------------------------
(* The theorems.                                                           *)

\* What holds of every script.
Tables == Types /\ Control /\ NextInv /\ WinInv

LEMMA TablesHold == Spec => []Tables
PROOF
  <1>1. Init => Tables
    <2>1. Init => NextInv  BY DEF Init, NextInv, InRun
    <2> QED  BY <2>1, TypesInit, WinInvInit DEF Tables
  <1>2. Tables /\ [Next]_vars => Tables'
    BY TypesStep, NextInvStep, WinInvStep DEF Tables
  <1> QED  BY <1>1, <1>2, PTL DEF Spec

\* What holds if resets set the timestep ahead.
Written == LastInv /\ DumpsInv /\ RestartsInv

LEMMA WrittenHolds == Spec /\ []ResetsAhead => []Written
PROOF
  <1>1. Init => Written
    <2> SUFFICES ASSUME Init PROVE Written
      OBVIOUS
    <2>1. \A n \in Outputs : last[n] = -1 /\ out[n] = 0  BY DEF Init
    <2>2. step = 0 /\ pc = "command" /\ cmd = 1 /\ script \in Scripts  BY DEF Init
    <2>3. FirstUpdate  BY <2>2 DEF FirstUpdate
    <2>4. LastInv  BY <2>1, <2>2 DEF LastInv
    <2>5. \A n \in Kind("dump") : n \in Outputs /\ 0 \notin O[n].on
      BY <2>2, ItemFacts DEF Kind
    <2>6. \A n \in Kind("dump") : Untouched(n)  BY <2>1, <2>2, <2>5 DEF Untouched
    <2>7. DumpsInv  BY <2>2, <2>3, <2>6 DEF DumpsInv
    <2>8. RestartsInv  BY <2>2 DEF RestartsInv
    <2> QED  BY <2>4, <2>7, <2>8 DEF Written
  <1>2. Tables /\ Written /\ ResetsAhead /\ [Next]_vars => Written'
    BY LastInvStep, DumpsInvStep, RestartsInvStep DEF Tables, Written
  <1> QED  BY <1>1, <1>2, TablesHold, PTL DEF Spec

\* What holds if the variable of the statistics has a value in every run, too.
Reported == Capped /\ StatsInv

LEMMA ReportedHolds == Spec /\ []ResetsAhead /\ []StatsInRun => []Reported
PROOF
  <1>1. Init => Reported  BY DEF Init, Reported, Capped, StatsInv, InRun
  <1>2. Tables /\ Written /\ Reported /\ StatsInRun /\ [Next]_vars => Reported'
    BY CappedStep, StatsInvStep DEF Tables, Written, Reported
  <1> QED  BY <1>1, <1>2, TablesHold, WrittenHolds, PTL DEF Spec

(* A dump is written once on each multiple of its N or value of its        *)
(* variable and on no other step but the first: Output::setup and write,   *)
(* through any runs, and resets of the timestep to a later step.           *)
THEOREM DumpsAreOnTime == Spec /\ []ResetsAhead => []DumpsOnTime
PROOF
  <1>1. Tables /\ Written => DumpsOnTime
    <2> SUFFICES ASSUME Types, DumpsInv, pc = "loop", NEW n \in Kind("dump")
                 PROVE  out[n] = IF \/ IF ByVariable(n) THEN step \in O[n].on ELSE step % O[n].every = 0
                                    \/ O[n].first /\ step = 0
                                 THEN 1 ELSE 0
      BY DEF Tables, Written, DumpsOnTime, Done
    <2>1. Settled(n)  BY DEF DumpsInv
    <2>2. n \in Outputs /\ n # "stats" /\ (O[n].every > 0 \/ ByVariable(n))
      BY ItemFacts DEF Kind, Types
    <2>3. DueAt(O[n], step) <=> IF ByVariable(n) THEN step \in O[n].on ELSE step % O[n].every = 0
      BY <2>2, DueFacts DEF Types
    <2> QED  BY <2>1, <2>3 DEF Settled, DueDump
  <1> QED  BY <1>1, TablesHold, WrittenHolds, PTL

(* Restarts are written on the multiples of N or the values of a variable, *)
(* but not on the first step of a run, once each although the two kinds    *)
(* share last_restart: Output::setup and write.                            *)
THEOREM RestartsAreOnTime == Spec /\ []ResetsAhead => []RestartsOnTime
PROOF
  <1>1. Tables /\ Written => RestartsOnTime
    <2> SUFFICES ASSUME Types, RestartsInv, pc = "loop", step > firststep, NEW n \in Kind("restart")
                 PROVE  out[n] = IF (IF ByVariable(n) THEN step \in O[n].on ELSE step % O[n].every = 0)
                                 THEN 1 ELSE 0
      BY DEF Tables, Written, RestartsOnTime, Done
    <2>1. out[n] = IF DueAt(O[n], step) THEN 1 ELSE 0  BY DEF RestartsInv
    <2>2. n \in Outputs /\ n # "stats" /\ (O[n].every > 0 \/ ByVariable(n))
      BY ItemFacts DEF Kind, Types
    <2>3. DueAt(O[n], step) <=> IF ByVariable(n) THEN step \in O[n].on ELSE step % O[n].every = 0
      BY <2>2, DueFacts DEF Types
    <2> QED  BY <2>1, <2>3
  <1> QED  BY <1>1, TablesHold, WrittenHolds, PTL

(* Statistics come on the first and the last step of each run and, once,   *)
(* on the multiples of N or the values of a variable between, if each run  *)
(* has one: Output::setup and write.                                       *)
THEOREM StatsAreOnTime == Spec /\ []ResetsAhead /\ []StatsInRun => []StatsOnTime
PROOF
  <1>1. Tables /\ Reported => StatsOnTime
    <2> SUFFICES ASSUME Types, Control, StatsInv, pc = "loop" PROVE StatsOnTime
      BY DEF Tables, Reported, StatsOnTime, Done
    <2>1. firststep <= step /\ firststep \in Nat /\ step \in Nat  BY DEF Types, Control
    <2> QED  BY <2>1 DEF StatsInv, StatsOnTime, DueAt
  <1> QED  BY <1>1, TablesHold, ReportedHolds, PTL

(* On each multiple of Nfreq a fix ave/time has exactly the Nrepeat        *)
(* samples, Nevery apart, that end there, through the ends of runs:        *)
(* FixAveTime::setup, end_of_step, nextvalid.                              *)
THEOREM AveragesAreFull == Spec => []WindowsAreFull
PROOF
  <1>1. Tables => WindowsAreFull  BY FullWindow DEF Tables, WindowsAreFull, Done
  <1> QED  BY <1>1, TablesHold, PTL

(* Whoever asks a compute for tallies gets those of this step: it was told *)
(* in advance, by the outputs, the variables, the fixes and the commands   *)
(* between runs (Modify::addstep_compute), in every script that is         *)
(* Foretold.                                                               *)
THEOREM TallyWhenUsed ==
  ASSUME Foretold
  PROVE  Spec /\ []ResetsAhead /\ []StatsInRun => []TalliedWhenUsed
PROOF
  <1>1. Init => ToldInv  BY ToldInit
  <1>2. Tables /\ Written /\ Reported /\ ToldInv /\ [Next]_vars => ToldInv'
    BY ToldInvStep DEF Tables, Written, Reported
  <1>3. ToldInv => TalliedWhenUsed  BY DEF ToldInv, UsedInv
  <1> QED  BY <1>1, <1>2, <1>3, TablesHold, WrittenHolds, ReportedHolds, PTL DEF Spec
=============================================================================
