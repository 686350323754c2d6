------------------------------ MODULE CpldProofs ------------------------------
(***************************************************************************)
(* Proofs about CpldLines for every set of threads, every CPLD and every   *)
(* configuration of its lines, and about PinGroupLevel for every placement *)
(* of a group in bytes of eight bits.                                      *)
(*                                                                         *)
(* Types and LockDiscipline hold without any assumption on how lines share *)
(* registers; the fresh buffers, the goals and the independence of the     *)
(* lines hold when no two output lines share one.                          *)
(***************************************************************************)
EXTENDS CpldLines, PinGroupLevel, Integers, TLAPS

-----------------------------------------------------------------------------
(* Facts about the configuration.                                          *)

\* A line has at least one register, and its loop index ranges over 1 .. Len.
LEMMA OrderFacts ==
  ASSUME NEW l \in Lines
  PROVE  /\ Len(Order[l]) \in Nat
         /\ Len(Order[l]) >= 1
         /\ DOMAIN Order[l] = 1..Len(Order[l])
         /\ \A i \in 1..Len(Order[l]) : Order[l][i] \in Regs
<1>1. Order[l] \in Seq(Regs) /\ Order[l] # << >>
  BY ConfigAssumption
<1> QED
  BY <1>1

LEMMA FieldFacts ==
  ASSUME NEW l \in Lines
  PROVE  /\ Field[l] \subseteq Cells
         /\ Default[l] \subseteq Field[l]
  BY ConfigAssumption

\* The bank stays a set of cells whatever byte is written.
LEMMA WriteRegType ==
  ASSUME high \in Sets, NEW r, NEW b
  PROVE  WriteReg(r, b) \in Sets
  BY DEF WriteReg, In, Sets

LEMMA AskType ==
  ASSUME goal \in [Cells -> Goals], NEW A, NEW B
  PROVE  Ask(A, B) \in [Cells -> Goals] /\ Forget(A) \in [Cells -> Goals]
  BY DEF Ask, Forget, Goals

-----------------------------------------------------------------------------
(* Types.                                                                  *)

LEMMA TypeInit == Init => TypeOK
<1> SUFFICES ASSUME Init PROVE TypeOK
  OBVIOUS
<1>1. (CHOOSE l \in Lines : TRUE) \in Lines
  BY ConfigAssumption
<1>2. 1 \in DOMAIN Order[CHOOSE l \in Lines : TRUE]
  BY <1>1, OrderFacts
<1> QED
  BY <1>1, <1>2 DEF Init, TypeOK, PCs, Goals, Sets

LEMMA TypeStep == TypeOK /\ [Next]_vars => TypeOK'
<1> SUFFICES ASSUME TypeOK, [Next]_vars PROVE TypeOK'
  OBVIOUS
<1> USE DEF TypeOK
<1>1. ASSUME NEW l \in Lines, Boot(l) PROVE TypeOK'
  <2>1. high' \in Sets /\ goal' \in [Cells -> Goals]
    <3>1. CASE l \in Outputs
      <4>1. PICK n \in 0..Len(Order[l]) :
              LET done == {c \in Field[l] : \E i \in 1..n : Order[l][i] = RegOf[c]}
                  ones == Stored(l, Default[l])
              IN /\ high' = (high \ done) \cup (ones \cap done)
                 /\ goal' = IF n = Len(Order[l]) THEN Ask(Field[l], ones)
                            ELSE goal
        BY <1>1, <3>1 DEF Boot
      <4>2. {c \in Field[l] : \E i \in 1..n : Order[l][i] = RegOf[c]} \subseteq Cells
        BY FieldFacts
      <4> QED
        BY <4>1, <4>2, AskType DEF Sets
    <3>2. CASE l \notin Outputs
      BY <1>1, <3>2 DEF Boot
    <3> QED BY <3>1, <3>2
  <2> QED
    BY <2>1, <1>1 DEF Boot
<1>2. ASSUME NEW c \in Cells, Sense(c) PROVE TypeOK'
  BY <1>2 DEF Sense, Sets
<1>3. ASSUME NEW t \in Threads, NEW l \in Lines, NEW at \in {"get", "load"},
             Enter(t, l, at), level' \in [Threads -> Sets],
             ask' \in [Threads -> Sets], want' \in [Threads -> Sets]
      PROVE  TypeOK'
  <2>1. 1 \in DOMAIN Order[l]
    BY OrderFacts
  <2> QED
    BY <1>3, <2>1 DEF Enter, Begin, PCs
<1>4. ASSUME NEW t \in Threads, NEW l \in Lines, GetLevel(t, l) PROVE TypeOK'
  <2>1. /\ Enter(t, l, "get")
        /\ level' \in [Threads -> Sets]
        /\ ask' \in [Threads -> Sets] /\ want' \in [Threads -> Sets]
    BY <1>4 DEF GetLevel, Sets
  <2> QED BY <2>1, <1>3
<1>5. ASSUME NEW t \in Threads, NEW l \in Lines, NEW v \in SUBSET Field[l],
             SetLevel(t, l, v)
      PROVE  TypeOK'
  <2>1. v \in Sets /\ Field[l] \in Sets /\ Stored(l, v) \cap Field[l] \in Sets
    BY FieldFacts DEF Sets
  <2>2. /\ Enter(t, l, "load")
        /\ level' \in [Threads -> Sets]
        /\ ask' \in [Threads -> Sets] /\ want' \in [Threads -> Sets]
    BY <1>5, <2>1 DEF SetLevel
  <2> QED BY <2>2, <1>3
<1>6. ASSUME NEW t \in Threads, NEW l \in Lines, NEW c \in Field[l],
             NEW on \in BOOLEAN, ModifyBit(t, l, c, on)
      PROVE  TypeOK'
  <2>1. {c} \in Sets /\ {} \in Sets
    BY FieldFacts DEF Sets
  <2>2. /\ Enter(t, l, "get")
        /\ level' \in [Threads -> Sets]
        /\ ask' \in [Threads -> Sets] /\ want' \in [Threads -> Sets]
    BY <1>6, <2>1 DEF ModifyBit
  <2> QED BY <2>2, <1>3
<1>7. ASSUME NEW t \in Threads, Run(t) PROVE TypeOK'
  <2>0. line[t] \in Lines /\ k[t] \in 1..Len(Order[line[t]])
    BY OrderFacts
  <2>1. CASE ReadRegister(t)
    <3>1. Field[line[t]] \in Sets
      BY <2>0, FieldFacts DEF Sets
    <3>2. level' \in [Threads -> Sets]
      BY <2>1, <3>1 DEF ReadRegister, MoreRegisters, Sets, Stored
    <3>3. k' \in [Threads -> Nat] /\ \A s \in Threads : k'[s] \in DOMAIN Order[line[s]]
      BY <2>0, <2>1, OrderFacts DEF ReadRegister, MoreRegisters
    <3>4. pc' \in [Threads -> PCs]
      BY <2>1 DEF ReadRegister, MoreRegisters, PCs
    <3> QED BY <2>1, <3>2, <3>3, <3>4 DEF ReadRegister, MoreRegisters
  <2>2. CASE LoadRegister(t)
    BY <2>2 DEF LoadRegister, PCs, Sets, In
  <2>3. CASE StoreRegister(t)
    <3>1. high' \in Sets
      BY <2>3, WriteRegType DEF StoreRegister, MoreRegisters
    <3>2. goal' \in [Cells -> Goals]
      <4>1. Ask(ask[t], want[t]) \in [Cells -> Goals]
        BY AskType
      <4> QED BY <2>3, <4>1 DEF StoreRegister, MoreRegisters
    <3>3. k' \in [Threads -> Nat] /\ \A s \in Threads : k'[s] \in DOMAIN Order[line[s]]
      <4>1. \/ k[t] < Len(Order[line[t]]) /\ k' = [k EXCEPT ![t] = @ + 1]
            \/ k' = k
        BY <2>3, Zenon DEF StoreRegister, MoreRegisters
      <4>2. CASE k' = k
        BY <4>2
      <4>3. CASE k[t] < Len(Order[line[t]]) /\ k' = [k EXCEPT ![t] = @ + 1]
        BY <2>0, <4>3, OrderFacts
      <4> QED BY <4>1, <4>2, <4>3
    <3>4. pc' \in [Threads -> PCs]
      <4>1. \/ pc' = [pc EXCEPT ![t] = "load"]
            \/ pc' = [pc EXCEPT ![t] = "done"]
        BY <2>3, Zenon DEF StoreRegister, MoreRegisters
      <4> QED BY <4>1 DEF PCs
    <3>5. buf' \in [Threads -> Sets]
      BY <2>3 DEF StoreRegister, MoreRegisters, Sets
    <3> QED BY <2>3, <3>1, <3>2, <3>3, <3>4, <3>5 DEF StoreRegister, MoreRegisters
  <2>4. CASE BusError(t)
    <3>1. high' \in Sets
      BY <2>4, WriteRegType DEF BusError
    <3>2. goal' \in [Cells -> Goals]
      <4>1. Forget(ask[t]) \in [Cells -> Goals]
        BY AskType
      <4> QED
        BY <2>4, <4>1 DEF BusError
    <3> QED
      BY <2>4, <3>1, <3>2 DEF BusError, PCs, Sets
  <2>5. CASE Leave(t)
    BY <2>0, <2>5, OrderFacts DEF Leave, Release, PCs, Sets
  <2> QED
    BY <1>7, <2>1, <2>2, <2>3, <2>4, <2>5 DEF Run
<1>8. CASE UNCHANGED vars
  BY <1>8 DEF vars
<1> QED
  BY <1>1, <1>2, <1>4, <1>5, <1>6, <1>7, <1>8 DEF Next, Call

\* The state is well typed, and a thread in a register loop is always at a
\* register of its line: the index never runs past end_addr.
THEOREM TypeCorrect == Spec => []TypeOK
  BY TypeInit, TypeStep, PTL DEF Spec

-----------------------------------------------------------------------------
(* Mutexes.                                                                *)

\* What the steps of a call that holds its mutex have in common.
LEMMA InsideCall ==
  ASSUME TypeOK, NEW t \in Threads,
         ReadRegister(t) \/ LoadRegister(t) \/ StoreRegister(t) \/ BusError(t)
  PROVE  /\ pc[t] \in {"get", "load", "store"}
         /\ \E p \in PCs \ {"idle"} : pc' = [pc EXCEPT ![t] = p]
         /\ UNCHANGED <<unbooted, lock, line, ask, want>>
<1>1. CASE ReadRegister(t)
  <2>1. \/ pc' = pc /\ pc[t] = "get"
        \/ pc' = [pc EXCEPT ![t] = "done"]
        \/ pc' = [pc EXCEPT ![t] = "load"]
    BY <1>1 DEF ReadRegister, MoreRegisters
  <2>2. pc' = pc => pc' = [pc EXCEPT ![t] = pc[t]]
    BY DEF TypeOK
  <2> QED
    BY <1>1, <2>1, <2>2 DEF ReadRegister, MoreRegisters, PCs
<1>2. CASE LoadRegister(t)
  BY <1>2 DEF LoadRegister, PCs
<1>3. CASE StoreRegister(t)
  <2>1. pc' = [pc EXCEPT ![t] = "load"] \/ pc' = [pc EXCEPT ![t] = "done"]
    BY <1>3, Zenon DEF StoreRegister, MoreRegisters
  <2> QED
    BY <1>3, <2>1 DEF StoreRegister, MoreRegisters, PCs
<1>4. CASE BusError(t)
  BY <1>4 DEF BusError, PCs
<1> QED
  BY <1>1, <1>2, <1>3, <1>4

LEMMA LockStep == TypeOK /\ LockDiscipline /\ [Next]_vars => LockDiscipline'
<1> SUFFICES ASSUME TypeOK, LockDiscipline, [Next]_vars PROVE LockDiscipline'
  OBVIOUS
<1> USE ThreadAssumption DEF LockDiscipline
<1>1. ASSUME NEW t \in Threads, NEW l \in Lines, NEW at \in {"get", "load"},
             Enter(t, l, at)
      PROVE  LockDiscipline'
  <2>1. /\ pc[t] = "idle" /\ lock[l] = NoThread
        /\ lock' = [lock EXCEPT ![l] = t]
        /\ line' = [line EXCEPT ![t] = l]
        /\ pc' = [pc EXCEPT ![t] = at]
    BY <1>1 DEF Enter, Begin
  <2>2. ASSUME NEW s \in Threads, pc'[s] # "idle" PROVE lock'[line'[s]] = s
    BY <2>1, <2>2 DEF TypeOK
  <2>3. ASSUME NEW m \in Lines, lock'[m] # NoThread
        PROVE  pc'[lock'[m]] # "idle" /\ line'[lock'[m]] = m
    BY <2>1, <2>3 DEF TypeOK
  <2> QED BY <2>2, <2>3
<1>2. ASSUME NEW t \in Threads, Call(t) PROVE LockDiscipline'
  <2>1. \E l \in Lines, at \in {"get", "load"} : Enter(t, l, at)
    BY <1>2 DEF Call, GetLevel, SetLevel, ModifyBit
  <2> QED BY <1>1, <2>1
<1>3. ASSUME NEW t \in Threads,
             ReadRegister(t) \/ LoadRegister(t) \/ StoreRegister(t) \/ BusError(t)
      PROVE  LockDiscipline'
  <2>1. /\ pc[t] # "idle" /\ UNCHANGED <<lock, line>>
        /\ \E p \in PCs \ {"idle"} : pc' = [pc EXCEPT ![t] = p]
    BY <1>3, InsideCall
  <2> QED BY <2>1 DEF TypeOK
<1>4. ASSUME NEW t \in Threads, Leave(t) PROVE LockDiscipline'
  <2>1. /\ pc[t] = "done" /\ UNCHANGED line
        /\ lock' = [lock EXCEPT ![line[t]] = NoThread]
        /\ pc' = [pc EXCEPT ![t] = "idle"]
    BY <1>4 DEF Leave, Release
  <2>2. ASSUME NEW s \in Threads, pc'[s] # "idle" PROVE lock'[line'[s]] = s
    BY <2>1, <2>2 DEF TypeOK
  <2>3. ASSUME NEW m \in Lines, lock'[m] # NoThread
        PROVE  pc'[lock'[m]] # "idle" /\ line'[lock'[m]] = m
    BY <2>1, <2>3 DEF TypeOK
  <2> QED BY <2>2, <2>3
<1>5. CASE UNCHANGED <<lock, pc, line>>
  BY <1>5
<1> QED
  BY <1>2, <1>3, <1>4, <1>5 DEF Next, Run, Boot, Sense, vars

\* Whatever fails on the bus, a mutex is held exactly by the thread whose call
\* is about its line, and two calls on one line never overlap.
THEOREM LocksCorrect == Spec => []LockDiscipline
<1>1. Init => LockDiscipline
  BY DEF Init, LockDiscipline
<1> QED
  BY <1>1, TypeCorrect, LockStep, PTL DEF Spec

-----------------------------------------------------------------------------
(* Levels.  The rest holds when no register holds bits of two output       *)
(* lines.  GoalHolds is not inductive: what a call is about to write, and  *)
(* what it has written or read so far, have to be known too.               *)

\* The cells of line l in the registers its loop has passed at index i.
Before(l, i) == {c \in Field[l] : \E j \in 1..(i - 1) : RegOf[c] = Order[l][j]}

Writing(t) == pc[t] \in {"load", "store"}

\* Only lines that are out are written, after the initialisation, and a call
\* is asked to change cells of its line only.
CallShape ==
  \A t \in Threads :
    /\ IF pc[t] = "idle" THEN ask[t] = {} ELSE unbooted = {}
    /\ Writing(t) \/ ask[t] # {} => line[t] \in Outputs
    /\ ask[t] \subseteq Field[line[t]]
    /\ want[t] \subseteq ask[t]

\* Goals are about initialised output lines.
GoalOwned ==
  \A c \in Cells : goal[c] # "unknown" =>
    \E l \in Outputs \ unbooted : c \in Field[l]

\* A goal holds until a call that is to change it starts writing.
GoalKept ==
  \A c \in Cells :
    (goal[c] # "unknown" /\ \A t \in Threads : Writing(t) => c \notin ask[t])
      => (c \in high <=> goal[c] = "high")

\* FreshBuffer, of one thread.
Fresh(t) ==
  pc[t] = "store" =>
    buf[t] \ InputCells = (high \cap In(Reg(t))) \ InputCells

\* The level read so far is that of the registers read so far.
ReadSoFar(t) ==
  (pc[t] = "get" /\ line[t] \in Outputs) =>
    /\ level[t] \subseteq Before(line[t], k[t])
    /\ \A c \in Before(line[t], k[t]) :
         c \in high <=> c \in Stored(line[t], level[t])

\* The level about to be written changes the cells it is asked to change, and
\* no other.
Plan(t) ==
  Writing(t) =>
    \A c \in Field[line[t]] :
      c \in Stored(line[t], level[t]) <=>
        IF c \in ask[t] THEN c \in want[t] ELSE c \in high

\* The level has been written to the registers passed.
WrittenSoFar(t) ==
  Writing(t) =>
    \A c \in Before(line[t], k[t]) :
      c \in high <=> c \in Stored(line[t], level[t])

ThreadInv(t) == Fresh(t) /\ ReadSoFar(t) /\ Plan(t) /\ WrittenSoFar(t)

Inv ==
  /\ CallShape
  /\ GoalOwned
  /\ GoalKept
  /\ \A t \in Threads : ThreadInv(t)

LEMMA BeforeFirst ==
  ASSUME NEW l PROVE Before(l, 1) = {}
  BY DEF Before

LEMMA BeforeNext ==
  ASSUME NEW l \in Lines, NEW i \in 1..Len(Order[l])
  PROVE  Before(l, i + 1) = Before(l, i) \cup (In(Order[l][i]) \cap Field[l])
<1>1. \A j : j \in 1..(i + 1 - 1) <=> j \in 1..(i - 1) \/ j = i
  BY OrderFacts
<1> QED
  BY <1>1, FieldFacts DEF Before, In

LEMMA BeforeEnd ==
  ASSUME NEW l \in Lines
  PROVE  Before(l, Len(Order[l]) + 1) = Field[l]
<1>1. 1..(Len(Order[l]) + 1 - 1) = DOMAIN Order[l]
  BY OrderFacts
<1>2. \A c \in Field[l] : \E j \in DOMAIN Order[l] : RegOf[c] = Order[l][j]
  BY ConfigAssumption DEF RegsOf
<1> QED
  BY <1>1, <1>2 DEF Before

\* The cells of an output line are no inputs, and those of two lines differ.
LEMMA FieldsApart ==
  ASSUME NEW l \in Lines, NEW c \in Field[l]
  PROVE  /\ c \in Cells
         /\ \A m \in Lines : c \in Field[m] => m = l
         /\ l \in Outputs => c \notin InputCells
<1>1. c \in Cells
  BY FieldFacts
<1>2. ASSUME NEW m \in Lines, c \in Field[m] PROVE m = l
  BY <1>2, Zenon, ConfigAssumption
<1>3. l \in Outputs => c \notin InputCells
  BY <1>2 DEF InputCells
<1> QED
  BY <1>1, <1>2, <1>3

\* The calls of two threads are about different lines.
LEMMA CallsApart ==
  ASSUME LockDiscipline, NEW t \in Threads, NEW s \in Threads, s # t,
         pc[s] # "idle", pc[t] # "idle"
  PROVE  line[s] # line[t]
  BY DEF LockDiscipline

\* Registers of calls that write are different registers.
LEMMA RegistersApart ==
  ASSUME RegistersNotShared, TypeOK, LockDiscipline, CallShape,
         NEW t \in Threads, NEW s \in Threads, s # t, Writing(s), Writing(t)
  PROVE  Reg(s) # Reg(t)
<1>1. line[s] # line[t] /\ line[s] \in Outputs /\ line[t] \in Outputs
  BY CallsApart DEF Writing, CallShape
<1>2. Reg(s) \in RegsOf(line[s]) /\ Reg(t) \in RegsOf(line[t])
  BY DEF TypeOK, Reg, RegsOf
<1> QED
  BY <1>1, <1>2 DEF RegistersNotShared

\* What the write of a read-modify-write does to each cell.
LEMMA WriteEffect ==
  ASSUME TypeOK, CallShape, NEW t \in Threads, Fresh(t), pc[t] = "store",
         NEW c \in Cells
  PROVE  c \in WriteReg(Reg(t), Merge(line[t], level[t], buf[t])) <=>
           IF c \in In(Reg(t)) /\ c \in Field[line[t]]
           THEN c \in Stored(line[t], level[t])
           ELSE c \in high
<1> DEFINE l == line[t]
<1>1. l \in Lines
  BY DEF TypeOK
<1>2. l \in Outputs
  BY DEF CallShape, Writing
<1>3. c \in Field[l] => c \notin InputCells
  BY <1>1, <1>2, FieldsApart
<1>4. c \in In(Reg(t)) /\ c \notin InputCells => (c \in buf[t] <=> c \in high)
  BY DEF Fresh
<1>5. c \in Merge(l, level[t], buf[t]) <=>
        IF c \in Field[l] THEN c \in Stored(l, level[t]) ELSE c \in buf[t]
  BY DEF Merge
<1> HIDE DEF l
<1> QED
  BY <1>3, <1>4, <1>5 DEF WriteReg, l

\* A thread whose locals and whose cells are left alone is not disturbed.
LEMMA Undisturbed ==
  ASSUME TypeOK, CallShape, NEW s \in Threads, ThreadInv(s),
         pc'[s] = pc[s], line'[s] = line[s], k'[s] = k[s],
         level'[s] = level[s], buf'[s] = buf[s],
         ask'[s] = ask[s], want'[s] = want[s],
         line[s] \in Outputs =>
           \A c \in Field[line[s]] : c \in high' <=> c \in high,
         Writing(s) =>
           \A c \in In(Reg(s)) \ InputCells : c \in high' <=> c \in high
  PROVE  ThreadInv(s)'
<1>1. Writing(s) => line[s] \in Outputs
  BY DEF CallShape
<1>2. Reg(s)' = Reg(s) /\ (Writing(s)' <=> Writing(s))
  BY DEF Reg, Writing
<1>3. Before(line[s], k[s]) \subseteq Field[line[s]]
  BY DEF Before
<1>4. Fresh(s)'
  BY <1>2 DEF ThreadInv, Fresh, Writing
<1>5. ReadSoFar(s)'
  BY <1>3 DEF ThreadInv, ReadSoFar
<1>6. Plan(s)'
  BY <1>1, <1>2 DEF ThreadInv, Plan
<1>7. WrittenSoFar(s)'
  BY <1>1, <1>2, <1>3 DEF ThreadInv, WrittenSoFar
<1> QED
  BY <1>4, <1>5, <1>6, <1>7 DEF ThreadInv

\* A thread that is not in a loop has nothing to keep.
LEMMA Resting ==
  ASSUME NEW s \in Threads, pc[s] \in {"idle", "done"}
  PROVE  ThreadInv(s)
  BY DEF ThreadInv, Fresh, ReadSoFar, Plan, WrittenSoFar, Writing

\* The write of one thread does not disturb the others.
LEMMA OthersAfterWrite ==
  ASSUME RegistersNotShared, TypeOK, LockDiscipline, CallShape,
         NEW t \in Threads, pc[t] = "store", Fresh(t),
         high' = WriteReg(Reg(t), Merge(line[t], level[t], buf[t])), high' \in Sets,
         NEW s \in Threads, s # t, pc[s] # "idle"
  PROVE  /\ \A c \in Field[line[s]] : c \in high' <=> c \in high
         /\ Writing(s) =>
              \A c \in In(Reg(s)) \ InputCells : c \in high' <=> c \in high
<1>1. \A c \in Cells :
        c \notin In(Reg(t)) \/ c \notin Field[line[t]] => (c \in high' <=> c \in high)
  BY WriteEffect
<1>2. ASSUME NEW c \in Field[line[s]] PROVE c \in high' <=> c \in high
  <2>1. line[s] # line[t]
    BY CallsApart
  <2>2. c \in Cells /\ c \notin Field[line[t]]
    BY <2>1, FieldsApart DEF TypeOK
  <2> QED BY <1>1, <2>2
<1>3. ASSUME Writing(s), NEW c \in In(Reg(s)) \ InputCells
      PROVE  c \in high' <=> c \in high
  <2>1. Reg(s) # Reg(t)
    BY <1>3, RegistersApart DEF Writing
  <2>2. c \in Cells /\ c \notin In(Reg(t))
    BY <2>1 DEF In
  <2> QED BY <1>1, <2>2
<1> QED
  BY <1>2, <1>3

-----------------------------------------------------------------------------
(* The invariant is kept by each step.                                     *)

LEMMA InvInit == Init => Inv
<1> SUFFICES ASSUME Init PROVE Inv
  OBVIOUS
<1>1. CallShape /\ GoalOwned /\ GoalKept
  BY DEF Init, CallShape, GoalOwned, GoalKept, Writing
<1>2. \A t \in Threads : ThreadInv(t)
  BY Resting DEF Init
<1> QED
  BY <1>1, <1>2 DEF Inv

\* Steps that change neither the bank nor the goals, and give no thread fewer
\* cells to write.
LEMMA QuietGoals ==
  ASSUME GoalOwned, GoalKept, UNCHANGED <<high, goal, unbooted>>,
         \A s \in Threads : Writing(s) => Writing(s)' /\ ask'[s] = ask[s]
  PROVE  GoalOwned' /\ GoalKept'
<1>1. GoalOwned'
  BY DEF GoalOwned
<1>2. GoalKept'
  BY DEF GoalKept
<1> QED
  BY <1>1, <1>2

LEMMA CallStep ==
  ASSUME TypeOK, Inv, NEW t \in Threads, Call(t)
  PROVE  Inv'
<1> DEFINE Others(l, at) ==
      /\ Enter(t, l, at)
      /\ \A s \in Threads \ {t} :
           level'[s] = level[s] /\ ask'[s] = ask[s] /\ want'[s] = want[s]
<1>1. ASSUME NEW l \in Lines, NEW at \in {"get", "load"}, Others(l, at),
             at = "load" \/ ask'[t] # {} => l \in Outputs,
             ask'[t] \subseteq Field[l], want'[t] \subseteq ask'[t],
             ThreadInv(t)'
      PROVE  Inv'
  <2>1. /\ pc[t] = "idle" /\ unbooted = {}
        /\ pc' = [pc EXCEPT ![t] = at] /\ line' = [line EXCEPT ![t] = l]
        /\ k' = [k EXCEPT ![t] = 1] /\ UNCHANGED <<high, unbooted, buf, goal>>
    BY <1>1 DEF Enter, Begin
  <2>2. \A s \in Threads \ {t} : pc'[s] = pc[s] /\ line'[s] = line[s] /\ k'[s] = k[s]
    BY <2>1 DEF TypeOK
  <2>3. pc'[t] = at /\ line'[t] = l
    BY <2>1 DEF TypeOK
  <2>4. CallShape'
    BY <1>1, <2>1, <2>2, <2>3 DEF Inv, CallShape, Writing
  <2>5. GoalOwned' /\ GoalKept'
    BY <1>1, <2>1, <2>2, QuietGoals DEF Inv, Writing
  <2>6. ASSUME NEW s \in Threads \ {t} PROVE ThreadInv(s)'
    BY <1>1, <2>1, <2>2, Undisturbed DEF Inv
  <2> QED
    BY <1>1, <2>4, <2>5, <2>6 DEF Inv
<1> HIDE DEF Others
<1>2. ASSUME NEW l \in Lines, Enter(t, l, "get"), level' = [level EXCEPT ![t] = {}]
      PROVE  ThreadInv(t)'
  <2>1. pc'[t] = "get" /\ k'[t] = 1 /\ level'[t] = {}
    BY <1>2 DEF Enter, Begin, TypeOK
  <2> QED
    BY <2>1, BeforeFirst
    DEF ThreadInv, Fresh, ReadSoFar, Plan, WrittenSoFar, Writing
<1>3. ASSUME NEW l \in Lines, GetLevel(t, l) PROVE Inv'
  <2>1. Others(l, "get")
    BY <1>3 DEF GetLevel, Others, TypeOK
  <2>2. ask'[t] = {} /\ want'[t] = {}
    BY <1>3 DEF GetLevel, Enter, Begin, Inv, CallShape
  <2>3. ThreadInv(t)'
    BY <1>2, <1>3 DEF GetLevel
  <2> QED
    BY <1>1, <2>1, <2>2, <2>3
<1>4. ASSUME NEW l \in Lines, NEW v \in SUBSET Field[l], SetLevel(t, l, v)
      PROVE  Inv'
  <2>1. Others(l, "load") /\ l \in Outputs
    BY <1>4 DEF SetLevel, Others, TypeOK
  <2>2. /\ level'[t] = v /\ ask'[t] = Field[l]
        /\ want'[t] = Stored(l, v) \cap Field[l]
    BY <1>4 DEF SetLevel, TypeOK
  <2>3. pc'[t] = "load" /\ k'[t] = 1 /\ line'[t] = l
    BY <1>4 DEF SetLevel, Enter, Begin, TypeOK
  <2>4. Plan(t)'
    BY <2>2, <2>3 DEF Plan
  <2>5. ThreadInv(t)'
    BY <2>3, <2>4, BeforeFirst DEF ThreadInv, Fresh, ReadSoFar, WrittenSoFar
  <2> QED
    BY <1>1, <2>1, <2>2, <2>5
<1>5. ASSUME NEW l \in Lines, NEW c \in Field[l], NEW on \in BOOLEAN,
             ModifyBit(t, l, c, on)
      PROVE  Inv'
  <2>1. Others(l, "get") /\ l \in Outputs
    BY <1>5 DEF ModifyBit, Others, TypeOK
  <2>2. ask'[t] = {c} /\ want'[t] \subseteq {c}
    BY <1>5 DEF ModifyBit, TypeOK
  <2>3. ThreadInv(t)'
    BY <1>2, <1>5 DEF ModifyBit
  <2> QED
    BY <1>1, <2>1, <2>2, <2>3
<1> QED
  BY <1>3, <1>4, <1>5 DEF Call

\* What the steps of a thread inside its call leave alone.
LEMMA LocalStep ==
  ASSUME TypeOK, NEW t \in Threads, Run(t)
  PROVE  /\ pc[t] # "idle" /\ UNCHANGED <<unbooted, line>>
         /\ \A s \in Threads \ {t} :
              /\ pc'[s] = pc[s] /\ k'[s] = k[s] /\ level'[s] = level[s]
              /\ buf'[s] = buf[s] /\ ask'[s] = ask[s] /\ want'[s] = want[s]
<1>1. CASE ReadRegister(t)
  BY <1>1 DEF ReadRegister, MoreRegisters, TypeOK
<1>2. CASE LoadRegister(t)
  BY <1>2 DEF LoadRegister, TypeOK
<1>3. CASE StoreRegister(t)
  BY <1>3 DEF StoreRegister, MoreRegisters, TypeOK
<1>4. CASE BusError(t)
  BY <1>4 DEF BusError, TypeOK
<1>5. CASE Leave(t)
  BY <1>5 DEF Leave, Release, TypeOK
<1> QED
  BY <1>1, <1>2, <1>3, <1>4, <1>5 DEF Run

\* A step inside a call that leaves the bank alone keeps the invariant if it
\* keeps that of its thread.
LEMMA QuietStep ==
  ASSUME TypeOK, Inv, NEW t \in Threads, Run(t), UNCHANGED <<high, goal>>,
         \/ ask'[t] = ask[t] /\ want'[t] = want[t]
         \/ ask'[t] = {} /\ want'[t] = {},
         pc'[t] = "idle" => ask'[t] = {},
         Writing(t) => Writing(t)' /\ ask'[t] = ask[t],
         Writing(t)' => line[t] \in Outputs,
         ThreadInv(t)'
  PROVE  Inv'
<1>1. CallShape'
  BY LocalStep DEF Inv, CallShape, Writing
<1>2. GoalOwned' /\ GoalKept'
  BY LocalStep, QuietGoals DEF Inv, Writing
<1>3. ASSUME NEW s \in Threads \ {t} PROVE ThreadInv(s)'
  BY LocalStep, Undisturbed DEF Inv
<1> QED
  BY <1>1, <1>2, <1>3 DEF Inv

LEMMA ReadStep ==
  ASSUME TypeOK, Inv, NEW t \in Threads, ReadRegister(t)
  PROVE  Inv'
<1> DEFINE l == line[t]
           here == In(Reg(t)) \cap Field[l]
           sofar == level[t] \cup (IF l \in Inverted THEN here \ high ELSE here \cap high)
<1>0. /\ l \in Lines /\ k[t] \in 1..Len(Order[l]) /\ pc[t] = "get"
      /\ Len(Order[l]) \in Nat
  BY OrderFacts DEF ReadRegister, MoreRegisters, TypeOK
<1>1. /\ UNCHANGED <<high, line, ask, want, goal>>
      /\ \/ /\ k'[t] = k[t] + 1 /\ level'[t] = sofar
            /\ pc' = pc /\ k[t] < Len(Order[l])
         \/ /\ k'[t] = 1 /\ k[t] = Len(Order[l])
            /\ level'[t] = (sofar \ ask[t]) \cup (Stored(l, want[t]) \cap ask[t])
            /\ pc'[t] = IF ask[t] = {} THEN "done" ELSE "load"
  BY <1>0 DEF ReadRegister, MoreRegisters, TypeOK
<1>2. Before(l, k[t] + 1) = Before(l, k[t]) \cup here
  BY <1>0, BeforeNext DEF Reg
<1>3. ASSUME l \in Outputs
      PROVE  /\ sofar \subseteq Before(l, k[t] + 1)
             /\ \A c \in Before(l, k[t] + 1) : c \in high <=> c \in Stored(l, sofar)
  <2>1. /\ level[t] \subseteq Before(l, k[t])
        /\ \A c \in Before(l, k[t]) : c \in high <=> c \in Stored(l, level[t])
    BY <1>0, <1>3 DEF Inv, ThreadInv, ReadSoFar
  <2>2. Before(l, k[t] + 1) \subseteq Field[l]
    BY DEF Before
  <2> QED
    BY <1>2, <2>1, <2>2 DEF Stored
<1>4. ask[t] # {} => l \in Outputs
  BY DEF Inv, CallShape
<1>5. ThreadInv(t)'
  <2>1. CASE pc' = pc
    BY <1>0, <1>1, <1>3, <2>1
    DEF ThreadInv, Fresh, ReadSoFar, Plan, WrittenSoFar, Writing
  <2>2. CASE pc'[t] = "done"
    BY <2>2 DEF ThreadInv, Fresh, ReadSoFar, Plan, WrittenSoFar, Writing
  <2>3. CASE pc'[t] = "load"
    <3>1. /\ k'[t] = 1 /\ k[t] = Len(Order[l]) /\ ask[t] # {}
          /\ level'[t] = (sofar \ ask[t]) \cup (Stored(l, want[t]) \cap ask[t])
      BY <1>0, <1>1, <2>3
    <3>2. \A c \in Field[l] : c \in high <=> c \in Stored(l, sofar)
      BY <1>0, <1>3, <1>4, <3>1, BeforeEnd
    <3>3. Plan(t)'
      BY <1>1, <3>1, <3>2 DEF Plan, Stored
    <3> QED
      BY <1>1, <2>3, <3>1, <3>3, BeforeFirst
      DEF ThreadInv, Fresh, ReadSoFar, WrittenSoFar
  <2> QED BY <1>1, <2>1, <2>2, <2>3
<1>6. Writing(t)' => line[t] \in Outputs
  BY <1>0, <1>1, <1>4 DEF Writing
<1>7. pc'[t] # "idle" /\ ~Writing(t)
  BY <1>0, <1>1 DEF Writing
<1>8. Run(t) /\ UNCHANGED <<high, goal>>
  BY <1>1 DEF Run
<1>9. ask'[t] = ask[t] /\ want'[t] = want[t]
  BY <1>1
<1> HIDE DEF l, here, sofar
<1> QED
  BY <1>5, <1>6, <1>7, <1>8, <1>9, QuietStep

LEMMA LoadStep ==
  ASSUME TypeOK, Inv, NEW t \in Threads, LoadRegister(t)
  PROVE  Inv'
<1>1. /\ pc[t] = "load" /\ pc'[t] = "store"
      /\ buf'[t] = high \cap In(Reg(t))
      /\ UNCHANGED <<high, line, k, level, ask, want, goal>>
  BY DEF LoadRegister, TypeOK
<1>2. Reg(t)' = Reg(t)
  BY <1>1 DEF Reg
<1>3. ThreadInv(t)'
  <2>1. Plan(t) /\ WrittenSoFar(t)
    BY DEF Inv, ThreadInv
  <2>2. Fresh(t)' /\ ReadSoFar(t)'
    BY <1>1, <1>2 DEF Fresh, ReadSoFar
  <2>3. Plan(t)' /\ WrittenSoFar(t)'
    BY <1>1, <2>1 DEF Plan, WrittenSoFar, Writing
  <2> QED
    BY <2>2, <2>3 DEF ThreadInv
<1>4. line[t] \in Outputs
  BY <1>1 DEF Inv, CallShape, Writing
<1>5. Run(t) /\ pc'[t] # "idle" /\ Writing(t)' /\ ask'[t] = ask[t] /\ want'[t] = want[t]
  BY <1>1 DEF Run, Writing
<1> QED
  BY <1>1, <1>3, <1>4, <1>5, QuietStep

LEMMA LeaveStep ==
  ASSUME TypeOK, Inv, NEW t \in Threads, Leave(t)
  PROVE  Inv'
<1>1. /\ pc[t] = "done" /\ pc'[t] = "idle" /\ ask'[t] = {} /\ want'[t] = {}
      /\ UNCHANGED <<high, goal>>
  BY DEF Leave, Release, TypeOK
<1>2. ThreadInv(t)'
  BY <1>1 DEF ThreadInv, Fresh, ReadSoFar, Plan, WrittenSoFar, Writing
<1>3. Run(t) /\ ~Writing(t) /\ ~Writing(t)'
  BY <1>1 DEF Run, Writing
<1> QED
  BY <1>1, <1>2, <1>3, QuietStep

\* After the write of a thread: the cells it is not asked to change keep their
\* value, and those of its line in the registers up to this one have the
\* level's.
LEMMA AfterWrite ==
  ASSUME TypeOK, Inv, NEW t \in Threads, pc[t] = "store",
         high' = WriteReg(Reg(t), Merge(line[t], level[t], buf[t]))
  PROVE  /\ \A c \in Cells \ ask[t] : c \in high' <=> c \in high
         /\ \A c \in Before(line[t], k[t] + 1) :
              c \in high' <=> c \in Stored(line[t], level[t])
<1> DEFINE l == line[t]
<1>0. l \in Lines /\ k[t] \in 1..Len(Order[l]) /\ Field[l] \subseteq Cells
  BY OrderFacts, FieldFacts DEF TypeOK
<1>1. \A c \in Cells : c \in high' <=>
        IF c \in In(Reg(t)) /\ c \in Field[l] THEN c \in Stored(l, level[t])
        ELSE c \in high
  BY WriteEffect DEF Inv, ThreadInv
<1>2. \A c \in Field[l] \ ask[t] : c \in Stored(l, level[t]) <=> c \in high
  BY DEF Inv, ThreadInv, Plan, Writing
<1>3. \A c \in Before(l, k[t]) : c \in high <=> c \in Stored(l, level[t])
  BY DEF Inv, ThreadInv, WrittenSoFar, Writing
<1>4. Before(l, k[t] + 1) = Before(l, k[t]) \cup (In(Reg(t)) \cap Field[l])
  BY <1>0, BeforeNext DEF Reg
<1>5. Before(l, k[t]) \subseteq Field[l]
  BY DEF Before
<1> HIDE DEF l
<1>6. \A c \in Cells \ ask[t] : c \in high' <=> c \in high
  BY <1>1, <1>2
<1>7. \A c \in Before(l, k[t] + 1) : c \in high' <=> c \in Stored(l, level[t])
  BY <1>0, <1>1, <1>3, <1>4, <1>5
<1> QED
  BY <1>6, <1>7 DEF l

\* The goals after a write, whichever way the call goes on.
LEMMA GoalsAfterWrite ==
  ASSUME TypeOK, Inv, NEW t \in Threads, pc[t] \in {"load", "store"},
         \A c \in Cells \ ask[t] : (c \in high' <=> c \in high) /\ goal'[c] = goal[c],
         \A s \in Threads \ {t} : Writing(s) => Writing(s)' /\ ask'[s] = ask[s],
         UNCHANGED unbooted,
         \A c \in ask[t] : \/ goal'[c] = goal[c] /\ Writing(t)' /\ ask'[t] = ask[t]
                           \/ goal'[c] = "unknown"
                           \/ goal'[c] \in {"high", "low"}
                                /\ (c \in high' <=> goal'[c] = "high")
  PROVE  GoalOwned' /\ GoalKept'
<1>1. /\ unbooted = {} /\ line[t] \in Outputs /\ ask[t] \subseteq Field[line[t]]
  BY DEF Inv, CallShape, Writing
<1>2. GoalOwned'
  BY <1>1 DEF GoalOwned, Inv
<1>3. ASSUME NEW c \in Cells, goal'[c] # "unknown",
             \A s \in Threads : Writing(s)' => c \notin ask'[s]
      PROVE  c \in high' <=> goal'[c] = "high"
  <2>1. CASE c \in ask[t]
    BY <1>3, <2>1
  <2>2. CASE c \notin ask[t]
    <3>1. \A s \in Threads : Writing(s) => c \notin ask[s]
      BY <1>3, <2>2
    <3> QED
      BY <1>3, <2>2, <3>1 DEF Inv, GoalKept
  <2> QED BY <2>1, <2>2
<1> QED
  BY <1>2, <1>3 DEF GoalKept

LEMMA StoreStep ==
  ASSUME RegistersNotShared, TypeOK, TypeOK', LockDiscipline, Inv,
         NEW t \in Threads, StoreRegister(t)
  PROVE  Inv'
<1> DEFINE l == line[t]
<1>0. /\ l \in Lines /\ k[t] \in 1..Len(Order[l]) /\ Len(Order[l]) \in Nat
      /\ pc[t] = "store" /\ Run(t)
  BY OrderFacts DEF StoreRegister, MoreRegisters, TypeOK, Run
<1>1. /\ UNCHANGED <<unbooted, line, level, ask, want>>
      /\ high' = WriteReg(Reg(t), Merge(l, level[t], buf[t]))
      /\ \/ /\ k'[t] = k[t] + 1 /\ pc'[t] = "load" /\ UNCHANGED goal
         \/ /\ k[t] = Len(Order[l]) /\ pc'[t] = "done"
            /\ goal' = Ask(ask[t], want[t])
  <2>1. \/ k' = [k EXCEPT ![t] = @ + 1] /\ pc' = [pc EXCEPT ![t] = "load"] /\ UNCHANGED goal
        \/ /\ ~(k[t] < Len(Order[l])) /\ pc' = [pc EXCEPT ![t] = "done"]
           /\ goal' = Ask(ask[t], want[t])
    BY Zenon DEF StoreRegister, MoreRegisters
  <2> QED
    BY <1>0, <2>1 DEF StoreRegister, MoreRegisters, TypeOK
<1>2. /\ \A c \in Cells \ ask[t] : c \in high' <=> c \in high
      /\ \A c \in Before(l, k[t] + 1) : c \in high' <=> c \in Stored(l, level[t])
  BY <1>0, <1>1, AfterWrite
<1>3. /\ l \in Outputs /\ ask[t] \subseteq Field[l] /\ Field[l] \subseteq Cells
      /\ \A c \in Field[l] : c \in Stored(l, level[t]) <=>
           IF c \in ask[t] THEN c \in want[t] ELSE c \in high
  BY <1>0, FieldFacts DEF Inv, ThreadInv, CallShape, Plan, Writing
<1>4. ThreadInv(t)'
  <2>1. CASE pc'[t] = "load" /\ k'[t] = k[t] + 1
    <3>1. Fresh(t)' /\ ReadSoFar(t)'
      BY <2>1 DEF Fresh, ReadSoFar
    <3>2. Plan(t)'
      BY <1>1, <1>2, <1>3 DEF Plan
    <3>3. WrittenSoFar(t)'
      BY <1>1, <1>2, <2>1 DEF WrittenSoFar
    <3> QED BY <3>1, <3>2, <3>3 DEF ThreadInv
  <2>2. CASE pc'[t] = "done"
    BY <2>2 DEF ThreadInv, Fresh, ReadSoFar, Plan, WrittenSoFar, Writing
  <2> QED BY <1>1, <2>1, <2>2
<1>5. ASSUME NEW s \in Threads \ {t} PROVE ThreadInv(s)'
  <2>1. /\ pc'[s] = pc[s] /\ line'[s] = line[s] /\ k'[s] = k[s]
        /\ level'[s] = level[s] /\ buf'[s] = buf[s]
        /\ ask'[s] = ask[s] /\ want'[s] = want[s]
    BY <1>0, <1>1, LocalStep
  <2>2. CASE pc[s] = "idle"
    BY <2>1, <2>2 DEF ThreadInv, Fresh, ReadSoFar, Plan, WrittenSoFar, Writing
  <2>3. CASE pc[s] # "idle"
    <3>1. /\ \A c \in Field[line[s]] : c \in high' <=> c \in high
          /\ Writing(s) =>
               \A c \in In(Reg(s)) \ InputCells : c \in high' <=> c \in high
      BY <1>0, <1>1, <2>3, OthersAfterWrite DEF Inv, ThreadInv, TypeOK
    <3> QED
      BY <2>1, <3>1, Undisturbed DEF Inv
  <2> QED BY <2>2, <2>3
<1>6. GoalOwned' /\ GoalKept'
  <2>1. \A s \in Threads \ {t} : Writing(s) => Writing(s)' /\ ask'[s] = ask[s]
    BY <1>0, LocalStep DEF Writing
  <2>2. \A c \in Cells \ ask[t] : goal'[c] = goal[c]
    BY <1>1 DEF Ask
  <2>3. ASSUME NEW c \in ask[t]
        PROVE \/ goal'[c] = goal[c] /\ Writing(t)' /\ ask'[t] = ask[t]
              \/ goal'[c] \in {"high", "low"} /\ (c \in high' <=> goal'[c] = "high")
    <3>1. CASE pc'[t] = "load" /\ UNCHANGED goal
      BY <1>1, <3>1 DEF Writing
    <3>2. CASE k[t] = Len(Order[l]) /\ goal' = Ask(ask[t], want[t])
      <4>1. c \in Before(l, k[t] + 1) /\ c \in Cells
        BY <1>0, <1>3, <3>2, BeforeEnd
      <4>2. c \in high' <=> c \in want[t]
        BY <1>2, <1>3, <4>1
      <4> QED
        BY <3>2, <4>1, <4>2 DEF Ask
    <3> QED BY <1>1, <3>1, <3>2
  <2> QED
    BY <1>0, <1>1, <1>2, <2>1, <2>2, <2>3, GoalsAfterWrite
<1>7. CallShape'
  BY <1>0, <1>1, <1>3, LocalStep DEF Inv, CallShape, Writing
<1> QED
  BY <1>4, <1>5, <1>6, <1>7 DEF Inv

LEMMA BusErrorStep ==
  ASSUME RegistersNotShared, TypeOK, TypeOK', LockDiscipline, Inv,
         NEW t \in Threads, BusError(t)
  PROVE  Inv'
<1>0. /\ pc'[t] = "done" /\ Run(t) /\ UNCHANGED <<unbooted, line, ask, want>>
      /\ pc[t] \in {"get", "load", "store"}
  BY DEF BusError, Run, TypeOK
<1>1. ThreadInv(t)'
  BY <1>0 DEF ThreadInv, Fresh, ReadSoFar, Plan, WrittenSoFar, Writing
<1>2. CASE pc[t] = "get"
  <2>1. UNCHANGED <<high, goal>> /\ ~Writing(t) /\ ~Writing(t)'
    BY <1>0, <1>2 DEF BusError, Writing
  <2> QED
    BY <1>0, <1>1, <2>1, QuietStep
<1>3. CASE pc[t] # "get"
  <2>1. \A s \in Threads \ {t} : Writing(s) => Writing(s)' /\ ask'[s] = ask[s]
    BY <1>0, LocalStep DEF Writing
  <2>2. goal' = Forget(ask[t]) /\ ask[t] \subseteq Cells
    BY <1>3 DEF BusError, TypeOK, Sets
  <2>3. \/ high' = high
        \/ /\ pc[t] = "store"
           /\ high' = WriteReg(Reg(t), Merge(line[t], level[t], buf[t]))
    BY DEF BusError
  <2>4. \A c \in Cells \ ask[t] : c \in high' <=> c \in high
    BY <2>3, AfterWrite
  <2>5. GoalOwned' /\ GoalKept'
    <3>1. \A c \in Cells : goal'[c] = IF c \in ask[t] THEN "unknown" ELSE goal[c]
      BY <2>2 DEF Forget
    <3> QED
      BY <1>0, <1>3, <2>1, <2>2, <2>4, <3>1, GoalsAfterWrite
  <2>6. ASSUME NEW s \in Threads \ {t} PROVE ThreadInv(s)'
    <3>1. /\ pc'[s] = pc[s] /\ line'[s] = line[s] /\ k'[s] = k[s]
          /\ level'[s] = level[s] /\ buf'[s] = buf[s]
          /\ ask'[s] = ask[s] /\ want'[s] = want[s]
      BY <1>0, LocalStep
    <3>2. CASE pc[s] = "idle"
      BY <3>1, <3>2 DEF ThreadInv, Fresh, ReadSoFar, Plan, WrittenSoFar, Writing
    <3>3. CASE high' = high
      BY <3>1, <3>3, Undisturbed DEF Inv
    <3>4. CASE high' # high /\ pc[s] # "idle"
      <4>1. /\ \A c \in Field[line[s]] : c \in high' <=> c \in high
            /\ Writing(s) =>
                 \A c \in In(Reg(s)) \ InputCells : c \in high' <=> c \in high
        BY <2>3, <3>4, OthersAfterWrite DEF Inv, ThreadInv, TypeOK
      <4> QED
        BY <3>1, <4>1, Undisturbed DEF Inv
    <3> QED BY <3>2, <3>3, <3>4
  <2>7. CallShape'
    BY <1>0, LocalStep DEF Inv, CallShape, Writing
  <2> QED
    BY <1>1, <2>5, <2>6, <2>7 DEF Inv
<1> QED
  BY <1>2, <1>3

\* What the initialisation of an output line does to each cell and goal.
LEMMA BootEffect ==
  ASSUME TypeOK, NEW l \in Lines, l \in Outputs, Boot(l)
  PROVE  /\ \A c \in Cells \ Field[l] : (c \in high' <=> c \in high) /\ goal'[c] = goal[c]
         /\ \/ goal' = goal
            \/ \A c \in Field[l] :
                 /\ goal'[c] = IF c \in Stored(l, Default[l]) THEN "high" ELSE "low"
                 /\ c \in high' <=> c \in Stored(l, Default[l])
<1>1. PICK n \in 0..Len(Order[l]) :
        LET done == {c \in Field[l] : \E i \in 1..n : Order[l][i] = RegOf[c]}
            ones == Stored(l, Default[l])
        IN /\ high' = (high \ done) \cup (ones \cap done)
           /\ goal' = IF n = Len(Order[l]) THEN Ask(Field[l], ones) ELSE goal
  BY DEF Boot
<1> DEFINE done == {c \in Field[l] : \E i \in 1..n : Order[l][i] = RegOf[c]}
<1>2. n = Len(Order[l]) => done = Field[l]
  <2>1. DOMAIN Order[l] = 1..Len(Order[l])
    BY OrderFacts
  <2>2. \A c \in Field[l] : \E i \in DOMAIN Order[l] : RegOf[c] = Order[l][i]
    BY ConfigAssumption DEF RegsOf
  <2> QED BY <2>1, <2>2
<1>3. done \subseteq Field[l] /\ Field[l] \subseteq Cells
  BY FieldFacts
<1>4. high' = (high \ done) \cup (Stored(l, Default[l]) \cap done)
  BY <1>1
<1>5. goal' = IF n = Len(Order[l]) THEN Ask(Field[l], Stored(l, Default[l])) ELSE goal
  BY <1>1
<1> HIDE DEF done
<1>6. \A c \in Cells \ Field[l] : (c \in high' <=> c \in high) /\ goal'[c] = goal[c]
  BY <1>3, <1>4, <1>5 DEF Ask
<1>7. CASE n = Len(Order[l])
  BY <1>2, <1>3, <1>4, <1>5, <1>6, <1>7 DEF Ask
<1>8. CASE n # Len(Order[l])
  BY <1>5, <1>6, <1>8
<1> QED
  BY <1>7, <1>8

LEMMA BootStep ==
  ASSUME TypeOK, Inv, NEW l \in Lines, Boot(l)
  PROVE  Inv'
<1>1. /\ l \in unbooted /\ unbooted' = unbooted \ {l}
      /\ UNCHANGED <<lock, pc, line, k, level, buf, ask, want>>
  BY DEF Boot
<1>2. \A t \in Threads : pc[t] = "idle"
  BY <1>1 DEF Inv, CallShape
<1>3. \A t \in Threads : ThreadInv(t)'
  BY <1>1, <1>2 DEF ThreadInv, Fresh, ReadSoFar, Plan, WrittenSoFar, Writing
<1>4. CallShape'
  BY <1>1, <1>2 DEF Inv, CallShape, Writing
<1>5. \A c \in Field[l] : goal[c] = "unknown"
  <2> SUFFICES ASSUME NEW c \in Field[l], goal[c] # "unknown" PROVE FALSE
    OBVIOUS
  <2>1. PICK m \in Outputs \ unbooted : c \in Field[m]
    BY FieldFacts DEF Inv, GoalOwned
  <2>2. m \in Lines
    BY ConfigAssumption
  <2> QED BY <1>1, <2>1, <2>2, FieldsApart
<1>6. GoalOwned'
  <2>1. CASE l \in Outputs
    <3> SUFFICES ASSUME NEW c \in Cells, goal'[c] # "unknown"
                 PROVE  \E m \in Outputs \ unbooted' : c \in Field[m]
      BY DEF GoalOwned
    <3>1. CASE c \in Field[l]
      BY <1>1, <2>1, <3>1
    <3>2. CASE c \notin Field[l]
      BY <1>1, <2>1, <3>2, BootEffect DEF Inv, GoalOwned
    <3> QED BY <3>1, <3>2
  <2>2. CASE l \notin Outputs
    BY <1>1, <2>2 DEF Boot, Inv, GoalOwned
  <2> QED BY <2>1, <2>2
<1>7. GoalKept'
  <2> SUFFICES ASSUME NEW c \in Cells, goal'[c] # "unknown"
               PROVE  c \in high' <=> goal'[c] = "high"
    BY DEF GoalKept
  <2>1. \A t \in Threads : ~Writing(t)
    BY <1>2 DEF Writing
  <2>2. CASE l \in Outputs /\ c \in Field[l]
    BY <1>5, <2>2, BootEffect
  <2>3. CASE l \in Outputs /\ c \notin Field[l]
    BY <2>1, <2>3, BootEffect DEF Inv, GoalKept
  <2>4. CASE l \notin Outputs
    BY <2>1, <2>4 DEF Boot, Inv, GoalKept
  <2> QED BY <2>2, <2>3, <2>4
<1> QED
  BY <1>3, <1>4, <1>6, <1>7 DEF Inv

LEMMA SenseStep ==
  ASSUME TypeOK, Inv, NEW d \in Cells, Sense(d)
  PROVE  Inv'
<1>1. /\ UNCHANGED <<unbooted, lock, pc, line, k, level, buf, ask, want, goal>>
      /\ d \in InputCells
      /\ \A c \in Cells : c # d => (c \in high' <=> c \in high)
  BY DEF Sense
<1>2. \A l \in Outputs : d \notin Field[l]
  BY <1>1, FieldsApart, ConfigAssumption
<1>3. ASSUME NEW t \in Threads PROVE ThreadInv(t)'
  <2>1. line[t] \in Outputs => \A c \in Field[line[t]] : c \in high' <=> c \in high
    BY <1>1, <1>2, FieldFacts DEF TypeOK
  <2>2. \A c \in In(Reg(t)) \ InputCells : c \in high' <=> c \in high
    BY <1>1 DEF In
  <2> QED
    BY <1>1, <2>1, <2>2, Undisturbed DEF Inv
<1>4. CallShape' /\ GoalOwned'
  BY <1>1 DEF Inv, CallShape, GoalOwned, Writing
<1>5. GoalKept'
  <2>1. goal[d] = "unknown"
    BY <1>2 DEF Inv, GoalOwned
  <2> QED
    BY <1>1, <2>1 DEF Inv, GoalKept, Writing
<1> QED
  BY <1>3, <1>4, <1>5 DEF Inv

LEMMA InvStep ==
  ASSUME RegistersNotShared
  PROVE  TypeOK /\ LockDiscipline /\ Inv /\ [Next]_vars => Inv'
<1> SUFFICES ASSUME TypeOK, LockDiscipline, Inv, [Next]_vars PROVE Inv'
  OBVIOUS
<1>1. TypeOK'
  BY TypeStep
<1>2. ASSUME NEW l \in Lines, Boot(l) PROVE Inv'
  BY <1>2, BootStep
<1>3. ASSUME NEW c \in Cells, Sense(c) PROVE Inv'
  BY <1>3, SenseStep
<1>4. ASSUME NEW t \in Threads, Call(t) PROVE Inv'
  BY <1>4, CallStep
<1>5. ASSUME NEW t \in Threads, Run(t) PROVE Inv'
  BY <1>1, <1>5, ReadStep, LoadStep, StoreStep, BusErrorStep, LeaveStep DEF Run
<1>6. CASE UNCHANGED vars
  BY <1>6 DEF vars, Inv, CallShape, GoalOwned, GoalKept, ThreadInv, Fresh,
              ReadSoFar, Plan, WrittenSoFar, Writing, Reg
<1> QED
  BY <1>2, <1>3, <1>4, <1>5, <1>6 DEF Next

LEMMA InvCorrect ==
  ASSUME RegistersNotShared
  PROVE  Spec => []Inv
<1>1. TypeOK /\ LockDiscipline /\ Inv /\ [Next]_vars => Inv'
  BY InvStep
<1> QED
  BY <1>1, InvInit, TypeCorrect, LocksCorrect, PTL DEF Spec

\* When output lines share no register, the byte a read-modify-write puts back
\* is never stale in a bit that the CPLD drives.
THEOREM BuffersFresh ==
  ASSUME RegistersNotShared
  PROVE  Spec => []FreshBuffer
<1>1. Inv => FreshBuffer
  BY DEF Inv, ThreadInv, Fresh, FreshBuffer
<1> QED
  BY <1>1, InvCorrect, PTL

\* When output lines share no register, what a successful write of a level
\* promised stays true until a later call is asked to change it, whatever
\* fails or interleaves in between.
THEOREM GoalsCorrect ==
  ASSUME RegistersNotShared
  PROVE  Spec => []GoalHolds
<1>1. Inv => GoalHolds
  <2> SUFFICES ASSUME Inv PROVE GoalHolds
    OBVIOUS
  <2> QED
    BY DEF Inv, GoalKept, GoalHolds, Writing
<1> QED
  BY <1>1, InvCorrect, PTL

-----------------------------------------------------------------------------
(* The lines implement independent lines.                                  *)

LEMMA ChangeLine ==
  ASSUME TypeOK, high' \in Sets, NEW l \in Lines,
         \A c \in Cells \ Field[l] : c \in high' <=> c \in high
  PROVE  Abstract!Change(l)
<1>1. high' = (high \ Field[l]) \cup (high' \cap Field[l])
  BY DEF TypeOK, Sets
<1>2. high' \cap Field[l] \in SUBSET Field[l]
  OBVIOUS
<1> QED
  BY <1>1, <1>2 DEF Abstract!Change

\* The owner of an output line drives it when it writes a register.
LEMMA DriveLine ==
  ASSUME TypeOK, high' \in Sets, LockDiscipline, Inv, UNCHANGED <<lock, unbooted>>,
         NEW t \in Threads, pc[t] = "store",
         high' = WriteReg(Reg(t), Merge(line[t], level[t], buf[t]))
  PROVE  Abstract!Drive(t, line[t])
<1>1. line[t] \in Lines /\ line[t] \in Outputs /\ lock[line[t]] = t
  BY DEF TypeOK, Inv, CallShape, LockDiscipline, Writing
<1>2. ask[t] \subseteq Field[line[t]]
  BY DEF Inv, CallShape
<1>3. Abstract!Change(line[t])
  BY <1>1, <1>2, AfterWrite, ChangeLine
<1> QED
  BY <1>1, <1>3 DEF Abstract!Drive

LEMMA RefinementStep ==
  ASSUME TypeOK, TypeOK', LockDiscipline, Inv, [Next]_vars
  PROVE  [Abstract!Next]_(Abstract!avars)
<1>1. ASSUME NEW l \in Lines, Boot(l) PROVE Abstract!Next
  <2>1. l \in Outputs => Abstract!Change(l)
    BY <1>1, BootEffect, ChangeLine DEF TypeOK
  <2>2. Abstract!Initialise(l)
    BY <1>1, <2>1 DEF Boot, Abstract!Initialise
  <2> QED BY <2>2 DEF Abstract!Next
<1>2. ASSUME NEW c \in Cells, Sense(c) PROVE Abstract!Next
  <2>1. Abstract!Sense(c)
    BY <1>2 DEF Sense, InputCells, Abstract!Sense, Abstract!Inputs
  <2> QED BY <2>1 DEF Abstract!Next
<1>3. ASSUME NEW t \in Threads, Call(t) PROVE Abstract!Next
  <2>1. PICK l \in Lines : \E at \in {"get", "load"} : Enter(t, l, at)
    BY <1>3 DEF Call, GetLevel, SetLevel, ModifyBit
  <2>2. Abstract!Take(t, l)
    BY <2>1 DEF Enter, Begin, Abstract!Take
  <2> QED BY <2>2 DEF Abstract!Next
<1>4. ASSUME NEW t \in Threads, ReadRegister(t) \/ LoadRegister(t)
      PROVE  UNCHANGED Abstract!avars
  BY <1>4 DEF ReadRegister, LoadRegister, Abstract!avars
<1>5. ASSUME NEW t \in Threads, StoreRegister(t) PROVE Abstract!Next
  <2>1. Abstract!Drive(t, line[t]) /\ line[t] \in Lines
    BY <1>5, DriveLine DEF StoreRegister, MoreRegisters, TypeOK
  <2> QED BY <2>1 DEF Abstract!Next
<1>6. ASSUME NEW t \in Threads, BusError(t)
      PROVE  Abstract!Next \/ UNCHANGED Abstract!avars
  <2>1. CASE UNCHANGED high
    BY <1>6, <2>1 DEF BusError, Abstract!avars
  <2>2. CASE ~UNCHANGED high
    <3>1. Abstract!Drive(t, line[t]) /\ line[t] \in Lines
      BY <1>6, <2>2, DriveLine DEF BusError, TypeOK
    <3> QED BY <3>1 DEF Abstract!Next
  <2> QED BY <2>1, <2>2
<1>7. ASSUME NEW t \in Threads, Leave(t) PROVE Abstract!Next
  <2>1. lock[line[t]] = t /\ line[t] \in Lines
    BY <1>7 DEF Leave, Release, LockDiscipline, TypeOK
  <2>2. Abstract!Give(t, line[t])
    BY <1>7, <2>1 DEF Leave, Release, Abstract!Give
  <2> QED BY <2>1, <2>2 DEF Abstract!Next
<1>8. CASE UNCHANGED vars
  BY <1>8 DEF vars, Abstract!avars
<1> QED
  BY <1>1, <1>2, <1>3, <1>4, <1>5, <1>6, <1>7, <1>8 DEF Next, Run

\* When output lines share no register, the CPLD's lines are the independent
\* lines their users take them for: only the holder of a line changes it, and
\* nothing it does is seen on another line.
THEOREM LinesIndependent ==
  ASSUME RegistersNotShared
  PROVE  Spec => ImplementsIndependentLines
<1>1. Init => Abstract!Init
  BY DEF Init, Abstract!Init, Sets
<1>2. TypeOK /\ TypeOK' /\ LockDiscipline /\ Inv /\ [Next]_vars
        => [Abstract!Next]_(Abstract!avars)
  BY RefinementStep
<1> QED
  BY <1>1, <1>2, TypeCorrect, LocksCorrect, InvCorrect, PTL
  DEF Spec, ImplementsIndependentLines, Abstract!Spec

-----------------------------------------------------------------------------
(* The bits of a group's level, for bytes of eight bits and every placement *)
(* of a group.                                                             *)

\* The code's value of the macro.
EightBits == BITS_PER_BYTE = 8

LEMMA GroupFacts ==
  ASSUME EightBits, NEW g \in Groups, NEW i \in 1..g.length
  PROVE  /\ g.length \in 1..4 /\ g.start \in 0..7 /\ g.end \in 0..7
         /\ g.inverted \in BOOLEAN
         /\ g.length = 1 => g.start <= g.end
         /\ Lo(g, i) \in 0..7 /\ Hi(g, i) \in 0..7
         /\ Width(g) = (g.length - 1) * 8 + g.end + 1 - g.start
<1>1. /\ g \in [length : 1..4, start : 0..7, end : 0..7, inverted : BOOLEAN]
      /\ g.length = 1 => g.start <= g.end
  BY GroupAssumption DEF EightBits
<1> QED
  BY <1>1 DEF EightBits, Lo, Hi, Width

\* A bit x of byte i of a level no wider than the group, moved up to the first
\* bit lo of register i, is inside the group or beyond the byte.
LEMMA ByteFits ==
  ASSUME NEW len \in 1..4, NEW start \in 0..7, NEW end \in 0..7,
         NEW i \in 1..4, i <= len, len = 1 => start <= end,
         NEW x \in 0..7, x + (i - 1) * 8 < (len - 1) * 8 + end + 1 - start,
         NEW lo \in 0..7, lo = (IF i = 1 THEN start ELSE 0),
         NEW hi \in 0..7, hi = (IF i = len THEN end ELSE 7)
  PROVE  x + lo <= hi \/ x + lo > 7
<1>1. CASE i = len /\ i = 1
  BY <1>1
<1>2. CASE i = len /\ i # 1
  <2>1. x < end + 1 - start
    BY <1>2
  <2> QED BY <1>2, <2>1
<1>3. CASE i # len
  BY <1>3
<1> QED
  BY <1>1, <1>2, <1>3

\* What a written level makes of bit b of register i: inside the group it is
\* the bit of the level at that place, outside it is what it was.
LEMMA WrittenBit ==
  ASSUME EightBits, NEW g \in Groups, NEW i \in 1..g.length,
         NEW old \in SUBSET (0..7), NEW v \in SUBSET (0..(Width(g) - 1)),
         NEW b \in 0..7
  PROVE  b \in NewRegister(g, old, v, i) <=>
           IF b < Lo(g, i) \/ b > Hi(g, i) THEN b \in old
           ELSE (b - Lo(g, i) + (i - 1) * 8 \in v) # g.inverted
<1> DEFINE lo == Lo(g, i)
           hi == Hi(g, i)
           byte == Byte(Shr(v, (i - 1) * BITS_PER_BYTE))
           data == IF g.inverted THEN Toggle(byte, lo, hi) ELSE byte
<1>1. /\ lo \in 0..7 /\ hi \in 0..7 /\ g.length \in 1..4 /\ i \in 1..4
      /\ g.start \in 0..7 /\ g.end \in 0..7 /\ i <= g.length
      /\ Width(g) = (g.length - 1) * 8 + g.end + 1 - g.start
      /\ g.inverted \in BOOLEAN /\ (g.length = 1 => g.start <= g.end)
  BY GroupFacts
<1>2. lo = (IF i = 1 THEN g.start ELSE 0) /\ hi = (IF i = g.length THEN g.end ELSE 7)
  BY DEF EightBits, Lo, Hi
<1>3. \A x \in Nat : x \in byte <=> x < 8 /\ x + (i - 1) * 8 \in v
  BY <1>1 DEF EightBits, Byte, Shr
<1>4. byte \subseteq Nat
  BY <1>1 DEF EightBits, Byte, Shr
<1> HIDE DEF byte, lo, hi
<1>5. ASSUME NEW x \in byte PROVE x + lo <= hi \/ x + lo > 7
  <2>1. x \in 0..7 /\ x + (i - 1) * 8 \in v
    BY <1>3, <1>4
  <2>2. x + (i - 1) * 8 \in 0..(Width(g) - 1)
    BY <2>1
  <2>3. Width(g) \in Int
    BY <1>1
  <2>4. x + (i - 1) * 8 < Width(g)
    BY <2>2, <2>3
  <2>5. x + (i - 1) * 8 < (g.length - 1) * 8 + g.end + 1 - g.start
    BY <1>1, <2>4
  <2> QED
    BY <1>1, <1>2, <2>1, <2>5, ByteFits
<1>6. b \in NewRegister(g, old, v, i) <=>
        (b \in old /\ (b < lo \/ b >= hi + 1)) \/ \E x \in data : b = x + lo
  <2>1. NewRegister(g, old, v, i) = Byte(SubBitstream(old, data, lo, hi + 1))
    BY DEF NewRegister, byte, lo, hi
  <2> QED
    BY <2>1 DEF EightBits, Byte, SubBitstream, Shl
<1>7. CASE b < lo \/ b > hi
  <2>1. ~ \E x \in data : b = x + lo
    BY <1>1, <1>4, <1>5, <1>7 DEF Toggle
  <2> QED
    BY <1>1, <1>6, <1>7, <2>1 DEF lo, hi
<1>8. CASE ~(b < lo \/ b > hi)
  <2>1. (\E x \in data : b = x + lo) <=> b - lo \in data
    BY <1>1, <1>4, <1>8 DEF Toggle
  <2>2. b - lo \in data <=> (b - lo \in byte) # g.inverted
    BY <1>1, <1>8 DEF Toggle
  <2>3. b - lo \in byte <=> b - lo + (i - 1) * 8 \in v
    BY <1>1, <1>3, <1>8
  <2> QED
    BY <1>1, <1>6, <1>8, <2>1, <2>2, <2>3 DEF lo, hi
<1> QED
  BY <1>7, <1>8

-----------------------------------------------------------------------------
(* Reading.                                                                *)

\* What the read loop takes from a register of an aligned group: bit b of it
\* is bit b + Lo of the register, toggled if the polarity is inverted.
LEMMA ReadBit ==
  ASSUME EightBits, Aligned, NEW g \in Groups, NEW i \in 1..g.length,
         NEW reg \in SUBSET (0..7), NEW x
  PROVE  x \in RegisterData(g, reg, i) <=>
           /\ x \in 0..(Hi(g, i) - Lo(g, i))
           /\ (x + Lo(g, i) \in reg) # g.inverted
<1> DEFINE lo == Lo(g, i)
           hi == Hi(g, i)
           data == IF g.length = 1
                   THEN {b \in Shr(reg, g.start) : b <= g.end - g.start}
                   ELSE {b \in reg : b <= hi}
<1>1. /\ lo \in 0..7 /\ hi \in 0..7 /\ g.start \in 0..7 /\ g.end \in 0..7
      /\ g.length \in 1..4 /\ i \in 1..4 /\ g.inverted \in BOOLEAN
  BY GroupFacts
<1>2. lo = (IF i = 1 THEN g.start ELSE 0) /\ hi = (IF i = g.length THEN g.end ELSE 7)
  BY DEF EightBits, Lo, Hi
<1>3. g.length > 1 => g.start = 0
  BY DEF Aligned
<1>4. x \in data <=> x \in 0..(hi - lo) /\ x + lo \in reg
  <2>1. CASE g.length = 1
    <3>1. i = 1
      BY <2>1
    <3>2. x \in Shr(reg, g.start) <=> x \in Nat /\ x + g.start \in reg
      BY <1>1 DEF Shr
    <3> QED
      BY <1>1, <1>2, <2>1, <3>1, <3>2
  <2>2. CASE g.length # 1
    <3>1. lo = 0
      BY <1>1, <1>2, <1>3, <2>2
    <3>2. x \in 0..(hi - lo) => x + lo = x
      BY <1>1, <3>1
    <3>3. x \in data <=> x \in 0..7 /\ x \in reg /\ x <= hi
      BY <2>2
    <3> QED
      BY <1>1, <3>1, <3>2, <3>3
  <2> QED BY <2>1, <2>2
<1> HIDE DEF data
<1>5. RegisterData(g, reg, i) = IF g.inverted THEN Toggle(data, lo, hi) ELSE data
  BY DEF RegisterData, data
<1> QED
  BY <1>1, <1>4, <1>5 DEF Toggle

\* Bit p of a level and bit x of register i.
LEMMA Place ==
  ASSUME NEW i \in 1..4, NEW x \in 0..7
  PROVE  /\ x + (i - 1) * 8 \in Nat
         /\ (x + (i - 1) * 8) % 8 = x
         /\ (x + (i - 1) * 8) \div 8 + 1 = i
  OBVIOUS

LEMMA PlaceOf ==
  ASSUME NEW p \in Nat
  PROVE  /\ p \div 8 + 1 \in Nat \ {0} /\ p % 8 \in 0..7
         /\ p = (p % 8) + ((p \div 8 + 1) - 1) * 8
<1>1. p - 8 * (p \div 8) = p % 8
  BY Z3
<1>2. p \div 8 \in Nat /\ p % 8 \in 0..7
  OBVIOUS
<1> QED
  BY <1>1, <1>2

LEMMA PlaceInside ==
  ASSUME NEW len \in 1..4, NEW end \in 0..7, NEW i \in Nat \ {0}, NEW x \in 0..7,
         x + (i - 1) * 8 < (len - 1) * 8 + end + 1
  PROVE  i \in 1..len /\ (i = len => x <= end)
<1>1. i <= len
  BY SMT
<1>2. i = len => x <= end
  BY SMT
<1> QED
  BY <1>1, <1>2

LEMMA InsideWidth ==
  ASSUME NEW len \in 1..4, NEW end \in 0..7, NEW i \in 1..len, NEW x \in 0..7,
         i = len => x <= end
  PROVE  x + (i - 1) * 8 < (len - 1) * 8 + end + 1
<1>1. CASE i = len
  BY <1>1
<1>2. CASE i < len
  BY <1>2
<1> QED
  BY <1>1, <1>2

LEMMA ReadLayout ==
  ASSUME EightBits, Aligned, NEW g \in Groups,
         NEW r \in [1..g.length -> SUBSET (0..7)], NEW p
  PROVE  p \in LevelOf(g, r) <=>
           /\ p \in 0..(Width(g) - 1)
           /\ ((p + g.start) % 8 \in r[(p + g.start) \div 8 + 1]) # g.inverted
<1> DEFINE Data(i) == RegisterData(g, r[i], i)
           raw == UNION {Shl(Data(i), (i - 1) * BITS_PER_BYTE) : i \in 1..g.length}
<1>1. /\ g.start \in 0..7 /\ g.end \in 0..7 /\ g.length \in 1..4
      /\ g.inverted \in BOOLEAN /\ (g.length = 1 => g.start <= g.end)
      /\ Width(g) = (g.length - 1) * 8 + g.end + 1 - g.start
  <2>1. g.length \in 1..4
    BY GroupAssumption
  <2> QED
    BY <2>1, GroupFacts
<1>2. ASSUME NEW i \in 1..g.length, NEW x
      PROVE  x \in Data(i) <=> /\ x \in 0..(Hi(g, i) - Lo(g, i))
                              /\ (x + Lo(g, i) \in r[i]) # g.inverted
  BY ReadBit
<1>3. LevelOf(g, r) = IF g.length = 1 THEN raw ELSE Shr(raw, g.start)
  BY DEF LevelOf
<1> HIDE DEF Data
<1>4. p \in raw <=> \E i \in 1..g.length : \E x \in Data(i) : p = x + (i - 1) * 8
  <2>1. p \in raw <=> \E i \in 1..g.length : p \in Shl(Data(i), (i - 1) * 8)
    BY DEF EightBits
  <2> QED
    BY <2>1 DEF Shl
<1> HIDE DEF raw
<1>5. CASE g.length = 1
  <2>1. Lo(g, 1) = g.start /\ Hi(g, 1) = g.end
    BY <1>5 DEF Lo, Hi
  <2>2. p \in raw <=> \E x \in Data(1) : p = x + 0
    BY <1>4, <1>5
  <2>3. \A x : x \in Data(1) <=> /\ x \in 0..(g.end - g.start)
                               /\ (x + g.start \in r[1]) # g.inverted
    BY <1>2, <1>5, <2>1
  <2>4. p \in raw <=> p \in Data(1)
    BY <1>1, <2>2, <2>3
  <2>5. p \in 0..(g.end - g.start) =>
          (p + g.start) % 8 = p + g.start /\ (p + g.start) \div 8 + 1 = 1
    <3> SUFFICES ASSUME p \in 0..(g.end - g.start)
                 PROVE  (p + g.start) % 8 = p + g.start /\ (p + g.start) \div 8 + 1 = 1
      OBVIOUS
    <3>1. p + g.start \in 0..7 /\ p + g.start + (1 - 1) * 8 = p + g.start
      BY <1>1
    <3> QED
      BY <3>1, Place
  <2>6. Width(g) - 1 = g.end - g.start
    BY <1>1, <1>5
  <2> QED
    BY <1>3, <1>5, <2>3, <2>4, <2>5, <2>6
<1>6. CASE g.length # 1
  <2>0. /\ Width(g) \in Int /\ (g.length - 1) * 8 + g.end + 1 \in Int
        /\ Width(g) = (g.length - 1) * 8 + g.end + 1
    <3>1. g.start = 0
      BY <1>1, <1>6 DEF Aligned
    <3> QED BY <1>1, <3>1
  <2>1. g.start = 0 /\ \A i \in 1..g.length : Lo(g, i) = 0
    BY <1>1, <1>6 DEF Aligned, Lo
  <2>2. \A i \in 1..g.length : Hi(g, i) = IF i = g.length THEN g.end ELSE 7
    BY DEF Hi, EightBits
  <2>3. ASSUME NEW i \in 1..g.length, NEW x
        PROVE  x \in Data(i) <=> /\ x \in 0..Hi(g, i)
                                /\ (x \in r[i]) # g.inverted
    <3>1. Hi(g, i) \in 0..7
      BY GroupFacts
    <3>2. x \in 0..Hi(g, i) => x + 0 = x
      BY <3>1
    <3> QED
      BY <1>2, <2>1, <3>1, <3>2
  <2>4. ASSUME p \in raw
        PROVE  /\ p \in 0..(Width(g) - 1)
               /\ (p % 8 \in r[p \div 8 + 1]) # g.inverted
    <3>0. PICK i \in 1..g.length : \E x \in Data(i) : p = x + (i - 1) * 8
      BY <1>4, <2>4
    <3>1. PICK x \in Data(i) : p = x + (i - 1) * 8
      BY <3>0
    <3>2. x \in 0..7 /\ x <= Hi(g, i) /\ (x \in r[i]) # g.inverted
      BY <1>1, <2>2, <2>3
    <3>3. i \in 1..4 /\ (i < g.length => x + (i - 1) * 8 < (g.length - 1) * 8)
      BY <1>1, <3>2
    <3>4. i = g.length => x <= g.end
      BY <2>2, <3>2
    <3>5. p \in Nat /\ p % 8 = x /\ p \div 8 + 1 = i
      BY <3>1, <3>2, <3>3, Place
    <3>6. p < (g.length - 1) * 8 + g.end + 1
      BY <1>1, <3>1, <3>2, <3>4, InsideWidth
    <3>7. p <= Width(g) - 1
      BY <2>0, <3>5, <3>6
    <3> QED BY <2>0, <3>2, <3>5, <3>7
  <2>5. ASSUME p \in 0..(Width(g) - 1), (p % 8 \in r[p \div 8 + 1]) # g.inverted
        PROVE  p \in raw
    <3> DEFINE i == p \div 8 + 1
               x == p % 8
    <3>1. p \in Nat /\ p < (g.length - 1) * 8 + g.end + 1
      BY <2>0, <2>5
    <3>2. i \in Nat \ {0} /\ x \in 0..7 /\ p = x + (i - 1) * 8
      BY <3>1, PlaceOf
    <3> HIDE DEF i, x
    <3>3. i \in 1..g.length /\ (i = g.length => x <= g.end)
      BY <1>1, <3>1, <3>2, PlaceInside
    <3>4. x \in 0..Hi(g, i)
      BY <1>1, <2>2, <3>2, <3>3
    <3>5. x \in Data(i)
      BY <2>3, <2>5, <3>3, <3>4 DEF i, x
    <3> QED BY <1>4, <3>2, <3>3, <3>5
  <2>6. p \in LevelOf(g, r) <=> p \in raw
    <3>1. raw \subseteq Nat
      <4> SUFFICES ASSUME NEW i \in 1..g.length, NEW x \in Data(i)
                   PROVE  x + (i - 1) * BITS_PER_BYTE \in Nat
        BY DEF raw, Shl
      <4>1. x \in 0..7 /\ i \in 1..4
        BY <1>1, <2>2, <2>3
      <4> QED
        BY <4>1 DEF EightBits
    <3>2. p \in Shr(raw, 0) <=> p \in raw
      <4>1. \A b \in raw : b >= 0 /\ b - 0 = b
        BY <3>1
      <4>2. {b \in raw : b >= 0} = raw
        BY <4>1
      <4> QED
        BY <4>1, <4>2, Zenon DEF Shr
    <3> QED
      BY <1>3, <1>6, <2>1, <3>2
  <2>7. p \in Nat => p + g.start = p
    BY <2>1
  <2> QED
    BY <2>4, <2>5, <2>6, <2>7
<1> QED
  BY <1>5, <1>6

-----------------------------------------------------------------------------
(* The theorems.                                                           *)

\* The registers hold the last level written.
Holds(g, r, v) ==
  /\ v \subseteq 0..(Width(g) - 1)
  /\ \A i \in 1..g.length, b \in 0..7 :
       Lo(g, i) <= b /\ b <= Hi(g, i) =>
         (b \in r[i] <=> (b - Lo(g, i) + (i - 1) * 8 \in v) # g.inverted)

GroupInv ==
  /\ group \in Groups
  /\ regs \in [1..group.length -> SUBSET (0..7)]
  /\ \A v \in asked : Holds(group, regs, v)
  /\ \A w \in got : w = LevelOf(group, regs)

\* A byte of bit positions is a register.
LEMMA ByteType ==
  ASSUME NEW s, s \subseteq Nat
  PROVE  Byte(s) \subseteq 0..(BITS_PER_BYTE - 1)
<1>1. BITS_PER_BYTE \in Nat
  BY GroupAssumption
<1>2. ASSUME NEW b \in Nat, b < BITS_PER_BYTE PROVE b \in 0..(BITS_PER_BYTE - 1)
  BY <1>1, <1>2
<1> QED
  BY <1>2 DEF Byte

\* A byte put into a register at a bit position is made of bit positions.
LEMMA InsertedType ==
  ASSUME NEW old, old \subseteq Nat, NEW s, s \subseteq Nat, NEW lo \in Nat, NEW hi
  PROVE  SubBitstream(old, s, lo, hi) \subseteq Nat
<1>1. Shl(s, lo) \subseteq Nat
  BY DEF Shl
<1> QED
  BY <1>1 DEF SubBitstream

\* What a write step does.
LEMMA WriteStep ==
  ASSUME EightBits, GroupInv, Write
  PROVE  /\ group' = group /\ got' = {}
         /\ \E v \in SUBSET (0..(Width(group) - 1)) :
              /\ asked' = {v}
              /\ \A i \in 1..group.length : regs'[i] = NewRegister(group, regs[i], v, i)
         /\ regs' \in [1..group.length -> SUBSET (0..7)]
<1>1. PICK v \in SUBSET (0..(Width(group) - 1)) :
        /\ regs' = [i \in 1..group.length |-> NewRegister(group, regs[i], v, i)]
        /\ asked' = {v}
  BY DEF Write
<1>2. ASSUME NEW i \in 1..group.length PROVE NewRegister(group, regs[i], v, i) \in SUBSET (0..7)
  <2>1. /\ regs[i] \in SUBSET (0..7) /\ Lo(group, i) \in 0..7 /\ Hi(group, i) \in 0..7
    BY GroupFacts DEF GroupInv
  <2>2. Byte(Shr(v, (i - 1) * BITS_PER_BYTE)) \subseteq Nat
    <3>0. v \subseteq Int /\ i \in Int
      OBVIOUS
    <3>1. v \subseteq Int /\ (i - 1) * BITS_PER_BYTE \in Int
      BY <3>0 DEF EightBits
    <3>2. \A n \in Int : Shr(v, n) \subseteq Nat
      BY <3>1 DEF Shr
    <3> QED
      BY <3>1, <3>2 DEF Byte
  <2>3. \A s : s \subseteq Nat => Byte(SubBitstream(regs[i], s, Lo(group, i), Hi(group, i) + 1)) \subseteq 0..7
    <3>1. ASSUME NEW s, s \subseteq Nat
          PROVE  SubBitstream(regs[i], s, Lo(group, i), Hi(group, i) + 1) \subseteq Nat
      <4>1. regs[i] \subseteq Nat /\ Lo(group, i) \in Nat
        BY <2>1
      <4> QED
        BY <3>1, <4>1, InsertedType
    <3>2. ASSUME NEW s, s \subseteq Nat PROVE Byte(s) \subseteq 0..7
      <4>1. BITS_PER_BYTE - 1 = 7
        BY DEF EightBits
      <4> QED
        BY <3>2, <4>1, ByteType
    <3> QED
      BY <3>1, <3>2
  <2>4. Toggle(Byte(Shr(v, (i - 1) * BITS_PER_BYTE)), Lo(group, i), Hi(group, i)) \subseteq Nat
    BY DEF Toggle
  <2> QED
    BY <2>2, <2>3, <2>4 DEF NewRegister
<1> QED
  BY <1>1, <1>2 DEF Write

LEMMA GroupInvStep ==
  ASSUME EightBits, GroupInv, [GroupNext]_groupVars
  PROVE  GroupInv'
<1>1. CASE Write
  <2>1. PICK v \in SUBSET (0..(Width(group) - 1)) :
          /\ asked' = {v}
          /\ \A i \in 1..group.length : regs'[i] = NewRegister(group, regs[i], v, i)
    BY <1>1, WriteStep
  <2>2. Holds(group, regs', v)
    <3> SUFFICES ASSUME NEW i \in 1..group.length, NEW b \in 0..7,
                        Lo(group, i) <= b, b <= Hi(group, i)
                 PROVE  b \in regs'[i] <=>
                          (b - Lo(group, i) + (i - 1) * 8 \in v) # group.inverted
      BY DEF Holds
    <3>1. /\ regs[i] \in SUBSET (0..7) /\ group \in Groups
          /\ Lo(group, i) \in 0..7 /\ Hi(group, i) \in 0..7
      BY GroupFacts DEF GroupInv
    <3>2. ~(b < Lo(group, i) \/ b > Hi(group, i))
      BY <3>1
    <3>3. regs'[i] = NewRegister(group, regs[i], v, i)
      BY <2>1
    <3>4. b \in NewRegister(group, regs[i], v, i) <=>
            IF b < Lo(group, i) \/ b > Hi(group, i) THEN b \in regs[i]
            ELSE (b - Lo(group, i) + (i - 1) * 8 \in v) # group.inverted
      BY <3>1, WrittenBit
    <3> QED
      BY <3>2, <3>3, <3>4
  <2> QED
    BY <1>1, <2>1, <2>2, WriteStep DEF GroupInv
<1>2. CASE Read
  BY <1>2 DEF Read, GroupInv
<1>3. CASE UNCHANGED groupVars
  BY <1>3 DEF groupVars, GroupInv
<1> QED
  BY <1>1, <1>2, <1>3 DEF GroupNext

LEMMA GroupInvCorrect ==
  ASSUME EightBits
  PROVE  GroupSpec => []GroupInv
<1>1. GroupInit => GroupInv
  BY DEF GroupInit, GroupInv, EightBits
<1>2. GroupInv /\ [GroupNext]_groupVars => GroupInv'
  BY GroupInvStep
<1> QED
  BY <1>1, <1>2, PTL DEF GroupSpec

\* Whatever the placement of the group, a write of its level leaves the
\* other bits of its registers alone.
THEOREM NeighboursAreKept ==
  ASSUME EightBits
  PROVE  GroupSpec => NeighboursKept
<1>1. GroupInv /\ [GroupNext]_groupVars =>
        [\A i \in 1..group.length :
           {b \in regs'[i] : b < Lo(group, i) \/ b > Hi(group, i)} =
           {b \in regs[i] : b < Lo(group, i) \/ b > Hi(group, i)}]_groupVars
  <2> SUFFICES ASSUME GroupInv, GroupNext, NEW i \in 1..group.length
               PROVE  {b \in regs'[i] : b < Lo(group, i) \/ b > Hi(group, i)} =
                      {b \in regs[i] : b < Lo(group, i) \/ b > Hi(group, i)}
    OBVIOUS
  <2>1. CASE Write
    <3>1. PICK v \in SUBSET (0..(Width(group) - 1)) : regs'[i] = NewRegister(group, regs[i], v, i)
      BY <2>1, WriteStep
    <3>2. regs[i] \in SUBSET (0..7) /\ regs'[i] \in SUBSET (0..7) /\ group \in Groups
      BY <2>1, WriteStep DEF GroupInv
    <3>3. \A b \in 0..7 : b < Lo(group, i) \/ b > Hi(group, i) =>
            (b \in regs'[i] <=> b \in regs[i])
      BY <3>1, <3>2, WrittenBit
    <3> QED BY <3>2, <3>3
  <2>2. CASE Read
    BY <2>2 DEF Read
  <2> QED BY <2>1, <2>2 DEF GroupNext
<1> QED
  BY <1>1, GroupInvCorrect, PTL DEF GroupSpec, NeighboursKept

\* A level read from an aligned group is made of the group's bits in order.
THEOREM LayoutCorrect ==
  ASSUME EightBits, Aligned
  PROVE  GroupSpec => []Layout
<1>1. GroupInv => Layout
  <2> SUFFICES ASSUME GroupInv, NEW w \in got
               PROVE  w = {p \in 0..(Width(group) - 1) :
                             ((p + group.start) % 8 \in regs[(p + group.start) \div 8 + 1])
                               # group.inverted}
    BY DEF Layout, EightBits
  <2>1. /\ w = LevelOf(group, regs) /\ group \in Groups
        /\ regs \in [1..group.length -> SUBSET (0..7)]
    BY DEF GroupInv
  <2>2. \A p : p \in w <=>
          /\ p \in 0..(Width(group) - 1)
          /\ ((p + group.start) % 8 \in regs[(p + group.start) \div 8 + 1]) # group.inverted
    BY <2>1, ReadLayout
  <2> QED BY <2>2
<1> QED
  BY <1>1, GroupInvCorrect, PTL

\* The register and the bit in it of bit p of an aligned group.
LEMMA CellOf ==
  ASSUME EightBits, Aligned, NEW g \in Groups, NEW p \in 0..(Width(g) - 1),
         NEW i, NEW b, i = (p + g.start) \div 8 + 1, b = (p + g.start) % 8
  PROVE  /\ i \in 1..g.length /\ b \in 0..7
         /\ Lo(g, i) <= b /\ b <= Hi(g, i)
         /\ b - Lo(g, i) + (i - 1) * 8 = p
<1>1. /\ g.length \in 1..4 /\ g.start \in 0..7 /\ g.end \in 0..7
      /\ (g.length = 1 => g.start <= g.end)
      /\ Width(g) = (g.length - 1) * 8 + g.end + 1 - g.start
  <2>1. g.length \in 1..4
    BY GroupAssumption
  <2> QED
    BY <2>1, GroupFacts
<1>2. p \in Nat /\ p < (g.length - 1) * 8 + g.end + 1 - g.start
  <2>1. Width(g) \in Int
    BY <1>1
  <2> QED BY <1>1, <2>1
<1> DEFINE q == p + g.start
<1>3. q \in Nat /\ q < (g.length - 1) * 8 + g.end + 1 /\ q - g.start = p
  BY <1>1, <1>2
<1> HIDE DEF q
<1>4. i = q \div 8 + 1 /\ b = q % 8
  BY DEF q
<1>5. i \in Nat \ {0} /\ b \in 0..7 /\ q = b + (i - 1) * 8
  BY <1>3, <1>4, PlaceOf
<1>6. i \in 1..g.length /\ (i = g.length => b <= g.end)
  BY <1>1, <1>3, <1>5, PlaceInside
<1>7. /\ Lo(g, i) = (IF i = 1 THEN g.start ELSE 0)
      /\ Hi(g, i) = (IF i = g.length THEN g.end ELSE 7)
  BY DEF EightBits, Lo, Hi
<1>8. b <= Hi(g, i)
  BY <1>1, <1>5, <1>6, <1>7
<1>9. CASE i = 1
  <2>1. q = b
    BY <1>3, <1>5, <1>9
  <2>2. b >= g.start
    BY <1>1, <1>2, <2>1 DEF q
  <2> QED
    BY <1>1, <1>3, <1>5, <1>6, <1>7, <1>8, <1>9, <2>1, <2>2
<1>10. CASE i # 1
  <2>1. g.start = 0
    BY <1>1, <1>6, <1>10 DEF Aligned
  <2> QED
    BY <1>3, <1>5, <1>6, <1>7, <1>8, <1>10, <2>1
<1> QED
  BY <1>9, <1>10

\* A level no wider than its group, written to an aligned group, is the level
\* read from it.
THEOREM ReadBackCorrect ==
  ASSUME EightBits, Aligned
  PROVE  GroupSpec => []ReadBack
<1>1. GroupInv => ReadBack
  <2> SUFFICES ASSUME GroupInv, NEW v \in asked, NEW w \in got PROVE w = v
    BY DEF ReadBack
  <2>1. /\ w = LevelOf(group, regs) /\ group \in Groups
        /\ regs \in [1..group.length -> SUBSET (0..7)]
        /\ Holds(group, regs, v)
    BY DEF GroupInv
  <2>2. ASSUME NEW p \in 0..(Width(group) - 1) PROVE p \in w <=> p \in v
    <3> DEFINE i == (p + group.start) \div 8 + 1
               b == (p + group.start) % 8
    <3>1. p \in w <=> (b \in regs[i]) # group.inverted
      BY <2>1, ReadLayout
    <3>2. /\ i \in 1..group.length /\ b \in 0..7
          /\ Lo(group, i) <= b /\ b <= Hi(group, i)
          /\ b - Lo(group, i) + (i - 1) * 8 = p
      BY <2>1, CellOf
    <3> HIDE DEF i, b
    <3>3. b \in regs[i] <=> (p \in v) # group.inverted
      BY <2>1, <3>2 DEF Holds
    <3>4. group.inverted \in BOOLEAN
      BY <2>1, <3>2, GroupFacts
    <3> QED
      BY <3>1, <3>3, <3>4
  <2>3. \A p : p \in w => p \in 0..(Width(group) - 1)
    BY <2>1, ReadLayout
  <2>4. v \subseteq 0..(Width(group) - 1)
    BY <2>1 DEF Holds
  <2> QED
    BY <2>2, <2>3, <2>4
<1> QED
  BY <1>1, GroupInvCorrect, PTL

-----------------------------------------------------------------------------
(* Types.                                                                  *)

\* Shifts, complements and insertions stay among the bit positions.
LEMMA ShiftTypes ==
  ASSUME NEW s, s \subseteq Nat, NEW n \in Nat
  PROVE  Shl(s, n) \subseteq Nat /\ Shr(s, n) \subseteq Nat
BY DEF Shl, Shr

LEMMA PositionTypes ==
  ASSUME NEW g \in Groups, NEW i \in 1..g.length
  PROVE  /\ g.length \in Nat /\ g.start \in Nat /\ i \in Nat \ {0}
         /\ Lo(g, i) \in Nat /\ Hi(g, i) \in Nat
         /\ (i - 1) * BITS_PER_BYTE \in Nat
<1>1. g \in [length : 1..4, start : 0..(BITS_PER_BYTE - 1),
             end : 0..(BITS_PER_BYTE - 1), inverted : BOOLEAN]
  BY GroupAssumption
<1>2. BITS_PER_BYTE \in Nat \ {0}
  BY GroupAssumption
<1>3. i - 1 \in Nat
  BY <1>1
<1>4. \A a, b \in Nat : a * b \in Nat
  OBVIOUS
<1> QED
  BY <1>1, <1>2, <1>3, <1>4 DEF Lo, Hi

\* The bits of a level stay in the registers they are written to, and levels
\* are made of bit positions, for bytes of any number of bits.
THEOREM LevelTypesCorrect == GroupSpec => []GroupTypeOK
<1>1. GroupInit => GroupTypeOK
  BY DEF GroupInit, GroupTypeOK
<1>2. GroupTypeOK /\ [GroupNext]_groupVars => GroupTypeOK'
  <2> SUFFICES ASSUME GroupTypeOK, [GroupNext]_groupVars PROVE GroupTypeOK'
    OBVIOUS
  <2>1. group \in Groups /\ regs \in [1..group.length -> SUBSET (0..(BITS_PER_BYTE - 1))]
    BY DEF GroupTypeOK
  <2>2. \A i \in 1..group.length : regs[i] \subseteq Nat
    BY <2>1
  <2>3. CASE Write
    <3>1. PICK v \in SUBSET (0..(Width(group) - 1)) :
            /\ regs' = [i \in 1..group.length |-> NewRegister(group, regs[i], v, i)]
            /\ asked' = {v}
      BY <2>3 DEF Write
    <3>2. got' = {} /\ group' = group
      BY <2>3 DEF Write
    <3>3. v \subseteq Nat
      OBVIOUS
    <3>4. ASSUME NEW i \in 1..group.length
          PROVE  NewRegister(group, regs[i], v, i) \subseteq 0..(BITS_PER_BYTE - 1)
      <4> DEFINE byte == Byte(Shr(v, (i - 1) * BITS_PER_BYTE))
                 data == IF group.inverted THEN Toggle(byte, Lo(group, i), Hi(group, i))
                         ELSE byte
      <4>1. byte \subseteq Nat
        BY <2>1, <3>3, PositionTypes, ShiftTypes DEF Byte
      <4>2. data \subseteq Nat
        BY <4>1 DEF Toggle
      <4>3. Shl(data, Lo(group, i)) \subseteq Nat
        <5> HIDE DEF data
        <5> QED BY <2>1, <4>2, PositionTypes, ShiftTypes
      <4>4. NewRegister(group, regs[i], v, i)
              = Byte(SubBitstream(regs[i], data, Lo(group, i), Hi(group, i) + 1))
        BY DEF NewRegister
      <4>5. SubBitstream(regs[i], data, Lo(group, i), Hi(group, i) + 1) \subseteq Nat
        <5> HIDE DEF data
        <5> QED BY <2>2, <4>3 DEF SubBitstream
      <4> QED
        <5> HIDE DEF data
        <5> QED BY <4>4, <4>5, ByteType
    <3> QED
      BY <2>1, <3>1, <3>2, <3>3, <3>4 DEF GroupTypeOK
  <2>4. CASE Read
    <3>1. got' = {LevelOf(group, regs)} /\ UNCHANGED <<group, regs, asked>>
      BY <2>4 DEF Read
    <3>2. ASSUME NEW i \in 1..group.length
          PROVE  Shl(RegisterData(group, regs[i], i), (i - 1) * BITS_PER_BYTE) \subseteq Nat
      <4>1. Shr(regs[i], group.start) \subseteq Nat
        BY <2>1, <2>2, PositionTypes, ShiftTypes
      <4>2. RegisterData(group, regs[i], i) \subseteq Nat
        BY <2>2, <4>1 DEF RegisterData, Toggle
      <4> QED
        BY <2>1, <4>2, PositionTypes, ShiftTypes
    <3> DEFINE sum == UNION {Shl(RegisterData(group, regs[i], i),
                                   (i - 1) * BITS_PER_BYTE) : i \in 1..group.length}
    <3>3. sum \subseteq Nat
      BY <3>2
    <3>4. group.start \in Nat
      BY <2>1, GroupAssumption
    <3>5. Shr(sum, group.start) \subseteq Nat
      <4> HIDE DEF sum
      <4> QED BY <3>3, <3>4, ShiftTypes
    <3>6. LevelOf(group, regs) \subseteq Nat
      BY <3>3, <3>5 DEF LevelOf
    <3> QED
      BY <3>1, <3>6 DEF GroupTypeOK
  <2>5. CASE UNCHANGED groupVars
    BY <2>5 DEF groupVars, GroupTypeOK
  <2> QED
    BY <2>3, <2>4, <2>5 DEF GroupNext
<1> QED
  BY <1>1, <1>2, PTL DEF GroupSpec
==============================================================================
