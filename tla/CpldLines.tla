------------------------------ MODULE CpldLines ------------------------------
(***************************************************************************)
(* The pins and pin groups ("lines") of a CPLD, shared by the threads of   *)
(* the daemon that links the drivers.                                      *)
(*                                                                         *)
(* A CPLD is a bank of byte registers behind a bus; a pin is one bit of a  *)
(* register, a pin group a run of bits in one or more registers.  Every    *)
(* line object has its own non-recursive mutex, and a level is written by  *)
(* reading a register, changing the line's bits and writing the register   *)
(* back: two bus transactions, with nothing but the line's mutex held      *)
(* between them.  The module models the three calls made on a line         *)
(* (read its level, write its level, and the read-modify-write of one bit  *)
(* that the QSFP and SFP drivers perform on a group), the initialisation   *)
(* of the lines, bus errors, and inputs that the hardware changes.         *)
(*                                                                         *)
(* A bit of a register is a "cell"; a register, a line's level and a       *)
(* buffer are sets of cells, those that are 1.                             *)
(***************************************************************************)
EXTENDS Naturals, Sequences

CONSTANTS
  Threads,    \* threads that call the drivers
  NoThread,   \* the owner of a free mutex
  Lines,      \* pins and pin groups of the CPLD
  Regs,       \* register addresses
  Cells,      \* register bits that belong to some line
  RegOf,      \* the register of a cell
  Order,      \* the registers of a line, from start_addr to end_addr
  Field,      \* the cells of a line, start_offset .. end_offset
  Outputs,    \* lines whose configured direction is "out"
  Pins,       \* lines that are single pins, the others are groups
  Inverted,   \* lines whose polarity is inverted
  Default     \* the configured level of a line

In(r) == {c \in Cells : RegOf[c] = r}
RegsOf(l) == {Order[l][i] : i \in DOMAIN Order[l]}

ASSUME ThreadAssumption == NoThread \notin Threads

\* What sdi_cpld_register asserts or takes from the configuration: a line's
\* registers are distinct addresses of the CPLD that hold all its bits, and no
\* bit belongs to two lines.
ASSUME ConfigAssumption ==
  /\ Lines # {}
  /\ RegOf \in [Cells -> Regs]
  /\ Order \in [Lines -> Seq(Regs)]
  /\ Field \in [Lines -> SUBSET Cells]
  /\ Default \in [Lines -> SUBSET Cells]
  /\ Outputs \subseteq Lines /\ Pins \subseteq Lines /\ Inverted \subseteq Lines
  /\ \A l \in Lines :
       /\ Order[l] # << >>
       /\ \A i, j \in DOMAIN Order[l] : Order[l][i] = Order[l][j] => i = j
       /\ \A c \in Field[l] : RegOf[c] \in RegsOf(l)
       /\ Default[l] \subseteq Field[l]
  /\ \A l, m \in Lines : l # m => Field[l] \cap Field[m] = {}

\* No register holds bits of two output lines.  The drivers do not ask for it,
\* and conf/device.xml does not provide it; the properties below that need it
\* say so.
RegistersNotShared ==
  \A l, m \in Outputs : l # m => RegsOf(l) \cap RegsOf(m) = {}

\* Cells the hardware drives: writing them has no effect.
InputCells == UNION {Field[l] : l \in Lines \ Outputs}

VARIABLES
  high,      \* the cells that are 1
  unbooted,  \* lines whose bus_init has not run
  lock,      \* owner of each line's mutex
  pc,        \* where a thread is in its call
  line,      \* the line a thread's call is about
  k,         \* index of the register the loop is at
  level,     \* the level read so far, or to be written
  buf,       \* the register byte between its read and its write
  ask,       \* history: the cells the call is asked to change
  want,      \* history: those of them the call is to make 1
  goal       \* history: what the last call asked of a cell, if it succeeded

vars == <<high, unbooted, lock, pc, line, k, level, buf, ask, want, goal>>

Sets == SUBSET Cells

Reg(t) == Order[line[t]][k[t]]

\* Mutant of MoreRegisters: the loop runs one register past end_addr.
MoreRegistersInclusive(t) == k[t] <= Len(Order[line[t]])

MoreRegisters(t) == k[t] < Len(Order[line[t]])

\* Polarity: the register value of level v of line l, and back.
Stored(l, v) == IF l \in Inverted THEN Field[l] \ v ELSE v

\* Mutant of Merge: the polarity is forgotten.
MergeAsIs(l, v, b) == (b \ Field[l]) \cup (v \cap Field[l])

\* The register byte with the line's cells replaced by those of level v.
Merge(l, v, b) == (b \ Field[l]) \cup (Stored(l, v) \cap Field[l])

\* The bank after byte b is written to register r: only cells that the CPLD
\* drives out take it.
WriteReg(r, b) ==
  (high \ (In(r) \ InputCells)) \cup ((b \cap In(r)) \ InputCells)

Ask(cells, ones) ==
  [c \in Cells |-> IF c \in cells THEN (IF c \in ones THEN "high" ELSE "low")
                                  ELSE goal[c]]

Forget(cells) == [c \in Cells |-> IF c \in cells THEN "unknown" ELSE goal[c]]

-----------------------------------------------------------------------------

Init ==
  /\ high \in Sets
  /\ unbooted = Lines
  /\ lock = [l \in Lines |-> NoThread]
  /\ pc = [t \in Threads |-> "idle"]
  /\ line = [t \in Threads |-> CHOOSE l \in Lines : TRUE]
  /\ k = [t \in Threads |-> 1]
  /\ level = [t \in Threads |-> {}]
  /\ buf = [t \in Threads |-> {}]
  /\ ask = [t \in Threads |-> {}]
  /\ want = [t \in Threads |-> {}]
  /\ goal = [c \in Cells |-> "unknown"]

\* bus_init of a line, called for each line in turn before any resource is
\* used and without the line's mutex: the default level of an output line is
\* written; a bus error ends the loop after n registers, is logged and the
\* next line is initialised all the same.
Boot(l) ==
  /\ l \in unbooted
  /\ unbooted' = unbooted \ {l}
  /\ IF l \in Outputs
     THEN \E n \in 0..Len(Order[l]) :
            LET done == {c \in Field[l] : \E i \in 1..n : Order[l][i] = RegOf[c]}
                ones == Stored(l, Default[l])
            IN /\ high' = (high \ done) \cup (ones \cap done)
               /\ goal' = IF n = Len(Order[l]) THEN Ask(Field[l], ones) ELSE goal
     ELSE UNCHANGED <<high, goal>>
  /\ UNCHANGED <<lock, pc, line, k, level, buf, ask, want>>

\* The hardware changes an input.
Sense(c) ==
  /\ c \in InputCells
  /\ high' = IF c \in high THEN high \ {c} ELSE high \cup {c}
  /\ UNCHANGED <<unbooted, lock, pc, line, k, level, buf, ask, want, goal>>

Begin(t, l, at) ==
  /\ lock' = [lock EXCEPT ![l] = t]
  /\ line' = [line EXCEPT ![t] = l]
  /\ pc' = [pc EXCEPT ![t] = at]
  /\ k' = [k EXCEPT ![t] = 1]
  /\ UNCHANGED <<high, unbooted, buf, goal>>

\* Mutant of Enter: the caller does not wait for the mutex.
EnterUnlocked(t, l, at) ==
  unbooted = {} /\ pc[t] = "idle" /\ Begin(t, l, at)

\* The caller takes the line's mutex and enters the driver.
Enter(t, l, at) ==
  /\ unbooted = {}
  /\ pc[t] = "idle" /\ lock[l] = NoThread
  /\ Begin(t, l, at)

\* read_level, for instance a presence or a status pin.
GetLevel(t, l) ==
  /\ Enter(t, l, "get")
  /\ level' = [level EXCEPT ![t] = {}]
  /\ UNCHANGED <<ask, want>>

\* write_level.  A pin configured as input refuses (ENOTSUP) before it touches
\* the bus; a group does not check, and its callers write output groups only.
SetLevel(t, l, v) ==
  /\ l \in Outputs
  /\ Enter(t, l, "load")
  /\ level' = [level EXCEPT ![t] = v]
  /\ ask' = [ask EXCEPT ![t] = Field[l]]
  /\ want' = [want EXCEPT ![t] = Stored(l, v) \cap Field[l]]

\* The callers that change one bit of a group (QSFP low-power mode and reset,
\* SFP transmitter and LED): under the group's mutex they read its level, set
\* or clear their bit and write the level.
ModifyBit(t, l, c, on) ==
  /\ l \in Outputs \ Pins /\ c \in Field[l]
  /\ Enter(t, l, "get")
  /\ level' = [level EXCEPT ![t] = {}]
  /\ ask' = [ask EXCEPT ![t] = {c}]
  /\ want' = [want EXCEPT ![t] = IF on = (l \in Inverted) THEN {} ELSE {c}]
------------------------------------------------------------------------------

\* One register of read_level; after the last one a read returns and a
\* modification applies its bit and goes on to write the level.
ReadRegister(t) ==
  LET l == line[t]
      byte == high \cap In(Reg(t)) \cap Field[l]
      got == level[t] \cup
             (IF l \in Inverted THEN (In(Reg(t)) \cap Field[l]) \ byte ELSE byte)
  IN
  /\ pc[t] = "get"
  /\ IF MoreRegisters(t)
     THEN /\ k' = [k EXCEPT ![t] = @ + 1]
          /\ level' = [level EXCEPT ![t] = got]
          /\ UNCHANGED pc
     ELSE /\ k' = [k EXCEPT ![t] = 1]
          /\ level' = [level EXCEPT ![t] =
                         (got \ ask[t]) \cup (Stored(l, want[t]) \cap ask[t])]
          /\ pc' = [pc EXCEPT ![t] = IF ask[t] = {} THEN "done" ELSE "load"]
  /\ UNCHANGED <<high, unbooted, lock, line, buf, ask, want, goal>>

\* The read of the read-modify-write of one register.
LoadRegister(t) ==
  /\ pc[t] = "load"
  /\ buf' = [buf EXCEPT ![t] = high \cap In(Reg(t))]
  /\ pc' = [pc EXCEPT ![t] = "store"]
  /\ UNCHANGED <<high, unbooted, lock, line, k, level, ask, want, goal>>

\* The write of the read-modify-write: the loop goes to the next register or
\* the call has succeeded.
StoreRegister(t) ==
  LET l == line[t] IN
  /\ pc[t] = "store"
  /\ high' = WriteReg(Reg(t), Merge(l, level[t], buf[t]))
  /\ buf' = [buf EXCEPT ![t] = {}]
  /\ IF MoreRegisters(t)
     THEN /\ k' = [k EXCEPT ![t] = @ + 1]
          /\ pc' = [pc EXCEPT ![t] = "load"]
          /\ UNCHANGED goal
     ELSE /\ pc' = [pc EXCEPT ![t] = "done"]
          /\ goal' = Ask(ask[t], want[t])
          /\ UNCHANGED k
  /\ UNCHANGED <<unbooted, lock, line, level, ask, want>>

\* A bus transaction fails and the call returns its error at once.  A failed
\* write may or may not have reached the register.
BusError(t) ==
  /\ pc[t] \in {"get", "load", "store"}
  /\ pc' = [pc EXCEPT ![t] = "done"]
  /\ \/ UNCHANGED high
     \/ /\ pc[t] = "store"
        /\ high' = WriteReg(Reg(t), Merge(line[t], level[t], buf[t]))
  /\ buf' = [buf EXCEPT ![t] = {}]
  /\ goal' = IF pc[t] = "get" THEN goal ELSE Forget(ask[t])
  /\ UNCHANGED <<unbooted, lock, line, k, level, ask, want>>

Release(t) ==
  /\ lock' = [lock EXCEPT ![line[t]] = NoThread]
  /\ pc' = [pc EXCEPT ![t] = "idle"]
  /\ k' = [k EXCEPT ![t] = 1]
  /\ level' = [level EXCEPT ![t] = {}]
  /\ ask' = [ask EXCEPT ![t] = {}]
  /\ want' = [want EXCEPT ![t] = {}]
  /\ UNCHANGED <<high, unbooted, line, buf, goal>>

\* Mutant of Leave: an error path does not reach the release.
LeaveOnSuccess(t) == pc[t] = "done" /\ ~MoreRegisters(t) /\ Release(t)

\* The caller releases the mutex, whatever the result; the call's locals die.
Leave(t) == pc[t] = "done" /\ Release(t)

\* What a thread does once its call has the mutex.
Run(t) ==
  \/ ReadRegister(t)
  \/ LoadRegister(t)
  \/ StoreRegister(t)
  \/ BusError(t)
  \/ Leave(t)

Call(t) ==
  \E l \in Lines :
    \/ GetLevel(t, l)
    \/ \E v \in SUBSET Field[l] : SetLevel(t, l, v)
    \/ \E c \in Field[l], on \in BOOLEAN : ModifyBit(t, l, c, on)

Next ==
  \/ \E l \in Lines : Boot(l)
  \/ \E c \in Cells : Sense(c)
  \/ \E t \in Threads : Call(t) \/ Run(t)

Spec == Init /\ [][Next]_vars

\* A thread that runs keeps running, and the initialisation ends; nothing is
\* assumed about which waiting thread a mutex is given to.
Fairness ==
  /\ WF_vars(\E l \in Lines : Boot(l))
  /\ \A t \in Threads : WF_vars(Run(t))

FairSpec == Spec /\ Fairness
-----------------------------------------------------------------------------

PCs == {"idle", "get", "load", "store", "done"}
Goals == {"unknown", "high", "low"}

\* Types of the state.  A thread inside a loop is at a register of its line.
TypeOK ==
  /\ high \in Sets
  /\ unbooted \in SUBSET Lines
  /\ lock \in [Lines -> Threads \cup {NoThread}]
  /\ pc \in [Threads -> PCs]
  /\ line \in [Threads -> Lines]
  /\ k \in [Threads -> Nat]
  /\ level \in [Threads -> Sets]
  /\ buf \in [Threads -> Sets]
  /\ ask \in [Threads -> Sets]
  /\ want \in [Threads -> Sets]
  /\ goal \in [Cells -> Goals]
  /\ \A t \in Threads : k[t] \in DOMAIN Order[line[t]]

\* The mutex of a line is held by exactly the thread whose call is about it:
\* no early return leaves it locked, none releases it twice, and two calls on
\* one line never overlap.
LockDiscipline ==
  /\ \A t \in Threads : pc[t] # "idle" => lock[line[t]] = t
  /\ \A l \in Lines : lock[l] # NoThread =>
       /\ pc[lock[l]] # "idle"
       /\ line[lock[l]] = l

\* Between the read and the write of a register nobody else changes an output
\* bit of it: the byte written back is not stale.  It needs RegistersNotShared.
FreshBuffer ==
  \A t \in Threads : pc[t] = "store" =>
    buf[t] \ InputCells = (high \cap In(Reg(t))) \ InputCells

\* A level that was written with STD_ERR_OK is the level of the line until a
\* later call is asked to change it: no other call, on this line or on
\* another one, on this bit or on its neighbours, undoes it.
GoalHolds ==
  \A c \in Cells :
    (goal[c] # "unknown" /\ \A t \in Threads : c \notin ask[t])
      => (c \in high <=> goal[c] = "high")

\* Every call returns and gives its mutex back, whatever the bus does.
CallsReturn == \A t \in Threads : pc[t] # "idle" ~> pc[t] = "idle"

\* The lines behave as independent outputs: the state of this module maps to
\* the one of IndependentLines, a line being driven only by the owner of its
\* mutex.  It needs RegistersNotShared.
Abstract == INSTANCE IndependentLines WITH
  owner <- lock,
  booting <- unbooted

ImplementsIndependentLines == Abstract!Spec
==============================================================================
