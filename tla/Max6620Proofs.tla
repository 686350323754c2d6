---------------------------- MODULE Max6620Proofs -----------------------------
(***************************************************************************)
(* Proofs about Max6620, for any set of fans, speeds and bounds.           *)
(***************************************************************************)
EXTENDS Max6620, TLAPS

\* Integer division rounds down.
LEMMA Division ==
  ASSUME NEW n \in Nat, NEW d \in Nat \ {0}
  PROVE  /\ n \div d \in Nat
         /\ (n \div d) * d <= n
         /\ n < (n \div d + 1) * d
<1>1. n \div d \in Int
  OBVIOUS
<1>2. (n \div d) * d <= n
  OBVIOUS
<1>3. n < (n \div d + 1) * d
  OBVIOUS
<1>4. n \div d >= 0
  BY <1>1, <1>3
<1> QED
  BY <1>1, <1>2, <1>3, <1>4

\* Every largest speed has a speed range and a period.
LEMMA Ranges ==
  ASSUME NEW max \in Nat
  PROVE  SpeedRange(max) \in 0..5
  BY DEF SpeedRange

LEMMA Periods ==
  ASSUME NEW range \in 0..5
  PROVE  PeriodOf(range) \in Nat
<1>1. range + 1 \in 1..6
  OBVIOUS
<1>2. \A i \in 1..6 : <<1, 2, 4, 8, 16, 32>>[i] \in Nat
  <2> SUFFICES ASSUME NEW i \in 1..6 PROVE <<1, 2, 4, 8, 16, 32>>[i] \in Nat
    OBVIOUS
  <2>1. i = 1 \/ i = 2 \/ i = 3 \/ i = 4 \/ i = 5 \/ i = 6
    OBVIOUS
  <2> QED
    BY <2>1
<1> QED
  BY <1>1, <1>2 DEF PeriodOf, Period

\* A count is a number, and its field of the register has eleven bits.
LEMMA Counts ==
  ASSUME TypeOK, NEW f \in Fans, NEW speed \in Nat
  PROVE  /\ TachCount(f, speed) \in Nat
         /\ TargetField(TachCount(f, speed)) \in 0..MaxTachCount
<1>1. TachCount(f, speed) \in Nat
  <2>1. CASE speed = 0
    BY <2>1 DEF TachCount, MaxTachCount
  <2>2. CASE speed # 0
    <3>1. Pulses[f] * speed \in Nat \ {0}
      <4>1. Pulses[f] \in Nat \ {0}
        BY FanAssumption
      <4> QED
        BY <2>2, <4>1
    <3>2. tach_count_period[f] * Clock \in Nat
      BY DEF TypeOK, Clock
    <3> QED
      BY <2>2, <3>1, <3>2, Division DEF TachCount
  <2> QED
    BY <2>1, <2>2
<1>2. \A n \in Nat : n % 2048 \in 0..2047
  OBVIOUS
<1> QED
  BY <1>1, <1>2 DEF TargetField, MaxTachCount

\* The speed that a drive voltage stands for is a number.
LEMMA VoltSpeeds ==
  ASSUME TypeOK, NEW f \in Fans, NEW volt \in Volts
  PROVE  SpeedAt(f, volt) \in Nat
<1>1. volt \in Nat
  BY FanAssumption
<1>2. volt * 100 \in Nat
  BY <1>1
<1>3. (volt * 100) \div 511 \in Nat
  BY <1>2, Division
<1>4. max_speed[f] \in Nat
  BY DEF TypeOK
<1>5. max_speed[f] * ((volt * 100) \div 511) \in Nat
  BY <1>3, <1>4
<1> QED
  BY <1>5, Division DEF SpeedAt

-------------------------------------------------------------------------------
\* The registers and the call keep their types when they are changed.
LEMMA TargetedType ==
  ASSUME reg \in Registers, NEW f \in Fans, NEW count \in 0..MaxTachCount
  PROVE  Targeted(f, count) \in Registers
<1>1. [reg.target EXCEPT ![f] = count] \in [Fans -> 0..MaxTachCount]
  BY DEF Registers
<1>2. reg.watched \cup {f} \in SUBSET Fans
  BY DEF Registers
<1> QED
  BY <1>1, <1>2 DEF Targeted, Registers

LEMMA RangedType ==
  ASSUME reg \in Registers, NEW f \in Fans, NEW range \in 0..5
  PROVE  [reg EXCEPT !.range[f] = range] \in Registers
<1>1. [reg.range EXCEPT ![f] = range] \in [Fans -> 0..5]
  BY DEF Registers
<1> QED
  BY <1>1 DEF Registers

LEMMA StatusType ==
  ASSUME reg \in Registers, NEW status \in SUBSET Fans, NEW watched \in SUBSET Fans
  PROVE  /\ [reg EXCEPT !.status = status] \in Registers
         /\ [reg EXCEPT !.status = status, !.watched = watched] \in Registers
  BY DEF Registers

LEMMA CallAtType ==
  ASSUME call \in Calls, NEW at \in Steps
  PROVE  [call EXCEPT !.at = at] \in Calls
  BY DEF Calls

LEMMA CallType ==
  ASSUME call \in Calls, NEW at \in Steps, NEW speed \in Nat,
         NEW seen \in Nat, NEW kept \in 0..MaxTachCount
  PROVE  /\ [call EXCEPT !.at = at, !.speed = speed] \in Calls
         /\ [call EXCEPT !.at = at, !.seen = seen] \in Calls
         /\ [call EXCEPT !.at = at, !.kept = kept] \in Calls
  BY DEF Calls

LEMMA NewCallType ==
  ASSUME NEW at \in Steps, NEW f \in Fans, NEW speed \in Nat, NEW init \in BOOLEAN
  PROVE  /\ Idle \in Calls
         /\ [Idle EXCEPT !.at = at, !.fan = f] \in Calls
         /\ [Idle EXCEPT !.at = at, !.fan = f, !.speed = speed] \in Calls
         /\ [Idle EXCEPT !.at = at, !.fan = f, !.init = init] \in Calls
<1>1. Idle \in Calls
  BY DEF Idle, Calls, Steps, MaxTachCount
<1>2. [Idle EXCEPT !.at = at, !.fan = f] \in Calls
  BY <1>1 DEF Calls
<1>3. [Idle EXCEPT !.at = at, !.fan = f, !.speed = speed] \in Calls
  BY <1>1 DEF Calls
<1>4. [Idle EXCEPT !.at = at, !.fan = f, !.init = init] \in Calls
  BY <1>1 DEF Calls
<1> QED
  BY <1>1, <1>2, <1>3, <1>4

\* Init, type by type.
LEMMA TypeInit == Init => TypeOK
<1> SUFFICES ASSUME Init PROVE TypeOK
  OBVIOUS
<1>1. PICK status \in SUBSET Fans, watched \in SUBSET Fans :
        /\ reg = [status |-> status, watched |-> watched,
                  target |-> [f \in Fans |-> 480], range |-> [f \in Fans |-> 2]]
        /\ faults = [f \in Fans |-> IF f \in status THEN 1 ELSE 0]
  BY DEF Init
<1>2. reg \in Registers
  BY <1>1 DEF Registers, MaxTachCount
<1>3. faults \in [Fans -> Nat]
  BY <1>1
<1>4. call \in Calls
  BY DEF Init, Idle, Calls, Steps, MaxTachCount
<1>5. max_speed \in [Fans -> Nat]
  BY FanAssumption DEF Init
<1> QED
  BY <1>2, <1>3, <1>4, <1>5 DEF Init, TypeOK

-------------------------------------------------------------------------------
(***************************************************************************)
(* The inductive invariant.  Besides the properties it says what a call    *)
(* knows of the chip between two of its transactions.                      *)
(***************************************************************************)
CallOfFan == call.at # "idle" => call.fan \in Fans

\* A status call that writes the target back has taken notice of every fault
\* but those that are in the register, and of one at least.
KeepKnown ==
  call.at \in {"keep_read", "keep_write"} =>
    /\ reported[call.fan] < call.seen
    /\ call.seen <= faults[call.fan]
    /\ call.fan \in reg.status <=> call.seen < faults[call.fan]

\* What it writes back is what the register holds.
KeptKnown == call.at = "keep_write" => call.kept = reg.target[call.fan]

\* The target of a fan is written before its init can succeed.
CfgKnown ==
  call.at = "cfg_write" =>
    call.fan \in reg.watched \/ call.fan \in reg.status \cup fan_faults

\* The register of a fan holds the count for the speed set last, with the
\* period the driver goes by.
GoalKnown ==
  \A f \in Fans : goal[f] # NoSpeed =>
    reg.target[f] = TargetField(TachCount(f, goal[f]))

\* No more faults are reported than there were.
ReportedBounded == \A f \in Fans : reported[f] <= faults[f]

IInv == /\ TypeOK
        /\ CallOfFan
        /\ ReportedBounded
        /\ FaultsKept
        /\ NoFalseAlarm
        /\ NeverUnwatched
        /\ KeepKnown
        /\ KeptKnown
        /\ CfgKnown
        /\ GoalKnown

LEMMA IInvInit == Init => IInv
<1> SUFFICES ASSUME Init PROVE IInv
  OBVIOUS
<1>1. TypeOK
  BY TypeInit
<1>2. PICK status \in SUBSET Fans, watched \in SUBSET Fans :
        /\ reg = [status |-> status, watched |-> watched,
                  target |-> [f \in Fans |-> 480], range |-> [f \in Fans |-> 2]]
        /\ faults = [f \in Fans |-> IF f \in status THEN 1 ELSE 0]
  BY DEF Init
<1>3. call.at = "idle"
  BY DEF Init, Idle
<1>4. FaultsKept /\ NoFalseAlarm
  BY <1>2 DEF Init, FaultsKept, NoFalseAlarm
<1>5. NeverUnwatched /\ GoalKnown
  BY DEF Init, NeverUnwatched, GoalKnown
<1>6. ReportedBounded
  <2> SUFFICES ASSUME NEW f \in Fans PROVE reported[f] <= faults[f]
    BY DEF ReportedBounded
  <2>1. reported[f] = 0
    BY DEF Init
  <2>2. faults[f] \in Nat
    BY <1>1 DEF TypeOK
  <2> QED
    BY <2>1, <2>2
<1> QED
  BY <1>1, <1>3, <1>4, <1>5, <1>6 DEF IInv, CallOfFan, KeepKnown, KeptKnown, CfgKnown

\* A step that changes nothing but the call, and does not bring it to where
\* something has to be known.
LEMMA QuietStep ==
  ASSUME IInv, UNCHANGED <<reg, driver, history>>, call' \in Calls,
         call'.at \notin {"keep_read", "keep_write", "cfg_write"}, CallOfFan'
  PROVE  IInv'
<1> USE DEF driver, history
<1>1. TypeOK'
  BY DEF IInv, TypeOK
<1>2. FaultsKept' /\ NoFalseAlarm' /\ NeverUnwatched'
  BY DEF IInv, FaultsKept, NoFalseAlarm, NeverUnwatched
<1>3. ReportedBounded'
  BY DEF IInv, ReportedBounded
<1>4. KeepKnown' /\ KeptKnown' /\ CfgKnown'
  BY DEF KeepKnown, KeptKnown, CfgKnown
<1>5. GoalKnown'
  BY DEF IInv, GoalKnown, TachCount, TargetField
<1> QED
  BY <1>1, <1>2, <1>3, <1>4, <1>5 DEF IInv

\* The calls begin.
LEMMA ResourceInitStep ==
  ASSUME IInv, NEW f \in Fans, NEW max_rpm \in NewMax, ResourceInit(f, max_rpm)
  PROVE  IInv'
<1> DEFINE max == IF max_rpm = 0 THEN max_speed[f] ELSE max_rpm
<1>1. max \in Nat
  BY FanAssumption DEF IInv, TypeOK
<1>2. PeriodOf(SpeedRange(max)) \in Nat
  BY <1>1, Ranges, Periods
<1>3. /\ max_speed' = [max_speed EXCEPT ![f] = max]
      /\ tach_count_period' =
           [tach_count_period EXCEPT ![f] = PeriodOf(SpeedRange(max))]
      /\ call' = [Idle EXCEPT !.at = "dyn_read", !.fan = f, !.init = TRUE]
      /\ goal' = [goal EXCEPT ![f] = NoSpeed]
      /\ UNCHANGED <<reg, fan_faults, faults, reported, ready>>
  BY DEF ResourceInit
<1> HIDE DEF max
<1>4. call' \in Calls
  BY <1>3, NewCallType DEF Steps
<1>5. TypeOK'
  <2>1. max_speed' \in [Fans -> Nat] /\ tach_count_period' \in [Fans -> Nat]
    BY <1>1, <1>2, <1>3 DEF IInv, TypeOK
  <2>2. goal' \in [Fans -> Nat \cup {NoSpeed}]
    BY <1>3 DEF IInv, TypeOK
  <2> QED
    BY <1>3, <1>4, <2>1, <2>2 DEF IInv, TypeOK
<1>6. call'.at = "dyn_read" /\ call'.fan = f
  BY <1>3 DEF Idle
<1>7. FaultsKept' /\ NoFalseAlarm' /\ NeverUnwatched' /\ ReportedBounded'
  BY <1>3 DEF IInv, FaultsKept, NoFalseAlarm, NeverUnwatched, ReportedBounded
<1>8. GoalKnown'
  <2> SUFFICES ASSUME NEW g \in Fans, goal'[g] # NoSpeed
               PROVE  reg'.target[g] = TargetField(TachCount(g, goal[g]))'
    BY DEF GoalKnown, TargetField, TachCount
  <2>1. g # f /\ goal'[g] = goal[g]
    BY <1>3 DEF IInv, TypeOK
  <2>2. tach_count_period'[g] = tach_count_period[g]
    BY <1>3, <2>1 DEF IInv, TypeOK
  <2>3. reg.target[g] = TargetField(TachCount(g, goal[g]))
    BY <2>1 DEF IInv, GoalKnown
  <2> QED
    BY <1>3, <2>1, <2>2, <2>3 DEF TargetField, TachCount
<1> QED
  BY <1>5, <1>6, <1>7, <1>8 DEF IInv, CallOfFan, KeepKnown, KeptKnown, CfgKnown

LEMMA RequestStep ==
  ASSUME IInv, Request
  PROVE  IInv'
<1>1. PICK f \in Fans : \/ \E max_rpm \in NewMax : ResourceInit(f, max_rpm)
                        \/ \E speed \in Speeds : SpeedSet(f, speed)
                        \/ StatusGet(f)
  BY DEF Request
<1>2. ASSUME NEW max_rpm \in NewMax, ResourceInit(f, max_rpm) PROVE IInv'
  BY <1>2, ResourceInitStep
<1>3. ASSUME NEW speed \in Speeds, SpeedSet(f, speed) PROVE IInv'
  <2>1. speed \in Nat
    BY FanAssumption
  <2>2. call' = [Idle EXCEPT !.at = "target_read", !.fan = f, !.speed = speed]
    BY <1>3 DEF SpeedSet
  <2>3. call' \in Calls /\ call'.at = "target_read" /\ call'.fan = f
    BY <2>1, <2>2, NewCallType DEF Idle, Steps
  <2> QED
    BY <1>3, <2>3, QuietStep DEF SpeedSet, CallOfFan
<1>4. CASE StatusGet(f)
  <2>1. call' = [Idle EXCEPT !.at = "fault_read", !.fan = f]
    BY <1>4 DEF StatusGet
  <2>2. call' \in Calls /\ call'.at = "fault_read" /\ call'.fan = f
    BY <2>1, NewCallType DEF Idle, Steps
  <2> QED
    BY <1>4, <2>2, QuietStep DEF StatusGet, CallOfFan
<1> QED
  BY <1>1, <1>2, <1>3, <1>4

\* The chip finds a fault of a fan it watches: of one, then, that has none
\* that waits to be reported by the running call.
LEMMA FaultStep ==
  ASSUME IInv, NEW f \in Fans, Fault(f)
  PROVE  IInv'
<1> USE DEF driver
<1>1. /\ f \in reg.watched
      /\ reg' = [reg EXCEPT !.status = @ \cup {f}, !.watched = @ \ {f}]
      /\ faults' = [faults EXCEPT ![f] = @ + 1]
      /\ UNCHANGED <<driver, call, reported, goal, ready>>
  BY DEF Fault
<1>2. /\ reg.status \cup {f} \in SUBSET Fans
      /\ reg.watched \ {f} \in SUBSET Fans
  BY DEF IInv, TypeOK, Registers
<1>3. reg' \in Registers
  BY <1>1, <1>2, StatusType DEF IInv, TypeOK
<1>4. /\ reg'.status = reg.status \cup {f}
      /\ reg'.watched = reg.watched \ {f}
      /\ reg'.target = reg.target
  BY <1>1 DEF IInv, TypeOK, Registers
<1>5. faults' \in [Fans -> Nat] /\ faults'[f] = faults[f] + 1
  BY <1>1 DEF IInv, TypeOK
<1>6. \A g \in Fans : g # f => faults'[g] = faults[g]
  BY <1>1 DEF IInv, TypeOK
<1>7. TypeOK'
  BY <1>1, <1>3, <1>5 DEF IInv, TypeOK
<1>8. FaultsKept'
  BY <1>1, <1>4, <1>5, <1>6 DEF IInv, FaultsKept
<1>9. NoFalseAlarm' /\ ReportedBounded'
  <2>1. \A g \in Fans : reported[g] \in Nat /\ faults[g] \in Nat
    BY DEF IInv, TypeOK
  <2> QED
    BY <1>1, <1>4, <1>5, <1>6, <2>1
    DEF IInv, NoFalseAlarm, ReportedBounded
<1>10. NeverUnwatched'
  BY <1>1, <1>4 DEF IInv, NeverUnwatched
<1>11. KeepKnown'
  <2> SUFFICES ASSUME call.at \in {"keep_read", "keep_write"}
               PROVE  /\ reported[call.fan] < call.seen
                      /\ call.seen <= faults'[call.fan]
                      /\ call.fan \in reg'.status <=> call.seen < faults'[call.fan]
    BY <1>1 DEF KeepKnown
  <2>1. call.fan \in Fans /\ call.seen \in Nat
    BY DEF IInv, CallOfFan, TypeOK, Calls
  <2>2. faults[call.fan] \in Nat
    BY <2>1 DEF IInv, TypeOK
  <2>3. /\ reported[call.fan] < call.seen
        /\ call.seen <= faults[call.fan]
        /\ call.fan \in reg.status <=> call.seen < faults[call.fan]
    BY DEF IInv, KeepKnown
  <2>4. CASE call.fan = f
    BY <1>4, <1>5, <2>1, <2>2, <2>3, <2>4
  <2>5. CASE call.fan # f
    BY <1>4, <1>6, <2>1, <2>3, <2>5
  <2> QED
    BY <2>4, <2>5
<1>12. KeptKnown' /\ CfgKnown' /\ CallOfFan'
  BY <1>1, <1>4 DEF IInv, KeptKnown, CfgKnown, CallOfFan
<1>13. GoalKnown'
  BY <1>1, <1>4 DEF IInv, GoalKnown, TachCount, TargetField
<1> QED
  BY <1>7, <1>8, <1>9, <1>10, <1>11, <1>12, <1>13 DEF IInv

-------------------------------------------------------------------------------
\* The transactions of resource_init and of a speed call.
LEMMA DynWriteStep ==
  ASSUME IInv, NEW outcome \in Outcomes, DynWrite(outcome)
  PROVE  IInv'
<1> USE DEF driver, history
<1>1. /\ call.at = "dyn_write"
      /\ reg' = IF Done(outcome)
                THEN [reg EXCEPT !.range[call.fan] = SpeedRange(max_speed[call.fan])]
                ELSE reg
      /\ call' = [call EXCEPT !.at = "volt_read"]
      /\ UNCHANGED <<driver, history>>
  BY DEF DynWrite
<1>2. call.fan \in Fans
  BY <1>1 DEF IInv, CallOfFan
<1>3. SpeedRange(max_speed[call.fan]) \in 0..5
  BY <1>2, Ranges DEF IInv, TypeOK
<1>4. reg' \in Registers
  BY <1>1, <1>2, <1>3, RangedType DEF IInv, TypeOK
<1>5. /\ reg'.status = reg.status
      /\ reg'.watched = reg.watched
      /\ reg'.target = reg.target
  BY <1>1 DEF IInv, TypeOK, Registers
<1>6. call' \in Calls /\ call'.at = "volt_read" /\ call'.fan = call.fan
  BY <1>1, CallAtType DEF IInv, TypeOK, Steps, Calls
<1>7. TypeOK' /\ CallOfFan'
  BY <1>1, <1>2, <1>4, <1>6 DEF IInv, TypeOK, CallOfFan
<1>8. FaultsKept' /\ NoFalseAlarm' /\ NeverUnwatched' /\ ReportedBounded'
  BY <1>1, <1>5 DEF IInv, FaultsKept, NoFalseAlarm, NeverUnwatched, ReportedBounded
<1>9. KeepKnown' /\ KeptKnown' /\ CfgKnown'
  BY <1>6 DEF KeepKnown, KeptKnown, CfgKnown
<1>10. GoalKnown'
  BY <1>1, <1>5 DEF IInv, GoalKnown, TachCount, TargetField
<1> QED
  BY <1>7, <1>8, <1>9, <1>10 DEF IInv

LEMMA TargetWriteStep ==
  ASSUME IInv, NEW outcome \in Outcomes, TargetWrite(outcome)
  PROVE  IInv'
<1> USE DEF driver
<1> DEFINE f == call.fan
           count == TargetField(TachCount(f, call.speed))
<1>1. /\ call.at = "target_write"
      /\ reg' = IF Done(outcome) THEN Targeted(f, count) ELSE reg
      /\ goal' = [goal EXCEPT ![f] = IF outcome = "ok" THEN call.speed ELSE NoSpeed]
      /\ call' = IF outcome = "ok" /\ call.init
                 THEN [call EXCEPT !.at = "cfg_write"]
                 ELSE Idle
      /\ UNCHANGED <<driver, faults, reported, ready>>
  BY DEF TargetWrite
<1>2. f \in Fans /\ call.speed \in Nat
  BY <1>1 DEF IInv, CallOfFan, TypeOK, Calls
<1>3. count \in 0..MaxTachCount
  BY <1>2, Counts DEF IInv
<1>4. reg \in Registers
  BY DEF IInv, TypeOK
<1>5. \A g \in Fans : goal'[g] # NoSpeed => g # f \/ outcome = "ok"
  BY <1>1, <1>2 DEF IInv, TypeOK
<1>6. GoalKnown'
  <2> SUFFICES ASSUME NEW g \in Fans, goal'[g] # NoSpeed
               PROVE  reg'.target[g] = TargetField(TachCount(g, goal[g]))'
    BY DEF GoalKnown, TargetField, TachCount
  <2>1. CASE g = f
    <3>1. outcome = "ok" /\ goal'[g] = call.speed
      BY <1>1, <1>2, <1>5, <2>1 DEF IInv, TypeOK
    <3>2. reg' = Targeted(f, count)
      BY <1>1, <3>1 DEF Done
    <3>3. reg'.target[f] = count
      BY <1>2, <1>4, <3>2 DEF Targeted, Registers
    <3> QED
      BY <1>1, <2>1, <3>1, <3>3 DEF TargetField, TachCount
  <2>2. CASE g # f
    <3>1. goal'[g] = goal[g]
      BY <1>1, <2>2 DEF IInv, TypeOK
    <3>2. reg'.target[g] = reg.target[g]
      BY <1>1, <1>4, <2>2 DEF Targeted, Registers
    <3>3. reg.target[g] = TargetField(TachCount(g, goal[g]))
      BY <3>1 DEF IInv, GoalKnown
    <3> QED
      BY <1>1, <3>1, <3>2, <3>3 DEF TargetField, TachCount
  <2> QED
    BY <2>1, <2>2
<1> HIDE DEF count
<1>7. reg' \in Registers
  BY <1>1, <1>2, <1>3, <1>4, TargetedType
<1>8. /\ reg'.status = reg.status
      /\ reg.watched \subseteq reg'.watched
      /\ outcome = "ok" => f \in reg'.watched
  BY <1>1, <1>4 DEF Targeted, Registers, Done
<1>9. call' \in Calls
  BY <1>1, <1>2, CallAtType, NewCallType DEF IInv, TypeOK, Steps
<1>10. goal' \in [Fans -> Nat \cup {NoSpeed}]
  BY <1>1, <1>2 DEF IInv, TypeOK
<1>11. TypeOK'
  BY <1>1, <1>7, <1>9, <1>10 DEF IInv, TypeOK
<1>12. /\ call'.at \in {"idle", "cfg_write"}
       /\ call'.at = "cfg_write" => outcome = "ok" /\ call'.fan = f
  BY <1>1 DEF Idle, IInv, TypeOK, Calls
<1>13. CallOfFan' /\ KeepKnown' /\ KeptKnown' /\ CfgKnown'
  BY <1>2, <1>8, <1>12 DEF CallOfFan, KeepKnown, KeptKnown, CfgKnown
<1>14. FaultsKept' /\ NoFalseAlarm' /\ NeverUnwatched' /\ ReportedBounded'
  BY <1>1, <1>8 DEF IInv, FaultsKept, NoFalseAlarm, NeverUnwatched, ReportedBounded
<1> QED
  BY <1>6, <1>11, <1>13, <1>14 DEF IInv

LEMMA CfgWriteStep ==
  ASSUME IInv, NEW ok \in BOOLEAN, CfgWrite(ok)
  PROVE  IInv'
<1> USE DEF driver
<1>1. /\ call.at = "cfg_write"
      /\ ready' = IF ok THEN ready \cup {call.fan} ELSE ready
      /\ call' = Idle
      /\ UNCHANGED <<reg, driver, faults, reported, goal>>
  BY DEF CfgWrite
<1>2. call.fan \in Fans
  BY <1>1 DEF IInv, CallOfFan
<1>3. call' \in Calls /\ call'.at = "idle"
  BY <1>1, <1>2, NewCallType DEF Idle, Steps
<1>4. TypeOK'
  BY <1>1, <1>2, <1>3 DEF IInv, TypeOK
<1>5. NeverUnwatched'
  BY <1>1 DEF IInv, NeverUnwatched, CfgKnown
<1>6. FaultsKept' /\ NoFalseAlarm' /\ ReportedBounded'
  BY <1>1 DEF IInv, FaultsKept, NoFalseAlarm, ReportedBounded
<1>7. GoalKnown'
  BY <1>1 DEF IInv, GoalKnown, TachCount, TargetField
<1> QED
  BY <1>3, <1>4, <1>5, <1>6, <1>7
  DEF IInv, CallOfFan, KeepKnown, KeptKnown, CfgKnown

-------------------------------------------------------------------------------
\* The transactions of a status call.  What leaves the register is latched.
LEMMA FaultReadStep ==
  ASSUME IInv, NEW ok \in BOOLEAN, FaultRead(ok)
  PROVE  IInv'
<1> USE DEF history
<1> DEFINE f == call.fan
<1>1. /\ call.at = "fault_read"
      /\ UNCHANGED <<max_speed, tach_count_period, history>>
  BY DEF FaultRead
<1>2. f \in Fans
  BY <1>1 DEF IInv, CallOfFan
<1>3. CASE ~ok
  <2>1. call' = Idle /\ UNCHANGED <<reg, fan_faults>>
    BY <1>3 DEF FaultRead
  <2>2. call' \in Calls /\ call'.at = "idle"
    BY <1>2, <2>1, NewCallType DEF Idle, Steps
  <2> QED
    BY <1>1, <2>1, <2>2, QuietStep DEF driver, CallOfFan
<1>4. CASE ok
  <2>1. /\ reg' = [reg EXCEPT !.status = {}]
        /\ fan_faults' = fan_faults \cup reg.status
        /\ call' = IF f \in fan_faults \cup reg.status
                   THEN [call EXCEPT !.at = "keep_read", !.seen = faults[f]]
                   ELSE Idle
    BY <1>4 DEF FaultRead, Latched, Faulty
  <2>2. reg' \in Registers
    BY <2>1, StatusType DEF IInv, TypeOK
  <2>3. /\ reg'.status = {}
        /\ reg'.watched = reg.watched
        /\ reg'.target = reg.target
    BY <2>1 DEF IInv, TypeOK, Registers
  <2>4. fan_faults' \in SUBSET Fans
    BY <2>1 DEF IInv, TypeOK, Registers
  <2>5. faults[f] \in Nat /\ reported[f] \in Nat
    BY <1>2 DEF IInv, TypeOK
  <2>6. call' \in Calls
    <3>1. 0 \in Nat /\ 0 \in 0..MaxTachCount
      BY DEF MaxTachCount
    <3>2. "keep_read" \in Steps
      BY DEF Steps
    <3>3. [call EXCEPT !.at = "keep_read", !.seen = faults[f]] \in Calls
      BY <2>5, <3>1, <3>2, CallType DEF IInv, TypeOK
    <3>4. Idle \in Calls
      BY <1>2, <3>1, <3>2, NewCallType
    <3> QED
      BY <2>1, <3>3, <3>4
  <2>7. TypeOK'
    BY <1>1, <2>2, <2>4, <2>6 DEF IInv, TypeOK
  <2>8. FaultsKept' /\ NoFalseAlarm' /\ NeverUnwatched' /\ ReportedBounded'
    BY <1>1, <2>1, <2>3
    DEF IInv, FaultsKept, NoFalseAlarm, NeverUnwatched, ReportedBounded
  <2>9. GoalKnown'
    BY <1>1, <2>3 DEF IInv, GoalKnown, TachCount, TargetField
  <2>10. CASE f \in fan_faults \cup reg.status
    <3>1. call' = [call EXCEPT !.at = "keep_read", !.seen = faults[f]]
      BY <2>1, <2>10
    <3>2. call'.at = "keep_read" /\ call'.seen = faults[f] /\ call'.fan = f
      BY <3>1 DEF IInv, TypeOK, Calls
    <3>3. reported[f] < faults[f]
      BY <1>2, <2>10 DEF IInv, NoFalseAlarm
    <3>4. KeepKnown'
      BY <1>1, <2>3, <2>5, <3>2, <3>3 DEF KeepKnown
    <3> QED
      BY <1>2, <2>7, <2>8, <2>9, <3>2, <3>4 DEF IInv, CallOfFan, KeptKnown, CfgKnown
  <2>11. CASE f \notin fan_faults \cup reg.status
    <3>1. call'.at = "idle"
      BY <2>1, <2>11 DEF Idle
    <3> QED
      BY <2>7, <2>8, <2>9, <3>1 DEF IInv, CallOfFan, KeepKnown, KeptKnown, CfgKnown
  <2> QED
    BY <2>10, <2>11
<1> QED
  BY <1>3, <1>4

LEMMA KeepReadStep ==
  ASSUME IInv, NEW ok \in BOOLEAN, KeepRead(ok)
  PROVE  IInv'
<1> USE DEF driver, history
<1>1. /\ call.at = "keep_read"
      /\ UNCHANGED <<reg, driver, history>>
  BY DEF KeepRead
<1>2. call.fan \in Fans
  BY <1>1 DEF IInv, CallOfFan
<1>3. CASE ~ok
  <2>1. call' = Idle
    BY <1>3 DEF KeepRead
  <2>2. call' \in Calls /\ call'.at = "idle"
    BY <1>2, <2>1, NewCallType DEF Idle, Steps
  <2> QED
    BY <1>1, <2>2, QuietStep DEF CallOfFan
<1>4. CASE ok
  <2>1. call' = [call EXCEPT !.at = "keep_write", !.kept = reg.target[call.fan]]
    BY <1>4 DEF KeepRead
  <2>2. reg.target[call.fan] \in 0..MaxTachCount
    BY <1>2 DEF IInv, TypeOK, Registers
  <2>3. "keep_write" \in Steps /\ 0 \in Nat
    BY DEF Steps
  <2>4. call' \in Calls
    BY <2>1, <2>2, <2>3, CallType DEF IInv, TypeOK
  <2>5. /\ call'.at = "keep_write"
        /\ call'.kept = reg.target[call.fan]
        /\ call'.fan = call.fan
        /\ call'.seen = call.seen
    BY <2>1 DEF IInv, TypeOK, Calls
  <2>6. TypeOK' /\ CallOfFan'
    BY <1>1, <1>2, <2>4, <2>5 DEF IInv, TypeOK, CallOfFan
  <2>7. FaultsKept' /\ NoFalseAlarm' /\ NeverUnwatched' /\ ReportedBounded'
    BY <1>1 DEF IInv, FaultsKept, NoFalseAlarm, NeverUnwatched, ReportedBounded
  <2>8. KeepKnown' /\ KeptKnown' /\ CfgKnown'
    BY <1>1, <2>5 DEF IInv, KeepKnown, KeptKnown, CfgKnown
  <2>9. GoalKnown'
    BY <1>1 DEF IInv, GoalKnown, TachCount, TargetField
  <2> QED
    BY <2>6, <2>7, <2>8, <2>9 DEF IInv
<1> QED
  BY <1>3, <1>4

\* A fault that is reported leaves fan_faults; one that came since the register
\* was read is in the register.
LEMMA KeepWriteStep ==
  ASSUME IInv, NEW outcome \in Outcomes, KeepWrite(outcome)
  PROVE  IInv'
<1> DEFINE f == call.fan
<1>1. /\ call.at = "keep_write"
      /\ reg' = IF Done(outcome) THEN Targeted(f, call.kept) ELSE reg
      /\ fan_faults' = IF outcome = "ok" THEN fan_faults \ {f} ELSE fan_faults
      /\ reported' = IF outcome = "ok"
                     THEN [reported EXCEPT ![f] = call.seen]
                     ELSE reported
      /\ call' = Idle
      /\ UNCHANGED <<max_speed, tach_count_period, faults, goal, ready>>
  BY DEF KeepWrite, AfterKeep
<1>2. f \in Fans /\ call.seen \in Nat /\ call.kept \in 0..MaxTachCount
  BY <1>1 DEF IInv, CallOfFan, TypeOK, Calls
<1>3. /\ reported[f] < call.seen
      /\ call.seen <= faults[f]
      /\ f \in reg.status <=> call.seen < faults[f]
      /\ call.kept = reg.target[f]
  BY <1>1 DEF IInv, KeepKnown, KeptKnown
<1>4. reg' \in Registers
  BY <1>1, <1>2, TargetedType DEF IInv, TypeOK
<1>5. /\ reg'.status = reg.status
      /\ reg'.target = reg.target
      /\ reg.watched \subseteq reg'.watched
      /\ outcome = "ok" => f \in reg'.watched
  BY <1>1, <1>2, <1>3 DEF IInv, TypeOK, Targeted, Registers, Done
<1>6. call' \in Calls /\ call'.at = "idle"
  BY <1>1, <1>2, NewCallType DEF Idle, Steps
<1>7. reported' \in [Fans -> Nat]
  BY <1>1, <1>2 DEF IInv, TypeOK
<1>8. TypeOK'
  BY <1>1, <1>4, <1>6, <1>7 DEF IInv, TypeOK
<1>9. \A g \in Fans : g # f => reported'[g] = reported[g]
  BY <1>1 DEF IInv, TypeOK
<1>10. outcome = "ok" => reported'[f] = call.seen
  BY <1>1, <1>2 DEF IInv, TypeOK
<1>11. FaultsKept' /\ NoFalseAlarm' /\ ReportedBounded'
  <2>1. CASE outcome = "ok"
    BY <1>1, <1>2, <1>3, <1>5, <1>9, <1>10, <2>1
    DEF IInv, FaultsKept, NoFalseAlarm, ReportedBounded
  <2>2. CASE outcome # "ok"
    BY <1>1, <1>5, <2>2 DEF IInv, FaultsKept, NoFalseAlarm, ReportedBounded
  <2> QED
    BY <2>1, <2>2
<1>12. NeverUnwatched'
  BY <1>1, <1>5 DEF IInv, NeverUnwatched
<1>13. GoalKnown'
  BY <1>1, <1>5 DEF IInv, GoalKnown, TachCount, TargetField
<1> QED
  BY <1>6, <1>8, <1>11, <1>12, <1>13
  DEF IInv, CallOfFan, KeepKnown, KeptKnown, CfgKnown

-------------------------------------------------------------------------------
LEMMA ReadStep ==
  ASSUME IInv, Read
  PROVE  IInv'
<1> USE DEF driver, history
<1>1. PICK ok \in BOOLEAN : \/ DynRead(ok)
                            \/ \E volt \in Volts : VoltRead(ok, volt)
                            \/ TargetRead(ok)
                            \/ FaultRead(ok)
                            \/ KeepRead(ok)
  BY DEF Read
<1>2. call \in Calls
  BY DEF IInv, TypeOK
<1>3. CASE DynRead(ok)
  <2>1. call.fan \in Fans
    BY <1>3 DEF DynRead, IInv, CallOfFan
  <2>2. PICK at \in {"dyn_write", "volt_read"} : call' = [call EXCEPT !.at = at]
    BY <1>3 DEF DynRead
  <2>3. call' \in Calls /\ call'.at = at /\ call'.fan = call.fan
    BY <1>2, <2>2, CallAtType DEF Steps, Calls
  <2> QED
    BY <1>3, <2>1, <2>3, QuietStep DEF DynRead, CallOfFan
<1>4. ASSUME NEW volt \in Volts, VoltRead(ok, volt) PROVE IInv'
  <2>1. call.fan \in Fans
    BY <1>4 DEF VoltRead, IInv, CallOfFan
  <2>2. SpeedAt(call.fan, volt) \in Nat
    BY <2>1, VoltSpeeds DEF IInv
  <2>3. \/ call' = [call EXCEPT !.at = "target_read",
                               !.speed = SpeedAt(call.fan, volt)]
        \/ call' = Idle
    BY <1>4 DEF VoltRead
  <2>4. "target_read" \in Steps /\ 0 \in Nat /\ 0 \in 0..MaxTachCount
    BY DEF Steps, MaxTachCount
  <2>5. CASE call' = Idle
    <3>1. call' \in Calls /\ call'.at = "idle"
      BY <2>1, <2>4, <2>5, NewCallType DEF Idle
    <3> QED
      BY <1>4, <3>1, QuietStep DEF VoltRead, CallOfFan
  <2>6. CASE call' = [call EXCEPT !.at = "target_read",
                                  !.speed = SpeedAt(call.fan, volt)]
    <3>1. call' \in Calls
      BY <1>2, <2>2, <2>4, <2>6, CallType
    <3>2. call'.at = "target_read" /\ call'.fan = call.fan
      BY <1>2, <2>6 DEF Calls
    <3> QED
      BY <1>4, <2>1, <3>1, <3>2, QuietStep DEF VoltRead, CallOfFan
  <2> QED
    BY <2>3, <2>5, <2>6
<1>5. CASE TargetRead(ok)
  <2>1. call.fan \in Fans
    BY <1>5 DEF TargetRead, IInv, CallOfFan
  <2>2. call' = [call EXCEPT !.at = "target_write"] \/ call' = Idle
    BY <1>5 DEF TargetRead
  <2>3. "target_write" \in Steps /\ 0 \in Nat
    BY DEF Steps
  <2>4. call' \in Calls
    BY <1>2, <2>1, <2>2, <2>3, CallAtType, NewCallType
  <2>5. call'.at \in {"idle", "target_write"} /\ (call'.at # "idle" => call'.fan = call.fan)
    BY <1>2, <2>2 DEF Idle, Calls
  <2> QED
    BY <1>5, <2>1, <2>4, <2>5, QuietStep DEF TargetRead, CallOfFan
<1>6. CASE FaultRead(ok)
  BY <1>6, FaultReadStep
<1>7. CASE KeepRead(ok)
  BY <1>7, KeepReadStep
<1> QED
  BY <1>1, <1>3, <1>4, <1>5, <1>6, <1>7

LEMMA WriteStep ==
  ASSUME IInv, Write
  PROVE  IInv'
<1>1. ASSUME NEW outcome \in Outcomes, DynWrite(outcome) PROVE IInv'
  BY <1>1, DynWriteStep
<1>2. ASSUME NEW outcome \in Outcomes, TargetWrite(outcome) PROVE IInv'
  BY <1>2, TargetWriteStep
<1>3. ASSUME NEW outcome \in Outcomes, KeepWrite(outcome) PROVE IInv'
  BY <1>3, KeepWriteStep
<1>4. ASSUME NEW ok \in BOOLEAN, CfgWrite(ok) PROVE IInv'
  BY <1>4, CfgWriteStep
<1> QED
  BY <1>1, <1>2, <1>3, <1>4 DEF Write

LEMMA IInvStep == IInv /\ [Next]_vars => IInv'
<1> SUFFICES ASSUME IInv, [Next]_vars PROVE IInv'
  OBVIOUS
<1>1. ASSUME NEW f \in Fans, Fault(f) PROVE IInv'
  BY <1>1, FaultStep
<1>2. CASE Request
  BY <1>2, RequestStep
<1>3. CASE Read
  BY <1>3, ReadStep
<1>4. CASE Write
  BY <1>4, WriteStep
<1>5. CASE UNCHANGED vars
  <2> USE <1>5 DEF vars, driver, history
  <2>1. TypeOK' /\ CallOfFan' /\ ReportedBounded'
    BY DEF IInv, TypeOK, CallOfFan, ReportedBounded
  <2>2. FaultsKept' /\ NoFalseAlarm' /\ NeverUnwatched'
    BY DEF IInv, FaultsKept, NoFalseAlarm, NeverUnwatched
  <2>3. KeepKnown' /\ KeptKnown' /\ CfgKnown'
    BY DEF IInv, KeepKnown, KeptKnown, CfgKnown
  <2>4. GoalKnown'
    BY DEF IInv, GoalKnown, TachCount, TargetField
  <2> QED
    BY <2>1, <2>2, <2>3, <2>4 DEF IInv
<1> QED
  BY <1>1, <1>2, <1>3, <1>4, <1>5 DEF Next

\* The count in the register commands the speed it was computed for.
LEMMA CountCommands ==
  ASSUME TypeOK, NEW f \in Fans, NEW speed \in Nat,
         Fits(f, tach_count_period[f], speed)
  PROVE  Commands(f, tach_count_period[f], TargetField(TachCount(f, speed)), speed)
<1>1. CASE speed = 0
  <2>1. 2047 % 2048 = 2047
    OBVIOUS
  <2> QED
    BY <1>1, <2>1 DEF Commands, TachCount, TargetField, MaxTachCount
<1>2. CASE speed # 0
  <2> DEFINE d == Pulses[f] * speed
             n == tach_count_period[f] * Clock
             q == n \div d
  <2>1. d \in Nat \ {0}
    <3>1. Pulses[f] \in Nat \ {0}
      BY FanAssumption
    <3> QED
      BY <1>2, <3>1
  <2>2. n \in Nat
    BY DEF TypeOK, Clock
  <2>3. n < 2048 * d
    BY <1>2 DEF Fits, MaxTachCount
  <2>4. TachCount(f, speed) = q
    BY <1>2 DEF TachCount
  <2> HIDE DEF d, n, q
  <2>5. q \in Nat /\ q * d <= n /\ n < (q + 1) * d
    BY <2>1, <2>2, Division DEF q
  <2>6. q < 2048
    BY <2>1, <2>2, <2>3, <2>5
  <2>7. q % 2048 = q
    BY <2>5, <2>6
  <2>8. TargetField(TachCount(f, speed)) = q
    BY <2>4, <2>7 DEF TargetField, MaxTachCount
  <2> QED
    BY <1>2, <2>5, <2>8 DEF Commands, d, n
<1> QED
  BY <1>1, <1>2

LEMMA SpeedFollows == IInv => SpeedHeld
<1> SUFFICES ASSUME IInv, NEW f \in Fans, goal[f] # NoSpeed,
                    PeriodOf(reg.range[f]) = tach_count_period[f],
                    Fits(f, tach_count_period[f], goal[f])
             PROVE  Commands(f, tach_count_period[f], reg.target[f], goal[f])
  BY DEF SpeedHeld
<1>1. goal[f] \in Nat
  BY DEF IInv, TypeOK
<1>2. reg.target[f] = TargetField(TachCount(f, goal[f]))
  BY DEF IInv, GoalKnown
<1> QED
  BY <1>1, <1>2, CountCommands DEF IInv
-------------------------------------------------------------------------------
LEMMA Invariance == Spec => []IInv
  BY IInvInit, IInvStep, PTL DEF Spec

\* The registers of the chip and what the driver keeps of it have their types.
THEOREM TypeCorrect == Spec => []TypeOK
<1>1. IInv => TypeOK
  BY DEF IInv
<1> QED
  BY <1>1, Invariance, PTL

\* sdi_max6620_fan_status_get loses no fault of any fan, whichever fan it is
\* called for and whatever transaction of it fails.
THEOREM FaultsAreKept == Spec => []FaultsKept
<1>1. IInv => FaultsKept
  BY DEF IInv
<1> QED
  BY <1>1, Invariance, PTL

\* Calls of sdi_max6620_fan_status_get that succeed report a fault only once.
THEOREM AlarmsAreTrue == Spec => []NoFalseAlarm
<1>1. IInv => NoFalseAlarm
  BY DEF IInv
<1> QED
  BY <1>1, Invariance, PTL

\* After its init a fan is watched by the chip, or a fault of it waits for the
\* call of sdi_max6620_fan_status_get that has it watched again.
THEOREM FansAreWatched == Spec => []NeverUnwatched
<1>1. IInv => NeverUnwatched
  BY DEF IInv
<1> QED
  BY <1>1, Invariance, PTL

\* The target register commands the speed last set with success by
\* sdi_max6620_fan_speed_set or by sdi_max6620_resource_init.
THEOREM SpeedIsHeld == Spec => []SpeedHeld
  BY SpeedFollows, Invariance, PTL
===============================================================================
