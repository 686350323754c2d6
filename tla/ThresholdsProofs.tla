--------------------------- MODULE ThresholdsProofs ---------------------------
(***************************************************************************)
(* Proofs about Thresholds, for any set of threads, number of sensors,     *)
(* thresholds and configurations.                                          *)
(***************************************************************************)
EXTENDS Thresholds, TLAPS

SetOps == {"set", "resource_init", "chip_init"}
SetPcs == {"write", "store", "store_default", "load", "max", "hyst_load", "hyst"}
Pcs == SetPcs \cup {"idle", "next", "high", "low", "answered"}
Ops == SetOps \cup {"none", "status"}

Setting(t) == call[t].pc \in SetPcs

\* Another thread's call goes on as it was, but for being alone.
Same(u) ==
  /\ call'[u].op = call[u].op
  /\ call'[u].pc = call[u].pc
  /\ call'[u].limit = call[u].limit
  /\ call'[u].val = call[u].val
  /\ call'[u].was = call[u].was
  /\ call'[u].ok = call[u].ok
  /\ call'[u].alarm = call[u].alarm
  /\ call'[u].alone => call[u].alone

\* What a call may be doing, with which driver and when.
ControlOf(t) ==
  /\ call[t].op \in SetOps <=> call[t].pc \in SetPcs \cup {"next"}
  /\ call[t].op = "status" <=> call[t].pc \in {"high", "low", "answered"}
  /\ call[t].pc \in {"write", "store", "store_default"} =>
       driver # "linux_lm75" /\ call[t].val \in 0..255
  /\ call[t].pc \in {"store", "store_default"} => ~CacheFirst
  /\ call[t].pc \in {"load", "max", "hyst_load", "hyst"} => driver = "linux_lm75"
  /\ driver = "linux_lm75" /\ call[t].op \in SetOps => call[t].limit = High
  /\ call[t].op \in SetOps => Supported(call[t].limit)
  /\ call[t].op = "set" => call[t].limit \in touched
  /\ /\ call[t].op \in {"resource_init", "chip_init"}
     /\ call[t].pc \in {"write", "store", "store_default"}
     => call[t].val = default[call[t].limit]
  /\ call[t].op = "resource_init" => ~CacheFirst
  /\ call[t].op = "chip_init" =>
       phase = "boot" /\ \A u \in Threads : u # t => call[u] = Idle

Control ==
  /\ \A t \in Threads : ControlOf(t)
  /\ phase = "boot" =>
       touched = {} /\ \A t \in Threads : call[t].op \in {"none", "chip_init"}

-------------------------------------------------------------------------------
\* The limits and what is known of single ones.
LEMMA LimitFacts ==
  /\ High \in Limits /\ Low \in Limits
  /\ High # Low
  /\ Limits \subseteq Registers /\ Hyst \in Registers /\ Hyst \notin Limits
  /\ NoLimit \notin Limits
<1>1. 1 \in 1..Sensors
  BY SensorAssumption
<1>2. High \in Limits /\ Low \in Limits
  BY <1>1 DEF High, Low, Limits, Kinds
<1>3. High # Low
  BY DEF High, Low
<1>4. \A l \in Limits : l[1] \in Kinds
  BY DEF Limits
<1>5. Hyst[1] = "hyst" /\ NoLimit[1] = "none"
  BY DEF Hyst, NoLimit
<1>6. Hyst \notin Limits /\ NoLimit \notin Limits
  BY <1>4, <1>5 DEF Kinds
<1> QED
  BY <1>2, <1>3, <1>6 DEF Registers

\* An initialisation begins with a limit of the driver and goes on with one.
LEMMA FirstLimit ==
  ASSUME NEW s \in 1..Sensors, driver \in Drivers, CacheFirst => s = 1
  PROVE  <<FirstKind, s>> \in Limits /\ Supported(<<FirstKind, s>>)
  BY SensorAssumption
  DEF FirstKind, Limits, Kinds, Supported, NumSensors, CacheFirst, Drivers

LEMMA NextLimit ==
  ASSUME NEW op, NEW l \in Limits, driver \in Drivers, Supported(l),
         Following(op, l) # NoLimit
  PROVE  /\ Following(op, l) \in Limits
         /\ Supported(Following(op, l))
         /\ op # "set"
<1>1. op # "set"
  BY DEF Following
<1>2. /\ l[1] \in Kinds /\ l[2] \in 1..Sensors
  BY DEF Limits
<1>3. NumSensors \in 1..Sensors
  BY SensorAssumption DEF NumSensors
<1>4. CASE NextKind(l[1]) # "none"
  <2>1. Following(op, l) = <<NextKind(l[1]), l[2]>>
    BY <1>1, <1>4 DEF Following
  <2>2. NextKind(l[1]) \in Kinds
    BY <1>4 DEF NextKind, Kinds
  <2>3. /\ NextKind(l[1]) = "low" => FALSE
        /\ NextKind(l[1]) = "critical" => driver = "emc142x"
    BY DEF NextKind
  <2>4. l[2] <= NumSensors
    BY DEF Supported
  <2> QED
    BY <1>1, <1>2, <2>1, <2>2, <2>3, <2>4 DEF Limits, Supported
<1>5. CASE NextKind(l[1]) = "none"
  <2>1. /\ Following(op, l) = <<FirstKind, l[2] + 1>>
        /\ l[2] < NumSensors
    BY <1>1, <1>5 DEF Following
  <2>2. FirstKind \in Kinds /\ (FirstKind = "low" => driver # "max6699")
        /\ FirstKind # "critical"
    BY DEF FirstKind, Kinds
  <2>3. l[2] + 1 \in 1..Sensors /\ l[2] + 1 <= NumSensors
    BY <1>2, <1>3, <2>1, SensorAssumption
  <2> QED
    BY <1>1, <2>1, <2>2, <2>3 DEF Limits, Supported
<1> QED
  BY <1>4, <1>5

\* What the elementary changes of a call do.
LEMMA GoToCall ==
  ASSUME TypeOK, NEW t \in Threads, NEW pc \in Pcs, GoTo(t, pc)
  PROVE  /\ call' \in [Threads -> CallType]
         /\ call'[t] = [call[t] EXCEPT !.pc = pc]
         /\ call'[t].pc = pc /\ call'[t].op = call[t].op
         /\ call'[t].limit = call[t].limit /\ call'[t].val = call[t].val
         /\ call'[t].alone = call[t].alone /\ call'[t].was = call[t].was
         /\ call'[t].ok = call[t].ok /\ call'[t].alarm = call[t].alarm
         /\ \A u \in Threads : u # t => call'[u] = call[u]
  BY DEF TypeOK, GoTo, CallType, Pcs, SetPcs

LEMMA IdleType == Idle \in CallType
  BY LimitFacts DEF Idle, CallType

LEMMA IdleCall ==
  ASSUME TypeOK, NEW t \in Threads, call' = [call EXCEPT ![t] = Idle]
  PROVE  /\ call' \in [Threads -> CallType]
         /\ call'[t] = Idle
         /\ \A u \in Threads : u # t => call'[u] = call[u]
  BY IdleType DEF TypeOK

\* A call that another one has joined.
LEMMA JoinedCall ==
  ASSUME NEW c \in CallType
  PROVE  /\ [c EXCEPT !.alone = FALSE] \in CallType
         /\ [c EXCEPT !.alone = FALSE].op = c.op
         /\ [c EXCEPT !.alone = FALSE].pc = c.pc
         /\ [c EXCEPT !.alone = FALSE].limit = c.limit
         /\ [c EXCEPT !.alone = FALSE].val = c.val
         /\ [c EXCEPT !.alone = FALSE].was = c.was
         /\ [c EXCEPT !.alone = FALSE].ok = c.ok
         /\ [c EXCEPT !.alone = FALSE].alarm = c.alarm
         /\ [c EXCEPT !.alone = FALSE].alone = FALSE
  BY DEF CallType

\* What BeginSet and GiveUp do to the calls.
LEMMA BeginCall ==
  ASSUME TypeOK, NEW t \in Threads, NEW op \in SetOps, NEW l \in Limits,
         NEW v \in Int, BeginSet(t, op, l, v)
  PROVE  /\ call' \in [Threads -> CallType]
         /\ call'[t].op = op
         /\ call'[t].pc = IF driver = "linux_lm75" THEN "load" ELSE "write"
         /\ call'[t].limit = l /\ call'[t].val = v
         /\ call'[t].alone = (Setters(l) = {})
         /\ call'[t].was = (l \in settled)
         /\ \A u \in Threads : u # t => Same(u)
         /\ \A u \in Setters(l) : u # t => ~call'[u].alone
         /\ \A u \in Threads : u # t /\ u \notin Setters(l) => call'[u] = call[u]
<1> DEFINE new == [op |-> op, pc |-> IF driver = "linux_lm75" THEN "load" ELSE "write",
             limit |-> l, val |-> v, alone |-> Setters(l) = {},
             was |-> l \in settled, ok |-> TRUE, alarm |-> FALSE]
           joined(u) == [call[u] EXCEPT !.alone = FALSE]
<1>1. call' = [u \in Threads |-> IF u = t THEN new
                                 ELSE IF u \in Setters(l) THEN joined(u) ELSE call[u]]
  BY DEF BeginSet
<1>2. new \in CallType
  BY DEF CallType, SetOps
<1>3. ASSUME NEW u \in Threads
      PROVE  /\ joined(u) \in CallType
             /\ joined(u).op = call[u].op /\ joined(u).pc = call[u].pc
             /\ joined(u).limit = call[u].limit /\ joined(u).val = call[u].val
             /\ joined(u).was = call[u].was /\ joined(u).ok = call[u].ok
             /\ joined(u).alarm = call[u].alarm /\ joined(u).alone = FALSE
  BY JoinedCall DEF TypeOK
<1>4. call' \in [Threads -> CallType]
  BY <1>1, <1>2, <1>3 DEF TypeOK
<1>5. call'[t] = new
  BY <1>1
<1>6. \A u \in Threads : u # t => Same(u)
  BY <1>1, <1>3 DEF Same
<1>7. \A u \in Setters(l) : u # t => ~call'[u].alone
  BY <1>1, <1>3 DEF Setters
<1>8. \A u \in Threads : u # t /\ u \notin Setters(l) => call'[u] = call[u]
  BY <1>1
<1> HIDE DEF joined
<1> QED
  BY <1>4, <1>5, <1>6, <1>7, <1>8

LEMMA GiveUpCall ==
  ASSUME TypeOK, NEW t \in Threads, NEW op, NEW l \in Limits, NEW s,
         GiveUp(t, op, l, s)
  PROVE  /\ call' \in [Threads -> CallType]
         /\ call'[t] = Idle
         /\ \A u \in Threads : u # t => Same(u)
         /\ KeepsDefault(op, l) =>
              \A u \in Setters(l) : u # t => ~call'[u].alone
         /\ \A u \in Threads : call[u] = Idle => call'[u] = Idle
<1> DEFINE joined(u) == [call[u] EXCEPT !.alone = FALSE]
<1>1. call' = [u \in Threads |->
        IF u = t THEN Idle
        ELSE IF KeepsDefault(op, l) /\ u \in Setters(l) THEN joined(u) ELSE call[u]]
  BY DEF GiveUp
<1>2. ASSUME NEW u \in Threads
      PROVE  /\ joined(u) \in CallType
             /\ joined(u).op = call[u].op /\ joined(u).pc = call[u].pc
             /\ joined(u).limit = call[u].limit /\ joined(u).val = call[u].val
             /\ joined(u).was = call[u].was /\ joined(u).ok = call[u].ok
             /\ joined(u).alarm = call[u].alarm /\ joined(u).alone = FALSE
  BY JoinedCall DEF TypeOK
<1>3. call' \in [Threads -> CallType]
  BY <1>1, <1>2, IdleType DEF TypeOK
<1>4. \A u \in Threads : u # t => Same(u)
  BY <1>1, <1>2 DEF Same
<1>5. KeepsDefault(op, l) => \A u \in Setters(l) : u # t => ~call'[u].alone
  BY <1>1, <1>2 DEF Setters
<1>6. \A u \in Threads : call[u] = Idle => call'[u] = Idle
  BY <1>1 DEF Setters, Idle
<1> HIDE DEF joined
<1> QED
  BY <1>1, <1>3, <1>4, <1>5, <1>6

-------------------------------------------------------------------------------
\* Every step is of one thread, which the driver and its defaults outlast.
StepOf(t) == Step(t) /\ Open(t) /\ Watch /\ UNCHANGED <<driver, default>>

\* While chip_init runs no other thread does anything.
LEMMA BootAlone ==
  ASSUME TypeOK, Control, NEW t \in Threads, NEW u \in Threads, Step(t),
         call[u].op = "chip_init"
  PROVE  t = u
<1> SUFFICES ASSUME t # u PROVE FALSE
  OBVIOUS
<1>1. phase = "boot" /\ call[t] = Idle
  BY DEF Control, ControlOf
<1>2. call[t].pc = "idle"
  BY <1>1 DEF Idle
<1>3. ~Serving
  BY <1>1 DEF Serving
<1>4. call[u] # Idle
  BY DEF Idle
<1> QED
  BY <1>2, <1>3, <1>4 DEF Step, Boot, ThresholdSet, LowSet, ResourceInit, Write,
     Store, Load, WriteAttribute, Fail, WriteFails, Proceed, StatusGet,
     CompareHigh, CompareLow, Answer

\* What a thread was doing it may be doing still after a step of another.
LEMMA ControlKept ==
  ASSUME TypeOK, NEW u \in Threads, ControlOf(u), Same(u),
         call[u].op # "chip_init", UNCHANGED <<driver, default>>,
         touched \subseteq touched'
  PROVE  ControlOf(u)'
<1>1. (Supported(call[u].limit) <=> Supported(call[u].limit)') /\ (CacheFirst <=> CacheFirst')
  BY DEF Same, Supported, NumSensors, CacheFirst
<1> QED
  BY <1>1 DEF ControlOf, Same

\* The control of a call that moves on within threshold_set or status_get.
LEMMA ControlMoved ==
  ASSUME TypeOK, Control, NEW t \in Threads, StepOf(t),
         UNCHANGED <<phase, touched>>,
         \A u \in Threads : u # t => call'[u] = call[u],
         ControlOf(t)',
         call'[t].op # call[t].op =>
           call'[t].op = "none" \/ (call'[t].op = "status" /\ phase # "boot")
  PROVE  Control'
<1>1. ASSUME NEW u \in Threads PROVE ControlOf(u)'
  <2>1. CASE u = t
    BY <2>1
  <2>2. CASE u # t
    <3>1. Same(u)
      BY <2>2 DEF Same
    <3>2. call[u].op # "chip_init"
      BY <2>2, BootAlone DEF StepOf
    <3> QED
      BY <3>1, <3>2, ControlKept DEF Control, StepOf
  <2> QED
    BY <2>1, <2>2
<1>2. phase' = "boot" =>
        touched' = {} /\ \A u \in Threads : call'[u].op \in {"none", "chip_init"}
  BY DEF Control
<1> QED
  BY <1>1, <1>2 DEF Control

\* The control when a threshold_set begins and when it has failed.
LEMMA ControlBegun ==
  ASSUME TypeOK, Control, NEW t \in Threads, StepOf(t),
         NEW op \in SetOps, NEW l \in Limits, NEW v \in Int,
         BeginSet(t, op, l, v),
         driver = "linux_lm75" => l = High,
         driver # "linux_lm75" => v \in 0..255,
         Supported(l),
         op # "set" => v = default[l],
         op = "set" => l \in touched' /\ phase # "boot",
         op = "resource_init" => ~CacheFirst /\ phase # "boot",
         op = "chip_init" => phase = "boot" /\ \A u \in Threads : u # t => call[u] = Idle,
         touched \subseteq touched', op # "set" => touched' = touched
  PROVE  Control'
<1>1. ASSUME NEW u \in Threads, u # t PROVE ControlOf(u)'
  <2>1. Same(u)
    BY <1>1, BeginCall
  <2>2. call[u].op # "chip_init"
    BY <1>1, BootAlone DEF StepOf
  <2> QED
    BY <2>1, <2>2, ControlKept DEF Control, StepOf
<1>2. UNCHANGED <<driver, default, phase>>
  BY DEF StepOf, BeginSet
<1>3. (Supported(l) <=> Supported(l)') /\ (CacheFirst <=> CacheFirst')
  BY <1>2 DEF Supported, NumSensors, CacheFirst
<1>4. ASSUME op = "chip_init", NEW u \in Threads, u # t PROVE call'[u] = Idle
  <2>1. call[u] = Idle
    BY <1>4
  <2>2. u \notin Setters(l)
    BY <2>1 DEF Setters, Idle
  <2> QED
    BY <1>4, <2>1, <2>2, BeginCall
<1>5. ControlOf(t)'
  BY <1>2, <1>3, <1>4, BeginCall DEF ControlOf, SetOps, SetPcs
<1>6. ASSUME phase' = "boot"
      PROVE  touched' = {} /\ \A u \in Threads : call'[u].op \in {"none", "chip_init"}
  <2>1. op = "chip_init"
    BY <1>2, <1>6 DEF SetOps
  <2> QED
    BY <1>2, <1>4, <1>6, <2>1, BeginCall DEF Control, Idle
<1> QED
  BY <1>1, <1>5, <1>6 DEF Control

LEMMA ControlGivenUp ==
  ASSUME TypeOK, Control, NEW t \in Threads, StepOf(t), NEW op, NEW l \in Limits,
         NEW s, GiveUp(t, op, l, s), UNCHANGED touched
  PROVE  Control'
<1>0. /\ call'[t] = Idle
      /\ \A u \in Threads : u # t => Same(u)
      /\ phase' # phase => phase' = "failed"
  BY GiveUpCall DEF GiveUp
<1>1. ASSUME NEW u \in Threads, u # t PROVE ControlOf(u)'
  <2>1. Same(u)
    BY <1>0, <1>1
  <2>2. call[u].op # "chip_init"
    BY <1>1, BootAlone DEF StepOf
  <2> QED
    BY <2>1, <2>2, ControlKept DEF Control, StepOf
<1>2. ControlOf(t)'
  BY <1>0 DEF ControlOf, Idle, SetOps, SetPcs
<1>3. ASSUME phase' = "boot"
      PROVE  touched' = {} /\ \A u \in Threads : call'[u].op \in {"none", "chip_init"}
  <2>1. phase = "boot"
    BY <1>0, <1>3
  <2>2. ASSUME NEW u \in Threads PROVE call'[u].op \in {"none", "chip_init"}
    <3>1. CASE u = t
      BY <1>0, <3>1 DEF Idle
    <3>2. CASE u # t
      BY <1>0, <2>1, <3>2 DEF Control, Same
    <3> QED
      BY <3>1, <3>2
  <2> QED
    BY <2>1, <2>2 DEF Control
<1> QED
  BY <1>1, <1>2, <1>3 DEF Control

-------------------------------------------------------------------------------
\* The types after a step, from those of what it changes.
LEMMA WatchType ==
  ASSUME TypeOK, Watch, cache' \in [Limits -> Int]
  PROVE  highs' \in [Threads -> SUBSET Int] /\ lows' \in [Threads -> SUBSET Int]
<1>1. cache'[High] \in Int /\ cache'[Low] \in Int
  BY LimitFacts
<1> QED
  BY <1>1 DEF TypeOK, Watch

LEMMA TypeAfter ==
  ASSUME TypeOK, NEW t \in Threads, StepOf(t),
         phase' \in {"boot", "ok", "failed"},
         reg' \in [Registers -> IF driver = "linux_lm75" THEN Int ELSE 0..255],
         cache' \in [Limits -> Int], call' \in [Threads -> CallType],
         calls' \in Nat, expected' \in [Limits -> Int],
         settled' \subseteq Limits, synced' \subseteq Limits, touched' \subseteq Limits
  PROVE  TypeOK'
<1>1. opened' \in 0..3
  BY DEF TypeOK, StepOf, Open
<1> QED
  BY <1>1, WatchType DEF TypeOK, StepOf

LEMMA DefaultType ==
  ASSUME TypeOK, NEW l \in Limits
  PROVE  default[l] \in Int /\ cache[l] \in Int /\ expected[l] \in Int
  BY DEF TypeOK

LEMMA TypeBegun ==
  ASSUME TypeOK, NEW t \in Threads, StepOf(t), NEW op \in SetOps, NEW l \in Limits,
         NEW v \in Int, BeginSet(t, op, l, v), calls' \in Nat, touched' \subseteq Limits
  PROVE  TypeOK'
<1>1. cache' \in [Limits -> Int] /\ expected' \in [Limits -> Int]
  BY DEF TypeOK, BeginSet
<1>2. call' \in [Threads -> CallType]
  BY BeginCall
<1>3. UNCHANGED <<phase, reg>> /\ settled' \subseteq Limits /\ synced' \subseteq Limits
  BY DEF TypeOK, BeginSet
<1> QED
  BY <1>1, <1>2, <1>3, TypeAfter DEF TypeOK

LEMMA TypeGivenUp ==
  ASSUME TypeOK, NEW t \in Threads, StepOf(t), NEW op, NEW l \in Limits,
         NEW s \in SUBSET Limits, GiveUp(t, op, l, s),
         reg' \in [Registers -> IF driver = "linux_lm75" THEN Int ELSE 0..255],
         UNCHANGED touched, calls' \in Nat
  PROVE  TypeOK'
<1>1. cache' \in [Limits -> Int] /\ expected' \in [Limits -> Int]
  BY DEF TypeOK, GiveUp
<1>2. call' \in [Threads -> CallType]
  BY GiveUpCall
<1>3. /\ phase' \in {"boot", "ok", "failed"}
      /\ settled' \subseteq Limits /\ synced' \subseteq Limits
  BY DEF TypeOK, GiveUp
<1> QED
  BY <1>1, <1>2, <1>3, TypeAfter DEF TypeOK

\* An initialisation comes to a limit of the driver.
LEMMA DefaultBegun ==
  ASSUME TypeOK, Control, NEW t \in Threads, StepOf(t),
         NEW op \in {"resource_init", "chip_init"}, NEW l \in Limits, Supported(l),
         driver = "linux_lm75" => l = High,
         op = "resource_init" => ~CacheFirst /\ phase # "boot",
         op = "chip_init" => phase = "boot" /\ \A u \in Threads : u # t => call[u] = Idle,
         BeginDefault(t, op, l), calls' \in Nat, UNCHANGED touched
  PROVE  TypeOK' /\ Control'
<1>1. default[l] \in Int
  BY DefaultType
<1>2. CASE Accepted(default[l]) \/ driver = "linux_lm75"
  <2>1. BeginSet(t, op, l, default[l])
    BY <1>2 DEF BeginDefault
  <2>2. driver # "linux_lm75" => default[l] \in 0..255
    BY <1>2 DEF Accepted
  <2>3. op \in SetOps /\ op # "set"
    BY DEF SetOps
  <2>4. TypeOK'
    BY <1>1, <2>1, <2>3, TypeBegun DEF TypeOK
  <2>5. Control'
    BY <1>1, <2>1, <2>2, <2>3, ControlBegun
  <2> QED
    BY <2>4, <2>5
<1>3. CASE ~(Accepted(default[l]) \/ driver = "linux_lm75")
  <2>1. GiveUp(t, op, l, settled) /\ UNCHANGED reg
    BY <1>3 DEF BeginDefault
  <2>2. Control'
    BY <2>1, ControlGivenUp
  <2>3. TypeOK'
    BY <2>1, TypeGivenUp DEF TypeOK
  <2> QED
    BY <2>2, <2>3
<1> QED
  BY <1>2, <1>3

\* Types and control of each action.
LEMMA BootKeeps ==
  ASSUME TypeOK, Control, NEW t \in Threads, StepOf(t), Boot(t)
  PROVE  TypeOK' /\ Control'
<1>1. 1 \in 1..Sensors
  BY SensorAssumption
<1>2. <<FirstKind, 1>> \in Limits /\ Supported(<<FirstKind, 1>>)
  BY <1>1, FirstLimit DEF TypeOK
<1>3. driver = "linux_lm75" => <<FirstKind, 1>> = High
  BY DEF FirstKind, High
<1> QED
  BY <1>2, <1>3, DefaultBegun DEF Boot, TypeOK

LEMMA ThresholdSetKeeps ==
  ASSUME TypeOK, Control, NEW t \in Threads, StepOf(t), NEW l \in Limits,
         NEW v \in Values, ThresholdSet(t, l, v)
  PROVE  TypeOK' /\ Control'
<1>1. /\ BeginSet(t, "set", l, v) /\ v \in 0..255 /\ v \in Int
      /\ Supported(l) /\ touched' = touched \cup {l} /\ calls' \in Nat /\ phase # "boot"
  BY DEF ThresholdSet, CallSetter, TypeOK, Accepted, Serving
<1>2. driver = "linux_lm75" => l = High
  <2>1. ASSUME driver = "linux_lm75" PROVE l = High
    <3>1. l[1] \in Kinds /\ l[2] \in 1..Sensors /\ l = <<l[1], l[2]>>
      BY DEF Limits
    <3>2. l[1] # "critical" /\ l[2] <= 1
      BY <1>1, <2>1 DEF Supported, NumSensors, CacheFirst
    <3>3. l[2] = 1
      BY <3>1, <3>2, SensorAssumption
    <3>4. l # Low
      BY <2>1 DEF ThresholdSet
    <3> QED
      BY <3>1, <3>2, <3>3, <3>4 DEF Kinds, High, Low
  <2> QED
    BY <2>1
<1>3. "set" \in SetOps
  BY DEF SetOps
<1>4. TypeOK'
  BY <1>1, <1>3, TypeBegun DEF TypeOK
<1>5. Control'
  BY <1>1, <1>2, <1>3, ControlBegun
<1> QED
  BY <1>4, <1>5

LEMMA LowSetKeeps ==
  ASSUME TypeOK, Control, NEW t \in Threads, StepOf(t), NEW v \in Values, LowSet(t, v)
  PROVE  TypeOK' /\ Control'
<1>1. /\ cache' = [cache EXCEPT ![Low] = v] /\ expected' = [expected EXCEPT ![Low] = v]
      /\ UNCHANGED <<phase, reg, call, settled, synced>>
      /\ touched' = touched \cup {Low} /\ calls' \in Nat /\ v \in Int /\ phase # "boot"
  BY DEF LowSet, CallSetter, TypeOK, Accepted, Serving
<1>2. cache' \in [Limits -> Int] /\ expected' \in [Limits -> Int]
  BY <1>1 DEF TypeOK
<1>3. TypeOK'
  BY <1>1, <1>2, LimitFacts, TypeAfter DEF TypeOK
<1>4. ASSUME NEW u \in Threads PROVE ControlOf(u)'
  <2>1. Same(u)
    BY <1>1 DEF Same
  <2>2. call[u].op # "chip_init"
    BY <1>1 DEF Control, ControlOf
  <2> QED
    BY <1>1, <2>1, <2>2, ControlKept DEF Control, StepOf
<1> QED
  BY <1>1, <1>3, <1>4 DEF Control

LEMMA ResourceInitKeeps ==
  ASSUME TypeOK, Control, NEW t \in Threads, StepOf(t), NEW s \in 1..Sensors,
         ResourceInit(t, s)
  PROVE  TypeOK' /\ Control'
<1>1. /\ ~CacheFirst /\ BeginDefault(t, "resource_init", <<FirstKind, s>>)
      /\ UNCHANGED touched /\ calls' \in Nat /\ phase # "boot"
  BY DEF ResourceInit, CallSetter, TypeOK, Serving
<1>2. <<FirstKind, s>> \in Limits /\ Supported(<<FirstKind, s>>)
  BY <1>1, FirstLimit DEF TypeOK
<1>3. driver # "linux_lm75"
  BY <1>1 DEF CacheFirst
<1> QED
  BY <1>1, <1>2, <1>3, DefaultBegun

\* The limit of a register is kept as a byte by the I2C drivers.
LEMMA RegisterType ==
  ASSUME TypeOK, NEW r \in Registers, NEW v \in Int,
         driver # "linux_lm75" => v \in 0..255
  PROVE  [reg EXCEPT ![r] = v] \in
           [Registers -> IF driver = "linux_lm75" THEN Int ELSE 0..255]
  BY DEF TypeOK

\* The numbers that a call has and where it stands.
LEMMA CallFacts ==
  ASSUME TypeOK, NEW t \in Threads
  PROVE  /\ call[t] \in CallType /\ call[t].op \in Ops /\ call[t].pc \in Pcs
         /\ call[t].limit \in Limits /\ call[t].val \in Int
         /\ call[t].alone \in BOOLEAN /\ call[t].was \in BOOLEAN
         /\ call[t].ok \in BOOLEAN /\ call[t].alarm \in BOOLEAN
  BY DEF TypeOK, CallType, Ops, SetOps, Pcs, SetPcs

LEMMA FinishType ==
  ASSUME TypeOK, NEW t \in Threads, NEW done \in BOOLEAN, Finish(t, done)
  PROVE  /\ GoTo(t, "next") /\ settled' \subseteq Limits /\ synced' \subseteq Limits
         /\ settled \subseteq settled' /\ synced \subseteq synced'
  BY CallFacts DEF TypeOK, Finish

\* A call that goes on to another step of threshold_set, and is Control.
LEMMA ControlGone ==
  ASSUME TypeOK, Control, NEW t \in Threads, StepOf(t), NEW pc \in Pcs, GoTo(t, pc),
         UNCHANGED <<phase, touched>>, ControlOf(t)'
  PROVE  Control'
<1>1. /\ call'[t].op = call[t].op
      /\ \A u \in Threads : u # t => call'[u] = call[u]
  BY GoToCall
<1> QED
  BY <1>1, ControlMoved

\* The control of the thread itself when its threshold_set goes on.
LEMMA ControlOfGone ==
  ASSUME TypeOK, NEW t \in Threads, StepOf(t), ControlOf(t), UNCHANGED <<phase, touched>>,
         call[t].pc \in SetPcs, call'[t].pc \in SetPcs \cup {"next"},
         call'[t].op = call[t].op, call'[t].limit = call[t].limit,
         \A u \in Threads : u # t => call'[u] = call[u],
         call'[t].pc \in {"write", "store", "store_default"} =>
           /\ call[t].pc \in {"write", "store", "store_default"}
           /\ call'[t].val = call[t].val,
         call'[t].pc \in {"store", "store_default"} => ~CacheFirst,
         call'[t].pc \in {"load", "max", "hyst_load", "hyst"} =>
           call[t].pc \in {"load", "max", "hyst_load", "hyst"}
  PROVE  ControlOf(t)'
<1>1. UNCHANGED <<driver, default>>
  BY DEF StepOf
<1>2. (Supported(call[t].limit) <=> Supported(call[t].limit)') /\ (CacheFirst <=> CacheFirst')
  BY <1>1 DEF Supported, NumSensors, CacheFirst
<1>3. call[t].op \in SetOps /\ call[t].op # "status"
  BY DEF ControlOf, SetOps
<1>4. call'[t].pc \notin {"high", "low", "answered"}
  BY DEF SetPcs
<1>5. call[t].op = "chip_init" =>
        phase' = "boot" /\ \A u \in Threads : u # t => call'[u] = Idle
  BY DEF ControlOf
<1>6. call[t].op = "set" => call'[t].limit \in touched'
  BY DEF ControlOf
<1>7. call[t].op = "resource_init" => ~CacheFirst'
  BY <1>2 DEF ControlOf
<1>8. /\ call'[t].pc \in {"write", "store", "store_default"} =>
           driver' # "linux_lm75" /\ call'[t].val \in 0..255
      /\ /\ call[t].op \in {"resource_init", "chip_init"}
         /\ call'[t].pc \in {"write", "store", "store_default"}
         => call'[t].val = default'[call'[t].limit]
      /\ call'[t].pc \in {"load", "max", "hyst_load", "hyst"} => driver' = "linux_lm75"
      /\ driver' = "linux_lm75" => call'[t].limit = High
  BY <1>1, <1>3 DEF ControlOf
<1>9. Supported(call[t].limit)
  BY <1>3 DEF ControlOf
<1> QED
  BY <1>2, <1>3, <1>4, <1>5, <1>6, <1>7, <1>8, <1>9 DEF ControlOf

LEMMA WriteKeeps ==
  ASSUME TypeOK, Control, NEW t \in Threads, StepOf(t), Write(t)
  PROVE  TypeOK' /\ Control'
<1>0. /\ call[t].pc = "write" /\ driver # "linux_lm75"
      /\ reg' = [reg EXCEPT ![call[t].limit] = call[t].val]
      /\ UNCHANGED <<phase, cache, calls, touched>>
  BY DEF Write, LimitReg
<1>1. ControlOf(t) /\ call[t].val \in 0..255
  BY <1>0 DEF Control, ControlOf
<1>2. reg' \in [Registers -> IF driver = "linux_lm75" THEN Int ELSE 0..255]
  BY <1>0, <1>1, CallFacts, LimitFacts, RegisterType
<1>5. CASE CacheFirst
  <2>1. Finish(t, TRUE) /\ UNCHANGED expected
    BY <1>5 DEF Write
  <2>2. GoTo(t, "next") /\ settled' \subseteq Limits /\ synced' \subseteq Limits
    BY <2>1, FinishType
  <2>3. "next" \in Pcs
    BY DEF Pcs
  <2>4. TypeOK'
    BY <1>0, <1>2, <2>1, <2>2, <2>3, GoToCall, TypeAfter DEF TypeOK
  <2>5. ControlOf(t)'
    BY <1>0, <1>1, <2>2, <2>3, GoToCall, ControlOfGone DEF SetPcs
  <2> QED
    BY <1>0, <2>2, <2>3, <2>4, <2>5, ControlGone
<1>6. CASE ~CacheFirst
  <2>1. /\ expected' = [expected EXCEPT ![call[t].limit] = call[t].val]
        /\ GoTo(t, "store") /\ UNCHANGED <<settled, synced>>
    BY <1>6 DEF Write
  <2>2. "store" \in Pcs
    BY DEF Pcs, SetPcs
  <2>3. expected' \in [Limits -> Int]
    BY <2>1, CallFacts DEF TypeOK
  <2>4. TypeOK'
    BY <1>0, <1>2, <2>1, <2>2, <2>3, GoToCall, TypeAfter DEF TypeOK
  <2>5. ControlOf(t)'
    BY <1>0, <1>1, <1>6, <2>1, <2>2, GoToCall, ControlOfGone DEF SetPcs
  <2> QED
    BY <1>0, <2>1, <2>2, <2>4, <2>5, ControlGone
<1> QED
  BY <1>5, <1>6

LEMMA StoreKeeps ==
  ASSUME TypeOK, Control, NEW t \in Threads, StepOf(t), Store(t)
  PROVE  TypeOK' /\ Control'
<1>0. /\ call[t].pc \in {"store", "store_default"}
      /\ cache' = [cache EXCEPT ![call[t].limit] = call[t].val]
      /\ UNCHANGED <<phase, reg, expected, calls, touched>>
  BY DEF Store
<1>1. PICK pc \in {"store_default", "next"} :
        GoTo(t, pc) /\ settled' \subseteq Limits /\ synced' \subseteq Limits
  <2>1. CASE call[t].op # "set" /\ call[t].pc = "store"
    BY <2>1 DEF Store, TypeOK
  <2>2. CASE ~(call[t].op # "set" /\ call[t].pc = "store")
    BY <2>2, FinishType DEF Store
  <2> QED
    BY <2>1, <2>2
<1>2. pc \in Pcs
  BY DEF Pcs, SetPcs
<1>3. cache' \in [Limits -> Int]
  BY <1>0, CallFacts DEF TypeOK
<1>4. TypeOK'
  BY <1>0, <1>1, <1>2, <1>3, GoToCall, TypeAfter DEF TypeOK
<1>5. ControlOf(t)
  BY DEF Control
<1>6. ~CacheFirst
  BY <1>0, <1>5 DEF ControlOf
<1>7. ControlOf(t)'
  BY <1>0, <1>1, <1>2, <1>5, <1>6, GoToCall, ControlOfGone DEF SetPcs
<1> QED
  BY <1>0, <1>1, <1>2, <1>4, <1>7, ControlGone

LEMMA LoadKeeps ==
  ASSUME TypeOK, Control, NEW t \in Threads, StepOf(t), Load(t)
  PROVE  TypeOK' /\ Control'
<1>0. UNCHANGED <<phase, reg, cache, expected, settled, synced, calls, touched>>
  BY DEF Load
<1>1. PICK pc \in {"max", "hyst"}, v \in Int :
        /\ call' = [call EXCEPT ![t].pc = pc, ![t].val = v]
        /\ call[t].pc \in {"load", "hyst_load"}
  <2>1. cache[High] \in Int /\ HystOf(cache[High]) \in Int
    BY LimitFacts DEF TypeOK, HystOf
  <2> QED
    BY <2>1 DEF Load
<1>2. call[t] \in CallType
  BY CallFacts
<1>3. /\ call'[t] \in CallType /\ call'[t].pc = pc /\ call'[t].op = call[t].op
      /\ call'[t].limit = call[t].limit
      /\ \A u \in Threads : u # t => call'[u] = call[u]
  BY <1>1, <1>2 DEF CallType, TypeOK
<1>4. call' \in [Threads -> CallType]
  BY <1>1, <1>3 DEF TypeOK
<1>5. TypeOK'
  BY <1>0, <1>4, TypeAfter DEF TypeOK
<1>6. ControlOf(t)
  BY DEF Control
<1>8. ControlOf(t)'
  BY <1>0, <1>1, <1>3, <1>6, ControlOfGone DEF SetPcs
<1> QED
  BY <1>0, <1>3, <1>5, <1>8, ControlMoved

LEMMA WriteAttributeKeeps ==
  ASSUME TypeOK, Control, NEW t \in Threads, StepOf(t), WriteAttribute(t)
  PROVE  TypeOK' /\ Control'
<1>0. /\ call[t].pc \in {"max", "hyst"}
      /\ UNCHANGED <<phase, cache, expected, calls, touched>>
  BY DEF WriteAttribute
<1>1. PICK done \in BOOLEAN :
        /\ reg' = IF done THEN [reg EXCEPT ![Attribute(t)] = call[t].val] ELSE reg
        /\ IF call[t].pc = "max"
           THEN /\ call' = [call EXCEPT ![t].pc = "hyst_load", ![t].ok = done]
                /\ UNCHANGED <<settled, synced>>
           ELSE Finish(t, call[t].ok /\ done)
  BY DEF WriteAttribute
<1>2. ControlOf(t) /\ driver = "linux_lm75"
  BY <1>0 DEF Control, ControlOf
<1>3. Attribute(t) \in Registers
  BY LimitFacts DEF Attribute
<1>4. reg' \in [Registers -> IF driver = "linux_lm75" THEN Int ELSE 0..255]
  BY <1>1, <1>2, <1>3, CallFacts, RegisterType DEF TypeOK
<1>5. /\ call' \in [Threads -> CallType]
      /\ call'[t].op = call[t].op /\ call'[t].limit = call[t].limit
      /\ call'[t].pc \in {"hyst_load", "next"}
      /\ \A u \in Threads : u # t => call'[u] = call[u]
      /\ settled' \subseteq Limits /\ synced' \subseteq Limits
  <2>1. CASE call[t].pc = "max"
    <3>1. call' = [call EXCEPT ![t].pc = "hyst_load", ![t].ok = done]
      BY <1>1, <2>1
    <3>2. call[t] \in CallType
      BY CallFacts
    <3>3. /\ call'[t] \in CallType /\ call'[t].pc = "hyst_load"
          /\ call'[t].op = call[t].op /\ call'[t].limit = call[t].limit
          /\ \A u \in Threads : u # t => call'[u] = call[u]
      BY <3>1, <3>2 DEF CallType, TypeOK
    <3>4. call' \in [Threads -> CallType]
      BY <3>1, <3>3 DEF TypeOK
    <3> QED
      BY <1>1, <2>1, <3>3, <3>4 DEF TypeOK
  <2>2. CASE call[t].pc # "max"
    <3>1. Finish(t, call[t].ok /\ done)
      BY <1>1, <2>2
    <3>2. (call[t].ok /\ done) \in BOOLEAN
      OBVIOUS
    <3>3. GoTo(t, "next") /\ settled' \subseteq Limits /\ synced' \subseteq Limits
      BY <3>1, <3>2, FinishType
    <3>4. "next" \in Pcs
      BY DEF Pcs
    <3> QED
      BY <3>3, <3>4, GoToCall
  <2> QED
    BY <2>1, <2>2
<1>6. TypeOK'
  BY <1>0, <1>4, <1>5, TypeAfter DEF TypeOK
<1>7. ControlOf(t)'
  BY <1>0, <1>2, <1>5, ControlOfGone DEF SetPcs
<1> QED
  BY <1>0, <1>5, <1>6, <1>7, ControlMoved

LEMMA FailKeeps ==
  ASSUME TypeOK, Control, NEW t \in Threads, StepOf(t), Fail(t)
  PROVE  TypeOK' /\ Control'
<1>1. /\ GiveUp(t, call[t].op, call[t].limit, Settle(t))
      /\ call[t].pc \in {"write", "max", "hyst"}
      /\ UNCHANGED <<calls, touched>>
      /\ \/ call[t].pc = "write" /\ reg' = [reg EXCEPT ![call[t].limit] = call[t].val]
         \/ UNCHANGED reg
  BY DEF Fail, WriteFails, LimitReg
<1>2. call[t].limit \in Limits /\ call[t].limit \in Registers /\ call[t].val \in Int
  BY CallFacts, LimitFacts
<1>3. Settle(t) \in SUBSET Limits
  BY <1>2 DEF Settle, TypeOK
<1>4. call[t].pc = "write" => driver # "linux_lm75" /\ call[t].val \in 0..255
  BY DEF Control, ControlOf
<1>5. reg' \in [Registers -> IF driver = "linux_lm75" THEN Int ELSE 0..255]
  BY <1>1, <1>2, <1>4, RegisterType DEF TypeOK
<1>6. TypeOK'
  BY <1>1, <1>2, <1>3, <1>5, TypeGivenUp DEF TypeOK
<1>7. Control'
  BY <1>1, <1>2, ControlGivenUp
<1> QED
  BY <1>6, <1>7

\* A call returns, or its initialisation goes on with another limit.
LEMMA ProceedCases ==
  ASSUME TypeOK, Control, NEW t \in Threads, Proceed(t)
  PROVE  /\ call[t].pc = "next" /\ call[t].op \in SetOps
         /\ call[t].limit \in Limits /\ Supported(call[t].limit)
         /\ UNCHANGED <<calls, touched>>
         /\ \/ /\ Following(call[t].op, call[t].limit) = NoLimit
               /\ call' = [call EXCEPT ![t] = Idle]
               /\ phase' = IF call[t].op = "chip_init" THEN "ok" ELSE phase
               /\ UNCHANGED <<reg, cache, expected, settled, synced>>
            \/ /\ Following(call[t].op, call[t].limit) \in Limits
               /\ Supported(Following(call[t].op, call[t].limit))
               /\ call[t].op \in {"resource_init", "chip_init"}
               /\ driver # "linux_lm75"
               /\ BeginDefault(t, call[t].op, Following(call[t].op, call[t].limit))
<1>1. /\ call[t].pc = "next" /\ call[t].op \in SetOps
      /\ call[t].limit \in Limits /\ Supported(call[t].limit)
      /\ UNCHANGED <<calls, touched>>
  BY CallFacts DEF Proceed, Control, ControlOf
<1>2. CASE Following(call[t].op, call[t].limit) = NoLimit
  BY <1>1, <1>2 DEF Proceed
<1>3. CASE Following(call[t].op, call[t].limit) # NoLimit
  <2>1. /\ Following(call[t].op, call[t].limit) \in Limits
        /\ Supported(Following(call[t].op, call[t].limit))
        /\ call[t].op # "set"
    BY <1>1, <1>3, NextLimit DEF TypeOK
  <2>2. driver # "linux_lm75"
    <3>1. ASSUME driver = "linux_lm75" PROVE FALSE
      <4>1. call[t].limit[1] \in Kinds /\ call[t].limit[2] \in 1..Sensors
        BY <1>1 DEF Limits
      <4>2. NextKind(call[t].limit[1]) # "none"
        BY <1>3, <2>1, <3>1, <4>1 DEF Following, NumSensors, CacheFirst
      <4>3. Following(call[t].op, call[t].limit) = <<"high", call[t].limit[2]>>
        BY <2>1, <3>1, <4>2 DEF Following, NextKind
      <4>4. call[t].limit[1] = "low"
        BY <3>1, <4>2 DEF NextKind
      <4>5. call[t].op = "chip_init"
        BY <1>1, <2>1, <3>1 DEF SetOps, Control, ControlOf, CacheFirst
      <4>6. call[t].limit = High
        BY <1>1, <3>1, <4>5 DEF Control, ControlOf
      <4> QED
        BY <4>4, <4>6 DEF High
    <3> QED
      BY <3>1
  <2> QED
    BY <1>1, <1>3, <2>1, <2>2 DEF Proceed, SetOps
<1> QED
  BY <1>2, <1>3

LEMMA ProceedKeeps ==
  ASSUME TypeOK, Control, NEW t \in Threads, StepOf(t), Proceed(t)
  PROVE  TypeOK' /\ Control'
<1> DEFINE l == Following(call[t].op, call[t].limit)
<1>1. CASE l = NoLimit
  <2>1. /\ call' = [call EXCEPT ![t] = Idle]
        /\ phase' = IF call[t].op = "chip_init" THEN "ok" ELSE phase
        /\ UNCHANGED <<reg, cache, expected, settled, synced, calls, touched>>
    BY <1>1, LimitFacts, ProceedCases
  <2>2. TypeOK'
    BY <2>1, IdleCall, TypeAfter DEF TypeOK
  <2>3. ControlOf(t)'
    BY <2>1, IdleCall DEF ControlOf, Idle, SetOps, SetPcs
  <2>4. ASSUME NEW u \in Threads, u # t PROVE ControlOf(u)'
    <3>1. call'[u] = call[u]
      BY <2>1, <2>4, IdleCall
    <3>2. Same(u)
      BY <3>1 DEF Same
    <3>3. call[u].op # "chip_init"
      BY <2>4, BootAlone DEF StepOf
    <3> QED
      BY <2>1, <3>2, <3>3, ControlKept DEF Control, StepOf
  <2>5. ASSUME phase' = "boot"
        PROVE  touched' = {} /\ \A u \in Threads : call'[u].op \in {"none", "chip_init"}
    <3>1. phase = "boot"
      BY <2>1, <2>5
    <3> QED
      BY <2>1, <3>1, IdleCall DEF Control, Idle
  <2> QED
    BY <2>2, <2>3, <2>4, <2>5 DEF Control
<1>2. CASE l # NoLimit
  <2>1. /\ l \in Limits /\ Supported(l) /\ call[t].op \in {"resource_init", "chip_init"}
        /\ driver # "linux_lm75" /\ BeginDefault(t, call[t].op, l)
        /\ UNCHANGED <<calls, touched>>
    BY <1>2, ProceedCases
  <2>2. /\ call[t].op = "resource_init" => ~CacheFirst /\ phase # "boot"
        /\ call[t].op = "chip_init" =>
             phase = "boot" /\ \A u \in Threads : u # t => call[u] = Idle
    BY DEF Control, ControlOf
  <2> QED
    BY <2>1, <2>2, DefaultBegun DEF TypeOK
<1> QED
  BY <1>1, <1>2

\* What the steps of a status call do.
Asked(t) ==
  /\ call' \in [Threads -> CallType]
  /\ \A u \in Threads : u # t => call'[u] = call[u]
  /\ call[t].op \in {"none", "status"} /\ phase # "boot"
  /\ \/ call'[t].op = "status" /\ call'[t].pc \in {"high", "low", "answered"}
     \/ call'[t] = Idle
  /\ UNCHANGED <<phase, reg, cache, expected, settled, synced, calls, touched>>

LEMMA StatusCall ==
  ASSUME NEW c \in CallType, NEW m \in Int, NEW pc \in Pcs
  PROVE  [c EXCEPT !.op = "status", !.pc = pc, !.val = m] \in CallType
  BY DEF CallType, Pcs, SetPcs

LEMMA ComparedCall ==
  ASSUME NEW c \in CallType, NEW pc \in Pcs, NEW a \in BOOLEAN
  PROVE  [c EXCEPT !.pc = pc, !.alarm = a] \in CallType
  BY DEF CallType, Pcs, SetPcs

LEMMA StatusGetAsks ==
  ASSUME TypeOK, NEW t \in Threads, NEW m \in Temperatures, StatusGet(t, m)
  PROVE  /\ Asked(t) /\ call'[t].op = "status" /\ call'[t].pc = "high"
         /\ call'[t].val = m /\ CacheFirst
<1>1. /\ call' = [call EXCEPT ![t].op = "status", ![t].pc = "high", ![t].val = m]
      /\ call[t] = Idle /\ Serving /\ CacheFirst
      /\ UNCHANGED <<phase, reg, cache, expected, settled, synced, calls, touched>>
  BY DEF StatusGet
<1>2. call[t] \in CallType /\ m \in Int /\ "high" \in Pcs
  BY CallFacts, TemperatureAssumption DEF Pcs
<1>3. [call[t] EXCEPT !.op = "status", !.pc = "high", !.val = m] \in CallType
  BY <1>2, StatusCall
<1>4. call' \in [Threads -> CallType]
  BY <1>1, <1>3 DEF TypeOK
<1>5. /\ call'[t].op = "status" /\ call'[t].pc = "high" /\ call'[t].val = m
      /\ \A u \in Threads : u # t => call'[u] = call[u]
  BY <1>1, <1>2 DEF TypeOK, CallType
<1>6. call[t].op = "none" /\ phase # "boot"
  BY <1>1 DEF Idle, Serving
<1> QED
  BY <1>1, <1>4, <1>5, <1>6 DEF Asked

LEMMA CompareHighAsks ==
  ASSUME TypeOK, Control, NEW t \in Threads, CompareHigh(t)
  PROVE  /\ Asked(t) /\ call[t].op = "status" /\ call[t].pc = "high"
         /\ call'[t].op = "status" /\ call'[t].val = call[t].val
         /\ \/ call'[t].pc = "answered" /\ call'[t].alarm
            \/ call'[t].pc = "low" /\ ~(Reading(call[t].val) >= cache[High])
<1> DEFINE alarm == Reading(call[t].val) >= cache[High]
           pc == IF alarm THEN "answered" ELSE "low"
<1>1. /\ call' = [call EXCEPT ![t].pc = pc, ![t].alarm = alarm]
      /\ call[t].pc = "high"
      /\ UNCHANGED <<phase, reg, cache, expected, settled, synced, calls, touched>>
  BY DEF CompareHigh
<1>2. call[t] \in CallType /\ pc \in Pcs /\ alarm \in BOOLEAN
  BY CallFacts DEF Pcs
<1>3. (alarm => pc = "answered") /\ (~alarm => pc = "low")
  OBVIOUS
<1> HIDE DEF alarm, pc
<1>4. [call[t] EXCEPT !.pc = pc, !.alarm = alarm] \in CallType
  BY <1>2, ComparedCall
<1>5. call' \in [Threads -> CallType]
  BY <1>1, <1>4 DEF TypeOK
<1>6. /\ call'[t].op = call[t].op /\ call'[t].pc = pc /\ call'[t].val = call[t].val
      /\ call'[t].alarm = alarm
      /\ \A u \in Threads : u # t => call'[u] = call[u]
  BY <1>1, <1>2 DEF TypeOK, CallType
<1>7. call[t].op = "status" /\ phase # "boot"
  BY <1>1 DEF Control, ControlOf
<1>8. Asked(t)
  BY <1>1, <1>3, <1>5, <1>6, <1>7 DEF Asked
<1>9. alarm <=> Reading(call[t].val) >= cache[High]
  BY DEF alarm
<1> QED
  BY <1>1, <1>3, <1>6, <1>7, <1>8, <1>9

LEMMA CompareLowAsks ==
  ASSUME TypeOK, Control, NEW t \in Threads, CompareLow(t)
  PROVE  /\ Asked(t) /\ call[t].op = "status" /\ call[t].pc = "low"
         /\ call'[t].op = "status" /\ call'[t].val = call[t].val
         /\ call'[t].pc = "answered"
         /\ call'[t].alarm <=> Reading(call[t].val) <= cache[Low]
<1> DEFINE alarm == Reading(call[t].val) <= cache[Low]
<1>1. /\ call' = [call EXCEPT ![t].pc = "answered", ![t].alarm = alarm]
      /\ call[t].pc = "low"
      /\ UNCHANGED <<phase, reg, cache, expected, settled, synced, calls, touched>>
  BY DEF CompareLow
<1>2. call[t] \in CallType /\ "answered" \in Pcs /\ alarm \in BOOLEAN
  BY CallFacts DEF Pcs
<1> HIDE DEF alarm
<1>4. [call[t] EXCEPT !.pc = "answered", !.alarm = alarm] \in CallType
  BY <1>2, ComparedCall
<1>5. call' \in [Threads -> CallType]
  BY <1>1, <1>4 DEF TypeOK
<1>6. /\ call'[t].op = call[t].op /\ call'[t].pc = "answered"
      /\ call'[t].val = call[t].val /\ call'[t].alarm = alarm
      /\ \A u \in Threads : u # t => call'[u] = call[u]
  BY <1>1, <1>2 DEF TypeOK, CallType
<1>7. call[t].op = "status" /\ phase # "boot"
  BY <1>1 DEF Control, ControlOf
<1>8. Asked(t)
  BY <1>1, <1>5, <1>6, <1>7 DEF Asked
<1>9. alarm <=> Reading(call[t].val) <= cache[Low]
  BY DEF alarm
<1> QED
  BY <1>1, <1>6, <1>7, <1>8, <1>9

LEMMA AnswerAsks ==
  ASSUME TypeOK, Control, NEW t \in Threads, Answer(t)
  PROVE  Asked(t) /\ call'[t] = Idle
<1>1. call[t].op = "status" /\ phase # "boot"
  BY DEF Answer, Control, ControlOf
<1> QED
  BY <1>1, IdleCall DEF Answer, Asked

LEMMA AskedKeeps ==
  ASSUME TypeOK, Control, NEW t \in Threads, StepOf(t), Asked(t)
  PROVE  TypeOK' /\ Control'
<1>1. TypeOK'
  BY TypeAfter DEF Asked, TypeOK
<1>2. ControlOf(t)'
  <2>1. CASE call'[t] = Idle
    BY <2>1 DEF ControlOf, Idle, SetOps, SetPcs
  <2>2. CASE call'[t].op = "status" /\ call'[t].pc \in {"high", "low", "answered"}
    BY <2>2 DEF ControlOf, SetOps, SetPcs
  <2> QED
    BY <2>1, <2>2 DEF Asked
<1>3. call'[t].op # call[t].op =>
        call'[t].op = "none" \/ (call'[t].op = "status" /\ phase # "boot")
  BY DEF Asked, Idle
<1> QED
  BY <1>1, <1>2, <1>3, ControlMoved DEF Asked

\* The shapes that a step can have.
LEMMA Shapes ==
  ASSUME TypeOK, Control, NEW t \in Threads, StepOf(t)
  PROVE  \/ Boot(t)
         \/ \E l \in Limits, v \in Values : ThresholdSet(t, l, v)
         \/ \E v \in Values : LowSet(t, v)
         \/ \E s \in 1..Sensors : ResourceInit(t, s)
         \/ Write(t)
         \/ Store(t)
         \/ Load(t)
         \/ WriteAttribute(t)
         \/ Fail(t)
         \/ Proceed(t)
         \/ Asked(t)
<1>1. ASSUME \E m \in Temperatures : StatusGet(t, m) PROVE Asked(t)
  BY <1>1, StatusGetAsks
<1> QED
  BY <1>1, CompareHighAsks, CompareLowAsks, AnswerAsks DEF StepOf, Step

LEMMA StepKeeps ==
  ASSUME TypeOK, Control, NEW t \in Threads, StepOf(t)
  PROVE  TypeOK' /\ Control'
<1>1. CASE \E l \in Limits, v \in Values : ThresholdSet(t, l, v)
  BY <1>1, ThresholdSetKeeps
<1>2. CASE \E v \in Values : LowSet(t, v)
  BY <1>2, LowSetKeeps
<1>3. CASE \E s \in 1..Sensors : ResourceInit(t, s)
  BY <1>3, ResourceInitKeeps
<1> QED
  BY <1>1, <1>2, <1>3, Shapes, BootKeeps, WriteKeeps, StoreKeeps, LoadKeeps,
     WriteAttributeKeeps, FailKeeps, ProceedKeeps, AskedKeeps

LEMMA InitTypes == Init => TypeOK /\ Control
<1> SUFFICES ASSUME Init PROVE TypeOK /\ Control
  OBVIOUS
<1>1. default \in [Limits -> Int]
  BY NumberAssumption DEF Init
<1>2. cache \in [Limits -> Int] /\ expected \in [Limits -> Int]
  BY <1>1 DEF Init
<1>3. reg \in [Registers -> 0..255]
  BY NumberAssumption DEF Init
<1>4. TypeOK
  BY <1>1, <1>2, <1>3, IdleType DEF Init, TypeOK
<1>5. Control
  BY DEF Init, Control, ControlOf, Idle, SetOps, SetPcs
<1> QED
  BY <1>4, <1>5

LEMMA NextStep ==
  ASSUME [Next]_vars
  PROVE  UNCHANGED vars \/ \E t \in Threads : StepOf(t)
  BY DEF Next, StepOf

LEMMA TypesInvariant ==
  ASSUME TypeOK, Control, [Next]_vars
  PROVE  TypeOK' /\ Control'
<1>1. CASE UNCHANGED vars
  BY <1>1 DEF vars, TypeOK, Control, ControlOf, Supported, NumSensors, CacheFirst, Drivers
<1>2. CASE \E t \in Threads : StepOf(t)
  BY <1>2, StepKeeps
<1> QED
  BY <1>1, <1>2, NextStep

\* The registers, copies and calls keep their types, limit registers of the I2C
\* chips are bytes: no thresholds and defaults that a byte cannot hold are
\* written to them (the range checks of the threshold_set functions).
THEOREM TypeCorrect == Spec => []TypeOK
<1>1. Init => TypeOK /\ Control
  BY InitTypes
<1>2. TypeOK /\ Control /\ [Next]_vars => TypeOK' /\ Control'
  BY TypesInvariant
<1> QED
  BY <1>1, <1>2, PTL DEF Spec

-------------------------------------------------------------------------------
\* A call that sets a limit: the limit is not settled meanwhile, of two calls
\* on one limit none is alone, and one that is alone finds what it left.
Part(t) ==
  /\ Setting(t) => call[t].limit \notin settled
  /\ \A u \in Threads :
       u # t /\ Setting(t) /\ Setting(u) /\ call[u].limit = call[t].limit
       => ~call[t].alone
  /\ call[t].alone =>
       /\ call[t].pc \in {"store", "store_default"} =>
            expected[call[t].limit] = call[t].val /\ reg[call[t].limit] = call[t].val
       /\ call[t].pc = "write" /\ call[t].was /\ ~CacheFirst =>
            cache[call[t].limit] = expected[call[t].limit]
       /\ call[t].pc = "write" /\ CacheFirst => cache[call[t].limit] = call[t].val
       /\ call[t].pc = "max" => call[t].val = cache[High]
       /\ call[t].pc \in {"hyst_load", "hyst"} /\ call[t].ok => reg[High] = cache[High]
       /\ call[t].pc = "hyst" => call[t].val = cache[High] - 5

Parts == \A t \in Threads : Part(t)

\* What is known of limits that nobody is setting.
Rest ==
  /\ synced \subseteq settled
  /\ driver = "linux_lm75" => synced \subseteq {High}
  /\ CacheFirst => \A l \in Limits : cache[l] = expected[l]
  /\ ThresholdAnswered
  /\ CacheAgrees

LEMMA SettersAre ==
  ASSUME TypeOK, Control, NEW t \in Threads, NEW l
  PROVE  t \in Setters(l) <=> Setting(t) /\ call[t].limit = l
<1>1. ControlOf(t)
  BY DEF Control
<1>2. call[t].op \in SetOps /\ call[t].pc # "next" <=> Setting(t)
  BY <1>1 DEF ControlOf, Setting, SetPcs
<1> QED
  BY <1>2 DEF Setters, SetOps

\* What a step of t on limit l leaves to the calls of others.
Apart(t, l) ==
  /\ \A k \in Limits : k # l =>
       /\ cache'[k] = cache[k] /\ expected'[k] = expected[k] /\ reg'[k] = reg[k]
       /\ k \in settled' => k \in settled
  /\ \A u \in Threads : u # t =>
       /\ Same(u)
       /\ Setting(u) /\ call[u].limit = l => ~call'[u].alone /\ l \notin settled'
  /\ call'[t].pc \in SetPcs =>
       (Setting(t) /\ call'[t].limit = call[t].limit) \/ call'[t].limit = l

LEMMA OthersKept ==
  ASSUME TypeOK, Control, Parts, NEW t \in Threads, StepOf(t),
         NEW l, Apart(t, l), NEW u \in Threads, u # t
  PROVE  Part(u)'
<1>1. Same(u) /\ Part(u)
  BY DEF Apart, Parts
<1>2. (Setting(u) <=> Setting(u)') /\ (CacheFirst <=> CacheFirst')
  BY <1>1 DEF Same, Setting, CacheFirst, StepOf
<1>3. call[u].limit \in Limits /\ High \in Limits
  BY CallFacts, LimitFacts
<1>4. Setting(u)' => call'[u].limit \notin settled'
  BY <1>1, <1>2, <1>3 DEF Part, Same, Apart
<1>5. ASSUME NEW w \in Threads, w # u, Setting(u)', Setting(w)',
             call'[w].limit = call'[u].limit
      PROVE  ~call'[u].alone
  <2>1. CASE w # t
    <3>1. Same(w)
      BY <2>1 DEF Apart
    <3> QED
      BY <1>1, <1>2, <1>5, <3>1 DEF Part, Same, Setting
  <2>2. CASE w = t /\ Setting(t) /\ call'[t].limit = call[t].limit
    BY <1>1, <1>2, <1>5, <2>2 DEF Part, Same
  <2>3. CASE w = t /\ call'[t].limit = l
    BY <1>1, <1>2, <1>5, <2>3 DEF Apart, Same
  <2> QED
    BY <1>5, <2>1, <2>2, <2>3 DEF Apart, Setting
<1>6. ASSUME call'[u].alone, Setting(u)
      PROVE  /\ call[u].alone /\ call[u].limit # l
             /\ cache'[call[u].limit] = cache[call[u].limit]
             /\ expected'[call[u].limit] = expected[call[u].limit]
             /\ reg'[call[u].limit] = reg[call[u].limit]
  BY <1>1, <1>3, <1>6 DEF Same, Apart
<1>7. call[u].pc \in {"load", "max", "hyst_load", "hyst"} => call[u].limit = High
  BY DEF Control, ControlOf, SetPcs
<1>8. ASSUME call'[u].alone
      PROVE  /\ call'[u].pc \in {"store", "store_default"} =>
                  /\ expected'[call'[u].limit] = call'[u].val
                  /\ reg'[call'[u].limit] = call'[u].val
             /\ call'[u].pc = "write" /\ call'[u].was /\ ~CacheFirst' =>
                  cache'[call'[u].limit] = expected'[call'[u].limit]
             /\ call'[u].pc = "write" /\ CacheFirst' =>
                  cache'[call'[u].limit] = call'[u].val
             /\ call'[u].pc = "max" => call'[u].val = cache'[High]
             /\ call'[u].pc \in {"hyst_load", "hyst"} /\ call'[u].ok =>
                  reg'[High] = cache'[High]
             /\ call'[u].pc = "hyst" => call'[u].val = cache'[High] - 5
  <2>1. CASE ~Setting(u)
    BY <1>1, <2>1 DEF Same, Setting, SetPcs
  <2>2. CASE Setting(u) /\ call[u].pc \in {"write", "store", "store_default"}
    BY <1>1, <1>2, <1>6, <1>8, <2>2 DEF Same, Part
  <2>3. CASE Setting(u) /\ call[u].pc \in {"load", "max", "hyst_load", "hyst"}
    BY <1>1, <1>2, <1>6, <1>7, <1>8, <2>3 DEF Same, Part
  <2> QED
    BY <2>1, <2>2, <2>3 DEF Setting, SetPcs
<1> QED
  BY <1>4, <1>5, <1>8 DEF Part

\* threshold_set begins.
LEMMA PartsBegun ==
  ASSUME TypeOK, Control, Parts, Rest, NEW t \in Threads, StepOf(t),
         NEW op \in SetOps, NEW l \in Limits, NEW v \in Int, BeginSet(t, op, l, v),
         call[t].pc \notin SetPcs, driver = "linux_lm75" => l = High
  PROVE  Parts' /\ Rest'
<1>0. /\ UNCHANGED <<reg, driver>>
      /\ settled' = settled \ {l} /\ synced' = synced \ {l}
      /\ cache' = IF CacheFirst THEN [cache EXCEPT ![l] = v] ELSE cache
      /\ expected' = IF CacheFirst THEN [expected EXCEPT ![l] = v] ELSE expected
      /\ (CacheFirst <=> CacheFirst')
  BY DEF BeginSet, StepOf, CacheFirst
<1>1. \A k \in Limits : k # l => cache'[k] = cache[k] /\ expected'[k] = expected[k]
  BY <1>0 DEF TypeOK
<1>2. CacheFirst => cache'[l] = v /\ expected'[l] = v
  BY <1>0 DEF TypeOK
<1>3. Apart(t, l)
  <2>1. ASSUME NEW u \in Threads, u # t, Setting(u), call[u].limit = l
        PROVE  ~call'[u].alone
    BY <2>1, SettersAre, BeginCall
  <2> QED
    BY <1>0, <1>1, <2>1, BeginCall DEF Apart
<1>4. Part(t)'
  <2>1. ASSUME NEW u \in Threads, u # t, Setting(u)', call'[u].limit = l
        PROVE  ~call'[t].alone
    <3>1. Setting(u) /\ call[u].limit = l
      BY <2>1, BeginCall DEF Same, Setting
    <3>2. u \in Setters(l)
      BY <3>1, SettersAre
    <3>3. call'[t].alone = (Setters(l) = {})
      BY BeginCall
    <3> QED
      BY <3>2, <3>3
  <2>2. call'[t].pc = "write" /\ call'[t].was /\ ~CacheFirst' => cache'[l] = expected'[l]
    BY <1>0, BeginCall DEF Rest, ThresholdAnswered
  <2> QED
    BY <1>0, <1>2, <2>1, <2>2, BeginCall DEF Part, Setting
<1>5. Parts'
  BY <1>3, <1>4, OthersKept DEF Parts
<1>6. Rest'
  <2>1. \A k \in settled' : cache'[k] = expected'[k]
    BY <1>0, <1>1 DEF Rest, ThresholdAnswered, TypeOK
  <2>2. \A k \in synced' : /\ reg'[k] = cache'[k]
                           /\ driver' = "linux_lm75" => reg'[Hyst] = cache'[k] - 5
    BY <1>0, <1>1 DEF Rest, CacheAgrees, TypeOK
  <2>3. CacheFirst' => \A k \in Limits : cache'[k] = expected'[k]
    BY <1>0, <1>1, <1>2 DEF Rest
  <2> QED
    BY <1>0, <2>1, <2>2, <2>3 DEF Rest, ThresholdAnswered, CacheAgrees
<1> QED
  BY <1>5, <1>6

\* threshold_set fails: at the beginning, or at the write that it is in.
LEMMA PartsGivenUp ==
  ASSUME TypeOK, Control, Parts, Rest, NEW t \in Threads, StepOf(t),
         NEW op, NEW l \in Limits, NEW s \in SUBSET Limits, GiveUp(t, op, l, s),
         Supported(l),
         \/ s = settled /\ UNCHANGED reg
         \/ /\ Setting(t) /\ call[t].limit = l
            /\ \A k \in Limits : k # l => reg'[k] = reg[k]
            /\ driver = "linux_lm75" => UNCHANGED reg
            /\ \/ s = settled
               \/ /\ s = settled \cup {l} /\ call[t].alone
                  /\ CacheFirst \/ cache[l] = expected[l]
  PROVE  Parts' /\ Rest'
<1> DEFINE kept == KeepsDefault(op, l)
           L == IF kept \/ (Setting(t) /\ call[t].limit = l) THEN l ELSE NoLimit
<1>0. /\ UNCHANGED <<expected, driver>>
      /\ settled' = IF kept THEN settled \ {l} ELSE s
      /\ synced' = IF kept THEN synced \ {l} ELSE synced
      /\ cache' = IF kept THEN [cache EXCEPT ![l] = default[l]] ELSE cache
      /\ (CacheFirst <=> CacheFirst')
  BY DEF GiveUp, StepOf, CacheFirst
<1>1. /\ \A k \in Limits : k # l => cache'[k] = cache[k]
      /\ ~kept => cache' = cache
  BY <1>0 DEF TypeOK
<1>2. /\ call'[t] = Idle
      /\ \A u \in Threads : u # t => Same(u)
      /\ kept => \A u \in Setters(l) : u # t => ~call'[u].alone
  BY GiveUpCall
<1>3. call'[t].pc \notin SetPcs
  BY <1>2 DEF Idle, SetPcs
<1>4. ASSUME NEW u \in Threads, u # t, Setting(u), call[u].limit = L
      PROVE  ~call'[u].alone /\ L \notin settled'
  <2>1. call[u].limit \in Limits
    BY CallFacts
  <2>2. L = l
    BY <1>4, <2>1, LimitFacts
  <2>3. Part(u) /\ Part(t)
    BY DEF Parts
  <2>4. CASE kept
    BY <1>0, <1>2, <1>4, <2>2, <2>4, SettersAre
  <2>5. CASE ~kept
    <3>1. Setting(t) /\ call[t].limit = l
      BY <2>1, <2>2, <2>5, <1>4, LimitFacts
    <3>2. ~call[u].alone /\ ~call[t].alone
      BY <1>4, <2>2, <2>3, <3>1 DEF Part
    <3>3. ~call'[u].alone
      BY <1>2, <1>4, <3>2 DEF Same
    <3>4. l \notin settled
      BY <2>3, <3>1 DEF Part
    <3> QED
      BY <1>0, <2>2, <2>5, <3>2, <3>3, <3>4
  <2> QED
    BY <2>4, <2>5
<1>5. \A k \in Limits : k # L =>
        /\ cache'[k] = cache[k] /\ reg'[k] = reg[k]
        /\ k \in settled' => k \in settled
  <2> SUFFICES ASSUME NEW k \in Limits, k # L
               PROVE  /\ cache'[k] = cache[k] /\ reg'[k] = reg[k]
                      /\ k \in settled' => k \in settled
    OBVIOUS
  <2>1. CASE L = l
    BY <1>0, <1>1, <2>1
  <2>2. CASE L # l
    BY <1>0, <1>1, <2>2
  <2> QED
    BY <2>1, <2>2
<1>6. Apart(t, L)
  BY <1>0, <1>2, <1>3, <1>4, <1>5 DEF Apart
<1>7. Part(t)'
  <2>1. call'[t].pc = "idle" /\ call'[t].alone = FALSE
    BY <1>2 DEF Idle
  <2> QED
    BY <2>1 DEF Part, Setting, SetPcs
<1>8. Parts'
  BY <1>6, <1>7, OthersKept DEF Parts
<1>9. kept => ~CacheFirst
  <2>1. kept => driver = "emc142x"
    BY DEF KeepsDefault, Supported
  <2> QED
    BY <2>1 DEF CacheFirst
<1>10. CacheFirst' => \A k \in Limits : cache'[k] = expected'[k]
  BY <1>0, <1>9 DEF Rest
<1>11. ASSUME NEW k \in settled' PROVE cache'[k] = expected'[k]
  <2>1. CASE kept
    BY <1>0, <1>1, <1>11, <2>1 DEF Rest, ThresholdAnswered, TypeOK
  <2>2. CASE ~kept
    BY <1>0, <1>11, <2>2 DEF Rest, ThresholdAnswered
  <2> QED
    BY <2>1, <2>2
<1>12. synced' \subseteq settled'
  BY <1>0 DEF Rest
<1>13. ASSUME NEW k \in synced'
       PROVE  /\ reg'[k] = cache'[k]
              /\ driver' = "linux_lm75" => reg'[Hyst] = cache'[k] - 5
  <2>1. k \in synced /\ k \in settled /\ k \in Limits
    BY <1>0, <1>13 DEF Rest, TypeOK
  <2>2. k # L
    <3>1. CASE kept
      BY <1>0, <1>13, <3>1, <2>1, LimitFacts
    <3>2. CASE ~kept /\ Setting(t) /\ call[t].limit = l
      BY <2>1, <3>2 DEF Parts, Part
    <3>3. CASE ~kept /\ ~(Setting(t) /\ call[t].limit = l)
      BY <2>1, <3>3, LimitFacts
    <3> QED
      BY <3>1, <3>2, <3>3
  <2>3. reg'[k] = reg[k] /\ cache'[k] = cache[k]
    BY <1>5, <2>1, <2>2
  <2>4. driver = "linux_lm75" => reg'[Hyst] = reg[Hyst]
    OBVIOUS
  <2> QED
    BY <1>0, <2>1, <2>3, <2>4 DEF Rest, CacheAgrees
<1> QED
  BY <1>0, <1>8, <1>10, <1>11, <1>12, <1>13 DEF Rest, ThresholdAnswered, CacheAgrees

\* An initialisation comes to limit l.
LEMMA PartsDefault ==
  ASSUME TypeOK, Control, Parts, Rest, NEW t \in Threads, StepOf(t),
         NEW op \in {"resource_init", "chip_init"}, NEW l \in Limits, Supported(l),
         BeginDefault(t, op, l), call[t].pc \notin SetPcs,
         driver = "linux_lm75" => l = High
  PROVE  Parts' /\ Rest'
<1>1. CASE Accepted(default[l]) \/ driver = "linux_lm75"
  <2>1. BeginSet(t, op, l, default[l])
    BY <1>1 DEF BeginDefault
  <2>2. op \in SetOps
    BY DEF SetOps
  <2> QED
    BY <2>1, <2>2, DefaultType, PartsBegun
<1>2. CASE ~(Accepted(default[l]) \/ driver = "linux_lm75")
  <2>1. GiveUp(t, op, l, settled) /\ UNCHANGED reg
    BY <1>2 DEF BeginDefault
  <2>2. settled \in SUBSET Limits
    BY DEF TypeOK
  <2> QED
    BY <2>1, <2>2, PartsGivenUp
<1> QED
  BY <1>1, <1>2

\* A step of a call on its limit, where no other one is alone.
LEMMA ApartGone ==
  ASSUME TypeOK, Control, Parts, NEW t \in Threads, StepOf(t), Setting(t),
         \A u \in Threads : u # t => call'[u] = call[u],
         call'[t].limit = call[t].limit,
         \A k \in Limits : k # call[t].limit =>
           cache'[k] = cache[k] /\ expected'[k] = expected[k] /\ reg'[k] = reg[k],
         settled' = settled \/ (settled' = settled \cup {call[t].limit} /\ call[t].alone)
  PROVE  /\ Apart(t, call[t].limit)
         /\ \A u \in Threads : u # t => Part(u)'
         /\ call'[t].alone /\ call'[t].alone = call[t].alone =>
              \A u \in Threads :
                u # t /\ Setting(u)' => call'[u].limit # call'[t].limit
<1>1. Part(t) /\ \A u \in Threads : Part(u)
  BY DEF Parts
<1>2. ASSUME NEW u \in Threads, u # t
      PROVE  /\ Same(u) /\ (Setting(u)' <=> Setting(u))
             /\ Setting(u) /\ call[u].limit = call[t].limit =>
                  ~call'[u].alone /\ call[t].limit \notin settled'
             /\ Setting(u)' /\ call'[u].limit = call'[t].limit => ~call[t].alone
  BY <1>1, <1>2 DEF Part, Same, Setting
<1>3. Apart(t, call[t].limit)
  BY <1>2 DEF Apart
<1> QED
  BY <1>2, <1>3, OthersKept

LEMMA PartsWrite ==
  ASSUME TypeOK, Control, Parts, Rest, NEW t \in Threads, StepOf(t), Write(t)
  PROVE  Parts' /\ Rest'
<1> DEFINE l == call[t].limit
<1>0. /\ call[t].pc = "write" /\ driver # "linux_lm75" /\ Setting(t)
      /\ reg' = [reg EXCEPT ![l] = call[t].val]
      /\ UNCHANGED <<cache, driver>> /\ (CacheFirst <=> CacheFirst')
  BY DEF Write, LimitReg, Setting, SetPcs, StepOf, CacheFirst
<1>1. l \in Limits /\ l \in Registers
  BY CallFacts, LimitFacts
<1>2. reg'[l] = call[t].val /\ \A k \in Limits : k # l => reg'[k] = reg[k]
  BY <1>0, <1>1, LimitFacts DEF TypeOK
<1>3. Part(t)
  BY DEF Parts
<1>4. CASE CacheFirst
  <2>1. /\ GoTo(t, "next") /\ UNCHANGED expected
        /\ settled' = IF call[t].alone THEN settled \cup {l} ELSE settled
        /\ synced' = IF call[t].alone THEN synced \cup {l} ELSE synced
    BY <1>4 DEF Write, Finish
  <2>2. "next" \in Pcs
    BY DEF Pcs
  <2>3. /\ call'[t].pc = "next" /\ call'[t].limit = l /\ call'[t].alone = call[t].alone
        /\ \A u \in Threads : u # t => call'[u] = call[u]
    BY <2>1, <2>2, GoToCall
  <2>4. \A u \in Threads : u # t => Part(u)'
    BY <1>0, <1>1, <1>2, <2>1, <2>3, ApartGone
  <2>5. Part(t)'
    BY <2>3 DEF Part, Setting, SetPcs
  <2>6. call[t].alone => cache[l] = call[t].val
    BY <1>0, <1>3, <1>4 DEF Part
  <2>7. l \notin settled /\ l \notin synced
    BY <1>0, <1>3 DEF Part, Rest
  <2>8. \A k \in settled' : cache'[k] = expected'[k]
    BY <1>0, <1>1, <1>4, <2>1 DEF Rest, ThresholdAnswered
  <2>9. \A k \in synced' : reg'[k] = cache'[k]
    <3> SUFFICES ASSUME NEW k \in synced' PROVE reg'[k] = cache'[k]
      OBVIOUS
    <3>1. CASE k = l
      BY <1>0, <1>2, <2>1, <2>6, <2>7, <3>1
    <3>2. CASE k # l
      BY <1>0, <1>2, <2>1, <3>2 DEF Rest, CacheAgrees, TypeOK
    <3> QED
      BY <3>1, <3>2
  <2> QED
    BY <1>0, <1>4, <2>1, <2>4, <2>5, <2>8, <2>9
    DEF Parts, Rest, ThresholdAnswered, CacheAgrees
<1>5. CASE ~CacheFirst
  <2>1. /\ expected' = [expected EXCEPT ![l] = call[t].val]
        /\ GoTo(t, "store") /\ UNCHANGED <<settled, synced>>
    BY <1>5 DEF Write
  <2>2. "store" \in Pcs
    BY DEF Pcs, SetPcs
  <2>3. /\ call'[t].pc = "store" /\ call'[t].limit = l /\ call'[t].val = call[t].val
        /\ call'[t].alone = call[t].alone
        /\ \A u \in Threads : u # t => call'[u] = call[u]
    BY <2>1, <2>2, GoToCall
  <2>4. expected'[l] = call[t].val /\ \A k \in Limits : k # l => expected'[k] = expected[k]
    BY <1>1, <2>1 DEF TypeOK
  <2>5. /\ \A u \in Threads : u # t => Part(u)'
        /\ call'[t].alone => \A u \in Threads :
             u # t /\ Setting(u)' => call'[u].limit # call'[t].limit
    BY <1>0, <1>1, <1>2, <2>1, <2>3, <2>4, ApartGone
  <2>6. l \notin settled /\ l \notin synced
    BY <1>0, <1>3 DEF Part, Rest
  <2>7. Part(t)'
    BY <1>2, <2>1, <2>3, <2>4, <2>5, <2>6 DEF Part
  <2>8. \A k \in settled' : cache'[k] = expected'[k]
    BY <1>0, <2>1, <2>4, <2>6 DEF Rest, ThresholdAnswered, TypeOK
  <2>9. \A k \in synced' : reg'[k] = cache'[k]
    BY <1>0, <1>2, <2>1, <2>6 DEF Rest, CacheAgrees, TypeOK
  <2> QED
    BY <1>0, <1>5, <2>1, <2>5, <2>7, <2>8, <2>9
    DEF Parts, Rest, ThresholdAnswered, CacheAgrees
<1> QED
  BY <1>4, <1>5

LEMMA PartsStore ==
  ASSUME TypeOK, Control, Parts, Rest, NEW t \in Threads, StepOf(t), Store(t)
  PROVE  Parts' /\ Rest'
<1> DEFINE l == call[t].limit
<1>0. /\ call[t].pc \in {"store", "store_default"} /\ Setting(t)
      /\ cache' = [cache EXCEPT ![l] = call[t].val]
      /\ UNCHANGED <<reg, expected, driver>> /\ (CacheFirst <=> CacheFirst')
  BY DEF Store, Setting, SetPcs, StepOf, CacheFirst
<1>1. l \in Limits
  BY CallFacts
<1>2. ~CacheFirst /\ driver # "linux_lm75"
  BY <1>0 DEF Control, ControlOf
<1>3. cache'[l] = call[t].val /\ \A k \in Limits : k # l => cache'[k] = cache[k]
  BY <1>0, <1>1 DEF TypeOK
<1>4. Part(t)
  BY DEF Parts
<1>5. l \notin settled /\ l \notin synced
  BY <1>0, <1>4 DEF Part, Rest
<1>6. call[t].alone => expected[l] = call[t].val /\ reg[l] = call[t].val
  BY <1>0, <1>4 DEF Part
<1>7. PICK pc \in {"store_default", "next"} :
        /\ GoTo(t, pc)
        /\ \/ settled' = settled /\ synced' = synced
           \/ /\ pc = "next" /\ call[t].alone
              /\ settled' = settled \cup {l} /\ synced' = synced \cup {l}
  BY DEF Store, Finish
<1>8. pc \in Pcs
  BY DEF Pcs, SetPcs
<1>9. /\ call'[t].pc = pc /\ call'[t].limit = l /\ call'[t].val = call[t].val
      /\ call'[t].alone = call[t].alone
      /\ \A u \in Threads : u # t => call'[u] = call[u]
  BY <1>7, <1>8, GoToCall
<1>10. /\ \A u \in Threads : u # t => Part(u)'
       /\ call'[t].alone => \A u \in Threads :
            u # t /\ Setting(u)' => call'[u].limit # call'[t].limit
  BY <1>0, <1>1, <1>3, <1>7, <1>9, ApartGone
<1>11. Part(t)'
  <2>1. CASE pc = "next"
    BY <1>9, <2>1 DEF Part, Setting, SetPcs
  <2>2. CASE pc = "store_default"
    BY <1>0, <1>5, <1>6, <1>7, <1>9, <1>10, <2>2 DEF Part
  <2> QED
    BY <2>1, <2>2
<1>12. ASSUME NEW k \in settled' PROVE cache'[k] = expected'[k]
  <2>1. CASE k = l
    BY <1>0, <1>3, <1>5, <1>6, <1>7, <1>12, <2>1
  <2>2. CASE k # l
    BY <1>0, <1>3, <1>7, <1>12, <2>2 DEF Rest, ThresholdAnswered, TypeOK
  <2> QED
    BY <2>1, <2>2
<1>13. ASSUME NEW k \in synced' PROVE reg'[k] = cache'[k]
  <2>1. CASE k = l
    BY <1>0, <1>3, <1>5, <1>6, <1>7, <1>13, <2>1
  <2>2. CASE k # l
    BY <1>0, <1>3, <1>7, <1>13, <2>2 DEF Rest, CacheAgrees, TypeOK
  <2> QED
    BY <2>1, <2>2
<1>14. synced' \subseteq settled'
  BY <1>7 DEF Rest
<1> QED
  BY <1>0, <1>2, <1>10, <1>11, <1>12, <1>13, <1>14
  DEF Parts, Rest, ThresholdAnswered, CacheAgrees

LEMMA PartsLoad ==
  ASSUME TypeOK, Control, Parts, Rest, NEW t \in Threads, StepOf(t), Load(t)
  PROVE  Parts' /\ Rest'
<1>0. /\ UNCHANGED <<reg, cache, expected, settled, synced, driver>>
      /\ (CacheFirst <=> CacheFirst') /\ Setting(t)
  BY DEF Load, Setting, SetPcs, StepOf, CacheFirst
<1>1. call[t] \in CallType
  BY CallFacts
<1>2. \/ /\ call[t].pc = "load"
         /\ call' = [call EXCEPT ![t].pc = "max", ![t].val = cache[High]]
      \/ /\ call[t].pc = "hyst_load"
         /\ call' = [call EXCEPT ![t].pc = "hyst", ![t].val = cache[High] - 5]
  BY DEF Load, HystOf
<1>3. /\ \/ /\ call[t].pc = "load" /\ call'[t].pc = "max"
            /\ call'[t].val = cache[High]
         \/ /\ call[t].pc = "hyst_load" /\ call'[t].pc = "hyst"
            /\ call'[t].val = cache[High] - 5
      /\ call'[t].limit = call[t].limit /\ call'[t].alone = call[t].alone
      /\ call'[t].ok = call[t].ok
      /\ \A u \in Threads : u # t => call'[u] = call[u]
  BY <1>1, <1>2 DEF TypeOK, CallType
<1>4. /\ \A u \in Threads : u # t => Part(u)'
      /\ call'[t].alone => \A u \in Threads :
           u # t /\ Setting(u)' => call'[u].limit # call'[t].limit
  BY <1>0, <1>3, ApartGone
<1>5. Part(t)
  BY DEF Parts
<1>6. Part(t)'
  BY <1>0, <1>3, <1>4, <1>5 DEF Part
<1>7. Rest'
  BY <1>0 DEF Rest, ThresholdAnswered, CacheAgrees
<1> QED
  BY <1>4, <1>6, <1>7 DEF Parts

LEMMA PartsWriteAttribute ==
  ASSUME TypeOK, Control, Parts, Rest, NEW t \in Threads, StepOf(t), WriteAttribute(t)
  PROVE  Parts' /\ Rest'
<1>0. /\ call[t].pc \in {"max", "hyst"}
      /\ UNCHANGED <<cache, expected, driver>>
      /\ (CacheFirst <=> CacheFirst') /\ Setting(t)
  BY DEF WriteAttribute, Setting, SetPcs, StepOf, CacheFirst
<1>1. PICK done \in BOOLEAN :
        /\ reg' = IF done THEN [reg EXCEPT ![Attribute(t)] = call[t].val] ELSE reg
        /\ IF call[t].pc = "max"
           THEN /\ call' = [call EXCEPT ![t].pc = "hyst_load", ![t].ok = done]
                /\ UNCHANGED <<settled, synced>>
           ELSE Finish(t, call[t].ok /\ done)
  BY DEF WriteAttribute
<1>2. driver = "linux_lm75" /\ call[t].limit = High
  BY <1>0 DEF Control, ControlOf, SetPcs, SetOps
<1>3. CacheFirst
  BY <1>2 DEF CacheFirst
<1>4. Part(t)
  BY DEF Parts
<1>5. High \notin settled /\ High \notin synced
  BY <1>0, <1>2, <1>4 DEF Part, Rest
<1>6. call[t].alone =>
        /\ call[t].pc = "max" => call[t].val = cache[High]
        /\ call[t].pc = "hyst" => call[t].val = cache[High] - 5
        /\ call[t].pc = "hyst" /\ call[t].ok => reg[High] = cache[High]
  BY <1>4 DEF Part
<1>7. CASE call[t].pc = "max"
  <2>1. /\ call' = [call EXCEPT ![t].pc = "hyst_load", ![t].ok = done]
        /\ reg' = IF done THEN [reg EXCEPT ![High] = call[t].val] ELSE reg
        /\ UNCHANGED <<settled, synced>>
    BY <1>1, <1>7 DEF Attribute
  <2>2. call[t] \in CallType
    BY CallFacts
  <2>3. /\ call'[t].pc = "hyst_load" /\ call'[t].ok = done
        /\ call'[t].limit = call[t].limit /\ call'[t].alone = call[t].alone
        /\ \A u \in Threads : u # t => call'[u] = call[u]
    BY <2>1, <2>2 DEF TypeOK, CallType
  <2>4. \A k \in Limits : k # High => reg'[k] = reg[k]
    BY <2>1, LimitFacts DEF TypeOK
  <2>5. /\ \A u \in Threads : u # t => Part(u)'
        /\ call'[t].alone => \A u \in Threads :
             u # t /\ Setting(u)' => call'[u].limit # call'[t].limit
    BY <1>0, <1>2, <2>1, <2>3, <2>4, ApartGone
  <2>6. call'[t].alone /\ done => reg'[High] = cache'[High]
    BY <1>0, <1>6, <1>7, <2>1, <2>3, LimitFacts DEF TypeOK
  <2>7. Part(t)'
    <3>1. Setting(t)' => call'[t].limit \notin settled'
      BY <1>2, <1>5, <2>1, <2>3
    <3>2. call'[t].alone /\ call'[t].ok => reg'[High] = cache'[High]
      BY <2>3, <2>6
    <3> QED
      BY <2>3, <2>5, <3>1, <3>2 DEF Part
  <2>8. synced' = {}
    BY <1>2, <1>5, <2>1 DEF Rest
  <2> QED
    BY <1>0, <2>1, <2>5, <2>7, <2>8 DEF Parts, Rest, ThresholdAnswered, CacheAgrees
<1>8. CASE call[t].pc = "hyst"
  <2>1. /\ GoTo(t, "next")
        /\ reg' = IF done THEN [reg EXCEPT ![Hyst] = call[t].val] ELSE reg
        /\ settled' = IF call[t].alone THEN settled \cup {High} ELSE settled
        /\ synced' = IF call[t].alone /\ call[t].ok /\ done THEN synced \cup {High}
                     ELSE synced
    BY <1>1, <1>2, <1>8 DEF Attribute, Finish
  <2>2. "next" \in Pcs
    BY DEF Pcs
  <2>3. /\ call'[t].pc = "next" /\ call'[t].limit = call[t].limit
        /\ call'[t].alone = call[t].alone
        /\ \A u \in Threads : u # t => call'[u] = call[u]
    BY <2>1, <2>2, GoToCall
  <2>4. \A k \in Limits : reg'[k] = reg[k]
    BY <2>1, LimitFacts DEF TypeOK
  <2>5. \A u \in Threads : u # t => Part(u)'
    BY <1>0, <1>2, <2>1, <2>3, <2>4, ApartGone
  <2>6. Part(t)'
    BY <2>3 DEF Part, Setting, SetPcs
  <2>7. \A k \in settled' : cache'[k] = expected'[k]
    BY <1>0, <1>3, <2>1, LimitFacts DEF Rest, ThresholdAnswered
  <2>8. /\ synced' \subseteq {High} /\ synced' \subseteq settled'
        /\ synced' # {} => call[t].alone /\ call[t].ok /\ done
    BY <1>2, <1>5, <2>1 DEF Rest
  <2>9. synced' # {} => reg'[High] = cache'[High] /\ reg'[Hyst] = cache'[High] - 5
    BY <1>0, <1>6, <1>8, <2>1, <2>4, <2>8, LimitFacts DEF TypeOK
  <2> QED
    BY <1>0, <1>3, <2>5, <2>6, <2>7, <2>8, <2>9
    DEF Parts, Rest, ThresholdAnswered, CacheAgrees
<1> QED
  BY <1>0, <1>7, <1>8

LEMMA PartsLowSet ==
  ASSUME TypeOK, Control, Parts, Rest, NEW t \in Threads, StepOf(t),
         NEW v \in Values, LowSet(t, v)
  PROVE  Parts' /\ Rest'
<1>0. /\ cache' = [cache EXCEPT ![Low] = v] /\ expected' = [expected EXCEPT ![Low] = v]
      /\ UNCHANGED <<reg, call, settled, synced, driver>>
      /\ driver = "linux_lm75" /\ call[t] = Idle /\ (CacheFirst <=> CacheFirst')
  BY DEF LowSet, StepOf, CacheFirst
<1>1. /\ cache'[Low] = v /\ expected'[Low] = v
      /\ \A k \in Limits : k # Low => cache'[k] = cache[k] /\ expected'[k] = expected[k]
  BY <1>0, LimitFacts DEF TypeOK
<1>2. cache'[High] = cache[High]
  BY <1>1, LimitFacts
<1>3. ASSUME NEW u \in Threads PROVE Part(u)'
  <2>1. Part(u) /\ ControlOf(u)
    BY DEF Parts, Control
  <2>2. call[u].pc \notin {"store", "store_default", "write"}
    BY <1>0, <2>1 DEF ControlOf
  <2> QED
    BY <1>0, <1>2, <2>1, <2>2 DEF Part, Setting
<1>4. \A k \in settled' : cache'[k] = expected'[k]
  BY <1>0, <1>1 DEF Rest, ThresholdAnswered, TypeOK
<1>5. \A k \in Limits : cache'[k] = expected'[k]
  BY <1>0, <1>1 DEF Rest, CacheFirst
<1>6. \A k \in synced' : reg'[k] = cache'[k] /\ reg'[Hyst] = cache'[k] - 5
  BY <1>0, <1>2 DEF Rest, CacheAgrees
<1> QED
  BY <1>0, <1>3, <1>4, <1>5, <1>6 DEF Parts, Rest, ThresholdAnswered, CacheAgrees

LEMMA PartsFail ==
  ASSUME TypeOK, Control, Parts, Rest, NEW t \in Threads, StepOf(t), Fail(t)
  PROVE  Parts' /\ Rest'
<1> DEFINE l == call[t].limit
<1>1. /\ GiveUp(t, call[t].op, l, Settle(t))
      /\ call[t].pc \in {"write", "max", "hyst"}
      /\ \/ call[t].pc = "write" /\ reg' = [reg EXCEPT ![l] = call[t].val]
         \/ UNCHANGED reg
  BY DEF Fail, WriteFails, LimitReg
<1>2. l \in Limits /\ Setting(t)
  BY <1>1, CallFacts DEF Setting, SetPcs
<1>3. ControlOf(t) /\ Part(t)
  BY DEF Control, Parts
<1>4. Supported(l)
  BY <1>1, <1>3 DEF ControlOf, SetPcs
<1>5. /\ \A k \in Limits : k # l => reg'[k] = reg[k]
      /\ driver = "linux_lm75" => UNCHANGED reg
  BY <1>1, <1>3, LimitFacts DEF TypeOK, ControlOf
<1>6. Settle(t) = settled \/
        /\ Settle(t) = settled \cup {l} /\ call[t].alone
        /\ CacheFirst \/ cache[l] = expected[l]
  <2>1. CASE call[t].alone /\ (CacheFirst \/ call[t].was)
    <3>1. ~CacheFirst => call[t].pc = "write"
      BY <1>1, <1>3 DEF ControlOf, CacheFirst
    <3> QED
      BY <1>3, <2>1, <3>1 DEF Settle, Part
  <2>2. CASE ~(call[t].alone /\ (CacheFirst \/ call[t].was))
    BY <2>2 DEF Settle
  <2> QED
    BY <2>1, <2>2
<1>7. Settle(t) \in SUBSET Limits
  BY <1>2 DEF Settle, TypeOK
<1> QED
  BY <1>1, <1>2, <1>4, <1>5, <1>6, <1>7, PartsGivenUp

\* A step of a call that sets no limit.
LEMMA PartsIdle ==
  ASSUME TypeOK, Control, Parts, Rest, NEW t \in Threads, StepOf(t),
         \A u \in Threads : u # t => call'[u] = call[u],
         call'[t].pc \notin SetPcs,
         UNCHANGED <<reg, cache, expected, settled, synced>>
  PROVE  Parts' /\ Rest'
<1>0. UNCHANGED driver /\ (CacheFirst <=> CacheFirst')
  BY DEF StepOf, CacheFirst
<1>1. ASSUME NEW u \in Threads, u # t PROVE Same(u) /\ call[u].limit # NoLimit
  BY <1>1, CallFacts, LimitFacts DEF Same
<1>2. Apart(t, NoLimit)
  BY <1>1 DEF Apart
<1>3. Part(t)'
  BY DEF Part, Setting, SetPcs
<1>4. Rest'
  BY <1>0 DEF Rest, ThresholdAnswered, CacheAgrees
<1> QED
  BY <1>2, <1>3, <1>4, OthersKept DEF Parts

LEMMA PartsProceed ==
  ASSUME TypeOK, Control, Parts, Rest, NEW t \in Threads, StepOf(t), Proceed(t)
  PROVE  Parts' /\ Rest'
<1> DEFINE l == Following(call[t].op, call[t].limit)
<1>0. call[t].pc = "next" /\ call[t].pc \notin SetPcs
  BY ProceedCases DEF SetPcs
<1>1. CASE l = NoLimit
  <2>1. /\ call' = [call EXCEPT ![t] = Idle]
        /\ UNCHANGED <<reg, cache, expected, settled, synced>>
    BY <1>1, LimitFacts, ProceedCases
  <2>2. call'[t].pc \notin SetPcs /\ \A u \in Threads : u # t => call'[u] = call[u]
    BY <2>1, IdleCall DEF Idle, SetPcs
  <2> QED
    BY <2>1, <2>2, PartsIdle
<1>2. CASE l # NoLimit
  <2>1. /\ l \in Limits /\ Supported(l) /\ call[t].op \in {"resource_init", "chip_init"}
        /\ driver # "linux_lm75" /\ BeginDefault(t, call[t].op, l)
    BY <1>2, ProceedCases
  <2> QED
    BY <1>0, <2>1, PartsDefault
<1> QED
  BY <1>1, <1>2

LEMMA PartsStep ==
  ASSUME TypeOK, Control, Parts, Rest, NEW t \in Threads, StepOf(t)
  PROVE  Parts' /\ Rest'
<1>1. CASE Boot(t)
  <2>1. 1 \in 1..Sensors
    BY SensorAssumption
  <2>2. <<FirstKind, 1>> \in Limits /\ Supported(<<FirstKind, 1>>)
    BY <2>1, FirstLimit DEF TypeOK
  <2>3. driver = "linux_lm75" => <<FirstKind, 1>> = High
    BY DEF FirstKind, High
  <2>4. call[t].pc \notin SetPcs
    BY <1>1 DEF Boot, Idle, SetPcs
  <2> QED
    BY <1>1, <2>2, <2>3, <2>4, PartsDefault DEF Boot
<1>2. ASSUME NEW l \in Limits, NEW v \in Values, ThresholdSet(t, l, v) PROVE Parts' /\ Rest'
  <2>1. BeginSet(t, "set", l, v) /\ "set" \in SetOps /\ v \in Int
    BY <1>2 DEF ThresholdSet, SetOps, Accepted
  <2>2. call[t].pc \notin SetPcs
    BY <1>2 DEF ThresholdSet, Idle, SetPcs
  <2>3. driver = "linux_lm75" => l = High
    <3>1. call'[t].op = "set" /\ call'[t].limit = l
      BY <2>1, BeginCall
    <3>2. Control' /\ driver' = driver
      BY <1>2, ThresholdSetKeeps DEF StepOf
    <3> QED
      BY <3>1, <3>2 DEF Control, ControlOf, SetOps
  <2> QED
    BY <2>1, <2>2, <2>3, PartsBegun
<1>3. ASSUME NEW s \in 1..Sensors, ResourceInit(t, s) PROVE Parts' /\ Rest'
  <2>1. ~CacheFirst /\ BeginDefault(t, "resource_init", <<FirstKind, s>>)
    BY <1>3 DEF ResourceInit
  <2>2. <<FirstKind, s>> \in Limits /\ Supported(<<FirstKind, s>>)
    BY <2>1, FirstLimit DEF TypeOK
  <2>3. driver # "linux_lm75"
    BY <2>1 DEF CacheFirst
  <2>4. call[t].pc \notin SetPcs
    BY <1>3 DEF ResourceInit, Idle, SetPcs
  <2> QED
    BY <2>1, <2>2, <2>3, <2>4, PartsDefault
<1>4. CASE Asked(t)
  <2>1. call'[t].pc \notin SetPcs
    BY <1>4 DEF Asked, Idle, SetPcs
  <2> QED
    BY <1>4, <2>1, PartsIdle DEF Asked
<1> QED
  BY <1>1, <1>2, <1>3, <1>4, Shapes, PartsLowSet, PartsWrite, PartsStore, PartsLoad,
     PartsWriteAttribute, PartsFail, PartsProceed

LEMMA PartsInvariant ==
  ASSUME TypeOK, Control, Parts, Rest, [Next]_vars
  PROVE  Parts' /\ Rest'
<1>1. CASE UNCHANGED vars
  BY <1>1 DEF vars, Parts, Part, Setting, CacheFirst, Rest, ThresholdAnswered, CacheAgrees
<1>2. CASE \E t \in Threads : StepOf(t)
  BY <1>2, PartsStep
<1> QED
  BY <1>1, <1>2, NextStep

LEMMA InitParts == Init => Parts /\ Rest
<1> SUFFICES ASSUME Init PROVE Parts /\ Rest
  OBVIOUS
<1>1. \A t \in Threads : call[t].pc = "idle" /\ call[t].alone = FALSE
  BY DEF Init, Idle
<1>2. Parts
  BY <1>1 DEF Parts, Part, Setting, SetPcs
<1>3. Rest
  BY DEF Init, Rest, ThresholdAnswered, CacheAgrees
<1> QED
  BY <1>2, <1>3

\* After a setting of a limit that no other one ran beside, threshold_get
\* answers the last threshold that the chip took or that was asked for, for any
\* threads, sensors and defaults and wherever writes fail (the copies that the
\* four threshold_set functions keep).
THEOREM AnswersCorrect == Spec => []ThresholdAnswered
<1>1. Init => TypeOK /\ Control /\ Parts /\ Rest
  BY InitTypes, InitParts
<1>2. TypeOK /\ Control /\ Parts /\ Rest /\ [Next]_vars
      => TypeOK' /\ Control' /\ Parts' /\ Rest'
  BY TypesInvariant, PartsInvariant
<1>3. Rest => ThresholdAnswered
  BY DEF Rest
<1> QED
  BY <1>1, <1>2, <1>3, PTL DEF Spec

\* The limit that is answered is in the chip when its last setting ran alone
\* and had every write carried out, and the hysteresis of the kernel goes with it.
THEOREM CacheCorrect == Spec => []CacheAgrees
<1>1. Init => TypeOK /\ Control /\ Parts /\ Rest
  BY InitTypes, InitParts
<1>2. TypeOK /\ Control /\ Parts /\ Rest /\ [Next]_vars
      => TypeOK' /\ Control' /\ Parts' /\ Rest'
  BY TypesInvariant, PartsInvariant
<1>3. Rest => CacheAgrees
  BY DEF Rest
<1> QED
  BY <1>1, <1>2, <1>3, PTL DEF Spec

-------------------------------------------------------------------------------
\* The order in which chip_init comes to the limits.
Rank(k) == IF k = "low" THEN 0 ELSE IF k = "high" THEN 1 ELSE 2
Before(k, l) == k[2] < l[2] \/ (k[2] = l[2] /\ Rank(k[1]) < Rank(l[1]))

\* How far a chip_init of an I2C driver has come.
DefOf(t) ==
  call[t].op = "chip_init" /\ driver # "linux_lm75" =>
    /\ \A k \in Limits : Supported(k) /\ Before(k, call[t].limit) =>
         cache[k] = default[k] /\ reg[k] = default[k]
    /\ call[t].pc = "write" /\ CacheFirst =>
         cache[call[t].limit] = default[call[t].limit]
    /\ call[t].pc \in {"store", "store_default", "next"} =>
         reg[call[t].limit] = default[call[t].limit]
    /\ call[t].pc \in {"store_default", "next"} =>
         cache[call[t].limit] = default[call[t].limit]

Booting ==
  /\ \A t \in Threads : DefOf(t)
  /\ phase = "boot" /\ driver = "linux_lm75" =>
       \A k \in Limits : cache[k] = default[k]

LEMMA LimitPair ==
  ASSUME NEW l \in Limits
  PROVE  l = <<l[1], l[2]>> /\ l[1] \in Kinds /\ l[2] \in 1..Sensors /\ l[2] \in Nat
  BY SensorAssumption DEF Limits

LEMMA NothingBeforeFirst ==
  ASSUME driver \in Drivers, driver # "linux_lm75", NEW k \in Limits, Supported(k)
  PROVE  ~Before(k, <<FirstKind, 1>>)
<1>1. k[1] \in Kinds /\ k[2] \in Nat /\ k[2] >= 1
  BY LimitPair, SensorAssumption
<1>2. CASE FirstKind = "low"
  BY <1>1, <1>2 DEF Before, Rank, Kinds
<1>3. CASE FirstKind = "high"
  <2>1. k[1] # "low"
    BY <1>3 DEF FirstKind, Supported, Drivers
  <2> QED
    BY <1>1, <1>3, <2>1 DEF Before, Rank, Kinds
<1> QED
  BY <1>2, <1>3 DEF FirstKind

LEMMA BeforeFollowing ==
  ASSUME driver \in Drivers, driver # "linux_lm75", NEW l \in Limits, Supported(l),
         NEW k \in Limits, Supported(k),
         \/ Following("chip_init", l) = NoLimit
         \/ Before(k, Following("chip_init", l))
  PROVE  Before(k, l) \/ k = l
<1>1. /\ k = <<k[1], k[2]>> /\ k[1] \in Kinds /\ k[2] \in Nat
      /\ l = <<l[1], l[2]>> /\ l[1] \in Kinds /\ l[2] \in Nat
  BY LimitPair
<1>2. NumSensors \in Nat /\ k[2] <= NumSensors
  BY SensorAssumption DEF NumSensors, Supported
<1>3. CASE NextKind(l[1]) # "none"
  <2>1. Following("chip_init", l) = <<NextKind(l[1]), l[2]>>
    BY <1>3 DEF Following
  <2>2. NextKind(l[1]) # "none" /\ NoLimit[1] = "none"
    BY <1>3 DEF NoLimit
  <2>3. Following("chip_init", l) # NoLimit
    BY <2>1, <2>2
  <2>4. k[2] < l[2] \/ (k[2] = l[2] /\ Rank(k[1]) < Rank(NextKind(l[1])))
    BY <2>1, <2>3 DEF Before
  <2>5. CASE k[2] < l[2]
    BY <2>5 DEF Before
  <2>6. CASE k[2] = l[2] /\ Rank(k[1]) < Rank(NextKind(l[1]))
    <3>1. \/ l[1] = "low" /\ NextKind(l[1]) = "high"
          \/ l[1] = "high" /\ NextKind(l[1]) = "critical"
      BY <1>3 DEF NextKind
    <3>2. Rank(k[1]) < Rank(l[1]) \/ k[1] = l[1]
      BY <1>1, <2>6, <3>1 DEF Rank, Kinds
    <3> QED
      BY <1>1, <2>6, <3>2 DEF Before
  <2> QED
    BY <2>4, <2>5, <2>6
<1>4. CASE NextKind(l[1]) = "none"
  <2>1. \/ l[1] = "critical"
        \/ l[1] = "high" /\ driver # "emc142x"
    BY <1>1, <1>4 DEF NextKind, Kinds
  <2>2. k[1] = "critical" => driver = "emc142x"
    BY DEF Supported
  <2>3. Rank(k[1]) < Rank(l[1]) \/ k[1] = l[1]
    BY <1>1, <2>1, <2>2 DEF Rank, Kinds
  <2>4. k[2] <= l[2] => Before(k, l) \/ k = l
    BY <1>1, <2>3 DEF Before
  <2>5. CASE l[2] < NumSensors
    <3>1. Following("chip_init", l) = <<FirstKind, l[2] + 1>>
      BY <1>4, <2>5 DEF Following
    <3>2. FirstKind # "none" /\ NoLimit[1] = "none"
      BY DEF FirstKind, NoLimit
    <3>3. Following("chip_init", l) # NoLimit
      BY <3>1, <3>2
    <3>4. k[2] < l[2] + 1 \/ (k[2] = l[2] + 1 /\ Rank(k[1]) < Rank(FirstKind))
      BY <3>1, <3>3 DEF Before
    <3>5. ~(Rank(k[1]) < Rank(FirstKind))
      <4>1. FirstKind = "high" => k[1] # "low"
        BY DEF FirstKind, Supported, Drivers
      <4> QED
        BY <1>1, <4>1 DEF Rank, FirstKind, Kinds
    <3> QED
      BY <1>1, <2>4, <3>4, <3>5
  <2>6. CASE ~(l[2] < NumSensors)
    BY <1>1, <1>2, <2>4, <2>6
  <2> QED
    BY <2>5, <2>6
<1> QED
  BY <1>3, <1>4

\* The progress of chip_init is that of its own thread.
LEMMA DefOthers ==
  ASSUME TypeOK, Control, NEW t \in Threads, StepOf(t), NEW u \in Threads, u # t,
         Same(u)
  PROVE  DefOf(u)'
<1>1. call[u].op # "chip_init"
  BY BootAlone DEF StepOf
<1> QED
  BY <1>1 DEF DefOf, Same

\* chip_init comes to a limit, after what it has done or at first.
LEMMA BootingBegun ==
  ASSUME TypeOK, Control, Booting, DefaultsInForce, NEW t \in Threads, StepOf(t),
         NEW op \in SetOps, NEW l \in Limits, NEW v \in Int, BeginSet(t, op, l, v),
         op # "set" => v = default[l] /\ touched' = touched,
         op = "set" => l \in touched' /\ phase # "boot" /\ touched \subseteq touched',
         op = "chip_init" => phase = "boot",
         op = "resource_init" => ~CacheFirst,
         op = "chip_init" /\ driver # "linux_lm75" =>
           \A k \in Limits : Supported(k) /\ Before(k, l) =>
             cache[k] = default[k] /\ reg[k] = default[k]
  PROVE  Booting' /\ DefaultsInForce'
<1>0. /\ UNCHANGED <<reg, driver, default, phase>>
      /\ cache' = IF CacheFirst THEN [cache EXCEPT ![l] = v] ELSE cache
      /\ (CacheFirst <=> CacheFirst')
      /\ \A k : Supported(k) <=> Supported(k)'
  BY DEF BeginSet, StepOf, CacheFirst, Supported, NumSensors
<1>1. /\ \A k \in Limits : k # l => cache'[k] = cache[k]
      /\ CacheFirst => cache'[l] = v
      /\ ~CacheFirst => cache' = cache
  BY <1>0 DEF TypeOK
<1>2. ASSUME op # "set", NEW k \in Limits, cache[k] = default[k] PROVE cache'[k] = default[k]
  <2>1. v = default[l]
    BY <1>2
  <2>2. CASE k = l
    BY <1>1, <1>2, <2>1, <2>2
  <2>3. CASE k # l
    BY <1>1, <1>2, <2>3
  <2> QED
    BY <2>2, <2>3
<1>3. DefOf(t)'
  <2> SUFFICES ASSUME call'[t].op = "chip_init", driver' # "linux_lm75" PROVE DefOf(t)'
    BY DEF DefOf
  <2>1. /\ op = "chip_init" /\ call'[t].limit = l /\ call'[t].pc = "write"
    BY <1>0, BeginCall
  <2>2. \A k \in Limits : Supported(k)' /\ Before(k, l) =>
          cache'[k] = default'[k] /\ reg'[k] = default'[k]
    BY <1>0, <1>2, <2>1
  <2>3. CacheFirst' => cache'[l] = default'[l]
    BY <1>0, <1>1, <2>1
  <2> QED
    BY <2>1, <2>2, <2>3 DEF DefOf
<1>4. \A u \in Threads : DefOf(u)'
  BY <1>3, BeginCall, DefOthers
<1>5. phase' = "boot" /\ driver' = "linux_lm75" => \A k \in Limits : cache'[k] = default'[k]
  BY <1>0, <1>2 DEF Booting
<1>6. DefaultsInForce'
  <2> SUFFICES ASSUME phase = "ok", NEW k \in Limits, k \notin touched', Supported(k)
               PROVE  /\ cache'[k] = default[k]
                      /\ driver # "linux_lm75" => reg[k] = default[k]
    BY <1>0 DEF DefaultsInForce
  <2>1. /\ k \notin touched /\ cache[k] = default[k]
        /\ driver # "linux_lm75" => reg[k] = default[k]
    BY DEF DefaultsInForce, SetOps
  <2>2. cache'[k] = default[k]
    BY <1>1, <1>2, <2>1
  <2> QED
    BY <2>1, <2>2
<1> QED
  BY <1>4, <1>5, <1>6 DEF Booting

\* threshold_set fails.
LEMMA BootingGivenUp ==
  ASSUME TypeOK, Control, Booting, DefaultsInForce, NEW t \in Threads, StepOf(t),
         NEW op, NEW l \in Limits, NEW s \in SUBSET Limits, GiveUp(t, op, l, s),
         Supported(l), UNCHANGED touched,
         \A k \in Limits :
           /\ k \notin touched /\ phase' = "ok" /\ driver # "linux_lm75"
           /\ reg[k] = default[k]
           => reg'[k] = default[k]
  PROVE  Booting' /\ DefaultsInForce'
<1>0. /\ UNCHANGED <<driver, default>>
      /\ phase' = phase \/ phase' = "failed"
      /\ cache' = cache \/ cache' = [cache EXCEPT ![l] = default[l]]
      /\ \A k : Supported(k) <=> Supported(k)'
      /\ call'[t] = Idle /\ \A u \in Threads : u # t => Same(u)
  BY GiveUpCall DEF GiveUp, StepOf, CacheFirst, Supported, NumSensors
<1>1. \A k \in Limits : cache[k] = default[k] => cache'[k] = default[k]
  BY <1>0 DEF TypeOK
<1>2. DefOf(t)'
  BY <1>0 DEF DefOf, Idle
<1>3. \A u \in Threads : DefOf(u)'
  BY <1>0, <1>2, DefOthers
<1>4. phase' = "boot" /\ driver' = "linux_lm75" => \A k \in Limits : cache'[k] = default'[k]
  BY <1>0, <1>1 DEF Booting
<1>5. DefaultsInForce'
  <2> SUFFICES ASSUME phase' = "ok", NEW k \in Limits, k \notin touched, Supported(k)
               PROVE  /\ cache'[k] = default[k]
                      /\ driver # "linux_lm75" => reg'[k] = default[k]
    BY <1>0 DEF DefaultsInForce
  <2>1. /\ cache[k] = default[k]
        /\ driver # "linux_lm75" => reg[k] = default[k]
    BY <1>0 DEF DefaultsInForce
  <2> QED
    BY <1>1, <2>1
<1> QED
  BY <1>3, <1>4, <1>5 DEF Booting

LEMMA BootingDefault ==
  ASSUME TypeOK, Control, Booting, DefaultsInForce, NEW t \in Threads, StepOf(t),
         NEW op \in {"resource_init", "chip_init"}, NEW l \in Limits, Supported(l),
         BeginDefault(t, op, l), UNCHANGED touched,
         op = "chip_init" => phase = "boot",
         op = "resource_init" => ~CacheFirst,
         op = "chip_init" /\ driver # "linux_lm75" =>
           \A k \in Limits : Supported(k) /\ Before(k, l) =>
             cache[k] = default[k] /\ reg[k] = default[k]
  PROVE  Booting' /\ DefaultsInForce'
<1>1. CASE Accepted(default[l]) \/ driver = "linux_lm75"
  <2>1. BeginSet(t, op, l, default[l])
    BY <1>1 DEF BeginDefault
  <2>2. op \in SetOps /\ op # "set"
    BY DEF SetOps
  <2> QED
    BY <2>1, <2>2, DefaultType, BootingBegun
<1>2. CASE ~(Accepted(default[l]) \/ driver = "linux_lm75")
  <2>1. GiveUp(t, op, l, settled) /\ UNCHANGED reg
    BY <1>2 DEF BeginDefault
  <2>2. settled \in SUBSET Limits
    BY DEF TypeOK
  <2> QED
    BY <2>1, <2>2, BootingGivenUp
<1> QED
  BY <1>1, <1>2

\* A step that goes on with a limit, or sets none.
LEMMA BootingGone ==
  ASSUME TypeOK, Control, Booting, DefaultsInForce, NEW t \in Threads, StepOf(t),
         UNCHANGED phase, touched \subseteq touched',
         \A u \in Threads : u # t => Same(u), DefOf(t)',
         phase = "boot" /\ driver = "linux_lm75" => cache' = cache,
         \A k \in Limits : k \notin touched' /\ phase = "ok" /\ cache[k] = default[k] =>
           cache'[k] = default[k],
         \A k \in Limits :
           /\ k \notin touched' /\ phase = "ok" /\ driver # "linux_lm75"
           /\ reg[k] = default[k]
           => reg'[k] = default[k]
  PROVE  Booting' /\ DefaultsInForce'
<1>0. UNCHANGED <<driver, default>> /\ \A k : Supported(k) <=> Supported(k)'
  BY DEF StepOf, CacheFirst, Supported, NumSensors
<1>1. \A u \in Threads : DefOf(u)'
  BY DefOthers
<1>2. phase' = "boot" /\ driver' = "linux_lm75" => \A k \in Limits : cache'[k] = default'[k]
  BY <1>0 DEF Booting
<1>3. DefaultsInForce'
  BY <1>0 DEF DefaultsInForce
<1> QED
  BY <1>1, <1>2, <1>3 DEF Booting

LEMMA BootingWrite ==
  ASSUME TypeOK, Control, Booting, DefaultsInForce, NEW t \in Threads, StepOf(t), Write(t)
  PROVE  Booting' /\ DefaultsInForce'
<1> DEFINE l == call[t].limit
<1>0. /\ call[t].pc = "write" /\ driver # "linux_lm75"
      /\ reg' = [reg EXCEPT ![l] = call[t].val]
      /\ UNCHANGED <<cache, driver, default, phase, touched>>
      /\ (CacheFirst <=> CacheFirst') /\ \A k : Supported(k) <=> Supported(k)'
  BY DEF Write, LimitReg, StepOf, CacheFirst, Supported, NumSensors
<1>1. l \in Limits
  BY CallFacts
<1>2. reg'[l] = call[t].val /\ \A k \in Limits : k # l => reg'[k] = reg[k]
  BY <1>0, <1>1, LimitFacts DEF TypeOK
<1>3. PICK pc \in {"store", "next"} :
        GoTo(t, pc) /\ (CacheFirst <=> pc = "next")
  BY DEF Write, Finish
<1>4. pc \in Pcs
  BY DEF Pcs, SetPcs
<1>5. /\ call'[t].pc = pc /\ call'[t].limit = l /\ call'[t].op = call[t].op
      /\ \A u \in Threads : u # t => call'[u] = call[u]
  BY <1>3, <1>4, GoToCall
<1>6. ControlOf(t) /\ DefOf(t) /\ call[t].op \in SetOps
  BY <1>0 DEF Control, ControlOf, Booting, SetPcs
<1>7. call[t].op # "set" => call[t].val = default[l]
  BY <1>0, <1>6 DEF ControlOf, SetOps
<1>8. l \notin touched => call[t].op # "set"
  BY <1>6 DEF ControlOf
<1>9. \A k \in Limits : k \notin touched /\ reg[k] = default[k] => reg'[k] = default[k]
  BY <1>2, <1>7, <1>8
<1>10. \A k \in Limits : call[t].op = "chip_init" /\ reg[k] = default[k] => reg'[k] = default[k]
  BY <1>2, <1>7
<1>11. call[t].op = "chip_init" => reg'[l] = default[l]
  BY <1>2, <1>7
<1>12. DefOf(t)'
  BY <1>0, <1>3, <1>5, <1>6, <1>10, <1>11 DEF DefOf
<1>13. \A u \in Threads : u # t => Same(u)
  BY <1>5 DEF Same
<1> QED
  BY <1>0, <1>9, <1>12, <1>13, BootingGone

LEMMA BootingStore ==
  ASSUME TypeOK, Control, Booting, DefaultsInForce, NEW t \in Threads, StepOf(t), Store(t)
  PROVE  Booting' /\ DefaultsInForce'
<1> DEFINE l == call[t].limit
<1>0. /\ call[t].pc \in {"store", "store_default"}
      /\ cache' = [cache EXCEPT ![l] = call[t].val]
      /\ UNCHANGED <<reg, driver, default, phase, touched>>
      /\ (CacheFirst <=> CacheFirst') /\ \A k : Supported(k) <=> Supported(k)'
  BY DEF Store, StepOf, CacheFirst, Supported, NumSensors
<1>1. l \in Limits
  BY CallFacts
<1>2. cache'[l] = call[t].val /\ \A k \in Limits : k # l => cache'[k] = cache[k]
  BY <1>0, <1>1 DEF TypeOK
<1>3. PICK pc \in {"store_default", "next"} : GoTo(t, pc)
  BY DEF Store, Finish
<1>4. pc \in Pcs
  BY DEF Pcs, SetPcs
<1>5. /\ call'[t].pc = pc /\ call'[t].limit = l /\ call'[t].op = call[t].op
      /\ \A u \in Threads : u # t => call'[u] = call[u]
  BY <1>3, <1>4, GoToCall
<1>6. ControlOf(t) /\ DefOf(t) /\ call[t].op \in SetOps /\ driver # "linux_lm75"
  BY <1>0 DEF Control, ControlOf, Booting, SetPcs
<1>7. call[t].op # "set" => call[t].val = default[l]
  BY <1>0, <1>6 DEF ControlOf, SetOps
<1>8. l \notin touched => call[t].op # "set"
  BY <1>6 DEF ControlOf
<1>9. \A k \in Limits : k \notin touched /\ cache[k] = default[k] => cache'[k] = default[k]
  BY <1>2, <1>7, <1>8
<1>10. \A k \in Limits : call[t].op = "chip_init" /\ cache[k] = default[k] => cache'[k] = default[k]
  BY <1>2, <1>7
<1>11. call[t].op = "chip_init" => cache'[l] = default[l]
  BY <1>2, <1>7
<1>12. DefOf(t)'
  BY <1>0, <1>3, <1>5, <1>6, <1>10, <1>11 DEF DefOf
<1>13. \A u \in Threads : u # t => Same(u)
  BY <1>5 DEF Same
<1> QED
  BY <1>0, <1>6, <1>9, <1>12, <1>13, BootingGone

LEMMA BootingAttributes ==
  ASSUME TypeOK, Control, Booting, DefaultsInForce, NEW t \in Threads, StepOf(t),
         Load(t) \/ WriteAttribute(t)
  PROVE  Booting' /\ DefaultsInForce'
<1>1. UNCHANGED <<cache, phase, touched, driver>>
  BY DEF Load, WriteAttribute, StepOf
<1>2. driver = "linux_lm75"
  BY DEF Control, ControlOf, Load, WriteAttribute
<1>3. DefOf(t)'
  BY <1>1, <1>2 DEF DefOf
<1>4. \A u \in Threads : u # t => call'[u] = call[u]
  BY DEF Load, WriteAttribute, Finish, GoTo, TypeOK
<1>5. \A u \in Threads : u # t => Same(u)
  BY <1>4 DEF Same
<1> QED
  BY <1>1, <1>2, <1>3, <1>5, BootingGone

LEMMA BootingLowSet ==
  ASSUME TypeOK, Control, Booting, DefaultsInForce, NEW t \in Threads, StepOf(t),
         NEW v \in Values, LowSet(t, v)
  PROVE  Booting' /\ DefaultsInForce'
<1>1. /\ cache' = [cache EXCEPT ![Low] = v] /\ touched' = touched \cup {Low}
      /\ UNCHANGED <<reg, phase, call, driver>> /\ phase # "boot" /\ driver = "linux_lm75"
  BY DEF LowSet, Serving, StepOf
<1>2. \A k \in Limits : k \notin touched' => cache'[k] = cache[k]
  BY <1>1 DEF TypeOK
<1>3. DefOf(t)'
  BY <1>1 DEF DefOf
<1>4. \A u \in Threads : u # t => Same(u)
  BY <1>1 DEF Same
<1> QED
  BY <1>1, <1>2, <1>3, <1>4, BootingGone

LEMMA BootingFail ==
  ASSUME TypeOK, Control, Booting, DefaultsInForce, NEW t \in Threads, StepOf(t), Fail(t)
  PROVE  Booting' /\ DefaultsInForce'
<1> DEFINE l == call[t].limit
<1>1. /\ GiveUp(t, call[t].op, l, Settle(t))
      /\ call[t].pc \in {"write", "max", "hyst"}
      /\ UNCHANGED touched
      /\ \/ call[t].pc = "write" /\ reg' = [reg EXCEPT ![l] = call[t].val]
         \/ UNCHANGED reg
  BY DEF Fail, WriteFails, LimitReg
<1>2. l \in Limits
  BY CallFacts
<1>3. ControlOf(t) /\ call[t].op \in SetOps
  BY <1>1 DEF Control, ControlOf, SetPcs
<1>4. Supported(l)
  BY <1>3 DEF ControlOf
<1>5. Settle(t) \in SUBSET Limits
  BY <1>2 DEF Settle, TypeOK
<1>6. ASSUME NEW k \in Limits, k \notin touched, reg[k] = default[k]
      PROVE  reg'[k] = default[k]
  <2>1. CASE UNCHANGED reg
    BY <1>6, <2>1
  <2>2. CASE call[t].pc = "write" /\ reg' = [reg EXCEPT ![l] = call[t].val]
    <3>1. l \notin touched => call[t].val = default[l]
      BY <1>3, <2>2 DEF ControlOf, SetOps
    <3>2. reg'[l] = call[t].val /\ (k # l => reg'[k] = reg[k])
      BY <1>2, <2>2, LimitFacts DEF TypeOK
    <3> QED
      BY <1>6, <3>1, <3>2
  <2> QED
    BY <1>1, <2>1, <2>2
<1> QED
  BY <1>1, <1>2, <1>4, <1>5, <1>6, BootingGivenUp

LEMMA BootingProceed ==
  ASSUME TypeOK, Control, Booting, DefaultsInForce, NEW t \in Threads, StepOf(t), Proceed(t)
  PROVE  Booting' /\ DefaultsInForce'
<1> DEFINE l == Following(call[t].op, call[t].limit)
<1>0. /\ call[t].pc = "next" /\ call[t].op \in SetOps /\ call[t].limit \in Limits
      /\ Supported(call[t].limit) /\ UNCHANGED touched
  BY ProceedCases
<1>1. UNCHANGED <<driver, default>> /\ \A k : Supported(k) <=> Supported(k)'
  BY DEF StepOf, CacheFirst, Supported, NumSensors
<1>2. DefOf(t) /\ ControlOf(t)
  BY DEF Booting, Control
<1>3. ASSUME call[t].op = "chip_init", driver # "linux_lm75",
             NEW k \in Limits, Supported(k), l = NoLimit \/ Before(k, l)
      PROVE  cache[k] = default[k] /\ reg[k] = default[k]
  <2>1. Before(k, call[t].limit) \/ k = call[t].limit
    BY <1>0, <1>3, BeforeFollowing DEF TypeOK
  <2> QED
    BY <1>0, <1>2, <1>3, <2>1 DEF DefOf
<1>4. CASE l = NoLimit
  <2>1. /\ call' = [call EXCEPT ![t] = Idle]
        /\ phase' = IF call[t].op = "chip_init" THEN "ok" ELSE phase
        /\ UNCHANGED <<reg, cache>>
    BY <1>4, LimitFacts, ProceedCases
  <2>2. call'[t] = Idle /\ \A u \in Threads : u # t => call'[u] = call[u]
    BY <2>1, IdleCall
  <2>3. DefOf(t)'
    BY <2>2 DEF DefOf, Idle
  <2>4. \A u \in Threads : u # t => Same(u)
    BY <2>2 DEF Same
  <2>5. CASE call[t].op # "chip_init"
    BY <1>0, <2>1, <2>3, <2>4, <2>5, BootingGone
  <2>6. CASE call[t].op = "chip_init"
    <3>1. phase = "boot" /\ phase' = "ok"
      BY <1>2, <2>1, <2>6 DEF ControlOf
    <3>2. \A u \in Threads : DefOf(u)'
      BY <2>3, <2>4, DefOthers
    <3>3. DefaultsInForce'
      <4>1. CASE driver = "linux_lm75"
        BY <1>1, <2>1, <3>1, <4>1 DEF Booting, DefaultsInForce
      <4>2. CASE driver # "linux_lm75"
        BY <1>1, <1>3, <1>4, <2>1, <2>6, <4>2 DEF DefaultsInForce
      <4> QED
        BY <4>1, <4>2
    <3> QED
      BY <3>1, <3>2, <3>3 DEF Booting
  <2> QED
    BY <2>5, <2>6
<1>5. CASE l # NoLimit
  <2>1. /\ l \in Limits /\ Supported(l) /\ call[t].op \in {"resource_init", "chip_init"}
        /\ driver # "linux_lm75" /\ BeginDefault(t, call[t].op, l)
    BY <1>5, ProceedCases
  <2>2. /\ call[t].op = "resource_init" => ~CacheFirst
        /\ call[t].op = "chip_init" => phase = "boot"
    BY <1>2 DEF ControlOf
  <2>3. call[t].op = "chip_init" => \A k \in Limits :
          Supported(k) /\ Before(k, l) => cache[k] = default[k] /\ reg[k] = default[k]
    BY <1>3, <2>1
  <2> QED
    BY <1>0, <2>1, <2>2, <2>3, BootingDefault
<1> QED
  BY <1>4, <1>5

LEMMA BootingStep ==
  ASSUME TypeOK, Control, Booting, DefaultsInForce, NEW t \in Threads, StepOf(t)
  PROVE  Booting' /\ DefaultsInForce'
<1>1. CASE Boot(t)
  <2>1. 1 \in 1..Sensors
    BY SensorAssumption
  <2>2. <<FirstKind, 1>> \in Limits /\ Supported(<<FirstKind, 1>>)
    BY <2>1, FirstLimit DEF TypeOK
  <2>3. driver # "linux_lm75" => \A k \in Limits :
          Supported(k) => ~Before(k, <<FirstKind, 1>>)
    BY NothingBeforeFirst DEF TypeOK
  <2> QED
    BY <1>1, <2>2, <2>3, BootingDefault DEF Boot
<1>2. ASSUME NEW l \in Limits, NEW v \in Values, ThresholdSet(t, l, v)
      PROVE  Booting' /\ DefaultsInForce'
  <2>1. /\ BeginSet(t, "set", l, v) /\ "set" \in SetOps /\ v \in Int
        /\ touched' = touched \cup {l} /\ phase # "boot"
    BY <1>2 DEF ThresholdSet, SetOps, Accepted, Serving
  <2> QED
    BY <2>1, BootingBegun
<1>3. ASSUME NEW s \in 1..Sensors, ResourceInit(t, s) PROVE Booting' /\ DefaultsInForce'
  <2>1. ~CacheFirst /\ BeginDefault(t, "resource_init", <<FirstKind, s>>) /\ UNCHANGED touched
    BY <1>3 DEF ResourceInit
  <2>2. <<FirstKind, s>> \in Limits /\ Supported(<<FirstKind, s>>)
    BY <2>1, FirstLimit DEF TypeOK
  <2> QED
    BY <2>1, <2>2, BootingDefault
<1>4. CASE Asked(t)
  <2>1. /\ UNCHANGED <<cache, reg, phase, touched>> /\ call'[t].op # "chip_init"
        /\ \A u \in Threads : u # t => Same(u)
    BY <1>4 DEF Asked, Idle, Same
  <2>2. DefOf(t)'
    BY <2>1 DEF DefOf
  <2> QED
    BY <2>1, <2>2, BootingGone
<1> QED
  BY <1>1, <1>2, <1>3, <1>4, Shapes, BootingLowSet, BootingWrite, BootingStore,
     BootingAttributes, BootingFail, BootingProceed

LEMMA InitBooting == Init => Booting /\ DefaultsInForce
  BY DEF Init, Idle, Booting, DefOf, DefaultsInForce

LEMMA BootingInvariant ==
  ASSUME TypeOK, Control, Booting, DefaultsInForce, [Next]_vars
  PROVE  Booting' /\ DefaultsInForce'
<1>1. CASE UNCHANGED vars
  BY <1>1 DEF vars, Booting, DefOf, DefaultsInForce, CacheFirst, Supported, NumSensors
<1>2. CASE \E t \in Threads : StepOf(t)
  BY <1>2, BootingStep
<1> QED
  BY <1>1, <1>2, NextStep

\* A chip_init that returned without an error has left the default of every
\* limit of every sensor in the copies and, but for linux_lm75, in the chip:
\* resource_init and threshold_set stop at the first write that fails.
THEOREM DefaultsCorrect == Spec => []DefaultsInForce
<1>1. Init => TypeOK /\ Control /\ Booting /\ DefaultsInForce
  BY InitTypes, InitBooting
<1>2. TypeOK /\ Control /\ Booting /\ DefaultsInForce /\ [Next]_vars
      => TypeOK' /\ Control' /\ Booting' /\ DefaultsInForce'
  BY TypesInvariant, BootingInvariant
<1> QED
  BY <1>1, <1>2, PTL DEF Spec

-------------------------------------------------------------------------------
\* What a status call has seen of the limits.
AlarmOf(t) ==
  call[t].op = "status" =>
    /\ CacheFirst
    /\ call[t].val \in Temperatures
    /\ cache[High] \in highs[t] /\ cache[Low] \in lows[t]
    /\ call[t].pc = "low" => \E h \in highs[t] : ~(Reading(call[t].val) >= h)
    /\ call[t].pc = "answered" /\ ~call[t].alarm =>
         /\ \E h \in highs[t] : ~(Reading(call[t].val) >= h)
         /\ \E w \in lows[t] : ~(Reading(call[t].val) <= w)

Alarms == \A t \in Threads : AlarmOf(t)

\* A status call keeps what it has seen and sees the copies after every step.
LEMMA Watched ==
  ASSUME TypeOK, NEW t \in Threads, StepOf(t), NEW u \in Threads,
         call'[u].op = "status"
  PROVE  /\ cache'[High] \in highs'[u] /\ cache'[Low] \in lows'[u]
         /\ highs[u] \subseteq highs'[u] /\ lows[u] \subseteq lows'[u]
  BY DEF StepOf, Watch

LEMMA ReadingKept ==
  ASSUME NEW t \in Threads, StepOf(t), NEW m \in Int
  PROVE  (Reading(m))' = Reading(m) /\ (CacheFirst' <=> CacheFirst)
  BY DEF StepOf, Reading, CacheFirst

\* Readings reach the high limits that the temperature reaches, and stay below
\* the low ones that it does.
LEMMA ReadingReaches ==
  ASSUME NEW m \in Temperatures, CacheFirst, NEW h \in Int, m >= 1000 * h,
         driver = "tmp75" => h <= 128
  PROVE  Reading(m) >= h
<1>1. m \in Int /\ -128000 <= m /\ m < 128000
  BY TemperatureAssumption
<1>2. CASE driver = "tmp75"
  <2>1. m \div 1000 \in -128..127 /\ m \div 1000 >= h
    BY <1>1
  <2>2. CASE m \div 1000 >= 0
    <3>1. (m \div 1000) % 256 = m \div 1000
      BY <2>1, <2>2
    <3> QED
      BY <1>2, <2>1, <3>1 DEF Reading
  <2>3. CASE m \div 1000 < 0
    <3>1. (m \div 1000) % 256 = m \div 1000 + 256
      BY <2>1, <2>3
    <3>2. (m \div 1000) % 256 >= 128
      BY <2>1, <3>1
    <3> QED
      BY <1>2, <3>1, <3>2, <2>1 DEF Reading
  <2> QED
    BY <2>1, <2>2, <2>3
<1>3. CASE driver # "tmp75" /\ m >= 0
  <2>1. (m + 500) \div 1000 >= h
    BY <1>1, <1>3
  <2> QED
    BY <1>3, <2>1 DEF Reading
<1>4. CASE driver # "tmp75" /\ m < 0
  <2>1. -((-m) \div 1000) >= h
    BY <1>1, <1>4
  <2> QED
    BY <1>1, <1>4, <2>1 DEF Reading
<1> QED
  BY <1>1, <1>2, <1>3, <1>4

LEMMA ReadingBelow ==
  ASSUME NEW m \in Temperatures, CacheFirst, NEW w \in Int, m <= 1000 * w,
         driver = "tmp75" => m >= 0
  PROVE  Reading(m) <= w
<1>1. m \in Int /\ -128000 <= m /\ m < 128000
  BY TemperatureAssumption
<1>2. CASE driver = "tmp75"
  <2>1. m \div 1000 \in 0..127 /\ m \div 1000 <= w
    BY <1>1, <1>2
  <2>2. (m \div 1000) % 256 = m \div 1000
    BY <2>1
  <2> QED
    BY <1>2, <2>1, <2>2 DEF Reading
<1>3. CASE driver # "tmp75" /\ m >= 0
  <2>1. (m + 500) \div 1000 <= w
    BY <1>1, <1>3
  <2> QED
    BY <1>3, <2>1 DEF Reading
<1>4. CASE driver # "tmp75" /\ m < 0
  <2>1. -((-m) \div 1000) <= w
    BY <1>1, <1>4
  <2> QED
    BY <1>1, <1>4, <2>1 DEF Reading
<1> QED
  BY <1>1, <1>2, <1>3, <1>4

\* A tmp75 below zero reads as at least 128.
LEMMA ReadingNegative ==
  ASSUME NEW m \in Temperatures, driver = "tmp75", m < 0
  PROVE  Reading(m) >= 128
<1>1. m \in Int /\ -128000 <= m /\ m < 128000
  BY TemperatureAssumption
<1>2. m \div 1000 \in -128..-1
  BY <1>1
<1>3. (m \div 1000) % 256 = m \div 1000 + 256
  BY <1>2
<1> QED
  BY <1>2, <1>3 DEF Reading

LEMMA AlarmsImply ==
  ASSUME TypeOK, Control, Alarms
  PROVE  NoMissedAlarm
<1> SUFFICES ASSUME NEW t \in Threads, call[t].pc = "answered",
                    driver = "tmp75" => \A h \in highs[t] : h <= 128,
                    \/ \A h \in highs[t] : call[t].val >= 1000 * h
                    \/ \A w \in lows[t] : call[t].val <= 1000 * w,
                    ~call[t].alarm
             PROVE  FALSE
  BY DEF NoMissedAlarm
<1>1. call[t].op = "status" /\ AlarmOf(t)
  BY DEF Control, ControlOf, Alarms
<1>2. PICK h \in highs[t] : ~(Reading(call[t].val) >= h)
  BY <1>1 DEF AlarmOf
<1>3. PICK w \in lows[t] : ~(Reading(call[t].val) <= w)
  BY <1>1 DEF AlarmOf
<1>4. h \in Int /\ w \in Int /\ call[t].val \in Temperatures /\ CacheFirst
  BY <1>1 DEF AlarmOf, TypeOK
<1>5. call[t].val \in Int
  BY CallFacts
<1>6. CASE call[t].val >= 1000 * h
  BY <1>2, <1>4, <1>6, ReadingReaches
<1>7. CASE call[t].val <= 1000 * w
  <2>1. CASE driver = "tmp75" /\ call[t].val < 0
    <3>1. Reading(call[t].val) >= 128 /\ h <= 128
      BY <1>4, <2>1, ReadingNegative
    <3>2. Reading(call[t].val) \in Int
      BY <1>5 DEF Reading
    <3> QED
      BY <1>2, <1>4, <3>1, <3>2
  <2>2. CASE ~(driver = "tmp75" /\ call[t].val < 0)
    BY <1>3, <1>4, <1>5, <1>7, <2>2, ReadingBelow
  <2> QED
    BY <2>1, <2>2
<1> QED
  BY <1>6, <1>7

\* The status call of another thread goes on.
LEMMA AlarmKept ==
  ASSUME TypeOK, Alarms, NEW t \in Threads, StepOf(t), NEW u \in Threads, Same(u)
  PROVE  AlarmOf(u)'
<1> SUFFICES ASSUME call'[u].op = "status" PROVE AlarmOf(u)'
  BY DEF AlarmOf
<1>1. AlarmOf(u) /\ call[u].op = "status" /\ call'[u].pc = call[u].pc
      /\ call'[u].val = call[u].val /\ call'[u].alarm = call[u].alarm
  BY DEF Alarms, Same
<1>2. call[u].val \in Int
  BY CallFacts
<1> QED
  BY <1>1, <1>2, Watched, ReadingKept DEF AlarmOf

LEMMA OthersSame ==
  ASSUME TypeOK, Control, NEW t \in Threads, StepOf(t)
  PROVE  /\ \A u \in Threads : u # t => Same(u)
         /\ call'[t].op = "status" =>
              \/ \E m \in Temperatures : StatusGet(t, m)
              \/ CompareHigh(t) \/ CompareLow(t) \/ Answer(t)
<1>1. ASSUME NEW op \in {"resource_init", "chip_init"}, NEW l \in Limits, BeginDefault(t, op, l)
      PROVE  /\ \A u \in Threads : u # t => Same(u)
             /\ call'[t].op # "status"
  <2>1. CASE Accepted(default[l]) \/ driver = "linux_lm75"
    <3>1. BeginSet(t, op, l, default[l]) /\ op \in SetOps /\ default[l] \in Int
      BY <1>1, <2>1, DefaultType DEF BeginDefault, SetOps
    <3> QED
      BY <1>1, <3>1, BeginCall DEF SetOps
  <2>2. CASE ~(Accepted(default[l]) \/ driver = "linux_lm75")
    <3>1. GiveUp(t, op, l, settled)
      BY <1>1, <2>2 DEF BeginDefault
    <3>2. call'[t] = Idle /\ \A u \in Threads : u # t => Same(u)
      BY <3>1, GiveUpCall
    <3> QED
      BY <3>2 DEF Idle
  <2> QED
    BY <2>1, <2>2
<1>2. CASE Boot(t)
  <2>1. 1 \in 1..Sensors
    BY SensorAssumption
  <2>2. <<FirstKind, 1>> \in Limits
    BY <2>1, FirstLimit DEF TypeOK
  <2> QED
    BY <1>1, <1>2, <2>2 DEF Boot
<1>3. ASSUME NEW l \in Limits, NEW v \in Values, ThresholdSet(t, l, v)
      PROVE  /\ \A u \in Threads : u # t => Same(u)
             /\ call'[t].op # "status"
  <2>1. BeginSet(t, "set", l, v) /\ "set" \in SetOps /\ v \in Int
    BY <1>3 DEF ThresholdSet, SetOps, Accepted
  <2> QED
    BY <2>1, BeginCall
<1>4. ASSUME NEW s \in 1..Sensors, ResourceInit(t, s)
      PROVE  /\ \A u \in Threads : u # t => Same(u)
             /\ call'[t].op # "status"
  <2>1. ~CacheFirst /\ BeginDefault(t, "resource_init", <<FirstKind, s>>)
    BY <1>4 DEF ResourceInit
  <2>2. <<FirstKind, s>> \in Limits
    BY <2>1, FirstLimit DEF TypeOK
  <2> QED
    BY <1>1, <2>1, <2>2
<1>5. ASSUME NEW v \in Values, LowSet(t, v)
      PROVE  /\ \A u \in Threads : u # t => Same(u)
             /\ call'[t].op # "status"
  BY <1>5 DEF LowSet, Same, Idle
<1>6. CASE Write(t) \/ Store(t) \/ Load(t) \/ WriteAttribute(t)
  <2>1. call[t].op \in SetOps
    BY <1>6 DEF Write, Store, Load, WriteAttribute, Control, ControlOf, SetPcs
  <2>2. call[t] \in CallType
    BY CallFacts
  <2>3. /\ \A u \in Threads : u # t => call'[u] = call[u]
        /\ call'[t].op = call[t].op
    BY <1>6, <2>2 DEF Write, Store, Load, WriteAttribute, Finish, GoTo, TypeOK, CallType
  <2> QED
    BY <2>1, <2>3 DEF Same, SetOps
<1>7. CASE Fail(t)
  <2>1. GiveUp(t, call[t].op, call[t].limit, Settle(t)) /\ call[t].limit \in Limits
    BY <1>7, CallFacts DEF Fail
  <2>2. call'[t] = Idle /\ \A u \in Threads : u # t => Same(u)
    BY <2>1, GiveUpCall
  <2> QED
    BY <2>2 DEF Idle
<1>8. CASE Proceed(t)
  <2>1. CASE call' = [call EXCEPT ![t] = Idle]
    BY <2>1, IdleCall DEF Idle, Same
  <2>2. CASE call' # [call EXCEPT ![t] = Idle]
    BY <1>1, <1>8, <2>2, ProceedCases
  <2> QED
    BY <2>1, <2>2
<1>9. Asked(t) => \A u \in Threads : u # t => Same(u)
  BY DEF Asked, Same
<1>10. \A u \in Threads : u # t => Same(u)
  BY <1>2, <1>3, <1>4, <1>5, <1>6, <1>7, <1>8, <1>9, Shapes
<1> QED
  BY <1>2, <1>3, <1>4, <1>5, <1>6, <1>7, <1>8, <1>10 DEF StepOf, Step

LEMMA AlarmsStep ==
  ASSUME TypeOK, Control, Alarms, NEW t \in Threads, StepOf(t)
  PROVE  Alarms'
<1>1. \A u \in Threads : u # t => AlarmOf(u)'
  BY AlarmKept, OthersSame
<1>2. AlarmOf(t)'
  <2> SUFFICES ASSUME call'[t].op = "status" PROVE AlarmOf(t)'
    BY DEF AlarmOf
  <2>0. /\ cache'[High] \in highs'[t] /\ cache'[Low] \in lows'[t]
        /\ highs[t] \subseteq highs'[t] /\ lows[t] \subseteq lows'[t]
    BY Watched
  <2>1. ASSUME NEW m \in Temperatures, StatusGet(t, m) PROVE AlarmOf(t)'
    BY <2>0, <2>1, StatusGetAsks, ReadingKept, TemperatureAssumption DEF AlarmOf
  <2>2. CASE CompareHigh(t)
    <3>1. /\ call[t].op = "status" /\ call[t].val \in Temperatures /\ call[t].val \in Int
          /\ CacheFirst /\ cache[High] \in highs[t]
      BY <2>2, CompareHighAsks, CallFacts DEF Alarms, AlarmOf
    <3> QED
      BY <2>0, <2>2, <3>1, CompareHighAsks, ReadingKept DEF AlarmOf
  <2>3. CASE CompareLow(t)
    <3>1. /\ call[t].op = "status" /\ call[t].val \in Temperatures /\ call[t].val \in Int
          /\ CacheFirst /\ cache[Low] \in lows[t]
          /\ \E h \in highs[t] : ~(Reading(call[t].val) >= h)
      BY <2>3, CompareLowAsks, CallFacts DEF Alarms, AlarmOf
    <3> QED
      BY <2>0, <2>3, <3>1, CompareLowAsks, ReadingKept DEF AlarmOf
  <2>4. CASE Answer(t)
    BY <2>4, AnswerAsks DEF Idle
  <2> QED
    BY <2>1, <2>2, <2>3, <2>4, OthersSame
<1> QED
  BY <1>1, <1>2 DEF Alarms

LEMMA AlarmsInvariant ==
  ASSUME TypeOK, Control, Alarms, [Next]_vars
  PROVE  Alarms'
<1>1. CASE UNCHANGED vars
  BY <1>1 DEF vars, Alarms, AlarmOf, Reading, CacheFirst
<1>2. CASE \E t \in Threads : StepOf(t)
  BY <1>2, AlarmsStep
<1> QED
  BY <1>1, <1>2, NextStep

LEMMA InitAlarms == Init => Alarms
  BY DEF Init, Alarms, AlarmOf, Idle

\* No alarm of a tmp75 or lm75 is missed: whatever limits are set by others
\* between the reading of the temperature and the two comparisons of
\* status_get, a temperature beyond all the limits that were in force during
\* the call is answered with an alarm.
THEOREM AlarmsCorrect == Spec => []NoMissedAlarm
<1>1. Init => TypeOK /\ Control /\ Alarms
  BY InitTypes, InitAlarms
<1>2. TypeOK /\ Control /\ Alarms /\ [Next]_vars => TypeOK' /\ Control' /\ Alarms'
  BY TypesInvariant, AlarmsInvariant
<1>3. TypeOK /\ Control /\ Alarms => NoMissedAlarm
  BY AlarmsImply
<1> QED
  BY <1>1, <1>2, <1>3, PTL DEF Spec
===============================================================================
