------------------------------ MODULE Thresholds ------------------------------
(***************************************************************************)
(* The limits of a temperature sensor chip, for the four drivers that keep *)
(* a copy of them: emc142x, max6699, tmp75 and linux_lm75.                 *)
(*                                                                         *)
(* threshold_set writes the limit register of the chip and the copy,       *)
(* threshold_get answers from the copy.  emc142x and max6699 write the     *)
(* register first and take the copy when that succeeded; tmp75 and         *)
(* linux_lm75 take the copy first, and compare the temperature with it     *)
(* when they are asked for the status.  linux_lm75 goes through the        *)
(* attributes max and max_hyst of a kernel driver, with a stream that does *)
(* not report a write that was refused.  No driver has a mutex.            *)
(*                                                                         *)
(* Limits are in degrees, temperatures in thousandths of a degree.         *)
(***************************************************************************)
EXTENDS Integers

CONSTANTS
  Threads,       \* threads that call the driver
  Sensors,       \* number of connected sensors of an emc142x or max6699
  Values,        \* thresholds that callers ask for
  Configs,       \* the default limits a configuration may give
  Temperatures,  \* temperatures of a tmp75 or lm75, in thousandths
  PowerOn,       \* what a limit register may hold before the driver starts
  MaxCalls       \* bound: calls that set thresholds

Kinds == {"low", "high", "critical"}
Limits == Kinds \X (1..Sensors)
High == <<"high", 1>>
Low == <<"low", 1>>
Hyst == <<"hyst", 1>>
Registers == Limits \cup {Hyst}
NoLimit == <<"none", 0>>
Drivers == {"emc142x", "max6699", "tmp75", "linux_lm75"}

ASSUME SensorAssumption == Sensors \in Nat \ {0}

ASSUME TemperatureAssumption ==
  \A m \in Temperatures : m \in Int /\ -128000 <= m /\ m < 128000

ASSUME NumberAssumption ==
  /\ Values \subseteq Int
  /\ PowerOn \subseteq 0..255
  /\ Configs \subseteq [Limits -> Int]
  /\ MaxCalls \in Nat

VARIABLES
  driver,    \* the driver of the chip
  default,   \* its default limits, from the configuration
  phase,     \* chip_init is to come ("boot"), returned with success or not
  opened,    \* how many of temp, max and max_hyst the linux_lm75 has opened
  reg,       \* the limit registers of the chip
  cache,     \* the driver's copy of the limits
  call,      \* what each thread is doing
  calls,     \* calls so far that set thresholds
  expected,  \* history: the limit that threshold_get should answer
  settled,   \* history: limits whose last setting had no other one beside it
  synced,    \* history: limits whose last setting had no failed write either
  touched,   \* history: limits set by a caller
  highs,     \* history: the high limits in force during a status call
  lows       \* history: the low limits in force during a status call

vars == <<driver, default, phase, opened, reg, cache, call, calls, expected,
          settled, synced, touched, highs, lows>>

\* Drivers that take the copy before they write the register.
CacheFirst == driver \in {"tmp75", "linux_lm75"}
NumSensors == IF CacheFirst THEN 1 ELSE Sensors

Supported(l) ==
  /\ l[1] = "low" => driver # "max6699"
  /\ l[1] = "critical" => driver = "emc142x"
  /\ l[2] <= NumSensors

\* Mutant of Accepted: one too many.
AcceptedOneMore(v) == v \in 0..256

\* The threshold fits a byte: temperature & ~0xff is 0.
Accepted(v) == v \in 0..255

\* The order in which an initialisation sets the limits.
FirstKind == IF driver \in {"emc142x", "tmp75"} THEN "low" ELSE "high"
NextKind(k) ==
  IF k = "low" THEN "high"
  ELSE IF k = "high" /\ driver = "emc142x" THEN "critical" ELSE "none"

\* The limit that a call sets after l.
Following(op, l) ==
  IF op = "set" THEN NoLimit
  ELSE IF NextKind(l[1]) # "none" THEN <<NextKind(l[1]), l[2]>>
  ELSE IF op = "chip_init" /\ l[2] < NumSensors THEN <<FirstKind, l[2] + 1>>
  ELSE NoLimit

Idle == [op |-> "none", pc |-> "idle", limit |-> High, val |-> 0,
         alone |-> FALSE, was |-> FALSE, ok |-> FALSE, alarm |-> FALSE]

\* The calls that are setting limit l.
Setters(l) ==
  {t \in Threads : /\ call[t].op \in {"set", "resource_init", "chip_init"}
                   /\ call[t].pc # "next"
                   /\ call[t].limit = l}

\* The limits in force while a status call runs.
Watch ==
  /\ highs' = [t \in Threads |-> IF call'[t].op = "status"
                                 THEN highs[t] \cup {cache'[High]} ELSE {}]
  /\ lows' = [t \in Threads |-> IF call'[t].op = "status"
                                THEN lows[t] \cup {cache'[Low]} ELSE {}]

-----------------------------------------------------------------------------

\* The registers outlive the daemon; the copies are new, those of linux_lm75
\* hold the defaults from its registration on.
Init ==
  /\ driver \in Drivers
  /\ default \in Configs
  /\ phase = "boot"
  /\ opened = 0
  /\ reg \in [Registers -> PowerOn]
  /\ cache = [l \in Limits |-> IF driver = "linux_lm75" THEN default[l] ELSE 0]
  /\ call = [t \in Threads |-> Idle]
  /\ calls = 0
  /\ expected = cache
  /\ settled = Limits
  /\ synced = {}
  /\ touched = {}
  /\ highs = [t \in Threads |-> {}]
  /\ lows = [t \in Threads |-> {}]

\* threshold_set is entered with a threshold that fits.
BeginSet(t, op, l, v) ==
  /\ call' = [u \in Threads |->
       IF u = t
       THEN [op |-> op, pc |-> IF driver = "linux_lm75" THEN "load" ELSE "write",
             limit |-> l, val |-> v, alone |-> Setters(l) = {},
             was |-> l \in settled, ok |-> TRUE, alarm |-> FALSE]
       ELSE IF u \in Setters(l) THEN [call[u] EXCEPT !.alone = FALSE]
       ELSE call[u]]
  /\ cache' = IF CacheFirst THEN [cache EXCEPT ![l] = v] ELSE cache
  /\ expected' = IF CacheFirst THEN [expected EXCEPT ![l] = v] ELSE expected
  /\ settled' = settled \ {l}
  /\ synced' = synced \ {l}
  /\ UNCHANGED <<phase, reg>>

\* The copy of the critical limit is set to the default of an initialisation
\* although setting the register has failed.
KeepsDefault(op, l) == op # "set" /\ l[1] = "critical"

\* threshold_set of limit l has failed in a call that had settled s: the error
\* is returned.
GiveUp(t, op, l, s) ==
  /\ call' = [u \in Threads |->
       IF u = t THEN Idle
       ELSE IF KeepsDefault(op, l) /\ u \in Setters(l)
       THEN [call[u] EXCEPT !.alone = FALSE]
       ELSE call[u]]
  /\ phase' = IF op = "chip_init" THEN "failed" ELSE phase
  /\ cache' = IF KeepsDefault(op, l) THEN [cache EXCEPT ![l] = default[l]]
              ELSE cache
  /\ settled' = IF KeepsDefault(op, l) THEN settled \ {l} ELSE s
  /\ synced' = IF KeepsDefault(op, l) THEN synced \ {l} ELSE synced
  /\ UNCHANGED expected

\* An initialisation comes to limit l: a default that does not fit a byte is
\* an error.  The chip_init of linux_lm75 does not look.
BeginDefault(t, op, l) ==
  IF Accepted(default[l]) \/ driver = "linux_lm75"
  THEN BeginSet(t, op, l, default[l])
  ELSE GiveUp(t, op, l, settled) /\ UNCHANGED reg

\* chip_init, before the daemon serves any call.
Boot(t) ==
  /\ phase = "boot" /\ call[t] = Idle
  /\ \A u \in Threads : call[u] = Idle
  /\ BeginDefault(t, "chip_init", <<FirstKind, 1>>)
  /\ UNCHANGED <<calls, touched>>

\* Calls come when chip_init has returned; its error does not take the sensors
\* away.
Serving == phase # "boot"

CallSetter == calls < MaxCalls /\ calls' = calls + 1

\* threshold_set; another threshold or kind is refused at once.
ThresholdSet(t, l, v) ==
  /\ Serving /\ call[t] = Idle /\ CallSetter
  /\ Supported(l) /\ Accepted(v)
  /\ ~(driver = "linux_lm75" /\ l = Low)
  /\ BeginSet(t, "set", l, v)
  /\ touched' = touched \cup {l}

\* linux_lm75 has no register for the low limit.
LowSet(t, v) ==
  /\ Serving /\ call[t] = Idle /\ CallSetter
  /\ driver = "linux_lm75" /\ Accepted(v)
  /\ cache' = [cache EXCEPT ![Low] = v]
  /\ expected' = [expected EXCEPT ![Low] = v]
  /\ touched' = touched \cup {Low}
  /\ UNCHANGED <<phase, reg, call, settled, synced>>

\* resource_init of one sensor.
ResourceInit(t, s) ==
  /\ Serving /\ call[t] = Idle /\ CallSetter
  /\ ~CacheFirst
  /\ BeginDefault(t, "resource_init", <<FirstKind, s>>)
  /\ UNCHANGED touched

\* Mutant of LimitReg: the table of the critical limits is that of the high ones.
LimitRegSwapped(l) == IF l[1] = "critical" THEN <<"high", l[2]>> ELSE l

\* The register of a limit.
LimitReg(l) == l

GoTo(t, pc) == call' = [call EXCEPT ![t].pc = pc]

\* Limit l is set; done if all its writes have been carried out.
Finish(t, done) ==
  /\ GoTo(t, "next")
  /\ settled' = IF call[t].alone THEN settled \cup {call[t].limit} ELSE settled
  /\ synced' = IF call[t].alone /\ done THEN synced \cup {call[t].limit}
               ELSE synced

\* The write of a limit register succeeds.
Write(t) ==
  /\ call[t].pc = "write" /\ driver # "linux_lm75"
  /\ reg' = [reg EXCEPT ![LimitReg(call[t].limit)] = call[t].val]
  /\ IF CacheFirst
     THEN Finish(t, TRUE) /\ UNCHANGED expected
     ELSE /\ expected' = [expected EXCEPT ![call[t].limit] = call[t].val]
          /\ GoTo(t, "store")
          /\ UNCHANGED <<settled, synced>>
  /\ UNCHANGED <<phase, cache, calls, touched>>

\* The copy is taken after the write; an initialisation takes it once more
\* when threshold_set has returned.  (tmp75 does so too, in its chip_init,
\* where nothing comes in between.)
Store(t) ==
  /\ call[t].pc \in {"store", "store_default"}
  /\ cache' = [cache EXCEPT ![call[t].limit] = call[t].val]
  /\ IF call[t].op # "set" /\ call[t].pc = "store"
     THEN GoTo(t, "store_default") /\ UNCHANGED <<settled, synced>>
     ELSE Finish(t, TRUE)
  /\ UNCHANGED <<phase, reg, expected, calls, touched>>

\* max_hyst is kept five degrees below max.
HystOf(v) == v - 5

\* linux_lm75 reads its copy again for each attribute that it writes.  A call
\* for an attribute that a failed chip_init has not opened ends in an assertion.
Load(t) ==
  /\ call[t].op = "chip_init" \/ opened >= IF call[t].pc = "load" THEN 2 ELSE 3
  /\ \/ /\ call[t].pc = "load"
        /\ call' = [call EXCEPT ![t].pc = "max", ![t].val = cache[High]]
     \/ /\ call[t].pc = "hyst_load"
        /\ call' = [call EXCEPT ![t].pc = "hyst", ![t].val = HystOf(cache[High])]
  /\ UNCHANGED <<phase, reg, cache, expected, settled, synced, calls, touched>>

Attribute(t) == IF call[t].pc = "max" THEN High ELSE Hyst

\* A write of linux_lm75 is reported as done, be it refused or carried out.
WriteAttribute(t) ==
  /\ call[t].pc \in {"max", "hyst"}
  /\ \E done \in BOOLEAN :
       /\ reg' = IF done THEN [reg EXCEPT ![Attribute(t)] = call[t].val] ELSE reg
       /\ IF call[t].pc = "max"
          THEN /\ call' = [call EXCEPT ![t].pc = "hyst_load", ![t].ok = done]
               /\ UNCHANGED <<settled, synced>>
          ELSE Finish(t, call[t].ok /\ done)
  /\ UNCHANGED <<phase, cache, expected, calls, touched>>

\* Where a call is when its write of a register fails; it may have been carried
\* out.  The attribute of a linux_lm75 cannot be opened, and keeps its value.
WriteFails(t) ==
  /\ call[t].pc \in {"write", "max", "hyst"}
  /\ IF call[t].pc = "write"
     THEN \/ reg' = [reg EXCEPT ![LimitReg(call[t].limit)] = call[t].val]
          \/ UNCHANGED reg
     ELSE UNCHANGED reg
  /\ UNCHANGED <<calls, touched>>

\* The limits that are settled when the write failed: a copy that was not
\* taken is as good as it was before.
Settle(t) ==
  IF call[t].alone /\ (CacheFirst \/ call[t].was)
  THEN settled \cup {call[t].limit} ELSE settled

\* Mutant of Fail: the result of threshold_set is not looked at.
FailUnnoticed(t) ==
  /\ WriteFails(t)
  /\ GoTo(t, "next")
  /\ settled' = Settle(t)
  /\ UNCHANGED <<phase, cache, expected, synced>>

\* Mutant of Fail: the copy is taken although the write failed.
FailStored(t) ==
  /\ WriteFails(t)
  /\ call' = [call EXCEPT ![t] = Idle]
  /\ phase' = IF call[t].op = "chip_init" THEN "failed" ELSE phase
  /\ cache' = IF call[t].limit \in Limits
              THEN [cache EXCEPT ![call[t].limit] = call[t].val] ELSE cache
  /\ settled' = Settle(t)
  /\ UNCHANGED <<expected, synced>>

Fail(t) ==
  /\ WriteFails(t)
  /\ GiveUp(t, call[t].op, call[t].limit, Settle(t))

\* A limit is set: the call returns, or its initialisation goes on.
Proceed(t) ==
  /\ call[t].pc = "next"
  /\ LET l == Following(call[t].op, call[t].limit)
     IN IF l = NoLimit
        THEN /\ call' = [call EXCEPT ![t] = Idle]
             /\ phase' = IF call[t].op = "chip_init" THEN "ok" ELSE phase
             /\ UNCHANGED <<reg, cache, expected, settled, synced>>
        ELSE BeginDefault(t, call[t].op, l)
  /\ UNCHANGED <<calls, touched>>

\* The temperature in degrees.  tmp75 takes the first byte of the register for
\* a number without sign; linux_lm75 rounds halves up, below zero it cuts.
\* (Its current_temp is shared: of two calls at once m is the later reading.)
Reading(m) ==
  IF driver = "tmp75" THEN (m \div 1000) % 256
  ELSE IF m >= 0 THEN (m + 500) \div 1000 ELSE -((-m) \div 1000)

\* status_get reads the temperature and then compares it with the copies; the
\* fault bit that emc142x and max6699 answer is not kept anywhere.
StatusGet(t, m) ==
  /\ Serving /\ call[t] = Idle /\ CacheFirst
  /\ driver = "linux_lm75" => opened >= 1
  /\ call' = [call EXCEPT ![t].op = "status", ![t].pc = "high", ![t].val = m]
  /\ UNCHANGED <<phase, reg, cache, expected, settled, synced, calls, touched>>

CompareHigh(t) ==
  /\ call[t].pc = "high"
  /\ LET alarm == Reading(call[t].val) >= cache[High]
     IN call' = [call EXCEPT ![t].pc = IF alarm THEN "answered" ELSE "low",
                             ![t].alarm = alarm]
  /\ UNCHANGED <<phase, reg, cache, expected, settled, synced, calls, touched>>

\* Mutant of CompareLow: at the low limit itself there is no alarm.
CompareLowStrict(t) ==
  /\ call[t].pc = "low"
  /\ call' = [call EXCEPT ![t].pc = "answered",
                          ![t].alarm = Reading(call[t].val) < cache[Low]]
  /\ UNCHANGED <<phase, reg, cache, expected, settled, synced, calls, touched>>

CompareLow(t) ==
  /\ call[t].pc = "low"
  /\ call' = [call EXCEPT ![t].pc = "answered",
                          ![t].alarm = Reading(call[t].val) <= cache[Low]]
  /\ UNCHANGED <<phase, reg, cache, expected, settled, synced, calls, touched>>

Answer(t) ==
  /\ call[t].pc = "answered"
  /\ call' = [call EXCEPT ![t] = Idle]
  /\ UNCHANGED <<phase, reg, cache, expected, settled, synced, calls, touched>>

Step(t) ==
  \/ Boot(t)
  \/ \E l \in Limits, v \in Values : ThresholdSet(t, l, v)
  \/ \E v \in Values : LowSet(t, v)
  \/ \E s \in 1..Sensors : ResourceInit(t, s)
  \/ Write(t)
  \/ Store(t)
  \/ Load(t)
  \/ WriteAttribute(t)
  \/ Fail(t)
  \/ Proceed(t)
  \/ \E m \in Temperatures : StatusGet(t, m)
  \/ CompareHigh(t)
  \/ CompareLow(t)
  \/ Answer(t)

\* The chip_init of linux_lm75 opens temp and reads it, then opens and writes
\* max and then max_hyst: an error of any of these ends it.
Open(t) ==
  IF call[t].op = "chip_init" /\ call[t].pc \in {"max", "hyst"}
  THEN LET last == IF call[t].pc = "max" THEN 2 ELSE 3
       IN IF phase' = "failed" THEN opened' \in (IF last = 2 THEN 0..2 ELSE 2..3)
          ELSE opened' = last
  ELSE UNCHANGED opened

Next ==
  \E t \in Threads : Step(t) /\ Open(t) /\ Watch /\ UNCHANGED <<driver, default>>

Spec == Init /\ [][Next]_vars
-----------------------------------------------------------------------------

CallType ==
  [op : {"none", "set", "resource_init", "chip_init", "status"},
   pc : {"idle", "write", "store", "store_default", "load", "max", "hyst_load", "hyst",
         "next", "high", "low", "answered"},
   limit : Limits, val : Int, alone : BOOLEAN,
   was : BOOLEAN, ok : BOOLEAN, alarm : BOOLEAN]

\* Types of the state: a limit register of an I2C chip is a byte.
TypeOK ==
  /\ driver \in Drivers
  /\ default \in [Limits -> Int]
  /\ phase \in {"boot", "ok", "failed"}
  /\ opened \in 0..3
  /\ reg \in [Registers -> IF driver = "linux_lm75" THEN Int ELSE 0..255]
  /\ cache \in [Limits -> Int]
  /\ call \in [Threads -> CallType]
  /\ calls \in Nat
  /\ expected \in [Limits -> Int]
  /\ settled \subseteq Limits
  /\ synced \subseteq Limits
  /\ touched \subseteq Limits
  /\ highs \in [Threads -> SUBSET Int]
  /\ lows \in [Threads -> SUBSET Int]

\* After a setting of a limit that no other setting ran beside, the answer of
\* threshold_get is the last threshold that the chip took (emc142x, max6699)
\* or that a caller asked for (tmp75, linux_lm75), also when the write failed.
\* Not so after an initialisation that failed at the critical limit.
ThresholdAnswered == \A l \in settled : cache[l] = expected[l]

\* When in addition no write of that setting failed, or was refused unnoticed,
\* the chip has the limit that is answered, and the kernel's hysteresis goes
\* with it.
CacheAgrees ==
  \A l \in synced :
    /\ reg[l] = cache[l]
    /\ driver = "linux_lm75" => reg[Hyst] = cache[l] - 5

\* A chip_init that returned without an error has set every limit of every
\* sensor: until a caller sets it, the default is answered and, with the
\* drivers that see a write fail, in the chip.
DefaultsInForce ==
  phase = "ok" =>
    \A l \in Limits \ touched : Supported(l) =>
      /\ cache[l] = default[l]
      /\ driver # "linux_lm75" => reg[l] = default[l]

\* Whatever thresholds are set while the status is asked for: a temperature
\* that reaches every high limit in force during the call, or that is not above
\* any low one, raises the alarm.  The tmp75 reads a temperature below zero
\* as one above 127, which is harmless for high limits up to 128.
NoMissedAlarm ==
  \A t \in Threads :
    /\ call[t].pc = "answered"
    /\ driver = "tmp75" => \A h \in highs[t] : h <= 128
    /\ \/ \A h \in highs[t] : call[t].val >= 1000 * h
       \/ \A w \in lows[t] : call[t].val <= 1000 * w
    => call[t].alarm
==============================================================================
