------------------------------- MODULE Max6620 --------------------------------
(***************************************************************************)
(* The MAX6620 fan controller and its driver: fault reports and speeds.    *)
(*                                                                         *)
(* The chip has one fault register for all its fans, which a read clears,  *)
(* and it stops watching a fan it has found at fault until the fan's       *)
(* target register is written again.  So the driver latches in fan_faults  *)
(* what it reads, and sdi_max6620_fan_status_get writes the target back    *)
(* when it reports a fault.                                                *)
(*                                                                         *)
(* Every bus transaction is a step and can fail; fans fail between any two *)
(* of them.  The driver has no mutex: the calls on one chip come one after *)
(* the other here, which their callers have to see to.  The chip keeps its *)
(* registers when the daemon is restarted, so it may start with faults,    *)
(* and with fans it does not watch.                                        *)
(***************************************************************************)
EXTENDS Integers

CONSTANTS
  Fans,       \* the fans of the chip
  NoFan,      \* no call is running
  MaxSpeed,   \* max_speed of a fan in the configuration file
  Pulses,     \* no_of_tach_pulse of a fan
  NewMax,     \* max_rpm arguments of sdi_max6620_resource_init, 0 for none
  Speeds,     \* speed arguments of sdi_max6620_fan_speed_set
  Volts,      \* drive voltages the chip may have at the start
  NoSpeed,    \* no speed is known to be commanded
  MaxFaults   \* bound: number of faults of each fan

ASSUME FanAssumption ==
  /\ NoFan \notin Fans
  /\ MaxSpeed \in [Fans -> Nat]
  /\ Pulses \in [Fans -> Nat \ {0}]
  /\ NewMax \subseteq Nat
  /\ Speeds \subseteq Nat
  /\ Volts \subseteq 0..511
  /\ NoSpeed \notin Nat
  /\ MaxFaults \in [Fans -> Nat]

VARIABLES
  reg,                \* the registers of the chip
  fan_faults,         \* driver: faults read and not yet reported
  max_speed,          \* driver: the largest speed of each fan
  tach_count_period,  \* driver: the period of each fan, 0 before its init
  call,               \* the call that is running
  faults,             \* history: number of faults of each fan so far
  reported,           \* history: number of them that were reported
  goal,               \* history: the speed last set with success
  ready               \* history: fans whose init has succeeded

driver == <<fan_faults, max_speed, tach_count_period>>
history == <<faults, reported, goal, ready>>
vars == <<reg, driver, call, history>>

MaxTachCount == 2047   \* MAX6620_MAX_TACH_COUNT, eleven bits
Clock == 60 * 8192     \* 60 * MAX6620_FREQUENCY_HZ

\* status: fault bits; watched: fans whose faults the chip looks for; target:
\* target tachometer counts; range: the speed range fields of FANDYN.
Registers == [status : SUBSET Fans, watched : SUBSET Fans,
              target : [Fans -> 0..MaxTachCount], range : [Fans -> 0..5]]

\* at: the transaction that is next; init: the call is a resource_init; speed:
\* what it sets; seen: number of faults a status call has taken notice of;
\* kept: the target it is to write back.
Steps == {"idle", "dyn_read", "dyn_write", "volt_read", "target_read",
          "target_write", "cfg_write", "fault_read", "keep_read", "keep_write"}
Calls == [at : Steps, fan : Fans \cup {NoFan}, init : BOOLEAN, speed : Nat,
          seen : Nat, kept : 0..MaxTachCount]

Idle == [at |-> "idle", fan |-> NoFan, init |-> FALSE, speed |-> 0,
         seen |-> 0, kept |-> 0]

\* A transaction that writes is carried out or not, and one that is carried
\* out can still be reported as failed.
Outcomes == {"ok", "failed", "lost"}
Done(outcome) == outcome # "lost"

\* The speed range field for a largest speed, and the period it stands for.
SpeedRange(max) == IF max \in 1..500          THEN 0
                   ELSE IF max \in 501..1000  THEN 1
                   ELSE IF max \in 1001..2000 THEN 2
                   ELSE IF max \in 2001..4000 THEN 3
                   ELSE IF max \in 4001..8000 THEN 4
                   ELSE 5
Period == <<1, 2, 4, 8, 16, 32>>
PeriodOf(range) == Period[range + 1]

\* Mutant of TargetField: the count is not cut to its field.
WholeCount(count) == count

\* What the target register keeps of a count.
TargetField(count) == count % (MaxTachCount + 1)

\* The tachometer count for a speed of fan f.
TachCount(f, speed) ==
  IF speed = 0 THEN MaxTachCount
  ELSE (tach_count_period[f] * Clock) \div (Pulses[f] * speed)

\* The speed of fan f that a drive voltage stands for.
SpeedAt(f, volt) == (max_speed[f] * ((volt * 100) \div 511)) \div 100

\* Mutant of Latched: the faults of the other fans are not kept.
LatchedOwn(f) == fan_faults \cup (reg.status \cap {f})

\* fan_faults after the fault register was read for fan f.
Latched(f) == fan_faults \cup reg.status

\* Mutant of Faulty: what was latched before is not looked at.
FaultyNow(f) == f \in reg.status

\* The status that the call for fan f reports.
Faulty(f) == f \in Latched(f)

\* Mutants of AfterKeep: the fault is forgotten although the target was not
\* written back; it is never forgotten.
AfterKeepAlways(f, outcome) == fan_faults \ {f}
AfterKeepNever(f, outcome) == fan_faults

\* fan_faults after the target of fan f was written back.
AfterKeep(f, outcome) == IF outcome = "ok" THEN fan_faults \ {f} ELSE fan_faults

\* The chip after a write of a fan's target.
Targeted(f, count) ==
  [reg EXCEPT !.target[f] = count, !.watched = @ \cup {f}]
-------------------------------------------------------------------------------
Init ==
  /\ \E status \in SUBSET Fans, watched \in SUBSET Fans :
       /\ reg = [status |-> status, watched |-> watched,
                 target |-> [f \in Fans |-> 480], range |-> [f \in Fans |-> 2]]
       /\ faults = [f \in Fans |-> IF f \in status THEN 1 ELSE 0]
  /\ fan_faults = {}
  /\ max_speed = MaxSpeed
  /\ tach_count_period = [f \in Fans |-> 0]
  /\ call = Idle
  /\ reported = [f \in Fans |-> 0]
  /\ goal = [f \in Fans |-> NoSpeed]
  /\ ready = {}

\* The chip finds a fan at fault.
Fault(f) ==
  /\ f \in reg.watched
  /\ faults[f] < MaxFaults[f]
  /\ reg' = [reg EXCEPT !.status = @ \cup {f}, !.watched = @ \ {f}]
  /\ faults' = [faults EXCEPT ![f] = @ + 1]
  /\ UNCHANGED <<driver, call, reported, goal, ready>>

\* The calls.  The driver takes over the new largest speed and the period
\* before it writes anything to the chip.
ResourceInit(f, max_rpm) ==
  LET max == IF max_rpm = 0 THEN max_speed[f] ELSE max_rpm
  IN /\ call = Idle
     /\ max_speed' = [max_speed EXCEPT ![f] = max]
     /\ tach_count_period' =
          [tach_count_period EXCEPT ![f] = PeriodOf(SpeedRange(max))]
     /\ call' = [Idle EXCEPT !.at = "dyn_read", !.fan = f, !.init = TRUE]
     /\ goal' = [goal EXCEPT ![f] = NoSpeed]
     /\ UNCHANGED <<reg, fan_faults, faults, reported, ready>>

SpeedSet(f, speed) ==
  /\ call = Idle
  /\ speed <= max_speed[f]
  /\ call' = [Idle EXCEPT !.at = "target_read", !.fan = f, !.speed = speed]
  /\ UNCHANGED <<reg, driver, history>>

StatusGet(f) ==
  /\ call = Idle
  /\ call' = [Idle EXCEPT !.at = "fault_read", !.fan = f]
  /\ UNCHANGED <<reg, driver, history>>

\* sdi_max6620_fan_tach_count_period_set.  Its caller goes on when it fails.
DynRead(ok) ==
  /\ call.at = "dyn_read"
  /\ call' = [call EXCEPT !.at = IF ok THEN "dyn_write" ELSE "volt_read"]
  /\ UNCHANGED <<reg, driver, history>>

DynWrite(outcome) ==
  /\ call.at = "dyn_write"
  /\ reg' = IF Done(outcome)
            THEN [reg EXCEPT !.range[call.fan] = SpeedRange(max_speed[call.fan])]
            ELSE reg
  /\ call' = [call EXCEPT !.at = "volt_read"]
  /\ UNCHANGED <<driver, history>>

\* sdi_max6620_fan_current_drive_volt_get.
VoltRead(ok, volt) ==
  /\ call.at = "volt_read"
  /\ call' = IF ok THEN [call EXCEPT !.at = "target_read",
                                     !.speed = SpeedAt(call.fan, volt)]
             ELSE Idle
  /\ UNCHANGED <<reg, driver, history>>

\* sdi_max6620_fan_target_tach_count_set.
TargetRead(ok) ==
  /\ call.at = "target_read"
  /\ call' = IF ok THEN [call EXCEPT !.at = "target_write"] ELSE Idle
  /\ UNCHANGED <<reg, driver, history>>

TargetWrite(outcome) ==
  LET f == call.fan
  IN /\ call.at = "target_write"
     /\ reg' = IF Done(outcome)
               THEN Targeted(f, TargetField(TachCount(f, call.speed)))
               ELSE reg
     /\ goal' = [goal EXCEPT ![f] =
                   IF outcome = "ok" THEN call.speed ELSE NoSpeed]
     /\ call' = IF outcome = "ok" /\ call.init
                THEN [call EXCEPT !.at = "cfg_write"]
                ELSE Idle
     /\ UNCHANGED <<driver, faults, reported, ready>>

\* The last write of sdi_max6620_init_fan.
CfgWrite(ok) ==
  /\ call.at = "cfg_write"
  /\ ready' = IF ok THEN ready \cup {call.fan} ELSE ready
  /\ call' = Idle
  /\ UNCHANGED <<reg, driver, faults, reported, goal>>

\* sdi_max6620_fan_status_get.  A read that fails clears nothing.
FaultRead(ok) ==
  LET f == call.fan
  IN /\ call.at = "fault_read"
     /\ IF ok
        THEN /\ reg' = [reg EXCEPT !.status = {}]
             /\ fan_faults' = Latched(f)
             /\ call' = IF Faulty(f)
                        THEN [call EXCEPT !.at = "keep_read", !.seen = faults[f]]
                        ELSE Idle
        ELSE call' = Idle /\ UNCHANGED <<reg, fan_faults>>
     /\ UNCHANGED <<max_speed, tach_count_period, history>>

\* Mutant of KeepRead: what is read is not used.
KeepReadUnused(ok) ==
  /\ call.at = "keep_read"
  /\ call' = IF ok THEN [call EXCEPT !.at = "keep_write"] ELSE Idle
  /\ UNCHANGED <<reg, driver, history>>

KeepRead(ok) ==
  /\ call.at = "keep_read"
  /\ call' = IF ok THEN [call EXCEPT !.at = "keep_write",
                                     !.kept = reg.target[call.fan]]
             ELSE Idle
  /\ UNCHANGED <<reg, driver, history>>

\* Only a call that gets here without an error has reported the fault.
KeepWrite(outcome) ==
  LET f == call.fan
  IN /\ call.at = "keep_write"
     /\ reg' = IF Done(outcome) THEN Targeted(f, call.kept) ELSE reg
     /\ fan_faults' = AfterKeep(f, outcome)
     /\ reported' = IF outcome = "ok"
                    THEN [reported EXCEPT ![f] = call.seen]
                    ELSE reported
     /\ call' = Idle
     /\ UNCHANGED <<max_speed, tach_count_period, faults, goal, ready>>

Request == \E f \in Fans : \/ \E max_rpm \in NewMax : ResourceInit(f, max_rpm)
                           \/ \E speed \in Speeds : SpeedSet(f, speed)
                           \/ StatusGet(f)

Read == \E ok \in BOOLEAN : \/ DynRead(ok)
                            \/ \E volt \in Volts : VoltRead(ok, volt)
                            \/ TargetRead(ok)
                            \/ FaultRead(ok)
                            \/ KeepRead(ok)

Write == \/ \E outcome \in Outcomes : \/ DynWrite(outcome)
                                      \/ TargetWrite(outcome)
                                      \/ KeepWrite(outcome)
         \/ \E ok \in BOOLEAN : CfgWrite(ok)

Next == \/ \E f \in Fans : Fault(f)
        \/ Request
        \/ Read
        \/ Write

Spec == Init /\ [][Next]_vars

\* A step of a status call that no working transaction explains.  (A read of
\* the fault register with no fault to report ends the call either way.)
StatusWorks == FaultRead(TRUE) \/ KeepRead(TRUE) \/ KeepWrite("ok")
StatusFails ==
  /\ \/ FaultRead(FALSE)
     \/ KeepRead(FALSE)
     \/ \E outcome \in Outcomes \ {"ok"} : KeepWrite(outcome)
  /\ ~StatusWorks

\* A call goes on until it returns; the status of each fan is asked for again
\* and again; and the bus does not fail for ever.
Fairness ==
  /\ WF_vars(Read \/ Write)
  /\ \A f \in Fans : SF_vars(StatusGet(f))
  /\ <>[][~StatusFails]_vars

FairSpec == Spec /\ Fairness
-------------------------------------------------------------------------------
\* Type invariant: the registers fit their fields, a call is of one fan.
TypeOK ==
  /\ reg \in Registers
  /\ fan_faults \in SUBSET Fans
  /\ max_speed \in [Fans -> Nat]
  /\ tach_count_period \in [Fans -> Nat]
  /\ call \in Calls
  /\ faults \in [Fans -> Nat]
  /\ reported \in [Fans -> Nat]
  /\ goal \in [Fans -> Nat \cup {NoSpeed}]
  /\ ready \in SUBSET Fans

\* A fault that no status call has reported yet is in the register or in
\* fan_faults: it is lost neither by a status call of another fan, which
\* clears the register, nor by a call that fails half-way.
FaultsKept ==
  \A f \in Fans : reported[f] < faults[f] => f \in reg.status \cup fan_faults

\* What the register or fan_faults holds is a fault that has not been reported:
\* no fault is reported twice by status calls that succeed.
NoFalseAlarm ==
  \A f \in Fans : f \in reg.status \cup fan_faults => reported[f] < faults[f]

\* A fan whose init has succeeded is watched by the chip, or has a fault whose
\* report will have it watched again: no failure of a status call leaves a fan
\* that can break unnoticed.
NeverUnwatched ==
  \A f \in ready : f \in reg.watched \/ f \in reg.status \cup fan_faults

\* The count n with period p commands this speed of fan f, rounded down.
Commands(f, p, n, speed) ==
  IF speed = 0 THEN n = MaxTachCount
  ELSE /\ n * (Pulses[f] * speed) <= p * Clock
       /\ p * Clock < (n + 1) * (Pulses[f] * speed)

\* A speed whose count has more than eleven bits cannot be commanded.
Fits(f, p, speed) ==
  speed = 0 \/ p * Clock < (MaxTachCount + 1) * (Pulses[f] * speed)

\* The chip runs each fan at the speed that was set last with success, whatever
\* status and init calls came since: for speeds that the register can hold, and
\* unless the chip refused the period, which sdi_max6620_init_fan ignores.
SpeedHeld ==
  \A f \in Fans :
    LET p == PeriodOf(reg.range[f])
    IN goal[f] # NoSpeed /\ p = tach_count_period[f] /\ Fits(f, p, goal[f])
         => Commands(f, p, reg.target[f], goal[f])

\* Every fault is reported in the end if the status of the fan is asked for
\* again and again, also when the register was read for other fans before.
FaultReported ==
  \A f \in Fans : reported[f] < faults[f] ~> reported[f] = faults[f]
===============================================================================
