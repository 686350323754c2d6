------------------------------- MODULE Emc2305 --------------------------------
(***************************************************************************)
(* Fault reports of the EMC2305 fan controller.                            *)
(*                                                                         *)
(* The chip has three fault registers with a bit for each of its fans, and *)
(* a watchdog bit in a fourth one.  A read clears a register.  The driver  *)
(* reads them in order for one fan until it finds the fan's bit, and keeps *)
(* nothing of what it has read.  Calls on one chip come one after the      *)
(* other here; each read is a step and can fail, clearing nothing.         *)
(***************************************************************************)
EXTENDS Integers, Sequences

CONSTANTS
  Fans,   \* the fans of the chip
  NoFan   \* no status call is running; not one of Fans

\* fan_fault_reg, in the order in which a status call reads it.
FanFaultReg == <<"stall", "spin", "drive fail">>
Registers == {"stall", "spin", "drive fail"}

\* fault_status_reg, in the order in which the registers are cleared.
FaultStatusReg == <<"status">> \o FanFaultReg

VARIABLES
  status,      \* the fans with a bit in each fault register
  watchdog,    \* the watchdog bit of EMC2305_FAN_STATUS_REG
  fan,         \* the fan of the status call that is running
  index,       \* of the register that is next, 1 to 4; 0 when no call runs
  unreported   \* history: fans with a fault that no status call has reported

vars == <<status, watchdog, fan, index, unreported>>

\* The chip is being initialised.
Init ==
  /\ status \in [Registers -> SUBSET Fans]
  /\ watchdog \in BOOLEAN
  /\ fan = NoFan
  /\ index = 1
  /\ unreported = {f \in Fans : \E r \in Registers : f \in status[r]}

\* sdi_emc2305_chip_init reads every register before any fan is used: what the
\* registers held from before the start is given up on purpose.
Started == fan # NoFan \/ index = 0

ClearFault(ok) ==
  LET r == FaultStatusReg[index]
  IN /\ ~Started
     /\ IF ok /\ r # "status" THEN status' = [status EXCEPT ![r] = {}]
                              ELSE UNCHANGED status
     /\ watchdog' = (watchdog /\ ~(ok /\ r = "status"))
     /\ index' = IF ok /\ index < Len(FaultStatusReg) THEN index + 1 ELSE 0
     /\ unreported' = {f \in Fans : \E q \in Registers : f \in status'[q]}
     /\ UNCHANGED fan

\* The chip finds a fault, or the bus has been silent for too long.
Fault(f, r) ==
  /\ Started
  /\ status' = [status EXCEPT ![r] = @ \cup {f}]
  /\ unreported' = unreported \cup {f}
  /\ UNCHANGED <<watchdog, fan, index>>

Silence ==
  /\ Started
  /\ watchdog' = TRUE
  /\ UNCHANGED <<status, fan, index, unreported>>

StatusGet(f) ==
  /\ Started /\ fan = NoFan
  /\ fan' = f
  /\ index' = 1
  /\ UNCHANGED <<status, watchdog, unreported>>

Return == fan' = NoFan /\ index' = 0

ReadFault ==
  LET r == FanFaultReg[index]
  IN /\ fan # NoFan /\ index <= Len(FanFaultReg)
     /\ status' = [status EXCEPT ![r] = {}]
     /\ IF fan \in status[r]
        THEN Return /\ unreported' = unreported \ {fan}
        ELSE index' = index + 1 /\ UNCHANGED <<fan, unreported>>
     /\ UNCHANGED watchdog

\* The watchdog makes the status of the fan that is asked for true.
ReadWatchdog ==
  /\ fan # NoFan /\ index = Len(FanFaultReg) + 1
  /\ watchdog' = FALSE
  /\ Return
  /\ unreported' = IF watchdog THEN unreported \ {fan} ELSE unreported
  /\ UNCHANGED status

ReadFails == fan # NoFan /\ Return /\ UNCHANGED <<status, watchdog, unreported>>

Next == \/ \E ok \in BOOLEAN : ClearFault(ok)
        \/ \E f \in Fans : StatusGet(f) \/ \E r \in Registers : Fault(f, r)
        \/ Silence
        \/ ReadFault
        \/ ReadWatchdog
        \/ ReadFails

Spec == Init /\ [][Next]_vars

\* A fault that no status call has reported is still in a register, where the
\* status call of its fan finds it.  Not so: ReadFault for another fan clears
\* it.
FaultKept == \A f \in unreported : \E r \in Registers : f \in status[r]
===============================================================================
