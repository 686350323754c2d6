------------------------------ MODULE SfpModule -------------------------------
(***************************************************************************)
(* The calls of the SFP driver on the memory and on the copper PHY of one  *)
(* transceiver.                                                            *)
(*                                                                         *)
(* The PHY calls change single bits of 16-bit registers that other calls   *)
(* change too, and then reset the PHY by setting one more bit; a reset     *)
(* ends a power-down.  The calibrated reads ask for the calibration type   *)
(* in one selection of the module and read the value and the constants the *)
(* type needs in a second one.                                             *)
(*                                                                         *)
(* The select group of the module is one mutex here, BusAccess models what *)
(* it takes.  A thread that waits for it has done nothing yet, so a call   *)
(* begins when it gets it.  Any transaction can fail, and modules are      *)
(* pulled and plugged at any time.                                         *)
(***************************************************************************)
EXTENDS Naturals, Sequences

CONSTANTS
  Threads,   \* threads that call the driver
  NoThread   \* the owner of a free mutex

ASSUME ThreadAssumption == NoThread \notin Threads

(***************************************************************************)
(* What each call transfers, as the set of its possible sequences of       *)
(* transactions.                                                           *)
(*   "read"       a read of the memory                                     *)
(*   "option"     a read of the bit that says whether what is asked for is *)
(*                there; the call is over when it is clear                 *)
(*   "type"       a read of the calibration type, after which the module   *)
(*                is deselected and selected again                         *)
(*   "value"      the read of a value; the call is over when the type is   *)
(*                internal                                                 *)
(*   "constants"  a read of the constants of external calibration          *)
(*   "ctrl", "ext", "ana", "gb", "resetRead"  reads of PHY registers       *)
(*   "setCtrl", "setExt", "setAna", "setGb", "reset"  writes of them       *)
(***************************************************************************)
ModuleMonitorStatusGet ==
  {<<"option">>, <<"option", "read">>, <<"option", "read", "read">>}
ChannelMonitorStatusGet ==
  ModuleMonitorStatusGet \cup {<<"option", "read", "read", "read">>,
                               <<"option", "read", "read", "read", "read">>}
IsDellQualified    == {<<"read">>}
ParameterGet       == {<<"read">>}
VendorInfoGet      == {<<"read">>}
TransceiverCodeGet == {<<"read">>}
DellProductInfoGet == {<<"read">>}
ThresholdGet ==
  {<<"type", "value", "constants">>, <<"type", "value", "constants", "constants">>}
ModuleMonitorGet   == {<<"type", "value", "constants", "constants">>}
ChannelMonitorGet ==
  {<<"type", "value", "constants">>, <<"type", "value", "constants", "constants">>}
FeatureSupportStatusGet == {<<"read", "read", "read">>}
PhyAutonegSet == {<<"ctrl", "setCtrl", "resetRead", "reset">>}
PhyModeSet    == {<<"ext", "setExt", "resetRead", "reset">>}
PhySpeedSet   == {<<"ana", "setAna", "gb", "setGb">>}

Calibrated == ThresholdGet \cup ModuleMonitorGet \cup ChannelMonitorGet

Requests ==
  UNION {ModuleMonitorStatusGet, ChannelMonitorStatusGet, IsDellQualified,
         ParameterGet, VendorInfoGet, TransceiverCodeGet, DellProductInfoGet,
         Calibrated, FeatureSupportStatusGet, PhyAutonegSet, PhyModeSet,
         PhySpeedSet}

\* The argument of a call, where it has one that matters.
Arguments(request) == CASE request \in PhyAutonegSet -> {"on", "off"}
                        [] request \in PhyModeSet -> {"sgmii", "other"}
                        [] request \in PhySpeedSet -> {"1G", "100M", "10M"}
                        [] OTHER -> {"none"}

AllArguments == {"on", "off", "sgmii", "other", "1G", "100M", "10M", "none"}

VARIABLES
  module,  \* the module in the cage
  lock,    \* owner of the module's select group
  call,    \* what each thread is doing
  goal     \* history: what the last PHY calls that were carried out asked for

vars == <<module, lock, call, goal>>

\* Registers of the PHY as sets of bits.  "AE" and "PD" are the bits of
\* SFP_COPPER_CTRL_AE and SFP_COPPER_CTRL_PD, in whatever register; numbers
\* are the advertised speeds.
Bits == {"AE", "PD", "SGMII", "10", "100", "1000"}
RegisterNames == {"ctrl", "ext", "ana", "gb"}

\* external: the module is calibrated externally.
Modules == [plugged : BOOLEAN, external : BOOLEAN,
            regs : [RegisterNames -> SUBSET Bits]]

\* stage: no call, between the two selections of a calibrated read, or
\* transferring with the select group held; at: the transaction that is next.
\* external: the type that was read; got: the constants that were read.
\* data: regData, the PHY register that was read.  blind: the read before the
\* reset failed.  swapped: the module was pulled during the call.
Calls == [stage : {"idle", "reselect", "transfer"}, request : Requests \cup {<<>>},
          at : 1..6, arg : AllArguments, rc : {"OK", "EIO", "ENOTSUP"},
          external : BOOLEAN, got : 0..2, data : SUBSET Bits, blind : BOOLEAN,
          swapped : BOOLEAN]

Idle == [stage |-> "idle", request |-> <<>>, at |-> 1, arg |-> "none",
         rc |-> "OK", external |-> FALSE, got |-> 0, data |-> {},
         blind |-> FALSE, swapped |-> FALSE]

NoModule == [plugged |-> FALSE, external |-> FALSE,
             regs |-> [r \in RegisterNames |-> {}]]

\* A PHY that is plugged advertises all speeds, and may be powered down.
PluggedRegs(ctrl, ext) ==
  [r \in RegisterNames |-> CASE r = "ctrl" -> ctrl
                             [] r = "ext"  -> ext
                             [] r = "ana"  -> {"10", "100"}
                             [] OTHER -> {"1000"}]

PluggedPhys ==
  {PluggedRegs(ctrl, ext) : ctrl \in SUBSET {"AE", "PD"}, ext \in SUBSET {"PD"}}

PluggedModules == [plugged : {TRUE}, external : BOOLEAN, regs : PluggedPhys]

Busy(t) == call[t].stage = "transfer" /\ call[t].at \in DOMAIN call[t].request

Kind(t) == call[t].request[call[t].at]

\* All transactions of the call are over.
Done(t) == call[t].stage = "transfer" /\ call[t].at > Len(call[t].request)

-----------------------------------------------------------------------------
(* The frame of a call                                                     *)

Init ==
  /\ module = NoModule
  /\ lock = NoThread
  /\ call = [t \in Threads |-> Idle]
  /\ goal = [ae |-> "any", speed |-> "any"]

\* Mutant of Select: the select group is written without being acquired.
SelectUnlocked(t) ==
  /\ \/ /\ call[t].stage = "idle"
        /\ lock' = t
        /\ \E request \in Requests : \E arg \in Arguments(request) :
             call' = [call EXCEPT ![t] = [Idle EXCEPT !.stage = "transfer",
                                                      !.request = request,
                                                      !.arg = arg]]
     \/ /\ call[t].stage = "reselect"
        /\ lock' = t /\ call' = [call EXCEPT ![t].stage = "transfer"]
  /\ UNCHANGED <<module, goal>>

\* sdi_sfp_module_select: a call begins, or goes on after its first selection.
Select(t) ==
  /\ lock = NoThread
  /\ \/ /\ call[t].stage = "idle"
        /\ lock' = t
        /\ \E request \in Requests : \E arg \in Arguments(request) :
             call' = [call EXCEPT ![t] = [Idle EXCEPT !.stage = "transfer",
                                                      !.request = request,
                                                      !.arg = arg]]
     \/ /\ call[t].stage = "reselect"
        /\ \/ lock' = t /\ call' = [call EXCEPT ![t].stage = "transfer"]
           \/ lock' = lock /\ call' = [call EXCEPT ![t] = Idle]
  /\ UNCHANGED <<module, goal>>

\* Mutant of Deselect: an early return keeps the select group.
DeselectOnSuccess(t) ==
  /\ Done(t)
  /\ lock' = IF call[t].rc = "OK" THEN NoThread ELSE lock
  /\ call' = [call EXCEPT ![t] = Idle]
  /\ UNCHANGED <<module, goal>>

\* sdi_sfp_module_deselect, and the return of the call.
Deselect(t) ==
  /\ Done(t)
  /\ lock' = NoThread
  /\ call' = [call EXCEPT ![t] = Idle]
  /\ UNCHANGED <<module, goal>>

\* The call of t after a transaction, with its new values.
Advance(t, values) == call' = [call EXCEPT ![t] = [values EXCEPT !.at = @ + 1]]

\* Mutant of Leave: one transaction too far.
LeavePastEnd(t, values, rc) ==
  call' = [call EXCEPT ![t] = [values EXCEPT !.at = Len(values.request) + 2,
                                             !.rc = rc]]

\* The call of t when it leaves its loop with rc.
Leave(t, values, rc) ==
  call' = [call EXCEPT ![t] = [values EXCEPT !.at = Len(values.request) + 1,
                                             !.rc = rc]]

-----------------------------------------------------------------------------
(* The memory                                                              *)

Read(t) ==
  /\ Busy(t) /\ module.plugged
  /\ \/ Kind(t) \in {"read", "option"} /\ Advance(t, call[t])
     \/ Kind(t) = "option" /\ Leave(t, call[t], "ENOTSUP")
  /\ UNCHANGED <<module, lock, goal>>

\* The call of t to sdi_sfp_parameter_get, which it returns from; the type may
\* be none of those that are supported.
ReadType(t) ==
  /\ Busy(t) /\ Kind(t) = "type" /\ module.plugged
  /\ \/ /\ call' = [call EXCEPT ![t].stage = "reselect", ![t].at = 2,
                                ![t].external = module.external]
        /\ lock' = NoThread
     \/ /\ Leave(t, call[t], "ENOTSUP")
        /\ lock' = lock
  /\ UNCHANGED <<module, goal>>

\* Mutant of ReadValue: the constants are read for the other type.
ReadValueReversed(t) ==
  /\ Busy(t) /\ Kind(t) = "value" /\ module.plugged
  /\ IF call[t].external THEN Leave(t, call[t], "OK") ELSE Advance(t, call[t])
  /\ UNCHANGED <<module, lock, goal>>

ReadValue(t) ==
  /\ Busy(t) /\ Kind(t) = "value" /\ module.plugged
  /\ IF call[t].external THEN Advance(t, call[t]) ELSE Leave(t, call[t], "OK")
  /\ UNCHANGED <<module, lock, goal>>

ReadConstants(t) ==
  /\ Busy(t) /\ Kind(t) = "constants" /\ module.plugged
  /\ Advance(t, [call[t] EXCEPT !.got = @ + 1])
  /\ UNCHANGED <<module, lock, goal>>

-----------------------------------------------------------------------------
(* The PHY                                                                 *)

PhyReads  == {"ctrl", "ext", "ana", "gb", "resetRead"}
PhyWrites == {"setCtrl", "setExt", "setAna", "setGb", "reset"}

RegisterOf(kind) == CASE kind \in {"ctrl", "setCtrl", "resetRead", "reset"} -> "ctrl"
                      [] kind \in {"ext", "setExt"} -> "ext"
                      [] kind \in {"ana", "setAna"} -> "ana"
                      [] OTHER -> "gb"

\* abil and abilGB of sdi_sfp_phy_speed_set.
Abil(speed) == CASE speed = "100M" -> {"100", "10"}
                 [] speed = "10M"  -> {"10"}
                 [] OTHER -> {}
AbilGB(speed) == IF speed = "1G" THEN {"1000"} ELSE {}

Advertised(t) == (call[t].data \ {"10", "100"}) \cup Abil(call[t].arg)

AdvertisedGB(t) == (call[t].data \ {"1000"}) \cup AbilGB(call[t].arg)

\* What is written, from what was read.  PHY_SGMII_MODE, 0x9084, has the bit of
\* AE set and that of PD clear.  The reset bit is never read back, so the data
\* leaves it out.
NewData(t) ==
  CASE Kind(t) = "setCtrl" -> IF call[t].arg = "on" THEN call[t].data \cup {"AE"}
                                                   ELSE call[t].data \ {"AE"}
    [] Kind(t) = "setExt" -> IF call[t].arg = "sgmii" THEN {"AE", "SGMII"}
                                                     ELSE call[t].data
    [] Kind(t) = "setAna" -> Advertised(t)
    [] Kind(t) = "setGb" -> AdvertisedGB(t)
    [] OTHER -> call[t].data

\* Mutant of Written: the reset writes no other bit.
WrittenBlind(t) ==
  [module.regs EXCEPT ![RegisterOf(Kind(t))] =
     IF Kind(t) = "reset" THEN {} ELSE NewData(t)]

\* What a write makes of the registers: a reset ends the power-down.
Written(t) ==
  [module.regs EXCEPT ![RegisterOf(Kind(t))] =
     IF Kind(t) = "reset" THEN NewData(t) \ {"PD"} ELSE NewData(t)]

PhyRead(t) ==
  /\ Busy(t) /\ Kind(t) \in PhyReads /\ module.plugged
  /\ Advance(t, [call[t] EXCEPT !.data = module.regs[RegisterOf(Kind(t))]])
  /\ UNCHANGED <<module, lock, goal>>

\* What is asked of the PHY after a write.  A write that failed may have been
\* carried out, and a reset without knowing the register changes all of it.
NewGoal(t, failed) ==
  CASE Kind(t) = "setCtrl" ->
         [goal EXCEPT !.ae = IF failed THEN "any" ELSE call[t].arg]
    [] Kind(t) = "reset" ->
         [goal EXCEPT !.ae = IF call[t].blind THEN "any" ELSE @]
    [] Kind(t) = "setAna" -> [goal EXCEPT !.speed = "any"]
    [] Kind(t) = "setGb" ->
         [goal EXCEPT !.speed = IF failed \/ call[t].swapped THEN "any"
                                                             ELSE call[t].arg]
    [] OTHER -> goal

\* Mutant of PhyWrite: a PHY that is powered down is reset too.
PhyWriteResets(t) ==
  /\ Busy(t) /\ Kind(t) \in PhyWrites /\ module.plugged
  /\ module' = [module EXCEPT !.regs = Written(t)]
  /\ goal' = NewGoal(t, FALSE)
  /\ Advance(t, [call[t] EXCEPT !.data = NewData(t)])
  /\ UNCHANGED lock

\* The call goes on to reset the PHY when the data just written has the bit of
\* SFP_COPPER_CTRL_PD clear, whatever register it was written to.
PhyWrite(t) ==
  /\ Busy(t) /\ Kind(t) \in PhyWrites /\ module.plugged
  /\ module' = [module EXCEPT !.regs = Written(t)]
  /\ goal' = NewGoal(t, FALSE)
  /\ IF Kind(t) \in {"setCtrl", "setExt"} /\ "PD" \in NewData(t)
     THEN Leave(t, [call[t] EXCEPT !.data = NewData(t)], "OK")
     ELSE Advance(t, [call[t] EXCEPT !.data = NewData(t)])
  /\ UNCHANGED lock

\* Any transaction can fail, and fails when there is no module; a write that is
\* reported as failed may have been carried out.  sdi_media_phy_sw_reset goes
\* on with no bits when it cannot read the register.
BusError(t) ==
  /\ Busy(t)
  /\ \/ UNCHANGED module
     \/ /\ Kind(t) \in PhyWrites /\ module.plugged
        /\ module' = [module EXCEPT !.regs = Written(t)]
  /\ goal' = IF Kind(t) \in PhyWrites THEN NewGoal(t, TRUE) ELSE goal
  /\ IF Kind(t) = "resetRead"
     THEN Advance(t, [call[t] EXCEPT !.data = {}, !.blind = TRUE])
     ELSE Leave(t, call[t], "EIO")
  /\ UNCHANGED lock

-----------------------------------------------------------------------------
(* The cage                                                                *)

Pull ==
  /\ module.plugged
  /\ module' = NoModule
  /\ goal' = [ae |-> "any", speed |-> "any"]
  /\ call' = [t \in Threads |->
                IF call[t].stage # "idle"
                THEN [call[t] EXCEPT !.swapped = TRUE] ELSE call[t]]
  /\ UNCHANGED lock

Plug ==
  /\ ~module.plugged
  /\ module' \in PluggedModules
  /\ UNCHANGED <<lock, call, goal>>

Transact(t) ==
  \/ Read(t) \/ ReadType(t) \/ ReadValue(t) \/ ReadConstants(t)
  \/ PhyRead(t) \/ PhyWrite(t) \/ BusError(t)

Next ==
  \/ \E t \in Threads : Select(t) \/ Transact(t) \/ Deselect(t)
  \/ Pull
  \/ Plug

Spec == Init /\ [][Next]_vars

\* A thread that holds the module keeps running; nobody has to call, plug or
\* pull.
FairSpec == Spec /\ \A t \in Threads : WF_vars(Transact(t) \/ Deselect(t))

-----------------------------------------------------------------------------
(* Properties                                                              *)

TypeOK ==
  /\ module \in Modules
  /\ lock \in Threads \cup {NoThread}
  /\ call \in [Threads -> Calls]
  /\ goal \in [ae : {"any", "on", "off"}, speed : {"any", "1G", "100M", "10M"}]

\* Autonegotiation stays as it was set by sdi_sfp_phy_autoneg_set, through all
\* resets that any PHY call makes: they read, change and write the same register.
\* Only a reset whose read failed loses it.
AutonegGoal ==
  /\ goal.ae = "on" => "AE" \in module.regs["ctrl"]
  /\ goal.ae = "off" => "AE" \notin module.regs["ctrl"]

\* After a sdi_sfp_phy_speed_set that succeeded the PHY advertises the speeds
\* that belong to the one it was given, in two registers, and no others, until
\* the next call; calls never mix their registers.
SpeedGoal ==
  goal.speed # "any" =>
    /\ module.regs["ana"] = Abil(goal.speed)
    /\ module.regs["gb"] = AbilGB(goal.speed)

\* A call in progress on a module that stays plugged.
Using(t, requests) ==
  /\ lock = t
  /\ call[t].request \in requests
  /\ ~call[t].swapped
  /\ module'.plugged

PoweredDown == "PD" \in module.regs["ctrl"]

\* sdi_sfp_phy_autoneg_set does not wake a PHY that is powered down, which would
\* bring up the link of the partner, as the comment in it says.
AutonegKeepsPowerDown ==
  [][\A t \in Threads :
       Using(t, PhyAutonegSet) /\ PoweredDown => PoweredDown']_vars

\* A calibrated value that is returned was computed with the constants of the
\* module when the module is calibrated externally, and without them when it is
\* not, unless the module was exchanged between the selections of the call.
CalibrationOfModule ==
  \A t \in Threads :
    Done(t) /\ call[t].rc = "OK" /\ call[t].request \in Calibrated
            /\ ~call[t].swapped
      => call[t].got = IF module.external THEN Len(call[t].request) - 2 ELSE 0

\* A caller uses the module while its call makes transactions.
Selection == INSTANCE ModuleSelection WITH
  Callers <- Threads,
  Modules <- {"module"},
  Rivals <- [m \in {"module"} |-> {m}],
  users <- [m \in {"module"} |->
              {t \in Threads : call[t].stage = "transfer"}]

\* The one mutex of this module keeps what BusAccess implements with its select
\* groups: one call at a time makes transactions, and gives the module back
\* between the two selections of a calibrated read.
ImplementsModuleSelection == Selection!Spec

\* The select group of the module is given back on every path of a call.
SelectionReleased == \A t \in Threads : lock = t ~> lock # t
==============================================================================
