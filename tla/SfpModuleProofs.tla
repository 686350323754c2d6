--------------------------- MODULE SfpModuleProofs ---------------------------
(***************************************************************************)
(* Proofs about SfpModule for every set of threads.                        *)
(*                                                                         *)
(* The inductive invariant adds to the properties what makes them stay     *)
(* true: the thread that transfers is the owner of the select group        *)
(* (Holding); what a PHY call is about to write agrees with the registers  *)
(* and with what earlier calls asked for (CtrlKnown, ResetKnown,           *)
(* SpeedKnown); and the constants read so far agree with the type of a     *)
(* module that was not pulled (CalibrationKnown).                          *)
(***************************************************************************)
EXTENDS SfpModule, TLAPS

-----------------------------------------------------------------------------
(* The requests                                                            *)

LEMMA RequestShape ==
  ASSUME NEW r \in Requests
  PROVE  Len(r) \in 0..5 /\ DOMAIN r = 1..Len(r)
  BY DEF Requests, Calibrated, ModuleMonitorStatusGet, ChannelMonitorStatusGet,
     IsDellQualified, ParameterGet, VendorInfoGet, TransceiverCodeGet,
     DellProductInfoGet, ThresholdGet, ModuleMonitorGet, ChannelMonitorGet,
     FeatureSupportStatusGet, PhyAutonegSet, PhyModeSet, PhySpeedSet

LEMMA AutonegShape ==
  ASSUME NEW r \in PhyAutonegSet
  PROVE  /\ Len(r) = 4 /\ r[1] = "ctrl" /\ r[2] = "setCtrl"
         /\ r[3] = "resetRead" /\ r[4] = "reset"
         /\ r \in Requests /\ r \notin PhyModeSet /\ r \notin PhySpeedSet
         /\ r \notin Calibrated
  BY DEF Requests, Calibrated, ThresholdGet, ModuleMonitorGet,
     ChannelMonitorGet, PhyAutonegSet, PhyModeSet, PhySpeedSet

LEMMA ModeShape ==
  ASSUME NEW r \in PhyModeSet
  PROVE  /\ Len(r) = 4 /\ r[1] = "ext" /\ r[2] = "setExt"
         /\ r[3] = "resetRead" /\ r[4] = "reset"
         /\ r \in Requests /\ r \notin PhyAutonegSet /\ r \notin PhySpeedSet
         /\ r \notin Calibrated
  BY DEF Requests, Calibrated, ThresholdGet, ModuleMonitorGet,
     ChannelMonitorGet, PhyAutonegSet, PhyModeSet, PhySpeedSet

LEMMA SpeedShape ==
  ASSUME NEW r \in PhySpeedSet
  PROVE  /\ Len(r) = 4 /\ r[1] = "ana" /\ r[2] = "setAna"
         /\ r[3] = "gb" /\ r[4] = "setGb"
         /\ r \in Requests /\ r \notin PhyAutonegSet /\ r \notin PhyModeSet
         /\ r \notin Calibrated
  BY DEF Requests, Calibrated, ThresholdGet, ModuleMonitorGet,
     ChannelMonitorGet, PhyAutonegSet, PhyModeSet, PhySpeedSet

LEMMA CalibratedShape ==
  ASSUME NEW r \in Calibrated
  PROVE  /\ Len(r) \in 3..4 /\ r[1] = "type" /\ r[2] = "value"
         /\ \A i \in 3..Len(r) : r[i] = "constants"
         /\ r \in Requests /\ r \notin PhyAutonegSet /\ r \notin PhyModeSet
         /\ r \notin PhySpeedSet
  BY DEF Requests, Calibrated, ThresholdGet, ModuleMonitorGet,
     ChannelMonitorGet, PhyAutonegSet, PhyModeSet, PhySpeedSet

\* The other calls only read.
LEMMA OtherShape ==
  ASSUME NEW r \in Requests, r \notin PhyAutonegSet, r \notin PhyModeSet,
         r \notin PhySpeedSet, r \notin Calibrated,
         NEW i \in DOMAIN r
  PROVE  r[i] \in {"read", "option"}
  BY DEF Requests, Calibrated, ModuleMonitorStatusGet, ChannelMonitorStatusGet,
     IsDellQualified, ParameterGet, VendorInfoGet, TransceiverCodeGet,
     DellProductInfoGet, FeatureSupportStatusGet

LEMMA ArgumentsOf ==
  ASSUME NEW r \in Requests
  PROVE  /\ Arguments(r) \subseteq AllArguments
         /\ r \in PhyAutonegSet => Arguments(r) = {"on", "off"}
         /\ r \in PhySpeedSet => Arguments(r) = {"1G", "100M", "10M"}
<1>1. CASE r \in PhyAutonegSet
  BY <1>1, AutonegShape DEF Arguments, AllArguments
<1>2. CASE r \in PhyModeSet
  BY <1>2, ModeShape DEF Arguments, AllArguments
<1>3. CASE r \in PhySpeedSet
  BY <1>3, SpeedShape DEF Arguments, AllArguments
<1>4. CASE r \notin PhyAutonegSet /\ r \notin PhyModeSet /\ r \notin PhySpeedSet
  BY <1>4 DEF Arguments, AllArguments
<1> QED
  BY <1>1, <1>2, <1>3, <1>4

\* Which calls a transaction belongs to, and where.
LEMMA KindIn ==
  ASSUME NEW r \in Requests, NEW i \in DOMAIN r
  PROVE  /\ r[i] \in {"ctrl", "setCtrl"} => r \in PhyAutonegSet
         /\ r[i] \in {"ext", "setExt"} => r \in PhyModeSet
         /\ r[i] \in {"ana", "setAna", "gb", "setGb"} => r \in PhySpeedSet
         /\ r[i] \in {"resetRead", "reset"} =>
              r \in PhyAutonegSet \/ r \in PhyModeSet
         /\ r[i] \in {"type", "value", "constants"} => r \in Calibrated
         /\ r[i] \in {"ctrl", "ext", "ana", "type"} => i = 1
         /\ r[i] \in {"setCtrl", "setExt", "setAna", "value"} => i = 2
         /\ r[i] \in {"resetRead", "gb"} => i = 3
         /\ r[i] \in {"reset", "setGb"} => i = 4
         /\ r[i] = "constants" => i \in 3..Len(r)
<1>1. DOMAIN r = 1..Len(r) /\ i \in 1..Len(r)
  BY RequestShape
<1>2. CASE r \in PhyAutonegSet
  <2>1. i \in 1..4 /\ r[1] = "ctrl" /\ r[2] = "setCtrl" /\ r[3] = "resetRead"
        /\ r[4] = "reset"
    BY <1>1, <1>2, AutonegShape
  <2> QED
    BY <1>2, <2>1
<1>3. CASE r \in PhyModeSet
  <2>1. i \in 1..4 /\ r[1] = "ext" /\ r[2] = "setExt" /\ r[3] = "resetRead"
        /\ r[4] = "reset"
    BY <1>1, <1>3, ModeShape
  <2> QED
    BY <1>3, <2>1
<1>4. CASE r \in PhySpeedSet
  <2>1. i \in 1..4 /\ r[1] = "ana" /\ r[2] = "setAna" /\ r[3] = "gb"
        /\ r[4] = "setGb"
    BY <1>1, <1>4, SpeedShape
  <2> QED
    BY <1>4, <2>1
<1>5. CASE r \in Calibrated
  <2>1. Len(r) \in 3..4 /\ r[1] = "type" /\ r[2] = "value"
        /\ \A j \in 3..Len(r) : r[j] = "constants"
    BY <1>5, CalibratedShape
  <2>2. CASE i \in {1, 2}
    BY <1>5, <2>1, <2>2
  <2>3. CASE i \in 3..Len(r)
    BY <1>5, <2>1, <2>3
  <2>4. i \in {1, 2} \/ i \in 3..Len(r)
    BY <1>1, <2>1
  <2> QED
    BY <2>2, <2>3, <2>4
<1>6. CASE r \notin PhyAutonegSet /\ r \notin PhyModeSet /\ r \notin PhySpeedSet
           /\ r \notin Calibrated
  BY <1>6, OtherShape
<1> QED
  BY <1>2, <1>3, <1>4, <1>5, <1>6

-----------------------------------------------------------------------------
(* The inductive invariant                                                 *)

Holding == \A t \in Threads : call[t].stage = "transfer" <=> lock = t

InBounds ==
  \A t \in Threads :
    /\ call[t].stage # "idle" => /\ call[t].request \in Requests
                                 /\ call[t].arg \in Arguments(call[t].request)
                                 /\ call[t].at <= Len(call[t].request) + 1
                                 /\ \/ call[t].rc = "OK"
                                    \/ call[t].at = Len(call[t].request) + 1
    /\ call[t].stage = "reselect" => call[t].request \in Calibrated /\ call[t].at = 2
    /\ call[t].got = 0 \/ call[t].got + 3 <= call[t].at

\* The advertisement registers have no other bits, and nothing is asked of an
\* empty cage.
ModuleOK ==
  /\ module.regs["ana"] \subseteq {"10", "100"}
  /\ module.regs["gb"] \subseteq {"1000"}
  /\ ~module.plugged => /\ module.regs["ctrl"] = {}
                        /\ goal.ae = "any" /\ goal.speed = "any"

\* sdi_sfp_phy_autoneg_set knows the register it writes, and goes on to the
\* reset only when the PHY is not powered down.
CtrlKnown(t) ==
  (call[t].stage = "transfer" /\ call[t].request \in PhyAutonegSet
     /\ ~call[t].swapped)
    => /\ call[t].at \in 2..4 => module.plugged
       /\ call[t].at = 2 => call[t].data = module.regs["ctrl"]
       /\ call[t].at \in {3, 4} => "PD" \notin module.regs["ctrl"]

\* The reset writes autonegotiation as it was asked for.
ResetKnown(t) ==
  (call[t].stage = "transfer" /\ call[t].at = 4 /\ ~call[t].blind
     /\ (call[t].request \in PhyAutonegSet \/ call[t].request \in PhyModeSet))
    => /\ goal.ae = "on" => "AE" \in call[t].data
       /\ goal.ae = "off" => "AE" \notin call[t].data

\* sdi_sfp_phy_speed_set has set the first register when it comes to the second.
SpeedKnown(t) ==
  (call[t].stage = "transfer" /\ call[t].request \in PhySpeedSet)
    => /\ call[t].at = 2 => call[t].data \subseteq {"10", "100"}
       /\ call[t].at = 4 => call[t].data \subseteq {"1000"}
       /\ call[t].at \in {3, 4} /\ ~call[t].swapped =>
            module.plugged /\ module.regs["ana"] = Abil(call[t].arg)

\* The type that was read is that of the module, and the constants are those
\* that it needs.
CalibrationKnown(t) ==
  (call[t].stage # "idle" /\ call[t].request \in Calibrated
     /\ ~call[t].swapped /\ call[t].rc = "OK")
    => /\ call[t].at <= 2 => call[t].got = 0
       /\ call[t].at >= 2 =>
            module.plugged /\ call[t].external = module.external
       /\ call[t].at >= 3 =>
            call[t].got = IF call[t].external THEN call[t].at - 3 ELSE 0
       /\ call[t].at \in 3..Len(call[t].request) => call[t].external

Known(t) == CtrlKnown(t) /\ ResetKnown(t) /\ SpeedKnown(t) /\ CalibrationKnown(t)

Structure == TypeOK /\ Holding /\ InBounds

IInv ==
  /\ Structure
  /\ ModuleOK
  /\ AutonegGoal
  /\ SpeedGoal
  /\ \A t \in Threads : Known(t)

-----------------------------------------------------------------------------
(* What a transaction does to the call that makes it                       *)

LEMMA Positions ==
  ASSUME NEW n \in 0..5, NEW i \in 1..n
  PROVE  i \in 1..5 /\ i + 1 \in 1..6 /\ n + 1 \in 1..6 /\ i <= n
         /\ i # n + 1
  OBVIOUS

LEMMA BusyType ==
  ASSUME Structure, NEW t \in Threads, Busy(t)
  PROVE  /\ call[t] \in Calls
         /\ call[t].request \in Requests
         /\ call[t].at \in DOMAIN call[t].request
         /\ call[t].at \in 1..5 /\ call[t].at + 1 \in 1..6
         /\ call[t].at <= Len(call[t].request)
         /\ Len(call[t].request) + 1 \in 1..6
         /\ call[t].arg \in Arguments(call[t].request)
         /\ call[t].rc = "OK"
         /\ lock = t
         /\ \A u \in Threads : u # t => call[u].stage # "transfer"
<1>1. call[t] \in Calls /\ call[t].at \in DOMAIN call[t].request
  BY DEF Structure, TypeOK, Busy
<1>2. call[t].request \in Requests /\ call[t].arg \in Arguments(call[t].request)
  BY DEF Structure, InBounds, Busy
<1>3. /\ Len(call[t].request) \in 0..5
      /\ DOMAIN call[t].request = 1..Len(call[t].request)
  BY <1>2, RequestShape
<1>4. lock = t /\ \A u \in Threads : u # t => call[u].stage # "transfer"
  BY DEF Structure, Holding, Busy
<1>5. /\ call[t].at \in 1..5 /\ call[t].at + 1 \in 1..6
      /\ call[t].at <= Len(call[t].request)
      /\ call[t].at # Len(call[t].request) + 1
      /\ Len(call[t].request) + 1 \in 1..6
  BY <1>1, <1>3, Positions
<1>6. call[t].rc = "OK"
  BY <1>5 DEF Structure, InBounds, Busy
<1> QED
  BY <1>1, <1>2, <1>4, <1>5, <1>6

LEMMA KindFacts ==
  ASSUME Structure, NEW t \in Threads, Busy(t)
  PROVE  /\ Kind(t) \in {"ctrl", "setCtrl"} => call[t].request \in PhyAutonegSet
         /\ Kind(t) \in {"ext", "setExt"} => call[t].request \in PhyModeSet
         /\ Kind(t) \in {"ana", "setAna", "gb", "setGb"} =>
              call[t].request \in PhySpeedSet
         /\ Kind(t) \in {"resetRead", "reset"} =>
              call[t].request \in PhyAutonegSet \/ call[t].request \in PhyModeSet
         /\ Kind(t) \in {"type", "value", "constants"} =>
              call[t].request \in Calibrated
         /\ Kind(t) \in {"ctrl", "ext", "ana", "type"} => call[t].at = 1
         /\ Kind(t) \in {"setCtrl", "setExt", "setAna", "value"} => call[t].at = 2
         /\ Kind(t) \in {"resetRead", "gb"} => call[t].at = 3
         /\ Kind(t) \in {"reset", "setGb"} => call[t].at = 4
         /\ Kind(t) = "constants" => call[t].at \in 3..Len(call[t].request)
  BY BusyType, KindIn DEF Kind

\* A call is of one kind.
LEMMA Apart ==
  ASSUME NEW r \in Requests
  PROVE  /\ r \in PhyAutonegSet => r \notin PhyModeSet /\ r \notin PhySpeedSet
                                   /\ r \notin Calibrated /\ Len(r) = 4
         /\ r \in PhyModeSet => r \notin PhyAutonegSet /\ r \notin PhySpeedSet
                                /\ r \notin Calibrated /\ Len(r) = 4
         /\ r \in PhySpeedSet => r \notin PhyAutonegSet /\ r \notin PhyModeSet
                                 /\ r \notin Calibrated /\ Len(r) = 4
         /\ r \in Calibrated => r \notin PhyAutonegSet /\ r \notin PhyModeSet
                                /\ r \notin PhySpeedSet /\ Len(r) \in 3..4
  BY AutonegShape, ModeShape, SpeedShape, CalibratedShape

\* The call of t goes on as c.
Moved(t, c) ==
  /\ c \in Calls
  /\ c.stage = "transfer" /\ c.request = call[t].request
  /\ c.arg = call[t].arg /\ c.swapped = call[t].swapped
  /\ c.at <= Len(call[t].request) + 1
  /\ c.rc = "OK" \/ c.at = Len(call[t].request) + 1
  /\ c.got = 0 \/ c.got + 3 <= c.at
  /\ call' = [call EXCEPT ![t] = c]

\* What there is left to prove of a step that moves the call of t.
LEMMA MovedInv ==
  ASSUME IInv, NEW t \in Threads, Busy(t), NEW c, Moved(t, c), lock' = lock,
         module' \in Modules, module'.plugged = module.plugged,
         module'.external = module.external,
         goal' \in [ae : {"any", "on", "off"}, speed : {"any", "1G", "100M", "10M"}],
         ModuleOK', AutonegGoal', SpeedGoal', Known(t)'
  PROVE  IInv'
<1>1. /\ call'[t] = c /\ \A u \in Threads : u # t => call'[u] = call[u]
      /\ call' \in [Threads -> Calls]
  BY DEF IInv, Structure, TypeOK, Moved
<1>2. TypeOK'
  BY <1>1 DEF IInv, Structure, TypeOK
<1>3. lock = t /\ call[t].stage = "transfer"
  BY BusyType DEF IInv, Busy
<1>4. Holding'
  BY <1>1, <1>3 DEF IInv, Structure, Holding, Moved
<1>5. InBounds'
  <2> SUFFICES ASSUME NEW u \in Threads
               PROVE  /\ call'[u].stage # "idle" =>
                           /\ call'[u].request \in Requests
                           /\ call'[u].arg \in Arguments(call'[u].request)
                           /\ call'[u].at <= Len(call'[u].request) + 1
                           /\ \/ call'[u].rc = "OK"
                              \/ call'[u].at = Len(call'[u].request) + 1
                      /\ call'[u].stage = "reselect" =>
                           call'[u].request \in Calibrated /\ call'[u].at = 2
                      /\ call'[u].got = 0 \/ call'[u].got + 3 <= call'[u].at
    BY DEF InBounds
  <2>1. CASE u = t
    <3>1. call[t].request \in Requests /\ call[t].arg \in Arguments(call[t].request)
      BY BusyType DEF IInv
    <3> QED
      BY <1>1, <2>1, <3>1 DEF Moved
  <2>2. CASE u # t
    BY <1>1, <2>2 DEF IInv, Structure, InBounds
  <2> QED
    BY <2>1, <2>2
<1>6. ASSUME NEW u \in Threads, u # t
      PROVE  Known(u)'
  <2>1. call'[u] = call[u] /\ call[u].stage # "transfer"
    BY <1>1, <1>6, BusyType DEF IInv
  <2>2. CtrlKnown(u)' /\ ResetKnown(u)' /\ SpeedKnown(u)'
    BY <2>1 DEF CtrlKnown, ResetKnown, SpeedKnown
  <2>3. CalibrationKnown(u)'
    BY <2>1 DEF IInv, Known, CalibrationKnown
  <2> QED
    BY <2>2, <2>3 DEF Known
<1> QED
  BY <1>2, <1>4, <1>5, <1>6 DEF IInv, Structure

LEMMA CallType ==
  ASSUME IInv, NEW t \in Threads
  PROVE  /\ call[t] \in Calls
         /\ call \in [Threads -> Calls]
         /\ call[t].at \in 1..6
         /\ call[t].got \in 0..2
         /\ call[t].got = 0 \/ call[t].got + 3 <= call[t].at
         /\ call[t].data \subseteq Bits
         /\ call[t].external \in BOOLEAN
         /\ Known(t)
  BY DEF IInv, Structure, TypeOK, InBounds, Calls

LEMMA ModuleType ==
  ASSUME IInv
  PROVE  /\ module \in Modules
         /\ module.plugged \in BOOLEAN /\ module.external \in BOOLEAN
         /\ module.regs \in [RegisterNames -> SUBSET Bits]
         /\ goal \in [ae : {"any", "on", "off"}, speed : {"any", "1G", "100M", "10M"}]
         /\ ModuleOK /\ AutonegGoal /\ SpeedGoal
  BY DEF IInv, Structure, TypeOK, Modules

\* A transaction that changes neither the module nor what is asked of it.
LEMMA LookInv ==
  ASSUME IInv, NEW t \in Threads, Busy(t), NEW c, Moved(t, c),
         UNCHANGED <<module, lock, goal>>, Known(t)'
  PROVE  IInv'
<1>1. /\ module' \in Modules /\ module'.plugged = module.plugged
      /\ module'.external = module.external /\ lock' = lock
      /\ goal' \in [ae : {"any", "on", "off"}, speed : {"any", "1G", "100M", "10M"}]
  BY ModuleType
<1>2. ModuleOK' /\ AutonegGoal' /\ SpeedGoal'
  BY ModuleType DEF ModuleOK, AutonegGoal, SpeedGoal
<1> QED
  BY <1>1, <1>2, MovedInv

\* Advance and Leave move the call; they change at, and rc.
LEMMA AdvanceMoves ==
  ASSUME IInv, NEW t \in Threads, Busy(t), NEW v \in Calls,
         v.stage = "transfer", v.request = call[t].request,
         v.arg = call[t].arg, v.swapped = call[t].swapped, v.at = call[t].at,
         v.got = 0 \/ v.got + 2 <= v.at, v.rc = call[t].rc,
         Advance(t, v)
  PROVE  \E c : /\ Moved(t, c)
                /\ c.at = call[t].at + 1 /\ c.rc = "OK" /\ c.got = v.got
                /\ c.external = v.external /\ c.data = v.data
                /\ c.blind = v.blind
<1> DEFINE c == [v EXCEPT !.at = @ + 1]
<1>1. call[t].at + 1 \in 1..6 /\ call[t].at \in 1..5
      /\ call[t].at + 1 <= Len(call[t].request) + 1
      /\ call[t].rc = "OK"
  BY BusyType DEF IInv
<1>2. c \in Calls
  BY <1>1 DEF Calls
<1>3. /\ c.at = call[t].at + 1 /\ c.rc = v.rc /\ c.got = v.got
      /\ c.external = v.external /\ c.data = v.data /\ c.blind = v.blind
      /\ c.stage = v.stage /\ c.request = v.request /\ c.arg = v.arg
      /\ c.swapped = v.swapped
  BY DEF Calls
<1>4. call' = [call EXCEPT ![t] = c]
  BY DEF Advance
<1>5. v.got \in 0..2
  BY DEF Calls
<1> HIDE DEF c
<1>6. c.got = 0 \/ c.got + 3 <= c.at
  BY <1>1, <1>3, <1>5
<1>7. Moved(t, c)
  BY <1>1, <1>2, <1>3, <1>4, <1>6 DEF Moved
<1> QED
  BY <1>1, <1>3, <1>7

LEMMA LeaveMoves ==
  ASSUME IInv, NEW t \in Threads, Busy(t), NEW v \in Calls,
         v.stage = "transfer", v.request = call[t].request,
         v.arg = call[t].arg, v.swapped = call[t].swapped,
         v.at = call[t].at, v.got = call[t].got,
         NEW rc \in {"OK", "EIO", "ENOTSUP"}, Leave(t, v, rc)
  PROVE  \E c : /\ Moved(t, c)
                /\ c.at = Len(call[t].request) + 1 /\ c.rc = rc
                /\ c.got = v.got /\ c.external = v.external
                /\ c.data = v.data /\ c.blind = v.blind
<1> DEFINE c == [v EXCEPT !.at = Len(v.request) + 1, !.rc = rc]
<1>1. /\ Len(call[t].request) + 1 \in 1..6 /\ call[t].at \in 1..5
      /\ call[t].at <= Len(call[t].request)
  BY BusyType DEF IInv
<1>2. c \in Calls
  BY <1>1 DEF Calls
<1>3. /\ c.at = Len(call[t].request) + 1 /\ c.rc = rc /\ c.got = v.got
      /\ c.external = v.external /\ c.data = v.data /\ c.blind = v.blind
      /\ c.stage = v.stage /\ c.request = v.request /\ c.arg = v.arg
      /\ c.swapped = v.swapped
  BY DEF Calls
<1>4. call' = [call EXCEPT ![t] = c]
  BY DEF Leave
<1> HIDE DEF c
<1>5. c.got = 0 \/ c.got + 3 <= c.at
  <2>1. call[t].got \in 0..2 /\ (call[t].got = 0 \/ call[t].got + 3 <= call[t].at)
    BY CallType
  <2>2. Len(call[t].request) \in Nat
    BY <1>1, BusyType, RequestShape DEF IInv
  <2> QED
    BY <1>1, <1>3, <2>1, <2>2
<1>6. c.at <= Len(call[t].request) + 1
  BY <1>1, <1>3
<1>7. Moved(t, c)
  BY <1>2, <1>3, <1>4, <1>5, <1>6 DEF Moved
<1> QED
  BY <1>3, <1>7

-----------------------------------------------------------------------------
(* What a call knows after a transaction                                   *)

LEMMA MovedCall ==
  ASSUME IInv, NEW t \in Threads, NEW c, Moved(t, c)
  PROVE  call'[t] = c
  BY CallType DEF Moved

\* A call that is over has no more transactions to know anything for.
LEMMA LeftKnown ==
  ASSUME IInv, NEW t \in Threads, Busy(t), NEW c, Moved(t, c),
         c.at = Len(call[t].request) + 1,
         c.rc # "OK" \/ call[t].request \notin Calibrated
  PROVE  Known(t)'
<1>1. call'[t] = c /\ c.request = call[t].request /\ call[t].request \in Requests
  BY MovedCall, BusyType DEF IInv, Moved
<1>2. ASSUME \/ call[t].request \in PhyAutonegSet
             \/ call[t].request \in PhyModeSet
             \/ call[t].request \in PhySpeedSet
      PROVE  c.at = 5
  <2>1. Len(call[t].request) = 4
    BY <1>1, <1>2, Apart
  <2> QED
    BY <2>1
<1>3. CtrlKnown(t)' /\ ResetKnown(t)' /\ SpeedKnown(t)'
  BY <1>1, <1>2 DEF CtrlKnown, ResetKnown, SpeedKnown
<1>4. CalibrationKnown(t)'
  BY <1>1 DEF CalibrationKnown
<1> QED
  BY <1>3, <1>4 DEF Known

\* A call that only reads knows nothing.
LEMMA OtherKnown ==
  ASSUME IInv, NEW t \in Threads, NEW c, Moved(t, c),
         call[t].request \notin PhyAutonegSet, call[t].request \notin PhyModeSet,
         call[t].request \notin PhySpeedSet, call[t].request \notin Calibrated
  PROVE  Known(t)'
<1>1. call'[t] = c /\ c.request = call[t].request
  BY MovedCall DEF Moved
<1> QED
  BY <1>1 DEF Known, CtrlKnown, ResetKnown, SpeedKnown, CalibrationKnown

\* Of a calibrated read only the last part of Known says anything.
LEMMA CalibratedKnown ==
  ASSUME IInv, NEW t \in Threads, call[t].request \in Calibrated,
         call'[t].request = call[t].request, CalibrationKnown(t)'
  PROVE  Known(t)'
<1>1. call'[t].request \notin PhyAutonegSet /\ call'[t].request \notin PhyModeSet
      /\ call'[t].request \notin PhySpeedSet
  BY CalibratedShape
<1> QED
  BY <1>1 DEF Known, CtrlKnown, ResetKnown, SpeedKnown

-----------------------------------------------------------------------------
(* The memory                                                              *)

LEMMA ReadInv ==
  ASSUME IInv, NEW t \in Threads, Read(t)
  PROVE  IInv'
<1>1. Busy(t) /\ Kind(t) \in {"read", "option"} /\ UNCHANGED <<module, lock, goal>>
  BY DEF Read
<1>2. call[t].request \in Requests /\ call[t].stage = "transfer"
  BY <1>1, BusyType DEF IInv, Busy
<1>3. /\ call[t].request \notin PhyAutonegSet /\ call[t].request \notin PhyModeSet
      /\ call[t].request \notin PhySpeedSet /\ call[t].request \notin Calibrated
  <2> DEFINE r == call[t].request
             i == call[t].at
  <2>1. r \in Requests /\ i \in DOMAIN r /\ Kind(t) = r[i]
    BY <1>1, BusyType DEF IInv, Kind
  <2>2. DOMAIN r = 1..Len(r)
    BY <2>1, RequestShape
  <2>3. r \notin PhyAutonegSet
    <3>1. SUFFICES ASSUME r \in PhyAutonegSet PROVE FALSE
      OBVIOUS
    <3>2. i \in 1..4
      BY <2>1, <2>2, <3>1, AutonegShape
    <3> QED
      BY <1>1, <2>1, <3>1, <3>2, AutonegShape
  <2>4. r \notin PhyModeSet
    <3>1. SUFFICES ASSUME r \in PhyModeSet PROVE FALSE
      OBVIOUS
    <3>2. i \in 1..4
      BY <2>1, <2>2, <3>1, ModeShape
    <3> QED
      BY <1>1, <2>1, <3>1, <3>2, ModeShape
  <2>5. r \notin PhySpeedSet
    <3>1. SUFFICES ASSUME r \in PhySpeedSet PROVE FALSE
      OBVIOUS
    <3>2. i \in 1..4
      BY <2>1, <2>2, <3>1, SpeedShape
    <3> QED
      BY <1>1, <2>1, <3>1, <3>2, SpeedShape
  <2>6. r \notin Calibrated
    <3>1. SUFFICES ASSUME r \in Calibrated PROVE FALSE
      OBVIOUS
    <3>2. i = 1 \/ i = 2 \/ i \in 3..Len(r)
      BY <2>1, <2>2, <3>1, CalibratedShape
    <3> QED
      BY <1>1, <2>1, <3>1, <3>2, CalibratedShape
  <2> QED
    BY <2>3, <2>4, <2>5, <2>6
<1>4. \A c : Moved(t, c) => IInv'
  BY <1>1, <1>3, OtherKnown, LookInv
<1>5. CASE Advance(t, call[t])
  <2>1. call[t].got = 0 \/ call[t].got + 2 <= call[t].at
    BY CallType
  <2> QED
    BY <1>1, <1>2, <1>4, <1>5, <2>1, CallType, AdvanceMoves
<1>6. CASE Leave(t, call[t], "ENOTSUP")
  BY <1>1, <1>2, <1>4, <1>6, CallType, LeaveMoves
<1> QED
  BY <1>5, <1>6 DEF Read

LEMMA ReadValueInv ==
  ASSUME IInv, NEW t \in Threads, ReadValue(t)
  PROVE  IInv'
<1>1. /\ Busy(t) /\ Kind(t) = "value" /\ UNCHANGED <<module, lock, goal>>
      /\ call[t].stage = "transfer" /\ module.plugged
  BY DEF ReadValue, Busy
<1>2. call[t].request \in Calibrated /\ call[t].at = 2
  BY <1>1, KindFacts DEF IInv
<1>3. Len(call[t].request) \in 3..4
  BY <1>2, CalibratedShape
<1>4. ASSUME NEW c, Moved(t, c),
             c.external = call[t].external, c.got = call[t].got,
             c.at \in 3..5,
             c.at = 3 \/ ~c.external,
             c.at \in 3..Len(call[t].request) => c.external
      PROVE  IInv'
  <2>1. call'[t] = c /\ c.request = call[t].request /\ c.swapped = call[t].swapped
    BY <1>4, MovedCall DEF Moved
  <2>2. CalibrationKnown(t)'
    <3>1. ~call[t].swapped /\ call[t].rc = "OK" =>
            /\ call[t].got = 0 /\ module.plugged
            /\ call[t].external = module.external
      BY <1>1, <1>2, CallType DEF Known, CalibrationKnown
    <3>2. call[t].rc = "OK"
      BY <1>1, BusyType DEF IInv
    <3> QED
      BY <1>1, <1>4, <2>1, <3>1, <3>2 DEF CalibrationKnown
  <2>3. Known(t)'
    BY <1>2, <2>1, <2>2, CalibratedKnown
  <2> QED
    BY <1>1, <1>4, <2>3, LookInv
<1>5. CASE call[t].external
  <2>1. call[t].got = 0 \/ call[t].got + 2 <= call[t].at
    BY CallType
  <2>2. Advance(t, call[t])
    BY <1>5 DEF ReadValue
  <2>3. call[t].at + 1 = 3
    BY <1>2
  <2>4. PICK c : /\ Moved(t, c) /\ c.at = 3
                 /\ c.got = call[t].got /\ c.external = call[t].external
    BY <1>1, <2>1, <2>2, <2>3, CallType, AdvanceMoves
  <2>5. c.external /\ c.at \in 3..5
    BY <1>5, <2>4
  <2> QED
    BY <1>4, <2>4, <2>5
<1>6. CASE ~call[t].external
  <2>1. Leave(t, call[t], "OK")
    BY <1>6 DEF ReadValue
  <2>2. PICK c : /\ Moved(t, c) /\ c.at = Len(call[t].request) + 1 /\ c.rc = "OK"
                 /\ c.got = call[t].got /\ c.external = call[t].external
    BY <1>1, <2>1, CallType, LeaveMoves
  <2>3. c.at \in 3..5 /\ c.at \notin 3..Len(call[t].request)
    <3>1. \A n \in 3..4 : n + 1 \in 3..5 /\ n + 1 \notin 3..n
      OBVIOUS
    <3> QED
      BY <1>3, <2>2, <3>1
  <2> QED
    BY <1>4, <1>6, <2>2, <2>3
<1> QED
  BY <1>5, <1>6

LEMMA ReadConstantsInv ==
  ASSUME IInv, NEW t \in Threads, ReadConstants(t)
  PROVE  IInv'
<1>1. /\ Busy(t) /\ Kind(t) = "constants" /\ UNCHANGED <<module, lock, goal>>
      /\ call[t].stage = "transfer" /\ module.plugged
  BY DEF ReadConstants, Busy
<1>2. call[t].request \in Calibrated /\ call[t].at \in 3..Len(call[t].request)
  BY <1>1, KindFacts DEF IInv
<1>3. Len(call[t].request) \in 3..4 /\ call[t].at \in 3..4
  <2>1. \A n \in 3..4 : \A i \in 3..n : i \in 3..4
    OBVIOUS
  <2> QED
    BY <1>2, <2>1, CalibratedShape
<1>4. /\ call[t].got \in 0..1 /\ call[t].got + 1 \in 0..2
      /\ call[t].got + 1 = 0 \/ (call[t].got + 1) + 2 <= call[t].at
  BY <1>3, CallType
<1> DEFINE v == [call[t] EXCEPT !.got = @ + 1]
<1>5. v \in Calls
  BY <1>4, CallType DEF Calls
<1>6. /\ v.stage = "transfer" /\ v.request = call[t].request
      /\ v.arg = call[t].arg /\ v.swapped = call[t].swapped
      /\ v.at = call[t].at /\ v.rc = call[t].rc
      /\ v.got = call[t].got + 1 /\ v.external = call[t].external
  BY <1>1, CallType DEF Calls
<1>7. Advance(t, v)
  BY DEF ReadConstants
<1> HIDE DEF v
<1>8. PICK c : /\ Moved(t, c) /\ c.at = call[t].at + 1
               /\ c.got = v.got /\ c.external = v.external
  BY <1>1, <1>4, <1>5, <1>6, <1>7, AdvanceMoves
<1>9. call'[t] = c /\ c.request = call[t].request /\ c.swapped = call[t].swapped
  BY <1>8, MovedCall DEF Moved
<1>10. CalibrationKnown(t)'
  <2>1. call[t].rc = "OK"
    BY <1>1, BusyType DEF IInv
  <2>2. ~call[t].swapped =>
          /\ call[t].external = module.external /\ call[t].external
          /\ call[t].got = call[t].at - 3
    BY <1>1, <1>2, <1>3, <2>1, CallType DEF Known, CalibrationKnown
  <2> QED
    BY <1>1, <1>3, <1>6, <1>8, <1>9, <2>2 DEF CalibrationKnown
<1>11. Known(t)'
  BY <1>2, <1>9, <1>10, CalibratedKnown
<1> QED
  BY <1>1, <1>8, <1>11, LookInv

LEMMA Reselecting ==
  ASSUME NEW v \in Calls, NEW external \in BOOLEAN
  PROVE  [v EXCEPT !.stage = "reselect", !.at = 2, !.external = external] \in Calls
<1> DEFINE w == [v EXCEPT !.stage = "reselect", !.at = 2, !.external = external]
<1>1. /\ w = [f \in DOMAIN v |-> w[f]]
      /\ w.stage = "reselect" /\ w.at = 2 /\ w.external = external
      /\ w.request = v.request /\ w.arg = v.arg /\ w.rc = v.rc
      /\ w.got = v.got /\ w.data = v.data /\ w.blind = v.blind
      /\ w.swapped = v.swapped
  BY DEF Calls
<1> HIDE DEF w
<1>2. /\ v.request \in Requests \cup {<<>>} /\ v.arg \in AllArguments
      /\ v.rc \in {"OK", "EIO", "ENOTSUP"} /\ v.got \in 0..2
      /\ v.data \in SUBSET Bits /\ v.blind \in BOOLEAN
      /\ v.swapped \in BOOLEAN
      /\ DOMAIN v = {"stage", "request", "at", "arg", "rc", "external", "got",
                      "data", "blind", "swapped"}
  BY DEF Calls
<1>3. w \in Calls
  BY <1>1, <1>2 DEF Calls
<1> QED
  BY <1>3 DEF w

LEMMA ReadTypeInv ==
  ASSUME IInv, NEW t \in Threads, ReadType(t)
  PROVE  IInv'
<1>1. /\ Busy(t) /\ Kind(t) = "type" /\ UNCHANGED <<module, goal>>
      /\ call[t].stage = "transfer" /\ module.plugged
  BY DEF ReadType, Busy
<1>2. /\ call[t].request \in Calibrated /\ call[t].at = 1
      /\ call[t].request \in Requests /\ lock = t /\ call[t].rc = "OK"
      /\ call[t].arg \in Arguments(call[t].request)
      /\ \A u \in Threads : u # t => call[u].stage # "transfer"
  BY <1>1, KindFacts, BusyType DEF IInv
<1>3. Len(call[t].request) \in 3..4
  BY <1>2, CalibratedShape
<1>4. CASE Leave(t, call[t], "ENOTSUP") /\ lock' = lock
  <2>1. PICK c : /\ Moved(t, c) /\ c.at = Len(call[t].request) + 1
                 /\ c.rc = "ENOTSUP"
    BY <1>1, <1>4, CallType, LeaveMoves
  <2>2. Known(t)'
    BY <1>1, <2>1, LeftKnown
  <2> QED
    BY <1>1, <1>4, <2>1, <2>2, LookInv
<1>5. CASE /\ call' = [call EXCEPT ![t].stage = "reselect", ![t].at = 2,
                                   ![t].external = module.external]
           /\ lock' = NoThread
  <2> DEFINE c == [call[t] EXCEPT !.stage = "reselect", !.at = 2,
                                  !.external = module.external]
  <2>1. c \in Calls
    <3>1. call[t] \in Calls /\ module.external \in BOOLEAN
      BY CallType, ModuleType
    <3> QED
      BY <3>1, Reselecting
  <2>2. /\ c.stage = "reselect" /\ c.at = 2 /\ c.external = module.external
        /\ c.request = call[t].request /\ c.arg = call[t].arg
        /\ c.rc = call[t].rc /\ c.got = call[t].got
        /\ c.swapped = call[t].swapped
    BY CallType DEF Calls
  <2>3. call' = [call EXCEPT ![t] = c]
    BY <1>5
  <2> HIDE DEF c
  <2>4. /\ call'[t] = c /\ \A u \in Threads : u # t => call'[u] = call[u]
        /\ call' \in [Threads -> Calls]
    BY <2>1, <2>3, CallType
  <2>5. TypeOK'
    BY <1>1, <1>5, <2>4 DEF IInv, Structure, TypeOK
  <2>6. Holding'
    BY <1>2, <1>5, <2>2, <2>4, ThreadAssumption DEF Holding
  <2>7. call[t].got = 0
    BY <1>2, CallType
  <2>8. InBounds'
    <3> SUFFICES ASSUME NEW u \in Threads
                 PROVE  /\ call'[u].stage # "idle" =>
                             /\ call'[u].request \in Requests
                             /\ call'[u].arg \in Arguments(call'[u].request)
                             /\ call'[u].at <= Len(call'[u].request) + 1
                             /\ \/ call'[u].rc = "OK"
                                \/ call'[u].at = Len(call'[u].request) + 1
                        /\ call'[u].stage = "reselect" =>
                             call'[u].request \in Calibrated /\ call'[u].at = 2
                        /\ call'[u].got = 0 \/ call'[u].got + 3 <= call'[u].at
      BY DEF InBounds
    <3>1. CASE u = t
      <4>1. 2 <= Len(call[t].request) + 1
        BY <1>3
      <4> QED
        BY <1>2, <2>2, <2>4, <2>7, <3>1, <4>1
    <3>2. CASE u # t
      BY <2>4, <3>2 DEF IInv, Structure, InBounds
    <3> QED
      BY <3>1, <3>2
  <2>9. ModuleOK' /\ AutonegGoal' /\ SpeedGoal'
    BY <1>1, ModuleType DEF ModuleOK, AutonegGoal, SpeedGoal
  <2>10. ASSUME NEW u \in Threads
         PROVE  Known(u)'
    <3>1. call'[u].stage # "transfer"
      BY <1>2, <2>2, <2>4
    <3>2. CtrlKnown(u)' /\ ResetKnown(u)' /\ SpeedKnown(u)'
      BY <3>1 DEF CtrlKnown, ResetKnown, SpeedKnown
    <3>3. CalibrationKnown(u)'
      <4>1. CASE u = t
        BY <1>1, <2>2, <2>4, <2>7, <4>1 DEF CalibrationKnown
      <4>2. CASE u # t
        BY <1>1, <2>4, <4>2, CallType DEF Known, CalibrationKnown
      <4> QED
        BY <4>1, <4>2
    <3> QED
      BY <3>2, <3>3 DEF Known
  <2> QED
    BY <2>5, <2>6, <2>8, <2>9, <2>10 DEF IInv, Structure
<1> QED
  BY <1>4, <1>5 DEF ReadType

-----------------------------------------------------------------------------
(* Reads of the PHY                                                        *)

LEMMA PhyReadInv ==
  ASSUME IInv, NEW t \in Threads, PhyRead(t)
  PROVE  IInv'
<1> DEFINE read == module.regs[RegisterOf(Kind(t))]
           v == [call[t] EXCEPT !.data = read]
<1>1. /\ Busy(t) /\ Kind(t) \in PhyReads /\ UNCHANGED <<module, lock, goal>>
      /\ call[t].stage = "transfer" /\ module.plugged /\ Advance(t, v)
  BY DEF PhyRead, Busy
<1>2. RegisterOf(Kind(t)) \in RegisterNames
  BY <1>1 DEF RegisterOf, RegisterNames, PhyReads
<1>3. read \subseteq Bits
  BY <1>2, ModuleType
<1>4. v \in Calls
  BY <1>3, CallType DEF Calls
<1>5. /\ v.stage = "transfer" /\ v.request = call[t].request
      /\ v.arg = call[t].arg /\ v.swapped = call[t].swapped
      /\ v.at = call[t].at /\ v.rc = call[t].rc /\ v.got = call[t].got
      /\ v.external = call[t].external /\ v.data = read
      /\ v.blind = call[t].blind
  BY <1>1, CallType DEF Calls
<1> HIDE DEF v
<1>6. v.got = 0 \/ v.got + 2 <= v.at
  BY <1>5, CallType
<1>7. PICK c : Moved(t, c) /\ c.at = call[t].at + 1 /\ c.data = read
               /\ c.blind = call[t].blind
  BY <1>1, <1>4, <1>5, <1>6, AdvanceMoves
<1>8. /\ call'[t] = c /\ c.request = call[t].request
      /\ c.swapped = call[t].swapped /\ c.arg = call[t].arg
  BY <1>7, MovedCall DEF Moved
<1>9. call[t].request \in Requests
  BY <1>1, BusyType DEF IInv
<1>10. Known(t)'
  <2>1. CASE Kind(t) = "ctrl"
    <3>1. call[t].request \in PhyAutonegSet /\ call[t].at = 1 /\ c.at = 2
      BY <1>1, <1>7, <2>1, KindFacts DEF IInv
    <3>2. read = module.regs["ctrl"]
      BY <2>1 DEF RegisterOf
    <3> QED
      BY <1>1, <1>7, <1>8, <3>1, <3>2, AutonegShape
         DEF Known, CtrlKnown, ResetKnown, SpeedKnown, CalibrationKnown
  <2>2. CASE Kind(t) = "ext"
    <3>1. call[t].request \in PhyModeSet /\ call[t].at = 1 /\ c.at = 2
      BY <1>1, <1>7, <2>2, KindFacts DEF IInv
    <3> QED
      BY <1>1, <1>7, <1>8, <3>1, ModeShape
         DEF Known, CtrlKnown, ResetKnown, SpeedKnown, CalibrationKnown
  <2>3. CASE Kind(t) = "ana"
    <3>1. call[t].request \in PhySpeedSet /\ call[t].at = 1 /\ c.at = 2
      BY <1>1, <1>7, <2>3, KindFacts DEF IInv
    <3>2. read = module.regs["ana"] /\ read \subseteq {"10", "100"}
      BY <2>3, ModuleType DEF RegisterOf, ModuleOK
    <3> QED
      BY <1>1, <1>7, <1>8, <3>1, <3>2, SpeedShape
         DEF Known, CtrlKnown, ResetKnown, SpeedKnown, CalibrationKnown
  <2>4. CASE Kind(t) = "gb"
    <3>1. call[t].request \in PhySpeedSet /\ call[t].at = 3 /\ c.at = 4
      BY <1>1, <1>7, <2>4, KindFacts DEF IInv
    <3>2. read = module.regs["gb"] /\ read \subseteq {"1000"}
      BY <2>4, ModuleType DEF RegisterOf, ModuleOK
    <3>3. ~call[t].swapped => module.regs["ana"] = Abil(call[t].arg)
      BY <1>1, <3>1, CallType DEF Known, SpeedKnown
    <3>4. SpeedKnown(t)'
      BY <1>1, <1>7, <1>8, <3>1, <3>2, <3>3 DEF SpeedKnown
    <3> QED
      BY <1>8, <3>1, <3>4, SpeedShape
         DEF Known, CtrlKnown, ResetKnown, CalibrationKnown
  <2>5. CASE Kind(t) = "resetRead"
    <3>1. /\ call[t].request \in PhyAutonegSet \/ call[t].request \in PhyModeSet
          /\ call[t].at = 3 /\ c.at = 4
      BY <1>1, <1>7, <2>5, KindFacts DEF IInv
    <3>2. read = module.regs["ctrl"]
      BY <2>5 DEF RegisterOf
    <3>3. ResetKnown(t)'
      BY <1>1, <1>7, <1>8, <3>2, ModuleType DEF ResetKnown, AutonegGoal
    <3>4. CtrlKnown(t)'
      <4>1. call[t].request \in PhyAutonegSet /\ ~call[t].swapped =>
              "PD" \notin module.regs["ctrl"]
        BY <1>1, <3>1, CallType DEF Known, CtrlKnown
      <4> QED
        BY <1>1, <1>8, <3>1, <4>1 DEF CtrlKnown
    <3> QED
      BY <1>8, <1>9, <3>1, <3>3, <3>4, Apart
         DEF Known, SpeedKnown, CalibrationKnown
  <2> QED
    BY <1>1, <2>1, <2>2, <2>3, <2>4, <2>5 DEF PhyReads
<1> QED
  BY <1>1, <1>7, <1>10, LookInv

-----------------------------------------------------------------------------
(* Writes of the PHY                                                       *)

LEMMA NewDataCases ==
  ASSUME NEW t
  PROVE  /\ Kind(t) = "setCtrl" =>
              NewData(t) = IF call[t].arg = "on" THEN call[t].data \cup {"AE"}
                                                ELSE call[t].data \ {"AE"}
         /\ Kind(t) = "setExt" =>
              NewData(t) = IF call[t].arg = "sgmii" THEN {"AE", "SGMII"}
                                                   ELSE call[t].data
         /\ Kind(t) = "setAna" => NewData(t) = Advertised(t)
         /\ Kind(t) = "setGb" => NewData(t) = AdvertisedGB(t)
         /\ Kind(t) = "reset" => NewData(t) = call[t].data
  BY Zenon DEF NewData

LEMMA NewGoalCases ==
  ASSUME NEW t, NEW failed
  PROVE  /\ Kind(t) = "setCtrl" =>
              NewGoal(t, failed) =
                [goal EXCEPT !.ae = IF failed THEN "any" ELSE call[t].arg]
         /\ Kind(t) = "setExt" => NewGoal(t, failed) = goal
         /\ Kind(t) = "setAna" => NewGoal(t, failed) = [goal EXCEPT !.speed = "any"]
         /\ Kind(t) = "setGb" =>
              NewGoal(t, failed) =
                [goal EXCEPT !.speed = IF failed \/ call[t].swapped THEN "any"
                                                                   ELSE call[t].arg]
         /\ Kind(t) = "reset" =>
              NewGoal(t, failed) =
                [goal EXCEPT !.ae = IF call[t].blind THEN "any" ELSE @]
  BY Zenon DEF NewGoal

LEMMA RegisterCases ==
  ASSUME NEW kind
  PROVE  /\ kind \in {"setCtrl", "reset"} => RegisterOf(kind) = "ctrl"
         /\ kind = "setExt" => RegisterOf(kind) = "ext"
         /\ kind = "setAna" => RegisterOf(kind) = "ana"
         /\ kind = "setGb" => RegisterOf(kind) = "gb"
         /\ kind \in PhyWrites => RegisterOf(kind) \in RegisterNames
  BY DEF RegisterOf, RegisterNames, PhyWrites

\* The advertised speeds do not depend on what was read.
LEMMA AdvertisedIs ==
  ASSUME NEW t
  PROVE  /\ call[t].data \subseteq {"10", "100"} => Advertised(t) = Abil(call[t].arg)
         /\ call[t].data \subseteq {"1000"} => AdvertisedGB(t) = AbilGB(call[t].arg)
  BY DEF Advertised, AdvertisedGB

LEMMA AbilIn ==
  ASSUME NEW speed
  PROVE  /\ Abil(speed) \subseteq {"10", "100"}
         /\ AbilGB(speed) \subseteq {"1000"}
  BY DEF Abil, AbilGB

LEMMA NewDataType ==
  ASSUME IInv, NEW t \in Threads, Busy(t), Kind(t) \in PhyWrites
  PROVE  NewData(t) \subseteq Bits
<1>1. call[t].data \subseteq Bits
  BY CallType
<1>2. Kind(t) = "setCtrl" \/ Kind(t) = "setExt" \/ Kind(t) = "reset"
        => NewData(t) \subseteq Bits
  BY <1>1, NewDataCases DEF Bits
<1>3. Kind(t) = "setAna" => NewData(t) \subseteq Bits
  BY <1>1, NewDataCases, AbilIn DEF Bits, Advertised
<1>4. Kind(t) = "setGb" => NewData(t) \subseteq Bits
  BY <1>1, NewDataCases, AbilIn DEF Bits, AdvertisedGB
<1> QED
  BY <1>2, <1>3, <1>4 DEF PhyWrites

\* What is written of the two advertisement registers.
LEMMA SpeedWritten ==
  ASSUME IInv, NEW t \in Threads, Busy(t)
  PROVE  /\ Kind(t) = "setAna" => /\ NewData(t) = Abil(call[t].arg)
                                  /\ NewData(t) \subseteq {"10", "100"}
         /\ Kind(t) = "setGb" =>
              /\ NewData(t) = AbilGB(call[t].arg)
              /\ NewData(t) \subseteq {"1000"}
              /\ ~call[t].swapped => module.regs["ana"] = Abil(call[t].arg)
<1>1. CASE Kind(t) = "setAna"
  <2>1. call[t].request \in PhySpeedSet /\ call[t].at = 2
    BY <1>1, KindFacts DEF IInv
  <2>2. call[t].data \subseteq {"10", "100"}
    BY <2>1, CallType DEF Known, SpeedKnown, Busy
  <2> QED
    BY <1>1, <2>2, NewDataCases, AdvertisedIs, AbilIn
<1>2. CASE Kind(t) = "setGb"
  <2>1. call[t].request \in PhySpeedSet /\ call[t].at = 4
    BY <1>2, KindFacts DEF IInv
  <2>2. /\ call[t].data \subseteq {"1000"}
        /\ ~call[t].swapped => module.regs["ana"] = Abil(call[t].arg)
    BY <2>1, CallType DEF Known, SpeedKnown, Busy
  <2> QED
    BY <1>2, <2>2, NewDataCases, AdvertisedIs, AbilIn
<1> QED
  BY <1>1, <1>2

\* The module after a write that was carried out.
Wrote(t) ==
  /\ Busy(t) /\ Kind(t) \in PhyWrites /\ module.plugged
  /\ module' = [module EXCEPT !.regs = Written(t)]

LEMMA WroteRegs ==
  ASSUME IInv, NEW t \in Threads, Wrote(t)
  PROVE  /\ module' \in Modules
         /\ module'.plugged = module.plugged /\ module'.external = module.external
         /\ \A r \in RegisterNames :
              module'.regs[r] = IF r # RegisterOf(Kind(t)) THEN module.regs[r]
                                ELSE IF Kind(t) = "reset" THEN NewData(t) \ {"PD"}
                                ELSE NewData(t)
<1>1. RegisterOf(Kind(t)) \in RegisterNames
  BY RegisterCases DEF Wrote
<1>2. NewData(t) \in SUBSET Bits /\ NewData(t) \ {"PD"} \in SUBSET Bits
  BY NewDataType DEF Wrote
<1>3. module.regs \in [RegisterNames -> SUBSET Bits]
  BY ModuleType
<1>4. /\ Written(t) \in [RegisterNames -> SUBSET Bits]
      /\ \A r \in RegisterNames :
           Written(t)[r] = IF r # RegisterOf(Kind(t)) THEN module.regs[r]
                           ELSE IF Kind(t) = "reset" THEN NewData(t) \ {"PD"}
                           ELSE NewData(t)
  BY <1>1, <1>2, <1>3 DEF Written
<1>5. /\ [module EXCEPT !.regs = Written(t)] \in Modules
      /\ [module EXCEPT !.regs = Written(t)].plugged = module.plugged
      /\ [module EXCEPT !.regs = Written(t)].external = module.external
      /\ [module EXCEPT !.regs = Written(t)].regs = Written(t)
  BY <1>4, ModuleType DEF Modules
<1> QED
  BY <1>4, <1>5 DEF Wrote

Goals == [ae : {"any", "on", "off"}, speed : {"any", "1G", "100M", "10M"}]

\* What is asked of the PHY after a write.
LEMMA GoalAfter ==
  ASSUME IInv, NEW t \in Threads, Busy(t), Kind(t) \in PhyWrites,
         NEW failed \in BOOLEAN, NEW g, g = NewGoal(t, failed)
  PROVE  /\ g \in Goals
         /\ g.ae = IF Kind(t) = "setCtrl"
                   THEN (IF failed THEN "any" ELSE call[t].arg)
                   ELSE IF Kind(t) = "reset" /\ call[t].blind THEN "any"
                   ELSE goal.ae
         /\ g.speed = IF Kind(t) = "setAna" THEN "any"
                      ELSE IF Kind(t) = "setGb"
                      THEN (IF failed \/ call[t].swapped THEN "any"
                                                        ELSE call[t].arg)
                      ELSE goal.speed
<1>1. goal \in Goals
  BY ModuleType DEF Goals
<1>2. CASE Kind(t) = "setCtrl"
  <2>1. call[t].request \in PhyAutonegSet /\ call[t].request \in Requests
    BY <1>2, KindFacts, BusyType DEF IInv
  <2>2. call[t].arg \in {"on", "off"}
    BY <2>1, BusyType, ArgumentsOf DEF IInv
  <2>3. g = [goal EXCEPT !.ae = IF failed THEN "any" ELSE call[t].arg]
    BY <1>2, NewGoalCases
  <2> QED
    BY <1>1, <1>2, <2>2, <2>3 DEF Goals
<1>3. CASE Kind(t) = "setExt"
  <2>1. g = goal
    BY <1>3, NewGoalCases
  <2> QED
    BY <1>1, <1>3, <2>1
<1>4. CASE Kind(t) = "setAna"
  <2>1. g = [goal EXCEPT !.speed = "any"]
    BY <1>4, NewGoalCases
  <2> QED
    BY <1>1, <1>4, <2>1 DEF Goals
<1>5. CASE Kind(t) = "setGb"
  <2>1. call[t].request \in PhySpeedSet /\ call[t].request \in Requests
    BY <1>5, KindFacts, BusyType DEF IInv
  <2>2. call[t].arg \in {"1G", "100M", "10M"}
    BY <2>1, BusyType, ArgumentsOf DEF IInv
  <2>3. g = [goal EXCEPT !.speed = IF failed \/ call[t].swapped THEN "any"
                                                               ELSE call[t].arg]
    BY <1>5, NewGoalCases
  <2> QED
    BY <1>1, <1>5, <2>2, <2>3 DEF Goals
<1>6. CASE Kind(t) = "reset"
  <2>1. g = [goal EXCEPT !.ae = IF call[t].blind THEN "any" ELSE @]
    BY <1>6, NewGoalCases
  <2> QED
    BY <1>1, <1>6, <2>1 DEF Goals
<1> QED
  BY <1>2, <1>3, <1>4, <1>5, <1>6 DEF PhyWrites

\* A write that was carried out leaves the PHY as it was asked for.
LEMMA WroteGoals ==
  ASSUME IInv, NEW t \in Threads, Wrote(t), NEW failed \in BOOLEAN,
         goal' = NewGoal(t, failed)
  PROVE  goal' \in Goals /\ ModuleOK' /\ AutonegGoal' /\ SpeedGoal'
<1> DEFINE new == NewData(t)
<1>1. Busy(t) /\ Kind(t) \in PhyWrites /\ module.plugged
  BY DEF Wrote
<1>2. /\ goal' \in Goals
      /\ goal'.ae = IF Kind(t) = "setCtrl"
                    THEN (IF failed THEN "any" ELSE call[t].arg)
                    ELSE IF Kind(t) = "reset" /\ call[t].blind THEN "any"
                    ELSE goal.ae
      /\ goal'.speed = IF Kind(t) = "setAna" THEN "any"
                       ELSE IF Kind(t) = "setGb"
                       THEN (IF failed \/ call[t].swapped THEN "any"
                                                         ELSE call[t].arg)
                       ELSE goal.speed
  BY <1>1, GoalAfter
<1>3. /\ module'.plugged
      /\ \A r \in RegisterNames :
           module'.regs[r] = IF r # RegisterOf(Kind(t)) THEN module.regs[r]
                             ELSE IF Kind(t) = "reset" THEN new \ {"PD"}
                             ELSE new
  BY <1>1, WroteRegs
<1>4. /\ "ctrl" \in RegisterNames /\ "ana" \in RegisterNames
      /\ "gb" \in RegisterNames
  BY DEF RegisterNames
<1> HIDE DEF new
<1>5. ModuleOK /\ AutonegGoal /\ SpeedGoal
  BY ModuleType
<1>6. CASE Kind(t) = "setCtrl"
  <2>1. RegisterOf(Kind(t)) = "ctrl"
    BY <1>6, RegisterCases
  <2>2. /\ module'.regs["ctrl"] = new /\ module'.regs["ana"] = module.regs["ana"]
        /\ module'.regs["gb"] = module.regs["gb"]
    BY <1>3, <1>4, <1>6, <2>1
  <2>3. new = IF call[t].arg = "on" THEN call[t].data \cup {"AE"}
                                    ELSE call[t].data \ {"AE"}
    BY <1>6, NewDataCases DEF new
  <2>4. goal'.ae = "any" \/ goal'.ae = call[t].arg
    BY <1>2, <1>6
  <2>5. AutonegGoal'
    BY <2>2, <2>3, <2>4 DEF AutonegGoal
  <2>6. goal'.speed = goal.speed
    BY <1>2, <1>6
  <2> QED
    BY <1>2, <1>3, <1>5, <2>2, <2>5, <2>6 DEF ModuleOK, SpeedGoal
<1>7. CASE Kind(t) = "setExt"
  <2>1. RegisterOf(Kind(t)) = "ext"
    BY <1>7, RegisterCases
  <2>2. /\ module'.regs["ctrl"] = module.regs["ctrl"]
        /\ module'.regs["ana"] = module.regs["ana"]
        /\ module'.regs["gb"] = module.regs["gb"]
    BY <1>3, <1>4, <2>1
  <2>3. goal'.speed = goal.speed /\ goal'.ae = goal.ae
    BY <1>2, <1>7
  <2> QED
    BY <1>2, <1>3, <1>5, <2>2, <2>3 DEF ModuleOK, AutonegGoal, SpeedGoal
<1>8. CASE Kind(t) = "setAna"
  <2>1. RegisterOf(Kind(t)) = "ana"
    BY <1>8, RegisterCases
  <2>2. /\ module'.regs["ctrl"] = module.regs["ctrl"]
        /\ module'.regs["ana"] = new
        /\ module'.regs["gb"] = module.regs["gb"]
    BY <1>3, <1>4, <1>8, <2>1
  <2>3. goal'.speed = "any" /\ goal'.ae = goal.ae
    BY <1>2, <1>8
  <2>4. new \subseteq {"10", "100"}
    BY <1>1, <1>8, SpeedWritten DEF new
  <2> QED
    BY <1>2, <1>3, <1>5, <2>2, <2>3, <2>4 DEF ModuleOK, AutonegGoal, SpeedGoal
<1>9. CASE Kind(t) = "setGb"
  <2>1. RegisterOf(Kind(t)) = "gb"
    BY <1>9, RegisterCases
  <2>2. /\ module'.regs["ctrl"] = module.regs["ctrl"]
        /\ module'.regs["ana"] = module.regs["ana"]
        /\ module'.regs["gb"] = new
    BY <1>3, <1>4, <1>9, <2>1
  <2>3. /\ goal'.ae = goal.ae
        /\ goal'.speed = "any" \/ (goal'.speed = call[t].arg /\ ~call[t].swapped)
    BY <1>2, <1>9
  <2>4. /\ new \subseteq {"1000"} /\ new = AbilGB(call[t].arg)
        /\ ~call[t].swapped => module.regs["ana"] = Abil(call[t].arg)
    BY <1>1, <1>9, SpeedWritten DEF new
  <2>5. SpeedGoal'
    BY <2>2, <2>3, <2>4 DEF SpeedGoal
  <2> QED
    BY <1>2, <1>3, <1>5, <2>2, <2>3, <2>4, <2>5 DEF ModuleOK, AutonegGoal
<1>10. CASE Kind(t) = "reset"
  <2>1. RegisterOf(Kind(t)) = "ctrl"
    BY <1>10, RegisterCases
  <2>2. /\ module'.regs["ctrl"] = new \ {"PD"}
        /\ module'.regs["ana"] = module.regs["ana"]
        /\ module'.regs["gb"] = module.regs["gb"]
    BY <1>3, <1>4, <1>10, <2>1
  <2>3. /\ goal'.speed = goal.speed
        /\ goal'.ae = "any" \/ (goal'.ae = goal.ae /\ ~call[t].blind)
    BY <1>2, <1>10
  <2>4. new = call[t].data
    BY <1>10, NewDataCases DEF new
  <2>5. /\ call[t].request \in PhyAutonegSet \/ call[t].request \in PhyModeSet
        /\ call[t].at = 4 /\ call[t].stage = "transfer"
    BY <1>1, <1>10, KindFacts DEF IInv, Busy
  <2>6. ~call[t].blind => /\ goal.ae = "on" => "AE" \in call[t].data
                          /\ goal.ae = "off" => "AE" \notin call[t].data
    BY <2>5, CallType DEF Known, ResetKnown
  <2>7. AutonegGoal'
    BY <2>2, <2>3, <2>4, <2>6 DEF AutonegGoal
  <2> QED
    BY <1>2, <1>3, <1>5, <2>2, <2>3, <2>7 DEF ModuleOK, SpeedGoal
<1> QED
  BY <1>1, <1>6, <1>7, <1>8, <1>9, <1>10 DEF PhyWrites

\* A write that was not carried out takes back what is asked of the PHY.
LEMMA LostGoals ==
  ASSUME IInv, NEW t \in Threads, Busy(t), module' = module,
         goal' = IF Kind(t) \in PhyWrites THEN NewGoal(t, TRUE) ELSE goal
  PROVE  goal' \in Goals /\ ModuleOK' /\ AutonegGoal' /\ SpeedGoal'
<1>1. ModuleOK /\ AutonegGoal /\ SpeedGoal /\ goal \in Goals
  BY ModuleType DEF Goals
<1>2. CASE Kind(t) \in PhyWrites
  <2>1. goal' \in Goals
    BY <1>2, GoalAfter
  <2>2. goal'.ae = "any" \/ goal'.ae = goal.ae
    BY <1>2, GoalAfter
  <2>3. goal'.speed = "any" \/ goal'.speed = goal.speed
    BY <1>2, GoalAfter
  <2> QED
    BY <1>1, <2>1, <2>2, <2>3 DEF ModuleOK, AutonegGoal, SpeedGoal
<1>3. CASE Kind(t) \notin PhyWrites
  BY <1>1, <1>3 DEF ModuleOK, AutonegGoal, SpeedGoal
<1> QED
  BY <1>2, <1>3

\* A write after which the call goes on.
LEMMA WriteAdvanceInv ==
  ASSUME IInv, NEW t \in Threads, Wrote(t), lock' = lock,
         goal' = NewGoal(t, FALSE),
         ~(Kind(t) \in {"setCtrl", "setExt"} /\ "PD" \in NewData(t)),
         Advance(t, [call[t] EXCEPT !.data = NewData(t)])
  PROVE  IInv'
<1> DEFINE v == [call[t] EXCEPT !.data = NewData(t)]
<1>1. /\ Busy(t) /\ Kind(t) \in PhyWrites /\ call[t].stage = "transfer"
      /\ module.plugged
  BY DEF Wrote, Busy
<1>2. v \in Calls
  BY <1>1, NewDataType, CallType DEF Calls
<1>3. /\ v.stage = "transfer" /\ v.request = call[t].request
      /\ v.arg = call[t].arg /\ v.swapped = call[t].swapped
      /\ v.at = call[t].at /\ v.rc = call[t].rc /\ v.got = call[t].got
      /\ v.data = NewData(t)
  BY <1>1, CallType DEF Calls
<1>4. Advance(t, v)
  OBVIOUS
<1> HIDE DEF v
<1>5. v.got = 0 \/ v.got + 2 <= v.at
  BY <1>3, CallType
<1>6. PICK c : Moved(t, c) /\ c.at = call[t].at + 1
  BY <1>1, <1>2, <1>3, <1>4, <1>5, AdvanceMoves
<1>7. /\ call'[t] = c /\ c.request = call[t].request
      /\ c.swapped = call[t].swapped /\ c.arg = call[t].arg
      /\ call[t].request \in Requests
  BY <1>1, <1>6, MovedCall, BusyType DEF IInv, Moved
<1>8. /\ module' \in Modules /\ module'.plugged = module.plugged
      /\ module'.external = module.external
      /\ \A r \in RegisterNames :
           module'.regs[r] = IF r # RegisterOf(Kind(t)) THEN module.regs[r]
                             ELSE IF Kind(t) = "reset" THEN NewData(t) \ {"PD"}
                             ELSE NewData(t)
  BY WroteRegs
<1>9. goal' \in Goals /\ ModuleOK' /\ AutonegGoal' /\ SpeedGoal'
  BY WroteGoals
<1>10. Known(t)'
  <2>1. CASE Kind(t) = "setCtrl"
    <3>1. call[t].request \in PhyAutonegSet /\ call[t].at = 2 /\ c.at = 3
      BY <1>1, <1>6, <2>1, KindFacts DEF IInv
    <3>2. module'.regs["ctrl"] = NewData(t)
      BY <1>8, <2>1, RegisterCases DEF RegisterNames
    <3>3. "PD" \notin module'.regs["ctrl"]
      BY <2>1, <3>2
    <3>4. CtrlKnown(t)'
      BY <1>1, <1>7, <1>8, <3>1, <3>3 DEF CtrlKnown
    <3> QED
      BY <1>7, <3>1, <3>4, Apart
         DEF Known, ResetKnown, SpeedKnown, CalibrationKnown
  <2>2. CASE Kind(t) = "setExt"
    <3>1. call[t].request \in PhyModeSet /\ call[t].at = 2 /\ c.at = 3
      BY <1>1, <1>6, <2>2, KindFacts DEF IInv
    <3> QED
      BY <1>7, <3>1, Apart
         DEF Known, CtrlKnown, ResetKnown, SpeedKnown, CalibrationKnown
  <2>3. CASE Kind(t) = "setAna"
    <3>1. call[t].request \in PhySpeedSet /\ call[t].at = 2 /\ c.at = 3
      BY <1>1, <1>6, <2>3, KindFacts DEF IInv
    <3>2. module'.regs["ana"] = Abil(call[t].arg)
      BY <1>1, <1>8, <2>3, RegisterCases, SpeedWritten DEF RegisterNames
    <3>3. SpeedKnown(t)'
      BY <1>1, <1>7, <1>8, <3>1, <3>2 DEF SpeedKnown
    <3> QED
      BY <1>7, <3>1, <3>3, Apart
         DEF Known, CtrlKnown, ResetKnown, CalibrationKnown
  <2>4. CASE Kind(t) = "setGb"
    <3>1. call[t].request \in PhySpeedSet /\ call[t].at = 4 /\ c.at = 5
      BY <1>1, <1>6, <2>4, KindFacts DEF IInv
    <3> QED
      BY <1>7, <3>1, Apart
         DEF Known, CtrlKnown, ResetKnown, SpeedKnown, CalibrationKnown
  <2>5. CASE Kind(t) = "reset"
    <3>1. /\ call[t].request \in PhyAutonegSet \/ call[t].request \in PhyModeSet
          /\ call[t].at = 4 /\ c.at = 5
      BY <1>1, <1>6, <2>5, KindFacts DEF IInv
    <3>2. call[t].request \notin Calibrated /\ call[t].request \notin PhySpeedSet
      BY <1>7, <3>1, Apart
    <3> QED
      BY <1>7, <3>1, <3>2
         DEF Known, CtrlKnown, ResetKnown, SpeedKnown, CalibrationKnown
  <2> QED
    BY <1>1, <2>1, <2>2, <2>3, <2>4, <2>5 DEF PhyWrites
<1> QED
  BY <1>1, <1>6, <1>8, <1>9, <1>10, MovedInv DEF Goals

LEMMA PhyWriteInv ==
  ASSUME IInv, NEW t \in Threads, PhyWrite(t)
  PROVE  IInv'
<1>1. /\ Wrote(t) /\ goal' = NewGoal(t, FALSE) /\ lock' = lock
      /\ Busy(t) /\ Kind(t) \in PhyWrites /\ call[t].stage = "transfer"
  BY DEF PhyWrite, Wrote, Busy
<1>2. CASE ~(Kind(t) \in {"setCtrl", "setExt"} /\ "PD" \in NewData(t))
  BY <1>1, <1>2, WriteAdvanceInv DEF PhyWrite
<1>3. CASE Kind(t) \in {"setCtrl", "setExt"} /\ "PD" \in NewData(t)
  <2> DEFINE v == [call[t] EXCEPT !.data = NewData(t)]
  <2>1. v \in Calls
    BY <1>1, NewDataType, CallType DEF Calls
  <2>2. /\ v.stage = "transfer" /\ v.request = call[t].request
        /\ v.arg = call[t].arg /\ v.swapped = call[t].swapped
        /\ v.at = call[t].at /\ v.got = call[t].got
    BY <1>1, CallType DEF Calls
  <2>3. Leave(t, v, "OK")
    BY <1>3 DEF PhyWrite
  <2> HIDE DEF v
  <2>4. PICK c : Moved(t, c) /\ c.at = Len(call[t].request) + 1
    BY <1>1, <2>1, <2>2, <2>3, LeaveMoves
  <2>5. call[t].request \notin Calibrated
    <3>1. call[t].request \in PhyAutonegSet \/ call[t].request \in PhyModeSet
      BY <1>1, <1>3, KindFacts DEF IInv
    <3> QED
      BY <1>1, <3>1, Apart, BusyType DEF IInv
  <2>6. Known(t)'
    BY <1>1, <2>4, <2>5, LeftKnown
  <2>7. goal' \in Goals /\ ModuleOK' /\ AutonegGoal' /\ SpeedGoal'
    BY <1>1, WroteGoals
  <2>8. /\ module' \in Modules /\ module'.plugged = module.plugged
        /\ module'.external = module.external
    BY <1>1, WroteRegs
  <2> QED
    BY <1>1, <2>4, <2>6, <2>7, <2>8, MovedInv DEF Goals
<1> QED
  BY <1>2, <1>3

-----------------------------------------------------------------------------
(* Failures                                                                *)

LEMMA BusErrorInv ==
  ASSUME IInv, NEW t \in Threads, BusError(t)
  PROVE  IInv'
<1>1. /\ Busy(t) /\ lock' = lock /\ call[t].stage = "transfer"
      /\ goal' = IF Kind(t) \in PhyWrites THEN NewGoal(t, TRUE) ELSE goal
  BY DEF BusError, Busy
<1>2. /\ goal' \in Goals /\ ModuleOK' /\ AutonegGoal' /\ SpeedGoal'
      /\ module' \in Modules /\ module'.plugged = module.plugged
      /\ module'.external = module.external
  <2>1. CASE module' = module
    BY <1>1, <2>1, LostGoals, ModuleType
  <2>2. CASE Kind(t) \in PhyWrites /\ Wrote(t)
    BY <1>1, <2>2, WroteGoals, WroteRegs
  <2> QED
    BY <2>1, <2>2 DEF BusError, Wrote
<1>3. CASE Kind(t) = "resetRead"
  <2> DEFINE v == [call[t] EXCEPT !.data = {}, !.blind = TRUE]
  <2>1. v \in Calls
    BY CallType DEF Calls
  <2>2. /\ v.stage = "transfer" /\ v.request = call[t].request
        /\ v.arg = call[t].arg /\ v.swapped = call[t].swapped
        /\ v.at = call[t].at /\ v.rc = call[t].rc /\ v.got = call[t].got
        /\ v.blind = TRUE
    BY <1>1, CallType DEF Calls
  <2>3. Advance(t, v)
    BY <1>3 DEF BusError
  <2> HIDE DEF v
  <2>4. v.got = 0 \/ v.got + 2 <= v.at
    BY <2>2, CallType
  <2>5. PICK c : Moved(t, c) /\ c.at = call[t].at + 1 /\ c.blind = TRUE
    BY <1>1, <2>1, <2>2, <2>3, <2>4, AdvanceMoves
  <2>6. /\ call'[t] = c /\ c.request = call[t].request
        /\ c.swapped = call[t].swapped /\ call[t].request \in Requests
    BY <1>1, <2>5, MovedCall, BusyType DEF IInv, Moved
  <2>7. /\ call[t].request \in PhyAutonegSet \/ call[t].request \in PhyModeSet
        /\ call[t].at = 3 /\ c.at = 4
    BY <1>1, <1>3, <2>5, KindFacts DEF IInv
  <2>8. module' = module
    BY <1>3 DEF BusError, PhyWrites
  <2>9. CtrlKnown(t)'
    <3>1. call[t].request \in PhyAutonegSet /\ ~call[t].swapped =>
            module.plugged /\ "PD" \notin module.regs["ctrl"]
      BY <1>1, <2>7, CallType DEF Known, CtrlKnown
    <3> QED
      BY <2>6, <2>7, <2>8, <3>1 DEF CtrlKnown
  <2>10. ResetKnown(t)'
    BY <2>5, <2>6 DEF ResetKnown
  <2>11. SpeedKnown(t)' /\ CalibrationKnown(t)'
    <3>1. call[t].request \notin Calibrated /\ call[t].request \notin PhySpeedSet
      BY <2>6, <2>7, Apart
    <3> QED
      BY <2>6, <3>1 DEF SpeedKnown, CalibrationKnown
  <2>12. Known(t)'
    BY <2>9, <2>10, <2>11 DEF Known
  <2> QED
    BY <1>1, <1>2, <2>5, <2>12, MovedInv DEF Goals
<1>4. CASE Kind(t) # "resetRead"
  <2>1. Leave(t, call[t], "EIO")
    BY <1>4 DEF BusError
  <2>2. PICK c : /\ Moved(t, c) /\ c.at = Len(call[t].request) + 1
                 /\ c.rc = "EIO"
    BY <1>1, <2>1, CallType, LeaveMoves
  <2>3. Known(t)'
    BY <1>1, <2>2, LeftKnown
  <2> QED
    BY <1>1, <1>2, <2>2, <2>3, MovedInv DEF Goals
<1> QED
  BY <1>3, <1>4

-----------------------------------------------------------------------------
(* The frame of a call                                                     *)

LEMMA IdleType ==
  /\ Idle \in Calls
  /\ Idle.stage = "idle" /\ Idle.at = 1 /\ Idle.got = 0 /\ Idle.rc = "OK"
  /\ Idle.swapped = FALSE
  BY DEF Idle, Calls, AllArguments

\* A step that gives the call of t the value c, which is not transferring or
\* at its beginning, and leaves the module alone.
LEMMA FrameInv ==
  ASSUME IInv, NEW t \in Threads, NEW c \in Calls, UNCHANGED <<module, goal>>,
         call' = [call EXCEPT ![t] = c],
         lock' \in Threads \cup {NoThread}, Holding',
         c.stage # "idle" => /\ c.request \in Requests
                             /\ c.arg \in Arguments(c.request)
                             /\ c.at <= Len(c.request) + 1
                             /\ c.rc = "OK" \/ c.at = Len(c.request) + 1,
         c.stage # "reselect",
         c.got = 0 \/ c.got + 3 <= c.at,
         Known(t)'
  PROVE  IInv'
<1>1. /\ call'[t] = c /\ \A u \in Threads : u # t => call'[u] = call[u]
      /\ call' \in [Threads -> Calls]
  BY CallType
<1>2. TypeOK'
  BY <1>1, ModuleType DEF TypeOK
<1>3. InBounds'
  <2> SUFFICES ASSUME NEW u \in Threads
               PROVE  /\ call'[u].stage # "idle" =>
                           /\ call'[u].request \in Requests
                           /\ call'[u].arg \in Arguments(call'[u].request)
                           /\ call'[u].at <= Len(call'[u].request) + 1
                           /\ \/ call'[u].rc = "OK"
                              \/ call'[u].at = Len(call'[u].request) + 1
                      /\ call'[u].stage = "reselect" =>
                           call'[u].request \in Calibrated /\ call'[u].at = 2
                      /\ call'[u].got = 0 \/ call'[u].got + 3 <= call'[u].at
    BY DEF InBounds
  <2>1. CASE u = t
    BY <1>1, <2>1
  <2>2. CASE u # t
    BY <1>1, <2>2 DEF IInv, Structure, InBounds
  <2> QED
    BY <2>1, <2>2
<1>4. ModuleOK' /\ AutonegGoal' /\ SpeedGoal'
  BY ModuleType DEF ModuleOK, AutonegGoal, SpeedGoal
<1>5. ASSUME NEW u \in Threads, u # t
      PROVE  Known(u)'
  <2>1. call'[u] = call[u] /\ Known(u)
    BY <1>1, <1>5, CallType
  <2>2. CtrlKnown(u)' /\ ResetKnown(u)'
    BY <2>1 DEF Known, CtrlKnown, ResetKnown
  <2>3. SpeedKnown(u)' /\ CalibrationKnown(u)'
    BY <2>1 DEF Known, SpeedKnown, CalibrationKnown
  <2> QED
    BY <2>2, <2>3 DEF Known
<1> QED
  BY <1>2, <1>3, <1>4, <1>5 DEF IInv, Structure

LEMMA IdleKnown ==
  ASSUME NEW t, call'[t].stage = "idle"
  PROVE  Known(t)'
  BY DEF Known, CtrlKnown, ResetKnown, SpeedKnown, CalibrationKnown

LEMMA SelectInv ==
  ASSUME IInv, NEW t \in Threads, Select(t)
  PROVE  IInv'
<1>1. lock = NoThread /\ UNCHANGED <<module, goal>>
  BY DEF Select
<1>2. \A u \in Threads : call[u].stage # "transfer"
  BY <1>1, ThreadAssumption DEF IInv, Structure, Holding
<1>3. ASSUME NEW request \in Requests, NEW arg \in Arguments(request), lock' = t,
             call' = [call EXCEPT ![t] = [Idle EXCEPT !.stage = "transfer",
                                                      !.request = request,
                                                      !.arg = arg]]
      PROVE  IInv'
  <2> DEFINE c == [Idle EXCEPT !.stage = "transfer", !.request = request,
                               !.arg = arg]
  <2>1. arg \in AllArguments
    BY ArgumentsOf
  <2>2. /\ c \in Calls
        /\ c.stage = "transfer" /\ c.request = request /\ c.arg = arg
        /\ c.at = 1 /\ c.got = 0 /\ c.rc = "OK" /\ c.swapped = FALSE
    <3>1. /\ c.stage = "transfer" /\ c.request = request /\ c.arg = arg
          /\ c.at = 1 /\ c.got = 0 /\ c.rc = "OK" /\ c.swapped = FALSE
          /\ c.data = {}
          /\ c = [f \in DOMAIN Idle |-> c[f]]
      BY DEF Idle
    <3>4. c.external \in BOOLEAN /\ c.blind \in BOOLEAN /\ c.swapped \in BOOLEAN
      BY DEF Idle
    <3>2. DOMAIN Idle = {"stage", "request", "at", "arg", "rc", "external",
                         "got", "data", "blind", "swapped"}
      BY DEF Idle
    <3> HIDE DEF c
    <3>3. c \in Calls
      <4>1. c.stage \in {"idle", "reselect", "transfer"} /\ c.at \in 1..6
            /\ c.rc \in {"OK", "EIO", "ENOTSUP"} /\ c.got \in 0..2
            /\ c.data \in SUBSET Bits /\ c.arg \in AllArguments
            /\ c.request \in Requests \cup {<<>>}
        BY <2>1, <3>1
      <4>2. c = [f \in {"stage", "request", "at", "arg", "rc", "external",
                        "got", "data", "blind", "swapped"} |-> c[f]]
        BY <3>1, <3>2
      <4> QED
        BY <3>4, <4>1, <4>2 DEF Calls
    <3> QED
      BY <3>1, <3>3
  <2>3. call' = [call EXCEPT ![t] = c]
    BY <1>3
  <2> HIDE DEF c
  <2>4. call'[t] = c /\ \A u \in Threads : u # t => call'[u] = call[u]
    BY <2>3, CallType
  <2>5. Holding'
    BY <1>2, <1>3, <2>2, <2>4 DEF Holding
  <2>6. Known(t)'
    BY <2>2, <2>4 DEF Known, CtrlKnown, ResetKnown, SpeedKnown, CalibrationKnown
  <2>7. 1 <= Len(request) + 1
    BY RequestShape
  <2> QED
    BY <1>1, <1>3, <2>2, <2>3, <2>5, <2>6, <2>7, FrameInv
<1>4. CASE /\ call[t].stage = "reselect" /\ lock' = t
           /\ call' = [call EXCEPT ![t].stage = "transfer"]
  <2> DEFINE c == [call[t] EXCEPT !.stage = "transfer"]
  <2>1. c \in Calls
    BY CallType DEF Calls
  <2>2. /\ c.stage = "transfer" /\ c.request = call[t].request
        /\ c.arg = call[t].arg /\ c.at = call[t].at /\ c.got = call[t].got
        /\ c.rc = call[t].rc /\ c.swapped = call[t].swapped
        /\ c.external = call[t].external
    BY CallType DEF Calls
  <2>3. call' = [call EXCEPT ![t] = c]
    BY <1>4
  <2> HIDE DEF c
  <2>4. call'[t] = c /\ \A u \in Threads : u # t => call'[u] = call[u]
    BY <2>3, CallType
  <2>5. Holding'
    BY <1>2, <1>4, <2>2, <2>4 DEF Holding
  <2>6. call[t].request \in Calibrated
    BY <1>4 DEF IInv, Structure, InBounds
  <2>7. CalibrationKnown(t)'
    BY <1>1, <1>4, <2>2, <2>4, CallType DEF Known, CalibrationKnown
  <2>8. Known(t)'
    BY <2>2, <2>4, <2>6, <2>7, CalibratedKnown
  <2>9. /\ c.request \in Requests /\ c.arg \in Arguments(c.request)
        /\ c.at <= Len(c.request) + 1
        /\ c.rc = "OK" \/ c.at = Len(c.request) + 1
        /\ c.got = 0 \/ c.got + 3 <= c.at
    BY <1>4, <2>2 DEF IInv, Structure, InBounds
  <2> QED
    BY <1>1, <1>4, <2>1, <2>2, <2>3, <2>5, <2>8, <2>9, FrameInv
<1>5. CASE lock' = lock /\ call' = [call EXCEPT ![t] = Idle]
  <2>1. call'[t] = Idle /\ \A u \in Threads : u # t => call'[u] = call[u]
    BY <1>5, CallType
  <2>2. Holding'
    BY <1>1, <1>2, <1>5, <2>1, IdleType, ThreadAssumption DEF Holding
  <2>3. Known(t)'
    BY <2>1, IdleType, IdleKnown
  <2> QED
    BY <1>1, <1>5, <2>2, <2>3, IdleType, FrameInv
<1> QED
  BY <1>3, <1>4, <1>5 DEF Select

LEMMA DeselectInv ==
  ASSUME IInv, NEW t \in Threads, Deselect(t)
  PROVE  IInv'
<1>1. /\ lock' = NoThread /\ call' = [call EXCEPT ![t] = Idle]
      /\ UNCHANGED <<module, goal>> /\ call[t].stage = "transfer"
  BY DEF Deselect, Done
<1>2. call'[t] = Idle /\ \A u \in Threads : u # t => call'[u] = call[u]
  BY <1>1, CallType
<1>3. Holding'
  BY <1>1, <1>2, IdleType, ThreadAssumption DEF IInv, Structure, Holding
<1>4. Known(t)'
  BY <1>2, IdleType, IdleKnown
<1> QED
  BY <1>1, <1>3, <1>4, IdleType, FrameInv

-----------------------------------------------------------------------------
(* The cage                                                                *)

LEMMA NoModuleType ==
  /\ NoModule \in Modules /\ NoModule.plugged = FALSE
  /\ NoModule.regs["ctrl"] = {} /\ NoModule.regs["ana"] = {}
  /\ NoModule.regs["gb"] = {}
<1>1. NoModule \in Modules
  BY DEF NoModule, Modules
<1>2. /\ NoModule.plugged = FALSE
      /\ NoModule.regs = [r \in RegisterNames |-> {}]
  BY DEF NoModule
<1> QED
  BY <1>1, <1>2 DEF RegisterNames

LEMMA PullInv ==
  ASSUME IInv, Pull
  PROVE  IInv'
<1>1. /\ module' = NoModule /\ lock' = lock
      /\ goal' = [ae |-> "any", speed |-> "any"]
      /\ call' = [t \in Threads |->
                    IF call[t].stage # "idle"
                    THEN [call[t] EXCEPT !.swapped = TRUE] ELSE call[t]]
  BY DEF Pull
<1>2. ASSUME NEW t \in Threads
      PROVE  /\ call'[t] \in Calls
             /\ call'[t].stage = call[t].stage
             /\ call'[t].request = call[t].request
             /\ call'[t].arg = call[t].arg /\ call'[t].at = call[t].at
             /\ call'[t].rc = call[t].rc /\ call'[t].got = call[t].got
             /\ call'[t].data = call[t].data
             /\ call[t].stage # "idle" => call'[t].swapped
  <2>1. call[t] \in Calls
    BY CallType
  <2>2. CASE call[t].stage = "idle"
    BY <1>1, <2>1, <2>2
  <2>3. CASE call[t].stage # "idle"
    <3>1. call'[t] = [call[t] EXCEPT !.swapped = TRUE]
      BY <1>1, <2>3
    <3> QED
      BY <2>1, <3>1 DEF Calls
  <2> QED
    BY <2>2, <2>3
<1>3. call' \in [Threads -> Calls]
  <2>1. call' = [t \in Threads |-> call'[t]]
    BY <1>1
  <2> QED
    BY <1>2, <2>1
<1>4. goal'.ae = "any" /\ goal'.speed = "any" /\ goal' \in Goals
  BY <1>1 DEF Goals
<1>5. TypeOK'
  BY <1>1, <1>3, <1>4, NoModuleType DEF IInv, Structure, TypeOK, Goals
<1>6. Holding'
  BY <1>1, <1>2 DEF IInv, Structure, Holding
<1>7. InBounds'
  BY <1>2 DEF IInv, Structure, InBounds
<1>8. ModuleOK' /\ AutonegGoal' /\ SpeedGoal'
  BY <1>1, <1>4, NoModuleType DEF ModuleOK, AutonegGoal, SpeedGoal
<1>9. ASSUME NEW t \in Threads
      PROVE  Known(t)'
  <2>1. CtrlKnown(t)' /\ ResetKnown(t)' /\ CalibrationKnown(t)'
    BY <1>2, <1>4 DEF CtrlKnown, ResetKnown, CalibrationKnown
  <2>2. SpeedKnown(t)'
    BY <1>2, CallType DEF Known, SpeedKnown
  <2> QED
    BY <2>1, <2>2 DEF Known
<1> QED
  BY <1>5, <1>6, <1>7, <1>8, <1>9 DEF IInv, Structure

LEMMA PluggedType ==
  ASSUME NEW m \in PluggedModules
  PROVE  /\ m \in Modules /\ m.plugged = TRUE
         /\ m.regs["ana"] \subseteq {"10", "100"}
         /\ m.regs["gb"] \subseteq {"1000"}
<1>1. m.plugged = TRUE /\ m.external \in BOOLEAN /\ m.regs \in PluggedPhys
  BY DEF PluggedModules
<1>2. PICK ctrl \in SUBSET {"AE", "PD"}, ext \in SUBSET {"PD"} :
        m.regs = PluggedRegs(ctrl, ext)
  BY <1>1 DEF PluggedPhys
<1> DEFINE regs == PluggedRegs(ctrl, ext)
<1>3. /\ regs["ctrl"] = ctrl /\ regs["ext"] = ext /\ regs["ana"] = {"10", "100"}
      /\ regs["gb"] = {"1000"}
  BY DEF PluggedRegs, RegisterNames
<1>4. regs = [r \in RegisterNames |-> regs[r]]
  BY DEF PluggedRegs
<1>5. m.regs = regs
  BY <1>2
<1> HIDE DEF regs
<1>6. regs \in [RegisterNames -> SUBSET Bits]
  BY <1>3, <1>4 DEF RegisterNames, Bits
<1>7. m \in Modules
  BY <1>5, <1>6 DEF PluggedModules, Modules
<1> QED
  BY <1>1, <1>3, <1>5, <1>7

LEMMA PlugInv ==
  ASSUME IInv, Plug
  PROVE  IInv'
<1>1. ~module.plugged /\ module' \in PluggedModules /\ UNCHANGED <<lock, call, goal>>
  BY DEF Plug
<1>2. /\ module' \in Modules /\ module'.plugged
      /\ module'.regs["ana"] \subseteq {"10", "100"}
      /\ module'.regs["gb"] \subseteq {"1000"}
  BY <1>1, PluggedType
<1>3. goal.ae = "any" /\ goal.speed = "any"
  BY <1>1, ModuleType DEF ModuleOK
<1>4. TypeOK'
  BY <1>1, <1>2 DEF IInv, Structure, TypeOK
<1>5. Holding' /\ InBounds'
  BY <1>1 DEF IInv, Structure, Holding, InBounds
<1>6. ModuleOK' /\ AutonegGoal' /\ SpeedGoal'
  BY <1>1, <1>2, <1>3 DEF ModuleOK, AutonegGoal, SpeedGoal
<1>7. ASSUME NEW t \in Threads
      PROVE  Known(t)'
  <2>1. CtrlKnown(t)'
    <3>1. CtrlKnown(t) /\ call' = call
      BY <1>1, CallType DEF Known
    <3>2. 2 \in 2..4 /\ 3 \in 2..4 /\ 4 \in 2..4
      OBVIOUS
    <3> QED
      BY <1>1, <3>1, <3>2 DEF CtrlKnown
  <2>2. ResetKnown(t)'
    BY <1>1, <1>3 DEF ResetKnown
  <2>3. SpeedKnown(t)'
    BY <1>1, CallType DEF Known, SpeedKnown
  <2>4. CalibrationKnown(t)'
    <3>1. CalibrationKnown(t) /\ call' = call /\ call[t].at \in 1..6
      BY <1>1, CallType DEF Known
    <3> QED
      BY <1>1, <3>1 DEF CalibrationKnown
  <2> QED
    BY <2>1, <2>2, <2>3, <2>4 DEF Known
<1> QED
  BY <1>4, <1>5, <1>6, <1>7 DEF IInv, Structure

-----------------------------------------------------------------------------
(* Theorems                                                                *)

LEMMA InitIInv ==
  ASSUME Init
  PROVE  IInv
<1>1. \A t \in Threads : call[t] = Idle
  BY DEF Init
<1>2. TypeOK
  BY IdleType, NoModuleType DEF Init, TypeOK
<1>3. Holding
  BY <1>1, IdleType, ThreadAssumption DEF Init, Holding
<1>4. InBounds
  BY <1>1, IdleType DEF InBounds
<1>5. goal.ae = "any" /\ goal.speed = "any" /\ module = NoModule
  BY DEF Init
<1>6. ModuleOK /\ AutonegGoal /\ SpeedGoal
  BY <1>5, NoModuleType DEF ModuleOK, AutonegGoal, SpeedGoal
<1>7. \A t \in Threads : Known(t)
  BY <1>1, IdleType
     DEF Known, CtrlKnown, ResetKnown, SpeedKnown, CalibrationKnown
<1> QED
  BY <1>2, <1>3, <1>4, <1>6, <1>7 DEF IInv, Structure

LEMMA TransactInv ==
  ASSUME IInv, NEW t \in Threads, Transact(t)
  PROVE  IInv'
  BY ReadInv, ReadTypeInv, ReadValueInv, ReadConstantsInv, PhyReadInv,
     PhyWriteInv, BusErrorInv DEF Transact

LEMMA NextIInv ==
  ASSUME IInv, [Next]_vars
  PROVE  IInv'
<1>1. ASSUME NEW t \in Threads, Select(t) \/ Transact(t) \/ Deselect(t)
      PROVE  IInv'
  BY <1>1, SelectInv, TransactInv, DeselectInv
<1>2. CASE Pull
  BY <1>2, PullInv
<1>3. CASE Plug
  BY <1>3, PlugInv
<1>4. CASE UNCHANGED vars
  <2>1. module' = module /\ lock' = lock /\ call' = call /\ goal' = goal
    BY <1>4 DEF vars
  <2>2. Structure'
    BY <2>1 DEF IInv, Structure, TypeOK, Holding, InBounds
  <2>3. ModuleOK' /\ AutonegGoal' /\ SpeedGoal'
    BY <2>1 DEF IInv, ModuleOK, AutonegGoal, SpeedGoal
  <2>4. ASSUME NEW t \in Threads
        PROVE  Known(t)'
    <3>1. CtrlKnown(t)' /\ ResetKnown(t)'
      BY <2>1, CallType DEF Known, CtrlKnown, ResetKnown
    <3>2. SpeedKnown(t)' /\ CalibrationKnown(t)'
      BY <2>1, CallType DEF Known, SpeedKnown, CalibrationKnown
    <3> QED
      BY <3>1, <3>2 DEF Known
  <2> QED
    BY <2>2, <2>3, <2>4 DEF IInv
<1> QED
  BY <1>1, <1>2, <1>3, <1>4 DEF Next

LEMMA Invariance == Spec => []IInv
<1>1. Init => IInv
  BY InitIInv
<1>2. IInv /\ [Next]_vars => IInv'
  BY NextIInv
<1> QED
  BY <1>1, <1>2, PTL DEF Spec

\* Every variable has its type, whatever calls are made and fail.
THEOREM TypeCorrect == Spec => []TypeOK
<1>1. IInv => TypeOK
  BY DEF IInv, Structure
<1> QED
  BY <1>1, Invariance, PTL

\* Autonegotiation stays as sdi_sfp_phy_autoneg_set set it, through all resets
\* whose read of the register succeeded.
THEOREM AutonegCorrect == Spec => []AutonegGoal
<1>1. IInv => AutonegGoal
  BY DEF IInv
<1> QED
  BY <1>1, Invariance, PTL

\* After a sdi_sfp_phy_speed_set that succeeded both registers advertise the
\* speeds that belong to the one that was asked for.
THEOREM SpeedCorrect == Spec => []SpeedGoal
<1>1. IInv => SpeedGoal
  BY DEF IInv
<1> QED
  BY <1>1, Invariance, PTL

\* A calibrated value that is returned was computed with the constants of its
\* module exactly when the module is calibrated externally.
THEOREM CalibrationCorrect == Spec => []CalibrationOfModule
<1>1. IInv => CalibrationOfModule
  <2> SUFFICES ASSUME IInv, NEW t \in Threads,
                      Done(t), call[t].rc = "OK", call[t].request \in Calibrated,
                      ~call[t].swapped
               PROVE  call[t].got = IF module.external
                                    THEN Len(call[t].request) - 2 ELSE 0
    BY DEF CalibrationOfModule
  <2>1. Len(call[t].request) \in 3..4
    BY CalibratedShape
  <2>2. /\ call[t].stage = "transfer" /\ call[t].at > Len(call[t].request)
        /\ call[t].at <= Len(call[t].request) + 1
    BY DEF Done, IInv, Structure, InBounds
  <2>3. call[t].at = Len(call[t].request) + 1 /\ call[t].at >= 3 /\ call[t].at >= 2
    <3>1. call[t].at \in 1..6
      BY CallType
    <3>2. \A n \in 3..4 : \A i \in 1..6 :
            i > n /\ i <= n + 1 => i = n + 1 /\ i >= 3 /\ i >= 2
      OBVIOUS
    <3> QED
      BY <2>1, <2>2, <3>1, <3>2
  <2>4. /\ call[t].external = module.external
        /\ call[t].got = IF call[t].external THEN call[t].at - 3 ELSE 0
    BY <2>2, <2>3, CallType DEF Known, CalibrationKnown
  <2> QED
    BY <2>1, <2>3, <2>4
<1> QED
  BY <1>1, Invariance, PTL

\* A write of the PHY by sdi_sfp_phy_autoneg_set leaves it powered down.
LEMMA WroteKeepsPowerDown ==
  ASSUME IInv, NEW t \in Threads, Wrote(t), call[t].request \in PhyAutonegSet,
         ~call[t].swapped, "PD" \in module.regs["ctrl"]
  PROVE  "PD" \in module'.regs["ctrl"]
<1>1. /\ Busy(t) /\ Kind(t) \in PhyWrites /\ call[t].stage = "transfer"
      /\ call[t].request \in Requests
  BY BusyType DEF IInv, Wrote, Busy
<1>2. call[t].request \notin PhyModeSet /\ call[t].request \notin PhySpeedSet
  BY <1>1, Apart
<1>3. Kind(t) \in {"setCtrl", "reset"}
  BY <1>1, <1>2, KindFacts DEF IInv, PhyWrites
<1>4. Kind(t) # "reset"
  <2> SUFFICES ASSUME Kind(t) = "reset"
               PROVE  FALSE
    OBVIOUS
  <2>1. call[t].at = 4
    BY <1>1, KindFacts DEF IInv
  <2> QED
    BY <1>1, <2>1, CallType DEF Known, CtrlKnown
<1>5. call[t].data = module.regs["ctrl"]
  <2>1. call[t].at = 2
    BY <1>1, <1>3, <1>4, KindFacts DEF IInv
  <2> QED
    BY <1>1, <2>1, CallType DEF Known, CtrlKnown
<1>6. "PD" \in NewData(t)
  BY <1>3, <1>4, <1>5, NewDataCases
<1>7. module'.regs["ctrl"] = NewData(t)
  BY <1>3, <1>4, WroteRegs, RegisterCases DEF RegisterNames
<1> QED
  BY <1>6, <1>7

\* sdi_sfp_phy_autoneg_set never wakes a PHY that is powered down.
THEOREM PowerDownKept == Spec => AutonegKeepsPowerDown
<1>1. ASSUME IInv, [Next]_vars, NEW t \in Threads,
             Using(t, PhyAutonegSet), PoweredDown
      PROVE  PoweredDown'
  <2>1. /\ lock = t /\ call[t].request \in PhyAutonegSet /\ ~call[t].swapped
        /\ module'.plugged /\ "PD" \in module.regs["ctrl"]
    BY <1>1 DEF Using, PoweredDown
  <2>2. module.plugged
    BY <1>1, <2>1, ModuleType DEF ModuleOK
  <2>3. ASSUME NEW u \in Threads, Transact(u)
        PROVE  u = t
    <3>1. Busy(u)
      BY <2>3 DEF Transact, Read, ReadType, ReadValue, ReadConstants, PhyRead,
         PhyWrite, BusError
    <3> QED
      BY <1>1, <2>1, <3>1, BusyType DEF IInv
  <2>4. CASE module' = module
    BY <2>1, <2>4 DEF PoweredDown
  <2>5. ASSUME NEW u \in Threads, Transact(u)
        PROVE  module' = module \/ Wrote(t)
    BY <2>3, <2>5 DEF Transact, Read, ReadType, ReadValue, ReadConstants,
       PhyRead, PhyWrite, BusError, Wrote
  <2>6. CASE Wrote(t)
    BY <1>1, <2>1, <2>6, WroteKeepsPowerDown DEF PoweredDown
  <2>7. module' = module \/ Wrote(t)
    <3>1. ASSUME NEW u \in Threads, Select(u) \/ Deselect(u)
          PROVE  module' = module
      BY <3>1 DEF Select, Deselect
    <3>2. ~Pull
      BY <2>1, NoModuleType DEF Pull
    <3>3. ~Plug
      BY <2>2 DEF Plug
    <3>4. UNCHANGED vars => module' = module
      BY DEF vars
    <3> QED
      BY <1>1, <2>5, <3>1, <3>2, <3>3, <3>4 DEF Next
  <2> QED
    BY <2>4, <2>6, <2>7
<1>2. IInv /\ [Next]_vars =>
        [\A t \in Threads : Using(t, PhyAutonegSet) /\ PoweredDown => PoweredDown']_vars
  BY <1>1
<1> QED
  BY <1>2, Invariance, PTL DEF Spec, AutonegKeepsPowerDown
-----------------------------------------------------------------------------
(* Selection                                                               *)

\* The mutex of the module is an instance of the selection of modules: a call
\* makes its transactions alone, for any threads.
THEOREM SelectionImplemented == Spec => ImplementsModuleSelection
<1> DEFINE Users == {t \in Threads : call[t].stage = "transfer"}
           users == [m \in {"module"} |-> Users]
<1>1. Init => Selection!Init
  BY DEF Init, Idle, Selection!Init
<1>2. IInv /\ IInv' /\ [Next]_vars => [Selection!Next]_users
  <2> SUFFICES ASSUME IInv, IInv', [Next]_vars, users' # users
               PROVE  Selection!Next
    OBVIOUS
  <2>1. Users = {t \in Threads : lock = t} /\ Users' = {t \in Threads : lock' = t}
    BY DEF IInv, Structure, Holding
  <2>2. users' = [m \in {"module"} |-> Users']
    OBVIOUS
  <2>3. lock' # lock /\ lock \in Threads \cup {NoThread}
        /\ lock' \in Threads \cup {NoThread}
    BY <2>1, <2>2 DEF IInv, Structure, TypeOK
  <2>4. lock = NoThread \/ lock' = NoThread
    <3>1. ASSUME NEW t \in Threads, Transact(t) PROVE lock' \in {lock, NoThread}
      BY <3>1 DEF Transact, Read, ReadType, ReadValue, ReadConstants, PhyRead,
         PhyWrite, BusError
    <3>2. ASSUME NEW t \in Threads, Select(t) \/ Deselect(t)
          PROVE  lock = NoThread \/ lock' \in {lock, NoThread}
      BY <3>2 DEF Select, Deselect
    <3> QED
      BY <2>3, <3>1, <3>2 DEF Next, Pull, Plug, vars
  <2>5. CASE lock = NoThread
    <3>1. Users = {} /\ lock' \in Threads /\ Users' = {lock'}
      BY <2>1, <2>3, <2>5, ThreadAssumption
    <3>2. Selection!Enter(lock', "module")
      BY <2>2, <3>1 DEF Selection!Enter
    <3> QED
      BY <3>1, <3>2 DEF Selection!Next
  <2>6. CASE lock' = NoThread
    <3>1. Users' = {} /\ lock \in Threads /\ Users = {lock}
      BY <2>1, <2>3, <2>6, ThreadAssumption
    <3>2. Selection!Leave(lock, "module")
      BY <2>2, <3>1 DEF Selection!Leave
    <3> QED
      BY <3>1, <3>2 DEF Selection!Next
  <2> QED
    BY <2>4, <2>5, <2>6
<1> QED
  BY <1>1, <1>2, Invariance, PTL
  DEF Spec, ImplementsModuleSelection, Selection!Spec
==============================================================================
