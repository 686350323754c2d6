----------------------------- MODULE QsfpMemory ------------------------------
(***************************************************************************)
(* The calls of the QSFP driver on the memory of one transceiver.          *)
(*                                                                         *)
(* The upper half of the memory shows the page written to the page-select  *)
(* byte: page 0 holds what the module is, page 3 its thresholds.  Only     *)
(* sdi_qsfp_threshold_get selects a page, and it has to leave page 0 to    *)
(* all other calls.  sdi_qsfp_tx_control reads, changes and writes back    *)
(* the byte that disables the transmitters of the lanes.                   *)
(*                                                                         *)
(* A call holds the select group of the module from sdi_qsfp_module_select *)
(* to sdi_qsfp_module_deselect; BusAccess models what that takes, here it  *)
(* is one mutex.  Any transaction can fail, and modules are pulled and     *)
(* plugged at any time, also in the middle of a call.                      *)
(***************************************************************************)
EXTENDS Naturals, Sequences

CONSTANTS
  Threads,   \* threads that call the driver
  NoThread,  \* the owner of a free mutex
  Lanes      \* transmitter lanes, the channels of the calls

ASSUME ThreadAssumption == NoThread \notin Threads

(***************************************************************************)
(* What each call transfers, as the set of its possible sequences of       *)
(* transactions: the caller's flags select which status bytes are read.    *)
(*   "lower"     a read of the lower memory                                *)
(*   "upper"     a read of the upper memory, where page 0 is meant         *)
(*   "key"       the same; the call is over when it finds the Dell key     *)
(*   "options"   the same; the call is over when the bit it needs is clear *)
(*   "tx"        a read of the transmitter byte, "setTx" its write         *)
(*   "paging3", "paging0"  the paging test before a page is selected       *)
(*   "page3", "page0"      the write of the page-select byte               *)
(*   "threshold"           the read of a threshold, where page 3 is meant  *)
(***************************************************************************)
ModuleMonitorStatusGet  == {<<>>, <<"lower">>, <<"lower", "lower">>}
ChannelMonitorStatusGet == {<<>>, <<"lower">>, <<"lower", "lower">>}
ChannelStatusGet ==
  {<<>>, <<"lower">>, <<"lower", "lower">>,
   <<"tx">>, <<"tx", "lower">>, <<"tx", "lower", "lower">>}
TxControl          == {<<"options", "tx", "setTx">>}
TxControlStatusGet == {<<"tx">>}
IsDellQualified    == {<<"key", "key">>}
ParameterGet       == {<<"upper">>}
VendorInfoGet      == {<<"upper">>}
TransceiverCodeGet == {<<"upper">>}
DellProductInfoGet == {<<"key", "key">>}
\* Mutant of ThresholdGet: the threshold is read before its page is selected.
ThresholdGetEarly == {<<"paging3", "threshold", "page3", "paging0", "page0">>}
ThresholdGet == {<<"paging3", "page3", "threshold", "paging0", "page0">>}
ModuleMonitorGet   == {<<"lower">>}
ChannelMonitorGet  == {<<"lower">>}
FeatureSupportStatusGet == {<<"upper", "lower", "upper">>}

Requests ==
  UNION {ModuleMonitorStatusGet, ChannelMonitorStatusGet, ChannelStatusGet,
         TxControl, TxControlStatusGet, IsDellQualified, ParameterGet,
         VendorInfoGet, TransceiverCodeGet, DellProductInfoGet, ThresholdGet,
         ModuleMonitorGet, ChannelMonitorGet, FeatureSupportStatusGet}

VARIABLES
  module,  \* the module in the cage
  stuck,   \* history: the last page selection of a restore failed
  lock,    \* owner of the module's select group
  call,    \* what each thread is doing
  goal     \* history: what the last tx_control of a lane asked for

vars == <<module, stuck, lock, call, goal>>

Pages == {0, 3}

Modules == [plugged : BOOLEAN, paged : BOOLEAN, canDisable : BOOLEAN,
            page : Pages, off : SUBSET Lanes]

\* stage: waiting for the select group, or transferring with the group held;
\* at: the transaction that is next.  rc: the error so far.  lane and enable:
\* the arguments of sdi_qsfp_tx_control.  buf: the transmitter byte that was
\* read.  swapped: the module was pulled during the call.  seen: the pages that
\* answered reads meant for page 0, with stuck at that time.  source: the page
\* that answered for a threshold.
Calls ==
  [stage : {"idle", "wait", "transfer"}, request : Requests, at : 1..6,
   lane : Lanes \cup {"none"}, enable : BOOLEAN, rc : {"OK", "EIO", "ENOTSUP"},
   buf : SUBSET Lanes, swapped : BOOLEAN, seen : SUBSET (Pages \X BOOLEAN),
   source : SUBSET Pages]

Idle == [stage |-> "idle", request |-> <<>>, at |-> 1, lane |-> "none",
         enable |-> FALSE, rc |-> "OK", buf |-> {}, swapped |-> FALSE,
         seen |-> {}, source |-> {}]

Transferring(t, kind) ==
  /\ call[t].stage = "transfer"
  /\ call[t].at \in DOMAIN call[t].request
  /\ call[t].request[call[t].at] = kind

\* All transactions of the call are over.
Done(t) == call[t].stage = "transfer" /\ call[t].at > Len(call[t].request)

\* Where the restoring of page 0 begins in ThresholdGet.
Restore == 4

NoModule == [plugged |-> FALSE, paged |-> FALSE, canDisable |-> FALSE,
             page |-> 0, off |-> {}]

-----------------------------------------------------------------------------
(* One call                                                                *)

Init ==
  /\ module = NoModule
  /\ stuck = FALSE
  /\ lock = NoThread
  /\ call = [t \in Threads |-> Idle]
  /\ goal = [lane \in Lanes |-> "any"]

Start(t) ==
  /\ call[t].stage = "idle"
  /\ \/ \E request \in Requests \ TxControl :
          call' = [call EXCEPT ![t] = [Idle EXCEPT !.stage = "wait",
                                                   !.request = request]]
     \/ \E request \in TxControl, lane \in Lanes, enable \in BOOLEAN :
          call' = [call EXCEPT ![t] = [Idle EXCEPT !.stage = "wait",
                                                   !.request = request,
                                                   !.lane = lane,
                                                   !.enable = enable]]
  /\ UNCHANGED <<module, stuck, lock, goal>>

\* Mutant of Select: the select group is written without being acquired.
SelectUnlocked(t) ==
  /\ call[t].stage = "wait"
  /\ lock' = t
  /\ call' = [call EXCEPT ![t].stage = "transfer"]
  /\ UNCHANGED <<module, stuck, goal>>

\* sdi_qsfp_module_select.  When it fails the call returns with nothing held.
Select(t) ==
  /\ call[t].stage = "wait"
  /\ lock = NoThread
  /\ \/ /\ lock' = t
        /\ call' = [call EXCEPT ![t].stage = "transfer"]
     \/ /\ lock' = lock
        /\ call' = [call EXCEPT ![t] = Idle]
  /\ UNCHANGED <<module, stuck, goal>>

\* The call of t after a transaction that succeeded, with its new values.
Advance(t, values) == call' = [call EXCEPT ![t] = [values EXCEPT !.at = @ + 1]]

\* Mutant of Leave: one transaction too far.
LeavePastEnd(t, values, rc) ==
  call' = [call EXCEPT ![t] = [values EXCEPT !.at = Len(values.request) + 2,
                                             !.rc = rc]]

\* The call of t when it leaves its loop with error rc.
Leave(t, values, rc) ==
  call' = [call EXCEPT ![t] = [values EXCEPT !.at = Len(values.request) + 1,
                                             !.rc = rc]]

ReadLower(t) ==
  /\ Transferring(t, "lower")
  /\ module.plugged
  /\ Advance(t, call[t])
  /\ UNCHANGED <<module, stuck, lock, goal>>

Saw(t) == [call[t] EXCEPT !.seen = @ \cup {<<module.page, stuck>>}]

ReadUpper(t) ==
  /\ Transferring(t, "upper")
  /\ module.plugged
  /\ Advance(t, Saw(t))
  /\ UNCHANGED <<module, stuck, lock, goal>>

FindKey(t) ==
  /\ Transferring(t, "key")
  /\ module.plugged
  /\ \/ Advance(t, Saw(t))
     \/ Leave(t, Saw(t), "OK")
  /\ UNCHANGED <<module, stuck, lock, goal>>

\* sdi_is_tx_control_supported: on another page the byte can be anything.
ReadOptions(t) ==
  /\ Transferring(t, "options")
  /\ module.plugged
  /\ \E supported \in IF module.page = 0 THEN {module.canDisable} ELSE BOOLEAN :
       IF supported THEN Advance(t, Saw(t)) ELSE Leave(t, Saw(t), "ENOTSUP")
  /\ UNCHANGED <<module, stuck, lock, goal>>

ReadTx(t) ==
  /\ Transferring(t, "tx")
  /\ module.plugged
  /\ Advance(t, [call[t] EXCEPT !.buf = module.off])
  /\ UNCHANGED <<module, stuck, lock, goal>>

NewTx(t) == IF call[t].enable THEN call[t].buf \ {call[t].lane}
                              ELSE call[t].buf \cup {call[t].lane}

WriteTx(t) ==
  /\ Transferring(t, "setTx")
  /\ module.plugged
  /\ module' = [module EXCEPT !.off = NewTx(t)]
  /\ goal' = [goal EXCEPT ![call[t].lane] = IF call[t].enable THEN "on" ELSE "off"]
  /\ Advance(t, call[t])
  /\ UNCHANGED <<stuck, lock>>

\* The first half of sdi_qsfp_page_select.
TestPaging(t) ==
  /\ \/ Transferring(t, "paging3")
     \/ Transferring(t, "paging0")
  /\ module.plugged
  /\ IF module.paged THEN Advance(t, call[t]) ELSE Leave(t, call[t], "ENOTSUP")
  /\ UNCHANGED <<module, stuck, lock, goal>>

\* The second half.  The error of sdi_qsfp_threshold_get is that of the last
\* page selection.
SelectPage(t) ==
  /\ module.plugged
  /\ \/ /\ Transferring(t, "page3")
        /\ module' = [module EXCEPT !.page = IF module.paged THEN 3 ELSE @]
        /\ stuck' = stuck
        /\ Advance(t, call[t])
     \/ /\ Transferring(t, "page0")
        /\ module' = [module EXCEPT !.page = 0]
        /\ stuck' = FALSE
        /\ Leave(t, call[t], "OK")
  /\ UNCHANGED <<lock, goal>>

ReadThreshold(t) ==
  /\ Transferring(t, "threshold")
  /\ module.plugged
  /\ Advance(t, [call[t] EXCEPT !.source = {module.page}])
  /\ UNCHANGED <<module, stuck, lock, goal>>

\* Mutant of BusError: sdi_qsfp_threshold_get returns where it breaks.
BusErrorReturns(t) ==
  /\ call[t].stage = "transfer"
  /\ call[t].at \in DOMAIN call[t].request
  /\ Leave(t, call[t], "EIO")
  /\ UNCHANGED <<module, stuck, lock, goal>>

\* Any transaction can fail, and fails when there is no module; a write that
\* is reported as failed may have been carried out.  sdi_qsfp_threshold_get
\* goes on to put page 0 back, every other call leaves its loop.
BusError(t) ==
  /\ call[t].stage = "transfer"
  /\ call[t].at \in DOMAIN call[t].request
  /\ \/ UNCHANGED module
     \/ /\ Transferring(t, "setTx") /\ module.plugged
        /\ module' = [module EXCEPT !.off = NewTx(t)]
     \/ /\ Transferring(t, "page3") /\ module.paged
        /\ module' = [module EXCEPT !.page = 3]
     \/ /\ Transferring(t, "page0")
        /\ module' = [module EXCEPT !.page = 0]
  /\ stuck' = IF Transferring(t, "paging0") \/ Transferring(t, "page0")
              THEN module'.page # 0 ELSE stuck
  /\ goal' = IF Transferring(t, "setTx")
             THEN [goal EXCEPT ![call[t].lane] = "any"] ELSE goal
  /\ IF call[t].request \in ThresholdGet /\ call[t].at < Restore
     THEN call' = [call EXCEPT ![t].at = Restore]
     ELSE Leave(t, call[t], "EIO")
  /\ UNCHANGED lock

\* Mutant of Deselect: an early return keeps the select group.
DeselectOnSuccess(t) ==
  /\ Done(t)
  /\ lock' = IF call[t].rc = "OK" THEN NoThread ELSE lock
  /\ call' = [call EXCEPT ![t] = Idle]
  /\ UNCHANGED <<module, stuck, goal>>

\* sdi_qsfp_module_deselect, and the return of the call.
Deselect(t) ==
  /\ Done(t)
  /\ lock' = NoThread
  /\ call' = [call EXCEPT ![t] = Idle]
  /\ UNCHANGED <<module, stuck, goal>>

-----------------------------------------------------------------------------
(* The cage                                                                *)

Pull ==
  /\ module.plugged
  /\ module' = NoModule
  /\ stuck' = FALSE
  /\ goal' = [lane \in Lanes |-> "any"]
  /\ call' = [t \in Threads |->
                IF call[t].stage = "transfer"
                THEN [call[t] EXCEPT !.swapped = TRUE] ELSE call[t]]
  /\ UNCHANGED lock

\* A module that is plugged shows page 0 and transmits on all lanes.
Plug ==
  /\ ~module.plugged
  /\ module' \in {m \in Modules : m.plugged /\ m.page = 0 /\ m.off = {}}
  /\ UNCHANGED <<stuck, lock, call, goal>>

Transact(t) ==
  \/ ReadLower(t) \/ ReadUpper(t) \/ FindKey(t) \/ ReadOptions(t)
  \/ ReadTx(t) \/ WriteTx(t) \/ TestPaging(t) \/ SelectPage(t)
  \/ ReadThreshold(t) \/ BusError(t)

Next ==
  \/ \E t \in Threads :
       Start(t) \/ Select(t) \/ Transact(t) \/ Deselect(t)
  \/ Pull
  \/ Plug

Spec == Init /\ [][Next]_vars

\* A thread in a call keeps running; nobody has to call, plug or pull.
FairSpec ==
  Spec /\ \A t \in Threads : WF_vars(Transact(t) \/ Deselect(t))

-----------------------------------------------------------------------------
(* Properties                                                              *)

TypeOK ==
  /\ module \in Modules
  /\ stuck \in BOOLEAN
  /\ lock \in Threads \cup {NoThread}
  /\ call \in [Threads -> Calls]
  /\ goal \in [Lanes -> {"any", "on", "off"}]

Returning(t, rc) == Done(t) /\ call[t].rc = rc

\* The memory shows page 0 unless a threshold is being read by the thread that
\* holds the module, or the selection of page 0 failed: whatever fails on the
\* way, sdi_qsfp_threshold_get does not return with another page selected.
PageZero ==
  module.page # 0 =>
    \/ stuck
    \/ /\ lock # NoThread
       /\ call[lock].request \in ThresholdGet
       /\ call[lock].at \in 3..5

\* What a call returns with success about the module, its vendor or its
\* features was read from page 0, unless putting page 0 back had failed before.
InfoFromPageZero ==
  \A t \in Threads : Returning(t, "OK") =>
    \A answer \in call[t].seen : answer[1] = 0 \/ answer[2]

\* A threshold that was read was read from page 3, unless the module was
\* exchanged during the call.
ThresholdFromPageThree ==
  \A t \in Threads :
    call[t].source \subseteq {3} \/ call[t].swapped

\* A transmitter that a call of sdi_qsfp_tx_control switched with success stays
\* as it is until it is switched again or the module is pulled, whatever other
\* calls do to the other lanes.
LaneGoals ==
  \A lane \in Lanes : /\ goal[lane] = "on" => lane \notin module.off
                      /\ goal[lane] = "off" => lane \in module.off

\* A call of sdi_qsfp_tx_control switches its own lane only, unless the module
\* was exchanged between its read and its write.
OtherLanesKept ==
  [][\A t \in Threads, lane \in Lanes :
       /\ Transferring(t, "setTx")
       /\ call'[t].at # call[t].at
       /\ lane # call[t].lane
       /\ ~call[t].swapped
       => (lane \in module'.off <=> lane \in module.off)]_vars

\* A caller uses the module while its call makes transactions.
Selection == INSTANCE ModuleSelection WITH
  Callers <- Threads,
  Modules <- {"module"},
  Rivals <- [m \in {"module"} |-> {m}],
  users <- [m \in {"module"} |->
              {t \in Threads : call[t].stage = "transfer"}]

\* The one mutex of this module keeps what BusAccess implements with its select
\* groups: one call at a time makes transactions, from module_select to its
\* return.
ImplementsModuleSelection == Selection!Spec

\* The select group of the module is given back on every path of a call.
SelectionReleased == \A t \in Threads : lock = t ~> lock # t

\* The comment of sdi_qsfp_threshold_get promises the threshold as its value and
\* an error code otherwise.
ThresholdRead ==
  \A t \in Threads :
    Returning(t, "OK") /\ call[t].request \in ThresholdGet
      => call[t].source # {}
==============================================================================
