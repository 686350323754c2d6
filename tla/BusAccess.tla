------------------------------ MODULE BusAccess ------------------------------
(***************************************************************************)
(* How a driver call reaches its device: the I2C multiplexer and the       *)
(* module-select groups.                                                   *)
(*                                                                         *)
(* Devices sit on the channels of a multiplexer whose channel is set by a  *)
(* GPIO pin group, or on the parent bus itself.  The transceivers of a     *)
(* channel share one address: a driver first takes a select group (a       *)
(* mux-select group, a module-select group, or both in that order), writes *)
(* the value that leaves only its module connected, and keeps the group    *)
(* until the call ends.  The select groups are registers of a CPLD, which  *)
(* is itself a device behind the multiplexer.  Every bus transaction takes *)
(* mux_lock, the GPIO group and the parent bus, in that order, and gives   *)
(* them back before the next one.                                          *)
(***************************************************************************)
EXTENDS Naturals

CONSTANTS
  Threads,     \* threads that call the drivers
  NoThread,    \* the owner of a free mutex
  Devices,     \* everything that answers on the bus
  Channels,    \* channels of the multiplexer
  Parent,      \* the place of a device that is not behind the multiplexer
  Place,       \* the channel of a device, or Parent
  Address,     \* the bus address of a device
  MuxGroups,   \* mux-select pin groups
  ModGroups,   \* module-select pin groups
  NoGroup,     \* mux_sel_hdl or mod_sel_hdl is NULL
  MuxSel,      \* the mux-select group of a device
  ModSel,      \* the module-select group of a device
  Cpld,        \* the CPLD that holds a group
  Length,      \* number of registers of a group
  Value,       \* the devices that a group connects when set for a device
  MaxAccesses  \* bound: transactions of a call on its device

Groups == MuxGroups \cup ModGroups
Selects(d) == {MuxSel[d], ModSel[d]} \ {NoGroup}
Behind(g) == {d \in Devices : g \in Selects(d)}

ASSUME ThreadAssumption == NoThread \notin Threads

ASSUME ShapeAssumption ==
  /\ Devices # {}
  /\ Parent \notin Channels
  /\ Place \in [Devices -> Channels \cup {Parent}]
  /\ MuxGroups \cap ModGroups = {}
  /\ NoGroup \notin Groups
  /\ Groups \cap {"mux_lock", "pingroup", "i2cbus"} = {}
  /\ MuxSel \in [Devices -> MuxGroups \cup {NoGroup}]
  /\ ModSel \in [Devices -> ModGroups \cup {NoGroup}]
  /\ Cpld \in [Groups -> Devices]
  /\ \A g \in Groups : Selects(Cpld[g]) = {}
  /\ Length \in [Groups -> Nat \ {0}]
  /\ Value \in [Groups -> [Devices -> SUBSET Devices]]
  /\ MaxAccesses \in Nat \ {0}

\* What the configuration has to provide, as conf/device.xml does: two devices
\* with one address are on different channels, or the first has a select group
\* whose value for it disconnects the second; and the value for a device
\* connects it.
ASSUME AddressAssumption ==
  /\ \A d \in Devices : \A g \in Selects(d) : d \in Value[g][d]
  /\ \A d, e \in Devices :
       (d # e /\ Address[d] = Address[e]) =>
         \/ Parent \notin {Place[d], Place[e]} /\ Place[d] # Place[e]
         \/ \E g \in Selects(d) \cap Selects(e) : e \notin Value[g][d]

VARIABLES
  lock,       \* owner of each mutex
  chan,       \* the channel the GPIO group connects
  connected,  \* the devices each select group connects
  dev,        \* the device of a thread's call
  stage,      \* what the call is doing
  left,       \* transactions left in this stage, 0 before the stage starts
  bus         \* how far the current transaction has got

vars == <<lock, chan, connected, dev, stage, left, bus>>

Locks == Groups \cup {"mux_lock", "pingroup", "i2cbus"}

\* The group the call is selecting.
Group(t) == IF stage[t] = "mux_sel" THEN MuxSel[dev[t]] ELSE ModSel[dev[t]]

\* The device of the current transaction.
Target(t) == IF stage[t] = "access" THEN dev[t] ELSE Cpld[Group(t)]

Muxed(t) == Place[Target(t)] # Parent

\* A register takes a read and a write; the last transaction writes.
IsWrite(t) == stage[t] # "access" /\ left[t] % 2 = 1

\* Mutant of AfterMux: mod_sel_hdl is not compared with NULL.
AfterMuxUnchecked(d) == "mod_sel"

\* The stage that follows, for a call on device d.
AfterMux(d) == IF ModSel[d] = NoGroup THEN "access" ELSE "mod_sel"
First(d) == IF MuxSel[d] = NoGroup THEN AfterMux(d) ELSE "mux_sel"

\* Mutant of BusLocks: the error path of the channel selection does not know
\* that the pin group is held.
BusLocksForgotten(t) ==
  CASE bus[t] \in {"mux", "gpio"} -> {"mux_lock"}
    [] bus[t] = "set"  -> {"mux_lock", "pingroup"}
    [] bus[t] = "run"  -> IF Muxed(t) THEN {"mux_lock", "pingroup", "i2cbus"}
                          ELSE {"i2cbus"}
    [] OTHER -> {}

\* The mutexes the transaction of a thread has taken.
BusLocks(t) ==
  CASE bus[t] = "mux"  -> {"mux_lock"}
    [] bus[t] \in {"gpio", "set"} -> {"mux_lock", "pingroup"}
    [] bus[t] = "run"  -> IF Muxed(t) THEN {"mux_lock", "pingroup", "i2cbus"}
                          ELSE {"i2cbus"}
    [] OTHER -> {}

\* The select groups the call has taken.
SelectLocks(t) ==
  CASE stage[t] = "mux_sel" /\ bus[t] # "none" -> {MuxSel[dev[t]]}
    [] stage[t] = "mod_sel" /\ bus[t] = "none" -> {MuxSel[dev[t]]} \ {NoGroup}
    [] stage[t] = "mod_sel" /\ bus[t] # "none" -> Selects(dev[t])
    [] stage[t] = "access" -> Selects(dev[t])
    [] OTHER -> {}

Free(locks) == [l \in Locks |-> IF l \in locks THEN NoThread ELSE lock[l]]

-----------------------------------------------------------------------------

Init ==
  /\ lock = [l \in Locks |-> NoThread]
  /\ chan \in Channels
  /\ connected \in {f \in [Groups -> SUBSET UNION {Behind(g) : g \in Groups}] :
                      \A g \in Groups : f[g] \subseteq Behind(g)}
  /\ dev = [t \in Threads |-> CHOOSE d \in Devices : TRUE]
  /\ stage = [t \in Threads |-> "idle"]
  /\ left = [t \in Threads |-> 0]
  /\ bus = [t \in Threads |-> "none"]

\* A driver is called for device d.
Start(t, d) ==
  /\ stage[t] = "idle"
  /\ dev' = [dev EXCEPT ![t] = d]
  /\ stage' = [stage EXCEPT ![t] = First(d)]
  /\ UNCHANGED <<lock, chan, connected, left, bus>>

Selecting(t) == stage[t] \in {"mux_sel", "mod_sel"} /\ bus[t] = "none"

Select(t) ==
  /\ lock' = [lock EXCEPT ![Group(t)] = t]
  /\ left' = [left EXCEPT ![t] = 2 * Length[Group(t)]]
  /\ bus' = [bus EXCEPT ![t] = "start"]
  /\ UNCHANGED <<chan, connected, dev, stage>>

\* Mutant of AcquireGroup: the driver does not wait for the group.
AcquireUnlocked(t) == Selecting(t) /\ Select(t)

\* sdi_pin_group_acquire_bus on a select group, then its level is written.
AcquireGroup(t) ==
  /\ Selecting(t)
  /\ lock[Group(t)] = NoThread
  /\ Select(t)

\* The transactions on the device itself, once it is selected.
BeginAccess(t) ==
  /\ stage[t] = "access" /\ bus[t] = "none"
  /\ \E n \in 1..MaxAccesses : left' = [left EXCEPT ![t] = n]
  /\ bus' = [bus EXCEPT ![t] = "start"]
  /\ UNCHANGED <<lock, chan, connected, dev, stage>>

\* sdi_i2cmux_pin_chan_acquire_bus, one step per blocking call.
TakeMux(t) ==
  /\ bus[t] = "start" /\ Muxed(t)
  /\ lock["mux_lock"] = NoThread
  /\ lock' = [lock EXCEPT !["mux_lock"] = t]
  /\ bus' = [bus EXCEPT ![t] = "mux"]
  /\ UNCHANGED <<chan, connected, dev, stage, left>>

TakePinGroup(t) ==
  /\ bus[t] = "mux"
  /\ lock["pingroup"] = NoThread
  /\ lock' = [lock EXCEPT !["pingroup"] = t]
  /\ bus' = [bus EXCEPT ![t] = "gpio"]
  /\ UNCHANGED <<chan, connected, dev, stage, left>>

\* Mutant of SetChannel: the result of the channel write is not looked at.
SetChannelUnchecked(t) ==
  /\ bus[t] = "gpio"
  /\ chan' \in {chan, Place[Target(t)]}
  /\ bus' = [bus EXCEPT ![t] = "set"]
  /\ UNCHANGED <<lock, connected, dev, stage, left>>

SetChannel(t) ==
  /\ bus[t] = "gpio"
  /\ chan' = Place[Target(t)]
  /\ bus' = [bus EXCEPT ![t] = "set"]
  /\ UNCHANGED <<lock, connected, dev, stage, left>>

\* The parent bus, for a device behind the multiplexer or on the bus itself.
TakeBus(t) ==
  /\ bus[t] = "set" \/ (bus[t] = "start" /\ ~Muxed(t))
  /\ lock["i2cbus"] = NoThread
  /\ lock' = [lock EXCEPT !["i2cbus"] = t]
  /\ bus' = [bus EXCEPT ![t] = "run"]
  /\ UNCHANGED <<chan, connected, dev, stage, left>>

\* What a write of a select register does: after the last register the group
\* connects the devices of the value, before it any of them.
Connect(t) ==
  IF IsWrite(t)
  THEN \E s \in SUBSET Behind(Group(t)) :
         /\ left[t] = 1 => s = Value[Group(t)][dev[t]]
         /\ connected' = [connected EXCEPT ![Group(t)] = s]
  ELSE UNCHANGED connected

\* A transaction succeeds and others follow in this stage.
Continue(t) ==
  /\ bus[t] = "run" /\ left[t] > 1
  /\ Connect(t)
  /\ lock' = Free(BusLocks(t))
  /\ left' = [left EXCEPT ![t] = @ - 1]
  /\ bus' = [bus EXCEPT ![t] = "start"]
  /\ UNCHANGED <<chan, dev, stage>>

\* The last write of a group succeeds.
Selected(t) ==
  /\ bus[t] = "run" /\ left[t] = 1 /\ stage[t] # "access"
  /\ Connect(t)
  /\ lock' = Free(BusLocks(t))
  /\ stage' = [stage EXCEPT ![t] = IF @ = "mux_sel" THEN AfterMux(dev[t])
                                   ELSE "access"]
  /\ left' = [left EXCEPT ![t] = 0]
  /\ bus' = [bus EXCEPT ![t] = "none"]
  /\ UNCHANGED <<chan, dev>>

\* The call returns: every mutex it has is released.
Return(t) ==
  /\ lock' = Free(BusLocks(t) \cup SelectLocks(t))
  /\ stage' = [stage EXCEPT ![t] = "idle"]
  /\ left' = [left EXCEPT ![t] = 0]
  /\ bus' = [bus EXCEPT ![t] = "none"]
  /\ UNCHANGED dev

\* The last access succeeds and the device is deselected: its groups are
\* released, their levels stay.
Finish(t) ==
  /\ bus[t] = "run" /\ left[t] = 1 /\ stage[t] = "access"
  /\ Return(t)
  /\ UNCHANGED <<chan, connected>>

\* Taking a mutex, setting the channel or the transaction itself fails: the
\* transaction and the selection are undone and the error returned.  A failed
\* channel write leaves some channel connected, a failed register write some
\* devices.
Fail(t) ==
  /\ stage[t] # "idle"
  /\ IF bus[t] = "gpio" THEN chan' \in Channels ELSE UNCHANGED chan
  /\ IF bus[t] = "run" /\ IsWrite(t)
     THEN \E s \in SUBSET Behind(Group(t)) :
            connected' = [connected EXCEPT ![Group(t)] = s]
     ELSE UNCHANGED connected
  /\ Return(t)

Proceed(t) ==
  \/ AcquireGroup(t)
  \/ BeginAccess(t)
  \/ TakeMux(t)
  \/ TakePinGroup(t)
  \/ SetChannel(t)
  \/ TakeBus(t)
  \/ Continue(t)
  \/ Selected(t)
  \/ Finish(t)

Next ==
  \E t \in Threads :
    \/ \E d \in Devices : Start(t, d)
    \/ Proceed(t)
    \/ Fail(t)

Spec == Init /\ [][Next]_vars

\* A thread inside a driver goes on; which waiting thread gets a mutex is left
\* open, since the mutexes are not fair, and nothing has to fail.
FairSpec == Spec /\ \A t \in Threads : WF_vars(Proceed(t))
-----------------------------------------------------------------------------

Stages == {"idle", "mux_sel", "mod_sel", "access"}
BusStages == {"none", "start", "mux", "gpio", "set", "run"}

\* Types of the state; a selecting call has a group to select.
TypeOK ==
  /\ lock \in [Locks -> Threads \cup {NoThread}]
  /\ chan \in Channels
  /\ connected \in [Groups -> SUBSET Devices]
  /\ dev \in [Threads -> Devices]
  /\ stage \in [Threads -> Stages]
  /\ left \in [Threads -> Nat]
  /\ bus \in [Threads -> BusStages]
  /\ \A t \in Threads :
       /\ stage[t] = "mux_sel" => MuxSel[dev[t]] # NoGroup
       /\ stage[t] = "mod_sel" => ModSel[dev[t]] # NoGroup
       /\ bus[t] # "none" => stage[t] # "idle" /\ left[t] > 0

\* The devices that see a transaction with address a.
Answering(a) ==
  {d \in Devices : /\ Address[d] = a
                   /\ Place[d] \in {Parent, chan}
                   /\ \A g \in Selects(d) : d \in connected[g]}

\* A transaction is answered by the device it is meant for and by no other,
\* although devices share addresses: the channel is the device's channel and,
\* during an access, the select groups connect it alone.  Other threads
\* move the channel and the groups between any two transactions of a call.
OnlyTheDeviceAnswers ==
  \A t \in Threads : bus[t] = "run" =>
    Answering(Address[Target(t)]) = {Target(t)}

Selectable == {d \in Devices : Selects(d) # {}}

\* A caller uses a transceiver from the end of its selection to its return.
Selection == INSTANCE ModuleSelection WITH
  Callers <- Threads,
  Modules <- Selectable,
  Rivals <- [d \in Selectable |->
               {e \in Selectable : Selects(d) \cap Selects(e) # {}}],
  users <- [d \in Selectable |->
              {t \in Threads : stage[t] = "access" /\ dev[t] = d}]

\* The select groups give a transceiver to one call at a time, which starts
\* when no call uses a transceiver of the same group: the several transactions
\* of a call are not mixed with those of another, and its selection is not
\* changed under it, whatever fails on the way.
ImplementsModuleSelection == Selection!Spec

\* The mutex a thread needs for its next step, as a set.
Needs(t) ==
  CASE Selecting(t) -> {Group(t)}
    [] bus[t] = "start" -> IF Muxed(t) THEN {"mux_lock"} ELSE {"i2cbus"}
    [] bus[t] = "mux" -> {"pingroup"}
    [] bus[t] = "set" -> {"i2cbus"}
    [] OTHER -> {}

WaitsFor(t, u) == \E l \in Needs(t) : lock[l] = u

\* No threads wait for each other in a circle, for themselves, or for a thread
\* that has returned and left a mutex locked: every set of threads inside
\* drivers has one that can go on or waits for a thread outside the set that
\* is itself inside a driver.
NoDeadlock ==
  \A S \in SUBSET {t \in Threads : stage[t] # "idle"} :
    S # {} =>
      \E t \in S : \A u \in Threads :
        WaitsFor(t, u) => u \notin S /\ stage[u] # "idle"

\* When all threads are inside drivers, one of them returns.
SomeoneReturns ==
  (\A t \in Threads : stage[t] # "idle") ~> (\E t \in Threads : stage[t] = "idle")
==============================================================================
