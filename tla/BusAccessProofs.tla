--------------------------- MODULE BusAccessProofs ---------------------------
(***************************************************************************)
(* Proofs about BusAccess for every set of threads and every configuration *)
(* of devices, channels and select groups.                                 *)
(*                                                                         *)
(* The inductive invariant says which mutexes each thread has at each      *)
(* point (OwnsHeld), that a channel once set stays set until the           *)
(* transaction is over (ChannelKept), and that a select group keeps the    *)
(* value written for the call until the call returns (SelectionKept).      *)
(***************************************************************************)
EXTENDS BusAccess, TLAPS

BusNames == {"mux_lock", "pingroup", "i2cbus"}

Held(t) == BusLocks(t) \cup SelectLocks(t)

\* A mutex is owned by the thread that is at a point where it has it.
OwnsHeld == \A t \in Threads, l \in Locks : lock[l] = t <=> l \in Held(t)

ChannelKept(t) ==
  /\ bus[t] \in {"mux", "gpio", "set"} => Muxed(t)
  /\ bus[t] \in {"set", "run"} /\ Muxed(t) => chan = Place[Target(t)]

SelectionKept(t) ==
  /\ (stage[t] \in {"mod_sel", "access"} /\ MuxSel[dev[t]] # NoGroup)
       => connected[MuxSel[dev[t]]] = Value[MuxSel[dev[t]]][dev[t]]
  /\ (stage[t] = "access" /\ ModSel[dev[t]] # NoGroup)
       => connected[ModSel[dev[t]]] = Value[ModSel[dev[t]]][dev[t]]

IInv ==
  /\ TypeOK
  /\ OwnsHeld
  /\ \A t \in Threads : ChannelKept(t)
  /\ \A t \in Threads : SelectionKept(t)

-----------------------------------------------------------------------------
(* Types.                                                                  *)

\* The group of a selecting call is a group of its device.
LEMMA GroupType ==
  ASSUME TypeOK, NEW t \in Threads, stage[t] \in {"mux_sel", "mod_sel"}
  PROVE  /\ Group(t) \in Groups
         /\ Group(t) \in Selects(dev[t])
         /\ Group(t) \in Locks
         /\ Group(t) \notin BusNames
         /\ Length[Group(t)] \in Nat \ {0}
         /\ Value[Group(t)][dev[t]] \in SUBSET Devices
<1>1. Group(t) \in Groups /\ Group(t) \in Selects(dev[t])
  BY ShapeAssumption DEF TypeOK, Group, Groups, Selects
<1> QED
  BY <1>1, ShapeAssumption DEF TypeOK, Locks, BusNames

LEMMA TargetType ==
  ASSUME TypeOK, NEW t \in Threads, stage[t] # "idle"
  PROVE  /\ Target(t) \in Devices
         /\ Place[Target(t)] \in Channels \cup {Parent}
<1>1. Target(t) \in Devices
  <2>1. CASE stage[t] = "access"
    BY <2>1 DEF Target, TypeOK
  <2>2. CASE stage[t] # "access"
    <3>1. stage[t] \in {"mux_sel", "mod_sel"}
      BY <2>2 DEF TypeOK, Stages
    <3> QED
      BY <3>1, <2>2, GroupType, ShapeAssumption DEF Target
  <2> QED BY <2>1, <2>2
<1> QED
  BY <1>1, ShapeAssumption

LEMMA TypeInit == Init => TypeOK
<1> SUFFICES ASSUME Init PROVE TypeOK
  OBVIOUS
<1>1. (CHOOSE d \in Devices : TRUE) \in Devices
  BY ShapeAssumption
<1>2. connected \in [Groups -> SUBSET Devices]
  <2>1. \A g \in Groups : Behind(g) \subseteq Devices
    BY DEF Behind
  <2> QED
    BY <2>1 DEF Init
<1> QED
  BY <1>1, <1>2 DEF Init, TypeOK, Stages, BusStages

\* Freeing mutexes keeps the type of lock.
LEMMA FreeType ==
  ASSUME TypeOK, NEW L
  PROVE  Free(L) \in [Locks -> Threads \cup {NoThread}]
  BY DEF TypeOK, Free

LEMMA ConnectType ==
  ASSUME TypeOK, NEW t \in Threads, stage[t] # "idle", Connect(t)
  PROVE  connected' \in [Groups -> SUBSET Devices]
<1>1. CASE IsWrite(t)
  <2>1. stage[t] \in {"mux_sel", "mod_sel"}
    BY <1>1 DEF IsWrite, TypeOK, Stages
  <2>2. PICK s \in SUBSET Behind(Group(t)) :
          connected' = [connected EXCEPT ![Group(t)] = s]
    BY <1>1 DEF Connect
  <2>3. s \in SUBSET Devices
    BY DEF Behind
  <2> QED
    BY <2>1, <2>2, <2>3, GroupType DEF TypeOK
<1>2. CASE ~IsWrite(t)
  BY <1>2 DEF Connect, TypeOK
<1> QED BY <1>1, <1>2

LEMMA TypeStep ==
  TypeOK /\ (\A t \in Threads : ChannelKept(t)) /\ [Next]_vars => TypeOK'
<1> SUFFICES ASSUME TypeOK, \A t \in Threads : ChannelKept(t), [Next]_vars
             PROVE  TypeOK'
  OBVIOUS
<1>1. ASSUME NEW t \in Threads, NEW d \in Devices, Start(t, d) PROVE TypeOK'
  <2>1. /\ First(d) \in Stages
        /\ First(d) = "mux_sel" => MuxSel[d] # NoGroup
        /\ First(d) = "mod_sel" => ModSel[d] # NoGroup
    BY DEF First, AfterMux, Stages
  <2> QED
    BY <1>1, <2>1 DEF Start, TypeOK
<1>2. ASSUME NEW t \in Threads, AcquireGroup(t) PROVE TypeOK'
  <2>1. stage[t] \in {"mux_sel", "mod_sel"}
    BY <1>2 DEF AcquireGroup, Selecting
  <2>2. 2 * Length[Group(t)] \in Nat /\ 2 * Length[Group(t)] > 0
    BY <2>1, GroupType
  <2> QED
    BY <1>2, <2>1, <2>2, GroupType
    DEF AcquireGroup, Select, TypeOK, BusStages
<1>3. ASSUME NEW t \in Threads, BeginAccess(t) PROVE TypeOK'
  <2>1. PICK n \in 1..MaxAccesses : left' = [left EXCEPT ![t] = n]
    BY <1>3 DEF BeginAccess
  <2>2. n \in Nat /\ n > 0
    BY ShapeAssumption
  <2> QED
    BY <1>3, <2>1, <2>2 DEF BeginAccess, TypeOK, BusStages
<1>4. ASSUME NEW t \in Threads, TakeMux(t) PROVE TypeOK'
  BY <1>4 DEF TakeMux, TypeOK, BusStages
<1>5. ASSUME NEW t \in Threads, TakePinGroup(t) PROVE TypeOK'
  BY <1>5 DEF TakePinGroup, TypeOK, BusStages
<1>6. ASSUME NEW t \in Threads, SetChannel(t) PROVE TypeOK'
  <2>1. chan' \in Channels
    BY <1>6, TargetType DEF SetChannel, ChannelKept, Muxed, TypeOK
  <2> QED
    BY <1>6, <2>1 DEF SetChannel, TypeOK, BusStages
<1>7. ASSUME NEW t \in Threads, TakeBus(t) PROVE TypeOK'
  BY <1>7 DEF TakeBus, TypeOK, BusStages
<1>8. ASSUME NEW t \in Threads, Continue(t) PROVE TypeOK'
  <2>1. stage[t] # "idle" /\ left[t] - 1 \in Nat /\ left[t] - 1 > 0
    BY <1>8 DEF Continue, TypeOK
  <2>2. connected' \in [Groups -> SUBSET Devices]
    BY <1>8, <2>1, ConnectType DEF Continue
  <2> QED
    BY <1>8, <2>1, <2>2, FreeType DEF Continue, TypeOK, BusStages
<1>9. ASSUME NEW t \in Threads, Selected(t) PROVE TypeOK'
  <2>1. stage[t] # "idle"
    BY <1>9 DEF Selected, TypeOK
  <2>2. connected' \in [Groups -> SUBSET Devices]
    BY <1>9, <2>1, ConnectType DEF Selected
  <2>3. /\ stage'[t] \in {"mod_sel", "access"}
        /\ stage'[t] = "mod_sel" => ModSel[dev[t]] # NoGroup
    BY <1>9 DEF Selected, AfterMux, TypeOK
  <2>4. stage' = [stage EXCEPT ![t] = stage'[t]]
    BY <1>9 DEF Selected, TypeOK
  <2> QED
    BY <1>9, <2>2, <2>3, <2>4, FreeType DEF Selected, TypeOK, Stages, BusStages
<1>10. ASSUME NEW t \in Threads, Return(t), chan' \in Channels,
              connected' \in [Groups -> SUBSET Devices]
       PROVE  TypeOK'
  BY <1>10, FreeType DEF Return, TypeOK, Stages, BusStages
<1>11. ASSUME NEW t \in Threads, Finish(t) PROVE TypeOK'
  BY <1>10, <1>11 DEF Finish, TypeOK
<1>12. ASSUME NEW t \in Threads, Fail(t) PROVE TypeOK'
  <2>1. chan' \in Channels
    BY <1>12 DEF Fail, TypeOK
  <2>2. connected' \in [Groups -> SUBSET Devices]
    <3>1. CASE bus[t] = "run" /\ IsWrite(t)
      <4>1. stage[t] \in {"mux_sel", "mod_sel"}
        BY <1>12, <3>1 DEF Fail, IsWrite, TypeOK, Stages
      <4>2. PICK s \in SUBSET Behind(Group(t)) :
              connected' = [connected EXCEPT ![Group(t)] = s]
        BY <1>12, <3>1 DEF Fail
      <4>3. s \in SUBSET Devices
        BY DEF Behind
      <4> QED
        BY <4>1, <4>2, <4>3, GroupType DEF TypeOK
    <3>2. CASE ~(bus[t] = "run" /\ IsWrite(t))
      BY <1>12, <3>2 DEF Fail, TypeOK
    <3> QED BY <3>1, <3>2
  <2> QED
    BY <1>10, <1>12, <2>1, <2>2 DEF Fail
<1>13. CASE UNCHANGED vars
  BY <1>13 DEF vars, TypeOK
<1> QED
  BY <1>1, <1>2, <1>3, <1>4, <1>5, <1>6, <1>7, <1>8, <1>9, <1>11, <1>12, <1>13
  DEF Next, Proceed

-----------------------------------------------------------------------------
(* Who has which mutex.                                                    *)

\* What a thread has, needs and addresses depends on its own state only.
LEMMA Unmoved ==
  ASSUME NEW u \in Threads,
         dev'[u] = dev[u], stage'[u] = stage[u], bus'[u] = bus[u]
  PROVE  /\ Target(u)' = Target(u) /\ Muxed(u)' = Muxed(u)
         /\ Held(u)' = Held(u)
<1>1. Target(u)' = Target(u)
  BY DEF Target, Group
<1>2. Muxed(u)' = Muxed(u)
  BY <1>1 DEF Muxed
<1>3. BusLocks(u)' = BusLocks(u)
  BY <1>2 DEF BusLocks
<1>4. SelectLocks(u)' = SelectLocks(u)
  BY DEF SelectLocks, Selects
<1> QED
  BY <1>1, <1>2, <1>3, <1>4 DEF Held

\* A step of one thread does not move the others.
LEMMA OthersUnmoved ==
  ASSUME TypeOK, NEW t \in Threads, NEW u \in Threads, u # t,
         (\E d \in Devices : Start(t, d)) \/ Proceed(t) \/ Fail(t)
  PROVE  dev'[u] = dev[u] /\ stage'[u] = stage[u] /\ bus'[u] = bus[u]
  BY DEF TypeOK, Start, Proceed, AcquireGroup, Select, BeginAccess, TakeMux,
         TakePinGroup, SetChannel, TakeBus, Continue, Selected, Finish, Fail,
         Return

\* The step takes the mutexes L, which are free, and has them afterwards.
Grabs(t, L) ==
  /\ L \subseteq Locks
  /\ \A l \in L : lock[l] = NoThread
  /\ lock' = [l \in Locks |-> IF l \in L THEN t ELSE lock[l]]
  /\ Held(t)' = Held(t) \cup L

\* The step releases the mutexes L, which it had, and has the others still.
Drops(t, L) ==
  /\ L \subseteq Held(t)
  /\ lock' = Free(L)
  /\ Held(t)' = Held(t) \ L

LEMMA GrabbedOwned ==
  ASSUME TypeOK, OwnsHeld, NEW t \in Threads, NEW L, Grabs(t, L),
         \A u \in Threads : u # t => Held(u)' = Held(u)
  PROVE  OwnsHeld'
<1> SUFFICES ASSUME NEW u \in Threads, NEW l \in Locks
             PROVE  lock'[l] = u <=> l \in Held(u)'
  BY DEF OwnsHeld
<1>1. lock[l] = u <=> l \in Held(u)
  BY DEF OwnsHeld
<1>2. lock'[l] = IF l \in L THEN t ELSE lock[l]
  BY DEF Grabs
<1>3. l \in L => lock[l] # u
  BY ThreadAssumption DEF Grabs
<1>4. CASE u = t
  BY <1>1, <1>2, <1>4 DEF Grabs
<1>5. CASE u # t
  BY <1>1, <1>2, <1>3, <1>5
<1> QED BY <1>4, <1>5

LEMMA DroppedOwned ==
  ASSUME TypeOK, OwnsHeld, NEW t \in Threads, NEW L, Drops(t, L),
         \A u \in Threads : u # t => Held(u)' = Held(u)
  PROVE  OwnsHeld'
<1> SUFFICES ASSUME NEW u \in Threads, NEW l \in Locks
             PROVE  lock'[l] = u <=> l \in Held(u)'
  BY DEF OwnsHeld
<1>1. (lock[l] = u <=> l \in Held(u)) /\ (lock[l] = t <=> l \in Held(t))
  BY DEF OwnsHeld
<1>2. lock'[l] = IF l \in L THEN NoThread ELSE lock[l]
  BY DEF Drops, Free
<1>3. l \in L => lock[l] = t
  BY <1>1 DEF Drops
<1>4. CASE u = t
  BY <1>1, <1>2, <1>4, ThreadAssumption DEF Drops
<1>5. CASE u # t
  BY <1>1, <1>2, <1>3, <1>5, ThreadAssumption
<1> QED BY <1>4, <1>5

\* What a thread has at each point, spelt out.
LEMMA HeldCases ==
  ASSUME NEW t \in Threads
  PROVE  /\ bus[t] \in {"none", "start"} => BusLocks(t) = {}
         /\ bus[t] = "mux" => BusLocks(t) = {"mux_lock"}
         /\ bus[t] \in {"gpio", "set"} => BusLocks(t) = {"mux_lock", "pingroup"}
         /\ bus[t] = "run" /\ Muxed(t) => BusLocks(t) = BusNames
         /\ bus[t] = "run" /\ ~Muxed(t) => BusLocks(t) = {"i2cbus"}
  BY DEF BusLocks, BusNames

LEMMA SelectCases ==
  ASSUME NEW t \in Threads
  PROVE  /\ stage[t] = "idle" => SelectLocks(t) = {}
         /\ stage[t] = "mux_sel" /\ bus[t] = "none" => SelectLocks(t) = {}
         /\ stage[t] = "mux_sel" /\ bus[t] # "none"
              => SelectLocks(t) = {MuxSel[dev[t]]}
         /\ stage[t] = "mod_sel" /\ bus[t] = "none"
              => SelectLocks(t) = {MuxSel[dev[t]]} \ {NoGroup}
         /\ stage[t] = "mod_sel" /\ bus[t] # "none"
              => SelectLocks(t) = {MuxSel[dev[t]], ModSel[dev[t]]} \ {NoGroup}
         /\ stage[t] = "access"
              => SelectLocks(t) = {MuxSel[dev[t]], ModSel[dev[t]]} \ {NoGroup}
  BY DEF SelectLocks, Selects

\* The mutexes of the bus are no select groups.
LEMMA LocksApart ==
  ASSUME TypeOK, NEW t \in Threads
  PROVE  /\ SelectLocks(t) \subseteq Groups
         /\ BusLocks(t) \subseteq BusNames
         /\ Groups \cap BusNames = {}
         /\ Locks = Groups \cup BusNames
<1>1. MuxSel[dev[t]] \in Groups \cup {NoGroup} /\ ModSel[dev[t]] \in Groups \cup {NoGroup}
  BY ShapeAssumption DEF TypeOK, Groups
<1>2. SelectLocks(t) \subseteq Groups
  <2>1. stage[t] \in Stages
    BY DEF TypeOK
  <2>2. stage[t] = "mux_sel" => MuxSel[dev[t]] # NoGroup
    BY DEF TypeOK
  <2> QED
    BY <1>1, <2>1, <2>2, SelectCases DEF Stages
<1>3. BusLocks(t) \subseteq BusNames
  BY HeldCases DEF TypeOK, BusStages, BusNames
<1>4. Groups \cap BusNames = {} /\ Locks = Groups \cup BusNames
  BY ShapeAssumption DEF Locks, BusNames
<1> QED
  BY <1>2, <1>3, <1>4

LEMMA StartHolds ==
  ASSUME TypeOK, NEW t \in Threads, NEW d \in Devices, Start(t, d)
  PROVE  Drops(t, {})
<1>1. /\ bus[t] = "none" /\ bus'[t] = "none"
      /\ dev'[t] = d /\ stage'[t] = First(d)
      /\ lock' = lock
  BY DEF Start, TypeOK, BusStages
<1>2. BusLocks(t) = {} /\ SelectLocks(t) = {}
  BY <1>1, HeldCases, SelectCases DEF Start
<1>3. BusLocks(t)' = {}
  BY <1>1 DEF BusLocks
<1>4. SelectLocks(t)' = {}
  BY <1>1 DEF SelectLocks, First, AfterMux, Selects
<1>5. lock' = Free({})
  BY <1>1 DEF Free, TypeOK
<1> QED
  BY <1>2, <1>3, <1>4, <1>5 DEF Drops, Held

LEMMA AcquireHolds ==
  ASSUME TypeOK, NEW t \in Threads, AcquireGroup(t)
  PROVE  Grabs(t, {Group(t)})
<1>1. /\ stage[t] \in {"mux_sel", "mod_sel"}
      /\ bus[t] = "none" /\ bus'[t] = "start"
      /\ dev'[t] = dev[t] /\ stage'[t] = stage[t]
      /\ lock[Group(t)] = NoThread
      /\ lock' = [lock EXCEPT ![Group(t)] = t]
  BY DEF AcquireGroup, Select, Selecting, TypeOK
<1>2. BusLocks(t) = {} /\ BusLocks(t)' = {}
  BY <1>1 DEF BusLocks
<1>3. SelectLocks(t)' = SelectLocks(t) \cup {Group(t)}
  <2>1. CASE stage[t] = "mux_sel"
    BY <1>1, <2>1 DEF SelectLocks, Group
  <2>2. CASE stage[t] = "mod_sel"
    <3>1. ModSel[dev[t]] # NoGroup
      BY <2>2 DEF TypeOK
    <3> QED
      BY <1>1, <2>2, <3>1 DEF SelectLocks, Group, Selects
  <2> QED BY <1>1, <2>1, <2>2
<1>4. lock' = [l \in Locks |-> IF l \in {Group(t)} THEN t ELSE lock[l]]
  BY <1>1 DEF TypeOK
<1> QED
  BY <1>1, <1>2, <1>3, <1>4, GroupType DEF Grabs, Held

\* The steps of a transaction leave the selection alone.
LEMMA SelectLocksKept ==
  ASSUME NEW t \in Threads, dev'[t] = dev[t], stage'[t] = stage[t],
         bus[t] # "none", bus'[t] # "none"
  PROVE  SelectLocks(t)' = SelectLocks(t)
  BY DEF SelectLocks, Selects

LEMMA BeginHolds ==
  ASSUME TypeOK, NEW t \in Threads, BeginAccess(t)
  PROVE  Drops(t, {})
<1>1. /\ stage[t] = "access" /\ bus[t] = "none" /\ bus'[t] = "start"
      /\ dev'[t] = dev[t] /\ stage'[t] = stage[t] /\ lock' = lock
  BY DEF BeginAccess, TypeOK
<1>2. Held(t)' = Held(t)
  BY <1>1 DEF Held, BusLocks, SelectLocks, Selects
<1>3. lock' = Free({})
  BY <1>1 DEF Free, TypeOK
<1> QED
  BY <1>2, <1>3 DEF Drops

LEMMA TakeMuxHolds ==
  ASSUME TypeOK, NEW t \in Threads, TakeMux(t)
  PROVE  Grabs(t, {"mux_lock"})
<1>1. /\ bus[t] = "start" /\ bus'[t] = "mux"
      /\ dev'[t] = dev[t] /\ stage'[t] = stage[t]
      /\ lock["mux_lock"] = NoThread
      /\ lock' = [lock EXCEPT !["mux_lock"] = t]
  BY DEF TakeMux, TypeOK
<1>2. BusLocks(t) = {} /\ BusLocks(t)' = {"mux_lock"}
  BY <1>1 DEF BusLocks
<1>3. SelectLocks(t)' = SelectLocks(t)
  BY <1>1, SelectLocksKept
<1>4. lock' = [l \in Locks |-> IF l \in {"mux_lock"} THEN t ELSE lock[l]]
  BY <1>1 DEF TypeOK
<1> QED
  BY <1>1, <1>2, <1>3, <1>4 DEF Grabs, Held, Locks

LEMMA TakePinGroupHolds ==
  ASSUME TypeOK, NEW t \in Threads, TakePinGroup(t)
  PROVE  Grabs(t, {"pingroup"})
<1>1. /\ bus[t] = "mux" /\ bus'[t] = "gpio"
      /\ dev'[t] = dev[t] /\ stage'[t] = stage[t]
      /\ lock["pingroup"] = NoThread
      /\ lock' = [lock EXCEPT !["pingroup"] = t]
  BY DEF TakePinGroup, TypeOK
<1>2. BusLocks(t)' = BusLocks(t) \cup {"pingroup"}
  BY <1>1 DEF BusLocks
<1>3. SelectLocks(t)' = SelectLocks(t)
  BY <1>1, SelectLocksKept
<1>4. lock' = [l \in Locks |-> IF l \in {"pingroup"} THEN t ELSE lock[l]]
  BY <1>1 DEF TypeOK
<1> QED
  BY <1>1, <1>2, <1>3, <1>4 DEF Grabs, Held, Locks

LEMMA SetChannelHolds ==
  ASSUME TypeOK, NEW t \in Threads, SetChannel(t)
  PROVE  Drops(t, {})
<1>1. /\ bus[t] = "gpio" /\ bus'[t] = "set"
      /\ dev'[t] = dev[t] /\ stage'[t] = stage[t] /\ lock' = lock
  BY DEF SetChannel, TypeOK
<1>2. BusLocks(t)' = BusLocks(t)
  BY <1>1 DEF BusLocks
<1>3. SelectLocks(t)' = SelectLocks(t)
  BY <1>1, SelectLocksKept
<1>4. lock' = Free({})
  BY <1>1 DEF Free, TypeOK
<1> QED
  BY <1>2, <1>3, <1>4 DEF Drops, Held

LEMMA TakeBusHolds ==
  ASSUME TypeOK, NEW t \in Threads, ChannelKept(t), TakeBus(t)
  PROVE  Grabs(t, {"i2cbus"})
<1>1. /\ bus[t] \in {"start", "set"} /\ bus'[t] = "run"
      /\ bus[t] = "set" <=> Muxed(t)
      /\ dev'[t] = dev[t] /\ stage'[t] = stage[t]
      /\ lock["i2cbus"] = NoThread
      /\ lock' = [lock EXCEPT !["i2cbus"] = t]
  BY DEF TakeBus, TypeOK, ChannelKept
<1>2. Muxed(t)' = Muxed(t)
  BY <1>1 DEF Muxed, Target, Group
<1>3. BusLocks(t)' = BusLocks(t) \cup {"i2cbus"}
  BY <1>1, <1>2 DEF BusLocks
<1>4. SelectLocks(t)' = SelectLocks(t)
  BY <1>1, SelectLocksKept
<1>5. lock' = [l \in Locks |-> IF l \in {"i2cbus"} THEN t ELSE lock[l]]
  BY <1>1 DEF TypeOK
<1> QED
  BY <1>1, <1>3, <1>4, <1>5 DEF Grabs, Held, Locks

LEMMA ContinueHolds ==
  ASSUME TypeOK, NEW t \in Threads, Continue(t)
  PROVE  Drops(t, BusLocks(t))
<1>1. /\ bus[t] = "run" /\ bus'[t] = "start"
      /\ dev'[t] = dev[t] /\ stage'[t] = stage[t]
      /\ lock' = Free(BusLocks(t))
  BY DEF Continue, TypeOK
<1>2. BusLocks(t)' = {}
  BY <1>1 DEF BusLocks
<1>3. SelectLocks(t)' = SelectLocks(t)
  BY <1>1, SelectLocksKept
<1> QED
  BY <1>1, <1>2, <1>3, LocksApart DEF Drops, Held

LEMMA SelectedHolds ==
  ASSUME TypeOK, NEW t \in Threads, Selected(t)
  PROVE  Drops(t, BusLocks(t))
<1>1. /\ bus[t] = "run" /\ bus'[t] = "none" /\ stage[t] \in {"mux_sel", "mod_sel"}
      /\ dev'[t] = dev[t]
      /\ stage'[t] = IF stage[t] = "mux_sel" THEN AfterMux(dev[t]) ELSE "access"
      /\ lock' = Free(BusLocks(t))
  BY DEF Selected, TypeOK, Stages
<1>2. BusLocks(t)' = {}
  BY <1>1 DEF BusLocks
<1>3. SelectLocks(t)' = SelectLocks(t)
  <2>1. CASE stage[t] = "mux_sel"
    <3>1. MuxSel[dev[t]] # NoGroup
      BY <2>1 DEF TypeOK
    <3>2. SelectLocks(t) = {MuxSel[dev[t]]}
      BY <1>1, <2>1, SelectCases
    <3>3. CASE ModSel[dev[t]] = NoGroup
      BY <1>1, <2>1, <3>1, <3>2, <3>3 DEF SelectLocks, AfterMux, Selects
    <3>4. CASE ModSel[dev[t]] # NoGroup
      BY <1>1, <2>1, <3>1, <3>2, <3>4 DEF SelectLocks, AfterMux
    <3> QED BY <3>3, <3>4
  <2>2. CASE stage[t] = "mod_sel"
    BY <1>1, <2>2 DEF SelectLocks, Selects
  <2> QED BY <1>1, <2>1, <2>2
<1> QED
  BY <1>1, <1>2, <1>3, LocksApart DEF Drops, Held

LEMMA ReturnHolds ==
  ASSUME TypeOK, NEW t \in Threads, Return(t)
  PROVE  Drops(t, BusLocks(t) \cup SelectLocks(t))
<1>1. /\ bus'[t] = "none" /\ stage'[t] = "idle"
      /\ lock' = Free(BusLocks(t) \cup SelectLocks(t))
  BY DEF Return, TypeOK
<1>2. Held(t)' = {}
  BY <1>1 DEF Held, BusLocks, SelectLocks
<1> QED
  BY <1>1, <1>2 DEF Drops, Held

LEMMA OwnsHeldStep ==
  ASSUME TypeOK, OwnsHeld, \A t \in Threads : ChannelKept(t), [Next]_vars
  PROVE  OwnsHeld'
<1>1. ASSUME NEW t \in Threads,
             (\E d \in Devices : Start(t, d)) \/ Proceed(t) \/ Fail(t)
      PROVE  OwnsHeld'
  <2>1. \A u \in Threads : u # t => Held(u)' = Held(u)
    BY <1>1, OthersUnmoved, Unmoved
  <2>2. (\E L : Grabs(t, L)) \/ (\E L : Drops(t, L))
    BY <1>1, StartHolds, AcquireHolds, BeginHolds, TakeMuxHolds,
       TakePinGroupHolds, SetChannelHolds, TakeBusHolds, ContinueHolds,
       SelectedHolds, ReturnHolds
    DEF Proceed, Finish, Fail
  <2> QED
    BY <2>1, <2>2, GrabbedOwned, DroppedOwned
<1>2. CASE UNCHANGED vars
  <2>1. \A u \in Threads : Held(u)' = Held(u)
    BY <1>2, Unmoved DEF vars
  <2> QED
    BY <1>2, <2>1 DEF vars, OwnsHeld
<1> QED
  BY <1>1, <1>2 DEF Next

-----------------------------------------------------------------------------
(* The channel and the selection are kept.                                 *)

\* Two threads do not have one mutex.
LEMMA Exclusive ==
  ASSUME OwnsHeld, NEW t \in Threads, NEW u \in Threads, u # t,
         NEW l \in Locks, l \in Held(t)
  PROVE  l \notin Held(u)
  BY DEF OwnsHeld

\* Only a thread that has the pin group moves the channel.
LEMMA ChannelMoves ==
  ASSUME TypeOK, NEW t \in Threads, Proceed(t) \/ Fail(t), chan' # chan
  PROVE  bus[t] = "gpio" /\ "pingroup" \in Held(t)
<1>1. bus[t] = "gpio"
  BY DEF Proceed, AcquireGroup, Select, BeginAccess, TakeMux, TakePinGroup,
         SetChannel, TakeBus, Continue, Selected, Finish, Fail
<1> QED
  BY <1>1 DEF Held, BusLocks

LEMMA ChannelKeptStep ==
  ASSUME TypeOK, OwnsHeld, \A t \in Threads : ChannelKept(t), [Next]_vars,
         NEW u \in Threads
  PROVE  ChannelKept(u)'
<1>1. ASSUME NEW t \in Threads, u # t,
             (\E d \in Devices : Start(t, d)) \/ Proceed(t) \/ Fail(t)
      PROVE  ChannelKept(u)'
  <2>1. /\ dev'[u] = dev[u] /\ stage'[u] = stage[u] /\ bus'[u] = bus[u]
        /\ Target(u)' = Target(u) /\ Muxed(u)' = Muxed(u)
    BY <1>1, OthersUnmoved, Unmoved
  <2>2. CASE chan' = chan
    BY <2>1, <2>2 DEF ChannelKept
  <2>3. CASE chan' # chan
    <3>1. Proceed(t) \/ Fail(t)
      BY <1>1, <2>3 DEF Start
    <3>2. "pingroup" \in Held(t)
      BY <2>3, <3>1, ChannelMoves
    <3>3. "pingroup" \notin Held(u)
      BY <1>1, <3>2, Exclusive DEF Locks
    <3>4. ~(bus[u] \in {"set", "run"} /\ Muxed(u))
      BY <3>3, HeldCases DEF Held, BusNames
    <3> QED
      BY <2>1, <3>4 DEF ChannelKept
  <2> QED BY <2>2, <2>3
<1>2. ASSUME NEW d \in Devices, Start(u, d) PROVE ChannelKept(u)'
  <2>1. bus'[u] = "none"
    BY <1>2 DEF Start, TypeOK
  <2> QED
    BY <2>1 DEF ChannelKept
<1>3. ASSUME Proceed(u) \/ Fail(u) PROVE ChannelKept(u)'
  <2>1. CASE bus'[u] \in {"none", "start"}
    BY <2>1 DEF ChannelKept
  <2>2. CASE TakeMux(u) \/ TakePinGroup(u)
    <3>1. /\ dev'[u] = dev[u] /\ stage'[u] = stage[u]
          /\ bus'[u] \in {"mux", "gpio"} /\ Muxed(u)
      BY <2>2 DEF TakeMux, TakePinGroup, TypeOK, ChannelKept
    <3>2. Muxed(u)'
      BY <3>1 DEF Muxed, Target, Group
    <3> QED
      BY <3>1, <3>2 DEF ChannelKept
  <2>3. CASE SetChannel(u)
    <3>1. /\ dev'[u] = dev[u] /\ stage'[u] = stage[u]
          /\ bus'[u] = "set" /\ Muxed(u) /\ chan' = Place[Target(u)]
      BY <2>3 DEF SetChannel, TypeOK, ChannelKept
    <3>2. Muxed(u)' /\ Target(u)' = Target(u)
      BY <3>1 DEF Muxed, Target, Group
    <3> QED
      BY <3>1, <3>2 DEF ChannelKept
  <2>4. CASE TakeBus(u)
    <3>1. /\ dev'[u] = dev[u] /\ stage'[u] = stage[u] /\ chan' = chan
          /\ bus'[u] = "run" /\ (Muxed(u) => chan = Place[Target(u)])
      BY <2>4 DEF TakeBus, TypeOK, ChannelKept
    <3>2. Muxed(u)' = Muxed(u) /\ Target(u)' = Target(u)
      BY <3>1 DEF Muxed, Target, Group
    <3> QED
      BY <3>1, <3>2 DEF ChannelKept
  <2>5. AcquireGroup(u) \/ BeginAccess(u) \/ Continue(u) \/ Selected(u)
          \/ Finish(u) \/ Fail(u) => bus'[u] \in {"none", "start"}
    BY DEF AcquireGroup, Select, BeginAccess, Continue, Selected, Finish,
           Fail, Return, TypeOK
  <2> QED
    BY <1>3, <2>1, <2>2, <2>3, <2>4, <2>5 DEF Proceed
<1>4. CASE UNCHANGED vars
  <2>1. Target(u)' = Target(u) /\ Muxed(u)' = Muxed(u)
    BY <1>4, Unmoved DEF vars
  <2> QED
    BY <1>4, <2>1 DEF vars, ChannelKept
<1> QED
  BY <1>1, <1>2, <1>3, <1>4 DEF Next

\* Only a thread that selects a group, and has it, changes what it connects.
LEMMA SelectionMoves ==
  ASSUME TypeOK, NEW t \in Threads, Proceed(t) \/ Fail(t),
         NEW g \in Groups, connected'[g] # connected[g]
  PROVE  /\ bus[t] = "run" /\ stage[t] \in {"mux_sel", "mod_sel"}
         /\ g = Group(t) /\ g \in Held(t)
<1>1. \/ (Continue(t) \/ Selected(t)) /\ Connect(t)
      \/ Fail(t)
  BY DEF Proceed, AcquireGroup, Select, BeginAccess, TakeMux, TakePinGroup,
         SetChannel, TakeBus, Continue, Selected, Finish
<1>2. bus[t] = "run" /\ IsWrite(t)
  BY <1>1 DEF Connect, Continue, Selected, Fail
<1>3. \E s : connected' = [connected EXCEPT ![Group(t)] = s]
  BY <1>1, <1>2 DEF Connect, Fail
<1>4. stage[t] \in {"mux_sel", "mod_sel"}
  BY <1>1, <1>2 DEF IsWrite, Continue, Selected, Fail, TypeOK, Stages
<1>5. g = Group(t)
  BY <1>3 DEF TypeOK
<1>6. Group(t) \in SelectLocks(t)
  <2>1. stage[t] = "mux_sel" => Group(t) = MuxSel[dev[t]]
    BY DEF Group
  <2>2. stage[t] = "mod_sel" => Group(t) = ModSel[dev[t]] /\ Group(t) # NoGroup
    BY DEF Group, TypeOK
  <2> QED
    BY <1>2, <1>4, <2>1, <2>2, SelectCases
<1> QED
  BY <1>2, <1>4, <1>5, <1>6 DEF Held

LEMMA SelectionKeptStep ==
  ASSUME TypeOK, OwnsHeld, \A t \in Threads : SelectionKept(t), [Next]_vars,
         NEW u \in Threads
  PROVE  SelectionKept(u)'
<1> DEFINE d == dev[u]
<1>0. /\ MuxSel[d] # NoGroup => MuxSel[d] \in MuxGroups /\ MuxSel[d] \in Groups
      /\ ModSel[d] # NoGroup => ModSel[d] \in ModGroups /\ ModSel[d] \in Groups
  BY ShapeAssumption DEF TypeOK, Groups
<1>1. ASSUME NEW t \in Threads, u # t,
             (\E e \in Devices : Start(t, e)) \/ Proceed(t) \/ Fail(t)
      PROVE  SelectionKept(u)'
  <2>1. dev'[u] = dev[u] /\ stage'[u] = stage[u]
    BY <1>1, OthersUnmoved
  <2>2. \A g \in Groups : g \in Held(u) => connected'[g] = connected[g]
    <3>1. CASE \E e \in Devices : Start(t, e)
      BY <3>1 DEF Start
    <3>2. CASE Proceed(t) \/ Fail(t)
      <4> SUFFICES ASSUME NEW g \in Groups, connected'[g] # connected[g]
                   PROVE  g \notin Held(u)
        OBVIOUS
      <4>1. g \in Held(t) /\ g \in Locks
        BY <3>2, SelectionMoves DEF Locks
      <4> QED
        BY <1>1, <4>1, Exclusive
    <3> QED BY <1>1, <3>1, <3>2
  <2>3. stage[u] \in {"mod_sel", "access"} /\ MuxSel[d] # NoGroup
          => MuxSel[d] \in Held(u)
    BY SelectCases DEF Held
  <2>4. stage[u] = "access" /\ ModSel[d] # NoGroup => ModSel[d] \in Held(u)
    BY SelectCases DEF Held
  <2> QED
    BY <1>0, <2>1, <2>2, <2>3, <2>4 DEF SelectionKept
<1>2. ASSUME NEW e \in Devices, Start(u, e) PROVE SelectionKept(u)'
  <2>1. dev'[u] = e /\ stage'[u] = First(e)
    BY <1>2 DEF Start, TypeOK
  <2>2. /\ First(e) \in {"mod_sel", "access"} => MuxSel[e] = NoGroup
        /\ First(e) = "access" => ModSel[e] = NoGroup
    BY DEF First, AfterMux
  <2> QED
    BY <2>1, <2>2 DEF SelectionKept
<1>3. ASSUME Proceed(u) \/ Fail(u) PROVE SelectionKept(u)'
  <2>1. CASE stage'[u] = "idle"
    BY <2>1 DEF SelectionKept
  <2>2. CASE AcquireGroup(u) \/ BeginAccess(u) \/ TakeMux(u) \/ TakePinGroup(u)
               \/ SetChannel(u) \/ TakeBus(u)
    <3>1. UNCHANGED <<dev, stage, connected>>
      BY <2>2 DEF AcquireGroup, Select, BeginAccess, TakeMux, TakePinGroup,
                  SetChannel, TakeBus
    <3> QED
      BY <3>1 DEF SelectionKept
  <2>3. CASE Continue(u)
    <3>1. dev' = dev /\ stage' = stage
      BY <2>3 DEF Continue
    <3>2. ASSUME NEW g \in Groups, connected'[g] # connected[g]
          PROVE  g = Group(u) /\ stage[u] \in {"mux_sel", "mod_sel"}
      BY <2>3, <3>2, SelectionMoves DEF Proceed
    <3>3. stage[u] = "mod_sel" => Group(u) = ModSel[d] /\ ModSel[d] # NoGroup
      BY DEF Group, TypeOK
    <3>4. stage[u] = "mod_sel" /\ MuxSel[d] # NoGroup => MuxSel[d] # Group(u)
      BY <3>3, <1>0, ShapeAssumption
    <3> QED
      BY <1>0, <3>1, <3>2, <3>4 DEF SelectionKept
  <2>4. CASE Selected(u)
    <3>1. /\ dev' = dev /\ stage[u] \in {"mux_sel", "mod_sel"}
          /\ stage'[u] = IF stage[u] = "mux_sel" THEN AfterMux(d) ELSE "access"
          /\ bus[u] = "run" /\ left[u] = 1
      BY <2>4 DEF Selected, TypeOK, Stages
    <3>2. connected' = [connected EXCEPT ![Group(u)] = Value[Group(u)][d]]
      <4>1. IsWrite(u)
        BY <3>1 DEF IsWrite
      <4> QED
        BY <2>4, <3>1, <4>1 DEF Selected, Connect
    <3>3. connected'[Group(u)] = Value[Group(u)][d]
      BY <3>1, <3>2, GroupType DEF TypeOK
    <3>4. CASE stage[u] = "mux_sel"
      <4>1. Group(u) = MuxSel[d]
        BY <3>4 DEF Group
      <4> QED
        BY <3>1, <3>3, <3>4, <4>1 DEF SelectionKept, AfterMux
    <3>5. CASE stage[u] = "mod_sel"
      <4>1. Group(u) = ModSel[d] /\ ModSel[d] # NoGroup
        BY <3>5 DEF Group, TypeOK
      <4>2. MuxSel[d] # NoGroup => connected'[MuxSel[d]] = connected[MuxSel[d]]
        BY <1>0, <3>2, <4>1, ShapeAssumption DEF TypeOK
      <4> QED
        BY <3>1, <3>3, <3>5, <4>1, <4>2 DEF SelectionKept
    <3> QED BY <3>1, <3>4, <3>5
  <2>5. Finish(u) \/ Fail(u) => stage'[u] = "idle"
    BY DEF Finish, Fail, Return, TypeOK
  <2> QED
    BY <1>3, <2>1, <2>2, <2>3, <2>4, <2>5 DEF Proceed
<1>4. CASE UNCHANGED vars
  BY <1>4 DEF vars, SelectionKept
<1> QED
  BY <1>1, <1>2, <1>3, <1>4 DEF Next

-----------------------------------------------------------------------------
(* The inductive invariant.                                                *)

LEMMA InvInit == Init => IInv
<1> SUFFICES ASSUME Init PROVE IInv
  OBVIOUS
<1>1. TypeOK
  BY TypeInit
<1>2. \A t \in Threads : Held(t) = {}
  BY DEF Init, Held, BusLocks, SelectLocks
<1>3. OwnsHeld
  BY <1>2, ThreadAssumption DEF Init, OwnsHeld
<1>4. \A t \in Threads : ChannelKept(t) /\ SelectionKept(t)
  BY DEF Init, ChannelKept, SelectionKept
<1> QED
  BY <1>1, <1>3, <1>4 DEF IInv

LEMMA InvStep == IInv /\ [Next]_vars => IInv'
<1> SUFFICES ASSUME IInv, [Next]_vars PROVE IInv'
  OBVIOUS
<1>1. /\ TypeOK /\ OwnsHeld
      /\ \A t \in Threads : ChannelKept(t)
      /\ \A t \in Threads : SelectionKept(t)
  BY DEF IInv
<1>2. TypeOK'
  BY <1>1, TypeStep
<1>3. OwnsHeld'
  BY <1>1, OwnsHeldStep
<1>4. \A t \in Threads : ChannelKept(t)'
  BY <1>1, ChannelKeptStep
<1>5. \A t \in Threads : SelectionKept(t)'
  BY <1>1, SelectionKeptStep
<1> QED
  BY <1>2, <1>3, <1>4, <1>5 DEF IInv

LEMMA Invariance == Spec => []IInv
<1> QED
  BY InvInit, InvStep, PTL DEF Spec

\* The state has the types of TypeOK and a call that selects has a group.
THEOREM TypeCorrect == Spec => []TypeOK
<1>1. IInv => TypeOK
  BY DEF IInv
<1> QED
  BY <1>1, Invariance, PTL

-----------------------------------------------------------------------------
(* The right device answers.                                               *)

\* A transaction reaches the device it is meant for and no other, although
\* devices share addresses, threads move the channel and the select groups,
\* and channel and group writes fail half way.
THEOREM OnlyTheDeviceCorrect == Spec => []OnlyTheDeviceAnswers
<1>1. IInv => OnlyTheDeviceAnswers
  <2> SUFFICES ASSUME IInv, NEW t \in Threads, bus[t] = "run"
               PROVE  Answering(Address[Target(t)]) = {Target(t)}
    BY DEF OnlyTheDeviceAnswers
  <2> DEFINE x == Target(t)
  <2>1. TypeOK /\ ChannelKept(t) /\ SelectionKept(t) /\ stage[t] # "idle"
    BY DEF IInv, TypeOK
  <2>2. x \in Devices
    BY <2>1, TargetType
  <2>3. Place[x] \in {Parent, chan}
    BY <2>1 DEF ChannelKept, Muxed
  <2>4. \A g \in Selects(x) : connected[g] = Value[g][x]
    <3>1. CASE stage[t] = "access"
      <4>1. x = dev[t]
        BY <3>1 DEF Target
      <4> QED
        BY <2>1, <3>1, <4>1 DEF SelectionKept, Selects
    <3>2. CASE stage[t] # "access"
      <4>1. Group(t) \in Groups /\ x = Cpld[Group(t)]
        BY <2>1, <3>2, GroupType DEF Target, TypeOK, Stages
      <4> QED
        BY <4>1, ShapeAssumption
    <3> QED BY <3>1, <3>2
  <2>5. x \in Answering(Address[x])
    BY <2>2, <2>3, <2>4, AddressAssumption DEF Answering
  <2>6. ASSUME NEW e \in Answering(Address[x]), e # x PROVE FALSE
    <3>1. /\ e \in Devices /\ Address[e] = Address[x]
          /\ Place[e] \in {Parent, chan}
          /\ \A g \in Selects(e) : e \in connected[g]
      BY <2>6 DEF Answering
    <3>2. \/ Parent \notin {Place[x], Place[e]} /\ Place[x] # Place[e]
          \/ \E g \in Selects(x) \cap Selects(e) : e \notin Value[g][x]
      BY <2>2, <2>6, <3>1, AddressAssumption
    <3> QED
      BY <2>3, <2>4, <3>1, <3>2
  <2> HIDE DEF x
  <2>7. Answering(Address[x]) = {x}
    BY <2>5, <2>6
  <2> QED
    BY <2>7 DEF x
<1> QED
  BY <1>1, Invariance, PTL

-----------------------------------------------------------------------------
(* Selection.                                                              *)

Users(d) == {t \in Threads : stage[t] = "access" /\ dev[t] = d}

\* Two calls do not use transceivers of one select group, nor one transceiver.
LEMMA RivalsApart ==
  ASSUME TypeOK, OwnsHeld, NEW t \in Threads, NEW u \in Threads, u # t,
         SelectLocks(t) = Selects(dev[t]), stage[u] = "access",
         Selects(dev[t]) \cap Selects(dev[u]) # {}
  PROVE  FALSE
<1>1. PICK g \in Selects(dev[t]) : g \in Selects(dev[u])
  OBVIOUS
<1>2. g \in SelectLocks(u)
  BY <1>1 DEF SelectLocks
<1>3. g \in Locks /\ g \in Held(t) /\ g \in Held(u)
  BY <1>1, <1>2, LocksApart DEF Held
<1> QED
  BY <1>3, Exclusive

\* A call that has a transceiver selected has the groups of the transceiver.
LEMMA SelectingHolds ==
  ASSUME TypeOK, NEW t \in Threads, Selected(t), stage'[t] = "access"
  PROVE  SelectLocks(t) = Selects(dev[t])
<1>1. /\ bus[t] = "run" /\ stage[t] \in {"mux_sel", "mod_sel"}
      /\ stage'[t] = IF stage[t] = "mux_sel" THEN AfterMux(dev[t]) ELSE "access"
  BY DEF Selected, TypeOK, Stages
<1>2. CASE stage[t] = "mux_sel"
  <2>1. ModSel[dev[t]] = NoGroup /\ MuxSel[dev[t]] # NoGroup
    BY <1>1, <1>2 DEF AfterMux, TypeOK
  <2> QED
    BY <1>1, <1>2, <2>1 DEF SelectLocks, Selects
<1>3. CASE stage[t] = "mod_sel"
  BY <1>1, <1>3 DEF SelectLocks, Selects
<1> QED
  BY <1>1, <1>2, <1>3

\* How the users of the transceivers change: one call begins to use its
\* transceiver or ceases to, or nothing changes.
LEMMA UsersMove ==
  ASSUME TypeOK, NEW t \in Threads,
         (\E d \in Devices : Start(t, d)) \/ Proceed(t) \/ Fail(t)
  PROVE  \/ \A d \in Selectable : Users(d)' = Users(d)
         \/ /\ Selected(t) /\ stage[t] # "access" /\ stage'[t] = "access"
            /\ dev'[t] = dev[t]
         \/ stage[t] = "access" /\ stage'[t] # "access"
<1>1. CASE \E d \in Devices : Start(t, d)
  <2>1. PICK d \in Devices : Start(t, d)
    BY <1>1
  <2>2. /\ stage[t] = "idle" /\ dev'[t] = d /\ stage'[t] = First(d)
        /\ \A u \in Threads : u # t => dev'[u] = dev[u] /\ stage'[u] = stage[u]
    BY <2>1 DEF Start, TypeOK
  <2>3. stage'[t] = "access" => d \notin Selectable
    BY <2>2 DEF First, AfterMux, Selectable, Selects
  <2> QED
    BY <2>2, <2>3 DEF Users
<1>2. CASE Selected(t)
  <2>1. dev' = dev /\ stage[t] # "access"
    BY <1>2 DEF Selected
  <2>2. \A u \in Threads : u # t => stage'[u] = stage[u]
    BY <1>2 DEF Selected, TypeOK
  <2> QED
    BY <1>2, <2>1, <2>2 DEF Users
<1>3. CASE Finish(t) \/ Fail(t)
  <2>1. stage'[t] = "idle" /\ dev' = dev
        /\ \A u \in Threads : u # t => stage'[u] = stage[u]
    BY <1>3 DEF Finish, Fail, Return, TypeOK
  <2> QED
    BY <2>1 DEF Users
<1>4. CASE \/ AcquireGroup(t) \/ BeginAccess(t) \/ TakeMux(t) \/ TakePinGroup(t)
           \/ SetChannel(t) \/ TakeBus(t) \/ Continue(t)
  <2>1. dev' = dev /\ stage' = stage
    BY <1>4 DEF AcquireGroup, Select, BeginAccess, TakeMux, TakePinGroup,
                SetChannel, TakeBus, Continue
  <2> QED
    BY <2>1 DEF Users
<1> QED
  BY <1>1, <1>2, <1>3, <1>4 DEF Proceed

\* The select groups implement the selection of modules: for every
\* configuration, a call that has selected a transceiver is the only one that
\* uses a transceiver of its groups until it returns.
THEOREM SelectionImplemented == Spec => ImplementsModuleSelection
<1> DEFINE users == [d \in Selectable |->
                       {t \in Threads : stage[t] = "access" /\ dev[t] = d}]
<1>1. Init => Selection!Init
  BY DEF Init, Selection!Init
<1>2. IInv /\ [Next]_vars => [Selection!Next]_users
  <2> SUFFICES ASSUME IInv, [Next]_vars, users' # users
               PROVE  Selection!Next
    OBVIOUS
  <2>1. TypeOK /\ OwnsHeld
    BY DEF IInv
  <2>2. users = [d \in Selectable |-> Users(d)]
    BY DEF Users
  <2>3. users' = [d \in Selectable |-> Users(d)']
    BY DEF Users
  <2>4. ~UNCHANGED vars
    BY DEF vars
  <2>5. PICK t \in Threads :
          (\E d \in Devices : Start(t, d)) \/ Proceed(t) \/ Fail(t)
    BY <2>4 DEF Next
  <2>6. ~\A d \in Selectable : Users(d)' = Users(d)
    BY <2>2, <2>3
  <2>7. \A u \in Threads : u # t => dev'[u] = dev[u] /\ stage'[u] = stage[u]
    BY <2>1, <2>5, OthersUnmoved
  <2>0. PICK m \in Devices : m = dev[t]
    BY <2>1 DEF TypeOK
  <2> HIDE DEF users
  <2>8. CASE /\ Selected(t) /\ stage[t] # "access" /\ stage'[t] = "access"
             /\ dev'[t] = m
    <3>1. SelectLocks(t) = Selects(m)
      BY <2>0, <2>1, <2>8, SelectingHolds
    <3>2. \A d \in Selectable : Selects(m) \cap Selects(d) # {} => Users(d) = {}
      BY <2>0, <2>1, <2>8, <3>1, RivalsApart DEF Users
    <3>3. m \in Selectable
      BY <2>0, <2>6, <2>7, <2>8 DEF Users
    <3>4. Users(m) = {}
      BY <3>2, <3>3 DEF Selectable
    <3>5. Users(m)' = {t}
      BY <2>7, <2>8, <3>4 DEF Users
    <3>6. \A d \in Selectable : d # m => Users(d)' = Users(d)
      BY <2>0, <2>7, <2>8 DEF Users
    <3>7. users' = [users EXCEPT ![m] = {t}]
      BY <2>2, <2>3, <3>3, <3>5, <3>6
    <3>8. \A n \in Selectable : t \notin users[n]
      BY <2>2, <2>8 DEF Users
    <3>9. Selection!Enter(t, m)
      BY <2>2, <3>2, <3>3, <3>7, <3>8 DEF Selection!Enter, users
    <3> QED
      BY <3>3, <3>9 DEF Selection!Next
  <2>9. CASE stage[t] = "access" /\ stage'[t] # "access"
    <3>1. m \in Selectable
      BY <2>0, <2>6, <2>7, <2>9 DEF Users
    <3>2. t \in Users(m)
      BY <2>0, <2>9 DEF Users
    <3>3. SelectLocks(t) = Selects(m)
      BY <2>0, <2>9 DEF SelectLocks
    <3>4. \A u \in Users(m) : u = t
      BY <2>0, <2>1, <3>1, <3>3, RivalsApart DEF Users, Selectable
    <3>5. Users(m) = {t}
      BY <3>2, <3>4
    <3>6. Users(m)' = {}
      BY <2>7, <2>9, <3>5 DEF Users
    <3>7. \A d \in Selectable : d # m => Users(d)' = Users(d)
      BY <2>0, <2>7, <2>9 DEF Users
    <3>8. users' = [users EXCEPT ![m] = {}]
      BY <2>2, <2>3, <3>1, <3>6, <3>7
    <3>9. Selection!Leave(t, m)
      BY <2>2, <3>1, <3>5, <3>8 DEF Selection!Leave, users
    <3> QED
      BY <3>1, <3>9 DEF Selection!Next
  <2> QED
    BY <2>0, <2>1, <2>5, <2>6, <2>8, <2>9, UsersMove
<1> QED
  BY <1>1, <1>2, Invariance, PTL
  DEF Spec, ImplementsModuleSelection, Selection!Spec

-----------------------------------------------------------------------------
(* No deadlock: mutexes are taken in the order mux-select group, module-    *)
(* select group, mux_lock, pin group, parent bus.                           *)

\* Where the owner of a mutex of the bus is.
LEMMA BusOwner ==
  ASSUME TypeOK, OwnsHeld, NEW u \in Threads
  PROVE  /\ lock["i2cbus"] = u => bus[u] = "run"
         /\ lock["pingroup"] = u => bus[u] \in {"gpio", "set", "run"}
         /\ lock["mux_lock"] = u => bus[u] \in {"mux", "gpio", "set", "run"}
<1>1. \A l \in BusNames : lock[l] = u => l \in BusLocks(u)
  <2>1. \A l \in BusNames : l \in Locks /\ l \notin SelectLocks(u)
    BY LocksApart
  <2> QED
    BY <2>1 DEF OwnsHeld, Held
<1> QED
  BY <1>1 DEF BusLocks, BusNames

\* Where the owner of a select group is.
LEMMA GroupOwner ==
  ASSUME TypeOK, OwnsHeld, NEW u \in Threads, NEW g \in Groups, lock[g] = u
  PROVE  /\ \/ stage[u] = "access"
            \/ stage[u] = "mod_sel"
            \/ stage[u] = "mux_sel" /\ bus[u] # "none"
         /\ g \in ModGroups => \/ stage[u] = "access"
                               \/ stage[u] = "mod_sel" /\ bus[u] # "none"
<1>1. g \in SelectLocks(u)
  <2>1. g \in Locks /\ g \notin BusLocks(u)
    BY LocksApart
  <2> QED
    BY <2>1 DEF OwnsHeld, Held
<1>2. g \in ModGroups => g # MuxSel[dev[u]]
  BY ShapeAssumption DEF TypeOK, Groups
<1>3. stage[u] \in Stages
  BY DEF TypeOK
<1> QED
  BY <1>1, <1>2, <1>3, SelectCases DEF Stages

LEMMA OwnerBusy ==
  ASSUME TypeOK, OwnsHeld, NEW u \in Threads, NEW l \in Locks, lock[l] = u
  PROVE  stage[u] # "idle"
<1>1. l \in Held(u)
  BY DEF OwnsHeld
<1>2. stage[u] = "idle" => bus[u] = "none"
  BY DEF TypeOK
<1> QED
  BY <1>1, <1>2, HeldCases, SelectCases DEF Held

\* What a thread can need.
LEMMA NeedsCases ==
  ASSUME TypeOK, NEW t \in Threads
  PROVE  /\ Needs(t) \subseteq Locks
         /\ \A l, m \in Needs(t) : l = m
         /\ \A l \in Needs(t) :
              \/ l = "i2cbus" /\ bus[t] \in {"start", "set"}
              \/ l = "pingroup" /\ bus[t] = "mux"
              \/ l = "mux_lock" /\ bus[t] = "start"
              \/ /\ l = Group(t) /\ bus[t] = "none"
                 /\ stage[t] \in {"mux_sel", "mod_sel"}
<1>1. \A l \in Needs(t) :
        \/ l = "i2cbus" /\ bus[t] \in {"start", "set"}
        \/ l = "pingroup" /\ bus[t] = "mux"
        \/ l = "mux_lock" /\ bus[t] = "start"
        \/ /\ l = Group(t) /\ bus[t] = "none"
           /\ stage[t] \in {"mux_sel", "mod_sel"}
  BY DEF Needs, Selecting
<1>2. \A l, m \in Needs(t) : l = m
  BY DEF Needs
<1> QED
  BY <1>1, <1>2, GroupType DEF Locks

\* Every set of threads inside drivers has one that waits for nobody in the
\* set, and nobody waits for a thread that has returned.
THEOREM DeadlockFree == Spec => []NoDeadlock
<1>1. IInv => NoDeadlock
  <2> SUFFICES ASSUME IInv,
                      NEW S \in SUBSET {t \in Threads : stage[t] # "idle"},
                      S # {}
               PROVE  \E t \in S : \A u \in Threads :
                        WaitsFor(t, u) => u \notin S /\ stage[u] # "idle"
    BY DEF NoDeadlock
  <2>1. TypeOK /\ OwnsHeld
    BY DEF IInv
  <2>2. \A t \in S, u \in Threads : WaitsFor(t, u) => stage[u] # "idle"
    <3> SUFFICES ASSUME NEW t \in S, NEW u \in Threads, WaitsFor(t, u)
                 PROVE  stage[u] # "idle"
      OBVIOUS
    <3>1. PICK l \in Needs(t) : lock[l] = u
      BY DEF WaitsFor
    <3> QED
      BY <2>1, <3>1, NeedsCases, OwnerBusy
  <2>3. SUFFICES ASSUME \A t \in S : \E u \in S : WaitsFor(t, u)
                 PROVE  FALSE
    BY <2>2
  <2>4. \A t \in S : \E u \in S : \E l \in Needs(t) : lock[l] = u
    BY <2>3 DEF WaitsFor
  <2>5. ASSUME NEW t \in S, NEW l \in Needs(t)
        PROVE  \E u \in S : /\ lock[l] = u /\ u \in Threads
                            /\ \E m \in Needs(u) : TRUE
    BY <2>1, <2>4, NeedsCases
  <2>6. ASSUME NEW t \in S, "i2cbus" \in Needs(t) PROVE FALSE
    <3>1. PICK u \in S : lock["i2cbus"] = u /\ u \in Threads /\ \E m \in Needs(u) : TRUE
      BY <2>5, <2>6
    <3>2. bus[u] = "run"
      BY <2>1, <3>1, BusOwner
    <3> QED
      BY <2>1, <3>1, <3>2, NeedsCases
  <2>7. ASSUME NEW t \in S, "pingroup" \in Needs(t) PROVE FALSE
    <3>1. PICK u \in S : lock["pingroup"] = u /\ u \in Threads /\ \E m \in Needs(u) : TRUE
      BY <2>5, <2>7
    <3>2. bus[u] \in {"gpio", "set", "run"}
      BY <2>1, <3>1, BusOwner
    <3>3. "i2cbus" \in Needs(u)
      BY <2>1, <3>1, <3>2, NeedsCases
    <3> QED
      BY <2>6, <3>3
  <2>8. ASSUME NEW t \in S, "mux_lock" \in Needs(t) PROVE FALSE
    <3>1. PICK u \in S : lock["mux_lock"] = u /\ u \in Threads /\ \E m \in Needs(u) : TRUE
      BY <2>5, <2>8
    <3>2. bus[u] \in {"mux", "gpio", "set", "run"}
      BY <2>1, <3>1, BusOwner
    <3>3. "i2cbus" \in Needs(u) \/ "pingroup" \in Needs(u)
      BY <2>1, <3>1, <3>2, NeedsCases
    <3> QED
      BY <2>6, <2>7, <3>3
  <2>9. ASSUME NEW t \in S, NEW l \in Needs(t)
        PROVE  /\ t \in Threads /\ l = Group(t) /\ l \in Groups
               /\ bus[t] = "none" /\ stage[t] \in {"mux_sel", "mod_sel"}
    BY <2>1, <2>6, <2>7, <2>8, NeedsCases, GroupType
  <2>10. ASSUME NEW t \in S, NEW l \in Needs(t), stage[t] = "mod_sel" PROVE FALSE
    <3>1. PICK u \in S : lock[l] = u /\ u \in Threads /\ \E m \in Needs(u) : TRUE
      BY <2>5
    <3>2. bus[u] = "none" /\ stage[u] \in {"mux_sel", "mod_sel"}
      BY <2>9, <3>1
    <3>3. l = Group(t) /\ l \in Groups /\ t \in Threads
      BY <2>9
    <3>4. l \in ModGroups
      BY <2>1, <2>10, <3>3, ShapeAssumption DEF Group, TypeOK
    <3> QED
      BY <2>1, <3>1, <3>2, <3>3, <3>4, GroupOwner
  <2>11. ASSUME NEW t \in S, NEW l \in Needs(t) PROVE FALSE
    <3>1. PICK u \in S : lock[l] = u /\ u \in Threads /\ \E m \in Needs(u) : TRUE
      BY <2>5
    <3>2. bus[u] = "none" /\ stage[u] = "mux_sel"
      BY <2>9, <2>10, <3>1
    <3> QED
      BY <2>1, <2>9, <3>1, <3>2, GroupOwner
  <2> QED
    BY <2>4, <2>11
<1> QED
  BY <1>1, Invariance, PTL

==============================================================================
