-------------------------- MODULE QsfpMemoryProofs ---------------------------
(***************************************************************************)
(* Proofs about QsfpMemory for every set of threads and lanes.             *)
(*                                                                         *)
(* The inductive invariant adds to the properties what makes them stay     *)
(* true: the thread that transfers is the owner of the select group        *)
(* (Holding), a threshold is read with its page selected on a module that  *)
(* has pages (PageSelected), and the byte about to be written is the one   *)
(* of the module, or nothing is known of the lanes of a module that was    *)
(* plugged in between (BufferFresh).                                       *)
(***************************************************************************)
EXTENDS QsfpMemory, TLAPS

-----------------------------------------------------------------------------
(* The requests                                                            *)

LEMMA RequestShape ==
  ASSUME NEW r \in Requests
  PROVE  /\ Len(r) \in 0..5
         /\ DOMAIN r = 1..Len(r)
  BY DEF Requests, ModuleMonitorStatusGet, ChannelMonitorStatusGet,
     ChannelStatusGet, TxControl, TxControlStatusGet, IsDellQualified,
     ParameterGet, VendorInfoGet, TransceiverCodeGet, DellProductInfoGet,
     ThresholdGet, ModuleMonitorGet, ChannelMonitorGet, FeatureSupportStatusGet

LEMMA RequestKinds ==
  ASSUME NEW r \in Requests, NEW i \in DOMAIN r
  PROVE  /\ r[i] = "setTx" => r \in TxControl /\ i = 3
         /\ r[i] \in {"paging3", "page3", "threshold", "paging0", "page0"}
              => r \in ThresholdGet
         /\ r \in ThresholdGet => /\ Len(r) = 5
                                  /\ r[i] = "paging3" <=> i = 1
                                  /\ r[i] = "page3" <=> i = 2
                                  /\ r[i] = "threshold" <=> i = 3
                                  /\ r[i] = "paging0" <=> i = 4
                                  /\ r[i] = "page0" <=> i = 5
         /\ r \in TxControl => /\ Len(r) = 3
                               /\ i = 2 => r[i] = "tx"
  BY DEF Requests, ModuleMonitorStatusGet, ChannelMonitorStatusGet,
     ChannelStatusGet, TxControl, TxControlStatusGet, IsDellQualified,
     ParameterGet, VendorInfoGet, TransceiverCodeGet, DellProductInfoGet,
     ThresholdGet, ModuleMonitorGet, ChannelMonitorGet, FeatureSupportStatusGet

-----------------------------------------------------------------------------
(* The inductive invariant                                                 *)

Holding == \A t \in Threads : call[t].stage = "transfer" <=> lock = t

InBounds ==
  \A t \in Threads : /\ call[t].at <= Len(call[t].request) + 1
                     /\ call[t].stage # "transfer" =>
                          call[t].at = 1 /\ ~call[t].swapped
                     /\ call[t].request \in TxControl => call[t].lane \in Lanes

\* A module without pages shows page 0, and an empty cage disables no lane.
ModuleOK == /\ ~module.paged => module.page = 0
            /\ ~module.plugged => module.off = {}

PageSelected(t) ==
  (call[t].stage = "transfer" /\ call[t].request \in ThresholdGet
     /\ ~call[t].swapped)
    => /\ call[t].at \in {2, 3} => module.plugged /\ module.paged
       /\ call[t].at = 3 => module.page = 3

BufferFresh(t) ==
  (call[t].stage = "transfer" /\ call[t].request \in TxControl
     /\ call[t].at \in 1..3)
    => IF call[t].swapped
       THEN \A lane \in Lanes : goal[lane] = "any"
       ELSE call[t].at = 3 => module.plugged /\ call[t].buf = module.off

SeenPageZero(t) == \A answer \in call[t].seen : answer[1] = 0 \/ answer[2]

Structure == TypeOK /\ Holding /\ InBounds

IInv ==
  /\ Structure
  /\ ModuleOK
  /\ PageZero
  /\ LaneGoals
  /\ ThresholdFromPageThree
  /\ \A t \in Threads : PageSelected(t)
  /\ \A t \in Threads : BufferFresh(t)
  /\ \A t \in Threads : SeenPageZero(t)

-----------------------------------------------------------------------------
(* What a transaction does to the call that makes it.                      *)

Kind(t) == call[t].request[call[t].at]

\* The call of t is at a transaction of its request.
Busy(t) ==
  /\ call[t].stage = "transfer"
  /\ call[t].at \in DOMAIN call[t].request

\* The call of t goes on at transaction at with these values.
Moved(t, at, buf, seen, source) ==
  /\ call' \in [Threads -> Calls]
  /\ \A u \in Threads : u # t => call'[u] = call[u]
  /\ call'[t].stage = "transfer"
  /\ call'[t].request = call[t].request
  /\ call'[t].lane = call[t].lane
  /\ call'[t].swapped = call[t].swapped
  /\ call'[t].at = at /\ call'[t].buf = buf
  /\ call'[t].seen = seen /\ call'[t].source = source

\* The position after the last transaction of the call.
End(t) == Len(call[t].request) + 1

LEMMA Positions ==
  ASSUME NEW n \in 0..5, NEW i \in 1..n
  PROVE  i \in 1..5 /\ i + 1 \in 1..6 /\ n + 1 \in 1..6 /\ n + 1 # i
         /\ i + 1 <= n + 1
  OBVIOUS

LEMMA BusyType ==
  ASSUME Structure, NEW t \in Threads, Busy(t)
  PROVE  /\ call[t] \in Calls
         /\ call[t].request \in Requests
         /\ call[t].at \in DOMAIN call[t].request
         /\ call[t].at \in 1..5
         /\ call[t].at + 1 \in 1..6 /\ call[t].at + 1 <= End(t)
         /\ End(t) \in 1..6
         /\ lock = t
         /\ \A u \in Threads : u # t => call[u].stage # "transfer"
<1>1. call[t] \in Calls /\ call[t].request \in Requests
  BY DEF Structure, TypeOK, Calls
<1>2. Len(call[t].request) \in 0..5 /\ DOMAIN call[t].request = 1..Len(call[t].request)
  BY <1>1, RequestShape
<1>3. lock = t /\ \A u \in Threads : u # t => call[u].stage # "transfer"
  BY DEF Structure, Holding, Busy
<1>4. call[t].at \in 1..Len(call[t].request)
  BY <1>2 DEF Busy
<1>5. /\ call[t].at \in 1..5 /\ call[t].at + 1 \in 1..6
      /\ call[t].at + 1 <= End(t) /\ End(t) \in 1..6
  BY <1>2, <1>4, Positions DEF End
<1> QED
  BY <1>1, <1>3, <1>5 DEF Busy

LEMMA AdvanceMoves ==
  ASSUME Structure, NEW t \in Threads, Busy(t),
         NEW v \in Calls, v.stage = "transfer", v.request = call[t].request,
         v.at = call[t].at, v.lane = call[t].lane, v.swapped = call[t].swapped,
         Advance(t, v)
  PROVE  Moved(t, call[t].at + 1, v.buf, v.seen, v.source)
<1>1. call[t].at + 1 \in 1..6
  BY BusyType
<1> DEFINE c == [v EXCEPT !.at = @ + 1]
<1>2. c \in Calls
  BY <1>1 DEF Calls
<1>3. call' = [call EXCEPT ![t] = c] /\ call \in [Threads -> Calls]
  BY DEF Advance, Structure, TypeOK
<1>4. /\ c.at = call[t].at + 1
      /\ c.stage = v.stage /\ c.request = v.request /\ c.lane = v.lane
      /\ c.swapped = v.swapped /\ c.buf = v.buf /\ c.seen = v.seen
      /\ c.source = v.source
  BY DEF Calls
<1> HIDE DEF c
<1>5. /\ call' \in [Threads -> Calls] /\ call'[t] = c
      /\ \A u \in Threads : u # t => call'[u] = call[u]
  BY <1>2, <1>3
<1> QED
  BY <1>4, <1>5 DEF Moved

LEMMA LeaveMoves ==
  ASSUME Structure, NEW t \in Threads, Busy(t),
         NEW rc \in {"OK", "EIO", "ENOTSUP"},
         NEW v \in Calls, v.stage = "transfer", v.request = call[t].request,
         v.at = call[t].at, v.lane = call[t].lane, v.swapped = call[t].swapped,
         Leave(t, v, rc)
  PROVE  Moved(t, End(t), v.buf, v.seen, v.source)
<1>1. Len(v.request) + 1 \in 1..6
  BY BusyType DEF End
<1> DEFINE c == [v EXCEPT !.at = Len(v.request) + 1, !.rc = rc]
<1>2. c \in Calls
  BY <1>1 DEF Calls
<1>3. call' = [call EXCEPT ![t] = c] /\ call \in [Threads -> Calls]
  BY DEF Leave, Structure, TypeOK
<1>4. /\ c.at = Len(v.request) + 1
      /\ c.stage = v.stage /\ c.request = v.request /\ c.lane = v.lane
      /\ c.swapped = v.swapped /\ c.buf = v.buf /\ c.seen = v.seen
      /\ c.source = v.source
  BY DEF Calls
<1> HIDE DEF c
<1>5. /\ call' \in [Threads -> Calls] /\ call'[t] = c
      /\ \A u \in Threads : u # t => call'[u] = call[u]
  BY <1>2, <1>3
<1> QED
  BY <1>4, <1>5 DEF Moved, End

\* What there is left to prove of a step that moves the call of t.
LEMMA MovedInv ==
  ASSUME IInv, NEW t \in Threads, Busy(t),
         NEW at \in 1..6, at <= End(t), NEW buf, NEW seen, NEW source,
         Moved(t, at, buf, seen, source), lock' = lock,
         module' \in Modules, stuck' \in BOOLEAN,
         goal' \in [Lanes -> {"any", "on", "off"}],
         ModuleOK', PageZero', LaneGoals',
         source \subseteq {3} \/ call[t].swapped,
         \A answer \in seen : answer[1] = 0 \/ answer[2],
         PageSelected(t)', BufferFresh(t)'
  PROVE  IInv'
<1>1. TypeOK'
  BY DEF IInv, Structure, TypeOK, Moved
<1>2. Holding'
  BY DEF IInv, Structure, Holding, Moved, Busy
<1>3. InBounds'
  <2> SUFFICES ASSUME NEW u \in Threads
               PROVE  /\ call'[u].at <= Len(call'[u].request) + 1
                      /\ call'[u].stage # "transfer" =>
                           call'[u].at = 1 /\ ~call'[u].swapped
                      /\ call'[u].request \in TxControl => call'[u].lane \in Lanes
    BY DEF InBounds
  <2>1. CASE u = t
    BY <2>1 DEF IInv, Structure, InBounds, Moved, End
  <2>2. CASE u # t
    BY <2>2 DEF IInv, Structure, InBounds, Moved
  <2> QED
    BY <2>1, <2>2
<1>4. ThresholdFromPageThree'
  BY DEF IInv, ThresholdFromPageThree, Moved
<1>5. ASSUME NEW u \in Threads, u # t
      PROVE  PageSelected(u)' /\ BufferFresh(u)'
  <2>1. call'[u].stage # "transfer"
    BY <1>5, BusyType DEF IInv, Moved
  <2> QED
    BY <2>1 DEF PageSelected, BufferFresh
<1>6. \A u \in Threads : SeenPageZero(u)'
  BY DEF IInv, SeenPageZero, Moved
<1> QED
  BY <1>1, <1>2, <1>3, <1>4, <1>5, <1>6 DEF IInv, Structure

LEMMA KindFacts ==
  ASSUME Structure, NEW t \in Threads, Busy(t)
  PROVE  /\ Kind(t) = "setTx" => call[t].request \in TxControl /\ call[t].at = 3
         /\ Kind(t) \in {"paging3", "page3", "threshold", "paging0", "page0"}
              => call[t].request \in ThresholdGet
         /\ call[t].request \in ThresholdGet =>
              /\ End(t) = 6
              /\ call[t].request \notin TxControl
              /\ Kind(t) = "paging3" <=> call[t].at = 1
              /\ Kind(t) = "page3" <=> call[t].at = 2
              /\ Kind(t) = "threshold" <=> call[t].at = 3
              /\ Kind(t) = "paging0" <=> call[t].at = 4
              /\ Kind(t) = "page0" <=> call[t].at = 5
         /\ call[t].request \in TxControl =>
              /\ End(t) = 4
              /\ call[t].at = 2 => Kind(t) = "tx"
<1> DEFINE r == call[t].request
           i == call[t].at
<1>1. r \in Requests /\ i \in DOMAIN r
  BY BusyType
<1>2. End(t) = Len(r) + 1 /\ Kind(t) = r[i]
  BY DEF End, Kind
<1> HIDE DEF r, i
<1>3. /\ r[i] = "setTx" => r \in TxControl /\ i = 3
      /\ r[i] \in {"paging3", "page3", "threshold", "paging0", "page0"}
           => r \in ThresholdGet
  BY <1>1, RequestKinds, Zenon
<1>4. r \in ThresholdGet =>
        /\ Len(r) = 5
        /\ r[i] = "paging3" <=> i = 1
        /\ r[i] = "page3" <=> i = 2
        /\ r[i] = "threshold" <=> i = 3
        /\ r[i] = "paging0" <=> i = 4
        /\ r[i] = "page0" <=> i = 5
  BY <1>1, RequestKinds, Zenon
<1>5. r \in TxControl => Len(r) = 3 /\ (i = 2 => r[i] = "tx")
  BY <1>1, RequestKinds, Zenon
<1>6. r \in ThresholdGet => End(t) = 6 /\ r \notin TxControl
  <2> SUFFICES ASSUME r \in ThresholdGet
               PROVE  End(t) = 6 /\ r \notin TxControl
    OBVIOUS
  <2>1. Len(r) = 5
    BY <1>4
  <2> QED
    BY <2>1, <1>2, <1>5
<1>7. r \in TxControl => End(t) = 4
  <2> SUFFICES ASSUME Len(r) = 3
               PROVE  End(t) = 4
    BY <1>5
  <2> QED
    BY <1>2
<1> QED
  BY <1>2, <1>3, <1>4, <1>5, <1>6, <1>7 DEF r, i

\* A call that is not about thresholds sees page 0, or one that is stuck.
LEMMA PageSeen ==
  ASSUME IInv, NEW t \in Threads, Busy(t)
  PROVE  \/ module.page = 0
         \/ stuck
         \/ call[t].request \in ThresholdGet /\ call[t].at \in 3..5
<1>1. lock = t
  BY BusyType DEF IInv
<1> QED
  BY <1>1 DEF IInv, PageZero

\* A transaction that reads.
LEMMA LookInv ==
  ASSUME IInv, NEW t \in Threads, Busy(t),
         NEW at \in {call[t].at + 1, End(t)}, NEW buf, NEW seen, NEW source,
         Moved(t, at, buf, seen, source),
         UNCHANGED <<module, stuck, lock, goal>>,
         \/ module.page = 0
         \/ stuck
         \/ call[t].request \in ThresholdGet /\ at \in 3..5,
         source \subseteq {3} \/ call[t].swapped,
         \A answer \in seen : answer[1] = 0 \/ answer[2],
         (call[t].request \in ThresholdGet /\ ~call[t].swapped)
           => /\ at \in {2, 3} => module.plugged /\ module.paged
              /\ at = 3 => module.page = 3,
         (call[t].request \in TxControl /\ at = 3)
           => module.plugged /\ buf = module.off
  PROVE  IInv'
<1>1. at \in 1..6 /\ at <= End(t) /\ call[t].at \in 1..5
  BY BusyType DEF IInv
<1>2. /\ module' \in Modules /\ stuck' \in BOOLEAN
      /\ goal' \in [Lanes -> {"any", "on", "off"}]
  BY DEF IInv, Structure, TypeOK
<1>3. ModuleOK' /\ LaneGoals'
  BY DEF IInv, ModuleOK, LaneGoals
<1>4. PageZero'
  <2>1. lock = t
    BY BusyType DEF IInv
  <2> QED
    BY <2>1, ThreadAssumption DEF PageZero, Moved
<1>5. PageSelected(t)'
  BY DEF PageSelected, Moved
<1>6. BufferFresh(t)'
  <2> SUFFICES ASSUME call[t].request \in TxControl, at \in 1..3
               PROVE  IF call[t].swapped
                      THEN \A lane \in Lanes : goal[lane] = "any"
                      ELSE at = 3 => module.plugged /\ buf = module.off
    BY DEF BufferFresh, Moved
  <2>1. call[t].at \in 1..3
    BY <1>1, KindFacts DEF IInv
  <2>2. CASE call[t].swapped
    BY <2>1, <2>2 DEF IInv, BufferFresh, Busy
  <2>3. CASE ~call[t].swapped
    BY <2>3
  <2> QED
    BY <2>2, <2>3
<1>7. lock' = lock
  OBVIOUS
<1> QED
  BY <1>1, <1>2, <1>3, <1>4, <1>5, <1>6, <1>7, MovedInv

-----------------------------------------------------------------------------
(* The transactions                                                        *)

LEMMA AtKind ==
  ASSUME NEW t \in Threads, NEW kind, Transferring(t, kind)
  PROVE  Busy(t) /\ Kind(t) = kind
  BY DEF Transferring, Busy, Kind

LEMMA CallType ==
  ASSUME IInv, NEW t \in Threads
  PROVE  /\ call[t] \in Calls
         /\ call[t].source \subseteq {3} \/ call[t].swapped
         /\ \A answer \in call[t].seen : answer[1] = 0 \/ answer[2]
  BY DEF IInv, Structure, TypeOK, ThresholdFromPageThree, SeenPageZero

LEMMA ModuleType ==
  ASSUME IInv
  PROVE  /\ module \in Modules
         /\ module.plugged \in BOOLEAN /\ module.paged \in BOOLEAN
         /\ module.page \in Pages /\ module.off \in SUBSET Lanes
         /\ stuck \in BOOLEAN
         /\ goal \in [Lanes -> {"any", "on", "off"}]
  BY DEF IInv, Structure, TypeOK, Modules

LEMMA ReadLowerInv ==
  ASSUME IInv, NEW t \in Threads, ReadLower(t)
  PROVE  IInv'
<1>1. Busy(t) /\ Kind(t) = "lower"
  BY AtKind DEF ReadLower
<1>2. Moved(t, call[t].at + 1, call[t].buf, call[t].seen, call[t].source)
  BY <1>1, AdvanceMoves, CallType DEF ReadLower, IInv, Busy
<1>3. /\ call[t].request \notin ThresholdGet
      /\ ~(call[t].request \in TxControl /\ call[t].at + 1 = 3)
      /\ call[t].at \in 1..5
  BY <1>1, KindFacts, BusyType DEF IInv
<1>4. module.page = 0 \/ stuck
  BY <1>1, <1>3, PageSeen
<1> QED
  BY <1>1, <1>2, <1>3, <1>4, CallType, LookInv DEF ReadLower

\* What the reads that mean page 0 see.
LEMMA SawOk ==
  ASSUME IInv, NEW t \in Threads, Busy(t), Kind(t) \in {"upper", "key", "options"}
  PROVE  /\ Saw(t) \in Calls
         /\ Saw(t).stage = "transfer" /\ Saw(t).request = call[t].request
         /\ Saw(t).at = call[t].at /\ Saw(t).lane = call[t].lane
         /\ Saw(t).swapped = call[t].swapped
         /\ Saw(t).source = call[t].source
         /\ \A answer \in Saw(t).seen : answer[1] = 0 \/ answer[2]
         /\ call[t].request \notin ThresholdGet
         /\ module.page = 0 \/ stuck
         /\ call[t].request \in TxControl => call[t].at # 2 /\ End(t) = 4
<1>1. call[t] \in Calls /\ module.page \in Pages /\ stuck \in BOOLEAN
  BY DEF IInv, Structure, TypeOK, Modules
<1>2. /\ call[t].request \notin ThresholdGet
      /\ call[t].request \in TxControl => call[t].at # 2 /\ End(t) = 4
      /\ call[t].at \in 1..5
  BY KindFacts, BusyType DEF IInv
<1>3. module.page = 0 \/ stuck
  BY <1>2, PageSeen
<1>4. Saw(t) \in Calls
  BY <1>1 DEF Saw, Calls
<1>5. /\ Saw(t).stage = "transfer" /\ Saw(t).request = call[t].request
      /\ Saw(t).at = call[t].at /\ Saw(t).lane = call[t].lane
      /\ Saw(t).swapped = call[t].swapped
      /\ Saw(t).source = call[t].source
      /\ Saw(t).seen = call[t].seen \cup {<<module.page, stuck>>}
  BY <1>1 DEF Saw, Calls, Busy
<1>6. \A answer \in Saw(t).seen : answer[1] = 0 \/ answer[2]
  BY <1>3, <1>5, CallType
<1> QED
  BY <1>2, <1>3, <1>4, <1>5, <1>6

LEMMA AdvanceSawInv ==
  ASSUME IInv, NEW t \in Threads, Busy(t), Kind(t) \in {"upper", "key", "options"},
         Advance(t, Saw(t)), UNCHANGED <<module, stuck, lock, goal>>
  PROVE  IInv'
<1>1. Moved(t, call[t].at + 1, Saw(t).buf, Saw(t).seen, Saw(t).source)
  BY SawOk, AdvanceMoves DEF IInv
<1>2. ~(call[t].request \in TxControl /\ call[t].at + 1 = 3)
  BY SawOk, BusyType DEF IInv
<1> QED
  BY <1>1, <1>2, SawOk, CallType, LookInv

LEMMA LeaveSawInv ==
  ASSUME IInv, NEW t \in Threads, Busy(t), Kind(t) \in {"upper", "key", "options"},
         NEW rc \in {"OK", "EIO", "ENOTSUP"},
         Leave(t, Saw(t), rc), UNCHANGED <<module, stuck, lock, goal>>
  PROVE  IInv'
<1>1. Moved(t, End(t), Saw(t).buf, Saw(t).seen, Saw(t).source)
  BY SawOk, LeaveMoves DEF IInv
<1> QED
  BY <1>1, SawOk, CallType, LookInv

LEMMA InfoInv ==
  ASSUME IInv, NEW t \in Threads, ReadUpper(t) \/ FindKey(t) \/ ReadOptions(t)
  PROVE  IInv'
<1>1. CASE ReadUpper(t)
  BY <1>1, AtKind, AdvanceSawInv DEF ReadUpper
<1>2. CASE FindKey(t)
  BY <1>2, AtKind, AdvanceSawInv, LeaveSawInv DEF FindKey
<1>3. CASE ReadOptions(t)
  BY <1>3, AtKind, AdvanceSawInv, LeaveSawInv DEF ReadOptions
<1> QED
  BY <1>1, <1>2, <1>3

LEMMA ReadTxInv ==
  ASSUME IInv, NEW t \in Threads, ReadTx(t)
  PROVE  IInv'
<1>1. Busy(t) /\ Kind(t) = "tx"
  BY AtKind DEF ReadTx
<1> DEFINE v == [call[t] EXCEPT !.buf = module.off]
<1>2. v \in Calls
  BY CallType, ModuleType DEF Calls
<1>3. /\ v.stage = "transfer" /\ v.request = call[t].request
      /\ v.at = call[t].at /\ v.lane = call[t].lane
      /\ v.swapped = call[t].swapped /\ v.buf = module.off
      /\ v.seen = call[t].seen /\ v.source = call[t].source
  BY <1>1, CallType DEF Busy, Calls
<1>4. Advance(t, v)
  BY DEF ReadTx
<1> HIDE DEF v
<1>5. Moved(t, call[t].at + 1, module.off, call[t].seen, call[t].source)
  BY <1>1, <1>2, <1>3, <1>4, AdvanceMoves DEF IInv
<1>6. call[t].request \notin ThresholdGet
  BY <1>1, KindFacts, BusyType DEF IInv
<1>7. module.page = 0 \/ stuck
  BY <1>1, <1>6, PageSeen
<1> QED
  BY <1>1, <1>5, <1>6, <1>7, CallType, LookInv DEF ReadTx

LEMMA TestPagingInv ==
  ASSUME IInv, NEW t \in Threads, TestPaging(t)
  PROVE  IInv'
<1>1. Busy(t) /\ Kind(t) \in {"paging3", "paging0"}
  BY AtKind DEF TestPaging
<1>2. /\ call[t].request \in ThresholdGet /\ call[t].request \notin TxControl
      /\ End(t) = 6 /\ call[t].at \in {1, 4}
  BY <1>1, KindFacts DEF IInv
<1>3. module.page = 0 \/ stuck \/ call[t].at = 4
  BY <1>1, <1>2, PageSeen
<1>4. CASE module.paged
  <2>1. Moved(t, call[t].at + 1, call[t].buf, call[t].seen, call[t].source)
    BY <1>1, <1>4, AdvanceMoves, CallType DEF TestPaging, IInv, Busy
  <2>2. /\ call[t].at = 4 => call[t].at + 1 \in 3..5
        /\ call[t].at + 1 # 3
    BY <1>2
  <2> QED
    BY <1>1, <1>2, <1>3, <1>4, <2>1, <2>2, CallType, LookInv DEF TestPaging
<1>5. CASE ~module.paged
  <2>1. Moved(t, End(t), call[t].buf, call[t].seen, call[t].source)
    BY <1>1, <1>5, LeaveMoves, CallType DEF TestPaging, IInv, Busy
  <2>2. module.page = 0
    BY <1>5 DEF IInv, ModuleOK
  <2> QED
    BY <1>1, <1>2, <2>1, <2>2, CallType, LookInv DEF TestPaging
<1> QED
  BY <1>4, <1>5

LEMMA ReadThresholdInv ==
  ASSUME IInv, NEW t \in Threads, ReadThreshold(t)
  PROVE  IInv'
<1>1. Busy(t) /\ Kind(t) = "threshold"
  BY AtKind DEF ReadThreshold
<1>2. /\ call[t].request \in ThresholdGet /\ call[t].request \notin TxControl
      /\ call[t].at = 3 /\ call[t].at + 1 = 4
  BY <1>1, KindFacts DEF IInv
<1> DEFINE v == [call[t] EXCEPT !.source = {module.page}]
<1>3. v \in Calls
  BY CallType, ModuleType DEF Calls
<1>4. /\ v.stage = "transfer" /\ v.request = call[t].request
      /\ v.at = call[t].at /\ v.lane = call[t].lane
      /\ v.swapped = call[t].swapped /\ v.buf = call[t].buf
      /\ v.seen = call[t].seen /\ v.source = {module.page}
  BY <1>1, CallType DEF Busy, Calls
<1>5. Advance(t, v)
  BY DEF ReadThreshold
<1> HIDE DEF v
<1>6. Moved(t, call[t].at + 1, call[t].buf, call[t].seen, {module.page})
  BY <1>1, <1>3, <1>4, <1>5, AdvanceMoves DEF IInv
<1>7. module.page = 3 \/ call[t].swapped
  BY <1>1, <1>2 DEF IInv, PageSelected, Busy
<1>8. call[t].at + 1 \in 3..5 /\ call[t].at + 1 \notin {2, 3}
  BY <1>2
<1> QED
  BY <1>1, <1>2, <1>6, <1>7, <1>8, CallType, LookInv DEF ReadThreshold

\* A module that shows another page is a module.
LEMMA NewPage ==
  ASSUME IInv, NEW page \in Pages
  PROVE  /\ [module EXCEPT !.page = page] \in Modules
         /\ [module EXCEPT !.page = page].page = page
         /\ [module EXCEPT !.page = page].off = module.off
         /\ [module EXCEPT !.page = page].paged = module.paged
         /\ [module EXCEPT !.page = page].plugged = module.plugged
  BY ModuleType DEF Modules

\* A module with other lanes disabled is a module.
LEMMA NewOff ==
  ASSUME IInv, NEW off \in SUBSET Lanes
  PROVE  /\ [module EXCEPT !.off = off] \in Modules
         /\ [module EXCEPT !.off = off].off = off
         /\ [module EXCEPT !.off = off].page = module.page
         /\ [module EXCEPT !.off = off].paged = module.paged
         /\ [module EXCEPT !.off = off].plugged = module.plugged
  BY ModuleType DEF Modules

LEMMA SelectPageInv ==
  ASSUME IInv, NEW t \in Threads, SelectPage(t)
  PROVE  IInv'
<1>1. CASE Transferring(t, "page3")
  <2>1. Busy(t) /\ Kind(t) = "page3"
    BY <1>1, AtKind
  <2>2. /\ call[t].request \in ThresholdGet /\ call[t].request \notin TxControl
        /\ End(t) = 6 /\ call[t].at = 2 /\ call[t].at + 1 = 3
    BY <2>1, KindFacts DEF IInv
  <2>3. /\ module' = [module EXCEPT !.page = IF module.paged THEN 3 ELSE @]
        /\ stuck' = stuck /\ goal' = goal /\ lock' = lock
        /\ Advance(t, call[t]) /\ module.plugged
    BY <1>1, <2>1 DEF SelectPage, Transferring
  <2>4. Moved(t, 3, call[t].buf, call[t].seen, call[t].source)
    BY <2>1, <2>2, <2>3, AdvanceMoves, CallType DEF IInv, Busy
  <2>5. /\ module' \in Modules /\ module'.off = module.off
        /\ module'.paged = module.paged /\ module'.plugged = module.plugged
        /\ module'.page = IF module.paged THEN 3 ELSE module.page
    <3>1. (IF module.paged THEN 3 ELSE module.page) \in Pages
      BY ModuleType DEF Pages
    <3> QED
      BY <2>3, <3>1, NewPage
  <2>6. ModuleOK' /\ LaneGoals'
    BY <2>3, <2>5 DEF IInv, ModuleOK, LaneGoals
  <2>7. PageZero'
    <3>1. lock' = t /\ call'[t].request \in ThresholdGet /\ call'[t].at \in 3..5
      BY <2>1, <2>2, <2>3, <2>4, BusyType DEF IInv, Moved
    <3> QED
      BY <3>1, ThreadAssumption DEF PageZero
  <2>8. PageSelected(t)'
    <3>1. ~call[t].swapped => module.paged
      BY <2>1, <2>2 DEF IInv, PageSelected, Busy
    <3> QED
      BY <2>3, <2>4, <2>5, <3>1 DEF PageSelected, Moved
  <2>9. BufferFresh(t)'
    BY <2>2, <2>4 DEF BufferFresh, Moved
  <2> QED
    BY <2>1, <2>2, <2>3, <2>4, <2>5, <2>6, <2>7, <2>8, <2>9, CallType,
       ModuleType, MovedInv
<1>2. CASE Transferring(t, "page0")
  <2>1. Busy(t) /\ Kind(t) = "page0"
    BY <1>2, AtKind
  <2>2. /\ call[t].request \in ThresholdGet /\ call[t].request \notin TxControl
        /\ End(t) = 6
    BY <2>1, KindFacts DEF IInv
  <2>3. /\ module' = [module EXCEPT !.page = 0]
        /\ stuck' = FALSE /\ goal' = goal /\ lock' = lock
        /\ Leave(t, call[t], "OK")
    BY <1>2, <2>1 DEF SelectPage, Transferring
  <2>4. Moved(t, 6, call[t].buf, call[t].seen, call[t].source)
    BY <2>1, <2>2, <2>3, LeaveMoves, CallType DEF IInv, Busy
  <2>5. /\ module' \in Modules /\ module'.off = module.off
        /\ module'.plugged = module.plugged /\ module'.page = 0
    BY <2>3, NewPage DEF Pages
  <2>6. ModuleOK' /\ LaneGoals' /\ PageZero'
    BY <2>3, <2>5 DEF IInv, ModuleOK, LaneGoals, PageZero
  <2>7. PageSelected(t)' /\ BufferFresh(t)'
    BY <2>2, <2>4 DEF PageSelected, BufferFresh, Moved
  <2>8. /\ goal' \in [Lanes -> {"any", "on", "off"}] /\ stuck' \in BOOLEAN
        /\ 6 \in 1..6 /\ 6 <= End(t)
    <3>1. stuck' \in BOOLEAN
      BY <2>3
    <3>2. goal' \in [Lanes -> {"any", "on", "off"}]
      BY <2>3, ModuleType
    <3>3. 6 \in 1..6 /\ 6 <= End(t)
      BY <2>2
    <3> QED
      BY <3>1, <3>2, <3>3
  <2> QED
    BY <2>1, <2>3, <2>4, <2>5, <2>6, <2>7, <2>8, CallType, MovedInv
<1> QED
  BY <1>1, <1>2 DEF SelectPage

\* The byte that sdi_qsfp_tx_control is about to write.
LEMMA NewTxLanes ==
  ASSUME IInv, NEW t \in Threads, Busy(t), Kind(t) = "setTx"
  PROVE  /\ call[t].request \in TxControl /\ call[t].request \notin ThresholdGet
         /\ call[t].at = 3 /\ End(t) = 4
         /\ call[t].lane \in Lanes /\ call[t].enable \in BOOLEAN
         /\ NewTx(t) \in SUBSET Lanes
         /\ call[t].enable => call[t].lane \notin NewTx(t)
         /\ ~call[t].enable => call[t].lane \in NewTx(t)
         /\ ~call[t].swapped =>
              \A lane \in Lanes \ {call[t].lane} :
                lane \in NewTx(t) <=> lane \in module.off
         /\ \A lane \in Lanes \ {call[t].lane} :
              /\ goal[lane] = "on" => lane \notin NewTx(t)
              /\ goal[lane] = "off" => lane \in NewTx(t)
         /\ module.page = 0 \/ stuck
<1>1. /\ call[t].request \in TxControl /\ call[t].request \notin ThresholdGet
      /\ call[t].at = 3 /\ End(t) = 4
  BY KindFacts DEF IInv
<1>2. /\ call[t].lane \in Lanes /\ call[t].enable \in BOOLEAN
      /\ call[t].buf \in SUBSET Lanes
  BY <1>1, CallType DEF IInv, Structure, InBounds, Calls
<1>3. /\ NewTx(t) \in SUBSET Lanes
      /\ call[t].enable => call[t].lane \notin NewTx(t)
      /\ ~call[t].enable => call[t].lane \in NewTx(t)
      /\ \A lane \in Lanes \ {call[t].lane} :
           lane \in NewTx(t) <=> lane \in call[t].buf
  BY <1>2 DEF NewTx
<1>4. IF call[t].swapped THEN \A lane \in Lanes : goal[lane] = "any"
                         ELSE call[t].buf = module.off
  BY <1>1 DEF IInv, BufferFresh, Busy
<1>5. \A lane \in Lanes \ {call[t].lane} :
        /\ goal[lane] = "on" => lane \notin NewTx(t)
        /\ goal[lane] = "off" => lane \in NewTx(t)
  BY <1>3, <1>4 DEF IInv, LaneGoals
<1>6. module.page = 0 \/ stuck
  BY <1>1, PageSeen
<1> QED
  BY <1>1, <1>2, <1>3, <1>4, <1>5, <1>6

LEMMA WriteTxInv ==
  ASSUME IInv, NEW t \in Threads, WriteTx(t)
  PROVE  IInv'
<1>1. Busy(t) /\ Kind(t) = "setTx"
  BY AtKind DEF WriteTx
<1>2. /\ module' = [module EXCEPT !.off = NewTx(t)] /\ module.plugged
      /\ goal' = [goal EXCEPT ![call[t].lane] =
                    IF call[t].enable THEN "on" ELSE "off"]
      /\ stuck' = stuck /\ lock' = lock /\ Advance(t, call[t])
  BY DEF WriteTx
<1>3. call[t].at + 1 = 4
  BY <1>1, NewTxLanes
<1>4. Moved(t, 4, call[t].buf, call[t].seen, call[t].source)
  BY <1>1, <1>2, <1>3, AdvanceMoves, CallType DEF IInv, Busy
<1>5. /\ module' \in Modules /\ module'.off = NewTx(t)
      /\ module'.page = module.page /\ module'.paged = module.paged
      /\ module'.plugged = module.plugged
  <2>1. NewTx(t) \in SUBSET Lanes
    BY <1>1, NewTxLanes
  <2> QED
    BY <1>2, <2>1, NewOff
<1>6. /\ goal' \in [Lanes -> {"any", "on", "off"}]
      /\ goal'[call[t].lane] = IF call[t].enable THEN "on" ELSE "off"
      /\ \A lane \in Lanes \ {call[t].lane} : goal'[lane] = goal[lane]
  BY <1>1, <1>2, NewTxLanes, ModuleType
<1>7. LaneGoals'
  <2> SUFFICES ASSUME NEW lane \in Lanes
               PROVE  /\ goal'[lane] = "on" => lane \notin NewTx(t)
                      /\ goal'[lane] = "off" => lane \in NewTx(t)
    BY <1>5 DEF LaneGoals
  <2>1. CASE lane = call[t].lane
    BY <1>1, <1>6, <2>1, NewTxLanes
  <2>2. CASE lane # call[t].lane
    BY <1>1, <1>6, <2>2, NewTxLanes
  <2> QED
    BY <2>1, <2>2
<1>8. ModuleOK' /\ PageZero'
  BY <1>1, <1>2, <1>5, NewTxLanes DEF IInv, ModuleOK, PageZero
<1>9. PageSelected(t)' /\ BufferFresh(t)'
  BY <1>1, <1>4, NewTxLanes DEF PageSelected, BufferFresh, Moved
<1> QED
  BY <1>1, <1>2, <1>4, <1>5, <1>6, <1>7, <1>8, <1>9, NewTxLanes, CallType,
     ModuleType, MovedInv

\* What a transaction that fails can have done to the module and to stuck.
LEMMA FailureFacts ==
  ASSUME IInv, NEW t \in Threads, BusError(t)
  PROVE  /\ Busy(t) /\ lock' = lock
         /\ module' \in Modules
         /\ module'.plugged = module.plugged /\ module'.paged = module.paged
         /\ \/ module'.off = module.off
            \/ /\ Kind(t) = "setTx" /\ module.plugged
               /\ module'.off = NewTx(t)
         /\ \/ module'.page = module.page
            \/ Kind(t) = "page3" /\ module.paged
            \/ Kind(t) = "page0" /\ module'.page = 0
         /\ stuck' = IF Kind(t) \in {"paging0", "page0"}
                     THEN module'.page # 0 ELSE stuck
         /\ stuck' \in BOOLEAN
         /\ goal' = IF Kind(t) = "setTx"
                    THEN [goal EXCEPT ![call[t].lane] = "any"] ELSE goal
<1>1. Busy(t)
  BY DEF BusError, Busy
<1>2. \A kind : Transferring(t, kind) <=> Kind(t) = kind
  BY <1>1 DEF Transferring, Busy, Kind
<1>3. /\ stuck' = IF Kind(t) \in {"paging0", "page0"}
                   THEN module'.page # 0 ELSE stuck
      /\ goal' = IF Kind(t) = "setTx"
                  THEN [goal EXCEPT ![call[t].lane] = "any"] ELSE goal
      /\ lock' = lock
  BY <1>2 DEF BusError
<1>4. stuck' \in BOOLEAN
  BY <1>3, ModuleType
<1>5. /\ module' \in Modules
      /\ module'.plugged = module.plugged /\ module'.paged = module.paged
      /\ \/ module'.off = module.off
         \/ /\ Kind(t) = "setTx" /\ module.plugged
            /\ module'.off = NewTx(t)
      /\ \/ module'.page = module.page
         \/ Kind(t) = "page3" /\ module.paged
         \/ Kind(t) = "page0" /\ module'.page = 0
  <2>1. CASE UNCHANGED module
    BY <2>1, ModuleType
  <2>2. CASE /\ Transferring(t, "setTx") /\ module.plugged
             /\ module' = [module EXCEPT !.off = NewTx(t)]
    <3>1. Kind(t) = "setTx" /\ NewTx(t) \in SUBSET Lanes
      BY <1>1, <1>2, <2>2, NewTxLanes
    <3> QED
      BY <2>2, <3>1, NewOff
  <2>3. CASE /\ Transferring(t, "page3") /\ module.paged
             /\ module' = [module EXCEPT !.page = 3]
    <3>1. Kind(t) = "page3" /\ 3 \in Pages
      BY <1>2, <2>3 DEF Pages
    <3> QED
      BY <2>3, <3>1, NewPage
  <2>4. CASE /\ Transferring(t, "page0")
             /\ module' = [module EXCEPT !.page = 0]
    <3>1. Kind(t) = "page0" /\ 0 \in Pages
      BY <1>2, <2>4 DEF Pages
    <3> QED
      BY <2>4, <3>1, NewPage
  <2> QED
    BY <2>1, <2>2, <2>3, <2>4 DEF BusError
<1> QED
  BY <1>1, <1>3, <1>4, <1>5

\* Where the call goes on: at the restoring of page 0, or nowhere.
LEMMA FailureMoves ==
  ASSUME IInv, NEW t \in Threads, BusError(t)
  PROVE  /\ call[t].request \in ThresholdGet /\ call[t].at < Restore
              => Moved(t, Restore, call[t].buf, call[t].seen, call[t].source)
         /\ ~(call[t].request \in ThresholdGet /\ call[t].at < Restore)
              => Moved(t, End(t), call[t].buf, call[t].seen, call[t].source)
<1>1. Busy(t)
  BY DEF BusError, Busy
<1>2. ASSUME call[t].request \in ThresholdGet /\ call[t].at < Restore
      PROVE  Moved(t, Restore, call[t].buf, call[t].seen, call[t].source)
  <2> DEFINE c == [call[t] EXCEPT !.at = Restore]
  <2>1. c \in Calls
    BY CallType DEF Calls, Restore
  <2>2. /\ c.at = Restore /\ c.stage = "transfer"
        /\ c.request = call[t].request /\ c.lane = call[t].lane
        /\ c.swapped = call[t].swapped /\ c.buf = call[t].buf
        /\ c.seen = call[t].seen /\ c.source = call[t].source
    BY <1>1, CallType DEF Calls, Busy
  <2>3. call' = [call EXCEPT ![t] = c] /\ call \in [Threads -> Calls]
    BY <1>2 DEF BusError, IInv, Structure, TypeOK
  <2> HIDE DEF c
  <2>4. /\ call' \in [Threads -> Calls] /\ call'[t] = c
        /\ \A u \in Threads : u # t => call'[u] = call[u]
    BY <2>1, <2>3
  <2> QED
    BY <2>2, <2>4 DEF Moved
<1>3. ASSUME ~(call[t].request \in ThresholdGet /\ call[t].at < Restore)
      PROVE  Moved(t, End(t), call[t].buf, call[t].seen, call[t].source)
  <2>1. Leave(t, call[t], "EIO")
    BY <1>3 DEF BusError
  <2> QED
    BY <1>1, <2>1, LeaveMoves, CallType DEF IInv, Busy
<1> QED
  BY <1>2, <1>3

LEMMA BusErrorInv ==
  ASSUME IInv, NEW t \in Threads, BusError(t)
  PROVE  IInv'
<1>1. Busy(t) /\ lock' = lock /\ module' \in Modules /\ stuck' \in BOOLEAN
  BY FailureFacts
<1>2. ModuleOK'
  BY FailureFacts DEF IInv, ModuleOK
<1>3. goal' \in [Lanes -> {"any", "on", "off"}] /\ LaneGoals'
  <2>1. CASE Kind(t) = "setTx"
    <3>1. goal' = [goal EXCEPT ![call[t].lane] = "any"]
      BY <2>1, FailureFacts
    <3>2. call[t].lane \in Lanes
      BY <1>1, <2>1, NewTxLanes
    <3>3. /\ goal' \in [Lanes -> {"any", "on", "off"}]
          /\ goal'[call[t].lane] = "any"
          /\ \A lane \in Lanes \ {call[t].lane} : goal'[lane] = goal[lane]
      BY <3>1, <3>2, ModuleType
    <3>4. module'.off \in {module.off, NewTx(t)}
      BY FailureFacts
    <3>5. \A lane \in Lanes \ {call[t].lane} :
            /\ goal[lane] = "on" => lane \notin module'.off
            /\ goal[lane] = "off" => lane \in module'.off
      <4>1. CASE module'.off = module.off
        BY <4>1 DEF IInv, LaneGoals
      <4>2. CASE module'.off = NewTx(t)
        BY <1>1, <2>1, <4>2, NewTxLanes
      <4> QED
        BY <3>4, <4>1, <4>2
    <3>6. LaneGoals'
      BY <3>3, <3>5 DEF LaneGoals
    <3> QED
      BY <3>3, <3>6
  <2>2. CASE Kind(t) # "setTx"
    BY <2>2, FailureFacts, ModuleType DEF IInv, LaneGoals
  <2> QED
    BY <2>1, <2>2
<1>4. CASE call[t].request \in ThresholdGet /\ call[t].at < Restore
  <2>1. Moved(t, 4, call[t].buf, call[t].seen, call[t].source)
    BY <1>4, FailureMoves DEF Restore
  <2>2. End(t) = 6 /\ call[t].request \notin TxControl
    BY <1>1, <1>4, KindFacts DEF IInv
  <2>3. PageZero'
    <3>1. lock' = t /\ call'[t].request \in ThresholdGet /\ call'[t].at \in 3..5
      BY <1>1, <1>4, <2>1, BusyType DEF IInv, Moved
    <3> QED
      BY <3>1, ThreadAssumption DEF PageZero
  <2>4. PageSelected(t)' /\ BufferFresh(t)'
    BY <2>1, <2>2 DEF PageSelected, BufferFresh, Moved
  <2>5. 4 \in 1..6 /\ 4 <= End(t)
    BY <2>2
  <2> QED
    BY <1>1, <1>2, <1>3, <2>1, <2>3, <2>4, <2>5, CallType, MovedInv
<1>5. CASE ~(call[t].request \in ThresholdGet /\ call[t].at < Restore)
  <2>1. Moved(t, End(t), call[t].buf, call[t].seen, call[t].source)
    BY <1>5, FailureMoves
  <2>2. PageZero'
    <3>1. CASE call[t].request \in ThresholdGet
      <4>1. call[t].at \in {4, 5}
        BY <1>1, <1>5, <3>1, BusyType DEF IInv, Restore
      <4>2. Kind(t) \in {"paging0", "page0"}
        BY <1>1, <3>1, <4>1, KindFacts DEF IInv
      <4> QED
        BY <4>2, FailureFacts DEF PageZero
    <3>2. CASE call[t].request \notin ThresholdGet
      <4>1. Kind(t) \notin {"page3", "paging0", "page0"}
        BY <1>1, <3>2, KindFacts DEF IInv
      <4>2. module.page = 0 \/ stuck
        BY <1>1, <3>2, PageSeen
      <4> QED
        BY <4>1, <4>2, FailureFacts DEF PageZero
    <3> QED
      BY <3>1, <3>2
  <2>3. /\ End(t) \in 1..6 /\ End(t) <= End(t)
        /\ call[t].request \in ThresholdGet => End(t) = 6
        /\ call[t].request \in TxControl => End(t) = 4
    BY <1>1, BusyType, KindFacts DEF IInv
  <2>4. PageSelected(t)' /\ BufferFresh(t)'
    BY <2>1, <2>3 DEF PageSelected, BufferFresh, Moved
  <2> QED
    BY <1>1, <1>2, <1>3, <2>1, <2>2, <2>3, <2>4, CallType, MovedInv
<1> QED
  BY <1>4, <1>5

LEMMA TransactInv ==
  ASSUME IInv, NEW t \in Threads, Transact(t)
  PROVE  IInv'
  BY ReadLowerInv, InfoInv, ReadTxInv, WriteTxInv, TestPagingInv, SelectPageInv,
     ReadThresholdInv, BusErrorInv DEF Transact

-----------------------------------------------------------------------------
(* The other steps                                                         *)

\* A step before or after the transactions of a call of t.
LEMMA RestInv ==
  ASSUME IInv, NEW t \in Threads,
         call' \in [Threads -> Calls],
         \A u \in Threads : u # t => call'[u] = call[u],
         call'[t].stage # "transfer", call'[t].at = 1, ~call'[t].swapped,
         call'[t].seen = {}, call'[t].source = {},
         call'[t].request \in TxControl => call'[t].lane \in Lanes,
         UNCHANGED <<module, stuck, goal>>,
         lock' = IF lock = t THEN NoThread ELSE lock,
         lock = t => module.page = 0 \/ stuck
  PROVE  IInv'
<1>1. TypeOK'
  BY DEF IInv, Structure, TypeOK
<1>2. Holding'
  <2> SUFFICES ASSUME NEW u \in Threads
               PROVE  call'[u].stage = "transfer" <=> lock' = u
    BY DEF Holding
  <2>1. call[u].stage = "transfer" <=> lock = u
    BY DEF IInv, Structure, Holding
  <2> QED
    BY <2>1, ThreadAssumption
<1>3. InBounds'
  <2> SUFFICES ASSUME NEW u \in Threads
               PROVE  /\ call'[u].at <= Len(call'[u].request) + 1
                      /\ call'[u].stage # "transfer" =>
                           call'[u].at = 1 /\ ~call'[u].swapped
                      /\ call'[u].request \in TxControl => call'[u].lane \in Lanes
    BY DEF InBounds
  <2>1. CASE u = t
    <3>1. Len(call'[t].request) \in 0..5
      BY <1>1, RequestShape DEF TypeOK, Calls
    <3>2. call'[t].at <= Len(call'[t].request) + 1
      BY <3>1
    <3> QED
      BY <2>1, <3>2
  <2>2. CASE u # t
    BY <2>2 DEF IInv, Structure, InBounds
  <2> QED
    BY <2>1, <2>2
<1>4. ModuleOK' /\ LaneGoals'
  BY DEF IInv, ModuleOK, LaneGoals
<1>5. PageZero'
  <2>1. CASE lock = t
    BY <2>1 DEF PageZero
  <2>2. CASE lock # t /\ lock # NoThread
    <3>1. lock \in Threads /\ call'[lock] = call[lock] /\ lock' = lock
      BY <2>2 DEF IInv, Structure, TypeOK
    <3> QED
      BY <3>1 DEF IInv, PageZero
  <2>3. CASE lock = NoThread
    BY <2>3, ThreadAssumption DEF IInv, PageZero
  <2> QED
    BY <2>1, <2>2, <2>3
<1>6. ThresholdFromPageThree'
  BY DEF IInv, ThresholdFromPageThree
<1>7. ASSUME NEW u \in Threads
      PROVE  PageSelected(u)' /\ BufferFresh(u)' /\ SeenPageZero(u)'
  <2>1. CASE u = t
    BY <2>1 DEF PageSelected, BufferFresh, SeenPageZero
  <2>2. CASE u # t
    BY <2>2 DEF IInv, PageSelected, BufferFresh, SeenPageZero
  <2> QED
    BY <2>1, <2>2
<1> QED
  BY <1>1, <1>2, <1>3, <1>4, <1>5, <1>6, <1>7 DEF IInv, Structure

LEMMA IdleType ==
  /\ <<>> \in Requests \ TxControl
  /\ Idle \in Calls
  /\ Idle.stage = "idle" /\ Idle.at = 1 /\ Idle.request = <<>>
  /\ Idle.seen = {} /\ Idle.source = {} /\ Idle.swapped = FALSE
<1>1. <<>> \in Requests \ TxControl
  BY DEF Requests, ModuleMonitorStatusGet, TxControl
<1> QED
  BY <1>1 DEF Idle, Calls

\* The call of a thread becomes c, and no other call changes.
LEMMA CallBecomes ==
  ASSUME IInv, NEW t \in Threads, NEW c \in Calls,
         call' = [call EXCEPT ![t] = c]
  PROVE  /\ call' \in [Threads -> Calls] /\ call'[t] = c
         /\ \A u \in Threads : u # t => call'[u] = call[u]
  BY DEF IInv, Structure, TypeOK

LEMMA StartInv ==
  ASSUME IInv, NEW t \in Threads, Start(t)
  PROVE  IInv'
<1>1. PICK c \in Calls :
        /\ call' = [call EXCEPT ![t] = c]
        /\ c.stage = "wait" /\ c.at = 1 /\ ~c.swapped
        /\ c.seen = {} /\ c.source = {}
        /\ c.request \in TxControl => c.lane \in Lanes
  <2>1. CASE \E request \in Requests \ TxControl :
               call' = [call EXCEPT ![t] = [Idle EXCEPT !.stage = "wait",
                                                        !.request = request]]
    <3>1. PICK request \in Requests \ TxControl :
            call' = [call EXCEPT ![t] = [Idle EXCEPT !.stage = "wait",
                                                     !.request = request]]
      BY <2>1
    <3> DEFINE c == [Idle EXCEPT !.stage = "wait", !.request = request]
    <3>2. c \in Calls /\ c.stage = "wait" /\ c.request = request /\ c.at = 1
      BY IdleType DEF Calls
    <3>3. ~c.swapped /\ c.seen = {} /\ c.source = {}
      BY IdleType DEF Calls
    <3> QED
      BY <3>1, <3>2, <3>3
  <2>2. CASE \E request \in TxControl, lane \in Lanes, enable \in BOOLEAN :
               call' = [call EXCEPT ![t] = [Idle EXCEPT !.stage = "wait",
                                                        !.request = request,
                                                        !.lane = lane,
                                                        !.enable = enable]]
    <3>1. PICK request \in TxControl, lane \in Lanes, enable \in BOOLEAN :
            call' = [call EXCEPT ![t] = [Idle EXCEPT !.stage = "wait",
                                                     !.request = request,
                                                     !.lane = lane,
                                                     !.enable = enable]]
      BY <2>2
    <3> DEFINE c == [Idle EXCEPT !.stage = "wait", !.request = request,
                                 !.lane = lane, !.enable = enable]
    <3>2. request \in Requests
      BY DEF Requests
    <3>3. c \in Calls /\ c.stage = "wait" /\ c.lane = lane /\ c.at = 1
      BY <3>2, IdleType DEF Calls
    <3>4. ~c.swapped /\ c.seen = {} /\ c.source = {}
      BY IdleType DEF Calls
    <3> QED
      BY <3>1, <3>3, <3>4
  <2> QED
    BY <2>1, <2>2 DEF Start
<1>2. lock # t
  BY DEF Start, IInv, Structure, Holding
<1> QED
  BY <1>1, <1>2, CallBecomes, RestInv DEF Start

LEMMA DeselectInv ==
  ASSUME IInv, NEW t \in Threads, Deselect(t)
  PROVE  IInv'
<1>1. lock = t
  BY DEF Deselect, Done, IInv, Structure, Holding
<1>2. module.page = 0 \/ stuck
  <2>1. SUFFICES ASSUME call[t].request \in ThresholdGet /\ call[t].at \in 3..5
                 PROVE  FALSE
    BY <1>1 DEF IInv, PageZero
  <2>2. Len(call[t].request) = 5
    BY <2>1 DEF ThresholdGet
  <2> QED
    BY <2>1, <2>2 DEF Deselect, Done
<1>3. call' \in [Threads -> Calls] /\ call'[t] = Idle
      /\ \A u \in Threads : u # t => call'[u] = call[u]
  BY IdleType, CallBecomes DEF Deselect
<1> QED
  BY <1>1, <1>2, <1>3, IdleType, RestInv DEF Deselect

LEMMA SelectInv ==
  ASSUME IInv, NEW t \in Threads, Select(t)
  PROVE  IInv'
<1>1. lock = NoThread /\ lock # t /\ call[t].stage = "wait"
  BY ThreadAssumption DEF Select
<1>2. module.page = 0 \/ stuck
  BY <1>1 DEF IInv, PageZero
<1>3. CASE lock' = lock /\ call' = [call EXCEPT ![t] = Idle]
  <2>1. /\ call' \in [Threads -> Calls] /\ call'[t] = Idle
        /\ \A u \in Threads : u # t => call'[u] = call[u]
    BY <1>3, IdleType, CallBecomes
  <2> QED
    BY <1>1, <1>3, <2>1, IdleType, RestInv DEF Select
<1>4. CASE lock' = t /\ call' = [call EXCEPT ![t].stage = "transfer"]
  <2> DEFINE c == [call[t] EXCEPT !.stage = "transfer"]
  <2>1. c \in Calls
    BY CallType DEF Calls
  <2>2. /\ c.stage = "transfer" /\ c.at = call[t].at
        /\ c.request = call[t].request /\ c.lane = call[t].lane
        /\ c.swapped = call[t].swapped /\ c.seen = call[t].seen
        /\ c.source = call[t].source
    BY CallType DEF Calls
  <2>3. call' = [call EXCEPT ![t] = c]
    BY <1>4, CallType DEF IInv, Structure, TypeOK
  <2> HIDE DEF c
  <2>4. /\ call' \in [Threads -> Calls] /\ call'[t] = c
        /\ \A u \in Threads : u # t => call'[u] = call[u]
    BY <2>1, <2>3, CallBecomes
  <2>5. call[t].at = 1 /\ ~call[t].swapped
    BY <1>1 DEF IInv, Structure, InBounds
  <2>6. UNCHANGED <<module, stuck, goal>>
    BY DEF Select
  <2>7. TypeOK'
    BY <1>4, <2>4, <2>6 DEF IInv, Structure, TypeOK
  <2>8. Holding'
    BY <1>1, <1>4, <2>2, <2>4, ThreadAssumption DEF IInv, Structure, Holding
  <2>9. InBounds'
    BY <2>2, <2>4 DEF IInv, Structure, InBounds
  <2>10. ModuleOK' /\ LaneGoals' /\ PageZero'
    BY <1>2, <2>6 DEF IInv, ModuleOK, LaneGoals, PageZero
  <2>11. ThresholdFromPageThree'
    BY <2>2, <2>4 DEF IInv, ThresholdFromPageThree
  <2>12. ASSUME NEW u \in Threads
         PROVE  PageSelected(u)' /\ BufferFresh(u)' /\ SeenPageZero(u)'
    <3>1. CASE u = t
      BY <2>2, <2>4, <2>5, <3>1 DEF IInv, PageSelected, BufferFresh, SeenPageZero
    <3>2. CASE u # t
      BY <2>4, <2>6, <3>2 DEF IInv, PageSelected, BufferFresh, SeenPageZero
    <3> QED
      BY <3>1, <3>2
  <2> QED
    BY <2>7, <2>8, <2>9, <2>10, <2>11, <2>12 DEF IInv, Structure
<1> QED
  BY <1>3, <1>4 DEF Select

LEMMA NoModuleType ==
  /\ NoModule \in Modules
  /\ NoModule.page = 0 /\ NoModule.off = {} /\ NoModule.plugged = FALSE
  BY DEF NoModule, Modules, Pages

LEMMA PullInv ==
  ASSUME IInv, Pull
  PROVE  IInv'
<1>1. /\ module' = NoModule /\ stuck' = FALSE /\ lock' = lock
      /\ \A lane \in Lanes : goal'[lane] = "any"
      /\ goal' \in [Lanes -> {"any", "on", "off"}]
  BY DEF Pull
<1>2. ASSUME NEW u \in Threads
      PROVE  /\ call'[u] \in Calls
             /\ call'[u].stage = call[u].stage /\ call'[u].at = call[u].at
             /\ call'[u].request = call[u].request
             /\ call'[u].lane = call[u].lane
             /\ call'[u].seen = call[u].seen
             /\ call'[u].source = call[u].source
             /\ call[u].stage = "transfer" => call'[u].swapped = TRUE
             /\ call[u].stage # "transfer" => call'[u] = call[u]
             /\ call[u].swapped => call'[u].swapped
  <2> DEFINE c == [call[u] EXCEPT !.swapped = TRUE]
  <2>1. /\ c \in Calls
        /\ c.stage = call[u].stage /\ c.at = call[u].at
        /\ c.request = call[u].request /\ c.lane = call[u].lane
        /\ c.seen = call[u].seen /\ c.source = call[u].source
        /\ c.swapped = TRUE
    BY CallType DEF Calls
  <2>2. call'[u] = IF call[u].stage = "transfer" THEN c ELSE call[u]
    BY DEF Pull
  <2> HIDE DEF c
  <2> QED
    BY <2>1, <2>2, CallType
<1>3. TypeOK'
  <2>1. call' \in [Threads -> Calls]
    <3>1. DOMAIN call' = Threads /\ call' = [u \in Threads |-> call'[u]]
      BY DEF Pull
    <3> QED
      BY <1>2, <3>1
  <2> QED
    BY <1>1, <2>1, NoModuleType DEF IInv, Structure, TypeOK
<1>4. Holding'
  BY <1>1, <1>2 DEF IInv, Structure, Holding
<1>5. InBounds'
  BY <1>2 DEF IInv, Structure, InBounds
<1>6. ModuleOK' /\ PageZero' /\ LaneGoals'
  BY <1>1, NoModuleType DEF ModuleOK, PageZero, LaneGoals
<1>7. ThresholdFromPageThree'
  BY <1>2 DEF IInv, ThresholdFromPageThree
<1>8. ASSUME NEW u \in Threads
      PROVE  PageSelected(u)' /\ BufferFresh(u)' /\ SeenPageZero(u)'
  BY <1>1, <1>2 DEF IInv, PageSelected, BufferFresh, SeenPageZero
<1> QED
  BY <1>3, <1>4, <1>5, <1>6, <1>7, <1>8 DEF IInv, Structure

LEMMA PlugInv ==
  ASSUME IInv, Plug
  PROVE  IInv'
<1>1. /\ ~module.plugged /\ module' \in Modules /\ module'.page = 0
      /\ module'.plugged /\ module'.off = {} /\ module.off = {}
      /\ stuck' = stuck /\ lock' = lock /\ call' = call /\ goal' = goal
  BY DEF Plug, IInv, ModuleOK
<1>2. Structure'
  BY <1>1 DEF IInv, Structure, TypeOK, Holding, InBounds
<1>3. ModuleOK' /\ PageZero' /\ LaneGoals'
  BY <1>1 DEF IInv, ModuleOK, PageZero, LaneGoals
<1>4. ThresholdFromPageThree'
  BY <1>1 DEF IInv, ThresholdFromPageThree
<1>5. ASSUME NEW u \in Threads
      PROVE  PageSelected(u)' /\ BufferFresh(u)' /\ SeenPageZero(u)'
  BY <1>1 DEF IInv, PageSelected, BufferFresh, SeenPageZero
<1> QED
  BY <1>2, <1>3, <1>4, <1>5 DEF IInv

LEMMA InitInv == Init => IInv
<1> SUFFICES ASSUME Init PROVE IInv
  OBVIOUS
<1>1. /\ module = NoModule /\ stuck = FALSE /\ lock = NoThread
      /\ \A t \in Threads : call[t] = Idle
      /\ call = [t \in Threads |-> Idle]
      /\ \A lane \in Lanes : goal[lane] = "any"
      /\ goal \in [Lanes -> {"any", "on", "off"}]
  BY DEF Init
<1>2. TypeOK
  BY <1>1, NoModuleType, IdleType DEF TypeOK
<1>3. Holding
  BY <1>1, IdleType, ThreadAssumption DEF Holding
<1>4. InBounds
  <2>1. Len(Idle.request) = 0 /\ Idle.request \notin TxControl
    BY IdleType
  <2>2. Idle.at = 1 /\ ~Idle.swapped /\ 1 <= Len(Idle.request) + 1
    BY <2>1, IdleType
  <2> QED
    BY <1>1, <2>1, <2>2 DEF InBounds
<1>5. ModuleOK /\ PageZero /\ LaneGoals
  BY <1>1, NoModuleType DEF ModuleOK, PageZero, LaneGoals
<1>6. ThresholdFromPageThree
  BY <1>1, IdleType DEF ThresholdFromPageThree
<1>7. ASSUME NEW u \in Threads
      PROVE  PageSelected(u) /\ BufferFresh(u) /\ SeenPageZero(u)
  BY <1>1, IdleType DEF PageSelected, BufferFresh, SeenPageZero
<1> QED
  BY <1>2, <1>3, <1>4, <1>5, <1>6, <1>7 DEF IInv, Structure

LEMMA StepInv == IInv /\ [Next]_vars => IInv'
<1> SUFFICES ASSUME IInv, [Next]_vars PROVE IInv'
  OBVIOUS
<1>1. ASSUME NEW t \in Threads,
             Start(t) \/ Select(t) \/ Transact(t) \/ Deselect(t)
      PROVE  IInv'
  BY <1>1, StartInv, SelectInv, TransactInv, DeselectInv
<1>2. CASE UNCHANGED vars
  <2>1. /\ module' = module /\ stuck' = stuck /\ lock' = lock
        /\ call' = call /\ goal' = goal
    BY <1>2 DEF vars
  <2>2. Structure' /\ ModuleOK' /\ PageZero' /\ LaneGoals'
    BY <2>1 DEF IInv, Structure, TypeOK, Holding, InBounds, ModuleOK,
                PageZero, LaneGoals
  <2>3. ThresholdFromPageThree'
    BY <2>1 DEF IInv, ThresholdFromPageThree
  <2>4. ASSUME NEW u \in Threads
        PROVE  PageSelected(u)' /\ BufferFresh(u)' /\ SeenPageZero(u)'
    BY <2>1 DEF IInv, PageSelected, BufferFresh, SeenPageZero
  <2> QED
    BY <2>2, <2>3, <2>4 DEF IInv
<1> QED
  BY <1>1, <1>2, PullInv, PlugInv DEF Next

LEMMA Inductive == Spec => []IInv
  BY InitInv, StepInv, PTL DEF Spec

-----------------------------------------------------------------------------
(* The theorems                                                            *)

\* Every reachable state has the types of TypeOK; in particular no call goes
\* past the transaction after its last one.
THEOREM TypeCorrect == Spec => []TypeOK
<1>1. IInv => TypeOK
  BY DEF IInv, Structure
<1> QED
  BY <1>1, Inductive, PTL

\* sdi_qsfp_threshold_get, whatever fails on its way, leaves page 0 selected,
\* except when the selection of page 0 itself fails.
THEOREM PageZeroCorrect == Spec => []PageZero
<1>1. IInv => PageZero
  BY DEF IInv
<1> QED
  BY <1>1, Inductive, PTL

\* What calls return about the module was read from page 0, however they
\* interleave with threads that read thresholds.
THEOREM InfoCorrect == Spec => []InfoFromPageZero
<1>1. IInv => InfoFromPageZero
  BY DEF IInv, SeenPageZero, InfoFromPageZero
<1> QED
  BY <1>1, Inductive, PTL

\* A threshold is read from page 3.
THEOREM ThresholdCorrect == Spec => []ThresholdFromPageThree
<1>1. IInv => ThresholdFromPageThree
  BY DEF IInv
<1> QED
  BY <1>1, Inductive, PTL

\* A lane that was switched with success stays as it is whatever other threads
\* switch.
THEOREM LanesCorrect == Spec => []LaneGoals
<1>1. IInv => LaneGoals
  BY DEF IInv
<1> QED
  BY <1>1, Inductive, PTL

\* A call of sdi_qsfp_tx_control, also one whose write fails, changes no lane
\* but its own.
THEOREM LanesApart == Spec => OtherLanesKept
<1>1. IInv /\ [Next]_vars =>
        [\A t \in Threads, lane \in Lanes :
           /\ Transferring(t, "setTx")
           /\ call'[t].at # call[t].at
           /\ lane # call[t].lane
           /\ ~call[t].swapped
           => (lane \in module'.off <=> lane \in module.off)]_vars
  <2> SUFFICES ASSUME IInv, Next,
                      NEW t \in Threads, NEW lane \in Lanes,
                      Transferring(t, "setTx"), call'[t].at # call[t].at,
                      lane # call[t].lane, ~call[t].swapped
               PROVE  lane \in module'.off <=> lane \in module.off
    OBVIOUS
  <2>1. Busy(t) /\ Kind(t) = "setTx" /\ call[t].stage = "transfer"
    BY AtKind DEF Busy
  <2>2. lock = t /\ \A u \in Threads : u # t => call[u].stage # "transfer"
    BY <2>1, BusyType DEF IInv
  <2>3. ~Pull /\ ~Plug
    <3>1. Plug => call' = call
      BY DEF Plug
    <3>2. Pull => call'[t] = [call[t] EXCEPT !.swapped = TRUE]
      BY <2>1 DEF Pull
    <3>3. [call[t] EXCEPT !.swapped = TRUE].at = call[t].at
      BY CallType DEF Calls
    <3> QED
      BY <3>1, <3>2, <3>3
  <2>4. PICK u \in Threads : Start(u) \/ Select(u) \/ Transact(u) \/ Deselect(u)
    BY <2>3 DEF Next
  <2>5. ~Start(u) /\ ~Select(u)
    <3>1. Start(u) => UNCHANGED module
      BY DEF Start
    <3>2. ~Select(u)
      BY <2>2, ThreadAssumption DEF Select
    <3>3. Start(u) => u # t
      BY <2>1 DEF Start
    <3>4. Start(u) => call'[t] = call[t]
      BY <3>3 DEF Start, IInv, Structure, TypeOK
    <3> QED
      BY <3>2, <3>4
  <2>6. u = t
    <3>1. Transact(u) \/ Deselect(u) => call[u].stage = "transfer"
      BY DEF Transact, Deselect, Done, Transferring, ReadLower, ReadUpper, FindKey,
             ReadOptions, ReadTx, WriteTx, TestPaging, SelectPage, ReadThreshold,
             BusError
    <3> QED
      BY <2>2, <2>4, <2>5, <3>1
  <2>7. CASE Deselect(t)
    BY <2>7 DEF Deselect
  <2>8. CASE WriteTx(t)
    <3>1. module' = [module EXCEPT !.off = NewTx(t)] /\ NewTx(t) \in SUBSET Lanes
      BY <2>1, <2>8, NewTxLanes DEF WriteTx
    <3>2. module'.off = NewTx(t)
      BY <3>1, NewOff
    <3> QED
      BY <2>1, <3>2, NewTxLanes
  <2>9. CASE BusError(t)
    <3>1. module'.off \in {module.off, NewTx(t)}
      BY <2>9, FailureFacts
    <3> QED
      BY <2>1, <3>1, NewTxLanes
  <2>10. CASE Transact(t) /\ ~WriteTx(t) /\ ~BusError(t)
    <3>1. \A kind : Transferring(t, kind) => kind = "setTx"
      BY <2>1 DEF Transferring, Kind
    <3> QED
      BY <2>10, <3>1 DEF Transact, ReadLower, ReadUpper, FindKey, ReadOptions,
                         ReadTx, TestPaging, SelectPage, ReadThreshold
  <2> QED
    BY <2>4, <2>5, <2>6, <2>7, <2>8, <2>9, <2>10
<1> QED
  BY <1>1, Inductive, PTL DEF Spec, OtherLanesKept
-----------------------------------------------------------------------------
(* Selection                                                               *)

\* The mutex of the module is an instance of the selection of modules: a call
\* makes its transactions alone, for any threads.
THEOREM SelectionImplemented == Spec => ImplementsModuleSelection
<1> DEFINE Users == {t \in Threads : call[t].stage = "transfer"}
           users == [m \in {"module"} |-> Users]
<1>1. Init => Selection!Init
  BY DEF Init, Idle, Selection!Init
<1>2. IInv /\ IInv' /\ [Next]_vars => [Selection!Next]_users
  <2> SUFFICES ASSUME IInv, IInv', [Next]_vars, users' # users
               PROVE  Selection!Next
    OBVIOUS
  <2>1. Users = {t \in Threads : lock = t} /\ Users' = {t \in Threads : lock' = t}
    BY DEF IInv, Structure, Holding
  <2>2. users' = [m \in {"module"} |-> Users']
    OBVIOUS
  <2>3. lock' # lock /\ lock \in Threads \cup {NoThread}
        /\ lock' \in Threads \cup {NoThread}
    BY <2>1, <2>2 DEF IInv, Structure, TypeOK
  <2>4. lock = NoThread \/ lock' = NoThread
    <3>1. ASSUME NEW t \in Threads, Transact(t) PROVE lock' \in {lock, NoThread}
      BY <3>1 DEF Transact, ReadLower, ReadUpper, FindKey, ReadOptions, ReadTx,
         WriteTx, TestPaging, SelectPage, ReadThreshold, BusError
    <3>2. ASSUME NEW t \in Threads, Start(t) \/ Select(t) \/ Deselect(t)
          PROVE  lock = NoThread \/ lock' \in {lock, NoThread}
      BY <3>2 DEF Start, Select, Deselect
    <3> QED
      BY <2>3, <3>1, <3>2 DEF Next, Pull, Plug, vars
  <2>5. CASE lock = NoThread
    <3>1. Users = {} /\ lock' \in Threads /\ Users' = {lock'}
      BY <2>1, <2>3, <2>5, ThreadAssumption
    <3>2. Selection!Enter(lock', "module")
      BY <2>2, <3>1 DEF Selection!Enter
    <3> QED
      BY <3>1, <3>2 DEF Selection!Next
  <2>6. CASE lock' = NoThread
    <3>1. Users' = {} /\ lock \in Threads /\ Users = {lock}
      BY <2>1, <2>3, <2>6, ThreadAssumption
    <3>2. Selection!Leave(lock, "module")
      BY <2>2, <3>1 DEF Selection!Leave
    <3> QED
      BY <3>1, <3>2 DEF Selection!Next
  <2> QED
    BY <2>4, <2>5, <2>6
<1> QED
  BY <1>1, <1>2, Inductive, PTL
  DEF Spec, ImplementsModuleSelection, Selection!Spec
==============================================================================
