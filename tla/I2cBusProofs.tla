----------------------------- MODULE I2cBusProofs -----------------------------
(***************************************************************************)
(* Proofs about I2cBus for all threads, chips, registers and calls.        *)
(*                                                                         *)
(* Types, mutexes and PEC hold for every group of pins.  The channel, and  *)
(* with it the file of registers, need a group of at most two pins, where  *)
(* the mask that sdi_gpio_group_level_write computes is a single bit.      *)
(***************************************************************************)
EXTENDS I2cBus, TLAPS

\* The largest group whose level is written as it was asked.
AtMostTwoPins == GpioCnt <= 2

-----------------------------------------------------------------------------
(* The inductive invariant.                                                *)

BusPCs == {"slave", "pec on", "transfer", "pec off", "release"}

\* Call c is behind the multiplexer; it has the bus; it has the multiplexer.
Behind(c) == Place[c.request.chip] # Parent
HasBus(c) == c.pc \in BusPCs
HasMux(c) ==
  \/ c.pc \in {"pins", "release mux"}
  \/ c.pc \in BusPCs \cup {"bus"} /\ Behind(c)

\* No call runs before the pins are initialised.
Quiet == boot.step # "ready" => \A t \in Threads : call[t] = Idle

\* What a call is about, and that it succeeds only after it has had its effect.
AskedOf(t) ==
  /\ call[t].pc = "idle" => call[t] = Idle
  /\ call[t].pc # "idle" => call[t].request \in Requests
  /\ call[t].pc \in {"mux", "pins", "release mux"} => Muxed(t)
  /\ call[t].pc \in {"mux", "pins", "bus", "slave", "pec on"} => ~call[t].done
  /\ call[t].ok => call[t].done
Asked == \A t \in Threads : AskedOf(t)

Owners ==
  \A t \in Threads : (busLock = t <=> HasBus(call[t])) /\ (muxLock = t <=> HasMux(call[t]))

\* The kernel inverts the pins whose polarity has been set if the board does.
PolaritySet(b, p) == b.step = "ready" \/ (b.step = "polarity" /\ p < b.pin)
Polarity == \A p \in PinIndex : PolaritySet(boot, p) => (p \in active_low <=> inverted)

\* The pins that call c has written show the channel of its chip, when those
\* in d are driven high.
Written(c, p) ==
  \/ c.pc = "pins" /\ p < c.pin
  \/ c.pc \in BusPCs \cup {"bus"} /\ Behind(c)
SelectedOf(c, d) ==
  \A p \in PinIndex :
    Written(c, p) => (((p \in d) # inverted) <=> Bit(p) \in Place[c.request.chip])
Selected == \A t \in Threads : SelectedOf(call[t], driven)

\* PEC is on from "pec on" to "pec off" of a call that asks for it.
PecKept ==
  ~stuck =>
    /\ busLock = NoThread => ~pec
    /\ \A t \in Threads :
         /\ call[t].pc \in {"slave", "pec on", "release"} => ~pec
         /\ call[t].pc = "transfer" => (pec <=> Chip(t) \in Pec)

Addressed ==
  \A t \in Threads :
    /\ call[t].pc \in {"pec on", "pec off"} => Chip(t) \in Pec
    /\ call[t].pc \in {"pec on", "transfer"} => slave = Address[Chip(t)]

\* A call that tries its transfer again finds its chip as the transfer left it.
Repeatable ==
  \A t \in Threads :
    LET r == call[t].request
    IN call[t].pc = "transfer" /\ call[t].done /\ r.kind # "receive" =>
         /\ counter[r.chip] = (r.reg + 1) % Registers
         /\ IF r.kind = "write" THEN memory[r.chip][r.reg] = r.val
            ELSE call[t].data = memory[r.chip][r.reg]

Inv == Quiet /\ Asked /\ Owners /\ Polarity /\ PecKept /\ Addressed

-----------------------------------------------------------------------------
(* Types.                                                                  *)

\* The first pin exists, and every pin but the last has a next one.
LEMMA PinFacts ==
  /\ GpioCnt \in Nat \ {0} /\ 0 \in PinIndex
  /\ \A p \in PinIndex : p < GpioCnt - 1 => p + 1 \in PinIndex
BY BusAssumption DEF PinIndex

LEMMA RequestFacts ==
  ASSUME NEW r \in Requests
  PROVE  /\ r.kind \in {"read", "write", "receive"} /\ r.chip \in Chips
         /\ r.reg \in 0..Registers-1 /\ r.val \in Values
         /\ r # NoRequest
<1>1. r \in [kind : {"read", "write", "receive"}, chip : Chips,
             reg : 0..Registers-1, val : Values]
  BY FileAssumption
<1>2. r.kind # NoRequest.kind
  BY <1>1 DEF NoRequest
<1> QED
  BY <1>1, <1>2

\* The next value of an address counter.
LEMMA CounterType ==
  ASSUME NEW n \in 0..Registers-1
  PROVE  (n + 1) % Registers \in 0..Registers-1
BY FileAssumption

LEMMA IdleType == Idle \in Calls
<1>1. SDI_MAX_IIC_RETRY \in Nat /\ 0 \in Values
  BY BusAssumption, FileAssumption
<1> QED
  BY <1>1, PinFacts DEF Idle, Calls, PCs

LEMMA TypeInit == Init => TypeOK
<1> SUFFICES ASSUME Init PROVE TypeOK
  OBVIOUS
<1>1. memory \in [Chips -> [0..Registers-1 -> Values]]
  BY BusAssumption DEF Init
<1>2. 0 \in 0..Registers-1
  BY FileAssumption
<1> QED
  BY <1>1, <1>2, PinFacts, IdleType DEF Init, TypeOK

\* The initialisation of the pins.
LEMMA BootType ==
  ASSUME TypeOK, Initialise
  PROVE  TypeOK'
<1>1. boot.pin \in PinIndex /\ boot.step \in {"export", "direction", "level", "polarity",
                                              "ready", "failed"}
  BY DEF TypeOK
<1>2. ASSUME Advance, boot.step \in {"export", "direction", "level", "polarity"}
      PROVE  boot' \in [step : {"export", "direction", "level", "polarity", "ready", "failed"},
                        pin : PinIndex]
  <2>1. Following(boot.step) \in {"direction", "level", "polarity", "ready"}
    BY <1>2 DEF Following
  <2> QED
    BY <1>1, <1>2, <2>1, PinFacts DEF Advance, TypeOK
<1>3. CASE Export
  BY <1>1, <1>2, <1>3 DEF Export, Initialise, TypeOK, chips, bus
<1>4. CASE SetDirection
  BY <1>1, <1>2, <1>4 DEF SetDirection, Initialise, TypeOK, chips, bus
<1>5. CASE SetLevel
  BY <1>1, <1>2, <1>5 DEF SetLevel, Drive, Initialise, TypeOK, chips, bus
<1>6. CASE SetPolarity
  BY <1>1, <1>2, <1>6 DEF SetPolarity, Initialise, TypeOK, chips, bus
<1>7. CASE BootFails
  BY <1>1, <1>7 DEF BootFails, Initialise, TypeOK, chips, bus
<1> QED
  BY <1>3, <1>4, <1>5, <1>6, <1>7 DEF Initialise

\* A transfer keeps the chips a file of registers.
LEMMA EffectType ==
  ASSUME TypeOK, NEW t \in Threads, call[t].request \in Requests, Effect(t)
  PROVE  /\ memory' \in [Chips -> [0..Registers-1 -> Values]]
         /\ counter' \in [Chips -> 0..Registers-1]
         /\ \A c \in Chips : DataRead(t, c) \in Values
<1> DEFINE r == call[t].request
<1>1. r.reg \in 0..Registers-1 /\ r.val \in Values
  BY RequestFacts
<1>2. \A c \in Chips : Register(c, r) \in 0..Registers-1
  BY <1>1 DEF Register, TypeOK
<1>3. \A c \in Chips : (Register(c, r) + 1) % Registers \in 0..Registers-1
  BY <1>2, CounterType
<1>4. call[t].data \in Values
  BY DEF TypeOK, Calls
<1> HIDE DEF r
<1>5. memory' \in [Chips -> [0..Registers-1 -> Values]]
  BY <1>1 DEF Effect, TypeOK, r
<1>6. counter' \in [Chips -> 0..Registers-1]
  BY <1>3 DEF Effect, TypeOK, r
<1>7. ASSUME NEW c \in Chips PROVE DataRead(t, c) \in Values
  <2>1. memory[c] \in [0..Registers-1 -> Values]
    BY DEF TypeOK
  <2>2. memory[c][Register(c, r)] \in Values
    BY <1>2, <2>1
  <2> QED
    BY <1>4, <2>2 DEF DataRead, r
<1> QED
  BY <1>5, <1>6, <1>7

\* A call that goes on somewhere else.
LEMMA CallType ==
  ASSUME TypeOK, NEW t \in Threads, NEW p \in PCs, NEW n \in 0..SDI_MAX_IIC_RETRY
  PROVE  [call EXCEPT ![t].pc = p, ![t].left = n] \in [Threads -> Calls]
BY DEF TypeOK, Calls

LEMMA RetryType ==
  ASSUME TypeOK, NEW t \in Threads
  PROVE  Retry(t).pc \in {"transfer", "pec off", "release"}
         /\ Retry(t).left \in 0..SDI_MAX_IIC_RETRY
<1>1. call[t].left \in 0..SDI_MAX_IIC_RETRY /\ SDI_MAX_IIC_RETRY \in Nat
  BY BusAssumption DEF TypeOK, Calls
<1> QED
  BY <1>1 DEF Retry, AfterTransfer

LEMMA ProceedType ==
  ASSUME TypeOK, Asked, NEW t \in Threads, Proceed(t)
  PROVE  TypeOK'
<1> USE DEF TypeOK, chips, pins, bus
<1>1. call[t] \in Calls /\ SDI_MAX_IIC_RETRY \in Nat
  BY BusAssumption
<1>2. call[t].pc # "idle" => call[t].request \in Requests /\ Chip(t) \in Chips
  BY RequestFacts DEF Asked, AskedOf, Chip
<1>3. CASE TakeMux(t)
  BY <1>1, <1>3, PinFacts DEF TakeMux, Calls, PCs
<1>4. CASE WritePin(t)
  BY <1>1, <1>4, PinFacts DEF WritePin, Calls, PCs, Drive
<1>5. CASE PinFails(t)
  BY <1>1, <1>5, PinFacts DEF PinFails, Calls, PCs
<1>6. CASE TakeBus(t)
  BY <1>1, <1>6 DEF TakeBus, Goto, Calls, PCs
<1>7. CASE SetSlave(t)
  <2>1. slave' \in {Address[c] : c \in Chips}
    BY <1>2, <1>7 DEF SetSlave
  <2>2. PICK p \in PCs : call' = [call EXCEPT ![t].pc = p, ![t].left = SDI_MAX_IIC_RETRY]
    BY <1>7 DEF SetSlave, PCs
  <2>3. call' \in [Threads -> Calls]
    <3>1. SDI_MAX_IIC_RETRY \in 0..SDI_MAX_IIC_RETRY
      BY <1>1
    <3> QED
      BY <2>2, <3>1, CallType
  <2> QED
    BY <1>7, <2>1, <2>3 DEF SetSlave
<1>8. CASE PecOn(t)
  BY <1>1, <1>8 DEF PecOn, Goto, Calls, PCs
<1>9. CASE SetFails(t)
  <2>1. "release" \in PCs /\ 0 \in 0..SDI_MAX_IIC_RETRY
    BY <1>1 DEF PCs
  <2>2. call' \in [Threads -> Calls]
    BY <1>9, <2>1, CallType DEF SetFails
  <2> QED
    BY <1>9, <2>2 DEF SetFails
<1>10. CASE Transfer(t)
  <2>1. call[t].request \in Requests /\ Effect(t)
    BY <1>2, <1>10 DEF Transfer
  <2>2. PICK c \in Chips :
          call' = [call EXCEPT ![t].pc = AfterTransfer(t, TRUE), ![t].left = 0,
                               ![t].ok = TRUE, ![t].done = TRUE,
                               ![t].data = DataRead(t, c)]
    BY <1>10 DEF Transfer, Answering
  <2>3. DataRead(t, c) \in Values
    BY <2>1, EffectType
  <2>4. call' \in [Threads -> Calls]
    <3>1. AfterTransfer(t, TRUE) \in PCs /\ 0 \in 0..SDI_MAX_IIC_RETRY
      BY <1>1 DEF AfterTransfer, PCs
    <3> QED
      BY <1>1, <2>2, <2>3, <3>1 DEF Calls
  <2> QED
    BY <1>10, <2>1, <2>4, EffectType DEF Transfer
<1>11. CASE TransferFails(t)
  <2>1. call[t].request \in Requests
    BY <1>2, <1>11 DEF TransferFails
  <2>2. Retry(t).pc \in PCs /\ Retry(t).left \in 0..SDI_MAX_IIC_RETRY
    BY RetryType DEF PCs
  <2>3. CASE UNCHANGED chips /\ call' = [call EXCEPT ![t].pc = Retry(t).pc, ![t].left = Retry(t).left]
    BY <1>1, <1>11, <2>2, <2>3 DEF TransferFails, Calls
  <2>4. CASE /\ Effect(t)
             /\ \E c \in Answering :
                  call' = [call EXCEPT ![t].pc = Retry(t).pc, ![t].left = Retry(t).left,
                                       ![t].done = TRUE, ![t].data = DataRead(t, c)]
    <3>1. PICK c \in Chips :
            call' = [call EXCEPT ![t].pc = Retry(t).pc, ![t].left = Retry(t).left,
                                 ![t].done = TRUE, ![t].data = DataRead(t, c)]
      BY <2>4 DEF Answering
    <3>2. DataRead(t, c) \in Values
      BY <2>1, <2>4, EffectType
    <3>3. call' \in [Threads -> Calls]
      BY <1>1, <2>2, <3>1, <3>2 DEF Calls
    <3> QED
      BY <1>11, <2>1, <2>4, <3>3, EffectType DEF TransferFails
  <2> QED
    BY <1>11, <2>3, <2>4 DEF TransferFails
<1>12. CASE PecOff(t)
  <2>1. PICK ok \in BOOLEAN :
          /\ pec' = (pec /\ ~ok) /\ stuck' = ~ok
          /\ call' = [call EXCEPT ![t].pc = "release", ![t].ok = @ /\ ok]
    BY <1>12 DEF PecOff
  <2>2. "release" \in PCs /\ (call[t].ok /\ ok) \in BOOLEAN
    BY DEF PCs
  <2>3. call' \in [Threads -> Calls]
    BY <1>1, <2>1, <2>2 DEF Calls
  <2>4. pec' \in BOOLEAN /\ stuck' \in BOOLEAN
    BY <2>1
  <2> QED
    BY <1>12, <2>3, <2>4 DEF PecOff
<1>13. CASE Release(t)
  BY <1>1, <1>13 DEF Release, Goto, Calls, PCs
<1>14. CASE ReleaseMux(t)
  BY <1>1, <1>14 DEF ReleaseMux, Goto, Calls, PCs
<1>15. CASE Return(t)
  BY <1>1, <1>15, IdleType DEF Return
<1> QED
  BY <1>3, <1>4, <1>5, <1>6, <1>7, <1>8, <1>9, <1>10, <1>11, <1>12, <1>13, <1>14, <1>15
  DEF Proceed

LEMMA TypeStep == TypeOK /\ Asked /\ [Next]_vars => TypeOK'
<1> SUFFICES ASSUME TypeOK, Asked, [Next]_vars PROVE TypeOK'
  OBVIOUS
<1>1. CASE Initialise
  BY <1>1, BootType
<1>2. ASSUME NEW t \in Threads, Proceed(t) PROVE TypeOK'
  BY <1>2, ProceedType
<1>3. ASSUME NEW t \in Threads, NEW r \in Requests, Start(t, r) PROVE TypeOK'
  <2>1. PICK p \in PCs : call' = [call EXCEPT ![t].request = r, ![t].pc = p]
    BY <1>3 DEF Start, PCs
  <2>2. call' \in [Threads -> Calls]
    BY <2>1 DEF TypeOK, Calls
  <2> QED
    BY <1>3, <2>2 DEF Start, TypeOK, chips, pins, bus
<1>4. CASE Restart
  BY <1>4, PinFacts, IdleType DEF Restart, TypeOK, chips
<1>5. CASE UNCHANGED vars
  BY <1>5 DEF vars, TypeOK, chips, pins, bus
<1> QED
  BY <1>1, <1>2, <1>3, <1>4, <1>5 DEF Next

-----------------------------------------------------------------------------
(* Where a step leaves the calls.                                          *)

\* Thread t goes on at p, the other calls stay where they are.
GoesTo(t, p) ==
  /\ call'[t].pc = p /\ call'[t].request = call[t].request
  /\ \A u \in Threads \ {t} : call'[u] = call[u]

\* Its result stays what it is.
SameButOk(t) == call'[t].done = call[t].done /\ call'[t].data = call[t].data
SameResult(t) == call'[t].ok = call[t].ok /\ SameButOk(t)

LEMMA AfterStart ==
  ASSUME TypeOK, NEW t \in Threads, NEW r \in Requests, Start(t, r)
  PROVE  /\ call'[t].pc = IF Place[r.chip] = Parent THEN "bus" ELSE "mux"
         /\ call'[t].request = r /\ ~call'[t].ok /\ ~call'[t].done
         /\ \A u \in Threads \ {t} : call'[u] = call[u]
<1>1. call[t] \in Calls /\ ~call[t].ok /\ ~call[t].done
  BY DEF TypeOK, Start, Idle
<1> QED
  BY <1>1 DEF Start, TypeOK, Calls

LEMMA Gone ==
  ASSUME TypeOK, NEW t \in Threads, NEW p, NEW n,
         \/ call' = [call EXCEPT ![t].pc = p]
         \/ call' = [call EXCEPT ![t].pc = p, ![t].left = n]
         \/ call' = [call EXCEPT ![t].pc = p, ![t].pin = n]
  PROVE  GoesTo(t, p) /\ SameResult(t)
<1>1. call[t] \in Calls /\ call \in [Threads -> Calls]
  BY DEF TypeOK
<1>2. CASE call' = [call EXCEPT ![t].pc = p]
  BY <1>1, <1>2 DEF GoesTo, SameResult, SameButOk, Calls
<1>3. CASE call' = [call EXCEPT ![t].pc = p, ![t].left = n]
  BY <1>1, <1>3 DEF GoesTo, SameResult, SameButOk, Calls
<1>4. CASE call' = [call EXCEPT ![t].pc = p, ![t].pin = n]
  BY <1>1, <1>4 DEF GoesTo, SameResult, SameButOk, Calls
<1> QED
  BY <1>2, <1>3, <1>4

LEMMA AfterMux ==
  ASSUME TypeOK, NEW t \in Threads
  PROVE  /\ TakeMux(t) => GoesTo(t, "pins") /\ SameResult(t) /\ call'[t].pin = 0
         /\ WritePin(t) =>
              /\ SameResult(t)
              /\ IF call[t].pin < GpioCnt - 1
                 THEN GoesTo(t, "pins") /\ call'[t].pin = call[t].pin + 1
                 ELSE GoesTo(t, "bus")
         /\ PinFails(t) => GoesTo(t, "release mux") /\ SameResult(t)
         /\ ReleaseMux(t) => GoesTo(t, "answered") /\ SameResult(t)
<1>1. call[t] \in Calls /\ call \in [Threads -> Calls]
  BY DEF TypeOK
<1>2. TakeMux(t) => GoesTo(t, "pins") /\ SameResult(t) /\ call'[t].pin = 0
  <2> SUFFICES ASSUME TakeMux(t) PROVE GoesTo(t, "pins") /\ SameResult(t) /\ call'[t].pin = 0
    OBVIOUS
  <2>1. call' = [call EXCEPT ![t].pc = "pins", ![t].pin = 0]
    BY DEF TakeMux
  <2>2. call'[t].pin = 0
    BY <1>1, <2>1 DEF Calls
  <2> QED
    BY <2>1, <2>2, Gone
<1>3. ASSUME WritePin(t), call[t].pin < GpioCnt - 1
      PROVE  GoesTo(t, "pins") /\ SameResult(t) /\ call'[t].pin = call[t].pin + 1
  BY <1>1, <1>3 DEF WritePin, GoesTo, SameResult, SameButOk, Calls
<1>4. ASSUME WritePin(t), ~(call[t].pin < GpioCnt - 1)
      PROVE  GoesTo(t, "bus") /\ SameResult(t)
  BY <1>4, Gone DEF WritePin
<1>5. PinFails(t) => GoesTo(t, "release mux") /\ SameResult(t)
  BY Gone DEF PinFails
<1>6. ReleaseMux(t) => GoesTo(t, "answered") /\ SameResult(t)
  BY Gone DEF ReleaseMux, Goto
<1> QED
  BY <1>2, <1>3, <1>4, <1>5, <1>6

LEMMA AfterBus ==
  ASSUME TypeOK, NEW t \in Threads
  PROVE  /\ TakeBus(t) => GoesTo(t, "slave") /\ SameResult(t)
         /\ SetSlave(t) =>
              /\ SameResult(t)
              /\ GoesTo(t, IF Chip(t) \in Pec THEN "pec on" ELSE "transfer")
         /\ PecOn(t) => GoesTo(t, "transfer") /\ SameResult(t)
         /\ SetFails(t) => GoesTo(t, "release") /\ SameResult(t)
         /\ PecOff(t) => /\ GoesTo(t, "release")
                         /\ call'[t].ok => call[t].ok
                         /\ SameButOk(t)
         /\ Release(t) =>
              /\ SameResult(t)
              /\ GoesTo(t, IF Muxed(t) THEN "release mux" ELSE "answered")
<1>1. call[t] \in Calls /\ call \in [Threads -> Calls]
  BY DEF TypeOK
<1>2. TakeBus(t) => GoesTo(t, "slave") /\ SameResult(t)
  BY Gone DEF TakeBus, Goto
<1>3. ASSUME SetSlave(t)
      PROVE  SameResult(t) /\ GoesTo(t, IF Chip(t) \in Pec THEN "pec on" ELSE "transfer")
  BY <1>3, Gone DEF SetSlave
<1>4. PecOn(t) => GoesTo(t, "transfer") /\ SameResult(t)
  BY Gone DEF PecOn, Goto
<1>5. SetFails(t) => GoesTo(t, "release") /\ SameResult(t)
  BY Gone DEF SetFails
<1>6. ASSUME PecOff(t)
      PROVE  /\ GoesTo(t, "release") /\ (call'[t].ok => call[t].ok)
             /\ SameButOk(t)
  <2>1. PICK ok \in BOOLEAN :
          call' = [call EXCEPT ![t].pc = "release", ![t].ok = @ /\ ok]
    BY <1>6 DEF PecOff
  <2>2. GoesTo(t, "release") /\ SameButOk(t)
    BY <1>1, <2>1 DEF GoesTo, SameButOk, Calls
  <2>3. call'[t].ok = (call[t].ok /\ ok)
    BY <1>1, <2>1 DEF Calls
  <2> QED
    BY <2>2, <2>3 DEF SameButOk
<1>7. ASSUME Release(t)
      PROVE  SameResult(t) /\ GoesTo(t, IF Muxed(t) THEN "release mux" ELSE "answered")
  BY <1>7, Gone DEF Release, Goto
<1> QED
  BY <1>2, <1>3, <1>4, <1>5, <1>6, <1>7

LEMMA AfterTransferStep ==
  ASSUME TypeOK, NEW t \in Threads
  PROVE  /\ Transfer(t) => /\ GoesTo(t, AfterTransfer(t, TRUE))
                           /\ call'[t].ok /\ call'[t].done
         /\ TransferFails(t) => /\ GoesTo(t, Retry(t).pc)
                                /\ call'[t].ok = call[t].ok
                                /\ call[t].done => call'[t].done
<1> USE DEF GoesTo
<1>1. call[t] \in Calls /\ call \in [Threads -> Calls]
  BY DEF TypeOK
<1>2. ASSUME Transfer(t)
      PROVE  GoesTo(t, AfterTransfer(t, TRUE)) /\ call'[t].ok /\ call'[t].done
  BY <1>1, <1>2 DEF Transfer, Calls
<1>3. ASSUME TransferFails(t)
      PROVE  /\ GoesTo(t, Retry(t).pc) /\ call'[t].ok = call[t].ok
             /\ call[t].done => call'[t].done
  BY <1>1, <1>3 DEF TransferFails, Calls
<1> QED
  BY <1>2, <1>3

\* The calls of the others.
LEMMA Others ==
  ASSUME NEW t, NEW u, call'[u] = call[u]
  PROVE  /\ Chip(u)' = Chip(u) /\ Muxed(u)' = Muxed(u)
         /\ AskedOf(u)' = AskedOf(u)
BY DEF Chip, Muxed, AskedOf

\* A step of thread t leaves the calls of the others alone.
LEMMA OthersStay ==
  ASSUME TypeOK, NEW t \in Threads, Proceed(t)
  PROVE  \A u \in Threads \ {t} : call'[u] = call[u]
<1>1. ASSUME Return(t) PROVE \A u \in Threads \ {t} : call'[u] = call[u]
  BY <1>1 DEF Return, TypeOK
<1> QED
  BY <1>1, AfterMux, AfterBus, AfterTransferStep DEF Proceed, GoesTo

LEMMA Stays ==
  ASSUME NEW t, NEW p, GoesTo(t, p)
  PROVE  Chip(t)' = Chip(t) /\ Muxed(t)' = Muxed(t)
BY DEF GoesTo, Chip, Muxed

LEMMA AskedProceed ==
  ASSUME TypeOK, Asked, NEW t \in Threads, Proceed(t)
  PROVE  AskedOf(t)'
<1> USE DEF AskedOf
<1>1. AskedOf(t)
  BY DEF Asked
<1>2. CASE TakeMux(t)
  BY <1>1, <1>2, AfterMux, Stays DEF TakeMux, GoesTo, SameResult, SameButOk
<1>3. CASE WritePin(t)
  BY <1>1, <1>3, AfterMux, Stays DEF WritePin, GoesTo, SameResult, SameButOk
<1>4. CASE PinFails(t)
  BY <1>1, <1>4, AfterMux, Stays DEF PinFails, GoesTo, SameResult, SameButOk
<1>5. CASE TakeBus(t)
  BY <1>1, <1>5, AfterBus, Stays DEF TakeBus, GoesTo, SameResult, SameButOk
<1>6. CASE SetSlave(t)
  <2>1. /\ call[t].pc = "slave"
        /\ GoesTo(t, IF Chip(t) \in Pec THEN "pec on" ELSE "transfer") /\ SameResult(t)
    BY <1>6, AfterBus DEF SetSlave
  <2>2. call'[t].pc \in {"pec on", "transfer"}
    BY <2>1 DEF GoesTo
  <2> QED
    BY <1>1, <2>1, <2>2 DEF GoesTo, SameResult, SameButOk
<1>7. CASE PecOn(t)
  BY <1>1, <1>7, AfterBus, Stays DEF PecOn, GoesTo, SameResult, SameButOk
<1>8. CASE SetFails(t)
  BY <1>1, <1>8, AfterBus, Stays DEF SetFails, GoesTo, SameResult, SameButOk
<1>9. CASE Transfer(t)
  BY <1>1, <1>9, AfterTransferStep, Stays DEF Transfer, GoesTo, AfterTransfer
<1>10. CASE TransferFails(t)
  <2>1. Retry(t).pc \in {"transfer", "pec off", "release"}
    BY RetryType
  <2> QED
    BY <1>1, <1>10, <2>1, AfterTransferStep, Stays DEF TransferFails, GoesTo
<1>11. CASE PecOff(t)
  BY <1>1, <1>11, AfterBus, Stays DEF PecOff, GoesTo, SameButOk
<1>12. CASE Release(t)
  BY <1>1, <1>12, AfterBus, Stays DEF Release, GoesTo, SameResult, SameButOk
<1>13. CASE ReleaseMux(t)
  BY <1>1, <1>13, AfterMux, Stays DEF ReleaseMux, GoesTo, SameResult, SameButOk
<1>14. CASE Return(t)
  <2>1. call'[t] = Idle
    BY <1>14 DEF Return, TypeOK
  <2> QED
    BY <2>1 DEF Idle
<1> QED
  BY <1>2, <1>3, <1>4, <1>5, <1>6, <1>7, <1>8, <1>9, <1>10, <1>11, <1>12, <1>13, <1>14
  DEF Proceed

\* A new call is about a chip of the configuration.
LEMMA AskedStart ==
  ASSUME TypeOK, NEW t \in Threads, NEW r \in Requests, Start(t, r)
  PROVE  AskedOf(t)'
<1>1. Muxed(t)' <=> Place[r.chip] # Parent
  BY AfterStart DEF Muxed, Chip
<1> QED
  BY <1>1, AfterStart DEF AskedOf

LEMMA NoCalls ==
  ASSUME NEW t, call[t] = Idle
  PROVE  AskedOf(t)
BY DEF AskedOf, Idle

LEMMA AskedStep ==
  ASSUME TypeOK, Asked, [Next]_vars
  PROVE  Asked'
<1> SUFFICES ASSUME NEW u \in Threads PROVE AskedOf(u)'
  BY DEF Asked
<1>0. AskedOf(u)
  BY DEF Asked
<1>1. ASSUME call' = call PROVE AskedOf(u)'
  BY <1>0, <1>1 DEF AskedOf, Muxed, Chip
<1>2. ASSUME NEW t \in Threads, Proceed(t) PROVE AskedOf(u)'
  BY <1>0, <1>2, OthersStay, Others, AskedProceed
<1>3. ASSUME NEW t \in Threads, NEW r \in Requests, Start(t, r) PROVE AskedOf(u)'
  BY <1>0, <1>3, AfterStart, Others, AskedStart
<1>4. CASE Restart
  BY <1>4 DEF Restart, AskedOf, Idle
<1> QED
  BY <1>1, <1>2, <1>3, <1>4 DEF Next, Initialise, vars

LEMMA QuietStep ==
  ASSUME TypeOK, Quiet, [Next]_vars
  PROVE  Quiet'
<1>1. CASE Initialise
  <2>1. boot.step # "ready" /\ call' = call
    BY <1>1 DEF Initialise, Export, SetDirection, SetLevel, SetPolarity, BootFails
  <2> QED
    BY <2>1 DEF Quiet
<1>2. ASSUME NEW t \in Threads, Proceed(t) PROVE Quiet'
  <2>1. boot.step = "ready"
    <3> SUFFICES ASSUME call[t] = Idle PROVE FALSE
      BY DEF Quiet
    <3> QED
      BY <1>2 DEF Proceed, Idle, TakeMux, WritePin, PinFails, TakeBus, SetSlave, PecOn,
                  SetFails, Transfer, TransferFails, PecOff, Release, ReleaseMux, Return
  <2>2. boot' = boot
    BY <1>2 DEF Proceed, TakeMux, WritePin, PinFails, TakeBus, SetSlave, PecOn,
                SetFails, Transfer, TransferFails, PecOff, Release, ReleaseMux, Return, pins
  <2> QED
    BY <2>1, <2>2 DEF Quiet
<1>3. ASSUME NEW t \in Threads, NEW r \in Requests, Start(t, r) PROVE Quiet'
  BY <1>3 DEF Start, Quiet, pins
<1>4. CASE Restart
  BY <1>4 DEF Restart, Quiet
<1>5. CASE UNCHANGED vars
  BY <1>5 DEF vars, Quiet, pins
<1> QED
  BY <1>1, <1>2, <1>3, <1>4, <1>5 DEF Next

-----------------------------------------------------------------------------
(* The mutexes.                                                            *)

\* What a call has, from where it is.
LEMMA Holdings ==
  ASSUME NEW c
  PROVE  /\ c.pc \in {"idle", "mux", "answered"} => ~HasBus(c) /\ ~HasMux(c)
         /\ c.pc \in {"pins", "release mux"} => ~HasBus(c) /\ HasMux(c)
         /\ c.pc = "bus" => ~HasBus(c) /\ (HasMux(c) <=> Behind(c))
         /\ c.pc \in BusPCs => HasBus(c) /\ (HasMux(c) <=> Behind(c))
BY DEF HasBus, HasMux, BusPCs

\* What the mutexes of thread t have to be.
OwnsOf(t) == (busLock = t <=> HasBus(call[t])) /\ (muxLock = t <=> HasMux(call[t]))

\* A call takes a mutex when nobody has it and gives up its own.
LEMMA OwnersMux ==
  ASSUME TypeOK, Asked, Owners, NEW t \in Threads,
         TakeMux(t) \/ WritePin(t) \/ PinFails(t) \/ ReleaseMux(t)
  PROVE  Owners'
<1>1. /\ \A u \in Threads \ {t} : call'[u] = call[u]
      /\ Behind(call'[t]) <=> Behind(call[t])
      /\ busLock' = busLock
  BY AfterMux DEF GoesTo, TakeMux, WritePin, PinFails, ReleaseMux, bus, Behind
<1>2. OwnsOf(t)
  BY DEF Owners, OwnsOf
<1>3. ASSUME NEW u \in Threads \ {t} PROVE OwnsOf(u)'
  <2>1. OwnsOf(u)
    BY DEF Owners, OwnsOf
  <2>2. ReleaseMux(t) => muxLock = t
    BY <1>2, Holdings DEF ReleaseMux, OwnsOf
  <2>3. muxLock' = u <=> muxLock = u
    <3>1. NoThread \notin Threads
      BY BusAssumption
    <3>2. TakeMux(t) => muxLock = NoThread /\ muxLock' = t
      BY DEF TakeMux
    <3>3. WritePin(t) \/ PinFails(t) => muxLock' = muxLock
      BY DEF WritePin, PinFails
    <3>4. ReleaseMux(t) => muxLock' = NoThread
      BY DEF ReleaseMux
    <3> QED
      BY <2>2, <3>1, <3>2, <3>3, <3>4
  <2> QED
    BY <1>1, <2>1, <2>3 DEF OwnsOf
<1>4. Behind(call[t])
  <2>1. call[t].pc \in {"mux", "pins", "release mux"}
    BY DEF TakeMux, WritePin, PinFails, ReleaseMux
  <2> QED
    BY <2>1 DEF Asked, AskedOf, Muxed, Chip, Behind
<1>5. ASSUME TakeMux(t) PROVE OwnsOf(t)'
  <2>1. /\ call[t].pc = "mux" /\ call'[t].pc = "pins" /\ muxLock' = t
    BY <1>5, AfterMux DEF TakeMux, GoesTo
  <2> QED
    BY <1>1, <1>2, <2>1, Holdings DEF OwnsOf
<1>6. ASSUME WritePin(t) PROVE OwnsOf(t)'
  <2>1. /\ call[t].pc = "pins" /\ call'[t].pc \in {"pins", "bus"} /\ muxLock' = muxLock
    BY <1>6, AfterMux DEF WritePin, GoesTo
  <2> QED
    BY <1>1, <1>2, <1>4, <2>1, Holdings DEF OwnsOf
<1>7. ASSUME PinFails(t) PROVE OwnsOf(t)'
  <2>1. /\ call[t].pc = "pins" /\ call'[t].pc = "release mux" /\ muxLock' = muxLock
    BY <1>7, AfterMux DEF PinFails, GoesTo
  <2> QED
    BY <1>1, <1>2, <2>1, Holdings DEF OwnsOf
<1>8. ASSUME ReleaseMux(t) PROVE OwnsOf(t)'
  <2>1. /\ call[t].pc = "release mux" /\ call'[t].pc = "answered" /\ muxLock' = NoThread
    BY <1>8, AfterMux DEF ReleaseMux, GoesTo
  <2> QED
    BY <1>1, <1>2, <2>1, Holdings, BusAssumption DEF OwnsOf
<1>9. OwnsOf(t)'
  BY <1>5, <1>6, <1>7, <1>8
<1> QED
  BY <1>3, <1>9 DEF Owners, OwnsOf

LEMMA OwnersBus ==
  ASSUME TypeOK, Owners, NEW t \in Threads,
         TakeBus(t) \/ SetSlave(t) \/ PecOn(t) \/ SetFails(t) \/ Transfer(t)
           \/ TransferFails(t) \/ PecOff(t) \/ Release(t)
  PROVE  Owners'
<1>0. Retry(t).pc \in {"transfer", "pec off", "release"}
  BY RetryType
<1>1. /\ \A u \in Threads \ {t} : call'[u] = call[u]
      /\ Behind(call'[t]) <=> Behind(call[t])
      /\ muxLock' = muxLock
  BY AfterBus, AfterTransferStep
  DEF GoesTo, TakeBus, SetSlave, PecOn, SetFails, Transfer, TransferFails, PecOff, Release,
      Behind
<1>2. OwnsOf(t)
  BY DEF Owners, OwnsOf
<1>3. ASSUME NEW u \in Threads \ {t} PROVE OwnsOf(u)'
  <2>1. OwnsOf(u)
    BY DEF Owners, OwnsOf
  <2>2. busLock' = u <=> busLock = u
    <3>1. CASE TakeBus(t)
      BY <3>1, BusAssumption DEF TakeBus
    <3>2. CASE Release(t)
      <4>1. busLock = t
        BY <1>2, <3>2, Holdings DEF Release, OwnsOf, BusPCs
      <4> QED
        BY <3>2, <4>1, BusAssumption DEF Release
    <3>3. CASE ~TakeBus(t) /\ ~Release(t)
      BY <3>3 DEF SetSlave, PecOn, SetFails, Transfer, TransferFails, PecOff, bus
    <3> QED
      BY <3>1, <3>2, <3>3
  <2> QED
    BY <1>1, <2>1, <2>2 DEF OwnsOf
<1>4. ASSUME TakeBus(t) PROVE OwnsOf(t)'
  <2>1. call[t].pc = "bus" /\ call'[t].pc \in BusPCs /\ busLock' = t
    BY <1>4, AfterBus DEF TakeBus, GoesTo, BusPCs
  <2> QED
    BY <1>1, <1>2, <2>1, Holdings DEF OwnsOf
<1>5. ASSUME Release(t) PROVE OwnsOf(t)'
  <2>1. /\ call[t].pc \in BusPCs /\ busLock' = NoThread
        /\ call'[t].pc = IF Behind(call[t]) THEN "release mux" ELSE "answered"
    BY <1>5, AfterBus DEF Release, GoesTo, BusPCs, Muxed, Chip, Behind
  <2> QED
    BY <1>1, <1>2, <2>1, Holdings, BusAssumption DEF OwnsOf
<1>6. ASSUME ~TakeBus(t) /\ ~Release(t) PROVE OwnsOf(t)'
  <2>1. busLock' = busLock /\ call[t].pc \in BusPCs
    BY <1>6 DEF SetSlave, PecOn, SetFails, Transfer, TransferFails, PecOff, bus, BusPCs
  <2>2. call'[t].pc \in BusPCs
    <3>1. SetSlave(t) => call'[t].pc \in {"pec on", "transfer"}
      BY AfterBus DEF GoesTo
    <3> QED
      BY <1>0, <1>6, <3>1, AfterBus, AfterTransferStep DEF GoesTo, BusPCs, AfterTransfer
  <2> QED
    BY <1>1, <1>2, <2>1, <2>2, Holdings DEF OwnsOf
<1> QED
  BY <1>3, <1>4, <1>5, <1>6 DEF Owners, OwnsOf

LEMMA OwnersStep ==
  ASSUME TypeOK, Quiet, Asked, Owners, [Next]_vars
  PROVE  Owners'
<1>1. ASSUME call' = call, muxLock' = muxLock, busLock' = busLock PROVE Owners'
  BY <1>1 DEF Owners
<1>2. ASSUME NEW t \in Threads, Proceed(t) PROVE Owners'
  <2>1. CASE Return(t)
    <3>1. /\ call'[t].pc = "idle" /\ \A u \in Threads \ {t} : call'[u] = call[u]
          /\ muxLock' = muxLock /\ busLock' = busLock /\ call[t].pc = "answered"
      BY <2>1 DEF Return, TypeOK, bus, Idle
    <3> QED
      BY <3>1, Holdings DEF Owners
  <2> QED
    BY <1>2, <2>1, OwnersMux, OwnersBus DEF Proceed
<1>3. ASSUME NEW t \in Threads, NEW r \in Requests, Start(t, r) PROVE Owners'
  <2>1. /\ muxLock' = muxLock /\ busLock' = busLock
        /\ \A u \in Threads \ {t} : call'[u] = call[u]
    BY <1>3, AfterStart DEF Start, bus
  <2>2. ~HasBus(call[t]) /\ ~HasMux(call[t])
    BY <1>3, Holdings DEF Start, Idle
  <2>3. ~HasBus(call'[t]) /\ ~HasMux(call'[t])
    <3>1. call'[t].pc = IF Behind(call'[t]) THEN "mux" ELSE "bus"
      BY <1>3, AfterStart DEF Behind
    <3> QED
      BY <3>1, Holdings
  <2> QED
    BY <2>1, <2>2, <2>3 DEF Owners
<1>4. CASE Restart
  <2>1. \A t \in Threads : ~HasBus(call'[t]) /\ ~HasMux(call'[t])
    BY <1>4, Holdings DEF Restart, Idle
  <2> QED
    BY <1>4, <2>1, BusAssumption DEF Restart, Owners
<1> QED
  BY <1>1, <1>2, <1>3, <1>4 DEF Next, Initialise, vars, bus

-----------------------------------------------------------------------------
(* The polarity of the pins and PEC.                                       *)

\* The last pin is the one after which the next step of the initialisation
\* comes.
LEMMA PolarityStep ==
  ASSUME TypeOK, Polarity, [Next]_vars
  PROVE  Polarity'
<1>0. boot.pin \in PinIndex /\ GpioCnt \in Nat
  BY PinFacts DEF TypeOK
<1>1. ASSUME active_low' = active_low, inverted' = inverted,
             \A p \in PinIndex : PolaritySet(boot', p) => PolaritySet(boot, p)
      PROVE  Polarity'
  BY <1>1 DEF Polarity
<1>2. CASE Initialise
  <2>1. CASE SetPolarity
    <3>1. boot.step = "polarity" /\ inverted' = inverted
      BY <2>1 DEF SetPolarity
    <3>2. \A p \in PinIndex : p # boot.pin => (p \in active_low' <=> p \in active_low)
      BY <2>1 DEF SetPolarity
    <3>3. boot.pin \in active_low' <=> inverted
      BY <2>1 DEF SetPolarity
    <3>4. ASSUME NEW p \in PinIndex, PolaritySet(boot', p) PROVE p <= boot.pin
      <4>1. CASE boot.pin < GpioCnt - 1
        <5>1. boot'.step = "polarity" /\ boot'.pin = boot.pin + 1
          BY <2>1, <3>1, <4>1 DEF SetPolarity, Advance, TypeOK
        <5> QED
          BY <1>0, <3>4, <5>1 DEF PinIndex, PolaritySet
      <4>2. CASE ~(boot.pin < GpioCnt - 1)
        BY <1>0, <4>2 DEF PinIndex
      <4> QED
        BY <4>1, <4>2
    <3>5. ASSUME NEW p \in PinIndex, p <= boot.pin PROVE p = boot.pin \/ p < boot.pin
      BY <1>0, <3>5 DEF PinIndex
    <3> QED
      BY <3>1, <3>2, <3>3, <3>4, <3>5 DEF Polarity, PolaritySet
  <2>2. CASE ~SetPolarity
    <3>1. active_low' = active_low /\ inverted' = inverted
      BY <1>2, <2>2 DEF Initialise, Export, SetDirection, SetLevel, BootFails
    <3>2. CASE BootFails
      BY <1>1, <3>1, <3>2 DEF BootFails, TypeOK, PolaritySet
    <3>3. CASE ~BootFails
      <4>1. Advance /\ boot.step \in {"export", "direction", "level"}
        BY <1>2, <2>2, <3>3 DEF Initialise, Export, SetDirection, SetLevel
      <4>2. CASE boot.pin < GpioCnt - 1
        <5>1. boot'.step = boot.step
          BY <4>1, <4>2 DEF Advance, TypeOK
        <5> QED
          BY <1>1, <3>1, <4>1, <5>1 DEF PolaritySet
      <4>3. CASE ~(boot.pin < GpioCnt - 1)
        <5>1. boot'.pin = 0 /\ boot'.step # "ready"
          BY <4>1, <4>3 DEF Advance, Following
        <5>2. \A p \in PinIndex : ~(p < 0)
          BY <1>0 DEF PinIndex
        <5> QED
          BY <1>1, <3>1, <5>1, <5>2 DEF PolaritySet
      <4> QED
        BY <4>2, <4>3
    <3> QED
      BY <3>2, <3>3
  <2> QED
    BY <2>1, <2>2
<1>3. ASSUME NEW t \in Threads, Proceed(t) PROVE Polarity'
  <2>1. active_low' = active_low /\ inverted' = inverted /\ boot' = boot
    BY <1>3
    DEF Proceed, TakeMux, WritePin, PinFails, TakeBus, SetSlave, PecOn, SetFails, Transfer,
        TransferFails, PecOff, Release, ReleaseMux, Return, pins
  <2> QED
    BY <1>1, <2>1
<1>4. ASSUME NEW t \in Threads, NEW r \in Requests, Start(t, r) PROVE Polarity'
  <2>1. active_low' = active_low /\ inverted' = inverted /\ boot' = boot
    BY <1>4 DEF Start, pins
  <2> QED
    BY <1>1, <2>1
<1>5. CASE Restart
  <2>1. active_low' = active_low /\ inverted' = inverted /\ boot'.step = "export"
    BY <1>5 DEF Restart
  <2> QED
    BY <1>1, <2>1 DEF PolaritySet
<1>6. CASE UNCHANGED vars
  <2>1. active_low' = active_low /\ inverted' = inverted /\ boot' = boot
    BY <1>6 DEF vars, pins
  <2> QED
    BY <1>1, <2>1
<1> QED
  BY <1>2, <1>3, <1>4, <1>5, <1>6 DEF Next

\* Only the owner of the bus touches the descriptor.
LEMMA BusOwner ==
  ASSUME Owners, NEW t \in Threads, NEW u \in Threads \ {t}, call[t].pc \in BusPCs
  PROVE  busLock = t /\ call[u].pc \notin BusPCs
BY DEF Owners, HasBus

\* What PEC has to be for call c, while p is its value.
PecOf(c, p) ==
  /\ c.pc \in {"slave", "pec on", "release"} => ~p
  /\ c.pc = "transfer" => (p <=> c.request.chip \in Pec)

AddressedOf(c, s) ==
  /\ c.pc \in {"pec on", "pec off"} => c.request.chip \in Pec
  /\ c.pc \in {"pec on", "transfer"} => s = Address[c.request.chip]

LEMMA AddressedStep ==
  ASSUME TypeOK, Owners, Addressed, [Next]_vars
  PROVE  Addressed'
<1> SUFFICES ASSUME NEW u \in Threads PROVE AddressedOf(call'[u], slave')
  BY DEF Addressed, AddressedOf, Chip
<1>0. AddressedOf(call[u], slave)
  BY DEF Addressed, AddressedOf, Chip
<1>1. ASSUME call' = call, slave' = slave PROVE AddressedOf(call'[u], slave')
  BY <1>0, <1>1
<1>2. ASSUME NEW t \in Threads, Proceed(t) PROVE AddressedOf(call'[u], slave')
  <2>1. CASE u # t
    <3>1. call'[u] = call[u]
      BY <1>2, <2>1, OthersStay
    <3>2. slave' = slave \/ call[t].pc = "slave"
      BY <1>2
      DEF Proceed, TakeMux, WritePin, PinFails, TakeBus, SetSlave, PecOn, SetFails, Transfer,
          TransferFails, PecOff, Release, ReleaseMux, Return, bus
    <3>3. call[t].pc = "slave" => call[u].pc \notin BusPCs
      BY <2>1, BusOwner DEF BusPCs
    <3> QED
      BY <1>0, <3>1, <3>2, <3>3 DEF AddressedOf, BusPCs
  <2>2. CASE u = t
    <3>1. CASE SetSlave(t)
      <4>1. /\ slave' = Address[call[t].request.chip]
            /\ call'[t].pc = IF call[t].request.chip \in Pec THEN "pec on" ELSE "transfer"
            /\ call'[t].request = call[t].request
        BY <3>1, AfterBus DEF SetSlave, GoesTo, Chip
      <4> QED
        BY <2>2, <4>1 DEF AddressedOf
    <3>2. CASE PecOn(t)
      BY <1>0, <2>2, <3>2, AfterBus DEF PecOn, GoesTo, AddressedOf
    <3>3. CASE Transfer(t)
      BY <1>0, <2>2, <3>3, AfterTransferStep DEF Transfer, GoesTo, AddressedOf, AfterTransfer, Chip
    <3>4. CASE TransferFails(t)
      <4>1. /\ call'[t].pc = "transfer" \/ call'[t].pc = AfterTransfer(t, FALSE)
            /\ call'[t].request = call[t].request /\ slave' = slave /\ call[t].pc = "transfer"
        BY <3>4, AfterTransferStep DEF TransferFails, GoesTo, Retry, bus
      <4> QED
        BY <1>0, <2>2, <4>1 DEF AddressedOf, AfterTransfer, Chip
    <3>5. CASE ~(SetSlave(t) \/ PecOn(t) \/ Transfer(t) \/ TransferFails(t))
      <4>1. call'[t].pc \notin {"pec on", "pec off", "transfer"}
        <5>1. Return(t) => call'[t].pc = "idle"
          BY DEF Return, TypeOK, Idle
        <5>2. WritePin(t) => call'[t].pc \in {"pins", "bus"}
          BY AfterMux DEF GoesTo
        <5>3. Release(t) => call'[t].pc \in {"release mux", "answered"}
          BY AfterBus DEF GoesTo
        <5> QED
          BY <1>2, <3>5, <5>1, <5>2, <5>3, AfterMux, AfterBus DEF Proceed, GoesTo
      <4> QED
        BY <2>2, <4>1 DEF AddressedOf
    <3> QED
      BY <3>1, <3>2, <3>3, <3>4, <3>5
  <2> QED
    BY <2>1, <2>2
<1>3. ASSUME NEW t \in Threads, NEW r \in Requests, Start(t, r)
      PROVE  AddressedOf(call'[u], slave')
  <2>1. slave' = slave /\ (u # t => call'[u] = call[u])
    BY <1>3, AfterStart DEF Start, bus
  <2>2. call'[t].pc \in {"mux", "bus"}
    BY <1>3, AfterStart
  <2> QED
    BY <1>0, <2>1, <2>2 DEF AddressedOf
<1>4. CASE Restart
  BY <1>4 DEF Restart, AddressedOf, Idle
<1> QED
  BY <1>1, <1>2, <1>3, <1>4 DEF Next, Initialise, vars, bus

LEMMA PecProceed ==
  ASSUME TypeOK, Owners, Addressed, PecKept, NEW t \in Threads, Proceed(t), ~stuck'
  PROVE  PecOf(call'[t], pec') /\ (busLock' = NoThread => ~pec')
<1>0. /\ ~stuck => (busLock = NoThread => ~pec) /\ PecOf(call[t], pec)
      /\ AddressedOf(call[t], slave)
      /\ NoThread \notin Threads
  BY BusAssumption DEF PecKept, PecOf, Addressed, AddressedOf, Chip
<1>1. call[t].pc \in BusPCs => busLock = t
  BY DEF Owners, HasBus
<1>2. CASE PecOff(t)
  <2>1. ~pec'
    BY <1>2 DEF PecOff
  <2>2. call'[t].pc = "release"
    BY <1>2, AfterBus DEF GoesTo
  <2> QED
    BY <2>1, <2>2 DEF PecOf
<1>3. CASE PecOn(t)
  <2>1. /\ call[t].pc = "pec on" /\ call'[t].pc = "transfer" /\ pec' = TRUE
        /\ call'[t].request = call[t].request /\ busLock' = busLock
    BY <1>3, AfterBus DEF PecOn, GoesTo
  <2> QED
    BY <1>0, <1>1, <2>1 DEF PecOf, AddressedOf, BusPCs
<1>4. ASSUME ~PecOff(t), ~PecOn(t) PROVE pec' = pec /\ stuck' = stuck
  BY <1>4 DEF Proceed, TakeMux, WritePin, PinFails, TakeBus, SetSlave, SetFails, Transfer,
      TransferFails, Release, ReleaseMux, Return, bus
<1>5. CASE TakeBus(t)
  <2>1. /\ busLock = NoThread /\ busLock' = t /\ call'[t].pc = "slave"
        /\ pec' = pec /\ stuck' = stuck
    BY <1>5, AfterBus DEF TakeBus, GoesTo
  <2> QED
    BY <1>0, <2>1 DEF PecOf
<1>6. CASE SetSlave(t)
  <2>1. /\ call[t].pc = "slave" /\ pec' = pec /\ stuck' = stuck /\ busLock' = busLock
        /\ call'[t].request = call[t].request
        /\ call'[t].pc = IF call[t].request.chip \in Pec THEN "pec on" ELSE "transfer"
    BY <1>6, AfterBus DEF SetSlave, GoesTo, Chip
  <2> QED
    BY <1>0, <1>1, <2>1 DEF PecOf, BusPCs
<1>7. CASE SetFails(t)
  <2>1. /\ call[t].pc \in {"slave", "pec on"} /\ pec' = pec /\ stuck' = stuck
        /\ busLock' = busLock /\ call'[t].pc = "release"
    BY <1>7, AfterBus DEF SetFails, GoesTo, bus
  <2> QED
    BY <1>0, <1>1, <2>1 DEF PecOf, BusPCs
<1>8. CASE Transfer(t) \/ TransferFails(t)
  <2>1. /\ call[t].pc = "transfer" /\ pec' = pec /\ stuck' = stuck /\ busLock' = busLock
        /\ call'[t].request = call[t].request
    BY <1>8, AfterTransferStep DEF Transfer, TransferFails, GoesTo, bus
  <2>2. call'[t].pc \in {"transfer", IF call[t].request.chip \in Pec THEN "pec off" ELSE "release"}
    BY <1>8, AfterTransferStep DEF GoesTo, Retry, AfterTransfer, Chip
  <2> QED
    BY <1>0, <1>1, <2>1, <2>2 DEF PecOf, BusPCs
<1>9. CASE Release(t)
  <2>1. /\ call[t].pc = "release" /\ pec' = pec /\ stuck' = stuck
        /\ call'[t].pc \in {"release mux", "answered"}
    BY <1>9, AfterBus DEF Release, GoesTo
  <2> QED
    BY <1>0, <2>1 DEF PecOf
<1>10. CASE TakeMux(t) \/ WritePin(t) \/ PinFails(t) \/ ReleaseMux(t) \/ Return(t)
  <2>1. Return(t) => call'[t].pc = "idle"
    BY DEF Return, TypeOK, Idle
  <2>2. call'[t].pc \notin BusPCs
    BY <1>10, <2>1, AfterMux DEF GoesTo, BusPCs
  <2>3. pec' = pec /\ stuck' = stuck /\ busLock' = busLock
    BY <1>10 DEF TakeMux, WritePin, PinFails, ReleaseMux, Return, bus
  <2> QED
    BY <1>0, <2>2, <2>3 DEF PecOf, BusPCs
<1> QED
  BY <1>2, <1>3, <1>5, <1>6, <1>7, <1>8, <1>9, <1>10 DEF Proceed

LEMMA PecStep ==
  ASSUME TypeOK, Owners, Addressed, PecKept, [Next]_vars
  PROVE  PecKept'
<1> SUFFICES ASSUME ~stuck'
             PROVE  /\ busLock' = NoThread => ~pec'
                    /\ \A u \in Threads : PecOf(call'[u], pec')
  BY DEF PecKept, PecOf, Chip
<1>0. ~stuck => (busLock = NoThread => ~pec) /\ \A u \in Threads : PecOf(call[u], pec)
  BY DEF PecKept, PecOf, Chip
<1>1. ASSUME call' = call, pec' = pec, stuck' = stuck, busLock' = busLock
      PROVE  /\ busLock' = NoThread => ~pec'
             /\ \A u \in Threads : PecOf(call'[u], pec')
  BY <1>0, <1>1
<1>2. ASSUME NEW t \in Threads, Proceed(t)
      PROVE  /\ busLock' = NoThread => ~pec'
             /\ \A u \in Threads : PecOf(call'[u], pec')
  <2>1. PecOf(call'[t], pec') /\ (busLock' = NoThread => ~pec')
    BY <1>2, PecProceed
  <2>2. ASSUME NEW u \in Threads \ {t} PROVE PecOf(call'[u], pec')
    <3>1. call'[u] = call[u]
      BY <1>2, OthersStay
    <3>2. (pec' = pec /\ stuck' = stuck) \/ call[t].pc \in BusPCs
      BY <1>2
      DEF Proceed, TakeMux, WritePin, PinFails, TakeBus, SetSlave, PecOn, SetFails, Transfer,
          TransferFails, PecOff, Release, ReleaseMux, Return, bus, BusPCs
    <3>3. call[t].pc \in BusPCs => call[u].pc \notin BusPCs
      BY BusOwner
    <3>4. CASE call[t].pc \in BusPCs
      <4>1. call'[u].pc \notin {"slave", "pec on", "release", "transfer"}
        BY <3>1, <3>3, <3>4 DEF BusPCs
      <4> QED
        BY <4>1 DEF PecOf
    <3>5. CASE pec' = pec /\ stuck' = stuck
      <4>1. PecOf(call[u], pec)
        BY <1>0, <3>5
      <4> QED
        BY <3>1, <3>5, <4>1
    <3> QED
      BY <3>2, <3>4, <3>5
  <2> QED
    BY <2>1, <2>2
<1>3. ASSUME NEW t \in Threads, NEW r \in Requests, Start(t, r)
      PROVE  /\ busLock' = NoThread => ~pec'
             /\ \A u \in Threads : PecOf(call'[u], pec')
  <2>1. /\ pec' = pec /\ stuck' = stuck /\ busLock' = busLock
        /\ \A u \in Threads \ {t} : call'[u] = call[u]
        /\ call'[t].pc \in {"mux", "bus"}
    BY <1>3, AfterStart DEF Start, bus
  <2> QED
    BY <1>0, <2>1 DEF PecOf
<1>4. CASE Restart
  BY <1>4 DEF Restart, PecOf, Idle
<1> QED
  BY <1>1, <1>2, <1>3, <1>4 DEF Next, Initialise, vars, bus

-----------------------------------------------------------------------------
(* What holds for every group of pins.                                     *)

LEMMA InvInit == Init => Inv
<1> SUFFICES ASSUME Init PROVE Inv
  OBVIOUS
<1>1. \A t \in Threads : call[t] = Idle
  BY DEF Init
<1>2. Asked
  BY <1>1, NoCalls DEF Asked
<1>3. Owners
  BY <1>1, Holdings, BusAssumption DEF Init, Owners, Idle
<1>4. Quiet /\ PecKept /\ Addressed
  BY <1>1 DEF Init, Quiet, PecKept, Addressed, Idle
<1>5. Polarity
  BY DEF Init, Polarity, PolaritySet
<1> QED
  BY <1>2, <1>3, <1>4, <1>5 DEF Inv

LEMMA InvStep == TypeOK /\ Inv /\ [Next]_vars => TypeOK' /\ Inv'
BY TypeStep, AskedStep, QuietStep, OwnersStep, PolarityStep, AddressedStep, PecStep DEF Inv

LEMMA Invariance == Spec => [](TypeOK /\ Inv)
BY TypeInit, InvInit, InvStep, PTL DEF Spec

\* The registers, pins, mutexes and calls keep their types, whatever fails and
\* whenever the daemon is restarted.
THEOREM TypeCorrect == Spec => []TypeOK
BY Invariance, PTL

\* Transfers are made with PEC if and only if the driver of the chip asks for
\* it, on the descriptor that all threads share; unless the ioctl that switches
\* PEC off failed.
THEOREM PecCorrect == Spec => []PecAsAsked
<1>1. Inv => PecAsAsked
  BY DEF Inv, PecKept, PecAsAsked
<1> QED
  BY <1>1, Invariance, PTL

-----------------------------------------------------------------------------
(* The channel, for a group of at most two pins.                           *)

\* The bits of the masks of two pins.
LEMMA SmallBits == Bits(1) = {0} /\ Bits(2) = {1}
<1> DEFINE Power(b) == <<1, 2, 4, 8>>[b + 1]
<1>1. Power(0) = 1 /\ Power(1) = 2 /\ Power(2) = 4 /\ Power(3) = 8
  OBVIOUS
<1> HIDE DEF Power
<1>2. \A n : Bits(n) = {b \in 0..3 : (n \div Power(b)) % 2 = 1}
  BY DEF Bits, Power
<1>3. /\ (1 \div 1) % 2 = 1 /\ (1 \div 2) % 2 = 0 /\ (1 \div 4) % 2 = 0 /\ (1 \div 8) % 2 = 0
      /\ (2 \div 1) % 2 = 0 /\ (2 \div 2) % 2 = 1 /\ (2 \div 4) % 2 = 0 /\ (2 \div 8) % 2 = 0
  OBVIOUS
<1>4. \A b \in 0..3 : b = 0 \/ b = 1 \/ b = 2 \/ b = 3
  OBVIOUS
<1>5. \A b : b \in Bits(1) <=> b = 0
  BY <1>1, <1>2, <1>3, <1>4
<1>6. \A b : b \in Bits(2) <=> b = 1
  BY <1>1, <1>2, <1>3, <1>4
<1> QED
  BY <1>5, <1>6

\* The mask of a pin is its bit of the level.
LEMMA MaskIsBit ==
  ASSUME AtMostTwoPins, NEW p \in PinIndex, NEW v
  PROVE  WrittenHigh(v, p) <=> Bit(p) \in v
<1>1. GpioCnt \in 1..2
  BY BusAssumption DEF AtMostTwoPins
<1>2. LevelMask(p) \in {1, 2} /\ Bit(p) = LevelMask(p) - 1
  BY <1>1 DEF LevelMask, Bit, PinIndex
<1>3. Bits(LevelMask(p)) = {Bit(p)}
  BY <1>2, SmallBits
<1> QED
  BY <1>3 DEF WrittenHigh

\* Different pins have different bits, which are all the bits of a channel.
LEMMA BitFacts ==
  /\ \A p, q \in PinIndex : Bit(p) = Bit(q) => p = q
  /\ \A b \in PinIndex : \E p \in PinIndex : Bit(p) = b
<1>1. GpioCnt \in Nat
  BY BusAssumption
<1>2. ASSUME NEW b \in PinIndex
      PROVE  GpioCnt - b - 1 \in PinIndex /\ Bit(GpioCnt - b - 1) = b
  BY <1>1 DEF PinIndex, Bit
<1> QED
  BY <1>1, <1>2 DEF Bit, PinIndex

\* A pin that has been written high shows a 1.
LEMMA Driven ==
  ASSUME TypeOK, Polarity, AtMostTwoPins, boot.step = "ready", NEW p \in PinIndex, NEW v
  PROVE  /\ ((p \in Drive(p, WrittenHigh(v, p))) # inverted) <=> Bit(p) \in v
         /\ \A q \in PinIndex \ {p} :
              q \in Drive(p, WrittenHigh(v, p)) <=> q \in driven
<1>1. /\ p \in active_low <=> inverted
      /\ inverted \in BOOLEAN
  BY DEF Polarity, PolaritySet, TypeOK
<1>2. WrittenHigh(v, p) <=> Bit(p) \in v
  BY MaskIsBit
<1>3. WrittenHigh(v, p) \in BOOLEAN
  BY DEF WrittenHigh
<1> QED
  BY <1>1, <1>2, <1>3 DEF Drive

\* Once all pins are written the channel is the one of the chip, and the
\* group reads as that channel.
LEMMA AllShown ==
  ASSUME TypeOK, Polarity, boot.step = "ready", NEW v \in Channels,
         \A p \in PinIndex : ((p \in driven) # inverted) <=> Bit(p) \in v
  PROVE  Channel = v /\ GroupLevel = Channel
<1>1. \A p \in PinIndex : (p \in active_low <=> inverted) /\ inverted \in BOOLEAN
  BY DEF Polarity, PolaritySet, TypeOK
<1>2. v \subseteq PinIndex
  BY DEF Channels
<1>3. \A b : b \in Channel <=> \E p \in PinIndex : b = Bit(p) /\ ((p \in driven) # inverted)
  BY DEF Channel
<1>4. \A b : b \in GroupLevel <=>
          \E p \in PinIndex : b = Bit(p) /\ ((p \in driven) # (p \in active_low))
  BY DEF GroupLevel, High
<1>5. \A b : b \in v <=> \E p \in PinIndex : b = Bit(p) /\ Bit(p) \in v
  BY <1>2, BitFacts
<1>6. Channel = v
  BY <1>3, <1>5
<1>7. \A p \in PinIndex : ((p \in driven) # inverted) <=> ((p \in driven) # (p \in active_low))
  BY <1>1
<1>8. GroupLevel = Channel
  BY <1>3, <1>4, <1>7
<1> QED
  BY <1>6, <1>8

\* Calls only run when the pins are initialised.
LEMMA Ready ==
  ASSUME Quiet, NEW t \in Threads, call[t].pc # "idle"
  PROVE  boot.step = "ready"
BY DEF Quiet, Idle

\* A call that writes its pin; the pin after it is the next one.
LEMMA PinWritten ==
  ASSUME TypeOK, Inv, Selected, AtMostTwoPins, NEW t \in Threads, WritePin(t)
  PROVE  SelectedOf(call'[t], driven') /\ inverted' = inverted
<1> DEFINE v == Place[call[t].request.chip]
           n == call[t].pin
<1>1. /\ call[t].pc = "pins" /\ driven' = Drive(n, WrittenHigh(v, n))
      /\ inverted' = inverted /\ call'[t].request = call[t].request
      /\ IF n < GpioCnt - 1
         THEN call'[t].pc = "pins" /\ call'[t].pin = n + 1
         ELSE call'[t].pc = "bus"
  BY AfterMux DEF WritePin, GoesTo, Chip
<1>2. n \in PinIndex /\ boot.step = "ready" /\ GpioCnt \in Nat
  BY <1>1, Ready, PinFacts DEF TypeOK, Calls, Inv
<1> HIDE DEF v, n
<1>3. /\ ((n \in driven') # inverted) <=> Bit(n) \in v
      /\ \A q \in PinIndex \ {n} : q \in driven' <=> q \in driven
  BY <1>1, <1>2, Driven DEF Inv
<1>4. ASSUME NEW p \in PinIndex, p < n PROVE ((p \in driven) # inverted) <=> Bit(p) \in v
  BY <1>1, <1>4 DEF Selected, SelectedOf, Written, v, n
<1>5. ASSUME NEW p \in PinIndex, Written(call'[t], p) PROVE p < n \/ p = n
  <2>1. CASE n < GpioCnt - 1
    <3>1. p < n + 1
      BY <1>1, <1>5, <2>1 DEF Written, BusPCs
    <3> QED
      BY <1>2, <3>1 DEF PinIndex
  <2>2. CASE ~(n < GpioCnt - 1)
    BY <1>2, <2>2 DEF PinIndex
  <2> QED
    BY <2>1, <2>2
<1>6. ASSUME NEW p \in PinIndex, p < n PROVE p # n
  BY <1>2, <1>6 DEF PinIndex
<1>7. ASSUME NEW p \in PinIndex, Written(call'[t], p)
      PROVE  ((p \in driven') # inverted) <=> Bit(p) \in v
  <2>1. CASE p = n
    BY <1>3, <2>1
  <2>2. CASE p < n
    BY <1>3, <1>4, <1>6, <2>2
  <2> QED
    BY <1>5, <1>7, <2>1, <2>2
<1> QED
  BY <1>1, <1>7 DEF SelectedOf, v

\* The other steps of a call write no pin; what they rely on was written.
LEMMA NoPinWritten ==
  ASSUME TypeOK, Inv, NEW t \in Threads, Proceed(t), ~WritePin(t)
  PROVE  /\ driven' = driven /\ inverted' = inverted
         /\ \A p \in PinIndex : Written(call'[t], p) =>
              Written(call[t], p) /\ call'[t].request = call[t].request
<1>1. driven' = driven /\ inverted' = inverted
  BY DEF Proceed, TakeMux, PinFails, TakeBus, SetSlave, PecOn, SetFails, Transfer,
         TransferFails, PecOff, Release, ReleaseMux, Return, pins
<1>2. CASE TakeMux(t)
  <2>1. call'[t].pc = "pins" /\ call'[t].pin = 0
    BY <1>2, AfterMux DEF GoesTo
  <2>2. \A p \in PinIndex : ~(p < 0)
    BY PinFacts DEF PinIndex
  <2> QED
    BY <1>1, <2>1, <2>2 DEF Written, BusPCs
<1>3. CASE PinFails(t) \/ ReleaseMux(t) \/ Return(t)
  <2>1. Return(t) => call'[t].pc = "idle"
    BY DEF Return, TypeOK, Idle
  <2>2. call'[t].pc \in {"release mux", "answered", "idle"}
    BY <1>3, <2>1, AfterMux DEF GoesTo
  <2> QED
    BY <1>1, <2>2 DEF Written, BusPCs
<1>4. CASE TakeBus(t) \/ SetSlave(t) \/ PecOn(t) \/ SetFails(t) \/ Transfer(t)
             \/ TransferFails(t) \/ PecOff(t) \/ Release(t)
  <2>1. call[t].pc \in BusPCs \cup {"bus"}
    BY <1>4 DEF TakeBus, SetSlave, PecOn, SetFails, Transfer, TransferFails, PecOff, Release,
                BusPCs
  <2>2. call'[t].request = call[t].request
    BY <1>4, AfterBus, AfterTransferStep DEF GoesTo
  <2>3. call'[t].pc # "pins"
    <3>1. Retry(t).pc # "pins" /\ AfterTransfer(t, TRUE) # "pins"
      BY RetryType DEF AfterTransfer
    <3> QED
      BY <1>4, <3>1, AfterBus, AfterTransferStep DEF GoesTo
  <2> QED
    BY <1>1, <2>1, <2>2, <2>3 DEF Written, Behind
<1> QED
  BY <1>2, <1>3, <1>4 DEF Proceed

\* A call that relies on pins it has written has the multiplexer.
LEMMA WrittenHeld ==
  ASSUME Owners, NEW t \in Threads, NEW p, Written(call[t], p)
  PROVE  muxLock = t
BY DEF Owners, Written, HasMux

LEMMA SelectedStep ==
  ASSUME TypeOK, Inv, Selected, AtMostTwoPins, [Next]_vars
  PROVE  Selected'
<1> SUFFICES ASSUME NEW u \in Threads PROVE SelectedOf(call[u], driven)'
  BY DEF Selected
<1>0. SelectedOf(call[u], driven)
  BY DEF Selected
<1>1. ASSUME call'[u] = call[u], driven' = driven, inverted' = inverted
      PROVE  SelectedOf(call[u], driven)'
  BY <1>0, <1>1 DEF SelectedOf, Written, Behind
<1>2. ASSUME \A p \in PinIndex : ~Written(call'[u], p) PROVE SelectedOf(call[u], driven)'
  BY <1>2 DEF SelectedOf
<1>3. CASE Initialise
  <2>1. call'[u] = Idle
    BY <1>3 DEF Initialise, Export, SetDirection, SetLevel, SetPolarity, BootFails, Quiet, Inv
  <2> QED
    BY <1>2, <2>1 DEF Written, Idle, BusPCs
<1>4. ASSUME NEW t \in Threads, WritePin(t) PROVE SelectedOf(call[u], driven)'
  <2>1. CASE u = t
    <3>1. SelectedOf(call'[t], driven') /\ inverted' = inverted
      BY <1>4, PinWritten
    <3> QED
      BY <2>1, <3>1 DEF SelectedOf
  <2>2. CASE u # t
    <3>1. call'[u] = call[u]
      BY <1>4, <2>2, AfterMux DEF GoesTo
    <3>2. muxLock = t
      BY <1>4 DEF Inv, Owners, HasMux, WritePin
    <3>3. \A p \in PinIndex : ~Written(call[u], p)
      BY <2>2, <3>2, WrittenHeld DEF Inv
    <3> QED
      BY <1>2, <3>1, <3>3
  <2> QED
    BY <2>1, <2>2
<1>5. ASSUME NEW t \in Threads, Proceed(t), ~WritePin(t) PROVE SelectedOf(call[u], driven)'
  <2>1. CASE u = t
    BY <1>0, <1>5, <2>1, NoPinWritten DEF SelectedOf
  <2>2. CASE u # t
    BY <1>1, <1>5, <2>2, NoPinWritten, OthersStay
  <2> QED
    BY <2>1, <2>2
<1>6. ASSUME NEW t \in Threads, NEW r \in Requests, Start(t, r)
      PROVE  SelectedOf(call[u], driven)'
  <2>1. driven' = driven /\ inverted' = inverted
    BY <1>6 DEF Start, pins
  <2>2. u # t => call'[u] = call[u]
    BY <1>6, AfterStart
  <2>3. call'[t].pc = IF Behind(call'[t]) THEN "mux" ELSE "bus"
    BY <1>6, AfterStart DEF Behind
  <2>4. \A p \in PinIndex : ~Written(call'[t], p)
    BY <2>3 DEF Written, BusPCs
  <2> QED
    BY <1>1, <1>2, <2>1, <2>2, <2>4
<1>7. CASE Restart
  <2>1. call'[u].pc = "idle"
    BY <1>7 DEF Restart, Idle
  <2> QED
    BY <1>2, <2>1 DEF Written, BusPCs
<1>8. CASE UNCHANGED vars
  BY <1>1, <1>8 DEF vars, pins
<1> QED
  BY <1>3, <1>4, <1>5, <1>6, <1>7, <1>8 DEF Next

LEMMA SelectedInit == Init => Selected
<1>1. ASSUME Init, NEW t \in Threads PROVE call[t].pc = "idle"
  BY <1>1 DEF Init, Idle
<1> QED
  BY <1>1 DEF Selected, SelectedOf, Written, BusPCs

LEMMA SelectedCorrect ==
  ASSUME AtMostTwoPins
  PROVE  Spec => []Selected
<1>1. TypeOK /\ Inv /\ Selected /\ [Next]_vars => Selected'
  BY SelectedStep
<1> QED
  BY <1>1, SelectedInit, Invariance, PTL DEF Spec

\* While a call has the bus the multiplexer connects the channel of its chip
\* and the group reads as that channel, with inverted lines too, after any
\* restart, and although other calls failed half-way through the pins.
THEOREM ChannelCorrect ==
  ASSUME AtMostTwoPins
  PROVE  Spec => []ChannelSelected
<1>1. ASSUME TypeOK, Inv, Selected, NEW t \in Threads, Muxed(t),
             call[t].pc \in {"slave", "pec on", "transfer", "pec off"}
      PROVE  Channel = Place[Chip(t)] /\ GroupLevel = Channel
  <2> DEFINE v == Place[Chip(t)]
  <2>1. call[t].request \in Requests /\ v # Parent
    BY <1>1 DEF Inv, Asked, AskedOf, Muxed
  <2>2. v \in Channels
    <3>1. Chip(t) \in Chips
      BY <2>1, RequestFacts DEF Chip
    <3> QED
      BY <2>1, <3>1, BusAssumption
  <2>3. \A p \in PinIndex : ((p \in driven) # inverted) <=> Bit(p) \in v
    BY <1>1 DEF Selected, SelectedOf, Written, BusPCs, Behind, Muxed, Chip
  <2>4. boot.step = "ready" /\ Polarity
    BY <1>1, Ready DEF Inv
  <2> QED
    BY <1>1, <2>2, <2>3, <2>4, AllShown
<1>2. TypeOK /\ Inv /\ Selected => ChannelSelected
  BY <1>1 DEF ChannelSelected
<1> QED
  BY <1>2, Invariance, SelectedCorrect, PTL

-----------------------------------------------------------------------------
(* The file of registers.                                                  *)

\* Only the chip that a call is about answers its transfer.
LEMMA OneAnswers ==
  ASSUME TypeOK, Inv, ChannelSelected, NEW t \in Threads, call[t].pc = "transfer"
  PROVE  Answering = {Chip(t)} /\ call[t].request \in Requests
<1>1. call[t].request \in Requests /\ slave = Address[Chip(t)]
  BY DEF Inv, Asked, AskedOf, Addressed
<1>2. Chip(t) \in Chips
  BY <1>1, RequestFacts DEF Chip
<1>3. Muxed(t) => Channel = Place[Chip(t)]
  BY DEF ChannelSelected
<1>4. ASSUME NEW c \in Chips, c # Chip(t), Address[c] = slave, Place[c] \in {Parent, Channel}
      PROVE  FALSE
  BY <1>1, <1>2, <1>3, <1>4, AddressAssumption DEF Muxed
<1>5. Chip(t) \in Answering
  BY <1>1, <1>2, <1>3 DEF Answering, Muxed
<1> QED
  BY <1>1, <1>4, <1>5 DEF Answering

\* The effect of the call of thread t on its own chip.
TookEffect(t) ==
  LET r == call[t].request
  IN /\ memory' = IF r.kind = "write" THEN [memory EXCEPT ![r.chip][r.reg] = r.val]
                  ELSE memory
     /\ counter' = [counter EXCEPT ![r.chip] = (Register(r.chip, r) + 1) % Registers]
     /\ call'[t].done
     /\ call'[t].data = IF r.kind = "write" THEN call[t].data
                        ELSE memory[r.chip][Register(r.chip, r)]

LEMMA EffectOnChip ==
  ASSUME TypeOK, Inv, ChannelSelected, NEW t \in Threads, call[t].pc = "transfer", Effect(t),
         call'[t].done, call'[t].data = DataRead(t, Chip(t))
  PROVE  TookEffect(t)
<1> DEFINE r == call[t].request
<1>1. Answering = {r.chip} /\ r.chip \in Chips
  BY OneAnswers, RequestFacts DEF Chip
<1>2. memory \in [Chips -> [0..Registers-1 -> Values]] /\ counter \in [Chips -> 0..Registers-1]
  BY DEF TypeOK
<1>3. /\ memory' = [c \in Chips |-> IF c = r.chip /\ r.kind = "write"
                                  THEN [memory[c] EXCEPT ![r.reg] = r.val] ELSE memory[c]]
      /\ counter' = [c \in Chips |-> IF c = r.chip THEN (Register(c, r) + 1) % Registers
                                   ELSE counter[c]]
  BY <1>1 DEF Effect
<1>4. call'[t].data = IF r.kind = "write" THEN call[t].data
                      ELSE memory[r.chip][Register(r.chip, r)]
  BY DEF DataRead, Chip
<1> HIDE DEF r
<1>5. memory' = IF r.kind = "write" THEN [memory EXCEPT ![r.chip][r.reg] = r.val] ELSE memory
  BY <1>1, <1>2, <1>3
<1>6. counter' = [counter EXCEPT ![r.chip] = (Register(r.chip, r) + 1) % Registers]
  BY <1>1, <1>2, <1>3
<1> QED
  BY <1>4, <1>5, <1>6 DEF TookEffect, r

\* A transfer takes effect on the chip of the call, or it fails without one.
LEMMA TransferEffect ==
  ASSUME TypeOK, Inv, ChannelSelected, NEW t \in Threads, Transfer(t) \/ TransferFails(t)
  PROVE  TookEffect(t) \/ (UNCHANGED chips /\ SameResult(t))
<1>1. call[t].pc = "transfer" /\ call[t] \in Calls /\ call \in [Threads -> Calls]
  BY DEF Transfer, TransferFails, TypeOK
<1>2. Answering = {Chip(t)}
  BY <1>1, OneAnswers
<1>3. CASE Transfer(t)
  <2>1. Effect(t) /\ call' = [call EXCEPT ![t].pc = AfterTransfer(t, TRUE), ![t].left = 0,
                                          ![t].ok = TRUE, ![t].done = TRUE,
                                          ![t].data = DataRead(t, Chip(t))]
    BY <1>2, <1>3 DEF Transfer
  <2>2. call'[t].done /\ call'[t].data = DataRead(t, Chip(t))
    BY <1>1, <2>1 DEF Calls
  <2> QED
    BY <1>1, <2>1, <2>2, EffectOnChip
<1>4. CASE TransferFails(t)
  <2>1. CASE UNCHANGED chips /\ call' = [call EXCEPT ![t].pc = Retry(t).pc,
                                                     ![t].left = Retry(t).left]
    BY <2>1, Gone
  <2>2. CASE Effect(t) /\ call' = [call EXCEPT ![t].pc = Retry(t).pc, ![t].left = Retry(t).left,
                                             ![t].done = TRUE,
                                             ![t].data = DataRead(t, Chip(t))]
    <3>1. call'[t].done /\ call'[t].data = DataRead(t, Chip(t))
      BY <1>1, <2>2 DEF Calls
    <3> QED
      BY <1>1, <2>2, <3>1, EffectOnChip
  <2> QED
    BY <1>2, <1>4, <2>1, <2>2 DEF TransferFails
<1> QED
  BY <1>3, <1>4

\* The chips change in a transfer only.
LEMMA ChipsKept ==
  ASSUME NEW t \in Threads, Proceed(t), ~Transfer(t), ~TransferFails(t)
  PROVE  UNCHANGED chips
BY DEF Proceed, TakeMux, WritePin, PinFails, TakeBus, SetSlave, PecOn, SetFails, PecOff,
       Release, ReleaseMux, Return

\* What a call has done to a register or read from it stays to be seen, for
\* one that transfers again.
RepeatableOf(c, m, n) ==
  LET r == c.request
  IN c.pc = "transfer" /\ c.done /\ r.kind # "receive" =>
       /\ n[r.chip] = (r.reg + 1) % Registers
       /\ IF r.kind = "write" THEN m[r.chip][r.reg] = r.val ELSE c.data = m[r.chip][r.reg]

LEMMA RepeatableStep ==
  ASSUME TypeOK, Inv, ChannelSelected, Repeatable, [Next]_vars
  PROVE  Repeatable'
<1> SUFFICES ASSUME NEW u \in Threads PROVE RepeatableOf(call'[u], memory', counter')
  BY DEF Repeatable, RepeatableOf
<1>0. RepeatableOf(call[u], memory, counter)
  BY DEF Repeatable, RepeatableOf
<1>1. ASSUME call'[u] = call[u], UNCHANGED chips
      PROVE  RepeatableOf(call'[u], memory', counter')
  BY <1>0, <1>1 DEF chips
<1>2. ASSUME call'[u].pc # "transfer" PROVE RepeatableOf(call'[u], memory', counter')
  BY <1>2 DEF RepeatableOf
<1>3. ASSUME NEW t \in Threads, Transfer(t) \/ TransferFails(t)
      PROVE  RepeatableOf(call'[u], memory', counter')
  <2>1. call[t].pc = "transfer" /\ call[t].request \in Requests
    BY <1>3, OneAnswers DEF Transfer, TransferFails
  <2>2. CASE u # t
    <3>1. call[u].pc \notin BusPCs /\ call'[u] = call[u]
      BY <1>3, <2>1, <2>2, BusOwner, AfterTransferStep DEF BusPCs, Inv, GoesTo
    <3> QED
      BY <1>2, <3>1 DEF BusPCs
  <2>3. CASE u = t /\ TookEffect(t)
    <3> DEFINE r == call[t].request
    <3>1. call'[t].request = r
      BY <1>3, AfterTransferStep DEF GoesTo
    <3>2. r.chip \in Chips /\ r.reg \in 0..Registers-1
      BY <2>1, RequestFacts
    <3>3. r.kind # "receive" => counter'[r.chip] = (r.reg + 1) % Registers
      BY <2>3, <3>2 DEF TookEffect, Register, TypeOK
    <3>4. r.kind = "write" => memory'[r.chip][r.reg] = r.val
      BY <2>3, <3>2 DEF TookEffect, TypeOK
    <3>5. r.kind \notin {"write", "receive"} => call'[t].data = memory'[r.chip][r.reg]
      BY <2>3 DEF TookEffect, Register
    <3> QED
      BY <2>3, <3>1, <3>3, <3>4, <3>5 DEF RepeatableOf
  <2>4. CASE u = t /\ UNCHANGED chips /\ SameResult(t)
    <3>1. call'[t].request = call[t].request
      BY <1>3, AfterTransferStep DEF GoesTo
    <3> QED
      BY <1>0, <2>1, <2>4, <3>1 DEF RepeatableOf, SameResult, SameButOk, chips
  <2> QED
    BY <1>3, <2>2, <2>3, <2>4, TransferEffect
<1>4. ASSUME NEW t \in Threads, Proceed(t), ~Transfer(t), ~TransferFails(t)
      PROVE  RepeatableOf(call'[u], memory', counter')
  <2>1. CASE u # t
    BY <1>1, <1>4, <2>1, ChipsKept, OthersStay
  <2>2. CASE u = t
    <3>1. CASE SetSlave(t) \/ PecOn(t)
      <4>1. ~call[t].done
        BY <3>1 DEF SetSlave, PecOn, Inv, Asked, AskedOf
      <4>2. ~call'[t].done
        BY <3>1, <4>1, AfterBus DEF SameResult, SameButOk
      <4> QED
        BY <2>2, <4>2 DEF RepeatableOf
    <3>2. CASE ~(SetSlave(t) \/ PecOn(t))
      <4>1. Return(t) => call'[t].pc = "idle"
        BY DEF Return, TypeOK, Idle
      <4>2. call'[t].pc # "transfer"
        BY <1>4, <3>2, <4>1, AfterMux, AfterBus DEF Proceed, GoesTo
      <4> QED
        BY <1>2, <2>2, <4>2
    <3> QED
      BY <3>1, <3>2
  <2> QED
    BY <2>1, <2>2
<1>5. ASSUME NEW t \in Threads, NEW r \in Requests, Start(t, r)
      PROVE  RepeatableOf(call'[u], memory', counter')
  <2>1. CASE u # t
    BY <1>1, <1>5, <2>1, AfterStart DEF Start
  <2>2. CASE u = t
    BY <1>2, <1>5, <2>2, AfterStart
  <2> QED
    BY <2>1, <2>2
<1>6. CASE Restart
  BY <1>2, <1>6 DEF Restart, Idle
<1>7. CASE Initialise \/ UNCHANGED vars
  BY <1>1, <1>7 DEF Initialise, vars
<1> QED
  BY <1>3, <1>4, <1>5, <1>6, <1>7 DEF Next

\* What a call answers, as the file of registers sees it.
Result(c) == IF c.pc # "answered" THEN "none" ELSE IF c.ok THEN "ok" ELSE "error"

\* A step that the file does not see.
LEMMA Unseen ==
  ASSUME UNCHANGED chips,
         \A u \in Threads : /\ call'[u].request = call[u].request
                            /\ call'[u].done = call[u].done
                            /\ call'[u].data = call[u].data
                            /\ Result(call'[u]) = Result(call[u])
  PROVE  UNCHANGED File!vars
BY DEF File!vars, chips, Result

\* A step of one call.
LEMMA UnseenStep ==
  ASSUME TypeOK, NEW t \in Threads, Proceed(t), UNCHANGED chips, SameButOk(t),
         call'[t].request = call[t].request,
         call[t].pc # "answered", call'[t].pc # "answered"
  PROVE  UNCHANGED File!vars
<1>1. \A u \in Threads \ {t} : call'[u] = call[u]
  BY OthersStay
<1>2. Result(call'[t]) = Result(call[t])
  BY DEF Result
<1> QED
  BY <1>1, <1>2, Unseen DEF SameButOk

LEMMA FileAsk ==
  ASSUME TypeOK, NEW t \in Threads, NEW r \in Requests, Start(t, r)
  PROVE  File!Ask(t, r)
<1>1. /\ call[t] = Idle /\ call'[t].request = r /\ UNCHANGED chips
      /\ \A u \in Threads \ {t} : call'[u] = call[u]
      /\ call'[t].pc \in {"mux", "bus"}
  BY AfterStart DEF Start
<1>2. call'[t].done = call[t].done /\ call'[t].data = call[t].data
  BY DEF Start, TypeOK, Calls
<1>3. call[t].request = NoRequest /\ call[t].pc = "idle"
  BY <1>1 DEF Idle
<1>4. [u \in Threads |-> call'[u].request]
        = [[u \in Threads |-> call[u].request] EXCEPT ![t] = r]
  BY <1>1
<1>5. \A u \in Threads : call'[u].done = call[u].done /\ call'[u].data = call[u].data
  BY <1>1, <1>2
<1>6. \A u \in Threads : Result(call'[u]) = Result(call[u])
  BY <1>1, <1>3 DEF Result
<1> QED
  BY <1>1, <1>3, <1>4, <1>5, <1>6 DEF File!Ask, File!NoRequest, NoRequest, chips, Result

\* A transfer carries its call out, or finds it carried out.
LEMMA FileCarryOut ==
  ASSUME TypeOK, Inv, Repeatable, NEW t \in Threads, Transfer(t) \/ TransferFails(t),
         TookEffect(t), call[t].request \in Requests
  PROVE  File!CarryOut(t) \/ UNCHANGED File!vars
<1> DEFINE r == call[t].request
<1>1. /\ call[t].pc = "transfer" /\ call'[t].request = r
      /\ \A u \in Threads \ {t} : call'[u] = call[u]
      /\ call'[t].pc # "answered"
  <2>1. Retry(t).pc # "answered" /\ AfterTransfer(t, TRUE) # "answered"
    BY RetryType DEF AfterTransfer
  <2> QED
    BY <2>1, AfterTransferStep DEF Transfer, TransferFails, GoesTo
<1>2. \A u \in Threads : Result(call'[u]) = Result(call[u])
  BY <1>1 DEF Result
<1>3. r \in Requests /\ r # NoRequest /\ r.chip \in Chips /\ r.reg \in 0..Registers-1
  BY RequestFacts
<1>4. /\ memory' = IF r.kind = "write" THEN [memory EXCEPT ![r.chip][r.reg] = r.val]
                   ELSE memory
      /\ counter' = [counter EXCEPT ![r.chip] = (Register(r.chip, r) + 1) % Registers]
      /\ call'[t].done
      /\ call'[t].data = IF r.kind = "write" THEN call[t].data
                         ELSE memory[r.chip][Register(r.chip, r)]
  BY DEF TookEffect
<1>5. call[t].done \in BOOLEAN /\ call'[t].done \in BOOLEAN
  <2>1. TypeOK'
    BY ProceedType DEF Proceed, Inv
  <2> QED
    BY <2>1 DEF TypeOK, Calls
<1> HIDE DEF r
<1>6. CASE ~call[t].done \/ r.kind = "receive"
  <2>1. [u \in Threads |-> call'[u].request] = [u \in Threads |-> call[u].request]
    BY <1>1 DEF r
  <2>2. [u \in Threads |-> call'[u].done]
          = [[u \in Threads |-> call[u].done] EXCEPT ![t] = TRUE]
    BY <1>1, <1>4, <1>5
  <2>3. [u \in Threads |-> call'[u].data]
          = IF r.kind = "write" THEN [u \in Threads |-> call[u].data]
            ELSE [[u \in Threads |-> call[u].data] EXCEPT
                    ![t] = memory[r.chip][Register(r.chip, r)]]
    BY <1>1, <1>4
  <2>4. File!Register(r) = Register(r.chip, r)
    BY DEF File!Register, Register
  <2>5. [u \in Threads |-> Result(call'[u])] = [u \in Threads |-> Result(call[u])]
    BY <1>2
  <2>6. Result(call[t]) = "none"
    BY <1>1 DEF Result
  <2> QED
    BY <1>3, <1>4, <1>6, <2>1, <2>2, <2>3, <2>4, <2>5, <2>6
    DEF File!CarryOut, File!NoRequest, NoRequest, Result, r
<1>7. CASE call[t].done /\ r.kind # "receive"
  <2>1. /\ counter[r.chip] = (r.reg + 1) % Registers
        /\ IF r.kind = "write" THEN memory[r.chip][r.reg] = r.val
           ELSE call[t].data = memory[r.chip][r.reg]
    BY <1>1, <1>7 DEF Repeatable, r
  <2>2. Register(r.chip, r) = r.reg
    BY <1>7 DEF Register
  <2>3. memory' = memory /\ counter' = counter
    BY <1>3, <1>4, <2>1, <2>2 DEF TypeOK
  <2>4. call'[t].done = call[t].done /\ call'[t].data = call[t].data
    BY <1>4, <1>5, <1>7, <2>1, <2>2
  <2> QED
    BY <1>1, <1>2, <2>3, <2>4, Unseen DEF chips, r
<1> QED
  BY <1>5, <1>6, <1>7

\* A call answers when it gives its last mutex up.
LEMMA FileAnswer ==
  ASSUME TypeOK, Inv, NEW t \in Threads, GoesTo(t, "answered"), SameResult(t),
         UNCHANGED chips, call[t].pc \in {"release", "release mux"}
  PROVE  File!Answer(t)
<1>1. call[t].request \in Requests /\ (call[t].ok => call[t].done)
  BY DEF Inv, Asked, AskedOf
<1>2. call[t].request # NoRequest
  BY <1>1, RequestFacts
<1>3. \A u \in Threads : /\ call'[u].request = call[u].request
                         /\ call'[u].done = call[u].done /\ call'[u].data = call[u].data
  BY DEF GoesTo, SameResult, SameButOk
<1>4. Result(call[t]) = "none" /\ Result(call'[t]) = IF call[t].ok THEN "ok" ELSE "error"
  BY DEF Result, GoesTo, SameResult
<1>5. [u \in Threads |-> Result(call'[u])]
        = [[u \in Threads |-> Result(call[u])] EXCEPT ![t] = Result(call'[t])]
  BY DEF GoesTo
<1> QED
  BY <1>1, <1>2, <1>3, <1>4, <1>5 DEF File!Answer, File!NoRequest, NoRequest, chips, Result

LEMMA FileReturn ==
  ASSUME TypeOK, NEW t \in Threads, Return(t)
  PROVE  File!Return(t)
<1>1. /\ call'[t] = Idle /\ \A u \in Threads \ {t} : call'[u] = call[u]
      /\ call[t].pc = "answered" /\ UNCHANGED chips
  BY DEF Return, TypeOK
<1>2. Result(call[t]) # "none" /\ Result(call'[t]) = "none"
  BY <1>1 DEF Result, Idle
<1>3. /\ [u \in Threads |-> call'[u].request]
           = [[u \in Threads |-> call[u].request] EXCEPT ![t] = NoRequest]
      /\ [u \in Threads |-> call'[u].done]
           = [[u \in Threads |-> call[u].done] EXCEPT ![t] = FALSE]
      /\ [u \in Threads |-> call'[u].data]
           = [[u \in Threads |-> call[u].data] EXCEPT ![t] = 0]
  <2>1. Idle.request = NoRequest /\ Idle.done = FALSE /\ Idle.data = 0
    BY DEF Idle
  <2> QED
    BY <1>1, <2>1
<1>4. [u \in Threads |-> Result(call'[u])]
        = [[u \in Threads |-> Result(call[u])] EXCEPT ![t] = "none"]
  BY <1>1, <1>2
<1> QED
  BY <1>1, <1>2, <1>3, <1>4 DEF File!Return, File!NoRequest, NoRequest, chips, Result

LEMMA FileCrash ==
  ASSUME Restart
  PROVE  File!Crash
<1>1. \A u \in Threads : call'[u] = Idle
  BY DEF Restart
<1> QED
  BY <1>1 DEF Restart, File!Crash, File!NoRequest, NoRequest, Idle, chips

LEMMA FileStep ==
  ASSUME TypeOK, Inv, ChannelSelected, Repeatable, [Next]_vars
  PROVE  [File!Next]_(File!vars)
<1>1. ASSUME NEW t \in Threads, Proceed(t) PROVE [File!Next]_(File!vars)
  <2>1. CASE Transfer(t) \/ TransferFails(t)
    <3>1. call[t].pc = "transfer" /\ call[t].request \in Requests
      BY <2>1, OneAnswers DEF Transfer, TransferFails
    <3>2. CASE TookEffect(t)
      BY <2>1, <3>1, <3>2, FileCarryOut DEF File!Next
    <3>3. CASE UNCHANGED chips /\ SameResult(t)
      <4>1. call'[t].pc # "answered" /\ call'[t].request = call[t].request
        <5>1. Retry(t).pc # "answered" /\ AfterTransfer(t, TRUE) # "answered"
          BY RetryType DEF AfterTransfer
        <5> QED
          BY <2>1, <5>1, AfterTransferStep DEF GoesTo
      <4> QED
        BY <1>1, <3>1, <3>3, <4>1, UnseenStep DEF SameResult
    <3> QED
      BY <2>1, <3>2, <3>3, TransferEffect
  <2>2. CASE Return(t)
    BY <2>2, FileReturn DEF File!Next
  <2>3. CASE ReleaseMux(t) \/ (Release(t) /\ ~Muxed(t))
    <3>1. GoesTo(t, "answered") /\ SameResult(t)
      BY <2>3, AfterMux, AfterBus
    <3>2. UNCHANGED chips /\ call[t].pc \in {"release", "release mux"}
      BY <2>3 DEF ReleaseMux, Release
    <3> QED
      BY <3>1, <3>2, FileAnswer DEF File!Next
  <2>4. CASE /\ ~(Transfer(t) \/ TransferFails(t)) /\ ~Return(t)
             /\ ~(ReleaseMux(t) \/ (Release(t) /\ ~Muxed(t)))
    <3>1. UNCHANGED chips
      BY <1>1, <2>4, ChipsKept
    <3>2. call[t].pc # "answered"
      BY <1>1, <2>4 DEF Proceed, TakeMux, WritePin, PinFails, TakeBus, SetSlave, PecOn,
                        SetFails, PecOff, Release
    <3>3. /\ call'[t].pc # "answered" /\ call'[t].request = call[t].request
          /\ SameButOk(t)
      BY <1>1, <2>4, AfterMux, AfterBus DEF Proceed, GoesTo, SameResult
    <3> QED
      BY <1>1, <3>1, <3>2, <3>3, UnseenStep
  <2> QED
    BY <1>1, <2>1, <2>2, <2>3, <2>4
<1>2. ASSUME NEW t \in Threads, NEW r \in Requests, Start(t, r) PROVE File!Next
  BY <1>2, FileAsk DEF File!Next
<1>3. CASE Restart
  BY <1>3, FileCrash DEF File!Next
<1>4. CASE Initialise \/ UNCHANGED vars
  <2>1. UNCHANGED chips /\ call' = call
    BY <1>4 DEF Initialise, vars
  <2> QED
    BY <2>1, Unseen
<1> QED
  BY <1>1, <1>2, <1>3, <1>4 DEF Next

\* The bus is a file of registers to its callers, in spite of the retries, of
\* chips with the same address, of failures and of restarts.
THEOREM RegisterFileImplemented ==
  ASSUME AtMostTwoPins
  PROVE  Spec => ImplementsRegisterFile
<1>1. Init => File!Init
  BY BusAssumption, FileAssumption DEF Init, File!Init, File!NoRequest, NoRequest, Idle
<1>2. Init => Repeatable
  BY DEF Init, Repeatable, Idle
<1>3. TypeOK /\ Inv /\ ChannelSelected /\ Repeatable /\ [Next]_vars => Repeatable'
  BY RepeatableStep
<1>4. TypeOK /\ Inv /\ ChannelSelected /\ Repeatable /\ [Next]_vars
        => [File!Next]_(File!vars)
  BY FileStep
<1> QED
  BY <1>1, <1>2, <1>3, <1>4, Invariance, ChannelCorrect, PTL
  DEF Spec, ImplementsRegisterFile, File!Spec
===============================================================================
