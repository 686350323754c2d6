-------------------------------- MODULE I2cBus --------------------------------
(***************************************************************************)
(* An I2C bus of the kernel with the multiplexer's channel on GPIO pins,   *)
(* down to the files of /sys and the ioctls of /dev/i2c.                   *)
(*                                                                         *)
(* The daemon exports the pins of the group, opens their files and gives   *)
(* each pin its direction, level and polarity, file by file.  Then a       *)
(* transaction on a chip behind the multiplexer sets the pins one by one   *)
(* to the number of the channel; any transaction sets the slave address    *)
(* and, if the driver asks for it, packet error checking (PEC) on the      *)
(* descriptor that all threads share, tries the transfer up to             *)
(* SDI_MAX_IIC_RETRY times, and switches PEC off again.  A transfer that   *)
(* fails may have taken effect.  The daemon can be restarted at any time.  *)
(* The number of a channel is the set of its bits.                         *)
(***************************************************************************)
EXTENDS Integers

CONSTANTS
  Threads,    \* threads that make calls
  NoThread,   \* the owner of a free mutex
  Chips,      \* chips on the bus
  Parent,     \* the place of a chip that is not behind the multiplexer
  Place,      \* the channel of a chip, or Parent
  Address,    \* the address of a chip
  NoAddress,  \* no slave has been set yet
  Pec,        \* chips whose driver asks for PEC
  Registers,  \* number of registers of a chip
  Values,     \* what a register may hold
  PowerOn,    \* what the registers of all chips may hold at the start
  Requests,   \* calls that the drivers make, see RegisterFile
  GpioCnt,    \* pins of the group, its first one is the high bit
  DefLevel,   \* default level of the group
  SDI_MAX_IIC_RETRY

PinIndex == 0..GpioCnt-1
Channels == SUBSET PinIndex  \* as many bits as pins

ASSUME FileAssumption ==
  /\ Registers \in Nat \ {0}
  /\ 0 \in Values
  /\ Requests \subseteq [kind : {"read", "write", "receive"}, chip : Chips,
                         reg : 0..Registers-1, val : Values]

ASSUME BusAssumption ==
  /\ NoThread \notin Threads
  /\ GpioCnt \in 1..8 /\ DefLevel \in Channels
  /\ PowerOn \subseteq [Chips -> [0..Registers-1 -> Values]]
  /\ Place \in [Chips -> Channels \cup {Parent}]
  /\ SDI_MAX_IIC_RETRY \in Nat \ {0}

\* What the configuration has to provide: chips with one address are on
\* different channels.
ASSUME AddressAssumption ==
  \A c, d \in Chips :
    c # d /\ Address[c] = Address[d] =>
      Parent \notin {Place[c], Place[d]} /\ Place[c] # Place[d]

VARIABLES
  memory,    \* the registers of each chip
  counter,   \* the address counter of each chip
  inverted,  \* the board inverts the lines of the group, as configured
  exported,  \* the pins that are exported
  output,    \* the pins whose direction is out
  active_low,\* the pins that the kernel inverts
  driven,    \* the pins that are driven high
  boot,      \* [step, pin] of the initialisation; step is "ready" at its end
  muxLock,   \* owner of mux_lock and of the group's mutex, taken together
  busLock,   \* owner of the mutex of the bus
  slave,     \* slave address of the descriptor
  pec,       \* PEC is on
  stuck,     \* history: PEC could not be switched off
  call       \* the call of each thread

pins == <<inverted, exported, output, active_low, driven, boot>>
chips == <<memory, counter>>
bus == <<busLock, slave, pec, stuck>>
vars == <<chips, pins, muxLock, bus, call>>

NoRequest == [kind |-> "none"]
Idle == [request |-> NoRequest, pc |-> "idle", pin |-> 0, left |-> 0,
         ok |-> FALSE, done |-> FALSE, data |-> 0]

Goto(t, pc) == call' = [call EXCEPT ![t].pc = pc]

-----------------------------------------------------------------------------
\* The pins.

\* The logic level of a pin, as its file value shows it.
High(p, d, low) == (p \in d) # (p \in low)

\* Writing 0 or 1 to value.
Drive(p, high) == IF high # (p \in active_low) THEN driven \cup {p} ELSE driven \ {p}

\* Mutant of LevelMask: the bit of the next pin.
LevelMaskShifted(p) == GpioCnt - p - 1

\* The bit of a level that a pin is written with.
LevelMask(p) == GpioCnt - p

\* The bits of a number below 16.
Bits(n) == {b \in 0..3 : (n \div <<1, 2, 4, 8>>[b + 1]) % 2 = 1}

\* Pin p is written high for level v.
WrittenHigh(v, p) == v \cap Bits(LevelMask(p)) # {}

\* The place of pin p in a level.
Bit(p) == GpioCnt - p - 1

\* The level that sdi_gpio_group_level_read puts together.
GroupLevel == {Bit(p) : p \in {q \in PinIndex : High(q, driven, active_low)}}

\* The channel that the multiplexer connects.
Channel == {Bit(p) : p \in {q \in PinIndex : (q \in driven) # inverted}}

\* After pin p comes the next one, or the first one for the next step.
Following(step) ==
  CASE step = "export" -> "direction"
    [] step = "direction" -> "level"
    [] step = "level" -> "polarity"
    [] step = "polarity" -> "ready"
Advance ==
  boot' = IF boot.pin < GpioCnt - 1 THEN [boot EXCEPT !.pin = @ + 1]
          ELSE [step |-> Following(boot.step), pin |-> 0]

\* A file cannot be opened or written: the initialisation returns the error.
BootFails ==
  /\ boot.step \notin {"ready", "failed"}
  /\ boot' = [boot EXCEPT !.step = "failed"]
  /\ \/ UNCHANGED exported
     \/ boot.step = "export" /\ exported' = exported \cup {boot.pin}
  /\ UNCHANGED <<inverted, output, active_low, driven>>

\* A pin that is exported already keeps its settings; the files are opened.
Export ==
  /\ boot.step = "export"
  /\ exported' = exported \cup {boot.pin}
  /\ Advance
  /\ UNCHANGED <<inverted, output, active_low, driven>>

\* "out" also drives the pin low.
SetDirection ==
  /\ boot.step = "direction"
  /\ output' = output \cup {boot.pin}
  /\ driven' = driven \ {boot.pin}
  /\ Advance
  /\ UNCHANGED <<inverted, exported, active_low>>

SetLevel ==
  /\ boot.step = "level"
  /\ driven' = Drive(boot.pin, WrittenHigh(DefLevel, boot.pin))
  /\ Advance
  /\ UNCHANGED <<inverted, exported, output, active_low>>

SetPolarity ==
  /\ boot.step = "polarity"
  /\ active_low' = IF inverted THEN active_low \cup {boot.pin}
                   ELSE active_low \ {boot.pin}
  /\ Advance
  /\ UNCHANGED <<inverted, exported, output, driven>>

Initialise ==
  /\ Export \/ SetDirection \/ SetLevel \/ SetPolarity \/ BootFails
  /\ UNCHANGED <<chips, muxLock, bus, call>>

-----------------------------------------------------------------------------
\* The chips.

Answering ==
  LET connected == {Parent, Channel}
  IN {c \in Chips : Address[c] = slave /\ Place[c] \in connected}

Register(c, r) == IF r.kind = "receive" THEN counter[c] ELSE r.reg

\* The transfer of thread t takes effect on the chips that answer its address;
\* what is read comes from one of them.
Effect(t) ==
  LET r == call[t].request
  IN /\ memory' = [c \in Chips |->
                     IF c \in Answering /\ r.kind = "write"
                     THEN [memory[c] EXCEPT ![r.reg] = r.val] ELSE memory[c]]
     /\ counter' = [c \in Chips |->
                      IF c \in Answering THEN (Register(c, r) + 1) % Registers
                      ELSE counter[c]]

DataRead(t, c) ==
  LET r == call[t].request
  IN IF r.kind = "write" THEN call[t].data ELSE memory[c][Register(c, r)]

-----------------------------------------------------------------------------
\* The calls.

Start(t, r) ==
  /\ boot.step = "ready" /\ call[t] = Idle
  /\ call' = [call EXCEPT ![t].request = r,
                          ![t].pc = IF Place[r.chip] = Parent THEN "bus" ELSE "mux"]
  /\ UNCHANGED <<chips, pins, muxLock, bus>>

Chip(t) == call[t].request.chip
Muxed(t) == Place[Chip(t)] # Parent

\* sdi_i2cmux_pin_chan_acquire_bus
TakeMux(t) ==
  /\ call[t].pc = "mux" /\ muxLock = NoThread
  /\ muxLock' = t
  /\ call' = [call EXCEPT ![t].pc = "pins", ![t].pin = 0]
  /\ UNCHANGED <<chips, pins, bus>>

WritePin(t) ==
  /\ call[t].pc = "pins"
  /\ driven' = Drive(call[t].pin, WrittenHigh(Place[Chip(t)], call[t].pin))
  /\ call' = IF call[t].pin < GpioCnt - 1 THEN [call EXCEPT ![t].pin = @ + 1]
             ELSE [call EXCEPT ![t].pc = "bus", ![t].pin = 0]
  /\ UNCHANGED <<chips, inverted, exported, output, active_low, boot, muxLock, bus>>

\* The other pins are not written, the channel is whatever the pins say.
PinFails(t) ==
  /\ call[t].pc = "pins"
  /\ call' = [call EXCEPT ![t].pc = "release mux", ![t].pin = 0]
  /\ UNCHANGED <<chips, pins, muxLock, bus>>

\* Mutant of TakeBus: nobody waits for the bus.
TakeBusUnlocked(t) ==
  /\ call[t].pc = "bus"
  /\ busLock' = t
  /\ Goto(t, "slave")
  /\ UNCHANGED <<chips, pins, muxLock, slave, pec, stuck>>

TakeBus(t) ==
  /\ call[t].pc = "bus" /\ busLock = NoThread
  /\ busLock' = t
  /\ Goto(t, "slave")
  /\ UNCHANGED <<chips, pins, muxLock, slave, pec, stuck>>

\* ioctl I2C_SLAVE
SetSlave(t) ==
  /\ call[t].pc = "slave"
  /\ slave' = Address[Chip(t)]
  /\ call' = [call EXCEPT ![t].pc = IF Chip(t) \in Pec THEN "pec on" ELSE "transfer",
                          ![t].left = SDI_MAX_IIC_RETRY]
  /\ UNCHANGED <<chips, pins, muxLock, busLock, pec, stuck>>

\* ioctl I2C_PEC
PecOn(t) ==
  /\ call[t].pc = "pec on"
  /\ pec' = TRUE
  /\ Goto(t, "transfer")
  /\ UNCHANGED <<chips, pins, muxLock, busLock, slave, stuck>>

\* The slave cannot be set or PEC not be switched on: the call fails.
SetFails(t) ==
  /\ call[t].pc \in {"slave", "pec on"}
  /\ call' = [call EXCEPT ![t].pc = "release", ![t].left = 0]
  /\ UNCHANGED <<chips, pins, muxLock, bus>>

\* Mutant of AfterTransfer: an error returns at once.
AfterTransferEarly(t, ok) == IF ok /\ Chip(t) \in Pec THEN "pec off" ELSE "release"

AfterTransfer(t, ok) == IF Chip(t) \in Pec THEN "pec off" ELSE "release"

\* ioctl I2C_SMBUS
Transfer(t) ==
  /\ call[t].pc = "transfer" /\ Answering # {}
  /\ Effect(t)
  /\ \E c \in Answering :
       call' = [call EXCEPT ![t].pc = AfterTransfer(t, TRUE), ![t].left = 0,
                            ![t].ok = TRUE, ![t].done = TRUE,
                            ![t].data = DataRead(t, c)]
  /\ UNCHANGED <<pins, muxLock, bus>>

\* Where a call goes on when a transfer has failed.
Retry(t) ==
  IF call[t].left > 1 THEN [pc |-> "transfer", left |-> call[t].left - 1]
  ELSE [pc |-> AfterTransfer(t, FALSE), left |-> 0]

\* A transfer fails with or without having taken effect.
TransferFails(t) ==
  /\ call[t].pc = "transfer"
  /\ \/ /\ UNCHANGED chips
        /\ call' = [call EXCEPT ![t].pc = Retry(t).pc, ![t].left = Retry(t).left]
     \/ /\ Answering # {}
        /\ Effect(t)
        /\ \E c \in Answering :
             call' = [call EXCEPT ![t].pc = Retry(t).pc, ![t].left = Retry(t).left,
                                  ![t].done = TRUE, ![t].data = DataRead(t, c)]
  /\ UNCHANGED <<pins, muxLock, bus>>

\* PEC is switched off after every transfer that had it, a failed one too; if
\* that fails so does the call.
PecOff(t) ==
  /\ call[t].pc = "pec off"
  /\ \E ok \in BOOLEAN :
       /\ pec' = (pec /\ ~ok)
       /\ stuck' = ~ok
       /\ call' = [call EXCEPT ![t].pc = "release", ![t].ok = @ /\ ok]
  /\ UNCHANGED <<chips, pins, muxLock, busLock, slave>>

Release(t) ==
  /\ call[t].pc = "release"
  /\ busLock' = NoThread
  /\ Goto(t, IF Muxed(t) THEN "release mux" ELSE "answered")
  /\ UNCHANGED <<chips, pins, muxLock, slave, pec, stuck>>

ReleaseMux(t) ==
  /\ call[t].pc = "release mux"
  /\ muxLock' = NoThread
  /\ Goto(t, "answered")
  /\ UNCHANGED <<chips, pins, bus>>

Return(t) ==
  /\ call[t].pc = "answered"
  /\ call' = [call EXCEPT ![t] = Idle]
  /\ UNCHANGED <<chips, pins, muxLock, bus>>

\* A new daemon: its mutexes, descriptor and calls are new, the pins and the
\* chips are as the old one left them.
Restart ==
  /\ boot' = [step |-> "export", pin |-> 0]
  /\ muxLock' = NoThread /\ busLock' = NoThread
  /\ slave' = NoAddress /\ pec' = FALSE /\ stuck' = FALSE
  /\ call' = [t \in Threads |-> Idle]
  /\ UNCHANGED <<chips, inverted, exported, output, active_low, driven>>

-----------------------------------------------------------------------------

\* A pin that is exported may have any level; the kernel does not invert it
\* unless a daemon has told it to.
Init ==
  /\ memory \in PowerOn
  /\ counter = [c \in Chips |-> 0]
  /\ inverted \in BOOLEAN
  /\ exported = {} /\ output = {} /\ active_low = {}
  /\ driven = {}
  /\ boot = [step |-> "export", pin |-> 0]
  /\ muxLock = NoThread /\ busLock = NoThread
  /\ slave = NoAddress /\ pec = FALSE /\ stuck = FALSE
  /\ call = [t \in Threads |-> Idle]

Proceed(t) ==
  \/ TakeMux(t) \/ WritePin(t) \/ PinFails(t)
  \/ TakeBus(t) \/ SetSlave(t) \/ PecOn(t) \/ SetFails(t)
  \/ Transfer(t) \/ TransferFails(t) \/ PecOff(t)
  \/ Release(t) \/ ReleaseMux(t) \/ Return(t)

Next ==
  \/ Initialise
  \/ \E t \in Threads : Proceed(t) \/ \E r \in Requests : Start(t, r)
  \/ Restart

Spec == Init /\ [][Next]_vars
-----------------------------------------------------------------------------

PCs == {"idle", "mux", "pins", "bus", "slave", "pec on", "transfer", "pec off",
        "release", "release mux", "answered"}
Calls == [request : Requests \cup {NoRequest}, pc : PCs, pin : PinIndex,
          left : 0..SDI_MAX_IIC_RETRY, ok : BOOLEAN, done : BOOLEAN, data : Values]

\* Types of the state: the registers, the pins, the mutexes and the calls.
TypeOK ==
  /\ memory \in [Chips -> [0..Registers-1 -> Values]]
  /\ counter \in [Chips -> 0..Registers-1]
  /\ inverted \in BOOLEAN
  /\ exported \subseteq PinIndex /\ output \subseteq PinIndex
  /\ active_low \subseteq PinIndex /\ driven \subseteq PinIndex
  /\ boot \in [step : {"export", "direction", "level", "polarity", "ready", "failed"},
               pin : PinIndex]
  /\ {muxLock, busLock} \subseteq Threads \cup {NoThread}
  /\ slave \in {Address[c] : c \in Chips} \cup {NoAddress}
  /\ pec \in BOOLEAN /\ stuck \in BOOLEAN
  /\ call \in [Threads -> Calls]

\* While a call has the bus the multiplexer connects the channel of its chip,
\* and reading the group would answer that channel: with inverted lines too,
\* after any restart, and although other calls failed half-way through the pins.
ChannelSelected ==
  \A t \in Threads :
    call[t].pc \in {"slave", "pec on", "transfer", "pec off"} /\ Muxed(t) =>
      Channel = Place[Chip(t)] /\ GroupLevel = Channel

\* Transfers are made with PEC if and only if the driver of the chip asks for
\* it, whichever calls ran and failed on the shared descriptor before; unless
\* PEC could not be switched off.
PecAsAsked ==
  \A t \in Threads : call[t].pc = "transfer" /\ ~stuck => (pec <=> Chip(t) \in Pec)

File == INSTANCE RegisterFile WITH
  request <- [t \in Threads |-> call[t].request],
  done <- [t \in Threads |-> call[t].done],
  data <- [t \in Threads |-> call[t].data],
  result <- [t \in Threads |-> IF call[t].pc # "answered" THEN "none"
                               ELSE IF call[t].ok THEN "ok" ELSE "error"]

\* The bus is a file of registers to its callers: a call that returns without
\* an error has had its effect on its own chip, once or as good as once in
\* spite of the retries, and no other chip has changed.
ImplementsRegisterFile == File!Spec
===============================================================================
