# Verification of the SONiC SDI device drivers

`libsonic_sdi_device_drivers.so` holds the drivers for the chips of Dell switches: the CPLDs
and their pins, the I2C multiplexer, SFP and QSFP transceivers, fans, temperature sensors,
EEPROMs and LEDs. A daemon loads the library, registers the devices of an XML configuration
(`conf/device.xml` is the one of the S6000) and then calls the drivers from several threads.
No thread belongs to the drivers: everything below is about *calls* of unknown threads that
meet in shared objects - pin groups, CPLD registers, buses, transceivers - and about bus
transactions that can fail at any point.

The TLA+ modules of this directory model those calls step by step, TLC checks them on small
configurations, and TLAPS proves the main properties for every configuration. `PROJECT.json`
maps each definition to the source lines it stands for, and lists the runs, the mutated
definitions each property has been shown to catch, the findings, the hazards and the theorems.

Run `tlc -config X.cfg M` with the module and configuration of a run, and `tlapm M.tla` for a
module of proofs.

## Inventory

| component | state | operations | where it is modelled |
|---|---|---|---|
| CPLD pins and pin groups (`sdi_cpld_pin.c`, `sdi_cpld_pin_group.c`) | the registers of the CPLD; a mutex per pin and per group | read level, write level (a read-modify-write of each register), initialisation | `CpldLines`, `PinGroupLevel` |
| CPLD (`sdi_cpld.c`) | list of pins and groups | registration, initialisation of its lines | `CpldLines` (Init, Boot, assumptions) |
| transceiver control lines (`sdi_qsfp.c`, `sdi_sfp.c`) | bits of pin groups shared by all ports | presence, low-power mode, reset, transmitter, LED, each under the mutex of the group | `CpldLines` (GetLevel, ModifyBit) |
| I2C multiplexer (`sdi_i2cmux_pin.c`) | channel (a GPIO group), `mux_lock` | acquire, execute, release for each transaction | `BusAccess` |
| transceiver selection (`sdi_qsfp_eeprom.c`, `sdi_sfp_eeprom.c`) | mux-select and module-select groups | `module_select`, `module_deselect` around each call | `BusAccess`, which implements `ModuleSelection` |
| QSFP memory (`sdi_qsfp_eeprom.c`) | the page and the transmitter byte of the module | 14 calls of up to five transactions | `QsfpMemory` |
| SFP memory and PHY (`sdi_sfp_eeprom.c`) | EEPROM, diagnostics, registers of the copper PHY | reads with calibration; autonegotiation, mode and speed as read-modify-writes and a reset: 14 calls | `SfpModule` |
| I2C bus (`sys-interface-drivers/sdi_i2cdev.c`) | bus mutex; slave address and packet error checking of the one descriptor | SMBus transactions with retries | `I2cBus`, which implements `RegisterFile`; the mutex in `BusAccess` too |
| GPIO (`sys-interface-drivers/sdi_gpio.c`, `sdi_sysfs_gpio_helpers.c`) | direction, level and polarity files of each pin | export, initialisation, level of a pin or group | groups in `I2cBus`; single pins not modelled |
| fan controllers (`sdi_max6620.c`, `sdi_emc2305.c`, `sdi_cpld_fan_ctrl.c`) | target and drive registers, fault registers, the fault latch of the MAX6620 | initialisation, speed get and set, status | `Max6620`; the status of the EMC2305 in `Emc2305`; its speed and the CPLD fan are not modelled |
| temperature sensors (`sdi_emc142x.c`, `sdi_max6699.c`, `sdi_tmp75.c`, `sdi_linux_lm75.c`; `sdi_sysfs_helpers.c`) | limit registers and the driver's copies of them | initialisation, thresholds set and answered, status, temperature | `Thresholds` |
| PMBus, PSU (`sdi_pmbus_dev.c`, `sdi_s6k_psu.c`) | none | one transaction each and a conversion | not modelled |
| EEPROMs (`sdi_eeprom.c`, `sdi_onie_eeprom.c`, `sdi_dell_eeprom.c`, `sdi_extreme_eeprom.c`) | the address counter of a large chip; nothing in the drivers | entity information read in one of five ways: ONIE TLVs (small and large chip), EXOS power supply and fan tray, Dell/Delta table | `EepromRead` |
| LEDs (`sdi_mono_color_pin_led.c`, `sdi_seven_segment_pin_led.c`) | lines of the CPLD | on, off, digits | as writes of a line in `CpldLines` |
| pseudo bus, I/O bus, headers, packaging | none after start | registration | not modelled: no behaviour of the running system |

How they interact. A transceiver call takes its select groups and writes their registers,
which are registers of a CPLD; each of these writes and each transaction of the call itself
goes to a device behind the multiplexer, that is, takes `mux_lock`, the GPIO group of the
channel and the mutex of the parent bus, sets the channel, makes the transfer and gives the
three back. Mutexes are always taken in the order mux-select group, module-select group,
`mux_lock`, GPIO group, bus. The framework takes the mutex of a pin for the driver; the mutex
of a group is taken by the caller (the QSFP, SFP, multiplexer, LED drivers), who can so put a
read and a write of the group in one critical section.

What is hard: the lines of one CPLD register have different mutexes; a level takes several
transactions, and so does a transceiver call, with other threads moving the channel, the
select groups and the registers in between; every transaction can fail, also after it took
effect, and failed ones are retried; settings of one descriptor (slave address, error checking)
are shared by all calls on a bus; copies of registers can differ from the registers; modules
are pulled and plugged while they are read; a restarted daemon finds pins, limits and faults as
the old one left them.

Correctness, per component: a level that was written stays (lines), the bits of a level are
where the figures in the code put them (levels), a transaction reaches its device and no
other, nobody waits for ever (access), no call leaves the module in a state that makes
another call wrong (QSFP), the PHY keeps what it was given (SFP), no fault of a fan is lost or
reported twice, and the fan keeps its speed (fan controllers), information is of one unit
only, and a good EEPROM is not refused without a cause (EEPROMs), the limit that is answered is
the one in the chip, and no alarm is missed (temperature sensors), a call on a bus does what it
was asked to its own chip and to no other (bus and GPIO).

## Modules

**`IndependentLines`** is the abstract specification of the CPLD lines: each line is an object
of its own that only its owner changes. Registers do not exist in it.

**`CpldLines`** is the detailed one. A bit of a register is a *cell*; a register, a level and
a buffer are sets of cells that are 1. State: the register bank (`high`), the mutex of each
line, and per thread the line of its call, the index of the register loop (`k`), the level and
the byte between its read and its write (`buf`). Actions: `Boot` (`bus_init` of one line,
unlocked, in the single-threaded start of the daemon), `GetLevel`, `SetLevel` and
`ModifyBit` (a caller takes the mutex), `ReadRegister`, `LoadRegister`, `StoreRegister`
(one bus transaction each), `BusError` (any transaction fails; a write that fails may have
been carried out), `Leave`, and `Sense` (the hardware moves an input). `ask`, `want` and
`goal` are history variables: what the running call is to change and what the last call that
succeeded promised of each cell. `ImplementsIndependentLines` is the refinement.

**`PinGroupLevel`** is the part `CpldLines` abstracts: which bit of a level is which bit of
which register. Numbers are sets of bit positions, so shift, mask and complement are what they
are in C, and callers pass levels that fit the group; `Write` and `Read` are the loops of
`sdi_cpld_pin_group_write_level` and
`_read_level` with their special cases for the first, last and only register.

**`BusAccess`** composes the multiplexer and the selection. Per thread: the device of its
call, the `stage` (selecting one of two groups, accessing), the transactions that are `left`
in the stage, and how far the current transaction has got in taking its mutexes (`bus`).
Every blocking call is a step. Taking several mutexes back in one error path is one step:
no other thread can tell.  A register write of a select group may connect any devices of the
group until the last one is done. `mux_lock` turns out to be redundant: the GPIO group's mutex
is held wherever it is.

**`QsfpMemory`** models every call of the QSFP EEPROM driver as the set of its possible
sequences of transactions on one cage: reads of the lower and of the upper memory, the
read-modify-write of the transmitter byte, and the page selections of
`sdi_qsfp_threshold_get`. `BusError` can hit any transaction and does what the code does at
that line: `threshold_get` goes on to restore page 0, every other call leaves its loop. The
selection is one mutex here, an instance of `ModuleSelection` as the select groups of
`BusAccess` are. `Pull` and
`Plug` exchange the module at any time. A call with an invalid channel or an unsupported
threshold returns before it selects anything and is not a step.

**`SfpModule`** does the same for the SFP EEPROM driver. A register of the copper PHY is the
set of its bits that some call changes; `Written` is what a write makes of it, with the reset
that ends a power-down. A calibrated read has two selections: `ReadType` ends the first one,
and other calls, or another module, may come before `Select` begins the second. Whether the
PHY is reset depends on the data just written (`PhyWrite`), and a reset goes on without the
register when it cannot be read (`BusError`), both as in the code. A call is a step from the
moment it has the select group, since a thread that waits has done nothing. `goal` is a
history variable: what the last call that was carried out asked for, "any" when nothing is
promised any more. Both transceiver modules assume that the transceiver has a select group:
without one (an SFP may have none) the code takes no mutex at all.

**`Max6620`** is one MAX6620 with its fans and the calls of its driver. `reg` holds the fault
bits, which a read clears, the fans the chip still watches, the target counts and the speed
ranges; `fan_faults`, `max_speed` and `tach_count_period` are the driver's. `ResourceInit`,
`SpeedSet` and `StatusGet` start the calls, and each transaction is a step: `DynRead`,
`DynWrite` (its failure is ignored), `VoltRead`, `TargetRead`, `TargetWrite`, `CfgWrite` for
init and speed, `FaultRead`, `KeepRead`, `KeepWrite` for the status. A write that fails may
have been carried out; a read that fails has cleared nothing. `Fault` lets a watched fan break
between any two steps. Two facts about the chip are not in the driver's text but in what it
does: a read clears the fault register (it latches what it reads), and a fan with a fault is
not watched until its target is written (the comment on line 637). The registers outlive the
daemon, so `Init` has any faults and any watched fans. The driver has no mutex, and the model
does not give it one: calls on one chip are assumed to come one after the other, which is a
demand on the callers (the hazards name what goes wrong otherwise). `chip_init` and
`speed_get` are not modelled. `faults`, `reported`, `goal` and `ready` are history variables.

**`Emc2305`** is the status call of the EMC2305 under the same assumption: four registers that
a read clears, `ClearFault` of the chip's initialisation, `ReadFault` for one fan, which keeps
nothing of what it reads, and `ReadWatchdog`.

**`EepromRead`** is a slot with one EEPROM and the threads that ask for its entity
information; no mutex is held over the transactions of a call. The configuration picks one of
five readers (`parser`). Per thread: where the call is (`pc`, `pos`, `end`), whether the
address of the next byte has been written (`aimed`), whose bytes it has read (`src`: a unit,
`NoUnit`, or `Mixed` when they are of two units or not from their places) and which fields it
has filled in (`shown`). On a large chip a byte takes the dummy write `Aim` and then
`Receive`, which returns the byte at the chip's own `counter`; on the others `ReadPiece` is one
transaction. `ValidateHeader` and `ValidateChecksum` are the checks of ONIE images; the
second read's result is dropped, so `BusError` in it leads to the checksum and not to a
return. `Position`, `Left` and `Visited` are the walk over the TLV fields with the figures of
the code. `ReadHead` and `ReadValue` walk the chain of an EXOS fan tray, `LookUpPart` and
`EndTable` end the other two readers. The byte contents are not modelled, and a checksum is
perfect: it passes exactly when all bytes are of one unit and in their places. A header that
is not may say any length. `Pull` and `Plug` exchange the unit at any time. `clean` is a
history variable: nothing has come in between the steps of the call - no transaction failed,
the unit was not pulled, nobody moved the address between `Aim` and `Receive`.

**`Thresholds`** is a temperature sensor chip with one of the four drivers that keep copies of
its limits; the configuration picks the `driver`. State: the limit registers (`reg`), the copies
(`cache`), how far the `phase` of the daemon is, and per thread its call. `BeginSet` is the entry
of `threshold_set` - the caller's (`ThresholdSet`, `LowSet` for the low limit of `linux_lm75`,
which has no register), or that of an initialisation that sets one default after the other
(`Boot`, `ResourceInit`, `Proceed`; `Following` is the order). `Write` and `Store` are the two
orders in which register and copy are changed: `emc142x` and `max6699` write first, `tmp75` and
`linux_lm75` store first. `Load` and `WriteAttribute` are the two attributes of `linux_lm75`,
which computes each from the copy anew and never sees that a write was refused. `opened` is how
many of its three attributes the `chip_init` of `linux_lm75` has opened (`Open`): after an error
the sensor serves the calls whose attributes are open, and a call for another one ends in an
assertion, which the model shows as a call that takes no further step. `Fail` is a
write that failed, perhaps after it took effect; `GiveUp` returns its error, and copies the
default of the critical limit all the same, as `emc142x` does. `StatusGet`, `CompareHigh` and
`CompareLow` are the status calls of `tmp75` and `linux_lm75`, which compare a temperature read
before with the two copies one by one; `Reading` is what they make of the temperature. No driver
has a mutex, so calls of different threads interleave at each of these steps. `expected`,
`settled`, `synced`, `touched`, `highs` and `lows` are history variables: the answer that is
due, the limits whose last setting had no other beside it (`settled`) and no failed write either
(`synced`), those a caller has set, and the limits in force during a status call.

**`ModuleSelection`** is what the transceiver drivers expect of `module_select`: until
`module_deselect` the caller is the only one that uses the module, and no module that shares a
select group with it is used. In `BusAccess`, whose call uses a module from the end of its
selection to its return, the CPLD registers, the multiplexer and any failures lie in between. In
`QsfpMemory` and `SfpModule` a call uses the module while it makes transactions. All three have
`ImplementsModuleSelection`, so the one mutex of the latter two promises no more than the select
groups keep; a specification in which all three run together is not written.

**`RegisterFile`** is what the drivers expect of a bus: each chip is a file of registers, a call
that returns without an error took effect on its own chip between its start and its end, and one
that fails may have. **`I2cBus`** is how the code does it: `Export`, `SetDirection`, `SetLevel`
and `SetPolarity` initialise the pins of the multiplexer's GPIO group, one file of one pin per
step, and `BootFails` ends them; `TakeMux`, `WritePin` and `PinFails` select the channel pin by
pin; `TakeBus`, `SetSlave`, `PecOn`, `Transfer`, `TransferFails`, `PecOff` and `Release` are a
transaction with its retries on the descriptor all threads share. `Restart` ends the daemon at
any step; pins and chips stay as they are. `Answering` are the chips that see a transfer: those
with the slave address on the parent bus or on the channel the pins select, which need not be
the one that was meant. `mux_lock` and the mutex of the group are taken together (`BusAccess`
has them apart). Every call on a chip asks for PEC or none does, as in the drivers.
`sdi_i2c_execute` is left out: no driver calls it. `stuck` is a history variable. The level of
the group, which is the number of the channel, is the set of its bits.

`MC*` modules and the `.cfg` files give the constants their values.

## Runs

| run | what it asks | instance |
|---|---|---|
| `CpldApart` | levels written with success stay; the lines implement `IndependentLines`; every call returns | two threads; a group over two registers, an input in the second of them, an inverted pin in a third |
| `CpldTogether` (violation) | the same for a pin and a group in one register | register 0x14 of the master CPLD |
| `GroupAligned` | read-back, layout and neighbours | every placement in up to three registers of three bits that starts at bit 0 if it has several, both polarities, every old value and level |
| `BusAccess` | the right device answers, the select groups implement `ModuleSelection`, no deadlock, someone returns | two threads; two transceivers of one group, one with a mux-select group too, two sensors with one address, a CPLD, a device on the parent bus |
| `QsfpMemory` | pages, transmitters, module released | two threads, two lanes |
| `QsfpThreshold` (violation) | a threshold answered with success was read | the same |
| `SfpModule` | autonegotiation, speeds, power-down, calibration, module released | two threads, modules with every calibration and with the PHY in power-down or not |
| `Max6620` | faults kept, reported once and in the end; fans watched; speed held | two fans of 2000 and 18000 RPM, speeds whose count fits the register and does not |
| `EmcFaults` (violation) | a fault is kept until the status of its fan is asked for | two fans |
| `EepromRead` | information of one unit, buffers, no call refused without a cause | two threads, each of the five readers, four units |
| `Thresholds` | the limit answered is the last one set and the one in the chip; defaults are in force; no alarm is missed | two threads, two calls, each of the four drivers, two sensors, two configurations (one with a default that does not fit a byte) |
| `I2cBus` | the channel of the chip is selected; PEC as asked; the bus implements `RegisterFile` | two threads; two chips with one address on two channels, one with PEC, a chip on the parent bus read byte after byte; restarts |

Bounds. Two threads are enough for every race here: each property is about one call and what
another does between two of its steps, and the mutexes exclude all but one owner; the proofs
below have no bound. Registers of three bits have a first, a middle and a last bit, three
registers a first, a middle and a last register. `MaxAccesses` = 2 lets others run between two
transactions of a call; select groups have one and two registers. The paths of `QsfpMemory`
and `SfpModule` are finite by themselves. `MaxFaults` in `Max6620` counts the faults of a fan:
one is enough for a fault to be lost, and two for one to come while an older one is reported;
the first fan has two and the second, whose fault is lost or kept by the calls of the first,
has one. One drive voltage (511, full speed) is enough, since it only picks a speed. In
`EepromRead` a one-byte address reaches `SMALL` = 12 bytes and the large chip has 24, the
header and the CRC have one byte each, a table three fields; the images of the four units are
the shortest ones whose fields the walk could miss (fields without a value), one that is longer
than a one-byte address reaches, and ones after which the walk stops before the CRC and runs on
behind it; the chains have each defect the driver looks for. `MaxCalls` = 2 in `Thresholds` counts
the calls that set limits, in which chip_init is not included: two of them race in every way, and
the proofs have no such bound; it also ends the run, which is why deadlock is not checked there.
`SDI_MAX_IIC_RETRY` is 2 and not 5: the second try is the one that finds the effect of the first,
and later ones find no more. Two registers and two pins are enough for a counter that moves and a
channel selected half-way. There are no other bounds.

Fairness. A thread inside a driver keeps running (weak fairness of its steps), nobody has to
call a driver, and the mutexes are not fair: which waiting thread gets one is open. So
`CallsReturn` says of a thread that *has* the mutex of a line that it gives it back, and
`SelectionReleased` the same for a transceiver; of waiting threads only `SomeoneReturns` holds
(one of them returns), not that each does. `FaultReported` needs more: a call goes on (weak
fairness), the status of every fan is asked for again and again whatever other calls come
(strong fairness, and the one demand on the callers - a daemon that polls), and from some time
on the transactions of status calls work (`<>[][~StatusFails]_vars`; with a bus that fails for
ever nothing can be reported).

The three violations are disagreements between the code and what its comments say:

* `sdi_cpld_pin.c:132`: lines of one register undo each other's writes (`CpldTogether`).
  `conf/device.xml` has such registers: 0x3, 0x7, 0x8 and 0x14 of the master CPLD.
* `sdi_qsfp_eeprom.c:1245`: the error of a failed threshold read is overwritten by the result of
  restoring page 0, and the caller gets 0 and `STD_ERR_OK` (`QsfpThreshold`).
* `sdi_emc2305.c:462`: the status call of one fan clears the fault bits of all of them and
  drops those of the others, whose own calls then find no fault (`EmcFaults`).

Two more disagreements have no run of their own:

* `sdi_cpld_pin_group.c:378`: a group of several registers that does not start at bit 0 is not
  read back as it was written, which the comment on line 253 does not except. `ReadBack` fails
  once `Groups` of `PinGroupLevel` has such a group; the run and `ReadBackCorrect` have the
  aligned ones. No group of `conf/device.xml` is so placed. With inverted polarity the read also
  toggles bits that belong to a neighbour.
* `sdi_sfp_eeprom.c:1967`: `sdi_sfp_phy_mode_set` looks for the power-down bit in the register it
  has just written, which is not the one that has it, and so resets, that is wakes, a PHY that is
  powered down, which is what the comment on lines 1963-1966 means to prevent.
  `AutonegKeepsPowerDown` is violated with the mode call in place of the autonegotiation call.

More things the models show, of which no comment says otherwise: a reset whose read fails
(`sdi_sfp_eeprom.c:1846`) writes a register without autonegotiation, so `AutonegGoal` promises
nothing after it; and a `sdi_sfp_phy_speed_set` that fails half-way can leave a PHY that
advertises no speed at all, or both the old and the new one, so `SpeedGoal` speaks of calls
that succeeded. `sdi_max6620_fan_target_tach_count_set` cuts a count to eleven bits: with a
period of 32 a speed from 1 to 3840 RPM (two pulses) commands a much larger one, and `SpeedHeld`
speaks of speeds that fit. `sdi_max6620_init_fan` goes on when the period cannot be written,
and computes speeds with a period the chip does not have; `SpeedHeld` promises nothing then.
A level wider than its group would change bits of its neighbours: `sdi_cpld_bit_set_sub_bitstream`
does not mask it, although the comment on lines 253-255 of `sdi_cpld_pin_group.c` says so;
`PinGroupLevel` assumes levels that fit.

`sdi_eeprom_read` sends 0 where its comment (line 167) has the high byte of the address, so an
image of more than 256 bytes on a chip of 8192 or 16384 is never read: `FailsOnlyDisturbed`
counts it as not readable. The walk over the TLV fields runs on behind the CRC for some steps
and stays in the buffer only if the image ends early enough (`WalkAssumption`). The readers
without a checksum (Dell, Delta, EXOS fan tray) can return fields of two units if the unit is
exchanged during the call; `InfoOfOneUnit` promises less for them.

The initialisation of an `emc142x` sensor copies the default of the critical limit after the
write of the register has failed, so that `threshold_get` answers a limit the chip does not have;
`ThresholdAnswered` promises nothing for it. `linux_lm75` reports a limit that the kernel refused
as set, and `tmp75` takes a temperature below zero for one above 127 degrees. Thresholds below
zero are refused. The fault bit is answered as true by `emc142x`, as false by `max6699`, whose
comment (line 254) says so.

The mask `gpio_cnt - gpio_index` of a GPIO in a group (`sdi_gpio.c:499`) is its bit for groups of
one or two pins only; the first of three has mask 3, and `ChannelSelected` fails with three pins.
A pin gets its default level before its polarity, so that for a moment an inverted one has the
other level; no call runs then. A byte that is received at the address counter can be read twice
by a retry, the answer being the second; `RegisterFile` allows that for this one call. When PEC
cannot be switched off it stays on for calls that did not ask for it (`stuck`), and the call
that could not is told.

Read in the code and not modelled: `sdi_i2c_read` and `sdi_i2c_write` (`sdi_i2cdev.c`, from 383
on) send the first byte of a command twice; the level of a GPIO whose value cannot be read is
reported as high; `sdi_rpm_to_tach_count` (`sdi_emc2305.c:343`) uses the poles in place of the
range, and divides by the speed also when it is 0.

## Proofs

TLAPS checks all theorems for every set of threads and every configuration that satisfies the
assumptions of the module. Assumptions: `ThreadAssumption` (no thread is `NoThread`);
`ConfigAssumption` (what `sdi_cpld_register` asserts: registers in range, lines disjoint);
`GroupAssumption`; `FanAssumption` (numbers are natural, a fan has at least one pulse);
`NameAssumption`, `ImageAssumption`, `ChainAssumption` and `WalkAssumption` (images and chains
are what their formats say, and the walk stays in the buffer); `SensorAssumption`,
`TemperatureAssumption` and `NumberAssumption` (a chip has a sensor, temperatures are those of a
signed byte of degrees, the other figures are integers); `ShapeAssumption` and
`AddressAssumption` (devices with one address are on different channels or told apart by a
select group, which is what makes a configuration usable at all); `FileAssumption` and
`BusAssumption` (requests name registers of the chips, a group has one to eight pins, a
transaction is tried at least once). The theorems about levels need `EightBits` (`BITS_PER_BYTE`
is 8), two of them `Aligned`; three about lines need `RegistersNotShared`, which the code does
not guarantee and `CpldTogether` shows to be necessary; two about the multiplexer need
`AtMostTwoPins`, as the code does (see `sdi_gpio.c:499` above) and `conf/device.xml` has it.

* `CpldProofs`, on `CpldLines`: `TypeCorrect` and `LocksCorrect` hold without further
  assumptions. The inductive invariant `Inv` adds for each thread that its buffer is fresh
  (`Fresh`), that what it has read so far agrees with the registers (`ReadSoFar`), that the
  level it is to write leaves unasked cells alone (`Plan`), and that the registers before `k`
  are written (`WrittenSoFar`); without the last two, the success of the last register would say
  nothing of the first. `BuffersFresh`, `GoalsCorrect` and `LinesIndependent` (the refinement,
  step by step) follow from it.
* `CpldProofs`, on `PinGroupLevel`: `LevelTypesCorrect` (registers of any width),
  `NeighboursAreKept`, `LayoutCorrect`, `ReadBackCorrect`. `Layout` is
  proved bit by bit from what a register keeps after a write (`Holds`); read-back follows since
  a level is determined by the bits of the registers.
* `BusAccessProofs`: `TypeCorrect`, `OnlyTheDeviceCorrect`, `DeadlockFree`, `SelectionImplemented`.
  The inductive invariant says which mutexes a thread has at each point (`OwnsHeld`), that the
  channel stays set through a transaction (`ChannelKept`) and a selection through a call
  (`SelectionKept`). `DeadlockFree` then is the order in which mutexes are taken, and
  `SelectionImplemented` that two threads never have one group.
* `QsfpMemoryProofs`: `TypeCorrect`, `PageZeroCorrect`, `InfoCorrect`, `ThresholdCorrect`,
  `LanesCorrect`, `LanesApart`, `SelectionImplemented`, for every set of threads and lanes. The
  inductive invariant adds that only the owner of the select group transfers (`Holding`), that a
  threshold is read with page 3 selected (`PageSelected`), and that the byte
  `sdi_qsfp_tx_control` is about to write is the byte of the module, or nothing is known of the
  lanes of a module plugged in since (`BufferFresh`). `Moved` says what a transaction does to
  the call that makes it, and `MovedInv` reduces every transaction to what it does to the
  module.
* `SfpModuleProofs`: `TypeCorrect`, `AutonegCorrect`, `SpeedCorrect`, `CalibrationCorrect`,
  `PowerDownKept`, `SelectionImplemented`, for every set of threads. The inductive invariant
  says of each call what it knows of the module: the register it writes (`CtrlKnown`),
  autonegotiation in the data of the reset (`ResetKnown`), the first advertisement register when
  it comes to the second (`SpeedKnown`), the calibration type and the constants read so far
  (`CalibrationKnown`). `WroteGoals` is the heart of it: a write that is carried out leaves the
  PHY as it was asked for. `MovedInv` reduces every transaction to what it does to the module
  and to its call.
* `Max6620Proofs`: `TypeCorrect`, `FaultsAreKept`, `AlarmsAreTrue`, `FansAreWatched`,
  `SpeedIsHeld`, for every set of fans, speeds, pulse counts and voltages. The inductive
  invariant adds what a status call knows between its read and its write: the fault it took
  notice of has not been reported, and the register has the bit of the fan exactly if a newer
  one has come since, so that forgetting the latched one loses and repeats nothing
  (`KeepKnown`); the target it is to write back is the one in the register (`KeptKnown`); that
  the target was just written when `CfgWrite` comes (`CfgKnown`); and that the register holds
  the count of the goal with the driver's period (`GoalKnown`). `CountCommands` says of the
  integer division that its result commands the speed it was computed from.
* `EepromReadProofs`: `TypeCorrect`, `InfoCorrect`, `FailsCorrect`, for every set of threads,
  units, images and chains. The inductive invariant says what the fields filled in so far are
  (`Filled`: all heads of the chain before the offset, all fields of the table before the
  index), and that a call nothing came in between has read all its bytes from the unit in the
  slot (`Undisturbed`); for a large chip only if its image is `Short`, and that the counter is
  where the call put it. `UntouchedInv` reduces a step to the thread that takes it.
  `InfoCorrect` needs `WalkComplete`, that the walk comes to all fields of every image. It is
  a fact about numbers: with fields of lengths l1..ln the code has l1 + 2 + (i - 1) and the
  rest of the fields left at field i, which is positive. Positions and what is left are sums
  that recursive functions compute; that such a function exists (`SumsExist`), is the only one
  (`SumsAgree`) and so does what its equation says (`SumFunction`) are inductions over the set
  of numbers for which they hold (`SetInduction`, from the well-foundedness of the numbers), as
  is that the walk visits field after field (`VisitsField`).
* `I2cBusProofs`: `TypeCorrect`, `PecCorrect`, and for groups of at most two pins
  `ChannelCorrect` and `RegisterFileImplemented`, for every set of threads, chips, channels,
  registers and retries. The inductive invariant `Inv` says that no call runs before the pins are
  initialised (`Quiet`), which mutexes a call has from where it is (`Owners`), which pins the
  kernel inverts half-way through the initialisation (`Polarity`), that PEC is off between
  calls (`PecKept`), and that the slave address is the one of the chip until the transfer ends
  (`Addressed`). `Selected` adds that the pins written so far show the channel of the chip: a
  thread that has written one has `mux_lock`. For the refinement only the chip of the call may
  answer (`OneAnswers`, from the channel, the slave address and `AddressAssumption`), so that a
  transfer has its effect there (`TookEffect`); a repeated one finds the chip as the first one
  left it (`Repeatable`), which makes it a stutter of `RegisterFile`, whose `CarryOut` happens
  once. `Start`, `ReleaseMux` or `Release`, `Return` and `Restart` are `Ask`, `Answer`, `Return`
  and `Crash`; all other steps are stutters.
* `ThresholdsProofs`: `TypeCorrect`, `AnswersCorrect`, `CacheCorrect`, `DefaultsCorrect`,
  `AlarmsCorrect`, for every set of threads, number of sensors, thresholds, configurations and
  temperatures. `Control` says which call of which driver can be at which step, and that nothing
  else runs during `chip_init`. On it stand three invariants. `Parts`: the limit a call is setting
  is not settled, of two calls on one limit neither is alone, and one that is alone finds register,
  copy and `expected` as it left them. `Booting`: `chip_init` has set every limit before the one
  it is at, in its order (`Before`). `Alarms`: a status call that has passed a comparison has done
  so with a limit that was in force during the call.

Proved but in no run: `LockDiscipline` and `FreshBuffer` of `CpldLines`, `InfoFromPageZero` and
`OtherLanesKept` of `QsfpMemory`, `ImplementsModuleSelection` of `QsfpMemory` and
`SfpModule`, `WalkComplete`, and the types of `PinGroupLevel` and `I2cBus`.

Only model-checked: the liveness properties (fairness and ENABLED are out of the prover's reach).
The properties of the three violations are false. All other properties of the runs are theorems.

## Not modelled

* The speed of the EMC2305 and the CPLD fan controller: each is one or two transactions and a
  conversion that no later call relies on; what is wrong with them is under Runs.
* `chip_init` and `speed_get` of the MAX6620: the first runs once before any call and writes
  settings of the chip (fault masks, full speed after a fault) that no call changes; the second
  changes nothing.
* PMBus and power supplies: each call is one transaction and a conversion, and keeps nothing.
* Single GPIO pins (a group with one pin), input groups, and queries of direction and polarity,
  which nothing in the repository calls; `sdi_i2c_execute`, which no driver calls.
* The pseudo and the I/O bus, registration from XML, headers and packaging: no behaviour of the
  running system. The configuration appears as constants and their assumptions.
* LED blinking and the digit table: constants that are written as the level of a line.
* What the bytes mean: conversions of monitoring values, strings, flags of transceivers.
