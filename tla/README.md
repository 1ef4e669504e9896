# Verification of the CAT GSE controller firmware

TLA+ models of the firmware in `src/Firmware_V2`, which runs a rocket's ground
support equipment: a SAMD21 microcontroller that reads pressures, temperatures
and a load cell, drives sixteen servo valves and a spark, and steps two state
machines (oxidizer and fuel side) that an operator's computer loads, watches and
aborts over USB. Line numbers below are those of `src/Firmware_V2/src/`.

## 1. The system

There is no operating system. `main.c` runs one loop, and interrupts preempt it:

    main loop                              USB interrupt (preempts everything)
      update_sensor_data   devices.c         USB driver, device controller, CDC
      process_sequence     sequencer.c         udi_cdc_rx_callback     main.c
      push_servo_data      devices.c             udi_cdc_read_slip_packet  slip.c
      process_usb_data     main.c                process_command           ui.c
      delay_ms(2)                           SysTick interrupt (preempts main)
                                              msec++                    devices.c

Every command of the host is carried out inside the USB interrupt, between any
two instructions of main, and writes the same variables main uses. Nothing is
protected: none of the application's variables is volatile and main never
disables interrupts. That is where this code is hard to test, and it is what
the models explore.

| Component | State | Operations | Shared with |
|---|---|---|---|
| Sequencer (`sequencer.c`) | two `state_machine`s (states table, current state, keyframe index and pointer, two time stamps), `button_states` | `process_sequence` (main); `execute_abort`, `reset_states`, `set_*_states_data`, `set_button_pressed`, the valve commands (interrupt) | reads sensors and clock; calls `set_servo`, sets the spark pin |
| Servo outputs (`devices.c`) | `servos_data`, `prev_servos_data`, `last_servo_update`, the chip's channels, the enable pin | `set_servo` (main and interrupt), `set_servo_data` (interrupt), `pca9685_write_servos` (main) | I2C buffer and packet, with the sensors |
| Sensors (`devices.c`) | pressures, temperatures, load cell, conversions in progress | `update_sensor_data` (main), queries (interrupt) | I2C, SPI |
| Clock (`devices.c`, `systick_counter.*`) | `msec`, SysTick | `SysTick_Handler`, `get_msec`, `delay_ms` | everybody |
| Command dispatch (`ui.c`) | none | `process_command` | all of the above |
| SLIP link (`slip.c`, `main.c`) | `rx_blob`, `rx_pos` | `udi_cdc_read_slip_packet`, `udi_cdc_write_slip_packet` | CDC |
| CDC data channel (`udi_cdc.c`) | two buffers each way, their fill, which is current, whether a transfer is on | `getc`, `putc`, start of frame, data received, data sent, enable | device driver |
| USB driver, control endpoint (`usb_device_udd.c`, `udc.c`) | endpoint jobs, control phase, configuration | run, abort, halt, setup, bus reset | CDC |
| Bus drivers, sleep manager, board set-up | registers, lock counts | polled transfers | |

What makes each correct:

* Sequencer: an abort sticks; each machine has its current state active; the
  keyframe pointer stays in its array; timers wait as long as they say; a press
  is seen; the servos and the spark end where the state wants them; every turn
  ends.
* Servo outputs: each channel carries what was last asked of it, whatever races
  with the push; positions do not wrap; lost writes are made up for; servos are
  switched off in the end.
* Sensors: a reading belongs to the channel it is stored for, and what a failed
  transfer spoils heals.
* Clock: a delay is never short and always ends, no millisecond is counted too
  soon, and every turn counts some, however often the counter is restarted.
* SLIP: commands are carried out whole, once and in order, however their bytes
  come in; each gets one reply; a packet fits its buffer.
* CDC: both directions are queues: nothing doubled or reordered, and nothing lost
  but by configuring, resetting or halting; what is written is sent; nobody waits for what only he can bring about.
* Control endpoint: a transfer ends, for both sides in the same way; what it
  reads or writes is exact; the address changes when both agree that it does.

`sensors.c`, `sensors.h` and `src/Firmware_V2/ui.c` are not compiled. The
hazards, each at its line, are listed in `PROJECT.json`.

## 2. Modules

| Module | Models |
|---|---|
| `Sequencer` | `sequencer.c`, one memory access of main per step, and the host's commands |
| `SequencerHistory` | the same with history variables, and the properties over several steps |
| `SequencerProofs` | theorems about `Sequencer` |
| `SequencerHistoryProofs` | theorems about `SequencerHistory` |
| `MCSequencer`, `MCSequencerHistory` | states tables for TLC |
| `ServoDriver` | the servo half of `devices.c`, main and interrupt |
| `ServoDriverProofs` | theorems about `ServoDriver` |
| `MCServoDriver` | positions for TLC |
| `UsbCdc` | `udi_cdc.c`'s data channel, the jobs of its endpoints, the receive callback, the host |
| `ByteQueue` | what a direction of the channel promises: a queue of bytes |
| `UsbCdcProofs` | theorems about `UsbCdc` |
| `MCUsbCdc` | lengths of replies for TLC |
| `Slip` | the framing of `slip.c` as operators: encoder, and what a stream of bytes means |
| `SlipLink` | receive loop, decoder in place, receive callback and `process_command`, byte by byte |
| `CommandServer` | what the link promises: commands served whole, once, in order |
| `SlipProofs` | theorems about the framing: what `Unescape` and `Frames` compute |
| `SlipLinkProofs` | theorems about `SlipLink` |
| `MCSlipLink` | commands for TLC |
| `Sensors` | `update_sensor_data`, its chips and buses, and the SysTick counter |
| `SensorsProofs` | theorems about `Sensors` |
| `ControlEndpoint` | endpoint 0: `usb_device_udd.c`'s control phases, the requests of `udc.c` and `udi_cdc.c`, the host |
| `ControlEndpointProofs` | theorems about `ControlEndpoint` |
| `MCControlEndpoint` | requests for TLC |

`SlipLink` reads and writes queues of bytes; that the CDC channel is a pair of
those is what `UsbCdc` shows (`ByteQueue`). What a command does to the sequencer,
the servos and the sensors is an action of their modules, which in turn rely on
`Sensors` for a clock that goes on (`TimeKept`).

### Sequencer

`pc` is the line of `sequencer.c` that main is about to execute; `"l"` and `"s"`
tell the load from the store of `&=`, `|=` and `++`. `cur` is the machine being
checked and `reg` the locals: the scanned node, the loop index, the values held
between a load and its store. Each action of `ProcessSequence` is one line or
one access; a command is one action, because main cannot preempt the interrupt.

Decisions worth knowing:

* *Registers.* `keyframe_idx` is not volatile. Between two calls the compiler may
  use the value it has or load it again, so that lines 34, 35 and 41 choose
  between `reg.count` and memory. Line 81 loads `state_idx` again: the stores
  of line 80 are between. Stores to fields only main writes
  (`current_keyframes`, `last_keyframe_millis`) are one step with the shared
  store beside them: the interrupt cannot tell.
* *The table.* `machine[m].states` is what was last uploaded; `state_flags`, the
  one part the firmware writes, is kept beside it in `flags`. A pointer into the
  table is a pair of indices, so that an upload changes what main sees through
  it. The fields of one transition are read in one step.
* *Boot.* All is zero: no state is active and `current_keyframes` is null. Until
  the first command main runs lines 33-35 through that null pointer. Address 0
  holds the vector table, whose first word, the initial stack pointer, is a
  delay of about six days: `KeyframeDue` is false.
* *Valve commands.* `servos` are the positions in `servos_data`, which
  `set_servo` stores for the sequencer and which the host stores too:
  `SetValveStates` (`CMD_SET_VALVES`, all of them) and `SetSingleValve`
  (`CMD_SINGLE_VALVE`), to any of `ValvePositions`, at any access of main.
* *Assumed of the host.* Target states, servo indices and buttons are in range
  (`UploadsAssumption`); the firmware does not check them. A keyframe's 32-bit
  position is not truncated to the 16 bits of `set_servo`.
* *Sensors* are arbitrary readings stored once per turn; the load cell is sampled
  at each criterion. The trigger types of pressures and temperatures are one
  (`GT`, `LT`), with a channel for either.

The history variables record when and how each machine came into its state
(`entered`, `cause`), who has yet to look at a button (`owed`), which machine
moved last (`mover`), and the servos that a valve command was the last to set
(`ordered`). The sequencer writes a state's positions once, so a servo the host
has set since is where the host wants it: `StateServosApplied` excepts it until
the sequencer sets it again. `RaceWindow` is where a command does not stick: while main
scans or executes a transition of that machine (24-86), or is about to store an
incremented index (40). A command landing there is `late`, and the properties
say exactly what is then not promised.

### ServoDriver

`pc` is the line of `devices.c`. `CallSetServo` to `StorePosition` are the three
stores of `set_servo` for the sequencer; `BeginPush` to `WriteChannels` are
`pca9685_write_servos(0, 16)`, channel by channel. `SetServoData` and `SetServo`
are the host's commands. `servos_data` and `last_servo_update` are tested a
second time at line 180, and may be the registers of lines 169-170 or memory.
A failing I2C write has reached the first few channels; its status is ignored,
as in the code. The chip starts with all channels off (PCA9685, external).

The sequencer's `servos` is the same array as seen through completed calls of
`set_servo`; here the sequencer is any sequence of such calls.

### UsbCdc

`tx` and `rx` are the static variables of `udi_cdc.c` (`buf` and `nb` the two
buffers and their fill, `sel` the program's one, `ongoing`, `both`, `sof_num`,
`zlp` the static counter of `udi_cdc_tx_send`, `pos`); a transmit buffer's fill is
the length of its sequence. `tx_job` and `rx_job` are the jobs of
`usb_device_udd.c`: none, started, or done with the interrupt pending.

* *Steps.* There is one USB interrupt, at one priority, so its handlers do not
  preempt each other and main never touches the channel: `DataSent`,
  `DataReceived`, `SofNotify`, `Enable`, `Disable`, `SetHalt` and `ClearHalt` are
  single steps. The receive callback goes on for as long as there is something
  to read and may wait, so it takes a step per byte (`pc`); meanwhile the
  controller works on (`HostSends`, `HostTakes`, `FrameTick`), and no other handler
  runs until the callback ends. One action, `Putc`, has room or is not enabled:
  the loop of 1061-1066 changes nothing, and what it waits for is `DataSent`.
* *Calls.* `TxSend` and `RxStart` are `udi_cdc_tx_send` and `udi_cdc_rx_start`
  in full, and part of every action that calls them; `RxStart` stops where the
  code calls the program (602), and `EndCallback` is the rest (605-620).
* *Commands.* `ReadByte` and `ReadCommand` are `main.c:56-66` with the reading
  half of `slip.c:22`. Every command replies with one packet (`ui.c:13-63`), here
  of any bytes of a given length; what commands do is in `Sequencer` and
  `ServoDriver`. An empty packet is skipped. (So is one that decodes to nothing,
  a lone escape; here it gets a reply, one more than in the code.)
* *The queues.* `TxQueue` is what was put and not yet taken, in order: the
  buffer under transfer, or next, and then the program's. `RxQueue` is what
  arrived and was not read. `TransmitIsQueue` and `ReceiveIsQueue` say that every
  step is a `Put` or `Take` of `ByteQueue`, or none, or a `Clear` that is allowed:
  `ByteQueue!Next` takes the action that may lose bytes as its argument. It is
  `RxLost` for what was received: the interface is enabled or disabled, or the
  endpoint halted. `TxLost` is the same for what is to be sent, but that a halt
  may also lose it later: a transfer begun while the endpoint is halted is
  refused, and the direction then waits for its end for ever (`TxStopped`).
* *Assumed.* Eight data bits (the default, which the host could change to nine);
  the host clears the halts it made before it configures the device again (so
  that starting the reception, `udi_cdc.c:341`, does not fail), and does not clear a halt that is not there; a start of frame is served before
  the next one. A transfer is one packet, `UDI_CDC_TX_BUFFERS` being the size of
  the endpoint.

### SlipLink

`pc` says where the callback is: reading (`slip.c:21`), decoding (26-34) or
processing the packet; `src_i`, `dest_i`, `rx_blob` and `rx_pos` are the code's own.
The loop over a packet takes a step per byte, and bytes arrive (`Arrive`) only
when the callback has returned, in chunks of any length, so that a packet may
end anywhere in one. The decoder works in place, and after an escape at the
end of a packet reads the byte after it, an old one, and counts past its end
(`src_i <= rx_pos + 1`).

`CommandServer` is the promise. `Requests` reads from buffer, queue and wire the
commands still to be served, half decoded ones included; `LinkIsServer` says that
every step of the link is one of the server's or none. Commands that store data
(an exact length, or a least one) and queries are modelled, with tables of two
bytes; a command without a length check, as `CMD_RESET_STATE`, is one of length
zero.

*Assumed.* Every query is answered with at least a byte (`CodesAssumption`), as all
in `ui.c` are: an empty reply would be no packet. A host that starts again sends
an END first, as RFC 1055 has it: if it
does not, its first command is lost in the rest of the old one. Its first
command then follows a stump, which the firmware takes for a command; if the
stump ends in an escape, it may decode to one byte more than was sent
(`Settle`). Replies fit in the transmit buffer (`CdcReplies` has those that do
not). Commands fit `rx_blob` (`CommandsAssumption`).

### Sensors

`pc` is the line of `devices.c`; `reg` the loop's chip and input, and the reading
on its way to the table. A reading is not a number but where it comes from: the
input it was converted from, whether it is read for the first time, and whether
a transfer it depends on has failed. The chips (`adc`) are external: a pointer
register, a result register, and a conversion with its remaining time, which
does not notice that another start came too soon. A double is stored as two
words.

Time passes in units of half a millisecond, only while main waits: for a
bus, for the counter (`delay`), or in what else a turn does. Everything may
take longer than its least time, as under interrupts, and never less.
`TimingAssumption` has the numbers of the data sheets: 0.3 ms and 1.3 ms for a
conversion at 3300 and 860 samples a second, against `delay_ms(1)` and, for the
slower chip, the two other chips' SPI transfers. Without the latter a
conversion would not be over when it is read: they and the I2C transfers between
them are all the margin there is.

`systick`, `flag` and `msec` are the counter, its COUNTFLAG and what the handler
counts. `delay_cycles` and `get_msec` both clear the counter; an interrupt whose
command calls `get_msec` (`GetMsec`) may do so in the middle of a delay.

### ControlEndpoint

`ctrl` is `udd_ep_control_state`, `udd_g_ctrlreq` and the counters of
`usb_device_udd.c:229-239`; `ep0` the registers of the endpoint: whether the OUT
bank is open, what is in the IN bank, halts, and flags. The host's transactions
set flags, and the handler serves one of them at a time, to its end, in the
order of `usb.c:1815-1870`: `OnSetup`, `TransferOk`, `Underflow`, `Overflow`,
`OnBusReset`. `Accepted`, `Payload` and `CallbackOf` are what `udc_process_setup`
finds in a request. The line coding is stored from the endpoint's buffer into
`udi_cdc_line_coding` itself, packet by packet; in the firmware its seven bytes
are always one packet of the endpoint's 64. Addresses are below 128, so that
the mask of `udc.c:577` keeps them. The counters of a transfer are reset by every
SETUP, also by those that transfer no data and do not use them
(`usb_device_udd.c:897-911` leaves them alone then).

*Assumed of host and controller.* A SETUP packet of eight bytes is always
accepted, clears halts and empties the IN bank, and may or may not leave the
OUT bank open. OUT data is refused while a SETUP waits. The handler's reading of
the flags is one step. The host begins a transfer when the last is over, or
gives up the last one, may end a data stage early, and resets the bus.

A transfer `overlap`s if it begins while a flag of the one before is to be
served: the handler serves the SETUP first and then takes the old packet's end
for one of the new transfer. Nothing is claimed of those. `lost` is a host that
gave up SET_ADDRESS and does not know which address the device has.

## 3. Runs

| Run | Question | Bounds |
|---|---|---|
| `SequencerCommands` | does any command, anywhere, break the active flag or the keyframe index, an abort, a press, a timer, servos or spark? | 3 states, 2 transitions, 2 keyframes, both machines answer one button, 2 readings, 1 position for valve commands, 4 commands, 3 clock values |
| `SequencerProgress` | does a turn end, is a due keyframe played? | one machine loaded, 3 commands, 3 clock values |
| `ResetState`, `AbortFlags` | violations, see below | as small as they need |
| `ServoOutputs` | does any command during a push spoil a channel or the pin? | 2 servos, 3 positions (one below 50, one beyond the 12 bits), 1 move, 2 commands, 1 failed write, 4 clock values |
| `ServoProgress` | does a position reach its servo, and do servos come to rest? | 2 servos, 2 positions, 1 move, 2 commands, 1 failed write, 8 clock values |
| `CdcQueues` | are both directions queues that lose nothing but by what is named, whatever the host does and when? | buffers of 2 bytes, replies of 2 and 3, 2 commands unanswered, halts |
| `CdcProgress` | does a host that waits for its replies get them, and does `putc` never wait? | transmit buffers of 3 bytes, replies of 2 and 3, 1 command unanswered, no halts |
| `CdcReplies` | a violation, see below | transmit buffers of 2 bytes, replies of 2 and 3 |
| `LinkCommands` | are commands carried out whole, once and in order, whatever the chunks? | a buffer of 5 bytes, 3 commands, 1 host that stops half way, tables of 2 bytes that need escapes |
| `SensorReadings` | do readings keep to their channels, do faults heal, is time kept? | 2 chips of each kind, a millisecond of 2 units, 1 failed transfer, 1 command |
| `ControlTransfers` | do transfers end, with exact data and one address? | packets of 2 bytes, line coding of 3, 11 requests, 4 transfers, 1 given up, 1 bus reset |

Why these bounds are enough: the firmware's arrays are only iterated, so two or
three entries give a first, a last and one to move to; each race needs one or
two commands inside one pass, and a table and a button to get there, so 3 to 4
commands reach every pair of races after start-up. Commands stop at
`CommandHorizon` and the clock at `MaxMsec`, later, so that delays started by
the last command still run out. `ClockModulus` stands for 2^32: differences wrap
(a start after the sample is a huge age) but the clock itself does not get so
far, except in the proofs, which allow it. In `ServoDriver` the back-off
constants and the 16-bit width are the real ones, the two delays are scaled.

`UsbCdc` counts nothing that grows, and its runs are unbounded in time. Buffers
of two or three bytes stand for 64: empty, part full and full are what the code
tells apart, and replies are shorter than a buffer, as long as one, and longer.
`ZlpAfter` of 2 stands for 100 idle frames, and `FrameModulus` of 2 for 2048: the
frame number is compared for equality only. Two commands unanswered allow a
second one in the packet of the first, or while its reply is under way.
`CdcQueues` and `CdcReplies` do not check deadlock: a `putc` that waits in the
interrupt is one, and the subject of `CdcReplies`.

`LinkCommands`: the longest command of the run encodes to exactly one byte more
than the buffer holds, its END, which is not stored; a stump in front of it
would overflow. Three commands allow one being served, one on its way and one
that follows a restart. In `SensorReadings` a fault and a command may fall into
any step of any turn; the state space is finite without a bound on turns. Two
chips give a first and a last one of each loop, with 1.5 ms for the slower
conversion, as long as `TimingAssumption` allows. In `ControlTransfers` the
requests have no data, less than a packet, a whole one, and more, asked for
exactly, short and long; four transfers are enough to set address and
configuration, write a line coding, and read it or give up something on the
way. Deadlock is not checked in the last two: hosts run out of commands, and
one that has lost the address has nobody to talk to.

*Fairness.* `SequencerProgress` and `ServoProgress` assume weak fairness of main
and of SysTick: interrupts are short (the waiting of `putc` aside, section 4) and
leave main time; SysTick keeps firing. No command is ever assumed. `PassEnds`
holds for tables without a cycle of instantly triggered transitions, as the
tables here; such a cycle hangs the firmware as it does the model.
`ServoProgress` bounds a turn of the loop by `MaxPass`, one unit against
`RestAfter` of four: a turn takes some milliseconds, the switch-off 1400.

`SensorReadings` assumes weak fairness of main and of time, and a host that does
not send commands that restart the counter for ever without a pause of a
millisecond. It is what justifies the fair `Tick` of the two modules above:
`TimeKept` has every turn of main count three milliseconds. `LinkCommands` assumes
that bytes sent arrive and that callback and host go on reading;
`ControlTransfers` that the interrupt is served and that the host asks for the
next packet of a transfer it has not given up.

`UsbCdc` assumes that pending interrupts of the endpoints are served and that the
callback goes on when it can (weak: nothing else disables them), that frames go
on and that the host takes what it is offered. `SofNotify` is served strongly
fairly: the handler sees to endpoints first and to the frame in a round of its
own (`usb.c:1757-1874`), and an endpoint's next packet takes longer on the bus than
the interrupt of the last one, so there is always such a round. The host need
not send, configure, reset or halt anything.

## 4. What the violations show

* `ResetState`: `reset_states` (103-110) sets the flag of state 0 and does not
  clear the flag of the state it leaves, which `sequencer.h:44` calls "state
  active"; and it does not restart the timer, so that a `TIMER` transition of
  state 0 fires before the "time delay" of `sequencer.h:24`. TLC shows the
  second, and the first when the property leaves the second out.
* `AbortFlags`: an abort between the check of a transition (28) and its execution
  (79-81) is acknowledged and then overwritten: the machine goes on to the
  transition's target and both that state and state 1 are flagged active.
* `CdcReplies`: `putc` without room waits for a transfer to end
  (`udi_cdc.c:1061-1066`), but the firmware calls it from the receive callback,
  inside the only interrupt that ends transfers. A reply longer than a buffer,
  begun while a transfer is under way, or replies to several queries in one
  packet, stop the firmware for good: `udi_cdc.h:444` promises that `putc`
  returns 1 or 0. Six doubles (`CMD_TEMP_STATES`) are 49 bytes with their end,
  and fit, unless more than 15 of them need an escape.

What holds instead is in `AbortInForce`, `CurrentStateActive`,
`TimerDelayHonoured` and, for a host that waits for each reply and replies that
fit in a buffer, `PutcNeverWaits`. A command that arrives during a push may switch a servo off
for that one turn, because its stamp is later than `current_time`
(`devices.c:161`); `UndisturbedOutput` and `PositionReached` say that the damage
ends there.

Observed while modelling, without a run of their own:

* The two commands that load a states table are 4129 bytes (`ui.c:83`), and
  `rx_blob` holds 1024 (`main.c:20`): `slip.c:21` stores the rest past its end, into
  whatever the linker put there. `PacketInBlob` is claimed of the other commands.
* `udd_ctrl_stall_data` (`usb_device_udd.c:619`) halts IN and clears the halt of
  OUT, although the state it enters is documented as "STALL enabled on IN & OUT
  packet" (226). A host that goes on to write data to a request the device has
  refused is put off for ever instead of stalled; `TransferEnds` excepts it.
* A SETUP that interrupts SET_ADDRESS runs its callback
  (`usb_device_udd.c:887-890`): the address changes without the handshake that
  `udc.c:589` says must come first. `AddressAgreed` excepts hosts that gave it up.
* The outputs are enabled before the I2C write that follows (186-187), for its
  length with the pulses of the turn before. `PinMatchesChannels` is claimed
  between pushes.
* An abort is undone if it lands between the load and the store of line 40 (the
  keyframes of the old state go on) or between the two reads of line 59 (the
  difference wraps and a timer fires at once). Both are in `RaceWindow`.
* `hx711_read_cell` does not look whether a conversion is ready (`devices.c:195`).
* An ADC whose pointer could not be set is read all the same: the configuration
  register, or bytes of another transfer, are stored as a pressure
  (`devices.c:131-134`). `Recovers` says that it is gone two turns later.
* Each `get_msec` loses the part of a millisecond that had passed.

## 5. Proofs

`SequencerProofs` proves, for tables of any size and content, any sequence of
commands and any clock:

* `TypeCorrect`: `Spec => []TypeOK`;
* `ReadsInBounds`: `Spec => []KeyframeReadInBounds`;
* `CurrentActive`: `Spec => []CurrentStateActive`.

The first two rest on `TypeInv`. `TypeOK` alone is not inductive: that
`keyframe_idx` stays at most one past its limit needs to be known line by line.
`KeyframesInRange` says that a register copy of the index is either current or
the interrupt has put the index past the end, so that testing either one again
(line 35) protects the dereference; `IterInRange` says which array the loop
variable indexes at each line. `CurrentActive` adds `FlagInFlight`: between the
load and the store of line 81 the flag about to be stored is that of the current
state, or a command has set it meanwhile. Each command preserves these whatever
the line, which is one lemma per command rather than one per line.

`SequencerHistoryProofs` proves the five safety properties over several steps, for any
tables and any commands at any line. Its `Flow` says where each line of main
leads, `Keeps` which field of a machine each line may write, and there is one
lemma for each kind of command; the invariants are then argued over those few
facts and not over each action anew.

* `AbortStands` (`HSpec => []AbortInForce`). After an abort that was not late,
  `AbortInv` keeps main out of the lines that execute a transition of that machine,
  and the index it may be about to store back (line 40) past the end as well.
* `EarlyPressIsSeen` (`HSpec => []EarlyPressSeen`). A machine main has already
  `Served` in this pass is owed no look at any button, and line 18 is reached when
  both have been; so what it clears has been seen by both.
* `TimerWaits` (`HSpec => []TimerDelayHonoured`), from the premise
  `MaxMsec < ClockModulus`: `timer_start_millis` is compared as a difference, but
  "since" has no meaning for a clock that has gone round. `TimerInv` has the timer
  of a state the code restarts start no sooner than the state, but between lines
  79 and 84, and `get_msec` at line 59 read no sooner than that.
* `ServosAreApplied` (`HSpec => []StateServosApplied`). `ServosInv` says that what the
  state wants is applied unless its keyframes are still to come or main is
  between the transition and line 49 (`Unsettled`), and up to the loop's index
  while it applies them. That nothing undoes it is where `MachinesShareNoServo` is
  needed, and that every table in a machine is one the host uploads (`TablesInv`).
  A valve command takes the servos it sets out of what is claimed, and main,
  when it sets one of them, takes it back in (`ordered`): between the two the
  position is the host's, and no table can say what it is.
* `SparkIsAsAsked` (`HSpec => []SparkAsLastAsked`): the last machine moved is the one
  whose transition is executed, and the pin is what its state's flag asks for
  whenever none is.

`ServoDriverProofs` proves, for any number of channels, width of position and
clock, and any `BackOff` no larger than `Backlash`:

* `TypeCorrect` (`Spec => []TypeOK`) and `NoWrapInBackOff`
  (`Spec => []BackOffBounded`): `BackedOffInRange` is the arithmetic;
  `Uncorrected` carries the position from line 169 to 171;
* `PinFollowsChannels` (`Spec => []PinMatchesChannels`): `EnableInv` says that,
  line by line, the flag is set just when a channel computed so far is driven,
  and after line 186 the output-enable line is, over all channels;
* `OutputsAreUndisturbed` (`Spec => []UndisturbedOutput`), from the premise
  `MaxMsec < ClockModulus`: a clock that wraps in the middle of a push makes a
  servo set after it look set before. `OutputInv` says of every servo whose stamp
  is older than the push that its channel, once computed, is what its record asks
  for (`Right`), and that until then what main has read of it is its record
  (`ReadSoFar`). A command gives each servo it sets the stamp of the moment, so it
  ends the promise about that servo and touches no other; this is also why the
  memory that line 180 may read again is what lines 169 and 170 read.

`UsbCdcProofs` proves, for buffers of any length, any replies and any host:

* `TypeCorrect` (`Spec => []TypeOK`) and `Stopped` (`Spec => []StoppedOnlyByHalt`);
* `TransmitQueue` (`Spec => TransmitIsQueue`) and `ReceiveQueue`
  (`Spec => ReceiveIsQueue`): the refinement of `ByteQueue`, initial states and
  every step. `TransmitMoves` and `ReceiveMoves` say, action by action, which step
  of the queue it is, and that one which empties it is `TxLost` or `RxLost`: a
  transfer refused or aborted stops the direction (`TxSendOk`), and `OngoingOk` has
  that happen only after a halt.

The invariant `IInv` ties the flags of `udi_cdc.c` to the jobs of the driver. A
job is always that of the buffer the program does not use, for as many bytes
as it holds, and that buffer is empty when nothing is under way and the two
are not both to be sent (`TxOk`): this is why a byte put is always the last one
out. On the other side nothing is readable while the controller has a buffer
(`RxOk`). `TxSendOk`, `SentOk`, `FreeTxBufferOk` and `RxStartOk` say what each
routine does to agreement and queue, and the steps cite them.

`PutcHasRoom` (`Spec => []PutcNeverWaits`) is about the host that waits: it assumes
`MaxUnanswered <= 1`, that nobody halts an endpoint and that a reply is no longer
than a buffer, which is what the commands in use come to. Everything still to be
answered, whether on the way, in a receive buffer, being put or waiting in a
transmit buffer, ends with an END, and `CountInv` bounds the number of those ENDs
over all of these places together. `TailInv` says that what waits to be sent ends
with one, so that a queue without an END is empty. A reply begins when its
command's END is consumed; so nothing else is then unanswered, both transmit
buffers are empty, and what has been put and what is left to put of the reply fit
in one (`RoomInv`). The counting is by `Ends`, the cardinality of a set of indices,
with a lemma for each way a queue is taken apart or put together.

`SensorsProofs` proves, for any number of chips, any lengths of a millisecond, a
transfer and a conversion that `SizesAssumption` and `TimingAssumption` allow, any
faults and any commands:

* `TypeCorrect` (`Spec => []TypeOK`) and `AtMostOneIsTorn`
  (`Spec => []AtMostOneTorn`);
* `TimeIsKept` (`Spec => TimeKept`): `TimeInv` bounds from below what main has
  waited, and the milliseconds counted, by where main is and what the counter
  has left; a restart only adds to either;
* `ReadingsAreOwn` (`Spec => []OwnReadings`). Nothing in the code says which
  input a result belongs to, so the invariant (`ChipsInv`) is about time.
  `TimeLeft` is the least time before main comes back to a chip, counted in the
  SPI transfers and the millisecond still ahead. A conversion under way has no
  more than that left (`InTime`), and is of the input main will then take it for
  (`NextRead`), unless a transfer has failed (`Converts`). Every step of main uses
  up no more of `TimeLeft` than it takes; at lines 98 and 133 it is zero, so the
  conversion is over and the chip accepts the next start;
* `TablesRecover` (`Spec => []Recovers`). `HealInv` follows what a fault has spoilt:
  a chip is sound again from the moment its next conversion is begun without one
  (`ChipsHealed`), what main holds in its hands once every chip has been begun
  (`ReadingHealed`), and a value in the tables once it has been stored after that
  (`TableHealed`). `Clean` is the point in between: the first half of a turn, which
  reads input 0 and starts input 1, may still store what was converted before.
  That every value has been stored again is `Renewed`, which counts along with
  main's loops. `TypesInv` is the same for the types, which need one turn less.

`ControlEndpointProofs` proves, for packets, descriptors and line codings of any
size, any requests `RequestsAssumption` allows and any host:

* `TypeCorrect` (`Spec => []TypeOK`), with it that a payload is never overrun;
* `ReadsAreExact` (`Spec => []ReadExact`). `ReadPhase` says what a read is doing:
  not yet served, refused, or sending, and then either a packet is `Ready`, which
  begins where the host has got to, or the host has `Taken` it and the interrupt
  is to write the next. In neither case can both sides touch the packet. That a
  short packet is the last one (`Sending`) is what `b_shortpacket` is for: without
  it a payload that ends with a short packet would be followed by another;
* `WritesAreStored` (`Spec => []WriteStored`). `WritePhase` is the same for a write:
  the first `nb_trans` bytes are the host's, and the next packet is awaited
  (`Open`) or waits to be stored (`Received`);
* `AddressesAgree` (`Spec => []AddressAgreed`). The callback of SET_ADDRESS is
  `Pending` from the request to the first event after its transfer. `PendingInv`
  says that it is then either being acknowledged or its value is the address the
  host already talks to, so that whichever event comes first, the end of the
  status stage or the next SETUP, it sets the right one. The callback stays in
  place afterwards and may run again; `Repeatable` says that it then does no harm,
  and `NothingStale` that no event of the transfer before runs it too soon;
* `AnswersMatch` (`Spec => []AnswerMatches`). The driver halts endpoints in advance:
  for a request it refuses, but also for a packet that should not come. `Denied`
  says that a refused request meets a halt wherever it goes on, `Serving` that the
  direction of the stage an accepted one is in is never halted, and neither is
  that of its status stage. The second is claimed of requests that are
  `WellFormed`, of the lengths the standard gives them: a request for no bytes of a
  descriptor the firmware accepts and then stalls.

The assumptions are those named in the modules (sizes, bounds, what the host
uploads, the times of the data sheets); TLC evaluates them in every run.

`SlipLinkProofs` proves, for a buffer of any length, any commands that fit in it
and any number of commands and restarts:

* `TypeCorrect` (`Spec => []TypeOK`), with it that the decoder writes behind what it
  reads and reads at most one byte past the packet;
* `PacketsFit` (`Spec => []PacketInBlob`). `rx_pos` alone says nothing of what is
  still to come, so the invariant is about the `Stream`: the bytes of the packet
  being read, those received and those on the wire, together. It ends with an END
  (`Complete`), no packet in it is longer than the buffer (`Fits`), and every escape
  in it but one at the end of a packet is followed by a byte that may follow it
  (`Regular`). The host's commands preserve this behind any stream, and so does
  the END of a host that starts again wherever the old one stopped; bytes that
  arrive or are read only move within the stream;
* `Implements` (`Spec => LinkIsServer`): the refinement of `CommandServer`. `Facts`
  takes `Requests` apart into the command in `rx_blob` (`Current`: what is decoded,
  and what `Unescape` makes of the rest) and those of the stream. Reading and
  decoding leave it as it is: a byte goes from what is ahead to what is decoded,
  which the decoder may do in place because it has not written there
  (`DecodedGrows`, `AheadUntouched`). An escape with nothing after it is `Settle`,
  `Process` is `Serve`, and what a host that starts again leaves of a stream is
  `RestartMeans`.

They rest on `SlipProofs`: that recursive functions such as `Unescape` and `Frames`
exist at all (`RecursExists`: TLA+ defines them by CHOOSE, and says what they are
only if some function satisfies the definition), what they are at every stream,
and what they make of streams put together or cut (`FramesConcat`, `FramesCut`). All
of it is by the shortest counterexample (`Shortest`), since theorems about
induction cannot be instantiated here. `ReadAsWritten` is the theorem of the
framing itself: behind complete packets, what `udi_cdc_write_slip_packet` sends is
read as one more packet, of the same bytes.

Only model-checked: liveness, which is beyond the proof system.

## 6. Not modelled, and what is left

Not modelled:

* register-level drivers (I2C, SPI, port, clock, `usb.c` below its handler), whose
  effects are slow or failing transfers, flags and packets in the modules above;
* of the USB stack: string descriptors, alternate settings, status and feature
  requests, suspend and wakeup, `read_buf` and `write_buf` of the CDC class, and
  nine data bits, none of which the firmware uses; clearing the halt of an
  endpoint that is not halted (`usb_device_udd.c:581`);
* the sleep manager, whose counters nobody reads: main never sleeps;
* set-up at boot, and code that is not compiled.

Most of the repository's lines are vendored headers (register definitions, the
CMSIS library), tables of constants and documentation comments, without
behaviour; what the models cover is nearly all of the program's own code and
the part of the vendored code that runs after boot and keeps state.

Left: one turn of main that composes sequencer, servo outputs and clock in one
module; a host that overlaps its control transfers.
