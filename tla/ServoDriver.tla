----------------------------- MODULE ServoDriver -----------------------------
(***************************************************************************)
(* The servo outputs (devices.c).  set_servo and set_servo_data record the *)
(* positions asked for; push_servo_data, once per turn of the main loop,   *)
(* computes every channel's pulse and writes them to the PCA9685 chip.     *)
(*                                                                         *)
(* Main runs set_servo (for the sequencer) and push_servo_data one access  *)
(* to shared memory at a time, pc being the line of devices.c it is about  *)
(* to execute.  The USB interrupt runs set_servo and set_servo_data for    *)
(* the host between any two of those accesses.                             *)
(***************************************************************************)
EXTENDS Integers

CONSTANTS
  NServos,         \* channels, 16 in the firmware
  Positions,       \* positions the sequencer and the host ask for
  PositionModulus, \* a position is a uint16_t: 2^16 in the firmware
  ClockModulus,    \* the clock is a uint32_t: 2^32 in the firmware
  SettleAfter,     \* milliseconds until a servo is backed off, 1200
  RestAfter,       \* milliseconds until a servo is switched off, 1400
  Backlash,        \* moves no longer than this are not backed off, 99
  BackOff,         \* how far a servo is backed off, 50
  MaxMsec,         \* bound: the clock stops here
  CommandHorizon,  \* bound: no servo is set later than this
  MaxMoves,        \* bound: calls of set_servo by main
  MaxCommands,     \* bound: servo commands of the host
  MaxFaults,       \* bound: I2C writes that fail
  MaxPass          \* bound: milliseconds from one push to the next

Servo == 0 .. NServos - 1
Position == 0 .. PositionModulus - 1
Msec == 0 .. ClockModulus - 1

ASSUME SizesAssumption ==
  /\ NServos \in Nat \ {0}
  /\ PositionModulus \in Nat \ {0}
  /\ ClockModulus \in Nat \ {0}
  /\ Positions \subseteq Position

ASSUME DelaysAssumption ==
  /\ SettleAfter \in Nat /\ RestAfter \in Nat
  /\ Backlash \in Nat /\ BackOff \in 0 .. Backlash

ASSUME BoundsAssumption ==
  /\ MaxMsec \in Nat /\ CommandHorizon \in Nat /\ MaxMoves \in Nat
  /\ MaxCommands \in Nat /\ MaxFaults \in Nat /\ MaxPass \in Nat

(* A channel of the chip: the 12 bits of its pulse, and its full-off bit.  *)
Width == 0 .. 4095
Output == [pulse : Width, off : BOOLEAN]

VARIABLES
  msec,              \* SysTick's millisecond counter
  servos,            \* servos_data: the positions asked for
  prev_servos,       \* prev_servos_data: the positions before them
  last_servo_update, \* when each was last set
  i2c_buffer,        \* the channels as main has computed them
  chip,              \* the channels of the PCA9685
  enable_pin,        \* level of the chip's output-enable line
  left,              \* moves, commands and faults still to come
  pc,                \* the line main is about to execute
  reg                \* locals and registers of main

vars == <<msec, servos, prev_servos, last_servo_update, i2c_buffer, chip,
          enable_pin, left, pc, reg>>

requests == <<servos, prev_servos, last_servo_update>>
outputs == <<i2c_buffer, chip, enable_pin>>

Label == {"loop", "255", "256", "257", "169", "170", "171", "177", "186", "187"}

Registers ==
  [time : Msec,          \* current_time
   iter : Nat,           \* i, or the servo set_servo is called for
   position : Position,  \* the position set_servo is called with
   pos : Position,       \* servos_data.servos[i], as line 169 read it
   last : Msec,          \* last_servo_update[i], as line 170 read it
   corrected : Position, \* corrected_data
   enable : BOOLEAN]     \* enable_flag

Silent == [pulse |-> 0, off |-> TRUE]

Init ==
  /\ msec = 0
  /\ servos = [s \in Servo |-> 0]
  /\ prev_servos = [s \in Servo |-> 0]
  /\ last_servo_update = [s \in Servo |-> 0]
  /\ i2c_buffer = [s \in Servo |-> Silent]
  /\ chip = [s \in Servo |-> Silent]
  /\ enable_pin = FALSE
  /\ left = [moves |-> MaxMoves, commands |-> MaxCommands, faults |-> MaxFaults]
  /\ pc = "loop"
  /\ reg = [time |-> 0, iter |-> 0, position |-> 0, pos |-> 0, last |-> 0,
            corrected |-> 0, enable |-> FALSE]

From(a) == pc = a
To(b) == pc' = b

(* uint32_t arithmetic: a moment after "now" is long ago.                  *)
Age(now, then) == (now - then) % ClockModulus

-----------------------------------------------------------------------------
(* set_servo, called by main: three stores the interrupt may come between. *)
CallSetServo ==
  /\ From("loop") /\ To("255")
  /\ left.moves > 0 /\ msec <= CommandHorizon
  /\ left' = [left EXCEPT !.moves = @ - 1]
  /\ \E s \in Servo, p \in Positions :
       reg' = [reg EXCEPT !.iter = s, !.position = p]
  /\ UNCHANGED <<msec, requests, outputs>>

KeepPrevious ==
  /\ From("255") /\ To("256")
  /\ prev_servos' = [prev_servos EXCEPT ![reg.iter] = servos[reg.iter]]
  /\ UNCHANGED <<msec, servos, last_servo_update, outputs, left, reg>>

StampUpdate ==
  /\ From("256") /\ To("257")
  /\ last_servo_update' = [last_servo_update EXCEPT ![reg.iter] = msec]
  /\ UNCHANGED <<msec, servos, prev_servos, outputs, left, reg>>

StorePosition ==
  /\ From("257") /\ To("loop")
  /\ servos' = [servos EXCEPT ![reg.iter] = reg.position]
  /\ reg' = [reg EXCEPT !.iter = 0, !.position = 0]
  /\ UNCHANGED <<msec, prev_servos, last_servo_update, outputs, left>>

-----------------------------------------------------------------------------
(* pca9685_write_servos(0, 16)                                             *)
BeginPush ==
  /\ From("loop") /\ To("169")
  /\ reg' = [reg EXCEPT !.time = msec, !.iter = 0, !.enable = FALSE]
  /\ UNCHANGED <<msec, requests, outputs, left>>

ReadPosition ==
  /\ From("169") /\ To("170")
  /\ reg' = [reg EXCEPT !.pos = servos[reg.iter], !.corrected = servos[reg.iter]]
  /\ UNCHANGED <<msec, requests, outputs, left>>

(* Line 170: is the servo to be backed off?                                *)
ReadUpdate ==
  /\ From("170")
  /\ reg' = [reg EXCEPT !.last = last_servo_update[reg.iter]]
  /\ IF Age(reg.time, reg'.last) > SettleAfter THEN To("171") ELSE To("177")
  /\ UNCHANGED <<msec, requests, outputs, left>>

(* Mutant: short moves are backed off as well.                             *)
BackedOffAlways(pos, prev) ==
  IF pos > prev THEN (pos - BackOff) % PositionModulus
  ELSE IF pos < prev THEN (pos + BackOff) % PositionModulus
  ELSE pos

(* Lines 171-175, in uint16_t arithmetic: back towards where it came from. *)
BackedOff(pos, prev) ==
  IF pos > prev /\ pos - prev > Backlash THEN (pos - BackOff) % PositionModulus
  ELSE IF pos < prev /\ prev - pos > Backlash THEN (pos + BackOff) % PositionModulus
  ELSE pos

(* The previous position is read once for all of these lines: if a command *)
(* comes between two of the code's reads, the correction is the one for    *)
(* what it was before, or after.                                           *)
ReadPrevious ==
  /\ From("171") /\ To("177")
  /\ reg' = [reg EXCEPT !.corrected = BackedOff(reg.pos, prev_servos[reg.iter])]
  /\ UNCHANGED <<msec, requests, outputs, left>>

(* Mutant: the twelve bits are not masked.                                 *)
PulseUnmasked(position) == (position * 4096) \div 20000

(* Lines 177-179: microseconds to 1/4096 of the 20 ms frame, in 12 bits.   *)
Pulse(position) == ((position * 4096) \div 20000) % 4096

(* Mutant: only a servo without a position is switched off.                *)
RestingUnset(pos, last) == pos = 0

(* Mutant: the comparison with the time is inverted.                       *)
RestingFresh(pos, last) == pos = 0 \/ Age(reg.time, last) <= RestAfter

(* Mutant: a servo is switched off as soon as it may be backed off.        *)
RestingEarly(pos, last) == pos = 0 \/ Age(reg.time, last) > SettleAfter

(* Line 180, without a position or long after it was set.                  *)
Resting(pos, last) == pos = 0 \/ Age(reg.time, last) > RestAfter

(* Lines 177-184.  Neither variable is volatile: what line 180 tests is    *)
(* memory again, or the registers of lines 169 and 170.                    *)
ComputeOutput ==
  /\ From("177")
  /\ \E pos \in {reg.pos, servos[reg.iter]},
        last \in {reg.last, last_servo_update[reg.iter]} :
       LET off == Resting(pos, last)
       IN  /\ i2c_buffer' = [i2c_buffer EXCEPT ![reg.iter] =
                               [pulse |-> Pulse(reg.corrected), off |-> off]]
           /\ reg' = [reg EXCEPT !.enable = @ \/ ~off, !.pos = 0, !.last = 0,
                        !.corrected = 0,
                        !.iter = IF @ + 1 < NServos THEN @ + 1 ELSE 0]
  /\ IF reg.iter + 1 < NServos THEN To("169") ELSE To("186")
  /\ UNCHANGED <<msec, requests, chip, enable_pin, left>>

(* Mutant: the outputs, once enabled, stay so.                             *)
LatchEnablePin ==
  /\ From("186") /\ To("187")
  /\ enable_pin' = (enable_pin \/ reg.enable)
  /\ UNCHANGED <<msec, requests, i2c_buffer, chip, left, reg>>

SetEnablePin ==
  /\ From("186") /\ To("187")
  /\ enable_pin' = reg.enable
  /\ UNCHANGED <<msec, requests, i2c_buffer, chip, left, reg>>

(* Line 187: the status of the write is ignored.  The chip takes channel   *)
(* after channel, so that a failing write changes the first few.           *)
WriteChannels ==
  /\ From("187") /\ To("loop")
  /\ \/ chip' = i2c_buffer /\ UNCHANGED left
     \/ /\ left.faults > 0
        /\ left' = [left EXCEPT !.faults = @ - 1]
        /\ \E n \in Servo :
             chip' = [s \in Servo |-> IF s < n THEN i2c_buffer[s] ELSE chip[s]]
  /\ UNCHANGED <<msec, requests, i2c_buffer, enable_pin, reg>>

Main ==
  \/ CallSetServo \/ KeepPrevious \/ StampUpdate \/ StorePosition
  \/ BeginPush \/ ReadPosition \/ ReadUpdate \/ ReadPrevious \/ ComputeOutput
  \/ SetEnablePin \/ WriteChannels

-----------------------------------------------------------------------------
(* The host's commands, inside the USB interrupt.                          *)
Command(kept, positions) ==
  /\ left.commands > 0 /\ msec <= CommandHorizon
  /\ left' = [left EXCEPT !.commands = @ - 1]
  /\ prev_servos' = [s \in Servo |-> IF s \in kept THEN servos[s] ELSE prev_servos[s]]
  /\ last_servo_update' =
       [s \in Servo |-> IF s \in kept THEN msec ELSE last_servo_update[s]]
  /\ servos' = [s \in Servo |-> IF s \in kept THEN positions[s] ELSE servos[s]]
  /\ UNCHANGED <<msec, outputs, pc, reg>>

(* CMD_SET_VALVES: set_servo_data *)
SetServoData == \E positions \in [Servo -> Positions] : Command(Servo, positions)

(* CMD_SINGLE_VALVE: set_servo *)
SetServo == \E s \in Servo, p \in Positions : Command({s}, [t \in Servo |-> p])

(* SysTick_Handler.  A turn of the main loop takes no more than MaxPass.   *)
Tick ==
  /\ msec < MaxMsec /\ Age(msec, reg.time) < MaxPass
  /\ msec' = (msec + 1) % ClockModulus
  /\ UNCHANGED <<requests, outputs, left, pc, reg>>

Next == Main \/ SetServoData \/ SetServo \/ Tick

Spec == Init /\ [][Next]_vars
FairSpec == Spec /\ WF_vars(Main) /\ WF_vars(Tick)

-----------------------------------------------------------------------------
(* Types: positions stay in uint16_t, pulses in the chip's twelve bits.    *)
TypeOK ==
  /\ msec \in Msec
  /\ servos \in [Servo -> Position]
  /\ prev_servos \in [Servo -> Position]
  /\ last_servo_update \in [Servo -> Msec]
  /\ i2c_buffer \in [Servo -> Output]
  /\ chip \in [Servo -> Output]
  /\ enable_pin \in BOOLEAN
  /\ left \in [moves : 0 .. MaxMoves, commands : 0 .. MaxCommands,
               faults : 0 .. MaxFaults]
  /\ pc \in Label
  /\ reg \in Registers
  /\ reg.iter \in Servo

(* The position sent to a servo differs from the one asked for by no more  *)
(* than BackOff: the uint16_t arithmetic of lines 171-175 never wraps,     *)
(* whatever the host stores to prev_servos_data while main computes.       *)
BackOffBounded ==
  pc = "177" => reg.corrected - reg.pos \in -BackOff .. BackOff

Driven(s) == ~i2c_buffer[s].off

(* What main is about to write (line 187) is, for every servo not set since*)
(* the push began, what the servo's record asks for: its position at first,*)
(* backed off after SettleAfter, nothing after RestAfter.  A command that  *)
(* lands in the middle of the push, on this servo or on another, does not  *)
(* spoil the other channels.                                               *)
UndisturbedOutput ==
  pc = "187" => \A s \in Servo :
    LET age == reg.time - last_servo_update[s]
    IN  age > 0 =>
          /\ Driven(s) <=> servos[s] # 0 /\ age <= RestAfter
          /\ Driven(s) => i2c_buffer[s].pulse =
                Pulse(IF age <= SettleAfter THEN servos[s]
                      ELSE BackedOff(servos[s], prev_servos[s]))

(* Between turns, if the last write went through, the chip's outputs are   *)
(* enabled just when some channel is driven (lines 165, 180-187), even if  *)
(* positions changed while the flag was being computed.                    *)
PinMatchesChannels ==
  pc = "loop" /\ chip = i2c_buffer =>
    (enable_pin <=> \E s \in Servo : ~chip[s].off)

(* A position asked for reaches the servo before it is switched off, even  *)
(* if the push in progress misses it and the next write fails, unless      *)
(* another is asked for first: lines 170, 180-187, 254-258.                *)
JustSet(s, p) ==
  servos[s] = p /\ last_servo_update[s] = msec /\ pc \notin {"256", "257"}

Reached(s, p) == enable_pin /\ chip[s] = [pulse |-> Pulse(p), off |-> FALSE]

PositionReached ==
  \A s \in Servo, p \in Positions \ {0} :
    JustSet(s, p) ~> Reached(s, p) \/ servos[s] # p

(* Servos nobody sets any more are in the end all switched off, whatever   *)
(* races and failed writes came before (line 180).                         *)
ServosRest == <>[](\A s \in Servo : chip[s].off)
=============================================================================
