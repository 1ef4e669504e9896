-------------------------- MODULE ServoDriverProofs --------------------------
(***************************************************************************)
(* Proofs about the servo outputs, for any number of channels, widths of   *)
(* position and clock, delays and sequences of commands.                   *)
(***************************************************************************)
EXTENDS ServoDriver, TLAPS

(* From line 170 on corrected_data is what line 169 read, until it is      *)
(* backed off.                                                             *)
Uncorrected == pc \in {"170", "171"} => reg.corrected = reg.pos

IInv == TypeOK /\ Uncorrected /\ BackOffBounded

LEMMA PulseType ==
  ASSUME NEW p \in Int
  PROVE  Pulse(p) \in Width
<1> DEFINE q == (p * 4096) \div 20000
<1>1. q \in Int
  OBVIOUS
<1>2. Pulse(p) = q % 4096
  BY DEF Pulse
<1> HIDE DEF q
<1>3. q % 4096 \in Width
  BY <1>1 DEF Width
<1> QED
  BY <1>2, <1>3

(* A channel computed from typed registers has its type.                   *)
LEMMA OutputType ==
  ASSUME NEW p \in Int, NEW off \in BOOLEAN
  PROVE  [pulse |-> Pulse(p), off |-> off] \in Output
<1>1. \A x \in Width : [pulse |-> x, off |-> off] \in Output
  BY DEF Output
<1> QED
  BY <1>1, PulseType, Zenon

USE SizesAssumption, DelaysAssumption, BoundsAssumption

LEMMA Zeros == 0 \in Servo /\ 0 \in Position /\ 0 \in Msec
BY DEF Servo, Position, Msec

LEMMA AgeType ==
  ASSUME NEW now \in Int, NEW then \in Int
  PROVE  Age(now, then) \in Msec
BY DEF Age, Msec

(* Backing off moves a position by at most BackOff, inside its type: a     *)
(* move longer than Backlash leaves room for it.                           *)
LEMMA BackedOffInRange ==
  ASSUME NEW pos \in Position, NEW prev \in Position
  PROVE  /\ BackedOff(pos, prev) \in Position
         /\ BackedOff(pos, prev) - pos \in -BackOff .. BackOff
<1>1. CASE pos > prev /\ pos - prev > Backlash
  <2>1. pos - BackOff \in Position
    BY <1>1 DEF Position
  <2>2. (pos - BackOff) % PositionModulus = pos - BackOff
    BY <2>1 DEF Position
  <2> QED
    BY <1>1, <2>1, <2>2 DEF BackedOff, Position
<1>2. CASE pos < prev /\ prev - pos > Backlash
  <2>1. pos + BackOff \in Position
    BY <1>2 DEF Position
  <2>2. (pos + BackOff) % PositionModulus = pos + BackOff
    BY <2>1 DEF Position
  <2> QED
    BY <1>2, <2>1, <2>2 DEF BackedOff, Position
<1>3. CASE /\ ~(pos > prev /\ pos - prev > Backlash)
           /\ ~(pos < prev /\ prev - pos > Backlash)
  BY <1>3 DEF BackedOff, Position
<1> QED
  BY <1>1, <1>2, <1>3

LEMMA InitInv == Init => IInv
<1> SUFFICES ASSUME Init PROVE IInv
  OBVIOUS
<1>1. Silent \in Output
  BY DEF Silent, Output, Width
<1>3. reg \in Registers /\ reg.iter \in Servo
  BY Zeros DEF Init, Registers
<1>4. left \in [moves : 0 .. MaxMoves, commands : 0 .. MaxCommands,
               faults : 0 .. MaxFaults]
  BY DEF Init
<1>5. TypeOK
  BY Zeros, <1>1, <1>3, <1>4 DEF Init, TypeOK, Label
<1>2. Uncorrected /\ BackOffBounded
  BY DEF Init, Uncorrected, BackOffBounded
<1> QED
  BY <1>2, <1>5 DEF IInv

(* The host may store any position, at any line of main.                   *)
LEMMA CommandInv ==
  ASSUME IInv, NEW kept \in SUBSET Servo, NEW positions \in [Servo -> Positions],
         Command(kept, positions)
  PROVE  IInv'
<1>1. servos' \in [Servo -> Position] /\ prev_servos' \in [Servo -> Position]
  BY DEF IInv, TypeOK, Command
<1>2. last_servo_update' \in [Servo -> Msec]
  BY DEF IInv, TypeOK, Command
<1>3. left' \in [moves : 0 .. MaxMoves, commands : 0 .. MaxCommands,
                 faults : 0 .. MaxFaults]
  BY DEF IInv, TypeOK, Command
<1>4. UNCHANGED <<msec, outputs, pc, reg>>
  BY DEF Command
<1> QED
  BY <1>1, <1>2, <1>3, <1>4
  DEF IInv, TypeOK, Uncorrected, BackOffBounded, outputs

LEMMA ComputeOutputType ==
  ASSUME TypeOK, ComputeOutput
  PROVE  /\ i2c_buffer' \in [Servo -> Output]
         /\ reg' \in Registers /\ reg'.iter \in Servo
<1> DEFINE next == IF reg.iter + 1 < NServos THEN reg.iter + 1 ELSE 0
<1>1. PICK pos \in {reg.pos, servos[reg.iter]},
           last \in {reg.last, last_servo_update[reg.iter]} :
        /\ i2c_buffer' = [i2c_buffer EXCEPT ![reg.iter] =
              [pulse |-> Pulse(reg.corrected), off |-> Resting(pos, last)]]
        /\ reg' = [reg EXCEPT !.enable = @ \/ ~Resting(pos, last), !.pos = 0,
                     !.last = 0, !.corrected = 0, !.iter = next]
  BY DEF ComputeOutput
<1>2. PICK off \in BOOLEAN : off = Resting(pos, last)
  BY DEF Resting
<1>3. reg.corrected \in Int /\ reg.iter \in Servo
  BY DEF TypeOK, Registers, Position
<1>4. [pulse |-> Pulse(reg.corrected), off |-> off] \in Output
  BY <1>3, OutputType
<1>5. i2c_buffer' = [i2c_buffer EXCEPT ![reg.iter] =
                       [pulse |-> Pulse(reg.corrected), off |-> off]]
  BY <1>1, <1>2, Zenon
<1>6. i2c_buffer' \in [Servo -> Output]
  BY <1>4, <1>5 DEF TypeOK
<1>7. next \in Servo /\ next \in Nat
  BY <1>3, Zeros DEF Servo
<1>8. PICK enable \in BOOLEAN : enable = (reg.enable \/ ~Resting(pos, last))
  BY <1>2
<1> HIDE DEF next
<1>9. reg' = [reg EXCEPT !.enable = enable, !.pos = 0, !.last = 0,
                         !.corrected = 0, !.iter = next]
  BY <1>1, <1>8, Zenon
<1>10. reg' \in Registers /\ reg'.iter = next
  BY <1>7, <1>9, Zeros DEF TypeOK, Registers
<1> QED
  BY <1>6, <1>7, <1>10

LEMMA StepInv == IInv /\ [Next]_vars => IInv'
<1> SUFFICES ASSUME IInv, [Next]_vars PROVE IInv'
  OBVIOUS
<1> USE DEF IInv
<1> USE Zeros DEF Uncorrected, BackOffBounded, From, To, requests, outputs
<1>1. CASE CallSetServo
  <2>1. PICK s \in Servo, p \in Positions :
          reg' = [reg EXCEPT !.iter = s, !.position = p]
    BY <1>1 DEF CallSetServo
  <2>2. p \in Position /\ s \in Nat
    BY DEF Servo
  <2>3. reg' \in Registers /\ reg'.iter \in Servo
    BY <2>1, <2>2 DEF TypeOK, Registers
  <2>4. left' \in [moves : 0 .. MaxMoves, commands : 0 .. MaxCommands,
                   faults : 0 .. MaxFaults]
    BY <1>1 DEF CallSetServo, TypeOK
  <2> QED
    BY <1>1, <2>3, <2>4 DEF CallSetServo, TypeOK, Label
<1>2. CASE KeepPrevious
  BY <1>2 DEF KeepPrevious, TypeOK, Label
<1>3. CASE StampUpdate
  BY <1>3 DEF StampUpdate, TypeOK, Label
<1>4. CASE StorePosition
  <2>1. reg' \in Registers /\ reg'.iter = 0 /\ reg.position \in Position
    BY <1>4 DEF StorePosition, TypeOK, Registers
  <2> QED
    BY <1>4, <2>1 DEF StorePosition, TypeOK, Label
<1>5. CASE BeginPush
  <2>1. reg' \in Registers /\ reg'.iter = 0
    BY <1>5 DEF BeginPush, TypeOK, Registers
  <2> QED
    BY <1>5, <2>1 DEF BeginPush, TypeOK, Label
<1>6. CASE ReadPosition
  <2>1. servos[reg.iter] \in Position
    BY DEF TypeOK
  <2>2. /\ reg' \in Registers /\ reg'.iter = reg.iter
        /\ reg'.corrected = reg'.pos
    BY <1>6, <2>1 DEF ReadPosition, TypeOK, Registers
  <2> QED
    BY <1>6, <2>2 DEF ReadPosition, TypeOK, Label
<1>7. CASE ReadUpdate
  <2>1. last_servo_update[reg.iter] \in Msec
    BY DEF TypeOK
  <2>2. /\ reg' \in Registers /\ reg'.iter = reg.iter
        /\ reg'.corrected = reg'.pos
    BY <1>7, <2>1 DEF ReadUpdate, TypeOK, Registers
  <2>3. reg'.corrected - reg'.pos \in -BackOff .. BackOff
    BY <2>2 DEF Registers, Position
  <2>4. pc' \in {"171", "177"}
    BY <1>7 DEF ReadUpdate
  <2> QED
    BY <1>7, <2>2, <2>3, <2>4 DEF ReadUpdate, TypeOK, Label
<1>8. CASE ReadPrevious
  <2>1. reg.pos \in Position /\ prev_servos[reg.iter] \in Position
    BY DEF TypeOK, Registers
  <2>2. /\ reg' \in Registers /\ reg'.iter = reg.iter /\ reg'.pos = reg.pos
        /\ reg'.corrected - reg.pos \in -BackOff .. BackOff
    BY <1>8, <2>1, BackedOffInRange DEF ReadPrevious, TypeOK, Registers
  <2> QED
    BY <1>8, <2>2 DEF ReadPrevious, TypeOK, Label
<1>9. CASE ComputeOutput
  <2>1. /\ i2c_buffer' \in [Servo -> Output]
        /\ reg' \in Registers /\ reg'.iter \in Servo
    BY <1>9, ComputeOutputType
  <2>2. pc' \in {"169", "186"}
    BY <1>9 DEF ComputeOutput
  <2> QED
    BY <1>9, <2>1, <2>2 DEF ComputeOutput, TypeOK, Label
<1>10. CASE SetEnablePin
  <2>1. reg.enable \in BOOLEAN
    BY DEF TypeOK, Registers
  <2> QED
    BY <1>10, <2>1 DEF SetEnablePin, TypeOK, Label
<1>11. CASE WriteChannels
  <2>1. chip' \in [Servo -> Output]
    BY <1>11 DEF WriteChannels, TypeOK
  <2>2. left' \in [moves : 0 .. MaxMoves, commands : 0 .. MaxCommands,
                   faults : 0 .. MaxFaults]
    BY <1>11 DEF WriteChannels, TypeOK
  <2> QED
    BY <1>11, <2>1, <2>2 DEF WriteChannels, TypeOK, Label
<1>12. CASE SetServoData
  BY <1>12, CommandInv DEF SetServoData
<1>13. CASE SetServo
  <2>1. PICK s \in Servo, p \in Positions : Command({s}, [t \in Servo |-> p])
    BY <1>13 DEF SetServo
  <2>2. [t \in Servo |-> p] \in [Servo -> Positions]
    OBVIOUS
  <2> QED
    BY <2>1, <2>2, CommandInv
<1>14. CASE Tick
  <2>1. (msec + 1) % ClockModulus \in Msec
    BY DEF TypeOK, Msec
  <2> QED
    BY <1>14, <2>1 DEF Tick, TypeOK
<1>15. CASE UNCHANGED vars
  BY <1>15 DEF vars, TypeOK
<1> QED
  BY <1>1, <1>2, <1>3, <1>4, <1>5, <1>6, <1>7, <1>8, <1>9, <1>10, <1>11,
     <1>12, <1>13, <1>14, <1>15 DEF Next, Main

(* The inductive invariant holds in every state.                           *)
LEMMA Inv == Spec => []IInv
BY InitInv, StepInv, PTL DEF Spec

(* Positions stay within uint16_t and pulses within twelve bits, at every  *)
(* step of main and of the interrupt (devices.c 160-188, 232-258).         *)
THEOREM TypeCorrect == Spec => []TypeOK
<1>1. IInv => TypeOK
  BY DEF IInv
<1> QED
  BY <1>1, Inv, PTL

(* What is sent to a servo is within BackOff of what was asked for, for    *)
(* every width of position and every Backlash of at least BackOff (lines   *)
(* 169-176).                                                               *)
THEOREM NoWrapInBackOff == Spec => []BackOffBounded
<1>1. IInv => BackOffBounded
  BY DEF IInv
<1> QED
  BY <1>1, Inv, PTL


-----------------------------------------------------------------------------
(* The channels main has computed in this push.                            *)
Pushing == {"169", "170", "171", "177"}

Computed(s) == (pc \in Pushing /\ s < reg.iter) \/ pc = "186"

(* The flag that enables the outputs is about the channels computed.       *)
EnableInv ==
  /\ pc \in Pushing \cup {"186"} => (reg.enable <=> \E s \in Servo : Computed(s) /\ Driven(s))
  /\ pc \notin Pushing \cup {"186"} => (enable_pin <=> \E s \in Servo : Driven(s))

LEMMA InitEnable == Init => EnableInv
<1> SUFFICES ASSUME Init PROVE EnableInv
  OBVIOUS
<1>1. pc = "loop" /\ \A s \in Servo : ~Driven(s)
  BY DEF Init, Driven, Silent
<1>2. ~enable_pin
  BY Zenon DEF Init
<1> QED
  BY <1>1, <1>2 DEF EnableInv, Pushing

(* What the end of line 184 leaves.                                        *)
LEMMA ComputeMoves ==
  ASSUME TypeOK, ComputeOutput
  PROVE  \E pos \in {reg.pos, servos[reg.iter]}, last \in {reg.last, last_servo_update[reg.iter]} :
           /\ (i2c_buffer'[reg.iter].off <=> Resting(pos, last))
           /\ i2c_buffer'[reg.iter].pulse = Pulse(reg.corrected)
           /\ \A s \in Servo \ {reg.iter} : i2c_buffer'[s] = i2c_buffer[s]
           /\ (reg'.enable <=> reg.enable \/ ~Resting(pos, last))
           /\ reg'.time = reg.time
           /\ \/ reg.iter + 1 < NServos /\ reg'.iter = reg.iter + 1 /\ pc' = "169"
              \/ reg.iter + 1 = NServos /\ pc' = "186"
<1> DEFINE next == IF reg.iter + 1 < NServos THEN reg.iter + 1 ELSE 0
           out(off) == [pulse |-> Pulse(reg.corrected), off |-> off]
<1>1. PICK pos \in {reg.pos, servos[reg.iter]},
           last \in {reg.last, last_servo_update[reg.iter]} :
        /\ i2c_buffer' = [i2c_buffer EXCEPT ![reg.iter] = out(Resting(pos, last))]
        /\ reg' = [reg EXCEPT !.enable = @ \/ ~Resting(pos, last), !.pos = 0,
                     !.last = 0, !.corrected = 0, !.iter = next]
  BY DEF ComputeOutput
<1>2. PICK off \in BOOLEAN : off = Resting(pos, last)
  BY DEF Resting
<1>3. i2c_buffer' = [i2c_buffer EXCEPT ![reg.iter] = out(off)]
  BY <1>1, <1>2, Zenon
<1>4. PICK enable \in BOOLEAN : enable = (reg.enable \/ ~Resting(pos, last))
  BY <1>2
<1>5. reg' = [reg EXCEPT !.enable = enable, !.pos = 0, !.last = 0, !.corrected = 0, !.iter = next]
  BY <1>1, <1>4, Zenon
<1>6. /\ reg' = [reg EXCEPT !.enable = enable, !.pos = 0, !.last = 0, !.corrected = 0, !.iter = next]
      => (reg'.enable <=> enable) /\ reg'.iter = next /\ reg'.time = reg.time
  <2> HIDE DEF next
  <2> QED
    BY DEF TypeOK, Registers
<1>7. reg.iter \in Servo /\ reg.iter \in Int
  BY DEF TypeOK, Servo
<1>8. (out(off).off <=> off) /\ out(off).pulse = Pulse(reg.corrected)
  OBVIOUS
<1> HIDE DEF out
<1>9. i2c_buffer'[reg.iter] = out(off) /\ \A s \in Servo \ {reg.iter} : i2c_buffer'[s] = i2c_buffer[s]
  BY <1>3, <1>7 DEF TypeOK
<1>10. (i2c_buffer'[reg.iter].off <=> off) /\ i2c_buffer'[reg.iter].pulse = Pulse(reg.corrected)
  BY <1>8, <1>9
<1>11. pc' = IF reg.iter + 1 < NServos THEN "169" ELSE "186"
  BY DEF ComputeOutput, To
<1>12. reg.iter + 1 < NServos \/ reg.iter + 1 = NServos
  BY <1>7 DEF Servo
<1>13. /\ (i2c_buffer'[reg.iter].off <=> Resting(pos, last))
       /\ i2c_buffer'[reg.iter].pulse = Pulse(reg.corrected)
       /\ (reg'.enable <=> reg.enable \/ ~Resting(pos, last))
  BY <1>2, <1>4, <1>5, <1>6, <1>10
<1>14. \/ reg.iter + 1 < NServos /\ reg'.iter = reg.iter + 1 /\ pc' = "169"
       \/ reg.iter + 1 = NServos /\ pc' = "186"
  BY <1>5, <1>6, <1>7, <1>11, <1>12
<1>15. reg'.time = reg.time
  BY <1>5, <1>6
<1>16. \A s \in Servo \ {reg.iter} : i2c_buffer'[s] = i2c_buffer[s]
  BY <1>9
<1> QED
  BY <1>13, <1>14, <1>15, <1>16

(* Steps inside the computation of the channels that leave it where it is. *)
LEMMA EnableInside ==
  ASSUME EnableInv, pc \in Pushing, pc' \in Pushing, reg'.iter = reg.iter,
         reg'.enable <=> reg.enable, i2c_buffer' = i2c_buffer
  PROVE  EnableInv'
<1>1. \A s \in Servo : (Computed(s)' <=> Computed(s)) /\ (Driven(s)' <=> Driven(s))
  BY DEF Computed, Driven, Pushing
<1>2. reg'.enable <=> \E s \in Servo : Computed(s)' /\ Driven(s)'
  BY <1>1 DEF EnableInv
<1> QED
  BY <1>2 DEF EnableInv

(* Steps outside it that touch neither the channels nor the line.          *)
LEMMA EnableOutside ==
  ASSUME EnableInv, pc \notin Pushing \cup {"186"}, pc' \notin Pushing \cup {"186"},
         i2c_buffer' = i2c_buffer, enable_pin' = enable_pin
  PROVE  EnableInv'
<1>1. \A s \in Servo : Driven(s)' <=> Driven(s)
  BY DEF Driven
<1> QED
  BY <1>1 DEF EnableInv

(* Steps of the interrupts.                                                *)
LEMMA EnableElsewhere ==
  ASSUME EnableInv, UNCHANGED <<outputs, pc, reg>>
  PROVE  EnableInv'
BY DEF EnableInv, Computed, Driven, outputs

LEMMA ComputeEnable ==
  ASSUME TypeOK, EnableInv, ComputeOutput
  PROVE  EnableInv'
<1>1. PICK pos \in {reg.pos, servos[reg.iter]}, last \in {reg.last, last_servo_update[reg.iter]} :
        /\ (i2c_buffer'[reg.iter].off <=> Resting(pos, last))
        /\ \A s \in Servo \ {reg.iter} : i2c_buffer'[s] = i2c_buffer[s]
        /\ (reg'.enable <=> reg.enable \/ ~Resting(pos, last))
        /\ \/ reg.iter + 1 < NServos /\ reg'.iter = reg.iter + 1 /\ pc' = "169"
           \/ reg.iter + 1 = NServos /\ pc' = "186"
  BY ComputeMoves
<1>2. pc = "177" /\ reg.iter \in Servo
  BY DEF ComputeOutput, From, TypeOK
<1>3. \A s \in Servo : Computed(s)' <=> s < reg.iter \/ s = reg.iter
  BY <1>1, <1>2 DEF Computed, Pushing, Servo
<1>4. \A s \in Servo : Computed(s) <=> s < reg.iter
  BY <1>2 DEF Computed, Pushing
<1>5. \A s \in Servo : s < reg.iter => s \in Servo \ {reg.iter}
  BY <1>2 DEF Servo
<1>6. \A s \in Servo : s < reg.iter => (Driven(s)' <=> Driven(s))
  BY <1>1, <1>5 DEF Driven
<1>7. \A s \in Servo : s = reg.iter => (Driven(s)' <=> ~Resting(pos, last))
  BY <1>1 DEF Driven
<1>8. reg.enable <=> \E s \in Servo : s < reg.iter /\ Driven(s)
  BY <1>2, <1>4 DEF EnableInv, Pushing
<1>9. (\E s \in Servo : Computed(s)' /\ Driven(s)') <=> reg.enable \/ ~Resting(pos, last)
  BY <1>2, <1>3, <1>6, <1>7, <1>8
<1>10. pc' \in Pushing \cup {"186"}
  BY <1>1 DEF Pushing
<1> QED
  BY <1>1, <1>9, <1>10 DEF EnableInv

LEMMA StepEnable == TypeOK /\ EnableInv /\ [Next]_vars => EnableInv'
<1> SUFFICES ASSUME TypeOK, EnableInv, [Next]_vars PROVE EnableInv'
  OBVIOUS
<1> USE DEF From, To, outputs
<1>1. CASE CallSetServo
  BY <1>1, EnableOutside DEF CallSetServo, Pushing
<1>2. CASE KeepPrevious
  BY <1>2, EnableOutside DEF KeepPrevious, Pushing
<1>3. CASE StampUpdate
  BY <1>3, EnableOutside DEF StampUpdate, Pushing
<1>4. CASE StorePosition
  BY <1>4, EnableOutside DEF StorePosition, Pushing
<1>5. CASE BeginPush
  <2>1. pc' = "169" /\ reg'.iter = 0 /\ ~reg'.enable
    BY <1>5 DEF BeginPush, TypeOK, Registers
  <2>2. \A s \in Servo : ~Computed(s)'
    BY <2>1 DEF Computed, Servo
  <2> QED
    BY <2>1, <2>2 DEF EnableInv, Pushing
<1>6. CASE ReadPosition
  <2>1. reg'.iter = reg.iter /\ (reg'.enable <=> reg.enable)
    BY <1>6 DEF ReadPosition, TypeOK, Registers
  <2> QED
    BY <1>6, <2>1, EnableInside DEF ReadPosition, Pushing
<1>7. CASE ReadUpdate
  <2>1. reg'.iter = reg.iter /\ (reg'.enable <=> reg.enable)
    BY <1>7 DEF ReadUpdate, TypeOK, Registers
  <2> QED
    BY <1>7, <2>1, EnableInside DEF ReadUpdate, Pushing
<1>8. CASE ReadPrevious
  <2>1. reg'.iter = reg.iter /\ (reg'.enable <=> reg.enable)
    BY <1>8 DEF ReadPrevious, TypeOK, Registers
  <2> QED
    BY <1>8, <2>1, EnableInside DEF ReadPrevious, Pushing
<1>9. CASE ComputeOutput
  BY <1>9, ComputeEnable
<1>10. CASE SetEnablePin
  <2>1. pc = "186" /\ pc' = "187" /\ i2c_buffer' = i2c_buffer /\ enable_pin' = reg.enable
    BY <1>10 DEF SetEnablePin
  <2>2. enable_pin' <=> reg.enable
    BY <2>1
  <2>3. \A s \in Servo : Computed(s) /\ (Driven(s)' <=> Driven(s))
    BY <2>1 DEF Computed, Driven
  <2> QED
    BY <2>1, <2>2, <2>3 DEF EnableInv, Pushing
<1>11. CASE WriteChannels
  BY <1>11, EnableOutside DEF WriteChannels, Pushing
<1>12. CASE SetServoData
  BY <1>12, EnableElsewhere DEF SetServoData, Command
<1>13. CASE SetServo
  BY <1>13, EnableElsewhere DEF SetServo, Command
<1>14. CASE Tick
  BY <1>14, EnableElsewhere DEF Tick
<1>15. CASE UNCHANGED vars
  BY <1>15, EnableElsewhere DEF vars
<1> QED
  BY <1>1, <1>2, <1>3, <1>4, <1>5, <1>6, <1>7, <1>8, <1>9, <1>10, <1>11,
     <1>12, <1>13, <1>14, <1>15 DEF Next, Main

LEMMA Enable == Spec => []EnableInv
<1>1. IInv => TypeOK
  BY DEF IInv
<1> QED
  BY <1>1, Inv, InitEnable, StepEnable, PTL DEF Spec

(* After every turn whose write went through, the chip's outputs are       *)
(* enabled just when a channel is driven, for any number of channels and   *)
(* any commands that come while the flag is computed (devices.c 165,       *)
(* 180-187).                                                               *)
THEOREM PinFollowsChannels == Spec => []PinMatchesChannels
<1>1. EnableInv => PinMatchesChannels
  BY DEF EnableInv, PinMatchesChannels, Driven, Pushing
<1> QED
  BY <1>1, Enable, PTL

-----------------------------------------------------------------------------
(* What a servo's record asks of its channel at a time, and the channel    *)
(* that gives it.                                                          *)
Wanted(time, pos, prev, last) ==
  IF time - last <= SettleAfter THEN pos ELSE BackedOff(pos, prev)

Right(output, time, pos, prev, last) ==
  /\ ~output.off <=> pos # 0 /\ time - last <= RestAfter
  /\ ~output.off => output.pulse = Pulse(Wanted(time, pos, prev, last))

(* No servo was set, and no push began, later than now.                    *)
ClockOrder ==
  /\ msec <= MaxMsec
  /\ reg.time <= msec
  /\ \A s \in Servo : last_servo_update[s] <= msec

(* What main has read of the servo it computes.                            *)
ReadSoFar(s) ==
  /\ pc \in {"170", "171", "177"} => reg.pos = servos[s]
  /\ pc \in {"171", "177"} => reg.last = last_servo_update[s]
  /\ pc = "171" => reg.time - reg.last > SettleAfter
  /\ pc = "177" =>
       reg.corrected = Wanted(reg.time, servos[s], prev_servos[s], last_servo_update[s])

(* A servo not set since the push began keeps its record, so that what is  *)
(* read and computed of it stays what the record asks for.                 *)
Undisturbed(s) ==
  reg.time > last_servo_update[s] =>
    /\ Computed(s) \/ pc = "187" =>
         Right(i2c_buffer[s], reg.time, servos[s], prev_servos[s], last_servo_update[s])
    /\ s = reg.iter => ReadSoFar(s)

OutputInv == ClockOrder /\ \A s \in Servo : Undisturbed(s)

(* Before the clock wraps the age of a setting is a difference.            *)
LEMMA AgeIsDifference ==
  ASSUME NEW now \in Msec, NEW then \in Msec, then <= now
  PROVE  Age(now, then) = now - then
<1>1. now - then \in 0 .. ClockModulus - 1
  BY DEF Msec
<1> QED
  BY <1>1 DEF Age

LEMMA InitOutput == Init => OutputInv
<1> SUFFICES ASSUME Init PROVE OutputInv
  OBVIOUS
<1>1. reg.time = 0 /\ msec = 0 /\ \A s \in Servo : last_servo_update[s] = 0
  BY DEF Init
<1> QED
  BY <1>1 DEF OutputInv, ClockOrder, Undisturbed

(* Clock and settings of a step that sets no servo and begins no push.     *)
LEMMA SameClock ==
  ASSUME ClockOrder, msec' = msec, reg'.time = reg.time,
         last_servo_update' = last_servo_update
  PROVE  ClockOrder'
BY DEF ClockOrder

(* The host's commands set a servo to the moment, which undoes no earlier  *)
(* promise, or leave its record alone.                                     *)
LEMMA CommandOutput ==
  ASSUME TypeOK, OutputInv, NEW kept \in SUBSET Servo, NEW positions \in [Servo -> Positions],
         Command(kept, positions)
  PROVE  OutputInv'
<1>1. UNCHANGED <<msec, outputs, pc, reg>>
  BY DEF Command
<1>2. \A s \in Servo :
        \/ last_servo_update'[s] = msec
        \/ /\ last_servo_update'[s] = last_servo_update[s]
           /\ servos'[s] = servos[s] /\ prev_servos'[s] = prev_servos[s]
  BY DEF Command
<1>3. reg.time \in Int /\ msec \in Int
  BY DEF TypeOK, Registers, Msec
<1>4. ClockOrder'
  BY <1>1, <1>2, <1>3 DEF OutputInv, ClockOrder
<1>5. ASSUME NEW s \in Servo PROVE Undisturbed(s)'
  <2>1. CASE last_servo_update'[s] = msec
    <3>1. ~(reg'.time > last_servo_update'[s])
      BY <1>1, <1>3, <2>1 DEF OutputInv, ClockOrder
    <3> QED
      BY <3>1 DEF Undisturbed
  <2>2. CASE /\ last_servo_update'[s] = last_servo_update[s]
             /\ servos'[s] = servos[s] /\ prev_servos'[s] = prev_servos[s]
    <3>1. Undisturbed(s)
      BY DEF OutputInv
    <3>2. /\ i2c_buffer' = i2c_buffer /\ reg' = reg /\ pc' = pc
      BY <1>1 DEF outputs
    <3> QED
      BY <2>2, <3>1, <3>2 DEF Undisturbed, Computed, ReadSoFar
  <2> QED
    BY <1>2, <2>1, <2>2
<1> QED
  BY <1>4, <1>5 DEF OutputInv

(* Where nothing is computed nothing is promised.                          *)
LEMMA NothingComputed ==
  ASSUME pc' \notin Pushing \cup {"186", "187"} \/ (pc' = "169" /\ reg'.iter = 0), ClockOrder'
  PROVE  OutputInv'
<1>1. ASSUME NEW s \in Servo PROVE ~Computed(s)' /\ pc' # "187" /\ ReadSoFar(s)'
  BY DEF Computed, Pushing, ReadSoFar, Servo
<1> QED
  BY <1>1 DEF OutputInv, Undisturbed

(* A step of the computation at one servo: what is computed stays, and     *)
(* only what is read of that servo has to be shown.                        *)
LEMMA ReadingOutput ==
  ASSUME OutputInv, pc \in Pushing, pc' \in Pushing,
         reg'.iter = reg.iter, reg'.time = reg.time,
         UNCHANGED <<msec, requests, i2c_buffer>>,
         NEW s \in Servo, s = reg.iter => ReadSoFar(s)' \/ reg.time <= last_servo_update[s],
         reg.time \in Int, last_servo_update[s] \in Int
  PROVE  Undisturbed(s)'
<1>1. Undisturbed(s)
  BY DEF OutputInv
<1>2. /\ servos' = servos /\ prev_servos' = prev_servos
      /\ last_servo_update' = last_servo_update
      /\ i2c_buffer' = i2c_buffer
  BY DEF requests
<1>3. (Computed(s)' <=> Computed(s)) /\ pc' # "187"
  BY DEF Computed, Pushing
<1> QED
  BY <1>1, <1>2, <1>3 DEF Undisturbed

(* The end of line 184: the channel is what the servo's record asks for.   *)
LEMMA ComputedRight ==
  ASSUME TypeOK, OutputInv, ComputeOutput, MaxMsec < ClockModulus
  PROVE  OutputInv'
<1> DEFINE j == reg.iter
<1>1. PICK pos \in {reg.pos, servos[reg.iter]}, last \in {reg.last, last_servo_update[reg.iter]} :
        /\ (i2c_buffer'[reg.iter].off <=> Resting(pos, last))
        /\ i2c_buffer'[reg.iter].pulse = Pulse(reg.corrected)
        /\ \A s \in Servo \ {reg.iter} : i2c_buffer'[s] = i2c_buffer[s]
        /\ reg'.time = reg.time
        /\ \/ reg.iter + 1 < NServos /\ reg'.iter = reg.iter + 1 /\ pc' = "169"
           \/ reg.iter + 1 = NServos /\ pc' = "186"
  BY ComputeMoves
<1>2. /\ servos' = servos /\ prev_servos' = prev_servos /\ msec' = msec
      /\ last_servo_update' = last_servo_update /\ pc = "177"
  BY DEF ComputeOutput, requests, From
<1>3. ClockOrder'
  BY <1>1, <1>2, SameClock DEF OutputInv
<1>4. j \in Servo /\ j \in Int /\ reg.time \in Msec /\ last_servo_update[j] \in Msec
  BY DEF TypeOK, Registers, Servo
<1>5. ASSUME NEW s \in Servo, reg.time > last_servo_update[s] PROVE Undisturbed(s)'
  <2>1. pc' \in {"169", "186"} /\ ReadSoFar(s)'
    BY <1>1 DEF ReadSoFar
  <2>2. Undisturbed(s)
    BY DEF OutputInv
  <2>3. CASE s = j
    <3>1. ReadSoFar(j)
      BY <1>5, <2>2, <2>3 DEF Undisturbed
    <3>2. /\ pos = servos[j] /\ last = last_servo_update[j]
          /\ reg.corrected = Wanted(reg.time, servos[j], prev_servos[j], last_servo_update[j])
      BY <1>1, <1>2, <3>1 DEF ReadSoFar
    <3>3. Age(reg.time, last_servo_update[j]) = reg.time - last_servo_update[j]
      BY <1>4, <1>5, <2>3, AgeIsDifference DEF Msec
    <3>4. ~i2c_buffer'[j].off <=> servos[j] # 0 /\ reg.time - last_servo_update[j] <= RestAfter
      BY <1>1, <1>4, <3>2, <3>3 DEF Resting, Msec
    <3>5. Right(i2c_buffer'[j], reg.time, servos[j], prev_servos[j], last_servo_update[j])
      BY <1>1, <3>2, <3>4 DEF Right
    <3> QED
      BY <1>1, <1>2, <2>1, <2>3, <3>5 DEF Undisturbed
  <2>4. CASE s # j
    <3>1. i2c_buffer'[s] = i2c_buffer[s]
      BY <1>1, <2>4
    <3>2. Computed(s)' => Computed(s)
      BY <1>1, <1>2, <1>4, <2>1, <2>4 DEF Computed, Pushing, Servo
    <3> QED
      BY <1>1, <1>2, <2>1, <2>2, <3>1, <3>2 DEF Undisturbed
  <2> QED
    BY <2>3, <2>4
<1>6. ASSUME NEW s \in Servo, ~(reg.time > last_servo_update[s]) PROVE Undisturbed(s)'
  BY <1>1, <1>2, <1>6 DEF Undisturbed
<1> QED
  BY <1>3, <1>5, <1>6 DEF OutputInv

LEMMA StepOutput ==
  ASSUME MaxMsec < ClockModulus
  PROVE  IInv /\ OutputInv /\ [Next]_vars => OutputInv'
<1> SUFFICES ASSUME IInv, OutputInv, [Next]_vars PROVE OutputInv'
  OBVIOUS
<1> USE DEF From, To
<1>1. TypeOK /\ ClockOrder /\ Uncorrected
  BY DEF IInv, OutputInv
<1>2. /\ reg.time \in Int /\ msec \in Int
      /\ \A s \in Servo : last_servo_update[s] \in Int
  BY <1>1 DEF TypeOK, Registers, Msec
<1>3. CASE CallSetServo
  <2>1. reg'.time = reg.time
    BY <1>1, <1>3 DEF CallSetServo, TypeOK, Registers
  <2>2. ClockOrder'
    BY <1>1, <1>3, <2>1, SameClock DEF CallSetServo, requests
  <2> QED
    BY <1>3, <2>2, NothingComputed DEF CallSetServo, Pushing
<1>4. CASE KeepPrevious
  <2>1. ClockOrder'
    BY <1>1, <1>4, SameClock DEF KeepPrevious
  <2> QED
    BY <1>4, <2>1, NothingComputed DEF KeepPrevious, Pushing
<1>5. CASE StampUpdate
  <2>1. \A s \in Servo : last_servo_update'[s] \in {last_servo_update[s], msec}
    BY <1>1, <1>5 DEF StampUpdate, TypeOK
  <2>2. ClockOrder'
    BY <1>1, <1>2, <1>5, <2>1 DEF StampUpdate, ClockOrder
  <2> QED
    BY <1>5, <2>2, NothingComputed DEF StampUpdate, Pushing
<1>6. CASE StorePosition
  <2>1. reg'.time = reg.time
    BY <1>1, <1>6 DEF StorePosition, TypeOK, Registers
  <2>2. ClockOrder'
    BY <1>1, <1>6, <2>1, SameClock DEF StorePosition
  <2> QED
    BY <1>6, <2>2, NothingComputed DEF StorePosition, Pushing
<1>7. CASE BeginPush
  <2>1. pc' = "169" /\ reg'.iter = 0 /\ reg'.time = msec
    BY <1>1, <1>7 DEF BeginPush, TypeOK, Registers
  <2>2. ClockOrder'
    BY <1>1, <1>2, <1>7, <2>1 DEF BeginPush, ClockOrder, requests
  <2> QED
    BY <2>1, <2>2, NothingComputed
<1>8. CASE ReadPosition
  <2>1. /\ reg'.iter = reg.iter /\ reg'.time = reg.time /\ reg'.pos = servos[reg.iter]
        /\ pc' = "170" /\ servos' = servos
    BY <1>1, <1>8 DEF ReadPosition, TypeOK, Registers, requests
  <2>2. \A s \in Servo : s = reg.iter => ReadSoFar(s)'
    BY <2>1 DEF ReadSoFar
  <2>3. \A s \in Servo : Undisturbed(s)'
    BY <1>2, <1>8, <2>1, <2>2, ReadingOutput DEF ReadPosition, Pushing, outputs
  <2>4. ClockOrder'
    BY <1>1, <1>8, <2>1, SameClock DEF ReadPosition, requests
  <2> QED
    BY <2>3, <2>4 DEF OutputInv

<1>9. CASE ReadUpdate
  <2> DEFINE j == reg.iter
  <2>1. /\ reg'.iter = j /\ reg'.time = reg.time /\ reg'.pos = reg.pos
        /\ reg'.corrected = reg.corrected /\ reg'.last = last_servo_update[j]
    BY <1>1, <1>9 DEF ReadUpdate, TypeOK, Registers
  <2>2. /\ pc = "170" /\ UNCHANGED <<msec, servos, prev_servos, last_servo_update, i2c_buffer>>
        /\ pc' = IF Age(reg.time, last_servo_update[j]) > SettleAfter THEN "171" ELSE "177"
    BY <1>9, <2>1 DEF ReadUpdate, requests, outputs
  <2>3. j \in Servo /\ reg.time \in Msec /\ last_servo_update[j] \in Msec
    BY <1>1 DEF TypeOK, Registers
  <2>4. ASSUME reg.time > last_servo_update[j], NEW s \in Servo, s = j PROVE ReadSoFar(s)'
    <3>1. Age(reg.time, last_servo_update[j]) = reg.time - last_servo_update[j]
      BY <2>3, <2>4, AgeIsDifference DEF Msec
    <3>2. reg.pos = servos[j] /\ reg.corrected = servos[j]
      BY <1>1, <2>2, <2>3, <2>4 DEF OutputInv, Undisturbed, ReadSoFar, Uncorrected
    <3>3. pc' = "177" => reg.time - last_servo_update[j] <= SettleAfter
      BY <2>2, <2>3, <3>1 DEF Msec
    <3>4. pc' = "171" => reg.time - last_servo_update[j] > SettleAfter
      BY <2>2, <3>1
    <3>5. pc' # "170"
      BY <2>2
    <3> QED
      BY <2>1, <2>2, <2>4, <3>2, <3>3, <3>4, <3>5 DEF ReadSoFar, Wanted
  <2>5. \A s \in Servo : s = j => ReadSoFar(s)' \/ reg.time <= last_servo_update[s]
    BY <1>2, <2>4
  <2>6. \A s \in Servo : Undisturbed(s)'
    BY <1>2, <2>1, <2>2, <2>5, ReadingOutput DEF Pushing, requests
  <2>7. ClockOrder'
    BY <1>1, <2>1, <2>2, SameClock
  <2> QED
    BY <2>6, <2>7 DEF OutputInv
<1>10. CASE ReadPrevious
  <2> DEFINE j == reg.iter
  <2>1. /\ reg'.iter = j /\ reg'.time = reg.time /\ reg'.pos = reg.pos /\ reg'.last = reg.last
        /\ reg'.corrected = BackedOff(reg.pos, prev_servos[j])
    <3>1. reg.pos \in Position /\ prev_servos[j] \in Position
      BY <1>1 DEF TypeOK, Registers
    <3>2. BackedOff(reg.pos, prev_servos[j]) \in Position
      BY <3>1, BackedOffInRange
    <3> QED
      BY <1>1, <1>10, <3>2 DEF ReadPrevious, TypeOK, Registers
  <2>2. /\ pc = "171" /\ pc' = "177"
        /\ UNCHANGED <<msec, servos, prev_servos, last_servo_update, i2c_buffer>>
    BY <1>10 DEF ReadPrevious, requests, outputs
  <2>3. ASSUME NEW s \in Servo, reg.time > last_servo_update[s], s = j PROVE ReadSoFar(s)'
    <3>1. /\ reg.pos = servos[s] /\ reg.last = last_servo_update[s]
          /\ reg.time - reg.last > SettleAfter
      BY <2>2, <2>3 DEF OutputInv, Undisturbed, ReadSoFar
    <3>2. ~(reg.time - last_servo_update[s] <= SettleAfter)
      BY <1>2, <3>1
    <3> QED
      BY <2>1, <2>2, <2>3, <3>1, <3>2 DEF ReadSoFar, Wanted
  <2>4. \A s \in Servo : s = j => ReadSoFar(s)' \/ reg.time <= last_servo_update[s]
    BY <1>2, <2>3
  <2>5. \A s \in Servo : Undisturbed(s)'
    BY <1>2, <2>1, <2>2, <2>4, ReadingOutput DEF Pushing, requests
  <2>6. ClockOrder'
    BY <1>1, <2>1, <2>2, SameClock
  <2> QED
    BY <2>5, <2>6 DEF OutputInv
<1>11. CASE ComputeOutput
  BY <1>1, <1>11, ComputedRight
<1>12. CASE SetEnablePin
  <2>1. /\ pc = "186" /\ pc' = "187" /\ reg' = reg
        /\ UNCHANGED <<msec, servos, prev_servos, last_servo_update, i2c_buffer>>
    BY <1>12 DEF SetEnablePin, requests
  <2>2. \A s \in Servo : Undisturbed(s) /\ Computed(s)
    BY <2>1 DEF OutputInv, Computed
  <2>3. \A s \in Servo : Undisturbed(s)'
    BY <2>1, <2>2 DEF Undisturbed, ReadSoFar
  <2>4. ClockOrder'
    BY <1>1, <2>1, SameClock
  <2> QED
    BY <2>3, <2>4 DEF OutputInv
<1>13. CASE WriteChannels
  <2>1. ClockOrder'
    BY <1>1, <1>13, SameClock DEF WriteChannels, requests
  <2> QED
    BY <1>13, <2>1, NothingComputed DEF WriteChannels, Pushing
<1>14. CASE SetServoData
  BY <1>1, <1>14, CommandOutput DEF SetServoData
<1>15. CASE SetServo
  <2>1. PICK s \in Servo, p \in Positions : Command({s}, [t \in Servo |-> p])
    BY <1>15 DEF SetServo
  <2>2. [t \in Servo |-> p] \in [Servo -> Positions]
    OBVIOUS
  <2> QED
    BY <1>1, <2>1, <2>2, CommandOutput
<1>16. CASE Tick
  <2>1. msec' = (msec + 1) % ClockModulus /\ msec < MaxMsec /\ msec \in Nat
    BY <1>1, <1>16 DEF Tick, TypeOK, Msec
  <2>2. msec' = msec + 1 /\ msec' <= MaxMsec
    BY <2>1
  <2>3. UNCHANGED <<servos, prev_servos, last_servo_update, i2c_buffer, pc, reg>>
    BY <1>16 DEF Tick, requests, outputs
  <2>4. ClockOrder'
    BY <1>1, <1>2, <2>2, <2>3 DEF ClockOrder
  <2>5. \A s \in Servo : Undisturbed(s)'
    BY <2>3 DEF OutputInv, Undisturbed, Computed, ReadSoFar
  <2> QED
    BY <2>4, <2>5 DEF OutputInv
<1>17. CASE UNCHANGED vars
  BY <1>17 DEF vars, OutputInv, ClockOrder, Undisturbed, Computed, ReadSoFar
<1> QED
  BY <1>3, <1>4, <1>5, <1>6, <1>7, <1>8, <1>9, <1>10, <1>11, <1>12, <1>13,
     <1>14, <1>15, <1>16, <1>17 DEF Next, Main

(* As long as the clock does not wrap, which takes 49 days, what a push    *)
(* writes is what the record of every servo not set since it began asks    *)
(* for, whatever commands come at any line of it (devices.c 160-188).      *)
THEOREM OutputsAreUndisturbed ==
  ASSUME MaxMsec < ClockModulus
  PROVE  Spec => []UndisturbedOutput
<1>1. IInv /\ OutputInv => UndisturbedOutput
  <2> SUFFICES ASSUME IInv, OutputInv, pc = "187", NEW s \in Servo,
                      reg.time - last_servo_update[s] > 0
               PROVE  /\ Driven(s) <=> servos[s] # 0 /\ reg.time - last_servo_update[s] <= RestAfter
                      /\ Driven(s) => i2c_buffer[s].pulse =
                           Pulse(Wanted(reg.time, servos[s], prev_servos[s], last_servo_update[s]))
    BY DEF UndisturbedOutput, Wanted
  <2>1. reg.time > last_servo_update[s]
    BY DEF IInv, TypeOK, Registers, Msec
  <2> QED
    BY <2>1 DEF OutputInv, Undisturbed, Right, Driven
<1> QED
  BY <1>1, Inv, InitOutput, StepOutput, PTL DEF Spec
=============================================================================
