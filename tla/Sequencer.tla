------------------------------ MODULE Sequencer ------------------------------
(***************************************************************************)
(* The sequencer of the ground-support controller (sequencer.c): two state *)
(* machines, oxidizer_side and fuel_side, that the main loop steps and the *)
(* USB interrupt overwrites.                                               *)
(*                                                                         *)
(* There are two threads.  The main loop runs process_sequence and can be  *)
(* interrupted between any two memory accesses; it is modelled one access  *)
(* to shared memory at a time, with pc naming the source line it is about  *)
(* to execute.  A command of the host is executed by process_command       *)
(* inside the USB interrupt, which main cannot preempt: it is one atomic   *)
(* step.  The SysTick interrupt advances the clock.                        *)
(***************************************************************************)
EXTENDS Integers, FiniteSets

CONSTANTS
  NStates,        \* nodes of a machine, 8 in the firmware
  NTransitions,   \* transitions of a node, 8 in the firmware
  NKeyframes,     \* keyframes of a transition, 4 in the firmware
  NServos,        \* servo channels, 16 in the firmware
  NButtons,       \* buttons of the operator's panel, 16 in the firmware
  NChannels,      \* pressure and temperature channels, 6 + 6 in the firmware
  Readings,       \* values a sensor may report
  Uploads,        \* <<machine, states table>> pairs the host may upload
  ValvePositions, \* positions the host's valve commands ask for
  Commands,       \* kinds of command the host sends
  ClockModulus,   \* the clock is a uint32_t: 2^32 in the firmware
  MaxMsec,        \* bound: the clock stops here
  CommandHorizon, \* bound: no command arrives later than this
  MaxCommands,    \* bound: number of commands the host sends
  NULL            \* the current_keyframes pointer before any transition

Node    == 0 .. NStates - 1
Slot    == 0 .. NTransitions - 1
Frame   == 0 .. NKeyframes - 1
Servo   == 0 .. NServos - 1
Button  == 0 .. NButtons - 1
Channel == 0 .. NChannels - 1
Msec    == 0 .. ClockModulus - 1
Machine == {"ox", "fuel"}

(* Bits of state_flags: bit 0 marks the active state, bit 1 asks for spark. *)
Flag == {"active", "spark"}

Trigger == {"NONE", "BUTTON", "TIMER", "GT", "LT", "FORCE_GT", "FORCE_LT"}

Keyframe == [delay_ms_before : Nat, servo_idx : Servo, servo_state : Nat]

Transition ==
  [abort : BOOLEAN, trigger_type : Trigger, target_state : Node,
   param1 : Nat, param2 : Nat, keyframes : [Frame -> Keyframe]]

StateNode ==
  [state_flags : SUBSET Flag, state_servos : [Servo -> Nat],
   transitions : [Slot -> Transition]]

StatesTable == [Node -> StateNode]

(* The linker places both machines in .bss: all bytes are zero at boot.    *)
ZeroTransition ==
  [abort |-> FALSE, trigger_type |-> "NONE", target_state |-> 0,
   param1 |-> 0, param2 |-> 0,
   keyframes |-> [f \in Frame |->
                    [delay_ms_before |-> 0, servo_idx |-> 0, servo_state |-> 0]]]

ZeroTable ==
  [n \in Node |-> [state_flags |-> {}, state_servos |-> [s \in Servo |-> 0],
                   transitions |-> [i \in Slot |-> ZeroTransition]]]

ASSUME SizesAssumption ==
  /\ NStates \in Nat /\ NStates >= 2
  /\ NTransitions \in Nat \ {0}
  /\ NKeyframes \in Nat \ {0}
  /\ NServos \in Nat \ {0}
  /\ NButtons \in Nat \ {0}
  /\ NChannels \in Nat

ASSUME ClockAssumption ==
  /\ ClockModulus \in Nat \ {0}
  /\ MaxMsec \in Nat
  /\ CommandHorizon \in Nat
  /\ MaxCommands \in Nat

(* What the host's editor guarantees of the tables it uploads: targets and *)
(* servo indices, which the firmware does not check, are in range.  So is  *)
(* the servo of a valve command; a position is what a uint16_t keeps of it.*)
ASSUME UploadsAssumption == Uploads \subseteq Machine \X StatesTable
ASSUME ValvesAssumption == ValvePositions \subseteq Nat
ASSUME ReadingsAssumption == Readings \subseteq Int /\ Readings # {}
ASSUME NullAssumption == NULL \notin Node \X Slot

-----------------------------------------------------------------------------
VARIABLES
  msec,          \* SysTick's millisecond counter
  machine,       \* the two state_machine structs
  button_states, \* the buttons pressed and not yet cleared
  servos,        \* servos_data: the position each servo was last given
  spark,         \* level of the spark pin
  sensors,       \* what update_sensor_data last stored
  budget,        \* commands the host may still send
  pc,            \* the line main is about to execute
  cur,           \* the machine main is checking
  reg            \* locals and registers of main

shared == <<msec, machine, button_states, servos, spark, sensors, budget>>
vars == <<msec, machine, button_states, servos, spark, sensors, budget,
          pc, cur, reg>>

(* state_flags is the one part of a node the firmware itself writes: it is *)
(* kept beside the uploaded table.                                         *)
StateMachine ==
  [states : StatesTable, flags : [Node -> SUBSET Flag], state_idx : Node,
   keyframe_idx : 0 .. NKeyframes + 1,
   current_keyframes : {NULL} \cup (Node \X Slot),
   last_keyframe_millis : Msec, timer_start_millis : Msec]

(* The labels: each is the line of sequencer.c main is about to execute,   *)
(* "l" and "s" telling the load from the store of a read-modify-write.     *)
Scanning == {"27", "28", "59"}
Executing == {"79", "80l", "80s", "81l", "81s", "82", "84", "86"}
Playing == {"33", "34", "35", "35d", "36", "38", "39", "40", "41", "44", "45"}
Label == {"loop", "24", "18"} \cup Scanning \cup Executing \cup Playing

Registers ==
  [node : Node,   \* node1: the node main scans, as read when the scan began
   iter : Nat,    \* i: index of the scan, of the servo and the button loop
   now : Msec,    \* what get_msec() returned to a timer criterion
   dest : Node,   \* the node whose flags line 81 sets
   word : SUBSET Flag,            \* state_flags between its load and store
   next : 0 .. NKeyframes + 1,    \* the keyframe the pointer next is at
   count : 0 .. NKeyframes + 1]   \* keyframe_idx between its load and store

NoLocals ==
  [node |-> 0, iter |-> 0, now |-> 0, dest |-> 0, word |-> {}, next |-> 0,
   count |-> 0]

Init ==
  /\ msec = 0
  /\ machine = [m \in Machine |->
       [states |-> ZeroTable, flags |-> [n \in Node |-> {}], state_idx |-> 0,
        keyframe_idx |-> 0, current_keyframes |-> NULL,
        last_keyframe_millis |-> 0, timer_start_millis |-> 0]]
  /\ button_states = {}
  /\ servos = [s \in Servo |-> 0]
  /\ spark = FALSE
  /\ sensors \in [Channel -> Readings]
  /\ budget = MaxCommands
  /\ pc = "loop" /\ cur = "ox" /\ reg = NoLocals

-----------------------------------------------------------------------------
(***************************************************************************)
(* The main loop, one access to shared memory at a time.                   *)
(***************************************************************************)
From(a) == pc = a
To(b) == pc' = b

(* The transition main is looking at: a pointer into the machine's table,  *)
(* which an upload may overwrite under it.                                 *)
Current == machine[cur].states[reg.node].transitions[reg.iter]

(* Elapsed time in uint32_t arithmetic: a start in the future wraps.       *)
Elapsed(t, start) == (t - start) % ClockModulus

(* Mutant: the buttons are cleared as soon as the first machine is done.   *)
ClearTooSoon == cur' = cur /\ To("18") /\ reg' = NoLocals

(* Main returns 0 from check_state_machine: on to the other machine, or to *)
(* clearing the buttons.  The callee's locals go out of scope.             *)
ReturnZero ==
  /\ IF cur = "ox" THEN cur' = "fuel" /\ To("24") ELSE UNCHANGED cur /\ To("18")
  /\ reg' = NoLocals

(* main.c: update_sensor_data, then process_sequence is entered.  The rest *)
(* of the loop (push_servo_data, delay_ms) does not touch this module's    *)
(* state and is part of the same step.                                     *)
UpdateSensors ==
  /\ From("loop") /\ To("24")
  /\ sensors' \in [Channel -> Readings]
  /\ cur' = "ox"
  /\ UNCHANGED <<msec, machine, button_states, servos, spark, budget, reg>>

(* Line 24: node1 points at the current state for the whole scan.          *)
BeginScan ==
  /\ From("24") /\ To("27")
  /\ reg' = [reg EXCEPT !.node = machine[cur].state_idx, !.iter = 0]
  /\ UNCHANGED <<shared, cur>>

Allowed == "active" \in machine[cur].flags[reg.node] \/ Current.abort

(* Main leaves transition iter for the next one, or the scan is over.      *)
NextTransition(r) ==
  IF reg.iter + 1 < NTransitions
  THEN reg' = [r EXCEPT !.iter = @ + 1] /\ To("27")
  ELSE reg' = [r EXCEPT !.iter = 0] /\ To("33")

(* Lines 25-28: is the transition allowed?                                 *)
CheckAllowed ==
  /\ From("27")
  /\ \/ Allowed /\ To("28") /\ UNCHANGED reg
     \/ ~Allowed /\ NextTransition(reg)
  /\ UNCHANGED <<shared, cur>>

(* Lines 55-74 but for TIMER; cell is what the load cell answers, which    *)
(* the criterion samples afresh.  Indices out of range never trigger.      *)
Triggered(t, cell) ==
  \/ t.trigger_type = "BUTTON" /\ t.param1 \in Button \cap button_states
  \/ /\ t.trigger_type = "GT" /\ t.param1 \in Channel
     /\ sensors[t.param1] > t.param2
  \/ /\ t.trigger_type = "LT" /\ t.param1 \in Channel
     /\ sensors[t.param1] < t.param2
  \/ t.trigger_type = "FORCE_GT" /\ cell > t.param1
  \/ t.trigger_type = "FORCE_LT" /\ cell < t.param1

EvaluateCriteria ==
  /\ From("28") /\ Current.trigger_type # "TIMER"
  /\ \E cell \in Readings :
       \/ Triggered(Current, cell) /\ To("79") /\ UNCHANGED reg
       \/ ~Triggered(Current, cell) /\ NextTransition(reg)
  /\ UNCHANGED <<shared, cur>>

(* Line 59: get_msec is called first, timer_start_millis is read after.    *)
SampleClock ==
  /\ From("28") /\ Current.trigger_type = "TIMER" /\ To("59")
  /\ reg' = [reg EXCEPT !.now = msec]
  /\ UNCHANGED <<shared, cur>>

TimerElapsed ==
  Elapsed(reg.now, machine[cur].timer_start_millis) >= Current.param1

CompareTimer ==
  /\ From("59")
  /\ \/ TimerElapsed /\ To("79") /\ reg' = [reg EXCEPT !.now = 0]
     \/ ~TimerElapsed /\ NextTransition([reg EXCEPT !.now = 0])
  /\ UNCHANGED <<shared, cur>>

-----------------------------------------------------------------------------
(* execute_transition.  Main's store to a field of the machine it checks:  *)
Store(m) ==
  /\ machine' = [machine EXCEPT ![cur] = m]
  /\ UNCHANGED <<msec, button_states, servos, spark, sensors, budget, cur>>

SetStateIdx ==
  /\ From("79") /\ To("80l")
  /\ Store([machine[cur] EXCEPT !.state_idx = Current.target_state])
  /\ UNCHANGED reg

(* A read-modify-write of state_flags is a load and a store.               *)
LoadOldFlags ==
  /\ From("80l") /\ To("80s")
  /\ reg' = [reg EXCEPT !.word = machine[cur].flags[reg.node]]
  /\ UNCHANGED <<shared, cur>>

ClearOldFlag ==
  /\ From("80s") /\ To("81l")
  /\ Store([machine[cur] EXCEPT !.flags[reg.node] = reg.word \ {"active"}])
  /\ reg' = [reg EXCEPT !.word = {}]

(* Mutant: line 81 marks the target of the transition, as line 79 set it.  *)
LoadTargetFlags ==
  /\ From("81l") /\ To("81s")
  /\ LET n == Current.target_state IN
       reg' = [reg EXCEPT !.dest = n, !.word = machine[cur].flags[n]]
  /\ UNCHANGED <<shared, cur>>

(* Line 81 reads state_idx again: not necessarily what line 79 wrote.      *)
LoadNewFlags ==
  /\ From("81l") /\ To("81s")
  /\ LET n == machine[cur].state_idx IN
       reg' = [reg EXCEPT !.dest = n, !.word = machine[cur].flags[n]]
  /\ UNCHANGED <<shared, cur>>

SetNewFlag ==
  /\ From("81s") /\ To("82")
  /\ Store([machine[cur] EXCEPT !.flags[reg.dest] = reg.word \cup {"active"}])
  /\ reg' = [reg EXCEPT !.dest = 0, !.word = {}]

(* Lines 82-83: current_keyframes is main's own, so that the two stores    *)
(* are one step for the interrupt.                                         *)
StartKeyframes ==
  /\ From("82") /\ To("84")
  /\ Store([machine[cur] EXCEPT !.current_keyframes = <<reg.node, reg.iter>>,
                                !.keyframe_idx = 0])
  /\ UNCHANGED reg

(* Mutant: the state's timer is not restarted.                             *)
StampKeyframeTime ==
  /\ From("84") /\ To("86")
  /\ Store([machine[cur] EXCEPT !.last_keyframe_millis = msec])
  /\ UNCHANGED reg

(* Lines 84-85: so are last_keyframe_millis and timer_start_millis.        *)
StampTimes ==
  /\ From("84") /\ To("86")
  /\ Store([machine[cur] EXCEPT !.last_keyframe_millis = msec,
                                !.timer_start_millis = msec])
  /\ UNCHANGED reg

(* Mutant: the spark follows the state that is left.                       *)
SetOldSpark ==
  /\ From("86") /\ To("24")
  /\ spark' = ("spark" \in machine[cur].flags[reg.node])
  /\ reg' = NoLocals
  /\ UNCHANGED <<msec, machine, button_states, servos, sensors, budget, cur>>

(* Lines 86-87 and 30: process_sequence checks the same machine again.     *)
SetSpark ==
  /\ From("86") /\ To("24")
  /\ spark' = ("spark" \in machine[cur].flags[machine[cur].state_idx])
  /\ reg' = NoLocals
  /\ UNCHANGED <<msec, machine, button_states, servos, sensors, budget, cur>>

-----------------------------------------------------------------------------
(* Lines 33-51: the keyframes of the last transition are played.           *)
(* keyframe_idx is not volatile.  After a call the compiler loads it from  *)
(* memory, reg.count; until the next call it may use that register again   *)
(* or the memory, which the interrupt may have changed.                    *)
InMemory == machine[cur].keyframe_idx
Pending(v) == v < NKeyframes
Keep(v) == reg' = [reg EXCEPT !.count = v]

KeyframesPending ==
  /\ From("33")
  /\ \/ Pending(InMemory) /\ To("34") /\ Keep(InMemory) /\ UNCHANGED cur
     \/ ~Pending(InMemory) /\ ReturnZero
  /\ UNCHANGED shared

(* Mutant: the pointer is one keyframe ahead.                              *)
PointPastKeyframe ==
  /\ pc \in {"34", "41"} /\ To("35")
  /\ \E v \in {reg.count, InMemory} :
       reg' = [reg EXCEPT !.next = v + 1, !.count = v]
  /\ UNCHANGED <<shared, cur>>

(* Lines 34 and 41: next = &current_keyframes[keyframe_idx].               *)
PointAtKeyframe ==
  /\ pc \in {"34", "41"} /\ To("35")
  /\ \E v \in {reg.count, InMemory} :
       reg' = [reg EXCEPT !.next = v, !.count = v]
  /\ UNCHANGED <<shared, cur>>

(* Mutant: the index, tested at line 33, is not tested again.              *)
KeyframeDoLoop ==
  /\ From("35") /\ To("35d")
  /\ UNCHANGED <<shared, cur, reg>>

KeyframeLoop ==
  /\ From("35")
  /\ \E v \in {reg.count, InMemory} :
       Keep(v) /\ IF Pending(v) THEN To("35d") ELSE To("44")
  /\ UNCHANGED <<shared, cur>>

(* *next, through the table as it is now. *)
NextKeyframe ==
  LET p == machine[cur].current_keyframes
  IN  machine[cur].states[p[1]].transitions[p[2]].keyframes[reg.next]

(* Mutant: a keyframe waits for more than its delay.                       *)
KeyframeOverdue ==
  /\ machine[cur].current_keyframes # NULL
  /\ Elapsed(msec, machine[cur].last_keyframe_millis)
       > NextKeyframe.delay_ms_before

(* Through the NULL pointer main reads the vector table, whose first word, *)
(* the initial stack pointer, is a delay of some six days: it never passes.*)
KeyframeDue ==
  /\ machine[cur].current_keyframes # NULL
  /\ Elapsed(msec, machine[cur].last_keyframe_millis)
       >= NextKeyframe.delay_ms_before

KeyframeDelay ==
  /\ From("35d")
  /\ \/ KeyframeDue /\ To("36")
     \/ ~KeyframeDue /\ To("44")
  /\ UNCHANGED <<shared, cur, reg>>

(* Lines 36-37: a zero position ends the keyframes.                        *)
PlayKeyframe ==
  /\ From("36") /\ To("38")
  /\ \/ /\ NextKeyframe.servo_state # 0
        /\ servos' = [servos EXCEPT
                        ![NextKeyframe.servo_idx] = NextKeyframe.servo_state]
        /\ UNCHANGED machine
     \/ /\ NextKeyframe.servo_state = 0
        /\ machine' = [machine EXCEPT ![cur].keyframe_idx = NKeyframes]
        /\ UNCHANGED servos
  /\ UNCHANGED <<msec, button_states, spark, sensors, budget, cur, reg>>

KeyframeContinue ==
  /\ From("38") /\ Keep(InMemory)
  /\ IF Pending(InMemory) THEN To("39") ELSE To("35")
  /\ UNCHANGED <<shared, cur>>

(* Line 39, and the load of line 40.                                       *)
StampKeyframe ==
  /\ From("39") /\ To("40") /\ Keep(InMemory)
  /\ Store([machine[cur] EXCEPT !.last_keyframe_millis = msec])

(* Line 40: keyframe_idx++ stores what it loaded plus one.                 *)
CountKeyframe ==
  /\ From("40") /\ To("41") /\ Keep(reg.count + 1)
  /\ Store([machine[cur] EXCEPT !.keyframe_idx = reg.count + 1])

(* Mutant: off by one, an index of exactly NKeyframes is not the end.      *)
KeyframesPastDone ==
  /\ From("44")
  /\ \/ InMemory > NKeyframes /\ To("45") /\ UNCHANGED <<cur, reg>>
     \/ InMemory <= NKeyframes /\ ReturnZero
  /\ UNCHANGED shared

(* Line 44: have all keyframes been played?                                *)
KeyframesDone ==
  /\ From("44")
  /\ \/ ~Pending(InMemory) /\ To("45") /\ UNCHANGED <<cur, reg>>
     \/ Pending(InMemory) /\ ReturnZero
  /\ UNCHANGED shared

(* Lines 45-48: one iteration; node2 is read again in each of them.        *)
StateServo == machine[cur].states[machine[cur].state_idx].state_servos[reg.iter]

ApplyStateServo ==
  /\ From("45")
  /\ servos' = IF StateServo # 0 THEN [servos EXCEPT ![reg.iter] = StateServo]
                                 ELSE servos
  /\ IF reg.iter + 1 < NServos
     THEN reg' = [reg EXCEPT !.iter = @ + 1] /\ To("45") /\ UNCHANGED cur
     ELSE ReturnZero
  /\ UNCHANGED <<msec, machine, button_states, spark, sensors, budget>>

(* Lines 18-20: one iteration of the loop that clears the buttons.         *)
ClearButton ==
  /\ From("18")
  /\ button_states' = button_states \ {reg.iter}
  /\ IF reg.iter + 1 < NButtons
     THEN reg' = [reg EXCEPT !.iter = @ + 1] /\ To("18")
     ELSE reg' = NoLocals /\ To("loop")
  /\ UNCHANGED <<msec, machine, servos, spark, sensors, budget, cur>>

ProcessSequence ==
  \/ BeginScan \/ CheckAllowed \/ EvaluateCriteria \/ SampleClock
  \/ CompareTimer \/ SetStateIdx \/ LoadOldFlags \/ ClearOldFlag
  \/ LoadNewFlags \/ SetNewFlag \/ StartKeyframes \/ StampTimes \/ SetSpark
  \/ KeyframesPending \/ PointAtKeyframe \/ KeyframeLoop \/ KeyframeDelay
  \/ PlayKeyframe \/ KeyframeContinue \/ StampKeyframe \/ CountKeyframe
  \/ KeyframesDone \/ ApplyStateServo \/ ClearButton

Main == UpdateSensors \/ ProcessSequence

-----------------------------------------------------------------------------
(***************************************************************************)
(* Commands of the host, each handled by process_command inside the USB    *)
(* interrupt: the whole handler is one step of the interleaving.           *)
(***************************************************************************)
Receive(kind) ==
  /\ kind \in Commands
  /\ budget > 0 /\ msec <= CommandHorizon
  /\ budget' = budget - 1
  /\ UNCHANGED <<msec, spark, sensors, pc, cur, reg>>

(* Mutant: an abort leaves the keyframes running.                          *)
AbortedPlaying(a) ==
  LET cleared == [a.flags EXCEPT ![a.state_idx] = @ \ {"active"}]
  IN  [a EXCEPT !.flags = [cleared EXCEPT ![1] = @ \cup {"active"}],
                !.state_idx = 1, !.timer_start_millis = msec]

(* execute_abort, for one machine: state 1 is the abort state.             *)
Aborted(a) ==
  LET cleared == [a.flags EXCEPT ![a.state_idx] = @ \ {"active"}]
  IN  [a EXCEPT !.flags = [cleared EXCEPT ![1] = @ \cup {"active"}],
                !.state_idx = 1, !.keyframe_idx = NKeyframes,
                !.timer_start_millis = msec]

ExecuteAbort ==
  /\ Receive("ABORT")
  /\ machine' = [m \in Machine |-> Aborted(machine[m])]
  /\ UNCHANGED <<button_states, servos>>

(* reset_states, for one machine: the old active flag stays where it is.   *)
Reset(a) ==
  [a EXCEPT !.state_idx = 0, !.keyframe_idx = NKeyframes,
            !.flags[0] = @ \cup {"active"}]

ResetStates ==
  /\ Receive("RESET")
  /\ machine' = [m \in Machine |-> Reset(machine[m])]
  /\ UNCHANGED <<button_states, servos>>

(* set_ox_states_data and set_fuel_states_data: the bytes of one machine's *)
(* nodes are replaced, flags included, and both machines are reset.        *)
Loaded(a, t) ==
  [a EXCEPT !.states = t, !.flags = [n \in Node |-> t[n].state_flags]]

SetStatesData ==
  /\ Receive("UPLOAD")
  /\ \E u \in Uploads :
       machine' = [m \in Machine |->
         Reset(IF m = u[1] THEN Loaded(machine[m], u[2]) ELSE machine[m])]
  /\ UNCHANGED <<button_states, servos>>

SetButtonPressed ==
  /\ Receive("BUTTON")
  /\ \E b \in Button : button_states' = button_states \cup {b}
  /\ UNCHANGED <<machine, servos>>

(* CMD_SET_VALVES: all the servos are given a position, which may be zero. *)
SetValveStates ==
  /\ Receive("SET_VALVES")
  /\ servos' \in [Servo -> ValvePositions]
  /\ UNCHANGED <<machine, button_states>>

(* CMD_SINGLE_VALVE: one servo is.                                         *)
SetSingleValve(s) ==
  /\ Receive("SINGLE_VALVE")
  /\ \E position \in ValvePositions :
       servos' = [servos EXCEPT ![s] = position]
  /\ UNCHANGED <<machine, button_states>>

Command ==
  \/ ExecuteAbort \/ ResetStates \/ SetStatesData \/ SetButtonPressed
  \/ SetValveStates \/ \E s \in Servo : SetSingleValve(s)

(* SysTick_Handler *)
Tick ==
  /\ msec < MaxMsec
  /\ msec' = (msec + 1) % ClockModulus
  /\ UNCHANGED <<machine, button_states, servos, spark, sensors, budget,
                 pc, cur, reg>>

Next == Main \/ Command \/ Tick

Spec == Init /\ [][Next]_vars

(* The interrupts leave main processor time and SysTick keeps firing.      *)
Fairness == WF_vars(Main) /\ WF_vars(Tick)
FairSpec == Spec /\ Fairness

-----------------------------------------------------------------------------
(* Types: every variable holds what its C type and the code's arithmetic   *)
(* allow; keyframe_idx never exceeds 5, one past what the code tests for.  *)
TypeOK ==
  /\ msec \in Msec
  /\ machine \in [Machine -> StateMachine]
  /\ button_states \subseteq Button
  /\ servos \in [Servo -> Nat]
  /\ spark \in BOOLEAN
  /\ sensors \in [Channel -> Readings]
  /\ budget \in 0 .. MaxCommands
  /\ pc \in Label
  /\ cur \in Machine
  /\ reg \in Registers

(* A machine that neither a command nor a transition has touched: the boot *)
(* state, in which no state is active.                                     *)
Booting(m) ==
  /\ machine[m].current_keyframes = NULL
  /\ machine[m].keyframe_idx < NKeyframes

(* Main is between the stores of execute_transition that move a machine.   *)
Moving(m) == cur = m /\ pc \in {"80l", "80s", "81l", "81s"}

(* Once a machine has been reset, uploaded or aborted, its current state   *)
(* carries the active flag, whatever command interrupts main where, except *)
(* while main itself is moving the machine.  Otherwise only its abort      *)
(* transitions could ever fire: lines 27, 80-81, 91-93, 106.               *)
CurrentStateActive ==
  \A m \in Machine :
    Booting(m) \/ Moving(m) \/ "active" \in machine[m].flags[machine[m].state_idx]

(* Main dereferences next only inside the array of keyframes, although the *)
(* interrupt may set keyframe_idx to 4 between the test and the pointer    *)
(* arithmetic: line 35 tests again before each dereference.                *)
KeyframeReadInBounds ==
  pc \in {"35d", "36"} => reg.next < NKeyframes

=============================================================================
