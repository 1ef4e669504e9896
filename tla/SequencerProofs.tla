--------------------------- MODULE SequencerProofs ---------------------------
(***************************************************************************)
(* Proofs about the sequencer, for tables, clocks and command sequences of *)
(* any size.                                                               *)
(***************************************************************************)
EXTENDS Sequencer, TLAPS

(* The loop index main uses to look into the table is an index of it.      *)
Looking == Scanning \cup {"79", "80l", "80s", "81l", "81s", "82"}

IterInRange ==
  /\ pc \in Looking => reg.iter \in Slot
  /\ pc \in Playing => reg.iter \in Servo

Index == machine[cur].keyframe_idx

(* What main knows of keyframe_idx and of next at each line, although the  *)
(* interrupt may at any time set keyframe_idx to NKeyframes: a register    *)
(* copy is current or the index is past the end.                           *)
KeyframesInRange ==
  /\ pc \in {"36", "38", "39", "40"} => machine[cur].current_keyframes # NULL
  /\ pc \in {"34", "35", "41"} => reg.count = Index \/ Index >= NKeyframes
  /\ pc = "35" => \/ reg.next = reg.count
                  \/ reg.count >= NKeyframes /\ Index >= NKeyframes
  /\ pc \in {"35d", "36"} => reg.next < NKeyframes
  /\ pc = "39" => Index <= NKeyframes
  /\ pc = "40" => reg.count <= NKeyframes

TypeInv == TypeOK /\ IterInRange /\ KeyframesInRange

Active(m) == "active" \in machine[m].flags[machine[m].state_idx]

(* Between the two stores of execute_transition the flag is in flight: it  *)
(* is about to be stored for the current state, or a command has set it.   *)
FlagInFlight ==
  /\ pc = "81s" => reg.dest = machine[cur].state_idx \/ Active(cur)
  /\ pc = "82" => Active(cur)

SafetyInv == CurrentStateActive /\ FlagInFlight

USE SizesAssumption, ClockAssumption, UploadsAssumption, NullAssumption

LEMMA Sizes ==
  /\ 0 \in Node /\ 1 \in Node /\ 0 \in Slot /\ 0 \in Servo
  /\ 0 \in Msec /\ NKeyframes > 0
BY DEF Node, Slot, Servo, Msec

(* The clock stays in its type.                                            *)
LEMMA ElapsedType ==
  ASSUME NEW t \in Int, NEW s \in Int
  PROVE  Elapsed(t, s) \in Msec
BY DEF Elapsed, Msec

LEMMA CurrentType ==
  ASSUME TypeOK, reg.iter \in Slot
  PROVE  Current \in Transition
<1>1. machine[cur] \in StateMachine /\ reg.node \in Node
  BY DEF TypeOK, Registers
<1>2. machine[cur].states \in StatesTable
  BY <1>1 DEF StateMachine
<1>3. machine[cur].states[reg.node] \in StateNode
  BY <1>1, <1>2 DEF StatesTable
<1>4. machine[cur].states[reg.node].transitions \in [Slot -> Transition]
  BY <1>3 DEF StateNode
<1> QED
  BY <1>4 DEF Current

(* A keyframe main points at inside the array has its type.                *)
LEMMA NextKeyframeType ==
  ASSUME TypeOK, reg.next < NKeyframes, machine[cur].current_keyframes # NULL
  PROVE  NextKeyframe \in Keyframe
<1> DEFINE p == machine[cur].current_keyframes
<1>1. p \in Node \X Slot /\ machine[cur].states \in StatesTable
  BY DEF TypeOK, StateMachine
<1>2. machine[cur].states[p[1]] \in StateNode
  BY <1>1 DEF StatesTable
<1>3. machine[cur].states[p[1]].transitions[p[2]] \in Transition
  BY <1>1, <1>2 DEF StateNode
<1>4. reg.next \in Frame
  BY DEF TypeOK, Registers, Frame
<1> QED
  BY <1>3, <1>4 DEF NextKeyframe, Transition

LEMMA StateServoType ==
  ASSUME TypeOK, reg.iter \in Servo
  PROVE  StateServo \in Nat
<1>1. machine[cur].state_idx \in Node /\ machine[cur].states \in StatesTable
  BY DEF TypeOK, StateMachine
<1>2. machine[cur].states[machine[cur].state_idx] \in StateNode
  BY <1>1 DEF StatesTable
<1> QED
  BY <1>2 DEF StateServo, StateNode

LEMMA NoLocalsType == NoLocals \in Registers
BY Sizes DEF NoLocals, Registers

(* The next iteration of the scan, or its end, keeps the registers typed.  *)
LEMMA NextTransitionType ==
  ASSUME reg \in Registers, reg.iter \in Slot, NEW r \in Registers,
         r.iter = reg.iter, NextTransition(r)
  PROVE  /\ reg' \in Registers
         /\ pc' \in {"27", "33"}
         /\ pc' = "27" => reg'.iter \in Slot
         /\ pc' = "33" => reg'.iter \in Servo
BY Sizes DEF NextTransition, To, Registers, Slot

(* A store to one machine keeps both typed. *)
LEMMA StoreType ==
  ASSUME TypeOK, NEW a \in StateMachine, Store(a)
  PROVE  /\ machine' \in [Machine -> StateMachine]
         /\ machine'[cur'] = a /\ cur' = cur
BY DEF Store, TypeOK

LEMMA StoreTimesType ==
  ASSUME NEW a \in StateMachine, NEW t \in Msec
  PROVE  /\ [a EXCEPT !.last_keyframe_millis = t] \in StateMachine
         /\ [a EXCEPT !.last_keyframe_millis = t, !.timer_start_millis = t]
              \in StateMachine
BY DEF StateMachine

LEMMA StoreStateIdxType ==
  ASSUME NEW a \in StateMachine, NEW n \in Node
  PROVE  [a EXCEPT !.state_idx = n] \in StateMachine
BY DEF StateMachine

LEMMA StoreFlagsType ==
  ASSUME NEW a \in StateMachine, NEW n \in Node, NEW w \in SUBSET Flag
  PROVE  [a EXCEPT !.flags[n] = w] \in StateMachine
<1>1. [a.flags EXCEPT ![n] = w] \in [Node -> SUBSET Flag]
  BY DEF StateMachine
<1> QED
  BY <1>1 DEF StateMachine

-----------------------------------------------------------------------------
(* Every step of main keeps the type invariant.                            *)
LEMMA TypeStepMain == TypeInv /\ Main => TypeInv'
<1> SUFFICES ASSUME TypeInv, Main PROVE TypeInv'
  OBVIOUS
<1> USE Sizes, NoLocalsType
    DEF TypeInv, IterInRange, KeyframesInRange, Index, Looking, Label,
        Scanning, Executing, Playing, From, To, shared
<1>1. CASE UpdateSensors
  BY <1>1 DEF UpdateSensors, TypeOK, Machine
<1>2. CASE BeginScan
  BY <1>2 DEF BeginScan, TypeOK, Registers, StateMachine
<1>3. CASE CheckAllowed
  <2>1. CASE To("28") /\ UNCHANGED reg
    BY <1>3, <2>1 DEF CheckAllowed, TypeOK
  <2>2. CASE NextTransition(reg)
    BY <1>3, <2>2, NextTransitionType DEF CheckAllowed, TypeOK
  <2> QED
    BY <1>3, <2>1, <2>2 DEF CheckAllowed
<1>4. CASE EvaluateCriteria
  <2>1. CASE To("79") /\ UNCHANGED reg
    BY <1>4, <2>1 DEF EvaluateCriteria, TypeOK
  <2>2. CASE NextTransition(reg)
    BY <1>4, <2>2, NextTransitionType DEF EvaluateCriteria, TypeOK
  <2> QED
    BY <1>4, <2>1, <2>2 DEF EvaluateCriteria
<1>5. CASE SampleClock
  BY <1>5 DEF SampleClock, TypeOK, Registers
<1>6. CASE CompareTimer
  <2> DEFINE r == [reg EXCEPT !.now = 0]
  <2>0. r \in Registers /\ r.iter = reg.iter
    BY DEF TypeOK, Registers
  <2>1. CASE To("79") /\ reg' = r
    BY <1>6, <2>0, <2>1 DEF CompareTimer, TypeOK
  <2>2. CASE NextTransition(r)
    <3>1. /\ reg' \in Registers /\ pc' \in {"27", "33"}
          /\ pc' = "27" => reg'.iter \in Slot
          /\ pc' = "33" => reg'.iter \in Servo
      BY <1>6, <2>0, <2>2, NextTransitionType DEF CompareTimer, TypeOK
    <3> QED
      BY <1>6, <3>1 DEF CompareTimer, TypeOK
  <2> QED
    BY <1>6, <2>1, <2>2 DEF CompareTimer
<1>7. CASE SetStateIdx
  <2> DEFINE a == [machine[cur] EXCEPT !.state_idx = Current.target_state]
  <2>1. a \in StateMachine
    <3>1. machine[cur] \in StateMachine
      BY DEF TypeOK
    <3>2. Current.target_state \in Node
      BY <1>7, CurrentType DEF SetStateIdx, Transition
    <3> QED
      BY <3>1, <3>2, StoreStateIdxType
  <2> QED
    BY <1>7, <2>1, StoreType DEF SetStateIdx, Store, TypeOK
<1>8. CASE LoadOldFlags
  BY <1>8 DEF LoadOldFlags, TypeOK, Registers, StateMachine
<1>9. CASE ClearOldFlag
  <2> DEFINE a == [machine[cur] EXCEPT !.flags[reg.node] = reg.word \ {"active"}]
  <2>1. machine[cur] \in StateMachine /\ reg.node \in Node
        /\ reg.word \ {"active"} \in SUBSET Flag
    BY DEF TypeOK, Registers
  <2>2. a \in StateMachine
    BY <2>1, StoreFlagsType
  <2>3. reg' \in Registers /\ reg'.iter = reg.iter
    BY <1>9 DEF ClearOldFlag, TypeOK, Registers
  <2> QED
    BY <1>9, <2>2, <2>3, StoreType DEF ClearOldFlag, Store, TypeOK
<1>10. CASE LoadNewFlags
  <2>1. machine[cur].state_idx \in Node /\ machine[cur].flags \in [Node -> SUBSET Flag]
    BY DEF TypeOK, StateMachine
  <2>2. reg' \in Registers /\ reg'.iter = reg.iter
    BY <1>10, <2>1 DEF LoadNewFlags, TypeOK, Registers
  <2> QED
    BY <1>10, <2>2 DEF LoadNewFlags, TypeOK
<1>11. CASE SetNewFlag
  <2> DEFINE a == [machine[cur] EXCEPT !.flags[reg.dest] = reg.word \cup {"active"}]
  <2>1. machine[cur] \in StateMachine /\ reg.dest \in Node
        /\ reg.word \cup {"active"} \in SUBSET Flag
    BY DEF TypeOK, Registers, Flag
  <2>2. a \in StateMachine
    BY <2>1, StoreFlagsType
  <2>3. reg' \in Registers /\ reg'.iter = reg.iter
    BY <1>11 DEF SetNewFlag, TypeOK, Registers
  <2> QED
    BY <1>11, <2>2, <2>3, StoreType DEF SetNewFlag, Store, TypeOK
<1>12. CASE StartKeyframes
  <2> DEFINE a == [machine[cur] EXCEPT !.current_keyframes = <<reg.node, reg.iter>>,
                                       !.keyframe_idx = 0]
  <2>1. reg.node \in Node /\ reg.iter \in Slot
    BY <1>12 DEF StartKeyframes, TypeOK, Registers
  <2> DEFINE q == <<reg.node, reg.iter>>
  <2>2. q \in {NULL} \cup (Node \X Slot) /\ 0 \in 0 .. NKeyframes + 1
    BY <2>1
  <2>3. machine[cur] \in StateMachine
    BY DEF TypeOK
  <2> HIDE DEF q
  <2>4. [machine[cur] EXCEPT !.current_keyframes = q, !.keyframe_idx = 0]
          \in StateMachine
    BY <2>2, <2>3 DEF StateMachine
  <2>5. a \in StateMachine
    BY <2>4 DEF q
  <2> QED
    BY <1>12, <2>5, StoreType DEF StartKeyframes, Store, TypeOK
<1>13. CASE StampTimes
  <2> DEFINE a == [machine[cur] EXCEPT !.last_keyframe_millis = msec,
                                       !.timer_start_millis = msec]
  <2>1. a \in StateMachine
    <3>1. machine[cur] \in StateMachine /\ msec \in Msec
      BY DEF TypeOK
    <3> QED
      BY <3>1, StoreTimesType
  <2> QED
    BY <1>13, <2>1, StoreType DEF StampTimes, Store, TypeOK
<1>14. CASE SetSpark
  BY <1>14 DEF SetSpark, TypeOK
<1>15. CASE KeyframesPending
  BY <1>15 DEF KeyframesPending, InMemory, Pending, Keep, ReturnZero, TypeOK,
               Registers, StateMachine, Machine
<1>16. CASE PointAtKeyframe
  BY <1>16 DEF PointAtKeyframe, InMemory, TypeOK, Registers, StateMachine
<1>17. CASE KeyframeLoop
  <2>1. PICK v \in {reg.count, Index} :
          /\ reg' = [reg EXCEPT !.count = v]
          /\ IF v < NKeyframes THEN pc' = "35d" ELSE pc' = "44"
    BY <1>17 DEF KeyframeLoop, InMemory, Pending, Keep
  <2>2. /\ v \in 0 .. NKeyframes + 1 /\ reg.next \in Int
        /\ Index \in 0 .. NKeyframes + 1 /\ reg.count \in 0 .. NKeyframes + 1
    BY <2>1 DEF TypeOK, Registers, StateMachine
  <2>3. v < NKeyframes => reg.next < NKeyframes
    BY <1>17, <2>1, <2>2 DEF KeyframeLoop
  <2>4. reg' \in Registers /\ reg'.next = reg.next /\ reg'.iter = reg.iter
    BY <2>1, <2>2 DEF TypeOK, Registers
  <2> QED
    BY <1>17, <2>1, <2>3, <2>4 DEF KeyframeLoop, TypeOK
<1>18. CASE KeyframeDelay
  BY <1>18 DEF KeyframeDelay, KeyframeDue, TypeOK
<1>19. CASE PlayKeyframe
  <2>1. NextKeyframe \in Keyframe
    BY <1>19, NextKeyframeType DEF PlayKeyframe
  <2>2. CASE UNCHANGED machine
    BY <1>19, <2>1, <2>2 DEF PlayKeyframe, Keyframe, TypeOK
  <2>3. CASE /\ machine' = [machine EXCEPT ![cur].keyframe_idx = NKeyframes]
             /\ UNCHANGED servos
    <3>1. /\ machine' \in [Machine -> StateMachine]
          /\ machine'[cur].current_keyframes = machine[cur].current_keyframes
      BY <2>3 DEF TypeOK, StateMachine
    <3> QED
      BY <1>19, <2>3, <3>1 DEF PlayKeyframe, TypeOK
  <2> QED
    BY <1>19, <2>2, <2>3 DEF PlayKeyframe
<1>20. CASE KeyframeContinue
  <2>1. Index \in 0 .. NKeyframes + 1
    BY DEF TypeOK, StateMachine
  <2>2. reg' \in Registers /\ reg'.count = Index /\ reg'.iter = reg.iter
    BY <1>20, <2>1 DEF KeyframeContinue, InMemory, Keep, TypeOK, Registers
  <2> QED
    BY <1>20, <2>1, <2>2 DEF KeyframeContinue, InMemory, Pending, TypeOK
<1>21. CASE StampKeyframe
  <2> DEFINE a == [machine[cur] EXCEPT !.last_keyframe_millis = msec]
  <2>1. a \in StateMachine /\ a.keyframe_idx = Index
        /\ a.current_keyframes = machine[cur].current_keyframes
    <3>1. machine[cur] \in StateMachine /\ msec \in Msec
      BY DEF TypeOK
    <3>2. a \in StateMachine
      BY <3>1, StoreTimesType
    <3> QED
      BY <3>1, <3>2 DEF StateMachine
  <2>2. reg' \in Registers /\ reg'.count = Index /\ reg'.iter = reg.iter
    BY <1>21 DEF StampKeyframe, Keep, InMemory, TypeOK, StateMachine, Registers
  <2> QED
    BY <1>21, <2>1, <2>2, StoreType DEF StampKeyframe, Store, TypeOK
<1>22. CASE CountKeyframe
  <2> DEFINE a == [machine[cur] EXCEPT !.keyframe_idx = reg.count + 1]
  <2>1. reg.count + 1 \in 0 .. NKeyframes + 1
    BY <1>22 DEF CountKeyframe, TypeOK, Registers
  <2>2. a \in StateMachine /\ a.keyframe_idx = reg.count + 1
    BY <2>1 DEF TypeOK, StateMachine
  <2>3. reg' \in Registers /\ reg'.count = reg.count + 1 /\ reg'.iter = reg.iter
    BY <1>22, <2>1 DEF CountKeyframe, Keep, TypeOK, Registers
  <2> QED
    BY <1>22, <2>2, <2>3, StoreType DEF CountKeyframe, Store, TypeOK
<1>23. CASE KeyframesDone
  <2>1. CASE To("45") /\ UNCHANGED <<cur, reg>>
    BY <1>23, <2>1 DEF KeyframesDone, TypeOK
  <2>2. CASE ReturnZero
    BY <1>23, <2>2 DEF KeyframesDone, ReturnZero, TypeOK, Machine
  <2> QED
    BY <1>23, <2>1, <2>2 DEF KeyframesDone
<1>24. CASE ApplyStateServo
  <2>1. reg.iter \in Servo /\ StateServo \in Nat
    BY <1>24, StateServoType DEF ApplyStateServo
  <2>2. servos' \in [Servo -> Nat]
    BY <1>24, <2>1 DEF ApplyStateServo, TypeOK
  <2>3. CASE /\ reg.iter + 1 < NServos /\ UNCHANGED cur /\ To("45")
             /\ reg' = [reg EXCEPT !.iter = @ + 1]
    <3> DEFINE k == reg.iter + 1
    <3>0. k \in Nat /\ k \in Servo
      BY <2>1, <2>3 DEF Servo
    <3> HIDE DEF k
    <3>1. reg' = [reg EXCEPT !.iter = k]
      BY <2>3 DEF k
    <3>2. reg' \in Registers /\ reg'.iter \in Servo
      BY <3>0, <3>1 DEF TypeOK, Registers
    <3> QED
      BY <1>24, <2>2, <2>3, <3>2 DEF ApplyStateServo, TypeOK
  <2>4. CASE ReturnZero
    BY <1>24, <2>2, <2>4 DEF ApplyStateServo, ReturnZero, TypeOK, Machine
  <2> QED
    BY <1>24, <2>3, <2>4 DEF ApplyStateServo
<1>25. CASE ClearButton
  BY <1>25 DEF ClearButton, TypeOK, Registers
<1> QED
  BY <1>1, <1>2, <1>3, <1>4, <1>5, <1>6, <1>7, <1>8, <1>9, <1>10, <1>11, <1>12,
     <1>13, <1>14, <1>15, <1>16, <1>17, <1>18, <1>19, <1>20, <1>21, <1>22,
     <1>23, <1>24, <1>25 DEF Main, ProcessSequence

(* The machines a command leaves behind have their type. *)
LEMMA AbortedType ==
  ASSUME NEW a \in StateMachine, msec \in Msec
  PROVE  /\ Aborted(a) \in StateMachine
         /\ Aborted(a).state_idx = 1 /\ "active" \in Aborted(a).flags[1]
         /\ Aborted(a).keyframe_idx = NKeyframes
         /\ Aborted(a).current_keyframes = a.current_keyframes
<1> DEFINE g == [a.flags EXCEPT ![a.state_idx] = @ \ {"active"}]
           h == [g EXCEPT ![1] = @ \cup {"active"}]
<1>1. g \in [Node -> SUBSET Flag]
  BY DEF StateMachine
<1>2. h \in [Node -> SUBSET Flag] /\ "active" \in h[1]
  BY <1>1, Sizes DEF Flag
<1>3. Aborted(a) = [a EXCEPT !.flags = h, !.state_idx = 1,
                             !.keyframe_idx = NKeyframes,
                             !.timer_start_millis = msec]
  BY DEF Aborted
<1>4. NKeyframes \in 0 .. NKeyframes + 1
  OBVIOUS
<1> HIDE DEF g, h
<1>5. [a EXCEPT !.flags = h, !.state_idx = 1] \in StateMachine
  BY <1>2, Sizes DEF StateMachine
<1>6. \A b \in StateMachine :
        [b EXCEPT !.keyframe_idx = NKeyframes, !.timer_start_millis = msec]
          \in StateMachine
  BY <1>4 DEF StateMachine
<1>7. Aborted(a) \in StateMachine
  BY <1>3, <1>5, <1>6
<1> QED
  BY <1>2, <1>3, <1>7 DEF StateMachine

LEMMA ResetType ==
  ASSUME NEW a \in StateMachine
  PROVE  /\ Reset(a) \in StateMachine
         /\ Reset(a).state_idx = 0 /\ "active" \in Reset(a).flags[0]
         /\ Reset(a).keyframe_idx = NKeyframes
         /\ Reset(a).current_keyframes = a.current_keyframes
<1> DEFINE g == [a.flags EXCEPT ![0] = @ \cup {"active"}]
<1>1. g \in [Node -> SUBSET Flag] /\ "active" \in g[0]
  BY Sizes DEF StateMachine, Flag
<1>2. Reset(a) = [a EXCEPT !.state_idx = 0, !.keyframe_idx = NKeyframes,
                           !.flags = g]
  BY DEF Reset
<1>3. NKeyframes \in 0 .. NKeyframes + 1
  OBVIOUS
<1> HIDE DEF g
<1> QED
  BY <1>1, <1>2, <1>3, Sizes DEF StateMachine

LEMMA LoadedType ==
  ASSUME NEW a \in StateMachine, NEW t \in StatesTable
  PROVE  /\ Loaded(a, t) \in StateMachine
         /\ Loaded(a, t).current_keyframes = a.current_keyframes
<1> DEFINE g == [n \in Node |-> t[n].state_flags]
<1>1. g \in [Node -> SUBSET Flag]
  BY DEF StatesTable, StateNode
<1>2. Loaded(a, t) = [a EXCEPT !.states = t, !.flags = g]
  BY DEF Loaded
<1> HIDE DEF g
<1> QED
  BY <1>1, <1>2 DEF StateMachine

(* What every command that moves machines establishes for both of them:    *)
(* the new state is active, no keyframe is left, and main's own pointer    *)
(* current_keyframes is where it was.                                      *)
Moved ==
  /\ machine' \in [Machine -> StateMachine]
  /\ \A m \in Machine :
       /\ "active" \in machine'[m].flags[machine'[m].state_idx]
       /\ machine'[m].keyframe_idx = NKeyframes
       /\ machine'[m].current_keyframes = machine[m].current_keyframes

LEMMA CommandMoves ==
  ASSUME TypeOK, ExecuteAbort \/ ResetStates \/ SetStatesData
  PROVE  Moved
<1>0. msec \in Msec /\ \A m \in Machine : machine[m] \in StateMachine
  BY DEF TypeOK
<1>1. CASE ExecuteAbort
  BY <1>0, <1>1, AbortedType DEF ExecuteAbort, Moved
<1>2. CASE ResetStates
  BY <1>0, <1>2, ResetType DEF ResetStates, Moved
<1>3. CASE SetStatesData
  <2>1. PICK u \in Uploads :
          machine' = [m \in Machine |->
            Reset(IF m = u[1] THEN Loaded(machine[m], u[2]) ELSE machine[m])]
    BY <1>3 DEF SetStatesData
  <2> DEFINE b(m) == IF m = u[1] THEN Loaded(machine[m], u[2]) ELSE machine[m]
  <2>2. u[2] \in StatesTable
    OBVIOUS
  <2>3. \A m \in Machine : /\ b(m) \in StateMachine
                           /\ b(m).current_keyframes = machine[m].current_keyframes
    BY <1>0, <2>2, LoadedType
  <2>4. machine' = [m \in Machine |-> Reset(b(m))]
    BY <2>1
  <2> HIDE DEF b
  <2> QED
    BY <2>3, <2>4, ResetType DEF Moved
<1> QED
  BY <1>1, <1>2, <1>3

LEMMA TypeStepOther == TypeInv /\ (Command \/ Tick \/ UNCHANGED vars) => TypeInv'
<1> SUFFICES ASSUME TypeInv, Command \/ Tick \/ UNCHANGED vars PROVE TypeInv'
  OBVIOUS
<1> USE Sizes DEF TypeInv, IterInRange, KeyframesInRange, Index
<1>1. CASE ExecuteAbort \/ ResetStates \/ SetStatesData
  <2>1. Moved
    BY <1>1, CommandMoves
  <2>2. /\ button_states' = button_states /\ budget' \in 0 .. MaxCommands
        /\ UNCHANGED <<msec, servos, spark, sensors, pc, cur, reg>>
    BY <1>1 DEF ExecuteAbort, ResetStates, SetStatesData, Receive, TypeOK
  <2> QED
    BY <2>1, <2>2 DEF Moved, TypeOK
<1>2. CASE SetButtonPressed
  BY <1>2 DEF SetButtonPressed, Receive, TypeOK
<1>3. CASE SetValveStates \/ \E s \in Servo : SetSingleValve(s)
  <2>1. servos' \in [Servo -> Nat]
    BY <1>3, ValvesAssumption DEF SetValveStates, SetSingleValve, TypeOK
  <2>2. /\ UNCHANGED <<msec, machine, button_states, spark, sensors, pc, cur, reg>>
        /\ budget' \in 0 .. MaxCommands
    BY <1>3 DEF SetValveStates, SetSingleValve, Receive, TypeOK
  <2> QED
    BY <2>1, <2>2 DEF TypeOK
<1>4. CASE Tick
  <2>1. msec' \in Msec
    BY <1>4 DEF Tick, TypeOK, Msec
  <2> QED
    BY <1>4, <2>1 DEF Tick, TypeOK
<1>5. CASE UNCHANGED vars
  BY <1>5 DEF vars, TypeOK
<1> QED
  BY <1>1, <1>2, <1>3, <1>4, <1>5 DEF Command

LEMMA InitType == Init => TypeInv
<1> SUFFICES ASSUME Init PROVE TypeInv
  OBVIOUS
<1> USE Sizes DEF Init
<1>1. ZeroTransition \in Transition
  BY DEF ZeroTransition, Transition, Trigger, Keyframe
<1>2. ZeroTable \in StatesTable
  BY <1>1 DEF ZeroTable, StatesTable, StateNode
<1>3. machine \in [Machine -> StateMachine]
  BY <1>2 DEF StateMachine
<1>4. /\ servos \in [Servo -> Nat] /\ button_states \subseteq Button
      /\ budget \in 0 .. MaxCommands
  OBVIOUS
<1>7. spark \in BOOLEAN
  OBVIOUS
<1>5. /\ msec \in Msec /\ pc \in Label /\ cur \in Machine /\ reg \in Registers
      /\ sensors \in [Channel -> Readings]
  BY NoLocalsType DEF Label, Machine
<1>6. TypeOK
  BY <1>3, <1>4, <1>5, <1>7 DEF TypeOK
<1> QED
  BY <1>6 DEF TypeInv, IterInRange, KeyframesInRange, Looking, Scanning, Playing

(* Types hold at every step, whatever command interrupts main where: every *)
(* variable stays in its type, keyframe_idx within 5.                      *)
THEOREM TypeCorrect == Spec => []TypeOK
<1>1. TypeInv /\ [Next]_vars => TypeInv'
  BY TypeStepMain, TypeStepOther DEF Next
<1>2. TypeInv => TypeOK
  BY DEF TypeInv
<1> QED
  BY <1>1, <1>2, InitType, PTL DEF Spec

(* Main never reads a keyframe past the end of the array (lines 33-43).    *)
THEOREM ReadsInBounds == Spec => []KeyframeReadInBounds
<1>1. TypeInv /\ [Next]_vars => TypeInv'
  BY TypeStepMain, TypeStepOther DEF Next
<1>2. TypeInv => KeyframeReadInBounds
  BY DEF TypeInv, KeyframesInRange, KeyframeReadInBounds
<1> QED
  BY <1>1, <1>2, InitType, PTL DEF Spec

-----------------------------------------------------------------------------
(***************************************************************************)
(* The active flag.                                                        *)
(***************************************************************************)

(* Main looks at the machines but writes none, outside execute_transition. *)
LEMMA Looks ==
  ASSUME SafetyInv, UNCHANGED machine,
         pc \notin Executing, pc' \notin Executing \ {"79"}
  PROVE  SafetyInv'
BY DEF SafetyInv, CurrentStateActive, FlagInFlight, Booting, Moving, Active,
       Executing

(* Main plays keyframes: it writes to the machine it checks neither flags  *)
(* nor state_idx nor current_keyframes, which a transition has set.        *)
LEMMA Plays ==
  ASSUME SafetyInv, TypeOK, NEW a,
         machine' = [machine EXCEPT ![cur] = a], cur' = cur,
         a.flags = machine[cur].flags, a.state_idx = machine[cur].state_idx,
         a.current_keyframes = machine[cur].current_keyframes,
         machine[cur].current_keyframes # NULL,
         pc \notin Executing, pc' \notin Executing
  PROVE  SafetyInv'
<1>1. /\ machine'[cur] = a
      /\ \A m \in Machine : m # cur => machine'[m] = machine[m]
  BY DEF TypeOK
<1> QED
  BY <1>1 DEF SafetyInv, CurrentStateActive, FlagInFlight, Booting, Moving,
              Active, Executing

LEMMA SafetyStepMain == TypeInv /\ SafetyInv /\ Main => SafetyInv'
<1> SUFFICES ASSUME TypeInv, SafetyInv, Main PROVE SafetyInv'
  OBVIOUS
<1>0. TypeOK /\ KeyframesInRange
  BY DEF TypeInv
<1> USE DEF From, To, shared, Executing
<1>1. CASE UpdateSensors \/ BeginScan \/ CheckAllowed \/ EvaluateCriteria
           \/ SampleClock \/ CompareTimer
  BY <1>1, Looks DEF UpdateSensors, BeginScan, CheckAllowed, EvaluateCriteria,
                     SampleClock, CompareTimer, NextTransition
<1>2. CASE KeyframesPending \/ PointAtKeyframe \/ KeyframeLoop \/ KeyframeDelay
           \/ KeyframeContinue \/ KeyframesDone
  BY <1>2, Looks DEF KeyframesPending, PointAtKeyframe, KeyframeLoop,
                     KeyframeDelay, KeyframeContinue, KeyframesDone, ReturnZero
<1>3. CASE ApplyStateServo \/ ClearButton
  BY <1>3, Looks DEF ApplyStateServo, ClearButton, ReturnZero
<1>4. CASE PlayKeyframe
  <2>1. CASE UNCHANGED machine
    BY <1>4, <2>1, Looks DEF PlayKeyframe
  <2>2. CASE machine' = [machine EXCEPT ![cur].keyframe_idx = NKeyframes]
    <3> DEFINE a == [machine[cur] EXCEPT !.keyframe_idx = NKeyframes]
    <3>1. machine' = [machine EXCEPT ![cur] = a]
      BY <2>2
    <3>2. /\ a.flags = machine[cur].flags
          /\ a.state_idx = machine[cur].state_idx
          /\ a.current_keyframes = machine[cur].current_keyframes
      BY <1>0 DEF TypeOK, StateMachine
    <3> QED
      BY <1>0, <1>4, <3>1, <3>2, Plays DEF PlayKeyframe, KeyframesInRange
  <2> QED
    BY <1>4, <2>1, <2>2 DEF PlayKeyframe
<1>5. CASE StampKeyframe
  <2> DEFINE a == [machine[cur] EXCEPT !.last_keyframe_millis = msec]
  <2>1. /\ a.flags = machine[cur].flags
        /\ a.state_idx = machine[cur].state_idx
        /\ a.current_keyframes = machine[cur].current_keyframes
    BY <1>0 DEF TypeOK, StateMachine
  <2> QED
    BY <1>0, <1>5, <2>1, Plays DEF StampKeyframe, Store, KeyframesInRange
<1>6. CASE CountKeyframe
  <2> DEFINE a == [machine[cur] EXCEPT !.keyframe_idx = reg.count + 1]
  <2>1. /\ a.flags = machine[cur].flags
        /\ a.state_idx = machine[cur].state_idx
        /\ a.current_keyframes = machine[cur].current_keyframes
    BY <1>0 DEF TypeOK, StateMachine
  <2> QED
    BY <1>0, <1>6, <2>1, Plays DEF CountKeyframe, Store, KeyframesInRange
<1>7. CASE SetStateIdx
  <2>1. cur' = cur /\ pc' = "80l"
        /\ \A m \in Machine : m # cur => machine'[m] = machine[m]
    BY <1>0, <1>7 DEF SetStateIdx, Store, TypeOK
  <2> QED
    BY <2>1, <1>7 DEF SetStateIdx, SafetyInv, CurrentStateActive, FlagInFlight,
                      Booting, Moving
<1>8. CASE LoadOldFlags
  BY <1>8 DEF LoadOldFlags, SafetyInv, CurrentStateActive, FlagInFlight,
              Booting, Moving
<1>9. CASE ClearOldFlag
  <2>1. cur' = cur /\ pc' = "81l"
        /\ \A m \in Machine : m # cur => machine'[m] = machine[m]
    BY <1>0, <1>9 DEF ClearOldFlag, Store, TypeOK
  <2> QED
    BY <2>1, <1>9 DEF ClearOldFlag, SafetyInv, CurrentStateActive, FlagInFlight,
                      Booting, Moving
<1>10. CASE LoadNewFlags
  <2>1. reg'.dest = machine[cur].state_idx
    BY <1>0, <1>10 DEF LoadNewFlags, TypeOK, Registers
  <2> QED
    BY <2>1, <1>10 DEF LoadNewFlags, SafetyInv, CurrentStateActive, FlagInFlight,
                       Booting, Moving, Active
<1>11. CASE SetNewFlag
  <2> DEFINE w == reg.word \cup {"active"}
             a == [machine[cur] EXCEPT !.flags[reg.dest] = w]
  <2>1. /\ machine'[cur] = a /\ cur' = cur /\ pc' = "82"
        /\ \A m \in Machine : m # cur => machine'[m] = machine[m]
    BY <1>0, <1>11 DEF SetNewFlag, Store, TypeOK
  <2>2. /\ a.state_idx = machine[cur].state_idx
        /\ a.flags = [machine[cur].flags EXCEPT ![reg.dest] = w]
        /\ reg.dest \in Node /\ machine[cur].flags \in [Node -> SUBSET Flag]
        /\ machine[cur].state_idx \in Node
    BY <1>0 DEF TypeOK, StateMachine, Registers
  <2>3. reg.dest = machine[cur].state_idx \/ Active(cur)
    BY <1>11 DEF SetNewFlag, SafetyInv, FlagInFlight
  <2>4. "active" \in a.flags[a.state_idx]
    BY <2>2, <2>3 DEF Active
  <2> QED
    BY <2>1, <2>4, <1>11 DEF SetNewFlag, SafetyInv, CurrentStateActive,
                             FlagInFlight, Booting, Moving, Active
<1>12. CASE StartKeyframes
  <2> DEFINE a == [machine[cur] EXCEPT !.current_keyframes = <<reg.node, reg.iter>>,
                                       !.keyframe_idx = 0]
  <2>1. /\ machine'[cur] = a /\ cur' = cur /\ pc' = "84"
        /\ \A m \in Machine : m # cur => machine'[m] = machine[m]
    BY <1>0, <1>12 DEF StartKeyframes, Store, TypeOK
  <2>2. a.flags = machine[cur].flags /\ a.state_idx = machine[cur].state_idx
    BY <1>0 DEF TypeOK, StateMachine
  <2> QED
    BY <2>1, <2>2, <1>12 DEF StartKeyframes, SafetyInv, CurrentStateActive,
                             FlagInFlight, Booting, Moving, Active
<1>13. CASE StampTimes
  <2> DEFINE a == [machine[cur] EXCEPT !.last_keyframe_millis = msec,
                                       !.timer_start_millis = msec]
  <2>1. /\ machine'[cur] = a /\ cur' = cur /\ pc' = "86"
        /\ \A m \in Machine : m # cur => machine'[m] = machine[m]
    BY <1>0, <1>13 DEF StampTimes, Store, TypeOK
  <2>2. /\ a.flags = machine[cur].flags /\ a.state_idx = machine[cur].state_idx
        /\ a.current_keyframes = machine[cur].current_keyframes
        /\ a.keyframe_idx = machine[cur].keyframe_idx
    BY <1>0 DEF TypeOK, StateMachine
  <2> QED
    BY <2>1, <2>2, <1>13 DEF StampTimes, SafetyInv, CurrentStateActive,
                             FlagInFlight, Booting, Moving, Active
<1>14. CASE SetSpark
  BY <1>14 DEF SetSpark, SafetyInv, CurrentStateActive, FlagInFlight, Booting,
               Moving, Active
<1> QED
  BY <1>1, <1>2, <1>3, <1>4, <1>5, <1>6, <1>7, <1>8, <1>9, <1>10, <1>11, <1>12,
     <1>13, <1>14 DEF Main, ProcessSequence

LEMMA SafetyStepOther ==
  TypeInv /\ SafetyInv /\ (Command \/ Tick \/ UNCHANGED vars) => SafetyInv'
<1> SUFFICES ASSUME TypeInv, SafetyInv, Command \/ Tick \/ UNCHANGED vars
             PROVE  SafetyInv'
  OBVIOUS
<1>1. CASE ExecuteAbort \/ ResetStates \/ SetStatesData
  <2>1. Moved
    BY <1>1, CommandMoves DEF TypeInv
  <2>2. UNCHANGED <<pc, cur, reg>> /\ cur \in Machine
    BY <1>1 DEF ExecuteAbort, ResetStates, SetStatesData, Receive, TypeInv, TypeOK
  <2> QED
    BY <2>1, <2>2 DEF Moved, SafetyInv, CurrentStateActive, FlagInFlight, Active
<1>2. CASE \/ SetButtonPressed \/ SetValveStates
           \/ (\E s \in Servo : SetSingleValve(s)) \/ Tick \/ UNCHANGED vars
  <2>1. UNCHANGED <<machine, pc, cur, reg>>
    BY <1>2 DEF SetButtonPressed, SetValveStates, SetSingleValve, Receive, Tick,
                vars
  <2> QED
    BY <2>1 DEF SafetyInv, CurrentStateActive, FlagInFlight, Booting, Moving, Active
<1> QED
  BY <1>1, <1>2 DEF Command

(* The current state of a machine that is neither booting nor being moved  *)
(* by main is active, although main's read-modify-writes of state_flags    *)
(* race with the commands' own.                                            *)
THEOREM CurrentActive == Spec => []CurrentStateActive
<1>1. Init => SafetyInv
  BY Sizes DEF Init, SafetyInv, CurrentStateActive, FlagInFlight, Booting
<1>2. TypeInv /\ [Next]_vars => TypeInv'
  BY TypeStepMain, TypeStepOther DEF Next
<1>3. TypeInv /\ SafetyInv /\ [Next]_vars => SafetyInv'
  BY SafetyStepMain, SafetyStepOther DEF Next
<1>4. SafetyInv => CurrentStateActive
  BY DEF SafetyInv
<1> QED
  BY <1>1, <1>2, <1>3, <1>4, InitType, PTL DEF Spec
=============================================================================
