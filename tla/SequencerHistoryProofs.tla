----------------------- MODULE SequencerHistoryProofs -----------------------
(***************************************************************************)
(* Proofs about what happened to each machine and each button, from the    *)
(* history variables of SequencerHistory.  They rest on the type invariant *)
(* of SequencerProofs, which the steps with history keep as well.          *)
(***************************************************************************)
EXTENDS SequencerHistory, SequencerProofs

USE SizesAssumption, ClockAssumption, UploadsAssumption, NullAssumption

HistoryType ==
  /\ entered \in [Machine -> Msec]
  /\ cause \in [Machine -> Cause]
  /\ owed \in [Button -> SUBSET Machine]
  /\ mover \in Machine
  /\ ordered \subseteq Servo

(* Main is between the stores of execute_transition, the first one done.   *)
Transiting == Executing \ {"79"}

-----------------------------------------------------------------------------
(* The inductive invariants, each with the facts of its own it needs.      *)

(* An abort that main has not raced is not undone by the rest of the pass: *)
(* main executes no transition of the machine, and the keyframe index it   *)
(* has loaded is past the end as well.                                     *)
AbortInv ==
  \A m \in Machine : cause[m] = "abort" =>
    /\ machine[m].state_idx = 1
    /\ "active" \in machine[m].flags[1]
    /\ machine[m].keyframe_idx >= NKeyframes
    /\ cur = m => pc \notin Transiting
    /\ cur = m /\ pc = "40" => reg.count >= NKeyframes

(* Who has yet to scan with the button down: nobody who has been served.   *)
Served(m) ==
  \/ m = "ox" /\ cur = "ox" /\ pc \notin {"loop", "24"}
  \/ m = "ox" /\ cur = "fuel" /\ pc # "loop"
  \/ m = "fuel" /\ cur = "fuel" /\ pc \notin {"loop", "24"}

EarlyInv ==
  /\ \A m \in Machine, b \in Button : Served(m) => m \notin owed[b]
  /\ pc = "18" => reg.iter \in Button /\ cur = "fuel"

(* A state whose timer the code restarts when it is entered.               *)
Timed(m) == cause[m] \in {"transition", "abort"}

(* The timer of such a state starts no sooner than the state is entered,   *)
(* but while main is between the two stores.                               *)
TimerInv ==
  /\ msec <= MaxMsec
  /\ \A m \in Machine :
       /\ entered[m] <= msec /\ machine[m].timer_start_millis <= msec
       /\ Timed(m) /\ ~(cur = m /\ pc \in Transiting \ {"86"}) =>
            entered[m] <= machine[m].timer_start_millis
  /\ pc = "59" /\ Timed(cur) =>
       /\ machine[cur].timer_start_millis <= reg.now
       /\ reg.now <= msec
  /\ TimerFires /\ Timed(cur) => msec - entered[cur] >= Current.param1

(* Every table is one the host uploads, or zero.                           *)
TablesInv ==
  \A m \in Machine :
    machine[m].states = ZeroTable \/ <<m, machine[m].states>> \in Uploads

Want(m, s) == machine[m].states[machine[m].state_idx].state_servos[s]
Applied(m, s) == Want(m, s) \in {0, servos[s]} \/ s \in ordered

(* Main is executing a transition of m, or playing its keyframes.          *)
Unsettled(m) ==
  cur = m /\ pc \in (Transiting \ {"84", "86"}) \cup (Playing \ {"33"})

ServosInv ==
  /\ \A m \in Machine :
       cause[m] = "transition" /\ machine[m].keyframe_idx >= NKeyframes
         /\ ~Unsettled(m) => \A s \in Servo : Applied(m, s)
  /\ pc = "45" /\ cause[cur] = "transition" =>
       \A s \in Servo : s < reg.iter => Applied(cur, s)
  /\ pc \in Playing \ {"45"} => reg.iter = 0

SparkAsked(m) == "spark" \in machine[m].flags[machine[m].state_idx]

SparkInv ==
  /\ pc \in Transiting => mover = cur
  /\ cause[mover] = "transition" /\ pc \notin Transiting =>
       (spark <=> SparkAsked(mover))

-----------------------------------------------------------------------------
(***************************************************************************)
(* What a step of main may do: where it goes, and what it leaves alone.    *)
(***************************************************************************)

Returns == IF cur = "ox" THEN cur' = "fuel" /\ pc' = "24"
                         ELSE cur' = cur /\ pc' = "18"

Flow ==
  /\ pc = "loop" => pc' = "24" /\ cur' = "ox"
  /\ pc = "24" => pc' = "27"
  /\ pc = "27" => pc' \in {"27", "28", "33"}
  /\ pc = "28" => pc' \in {"27", "33", "59", "79"}
  /\ pc = "59" => pc' \in {"27", "33", "79"}
  /\ pc = "79" => pc' = "80l"
  /\ pc = "80l" => pc' = "80s"
  /\ pc = "80s" => pc' = "81l"
  /\ pc = "81l" => pc' = "81s"
  /\ pc = "81s" => pc' = "82"
  /\ pc = "82" => pc' = "84"
  /\ pc = "84" => pc' = "86"
  /\ pc = "86" => pc' = "24"
  /\ pc = "33" => (pc' = "34" /\ cur' = cur) \/ Returns
  /\ pc \in {"34", "41"} => pc' = "35"
  /\ pc = "35" => pc' \in {"35d", "44"}
  /\ pc = "35d" => pc' \in {"36", "44"}
  /\ pc = "36" => pc' = "38"
  /\ pc = "38" => pc' \in {"35", "39"}
  /\ pc = "39" => pc' = "40"
  /\ pc = "40" => pc' = "41"
  /\ pc \in {"44", "45"} => (pc' = "45" /\ cur' = cur) \/ Returns
  /\ pc = "18" => pc' \in {"18", "loop"}
  /\ pc \notin {"loop", "33", "44", "45"} => cur' = cur

LEMMA MainFlows == ASSUME TypeOK, Main PROVE Flow
<1> USE DEF Flow, From, To, Store, Returns
<1>1. CASE UpdateSensors \/ BeginScan \/ CheckAllowed \/ EvaluateCriteria
  BY <1>1 DEF UpdateSensors, BeginScan, CheckAllowed, EvaluateCriteria,
              NextTransition
<1>2. CASE SampleClock \/ CompareTimer \/ SetStateIdx \/ LoadOldFlags
           \/ ClearOldFlag
  BY <1>2 DEF SampleClock, CompareTimer, NextTransition, SetStateIdx,
              LoadOldFlags, ClearOldFlag
<1>3. CASE LoadNewFlags \/ SetNewFlag \/ StartKeyframes \/ StampTimes \/ SetSpark
  BY <1>3 DEF LoadNewFlags, SetNewFlag, StartKeyframes, StampTimes, SetSpark
<1>4. CASE KeyframesPending \/ PointAtKeyframe \/ KeyframeLoop \/ KeyframeDelay
  BY <1>4 DEF KeyframesPending, PointAtKeyframe, KeyframeLoop, KeyframeDelay,
              ReturnZero
<1>5. CASE PlayKeyframe \/ KeyframeContinue \/ StampKeyframe \/ CountKeyframe
  BY <1>5 DEF PlayKeyframe, KeyframeContinue, StampKeyframe, CountKeyframe
<1>6. CASE KeyframesDone \/ ApplyStateServo \/ ClearButton
  BY <1>6 DEF KeyframesDone, ApplyStateServo, ClearButton, ReturnZero
<1> QED
  BY <1>1, <1>2, <1>3, <1>4, <1>5, <1>6 DEF Main, ProcessSequence

(* The step main takes is that of the line it is at.                       *)
LEMMA MainAt ==
  ASSUME Main
  PROVE  /\ pc = "24" => BeginScan
         /\ pc = "27" => CheckAllowed
         /\ pc = "28" => EvaluateCriteria \/ SampleClock
         /\ pc = "59" => CompareTimer
         /\ pc = "86" => SetSpark
         /\ pc = "33" => KeyframesPending
         /\ pc = "36" => PlayKeyframe
         /\ pc = "39" => StampKeyframe
         /\ pc = "44" => KeyframesDone
         /\ pc = "45" => ApplyStateServo
         /\ pc = "18" => ClearButton
BY DEF Main, UpdateSensors, ProcessSequence, BeginScan, CheckAllowed,
       EvaluateCriteria, SampleClock, CompareTimer, SetStateIdx, LoadOldFlags,
       ClearOldFlag, LoadNewFlags, SetNewFlag, StartKeyframes, StampTimes,
       SetSpark, KeyframesPending, PointAtKeyframe, KeyframeLoop, KeyframeDelay,
       PlayKeyframe, KeyframeContinue, StampKeyframe, CountKeyframe,
       KeyframesDone, ApplyStateServo, ClearButton, From

(* Main writes to the machine it checks only, and to each field of it only *)
(* at the lines that say so.                                               *)
Keeps(m) ==
  /\ m # cur => machine'[m] = machine[m]
  /\ machine'[m].states = machine[m].states
  /\ pc # "79" => machine'[m].state_idx = machine[m].state_idx
  /\ pc \notin {"80s", "81s"} => machine'[m].flags = machine[m].flags
  /\ pc \notin {"82", "36", "40"} =>
       machine'[m].keyframe_idx = machine[m].keyframe_idx
  /\ pc = "82" /\ m = cur => machine'[m].keyframe_idx = 0
  /\ pc = "36" => machine'[m].keyframe_idx \in {machine[m].keyframe_idx, NKeyframes}
  /\ pc = "40" /\ m = cur => machine'[m].keyframe_idx = reg.count + 1
  /\ pc # "84" => machine'[m].timer_start_millis = machine[m].timer_start_millis
  /\ pc = "84" /\ m = cur => machine'[m].timer_start_millis = msec

(* A store to one field leaves the others.                                 *)
LEMMA FieldStored ==
  ASSUME NEW a \in StateMachine
  PROVE  /\ \A v : LET b == [a EXCEPT !.state_idx = v] IN
              /\ b.states = a.states /\ b.flags = a.flags
              /\ b.keyframe_idx = a.keyframe_idx
              /\ b.timer_start_millis = a.timer_start_millis
         /\ \A v, n : LET b == [a EXCEPT !.flags[n] = v] IN
              /\ b.states = a.states /\ b.state_idx = a.state_idx
              /\ b.keyframe_idx = a.keyframe_idx
              /\ b.timer_start_millis = a.timer_start_millis
         /\ \A v : LET b == [a EXCEPT !.keyframe_idx = v] IN
              /\ b.states = a.states /\ b.state_idx = a.state_idx
              /\ b.flags = a.flags /\ b.keyframe_idx = v
              /\ b.timer_start_millis = a.timer_start_millis
         /\ \A v, w : LET b == [a EXCEPT !.current_keyframes = w,
                                         !.keyframe_idx = v] IN
              /\ b.states = a.states /\ b.state_idx = a.state_idx
              /\ b.flags = a.flags /\ b.keyframe_idx = v
              /\ b.timer_start_millis = a.timer_start_millis
         /\ \A v : LET b == [a EXCEPT !.last_keyframe_millis = v] IN
              /\ b.states = a.states /\ b.state_idx = a.state_idx
              /\ b.flags = a.flags /\ b.keyframe_idx = a.keyframe_idx
              /\ b.timer_start_millis = a.timer_start_millis
         /\ \A v, w : LET b == [a EXCEPT !.last_keyframe_millis = v,
                                         !.timer_start_millis = w] IN
              /\ b.states = a.states /\ b.state_idx = a.state_idx
              /\ b.flags = a.flags /\ b.keyframe_idx = a.keyframe_idx
              /\ b.timer_start_millis = w
BY DEF StateMachine

LEMMA StoreKeeps ==
  ASSUME TypeOK, NEW a, machine' = [machine EXCEPT ![cur] = a]
  PROVE  machine'[cur] = a /\ \A m \in Machine : m # cur => machine'[m] = machine[m]
BY DEF TypeOK

LEMMA MainKeeps ==
  ASSUME TypeOK, Main, NEW m \in Machine
  PROVE  Keeps(m)
<1>0. machine[cur] \in StateMachine
  BY DEF TypeOK
<1> USE DEF Keeps, From, Store, shared
<1>1. CASE UpdateSensors \/ BeginScan \/ CheckAllowed \/ EvaluateCriteria
           \/ SampleClock \/ CompareTimer \/ LoadOldFlags \/ LoadNewFlags
  BY <1>1 DEF UpdateSensors, BeginScan, CheckAllowed, EvaluateCriteria,
              SampleClock, CompareTimer, LoadOldFlags, LoadNewFlags
<1>2. CASE SetSpark \/ KeyframesPending \/ PointAtKeyframe \/ KeyframeLoop
           \/ KeyframeDelay \/ KeyframeContinue \/ KeyframesDone
           \/ ApplyStateServo \/ ClearButton
  BY <1>2 DEF SetSpark, KeyframesPending, PointAtKeyframe, KeyframeLoop,
              KeyframeDelay, KeyframeContinue, KeyframesDone, ApplyStateServo,
              ClearButton
<1>3. CASE SetStateIdx
  BY <1>0, <1>3, StoreKeeps, FieldStored DEF SetStateIdx
<1>4. CASE ClearOldFlag
  BY <1>0, <1>4, StoreKeeps, FieldStored DEF ClearOldFlag
<1>5. CASE SetNewFlag
  BY <1>0, <1>5, StoreKeeps, FieldStored DEF SetNewFlag
<1>6. CASE StartKeyframes
  <2> DEFINE q == <<reg.node, reg.iter>>
             a == [machine[cur] EXCEPT !.current_keyframes = q, !.keyframe_idx = 0]
  <2>1. machine' = [machine EXCEPT ![cur] = a] /\ pc = "82"
    BY <1>6 DEF StartKeyframes
  <2>2. /\ a.states = machine[cur].states /\ a.state_idx = machine[cur].state_idx
        /\ a.flags = machine[cur].flags /\ a.keyframe_idx = 0
        /\ a.timer_start_millis = machine[cur].timer_start_millis
    <3> HIDE DEF q
    <3> QED
      BY <1>0, FieldStored
  <2> HIDE DEF a
  <2> QED
    BY <2>1, <2>2, StoreKeeps
<1>7. CASE StampTimes
  <2> DEFINE a == [machine[cur] EXCEPT !.last_keyframe_millis = msec,
                                       !.timer_start_millis = msec]
  <2>1. machine' = [machine EXCEPT ![cur] = a] /\ pc = "84"
    BY <1>7 DEF StampTimes
  <2>2. /\ a.states = machine[cur].states /\ a.state_idx = machine[cur].state_idx
        /\ a.flags = machine[cur].flags
        /\ a.keyframe_idx = machine[cur].keyframe_idx
        /\ a.timer_start_millis = msec
    BY <1>0, FieldStored
  <2> HIDE DEF a
  <2> QED
    BY <2>1, <2>2, StoreKeeps
<1>8. CASE PlayKeyframe
  <2>1. CASE UNCHANGED machine
    BY <1>8, <2>1 DEF PlayKeyframe
  <2>2. CASE machine' = [machine EXCEPT ![cur].keyframe_idx = NKeyframes]
    <3> DEFINE a == [machine[cur] EXCEPT !.keyframe_idx = NKeyframes]
    <3>1. machine' = [machine EXCEPT ![cur] = a]
      BY <2>2
    <3> QED
      BY <1>0, <1>8, <3>1, StoreKeeps, FieldStored DEF PlayKeyframe
  <2> QED
    BY <1>8, <2>1, <2>2 DEF PlayKeyframe
<1>9. CASE StampKeyframe
  BY <1>0, <1>9, StoreKeeps, FieldStored DEF StampKeyframe
<1>10. CASE CountKeyframe
  <2> DEFINE v == reg.count + 1
             a == [machine[cur] EXCEPT !.keyframe_idx = v]
  <2>1. machine' = [machine EXCEPT ![cur] = a] /\ pc = "40"
    BY <1>10 DEF CountKeyframe
  <2>2. /\ a.states = machine[cur].states /\ a.state_idx = machine[cur].state_idx
        /\ a.flags = machine[cur].flags /\ a.keyframe_idx = v
        /\ a.timer_start_millis = machine[cur].timer_start_millis
    <3> HIDE DEF v
    <3> QED
      BY <1>0, FieldStored
  <2> HIDE DEF a
  <2> QED
    BY <2>1, <2>2, StoreKeeps
<1> QED
  BY <1>1, <1>2, <1>3, <1>4, <1>5, <1>6, <1>7, <1>8, <1>9, <1>10
     DEF Main, ProcessSequence

-----------------------------------------------------------------------------
(* The steps with history are steps of the sequencer.                      *)
LEMMA HistoryObserves == [HNext]_hvars => [Next]_vars
BY DEF HNext, HMove, HScan, HMain, HAbort, HReset, HButton, HValves, HValve,
       HTick, hvars, Next, Main, ProcessSequence, Command

(* What a command that moves the machines leaves alone, and what it tells. *)
CommandObserved ==
  /\ UNCHANGED <<msec, servos, spark, sensors, pc, cur, reg, owed, mover, ordered>>
  /\ entered' = [m \in Machine |-> msec]
  /\ \/ /\ \A m \in Machine : machine'[m] = Aborted(machine[m])
        /\ cause' = [m \in Machine |->
                       IF RaceWindow(m) THEN "late abort" ELSE "abort"]
     \/ /\ HReset
        /\ cause' = [m \in Machine |->
                       IF RaceWindow(m) THEN "late reset" ELSE "reset"]

LEMMA CommandsObserved == HAbort \/ HReset => CommandObserved
<1>1. HAbort => CommandObserved
  BY DEF HAbort, ExecuteAbort, Receive, MovedBy, CommandObserved
<1>2. HReset => CommandObserved
  BY DEF HReset, ResetStates, SetStatesData, Receive, MovedBy, CommandObserved
<1> QED
  BY <1>1, <1>2

(* A step of main with history, as far as the history tells.               *)
MainObserved ==
  /\ Main
  /\ ordered' = ordered \ SetByMain
  /\ \/ /\ pc = "79" /\ mover' = cur /\ owed' = owed
        /\ entered' = [entered EXCEPT ![cur] = msec]
        /\ cause' = [cause EXCEPT ![cur] = IF @ \in Late THEN @ ELSE "transition"]
     \/ /\ pc = "24" /\ UNCHANGED <<entered, mover>>
        /\ cause' = [cause EXCEPT ![cur] = IF @ \in Late THEN "raced" ELSE @]
        /\ owed' = [b \in Button |-> owed[b] \ {cur}]
     \/ pc \notin {"24", "79"} /\ UNCHANGED moves

LEMMA MainIsObserved == HMove \/ HScan \/ HMain => MainObserved
<1>1. pc \in {"24", "79"} /\ ordered' = ordered => ordered' = ordered \ SetByMain
  BY DEF SetByMain
<1> QED
  BY <1>1 DEF HMove, SetStateIdx, HScan, BeginScan, HMain, Main, ProcessSequence,
              From, MainObserved

(* No valve command, or one for all servos or for one of them.             *)
ValvesObserved ==
  \/ UNCHANGED <<servos, ordered>>
  \/ ordered' = Servo
  \/ \E s \in Servo : /\ ordered' = ordered \cup {s}
                     /\ \E p : servos' = [servos EXCEPT ![s] = p]

(* Buttons, valves and the clock. *)
OtherObserved ==
  /\ UNCHANGED <<machine, spark, sensors, pc, cur, reg, entered, cause, mover>>
  /\ ValvesObserved
  /\ \/ /\ msec' = msec
        /\ owed' = [b \in Button |->
                      IF b \in button_states' \ button_states /\ pc = "loop"
                      THEN Machine ELSE owed[b]]
     \/ /\ msec < MaxMsec /\ msec' = (msec + 1) % ClockModulus
        /\ owed' = owed
     \/ msec' = msec /\ owed' = owed

LEMMA OthersObserved ==
  HButton \/ HValves \/ (\E s \in Servo : HValve(s)) \/ HTick \/ UNCHANGED hvars
    => OtherObserved
<1>1. HButton \/ HTick \/ UNCHANGED hvars => OtherObserved
  BY DEF HButton, SetButtonPressed, Receive, HTick, Tick, hvars, vars, history,
         moves, OtherObserved, ValvesObserved
<1>2. HValves => OtherObserved
  BY DEF HValves, SetValveStates, Receive, moves, OtherObserved, ValvesObserved
<1>3. ASSUME NEW s \in Servo, HValve(s) PROVE OtherObserved
  <2>1. ValvesObserved
    BY <1>3 DEF HValve, SetSingleValve, ValvesObserved
  <2> QED
    BY <1>3, <2>1 DEF HValve, SetSingleValve, Receive, moves, OtherObserved
<1> QED
  BY <1>1, <1>2, <1>3

LEMMA Observed ==
  [HNext]_hvars => MainObserved \/ CommandObserved \/ OtherObserved
BY CommandsObserved, MainIsObserved, OthersObserved DEF HNext

LEMMA HistoryTypeStep ==
  TypeOK /\ HistoryType /\ [HNext]_hvars => HistoryType'
<1> SUFFICES ASSUME TypeOK, HistoryType, [HNext]_hvars PROVE HistoryType'
  OBVIOUS
<1>0. msec \in Msec /\ cur \in Machine
  BY DEF TypeOK
<1> USE DEF HistoryType, Cause, Late
<1>1. CASE MainObserved
  <2>1. entered' \in [Machine -> Msec] /\ mover' \in Machine
    BY <1>0, <1>1 DEF MainObserved, moves
  <2>2. cause' \in [Machine -> Cause]
    <3> DEFINE c == IF cause[cur] \in Late THEN cause[cur] ELSE "transition"
               d == IF cause[cur] \in Late THEN "raced" ELSE cause[cur]
    <3>1. c \in Cause /\ d \in Cause
      BY <1>0
    <3>2. \/ cause' = [cause EXCEPT ![cur] = c]
          \/ cause' = [cause EXCEPT ![cur] = d]
          \/ cause' = cause
      BY <1>1 DEF MainObserved, moves
    <3> HIDE DEF c, d
    <3> QED
      BY <3>1, <3>2
  <2>3. owed' \in [Button -> SUBSET Machine]
    <3>1. owed' = owed \/ owed' = [b \in Button |-> owed[b] \ {cur}]
      BY <1>1 DEF MainObserved, moves
    <3>2. \A b \in Button : owed[b] \ {cur} \in SUBSET Machine
      OBVIOUS
    <3> QED
      BY <3>1, <3>2
  <2>4. ordered' \subseteq Servo
    BY <1>1 DEF MainObserved
  <2> QED
    BY <2>1, <2>2, <2>3, <2>4
<1>2. CASE CommandObserved
  BY <1>0, <1>2 DEF CommandObserved
<1>3. CASE OtherObserved
  <2>1. \/ ordered' = ordered \/ ordered' = Servo
        \/ \E s \in Servo : ordered' = ordered \cup {s}
    BY <1>3, Zenon DEF OtherObserved, ValvesObserved
  <2> QED
    BY <1>0, <1>3, <2>1 DEF OtherObserved
<1> QED
  BY <1>1, <1>2, <1>3, Observed

LEMMA HistoryInit == HInit => HistoryType
BY Sizes DEF HInit, HistoryType, Cause, Machine

LEMMA Types == HSpec => [](TypeInv /\ HistoryType)
<1>1. HInit => TypeInv /\ HistoryType
  BY InitType, HistoryInit DEF HInit
<1>2. TypeInv /\ HistoryType /\ [HNext]_hvars => (TypeInv /\ HistoryType)'
  BY HistoryObserves, TypeStepMain, TypeStepOther, HistoryTypeStep
     DEF Next, TypeInv
<1> QED
  BY <1>1, <1>2, PTL DEF HSpec

-----------------------------------------------------------------------------
(***************************************************************************)
(* An abort is not undone.                                                 *)
(***************************************************************************)
LEMMA AbortStepMain ==
  ASSUME TypeInv, HistoryType, AbortInv, MainObserved
  PROVE  AbortInv'
<1> SUFFICES ASSUME NEW m \in Machine, cause'[m] = "abort"
             PROVE  /\ machine'[m].state_idx = 1
                    /\ "active" \in machine'[m].flags[1]
                    /\ machine'[m].keyframe_idx >= NKeyframes
                    /\ cur' = m => pc' \notin Transiting
                    /\ cur' = m /\ pc' = "40" => reg'.count >= NKeyframes
  BY DEF AbortInv
<1>1. Flow /\ Keeps(m) /\ pc \in Label /\ cur \in Machine
  BY MainFlows, MainKeeps DEF TypeInv, TypeOK, MainObserved
<1>2. cause[m] = "abort" /\ ~(m = cur /\ pc = "79")
  BY <1>1 DEF HistoryType, MainObserved, Late, moves
<1>3. /\ machine[m].state_idx = 1 /\ "active" \in machine[m].flags[1]
      /\ machine[m].keyframe_idx >= NKeyframes
      /\ cur = m => pc \notin Transiting
      /\ cur = m /\ pc = "40" => reg.count >= NKeyframes
  BY <1>2 DEF AbortInv
<1>4. machine'[m].state_idx = 1 /\ "active" \in machine'[m].flags[1]
  BY <1>1, <1>2, <1>3 DEF Keeps, Transiting, Executing
<1>5. machine[m].keyframe_idx \in Int /\ reg.count \in Int
  BY DEF TypeInv, TypeOK, StateMachine, Registers
<1>6. machine'[m].keyframe_idx >= NKeyframes
  <2>1. CASE m = cur /\ pc = "40"
    BY <1>1, <1>3, <1>5, <2>1 DEF Keeps
  <2>2. CASE m = cur /\ pc = "36"
    BY <1>1, <1>3, <1>5, <2>2 DEF Keeps
  <2>3. CASE m # cur \/ pc \notin {"36", "40", "82"}
    BY <1>1, <1>3, <2>3 DEF Keeps
  <2> QED
    BY <1>3, <2>1, <2>2, <2>3 DEF Transiting, Executing
<1>7. cur' = m => pc' \notin Transiting
  BY <1>1, <1>2, <1>3 DEF Flow, Returns, Transiting, Executing, Label, Scanning,
                          Playing
<1>8. CASE cur' = m /\ pc' = "40"
  <2>1. pc = "39" /\ cur = m
    BY <1>1, <1>8 DEF Flow, Returns, Label, Scanning, Executing, Playing
  <2>2. StampKeyframe
    BY <2>1, MainAt DEF MainObserved
  <2>3. reg'.count = machine[m].keyframe_idx
    BY <2>1, <2>2 DEF StampKeyframe, Keep, InMemory, TypeInv, TypeOK, Registers
  <2> QED
    BY <1>3, <1>4, <1>6, <1>7, <2>3
<1> QED
  BY <1>4, <1>6, <1>7, <1>8

LEMMA AbortStepOther ==
  ASSUME TypeInv, HistoryType, AbortInv, CommandObserved \/ OtherObserved
  PROVE  AbortInv'
<1>1. CASE CommandObserved
  <2> SUFFICES ASSUME NEW m \in Machine, cause'[m] = "abort"
               PROVE  /\ machine'[m].state_idx = 1
                      /\ "active" \in machine'[m].flags[1]
                      /\ machine'[m].keyframe_idx >= NKeyframes
                      /\ cur' = m => pc' \notin Transiting
                      /\ cur' = m /\ pc' = "40" => reg'.count >= NKeyframes
    BY DEF AbortInv
  <2>1. /\ machine'[m] = Aborted(machine[m]) /\ ~RaceWindow(m)
        /\ UNCHANGED <<pc, cur, reg>>
    BY <1>1 DEF CommandObserved
  <2>2. machine[m] \in StateMachine /\ msec \in Msec
    BY DEF TypeInv, TypeOK
  <2>3. /\ machine'[m].state_idx = 1 /\ "active" \in machine'[m].flags[1]
        /\ machine'[m].keyframe_idx = NKeyframes
    BY <2>1, <2>2, AbortedType
  <2>4. cur' = m => pc' \notin Transiting /\ pc' # "40"
    BY <2>1 DEF RaceWindow, Transiting
  <2> QED
    BY <2>3, <2>4
<1>2. CASE OtherObserved
  BY <1>2 DEF OtherObserved, AbortInv
<1> QED
  BY <1>1, <1>2

(* An abort outside of RaceWindow stays in force until a transition of     *)
(* state 1, whatever main was in the middle of (lines 24-51, 90-101).      *)
THEOREM AbortStands == HSpec => []AbortInForce
<1>1. HInit => AbortInv
  BY DEF HInit, AbortInv
<1>2. TypeInv /\ HistoryType /\ AbortInv /\ [HNext]_hvars => AbortInv'
  BY Observed, AbortStepMain, AbortStepOther
<1>3. AbortInv => AbortInForce
  BY DEF AbortInv, AbortInForce
<1> QED
  BY <1>1, <1>2, <1>3, Types, PTL DEF HSpec

-----------------------------------------------------------------------------
(***************************************************************************)
(* A button pressed early is seen by both machines.                        *)
(***************************************************************************)
LEMMA EarlyStepMain ==
  ASSUME TypeInv, HistoryType, EarlyInv, MainObserved
  PROVE  EarlyInv'
<1>1. Flow /\ pc \in Label /\ cur \in Machine
  BY MainFlows DEF TypeInv, TypeOK, MainObserved
<1>2. ASSUME NEW m \in Machine, NEW b \in Button, Served(m)'
      PROVE  m \notin owed'[b]
  <2>1. CASE pc = "24"
    <3>1. owed'[b] = owed[b] \ {cur} /\ cur' = cur /\ pc' = "27"
      BY <1>1, <2>1 DEF MainObserved, Flow
    <3>2. m # cur => Served(m)
      BY <1>1, <1>2, <2>1, <3>1 DEF Served, Machine
    <3> QED
      BY <3>1, <3>2 DEF EarlyInv
  <2>2. CASE pc # "24"
    <3>1. owed'[b] = owed[b]
      BY <2>2 DEF MainObserved, moves
    <3>2. Served(m)
      BY <1>1, <1>2, <2>2 DEF Served, Flow, Returns, Machine, Label, Scanning,
                              Executing, Playing
    <3> QED
      BY <3>1, <3>2 DEF EarlyInv
  <2> QED
    BY <2>1, <2>2
<1>3. ASSUME pc' = "18"
      PROVE  reg'.iter \in Button /\ cur' = "fuel"
  <2>1. CASE pc = "18"
    <3>1. ClearButton /\ reg.iter \in Button /\ cur = "fuel" /\ reg \in Registers
      BY <2>1, MainAt DEF MainObserved, EarlyInv, TypeInv, TypeOK
    <3>2. reg.iter + 1 < NButtons /\ reg' = [reg EXCEPT !.iter = @ + 1] /\ cur' = cur
      BY <1>3, <3>1 DEF ClearButton, To
    <3> QED
      BY <3>1, <3>2 DEF Button, Registers
  <2>2. CASE pc # "18"
    <3>1. pc \in {"33", "44", "45"} /\ cur = "fuel" /\ cur' = cur
      BY <1>1, <1>3, <2>2 DEF Flow, Returns, Label, Scanning, Executing,
                              Playing, Machine
    <3>2. reg' = NoLocals
      BY <1>3, <3>1, MainAt DEF MainObserved, KeyframesPending, KeyframesDone,
                                ApplyStateServo, ReturnZero, To
    <3> QED
      BY <3>1, <3>2 DEF NoLocals, Button
  <2> QED
    BY <2>1, <2>2
<1> QED
  BY <1>2, <1>3 DEF EarlyInv

LEMMA EarlyStepOther ==
  ASSUME TypeInv, HistoryType, EarlyInv, CommandObserved \/ OtherObserved
  PROVE  EarlyInv'
<1>1. UNCHANGED <<pc, cur, reg>>
  BY DEF CommandObserved, OtherObserved
<1>2. ASSUME NEW m \in Machine, NEW b \in Button, Served(m)
      PROVE  owed'[b] = owed[b]
  BY <1>2 DEF CommandObserved, OtherObserved, Served
<1> QED
  BY <1>1, <1>2 DEF EarlyInv, Served

(* Main clears no button that a machine has yet to look at, when it was    *)
(* pressed outside of process_sequence (lines 15-21).                      *)
THEOREM EarlyPressIsSeen == HSpec => []EarlyPressSeen
<1>1. HInit => EarlyInv
  BY DEF HInit, Init, EarlyInv, Served
<1>2. TypeInv /\ HistoryType /\ EarlyInv /\ [HNext]_hvars => EarlyInv'
  BY Observed, EarlyStepMain, EarlyStepOther
<1>3. HistoryType /\ EarlyInv => EarlyPressSeen
  <2> SUFFICES ASSUME HistoryType, EarlyInv, pc = "18"
               PROVE  owed[reg.iter] = {}
    BY DEF EarlyPressSeen
  <2>1. reg.iter \in Button /\ Served("ox") /\ Served("fuel")
    BY DEF EarlyInv, Served
  <2>2. "ox" \notin owed[reg.iter] /\ "fuel" \notin owed[reg.iter]
    BY <2>1 DEF EarlyInv, Machine
  <2> QED
    BY <2>1, <2>2 DEF HistoryType, Machine
<1> QED
  BY <1>1, <1>2, <1>3, Types, PTL DEF HSpec

-----------------------------------------------------------------------------
(***************************************************************************)
(* A timer waits for its delay.                                            *)
(***************************************************************************)

(* Before the clock wraps, elapsed time is the difference.                 *)
LEMMA ElapsedIsDifference ==
  ASSUME MaxMsec < ClockModulus, NEW t \in Msec, NEW s \in Msec, s <= t
  PROVE  Elapsed(t, s) = t - s
BY DEF Elapsed, Msec

LEMMA TimerStepMain ==
  ASSUME MaxMsec < ClockModulus, TypeInv, HistoryType, TimerInv, MainObserved
  PROVE  TimerInv'
<1>1. /\ Flow /\ pc \in Label /\ cur \in Machine /\ msec \in Msec
      /\ machine \in [Machine -> StateMachine] /\ reg \in Registers
      /\ \A m \in Machine : Keeps(m)
  BY MainFlows, MainKeeps DEF TypeInv, TypeOK, MainObserved
<1>2. msec' = msec
  BY DEF MainObserved, Main, UpdateSensors, ProcessSequence, BeginScan,
       CheckAllowed, EvaluateCriteria, SampleClock, CompareTimer, SetStateIdx,
       LoadOldFlags, ClearOldFlag, LoadNewFlags, SetNewFlag, StartKeyframes,
       StampTimes, SetSpark, KeyframesPending, PointAtKeyframe, KeyframeLoop,
       KeyframeDelay, PlayKeyframe, KeyframeContinue, StampKeyframe,
       CountKeyframe, KeyframesDone, ApplyStateServo, ClearButton, Store, shared
<1>3. \A m \in Machine :
        /\ machine[m].timer_start_millis \in Int /\ entered[m] \in Int
        /\ msec \in Int
  BY <1>1 DEF HistoryType, StateMachine, Msec
<1>4. ASSUME NEW m \in Machine
      PROVE  /\ entered'[m] <= msec /\ machine'[m].timer_start_millis <= msec
             /\ Timed(m)' /\ ~(cur' = m /\ pc' \in Transiting \ {"86"}) =>
                  entered'[m] <= machine'[m].timer_start_millis
  <2>1. CASE m = cur /\ pc = "79"
    <3>1. entered'[m] = msec /\ cur' = m /\ pc' = "80l"
          /\ machine'[m].timer_start_millis = machine[m].timer_start_millis
      BY <1>1, <2>1 DEF MainObserved, HistoryType, Flow, Keeps
    <3> QED
      BY <1>3, <3>1 DEF TimerInv, Transiting, Executing
  <2>2. CASE m = cur /\ pc = "84"
    <3>1. entered'[m] = entered[m] /\ machine'[m].timer_start_millis = msec
      BY <1>1, <2>2 DEF MainObserved, moves, Keeps
    <3> QED
      BY <1>3, <3>1 DEF TimerInv
  <2>3. CASE m # cur \/ pc \notin {"79", "84"}
    <3>1. /\ entered'[m] = entered[m]
          /\ machine'[m].timer_start_millis = machine[m].timer_start_millis
      BY <1>1, <2>3 DEF MainObserved, HistoryType, moves, Keeps
    <3>2. Timed(m)' => Timed(m)
      BY <1>1, <2>3 DEF MainObserved, HistoryType, moves, Timed, Late
    <3>3. cur = m /\ pc \in Transiting \ {"86"} =>
            cur' = m /\ pc' \in Transiting \ {"86"}
      BY <1>1, <2>3 DEF Flow, Transiting, Executing
    <3> QED
      BY <3>1, <3>2, <3>3 DEF TimerInv
  <2> QED
    BY <2>1, <2>2, <2>3
<1>5. ASSUME pc' = "59", Timed(cur)'
      PROVE  machine'[cur'].timer_start_millis <= reg'.now /\ reg'.now <= msec
  <2>1. pc = "28" /\ cur' = cur
    BY <1>1, <1>5 DEF Flow, Returns, Label, Scanning, Executing, Playing
  <2>2. reg' = [reg EXCEPT !.now = msec]
    BY <1>5, <2>1, MainAt DEF MainObserved, EvaluateCriteria, NextTransition,
                              SampleClock, To
  <2>3. machine'[cur].timer_start_millis = machine[cur].timer_start_millis
    BY <1>1, <2>1 DEF Keeps
  <2> QED
    BY <1>1, <1>3, <2>1, <2>2, <2>3 DEF TimerInv, Registers
<1>6. ASSUME TimerFires', Timed(cur)'
      PROVE  msec - entered'[cur'] >= Current'.param1
  <2>1. pc' = "79" /\ pc \in {"28", "59"} /\ cur' = cur
    BY <1>1, <1>6 DEF TimerFires, Flow, Returns, Label, Scanning, Executing, Playing
  <2>2. UNCHANGED machine /\ entered' = entered /\ Timed(cur)
    BY <1>6, <2>1, MainAt DEF MainObserved, EvaluateCriteria, SampleClock,
                              CompareTimer, shared, moves, Timed
  <2>3. CASE pc = "28"
    <3>1. EvaluateCriteria /\ reg' = reg
      BY <2>1, <2>3, MainAt DEF MainObserved, EvaluateCriteria, SampleClock,
                                NextTransition, To
    <3> QED
      BY <1>6, <2>1, <2>2, <3>1 DEF EvaluateCriteria, TimerFires, Current
  <2>4. CASE pc = "59"
    <3>1. TimerElapsed /\ reg' = [reg EXCEPT !.now = 0]
      BY <2>1, <2>4, MainAt DEF MainObserved, CompareTimer, NextTransition, To
    <3>2. Current' = Current
      BY <1>1, <2>1, <2>2, <3>1 DEF Current, Registers
    <3>3. /\ machine[cur].timer_start_millis <= reg.now /\ reg.now <= msec
          /\ entered[cur] <= machine[cur].timer_start_millis
      BY <1>1, <2>2, <2>4 DEF TimerInv, Transiting, Executing
    <3>4. reg.now \in Msec /\ machine[cur].timer_start_millis \in Msec
      BY <1>1 DEF Registers, StateMachine
    <3>5. reg.now - machine[cur].timer_start_millis >= Current.param1
      BY <3>1, <3>3, <3>4, ElapsedIsDifference DEF TimerElapsed
    <3>6. reg.iter \in Slot
      BY <2>4 DEF TypeInv, IterInRange, Looking, Scanning
    <3>7. Current.param1 \in Int
      BY <3>6, CurrentType DEF TypeInv, Transition
    <3> QED
      BY <1>1, <1>3, <2>1, <2>2, <3>2, <3>3, <3>4, <3>5, <3>7 DEF Msec
  <2> QED
    BY <2>1, <2>3, <2>4
<1> QED
  BY <1>2, <1>4, <1>5, <1>6 DEF TimerInv

(* An abort restarts the timer, a reset leaves it running.                 *)
LEMMA AbortedTime ==
  ASSUME NEW a \in StateMachine
  PROVE  Aborted(a).timer_start_millis = msec
BY DEF Aborted, StateMachine

LEMMA ResetTime ==
  ASSUME \A m \in Machine : machine[m] \in StateMachine,
         ResetStates \/ SetStatesData, NEW m \in Machine
  PROVE  machine'[m].timer_start_millis = machine[m].timer_start_millis
<1>1. \A a \in StateMachine : Reset(a).timer_start_millis = a.timer_start_millis
  BY DEF Reset, StateMachine
<1>2. \A a \in StateMachine, t \in StatesTable :
        Loaded(a, t).timer_start_millis = a.timer_start_millis
  BY DEF Loaded, StateMachine
<1>3. CASE ResetStates
  BY <1>1, <1>3 DEF ResetStates
<1>4. CASE SetStatesData
  <2>1. PICK u \in Uploads :
          machine' = [n \in Machine |->
            Reset(IF n = u[1] THEN Loaded(machine[n], u[2]) ELSE machine[n])]
    BY <1>4 DEF SetStatesData
  <2> DEFINE b == IF m = u[1] THEN Loaded(machine[m], u[2]) ELSE machine[m]
  <2>2. u[2] \in StatesTable
    OBVIOUS
  <2>3. b \in StateMachine /\ b.timer_start_millis = machine[m].timer_start_millis
    BY <1>2, <2>2, LoadedType
  <2>4. machine'[m] = Reset(b)
    BY <2>1
  <2> HIDE DEF b
  <2> QED
    BY <1>1, <2>3, <2>4
<1> QED
  BY <1>3, <1>4

LEMMA TimerStepOther ==
  ASSUME MaxMsec < ClockModulus, TypeInv, HistoryType, TimerInv,
         CommandObserved \/ OtherObserved
  PROVE  TimerInv'
<1>0. /\ msec \in Msec /\ reg \in Registers /\ cur \in Machine
      /\ machine \in [Machine -> StateMachine]
  BY DEF TypeInv, TypeOK
<1>1. \A m \in Machine :
        /\ machine[m].timer_start_millis \in Int /\ entered[m] \in Int
        /\ msec \in Int
  BY <1>0 DEF HistoryType, StateMachine, Msec
<1>2. CASE CommandObserved
  <2>1. UNCHANGED <<msec, pc, cur, reg>> /\ entered' = [m \in Machine |-> msec]
    BY <1>2 DEF CommandObserved
  <2>2. ASSUME pc \in {"59", "79"} PROVE ~Timed(cur)'
    BY <1>0, <1>2, <2>1, <2>2 DEF CommandObserved, RaceWindow, Scanning, Executing,
                                  Timed, Machine
  <2>3. ASSUME NEW m \in Machine
        PROVE  /\ machine'[m].timer_start_millis <= msec
               /\ Timed(m)' => machine'[m].timer_start_millis = msec
    <3>1. CASE \A n \in Machine : machine'[n] = Aborted(machine[n])
      <4>1. machine'[m].timer_start_millis = msec
        BY <1>0, <3>1, AbortedTime
      <4> QED
        BY <1>1, <4>1
    <3>2. CASE HReset
      <4>1. machine'[m].timer_start_millis = machine[m].timer_start_millis
        BY <1>0, <3>2, ResetTime DEF HReset
      <4>2. ~Timed(m)'
        BY <3>2 DEF HReset, MovedBy, Timed
      <4> QED
        BY <4>1, <4>2 DEF TimerInv
    <3> QED
      BY <1>2, <3>1, <3>2 DEF CommandObserved
  <2> QED
    BY <1>1, <2>1, <2>2, <2>3 DEF TimerInv, TimerFires
<1>3. CASE OtherObserved
  <2>1. /\ UNCHANGED <<machine, pc, cur, reg, entered, cause>>
        /\ msec' \in {msec, msec + 1} /\ msec' <= MaxMsec
    BY <1>0, <1>3 DEF OtherObserved, TimerInv, Msec
  <2>2. TimerFires => Current.param1 \in Int
    BY CurrentType DEF TypeInv, IterInRange, Looking, Scanning, TimerFires, Transition
  <2>3. TimerFires' = TimerFires /\ Current' = Current
        /\ \A m \in Machine : Timed(m)' = Timed(m)
    BY <2>1 DEF TimerFires, Current, Timed
  <2>4. \A m \in Machine :
          entered'[m] <= msec' /\ machine'[m].timer_start_millis <= msec'
    BY <1>1, <2>1 DEF TimerInv
  <2>5. pc' = "59" /\ Timed(cur)' =>
          machine'[cur'].timer_start_millis <= reg'.now /\ reg'.now <= msec'
    BY <1>0, <1>1, <2>1, <2>3 DEF TimerInv, Registers, Msec
  <2>6. TimerFires' /\ Timed(cur)' => msec' - entered'[cur'] >= Current'.param1
    BY <1>0, <1>1, <2>1, <2>2, <2>3 DEF TimerInv
  <2> QED
    BY <2>1, <2>3, <2>4, <2>5, <2>6 DEF TimerInv
<1> QED
  BY <1>2, <1>3

(* In a clock that has not wrapped, a TIMER transition of a state that a   *)
(* transition or an abort entered fires no sooner than its delay after     *)
(* that, whatever command interrupts the scan (lines 59, 84-85, 95).       *)
THEOREM TimerWaits ==
  ASSUME MaxMsec < ClockModulus
  PROVE  HSpec => []TimerDelayHonoured
<1>1. HInit => TimerInv
  BY DEF HInit, Init, TimerInv, TimerFires, Timed
<1>2. TypeInv /\ HistoryType /\ TimerInv /\ [HNext]_hvars => TimerInv'
  BY Observed, TimerStepMain, TimerStepOther
<1>3. TypeInv /\ HistoryType /\ TimerInv => TimerDelayHonoured
  <2> SUFFICES ASSUME TypeInv, HistoryType, TimerInv, TimerFires, Timed(cur)
               PROVE  Elapsed(msec, entered[cur]) >= Current.param1
    BY DEF TimerDelayHonoured, TimeInState, Timed
  <2>1. msec \in Msec /\ entered[cur] \in Msec /\ entered[cur] <= msec
        /\ msec - entered[cur] >= Current.param1
    BY DEF TypeInv, TypeOK, HistoryType, TimerInv
  <2> QED
    BY <2>1, ElapsedIsDifference
<1> QED
  BY <1>1, <1>2, <1>3, Types, PTL DEF HSpec

-----------------------------------------------------------------------------
(***************************************************************************)
(* The servos of a state.                                                  *)
(***************************************************************************)
LEMMA ZeroDrivesNothing == Drives(ZeroTable) = {}
BY DEF Drives, ZeroTable, ZeroTransition

(* A servo the table of one machine moves, no state of the other asks for. *)
LEMMA OthersServo ==
  ASSUME MachinesShareNoServo, TypeOK, TablesInv,
         NEW m \in Machine, NEW n \in Machine, m # n,
         NEW s \in Drives(machine[n].states)
  PROVE  Want(m, s) = 0
<1>1. s \in Servo /\ machine[m].state_idx \in Node
  BY DEF Drives, TypeOK, StateMachine
<1> SUFFICES ASSUME Want(m, s) # 0 PROVE FALSE
  OBVIOUS
<1>2. s \in Drives(machine[m].states)
  BY <1>1 DEF Drives, Want
<1>3. <<m, machine[m].states>> \in Uploads /\ <<n, machine[n].states>> \in Uploads
  BY <1>2, ZeroDrivesNothing DEF TablesInv
<1> QED
  BY <1>2, <1>3 DEF MachinesShareNoServo

(* Main moves no servo but those its own machine's table moves, and what a *)
(* valve command set counts as ordered until it does.                      *)
ServosKept ==
  \A s \in Servo : s \notin Drives(machine[cur].states) =>
    servos'[s] = servos[s] /\ s \notin SetByMain

LEMMA MainKeepsServos ==
  ASSUME TypeInv, Main
  PROVE  /\ pc \notin {"36", "45"} => servos' = servos /\ SetByMain = {}
         /\ ServosKept
<1>0. pc \notin {"36", "45"} => SetByMain = {}
  BY DEF SetByMain
<1>1. pc \notin {"36", "45"} => servos' = servos
  BY DEF Main, UpdateSensors, ProcessSequence, BeginScan, CheckAllowed,
       EvaluateCriteria, SampleClock, CompareTimer, SetStateIdx, LoadOldFlags,
       ClearOldFlag, LoadNewFlags, SetNewFlag, StartKeyframes, StampTimes,
       SetSpark, KeyframesPending, PointAtKeyframe, KeyframeLoop, KeyframeDelay,
       PlayKeyframe, KeyframeContinue, StampKeyframe, CountKeyframe,
       KeyframesDone, ApplyStateServo, ClearButton, Store, shared, From
<1>2. CASE pc = "36"
  <2> DEFINE p == machine[cur].current_keyframes
  <2>1. PlayKeyframe /\ p # NULL /\ reg.next < NKeyframes
    BY <1>2, MainAt DEF TypeInv, KeyframesInRange
  <2>2. /\ NextKeyframe \in Keyframe /\ servos \in [Servo -> Nat]
        /\ p[1] \in Node /\ p[2] \in Slot /\ reg.next \in Frame
    <3>1. p \in Node \X Slot /\ reg.next \in Frame
      BY <2>1 DEF TypeInv, TypeOK, StateMachine, Registers, Frame
    <3> QED
      BY <2>1, <3>1, NextKeyframeType DEF TypeInv, TypeOK
  <2>3. NextKeyframe.servo_state # 0 =>
          NextKeyframe.servo_idx \in Drives(machine[cur].states)
    <3> DEFINE t == machine[cur].states
               k == t[p[1]].transitions[p[2]].keyframes[reg.next]
    <3>1. NextKeyframe = k
      BY DEF NextKeyframe
    <3>2. k.servo_state # 0 => k.servo_idx \in Drives(t)
      <4> SUFFICES ASSUME k.servo_state # 0 PROVE k.servo_idx \in Drives(t)
        OBVIOUS
      <4>1. k.servo_idx \in Servo
        BY <2>2, <3>1 DEF Keyframe
      <4>2. \E n \in Node, i \in Slot, f \in Frame :
              LET j == t[n].transitions[i].keyframes[f]
              IN  j.servo_idx = k.servo_idx /\ j.servo_state # 0
        BY <2>2
      <4> QED
        BY <4>1, <4>2 DEF Drives
    <3> QED
      BY <3>1, <3>2
  <2>4. SetByMain \subseteq Drives(machine[cur].states)
    <3> HIDE DEF p
    <3> QED
      BY <1>2, <2>3 DEF SetByMain
  <2>5. ASSUME NEW s \in Servo, s \notin Drives(machine[cur].states)
        PROVE  servos'[s] = servos[s]
    BY <1>2, <2>1, <2>2, <2>3, <2>5 DEF PlayKeyframe, Keyframe
  <2> QED
    BY <1>2, <2>4, <2>5 DEF ServosKept
<1>3. CASE pc = "45"
  <2>1. ApplyStateServo /\ reg.iter \in Servo
    BY <1>3, MainAt DEF TypeInv, IterInRange, Playing
  <2>2. machine[cur].state_idx \in Node /\ servos \in [Servo -> Nat]
    BY DEF TypeInv, TypeOK, StateMachine
  <2>3. StateServo # 0 => reg.iter \in Drives(machine[cur].states)
    BY <2>1, <2>2 DEF StateServo, Drives
  <2>4. SetByMain \subseteq Drives(machine[cur].states)
    BY <1>3, <2>3 DEF SetByMain
  <2>5. ASSUME NEW s \in Servo, s \notin Drives(machine[cur].states)
        PROVE  servos'[s] = servos[s]
    BY <1>3, <2>1, <2>2, <2>3, <2>5 DEF ApplyStateServo
  <2> QED
    BY <1>3, <2>4, <2>5 DEF ServosKept
<1> QED
  BY <1>0, <1>1, <1>2, <1>3 DEF ServosKept

(* One iteration of lines 45-48 applies the position of one servo.         *)
LEMMA ServoApplied ==
  ASSUME TypeInv, ApplyStateServo, NEW s \in Servo,
         s < reg.iter => Applied(cur, s), s <= reg.iter,
         ordered' = ordered \ SetByMain
  PROVE  Want(cur, s) \in {0, servos'[s]} \/ s \in ordered'
<1>1. reg.iter \in Servo /\ servos \in [Servo -> Nat] /\ s \in Int
  BY DEF TypeInv, TypeOK, IterInRange, Playing, ApplyStateServo, From, Servo
<1>2. CASE s = reg.iter
  BY <1>1, <1>2 DEF ApplyStateServo, StateServo, Want
<1>3. CASE s # reg.iter
  <2>1. servos'[s] = servos[s] /\ s < reg.iter
    BY <1>1, <1>3 DEF ApplyStateServo, Servo
  <2>2. SetByMain \subseteq {reg.iter}
    BY DEF SetByMain, ApplyStateServo, From
  <2> QED
    BY <1>3, <2>1, <2>2 DEF Applied
<1> QED
  BY <1>2, <1>3

(* The loop of lines 45-48 starts at servo 0.                              *)
LEMMA IterStartsAtZero ==
  ASSUME TypeInv, Main, pc' \in Playing, pc # "45",
         pc \in Playing => reg.iter = 0
  PROVE  reg'.iter = 0
<1>1. Flow /\ reg \in Registers /\ pc \in Label
  BY MainFlows DEF TypeInv, TypeOK
<1>2. CASE pc \in {"27", "28", "59"}
  <2>1. pc' = "33"
    BY <1>1, <1>2 DEF Flow, Playing
  <2> QED
    BY <1>1, <1>2, <2>1, MainAt DEF CheckAllowed, EvaluateCriteria, SampleClock,
                        CompareTimer, NextTransition, To, Registers
<1>3. CASE pc \in Playing
  <2>1. \/ reg' = reg
        \/ \E v : reg' = [reg EXCEPT !.count = v]
        \/ \E v : reg' = [reg EXCEPT !.next = v, !.count = v]
        \/ reg' = NoLocals
    BY <1>3 DEF Main, UpdateSensors, ProcessSequence, BeginScan, CheckAllowed,
       EvaluateCriteria, SampleClock, CompareTimer, SetStateIdx, LoadOldFlags,
       ClearOldFlag, LoadNewFlags, SetNewFlag, StartKeyframes, StampTimes,
       SetSpark, KeyframesPending, PointAtKeyframe, KeyframeLoop, KeyframeDelay,
       PlayKeyframe, KeyframeContinue, StampKeyframe, CountKeyframe,
       KeyframesDone, ApplyStateServo, ClearButton, From, Keep, Playing, ReturnZero
  <2>2. reg.iter = 0
    BY <1>3
  <2>3. ASSUME NEW v, reg' = [reg EXCEPT !.count = v] PROVE reg'.iter = 0
    BY <1>1, <2>2, <2>3 DEF Registers
  <2>4. ASSUME NEW v, reg' = [reg EXCEPT !.next = v, !.count = v]
        PROVE  reg'.iter = 0
    BY <1>1, <2>2, <2>4 DEF Registers
  <2>5. NoLocals.iter = 0
    BY DEF NoLocals
  <2> QED
    BY <2>1, <2>2, <2>3, <2>4, <2>5
<1> QED
  BY <1>1, <1>2, <1>3 DEF Flow, Label, Scanning, Executing, Playing, Returns

LEMMA ServosStepMain ==
  ASSUME MachinesShareNoServo, TypeInv, HistoryType, TablesInv, ServosInv,
         MainObserved
  PROVE  ServosInv'
<1>1. /\ Flow /\ pc \in Label /\ cur \in Machine /\ TypeOK
      /\ machine \in [Machine -> StateMachine] /\ reg \in Registers
      /\ \A m \in Machine : Keeps(m)
  BY MainFlows, MainKeeps DEF TypeInv, TypeOK, MainObserved
<1>2. /\ pc \notin {"36", "45"} => servos' = servos /\ ordered' = ordered
      /\ ServosKept
      /\ ordered' = ordered \ SetByMain
  BY MainKeepsServos DEF MainObserved
<1>3. ASSUME NEW m \in Machine, cause'[m] = "transition",
             machine'[m].keyframe_idx >= NKeyframes, ~Unsettled(m)',
             NEW s \in Servo
      PROVE  Applied(m, s)'
  <2>1. ~(m = cur /\ pc = "79")
    BY <1>1, <1>3 DEF Flow, Unsettled, Transiting, Executing
  <2>2. cause[m] = "transition"
    BY <1>1, <1>3, <2>1 DEF MainObserved, HistoryType, moves, Late
  <2>3. Want(m, s)' = Want(m, s)
    BY <1>1, <2>1 DEF Keeps, Want
  <2>4. CASE m # cur
    <3>1. machine[m].keyframe_idx >= NKeyframes /\ ~Unsettled(m)
      BY <1>1, <1>3, <2>4 DEF Keeps, Unsettled
    <3>2. Applied(m, s)
      BY <2>2, <3>1 DEF ServosInv
    <3>3. (servos'[s] = servos[s] /\ s \notin SetByMain) \/ Want(m, s) = 0
      BY <1>1, <1>2, <2>4, OthersServo DEF ServosKept
    <3> QED
      BY <1>2, <2>3, <3>2, <3>3 DEF Applied
  <2>5. CASE m = cur /\ pc = "45"
    <3>1. ApplyStateServo /\ ReturnZero /\ ~(reg.iter + 1 < NServos)
      <4>1. ApplyStateServo
        BY <2>5, MainAt DEF MainObserved
      <4>2. ~(pc' = "45" /\ cur' = cur)
        BY <1>3, <2>5 DEF Unsettled, Playing
      <4> QED
        BY <4>1, <4>2 DEF ApplyStateServo, To
    <3>2. s <= reg.iter
      BY <1>1, <3>1 DEF Servo, Registers
    <3>3. s < reg.iter => Applied(cur, s)
      BY <2>2, <2>5 DEF ServosInv
    <3>4. Want(cur, s) \in {0, servos'[s]} \/ s \in ordered'
      BY <1>2, <3>1, <3>2, <3>3, ServoApplied
    <3> QED
      BY <2>3, <2>5, <3>4 DEF Applied
  <2>6. CASE m = cur /\ pc # "45"
    <3>1. ~Unsettled(m)
      <4> SUFFICES ASSUME Unsettled(m) PROVE FALSE
        OBVIOUS
      <4>1. pc # "82"
        BY <1>1, <1>3, <2>6 DEF Keeps
      <4>2. pc = "44" /\ Returns
        BY <1>1, <1>3, <2>6, <4>1
           DEF Unsettled, Flow, Returns, Transiting, Executing, Playing, Label
      <4>3. machine[m].keyframe_idx < NKeyframes
        BY <2>6, <4>2, MainAt DEF MainObserved, KeyframesDone, InMemory, Pending,
                                  Returns, To
      <4>4. machine'[m].keyframe_idx = machine[m].keyframe_idx
        BY <1>1, <4>2 DEF Keeps
      <4>5. machine[m].keyframe_idx \in Int
        BY <1>1 DEF StateMachine
      <4> QED
        BY <1>3, <4>3, <4>4, <4>5
    <3>2. pc \notin {"36", "40", "82"}
      BY <2>6, <3>1 DEF Unsettled, Transiting, Executing, Playing
    <3>3. /\ machine[m].keyframe_idx >= NKeyframes
          /\ servos' = servos /\ ordered' = ordered
      BY <1>1, <1>2, <1>3, <2>6, <3>2 DEF Keeps
    <3>4. Applied(m, s)
      BY <2>2, <3>1, <3>3 DEF ServosInv
    <3> QED
      BY <2>3, <3>3, <3>4 DEF Applied
  <2> QED
    BY <2>4, <2>5, <2>6
<1>4. ASSUME pc' = "45", cause'[cur'] = "transition",
             NEW s \in Servo, s < reg'.iter
      PROVE  Applied(cur, s)'
  <2>1. pc \in {"44", "45"} /\ cur' = cur
    BY <1>1, <1>4 DEF Flow, Returns, Label, Scanning, Executing, Playing
  <2>2. CASE pc = "44"
    <3>1. reg' = reg
      BY <1>4, <2>2, MainAt DEF MainObserved, KeyframesDone, ReturnZero, To
    <3>2. reg.iter = 0
      BY <2>2 DEF ServosInv, Playing
    <3> QED
      BY <1>4, <3>1, <3>2 DEF Servo
  <2>3. CASE pc = "45"
    <3>1. ApplyStateServo /\ reg' = [reg EXCEPT !.iter = @ + 1]
      BY <1>1, <1>4, <2>1, <2>3, MainAt DEF MainObserved, ApplyStateServo,
                                    ReturnZero, To, Machine
    <3>2. s <= reg.iter
      BY <1>1, <1>4, <3>1 DEF Servo, Registers
    <3>3. cause[cur] = "transition"
      BY <1>4, <2>1, <2>3 DEF MainObserved, moves
    <3>4. s < reg.iter => Applied(cur, s)
      BY <2>3, <3>3 DEF ServosInv
    <3>5. Want(cur, s) \in {0, servos'[s]} \/ s \in ordered'
      BY <1>2, <3>1, <3>2, <3>4, ServoApplied
    <3>6. machine' = machine
      BY <3>1 DEF ApplyStateServo
    <3>7. Want(cur, s)' = Want(cur, s)
      BY <2>1, <3>6 DEF Want
    <3> QED
      BY <3>5, <3>7 DEF Applied
  <2> QED
    BY <2>1, <2>2, <2>3
<1>5. ASSUME pc' \in Playing \ {"45"}
      PROVE  reg'.iter = 0
  <2>1. pc # "45"
    BY <1>1, <1>5 DEF Flow, Returns, Playing
  <2> QED
    BY <1>5, <2>1, IterStartsAtZero DEF ServosInv, MainObserved
<1> QED
  BY <1>3, <1>4, <1>5 DEF ServosInv

LEMMA TablesStep ==
  ASSUME TypeOK, TablesInv, Main \/ HAbort \/ HReset \/ UNCHANGED machine
  PROVE  TablesInv'
<1>0. \A m \in Machine : machine[m] \in StateMachine
  BY DEF TypeOK
<1>1. CASE Main
  BY <1>1, MainKeeps DEF TablesInv, Keeps
<1>2. CASE HAbort
  <2>1. \A a \in StateMachine : Aborted(a).states = a.states
    BY DEF Aborted, StateMachine
  <2> QED
    BY <1>0, <1>2, <2>1 DEF TablesInv, HAbort, ExecuteAbort
<1>3. CASE HReset
  <2>1. \A a \in StateMachine : Reset(a).states = a.states
    BY DEF Reset, StateMachine
  <2>2. \A a \in StateMachine, t \in StatesTable : Loaded(a, t).states = t
    BY DEF Loaded, StateMachine
  <2>3. CASE ResetStates
    BY <1>0, <2>1, <2>3 DEF TablesInv, ResetStates
  <2>4. CASE SetStatesData
    <3>1. PICK u \in Uploads :
            machine' = [n \in Machine |->
              Reset(IF n = u[1] THEN Loaded(machine[n], u[2]) ELSE machine[n])]
      BY <2>4 DEF SetStatesData
    <3>2. u = <<u[1], u[2]>> /\ u[2] \in StatesTable
      OBVIOUS
    <3>3. ASSUME NEW m \in Machine
          PROVE  machine'[m].states = IF m = u[1] THEN u[2] ELSE machine[m].states
      <4> DEFINE b == IF m = u[1] THEN Loaded(machine[m], u[2]) ELSE machine[m]
      <4>1. b \in StateMachine /\ machine'[m] = Reset(b)
        BY <1>0, <3>1, <3>2, LoadedType
      <4>2. b.states = IF m = u[1] THEN u[2] ELSE machine[m].states
        BY <1>0, <2>2, <3>2
      <4> HIDE DEF b
      <4> QED
        BY <2>1, <4>1, <4>2
    <3> QED
      BY <3>2, <3>3 DEF TablesInv
  <2> QED
    BY <1>3, <2>3, <2>4 DEF HReset
<1>4. CASE UNCHANGED machine
  BY <1>4 DEF TablesInv
<1> QED
  BY <1>1, <1>2, <1>3, <1>4

LEMMA TablesStepObserved ==
  TypeInv /\ TablesInv /\ [HNext]_hvars => TablesInv'
<1>1. [HNext]_hvars => Main \/ HAbort \/ HReset \/ UNCHANGED machine
  BY MainIsObserved, OthersObserved DEF HNext, MainObserved, OtherObserved
<1> QED
  BY <1>1, TablesStep DEF TypeInv

LEMMA ServosStepOther ==
  ASSUME TypeOK, ServosInv, CommandObserved \/ OtherObserved
  PROVE  ServosInv'
<1>1. CASE CommandObserved
  <2>1. /\ UNCHANGED <<pc, cur, reg>> /\ cur \in Machine
        /\ \A m \in Machine : cause'[m] # "transition"
    BY <1>1 DEF CommandObserved, TypeOK
  <2> QED
    BY <2>1 DEF ServosInv
<1>2. CASE OtherObserved
  <2>1. UNCHANGED <<machine, pc, cur, reg, cause>> /\ ValvesObserved
    BY <1>2 DEF OtherObserved
  <2>2. ASSUME NEW m \in Machine, NEW s \in Servo, Applied(m, s)
        PROVE  Applied(m, s)'
    <3>1. s \in ordered' \/ (servos'[s] = servos[s] /\ s \notin ordered)
      BY <2>1 DEF ValvesObserved, TypeOK
    <3>2. Want(m, s)' = Want(m, s)
      BY <2>1 DEF Want
    <3> QED
      BY <2>2, <3>1, <3>2 DEF Applied
  <2>3. cur \in Machine /\ \A m \in Machine : Unsettled(m)' <=> Unsettled(m)
    BY <2>1 DEF Unsettled, TypeOK
  <2> QED
    BY <2>1, <2>2, <2>3 DEF ServosInv
<1> QED
  BY <1>1, <1>2

(* Between passes, a machine that came into its state by a transition and  *)
(* has played its keyframes has its servos where the state wants them,     *)
(* but for those a valve command was the last to set, whatever commands    *)
(* interrupted the pass (lines 33-49), when no table of one machine moves  *)
(* a servo of the other.                                                   *)
THEOREM ServosAreApplied == HSpec => []StateServosApplied
<1>1. CASE MachinesShareNoServo
  <2>1. HInit => TablesInv /\ ServosInv
    BY DEF HInit, Init, TablesInv, ServosInv, Playing
  <2>2. TypeInv /\ HistoryType /\ TablesInv /\ ServosInv /\ [HNext]_hvars
          => TablesInv' /\ ServosInv'
    BY <1>1, Observed, TablesStepObserved, ServosStepMain, ServosStepOther
       DEF TypeInv, TypeOK
  <2>3. ServosInv => StateServosApplied
    BY DEF ServosInv, StateServosApplied, Applied, Want, Unsettled, Transiting,
           Executing, Playing
  <2> QED
    BY <2>1, <2>2, <2>3, Types, PTL DEF HSpec
<1>2. CASE ~MachinesShareNoServo
  <2>1. StateServosApplied
    BY <1>2 DEF StateServosApplied
  <2> QED
    BY <2>1, PTL
<1> QED
  BY <1>1, <1>2

-----------------------------------------------------------------------------
(***************************************************************************)
(* The spark pin.                                                          *)
(***************************************************************************)
LEMMA SparkStepMain ==
  ASSUME TypeInv, HistoryType, SparkInv, MainObserved
  PROVE  SparkInv'
<1>1. /\ Flow /\ pc \in Label /\ cur \in Machine
      /\ \A m \in Machine : Keeps(m)
  BY MainFlows, MainKeeps DEF TypeInv, TypeOK, MainObserved
<1>2. pc # "86" => spark' = spark
  BY DEF MainObserved, Main, UpdateSensors, ProcessSequence, BeginScan,
       CheckAllowed, EvaluateCriteria, SampleClock, CompareTimer, SetStateIdx,
       LoadOldFlags, ClearOldFlag, LoadNewFlags, SetNewFlag, StartKeyframes,
       StampTimes, SetSpark, KeyframesPending, PointAtKeyframe, KeyframeLoop,
       KeyframeDelay, PlayKeyframe, KeyframeContinue, StampKeyframe,
       CountKeyframe, KeyframesDone, ApplyStateServo, ClearButton, Store, shared,
       From
<1>3. ASSUME pc' \in Transiting PROVE mover' = cur'
  <2>1. cur' = cur /\ (pc = "79" \/ pc \in Transiting)
    BY <1>1, <1>3 DEF Flow, Returns, Label, Scanning, Executing, Playing, Transiting
  <2> QED
    BY <2>1 DEF MainObserved, SparkInv, moves, Transiting
<1>4. ASSUME cause'[mover'] = "transition", pc' \notin Transiting
      PROVE  spark' <=> SparkAsked(mover)'
  <2>1. CASE pc = "86"
    <3>1. /\ mover = cur /\ mover' = cur /\ machine'[cur] = machine[cur]
          /\ spark' = ("spark" \in machine[cur].flags[machine[cur].state_idx])
      BY <2>1, MainAt DEF MainObserved, SparkInv, moves, SetSpark, Transiting,
                          Executing
    <3>2. SparkAsked(mover)' <=> "spark" \in machine[cur].flags[machine[cur].state_idx]
      BY <3>1 DEF SparkAsked
    <3> QED
      BY <3>1, <3>2
  <2>2. CASE pc # "86"
    <3>1. pc \notin Transiting /\ pc # "79"
      BY <1>1, <1>4, <2>2 DEF Flow, Transiting, Executing
    <3>2. mover' = mover /\ mover \in Machine /\ cause[mover] = "transition"
      BY <1>1, <1>4, <3>1 DEF MainObserved, moves, HistoryType, Late
    <3>3. machine'[mover].flags = machine[mover].flags
          /\ machine'[mover].state_idx = machine[mover].state_idx
      BY <1>1, <3>1, <3>2 DEF Keeps, Transiting, Executing
    <3>4. SparkAsked(mover)' <=> SparkAsked(mover)
      BY <3>2, <3>3 DEF SparkAsked
    <3>5. spark <=> SparkAsked(mover)
      BY <3>1, <3>2 DEF SparkInv
    <3>6. spark' = spark
      BY <1>2, <2>2
    <3> QED
      BY <3>4, <3>5, <3>6
  <2> QED
    BY <2>1, <2>2
<1> QED
  BY <1>3, <1>4 DEF SparkInv

LEMMA SparkStepOther ==
  ASSUME HistoryType, SparkInv, CommandObserved \/ OtherObserved
  PROVE  SparkInv'
<1>1. CASE CommandObserved
  <2>1. UNCHANGED <<pc, cur, mover>> /\ \A m \in Machine : cause'[m] # "transition"
    BY <1>1 DEF CommandObserved
  <2> QED
    BY <2>1 DEF SparkInv, HistoryType
<1>2. CASE OtherObserved
  <2>1. UNCHANGED <<machine, spark, pc, cur, cause, mover>>
    BY <1>2 DEF OtherObserved
  <2>2. SparkAsked(mover)' <=> SparkAsked(mover)
    BY <2>1 DEF SparkAsked
  <2> QED
    BY <2>1, <2>2 DEF SparkInv
<1> QED
  BY <1>1, <1>2

(* Between passes the spark pin is what the state asks for that the last   *)
(* transition of either machine entered, unless a command has moved that   *)
(* machine since (lines 79-86).                                            *)
THEOREM SparkIsAsAsked == HSpec => []SparkAsLastAsked
<1>1. HInit => SparkInv
  BY DEF HInit, Init, SparkInv, Transiting, Executing, Machine
<1>2. TypeInv /\ HistoryType /\ SparkInv /\ [HNext]_hvars => SparkInv'
  BY Observed, SparkStepMain, SparkStepOther
<1>3. TypeInv /\ SparkInv => SparkAsLastAsked
  <2> SUFFICES ASSUME TypeInv, SparkInv, pc = "loop", cause[mover] = "transition"
               PROVE  spark = ("spark" \in machine[mover].flags[machine[mover].state_idx])
    BY DEF SparkAsLastAsked
  <2>1. spark <=> "spark" \in machine[mover].flags[machine[mover].state_idx]
    BY DEF SparkInv, SparkAsked, Transiting, Executing
  <2>2. spark \in BOOLEAN
    BY DEF TypeInv, TypeOK
  <2> QED
    BY <2>1, <2>2
<1> QED
  BY <1>1, <1>2, <1>3, Types, PTL DEF HSpec
=============================================================================
