-------------------------- MODULE SequencerHistory --------------------------
(***************************************************************************)
(* The sequencer with history variables: what happened to each machine and *)
(* each button, so that properties over several steps can be stated.  The  *)
(* steps are those of Sequencer, observed.                                 *)
(***************************************************************************)
EXTENDS Sequencer

VARIABLES
  entered, \* when each machine entered its state
  cause,   \* what brought it there
  owed,    \* machines that have yet to look at a button pressed early
  mover,   \* the machine that made the last transition
  ordered  \* the servos that a valve command was the last to set

moves == <<entered, cause, owed, mover>>
history == <<moves, ordered>>
hvars == <<vars, history>>

(* What last moved a machine: a transition, an abort, or a reset (every    *)
(* upload resets as well).  A command that lands in RaceWindow is "late":  *)
(* it stays so until main has ended its pass over the machine ("raced").   *)
Cause == {"boot", "transition", "abort", "reset", "late abort", "late reset",
          "raced"}
Late == {"late abort", "late reset"}

HInit ==
  /\ Init
  /\ entered = [m \in Machine |-> 0]
  /\ cause = [m \in Machine |-> "boot"]
  /\ owed = [b \in Button |-> {}]
  /\ mover = "ox"
  /\ ordered = {}

(* Where a command that moves a machine does not stick: main scans its old *)
(* state or executes a transition of it, or is about to store a keyframe   *)
(* index it loaded before the command.                                     *)
RaceWindow(m) ==
  cur = m /\ pc \in Scanning \cup Executing \cup {"40"}

MovedBy(command, late) ==
  /\ entered' = [m \in Machine |-> msec]
  /\ cause' = [m \in Machine |-> IF RaceWindow(m) THEN late ELSE command]
  /\ UNCHANGED <<owed, mover, ordered>>

HMove ==
  /\ SetStateIdx
  /\ entered' = [entered EXCEPT ![cur] = msec]
  /\ cause' = [cause EXCEPT ![cur] = IF @ \in Late THEN @ ELSE "transition"]
  /\ mover' = cur
  /\ UNCHANGED <<owed, ordered>>

HScan ==
  /\ BeginScan
  /\ cause' = [cause EXCEPT ![cur] = IF @ \in Late THEN "raced" ELSE @]
  /\ owed' = [b \in Button |-> owed[b] \ {cur}]
  /\ UNCHANGED <<entered, mover, ordered>>

(* The servo that main sets in this step, if it does (lines 36 and 47).    *)
SetByMain ==
  {s \in Servo :
     \/ pc = "36" /\ NextKeyframe.servo_state # 0 /\ s = NextKeyframe.servo_idx
     \/ pc = "45" /\ StateServo # 0 /\ s = reg.iter}

HMain ==
  /\ Main /\ pc \notin {"24", "79"}
  /\ ordered' = ordered \ SetByMain
  /\ UNCHANGED moves

HAbort == ExecuteAbort /\ MovedBy("abort", "late abort")
HReset == (ResetStates \/ SetStatesData) /\ MovedBy("reset", "late reset")

(* A button pressed while main is in process_sequence is owed nothing.     *)
HButton ==
  /\ SetButtonPressed
  /\ owed' = [b \in Button |->
                IF b \in button_states' \ button_states /\ pc = "loop"
                THEN Machine ELSE owed[b]]
  /\ UNCHANGED <<entered, cause, mover, ordered>>

HValves == SetValveStates /\ ordered' = Servo /\ UNCHANGED moves

HValve(s) ==
  /\ SetSingleValve(s)
  /\ ordered' = ordered \cup {s}
  /\ UNCHANGED moves

HTick == Tick /\ UNCHANGED history

HNext ==
  \/ HMove \/ HScan \/ HMain
  \/ HAbort \/ HReset \/ HButton \/ HValves \/ \E s \in Servo : HValve(s)
  \/ HTick

HSpec == HInit /\ [][HNext]_hvars
HFairSpec == HSpec /\ WF_hvars(HMove \/ HScan \/ HMain) /\ WF_hvars(HTick)

-----------------------------------------------------------------------------
(* A machine aborted outside of RaceWindow is in state 1 with state 1      *)
(* active and its keyframes ended, until a transition of state 1 moves it: *)
(* neither the rest of the interrupted pass nor the keyframe in progress   *)
(* undoes the abort (lines 24-51 against 90-101).                          *)
AbortInForce ==
  \A m \in Machine : cause[m] = "abort" =>
    /\ machine[m].state_idx = 1
    /\ "active" \in machine[m].flags[1]
    /\ machine[m].keyframe_idx >= NKeyframes

(* A button pressed while main is outside of process_sequence is cleared   *)
(* only after both machines have scanned with the button down (lines       *)
(* 15-21).  One pressed during process_sequence may be cleared unseen.     *)
EarlyPressSeen ==
  pc = "18" => owed[reg.iter] = {}

TimerFires == pc = "79" /\ Current.trigger_type = "TIMER"
TimeInState == Elapsed(msec, entered[cur])

(* A TIMER transition of a state that was entered by a transition or an    *)
(* abort fires no sooner than its delay after that (lines 59, 84-85, 95).  *)
TimerDelayHonoured ==
  TimerFires /\ cause[cur] \in {"transition", "abort"} =>
    TimeInState >= Current.param1

(* The servos a table moves, by the positions of a state or by a keyframe. *)
Drives(t) ==
  {s \in Servo :
     \/ \E n \in Node : t[n].state_servos[s] # 0
     \/ \E n \in Node, i \in Slot, f \in Frame :
          LET k == t[n].transitions[i].keyframes[f]
          IN  k.servo_idx = s /\ k.servo_state # 0}

MachinesShareNoServo ==
  \A u, v \in Uploads : u[1] # v[1] => Drives(u[2]) \cap Drives(v[2]) = {}

(* Between passes, a machine that came into its state by a transition and  *)
(* has played its keyframes has its servos where the state wants them      *)
(* (lines 44-49), for tables in which the machines share no servo.  The    *)
(* positions are applied once: a valve command after that overrides them   *)
(* until the sequencer sets the servo again, one before it does not.       *)
StateServosApplied ==
  MachinesShareNoServo /\ pc = "loop" =>
    \A m \in Machine, s \in Servo :
      LET want == machine[m].states[machine[m].state_idx].state_servos[s]
      IN  cause[m] = "transition" /\ machine[m].keyframe_idx >= NKeyframes
            => want \in {0, servos[s]} \/ s \in ordered

(* Both machines drive one spark pin.  Between passes it is what the state *)
(* asks for that the last transition of either machine entered (lines 79,  *)
(* 86), unless a command has moved that machine since: an abort or a reset *)
(* leaves the pin alone.                                                   *)
SparkAsLastAsked ==
  pc = "loop" /\ cause[mover] = "transition" =>
    spark = ("spark" \in machine[mover].flags[machine[mover].state_idx])

OnlyCurrentActive(m) ==
  \A n \in Node : "active" \in machine[m].flags[n] => n = machine[m].state_idx

(* A machine that was reset, or given a new table, starts its state 0      *)
(* afresh (lines 103-110): no other state is flagged active                *)
(* (sequencer.h:44: "bit0: state active"), and a timer of state 0 waits    *)
(* out its delay from then (sequencer.h:24: "param1: time delay").         *)
ResetStartsAfresh ==
  \A m \in Machine : cause[m] = "reset" =>
    /\ OnlyCurrentActive(m)
    /\ TimerFires /\ cur = m => TimeInState >= Current.param1

(* When main has ended the pass an abort interrupted, one state is active. *)
AbortLeavesOneActive ==
  pc = "24" /\ cause[cur] = "late abort" => OnlyCurrentActive(cur)

(* Every pass of process_sequence ends (lines 16-20), unless the tables    *)
(* have a cycle of transitions that are all triggered at once.             *)
PassEnds == pc # "loop" ~> pc = "loop"

(* A keyframe that is due does not stay so: it is played, or the machine   *)
(* moves on (lines 33-43).                                                 *)
DueKeyframe(m, f) ==
  LET a == machine[m]
      p == a.current_keyframes
  IN  /\ p # NULL /\ a.keyframe_idx = f
      /\ Elapsed(msec, a.last_keyframe_millis)
           >= a.states[p[1]].transitions[p[2]].keyframes[f].delay_ms_before

DueKeyframePlayed ==
  \A m \in Machine, f \in Frame : DueKeyframe(m, f) ~> ~DueKeyframe(m, f)
=============================================================================
