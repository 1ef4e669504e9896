----------------------------- MODULE MCSequencer -----------------------------
(***************************************************************************)
(* State tables small enough for TLC to explore every interleaving.        *)
(***************************************************************************)
EXTENDS Sequencer

(* Keyframes, transitions and nodes with every field given.                *)
Move(delay, servo, position) ==
  [delay_ms_before |-> delay, servo_idx |-> servo, servo_state |-> position]

Stop == Move(0, 0, 0)

On(type, p1, p2, target, frames) ==
  [abort |-> FALSE, trigger_type |-> type, target_state |-> target,
   param1 |-> p1, param2 |-> p2, keyframes |-> frames]

Never == ZeroTransition

InState(fl, positions, ts) ==
  [state_flags |-> fl, state_servos |-> positions, transitions |-> ts]

Frames(f0, f1) == [f \in Frame |-> IF f = 0 THEN f0 ELSE f1]
Slots(t0, t1) == [s \in Slot |-> IF s = 0 THEN t0 ELSE t1]
Positions(p0, p1) == [s \in Servo |-> IF s = 0 THEN p0 ELSE p1]

(* Idle, abort and fire: the button starts the firing state, with one      *)
(* delayed keyframe, and a timer ends it.                                  *)
FiringTable ==
  [n \in Node |->
     CASE n = 0 -> InState({}, Positions(1, 0),
                     Slots(On("BUTTON", 0, 0, 2, Frames(Move(1, 0, 2), Move(0, 0, 3))),
                           Never))
       [] n = 1 -> InState({}, Positions(4, 0), Slots(Never, Never))
       [] OTHER -> InState({"spark"}, Positions(5, 0),
                     Slots(On("TIMER", 1, 0, 0, Frames(Stop, Stop)), Never))]

(* A transition to the abort state.                                        *)
AbortOn(type, p1, p2) ==
  [On(type, p1, p2, 1, Frames(Stop, Stop)) EXCEPT !.abort = TRUE]

(* A state 0 that a timer leaves.                                          *)
TimerTable ==
  [FiringTable EXCEPT ![0].transitions =
     Slots(On("TIMER", 2, 0, 2, Frames(Stop, Stop)), Never)]

(* The fuel side answers the same button, with a servo of its own, is      *)
(* aborted by a pressure or ended by a timer, comes back from the abort by *)
(* the load cell, and asks for the spark on its way back.                  *)
FuelTable ==
  [n \in Node |->
     CASE n = 0 -> InState({"spark"}, Positions(0, 1),
                     Slots(On("BUTTON", 0, 0, 2, Frames(Move(0, 1, 2), Stop)),
                           Never))
       [] n = 1 -> InState({}, Positions(0, 4),
                     Slots(On("FORCE_LT", 1, 0, 0, Frames(Move(1, 1, 3), Stop)),
                           Never))
       [] OTHER -> InState({}, Positions(0, 5),
                     Slots(AbortOn("LT", 0, 1),
                           On("TIMER", 1, 0, 0, Frames(Stop, Stop))))]

TimerUploads == {<<"ox", TimerTable>>}
OxUploads == {<<"ox", FiringTable>>}
PairUploads == {<<"ox", FiringTable>>, <<"fuel", FuelTable>>}
=============================================================================
