------------------------- MODULE MCSequencerHistory -------------------------
(* The instances of MCSequencer, for the sequencer with history variables. *)
EXTENDS SequencerHistory, MCSequencer
=============================================================================
