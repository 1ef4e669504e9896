------------------------------ MODULE MCSlipLink ------------------------------
(* Three commands for TLC: one stores a table of two bytes, one an         *)
(* argument, one asks for the table; and one there is not.  The tables hold*)
(* bytes that are sent as two, and bytes that look like the second of two. *)
EXTENDS SlipLink

CONSTANTS Set, Get, Button

Pairs == {<<END, ESC>>, <<ESC, ESC_END>>, <<ESC_END, END>>}

CommandPackets ==
  {<<Set>> \o p : p \in Pairs} \cup {<<Get>>, <<Button, ESC_ESC>>, <<ESC>>}

OneTable == [c \in {Set} |-> 2]
OneArgument == [c \in {Button} |-> 1]
OneQuery == [c \in {Get} |-> Set]
=============================================================================
