------------------------------ MODULE ByteQueue ------------------------------
(***************************************************************************)
(* What one direction of the CDC data channel promises: a queue of bytes.  *)
(* Bytes are put at the end, in chunks of any length, and taken from the   *)
(* front, in chunks of any length; got is the chunk last taken.  Bytes are *)
(* lost, and then all of them, only in a step that is Lost as well: an     *)
(* action of the system, which says when it may lose them.                 *)
(***************************************************************************)
EXTENDS Integers, Sequences

CONSTANT Capacity \* the bytes the queue holds at most

VARIABLES queue, got

Init == queue = <<>> /\ got = <<>>

Put ==
  /\ Len(queue') \in Len(queue) + 1 .. Capacity
  /\ SubSeq(queue', 1, Len(queue)) = queue
  /\ UNCHANGED got

Take == \E n \in 0 .. Len(queue) :
  /\ got' = SubSeq(queue, 1, n)
  /\ queue' = SubSeq(queue, n + 1, Len(queue))

Clear == queue' = <<>> /\ got' \in {got, <<>>}

Next(Lost) == Put \/ Take \/ (Lost /\ Clear)

(* Nothing is left behind: a queue that holds something becomes empty.     *)
Emptied == queue # <<>> ~> queue = <<>>
=============================================================================
