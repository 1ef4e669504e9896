---------------------------- MODULE CommandServer ----------------------------
(***************************************************************************)
(* What the link to the host promises: the commands the host asks for are  *)
(* carried out one at a time, each once, whole and in the order they were  *)
(* asked, and each gets one reply, in the same order.                      *)
(*                                                                         *)
(* Only a host that stops half way through a command spoils it, that one   *)
(* and no other: its first bytes are taken for a command.  If it stopped   *)
(* inside an escape the firmware may add a byte of its own.                *)
(***************************************************************************)
EXTENDS Integers, Sequences

CONSTANTS
  Escapables, \* the bytes that are sent as two
  Dangling,   \* at the end of a command, the first of these two
  ACK, NACK,
  Exact,      \* commands that store data, and the length it must have
  AtLeast,    \* commands with arguments, and the length they must have
  Queries     \* the data each query asks for

VARIABLES requests, replies, stored

Writes == DOMAIN Exact \cup DOMAIN AtLeast

Accepted(p) ==
  \/ p[1] \in DOMAIN Exact /\ Len(p) = Exact[p[1]] + 1
  \/ p[1] \in DOMAIN AtLeast /\ Len(p) >= AtLeast[p[1]] + 1

Data(p) ==
  IF p[1] \in DOMAIN Exact THEN Tail(p) ELSE SubSeq(p, 2, AtLeast[p[1]] + 1)

Reply(p) ==
  IF p[1] \in DOMAIN Queries THEN stored[Queries[p[1]]]
  ELSE IF Accepted(p) THEN <<ACK>> ELSE <<NACK>>

(* The data stored at boot: zeros, and NACK is the byte zero.              *)
Zeros(n) == [i \in 1 .. n |-> NACK]

Init ==
  /\ requests = <<>> /\ replies = <<>>
  /\ stored = [c \in Writes |-> Zeros(IF c \in DOMAIN Exact THEN Exact[c] ELSE AtLeast[c])]

Ask ==
  /\ Len(requests') = Len(requests) + 1
  /\ SubSeq(requests', 1, Len(requests)) = requests
  /\ UNCHANGED <<replies, stored>>

Unfinished(p) == p[Len(p)] = Dangling

Serve ==
  /\ requests # <<>> /\ ~Unfinished(Head(requests))
  /\ LET p == Head(requests)
     IN  /\ replies' = Append(replies, Reply(p))
         /\ stored' = IF Accepted(p) THEN [stored EXCEPT ![p[1]] = Data(p)] ELSE stored
  /\ requests' = Tail(requests)

Hear == replies # <<>> /\ replies' = Tail(replies) /\ UNCHANGED <<requests, stored>>

(* The host stops after k commands and a part of the next one.             *)
Parts(p) ==
  {SubSeq(p, 1, n) : n \in 1 .. Len(p)} \cup
  {Append(SubSeq(p, 1, n), Dangling) : n \in {m \in 0 .. Len(p) - 1 : p[m + 1] \in Escapables}}

Restart == \E k \in 0 .. Len(requests) :
  /\ LET kept == SubSeq(requests, 1, k)
     IN  \/ requests' = kept
         \/ k < Len(requests) /\ requests' \in {Append(kept, q) : q \in Parts(requests[k + 1])}
  /\ replies' = <<>>
  /\ UNCHANGED stored

(* The firmware makes something of an escape nothing follows.              *)
Settle ==
  /\ requests # <<>> /\ Unfinished(Head(requests))
  /\ LET p == SubSeq(Head(requests), 1, Len(Head(requests)) - 1)
         heads == {p} \cup {Append(p, b) : b \in Escapables}
     IN  requests' \in {<<h>> \o Tail(requests) : h \in heads \ {<<>>}}
                         \cup (IF p = <<>> THEN {Tail(requests)} ELSE {})
  /\ UNCHANGED <<replies, stored>>

Next == Ask \/ Serve \/ Hear \/ Restart \/ Settle

Spec == Init /\ [][Next]_<<requests, replies, stored>>
=============================================================================
