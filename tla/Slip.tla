--------------------------------- MODULE Slip ---------------------------------
(***************************************************************************)
(* The SLIP framing of slip.c: how packets become a stream of bytes and    *)
(* what packets a stream holds, as operators on sequences.  Frames and     *)
(* Unescape say what a stream means; the decoder of slip.c, which works in *)
(* place and byte by byte, is in SlipLink.                                 *)
(***************************************************************************)
EXTENDS Integers, Sequences, SequencesExt

CONSTANTS
  END, ESC, ESC_END, ESC_ESC, \* slip.c:10
  Plain,                      \* all other bytes
  Dangling                    \* stands for an escape nothing follows

Special == {END, ESC, ESC_END, ESC_ESC}
Byte == Special \cup Plain

ASSUME SlipAssumption ==
  /\ END # ESC /\ END # ESC_END /\ END # ESC_ESC
  /\ ESC # ESC_END /\ ESC # ESC_ESC /\ ESC_END # ESC_ESC
  /\ Plain \cap Special = {}
  /\ Dangling \notin Byte

(* udi_cdc_write_slip_packet                                               *)
Escaped(b) ==
  IF b = END THEN <<ESC, ESC_END>> ELSE IF b = ESC THEN <<ESC, ESC_ESC>> ELSE <<b>>

Encode(packet) == FlattenSeq([i \in DOMAIN packet |-> Escaped(packet[i])]) \o <<END>>

(* What an escape followed by b stands for: nothing, if b escapes nothing. *)
Meaning(b) ==
  IF b = ESC_END THEN <<END>> ELSE IF b = ESC_ESC THEN <<ESC>> ELSE <<>>

Unescape[s \in Seq(Byte)] ==
  IF s = <<>> THEN <<>>
  ELSE IF Head(s) # ESC THEN <<Head(s)>> \o Unescape[Tail(s)]
  ELSE IF Len(s) = 1 THEN <<Dangling>>
  ELSE Meaning(s[2]) \o Unescape[SubSeq(s, 3, Len(s))]

Packet(p) == IF p = <<>> THEN <<>> ELSE <<p>>

(* The packets that end in a stream; empty ones do not count.              *)
Frames[s \in Seq(Byte)] ==
  LET n == SelectInSeq(s, LAMBDA b : b = END)
  IN  IF n = 0 THEN <<>>
      ELSE Packet(Unescape[SubSeq(s, 1, n - 1)]) \o Frames[SubSeq(s, n + 1, Len(s))]
=============================================================================
