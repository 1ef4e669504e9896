------------------------------- MODULE SlipLink -------------------------------
(***************************************************************************)
(* The link to the host: SLIP packets (slip.c), the receive callback       *)
(* (main.c:58) and the dispatcher of commands (ui.c), over the two queues  *)
(* of bytes UsbCdc implements.                                             *)
(*                                                                         *)
(* All of it runs in the USB interrupt, one byte per step here; bytes come *)
(* in between, in chunks of any length.  The host may stop in the middle   *)
(* of a command; the one that follows it begins with an END, as RFC 1055   *)
(* has it, and forgets what it has not heard.                              *)
(***************************************************************************)
EXTENDS Slip, FiniteSets

CONSTANTS
  RX_BUFFER_LENGTH, \* 1024
  ACK, NACK,
  Exact,            \* the commands that store a table -> its length
  AtLeast,          \* the commands with arguments -> their length
  Queries,          \* the queries -> the command whose data they ask for
  Commands,         \* the packets hosts send
  MaxAsks,          \* bound: commands
  MaxRestarts       \* bound: hosts that stop half way

Writes == DOMAIN Exact \cup DOMAIN AtLeast

(* The bytes a command stores.                                             *)
DataLength(c) == IF c \in DOMAIN Exact THEN Exact[c] ELSE AtLeast[c]

Blob == 0 .. RX_BUFFER_LENGTH - 1

ASSUME CodesAssumption ==
  /\ {ACK, NACK} \subseteq Plain
  /\ DOMAIN Exact \cap DOMAIN AtLeast = {}
  /\ Exact \in [DOMAIN Exact -> Nat] /\ AtLeast \in [DOMAIN AtLeast -> Nat]
  /\ Queries \in [DOMAIN Queries -> Writes]
  /\ DOMAIN Queries \cap Writes = {}
  /\ \A q \in DOMAIN Queries : DataLength(Queries[q]) > 0
  /\ RX_BUFFER_LENGTH \in Nat \ {0}
  /\ MaxAsks \in Nat /\ MaxRestarts \in Nat

(* What hosts send fits in rx_blob.  Of the program's commands, all do but *)
(* the two that load a table of states, of 4129 bytes.                     *)
ASSUME CommandsAssumption ==
  \A p \in Commands : p \in Seq(Byte) \ {<<>>} /\ Len(Encode(p)) <= RX_BUFFER_LENGTH + 1

VARIABLES
  wire,    \* bytes the host has sent and the firmware has not received
  rx,      \* bytes received and not yet read
  rx_blob, \* the packet, as received and then as decoded
  rx_pos,  \* its length
  pc,      \* "read", "decode" or "process"
  src_i,   \* how far the packet has been decoded ...
  dest_i,  \* ... and to where
  stored,  \* the data last stored by each command
  out,     \* bytes of replies the host has not taken
  left     \* commands and restarts still to come

vars == <<wire, rx, rx_blob, rx_pos, pc, src_i, dest_i, stored, out, left>>

decoder == <<pc, src_i, dest_i>>
host == <<wire, out, left>>

Init ==
  /\ wire = <<>> /\ rx = <<>> /\ out = <<>>
  /\ rx_blob = [i \in Blob |-> NACK] /\ rx_pos = 0
  /\ pc = "read" /\ src_i = 0 /\ dest_i = 0
  /\ stored = [c \in Writes |-> [i \in 1 .. DataLength(c) |-> NACK]]
  /\ left = [asks |-> MaxAsks, restarts |-> MaxRestarts]

-----------------------------------------------------------------------------
(* The host, and the bytes on their way.                                   *)
HostAsks(p) ==
  /\ left.asks > 0
  /\ left' = [left EXCEPT !.asks = @ - 1]
  /\ wire' = wire \o Encode(p)
  /\ UNCHANGED <<rx, rx_blob, rx_pos, decoder, stored, out>>

HostRestarts == \E n \in 0 .. Len(wire) :
  /\ left.restarts > 0
  /\ left' = [left EXCEPT !.restarts = @ - 1]
  /\ wire' = SubSeq(wire, 1, n) \o <<END>>
  /\ out' = <<>>
  /\ UNCHANGED <<rx, rx_blob, rx_pos, decoder, stored>>

(* The host takes a reply.                                                 *)
HostHears ==
  /\ out # <<>>
  /\ LET n == SelectInSeq(out, LAMBDA b : b = END)
     IN  out' = SubSeq(out, n + 1, Len(out))
  /\ UNCHANGED <<wire, rx, rx_blob, rx_pos, decoder, stored, left>>

(* Interrupts do not nest: bytes come in when the callback has returned.   *)
Arrive == \E n \in 1 .. Len(wire) :
  /\ pc = "read" /\ rx = <<>>
  /\ rx' = SubSeq(wire, 1, n)
  /\ wire' = SubSeq(wire, n + 1, Len(wire))
  /\ UNCHANGED <<rx_blob, rx_pos, decoder, stored, out, left>>

-----------------------------------------------------------------------------
(* udi_cdc_read_slip_packet.  Line 21: bytes go to the packet until END.   *)
(* If there are none left the callback returns and rx_pos is kept.         *)
ReadByte ==
  /\ pc = "read" /\ rx # <<>> /\ Head(rx) # END
  /\ rx' = Tail(rx)
  /\ rx_blob' = [i \in Blob |-> IF i = rx_pos THEN Head(rx) ELSE rx_blob[i]]
  /\ rx_pos' = rx_pos + 1
  /\ UNCHANGED <<decoder, stored, host>>

ReadEnd ==
  /\ pc = "read" /\ rx # <<>> /\ Head(rx) = END
  /\ rx' = Tail(rx)
  /\ pc' = "decode" /\ src_i' = 0 /\ dest_i' = 0
  /\ UNCHANGED <<rx_blob, rx_pos, stored, host>>

(* What is read at i: beyond rx_blob, whatever the memory there holds.     *)
Fetch(i) == IF i \in Blob THEN {rx_blob[i]} ELSE Byte

(* Line 28: the byte after an escape, which may be one past the packet.    *)
(* Mutant: the escaped byte is decoded once more.                          *)
AfterEscapeTwice == src_i + 1

(* Mutant: line 28 counts the loop's own step as well.                     *)
AfterEscapeLate == src_i + 3

AfterEscape == src_i + 2

(* Lines 26-34, once: a byte, or an escape and the byte after it.          *)
Store(bytes) ==
  /\ rx_blob' = [i \in Blob |-> IF i = dest_i /\ bytes # <<>> THEN bytes[1] ELSE rx_blob[i]]
  /\ dest_i' = dest_i + Len(bytes)

DecodeByte ==
  /\ pc = "decode" /\ src_i < rx_pos
  /\ \E b \in Fetch(src_i) :
       \/ /\ b = ESC
          /\ \E c \in Fetch(src_i + 1) : Store(Meaning(c))
          /\ src_i' = AfterEscape
       \/ /\ b # ESC
          /\ Store(<<b>>)
          /\ src_i' = src_i + 1
  /\ UNCHANGED <<rx, rx_pos, pc, stored, host>>

(* Line 35.  A packet of length zero is not processed (main.c:61).         *)
(* Mutant: the length is returned but not stored for an empty packet.      *)
DecodedLengthKept == IF dest_i = 0 THEN rx_pos ELSE dest_i

DecodedLength == dest_i

DecodeEnd ==
  /\ pc = "decode" /\ src_i >= rx_pos
  /\ rx_pos' = DecodedLength
  /\ pc' = IF dest_i > 0 THEN "process" ELSE "read"
  /\ src_i' = 0 /\ dest_i' = 0
  /\ UNCHANGED <<rx, rx_blob, stored, host>>

-----------------------------------------------------------------------------
(* process_command(rx_blob, rx_pos)                                        *)
Code == rx_blob[0]

(* Mutant: the length given on counts the command's own byte.              *)
LengthOkOffByOne ==
  \/ Code \in DOMAIN Exact /\ rx_pos = Exact[Code]
  \/ Code \in DOMAIN AtLeast /\ rx_pos >= AtLeast[Code] + 1

(* ui.c:37, 51, 66, 72 and 83                                              *)
LengthOk ==
  \/ Code \in DOMAIN Exact /\ rx_pos - 1 = Exact[Code]
  \/ Code \in DOMAIN AtLeast /\ rx_pos >= AtLeast[Code] + 1

(* The arguments begin at data+1.                                          *)
Arguments == [i \in 1 .. DataLength(Code) |-> rx_blob[i]]

Query ==
  /\ Code \in DOMAIN Queries
  /\ out' = out \o Encode(stored[Queries[Code]])
  /\ UNCHANGED stored

Write ==
  /\ Code \in Writes /\ LengthOk
  /\ out' = out \o Encode(<<ACK>>)
  /\ stored' = [stored EXCEPT ![Code] = Arguments]

Refuse ==
  /\ Code \notin DOMAIN Queries /\ ~LengthOk
  /\ out' = out \o Encode(<<NACK>>)
  /\ UNCHANGED stored

(* Mutant: the callback does not start the next packet afresh.             *)
NextPacketAppended == rx_pos

(* main.c:63 *)
NextPacket == 0

Process ==
  /\ pc = "process"
  /\ Query \/ Write \/ Refuse
  /\ rx_pos' = NextPacket
  /\ pc' = "read"
  /\ UNCHANGED <<wire, rx, rx_blob, src_i, dest_i, left>>

Callback == ReadByte \/ ReadEnd \/ DecodeByte \/ DecodeEnd \/ Process

Next == (\E p \in Commands : HostAsks(p)) \/ HostRestarts \/ HostHears \/ Arrive \/ Callback

Spec == Init /\ [][Next]_vars

(* Bytes sent arrive, and the callback and the host read them.             *)
FairSpec == Spec /\ WF_vars(Arrive) /\ WF_vars(Callback) /\ WF_vars(HostHears)

-----------------------------------------------------------------------------
(* Types.  The decoder writes behind what it reads, and reads at most one  *)
(* byte past the packet.                                                   *)
TypeOK ==
  /\ wire \in Seq(Byte) /\ rx \in Seq(Byte) /\ out \in Seq(Byte)
  /\ rx_blob \in [Blob -> Byte]
  /\ rx_pos \in Nat
  /\ pc \in {"read", "decode", "process"}
  /\ src_i \in 0 .. rx_pos + 1 /\ dest_i \in 0 .. src_i
  /\ stored \in [Writes -> Seq(Byte)]
  /\ left \in [asks : 0 .. MaxAsks, restarts : 0 .. MaxRestarts]

(* No packet outgrows rx_blob (main.c:20), however the commands of hosts   *)
(* that stop half way and of those that follow come in: what is left of    *)
(* one is never in front of the next.                                      *)
PacketInBlob == rx_pos <= RX_BUFFER_LENGTH

(* The commands under way: the one in rx_blob, then those still to read.   *)
Bytes(from, to) == [i \in 1 .. to - from |-> rx_blob[from + i - 1]]

Requests ==
  IF pc = "read" THEN Frames[Bytes(0, rx_pos) \o rx \o wire]
  ELSE LET rest == IF pc = "process" THEN <<>> ELSE Unescape[Bytes(src_i, rx_pos)]
           done == IF pc = "process" THEN Bytes(0, rx_pos) ELSE Bytes(0, dest_i)
       IN  Packet(done \o rest) \o Frames[rx \o wire]

Server == INSTANCE CommandServer WITH
  Escapables <- {END, ESC}, requests <- Requests, replies <- Frames[out]

(* However the bytes of the commands come in, they are carried out whole,  *)
(* once and in order, with one reply each: lines 19-53 of slip.c, decoding *)
(* in place, main.c:58 and ui.c:13 implement CommandServer.                *)
LinkIsServer == Server!Spec

(* Every command is carried out in the end, and no byte of it left behind. *)
NothingLeftOver ==
  (wire # <<>>) ~> (wire = <<>> /\ rx = <<>> /\ rx_pos = 0 /\ pc = "read" /\ out = <<>>)
=============================================================================
