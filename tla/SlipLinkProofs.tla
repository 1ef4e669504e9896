---------------------------- MODULE SlipLinkProofs ----------------------------
(***************************************************************************)
(* Proofs about the link to the host, for every buffer, set of commands    *)
(* and number of them: packets stay inside the buffer, and what slip.c,    *)
(* main.c and ui.c do byte by byte is what CommandServer promises.         *)
(***************************************************************************)
EXTENDS SlipLink, SlipProofs

(* The bytes under way: those of the packet that is being read, those      *)
(* received and those on the wire.                                         *)
Held == IF pc = "read" THEN Bytes(0, rx_pos) ELSE <<>>
Stream == Held \o rx \o wire

(* Hosts send whole packets, which fit, or stop and begin afresh.          *)
Streaming ==
  /\ Complete(Stream) /\ Fits(Stream, RX_BUFFER_LENGTH) /\ Regular(Stream)
  /\ pc = "read" => NoEnd(Held)

(* The decoder is behind what it reads, inside the packet, and finds no    *)
(* escape of a byte that needs none.                                       *)
Decoding ==
  /\ dest_i <= rx_pos
  /\ pc # "decode" => src_i = 0 /\ dest_i = 0
  /\ pc = "process" => rx_pos >= 1
  /\ pc = "decode" => \A i \in src_i .. rx_pos - 2 :
       rx_blob[i] = ESC => rx_blob[i + 1] \in {ESC_END, ESC_ESC}

(* Every reply is a packet of its own, and no table becomes shorter.       *)
Replying ==
  /\ Complete(out) /\ Tidy(out)
  /\ \A c \in Writes : Len(stored[c]) = DataLength(c)

IInv == TypeOK /\ PacketInBlob /\ Streaming /\ Decoding /\ Replying

-----------------------------------------------------------------------------
LEMMA CodeTypes ==
  /\ {END, ESC, ESC_END, ESC_ESC, ACK, NACK} \subseteq Byte
  /\ ACK \notin {END, ESC} /\ NACK \notin {END, ESC}
  /\ \A c \in Writes : DataLength(c) \in Nat
  /\ RX_BUFFER_LENGTH \in Nat \ {0}
  /\ \A p \in Commands : p \in Seq(Byte) /\ p # <<>> /\ Len(Encode(p)) <= RX_BUFFER_LENGTH + 1
<1>1. /\ {ACK, NACK} \subseteq Plain /\ RX_BUFFER_LENGTH \in Nat \ {0}
      /\ Exact \in [DOMAIN Exact -> Nat] /\ AtLeast \in [DOMAIN AtLeast -> Nat]
  BY CodesAssumption
<1>2. \A c \in Writes : DataLength(c) \in Nat
  BY <1>1 DEF Writes, DataLength
<1>3. \A p \in Commands : p \in Seq(Byte) /\ p # <<>> /\ Len(Encode(p)) <= RX_BUFFER_LENGTH + 1
  BY CommandsAssumption
<1>4. Plain \cap Special = {}
  BY SlipAssumption
<1> QED
  BY <1>1, <1>2, <1>3, <1>4 DEF Byte, Special

LEMMA FunctionSeq ==
  ASSUME NEW n \in Nat, NEW p \in [1 .. n -> Byte]
  PROVE  p \in Seq(Byte) /\ Len(p) = n
<1>1. p \in Seq(Byte)
  BY SeqDef
<1>2. Len(p) \in Nat /\ 1 .. Len(p) = 1 .. n
  BY <1>1, LenProperties
<1>3. ASSUME NEW a \in Nat, NEW b \in Nat, 1 .. a = 1 .. b PROVE a <= b
  <2>1. CASE a = 0
    BY <2>1
  <2>2. CASE a # 0
    <3>1. a \in 1 .. b
      BY <1>3, <2>2
    <3> QED
      BY <3>1
  <2> QED
    BY <2>1, <2>2
<1>4. Len(p) <= n /\ n <= Len(p)
  BY <1>2, <1>3
<1> QED
  BY <1>1, <1>2, <1>4

(* A part of the buffer.                                                   *)
Part(blob, from, to) == [i \in 1 .. to - from |-> blob[from + i - 1]]

LEMMA BytesType ==
  ASSUME NEW blob \in [Blob -> Byte], NEW from \in Nat, NEW to \in 0 .. RX_BUFFER_LENGTH
  PROVE  /\ Part(blob, from, to) \in Seq(Byte)
         /\ Len(Part(blob, from, to)) = IF from <= to THEN to - from ELSE 0
         /\ \A i \in 1 .. to - from : Part(blob, from, to)[i] = blob[from + i - 1]
<1> DEFINE p == Part(blob, from, to)
<1>2. p = [i \in 1 .. to - from |-> blob[from + i - 1]]
  BY DEF Part
<1> HIDE DEF p
<1>1. \A i \in 1 .. to - from : from + i - 1 \in Blob /\ blob[from + i - 1] \in Byte
  BY CodeTypes DEF Blob
<1>3. PICK n \in Nat : n = IF from <= to THEN to - from ELSE 0
  <2>1. (IF from <= to THEN to - from ELSE 0) \in Nat
    BY CodeTypes
  <2> QED
    BY <2>1, Zenon
<1>4. 1 .. to - from = 1 .. n
  BY <1>3, CodeTypes
<1>5. p = [i \in 1 .. n |-> blob[from + i - 1]]
  BY <1>2, <1>4
<1>6. \A i \in 1 .. n : blob[from + i - 1] \in Byte
  BY <1>1, <1>4
<1>7. p \in Seq(Byte) /\ Len(p) = n
  <2>1. p \in [1 .. n -> Byte]
    BY <1>5, <1>6
  <2> QED
    BY <2>1, Zenon, FunctionSeq
<1>8. \A i \in 1 .. to - from : p[i] = blob[from + i - 1]
  BY <1>2
<1> QED
  BY <1>3, <1>7, <1>8, Zenon DEF p

LEMMA EmptyStream ==
  /\ <<>> \in Seq(Byte) /\ NoEnd(<<>>) /\ Complete(<<>>) /\ Tidy(<<>>) /\ Regular(<<>>)
  /\ \A n \in Nat : Fits(<<>>, n)
  /\ \A s \in Seq(Byte) : s \o <<>> = s /\ <<>> \o s = s
<1>1. <<>> \in Seq(Byte) /\ Len(<<>>) = 0
  BY EmptySeq
<1>2. \A s \in Seq(Byte) : s \o <<>> = s /\ <<>> \o s = s
  BY ConcatEmptySeq
<1>3. NoEnd(<<>>) /\ Complete(<<>>) /\ Tidy(<<>>) /\ Regular(<<>>)
  BY <1>1 DEF NoEnd, Complete, Tidy, Regular
<1>4. \A n \in Nat : Fits(<<>>, n)
  BY <1>1 DEF Fits
<1> QED
  BY <1>1, <1>2, <1>3, <1>4

LEMMA StreamType ==
  ASSUME TypeOK, PacketInBlob
  PROVE  /\ Held \in Seq(Byte) /\ Stream \in Seq(Byte)
         /\ Held \o rx \in Seq(Byte)
         /\ pc = "read" => Len(Held) = rx_pos
<1>1. rx_pos \in 0 .. RX_BUFFER_LENGTH /\ rx_blob \in [Blob -> Byte]
  BY CodeTypes DEF TypeOK, PacketInBlob
<1>2. Bytes(0, rx_pos) \in Seq(Byte) /\ Len(Bytes(0, rx_pos)) = rx_pos
  <2> DEFINE b == Bytes(0, rx_pos)
  <2>1. b = Part(rx_blob, 0, rx_pos)
    BY DEF Bytes, Part
  <2> HIDE DEF b
  <2>2. b \in Seq(Byte) /\ Len(b) = IF 0 <= rx_pos THEN rx_pos - 0 ELSE 0
    BY <1>1, <2>1, BytesType
  <2> QED
    BY <1>1, <2>2 DEF b
<1>3. Held \in Seq(Byte) /\ (pc = "read" => Len(Held) = rx_pos)
  BY <1>2, EmptyStream DEF Held
<1>4. rx \in Seq(Byte) /\ wire \in Seq(Byte)
  BY DEF TypeOK
<1>5. Held \o rx \in Seq(Byte)
  BY <1>3, <1>4, ByteConcat
<1>6. Held \o rx \o wire \in Seq(Byte)
  BY <1>4, <1>5, ByteConcat
<1> QED
  BY <1>3, <1>5, <1>6 DEF Stream

LEMMA InvInit == Init => IInv
<1> SUFFICES ASSUME Init PROVE IInv
  OBVIOUS
<1>1. TypeOK
  <2>1. /\ wire = <<>> /\ rx = <<>> /\ out = <<>> /\ rx_blob = [i \in Blob |-> NACK] /\ rx_pos = 0
        /\ pc = "read" /\ src_i = 0 /\ dest_i = 0
        /\ left = [asks |-> MaxAsks, restarts |-> MaxRestarts]
        /\ stored = [c \in Writes |-> [i \in 1 .. DataLength(c) |-> NACK]]
    BY DEF Init
  <2>2. stored \in [Writes -> Seq(Byte)]
    <3>1. \A c \in Writes : [i \in 1 .. DataLength(c) |-> NACK] \in Seq(Byte)
      BY CodeTypes
    <3> QED
      BY <2>1, <3>1
  <2>3. left \in [asks : 0 .. MaxAsks, restarts : 0 .. MaxRestarts]
    BY <2>1, CodesAssumption
  <2> QED
    BY <2>1, <2>2, <2>3, EmptyStream, CodeTypes DEF TypeOK
<1>2. PacketInBlob
  BY CodeTypes DEF Init, PacketInBlob
<1>3. Stream = <<>> /\ Held = <<>>
  <2>1. Held = <<>>
    <3>1. Held \in Seq(Byte) /\ Len(Held) = 0
      BY <1>1, <1>2, StreamType DEF Init
    <3> QED
      BY <3>1, EmptySeq
  <2> QED
    BY <2>1, EmptyStream DEF Stream, Init
<1>4. Streaming
  BY <1>3, EmptyStream, CodeTypes DEF Streaming
<1>5. Decoding
  BY DEF Decoding, Init
<1>6. Replying
  <2>1. ASSUME NEW c \in Writes PROVE Len(stored[c]) = DataLength(c)
    <3>1. stored[c] = [i \in 1 .. DataLength(c) |-> NACK]
      BY DEF Init
    <3> QED
      BY <3>1, CodeTypes
  <2> QED
    BY <2>1, EmptyStream DEF Replying, Init
<1> QED
  BY <1>1, <1>2, <1>4, <1>5, <1>6 DEF IInv

-----------------------------------------------------------------------------
(* The host.                                                               *)
LEMMA HeldStays ==
  ASSUME UNCHANGED <<pc, rx_blob, rx_pos>>
  PROVE  Held' = Held
BY DEF Held, Bytes

LEMMA HostAsksKeeps ==
  ASSUME IInv, NEW p \in Commands, HostAsks(p)
  PROVE  /\ IInv' /\ Stream' = Stream \o Encode(p)
         /\ UNCHANGED <<rx_blob, rx_pos, pc, src_i, dest_i, stored, out>>
<1>1. /\ p \in Seq(Byte) /\ p # <<>> /\ Len(Encode(p)) <= RX_BUFFER_LENGTH + 1
      /\ RX_BUFFER_LENGTH \in Nat
  BY CodeTypes
<1> DEFINE E == Encode(p)
<1>2. E \in Seq(Byte) /\ Complete(E) /\ Fits(E, RX_BUFFER_LENGTH) /\ Regular(E)
  BY <1>1, EncodeType, EncodeFits
<1> HIDE DEF E
<1>3. /\ wire' = wire \o E
      /\ UNCHANGED <<rx, rx_blob, rx_pos, pc, src_i, dest_i, stored, out>>
  BY DEF HostAsks, decoder, E
<1>4. /\ TypeOK /\ PacketInBlob /\ Streaming /\ Decoding /\ Replying
  BY DEF IInv
<1>5. TypeOK'
  <2>1. wire' \in Seq(Byte)
    BY <1>2, <1>3, <1>4, ByteConcat DEF TypeOK
  <2>2. left' \in [asks : 0 .. MaxAsks, restarts : 0 .. MaxRestarts]
    <3>1. MaxAsks \in Nat /\ MaxRestarts \in Nat
      BY CodesAssumption
    <3>2. left \in [asks : 0 .. MaxAsks, restarts : 0 .. MaxRestarts]
      BY <1>4 DEF TypeOK
    <3>3. left.asks > 0 /\ left' = [left EXCEPT !.asks = @ - 1]
      BY DEF HostAsks
    <3> QED
      BY <3>1, <3>2, <3>3
  <2> QED
    BY <1>3, <1>4, <2>1, <2>2 DEF TypeOK
<1>6. Stream' = Stream \o E /\ Held' = Held
  <2>1. Held' = Held
    BY <1>3, HeldStays
  <2>2. Held \o rx \in Seq(Byte) /\ wire \in Seq(Byte)
    BY <1>4, StreamType DEF TypeOK
  <2> DEFINE a == Held \o rx
  <2>3. a \in Seq(Byte)
    BY <2>2
  <2>4. Stream = a \o wire /\ Stream' = a \o (wire \o E)
    BY <1>3, <2>1, Zenon DEF Stream
  <2> HIDE DEF a
  <2>5. (a \o wire) \o E = a \o (wire \o E)
    BY <1>2, <2>2, <2>3, ByteAssociative
  <2> QED
    BY <2>1, <2>4, <2>5, Zenon
<1>7. Streaming'
  <2>1. Stream \in Seq(Byte)
    BY <1>4, StreamType
  <2>2. Complete(Stream) /\ Fits(Stream, RX_BUFFER_LENGTH) /\ Regular(Stream)
    BY <1>4 DEF Streaming
  <2>3. Complete(Stream \o E) /\ Fits(Stream \o E, RX_BUFFER_LENGTH) /\ Regular(Stream \o E)
    BY <1>1, <1>2, <2>1, <2>2, CompleteConcat, FitsConcat, RegularConcat
  <2>4. pc' = "read" => NoEnd(Held')
    BY <1>3, <1>4, <1>6 DEF Streaming
  <2>5. Complete(Stream') /\ Fits(Stream', RX_BUFFER_LENGTH) /\ Regular(Stream')
    BY <1>6, <2>3, Zenon
  <2> QED
    BY <2>4, <2>5, Zenon DEF Streaming
<1>8. PacketInBlob' /\ Decoding' /\ Replying'
  BY <1>3, <1>4 DEF PacketInBlob, Decoding, Replying
<1> QED
  BY <1>3, <1>5, <1>6, <1>7, <1>8 DEF IInv, E

LEMMA HostRestartsKeeps ==
  ASSUME IInv, HostRestarts
  PROVE  /\ IInv' /\ out' = <<>>
         /\ UNCHANGED <<rx_blob, rx_pos, pc, src_i, dest_i, stored>>
         /\ \E m \in 0 .. Len(Stream) : Stream' = SubSeq(Stream, 1, m) \o <<END>>
<1>1. PICK n \in 0 .. Len(wire) :
        /\ left.restarts > 0
        /\ left' = [left EXCEPT !.restarts = @ - 1]
        /\ wire' = SubSeq(wire, 1, n) \o <<END>>
        /\ out' = <<>>
        /\ UNCHANGED <<rx, rx_blob, rx_pos, pc, src_i, dest_i, stored>>
  BY DEF HostRestarts, decoder
<1>2. TypeOK /\ PacketInBlob /\ Streaming /\ Decoding /\ Replying
  BY DEF IInv
<1>3. wire \in Seq(Byte) /\ SubSeq(wire, 1, n) \in Seq(Byte)
  BY <1>2, SplitAt DEF TypeOK
<1>4. TypeOK'
  <2>1. wire' \in Seq(Byte)
    BY <1>1, <1>3, EndByte, ByteConcat
  <2>2. left' \in [asks : 0 .. MaxAsks, restarts : 0 .. MaxRestarts]
    <3>1. MaxAsks \in Nat /\ MaxRestarts \in Nat
      BY CodesAssumption
    <3>2. left \in [asks : 0 .. MaxAsks, restarts : 0 .. MaxRestarts]
      BY <1>2 DEF TypeOK
    <3>3. left.restarts > 0 /\ left' = [left EXCEPT !.restarts = @ - 1]
      BY <1>1
    <3> QED
      BY <3>1, <3>2, <3>3
  <2>3. out' \in Seq(Byte)
    BY <1>1, EmptyStream
  <2> QED
    BY <1>1, <1>2, <2>1, <2>2, <2>3 DEF TypeOK
<1>5. Held' = Held
  BY <1>1, HeldStays
<1>6. PICK m \in 0 .. Len(Stream) : Stream' = SubSeq(Stream, 1, m) \o <<END>>
  <2> DEFINE a == Held \o rx
             b == SubSeq(wire, 1, n)
             e == <<END>>
  <2>1. a \in Seq(Byte) /\ b \in Seq(Byte) /\ e \in Seq(Byte)
    BY <1>2, <1>3, EndByte, StreamType
  <2>2. Stream = a \o wire /\ Stream' = a \o (b \o e)
    BY <1>1, <1>5, Zenon DEF Stream
  <2> HIDE DEF a
  <2>3. /\ Len(a) + n \in 0 .. Len(a \o wire)
        /\ SubSeq(a \o wire, 1, Len(a) + n) = a \o b
    BY <1>3, <2>1, PrefixOfConcat
  <2> HIDE DEF b, e
  <2>4. (a \o b) \o e = a \o (b \o e)
    BY <2>1, ByteAssociative
  <2>5. Len(a) + n \in 0 .. Len(Stream) /\ Stream' = SubSeq(Stream, 1, Len(a) + n) \o e
    BY <2>2, <2>3, <2>4, Zenon
  <2> QED
    BY <2>5, Zenon DEF e
<1>7. Streaming'
  <2>1. Stream \in Seq(Byte) /\ RX_BUFFER_LENGTH \in Nat \ {0}
    BY <1>2, StreamType, CodeTypes
  <2>2. Fits(Stream, RX_BUFFER_LENGTH) /\ Regular(Stream)
    BY <1>2 DEF Streaming
  <2> DEFINE s == SubSeq(Stream, 1, m) \o <<END>>
  <2>3. Complete(s) /\ Fits(s, RX_BUFFER_LENGTH) /\ Regular(s)
    BY <2>1, <2>2, StoppedStream
  <2>4. pc' = "read" => NoEnd(Held')
    BY <1>1, <1>2, <1>5 DEF Streaming
  <2> HIDE DEF s
  <2>5. Stream' = s
    BY <1>6 DEF s
  <2>6. Complete(Stream') /\ Fits(Stream', RX_BUFFER_LENGTH) /\ Regular(Stream')
    BY <2>3, <2>5, Zenon
  <2> QED
    BY <2>4, <2>6, Zenon DEF Streaming
<1>8. PacketInBlob' /\ Decoding'
  BY <1>1, <1>2 DEF PacketInBlob, Decoding
<1>9. Replying'
  BY <1>1, <1>2, EmptyStream DEF Replying
<1> QED
  BY <1>1, <1>4, <1>6, <1>7, <1>8, <1>9 DEF IInv

LEMMA HostHearsKeeps ==
  ASSUME IInv, HostHears
  PROVE  /\ IInv'
         /\ Frames[out] \in Seq(Request) /\ Frames[out] # <<>> /\ Frames[out'] = Tail(Frames[out])
         /\ Stream' = Stream /\ UNCHANGED <<rx_blob, rx_pos, pc, src_i, dest_i, stored>>
<1>1. /\ out # <<>> /\ out' = SubSeq(out, FirstEnd(out) + 1, Len(out))
      /\ UNCHANGED <<wire, rx, rx_blob, rx_pos, pc, src_i, dest_i, stored, left>>
  BY Zenon DEF HostHears, FirstEnd, decoder
<1>2. TypeOK /\ PacketInBlob /\ Streaming /\ Decoding /\ Replying
  BY DEF IInv
<1>3. out \in Seq(Byte) /\ Complete(out) /\ Tidy(out)
  BY <1>2 DEF TypeOK, Replying
<1>4. /\ out' \in Seq(Byte) /\ Complete(out') /\ Tidy(out')
      /\ Frames[out] \in Seq(Request) /\ Frames[out] # <<>> /\ Frames[out'] = Tail(Frames[out])
  BY <1>1, <1>3, Heard
<1>5. TypeOK'
  BY <1>1, <1>2, <1>4 DEF TypeOK
<1>6. Held' = Held /\ Stream' = Stream
  <2>1. Held' = Held
    BY <1>1, HeldStays
  <2> QED
    BY <1>1, <2>1 DEF Stream
<1>7. PacketInBlob' /\ Decoding' /\ Replying'
  BY <1>1, <1>2, <1>4 DEF PacketInBlob, Decoding, Replying
<1>8. Streaming'
  BY <1>1, <1>2, <1>6, Zenon DEF Streaming
<1> QED
  BY <1>1, <1>4, <1>5, <1>6, <1>7, <1>8 DEF IInv

-----------------------------------------------------------------------------
(* The receive callback.                                                   *)
LEMMA ArriveKeeps ==
  ASSUME IInv, Arrive
  PROVE  /\ IInv' /\ Stream' = Stream
         /\ UNCHANGED <<rx_blob, rx_pos, pc, src_i, dest_i, stored, out>> /\ pc = "read"
<1>1. PICK n \in 1 .. Len(wire) :
        /\ pc = "read" /\ rx = <<>>
        /\ rx' = SubSeq(wire, 1, n) /\ wire' = SubSeq(wire, n + 1, Len(wire))
        /\ UNCHANGED <<rx_blob, rx_pos, pc, src_i, dest_i, stored, out, left>>
  BY DEF Arrive, decoder
<1>2. TypeOK /\ PacketInBlob /\ Streaming /\ Decoding /\ Replying
  BY DEF IInv
<1>3. wire \in Seq(Byte) /\ n \in 0 .. Len(wire)
  BY <1>2 DEF TypeOK
<1>4. rx' \in Seq(Byte) /\ wire' \in Seq(Byte) /\ wire = rx' \o wire'
  BY <1>1, <1>3, SplitAt, Zenon
<1>5. TypeOK'
  BY <1>1, <1>2, <1>4 DEF TypeOK
<1>6. Held' = Held
  BY <1>1, HeldStays
<1>7. Stream' = Stream
  <2>1. Held \in Seq(Byte)
    BY <1>2, StreamType
  <2>2. Stream = Held \o <<>> \o wire
    BY <1>1 DEF Stream
  <2>3. Held \o <<>> = Held
    BY <2>1, EmptyStream
  <2>4. Stream = Held \o (rx' \o wire')
    BY <1>4, <2>2, <2>3, Zenon
  <2>5. (Held \o rx') \o wire' = Held \o (rx' \o wire')
    BY <1>4, <2>1, ByteAssociative
  <2>6. Stream' = Held \o rx' \o wire'
    BY <1>6, Zenon DEF Stream
  <2> QED
    BY <2>4, <2>5, <2>6, Zenon
<1>8. PacketInBlob' /\ Decoding' /\ Replying'
  BY <1>1, <1>2 DEF PacketInBlob, Decoding, Replying
<1>9. Streaming'
  BY <1>1, <1>2, <1>6, <1>7, Zenon DEF Streaming
<1> QED
  BY <1>1, <1>5, <1>7, <1>8, <1>9 DEF IInv

LEMMA ReadByteKeeps ==
  ASSUME IInv, ReadByte
  PROVE  IInv' /\ Stream' = Stream /\ UNCHANGED <<pc, src_i, dest_i, stored, out>> /\ pc = "read"
<1> DEFINE h == Head(rx)
           t == Tail(rx)
           b == <<h>>
           g == Held \o b
<1>1. /\ pc = "read" /\ rx # <<>> /\ h # END
      /\ rx' = t /\ rx_pos' = rx_pos + 1
      /\ rx_blob' = [i \in Blob |-> IF i = rx_pos THEN h ELSE rx_blob[i]]
      /\ UNCHANGED <<pc, src_i, dest_i, stored, wire, out, left>>
  BY DEF ReadByte, decoder, host
<1>2. TypeOK /\ PacketInBlob /\ Streaming /\ Decoding /\ Replying
  BY DEF IInv
<1>3. /\ Held \in Seq(Byte) /\ Len(Held) = rx_pos /\ rx \in Seq(Byte) /\ wire \in Seq(Byte)
      /\ rx_pos \in 0 .. RX_BUFFER_LENGTH /\ rx_blob \in [Blob -> Byte]
      /\ RX_BUFFER_LENGTH \in Nat \ {0}
  BY <1>1, <1>2, StreamType, CodeTypes DEF TypeOK, PacketInBlob
<1>4. /\ h \in Byte /\ t \in Seq(Byte) /\ t \o wire \in Seq(Byte) /\ g \in Seq(Byte)
      /\ Stream = g \o t \o wire /\ Stream = g \o (t \o wire)
  <2>1. h \in Byte /\ t \in Seq(Byte) /\ t \o wire \in Seq(Byte) /\ g \in Seq(Byte)
    BY <1>1, <1>3, MoveByte, SMTT(60)
  <2>2. Held \o rx \o wire = (Held \o <<Head(rx)>>) \o Tail(rx) \o wire
    BY <1>1, <1>3, MoveByte, SMTT(60)
  <2>3. Held \o rx \o wire = (Held \o <<Head(rx)>>) \o (Tail(rx) \o wire)
    BY <1>1, <1>3, MoveByte, SMTT(60)
  <2> QED
    BY <2>1, <2>2, <2>3, Zenon DEF Stream
<1>5. /\ Len(g) = rx_pos + 1 /\ g[rx_pos + 1] = h
      /\ \A i \in 1 .. rx_pos : g[i] = Held[i]
  <2>1. b \in Seq(Byte) /\ Len(b) = 1 /\ b[1] = h
    BY <1>4
  <2> HIDE DEF b
  <2>2. /\ Len(g) = Len(Held) + Len(b)
        /\ \A i \in 1 .. Len(Held) : g[i] = Held[i]
        /\ \A i \in 1 .. Len(b) : g[Len(Held) + i] = b[i]
    BY <1>3, <2>1, ByteConcat
  <2> HIDE DEF g
  <2> QED
    BY <1>3, <2>1, <2>2
<1> HIDE DEF g, b
<1>6. NoEnd(g)
  <2>1. NoEnd(Held)
    BY <1>1, <1>2 DEF Streaming
  <2> QED
    BY <1>1, <1>3, <1>5, <2>1 DEF NoEnd
<1>7. rx_pos + 1 <= RX_BUFFER_LENGTH
  <2>1. Fits(g \o (t \o wire), RX_BUFFER_LENGTH)
    BY <1>2, <1>4, Zenon DEF Streaming
  <2>2. Len(g) <= RX_BUFFER_LENGTH
    BY <1>3, <1>4, <1>6, <2>1, FitsNoEnd
  <2> QED
    BY <1>5, <2>2
<1>8. rx_blob' \in [Blob -> Byte] /\ rx_pos' \in 0 .. RX_BUFFER_LENGTH /\ rx_pos \in Blob
  BY <1>1, <1>3, <1>4, <1>7 DEF Blob
<1>9. Held' = g
  <2> DEFINE d == Held'
  <2>1. d = Part(rx_blob', 0, rx_pos')
    BY <1>1 DEF Held, Bytes, Part
  <2>2. Held = Part(rx_blob, 0, rx_pos)
    BY <1>1 DEF Held, Bytes, Part
  <2> HIDE DEF d
  <2>3. /\ d \in Seq(Byte) /\ Len(d) = IF 0 <= rx_pos' THEN rx_pos' - 0 ELSE 0
        /\ \A i \in 1 .. rx_pos' - 0 : d[i] = rx_blob'[0 + i - 1]
    BY <1>8, <2>1, BytesType
  <2>4. \A i \in 1 .. rx_pos - 0 : Held[i] = rx_blob[0 + i - 1]
    <3>1. \A i \in 1 .. rx_pos - 0 : Part(rx_blob, 0, rx_pos)[i] = rx_blob[0 + i - 1]
      BY <1>3, BytesType
    <3> QED
      BY <2>2, <3>1, Zenon
  <2>5. Len(d) = rx_pos + 1
    BY <1>1, <1>3, <2>3
  <2>6. ASSUME NEW i \in 1 .. rx_pos + 1 PROVE d[i] = g[i]
    <3>1. d[i] = rx_blob'[i - 1] /\ i - 1 \in Blob
      <4>1. i \in 1 .. rx_pos' - 0 /\ 0 + i - 1 = i - 1 /\ i - 1 \in 0 .. RX_BUFFER_LENGTH - 1
        BY <1>1, <1>3, <1>7
      <4>2. d[i] = rx_blob'[0 + i - 1]
        BY <2>3, <4>1
      <4> QED
        BY <4>1, <4>2 DEF Blob
    <3>2. CASE i = rx_pos + 1
      <4>1. i - 1 = rx_pos
        BY <1>3, <3>2
      <4> QED
        BY <1>1, <1>5, <3>1, <3>2, <4>1
    <3>3. CASE i # rx_pos + 1
      <4>1. i \in 1 .. rx_pos /\ i - 1 # rx_pos
        BY <1>3, <3>3
      <4>2. Held[i] = rx_blob[i - 1]
        BY <1>3, <2>4, <4>1
      <4>3. rx_blob'[i - 1] = rx_blob[i - 1]
        BY <1>1, <3>1, <4>1
      <4> QED
        BY <1>5, <3>1, <4>1, <4>2, <4>3
    <3> QED
      BY <3>2, <3>3
  <2>7. d = g
    <3>1. \A i \in 1 .. Len(d) : d[i] = g[i]
      BY <2>5, <2>6
    <3> QED
      BY <1>4, <1>5, <2>3, <2>5, <3>1, SeqEqual
  <2> QED
    BY <2>7 DEF d
<1>10. Stream' = Stream
  BY <1>1, <1>4, <1>9, Zenon DEF Stream
<1>11. TypeOK'
  <2>1. src_i' \in 0 .. rx_pos' + 1 /\ dest_i' \in 0 .. src_i'
    BY <1>1, <1>2, <1>3 DEF TypeOK, Decoding
  <2> QED
    BY <1>1, <1>2, <1>4, <1>8, <2>1 DEF TypeOK
<1>12. PacketInBlob'
  BY <1>8 DEF PacketInBlob
<1>13. Decoding' /\ Replying'
  BY <1>1, <1>2, <1>3 DEF Decoding, Replying
<1>14. Streaming'
  BY <1>2, <1>6, <1>9, <1>10, Zenon DEF Streaming
<1> QED
  BY <1>1, <1>10, <1>11, <1>12, <1>13, <1>14 DEF IInv

LEMMA ReadEndKeeps ==
  ASSUME IInv, ReadEnd
  PROVE  /\ IInv'
         /\ Held \in Seq(Byte) /\ NoEnd(Held) /\ Stream = Held \o <<END>> \o (rx' \o wire')
         /\ Stream' = rx' \o wire' /\ Stream' \in Seq(Byte)
         /\ pc = "read" /\ pc' = "decode" /\ src_i' = 0 /\ dest_i' = 0
         /\ UNCHANGED <<rx_blob, rx_pos, stored, out>>
<1> DEFINE t == Tail(rx)
<1>1. /\ pc = "read" /\ rx # <<>> /\ Head(rx) = END
      /\ rx' = t /\ pc' = "decode" /\ src_i' = 0 /\ dest_i' = 0
      /\ UNCHANGED <<rx_blob, rx_pos, stored, wire, out, left>>
  BY DEF ReadEnd, host
<1>2. TypeOK /\ PacketInBlob /\ Streaming /\ Decoding /\ Replying
  BY DEF IInv
<1>3. /\ Held \in Seq(Byte) /\ Len(Held) = rx_pos /\ rx \in Seq(Byte) /\ wire \in Seq(Byte)
      /\ rx_pos \in 0 .. RX_BUFFER_LENGTH /\ rx_blob \in [Blob -> Byte] /\ NoEnd(Held)
      /\ RX_BUFFER_LENGTH \in Nat
  BY <1>1, <1>2, StreamType, CodeTypes DEF TypeOK, PacketInBlob, Streaming
<1>4. /\ t \in Seq(Byte) /\ t \o wire \in Seq(Byte)
      /\ Stream = Held \o <<END>> \o (t \o wire)
  <2>1. /\ t \in Seq(Byte) /\ t \o wire \in Seq(Byte)
        /\ Held \o rx \o wire = (Held \o <<Head(rx)>>) \o (t \o wire)
    <3>1. Held \in Seq(Byte) /\ rx \in Seq(Byte) /\ rx # <<>> /\ wire \in Seq(Byte)
      BY <1>1, <1>3
    <3> HIDE DEF t
    <3>2. PICK h \in Seq(Byte), r \in Seq(Byte), w \in Seq(Byte) :
            h = Held /\ r = rx /\ w = wire
      BY <3>1, Zenon
    <3>3. r # <<>>
      BY <3>1, <3>2, Zenon
    <3>4. Tail(r) \in Seq(Byte) /\ Tail(r) \o w \in Seq(Byte)
      BY <3>3, MoveByte
    <3>5. h \o r \o w = (h \o <<Head(r)>>) \o (Tail(r) \o w)
      BY <3>3, MoveByte, SMTT(60)
    <3> QED
      BY <3>2, <3>4, <3>5, Zenon DEF t
  <2> QED
    BY <1>1, <2>1, Zenon DEF Stream
<1>5. Held' = <<>>
  BY <1>1 DEF Held
<1> HIDE DEF t
<1>6. Stream' = t \o wire
  <2>1. <<>> \o t = t
    BY <1>4, EmptyStream
  <2>2. Stream' = <<>> \o t \o wire
    BY <1>1, <1>5, Zenon DEF Stream
  <2> QED
    BY <2>1, <2>2, Zenon
<1>7. Streaming'
  <2> DEFINE r == t \o wire
             s == Held \o <<END>> \o r
  <2>1. Complete(s) /\ Fits(s, RX_BUFFER_LENGTH) /\ Regular(s)
    BY <1>2, <1>4, Zenon DEF Streaming
  <2>2. r \in Seq(Byte)
    BY <1>4
  <2>4. Stream' = r
    BY <1>6
  <2> HIDE DEF r
  <2>3. Complete(r) /\ Fits(r, RX_BUFFER_LENGTH) /\ Regular(r)
    BY <1>3, <2>1, <2>2, CutComplete, CutFits, CutRegular
  <2>5. Complete(Stream') /\ Fits(Stream', RX_BUFFER_LENGTH) /\ Regular(Stream')
    BY <2>3, <2>4, Zenon
  <2>6. pc' # "read"
    BY <1>1
  <2> QED
    BY <2>5, <2>6, Zenon DEF Streaming
<1>8. \A i \in 0 .. rx_pos - 2 : rx_blob[i] = ESC => rx_blob[i + 1] \in {ESC_END, ESC_ESC}
  <2>1. RegularPacket(Held)
    BY <1>2, <1>3, <1>4, CutRegular, Zenon DEF Streaming
  <2>2. \A i \in 1 .. rx_pos - 0 : Held[i] = rx_blob[0 + i - 1]
    <3>1. Held = Part(rx_blob, 0, rx_pos)
      BY <1>1 DEF Held, Bytes, Part
    <3> QED
      <4>1. \A i \in 1 .. rx_pos - 0 : Part(rx_blob, 0, rx_pos)[i] = rx_blob[0 + i - 1]
        BY <1>3, BytesType
      <4> QED
        BY <3>1, <4>1, Zenon
  <2> SUFFICES ASSUME NEW i \in 0 .. rx_pos - 2, rx_blob[i] = ESC
               PROVE  rx_blob[i + 1] \in {ESC_END, ESC_ESC}
    OBVIOUS
  <2>3. PICK j \in 1 .. rx_pos : j = i + 1 /\ j # Len(Held)
    BY <1>3
  <2>4. Held[j] = rx_blob[i]
    BY <1>3, <2>2, <2>3
  <2>5. Held[j + 1] \in {ESC_END, ESC_ESC}
    BY <1>3, <2>1, <2>3, <2>4 DEF RegularPacket
  <2>6. PICK k \in 1 .. rx_pos : k = j + 1
    BY <1>3, <2>3
  <2>7. Held[k] = rx_blob[i + 1]
    BY <1>3, <2>2, <2>3, <2>6
  <2> QED
    BY <2>5, <2>6, <2>7
<1>9. Decoding'
  BY <1>1, <1>3, <1>8 DEF Decoding
<1>10. TypeOK'
  BY <1>1, <1>2, <1>3, <1>4 DEF TypeOK
<1>11. PacketInBlob' /\ Replying'
  BY <1>1, <1>2 DEF PacketInBlob, Replying
<1> QED
  BY <1>1, <1>3, <1>4, <1>6, <1>7, <1>9, <1>10, <1>11 DEF IInv

-----------------------------------------------------------------------------
(* The decoder.                                                            *)

(* A byte that means itself, one that was escaped, or an escape that       *)
(* nothing follows, of which the memory behind it makes something.         *)
Plainly(bytes) ==
  rx_blob[src_i] # ESC /\ bytes = <<rx_blob[src_i]>> /\ src_i' = src_i + 1
Escapedly(bytes) ==
  /\ rx_blob[src_i] = ESC /\ src_i + 1 < rx_pos /\ src_i' = src_i + 2
  /\ rx_blob[src_i + 1] \in {ESC_END, ESC_ESC}
  /\ bytes = Meaning(rx_blob[src_i + 1])
Danglingly(bytes) ==
  /\ rx_blob[src_i] = ESC /\ src_i + 1 = rx_pos /\ src_i' = src_i + 2
  /\ bytes \in {<<>>, <<END>>, <<ESC>>}

LEMMA DecodeCases ==
  ASSUME IInv, DecodeByte
  PROVE  \E bytes \in {<<>>} \cup {<<x>> : x \in Byte} :
           /\ Store(bytes)
           /\ Plainly(bytes) \/ Escapedly(bytes) \/ Danglingly(bytes)
<1>1. /\ pc = "decode" /\ src_i < rx_pos
      /\ \E b \in Fetch(src_i) :
           \/ /\ b = ESC
              /\ \E c \in Fetch(src_i + 1) : Store(Meaning(c))
              /\ src_i' = src_i + 2
           \/ /\ b # ESC
              /\ Store(<<b>>)
              /\ src_i' = src_i + 1
  BY Zenon DEF DecodeByte, AfterEscape
<1>2. TypeOK /\ PacketInBlob /\ Decoding
  BY DEF IInv
<1>3. /\ src_i \in Nat /\ rx_pos \in 0 .. RX_BUFFER_LENGTH /\ RX_BUFFER_LENGTH \in Nat
      /\ rx_blob \in [Blob -> Byte]
  BY <1>2, CodeTypes DEF TypeOK, PacketInBlob
<1>4. src_i \in Blob /\ rx_blob[src_i] \in Byte
  BY <1>1, <1>3 DEF Blob
<1>5. \/ /\ rx_blob[src_i] = ESC
         /\ \E c \in Fetch(src_i + 1) : Store(Meaning(c))
         /\ src_i' = src_i + 2
      \/ /\ rx_blob[src_i] # ESC
         /\ Store(<<rx_blob[src_i]>>)
         /\ src_i' = src_i + 1
  <2>1. Fetch(src_i) = {rx_blob[src_i]}
    BY <1>4 DEF Fetch
  <2> QED
    BY <1>1, <2>1, Zenon
<1>6. CASE rx_blob[src_i] # ESC
  <2>1. Plainly(<<rx_blob[src_i]>>) /\ Store(<<rx_blob[src_i]>>)
    BY <1>5, <1>6 DEF Plainly
  <2>2. <<rx_blob[src_i]>> \in {<<x>> : x \in Byte}
    BY <1>4, Zenon
  <2> QED
    BY <2>1, <2>2, Zenon
<1>7. CASE rx_blob[src_i] = ESC
  <2>1. PICK c \in Fetch(src_i + 1) : Store(Meaning(c)) /\ src_i' = src_i + 2
    BY <1>5, <1>7
  <2>2. Meaning(c) \in {<<>>, <<END>>, <<ESC>>}
    BY DEF Meaning
  <2>3. Meaning(c) \in {<<>>} \cup {<<x>> : x \in Byte}
    BY <2>2, Specials
  <2>4. CASE src_i + 1 = rx_pos
    BY <1>7, <2>1, <2>2, <2>3, <2>4, Zenon DEF Danglingly
  <2>5. CASE src_i + 1 # rx_pos
    <3>1. src_i + 1 < rx_pos /\ src_i + 1 \in Blob /\ src_i \in src_i .. rx_pos - 2
      BY <1>1, <1>3, <2>5 DEF Blob
    <3>2. c = rx_blob[src_i + 1]
      BY <2>1, <3>1 DEF Fetch
    <3>3. rx_blob[src_i + 1] \in {ESC_END, ESC_ESC}
      BY <1>1, <1>2, <1>7, <3>1 DEF Decoding
    <3>4. Escapedly(Meaning(c))
      BY <1>7, <2>1, <3>1, <3>2, <3>3, Zenon DEF Escapedly
    <3> QED
      BY <2>1, <2>3, <3>4, Zenon
  <2> QED
    BY <2>4, <2>5
<1> QED
  BY <1>6, <1>7

LEMMA StoreKeeps ==
  ASSUME TypeOK, PacketInBlob, NEW bytes \in {<<>>} \cup {<<x>> : x \in Byte}, Store(bytes)
  PROVE  /\ rx_blob' \in [Blob -> Byte]
         /\ \A i \in Blob : i # dest_i => rx_blob'[i] = rx_blob[i]
         /\ bytes = <<>> => dest_i' = dest_i
         /\ \A x : bytes = <<x>> =>
              dest_i' = dest_i + 1 /\ (dest_i \in Blob => rx_blob'[dest_i] = x)
<1>1. /\ rx_blob' = [i \in Blob |-> IF i = dest_i /\ bytes # <<>> THEN bytes[1] ELSE rx_blob[i]]
      /\ dest_i' = dest_i + Len(bytes)
  BY DEF Store
<1>2. rx_blob \in [Blob -> Byte] /\ dest_i \in Nat
  BY DEF TypeOK
<1>3. CASE bytes = <<>>
  <2>1. rx_blob' = [i \in Blob |-> rx_blob[i]] /\ dest_i' = dest_i
    BY <1>1, <1>2, <1>3
  <2>2. \A x : bytes # <<x>>
    BY <1>3
  <2> QED
    BY <1>2, <2>1, <2>2
<1>4. ASSUME NEW x \in Byte, bytes = <<x>>
      PROVE  /\ rx_blob' \in [Blob -> Byte]
             /\ \A i \in Blob : i # dest_i => rx_blob'[i] = rx_blob[i]
             /\ dest_i' = dest_i + 1 /\ (dest_i \in Blob => rx_blob'[dest_i] = x)
             /\ bytes # <<>> /\ \A y : bytes = <<y>> => y = x
  BY <1>1, <1>2, <1>4
<1> QED
  BY <1>3, <1>4

LEMMA DecodeByteKeeps ==
  ASSUME IInv, DecodeByte
  PROVE  /\ IInv' /\ Stream' = rx \o wire /\ Stream = rx \o wire
         /\ UNCHANGED <<rx, wire, rx_pos, pc, stored, out>> /\ pc = "decode"
<1>1. /\ pc = "decode" /\ src_i < rx_pos
      /\ UNCHANGED <<rx, rx_pos, pc, stored, wire, out, left>>
  BY DEF DecodeByte, host
<1>2. TypeOK /\ PacketInBlob /\ Streaming /\ Decoding /\ Replying
  BY DEF IInv
<1>3. /\ src_i \in Nat /\ dest_i \in 0 .. src_i /\ rx_pos \in 0 .. RX_BUFFER_LENGTH
      /\ RX_BUFFER_LENGTH \in Nat /\ rx_blob \in [Blob -> Byte]
      /\ rx \in Seq(Byte) /\ wire \in Seq(Byte)
  BY <1>2, CodeTypes DEF TypeOK, PacketInBlob
<1>4. PICK bytes \in {<<>>} \cup {<<x>> : x \in Byte} :
        /\ Store(bytes)
        /\ Plainly(bytes) \/ Escapedly(bytes) \/ Danglingly(bytes)
  BY DecodeCases
<1>5. /\ rx_blob' \in [Blob -> Byte]
      /\ \A i \in Blob : i # dest_i => rx_blob'[i] = rx_blob[i]
      /\ dest_i' \in {dest_i, dest_i + 1}
  <2>1. /\ rx_blob' \in [Blob -> Byte]
        /\ \A i \in Blob : i # dest_i => rx_blob'[i] = rx_blob[i]
        /\ bytes = <<>> => dest_i' = dest_i
        /\ \A x : bytes = <<x>> => dest_i' = dest_i + 1
    BY <1>2, <1>4, StoreKeeps, Zenon
  <2> QED
    BY <2>1
<1>6. src_i' \in {src_i + 1, src_i + 2}
  BY <1>4 DEF Plainly, Escapedly, Danglingly
<1>7. Held' = <<>> /\ Held = <<>> /\ Stream' = rx \o wire /\ Stream = rx \o wire
  <2>1. Held' = <<>> /\ Held = <<>>
    BY <1>1 DEF Held
  <2>2. <<>> \o rx = rx
    BY <1>3, EmptyStream
  <2>3. Stream = <<>> \o rx \o wire /\ Stream' = <<>> \o rx \o wire
    BY <1>1, <2>1, Zenon DEF Stream
  <2> QED
    BY <2>1, <2>2, <2>3, Zenon
<1>8. Streaming'
  BY <1>1, <1>2, <1>7, Zenon DEF Streaming
<1>9. TypeOK'
  <2>1. src_i' \in 0 .. rx_pos' + 1 /\ dest_i' \in 0 .. src_i'
    BY <1>1, <1>3, <1>5, <1>6
  <2> QED
    BY <1>1, <1>2, <1>5, <2>1 DEF TypeOK
<1>10. Decoding'
  <2>1. dest_i' <= rx_pos'
    BY <1>1, <1>3, <1>5
  <2>2. \A i \in src_i' .. rx_pos' - 2 : rx_blob'[i] = ESC => rx_blob'[i + 1] \in {ESC_END, ESC_ESC}
    <3> SUFFICES ASSUME NEW i \in src_i' .. rx_pos' - 2, rx_blob'[i] = ESC
                 PROVE  rx_blob'[i + 1] \in {ESC_END, ESC_ESC}
      OBVIOUS
    <3>1. /\ i \in Blob /\ i + 1 \in Blob /\ i # dest_i /\ i + 1 # dest_i
          /\ i \in src_i .. rx_pos - 2
      BY <1>1, <1>3, <1>6 DEF Blob
    <3>2. rx_blob'[i] = rx_blob[i] /\ rx_blob'[i + 1] = rx_blob[i + 1]
      BY <1>5, <3>1
    <3> QED
      BY <1>1, <1>2, <3>1, <3>2 DEF Decoding
  <2> QED
    BY <1>1, <2>1, <2>2 DEF Decoding
<1>11. PacketInBlob' /\ Replying'
  BY <1>1, <1>2 DEF PacketInBlob, Replying
<1> QED
  BY <1>1, <1>7, <1>8, <1>9, <1>10, <1>11 DEF IInv

(* There is nothing of a packet in the buffer when reading begins.         *)
LEMMA NothingHeld ==
  /\ rx_pos = 0 \/ pc # "read" => Held = <<>>
  /\ rx_pos' = 0 \/ pc' # "read" => Held' = <<>>
<1>1. ASSUME NEW blob PROVE [i \in 1 .. 0 - 0 |-> blob[0 + i - 1]] = <<>>
  OBVIOUS
<1> QED
  BY <1>1 DEF Held, Bytes

LEMMA DecodeEndKeeps ==
  ASSUME IInv, DecodeEnd
  PROVE  /\ IInv' /\ Stream' = rx \o wire /\ Stream = rx \o wire
         /\ UNCHANGED <<rx, wire, rx_blob, stored, out>> /\ pc = "decode"
         /\ rx_pos' = dest_i /\ pc' = IF dest_i > 0 THEN "process" ELSE "read"
         /\ src_i >= rx_pos
<1>1. /\ pc = "decode" /\ rx_pos' = dest_i /\ pc' = (IF dest_i > 0 THEN "process" ELSE "read")
      /\ src_i' = 0 /\ dest_i' = 0 /\ src_i >= rx_pos
      /\ UNCHANGED <<rx, rx_blob, stored, wire, out, left>>
  BY DEF DecodeEnd, DecodedLength, host
<1>2. TypeOK /\ PacketInBlob /\ Streaming /\ Decoding /\ Replying
  BY DEF IInv
<1>3. /\ dest_i \in Nat /\ dest_i <= rx_pos /\ rx_pos <= RX_BUFFER_LENGTH
      /\ rx_pos \in Nat /\ RX_BUFFER_LENGTH \in Nat
      /\ rx \in Seq(Byte) /\ wire \in Seq(Byte)
  BY <1>2, CodeTypes DEF TypeOK, PacketInBlob, Decoding
<1>4. Held' = <<>> /\ Held = <<>>
  BY <1>1, <1>3, NothingHeld
<1>5. Stream' = rx \o wire /\ Stream = rx \o wire
  <2>2. <<>> \o rx = rx
    BY <1>3, EmptyStream
  <2>3. Stream = <<>> \o rx \o wire /\ Stream' = <<>> \o rx \o wire
    BY <1>1, <1>4, Zenon DEF Stream
  <2> QED
    BY <2>2, <2>3, Zenon
<1>6. Streaming'
  <2>1. NoEnd(Held')
    BY <1>4, EmptyStream
  <2> QED
    BY <1>2, <1>5, <2>1, Zenon DEF Streaming
<1>7. TypeOK' /\ PacketInBlob' /\ Decoding' /\ Replying'
  BY <1>1, <1>2, <1>3 DEF TypeOK, PacketInBlob, Decoding, Replying
<1> QED
  BY <1>1, <1>5, <1>6, <1>7 DEF IInv

-----------------------------------------------------------------------------
(* Commands.                                                               *)
LEMMA ReplySent ==
  ASSUME NEW s \in Seq(Byte), Complete(s), Tidy(s), NEW r \in Seq(Byte), r # <<>>
  PROVE  /\ s \o Encode(r) \in Seq(Byte) /\ Complete(s \o Encode(r)) /\ Tidy(s \o Encode(r))
         /\ Frames[s \o Encode(r)] = Frames[s] \o <<r>>
<1> DEFINE E == Encode(r)
<1>1. E \in Seq(Byte) /\ Complete(E) /\ Tidy(E) /\ Frames[E] = Packet(r)
  BY EncodeType, EncodeFits
<1> HIDE DEF E
<1>2. s \o E \in Seq(Byte) /\ Complete(s \o E) /\ Tidy(s \o E)
  BY <1>1, ByteConcat, CompleteConcat, TidyConcat
<1>3. Frames[s \o E] = Frames[s] \o Frames[E]
  BY <1>1, FramesConcat
<1>4. Packet(r) = <<r>>
  BY DEF Packet
<1> QED
  BY <1>1, <1>2, <1>3, <1>4, Zenon DEF E

LEMMA ArgumentsType ==
  ASSUME IInv, pc = "process", Code \in Writes, LengthOk
  PROVE  /\ Arguments \in Seq(Byte) /\ Len(Arguments) = DataLength(Code)
         /\ DataLength(Code) \in 0 .. rx_pos - 1
         /\ \A i \in 1 .. DataLength(Code) : Arguments[i] = rx_blob[i]
<1>1. /\ rx_pos \in 0 .. RX_BUFFER_LENGTH /\ RX_BUFFER_LENGTH \in Nat /\ rx_blob \in [Blob -> Byte]
      /\ DataLength(Code) \in Nat
  BY CodeTypes DEF IInv, TypeOK, PacketInBlob
<1>2. DataLength(Code) <= rx_pos - 1
  <2>1. DOMAIN Exact \cap DOMAIN AtLeast = {}
    BY CodesAssumption
  <2>2. CASE Code \in DOMAIN Exact
    <3>1. DataLength(Code) = Exact[Code] /\ rx_pos - 1 = Exact[Code]
      BY <2>1, <2>2 DEF DataLength, LengthOk
    <3> QED
      BY <1>1, <3>1
  <2>3. CASE Code \notin DOMAIN Exact
    <3>1. DataLength(Code) = AtLeast[Code] /\ rx_pos >= AtLeast[Code] + 1
      BY <2>3 DEF DataLength, LengthOk
    <3> QED
      BY <1>1, <3>1
  <2> QED
    BY <2>2, <2>3
<1> DEFINE n == DataLength(Code)
           a == Arguments
<1>3. a = [i \in 1 .. n |-> rx_blob[i]]
  BY DEF Arguments
<1>4. n \in Nat /\ n <= rx_pos - 1
  BY <1>1, <1>2
<1> HIDE DEF n, a
<1>5. \A i \in 1 .. n : rx_blob[i] \in Byte
  BY <1>1, <1>4 DEF Blob
<1>6. a \in [1 .. n -> Byte] /\ \A i \in 1 .. n : a[i] = rx_blob[i]
  BY <1>3, <1>5
<1>7. a \in Seq(Byte) /\ Len(a) = n
  BY <1>4, <1>6, FunctionSeq
<1> QED
  BY <1>1, <1>4, <1>6, <1>7 DEF n, a

(* The reply to what is in the buffer, and the data it leaves stored.      *)
Answered(r) ==
  \/ Code \in DOMAIN Queries /\ r = stored[Queries[Code]] /\ UNCHANGED stored
  \/ /\ Code \notin DOMAIN Queries /\ Code \in Writes /\ LengthOk /\ r = <<ACK>>
     /\ stored' = [stored EXCEPT ![Code] = Arguments]
  \/ Code \notin DOMAIN Queries /\ ~LengthOk /\ r = <<NACK>> /\ UNCHANGED stored

LEMMA ProcessCases ==
  ASSUME IInv, Process
  PROVE  \E r \in Seq(Byte) : r # <<>> /\ out' = out \o Encode(r) /\ Answered(r)
<1>1. pc = "process" /\ (Query \/ Write \/ Refuse)
  BY DEF Process
<1>2. DOMAIN Queries \cap Writes = {} /\ Queries \in [DOMAIN Queries -> Writes]
  BY CodesAssumption
<1>3. stored \in [Writes -> Seq(Byte)] /\ \A c \in Writes : Len(stored[c]) = DataLength(c)
  BY DEF IInv, TypeOK, Replying
<1>4. <<ACK>> \in Seq(Byte) /\ <<ACK>> # <<>> /\ <<NACK>> \in Seq(Byte) /\ <<NACK>> # <<>>
  BY CodeTypes
<1>5. CASE Query
  <2>1. /\ Code \in DOMAIN Queries /\ out' = out \o Encode(stored[Queries[Code]])
        /\ UNCHANGED stored
    BY <1>5 DEF Query
  <2>2. Queries[Code] \in Writes /\ DataLength(Queries[Code]) > 0
    BY <1>2, <2>1, CodesAssumption
  <2>3. stored[Queries[Code]] \in Seq(Byte) /\ Len(stored[Queries[Code]]) > 0
    BY <1>3, <2>2
  <2>4. stored[Queries[Code]] # <<>>
    BY <2>3, EmptySeq
  <2> QED
    BY <2>1, <2>3, <2>4, Zenon DEF Answered
<1>6. CASE Write
  <2>1. /\ Code \in Writes /\ LengthOk /\ out' = out \o Encode(<<ACK>>)
        /\ stored' = [stored EXCEPT ![Code] = Arguments]
    BY <1>6 DEF Write
  <2>2. Code \notin DOMAIN Queries
    BY <1>2, <2>1
  <2> QED
    BY <1>4, <2>1, <2>2, Zenon DEF Answered
<1>7. CASE Refuse
  BY <1>4, <1>7, Zenon DEF Refuse, Answered
<1> QED
  BY <1>1, <1>5, <1>6, <1>7

LEMMA ProcessKeeps ==
  ASSUME IInv, Process
  PROVE  /\ IInv' /\ Stream' = rx \o wire /\ Stream = rx \o wire
         /\ UNCHANGED <<rx, wire, rx_blob>> /\ pc = "process" /\ pc' = "read" /\ rx_pos' = 0
<1>1. /\ pc = "process" /\ rx_pos' = 0 /\ pc' = "read"
      /\ UNCHANGED <<wire, rx, rx_blob, src_i, dest_i, left>>
  BY DEF Process, NextPacket
<1>2. TypeOK /\ PacketInBlob /\ Streaming /\ Decoding /\ Replying
  BY DEF IInv
<1>3. rx \in Seq(Byte) /\ wire \in Seq(Byte) /\ RX_BUFFER_LENGTH \in Nat
  BY <1>2, CodeTypes DEF TypeOK
<1>4. Held' = <<>> /\ Held = <<>>
  BY <1>1, NothingHeld
<1>5. Stream' = rx \o wire /\ Stream = rx \o wire
  <2>2. <<>> \o rx = rx
    BY <1>3, EmptyStream
  <2>3. Stream = <<>> \o rx \o wire /\ Stream' = <<>> \o rx \o wire
    BY <1>1, <1>4, Zenon DEF Stream
  <2> QED
    BY <2>2, <2>3, Zenon
<1>6. Streaming'
  <2>1. NoEnd(Held')
    BY <1>4, EmptyStream
  <2> QED
    BY <1>2, <1>5, <2>1, Zenon DEF Streaming
<1>7. PICK r \in Seq(Byte) : r # <<>> /\ out' = out \o Encode(r) /\ Answered(r)
  BY ProcessCases
<1>8. out' \in Seq(Byte) /\ Complete(out') /\ Tidy(out')
  <2>1. out \in Seq(Byte) /\ Complete(out) /\ Tidy(out)
    BY <1>2 DEF TypeOK, Replying
  <2> DEFINE o == out \o Encode(r)
  <2>2. o \in Seq(Byte) /\ Complete(o) /\ Tidy(o)
    BY <1>7, <2>1, ReplySent
  <2> HIDE DEF o
  <2>3. out' = o
    BY <1>7 DEF o
  <2> QED
    BY <2>2, <2>3, Zenon
<1>9. stored' \in [Writes -> Seq(Byte)] /\ \A c \in Writes : Len(stored'[c]) = DataLength(c)
  <2>1. stored \in [Writes -> Seq(Byte)] /\ \A c \in Writes : Len(stored[c]) = DataLength(c)
    BY <1>2 DEF TypeOK, Replying
  <2>2. CASE UNCHANGED stored
    BY <2>1, <2>2
  <2>3. CASE Code \in Writes /\ LengthOk /\ stored' = [stored EXCEPT ![Code] = Arguments]
    <3>1. Arguments \in Seq(Byte) /\ Len(Arguments) = DataLength(Code)
      BY <1>1, <2>3, ArgumentsType
    <3> DEFINE a == Arguments
               d == Code
    <3>2. a \in Seq(Byte) /\ Len(a) = DataLength(d) /\ d \in Writes
      BY <2>3, <3>1
    <3>3. stored' = [stored EXCEPT ![d] = a]
      BY <2>3
    <3> HIDE DEF a, d
    <3> QED
      BY <2>1, <3>2, <3>3
  <2> QED
    BY <1>7, <2>2, <2>3 DEF Answered
<1>10. Replying'
  BY <1>8, <1>9 DEF Replying
<1>11. TypeOK'
  <2>1. src_i' \in 0 .. rx_pos' + 1 /\ dest_i' \in 0 .. src_i' /\ rx_pos' \in Nat
    BY <1>1, <1>2 DEF Decoding
  <2> QED
    BY <1>1, <1>2, <1>8, <1>9, <2>1 DEF TypeOK
<1>12. PacketInBlob' /\ Decoding'
  BY <1>1, <1>2, <1>3 DEF PacketInBlob, Decoding
<1> QED
  BY <1>1, <1>5, <1>6, <1>10, <1>11, <1>12 DEF IInv

-----------------------------------------------------------------------------
LEMMA InvNext == IInv /\ [Next]_vars => IInv'
<1> SUFFICES ASSUME IInv, [Next]_vars PROVE IInv'
  OBVIOUS
<1>1. CASE \E p \in Commands : HostAsks(p)
  BY <1>1, HostAsksKeeps
<1>2. CASE HostRestarts
  BY <1>2, HostRestartsKeeps
<1>3. CASE HostHears
  BY <1>3, HostHearsKeeps
<1>4. CASE Arrive
  BY <1>4, ArriveKeeps
<1>5. CASE ReadByte
  BY <1>5, ReadByteKeeps
<1>6. CASE ReadEnd
  BY <1>6, ReadEndKeeps
<1>7. CASE DecodeByte
  BY <1>7, DecodeByteKeeps
<1>8. CASE DecodeEnd
  BY <1>8, DecodeEndKeeps
<1>9. CASE Process
  BY <1>9, ProcessKeeps
<1>10. CASE UNCHANGED vars
  <2>1. UNCHANGED <<wire, rx, rx_blob, rx_pos, pc, src_i, dest_i, stored, out, left>>
    BY <1>10 DEF vars
  <2>2. Held' = Held /\ Stream' = Stream
    <3>1. Held' = Held
      BY <2>1, HeldStays
    <3> QED
      BY <2>1, <3>1 DEF Stream
  <2>3. Streaming'
    BY <2>1, <2>2 DEF IInv, Streaming
  <2> QED
    BY <2>1, <2>3 DEF IInv, TypeOK, PacketInBlob, Decoding, Replying
<1> QED
  BY <1>1, <1>2, <1>3, <1>4, <1>5, <1>6, <1>7, <1>8, <1>9, <1>10, Zenon DEF Next, Callback

LEMMA InvAlways == Spec => []IInv
<1>1. Init => IInv
  BY InvInit
<1>2. IInv /\ [Next]_vars => IInv'
  BY InvNext
<1> QED
  BY <1>1, <1>2, PTL DEF Spec

(* The decoder writes behind what it reads and reads at most one byte past *)
(* the packet, and tables stay sequences of bytes (slip.c:26, ui.c:13).    *)
THEOREM TypeCorrect == Spec => []TypeOK
<1>1. IInv => TypeOK
  BY DEF IInv
<1> QED
  BY <1>1, InvAlways, PTL

(* No packet outgrows rx_blob (main.c:20), wherever hosts stop and begin   *)
(* afresh, and however the bytes come in: slip.c:21 stores them unchecked. *)
THEOREM PacketsFit == Spec => []PacketInBlob
<1>1. IInv => PacketInBlob
  BY DEF IInv
<1> QED
  BY <1>1, InvAlways, PTL

-----------------------------------------------------------------------------
(***************************************************************************)
(* The link carries commands out as CommandServer says.  The commands it   *)
(* still has to carry out are the one in the buffer, decoded up to dest_i  *)
(* and encoded from src_i, and those of the stream.                        *)
(***************************************************************************)
Decoded == IF pc = "process" THEN Bytes(0, rx_pos) ELSE Bytes(0, dest_i)
Ahead == IF pc = "process" THEN <<>> ELSE Unescape[Bytes(src_i, rx_pos)]
Current == IF pc = "read" THEN <<>> ELSE Packet(Decoded \o Ahead)

Facts ==
  /\ Requests = Current \o Frames[Stream]
  /\ Stream \in Seq(Byte) /\ Frames[Stream] \in Seq(Request)
  /\ Current \in Seq(Request) /\ Frames[out] \in Seq(Request)
  /\ pc # "read" => Decoded \in Seq(Byte) /\ Ahead \in Seq(Letter)

LEMMA BytesFacts ==
  ASSUME IInv, NEW from \in Nat, NEW to \in 0 .. RX_BUFFER_LENGTH
  PROVE  /\ Bytes(from, to) \in Seq(Byte)
         /\ Len(Bytes(from, to)) = IF from <= to THEN to - from ELSE 0
         /\ \A i \in 1 .. to - from : Bytes(from, to)[i] = rx_blob[from + i - 1]
<1>1. rx_blob \in [Blob -> Byte]
  BY DEF IInv, TypeOK
<1>2. Bytes(from, to) = Part(rx_blob, from, to)
  BY DEF Bytes, Part
<1> QED
  BY <1>1, <1>2, BytesType

LEMMA Indices ==
  ASSUME IInv
  PROVE  /\ src_i \in Nat /\ dest_i \in 0 .. RX_BUFFER_LENGTH /\ rx_pos \in 0 .. RX_BUFFER_LENGTH
         /\ dest_i <= src_i /\ dest_i <= rx_pos /\ src_i <= rx_pos + 1
         /\ RX_BUFFER_LENGTH \in Nat \ {0} /\ rx_blob \in [Blob -> Byte]
         /\ rx \in Seq(Byte) /\ wire \in Seq(Byte) /\ out \in Seq(Byte)
BY CodeTypes DEF IInv, TypeOK, PacketInBlob, Decoding

LEMMA FactsHold == IInv => Facts
<1> SUFFICES ASSUME IInv PROVE Facts
  OBVIOUS
<1>1. TypeOK /\ PacketInBlob
  BY DEF IInv
<1>2. Stream \in Seq(Byte) /\ Frames[Stream] \in Seq(Request) /\ Frames[out] \in Seq(Request)
  BY <1>1, StreamType, Indices, FramesType
<1>3. CASE pc = "read"
  <2>1. Current = <<>> /\ Current \in Seq(Request)
    BY <1>3, EmptySeq DEF Current
  <2>2. Requests = Frames[Stream]
    BY <1>3, Zenon DEF Requests, Stream, Held
  <2>3. Current \o Frames[Stream] = Frames[Stream]
    BY <1>2, <2>1, ConcatEmptySeq
  <2> QED
    BY <1>2, <1>3, <2>1, <2>2, <2>3, Zenon DEF Facts
<1>4. CASE pc # "read"
  <2>1. Decoded \in Seq(Byte)
    <3>1. Bytes(0, rx_pos) \in Seq(Byte) /\ Bytes(0, dest_i) \in Seq(Byte)
      BY Indices, BytesFacts
    <3> QED
      BY <3>1, Zenon DEF Decoded
  <2>2. Ahead \in Seq(Letter)
    <3>1. Bytes(src_i, rx_pos) \in Seq(Byte)
      BY Indices, BytesFacts
    <3>2. Unescape[Bytes(src_i, rx_pos)] \in Seq(Letter) /\ <<>> \in Seq(Letter)
      BY <3>1, UnescapeType, EmptySeq
    <3> QED
      BY <3>2, Zenon DEF Ahead
  <2>3. Current \in Seq(Request)
    <3>1. Decoded \o Ahead \in Seq(Letter)
      BY <2>1, <2>2, ByteLetters, SeqConcat
    <3>2. Packet(Decoded \o Ahead) \in Seq(Request)
      BY <3>1, PacketType
    <3> QED
      BY <1>4, <3>2, Zenon DEF Current
  <2>4. Stream = rx \o wire
    <3>1. Held = <<>>
      BY <1>4 DEF Held
    <3>2. <<>> \o rx = rx
      BY Indices, EmptyStream
    <3> QED
      BY <3>1, <3>2, Zenon DEF Stream
  <2>5. Requests = Current \o Frames[Stream]
    <3>1. Requests = Packet(Decoded \o Ahead) \o Frames[rx \o wire]
      BY <1>4, Zenon DEF Requests, Decoded, Ahead
    <3> QED
      BY <1>4, <2>4, <3>1, Zenon DEF Current
  <2> QED
    BY <1>2, <2>1, <2>2, <2>3, <2>5, Zenon DEF Facts
<1> QED
  BY <1>3, <1>4

LEMMA CurrentStays ==
  ASSUME UNCHANGED <<pc, rx_blob, rx_pos, src_i, dest_i>>
  PROVE  Current' = Current
<1>1. /\ Bytes(0, rx_pos)' = Bytes(0, rx_pos) /\ Bytes(0, dest_i)' = Bytes(0, dest_i)
      /\ Bytes(src_i, rx_pos)' = Bytes(src_i, rx_pos)
  BY DEF Bytes
<1>2. Decoded' = Decoded /\ Ahead' = Ahead
  BY <1>1, Zenon DEF Decoded, Ahead
<1> QED
  BY <1>2, Zenon DEF Current

LEMMA OneAtTheEnd ==
  ASSUME NEW S, NEW s \in Seq(S), NEW x \in S
  PROVE  /\ s \o <<x>> \in Seq(S) /\ Len(s \o <<x>>) = Len(s) + 1 /\ Len(s) \in Nat
         /\ (s \o <<x>>)[Len(s) + 1] = x
         /\ SubSeq(s \o <<x>>, 1, Len(s)) = s /\ s \o <<x>> # <<>>
<1> DEFINE e == <<x>>
           c == s \o e
<1>1. e \in Seq(S) /\ Len(e) = 1 /\ e[1] = x /\ Len(s) \in Nat
  BY LenProperties
<1> HIDE DEF e
<1>2. /\ c \in Seq(S) /\ Len(c) = Len(s) + Len(e)
      /\ \A i \in 1 .. Len(e) : c[Len(s) + i] = e[i]
  <2>1. e \in Seq(S)
    BY <1>1
  <2> QED
    BY <2>1, SeqConcat, SMTT(30)
<1>3. SubSeq(c, 1, Len(s)) = SubSeq(s, 1, Len(s)) /\ SubSeq(s, 1, Len(s)) = s
  <2>1. Len(s) \in 0 .. Len(s)
    BY <1>1
  <2>2. SubSeq(c, 1, Len(s)) = SubSeq(s, 1, Len(s))
    BY <1>1, <2>1, PrefixOfFirst
  <2> QED
    BY <2>2, SubSeqFull
<1> HIDE DEF c
<1>4. Len(c) = Len(s) + 1 /\ c[Len(s) + 1] = x /\ c # <<>>
  BY <1>1, <1>2, EmptySeq
<1> QED
  BY <1>1, <1>2, <1>3, <1>4 DEF c, e

LEMMA AskRefined ==
  ASSUME IInv, Facts, Facts', NEW p \in Commands, HostAsks(p)
  PROVE  Server!Ask
<1>1. /\ Stream' = Stream \o Encode(p)
      /\ UNCHANGED <<rx_blob, rx_pos, pc, src_i, dest_i, stored, out>>
  BY HostAsksKeeps
<1>2. Current' = Current
  BY <1>1, CurrentStays
<1>3. p \in Seq(Byte) /\ p # <<>>
  BY CodeTypes
<1> DEFINE x == <<p>>
           F == Frames[Stream]
<1>4. x \in Seq(Request) /\ p \in Request
  <2>1. p \in Request
    BY <1>3, ByteLetters DEF Request
  <2> QED
    BY <2>1
<1>5. F \in Seq(Request) /\ Current \in Seq(Request)
  BY DEF Facts
<1>6. Frames[Stream'] = F \o x
  <2>1. Encode(p) \in Seq(Byte) /\ Frames[Encode(p)] = Packet(p)
    BY <1>3, EncodeType
  <2>2. Stream \in Seq(Byte) /\ Complete(Stream)
    BY DEF Facts, IInv, Streaming
  <2>3. Frames[Stream \o Encode(p)] = Frames[Stream] \o Frames[Encode(p)]
    BY <2>1, <2>2, FramesConcat
  <2> QED
    BY <1>1, <1>3, <2>1, <2>3, Zenon DEF Packet
<1> HIDE DEF x, F
<1>7. (Current \o F) \o x = Current \o (F \o x)
  <2> DEFINE C == Current
  <2>1. C \in Seq(Request)
    BY <1>5
  <2> HIDE DEF C
  <2>2. (C \o F) \o x = C \o (F \o x)
    BY <1>4, <1>5, <2>1, RequestAssociative
  <2> QED
    BY <2>2 DEF C
<1>8. Requests' = Requests \o x /\ Requests \in Seq(Request)
  <2>1. Requests = Current \o F /\ Requests' = Current' \o Frames[Stream']
    BY DEF Facts, F
  <2>2. Current \o F \in Seq(Request)
    BY <1>5, SeqConcat
  <2> QED
    BY <1>2, <1>6, <1>7, <2>1, <2>2, Zenon
<1>9. Len(Requests') = Len(Requests) + 1 /\ SubSeq(Requests', 1, Len(Requests)) = Requests
  <2>1. /\ Len(Requests \o <<p>>) = Len(Requests) + 1
        /\ SubSeq(Requests \o <<p>>, 1, Len(Requests)) = Requests
    BY <1>4, <1>8, OneAtTheEnd
  <2> QED
    BY <1>8, <2>1, Zenon DEF x
<1> QED
  BY <1>1, <1>9, Zenon DEF Server!Ask

LEMMA RestartRefined ==
  ASSUME IInv, Facts, Facts', HostRestarts
  PROVE  Server!Restart
<1>1. out' = <<>> /\ UNCHANGED <<rx_blob, rx_pos, pc, src_i, dest_i, stored>>
  BY HostRestartsKeeps
<1>2. PICK m \in 0 .. Len(Stream) : Stream' = SubSeq(Stream, 1, m) \o <<END>>
  BY HostRestartsKeeps
<1>3. Current' = Current
  BY <1>1, CurrentStays
<1>4. Interrupted(Frames[Stream'], Frames[Stream])
  <2>1. Stream \in Seq(Byte) /\ Complete(Stream) /\ Regular(Stream)
    BY DEF Facts, IInv, Streaming
  <2>2. Interrupted(Frames[SubSeq(Stream, 1, m) \o <<END>>], Frames[Stream])
    BY <2>1, RestartMeans
  <2> QED
    BY <1>2, <2>2, Zenon
<1>5. Interrupted(Requests', Requests)
  <2>1. Frames[Stream] \in Seq(Request) /\ Current \in Seq(Request)
    BY DEF Facts
  <2>2. Interrupted(Current \o Frames[Stream'], Current \o Frames[Stream])
    BY <1>4, <2>1, InterruptedConcat
  <2>3. Requests = Current \o Frames[Stream] /\ Requests' = Current \o Frames[Stream']
    BY <1>3, Zenon DEF Facts
  <2> QED
    BY <2>2, <2>3, Zenon
<1>6. Frames[out'] = <<>>
  BY <1>1, FramesEmpty
<1>7. PICK k \in 0 .. Len(Requests) :
        \/ Requests' = SubSeq(Requests, 1, k)
        \/ /\ k < Len(Requests)
           /\ \E q \in Parts(Requests[k + 1]) : Requests' = Append(SubSeq(Requests, 1, k), q)
  BY <1>5, Zenon DEF Interrupted
<1>8. \/ Requests' = SubSeq(Requests, 1, k)
      \/ /\ k < Len(Requests)
         /\ Requests' \in {Append(SubSeq(Requests, 1, k), q) : q \in Server!Parts(Requests[k + 1])}
  <2>1. Server!Parts(Requests[k + 1]) = Parts(Requests[k + 1])
    BY Zenon DEF Server!Parts, Parts
  <2> QED
    BY <1>7, <2>1, Zenon
<1> QED
  BY <1>1, <1>6, <1>8, Zenon DEF Server!Restart

LEMMA HearRefined ==
  ASSUME IInv, Facts, Facts', HostHears
  PROVE  Server!Hear
<1>1. /\ Frames[out] # <<>> /\ Frames[out'] = Tail(Frames[out])
      /\ Stream' = Stream /\ UNCHANGED <<rx_blob, rx_pos, pc, src_i, dest_i, stored>>
  BY HostHearsKeeps
<1>2. Current' = Current
  BY <1>1, CurrentStays
<1>3. Requests' = Requests
  BY <1>1, <1>2, Zenon DEF Facts
<1> QED
  BY <1>1, <1>3, Zenon DEF Server!Hear

(* Bytes come in and are read: the same commands are still to be carried   *)
(* out.                                                                    *)
SameToHost == Requests' = Requests /\ Frames[out'] = Frames[out] /\ stored' = stored

LEMMA ReadingRefined ==
  ASSUME IInv, Facts, Facts', Arrive \/ ReadByte
  PROVE  SameToHost
<1>1. Stream' = Stream /\ pc = "read" /\ UNCHANGED <<pc, stored, out>>
  BY ArriveKeeps, ReadByteKeeps
<1>2. Current' = Current
  BY <1>1 DEF Current
<1> QED
  BY <1>1, <1>2, Zenon DEF Facts, SameToHost

LEMMA ReadEndRefined ==
  ASSUME IInv, Facts, Facts', ReadEnd
  PROVE  SameToHost
<1>1. /\ Held \in Seq(Byte) /\ NoEnd(Held) /\ Stream = Held \o <<END>> \o (rx' \o wire')
      /\ Stream' = rx' \o wire' /\ Stream' \in Seq(Byte)
      /\ pc = "read" /\ pc' = "decode" /\ src_i' = 0 /\ dest_i' = 0
      /\ UNCHANGED <<rx_blob, rx_pos, stored, out>>
  BY ReadEndKeeps
<1>2. Frames[Stream] = Packet(Unescape[Held]) \o Frames[Stream']
  <2>1. Frames[Held \o <<END>> \o Stream'] = Packet(Unescape[Held]) \o Frames[Stream']
    BY <1>1, FramesCut
  <2> QED
    BY <1>1, <2>1, Zenon
<1>3. Ahead' = Unescape[Held]
  <2>1. Bytes(src_i, rx_pos)' = Bytes(0, rx_pos) /\ Held = Bytes(0, rx_pos)
    BY <1>1 DEF Bytes, Held
  <2>2. pc' # "process"
    BY <1>1
  <2> QED
    BY <2>1, <2>2, Zenon DEF Ahead
<1>4. Decoded' = <<>>
  <2>1. Decoded' = [i \in 1 .. 0 - 0 |-> rx_blob[0 + i - 1]]
    BY <1>1 DEF Decoded, Bytes
  <2> QED
    BY <2>1
<1>5. Current' = Packet(Unescape[Held])
  <2>1. Unescape[Held] \in Seq(Letter)
    BY <1>1, UnescapeType
  <2>2. <<>> \o Unescape[Held] = Unescape[Held]
    BY <2>1, ConcatEmptySeq
  <2>3. pc' # "read"
    BY <1>1
  <2> QED
    BY <1>3, <1>4, <2>2, <2>3, Zenon DEF Current
<1>6. Requests' = Requests
  <2>1. Current = <<>> /\ Frames[Stream] \in Seq(Request)
    BY <1>1 DEF Current, Facts
  <2>2. Current \o Frames[Stream] = Frames[Stream]
    BY <2>1, ConcatEmptySeq
  <2> QED
    BY <1>2, <1>5, <2>2, Zenon DEF Facts
<1> QED
  BY <1>1, <1>6, Zenon DEF SameToHost

LEMMA DecodeEndRefined ==
  ASSUME IInv, Facts, Facts', DecodeEnd
  PROVE  SameToHost
<1>1. /\ Stream' = rx \o wire /\ Stream = rx \o wire
      /\ UNCHANGED <<rx, wire, rx_blob, stored, out>> /\ pc = "decode"
      /\ rx_pos' = dest_i /\ pc' = (IF dest_i > 0 THEN "process" ELSE "read")
      /\ src_i >= rx_pos
  BY DecodeEndKeeps
<1>2. Ahead = <<>>
  <2>1. Bytes(src_i, rx_pos) \in Seq(Byte) /\ Len(Bytes(src_i, rx_pos)) = 0
    <3>1. (IF src_i <= rx_pos THEN rx_pos - src_i ELSE 0) = 0
      BY <1>1, Indices
    <3>2. /\ Bytes(src_i, rx_pos) \in Seq(Byte)
          /\ Len(Bytes(src_i, rx_pos)) = IF src_i <= rx_pos THEN rx_pos - src_i ELSE 0
      BY Indices, BytesFacts
    <3> QED
      BY <3>1, <3>2, Zenon
  <2>2. Bytes(src_i, rx_pos) = <<>>
    BY <2>1, EmptySeq
  <2>3. pc # "process"
    BY <1>1
  <2> QED
    BY <2>2, <2>3, UnescapeEmpty, Zenon DEF Ahead
<1>3. Current = Packet(Bytes(0, dest_i)) /\ Bytes(0, dest_i) \in Seq(Byte)
  <2>1. Decoded = Bytes(0, dest_i) /\ pc # "read" /\ Bytes(0, dest_i) \in Seq(Byte)
    BY <1>1, Indices, BytesFacts DEF Decoded
  <2>2. Bytes(0, dest_i) \o <<>> = Bytes(0, dest_i)
    BY <2>1, EmptyStream
  <2> QED
    BY <1>2, <2>1, <2>2, Zenon DEF Current
<1>4. CASE dest_i > 0
  <2>1. Decoded' = Bytes(0, dest_i) /\ Ahead' = <<>> /\ pc' # "read"
    BY <1>1, <1>4 DEF Decoded, Ahead, Bytes
  <2>2. Bytes(0, dest_i) \o <<>> = Bytes(0, dest_i)
    BY <1>3, EmptyStream
  <2>3. Current' = Current
    BY <1>3, <2>1, <2>2, Zenon DEF Current
  <2> QED
    BY <1>1, <2>3, Zenon DEF Facts, SameToHost
<1>5. CASE ~(dest_i > 0)
  <2>1. dest_i = 0
    BY <1>5, Indices
  <2>2. Bytes(0, dest_i) = <<>>
    <3>1. Bytes(0, dest_i) = [i \in 1 .. 0 - 0 |-> rx_blob[0 + i - 1]]
      BY <2>1 DEF Bytes
    <3> QED
      BY <3>1
  <2>3. Current = <<>>
    BY <1>3, <2>2, Zenon DEF Packet
  <2>4. Current' = <<>>
    BY <1>1, <1>5 DEF Current
  <2> QED
    BY <1>1, <2>3, <2>4, Zenon DEF Facts, SameToHost
<1> QED
  BY <1>4, <1>5

(* The command that is carried out.                                        *)
LEMMA CommandRead ==
  ASSUME IInv, Facts, Process
  PROVE  \E P \in Seq(Byte) :
           /\ Current = <<P>> /\ P # <<>> /\ Len(P) = rx_pos /\ rx_pos \in Nat /\ rx_pos >= 1
           /\ P[1] = Code /\ \A i \in 1 .. rx_pos - 1 : P[i + 1] = rx_blob[i]
<1> DEFINE P == Bytes(0, rx_pos)
<1>1. pc = "process" /\ rx_pos >= 1
  BY DEF Process, IInv, Decoding
<1>2. rx_pos \in 0 .. RX_BUFFER_LENGTH /\ RX_BUFFER_LENGTH \in Nat
  BY Indices
<1>3. /\ P \in Seq(Byte) /\ Len(P) = rx_pos
      /\ \A i \in 1 .. rx_pos : P[i] = rx_blob[i - 1]
  <2>1. /\ P \in Seq(Byte) /\ Len(P) = IF 0 <= rx_pos THEN rx_pos - 0 ELSE 0
        /\ \A i \in 1 .. rx_pos - 0 : P[i] = rx_blob[0 + i - 1]
    BY <1>2, BytesFacts
  <2> HIDE DEF P
  <2> QED
    BY <1>2, <2>1
<1>4. Current = Packet(P)
  <2>1. Decoded = P /\ Ahead = <<>> /\ pc # "read"
    BY <1>1 DEF Decoded, Ahead
  <2>2. P \o <<>> = P
    BY <1>3, EmptyStream
  <2> QED
    BY <2>1, <2>2, Zenon DEF Current
<1> HIDE DEF P
<1>5. P # <<>>
  BY <1>1, <1>2, <1>3, EmptySeq
<1>6. Current = <<P>>
  BY <1>4, <1>5, Zenon DEF Packet
<1>7. P[1] = Code
  BY <1>1, <1>2, <1>3 DEF Code
<1>8. \A i \in 1 .. rx_pos - 1 : P[i + 1] = rx_blob[i]
  <2> SUFFICES ASSUME NEW i \in 1 .. rx_pos - 1 PROVE P[i + 1] = rx_blob[i]
    OBVIOUS
  <2>1. i + 1 \in 1 .. rx_pos /\ i + 1 - 1 = i
    BY <1>2
  <2> QED
    BY <1>3, <2>1
<1> QED
  BY <1>1, <1>2, <1>3, <1>5, <1>6, <1>7, <1>8

LEMMA AcceptedIsLengthOk ==
  ASSUME TypeOK, NEW P, Len(P) = rx_pos, P[1] = Code
  PROVE  Server!Accepted(P) <=> LengthOk
<1>1. rx_pos \in Nat /\ Exact \in [DOMAIN Exact -> Nat]
  BY CodesAssumption DEF TypeOK
<1>2. Code \in DOMAIN Exact => (rx_pos - 1 = Exact[Code] <=> rx_pos = Exact[Code] + 1)
  BY <1>1
<1>3. Server!Accepted(P) <=> \/ Code \in DOMAIN Exact /\ rx_pos = Exact[Code] + 1
                             \/ Code \in DOMAIN AtLeast /\ rx_pos >= AtLeast[Code] + 1
  BY Zenon DEF Server!Accepted
<1> QED
  BY <1>2, <1>3, Zenon DEF LengthOk

LEMMA DataIsArguments ==
  ASSUME IInv, pc = "process", Code \in Writes, LengthOk,
         NEW P \in Seq(Byte), Len(P) = rx_pos, P[1] = Code, P # <<>>,
         \A i \in 1 .. rx_pos - 1 : P[i + 1] = rx_blob[i]
  PROVE  Server!Data(P) = Arguments
<1> DEFINE n == DataLength(Code)
           a == Arguments
<1>1. /\ a \in Seq(Byte) /\ Len(a) = n /\ n \in 0 .. rx_pos - 1
      /\ \A i \in 1 .. n : a[i] = rx_blob[i]
  BY ArgumentsType
<1>2. rx_pos \in Nat /\ n \in Nat
  BY Indices, <1>1
<1>3. CASE Code \in DOMAIN Exact
  <2>1. Server!Data(P) = Tail(P)
    BY <1>3, Zenon DEF Server!Data
  <2>2. n = rx_pos - 1
    <3>1. n = Exact[Code]
      BY <1>3 DEF DataLength
    <3>2. CASE rx_pos - 1 = Exact[Code]
      BY <3>1, <3>2
    <3>3. CASE Code \in DOMAIN AtLeast
      BY <1>3, <3>3, CodesAssumption
    <3> QED
      BY <3>2, <3>3, Zenon DEF LengthOk
  <2> DEFINE t == Tail(P)
  <2>3. /\ t \in Seq(Byte) /\ Len(t) = Len(P) - 1
        /\ \A i \in 1 .. Len(P) - 1 : t[i] = P[i + 1]
    BY TakeFirst
  <2> HIDE DEF t, n, a
  <2>4. Len(t) = Len(a) /\ \A i \in 1 .. Len(t) : t[i] = a[i]
    BY <1>1, <1>2, <2>2, <2>3
  <2>5. t = a
    BY <1>1, <2>3, <2>4, SeqEqual
  <2> QED
    BY <2>1, <2>5, Zenon DEF t, a
<1>4. CASE Code \notin DOMAIN Exact
  <2>1. Server!Data(P) = SubSeq(P, 2, n + 1)
    BY <1>4, Zenon DEF Server!Data, DataLength
  <2>2. PICK k \in 0 .. Len(P) : k = n + 1
    <3> HIDE DEF n
    <3> QED
      BY <1>1, <1>2
  <2>3. 2 \in 1 .. Len(P) + 1
    BY EmptySeq, LenProperties
  <2> DEFINE t == SubSeq(P, 2, k)
  <2>4. /\ t \in Seq(Byte) /\ Len(t) = IF 2 <= k THEN k - 2 + 1 ELSE 0
        /\ \A i \in 1 .. k - 2 + 1 : t[i] = P[2 + i - 1]
    BY <2>3, ByteSubSeq
  <2>5. Server!Data(P) = t
    BY <2>1, <2>2, Zenon
  <2> HIDE DEF t, n, a
  <2>6. k = n + 1 /\ n \in Nat
    BY <1>2, <2>2
  <2>7. Len(t) = n
    BY <2>4, <2>6
  <2>8. ASSUME NEW i \in 1 .. n PROVE t[i] = a[i]
    <3>1. i \in 1 .. k - 2 + 1 /\ 2 + i - 1 = i + 1 /\ i \in 1 .. rx_pos - 1
      BY <1>1, <1>2, <2>6
    <3> QED
      BY <1>1, <2>4, <3>1
  <2>9. t = a
    BY <1>1, <2>4, <2>7, <2>8, SeqEqual
  <2> QED
    BY <2>5, <2>9, Zenon DEF a
<1> QED
  BY <1>3, <1>4

LEMMA ServeRefined ==
  ASSUME IInv, Facts, Facts', Process
  PROVE  Server!Serve
<1>1. /\ Stream' = rx \o wire /\ Stream = rx \o wire
      /\ pc = "process" /\ pc' = "read" /\ rx_pos' = 0
  BY ProcessKeeps
<1>2. PICK P \in Seq(Byte) :
        /\ Current = <<P>> /\ P # <<>> /\ Len(P) = rx_pos /\ rx_pos \in Nat /\ rx_pos >= 1
        /\ P[1] = Code /\ \A i \in 1 .. rx_pos - 1 : P[i + 1] = rx_blob[i]
  BY CommandRead
<1>3. PICK r \in Seq(Byte) : r # <<>> /\ out' = out \o Encode(r) /\ Answered(r)
  BY ProcessCases
<1> DEFINE F == Frames[Stream]
<1>4. F \in Seq(Request) /\ Frames[out] \in Seq(Request)
  BY DEF Facts
<1>5. Requests = <<P>> \o F /\ Requests' = F
  <2>1. Requests = <<P>> \o F
    BY <1>2, Zenon DEF Facts
  <2>2. Current' = <<>>
    BY <1>1 DEF Current
  <2>3. Requests' = <<>> \o F
    BY <1>1, <2>2, Zenon DEF Facts
  <2>4. <<>> \o F = F
    BY <1>4, ConcatEmptySeq
  <2> QED
    BY <2>1, <2>3, <2>4, Zenon
<1>6. Requests # <<>> /\ Head(Requests) = P /\ Requests' = Tail(Requests)
  <2>1. P \in Request
    BY <1>2, ByteLetters DEF Request
  <2> HIDE DEF F
  <2>2. <<P>> \o F # <<>> /\ Head(<<P>> \o F) = P /\ Tail(<<P>> \o F) = F
    BY <1>4, <2>1, OneMore
  <2> QED
    BY <1>5, <2>2, Zenon
<1>7. ~Server!Unfinished(P)
  <2>1. Len(P) \in 1 .. Len(P)
    BY <1>2
  <2>2. P[Len(P)] \in Byte
    BY <2>1, ElementOfSeq
  <2> QED
    BY <2>2, SlipAssumption DEF Server!Unfinished
<1>8. Server!Accepted(P) <=> LengthOk
  BY <1>2, AcceptedIsLengthOk DEF IInv
<1>9. LengthOk => Code \in Writes
  BY Zenon DEF LengthOk, Writes
<1>10. DOMAIN Queries \cap Writes = {}
  BY CodesAssumption
<1>11. /\ r = Server!Reply(P)
       /\ stored' = IF Server!Accepted(P) THEN [stored EXCEPT ![P[1]] = Server!Data(P)] ELSE stored
  <2>1. CASE Code \in DOMAIN Queries /\ r = stored[Queries[Code]] /\ UNCHANGED stored
    <3>1. ~LengthOk
      BY <1>9, <1>10, <2>1
    <3>2. Server!Reply(P) = stored[Queries[Code]]
      BY <1>2, <2>1, Zenon DEF Server!Reply
    <3> QED
      BY <1>8, <2>1, <3>1, <3>2, Zenon
  <2>2. CASE /\ Code \notin DOMAIN Queries /\ Code \in Writes /\ LengthOk /\ r = <<ACK>>
             /\ stored' = [stored EXCEPT ![Code] = Arguments]
    <3>1. Server!Data(P) = Arguments
      BY <1>1, <1>2, <2>2, DataIsArguments
    <3>2. Server!Reply(P) = <<ACK>>
      BY <1>2, <1>8, <2>2, Zenon DEF Server!Reply
    <3> QED
      BY <1>2, <1>8, <2>2, <3>1, <3>2, Zenon
  <2>3. CASE Code \notin DOMAIN Queries /\ ~LengthOk /\ r = <<NACK>> /\ UNCHANGED stored
    <3>1. Server!Reply(P) = <<NACK>>
      BY <1>2, <1>8, <2>3, Zenon DEF Server!Reply
    <3> QED
      BY <1>8, <2>3, <3>1, Zenon
  <2> QED
    BY <1>3, <2>1, <2>2, <2>3, Zenon DEF Answered
<1>12. Frames[out'] = Append(Frames[out], r)
  <2>1. out \in Seq(Byte) /\ Complete(out) /\ Tidy(out)
    BY DEF IInv, TypeOK, Replying
  <2>2. Frames[out \o Encode(r)] = Frames[out] \o <<r>>
    BY <1>3, <2>1, ReplySent
  <2>3. r \in Request
    BY <1>3, ByteLetters DEF Request
  <2>4. Append(Frames[out], r) = Frames[out] \o <<r>>
    BY <1>4, <2>3, AppendIsConcat
  <2> QED
    BY <1>3, <2>2, <2>4, Zenon
<1> QED
  BY <1>6, <1>7, <1>11, <1>12, Zenon DEF Server!Serve

-----------------------------------------------------------------------------
(* A byte is decoded.                                                      *)

(* The decoder writes one byte more.                                       *)
LEMMA DecodedGrows ==
  ASSUME IInv, NEW bytes \in {<<>>} \cup {<<x>> : x \in Byte}, Store(bytes), dest_i < rx_pos
  PROVE  Bytes(0, dest_i)' = Bytes(0, dest_i) \o bytes
<1>1. /\ rx_blob' \in [Blob -> Byte]
      /\ \A i \in Blob : i # dest_i => rx_blob'[i] = rx_blob[i]
      /\ bytes = <<>> => dest_i' = dest_i
      /\ \A x : bytes = <<x>> => dest_i' = dest_i + 1 /\ (dest_i \in Blob => rx_blob'[dest_i] = x)
  BY StoreKeeps, Zenon DEF IInv
<1>2. /\ dest_i \in 0 .. RX_BUFFER_LENGTH /\ rx_pos \in 0 .. RX_BUFFER_LENGTH
      /\ RX_BUFFER_LENGTH \in Nat /\ dest_i \in Blob /\ rx_blob \in [Blob -> Byte]
  BY Indices DEF Blob
<1> DEFINE d == Bytes(0, dest_i)
           e == Part(rx_blob', 0, dest_i')
<1>3. Bytes(0, dest_i)' = e
  BY DEF Bytes, Part
<1>4. /\ d \in Seq(Byte) /\ Len(d) = dest_i
      /\ \A i \in 1 .. dest_i : d[i] = rx_blob[i - 1]
  <2> DEFINE to == dest_i
  <2>1. /\ Bytes(0, to) \in Seq(Byte) /\ Len(Bytes(0, to)) = IF 0 <= to THEN to - 0 ELSE 0
        /\ \A i \in 1 .. to - 0 : Bytes(0, to)[i] = rx_blob[0 + i - 1]
    BY <1>2, BytesFacts
  <2> HIDE DEF d
  <2>2. /\ d \in Seq(Byte) /\ Len(d) = IF 0 <= to THEN to - 0 ELSE 0
        /\ \A i \in 1 .. to - 0 : d[i] = rx_blob[0 + i - 1]
    BY <2>1, Zenon DEF d
  <2> QED
    BY <1>2, <2>2
<1>5. dest_i' \in {dest_i, dest_i + 1} /\ dest_i' \in 0 .. RX_BUFFER_LENGTH
  BY <1>1, <1>2 DEF Blob
<1>6. /\ e \in Seq(Byte) /\ Len(e) = dest_i'
      /\ \A i \in 1 .. dest_i' : e[i] = rx_blob'[i - 1]
  <2>1. PICK blob \in [Blob -> Byte] : blob = rx_blob'
    BY <1>1
  <2>2. PICK to \in 0 .. RX_BUFFER_LENGTH : to = dest_i'
    BY <1>5
  <2>3. /\ Part(blob, 0, to) \in Seq(Byte) /\ Len(Part(blob, 0, to)) = IF 0 <= to THEN to - 0 ELSE 0
        /\ \A i \in 1 .. to - 0 : Part(blob, 0, to)[i] = blob[0 + i - 1]
    BY BytesType
  <2>4. e = Part(blob, 0, to)
    BY <2>1, <2>2, Zenon
  <2> HIDE DEF e
  <2>5. /\ e \in Seq(Byte) /\ Len(e) = IF 0 <= to THEN to - 0 ELSE 0
        /\ \A i \in 1 .. to - 0 : e[i] = blob[0 + i - 1]
    BY <2>3, <2>4, Zenon
  <2>6. to - 0 = to /\ (IF 0 <= to THEN to - 0 ELSE 0) = to
    BY <1>2
  <2>7. ASSUME NEW i \in 1 .. to PROVE e[i] = blob[i - 1]
    <3>1. 0 + i - 1 = i - 1
      BY <1>2
    <3> QED
      BY <2>5, <2>6, <3>1
  <2> QED
    BY <2>1, <2>2, <2>5, <2>6, <2>7, Zenon
<1> HIDE DEF d, e
<1>7. \A i \in 1 .. dest_i : e[i] = d[i]
  <2> SUFFICES ASSUME NEW i \in 1 .. dest_i PROVE e[i] = d[i]
    OBVIOUS
  <2>1. i - 1 \in Blob /\ i - 1 # dest_i /\ i \in 1 .. dest_i'
    BY <1>2, <1>5 DEF Blob
  <2> QED
    BY <1>1, <1>4, <1>6, <2>1
<1>8. CASE bytes = <<>>
  <2>1. dest_i' = dest_i /\ d \o bytes = d
    BY <1>1, <1>4, <1>8, EmptyStream
  <2>2. Len(e) = Len(d) /\ \A i \in 1 .. Len(e) : e[i] = d[i]
    BY <1>4, <1>6, <1>7, <2>1
  <2>3. e = d
    BY <1>4, <1>6, <2>2, SeqEqual
  <2> QED
    BY <1>3, <2>1, <2>3, Zenon DEF d
<1>9. CASE bytes # <<>>
  <2>1. PICK x \in Byte : bytes = <<x>>
    BY <1>9
  <2>2. dest_i' = dest_i + 1 /\ rx_blob'[dest_i] = x
    BY <1>1, <1>2, <2>1
  <2>3. bytes \in Seq(Byte) /\ Len(bytes) = 1 /\ bytes[1] = x
    BY <2>1
  <2> DEFINE c == d \o bytes
  <2>4. /\ c \in Seq(Byte) /\ Len(c) = Len(d) + Len(bytes)
        /\ \A i \in 1 .. Len(d) : c[i] = d[i]
        /\ \A i \in 1 .. Len(bytes) : c[Len(d) + i] = bytes[i]
    BY <1>4, <2>3, ByteConcat
  <2> HIDE DEF c
  <2>5. Len(e) = Len(c)
    BY <1>4, <1>6, <2>2, <2>3, <2>4
  <2>6. ASSUME NEW i \in 1 .. Len(e) PROVE e[i] = c[i]
    <3>1. CASE i \in 1 .. dest_i
      BY <1>4, <1>7, <2>4, <3>1
    <3>2. CASE i = dest_i + 1
      <4>1. c[i] = x
        BY <1>4, <2>3, <2>4, <3>2
      <4>2. e[i] = rx_blob'[dest_i]
        BY <1>2, <1>6, <2>2, <3>2
      <4> QED
        BY <2>2, <4>1, <4>2
    <3> QED
      BY <1>2, <1>6, <2>2, <3>1, <3>2
  <2>7. e = c
    BY <1>6, <2>4, <2>5, <2>6, SeqEqual
  <2> QED
    BY <1>3, <2>7, Zenon DEF c, d
<1> QED
  BY <1>8, <1>9

(* What is ahead of the decoder has not been written to.                   *)
LEMMA AheadUntouched ==
  ASSUME IInv, DecodeByte, IInv'
  PROVE  Bytes(src_i, rx_pos)' = Bytes(src_i', rx_pos)
<1>1. UNCHANGED rx_pos /\ dest_i <= src_i /\ src_i' \in {src_i + 1, src_i + 2} /\ src_i \in Nat
  <2>1. PICK bytes \in {<<>>} \cup {<<x>> : x \in Byte} :
          /\ Store(bytes)
          /\ Plainly(bytes) \/ Escapedly(bytes) \/ Danglingly(bytes)
    BY DecodeCases
  <2>2. src_i' \in {src_i + 1, src_i + 2}
    BY <2>1 DEF Plainly, Escapedly, Danglingly
  <2> QED
    BY <2>2, DecodeByteKeeps, Indices
<1>2. \A i \in Blob : i # dest_i => rx_blob'[i] = rx_blob[i]
  <2>1. PICK bytes \in {<<>>} \cup {<<x>> : x \in Byte} : Store(bytes)
    BY DecodeCases
  <2> QED
    BY <2>1, StoreKeeps, Zenon DEF IInv
<1>3. \A i \in 1 .. rx_pos - src_i' :
        rx_blob'[src_i' + i - 1] = rx_blob[src_i' + i - 1]
  <2> SUFFICES ASSUME NEW i \in 1 .. rx_pos - src_i'
               PROVE  rx_blob'[src_i' + i - 1] = rx_blob[src_i' + i - 1]
    OBVIOUS
  <2>1. src_i' + i - 1 \in Blob /\ src_i' + i - 1 # dest_i
    <3>1. /\ rx_pos \in 0 .. RX_BUFFER_LENGTH /\ RX_BUFFER_LENGTH \in Nat
          /\ dest_i \in 0 .. RX_BUFFER_LENGTH
      BY Indices
    <3>2. PICK k \in Nat : k = src_i'
      BY <1>1
    <3>3. k >= dest_i + 1 /\ i \in 1 .. rx_pos - k
      <4>1. k \in {src_i + 1, src_i + 2}
        BY <1>1, <3>2, Zenon
      <4>2. i \in 1 .. rx_pos - k
        BY <3>2, Zenon
      <4> QED
        BY <1>1, <3>1, <4>1, <4>2
    <3>4. k + i - 1 \in 0 .. RX_BUFFER_LENGTH - 1 /\ k + i - 1 # dest_i
      BY <3>1, <3>3
    <3> QED
      BY <3>2, <3>4, Zenon DEF Blob
  <2> QED
    BY <1>2, <2>1
<1> QED
  BY <1>1, <1>3 DEF Bytes

(* The part of the buffer from a byte on.                                  *)
LEMMA BytesFrom ==
  ASSUME IInv, NEW from \in Nat, from < rx_pos
  PROVE  /\ rx_blob[from] \in Byte /\ Bytes(from + 1, rx_pos) \in Seq(Byte)
         /\ Bytes(from, rx_pos) = <<rx_blob[from]>> \o Bytes(from + 1, rx_pos)
<1>1. /\ rx_pos \in 0 .. RX_BUFFER_LENGTH /\ RX_BUFFER_LENGTH \in Nat /\ from \in Blob
      /\ rx_blob[from] \in Byte
  BY Indices DEF Blob
<1> DEFINE s == Bytes(from, rx_pos)
           t == Bytes(from + 1, rx_pos)
<1>2. /\ s \in Seq(Byte) /\ Len(s) = IF from <= rx_pos THEN rx_pos - from ELSE 0
      /\ \A i \in 1 .. rx_pos - from : s[i] = rx_blob[from + i - 1]
  BY <1>1, BytesFacts
<1>3. PICK g \in Nat : g = from + 1
  OBVIOUS
<1>4. /\ Bytes(g, rx_pos) \in Seq(Byte)
      /\ Len(Bytes(g, rx_pos)) = IF g <= rx_pos THEN rx_pos - g ELSE 0
      /\ \A i \in 1 .. rx_pos - g : Bytes(g, rx_pos)[i] = rx_blob[g + i - 1]
  BY <1>1, BytesFacts
<1>5. t = Bytes(g, rx_pos)
  BY <1>3, Zenon
<1> HIDE DEF s, t
<1>6. /\ t \in Seq(Byte) /\ Len(t) = IF g <= rx_pos THEN rx_pos - g ELSE 0
      /\ \A i \in 1 .. rx_pos - g : t[i] = rx_blob[g + i - 1]
  BY <1>4, <1>5, Zenon
<1>7. /\ s \in Seq(Byte) /\ Len(s) = rx_pos - from
      /\ \A i \in 1 .. rx_pos - from : s[i] = rx_blob[from + i - 1]
  <2>1. /\ s \in Seq(Byte) /\ Len(s) = IF from <= rx_pos THEN rx_pos - from ELSE 0
        /\ \A i \in 1 .. rx_pos - from : s[i] = rx_blob[from + i - 1]
    BY <1>2, Zenon DEF s
  <2> QED
    BY <1>1, <2>1
<1>8. s # <<>> /\ s[1] = rx_blob[from]
  BY <1>1, <1>7, EmptySeq
<1> DEFINE u == Tail(s)
<1>9. /\ u \in Seq(Byte) /\ Len(u) = Len(s) - 1 /\ s = <<s[1]>> \o u
      /\ \A i \in 1 .. Len(s) - 1 : u[i] = s[i + 1]
  BY <1>7, <1>8, TakeFirst
<1> HIDE DEF u
<1>10. Len(u) = Len(t)
  BY <1>1, <1>3, <1>6, <1>7, <1>9
<1>11. ASSUME NEW i \in 1 .. Len(u) PROVE u[i] = t[i]
  <2>1. i \in 1 .. Len(s) - 1 /\ i \in 1 .. rx_pos - g
    BY <1>1, <1>3, <1>7, <1>9
  <2>2. PICK k : k = i + 1
    OBVIOUS
  <2>3. u[i] = s[k]
    BY <1>9, <2>1, <2>2
  <2>4. k \in 1 .. rx_pos - from /\ from + k - 1 = g + i - 1
    BY <1>1, <1>3, <1>7, <2>1, <2>2
  <2>5. s[k] = rx_blob[g + i - 1]
    BY <1>7, <2>4
  <2> QED
    BY <1>6, <2>1, <2>3, <2>5
<1>12. u = t
  BY <1>6, <1>9, <1>10, <1>11, SeqEqual
<1> QED
  BY <1>1, <1>6, <1>8, <1>9, <1>12, Zenon DEF s, t

(* One step of the decoder: the same packet, one byte further.             *)
LEMMA DecodeSame ==
  ASSUME IInv, Facts, Facts', DecodeByte,
         NEW bytes \in {<<>>} \cup {<<x>> : x \in Byte}, Store(bytes),
         Ahead = bytes \o Ahead'
  PROVE  SameToHost
<1>1. /\ Stream' = Stream /\ UNCHANGED <<stored, out, pc>> /\ pc = "decode" /\ pc' = "decode"
  BY DecodeByteKeeps
<1>2. dest_i < rx_pos
  <2>1. src_i < rx_pos
    BY DEF DecodeByte
  <2> QED
    BY <2>1, Indices
<1>3. Decoded' = Decoded \o bytes
  <2>1. Bytes(0, dest_i)' = Bytes(0, dest_i) \o bytes
    BY <1>2, DecodedGrows
  <2>2. pc # "process" /\ pc' # "process"
    BY <1>1
  <2> QED
    BY <2>1, <2>2, Zenon DEF Decoded
<1> DEFINE d == Decoded
           h == Ahead'
<1>4. d \in Seq(Letter) /\ h \in Seq(Letter) /\ bytes \in Seq(Letter)
  <2>1. bytes \in Seq(Byte)
    <3>1. \A x \in Byte : <<x>> \in Seq(Byte)
      OBVIOUS
    <3>2. <<>> \in Seq(Byte)
      BY EmptySeq
    <3> QED
      BY <3>1, <3>2, Zenon
  <2>2. d \in Seq(Byte) /\ h \in Seq(Letter)
    BY <1>1 DEF Facts
  <2> QED
    BY <2>1, <2>2, ByteLetters
<1> HIDE DEF d, h
<1>5. (d \o bytes) \o h = d \o (bytes \o h)
  BY <1>4, LetterAssociative
<1>6. Decoded' \o Ahead' = Decoded \o Ahead
  BY <1>3, <1>5, Zenon DEF d, h
<1>7. pc # "read" /\ pc' # "read"
  BY <1>1
<1>8. Current' = Current
  BY <1>6, <1>7, Zenon DEF Current
<1> QED
  BY <1>1, <1>8, Zenon DEF Facts, SameToHost

(* One step of the decoder past the end of the packet.                     *)
LEMMA SettleRefined ==
  ASSUME IInv, Facts, Facts', DecodeByte,
         NEW bytes \in {<<>>} \cup {<<x>> : x \in Byte}, Store(bytes),
         bytes \in {<<>>, <<END>>, <<ESC>>}, Ahead = <<Dangling>>, Ahead' = <<>>
  PROVE  Server!Settle
<1>1. /\ Stream' = Stream /\ UNCHANGED <<stored, out, pc>> /\ pc = "decode" /\ pc' = "decode"
  BY DecodeByteKeeps
<1>2. dest_i < rx_pos
  <2>1. src_i < rx_pos
    BY DEF DecodeByte
  <2> QED
    BY <2>1, Indices
<1>3. Decoded' = Decoded \o bytes
  <2>1. Bytes(0, dest_i)' = Bytes(0, dest_i) \o bytes
    BY <1>2, DecodedGrows
  <2>2. pc # "process" /\ pc' # "process"
    BY <1>1
  <2> QED
    BY <2>1, <2>2, Zenon DEF Decoded
<1> DEFINE d == Decoded
           h == d \o <<Dangling>>
           F == Frames[Stream]
<1>4. /\ d \in Seq(Byte) /\ d \in Seq(Letter) /\ Decoded' \in Seq(Byte)
      /\ Dangling \in Letter /\ F \in Seq(Request)
  <2>1. d \in Seq(Byte) /\ Decoded' \in Seq(Byte) /\ F \in Seq(Request)
    BY <1>1 DEF Facts
  <2> QED
    BY <2>1, ByteLetters DEF Letter
<1>5. /\ h \in Seq(Letter) /\ Len(h) = Len(d) + 1 /\ Len(d) \in Nat
      /\ h[Len(d) + 1] = Dangling /\ SubSeq(h, 1, Len(d)) = d /\ h # <<>>
  <2> HIDE DEF d
  <2>1. /\ d \o <<Dangling>> \in Seq(Letter) /\ Len(d \o <<Dangling>>) = Len(d) + 1
        /\ Len(d) \in Nat /\ (d \o <<Dangling>>)[Len(d) + 1] = Dangling
        /\ SubSeq(d \o <<Dangling>>, 1, Len(d)) = d /\ d \o <<Dangling>> # <<>>
    BY <1>4, OneAtTheEnd
  <2> QED
    BY <2>1
<1>6. Current = <<h>> /\ Current' = Packet(Decoded \o bytes)
  <2>1. Decoded' \o <<>> = Decoded'
    BY <1>4, EmptyStream
  <2>2. pc # "read" /\ pc' # "read"
    BY <1>1
  <2>3. Current = Packet(h)
    BY <2>2, Zenon DEF Current
  <2>4. Current' = Packet(Decoded')
    BY <2>1, <2>2, Zenon DEF Current
  <2> QED
    BY <1>3, <1>5, <2>3, <2>4, Zenon DEF Packet
<1>7. Requests = <<h>> \o F /\ Requests' = Packet(d \o bytes) \o F
  BY <1>1, <1>6, Zenon DEF Facts
<1>8. Requests # <<>> /\ Head(Requests) = h /\ Tail(Requests) = F
  <2>1. h \in Request
    BY <1>5 DEF Request
  <2> HIDE DEF h, F
  <2>2. <<h>> \o F # <<>> /\ Head(<<h>> \o F) = h /\ Tail(<<h>> \o F) = F
    BY <1>4, <2>1, OneMore
  <2> QED
    BY <1>7, <2>2, Zenon
<1>9. Server!Unfinished(h) /\ SubSeq(h, 1, Len(h) - 1) = d
  <2> HIDE DEF h, d
  <2>1. PICK n \in Nat : n = Len(d)
    BY <1>5
  <2>2. Len(h) - 1 = Len(d)
    BY <1>5, <2>1
  <2>3. h[Len(h)] = Dangling
    BY <1>5, Zenon
  <2> QED
    BY <1>5, <2>2, <2>3, Zenon DEF Server!Unfinished
<1> DEFINE heads == {d} \cup {Append(d, b) : b \in {END, ESC}}
<1>10. Requests' \in {<<g>> \o F : g \in heads \ {<<>>}} \cup (IF d = <<>> THEN {F} ELSE {})
  <2>1. CASE bytes = <<>>
    <3>1. d \o bytes = d
      BY <1>4, <2>1, EmptyStream
    <3>2. CASE d = <<>>
      <4>1. Packet(d \o bytes) = <<>>
        BY <3>1, <3>2, Zenon DEF Packet
      <4>2. <<>> \o F = F
        BY <1>4, ConcatEmptySeq
      <4>3. Requests' = F
        BY <1>7, <4>1, <4>2, Zenon
      <4> QED
        BY <3>2, <4>3, Zenon
    <3>3. CASE d # <<>>
      <4>1. Requests' = <<d>> \o F
        BY <1>7, <3>1, <3>3, Zenon DEF Packet
      <4>2. d \in heads \ {<<>>}
        BY <3>3, Zenon
      <4> QED
        BY <4>1, <4>2, Zenon
    <3> QED
      BY <3>2, <3>3
  <2>2. ASSUME NEW x \in {END, ESC}, bytes = <<x>>
        PROVE  Requests' \in {<<g>> \o F : g \in heads \ {<<>>}}
    <3>1. x \in Letter
      BY Specials, ByteLetters
    <3>2. d \o <<x>> # <<>> /\ Append(d, x) = d \o <<x>>
      <4> HIDE DEF d
      <4>1. d \o <<x>> # <<>>
        BY <1>4, <3>1, OneAtTheEnd
      <4>2. Append(d, x) = d \o <<x>>
        BY <1>4, <3>1, AppendIsConcat
      <4> QED
        BY <4>1, <4>2
    <3>3. Append(d, x) \in heads \ {<<>>}
      BY <3>2, Zenon
    <3>4. Requests' = <<Append(d, x)>> \o F
      BY <1>7, <2>2, <3>2, Zenon DEF Packet
    <3> QED
      BY <3>3, <3>4, Zenon
  <2> QED
    BY <2>1, <2>2, Zenon
<1>11. UNCHANGED <<Frames[out], stored>>
  BY <1>1
<1> HIDE DEF F, h, d
<1> QED
  BY <1>8, <1>9, <1>10, <1>11, Zenon DEF Server!Settle

LEMMA DecodeByteRefined ==
  ASSUME IInv, Facts, Facts', DecodeByte
  PROVE  SameToHost \/ Server!Settle
<1>1. /\ Stream' = Stream /\ UNCHANGED <<rx_pos, pc, stored, out>> /\ pc = "decode" /\ IInv'
  BY DecodeByteKeeps
<1>2. PICK bytes \in {<<>>} \cup {<<x>> : x \in Byte} :
        /\ Store(bytes)
        /\ Plainly(bytes) \/ Escapedly(bytes) \/ Danglingly(bytes)
  BY DecodeCases
<1>3. src_i < rx_pos /\ src_i \in Nat
  BY Indices DEF DecodeByte
<1> DEFINE b == rx_blob[src_i]
           t == Bytes(src_i + 1, rx_pos)
<1>4. b \in Byte /\ t \in Seq(Byte) /\ Bytes(src_i, rx_pos) = <<b>> \o t
  BY <1>3, BytesFrom
<1>5. Ahead = Unescape[<<b>> \o t] /\ Ahead' = Unescape[Bytes(src_i', rx_pos)]
  <2>1. pc # "process" /\ pc' # "process"
    BY <1>1
  <2>2. Bytes(src_i, rx_pos)' = Bytes(src_i', rx_pos)
    BY <1>1, AheadUntouched
  <2> QED
    BY <1>4, <2>1, <2>2, Zenon DEF Ahead
<1>6. CASE Plainly(bytes)
  <2>1. b # ESC /\ src_i' = src_i + 1 /\ bytes = <<b>>
    BY <1>6 DEF Plainly
  <2>2. Unescape[<<b>> \o t] = <<b>> \o Unescape[t]
    <3> HIDE DEF b, t
    <3> QED
      BY <1>4, <2>1, UnescapePlain
  <2>3. Ahead = bytes \o Ahead'
    BY <1>5, <2>1, <2>2, Zenon
  <2>4. SameToHost
    BY <1>2, <2>3, DecodeSame
  <2> QED
    BY <2>4
<1>7. CASE Escapedly(bytes)
  <2> DEFINE c == rx_blob[src_i + 1]
             u == Bytes(src_i + 2, rx_pos)
  <2>1. b = ESC /\ src_i + 1 < rx_pos /\ src_i' = src_i + 2 /\ bytes = Meaning(c)
    BY <1>7 DEF Escapedly
  <2>2. c \in Byte /\ u \in Seq(Byte) /\ t = <<c>> \o u
    <3>1. PICK k \in Nat : k = src_i + 1
      BY <1>3
    <3>2. /\ rx_blob[k] \in Byte /\ Bytes(k + 1, rx_pos) \in Seq(Byte)
          /\ Bytes(k, rx_pos) = <<rx_blob[k]>> \o Bytes(k + 1, rx_pos)
      BY <2>1, <3>1, BytesFrom
    <3>3. k + 1 = src_i + 2
      BY <1>3, <3>1
    <3> QED
      BY <3>1, <3>2, <3>3, Zenon
  <2>3. Unescape[<<b>> \o t] = Meaning(c) \o Unescape[u]
    <3>1. Unescape[<<ESC>> \o (<<c>> \o u)] = Meaning(c) \o Unescape[u]
      <4> HIDE DEF c, u
      <4> QED
        BY <2>2, UnescapePair
    <3> QED
      BY <2>1, <2>2, <3>1, Zenon
  <2>4. Ahead = bytes \o Ahead'
    BY <1>5, <2>1, <2>3, Zenon
  <2>5. SameToHost
    BY <1>2, <2>4, DecodeSame
  <2> QED
    BY <2>5
<1>8. CASE Danglingly(bytes)
  <2>1. /\ b = ESC /\ src_i + 1 = rx_pos /\ src_i' = src_i + 2
        /\ bytes \in {<<>>, <<END>>, <<ESC>>}
    BY <1>8 DEF Danglingly
  <2>2. t = <<>> /\ Bytes(src_i', rx_pos) = <<>>
    <3>1. ASSUME NEW from \in Nat, from >= rx_pos PROVE Bytes(from, rx_pos) = <<>>
      <4>1. rx_pos \in 0 .. RX_BUFFER_LENGTH /\ RX_BUFFER_LENGTH \in Nat
        BY Indices
      <4>2. (IF from <= rx_pos THEN rx_pos - from ELSE 0) = 0
        BY <3>1, <4>1
      <4>3. /\ Bytes(from, rx_pos) \in Seq(Byte)
            /\ Len(Bytes(from, rx_pos)) = IF from <= rx_pos THEN rx_pos - from ELSE 0
        BY <4>1, BytesFacts
      <4>4. Len(Bytes(from, rx_pos)) = 0
        BY <4>2, <4>3, Zenon
      <4> QED
        BY <4>3, <4>4, EmptySeq
    <3>2. /\ src_i + 1 \in Nat /\ src_i + 1 >= rx_pos
          /\ src_i + 2 \in Nat /\ src_i + 2 >= rx_pos
      BY <1>3, <2>1
    <3>3. Bytes(src_i + 1, rx_pos) = <<>> /\ Bytes(src_i + 2, rx_pos) = <<>>
      BY <3>1, <3>2, Zenon
    <3> QED
      BY <2>1, <3>3, Zenon
  <2>3. Ahead = <<Dangling>> /\ Ahead' = <<>>
    <3>1. <<ESC>> \o <<>> = <<ESC>>
      OBVIOUS
    <3>2. Unescape[<<b>> \o t] = Unescape[<<ESC>>] /\ Ahead' = Unescape[<<>>]
      BY <1>5, <2>1, <2>2, <3>1, Zenon
    <3> QED
      BY <1>5, <3>2, UnescapeDangling, UnescapeEmpty, Zenon
  <2> QED
    BY <1>1, <1>2, <2>1, <2>3, SettleRefined
<1> QED
  BY <1>2, <1>6, <1>7, <1>8

-----------------------------------------------------------------------------
LEMMA StutterRefined ==
  ASSUME UNCHANGED vars
  PROVE  UNCHANGED <<Requests, Frames[out], stored>>
<1>1. UNCHANGED <<wire, rx, rx_blob, rx_pos, pc, src_i, dest_i, stored, out>>
  BY DEF vars
<1>2. /\ Bytes(0, rx_pos)' = Bytes(0, rx_pos) /\ Bytes(0, dest_i)' = Bytes(0, dest_i)
      /\ Bytes(src_i, rx_pos)' = Bytes(src_i, rx_pos)
  BY <1>1 DEF Bytes
<1>3. Requests' = Requests
  BY <1>1, <1>2, Zenon DEF Requests
<1> QED
  BY <1>1, <1>3

LEMMA InitRefined == Init => Server!Init
<1> SUFFICES ASSUME Init PROVE Server!Init
  OBVIOUS
<1>1. Facts /\ Current = <<>> /\ Stream = <<>>
  <2>1. IInv
    BY InvInit
  <2>2. pc = "read" /\ rx_pos = 0 /\ rx = <<>> /\ wire = <<>>
    BY DEF Init
  <2>3. Held = <<>>
    BY <2>2, NothingHeld
  <2>4. Stream = <<>>
    BY <2>2, <2>3, EmptyStream DEF Stream
  <2> QED
    BY <2>1, <2>2, <2>4, FactsHold DEF Current
<1>2. Requests = <<>>
  <2>1. <<>> \o <<>> = <<>>
    BY EmptyStream
  <2> QED
    BY <1>1, <2>1, FramesEmpty, Zenon DEF Facts
<1>3. Frames[out] = <<>>
  BY FramesEmpty DEF Init
<1>4. stored = [c \in Server!Writes |->
                  Server!Zeros(IF c \in DOMAIN Exact THEN Exact[c] ELSE AtLeast[c])]
  BY Zenon DEF Init, Writes, Server!Writes, Server!Zeros, DataLength
<1> QED
  BY <1>2, <1>3, <1>4, Zenon DEF Server!Init

LEMMA StepRefined ==
  ASSUME IInv, Facts, Facts', [Next]_vars
  PROVE  [Server!Next]_<<Requests, Frames[out], stored>>
<1>1. ASSUME NEW p \in Commands, HostAsks(p) PROVE Server!Next
  BY <1>1, AskRefined, Zenon DEF Server!Next
<1>2. ASSUME HostRestarts PROVE Server!Next
  BY <1>2, RestartRefined, Zenon DEF Server!Next
<1>3. ASSUME HostHears PROVE Server!Next
  BY <1>3, HearRefined, Zenon DEF Server!Next
<1>4. ASSUME Arrive \/ ReadByte \/ ReadEnd \/ DecodeEnd PROVE SameToHost
  BY <1>4, ReadingRefined, ReadEndRefined, DecodeEndRefined, Zenon
<1>5. ASSUME DecodeByte PROVE SameToHost \/ Server!Next
  BY <1>5, DecodeByteRefined, Zenon DEF Server!Next
<1>6. ASSUME Process PROVE Server!Next
  BY <1>6, ServeRefined, Zenon DEF Server!Next
<1>7. SameToHost => UNCHANGED <<Requests, Frames[out], stored>>
  BY DEF SameToHost
<1>8. ASSUME UNCHANGED vars PROVE UNCHANGED <<Requests, Frames[out], stored>>
  BY <1>8, StutterRefined
<1> QED
  BY <1>1, <1>2, <1>3, <1>4, <1>5, <1>6, <1>7, <1>8, Zenon DEF Next, Callback

(* However the bytes of the commands come in, and wherever hosts stop and  *)
(* begin afresh, the commands are carried out whole, once and in order,    *)
(* with one reply each: slip.c:19-53, which decodes in place, main.c:58    *)
(* and ui.c:13 implement CommandServer.                                    *)
THEOREM Implements == Spec => LinkIsServer
<1>1. Init => Server!Init
  BY InitRefined
<1>2. IInv => Facts
  BY FactsHold
<1>3. IInv /\ Facts /\ Facts' /\ [Next]_vars => [Server!Next]_<<Requests, Frames[out], stored>>
  BY StepRefined
<1> QED
  BY <1>1, <1>2, <1>3, InvAlways, PTL DEF Spec, LinkIsServer, Server!Spec
=============================================================================
