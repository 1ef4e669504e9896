------------------------ MODULE ControlEndpointProofs ------------------------
(***************************************************************************)
(* Proofs about endpoint 0, for packets of any size, line codings of any   *)
(* length, any requests and any host.                                      *)
(***************************************************************************)
EXTENDS ControlEndpoint, TLAPS

(* The types of the three records.                                         *)
CtrlType ==
  [state : State, req : Request, payload_size : Nat, callback : Callback,
   prev_nb_trans : Nat, nb_trans : Nat, b_shortpacket : BOOLEAN,
   received_bytes : Nat]
Ep0Type ==
  [bank0 : BOOLEAN, byte_count : Nat, bank1 : Packet \cup {NULL},
   halts : SUBSET {"IN", "OUT"}, flags : SUBSET Event, setup : Request, data : Nat]
HostType ==
  [stage : {"idle", "data", "status"}, req : Request, got : Nat,
   intact : BOOLEAN, early : BOOLEAN, result : {"none", "done", "stalled"},
   address : Nat, overlap : BOOLEAN, lost : BOOLEAN]

(* What the host asks for is one of Requests, and a reset forgets it.      *)
Asked ==
  /\ host.req \in Requests \cup {NoRequest}
  /\ ep0.setup \in Requests \cup {NoRequest}
  /\ "EORST" \in ep0.flags => host.req = NoRequest

(* The data stage ends with the last byte asked for, the transfer with an  *)
(* answer.                                                                 *)
Stages ==
  /\ host.stage = "data" => host.got < host.req.wLength
  /\ host.result # "none" => host.stage = "idle"

IInv == TypeOK /\ Asked /\ Stages

-----------------------------------------------------------------------------
(* What a read is to give the host.                                        *)
Expected(r) ==
  IF r.kind = "get_descriptor" /\ r.value < r.wLength THEN r.value ELSE r.wLength

(* The request is yet to be served.                                        *)
Unserved ==
  /\ "RXSTP" \in ep0.flags /\ ep0.flags \cap {"TRCPT1", "TRCPT0"} = {}
  /\ ep0.setup = host.req /\ ep0.bank1 = NULL /\ host.got = 0

(* It has been refused: the host gets no packet.                           *)
Refused ==
  /\ "RXSTP" \notin ep0.flags /\ ep0.bank1 = NULL
  /\ ctrl.state \in {"STALL_REQ", "SETUP"}

(* The payload is being sent.  A short packet is the last.                 *)
Sending ==
  /\ ctrl.state = "DATA_IN" /\ ctrl.req = host.req
  /\ ctrl.payload_size = Expected(host.req)
  /\ ep0.flags \cap {"RXSTP", "TRCPT0", "TRFAIL0"} = {}
  /\ ctrl.b_shortpacket => ctrl.nb_trans = ctrl.payload_size
  /\ ~ctrl.b_shortpacket => ctrl.prev_nb_trans = 0

(* A packet is ready for the host, or the host has taken the last written. *)
Ready ==
  /\ ep0.bank1 \in Packet /\ "TRCPT1" \notin ep0.flags
  /\ ep0.bank1.first = host.got
  /\ ctrl.nb_trans = host.got + ep0.bank1.size
  /\ ctrl.b_shortpacket <=> ep0.bank1.size < EpSize

Taken ==
  /\ ep0.bank1 = NULL /\ "TRCPT1" \in ep0.flags
  /\ ctrl.nb_trans = host.got /\ host.got < host.req.wLength
  /\ ~ctrl.b_shortpacket

ReadPhase ==
  \/ Unserved /\ "TRFAIL0" \notin ep0.flags
  \/ Refused /\ ctrl.state = "STALL_REQ"
       /\ ep0.flags \cap {"TRCPT1", "TRCPT0", "TRFAIL0"} = {}
  \/ Sending /\ (Ready \/ Taken)

ReadInv ==
  Orderly /\ host.req.dir = "in" =>
    /\ host.intact
    /\ host.stage = "status" \/ host.result = "done" => host.got = Expected(host.req)
    /\ host.stage = "data" => host.result = "none" /\ ReadPhase

-----------------------------------------------------------------------------
(* The first n bytes of the line coding are what the host sends.           *)
StoredUpTo(n) == \A i \in 1 .. LineCodingSize : i <= n => line_coding[i] = host.req.value

(* A write of the line coding is accepted and not complete.                *)
Receiving ==
  /\ ctrl.state = "DATA_OUT" /\ ctrl.req = host.req
  /\ host.req.wLength = LineCodingSize /\ ctrl.payload_size = LineCodingSize
  /\ ctrl.prev_nb_trans = 0 /\ ctrl.nb_trans < LineCodingSize
  /\ ep0.bank1 = NULL /\ ep0.flags \cap {"RXSTP", "TRCPT1"} = {}
  /\ StoredUpTo(ctrl.nb_trans)

(* It waits for the next packet, or the packet waits to be stored.         *)
Open ==
  /\ ep0.flags \cap {"TRCPT0", "TRFAIL1"} = {}
  /\ host.got = ctrl.nb_trans /\ host.stage = "data"

Received ==
  /\ "TRCPT0" \in ep0.flags /\ ~ep0.bank0
  /\ ep0.byte_count = AtMost(LineCodingSize - ctrl.nb_trans, EpSize)
  /\ ep0.data = host.req.value
  /\ host.got = ctrl.nb_trans + ep0.byte_count
  /\ host.stage = IF host.got < LineCodingSize THEN "data" ELSE "status"
  /\ "TRFAIL1" \in ep0.flags => host.stage = "status"

(* All of it is stored.                                                    *)
Complete ==
  /\ "RXSTP" \notin ep0.flags
  /\ ctrl.state \in {"WAIT_IN_ZLP", "SETUP"}
  /\ StoredUpTo(LineCodingSize)
  /\ host.stage \in {"status", "idle"}

WritePhase ==
  \/ /\ Unserved /\ host.result = "none"
     /\ host.stage = IF host.req.wLength > 0 THEN "data" ELSE "status"
     /\ "TRFAIL1" \in ep0.flags => host.req.wLength = 0
  \/ Refused /\ host.result = "none"
  \/ Receiving /\ (Open \/ Received) /\ host.result = "none"
  \/ Complete

WriteInv ==
  Orderly /\ host.req.kind = "set_line_coding" /\ host.result # "stalled" => WritePhase

-----------------------------------------------------------------------------
USE SizesAssumption, RequestsAssumption, BoundsAssumption

LEMMA NoRequestType == NoRequest \in Request
BY DEF NoRequest, Request, Kind

LEMMA AtMostType ==
  ASSUME NEW a \in Nat, NEW b \in Nat
  PROVE  AtMost(a, b) \in Nat /\ AtMost(a, b) <= a /\ AtMost(a, b) <= b
         /\ (AtMost(a, b) = a \/ AtMost(a, b) = b)
BY DEF AtMost

(* What the calls of usb.c leave in the endpoint.                          *)
LEMMA OpenOutMoves ==
  ASSUME NEW e \in Ep0Type
  PROVE  /\ OpenOut(e) \in Ep0Type
         /\ OpenOut(e).bank0 /\ OpenOut(e).bank1 = e.bank1
         /\ OpenOut(e).flags = e.flags /\ OpenOut(e).setup = e.setup
         /\ OpenOut(e).data = e.data /\ OpenOut(e).halts = e.halts
BY DEF OpenOut, Ep0Type

LEMMA WriteInMoves ==
  ASSUME NEW e \in Ep0Type, NEW first \in Nat, NEW size \in Nat,
         ep0' = WriteIn(e, first, size)
  PROVE  /\ ep0' \in Ep0Type /\ ep0'.bank1 \in Packet
         /\ ep0'.bank1.first = first /\ ep0'.bank1.size = size
         /\ ep0'.flags = e.flags /\ ep0'.setup = e.setup /\ ep0'.halts = e.halts
<1>1. PICK p \in Packet : p = [first |-> first, size |-> size]
  BY DEF Packet
<1>2. ep0' = [e EXCEPT !.bank1 = p]
  BY <1>1 DEF WriteIn
<1>3. p.first = first /\ p.size = size
  BY <1>1
<1> QED
  BY <1>1, <1>2, <1>3 DEF Ep0Type

LEMMA SendZlpInMoves ==
  ASSUME NEW c \in CtrlType, NEW e \in Ep0Type, SendZlpIn(c, e)
  PROVE  /\ ctrl' \in CtrlType /\ ctrl'.state = "WAIT_IN_ZLP"
         /\ ctrl'.nb_trans = c.nb_trans /\ ctrl'.payload_size = c.payload_size
         /\ ctrl'.req = c.req /\ ctrl'.callback = c.callback
         /\ ep0' \in Ep0Type /\ ep0'.flags = e.flags /\ ep0'.setup = e.setup
         /\ ep0'.halts = e.halts
<1>1. ctrl' = [c EXCEPT !.state = "WAIT_IN_ZLP"]
  BY DEF SendZlpIn
<1>2. ep0' = WriteIn(OpenOut(e), 0, 0)
  BY DEF SendZlpIn
<1>3. /\ ep0' \in Ep0Type /\ ep0'.flags = e.flags /\ ep0'.setup = e.setup
      /\ ep0'.halts = e.halts
  BY <1>2, OpenOutMoves, WriteInMoves
<1> QED
  BY <1>1, <1>3 DEF CtrlType, State

LEMMA StallDataMoves ==
  ASSUME NEW c \in CtrlType, NEW e \in Ep0Type, StallData(c, e)
  PROVE  /\ ctrl' \in CtrlType /\ ctrl'.state = "STALL_REQ"
         /\ ctrl'.nb_trans = c.nb_trans /\ ctrl'.payload_size = c.payload_size
         /\ ep0' \in Ep0Type /\ ep0'.flags = e.flags /\ ep0'.setup = e.setup
         /\ ep0'.bank1 = e.bank1 /\ ctrl'.callback = c.callback /\ ep0'.halts = {"IN"}
<1>1. ctrl' = [c EXCEPT !.state = "STALL_REQ"] /\ ep0' = [e EXCEPT !.halts = {"IN"}]
  BY DEF StallData
<1> QED
  BY <1>1 DEF CtrlType, State, Ep0Type

(* The next packet of the payload, or the end of the data stage.           *)
LEMMA InSentMoves ==
  ASSUME NEW c \in CtrlType, NEW e \in Ep0Type, InSent(c, e),
         c.nb_trans <= c.payload_size
  PROVE  LET remain == c.payload_size - c.nb_trans
             total == c.prev_nb_trans + IF remain = 0 THEN c.nb_trans ELSE 0
             n == AtMost(remain, EpSize)
         IN  /\ ctrl' \in CtrlType /\ ep0' \in Ep0Type
             /\ ctrl'.nb_trans <= ctrl'.payload_size
             /\ ep0'.flags = e.flags /\ ep0'.setup = e.setup /\ ep0'.halts = e.halts
             /\ ctrl'.req = c.req /\ ctrl'.callback = c.callback
             /\ ctrl'.payload_size = c.payload_size
             /\ \/ /\ remain = 0 /\ (c.req.wLength = total \/ c.b_shortpacket)
                   /\ ctrl'.state = "WAIT_OUT_ZLP"
                \/ /\ ~(remain = 0 /\ (c.req.wLength = total \/ c.b_shortpacket))
                   /\ ctrl'.state = c.state
                   /\ ctrl'.prev_nb_trans = total /\ ctrl'.nb_trans = c.nb_trans + n
                   /\ (ctrl'.b_shortpacket <=> n < EpSize)
                   /\ ep0'.bank1 \in Packet
                   /\ ep0'.bank1.first = c.nb_trans /\ ep0'.bank1.size = n
<1> DEFINE remain == c.payload_size - c.nb_trans
           total == c.prev_nb_trans + IF remain = 0 THEN c.nb_trans ELSE 0
           n == AtMost(remain, EpSize)
           last == remain = 0 /\ (c.req.wLength = total \/ c.b_shortpacket)
<1>1. /\ last => /\ ctrl' = [c EXCEPT !.prev_nb_trans = total, !.state = "WAIT_OUT_ZLP"]
                 /\ ep0' = OpenOut(e)
      /\ ~last => /\ ctrl' = [c EXCEPT !.prev_nb_trans = total, !.nb_trans = @ + n,
                                       !.b_shortpacket = n < EpSize]
                  /\ ep0' = WriteIn(e, c.nb_trans, n)
  BY DEF InSent
<1>2. c.nb_trans \in Nat /\ c.payload_size \in Nat /\ c.prev_nb_trans \in Nat
  BY DEF CtrlType
<1>3. remain \in Nat /\ total \in Nat
  BY <1>2
<1>4. n \in Nat /\ n <= remain
  BY <1>3, AtMostType
<1>5. c.nb_trans + n \in Nat /\ c.nb_trans + n <= c.payload_size
  BY <1>2, <1>4
<1> HIDE DEF total, n, last
<1>6. CASE last
  <2>1. /\ ctrl' \in CtrlType /\ ctrl'.state = "WAIT_OUT_ZLP" /\ ctrl'.req = c.req
        /\ ctrl'.payload_size = c.payload_size /\ ctrl'.nb_trans = c.nb_trans
        /\ ctrl'.callback = c.callback
    BY <1>1, <1>3, <1>6 DEF CtrlType, State
  <2>2. /\ ep0' \in Ep0Type /\ ep0'.flags = e.flags /\ ep0'.setup = e.setup
        /\ ep0'.halts = e.halts
    BY <1>1, <1>6, OpenOutMoves
  <2> QED
    BY <1>6, <2>1, <2>2 DEF last, total
<1>7. CASE ~last
  <2>1. PICK short \in BOOLEAN : short <=> n < EpSize
    OBVIOUS
  <2>2. (n < EpSize) = short
    BY <1>4, <2>1
  <2>3. ctrl' = [c EXCEPT !.prev_nb_trans = total, !.nb_trans = c.nb_trans + n,
                          !.b_shortpacket = short]
    BY <1>1, <1>7, <2>2, Zenon
  <2>4. /\ ctrl' \in CtrlType /\ ctrl'.state = c.state /\ ctrl'.req = c.req
        /\ ctrl'.payload_size = c.payload_size /\ ctrl'.nb_trans = c.nb_trans + n
        /\ ctrl'.prev_nb_trans = total /\ (ctrl'.b_shortpacket <=> short)
        /\ ctrl'.callback = c.callback
    BY <1>3, <1>5, <2>3 DEF CtrlType
  <2>5. /\ ep0' \in Ep0Type /\ ep0'.bank1 \in Packet
        /\ ep0'.bank1.first = c.nb_trans /\ ep0'.bank1.size = n
        /\ ep0'.flags = e.flags /\ ep0'.setup = e.setup /\ ep0'.halts = e.halts
    <3>1. c.nb_trans \in Nat /\ n \in Nat
      BY <1>2, <1>4
    <3>2. ep0' = WriteIn(e, c.nb_trans, n)
      BY <1>1, <1>7
    <3> QED
      BY <3>1, <3>2, WriteInMoves
  <2> QED
    BY <1>5, <1>7, <2>1, <2>4, <2>5 DEF last, total, n
<1> QED
  BY <1>6, <1>7

(* The bytes stored, and what follows them.                                *)
LEMMA OutReceivedMoves ==
  ASSUME NEW c \in CtrlType, NEW e \in Ep0Type, OutReceived(c, e),
         c.nb_trans <= c.payload_size, line_coding \in [1 .. LineCodingSize -> Nat],
         c.state = "DATA_OUT"
  PROVE  LET n == AtMost(c.received_bytes, c.payload_size - c.nb_trans)
             stored == c.nb_trans + n
             more == n = EpSize /\ stored < c.payload_size
         IN  /\ ctrl' \in CtrlType /\ ep0' \in Ep0Type
             /\ ctrl'.nb_trans <= ctrl'.payload_size
             /\ ep0'.setup = e.setup /\ ep0'.flags \subseteq e.flags
             /\ line_coding' = Stored(c, e, n)
             /\ ctrl'.state \in {"WAIT_IN_ZLP", "STALL_REQ", "DATA_OUT"}
             /\ ctrl'.callback = c.callback
             /\ c.req.wLength = c.payload_size /\ c.prev_nb_trans = 0 =>
                  ep0'.halts = e.halts
             /\ c.req.wLength = c.payload_size /\ c.prev_nb_trans = 0 =>
                  \/ ~more /\ ctrl'.state = "WAIT_IN_ZLP"
                  \/ /\ more /\ ctrl' = [c EXCEPT !.nb_trans = stored]
                     /\ ep0'.bank1 = e.bank1
                     /\ ep0'.bank0 /\ ep0'.flags = e.flags
<1> DEFINE n == AtMost(c.received_bytes, c.payload_size - c.nb_trans)
           stored == c.nb_trans + n
           d == [c EXCEPT !.nb_trans = stored]
           f == [d EXCEPT !.payload_size = stored]
           g == [d EXCEPT !.state = "STALL_REQ"]
           h == [e EXCEPT !.halts = @ \cup {"OUT"}, !.bank0 = FALSE,
                          !.flags = @ \ {"TRCPT0"}]
           end == n # EpSize \/ c.req.wLength <= c.prev_nb_trans + stored
<1>1. /\ line_coding' = Stored(c, e, n)
      /\ end => SendZlpIn(f, e)
      /\ ~end /\ c.payload_size = stored => ctrl' = g /\ ep0' = h
      /\ ~end /\ c.payload_size # stored => ctrl' = d /\ ep0' = OpenOut(e)
  BY DEF OutReceived
<1>2. /\ c.nb_trans \in Nat /\ c.payload_size \in Nat /\ c.received_bytes \in Nat
      /\ c.prev_nb_trans \in Nat /\ c.req.wLength \in Nat
  BY DEF CtrlType, Request
<1>3. n \in Nat /\ n <= c.payload_size - c.nb_trans
  <2>1. c.payload_size - c.nb_trans \in Nat
    BY <1>2
  <2> QED
    BY <1>2, <2>1, AtMostType
<1>4. stored \in Nat /\ stored <= c.payload_size
  BY <1>2, <1>3
<1> HIDE DEF n, stored
<1>5. /\ d \in CtrlType /\ d.nb_trans = stored /\ d.payload_size = c.payload_size
      /\ d.state = c.state /\ d.callback = c.callback
  BY <1>4 DEF CtrlType
<1> HIDE DEF d
<1>6. /\ f \in CtrlType /\ f.nb_trans = stored /\ f.payload_size = stored
      /\ f.callback = c.callback
  BY <1>4, <1>5 DEF CtrlType
<1>7. /\ g \in CtrlType /\ g.nb_trans = stored /\ g.payload_size = c.payload_size
      /\ g.state = "STALL_REQ" /\ g.callback = c.callback
  BY <1>5 DEF CtrlType, State
<1>8. h \in Ep0Type /\ h.setup = e.setup /\ h.flags \subseteq e.flags
  BY DEF Ep0Type
<1>9. CASE end
  <2>1. /\ ctrl' \in CtrlType /\ ctrl'.state = "WAIT_IN_ZLP"
        /\ ctrl'.nb_trans = stored /\ ctrl'.payload_size = stored
        /\ ep0' \in Ep0Type /\ ep0'.flags = e.flags /\ ep0'.setup = e.setup
        /\ ctrl'.callback = c.callback /\ ep0'.halts = e.halts
    <3> HIDE DEF f
    <3> QED
      BY <1>1, <1>6, <1>9, SendZlpInMoves
  <2>2. c.req.wLength = c.payload_size /\ c.prev_nb_trans = 0 =>
          ~(n = EpSize /\ stored < c.payload_size)
    BY <1>2, <1>4, <1>9
  <2> QED
    BY <1>1, <1>4, <2>1, <2>2 DEF n, stored
<1>10. CASE ~end /\ c.payload_size = stored
  <2>1. ~(c.req.wLength = c.payload_size /\ c.prev_nb_trans = 0)
    BY <1>2, <1>4, <1>10
  <2>2. ctrl' = g /\ ep0' = h
    BY <1>1, <1>10
  <2> HIDE DEF g, h
  <2> QED
    BY <1>1, <1>4, <1>7, <1>8, <2>1, <2>2 DEF n, stored
<1>11. CASE ~end /\ c.payload_size # stored
  <2>1. ctrl' = d /\ ep0' = OpenOut(e)
    BY <1>1, <1>11
  <2>2. /\ ep0' \in Ep0Type /\ ep0'.bank0 /\ ep0'.bank1 = e.bank1
        /\ ep0'.flags = e.flags /\ ep0'.setup = e.setup /\ ep0'.halts = e.halts
    BY <2>1, OpenOutMoves
  <2>3. n = EpSize /\ stored < c.payload_size
    BY <1>2, <1>4, <1>11
  <2>4. c.state = "DATA_OUT" => ctrl'.state = "DATA_OUT"
    BY <1>5, <2>1
  <2> QED
    BY <1>1, <1>4, <1>5, <2>1, <2>2, <2>3 DEF n, stored, d
<1> QED
  BY <1>9, <1>10, <1>11

LEMMA ClearedMoves ==
  ASSUME ep0 \in Ep0Type, NEW f \in Event
  PROVE  /\ Cleared(f) \in Ep0Type
         /\ Cleared(f).flags = ep0.flags \ {f} /\ Cleared(f).bank1 = ep0.bank1
         /\ Cleared(f).setup = ep0.setup /\ Cleared(f).halts = ep0.halts
         /\ Cleared(f).byte_count = ep0.byte_count /\ Cleared(f).data = ep0.data
         /\ (Cleared(f).bank0 <=> ep0.bank0)
BY DEF Cleared, Ep0Type

LEMMA TypeParts ==
  ASSUME TypeOK
  PROVE  /\ ctrl \in CtrlType /\ ep0 \in Ep0Type /\ host \in HostType
         /\ ctrl.nb_trans <= ctrl.payload_size
         /\ address \in Nat /\ configuration \in {0, 1}
         /\ line_coding \in [1 .. LineCodingSize -> Nat]
BY DEF TypeOK, CtrlType, Ep0Type, HostType

(* A payload is never longer than what is asked for.                       *)
LEMMA PayloadType ==
  ASSUME NEW r \in Request
  PROVE  Payload(r) \in Nat
<1>1. r.value \in Nat /\ r.wLength \in Nat
  BY DEF Request
<1>2. AtMost(r.value, r.wLength) \in Nat
  BY <1>1, AtMostType
<1> QED
  BY <1>2 DEF Payload

LEMMA PayloadExpected ==
  ASSUME NEW r \in Requests, NEW a, Accepted(r, a), r.dir = "in"
  PROVE  Payload(r) = Expected(r) /\ Payload(r) \in Nat \ {0}
         /\ Expected(r) <= r.wLength
<1>1. r \in Request /\ r.value \in Nat /\ r.wLength \in Nat
  BY DEF Request
<1>2. r.kind \in {"get_descriptor", "get_configuration", "get_line_coding"}
  BY DEF Accepted, Writing
<1>3. CASE r.kind = "get_descriptor"
  <2>1. r.value > 0 /\ r.wLength > 0
    BY <1>3 DEF Accepted
  <2> QED
    BY <1>1, <1>3, <2>1 DEF Payload, Expected, AtMost
<1>4. CASE r.kind = "get_configuration"
  BY <1>1, <1>4 DEF Accepted, Payload, Expected
<1>5. CASE r.kind = "get_line_coding"
  BY <1>1, <1>5 DEF Accepted, Payload, Expected
<1> QED
  BY <1>2, <1>3, <1>4, <1>5

(* The SETUP packet is served.                                             *)
LEMMA OnSetupMoves ==
  ASSUME IInv, OnSetup
  PROVE  /\ ctrl' \in CtrlType /\ ep0' \in Ep0Type
         /\ ctrl'.nb_trans <= ctrl'.payload_size
         /\ address' \in Nat /\ configuration' \in {0, 1}
         /\ line_coding' \in [1 .. LineCodingSize -> Nat]
         /\ ep0'.flags = ep0.flags \ {"RXSTP"} /\ ep0'.setup = ep0.setup
         /\ ep0.setup.kind # "set_configuration" => line_coding' = line_coding
         /\ address' = IF ctrl.state # "SETUP" THEN AddressAfter(ctrl) ELSE address
         /\ ctrl'.state # "SETUP"
         /\ ctrl'.callback = "udc_valid_address" =>
              /\ ep0.setup.kind = "set_address" /\ ep0.setup.wLength = 0
              /\ ctrl'.state = "WAIT_IN_ZLP" /\ ctrl'.req = ep0.setup /\ ep0'.halts = ep0.halts
         /\ ep0.setup.kind = "set_address" =>
              \/ ctrl'.callback = "udc_valid_address"
              \/ ctrl'.callback = "none" /\ ctrl'.state = "STALL_REQ" /\ ep0'.bank1 = ep0.bank1
         /\ ep0.setup.kind # "set_configuration" => configuration' = configuration
         /\ \/ /\ ~Accepted(ep0.setup, address') /\ configuration' = configuration
               /\ ctrl'.state = "STALL_REQ" /\ ep0'.halts = {"IN"}
            \/ /\ Accepted(ep0.setup, address') /\ ep0'.halts = ep0.halts
               /\ ep0.setup.dir = "in" => ctrl'.state = "DATA_IN"
               /\ ep0.setup.dir = "out" =>
                    ctrl'.state = IF ep0.setup.wLength = 0 THEN "WAIT_IN_ZLP" ELSE "DATA_OUT"
         /\ \E a : LET r == ep0.setup
            IN  \/ ~Accepted(r, a) /\ ctrl'.state = "STALL_REQ" /\ ep0'.bank1 = ep0.bank1
                \/ /\ Accepted(r, a) /\ r.dir = "in"
                   /\ ctrl'.state = "DATA_IN" /\ ctrl'.req = r
                   /\ ctrl'.payload_size = Expected(r) /\ ctrl'.prev_nb_trans = 0
                   /\ ctrl'.nb_trans = AtMost(Expected(r), EpSize)
                   /\ (ctrl'.b_shortpacket <=> ctrl'.nb_trans < EpSize)
                   /\ ep0'.bank1 \in Packet
                   /\ ep0'.bank1.first = 0 /\ ep0'.bank1.size = ctrl'.nb_trans
                \/ Accepted(r, a) /\ r.dir = "out" /\ r.wLength = 0
                \/ /\ Accepted(r, a) /\ r.dir = "out" /\ r.wLength # 0
                   /\ ctrl'.state = "DATA_OUT" /\ ctrl'.req = r
                   /\ ctrl'.payload_size = Payload(r) /\ ctrl'.prev_nb_trans = 0
                   /\ ctrl'.nb_trans = 0 /\ ep0'.bank0 /\ ep0'.bank1 = ep0.bank1
<1> DEFINE r == ep0.setup
           a == IF ctrl.state # "SETUP" THEN AddressAfter(ctrl) ELSE address
           ok == Accepted(r, a)
           e == Cleared("RXSTP")
           c == [state |-> "SETUP", req |-> r,
                 payload_size |-> IF ok THEN Payload(r) ELSE 0,
                 callback |-> IF ok THEN CallbackOf(r) ELSE "none",
                 prev_nb_trans |-> 0, nb_trans |-> 0,
                 b_shortpacket |-> ctrl.b_shortpacket, received_bytes |-> 8]
           in == [c EXCEPT !.state = "DATA_IN"]
           out == [c EXCEPT !.state = "DATA_OUT"]
<1>1. /\ address' = a
      /\ configuration' = IF ok /\ r.kind = "set_configuration" THEN r.value ELSE configuration
      /\ line_coding' = IF configuration' # 0 /\ ok /\ r.kind = "set_configuration"
                        THEN [i \in 1 .. LineCodingSize |-> 0] ELSE line_coding
  BY DEF OnSetup
<1>2. /\ ~ok => StallData(c, e)
      /\ ok /\ r.dir = "in" => InSent(in, OpenOut(e))
      /\ ok /\ r.dir = "out" /\ r.wLength = 0 => SendZlpIn(c, e)
      /\ ok /\ r.dir = "out" /\ r.wLength # 0 => ctrl' = out /\ ep0' = OpenOut(e)
  BY DEF OnSetup
<1>3. /\ ctrl \in CtrlType /\ ep0 \in Ep0Type /\ r \in Request /\ r.wLength \in Nat
      /\ r \in Requests \cup {NoRequest} /\ r.dir \in {"in", "out"}
  BY TypeParts DEF IInv, Asked, Ep0Type, Request
<1>4. a \in Nat /\ configuration' \in {0, 1} /\ line_coding' \in [1 .. LineCodingSize -> Nat]
  <2>1. a \in Nat
    BY <1>3, TypeParts DEF IInv, AddressAfter, CtrlType, Request
  <2>2. ok /\ r.kind = "set_configuration" => r.value \in {0, 1}
    BY <1>3 DEF Accepted, Request
  <2> QED
    BY <1>1, <2>1, <2>2, TypeParts DEF IInv
<1>5. ep0.setup.kind # "set_configuration" => line_coding' = line_coding
  BY <1>1
<1>6. /\ e \in Ep0Type /\ e.flags = ep0.flags \ {"RXSTP"} /\ e.bank1 = ep0.bank1
      /\ e.setup = ep0.setup /\ e.halts = ep0.halts
  BY <1>3, ClearedMoves DEF Event
<1>7. (IF ok THEN Payload(r) ELSE 0) \in Nat
  BY <1>3, PayloadType
<1>8. (IF ok THEN CallbackOf(r) ELSE "none") \in Callback
  BY DEF CallbackOf, Callback
<1>9. /\ c \in CtrlType /\ c.nb_trans = 0 /\ c.prev_nb_trans = 0 /\ c.req = r
      /\ c.payload_size = (IF ok THEN Payload(r) ELSE 0)
      /\ c.callback = (IF ok THEN CallbackOf(r) ELSE "none")
  <2> HIDE DEF ok, r
  <2> QED
    BY <1>3, <1>7, <1>8 DEF CtrlType, State
<1>10. /\ in \in CtrlType /\ in.nb_trans = 0 /\ in.prev_nb_trans = 0 /\ in.req = r
       /\ in.payload_size = c.payload_size /\ in.state = "DATA_IN"
       /\ in.callback = c.callback
  <2> HIDE DEF c
  <2> QED
    BY <1>9 DEF CtrlType, State
<1>11. /\ out \in CtrlType /\ out.nb_trans = 0 /\ out.prev_nb_trans = 0 /\ out.req = r
       /\ out.payload_size = c.payload_size /\ out.state = "DATA_OUT"
       /\ out.callback = c.callback
  <2> HIDE DEF c
  <2> QED
    BY <1>9 DEF CtrlType, State
<1>12. /\ OpenOut(e) \in Ep0Type /\ OpenOut(e).bank1 = ep0.bank1 /\ OpenOut(e).bank0
       /\ OpenOut(e).flags = ep0.flags \ {"RXSTP"} /\ OpenOut(e).setup = ep0.setup
       /\ OpenOut(e).halts = ep0.halts
  <2> HIDE DEF e
  <2> QED
    BY <1>6, OpenOutMoves
<1> HIDE DEF a, ok, e, c, in, out
<1>13. /\ c.callback = "udc_valid_address" <=> ok /\ r.kind = "set_address"
       /\ ~ok => c.callback = "none"
       /\ ok /\ r.kind = "set_address" => r.wLength = 0 /\ r.dir = "out"
  <2>1. r.kind = "set_address" => r.dir = "out"
    BY <1>3 DEF NoRequest, Writing
  <2>2. ok /\ r.kind = "set_address" => r.wLength = 0
    BY DEF ok, Accepted
  <2> QED
    BY <1>9, <2>1, <2>2 DEF CallbackOf
<1>14. address' = IF ctrl.state # "SETUP" THEN AddressAfter(ctrl) ELSE address
  BY <1>1 DEF a
<1>15. /\ ok <=> Accepted(ep0.setup, address')
       /\ r.kind # "set_configuration" \/ ~ok => configuration' = configuration
  BY <1>1 DEF ok
<1>16. CASE ~ok
  <2>1. StallData(c, e)
    BY <1>2, <1>16
  <2>2. /\ ctrl' \in CtrlType /\ ctrl'.state = "STALL_REQ"
        /\ ctrl'.nb_trans = 0 /\ ctrl'.payload_size = 0
        /\ ep0' \in Ep0Type /\ ep0'.flags = e.flags /\ ep0'.setup = e.setup
        /\ ep0'.bank1 = e.bank1 /\ ctrl'.callback = c.callback /\ ep0'.halts = {"IN"}
    BY <1>6, <1>9, <1>16, <2>1, StallDataMoves
  <2> QED
    BY <1>1, <1>4, <1>5, <1>6, <1>16, <2>2, <1>13, <1>14, <1>15 DEF ok
<1>17. CASE ok /\ r.dir = "in"
  <2>1. InSent(in, OpenOut(e))
    BY <1>2, <1>17
  <2>2. Payload(r) = Expected(r) /\ Expected(r) \in Nat \ {0}
    BY <1>3, <1>17, PayloadExpected DEF ok, NoRequest
  <2>3. in.payload_size = Expected(r) /\ in.nb_trans <= in.payload_size
    BY <1>9, <1>10, <1>17, <2>2
  <2>4. in.payload_size - in.nb_trans = Expected(r) /\ Expected(r) # 0
    BY <1>10, <2>2, <2>3
  <2>5. /\ ctrl' \in CtrlType /\ ep0' \in Ep0Type
        /\ ctrl'.nb_trans <= ctrl'.payload_size
        /\ ep0'.flags = OpenOut(e).flags /\ ep0'.setup = OpenOut(e).setup
        /\ ep0'.halts = OpenOut(e).halts
        /\ ctrl'.req = in.req /\ ctrl'.callback = in.callback
        /\ ctrl'.payload_size = in.payload_size
        /\ ctrl'.state = in.state
        /\ ctrl'.prev_nb_trans = in.prev_nb_trans + 0
        /\ ctrl'.nb_trans = in.nb_trans + AtMost(Expected(r), EpSize)
        /\ (ctrl'.b_shortpacket <=> AtMost(Expected(r), EpSize) < EpSize)
        /\ ep0'.bank1 \in Packet
        /\ ep0'.bank1.first = in.nb_trans /\ ep0'.bank1.size = AtMost(Expected(r), EpSize)
    BY <1>10, <1>12, <2>1, <2>3, <2>4, InSentMoves
  <2>6. AtMost(Expected(r), EpSize) \in Nat
    BY <2>2, AtMostType
  <2>7. ctrl'.prev_nb_trans = 0 /\ ctrl'.nb_trans = AtMost(Expected(r), EpSize)
    BY <1>10, <2>5, <2>6
  <2> QED
    BY <1>1, <1>4, <1>5, <1>10, <1>12, <1>17, <2>3, <2>5, <2>7, <1>13, <1>14, <1>15 DEF ok
<1>18. CASE ok /\ r.dir = "out" /\ r.wLength = 0
  <2>1. SendZlpIn(c, e)
    BY <1>2, <1>18
  <2>2. /\ ctrl' \in CtrlType
        /\ ctrl'.nb_trans = c.nb_trans /\ ctrl'.payload_size = c.payload_size
        /\ ep0' \in Ep0Type /\ ep0'.flags = e.flags /\ ep0'.setup = e.setup
        /\ ctrl'.state = "WAIT_IN_ZLP" /\ ctrl'.req = c.req
        /\ ctrl'.callback = c.callback /\ ep0'.halts = e.halts
    BY <1>6, <1>9, <2>1, SendZlpInMoves
  <2>3. ctrl'.nb_trans <= ctrl'.payload_size
    BY <1>7, <1>9, <2>2
  <2> QED
    BY <1>1, <1>4, <1>5, <1>6, <1>9, <1>18, <2>2, <2>3, <1>13, <1>14, <1>15 DEF ok
<1>19. CASE ok /\ r.dir = "out" /\ r.wLength # 0
  <2>1. ctrl' = out /\ ep0' = OpenOut(e)
    BY <1>2, <1>19
  <2>2. ctrl'.nb_trans <= ctrl'.payload_size
    BY <1>7, <1>9, <1>11, <2>1
  <2> QED
    BY <1>1, <1>4, <1>5, <1>9, <1>11, <1>12, <1>19, <2>1, <2>2, <1>13, <1>14, <1>15 DEF ok
<1> QED
  BY <1>3, <1>16, <1>17, <1>18, <1>19

(* A packet was sent or received.                                          *)
LEMMA TransferOkMoves ==
  ASSUME IInv, NEW f \in {"TRCPT1", "TRCPT0"}, TransferOk(f)
  PROVE  \E c \in CtrlType :
           /\ c.state = ctrl.state /\ c.req = ctrl.req /\ c.payload_size = ctrl.payload_size
           /\ c.prev_nb_trans = ctrl.prev_nb_trans /\ c.nb_trans = ctrl.nb_trans
           /\ (c.b_shortpacket <=> ctrl.b_shortpacket) /\ c.callback = ctrl.callback
           /\ f = "TRCPT0" => c.received_bytes = ep0.byte_count
           /\ \/ c.state = "DATA_OUT" /\ OutReceived(c, Cleared(f)) /\ UNCHANGED address
              \/ c.state = "DATA_IN" /\ InSent(c, Cleared(f)) /\ UNCHANGED <<address, line_coding>>
              \/ /\ c.state \notin {"DATA_OUT", "DATA_IN"} /\ UNCHANGED line_coding
                 /\ ctrl' \in CtrlType /\ ctrl'.state = "SETUP"
                 /\ ctrl'.nb_trans = c.nb_trans /\ ctrl'.payload_size = c.payload_size
                 /\ ctrl'.callback = c.callback /\ ctrl'.req = c.req
                 /\ ep0' = Cleared(f) /\ address' \in Nat /\ address' = AddressAfter(c)
<1> DEFINE c == IF f = "TRCPT0" THEN [ctrl EXCEPT !.received_bytes = ep0.byte_count] ELSE ctrl
           done == [c EXCEPT !.state = "SETUP"]
<1>1. ctrl \in CtrlType /\ ep0.byte_count \in Nat
  BY TypeParts DEF IInv, Ep0Type
<1>2. /\ c \in CtrlType
      /\ c.state = ctrl.state /\ c.req = ctrl.req /\ c.payload_size = ctrl.payload_size
      /\ c.prev_nb_trans = ctrl.prev_nb_trans /\ c.nb_trans = ctrl.nb_trans
      /\ (c.b_shortpacket <=> ctrl.b_shortpacket) /\ c.callback = ctrl.callback
      /\ f = "TRCPT0" => c.received_bytes = ep0.byte_count
  BY <1>1 DEF CtrlType
<1>3. /\ c.state = "DATA_OUT" => OutReceived(c, Cleared(f)) /\ UNCHANGED address
      /\ c.state = "DATA_IN" => InSent(c, Cleared(f)) /\ UNCHANGED <<address, line_coding>>
      /\ c.state \notin {"DATA_OUT", "DATA_IN"} =>
           /\ address' = AddressAfter(c) /\ ctrl' = done
           /\ ep0' = Cleared(f) /\ UNCHANGED line_coding
  BY DEF TransferOk
<1> HIDE DEF c
<1>4. AddressAfter(c) \in Nat
  BY <1>2, TypeParts DEF IInv, AddressAfter, CtrlType, Request
<1>5. /\ done \in CtrlType /\ done.state = "SETUP"
      /\ done.nb_trans = c.nb_trans /\ done.payload_size = c.payload_size
      /\ done.callback = c.callback /\ done.req = c.req
  BY <1>2 DEF CtrlType, State
<1> QED
  BY <1>2, <1>3, <1>4, <1>5

(* The types that a step of the interrupt has to keep.                     *)
Kept ==
  /\ ctrl' \in CtrlType /\ ep0' \in Ep0Type
  /\ ctrl'.nb_trans <= ctrl'.payload_size
  /\ address' \in Nat /\ configuration' \in {0, 1}
  /\ line_coding' \in [1 .. LineCodingSize -> Nat]
  /\ ep0'.flags \subseteq ep0.flags /\ ep0'.setup = ep0.setup

LEMMA TransferOkKept ==
  ASSUME IInv, NEW f \in {"TRCPT1", "TRCPT0"}, TransferOk(f)
  PROVE  Kept
<1>1. PICK c \in CtrlType :
        /\ c.state = ctrl.state /\ c.payload_size = ctrl.payload_size
        /\ c.nb_trans = ctrl.nb_trans
        /\ \/ c.state = "DATA_OUT" /\ OutReceived(c, Cleared(f)) /\ UNCHANGED address
           \/ c.state = "DATA_IN" /\ InSent(c, Cleared(f)) /\ UNCHANGED <<address, line_coding>>
           \/ /\ c.state \notin {"DATA_OUT", "DATA_IN"} /\ UNCHANGED line_coding
              /\ ctrl' \in CtrlType /\ ctrl'.state = "SETUP"
              /\ ctrl'.nb_trans = c.nb_trans /\ ctrl'.payload_size = c.payload_size
              /\ ep0' = Cleared(f) /\ address' \in Nat
  BY TransferOkMoves
<1>2. /\ ctrl.nb_trans <= ctrl.payload_size /\ address \in Nat
      /\ configuration' \in {0, 1} /\ line_coding \in [1 .. LineCodingSize -> Nat]
  BY TypeParts DEF IInv, TransferOk
<1>3. /\ Cleared(f) \in Ep0Type /\ Cleared(f).flags \subseteq ep0.flags
      /\ Cleared(f).setup = ep0.setup /\ Cleared(f).data \in Nat
  BY ClearedMoves, TypeParts DEF IInv, Event, Ep0Type
<1>4. CASE c.state = "DATA_OUT" /\ OutReceived(c, Cleared(f)) /\ UNCHANGED address
  <2> DEFINE n == AtMost(c.received_bytes, c.payload_size - c.nb_trans)
  <2>1. /\ ctrl' \in CtrlType /\ ep0' \in Ep0Type /\ ctrl'.nb_trans <= ctrl'.payload_size
        /\ ep0'.setup = Cleared(f).setup /\ ep0'.flags \subseteq Cleared(f).flags
        /\ line_coding' = Stored(c, Cleared(f), n)
    BY <1>1, <1>2, <1>3, <1>4, OutReceivedMoves
  <2> HIDE DEF n
  <2>2. line_coding' \in [1 .. LineCodingSize -> Nat]
    BY <1>2, <1>3, <2>1 DEF Stored
  <2> QED
    BY <1>2, <1>3, <1>4, <2>1, <2>2 DEF Kept
<1>5. CASE c.state = "DATA_IN" /\ InSent(c, Cleared(f)) /\ UNCHANGED <<address, line_coding>>
  <2>1. /\ ctrl' \in CtrlType /\ ep0' \in Ep0Type /\ ctrl'.nb_trans <= ctrl'.payload_size
        /\ ep0'.setup = Cleared(f).setup /\ ep0'.flags = Cleared(f).flags
    BY <1>1, <1>2, <1>3, <1>5, InSentMoves
  <2> QED
    BY <1>2, <1>3, <1>5, <2>1 DEF Kept
<1>6. CASE /\ UNCHANGED line_coding
           /\ ctrl' \in CtrlType
           /\ ctrl'.nb_trans = c.nb_trans /\ ctrl'.payload_size = c.payload_size
           /\ ep0' = Cleared(f) /\ address' \in Nat
  BY <1>1, <1>2, <1>3, <1>6 DEF Kept
<1> QED
  BY <1>1, <1>4, <1>5, <1>6

(* The two handlers of packets that failed touch the state, or a halt.     *)
LEMMA UnderflowMoves ==
  ASSUME IInv, Underflow
  PROVE  /\ ctrl' \in CtrlType /\ ep0' \in Ep0Type
         /\ ctrl'.nb_trans = ctrl.nb_trans /\ ctrl'.payload_size = ctrl.payload_size
         /\ ep0'.flags = ep0.flags \ {"TRFAIL1"} /\ ep0'.setup = ep0.setup
         /\ UNCHANGED <<address, configuration, line_coding, host, left>>
         /\ ctrl'.callback = ctrl.callback
         /\ ctrl.state = "DATA_OUT" => ctrl'.state = "WAIT_IN_ZLP"
         /\ ctrl.state # "WAIT_OUT_ZLP" => ep0'.halts = ep0.halts
         /\ ep0'.halts \subseteq ep0.halts \cup {"IN"}
         /\ ctrl.state # "DATA_OUT" =>
              /\ ctrl' = ctrl /\ ep0'.bank1 = ep0.bank1
              /\ ep0'.byte_count = ep0.byte_count /\ ep0'.data = ep0.data
              /\ (ep0'.bank0 <=> ep0.bank0)
<1> DEFINE e == Cleared("TRFAIL1")
           h == [e EXCEPT !.halts = @ \cup {"IN"}]
<1>1. /\ ctrl.state = "DATA_OUT" => SendZlpIn(ctrl, e)
      /\ ctrl.state # "DATA_OUT" => ctrl' = ctrl /\ ep0' \in {e, h}
      /\ ctrl.state \notin {"DATA_OUT", "WAIT_OUT_ZLP"} => ep0' = e
      /\ UNCHANGED <<address, configuration, line_coding, host, left>>
  BY DEF Underflow
<1>2. /\ e \in Ep0Type /\ e.flags = ep0.flags \ {"TRFAIL1"} /\ e.bank1 = ep0.bank1
      /\ e.setup = ep0.setup /\ e.byte_count = ep0.byte_count /\ e.data = ep0.data
      /\ (e.bank0 <=> ep0.bank0) /\ e.halts = ep0.halts
  BY ClearedMoves, TypeParts DEF IInv, Event
<1>3. ctrl \in CtrlType
  BY TypeParts DEF IInv
<1> HIDE DEF e
<1>4. CASE ctrl.state = "DATA_OUT"
  <2>1. SendZlpIn(ctrl, e)
    BY <1>1, <1>4
  <2> QED
    BY <1>1, <1>2, <1>3, <1>4, <2>1, SendZlpInMoves
<1>5. CASE ctrl.state # "DATA_OUT"
  <2>1. /\ h \in Ep0Type /\ h.flags = e.flags /\ h.bank1 = e.bank1
        /\ h.setup = e.setup /\ h.byte_count = e.byte_count /\ h.data = e.data
        /\ (h.bank0 <=> e.bank0) /\ h.halts = e.halts \cup {"IN"}
    BY <1>2 DEF Ep0Type
  <2> HIDE DEF h
  <2>2. ep0' = e \/ ep0' = h
    BY <1>1, <1>5
  <2> QED
    BY <1>1, <1>2, <1>3, <1>5, <2>1, <2>2
<1> QED
  BY <1>4, <1>5

LEMMA OverflowMoves ==
  ASSUME IInv, Overflow
  PROVE  /\ ctrl' \in CtrlType /\ ep0' \in Ep0Type
         /\ ctrl'.nb_trans = ctrl.nb_trans /\ ctrl'.payload_size = ctrl.payload_size
         /\ ep0'.flags = ep0.flags \ {"TRFAIL0"} /\ ep0'.setup = ep0.setup
         /\ UNCHANGED <<address, configuration, line_coding, host, left>>
         /\ ep0'.bank1 = ep0.bank1
         /\ ep0'.byte_count = ep0.byte_count /\ ep0'.data = ep0.data
         /\ (ep0'.bank0 <=> ep0.bank0)
         /\ ep0'.halts \subseteq ep0.halts \cup {"OUT"}
         /\ ctrl.state # "WAIT_IN_ZLP" => ep0'.halts = ep0.halts
         /\ ctrl'.callback = ctrl.callback
         /\ ctrl.state = "DATA_IN" => ctrl'.state = "WAIT_OUT_ZLP"
         /\ ctrl.state # "DATA_IN" => ctrl' = ctrl
<1> DEFINE e == Cleared("TRFAIL0")
           h == [e EXCEPT !.halts = @ \cup {"OUT"}]
           c == [ctrl EXCEPT !.state = "WAIT_OUT_ZLP"]
<1>1. /\ ctrl.state = "DATA_IN" => ctrl' = c
      /\ ctrl.state # "DATA_IN" => ctrl' = ctrl
      /\ ep0' \in {e, h} /\ (ctrl.state # "WAIT_IN_ZLP" => ep0' = e)
      /\ UNCHANGED <<address, configuration, line_coding, host, left>>
  BY DEF Overflow
<1>2. /\ e \in Ep0Type /\ e.flags = ep0.flags \ {"TRFAIL0"} /\ e.bank1 = ep0.bank1
      /\ e.setup = ep0.setup /\ e.byte_count = ep0.byte_count /\ e.data = ep0.data
      /\ (e.bank0 <=> ep0.bank0) /\ e.halts = ep0.halts
  BY ClearedMoves, TypeParts DEF IInv, Event
<1> HIDE DEF e
<1>3. /\ h \in Ep0Type /\ h.flags = e.flags /\ h.bank1 = e.bank1
      /\ h.setup = e.setup /\ h.byte_count = e.byte_count /\ h.data = e.data
      /\ (h.bank0 <=> e.bank0) /\ h.halts = e.halts \cup {"OUT"}
  BY <1>2 DEF Ep0Type
<1>4. /\ ctrl \in CtrlType /\ c \in CtrlType
      /\ c.nb_trans = ctrl.nb_trans /\ c.payload_size = ctrl.payload_size
      /\ c.callback = ctrl.callback /\ c.state = "WAIT_OUT_ZLP"
  BY TypeParts DEF IInv, CtrlType, State
<1> HIDE DEF h, c
<1> QED
  BY <1>1, <1>2, <1>3, <1>4

LEMMA OnBusResetMoves ==
  ASSUME IInv, OnBusReset
  PROVE  /\ Kept /\ ctrl'.state = "SETUP" /\ ep0'.flags = ep0.flags \ {"EORST"}
         /\ address' = 0 /\ UNCHANGED <<line_coding, host, left>>
<1> DEFINE e == Cleared("EORST")
<1>1. /\ ctrl' = [ctrl EXCEPT !.state = "SETUP"] /\ ep0' = OpenOut(e)
      /\ address' = 0 /\ configuration' = 0
      /\ UNCHANGED <<line_coding, host, left>>
  BY DEF OnBusReset
<1>2. e \in Ep0Type /\ e.flags = ep0.flags \ {"EORST"} /\ e.setup = ep0.setup
  BY ClearedMoves, TypeParts DEF IInv, Event
<1> HIDE DEF e
<1>3. ep0' \in Ep0Type /\ ep0'.flags = e.flags /\ ep0'.setup = e.setup
  BY <1>1, <1>2, OpenOutMoves
<1>4. /\ ctrl' \in CtrlType /\ ctrl'.state = "SETUP"
      /\ ctrl'.nb_trans = ctrl.nb_trans /\ ctrl'.payload_size = ctrl.payload_size
  BY <1>1, TypeParts DEF IInv, CtrlType, State
<1>5. ctrl.nb_trans <= ctrl.payload_size /\ line_coding \in [1 .. LineCodingSize -> Nat]
  BY TypeParts DEF IInv
<1> QED
  BY <1>1, <1>2, <1>3, <1>4, <1>5 DEF Kept

-----------------------------------------------------------------------------
(* The host's steps.                                                       *)
LEMMA HostSetupMoves ==
  ASSUME IInv, HostSetup
  PROVE  \E r \in Requests :
           /\ ep0' \in Ep0Type /\ host' \in HostType
           /\ ep0'.flags = ep0.flags \cup {"RXSTP"} /\ ep0'.setup = r
           /\ ep0'.bank1 = NULL
           /\ host'.req = r /\ host'.got = 0 /\ host'.intact /\ host'.result = "none"
           /\ host'.stage = IF r.wLength > 0 THEN "data" ELSE "status"
           /\ (host'.overlap <=> ep0.flags # {})
           /\ (host'.lost <=> host.lost \/ (host.stage # "idle" /\ host.req.kind = "set_address"))
           /\ host'.address = host.address /\ ep0'.halts = {}
           /\ address = host.address
           /\ "EORST" \notin ep0.flags /\ "RXSTP" \notin ep0.flags
           /\ UNCHANGED <<ctrl, address, configuration, line_coding>>
<1>1. /\ ep0 \in Ep0Type /\ host \in HostType
  BY TypeParts DEF IInv
<1>2. PICK r \in Requests, open \in {FALSE, ep0.bank0} :
        /\ ep0' = [ep0 EXCEPT !.bank0 = open, !.bank1 = NULL, !.halts = {},
                             !.flags = @ \cup {"RXSTP"}, !.setup = r]
        /\ host' = [host EXCEPT !.req = r, !.got = 0, !.intact = TRUE,
                     !.stage = IF r.wLength > 0 THEN "data" ELSE "status",
                     !.early = FALSE, !.result = "none",
                     !.overlap = ep0.flags # {},
                     !.lost = @ \/ (host.stage # "idle" /\ host.req.kind = "set_address")]
  BY DEF HostSetup
<1>3. open \in BOOLEAN /\ r \in Request
  BY <1>1 DEF Ep0Type
<1>4. PICK overlap, lost \in BOOLEAN :
        /\ overlap = (ep0.flags # {})
        /\ lost = (host.lost \/ (host.stage # "idle" /\ host.req.kind = "set_address"))
  BY DEF HostType
<1>5. PICK stage \in {"data", "status"} : stage = IF r.wLength > 0 THEN "data" ELSE "status"
  OBVIOUS
<1>6. host' = [host EXCEPT !.req = r, !.got = 0, !.intact = TRUE, !.stage = stage,
                 !.early = FALSE, !.result = "none", !.overlap = overlap, !.lost = lost]
  BY <1>2, <1>4, <1>5, Zenon
<1>7. /\ host' \in HostType /\ host'.req = r /\ host'.got = 0 /\ host'.intact
      /\ host'.result = "none" /\ host'.stage = stage /\ (host'.overlap <=> overlap)
      /\ host'.address = host.address /\ (host'.lost <=> lost)
  BY <1>1, <1>3, <1>6 DEF HostType
<1>8. /\ ep0' \in Ep0Type /\ ep0'.flags = ep0.flags \cup {"RXSTP"} /\ ep0'.setup = r
      /\ ep0'.bank1 = NULL /\ ep0'.halts = {}
  BY <1>1, <1>2, <1>3 DEF Ep0Type, Event
<1>9. /\ "EORST" \notin ep0.flags /\ "RXSTP" \notin ep0.flags /\ address = host.address
      /\ UNCHANGED <<ctrl, address, configuration, line_coding>>
  BY DEF HostSetup, Listening
<1> QED
  BY <1>4, <1>5, <1>7, <1>8, <1>9

(* A packet to the host, in the data stage or the status stage.            *)
LEMMA HostTakesMoves ==
  ASSUME IInv, HostTakes
  PROVE  /\ ep0' \in Ep0Type /\ host' \in HostType
         /\ ep0'.flags = ep0.flags \cup {"TRCPT1"} /\ ep0'.setup = ep0.setup
         /\ ep0'.bank1 = NULL /\ ep0.bank1 \in Packet /\ ep0.bank1 # NULL
         /\ host'.req = host.req /\ (host'.early <=> host.early)
         /\ (host'.overlap <=> host.overlap) /\ (host'.lost <=> host.lost)
         /\ ep0'.halts = ep0.halts /\ "EORST" \notin ep0.flags /\ address = host.address
         /\ "IN" \notin ep0.halts
         /\ \/ /\ host.stage = "data" /\ host.req.dir = "in"
               /\ host'.got = host.got + ep0.bank1.size
               /\ (host'.intact <=> host.intact /\ ep0.bank1.first = host.got)
               /\ host'.result = host.result /\ host'.address = host.address
               /\ host'.stage = IF \/ ep0.bank1.size < EpSize
                                   \/ host.got + ep0.bank1.size >= host.req.wLength
                                THEN "status" ELSE "data"
            \/ /\ host.stage = "status"
               /\ host.req.dir = "in" => host.req.wLength = 0
               /\ host'.got = host.got /\ (host'.intact <=> host.intact)
               /\ host'.result = "done" /\ host'.stage = "idle"
               /\ host'.address = IF host.req.kind = "set_address" THEN host.req.value
                                                             ELSE host.address
         /\ UNCHANGED <<ctrl, address, configuration, line_coding, left>>
<1>1. /\ ep0 \in Ep0Type /\ host \in HostType /\ ep0.bank1 \in Packet /\ ep0.bank1 # NULL
      /\ host.req.wLength \in Nat /\ host.got \in Nat /\ ep0.bank1.size \in Nat
  BY TypeParts DEF IInv, HostTakes, Ep0Type, HostType, Request, Packet
<1>2. ep0' = [ep0 EXCEPT !.bank1 = NULL, !.flags = @ \cup {"TRCPT1"}]
  BY DEF HostTakes
<1>3. /\ ep0' \in Ep0Type /\ ep0'.flags = ep0.flags \cup {"TRCPT1"}
      /\ ep0'.setup = ep0.setup /\ ep0'.bank1 = NULL /\ ep0'.halts = ep0.halts
  BY <1>1, <1>2 DEF Ep0Type, Event
<1>4. /\ host.stage \in {"data", "status"} /\ Direction = "IN"
      /\ "EORST" \notin ep0.flags /\ address = host.address
  BY <1>1 DEF HostTakes, Asks, Listening, HostType
<1>5. CASE host.stage = "data"
  <2>1. host.req.dir = "in"
    BY <1>4, <1>5 DEF Direction
  <2>2. PICK stage \in {"data", "status"} :
          stage = IF \/ ep0.bank1.size < EpSize
                     \/ host.got + ep0.bank1.size >= host.req.wLength
                  THEN "status" ELSE "data"
    OBVIOUS
  <2>3. PICK intact \in BOOLEAN : intact = (host.intact /\ ep0.bank1.first = host.got)
    OBVIOUS
  <2>4. host' = Read(host, ep0.bank1)
    BY <1>5 DEF HostTakes
  <2>5. host' = [host EXCEPT !.got = host.got + ep0.bank1.size, !.intact = intact, !.stage = stage]
    BY <2>2, <2>3, <2>4, Zenon DEF Read
  <2>6. host.got + ep0.bank1.size \in Nat
    BY <1>1
  <2>7. /\ host' \in HostType /\ host'.req = host.req /\ host'.got = host.got + ep0.bank1.size
        /\ (host'.intact <=> intact) /\ host'.result = host.result /\ host'.stage = stage
        /\ (host'.early <=> host.early) /\ (host'.overlap <=> host.overlap)
        /\ (host'.lost <=> host.lost) /\ host'.address = host.address
    BY <1>1, <2>5, <2>6 DEF HostType
  <2> QED
    BY <1>1, <1>3, <1>4, <1>5, <2>1, <2>2, <2>3, <2>7 DEF HostTakes
<1>6. CASE host.stage = "status"
  <2>1. host.req.dir = "in" => host.req.wLength = 0
    BY <1>1, <1>4, <1>6 DEF Direction
  <2>2. PICK addr \in Nat :
          addr = IF host.req.kind = "set_address" THEN host.req.value ELSE host.address
    BY <1>1 DEF HostType, Request
  <2>3. host' = Done(host)
    BY <1>6 DEF HostTakes
  <2>4. host' = [host EXCEPT !.stage = "idle", !.result = "done", !.address = addr]
    BY <2>2, <2>3, Zenon DEF Done
  <2>5. /\ host' \in HostType /\ host'.req = host.req /\ host'.got = host.got
        /\ (host'.intact <=> host.intact) /\ host'.result = "done" /\ host'.stage = "idle"
        /\ (host'.early <=> host.early) /\ (host'.overlap <=> host.overlap)
        /\ (host'.lost <=> host.lost) /\ host'.address = addr
    BY <1>1, <2>4 DEF HostType
  <2> QED
    BY <1>1, <1>3, <1>4, <1>6, <2>1, <2>2, <2>5 DEF HostTakes
<1> QED
  BY <1>4, <1>5, <1>6

(* A packet from the host, in the data stage or the status stage.          *)
LEMMA HostSendsMoves ==
  ASSUME IInv, HostSends
  PROVE  LET n == AtMost(host.req.wLength - host.got, EpSize)
         IN  /\ ep0' \in Ep0Type /\ host' \in HostType
             /\ "RXSTP" \notin ep0.flags /\ ep0.bank0 /\ ~ep0'.bank0
             /\ ep0'.flags = ep0.flags \cup {"TRCPT0"} /\ ep0'.setup = ep0.setup
             /\ ep0'.bank1 = ep0.bank1
             /\ host'.req = host.req /\ (host'.early <=> host.early)
             /\ (host'.overlap <=> host.overlap) /\ (host'.intact <=> host.intact)
             /\ (host'.lost <=> host.lost) /\ ep0'.halts = ep0.halts
             /\ "EORST" \notin ep0.flags /\ address = host.address
             /\ \/ /\ host.stage = "data" /\ host.req.dir # "in"
                   /\ ep0'.byte_count = n /\ ep0'.data = host.req.value
                   /\ host'.got = host.got + n /\ host'.result = host.result
                   /\ host'.address = host.address
                   /\ host'.stage = IF host.got + n < host.req.wLength THEN "data" ELSE "status"
                \/ /\ host.stage = "status" /\ host.req.dir = "in" /\ host.req.wLength > 0
                   /\ host'.got = host.got
                   /\ host'.result = "done" /\ host'.stage = "idle"
                   /\ host.req.kind # "set_address" => host'.address = host.address
             /\ UNCHANGED <<ctrl, address, configuration, line_coding, left>>
<1> DEFINE n == AtMost(host.req.wLength - host.got, EpSize)
           m == IF host.stage = "data" THEN n ELSE 0
<1>1. /\ ep0 \in Ep0Type /\ host \in HostType
      /\ host.req.wLength \in Nat /\ host.got \in Nat /\ host.req.value \in Nat
  BY TypeParts DEF IInv, HostType, Request
<1>2. /\ host.stage \in {"data", "status"} /\ Direction = "OUT"
      /\ "EORST" \notin ep0.flags /\ address = host.address
  BY <1>1 DEF HostSends, Asks, Listening, HostType
<1>3. host.stage = "data" => n \in Nat /\ n > 0
  BY <1>1 DEF IInv, Stages, AtMost
<1> HIDE DEF n
<1>4. m \in Nat /\ (host.stage = "status" => m = 0)
  BY <1>2, <1>3
<1>5. PICK data \in Nat : data = IF m > 0 THEN host.req.value ELSE ep0.data
  BY <1>1 DEF Ep0Type
<1>6. ep0' = [ep0 EXCEPT !.bank0 = FALSE, !.flags = @ \cup {"TRCPT0"},
                         !.byte_count = m, !.data = IF m > 0 THEN host.req.value ELSE @]
  BY DEF HostSends, n
<1> HIDE DEF m
<1>7. ep0' = [ep0 EXCEPT !.bank0 = FALSE, !.flags = @ \cup {"TRCPT0"},
                         !.byte_count = m, !.data = data]
  BY <1>5, <1>6, Zenon
<1>8. /\ ep0' \in Ep0Type /\ ~ep0'.bank0 /\ ep0'.flags = ep0.flags \cup {"TRCPT0"}
      /\ ep0'.setup = ep0.setup /\ ep0'.bank1 = ep0.bank1
      /\ ep0'.byte_count = m /\ ep0'.data = data /\ ep0'.halts = ep0.halts
  BY <1>1, <1>4, <1>7 DEF Ep0Type, Event
<1>9. CASE host.stage = "data"
  <2>1. host.req.dir # "in"
    BY <1>2, <1>9 DEF Direction
  <2>2. PICK stage \in {"data", "status"} :
          stage = IF host.got + n >= host.req.wLength THEN "status" ELSE "data"
    OBVIOUS
  <2>3. host' = Written(host, n)
    BY <1>9 DEF HostSends, n
  <2>4. host' = [host EXCEPT !.got = host.got + n, !.stage = stage]
    BY <2>2, <2>3, Zenon DEF Written
  <2>5. host.got + n \in Nat
    BY <1>1, <1>3, <1>9
  <2>6. /\ host' \in HostType /\ host'.req = host.req /\ host'.got = host.got + n
        /\ (host'.intact <=> host.intact) /\ host'.result = host.result /\ host'.stage = stage
        /\ (host'.early <=> host.early) /\ (host'.overlap <=> host.overlap)
        /\ (host'.lost <=> host.lost) /\ host'.address = host.address
    BY <1>1, <2>4, <2>5 DEF HostType
  <2>7. m = n /\ data = host.req.value
    BY <1>3, <1>5, <1>9 DEF m
  <2>8. stage = IF host.got + n < host.req.wLength THEN "data" ELSE "status"
    BY <1>1, <2>2, <2>5
  <2> QED
    BY <1>2, <1>8, <1>9, <2>1, <2>6, <2>7, <2>8 DEF HostSends, n
<1>10. CASE host.stage = "status"
  <2>1. host.req.dir = "in" /\ host.req.wLength > 0
    BY <1>2, <1>10 DEF Direction
  <2>2. PICK addr \in Nat :
          addr = IF host.req.kind = "set_address" THEN host.req.value ELSE host.address
    BY <1>1 DEF HostType
  <2>3. host' = Done(host)
    BY <1>10 DEF HostSends
  <2>4. host' = [host EXCEPT !.stage = "idle", !.result = "done", !.address = addr]
    BY <2>2, <2>3, Zenon DEF Done
  <2>5. /\ host' \in HostType /\ host'.req = host.req /\ host'.got = host.got
        /\ (host'.intact <=> host.intact) /\ host'.result = "done" /\ host'.stage = "idle"
        /\ (host'.early <=> host.early) /\ (host'.overlap <=> host.overlap)
        /\ (host'.lost <=> host.lost) /\ host'.address = addr
    BY <1>1, <2>4 DEF HostType
  <2> QED
    BY <1>2, <1>8, <1>10, <2>1, <2>2, <2>5 DEF HostSends
<1> QED
  BY <1>2, <1>9, <1>10

LEMMA HostWaitsMoves ==
  ASSUME IInv, HostWaits
  PROVE  /\ ep0' \in Ep0Type /\ ep0'.setup = ep0.setup /\ ep0'.bank1 = ep0.bank1
         /\ (ep0'.bank0 <=> ep0.bank0)
         /\ ep0'.byte_count = ep0.byte_count /\ ep0'.data = ep0.data
         /\ \/ Direction = "IN" /\ ep0'.flags = ep0.flags \cup {"TRFAIL1"}
            \/ Direction = "OUT" /\ ep0'.flags = ep0.flags \cup {"TRFAIL0"}
         /\ host.stage # "idle" /\ ep0'.halts = ep0.halts
         /\ "EORST" \notin ep0.flags /\ address = host.address
         /\ UNCHANGED <<ctrl, address, configuration, line_coding, host, left>>
<1>1. ep0 \in Ep0Type
  BY TypeParts DEF IInv
<1>2. \E f \in {"TRFAIL1", "TRFAIL0"} :
        /\ f = "TRFAIL1" => Direction = "IN"
        /\ f = "TRFAIL0" => Direction = "OUT"
        /\ ep0' = [ep0 EXCEPT !.flags = @ \cup {f}]
  BY DEF HostWaits, Asks
<1>3. PICK f \in {"TRFAIL1", "TRFAIL0"} :
        /\ f = "TRFAIL1" => Direction = "IN"
        /\ f = "TRFAIL0" => Direction = "OUT"
        /\ ep0' = [ep0 EXCEPT !.flags = @ \cup {f}]
  BY <1>2
<1>4. /\ ep0' \in Ep0Type /\ ep0'.setup = ep0.setup /\ ep0'.bank1 = ep0.bank1
      /\ (ep0'.bank0 <=> ep0.bank0) /\ ep0'.flags = ep0.flags \cup {f}
      /\ ep0'.byte_count = ep0.byte_count /\ ep0'.data = ep0.data
      /\ ep0'.halts = ep0.halts
  BY <1>1, <1>3 DEF Ep0Type, Event
<1> QED
  BY <1>3, <1>4 DEF HostWaits, Asks, Listening

LEMMA HostStalledMoves ==
  ASSUME IInv, HostStalled
  PROVE  /\ host' \in HostType /\ host'.req = host.req /\ host'.got = host.got
         /\ (host'.intact <=> host.intact) /\ (host'.early <=> host.early)
         /\ (host'.overlap <=> host.overlap)
         /\ host'.stage = "idle" /\ host'.result = "stalled"
         /\ host'.address = host.address /\ (host'.lost <=> host.lost)
         /\ "EORST" \notin ep0.flags /\ address = host.address /\ host.stage # "idle"
         /\ Direction \in ep0.halts
         /\ UNCHANGED <<ctrl, ep0, address, configuration, line_coding, left>>
BY TypeParts DEF IInv, HostStalled, Asks, Listening, HostType

LEMMA HostEndsEarlyMoves ==
  ASSUME IInv, HostEndsEarly
  PROVE  /\ host.stage = "data" /\ host'.result = host.result
         /\ host' \in HostType /\ host'.req = host.req /\ host'.got = host.got
         /\ host'.early /\ host'.stage = "status"
         /\ host'.address = host.address /\ (host'.lost <=> host.lost)
         /\ (host'.overlap <=> host.overlap)
         /\ UNCHANGED <<ctrl, ep0, address, configuration, line_coding, left>>
BY TypeParts DEF IInv, HostEndsEarly, HostType

LEMMA AfterResetType == AfterReset \in HostType
BY NoRequestType DEF AfterReset, HostType

LEMMA HostResetMoves ==
  ASSUME IInv, HostReset
  PROVE  /\ ep0' \in Ep0Type /\ ep0'.flags = {"EORST"} /\ ep0'.setup = ep0.setup
         /\ host' = AfterReset /\ host' \in HostType
         /\ UNCHANGED <<ctrl, address, configuration, line_coding>>
<1>1. ep0' = [ep0 EXCEPT !.bank0 = FALSE, !.bank1 = NULL, !.halts = {}, !.flags = {"EORST"}]
  BY DEF HostReset
<1>2. ep0' \in Ep0Type /\ ep0'.flags = {"EORST"} /\ ep0'.setup = ep0.setup
  BY <1>1, TypeParts DEF IInv, Ep0Type, Event
<1> QED
  BY <1>2, AfterResetType DEF HostReset

-----------------------------------------------------------------------------
(* Types, and what is known of the requests.                               *)
LEMMA InitInv == Init => IInv
<1> SUFFICES ASSUME Init PROVE IInv
  OBVIOUS
<1>1. ctrl \in CtrlType /\ ctrl.nb_trans <= ctrl.payload_size
  BY NoRequestType DEF Init, CtrlType, State, Callback
<1>2. ep0 \in Ep0Type
  BY NoRequestType DEF Init, Ep0Type, Event
<1>3. host \in HostType /\ host.req = NoRequest /\ host.stage = "idle"
  BY AfterResetType DEF Init, AfterReset
<1>4. /\ address \in Nat /\ configuration \in {0, 1}
      /\ line_coding \in [1 .. LineCodingSize -> Nat]
      /\ left \in [transfers : 0 .. MaxTransfers, given_up : 0 .. MaxGivenUp,
                   resets : 0 .. MaxResets]
  BY DEF Init
<1>5. TypeOK
  BY <1>1, <1>2, <1>3, <1>4 DEF TypeOK, CtrlType, Ep0Type, HostType
<1>6. ep0.setup = NoRequest
  BY DEF Init
<1> QED
  BY <1>3, <1>5, <1>6 DEF IInv, Asked, Stages

(* What a step keeps, the invariant has.                                   *)
LEMMA TypeFrom ==
  ASSUME ctrl' \in CtrlType, ep0' \in Ep0Type, host' \in HostType,
         ctrl'.nb_trans <= ctrl'.payload_size,
         address' \in Nat, configuration' \in {0, 1},
         line_coding' \in [1 .. LineCodingSize -> Nat],
         left' \in [transfers : 0 .. MaxTransfers, given_up : 0 .. MaxGivenUp,
                    resets : 0 .. MaxResets]
  PROVE  TypeOK'
BY DEF TypeOK, CtrlType, Ep0Type, HostType

LEMMA InterruptInv ==
  ASSUME IInv, Kept, UNCHANGED <<host, left>>
  PROVE  IInv'
<1>1. TypeOK'
  BY TypeParts, TypeFrom DEF IInv, Kept, TypeOK
<1> QED
  BY <1>1 DEF IInv, Kept, Asked, Stages

LEMMA HostInv ==
  ASSUME IInv, ep0' \in Ep0Type, host' \in HostType,
         UNCHANGED <<ctrl, address, configuration, line_coding>>,
         left' \in [transfers : 0 .. MaxTransfers, given_up : 0 .. MaxGivenUp,
                    resets : 0 .. MaxResets],
         Asked', Stages'
  PROVE  IInv'
<1>1. TypeOK'
  BY TypeParts, TypeFrom DEF IInv
<1> QED
  BY <1>1 DEF IInv

LEMMA StepInv == IInv /\ [Next]_vars => IInv'
<1> SUFFICES ASSUME IInv, [Next]_vars PROVE IInv'
  OBVIOUS
<1> DEFINE Left == [transfers : 0 .. MaxTransfers, given_up : 0 .. MaxGivenUp,
                    resets : 0 .. MaxResets]
<1>1. left \in Left
  BY DEF IInv, TypeOK
<1>2. /\ host.got \in Nat /\ host.req.wLength \in Nat
      /\ ctrl.nb_trans <= ctrl.payload_size /\ address \in Nat /\ configuration \in {0, 1}
      /\ line_coding \in [1 .. LineCodingSize -> Nat]
  BY TypeParts DEF IInv, HostType, Request
<1>3. CASE OnSetup
  <2>1. Kept
    BY <1>3, OnSetupMoves DEF Kept
  <2> QED
    BY <1>3, <2>1, InterruptInv DEF OnSetup
<1>4. CASE TransferOk("TRCPT1")
  BY <1>4, TransferOkKept, InterruptInv DEF TransferOk
<1>5. CASE TransferOk("TRCPT0")
  BY <1>5, TransferOkKept, InterruptInv DEF TransferOk
<1>6. CASE Underflow
  <2>1. Kept /\ UNCHANGED <<host, left>>
    BY <1>2, <1>6, UnderflowMoves DEF Kept
  <2> QED
    BY <2>1, InterruptInv
<1>7. CASE Overflow
  <2>1. Kept /\ UNCHANGED <<host, left>>
    BY <1>2, <1>7, OverflowMoves DEF Kept
  <2> QED
    BY <2>1, InterruptInv
<1>8. CASE OnBusReset
  BY <1>8, OnBusResetMoves, InterruptInv
<1>9. CASE HostTakes
  <2>1. Asked'
    BY <1>9, HostTakesMoves DEF IInv, Asked
  <2>2. ep0.bank1.size \in Nat
    BY <1>9, HostTakesMoves DEF Packet
  <2>3. Stages'
    BY <1>2, <1>9, <2>2, HostTakesMoves DEF IInv, Stages
  <2> QED
    BY <1>1, <1>9, <2>1, <2>3, HostTakesMoves, HostInv
<1>10. CASE HostSends
  <2>1. Asked' /\ Stages'
    BY <1>2, <1>10, HostSendsMoves DEF IInv, Asked, Stages
  <2> QED
    BY <1>1, <1>10, <2>1, HostSendsMoves, HostInv
<1>11. CASE HostWaits
  <2>1. Asked' /\ Stages'
    BY <1>11, HostWaitsMoves DEF IInv, Asked, Stages
  <2>2. host' = host /\ left' = left /\ host \in HostType
    BY <1>11, HostWaitsMoves, TypeParts DEF IInv
  <2> QED
    BY <1>1, <1>11, <2>1, <2>2, HostWaitsMoves, HostInv
<1>12. CASE HostStalled
  <2>1. Asked' /\ Stages'
    BY <1>12, HostStalledMoves DEF IInv, Asked, Stages
  <2>2. ep0' = ep0 /\ left' = left /\ ep0 \in Ep0Type
    BY <1>12, HostStalledMoves, TypeParts DEF IInv
  <2> QED
    BY <1>1, <1>12, <2>1, <2>2, HostStalledMoves, HostInv
<1>13. CASE HostSetup
  <2>1. PICK r \in Requests :
          /\ ep0' \in Ep0Type /\ host' \in HostType
          /\ ep0'.flags = ep0.flags \cup {"RXSTP"} /\ ep0'.setup = r
          /\ host'.req = r /\ host'.got = 0 /\ host'.result = "none"
          /\ host'.stage = IF r.wLength > 0 THEN "data" ELSE "status"
          /\ "EORST" \notin ep0.flags
          /\ UNCHANGED <<ctrl, address, configuration, line_coding>>
    BY <1>13, HostSetupMoves
  <2>2. Asked' /\ Stages'
    BY <2>1 DEF Asked, Stages
  <2>3. left' \in Left
    <3>1. PICK n \in 0 .. MaxGivenUp :
            n = IF host.stage = "idle" THEN left.given_up ELSE left.given_up - 1
      BY <1>1, <1>13 DEF HostSetup
    <3>2. left' = [left EXCEPT !.transfers = @ - 1,
                               !.given_up = IF host.stage = "idle" THEN @ ELSE @ - 1]
      BY <1>13 DEF HostSetup
    <3>3. left' = [left EXCEPT !.transfers = left.transfers - 1, !.given_up = n]
      BY <3>1, <3>2, Zenon
    <3>4. left.transfers > 0
      BY <1>13 DEF HostSetup
    <3>5. left.transfers - 1 \in 0 .. MaxTransfers
      <4>1. left.transfers \in 0 .. MaxTransfers
        BY <1>1
      <4> QED
        BY <3>4, <4>1
    <3> QED
      BY <1>1, <3>1, <3>3, <3>5
  <2> QED
    BY <2>1, <2>2, <2>3, HostInv
<1>14. CASE HostEndsEarly
  <2>1. Asked' /\ Stages'
    BY <1>14, HostEndsEarlyMoves DEF IInv, Asked, Stages
  <2>2. ep0' = ep0 /\ left' = left /\ ep0 \in Ep0Type
    BY <1>14, HostEndsEarlyMoves, TypeParts DEF IInv
  <2> QED
    BY <1>1, <1>14, <2>1, <2>2, HostEndsEarlyMoves, HostInv
<1>15. CASE HostReset
  <2>1. host'.req = NoRequest /\ host'.stage = "idle"
    BY <1>15, HostResetMoves DEF AfterReset
  <2>2. Asked' /\ Stages'
    BY <1>15, <2>1, HostResetMoves DEF IInv, Asked, Stages
  <2>3. left' \in Left
    BY <1>1, <1>15 DEF HostReset
  <2> QED
    BY <1>15, <2>2, <2>3, HostResetMoves, HostInv
<1>16. CASE UNCHANGED vars
  <2>1. UNCHANGED <<ctrl, ep0, address, configuration, line_coding, host, left>>
    BY <1>16 DEF vars
  <2>2. Asked' /\ Stages'
    BY <2>1 DEF IInv, Asked, Stages
  <2> QED
    BY <1>1, <2>1, <2>2, HostInv, TypeParts DEF IInv
<1> QED
  BY <1>3, <1>4, <1>5, <1>6, <1>7, <1>8, <1>9, <1>10, <1>11, <1>12, <1>13,
     <1>14, <1>15, <1>16 DEF Next, Interrupt, HostAsks

LEMMA Inv == Spec => []IInv
BY InitInv, StepInv, PTL DEF Spec

(* Every field of the endpoint, the device and the host keeps its type,    *)
(* and no more of a payload is sent or stored than there is, for packets   *)
(* and payloads of any size (usb_device_udd.c 765-870).                    *)
THEOREM TypeCorrect == Spec => []TypeOK
<1>1. IInv => TypeOK
  BY DEF IInv
<1> QED
  BY <1>1, Inv, PTL

-----------------------------------------------------------------------------
(* Reads.                                                                  *)
LEMMA ExpectedType ==
  ASSUME NEW r \in Request
  PROVE  Expected(r) \in Nat /\ Expected(r) <= r.wLength
BY DEF Expected, Request

LEMMA ReadInterrupt ==
  ASSUME ReadInv, host' = host,
         Orderly /\ host.req.dir = "in" /\ host.stage = "data" => ReadPhase'
  PROVE  ReadInv'
BY DEF ReadInv, Orderly

LEMMA ReadOnSetup ==
  ASSUME IInv, OnSetup, ReadPhase, host.req.dir = "in"
  PROVE  ReadPhase'
<1>1. /\ "RXSTP" \in ep0.flags /\ host' = host
  BY DEF OnSetup, Serves
<1>2. Unserved /\ "TRFAIL0" \notin ep0.flags
  BY <1>1 DEF ReadPhase, Refused, Sending
<1>3. /\ ep0.setup = host.req /\ ep0.bank1 = NULL /\ host.got = 0
      /\ ep0.flags \cap {"TRCPT1", "TRCPT0"} = {}
  BY <1>2 DEF Unserved
<1>4. ep0'.flags = ep0.flags \ {"RXSTP"} /\ ctrl' \in CtrlType
  BY OnSetupMoves
<1>5. \/ ctrl'.state = "STALL_REQ" /\ ep0'.bank1 = ep0.bank1
      \/ /\ ctrl'.state = "DATA_IN" /\ ctrl'.req = host.req
         /\ ctrl'.payload_size = Expected(host.req) /\ ctrl'.prev_nb_trans = 0
         /\ ctrl'.nb_trans = AtMost(Expected(host.req), EpSize)
         /\ (ctrl'.b_shortpacket <=> ctrl'.nb_trans < EpSize)
         /\ ep0'.bank1 \in Packet
         /\ ep0'.bank1.first = 0 /\ ep0'.bank1.size = ctrl'.nb_trans
  BY <1>3, OnSetupMoves
<1>6. CASE ctrl'.state = "STALL_REQ" /\ ep0'.bank1 = ep0.bank1
  BY <1>2, <1>3, <1>4, <1>6 DEF ReadPhase, Refused
<1>7. CASE /\ ctrl'.state = "DATA_IN" /\ ctrl'.req = host.req
           /\ ctrl'.payload_size = Expected(host.req) /\ ctrl'.prev_nb_trans = 0
           /\ ctrl'.nb_trans = AtMost(Expected(host.req), EpSize)
           /\ (ctrl'.b_shortpacket <=> ctrl'.nb_trans < EpSize)
           /\ ep0'.bank1 \in Packet
           /\ ep0'.bank1.first = 0 /\ ep0'.bank1.size = ctrl'.nb_trans
  <2>1. host.req \in Request
    BY TypeParts DEF IInv, HostType
  <2>2. ctrl'.nb_trans \in Nat /\ (ctrl'.nb_trans < EpSize => ctrl'.nb_trans = ctrl'.payload_size)
    BY <1>7, <2>1, ExpectedType DEF AtMost
  <2>3. Sending'
    BY <1>1, <1>2, <1>3, <1>4, <1>7, <2>2 DEF Sending
  <2>4. Ready'
    BY <1>1, <1>3, <1>4, <1>7, <2>2 DEF Ready
  <2> QED
    BY <2>3, <2>4 DEF ReadPhase
<1> QED
  BY <1>5, <1>6, <1>7

(* The next packet: it follows what the host has, and it is an empty one   *)
(* only if a full one was the last.                                        *)
LEMMA ReadTransferOk ==
  ASSUME IInv, NEW f \in {"TRCPT1", "TRCPT0"}, TransferOk(f), ReadPhase, host.req.dir = "in"
  PROVE  ReadPhase'
<1>1. /\ f \in ep0.flags /\ "RXSTP" \notin ep0.flags /\ host' = host
  BY DEF TransferOk, Serves, Before
<1>2. Sending /\ f = "TRCPT1" /\ Taken
  BY <1>1 DEF ReadPhase, Unserved, Sending, Refused, Ready
<1>3. PICK c \in CtrlType :
        /\ c.state = ctrl.state /\ c.req = ctrl.req /\ c.payload_size = ctrl.payload_size
        /\ c.prev_nb_trans = ctrl.prev_nb_trans /\ c.nb_trans = ctrl.nb_trans
        /\ (c.b_shortpacket <=> ctrl.b_shortpacket)
        /\ c.state = "DATA_IN" => InSent(c, Cleared(f))
  BY TransferOkMoves
<1> DEFINE remain == c.payload_size - c.nb_trans
           total == c.prev_nb_trans + IF remain = 0 THEN c.nb_trans ELSE 0
           n == AtMost(remain, EpSize)
<1>4. /\ c.state = "DATA_IN" /\ c.req = host.req /\ c.payload_size = Expected(host.req)
      /\ ~c.b_shortpacket /\ c.prev_nb_trans = 0 /\ c.nb_trans = host.got
      /\ host.got < host.req.wLength
      /\ ep0.flags \cap {"RXSTP", "TRCPT0", "TRFAIL0"} = {}
  BY <1>2, <1>3 DEF Sending, Taken
<1>5. /\ c.nb_trans <= c.payload_size /\ host.req \in Request /\ host.got \in Nat
      /\ host.req.wLength \in Nat /\ c.payload_size \in Nat
  BY <1>3, TypeParts DEF IInv, HostType, Request, CtrlType
<1>6. Cleared(f) \in Ep0Type /\ Cleared(f).flags = ep0.flags \ {"TRCPT1"}
  BY <1>2, ClearedMoves, TypeParts DEF IInv, Event
<1>7. remain \in Nat /\ (remain = 0 => total = host.got) /\ (remain # 0 => total = 0)
  BY <1>4, <1>5
<1>8. ~(remain = 0 /\ (c.req.wLength = total \/ c.b_shortpacket))
  BY <1>4, <1>5, <1>7
<1>9. /\ ctrl' \in CtrlType
      /\ ep0'.flags = Cleared(f).flags
      /\ ctrl'.req = c.req /\ ctrl'.payload_size = c.payload_size /\ ctrl'.state = c.state
      /\ ctrl'.prev_nb_trans = total /\ ctrl'.nb_trans = c.nb_trans + n
      /\ (ctrl'.b_shortpacket <=> n < EpSize)
      /\ ep0'.bank1 \in Packet
      /\ ep0'.bank1.first = c.nb_trans /\ ep0'.bank1.size = n
  BY <1>3, <1>4, <1>5, <1>6, <1>8, InSentMoves
<1>10. /\ n \in Nat /\ (n < EpSize => c.nb_trans + n = c.payload_size)
       /\ (~(n < EpSize) => remain # 0)
  <2>1. n \in Nat /\ n <= remain /\ (n = remain \/ n = EpSize)
    BY <1>7, AtMostType
  <2>2. c.nb_trans \in Nat /\ c.payload_size = c.nb_trans + remain
    BY <1>5 DEF CtrlType
  <2> HIDE DEF remain, n
  <2> QED
    BY <1>7, <2>1, <2>2
<1> HIDE DEF remain, total, n
<1>11. Sending'
  BY <1>1, <1>4, <1>6, <1>7, <1>9, <1>10 DEF Sending
<1>12. Ready'
  BY <1>1, <1>2, <1>4, <1>6, <1>9, <1>10 DEF Ready
<1> QED
  BY <1>11, <1>12 DEF ReadPhase

(* No packet that failed disturbs a data stage.                            *)
LEMMA ReadFailed ==
  ASSUME IInv, Underflow \/ Overflow, ReadPhase, host.req.dir = "in"
  PROVE  ReadPhase'
<1>1. /\ "RXSTP" \notin ep0.flags
  BY DEF Underflow, Overflow, Serves, Before, Event
<1>2. "TRFAIL0" \notin ep0.flags /\ ctrl.state # "DATA_OUT"
  BY <1>1 DEF ReadPhase, Unserved, Refused, Sending
<1>3. Underflow
  BY <1>2 DEF Overflow, Serves
<1>4. /\ ctrl' = ctrl /\ ep0'.bank1 = ep0.bank1 /\ host' = host
      /\ ep0'.flags = ep0.flags \ {"TRFAIL1"}
  BY <1>2, <1>3, UnderflowMoves
<1>5. CASE Refused /\ ctrl.state = "STALL_REQ"
           /\ ep0.flags \cap {"TRCPT1", "TRCPT0", "TRFAIL0"} = {}
  BY <1>4, <1>5 DEF ReadPhase, Refused
<1>6. CASE Sending /\ (Ready \/ Taken)
  <2>1. Sending'
    BY <1>4, <1>6 DEF Sending
  <2>2. Ready' \/ Taken'
    BY <1>4, <1>6 DEF Ready, Taken
  <2> QED
    BY <2>1, <2>2 DEF ReadPhase
<1> QED
  BY <1>1, <1>5, <1>6 DEF ReadPhase, Unserved

LEMMA ReadHostTakes ==
  ASSUME IInv, ReadInv, HostTakes
  PROVE  ReadInv'
<1> SUFFICES ASSUME Orderly', host'.req.dir = "in"
             PROVE  /\ host'.intact
                    /\ host'.stage = "status" \/ host'.result = "done" =>
                         host'.got = Expected(host'.req)
                    /\ host'.stage = "data" => host'.result = "none" /\ ReadPhase'
  BY DEF ReadInv
<1>1. /\ host'.req = host.req /\ Orderly /\ host.req.dir = "in"
      /\ ctrl' = ctrl /\ ep0'.flags = ep0.flags \cup {"TRCPT1"}
      /\ ep0'.bank1 = NULL /\ ep0.bank1 \in Packet /\ ep0.bank1 # NULL
  BY HostTakesMoves DEF Orderly
<1>2. /\ host.req \in Request /\ host.got \in Nat /\ host.req.wLength \in Nat
      /\ ctrl.nb_trans <= ctrl.payload_size /\ ctrl.payload_size \in Nat
      /\ ep0.bank1.size \in Nat
  BY <1>1, TypeParts DEF IInv, HostType, CtrlType, Request, Packet
<1>3. CASE /\ host.stage = "data"
           /\ host'.got = host.got + ep0.bank1.size
           /\ (host'.intact <=> host.intact /\ ep0.bank1.first = host.got)
           /\ host'.result = host.result
           /\ host'.stage = IF \/ ep0.bank1.size < EpSize
                               \/ host.got + ep0.bank1.size >= host.req.wLength
                            THEN "status" ELSE "data"
  <2>1. host.intact /\ host.result = "none" /\ ReadPhase
    BY <1>1, <1>3 DEF ReadInv
  <2>2. Sending /\ Ready
    BY <1>1, <2>1 DEF ReadPhase, Unserved, Refused, Taken
  <2>3. /\ host'.intact /\ ctrl.nb_trans = host'.got
        /\ ctrl.payload_size = Expected(host.req)
        /\ (ctrl.b_shortpacket <=> ep0.bank1.size < EpSize)
        /\ ctrl.b_shortpacket => ctrl.nb_trans = ctrl.payload_size
    BY <1>3, <2>1, <2>2 DEF Sending, Ready
  <2>4. host'.stage = "status" => host'.got = Expected(host'.req)
    BY <1>1, <1>2, <1>3, <2>3, ExpectedType
  <2>5. host'.stage = "data" => Sending' /\ Taken'
    <3> SUFFICES ASSUME host'.stage = "data" PROVE Sending' /\ Taken'
      OBVIOUS
    <3>1. Sending'
      BY <1>1, <2>2 DEF Sending
    <3>2. ~(ep0.bank1.size < EpSize) /\ host'.got < host.req.wLength
      BY <1>2, <1>3
    <3>3. Taken'
      BY <1>1, <2>3, <3>2 DEF Taken
    <3> QED
      BY <3>1, <3>3
  <2> QED
    BY <1>3, <2>1, <2>3, <2>4, <2>5 DEF ReadPhase
<1>4. CASE /\ host.stage = "status"
           /\ host'.got = host.got /\ (host'.intact <=> host.intact)
           /\ host'.result = "done" /\ host'.stage = "idle"
  BY <1>1, <1>4 DEF ReadInv
<1> QED
  BY <1>3, <1>4, HostTakesMoves

LEMMA ReadHostWaits ==
  ASSUME IInv, ReadInv, HostWaits
  PROVE  ReadInv'
<1>1. /\ host' = host /\ ctrl' = ctrl /\ ep0'.setup = ep0.setup /\ ep0'.bank1 = ep0.bank1
      /\ \/ Direction = "IN" /\ ep0'.flags = ep0.flags \cup {"TRFAIL1"}
         \/ Direction = "OUT" /\ ep0'.flags = ep0.flags \cup {"TRFAIL0"}
  BY HostWaitsMoves
<1>2. ASSUME Orderly, host.req.dir = "in", host.stage = "data" PROVE ReadPhase'
  <2>1. ReadPhase
    BY <1>2 DEF ReadInv
  <2>2. ep0'.flags = ep0.flags \cup {"TRFAIL1"}
    BY <1>1, <1>2 DEF Direction
  <2>3. CASE Unserved /\ "TRFAIL0" \notin ep0.flags
    BY <1>1, <2>2, <2>3 DEF ReadPhase, Unserved
  <2>4. CASE Refused /\ ctrl.state = "STALL_REQ"
             /\ ep0.flags \cap {"TRCPT1", "TRCPT0", "TRFAIL0"} = {}
    BY <1>1, <2>2, <2>4 DEF ReadPhase, Refused
  <2>5. CASE Sending /\ (Ready \/ Taken)
    <3>1. Sending' /\ (Ready' \/ Taken')
      BY <1>1, <2>2, <2>5 DEF Sending, Ready, Taken
    <3> QED
      BY <3>1 DEF ReadPhase
  <2> QED
    BY <2>1, <2>3, <2>4, <2>5 DEF ReadPhase
<1> QED
  BY <1>1, <1>2, ReadInterrupt

LEMMA ReadHostSetup ==
  ASSUME IInv, HostSetup
  PROVE  ReadInv'
<1>1. PICK r \in Requests :
        /\ ep0'.flags = ep0.flags \cup {"RXSTP"} /\ ep0'.setup = r /\ ep0'.bank1 = NULL
        /\ host'.req = r /\ host'.got = 0 /\ host'.intact /\ host'.result = "none"
        /\ host'.stage = IF r.wLength > 0 THEN "data" ELSE "status"
        /\ (host'.overlap <=> ep0.flags # {})
  BY HostSetupMoves
<1>2. r.wLength \in Nat /\ r.value \in Nat
  BY DEF Request
<1>3. host'.stage = "status" => Expected(r) = 0
  BY <1>1, <1>2 DEF Expected
<1>4. Orderly' => ReadPhase'
  BY <1>1 DEF Orderly, ReadPhase, Unserved
<1> QED
  BY <1>1, <1>3, <1>4 DEF ReadInv

LEMMA InitRead == Init => ReadInv
BY DEF Init, AfterReset, NoRequest, ReadInv

LEMMA StepRead == IInv /\ ReadInv /\ [Next]_vars => ReadInv'
<1> SUFFICES ASSUME IInv, ReadInv, [Next]_vars PROVE ReadInv'
  OBVIOUS
<1>1. Orderly /\ host.req.dir = "in" /\ host.stage = "data" => ReadPhase
  BY DEF ReadInv
<1>2. CASE OnSetup
  <2>1. host' = host
    BY <1>2 DEF OnSetup
  <2> QED
    BY <1>1, <1>2, <2>1, ReadOnSetup, ReadInterrupt
<1>3. CASE TransferOk("TRCPT1") \/ TransferOk("TRCPT0")
  <2>1. host' = host
    BY <1>3 DEF TransferOk
  <2> QED
    BY <1>1, <1>3, <2>1, ReadTransferOk, ReadInterrupt
<1>4. CASE Underflow \/ Overflow
  <2>1. host' = host
    BY <1>4 DEF Underflow, Overflow
  <2> QED
    BY <1>1, <1>4, <2>1, ReadFailed, ReadInterrupt
<1>5. CASE OnBusReset
  <2>1. host' = host /\ host.req.dir = "out"
    BY <1>5 DEF OnBusReset, Serves, IInv, Asked, NoRequest
  <2> QED
    BY <2>1 DEF ReadInv
<1>6. CASE HostTakes
  BY <1>6, ReadHostTakes
<1>7. CASE HostSends
  <2>1. /\ host'.req = host.req /\ (host'.early <=> host.early)
        /\ (host'.overlap <=> host.overlap) /\ (host'.intact <=> host.intact)
        /\ host.req.dir = "in" => /\ host.stage = "status" /\ host'.got = host.got
                                  /\ host'.stage = "idle"
    BY <1>7, HostSendsMoves
  <2> QED
    BY <2>1 DEF ReadInv, Orderly
<1>8. CASE HostWaits
  BY <1>8, ReadHostWaits
<1>9. CASE HostStalled
  BY <1>9, HostStalledMoves DEF ReadInv, Orderly
<1>10. CASE HostSetup
  BY <1>10, ReadHostSetup
<1>11. CASE HostEndsEarly
  BY <1>11, HostEndsEarlyMoves DEF ReadInv, Orderly
<1>12. CASE HostReset
  BY <1>12, HostResetMoves DEF ReadInv, AfterReset, NoRequest
<1>13. CASE UNCHANGED vars
  <2>1. host' = host /\ ctrl' = ctrl /\ ep0' = ep0
    BY <1>13 DEF vars
  <2> QED
    BY <1>1, <2>1, ReadInterrupt
    DEF ReadPhase, Unserved, Refused, Sending, Ready, Taken
<1> QED
  BY <1>2, <1>3, <1>4, <1>5, <1>6, <1>7, <1>8, <1>9, <1>10, <1>11, <1>12,
     <1>13 DEF Next, Interrupt, HostAsks

(* Whatever the size of a packet, the length of a descriptor and the       *)
(* length asked for, a read that reached its status stage gave the host    *)
(* just what it is to have, in order (udd_ctrl_in_sent).                   *)
THEOREM ReadsAreExact == Spec => []ReadExact
<1>1. ReadInv => ReadExact
  BY DEF ReadInv, ReadExact, Expected
<1> QED
  BY <1>1, Inv, InitRead, StepRead, PTL DEF Spec

-----------------------------------------------------------------------------
(* Writes of the line coding.                                              *)
LEMMA WriteDirection ==
  ASSUME IInv, host.req.kind = "set_line_coding"
  PROVE  host.req \in Requests /\ host.req.dir = "out" /\ "EORST" \notin ep0.flags
BY DEF IInv, Asked, NoRequest, Writing

LEMMA WriteInterrupt ==
  ASSUME WriteInv, host' = host,
         Orderly /\ host.req.kind = "set_line_coding" /\ host.result # "stalled" => WritePhase'
  PROVE  WriteInv'
BY DEF WriteInv, Orderly

LEMMA WriteOnSetup ==
  ASSUME IInv, OnSetup, WritePhase, host.req.kind = "set_line_coding"
  PROVE  WritePhase'
<1>1. /\ "RXSTP" \in ep0.flags /\ host' = host
  BY DEF OnSetup, Serves
<1>2. /\ Unserved /\ host.result = "none"
      /\ host.stage = IF host.req.wLength > 0 THEN "data" ELSE "status"
      /\ "TRFAIL1" \in ep0.flags => host.req.wLength = 0
  BY <1>1 DEF WritePhase, Refused, Receiving, Complete
<1>3. /\ ep0.setup = host.req /\ ep0.bank1 = NULL /\ host.got = 0
      /\ ep0.flags \cap {"TRCPT1", "TRCPT0"} = {}
  BY <1>2 DEF Unserved
<1>4. ep0'.flags = ep0.flags \ {"RXSTP"}
  BY OnSetupMoves
<1>5. PICK a :
        \/ ctrl'.state = "STALL_REQ" /\ ep0'.bank1 = ep0.bank1
        \/ Accepted(host.req, a) /\ host.req.dir = "in"
        \/ Accepted(host.req, a) /\ host.req.wLength = 0
        \/ /\ Accepted(host.req, a)
           /\ ctrl'.state = "DATA_OUT" /\ ctrl'.req = host.req
           /\ ctrl'.payload_size = Payload(host.req) /\ ctrl'.prev_nb_trans = 0
           /\ ctrl'.nb_trans = 0 /\ ep0'.bank0 /\ ep0'.bank1 = ep0.bank1
  BY <1>3, OnSetupMoves
<1>6. Accepted(host.req, a) => host.req.wLength = LineCodingSize
  BY WriteDirection DEF Accepted
<1>7. host.req.dir = "out" /\ LineCodingSize \in Nat \ {0}
  BY WriteDirection
<1>8. CASE ctrl'.state = "STALL_REQ" /\ ep0'.bank1 = ep0.bank1
  BY <1>1, <1>2, <1>3, <1>4, <1>8 DEF WritePhase, Refused
<1>9. CASE /\ Accepted(host.req, a)
           /\ ctrl'.state = "DATA_OUT" /\ ctrl'.req = host.req
           /\ ctrl'.payload_size = Payload(host.req) /\ ctrl'.prev_nb_trans = 0
           /\ ctrl'.nb_trans = 0 /\ ep0'.bank0 /\ ep0'.bank1 = ep0.bank1
  <2>1. Payload(host.req) = LineCodingSize
    BY DEF Payload
  <2>2. StoredUpTo(ctrl.nb_trans)'
    BY <1>9 DEF StoredUpTo
  <2>3. Receiving'
    BY <1>1, <1>3, <1>4, <1>6, <1>7, <1>9, <2>1, <2>2 DEF Receiving
  <2>4. Open'
    BY <1>1, <1>2, <1>3, <1>4, <1>6, <1>7, <1>9 DEF Open
  <2> QED
    BY <1>1, <1>2, <2>3, <2>4 DEF WritePhase
<1> QED
  BY <1>5, <1>6, <1>7, <1>8, <1>9

(* The packet received is stored behind the others.                        *)
LEMMA WriteReceived ==
  ASSUME IInv, TransferOk("TRCPT0"), Receiving, Received, host.result = "none"
  PROVE  WritePhase'
<1>1. "RXSTP" \notin ep0.flags /\ host' = host
  BY DEF TransferOk, Serves, Before
<1>2. PICK c \in CtrlType :
        /\ c.state = ctrl.state /\ c.req = ctrl.req /\ c.payload_size = ctrl.payload_size
        /\ c.prev_nb_trans = ctrl.prev_nb_trans /\ c.nb_trans = ctrl.nb_trans
        /\ c.received_bytes = ep0.byte_count
        /\ c.state = "DATA_OUT" => OutReceived(c, Cleared("TRCPT0"))
  BY TransferOkMoves
<1>3. /\ c.state = "DATA_OUT" /\ c.req = host.req /\ c.payload_size = LineCodingSize
      /\ c.req.wLength = LineCodingSize /\ c.prev_nb_trans = 0
      /\ c.nb_trans < LineCodingSize /\ c.nb_trans = ctrl.nb_trans
      /\ ep0.bank1 = NULL /\ ep0.flags \cap {"RXSTP", "TRCPT1"} = {}
      /\ StoredUpTo(c.nb_trans)
  BY <1>2 DEF Receiving
<1>4. /\ ep0.byte_count = AtMost(LineCodingSize - c.nb_trans, EpSize)
      /\ ep0.data = host.req.value
      /\ host.got = c.nb_trans + ep0.byte_count
      /\ host.stage = IF host.got < LineCodingSize THEN "data" ELSE "status"
      /\ "TRFAIL1" \in ep0.flags => host.stage = "status"
  BY <1>2 DEF Received
<1> DEFINE n == AtMost(c.received_bytes, c.payload_size - c.nb_trans)
           stored == c.nb_trans + n
<1>5. c.nb_trans \in Nat /\ LineCodingSize - c.nb_trans \in Nat
  BY <1>3 DEF CtrlType
<1>6. /\ ep0.byte_count \in Nat /\ ep0.byte_count <= LineCodingSize - c.nb_trans
      /\ ep0.byte_count = LineCodingSize - c.nb_trans \/ ep0.byte_count = EpSize
  BY <1>4, <1>5, AtMostType
<1>7. n = ep0.byte_count
  BY <1>2, <1>3, <1>5, <1>6 DEF AtMost
<1>8. /\ Cleared("TRCPT0") \in Ep0Type /\ Cleared("TRCPT0").flags = ep0.flags \ {"TRCPT0"}
      /\ Cleared("TRCPT0").bank1 = NULL /\ Cleared("TRCPT0").data = host.req.value
  BY <1>3, <1>4, ClearedMoves, TypeParts DEF IInv, Event
<1>9. c.nb_trans <= c.payload_size /\ line_coding \in [1 .. LineCodingSize -> Nat]
  BY <1>3, <1>5, TypeParts DEF IInv
<1>10. /\ ep0'.flags \subseteq Cleared("TRCPT0").flags
       /\ line_coding' = Stored(c, Cleared("TRCPT0"), n)
       /\ \/ ~(n = EpSize /\ stored < c.payload_size) /\ ctrl'.state = "WAIT_IN_ZLP"
          \/ /\ n = EpSize /\ stored < c.payload_size
             /\ ctrl' = [c EXCEPT !.nb_trans = stored]
             /\ ep0'.bank1 = Cleared("TRCPT0").bank1
             /\ ep0'.bank0 /\ ep0'.flags = Cleared("TRCPT0").flags
  BY <1>2, <1>3, <1>8, <1>9, OutReceivedMoves
<1> HIDE DEF n
<1>11. \A i \in 1 .. LineCodingSize : i <= stored => line_coding'[i] = host'.req.value
  BY <1>1, <1>3, <1>5, <1>6, <1>7, <1>8, <1>10 DEF Stored, StoredUpTo
<1>12. CASE ~(n = EpSize /\ stored < c.payload_size) /\ ctrl'.state = "WAIT_IN_ZLP"
  <2>1. stored = LineCodingSize /\ host.got = LineCodingSize
    BY <1>3, <1>4, <1>5, <1>6, <1>7, <1>12
  <2>2. StoredUpTo(LineCodingSize)'
    BY <1>11, <2>1 DEF StoredUpTo
  <2>3. host.stage = "status" /\ "RXSTP" \notin ep0'.flags
    BY <1>1, <1>4, <1>8, <1>10, <2>1
  <2> QED
    BY <1>1, <1>12, <2>2, <2>3 DEF WritePhase, Complete
<1>13. CASE /\ n = EpSize /\ stored < c.payload_size
            /\ ctrl' = [c EXCEPT !.nb_trans = stored]
            /\ ep0'.bank1 = Cleared("TRCPT0").bank1
            /\ ep0'.bank0 /\ ep0'.flags = Cleared("TRCPT0").flags
  <2>1. /\ ctrl'.state = "DATA_OUT" /\ ctrl'.req = host.req
        /\ ctrl'.payload_size = LineCodingSize /\ ctrl'.prev_nb_trans = 0
        /\ ctrl'.nb_trans = stored
    BY <1>3, <1>13 DEF CtrlType
  <2>2. StoredUpTo(ctrl.nb_trans)'
    BY <1>11, <2>1 DEF StoredUpTo
  <2>3. Receiving'
    BY <1>1, <1>3, <1>8, <1>13, <2>1, <2>2 DEF Receiving
  <2>4. host.got = stored /\ host.stage = "data"
    BY <1>3, <1>4, <1>7, <1>13
  <2>5. Open'
    BY <1>1, <1>4, <1>8, <1>13, <2>1, <2>4 DEF Open
  <2> QED
    BY <1>1, <2>3, <2>5 DEF WritePhase
<1> QED
  BY <1>10, <1>12, <1>13

LEMMA WriteTransferOk ==
  ASSUME IInv, NEW f \in {"TRCPT1", "TRCPT0"}, TransferOk(f), WritePhase
  PROVE  WritePhase'
<1>1. /\ f \in ep0.flags /\ "RXSTP" \notin ep0.flags /\ host' = host
      /\ f = "TRCPT0" => "TRCPT1" \notin ep0.flags
  BY DEF TransferOk, Serves, Before
<1>2. /\ Cleared(f).flags = ep0.flags \ {f} /\ Cleared(f).bank1 = ep0.bank1
  BY ClearedMoves, TypeParts DEF IInv, Event
<1>3. ctrl.state \notin {"DATA_OUT", "DATA_IN"} =>
        ctrl'.state = "SETUP" /\ ep0' = Cleared(f) /\ line_coding' = line_coding
  <2>1. PICK c \in CtrlType :
          /\ c.state = ctrl.state
          /\ \/ c.state = "DATA_OUT"
             \/ c.state = "DATA_IN"
             \/ ctrl'.state = "SETUP" /\ ep0' = Cleared(f) /\ line_coding' = line_coding
    BY TransferOkMoves
  <2> QED
    BY <2>1
<1>4. CASE Unserved
  BY <1>1, <1>4 DEF Unserved
<1>5. CASE Refused /\ host.result = "none"
  BY <1>1, <1>2, <1>3, <1>5 DEF WritePhase, Refused
<1>6. CASE Receiving /\ Open
  BY <1>1, <1>6 DEF Receiving, Open
<1>7. CASE Receiving /\ Received /\ host.result = "none"
  <2>1. f = "TRCPT0"
    BY <1>1, <1>7 DEF Receiving
  <2> QED
    BY <1>7, <2>1, WriteReceived
<1>8. CASE Complete
  <2>1. /\ ctrl'.state = "SETUP" /\ "RXSTP" \notin ep0'.flags /\ line_coding' = line_coding
    BY <1>1, <1>2, <1>3, <1>8 DEF Complete
  <2> QED
    BY <1>1, <1>8, <2>1 DEF WritePhase, Complete, StoredUpTo
<1> QED
  BY <1>4, <1>5, <1>6, <1>7, <1>8 DEF WritePhase

LEMMA WriteFailed ==
  ASSUME IInv, Underflow \/ Overflow, WritePhase
  PROVE  WritePhase'
<1>1. /\ ep0.flags \cap {"RXSTP", "TRCPT1", "TRCPT0"} = {}
      /\ Underflow => "TRFAIL1" \in ep0.flags
  BY DEF Underflow, Overflow, Serves, Before, Event
<1>2. ctrl.state # "DATA_IN" /\ (Underflow => ctrl.state # "DATA_OUT")
  BY <1>1 DEF WritePhase, Unserved, Refused, Receiving, Open, Received, Complete
<1>3. /\ ctrl' = ctrl /\ ep0'.bank1 = ep0.bank1 /\ host' = host
      /\ ep0'.flags \subseteq ep0.flags /\ (ep0'.bank0 <=> ep0.bank0)
      /\ line_coding' = line_coding
  BY <1>2, UnderflowMoves, OverflowMoves
<1>4. \A i : StoredUpTo(i)' <=> StoredUpTo(i)
  BY <1>3 DEF StoredUpTo
<1>5. CASE Refused /\ host.result = "none"
  BY <1>3, <1>5 DEF WritePhase, Refused
<1>6. CASE Receiving /\ Open /\ host.result = "none"
  <2>1. Receiving' /\ Open'
    BY <1>3, <1>6 DEF Receiving, Open, StoredUpTo
  <2> QED
    BY <1>3, <1>6, <2>1 DEF WritePhase
<1>7. CASE Complete
  BY <1>3, <1>7 DEF WritePhase, Complete, StoredUpTo
<1> QED
  BY <1>1, <1>5, <1>6, <1>7 DEF WritePhase, Unserved, Received

LEMMA WriteHostTakes ==
  ASSUME IInv, WriteInv, HostTakes
  PROVE  WriteInv'
<1> SUFFICES ASSUME Orderly', host'.req.kind = "set_line_coding", host'.result # "stalled"
             PROVE  WritePhase'
  BY DEF WriteInv
<1>1. /\ host'.req = host.req /\ Orderly /\ ep0.bank1 # NULL
      /\ ep0'.flags = ep0.flags \cup {"TRCPT1"}
      /\ ctrl' = ctrl /\ line_coding' = line_coding
  BY HostTakesMoves DEF Orderly
<1>2. host.req.dir = "out"
  BY <1>1, WriteDirection
<1>3. host.stage = "status" /\ host'.stage = "idle" /\ host'.result = "done"
  BY <1>2, HostTakesMoves
<1>4. WritePhase
  BY <1>1, <1>3 DEF WriteInv, IInv, Stages
<1>5. Complete
  BY <1>1, <1>4 DEF WritePhase, Unserved, Refused, Receiving
<1> QED
  BY <1>1, <1>3, <1>5 DEF WritePhase, Complete, StoredUpTo

LEMMA WriteHostSends ==
  ASSUME IInv, WriteInv, HostSends
  PROVE  WriteInv'
<1> SUFFICES ASSUME Orderly', host'.req.kind = "set_line_coding", host'.result # "stalled"
             PROVE  WritePhase'
  BY DEF WriteInv
<1> DEFINE n == AtMost(host.req.wLength - host.got, EpSize)
<1>1. /\ host'.req = host.req /\ Orderly
      /\ "RXSTP" \notin ep0.flags /\ ep0.bank0 /\ ~ep0'.bank0
      /\ ep0'.flags = ep0.flags \cup {"TRCPT0"} /\ ep0'.bank1 = ep0.bank1
      /\ ctrl' = ctrl /\ line_coding' = line_coding
  BY HostSendsMoves DEF Orderly
<1>2. host.req.dir = "out"
  BY <1>1, WriteDirection
<1>3. /\ host.stage = "data"
      /\ ep0'.byte_count = n /\ ep0'.data = host.req.value
      /\ host'.got = host.got + n /\ host'.result = host.result
      /\ host'.stage = IF host.got + n < host.req.wLength THEN "data" ELSE "status"
  BY <1>2, HostSendsMoves
<1>4. WritePhase
  BY <1>1, <1>3 DEF WriteInv
<1> HIDE DEF n
<1>5. CASE Refused /\ host.result = "none"
  BY <1>1, <1>3, <1>5 DEF WritePhase, Refused
<1>6. CASE Receiving /\ Open /\ host.result = "none"
  <2>1. Receiving'
    BY <1>1, <1>6 DEF Receiving, StoredUpTo
  <2>2. n = AtMost(LineCodingSize - ctrl.nb_trans, EpSize) /\ host.req.wLength = LineCodingSize
    BY <1>6 DEF n, Receiving, Open
  <2>3. Received'
    BY <1>1, <1>3, <1>6, <2>2 DEF Received, Open
  <2> QED
    BY <1>3, <1>6, <2>1, <2>3 DEF WritePhase
<1> QED
  BY <1>1, <1>3, <1>4, <1>5, <1>6 DEF WritePhase, Unserved, Received, Complete

LEMMA WriteHostWaits ==
  ASSUME IInv, WriteInv, HostWaits
  PROVE  WriteInv'
<1> SUFFICES ASSUME Orderly', host'.req.kind = "set_line_coding", host'.result # "stalled"
             PROVE  WritePhase'
  BY DEF WriteInv
<1>1. /\ host' = host /\ ctrl' = ctrl /\ ep0'.setup = ep0.setup /\ ep0'.bank1 = ep0.bank1
      /\ (ep0'.bank0 <=> ep0.bank0) /\ line_coding' = line_coding
      /\ ep0'.byte_count = ep0.byte_count /\ ep0'.data = ep0.data
      /\ \/ Direction = "IN" /\ ep0'.flags = ep0.flags \cup {"TRFAIL1"}
         \/ Direction = "OUT" /\ ep0'.flags = ep0.flags \cup {"TRFAIL0"}
  BY HostWaitsMoves
<1>2. WritePhase
  BY <1>1 DEF WriteInv, Orderly
<1>3. "TRFAIL1" \in ep0'.flags \ ep0.flags => host.stage # "data"
  <2>1. "data" = host.stage => Direction = "OUT"
    BY <1>1, WriteDirection DEF Direction
  <2>2. Direction = "OUT" => ep0'.flags = ep0.flags \cup {"TRFAIL0"}
    BY <1>1
  <2> QED
    BY <1>1, <2>1, <2>2
<1>4. ASSUME Unserved, host.stage = IF host.req.wLength > 0 THEN "data" ELSE "status",
             host.result = "none", "TRFAIL1" \in ep0.flags => host.req.wLength = 0
      PROVE  WritePhase'
  <2>1. Unserved'
    BY <1>1, <1>4 DEF Unserved
  <2>2. host.req.wLength \in Nat
    BY TypeParts DEF IInv, HostType, Request
  <2>3. "TRFAIL1" \in ep0'.flags => host.req.wLength = 0
    BY <1>1, <1>3, <1>4, <2>2
  <2> QED
    BY <1>1, <1>4, <2>1, <2>3 DEF WritePhase
<1>5. CASE Refused /\ host.result = "none"
  BY <1>1, <1>5 DEF WritePhase, Refused
<1>6. CASE Receiving /\ (Open \/ Received) /\ host.result = "none"
  <2>1. Receiving'
    BY <1>1, <1>6 DEF Receiving, StoredUpTo
  <2>2. CASE Open
    <3>1. Open'
      BY <1>1, <1>3, <2>2 DEF Open
    <3> QED
      BY <1>1, <1>6, <2>1, <3>1 DEF WritePhase
  <2>3. CASE Received
    <3>1. Received'
      BY <1>1, <1>3, <2>3 DEF Received
    <3> QED
      BY <1>1, <1>6, <2>1, <3>1 DEF WritePhase
  <2> QED
    BY <1>6, <2>2, <2>3
<1>7. CASE Complete
  BY <1>1, <1>7 DEF WritePhase, Complete, StoredUpTo
<1> QED
  BY <1>2, <1>4, <1>5, <1>6, <1>7 DEF WritePhase

LEMMA WriteHostSetup ==
  ASSUME IInv, HostSetup
  PROVE  WriteInv'
<1>1. PICK r \in Requests :
        /\ ep0'.flags = ep0.flags \cup {"RXSTP"} /\ ep0'.setup = r /\ ep0'.bank1 = NULL
        /\ host'.req = r /\ host'.got = 0 /\ host'.result = "none"
        /\ host'.stage = IF r.wLength > 0 THEN "data" ELSE "status"
        /\ (host'.overlap <=> ep0.flags # {})
  BY HostSetupMoves
<1>2. Orderly' => WritePhase'
  BY <1>1 DEF Orderly, WritePhase, Unserved
<1> QED
  BY <1>2 DEF WriteInv

LEMMA InitWrite == Init => WriteInv
BY DEF Init, AfterReset, NoRequest, WriteInv

LEMMA StepWrite == IInv /\ WriteInv /\ [Next]_vars => WriteInv'
<1> SUFFICES ASSUME IInv, WriteInv, [Next]_vars PROVE WriteInv'
  OBVIOUS
<1>1. Orderly /\ host.req.kind = "set_line_coding" /\ host.result # "stalled" => WritePhase
  BY DEF WriteInv
<1>2. CASE OnSetup
  <2>1. host' = host
    BY <1>2 DEF OnSetup
  <2> QED
    BY <1>1, <1>2, <2>1, WriteOnSetup, WriteInterrupt
<1>3. CASE TransferOk("TRCPT1") \/ TransferOk("TRCPT0")
  <2>1. host' = host
    BY <1>3 DEF TransferOk
  <2> QED
    BY <1>1, <1>3, <2>1, WriteTransferOk, WriteInterrupt
<1>4. CASE Underflow \/ Overflow
  <2>1. host' = host
    BY <1>4 DEF Underflow, Overflow
  <2> QED
    BY <1>1, <1>4, <2>1, WriteFailed, WriteInterrupt
<1>5. CASE OnBusReset
  <2>1. host' = host /\ host.req.kind = "other"
    BY <1>5 DEF OnBusReset, Serves, IInv, Asked, NoRequest
  <2> QED
    BY <2>1 DEF WriteInv
<1>6. CASE HostTakes
  BY <1>6, WriteHostTakes
<1>7. CASE HostSends
  BY <1>7, WriteHostSends
<1>8. CASE HostWaits
  BY <1>8, WriteHostWaits
<1>9. CASE HostStalled
  BY <1>9, HostStalledMoves DEF WriteInv
<1>10. CASE HostSetup
  BY <1>10, WriteHostSetup
<1>11. CASE HostEndsEarly
  BY <1>11, HostEndsEarlyMoves DEF WriteInv, Orderly
<1>12. CASE HostReset
  BY <1>12, HostResetMoves DEF WriteInv, AfterReset, NoRequest
<1>13. CASE UNCHANGED vars
  <2>1. host' = host /\ ctrl' = ctrl /\ ep0' = ep0 /\ line_coding' = line_coding
    BY <1>13 DEF vars
  <2> QED
    BY <1>1, <2>1, WriteInterrupt
    DEF WritePhase, Unserved, Refused, Receiving, Open, Received, Complete, StoredUpTo
<1> QED
  BY <1>2, <1>3, <1>4, <1>5, <1>6, <1>7, <1>8, <1>9, <1>10, <1>11, <1>12,
     <1>13 DEF Next, Interrupt, HostAsks

(* Whatever the sizes of a packet and of the line coding, once the host    *)
(* was told that it is set every byte of it is (udd_ctrl_out_received).    *)
THEOREM WritesAreStored == Spec => []WriteStored
<1>1. WriteInv /\ IInv => WriteStored
  <2> SUFFICES ASSUME WriteInv, IInv, Orderly, host.result = "done",
                      host.req.kind = "set_line_coding"
               PROVE  \A i \in 1 .. LineCodingSize : line_coding[i] = host.req.value
    BY DEF WriteStored
  <2>1. StoredUpTo(LineCodingSize)
    BY DEF WriteInv, WritePhase, Complete
  <2> QED
    BY <2>1 DEF StoredUpTo
<1> QED
  BY <1>1, Inv, InitWrite, StepWrite, PTL DEF Spec

-----------------------------------------------------------------------------
(* The address.  A reset clears all that was under way, and a SETUP packet *)
(* that waits to be served leaves the host nothing to take.                *)
ResetClears == "EORST" \in ep0.flags => ep0.flags = {"EORST"} /\ host = AfterReset

SetupWaits ==
  "RXSTP" \in ep0.flags =>
    /\ ep0.setup = host.req /\ ep0.bank1 = NULL /\ ep0.halts = {}
    /\ host.stage # "idle"

EventInv == ResetClears /\ SetupWaits

(* The callback that changes the address is yet to run; the host already   *)
(* talks to the address it will set.                                       *)
Pending == ctrl.callback = "udc_valid_address" /\ ctrl.state # "SETUP"
Given == ctrl.req.value = host.address

(* The request is served, and the host may take the empty packet that ends *)
(* it; the host has taken it.                                              *)
Acknowledging ==
  /\ Pending /\ ctrl.state = "WAIT_IN_ZLP" /\ "IN" \notin ep0.halts
  /\ host.req.kind = "set_address" /\ host.req.wLength = 0
  /\ ctrl.req = host.req

Acknowledged == Acknowledging /\ host.stage = "idle" /\ "TRCPT1" \in ep0.flags /\ Given

(* A callback is pending from its request to the end of the transfer, and  *)
(* then to the first event after it, which changes the address to the one  *)
(* the host talks to.                                                      *)
PendingInv ==
  ~host.lost /\ "EORST" \notin ep0.flags /\ Pending =>
    IF "RXSTP" \in ep0.flags THEN Given
    ELSE \/ Acknowledging /\ host.stage = "status"
         \/ Acknowledged

Transferred == ep0.flags \cap {"TRCPT1", "TRCPT0"} # {}

(* A callback that has run may run again, with the same address; one that  *)
(* a reset left behind does not.                                           *)
Repeatable ==
  ctrl.state = "SETUP" /\ ctrl.callback = "udc_valid_address" =>
    Given \/ (~Transferred /\ ("RXSTP" \in ep0.flags \/ host.stage = "idle"))

(* No event of before is left to end a transfer that has just begun.       *)
NothingStale ==
  "RXSTP" \in ep0.flags \/ (Acknowledging /\ host.stage = "status") => ~Transferred

(* SET_ADDRESS is acknowledged, or was refused and stays without an answer.*)
SetAddressServed ==
  host.req.kind = "set_address" /\ host.stage # "idle" /\ "RXSTP" \notin ep0.flags =>
    \/ Acknowledging
    \/ /\ ep0.bank1 = NULL /\ ctrl.state \in {"STALL_REQ", "SETUP"}
       /\ ctrl.callback = "none"

Known == ~host.overlap /\ ~host.lost /\ "EORST" \notin ep0.flags

(* Device and host are on the same address but for the moment between the  *)
(* end of the transfer and the first event after it.                       *)
Settled ==
  /\ address = host.address \/ (Acknowledged /\ "RXSTP" \notin ep0.flags)
  /\ Repeatable /\ NothingStale /\ SetAddressServed

AddressInv == Known => Settled

LEMMA SetAddressOut ==
  ASSUME IInv, host.req.kind = "set_address"
  PROVE  host.req.dir = "out"
BY DEF IInv, Asked, NoRequest, Writing

LEMMA StepEvent == IInv /\ EventInv /\ [Next]_vars => EventInv'
<1> SUFFICES ASSUME IInv, EventInv, [Next]_vars PROVE EventInv'
  OBVIOUS
<1>1. CASE OnSetup
  <2>1. "RXSTP" \in ep0.flags /\ host' = host /\ ep0'.flags = ep0.flags \ {"RXSTP"}
    BY <1>1, OnSetupMoves DEF OnSetup, Serves
  <2> QED
    BY <2>1 DEF EventInv, ResetClears, SetupWaits
<1>2. CASE \/ TransferOk("TRCPT1") \/ TransferOk("TRCPT0") \/ Underflow \/ Overflow
           \/ OnBusReset
  <2>1. /\ "RXSTP" \notin ep0.flags
        /\ "EORST" \notin ep0.flags \/ ep0.flags = {"EORST"}
    BY <1>2 DEF TransferOk, Underflow, Overflow, OnBusReset, Serves, Before, Event,
                EventInv, ResetClears
  <2>2. ep0'.flags \subseteq ep0.flags /\ host' = host
    BY <1>2, TransferOkKept, UnderflowMoves, OverflowMoves, OnBusResetMoves
    DEF Kept, TransferOk
  <2>3. "EORST" \in ep0'.flags => ep0'.flags = {"EORST"}
    BY <2>1, <2>2
  <2> QED
    BY <2>1, <2>2, <2>3 DEF EventInv, ResetClears, SetupWaits
<1>3. CASE HostTakes
  BY <1>3, HostTakesMoves DEF EventInv, ResetClears, SetupWaits
<1>4. CASE HostSends
  BY <1>4, HostSendsMoves DEF EventInv, ResetClears, SetupWaits
<1>5. CASE HostWaits
  BY <1>5, HostWaitsMoves DEF EventInv, ResetClears, SetupWaits
<1>6. CASE HostStalled
  BY <1>6, HostStalledMoves DEF EventInv, ResetClears, SetupWaits
<1>7. CASE HostSetup
  BY <1>7, HostSetupMoves DEF EventInv, ResetClears, SetupWaits
<1>8. CASE HostEndsEarly
  BY <1>8, HostEndsEarlyMoves DEF EventInv, ResetClears, SetupWaits, AfterReset
<1>9. CASE HostReset
  BY <1>9, HostResetMoves DEF EventInv, ResetClears, SetupWaits
<1>10. CASE UNCHANGED vars
  BY <1>10 DEF vars, EventInv, ResetClears, SetupWaits
<1> QED
  BY <1>1, <1>2, <1>3, <1>4, <1>5, <1>6, <1>7, <1>8, <1>9, <1>10
  DEF Next, Interrupt, HostAsks

LEMMA InitAddress == Init => EventInv /\ PendingInv /\ AddressInv
BY DEF Init, EventInv, ResetClears, SetupWaits, PendingInv, AddressInv, Known

(* The events of before a reset are gone.                                  *)
LEMMA NoResetFirst ==
  ASSUME EventInv, NEW f \in Event \ {"EORST"}, Serves(f)
  PROVE  "EORST" \notin ep0.flags
BY DEF EventInv, ResetClears, Serves

LEMMA AcknowledgedBy ==
  ASSUME PendingInv, Pending, ~host.lost, "EORST" \notin ep0.flags, "RXSTP" \notin ep0.flags
  PROVE  /\ Acknowledging
         /\ host.stage = "status" \/ (host.stage = "idle" /\ "TRCPT1" \in ep0.flags /\ Given)
BY DEF PendingInv, Acknowledged

LEMMA StepPending == IInv /\ EventInv /\ PendingInv /\ [Next]_vars => PendingInv'
<1> SUFFICES ASSUME IInv, EventInv, PendingInv, [Next]_vars,
                    ~host'.lost, "EORST" \notin ep0'.flags, Pending'
             PROVE  IF "RXSTP" \in ep0'.flags THEN Given'
                    ELSE \/ Acknowledging' /\ host'.stage = "status"
                         \/ Acknowledged'
  BY DEF PendingInv
<1>1. CASE OnSetup
  <2>1. "RXSTP" \in ep0.flags /\ host' = host /\ ep0'.flags = ep0.flags \ {"RXSTP"}
    BY <1>1, OnSetupMoves DEF OnSetup, Serves
  <2>2. /\ ep0.setup = host.req /\ ep0.halts = {} /\ host.stage # "idle"
    BY <2>1 DEF EventInv, SetupWaits
  <2>3. /\ ep0.setup.kind = "set_address" /\ ep0.setup.wLength = 0
        /\ ctrl'.state = "WAIT_IN_ZLP" /\ ctrl'.req = ep0.setup /\ ep0'.halts = ep0.halts
    BY <1>1, OnSetupMoves DEF Pending
  <2>4. host.stage = "status"
    BY <2>2, <2>3, TypeParts DEF IInv, Stages, HostType
  <2> QED
    BY <2>1, <2>2, <2>3, <2>4 DEF Acknowledging
<1>2. ASSUME NEW f \in {"TRCPT1", "TRCPT0"}, TransferOk(f)
      PROVE  FALSE
  <2>1. /\ "EORST" \notin ep0.flags /\ "RXSTP" \notin ep0.flags /\ host' = host
    BY <1>2, NoResetFirst DEF TransferOk, Event, Serves, Before
  <2>2. PICK c \in CtrlType :
           /\ c.state = ctrl.state /\ c.callback = ctrl.callback
           /\ c.payload_size = ctrl.payload_size /\ c.nb_trans = ctrl.nb_trans
           /\ \/ c.state = "DATA_OUT" /\ OutReceived(c, Cleared(f))
              \/ c.state = "DATA_IN" /\ InSent(c, Cleared(f))
              \/ ctrl'.state = "SETUP"
    BY <1>2, TransferOkMoves
  <2>3. Cleared(f) \in Ep0Type
    BY ClearedMoves, TypeParts DEF IInv, Event
  <2>4. ctrl.state \in {"DATA_OUT", "DATA_IN"} /\ ctrl'.callback = ctrl.callback
    BY <2>2, <2>3, OutReceivedMoves, InSentMoves, TypeParts DEF Pending, IInv
  <2> QED
    BY <2>1, <2>4, AcknowledgedBy DEF Pending, Acknowledging
<1>3. CASE Underflow \/ Overflow
  <2>1. /\ "EORST" \notin ep0.flags /\ "RXSTP" \notin ep0.flags /\ host' = host
        /\ ep0'.flags \in {ep0.flags \ {"TRFAIL1"}, ep0.flags \ {"TRFAIL0"}}
    BY <1>3, NoResetFirst, UnderflowMoves, OverflowMoves
    DEF Underflow, Overflow, Event, Serves, Before
  <2>2. Pending
    BY <1>3, UnderflowMoves, OverflowMoves DEF Pending
  <2>3. /\ Acknowledging
        /\ host.stage = "status" \/ (host.stage = "idle" /\ "TRCPT1" \in ep0.flags /\ Given)
    BY <2>1, <2>2, AcknowledgedBy
  <2>4. ctrl' = ctrl /\ "IN" \notin ep0'.halts
    BY <1>3, <2>3, UnderflowMoves, OverflowMoves DEF Acknowledging
  <2> QED
    BY <2>1, <2>2, <2>3, <2>4 DEF Acknowledging, Acknowledged, Given
<1>4. CASE OnBusReset
  BY <1>4, OnBusResetMoves DEF Pending
<1>5. CASE HostTakes
  <2>1. /\ "RXSTP" \notin ep0.flags /\ "EORST" \notin ep0.flags /\ ctrl' = ctrl
        /\ ep0'.flags = ep0.flags \cup {"TRCPT1"} /\ ep0'.halts = ep0.halts
        /\ host.stage # "idle" /\ ~host.lost /\ host'.req = host.req
    BY <1>5, HostTakesMoves DEF HostTakes, Asks, EventInv, SetupWaits
  <2>2. Acknowledging /\ host.stage = "status"
    BY <2>1, AcknowledgedBy DEF Pending
  <2>3. host'.stage = "idle" /\ host'.address = host.req.value
    BY <1>5, <2>2, HostTakesMoves DEF Acknowledging
  <2> QED
    BY <2>1, <2>2, <2>3 DEF Acknowledging, Acknowledged, Given, Pending
<1>6. CASE HostSends
  <2>1. /\ "RXSTP" \notin ep0.flags /\ "EORST" \notin ep0.flags /\ ctrl' = ctrl
        /\ host.stage # "idle" /\ ~host.lost /\ Direction = "OUT"
    BY <1>6, HostSendsMoves DEF HostSends, Asks, Listening
  <2>2. Acknowledging /\ host.stage = "status"
    BY <2>1, AcknowledgedBy DEF Pending
  <2> QED
    BY <2>1, <2>2, SetAddressOut DEF Direction, Acknowledging
<1>7. CASE HostWaits
  <2>1. /\ ctrl' = ctrl /\ host' = host /\ ep0'.halts = ep0.halts
        /\ ep0'.flags \in {ep0.flags \cup {"TRFAIL1"}, ep0.flags \cup {"TRFAIL0"}}
    BY <1>7, HostWaitsMoves
  <2> QED
    BY <2>1 DEF PendingInv, Pending, Acknowledging, Acknowledged, Given
<1>8. CASE HostStalled
  <2>1. /\ ctrl' = ctrl /\ ep0' = ep0 /\ ~host.lost /\ host.stage # "idle"
        /\ Direction \in ep0.halts /\ "EORST" \notin ep0.flags /\ "RXSTP" \notin ep0.flags
    BY <1>8, HostStalledMoves DEF EventInv, SetupWaits
  <2>2. Acknowledging /\ host.stage = "status"
    BY <2>1, AcknowledgedBy DEF Pending
  <2> QED
    BY <2>1, <2>2, SetAddressOut DEF Direction, Acknowledging
<1>9. CASE HostSetup
  <2>1. /\ ctrl' = ctrl /\ "RXSTP" \in ep0'.flags /\ host'.address = host.address
        /\ "EORST" \notin ep0.flags /\ "RXSTP" \notin ep0.flags
        /\ ~host.lost /\ ~(host.stage # "idle" /\ host.req.kind = "set_address")
    BY <1>9, HostSetupMoves
  <2>2. Given
    BY <2>1, AcknowledgedBy DEF Pending, Acknowledging
  <2> QED
    BY <2>1, <2>2 DEF Given
<1>10. CASE HostEndsEarly
  <2>1. /\ ctrl' = ctrl /\ ep0' = ep0 /\ ~host.lost /\ host.stage = "data"
        /\ host'.address = host.address
    BY <1>10, HostEndsEarlyMoves
  <2> QED
    BY <2>1, AcknowledgedBy DEF PendingInv, Pending, Given
<1>11. CASE HostReset
  BY <1>11, HostResetMoves
<1>12. CASE UNCHANGED vars
  BY <1>12 DEF vars, PendingInv, Pending, Acknowledging, Acknowledged, Given
<1> QED
  BY <1>1, <1>2, <1>3, <1>4, <1>5, <1>6, <1>7, <1>8, <1>9, <1>10, <1>11, <1>12
  DEF Next, Interrupt, HostAsks

(* What is known before a step of the interrupt or of a transaction.       *)
LEMMA SettledBefore ==
  ASSUME AddressInv, Known' , ~host.overlap <=> ~host'.overlap, ~host.lost <=> ~host'.lost,
         "EORST" \notin ep0.flags
  PROVE  Known /\ Settled
BY DEF AddressInv, Known

LEMMA AddressOnSetup ==
  ASSUME IInv, EventInv, PendingInv, AddressInv, OnSetup, Known'
  PROVE  Settled'
<1>1. /\ "RXSTP" \in ep0.flags /\ "EORST" \notin ep0.flags /\ host' = host
      /\ ep0'.flags = ep0.flags \ {"RXSTP"} /\ ctrl'.state # "SETUP"
  BY OnSetupMoves, NoResetFirst DEF OnSetup, Serves, Event
<1>2. Known /\ Settled
  BY <1>1, SettledBefore
<1>3. ep0.setup = host.req /\ ep0.bank1 = NULL /\ ep0.halts = {}
  BY <1>1 DEF EventInv, SetupWaits
<1>4. address' = host'.address
  <2>1. Pending => Given
    BY <1>1, <1>2 DEF PendingInv, Known
  <2>2. address' = IF ctrl.state # "SETUP" THEN AddressAfter(ctrl) ELSE address
    BY OnSetupMoves
  <2> QED
    BY <1>1, <1>2, <2>1, <2>2 DEF AddressAfter, Pending, Given, Settled
<1>5. Repeatable'
  BY <1>1 DEF Repeatable
<1>6. NothingStale'
  BY <1>1, <1>2 DEF NothingStale, Transferred, Settled
<1>7. SetAddressServed'
  <2>1. ep0.setup.kind = "set_address" =>
          \/ /\ ctrl'.callback = "udc_valid_address" /\ ep0.setup.wLength = 0
             /\ ctrl'.state = "WAIT_IN_ZLP" /\ ctrl'.req = ep0.setup /\ ep0'.halts = ep0.halts
          \/ ctrl'.callback = "none" /\ ctrl'.state = "STALL_REQ" /\ ep0'.bank1 = ep0.bank1
    BY OnSetupMoves
  <2> QED
    BY <1>1, <1>3, <2>1 DEF SetAddressServed, Acknowledging, Pending
<1> QED
  BY <1>4, <1>5, <1>6, <1>7 DEF Settled

LEMMA AddressTransferOk ==
  ASSUME IInv, EventInv, PendingInv, AddressInv,
         NEW f \in {"TRCPT1", "TRCPT0"}, TransferOk(f), Known'
  PROVE  Settled'
<1>1. /\ "EORST" \notin ep0.flags /\ "RXSTP" \notin ep0.flags /\ host' = host /\ Transferred
  BY NoResetFirst DEF TransferOk, Event, Serves, Before, Transferred
<1>2. Known /\ Settled
  BY <1>1, SettledBefore
<1>3. PICK c \in CtrlType :
        /\ c.state = ctrl.state /\ c.callback = ctrl.callback /\ c.req = ctrl.req
        /\ c.payload_size = ctrl.payload_size /\ c.nb_trans = ctrl.nb_trans
        /\ \/ c.state = "DATA_OUT" /\ OutReceived(c, Cleared(f)) /\ UNCHANGED address
           \/ c.state = "DATA_IN" /\ InSent(c, Cleared(f)) /\ UNCHANGED address
           \/ /\ c.state \notin {"DATA_OUT", "DATA_IN"} /\ ctrl'.state = "SETUP"
              /\ ctrl'.callback = c.callback /\ ctrl'.req = c.req
              /\ ep0' = Cleared(f) /\ address' = AddressAfter(c)
  BY TransferOkMoves
<1>4. /\ Cleared(f) \in Ep0Type /\ Cleared(f).flags = ep0.flags \ {f}
      /\ Cleared(f).bank1 = ep0.bank1
  BY ClearedMoves, TypeParts DEF IInv, Event
<1>5. Pending => Given /\ host.stage = "idle" /\ ctrl.state = "WAIT_IN_ZLP"
  BY <1>1, <1>2, AcknowledgedBy DEF Settled, NothingStale, Known, Acknowledging
<1>6. CASE ctrl.state \in {"DATA_OUT", "DATA_IN"}
  <2>1. ~Pending
    BY <1>5, <1>6
  <2>2. /\ address' = address /\ ctrl'.state # "SETUP"
        /\ ctrl'.callback = ctrl.callback /\ ep0'.flags \subseteq ep0.flags
    BY <1>3, <1>4, <1>6, OutReceivedMoves, InSentMoves, TypeParts DEF IInv
  <2>3. address' = host'.address
    BY <1>1, <1>2, <2>1, <2>2 DEF Settled, Acknowledged, Acknowledging
  <2>4. ~Pending'
    BY <1>6, <2>1, <2>2 DEF Pending
  <2>5. ~(host.req.kind = "set_address" /\ host.stage # "idle")
    BY <1>1, <1>2, <1>6, <2>1 DEF Settled, SetAddressServed, Acknowledging
  <2> QED
    BY <1>1, <2>2, <2>3, <2>4, <2>5
    DEF Settled, Repeatable, NothingStale, SetAddressServed, Acknowledging
<1>7. CASE ctrl.state \notin {"DATA_OUT", "DATA_IN"}
  <2>1. /\ ctrl'.state = "SETUP" /\ ctrl'.callback = ctrl.callback /\ ctrl'.req = ctrl.req
        /\ ep0' = Cleared(f)
        /\ address' = IF ctrl.callback = "udc_valid_address" THEN ctrl.req.value ELSE address
    BY <1>3, <1>7 DEF AddressAfter
  <2>2. ctrl.callback = "udc_valid_address" => Given
    BY <1>1, <1>2, <1>5 DEF Settled, Repeatable, Pending
  <2>3. address' = host'.address
    BY <1>1, <1>2, <2>1, <2>2 DEF Settled, Acknowledged, Acknowledging, Pending, Given
  <2>4. Repeatable'
    BY <1>1, <2>1, <2>2 DEF Repeatable, Given
  <2>5. ~Acknowledging' /\ "RXSTP" \notin ep0'.flags
    BY <1>1, <1>4, <2>1 DEF Acknowledging, Pending
  <2>6. SetAddressServed'
    <3>1. ~Acknowledging \/ host.stage = "idle"
      BY <1>5 DEF Acknowledging
    <3> QED
      BY <1>1, <1>2, <1>4, <2>1, <3>1 DEF Settled, SetAddressServed
  <2> QED
    BY <2>3, <2>4, <2>5, <2>6 DEF Settled, NothingStale
<1> QED
  BY <1>6, <1>7

LEMMA AddressFailed ==
  ASSUME IInv, EventInv, PendingInv, AddressInv, Underflow \/ Overflow, Known'
  PROVE  Settled'
<1>1. /\ "EORST" \notin ep0.flags /\ "RXSTP" \notin ep0.flags /\ ~Transferred
      /\ host' = host /\ address' = address
      /\ ep0'.flags \in {ep0.flags \ {"TRFAIL1"}, ep0.flags \ {"TRFAIL0"}}
  BY NoResetFirst, UnderflowMoves, OverflowMoves
  DEF Underflow, Overflow, Event, Serves, Before, Transferred
<1>2. Known /\ Settled
  BY <1>1, SettledBefore
<1>3. address' = host'.address
  BY <1>1, <1>2 DEF Settled, Acknowledged, Transferred
<1>4. ~Transferred' /\ "RXSTP" \notin ep0'.flags
  BY <1>1 DEF Transferred
<1>5. /\ ctrl.state = "DATA_OUT" \/ ctrl.state = "DATA_IN" \/ ctrl' = ctrl
      /\ ctrl'.state = "SETUP" => ctrl' = ctrl
      /\ ctrl.state \in {"SETUP", "STALL_REQ"} => ctrl' = ctrl /\ ep0'.bank1 = ep0.bank1
      /\ ctrl.state = "WAIT_IN_ZLP" /\ "IN" \notin ep0.halts =>
           ctrl' = ctrl /\ "IN" \notin ep0'.halts
  BY UnderflowMoves, OverflowMoves
<1>6. Repeatable'
  BY <1>1, <1>2, <1>4, <1>5 DEF Settled, Repeatable, Given
<1>7. SetAddressServed'
  BY <1>1, <1>2, <1>5 DEF Settled, SetAddressServed, Acknowledging, Pending
<1> QED
  BY <1>3, <1>4, <1>6, <1>7 DEF Settled, NothingStale

LEMMA AddressOnBusReset ==
  ASSUME IInv, EventInv, OnBusReset, Known'
  PROVE  Settled'
<1>1. "EORST" \in ep0.flags /\ ep0.flags = {"EORST"} /\ host = AfterReset
  BY DEF OnBusReset, Serves, EventInv, ResetClears
<1>2. /\ host' = host /\ address' = 0 /\ ep0'.flags = {}
  BY <1>1, OnBusResetMoves
<1>3. host.stage = "idle" /\ host.address = 0
  BY <1>1 DEF AfterReset
<1> QED
  BY <1>2, <1>3
  DEF Settled, Repeatable, NothingStale, SetAddressServed, Transferred

(* The host takes the empty packet that ends SET_ADDRESS, or another.      *)
LEMMA AddressHostTakes ==
  ASSUME IInv, EventInv, PendingInv, PendingInv', AddressInv, HostTakes, Known'
  PROVE  Settled'
<1>1. /\ "RXSTP" \notin ep0.flags /\ "EORST" \notin ep0.flags /\ ctrl' = ctrl
      /\ ep0'.flags = ep0.flags \cup {"TRCPT1"} /\ ep0'.halts = ep0.halts
      /\ host.stage # "idle" /\ host'.req = host.req /\ ep0.bank1 # NULL
      /\ address = host.address /\ address' = address
      /\ (host'.overlap <=> host.overlap) /\ (host'.lost <=> host.lost)
  BY HostTakesMoves DEF HostTakes, Asks, EventInv, SetupWaits
<1>2. Known /\ Settled
  BY <1>1, SettledBefore
<1>3. CASE host.req.kind = "set_address"
  <2>1. Acknowledging
    BY <1>1, <1>2, <1>3 DEF Settled, SetAddressServed
  <2>2. host.stage = "status"
    BY <1>1, <1>2, <2>1, AcknowledgedBy DEF Acknowledging, Known
  <2>3. host'.stage = "idle"
    BY <2>2, HostTakesMoves
  <2>4. Pending' /\ "RXSTP" \notin ep0'.flags /\ ~host'.lost /\ "EORST" \notin ep0'.flags
    BY <1>1, <1>2, <2>1 DEF Acknowledging, Pending, Known
  <2>5. Acknowledged'
    BY <2>3, <2>4 DEF PendingInv
  <2> QED
    BY <2>3, <2>4, <2>5 DEF Settled, Repeatable, NothingStale, SetAddressServed, Pending
<1>4. CASE host.req.kind # "set_address"
  <2>1. address' = host'.address /\ host'.address = host.address
    BY <1>1, <1>4, HostTakesMoves
  <2>2. Repeatable'
    BY <1>1, <1>2, <2>1 DEF Settled, Repeatable, Given
  <2> QED
    BY <1>1, <1>4, <2>1, <2>2 DEF Settled, NothingStale, SetAddressServed, Acknowledging
<1> QED
  BY <1>3, <1>4

LEMMA AddressHostSends ==
  ASSUME IInv, EventInv, PendingInv, AddressInv, HostSends, Known'
  PROVE  Settled'
<1>1. /\ "RXSTP" \notin ep0.flags /\ "EORST" \notin ep0.flags /\ ctrl' = ctrl
      /\ ep0'.flags = ep0.flags \cup {"TRCPT0"} /\ ep0'.halts = ep0.halts
      /\ host.stage # "idle" /\ host'.req = host.req /\ ep0'.bank1 = ep0.bank1
      /\ address = host.address /\ address' = address /\ Direction = "OUT"
      /\ (host'.overlap <=> host.overlap) /\ (host'.lost <=> host.lost)
  BY HostSendsMoves DEF HostSends, Asks
<1>2. Known /\ Settled
  BY <1>1, SettledBefore
<1>3. host.req.kind = "set_address" => host.stage = "data"
  BY <1>1, SetAddressOut DEF Direction
<1>4. host'.address = host.address
  <2>1. host.req.kind # "set_address" \/ host.stage = "data"
    BY <1>3
  <2> QED
    BY <2>1, HostSendsMoves
<1>5. ~Acknowledging
  BY <1>1, <1>2, <1>3, AcknowledgedBy DEF Acknowledging, Known
<1>6. ~Acknowledging'
  BY <1>1, <1>5 DEF Acknowledging, Pending
<1>7. Repeatable'
  BY <1>1, <1>2, <1>4 DEF Settled, Repeatable, Given
<1>8. SetAddressServed'
  BY <1>1, <1>2, <1>5 DEF Settled, SetAddressServed
<1> QED
  BY <1>1, <1>4, <1>6, <1>7, <1>8 DEF Settled, NothingStale

LEMMA AddressHostWaits ==
  ASSUME IInv, EventInv, PendingInv, AddressInv, HostWaits, Known'
  PROVE  Settled'
<1>1. /\ ctrl' = ctrl /\ host' = host /\ ep0'.halts = ep0.halts /\ ep0'.bank1 = ep0.bank1
      /\ ep0'.flags \in {ep0.flags \cup {"TRFAIL1"}, ep0.flags \cup {"TRFAIL0"}}
      /\ "EORST" \notin ep0.flags /\ address = host.address /\ address' = address
  BY HostWaitsMoves
<1>2. Known /\ Settled
  BY <1>1, SettledBefore
<1> QED
  BY <1>1, <1>2
  DEF Settled, Repeatable, Given, NothingStale, Transferred, SetAddressServed,
      Acknowledging, Pending

LEMMA AddressHostStalled ==
  ASSUME IInv, EventInv, PendingInv, AddressInv, HostStalled, Known'
  PROVE  Settled'
<1>1. /\ ctrl' = ctrl /\ ep0' = ep0 /\ host'.stage = "idle" /\ host'.address = host.address
      /\ "EORST" \notin ep0.flags /\ address = host.address /\ address' = address
      /\ (host'.overlap <=> host.overlap) /\ (host'.lost <=> host.lost)
  BY HostStalledMoves
<1>2. Known /\ Settled
  BY <1>1, SettledBefore
<1> QED
  BY <1>1, <1>2
  DEF Settled, Repeatable, Given, NothingStale, Transferred, SetAddressServed

LEMMA AddressHostSetup ==
  ASSUME IInv, HostSetup, Known'
  PROVE  Settled'
<1>1. /\ ep0'.flags = ep0.flags \cup {"RXSTP"} /\ (host'.overlap <=> ep0.flags # {})
      /\ address = host.address /\ address' = address /\ host'.address = host.address
  BY HostSetupMoves
<1>2. ep0'.flags = {"RXSTP"}
  BY <1>1 DEF Known
<1> QED
  BY <1>1, <1>2
  DEF Settled, Repeatable, NothingStale, Transferred, SetAddressServed

LEMMA AddressHostEndsEarly ==
  ASSUME IInv, EventInv, PendingInv, AddressInv, HostEndsEarly, Known'
  PROVE  Settled'
<1>1. /\ ctrl' = ctrl /\ ep0' = ep0 /\ host.stage = "data" /\ host'.address = host.address
      /\ host'.stage = "status" /\ host'.req = host.req /\ address' = address
      /\ "EORST" \notin ep0.flags
      /\ (host'.overlap <=> host.overlap) /\ (host'.lost <=> host.lost)
  BY HostEndsEarlyMoves DEF Known
<1>2. Known /\ Settled
  BY <1>1, SettledBefore
<1>3. "RXSTP" \notin ep0.flags => ~Acknowledging
  BY <1>1, <1>2, AcknowledgedBy DEF Acknowledging, Known
<1>4. address' = host'.address
  BY <1>1, <1>2 DEF Settled, Acknowledged
<1>5. Acknowledging' <=> Acknowledging
  BY <1>1 DEF Acknowledging, Pending
<1>6. Repeatable' /\ NothingStale' /\ SetAddressServed'
  BY <1>1, <1>2, <1>3, <1>5
  DEF Settled, Repeatable, Given, NothingStale, Transferred, SetAddressServed
<1> QED
  BY <1>4, <1>6 DEF Settled

LEMMA StepAddress ==
  IInv /\ EventInv /\ PendingInv /\ PendingInv' /\ AddressInv /\ [Next]_vars => AddressInv'
<1> SUFFICES ASSUME IInv, EventInv, PendingInv, PendingInv', AddressInv, [Next]_vars, Known'
             PROVE  Settled'
  BY DEF AddressInv
<1>1. CASE HostReset
  BY <1>1, HostResetMoves DEF Known
<1>2. CASE UNCHANGED vars
  BY <1>2
  DEF vars, AddressInv, Known, Settled, Repeatable, Given, NothingStale, Transferred,
      SetAddressServed, Acknowledged, Acknowledging, Pending
<1> QED
  BY <1>1, <1>2, AddressOnSetup, AddressTransferOk, AddressFailed, AddressOnBusReset,
     AddressHostTakes, AddressHostSends, AddressHostWaits, AddressHostStalled,
     AddressHostSetup, AddressHostEndsEarly
  DEF Next, Interrupt, HostAsks

(* For any requests and any host, throughout a transfer the device listens *)
(* to the address the host talks to (udc_valid_address runs when the       *)
(* transfer of SET_ADDRESS has ended, and before the next event).          *)
THEOREM AddressesAgree == Spec => []AddressAgreed
<1>1. AddressInv => AddressAgreed
  BY DEF AddressInv, Known, Settled, Acknowledged, Acknowledging, AddressAgreed
<1> QED
  BY <1>1, Inv, InitAddress, StepEvent, StepPending, StepAddress, PTL DEF Spec

-----------------------------------------------------------------------------
(* The answer.  Whether the request was fit to be accepted.                *)
Fit == Accepted(host.req, address)

(* It was not: IN is halted until the next SETUP packet, so that the host  *)
(* gets no packet; a read stays in its data stage.                         *)
Denied ==
  /\ ~Fit /\ host.result # "done"
  /\ ctrl.state \in {"STALL_REQ", "SETUP"} /\ "IN" \in ep0.halts
  /\ host.stage = "status" => host.req.dir = "out" \/ host.req.wLength = 0

(* It was: the direction of its status stage is never halted, and neither  *)
(* is any in its data stage.                                               *)
ServingRead ==
  /\ ctrl.state \in {"DATA_IN", "WAIT_OUT_ZLP", "SETUP"}
  /\ "OUT" \notin ep0.halts
  /\ host.stage = "data" => ep0.halts = {}

ServingWrite ==
  /\ ctrl.state \in {"DATA_OUT", "WAIT_IN_ZLP", "SETUP"}
  /\ "IN" \notin ep0.halts
  /\ host.stage = "data" => ep0.halts = {} /\ ctrl.state = "DATA_OUT"
  /\ ctrl.state = "DATA_OUT" => host.req.wLength > 0

Serving ==
  /\ host.result # "stalled"
  /\ IF host.req.dir = "in" THEN ServingRead ELSE ServingWrite

(* The request in hand is served, and its callback is its own.             *)
Answering ==
  /\ ctrl.callback = "udc_valid_address" => host.req.kind = "set_address"
  /\ Denied \/ (Fit /\ (WellFormed(host.req) => Serving))

InHand ==
  Orderly /\ "RXSTP" \notin ep0.flags /\ (host.stage # "idle" \/ host.result # "none")

(* Until it is served, the host has got no answer.                         *)
Unanswered ==
  "RXSTP" \in ep0.flags /\ Orderly =>
    host.result = "none" /\ host.stage = IF host.req.wLength > 0 THEN "data" ELSE "status"

AnswerInv == (InHand => Answering) /\ Unanswered

(* What the standard makes of a request that is accepted.                  *)
LEMMA FitLengths ==
  ASSUME IInv, Fit, WellFormed(host.req)
  PROVE  /\ host.req \in Requests /\ host.req.dir \in {"in", "out"}
         /\ host.req.wLength \in Nat
         /\ host.req.dir = "in" => host.req.wLength > 0
         /\ host.req.dir = "out" /\ host.req.wLength > 0 => host.req.kind = "set_line_coding"
<1>1. host.req.kind # "other"
  BY DEF Fit, Accepted
<1>2. host.req \in Requests
  BY <1>1 DEF IInv, Asked, NoRequest
<1>3. /\ host.req.dir \in {"in", "out"} /\ host.req.wLength \in Nat /\ host.req.kind \in Kind
      /\ host.req.kind \in Reading => host.req.dir = "in"
      /\ host.req.kind \in Writing => host.req.dir = "out"
  BY <1>2 DEF Request
<1>4. host.req.kind \in Reading \cup Writing
  BY <1>1, <1>3 DEF Kind, Reading, Writing
<1>5. CASE host.req.kind \in Reading
  <2>1. host.req.dir = "in"
    BY <1>3, <1>5
  <2>2. host.req.wLength > 0
    BY <1>3, <1>5 DEF Reading, WellFormed
  <2> QED
    BY <1>2, <1>3, <2>1, <2>2
<1>6. CASE host.req.kind \in Writing
  <2>1. host.req.dir = "out"
    BY <1>3, <1>6
  <2>2. host.req.wLength > 0 => host.req.kind = "set_line_coding"
    BY <1>3, <1>6 DEF Writing, WellFormed
  <2> QED
    BY <1>2, <1>3, <2>1, <2>2
<1> QED
  BY <1>4, <1>5, <1>6

(* A callback changes the address for SET_ADDRESS alone, which is fit      *)
(* whatever the address.                                                   *)
LEMMA FitKept ==
  ASSUME host' = host, configuration' = configuration,
         address' = address \/ host.req.kind = "set_address"
  PROVE  Fit' <=> Fit
BY DEF Fit, Accepted

(* An accepted write that still takes data is one of the line coding.      *)
LEMMA ReceivingWrite ==
  ASSUME IInv, WriteInv, Orderly, Fit, WellFormed(host.req), Serving,
         "RXSTP" \notin ep0.flags, host.req.dir # "in", ctrl.state = "DATA_OUT"
  PROVE  Receiving /\ (Open \/ Received)
<1>1. host.req.kind = "set_line_coding" /\ host.result # "stalled"
  BY FitLengths DEF Serving, ServingWrite
<1>2. WritePhase
  BY <1>1 DEF WriteInv
<1> QED
  BY <1>2 DEF WritePhase, Unserved, Refused, Complete

LEMMA SendingRead ==
  ASSUME ReadInv, Orderly, ServingRead, "RXSTP" \notin ep0.flags,
         host.req.dir = "in", host.stage = "data"
  PROVE  ctrl.state = "DATA_IN"
BY DEF ReadInv, ReadPhase, Unserved, Refused, Sending, ServingRead

LEMMA AnswerOnSetup ==
  ASSUME IInv, EventInv, AnswerInv, OnSetup
  PROVE  AnswerInv'
<1>1. /\ "RXSTP" \in ep0.flags /\ "RXSTP" \notin ep0'.flags /\ host' = host
      /\ ep0.setup = host.req /\ ep0.halts = {}
  BY OnSetupMoves DEF OnSetup, Serves, EventInv, SetupWaits
<1> SUFFICES ASSUME Orderly PROVE Answering'
  BY <1>1 DEF AnswerInv, InHand, Unanswered, Orderly
<1>2. host.result = "none" /\ host.stage = IF host.req.wLength > 0 THEN "data" ELSE "status"
  BY <1>1 DEF AnswerInv, Unanswered
<1>3. /\ ctrl'.callback = "udc_valid_address" => host.req.kind = "set_address"
      /\ host.req.kind # "set_configuration" => configuration' = configuration
      /\ \/ /\ ~Accepted(host.req, address') /\ configuration' = configuration
            /\ ctrl'.state = "STALL_REQ" /\ ep0'.halts = {"IN"}
         \/ /\ Accepted(host.req, address') /\ ep0'.halts = {}
            /\ host.req.dir = "in" => ctrl'.state = "DATA_IN"
            /\ host.req.dir = "out" =>
                 ctrl'.state = IF host.req.wLength = 0 THEN "WAIT_IN_ZLP" ELSE "DATA_OUT"
  BY <1>1, OnSetupMoves
<1>4. host.req.dir \in {"in", "out"} /\ host.req.wLength \in Nat
  BY TypeParts DEF IInv, HostType, Request
<1>5. Accepted(host.req, address') <=> Fit'
  BY <1>1, <1>3 DEF Fit, Accepted
<1>6. CASE ~Fit'
  BY <1>1, <1>2, <1>3, <1>4, <1>5, <1>6 DEF Answering, Denied
<1>7. CASE Fit'
  <2>1. Serving'
    BY <1>1, <1>2, <1>3, <1>4, <1>5, <1>7 DEF Serving, ServingRead, ServingWrite
  <2> QED
    BY <1>1, <1>3, <1>7, <2>1 DEF Answering
<1> QED
  BY <1>6, <1>7

(* The other steps of the interrupt leave the host where it is.            *)
LEMMA AnswerInterrupt ==
  ASSUME AnswerInv, host' = host, "RXSTP" \notin ep0.flags, "RXSTP" \notin ep0'.flags,
         Orderly /\ Answering => Answering'
  PROVE  AnswerInv'
BY DEF AnswerInv, InHand, Unanswered, Orderly

LEMMA AnswerTransferOk ==
  ASSUME IInv, WriteInv, WriteInv', Orderly, Answering,
         NEW f \in {"TRCPT1", "TRCPT0"}, TransferOk(f)
  PROVE  Answering'
<1>1. /\ "RXSTP" \notin ep0.flags /\ host' = host /\ configuration' = configuration
      /\ "RXSTP" \notin ep0'.flags
  BY TransferOkKept DEF TransferOk, Serves, Before, Kept
<1>2. /\ Cleared(f) \in Ep0Type /\ Cleared(f).halts = ep0.halts
  BY ClearedMoves, TypeParts DEF IInv, Event
<1>3. ctrl.nb_trans <= ctrl.payload_size /\ line_coding \in [1 .. LineCodingSize -> Nat]
  BY TypeParts DEF IInv
<1>4. PICK c \in CtrlType :
           /\ c.state = ctrl.state /\ c.req = ctrl.req /\ c.payload_size = ctrl.payload_size
           /\ c.prev_nb_trans = ctrl.prev_nb_trans /\ c.nb_trans = ctrl.nb_trans
           /\ c.callback = ctrl.callback
           /\ \/ c.state = "DATA_OUT" /\ OutReceived(c, Cleared(f)) /\ UNCHANGED address
              \/ c.state = "DATA_IN" /\ InSent(c, Cleared(f)) /\ UNCHANGED <<address, line_coding>>
              \/ /\ c.state \notin {"DATA_OUT", "DATA_IN"} /\ ctrl'.state = "SETUP"
                 /\ ctrl'.callback = c.callback /\ ep0' = Cleared(f)
                 /\ address' = AddressAfter(c)
  BY TransferOkMoves
<1>5. CASE c.state = "DATA_OUT" /\ OutReceived(c, Cleared(f)) /\ UNCHANGED address
  <2>1. ctrl'.callback = ctrl.callback
    BY <1>2, <1>3, <1>4, <1>5, OutReceivedMoves
  <2>2. (Fit' <=> Fit) /\ ~Denied
    BY <1>1, <1>4, <1>5, FitKept DEF Denied
  <2>3. ASSUME WellFormed(host.req) PROVE Serving'
    <3>1. Fit /\ Serving /\ host.req.dir # "in" /\ ServingWrite
      BY <1>4, <1>5, <2>2, <2>3 DEF Answering, Serving, ServingRead
    <3>2. Receiving
      BY <1>1, <1>4, <1>5, <3>1, <2>3, ReceivingWrite
    <3>3. c.req.wLength = c.payload_size /\ c.prev_nb_trans = 0
      BY <1>4, <3>2 DEF Receiving
    <3>4. ep0'.halts = ep0.halts /\ ctrl'.state \in {"WAIT_IN_ZLP", "STALL_REQ", "DATA_OUT"}
          /\ ctrl'.state # "STALL_REQ"
      <4> DEFINE n == AtMost(c.received_bytes, c.payload_size - c.nb_trans)
                 stored == c.nb_trans + n
      <4>1. /\ ep0'.halts = Cleared(f).halts
            /\ ctrl'.state = "WAIT_IN_ZLP" \/ ctrl' = [c EXCEPT !.nb_trans = stored]
        BY <1>2, <1>3, <1>4, <1>5, <3>3, OutReceivedMoves
      <4> HIDE DEF n
      <4>2. ctrl' = [c EXCEPT !.nb_trans = stored] => ctrl'.state = c.state
        BY DEF CtrlType
      <4> QED
        BY <1>2, <1>5, <4>1, <4>2
    <3>5. host.req.wLength > 0 /\ host.req.kind = "set_line_coding"
      BY <1>4, <1>5, <3>1, <2>3, FitLengths DEF ServingWrite
    <3>6. host.stage = "data" => ctrl'.state = "DATA_OUT"
      BY <1>1, <3>1, <3>4, <3>5
      DEF WriteInv, WritePhase, Orderly, Unserved, Refused, Receiving, Complete, Serving
    <3> QED
      BY <1>1, <3>1, <3>4, <3>5, <3>6 DEF Serving, ServingWrite
  <2> QED
    BY <1>1, <2>1, <2>2, <2>3 DEF Answering
<1>6. CASE c.state = "DATA_IN" /\ InSent(c, Cleared(f)) /\ UNCHANGED <<address, line_coding>>
  <2>1. /\ ctrl'.callback = ctrl.callback /\ ep0'.halts = ep0.halts
        /\ ctrl'.state \in {"DATA_IN", "WAIT_OUT_ZLP"}
    BY <1>2, <1>3, <1>4, <1>6, InSentMoves
  <2>2. (Fit' <=> Fit) /\ ~Denied
    BY <1>1, <1>4, <1>6, FitKept DEF Denied
  <2> QED
    BY <1>1, <1>4, <1>6, <2>1, <2>2 DEF Answering, Serving, ServingRead, ServingWrite
<1>7. CASE /\ c.state \notin {"DATA_OUT", "DATA_IN"} /\ ctrl'.state = "SETUP"
           /\ ctrl'.callback = c.callback /\ ep0' = Cleared(f)
           /\ address' = AddressAfter(c)
  <2>1. Fit' <=> Fit
    <3>1. address' = address \/ host.req.kind = "set_address"
      BY <1>4, <1>7 DEF AddressAfter, Answering
    <3> QED
      BY <1>1, <3>1, FitKept
  <2>2. ctrl'.callback = ctrl.callback /\ ep0'.halts = ep0.halts /\ ctrl.state # "DATA_OUT"
    BY <1>2, <1>4, <1>7
  <2>3. Denied => Denied'
    BY <1>1, <1>7, <2>1, <2>2 DEF Denied
  <2>4. Serving => Serving'
    BY <1>1, <1>7, <2>2 DEF Serving, ServingRead, ServingWrite
  <2> QED
    BY <1>1, <2>1, <2>2, <2>3, <2>4 DEF Answering
<1> QED
  BY <1>4, <1>5, <1>6, <1>7

LEMMA AnswerUnderflow ==
  ASSUME IInv, ReadInv, WriteInv, Orderly, Answering, Underflow
  PROVE  Answering'
<1>1. /\ ep0.flags \cap {"RXSTP", "TRCPT1", "TRCPT0"} = {} /\ "TRFAIL1" \in ep0.flags
  BY DEF Underflow, Serves, Before
<1>2. /\ UNCHANGED <<address, configuration, host>> /\ ctrl'.callback = ctrl.callback
      /\ ctrl.state # "WAIT_OUT_ZLP" => ep0'.halts = ep0.halts
      /\ ep0'.halts \subseteq ep0.halts \cup {"IN"}
      /\ ctrl.state # "DATA_OUT" => ctrl' = ctrl
  BY UnderflowMoves
<1>3. Fit' <=> Fit
  BY <1>2, FitKept
<1>4. Denied => Denied'
  BY <1>2, <1>3 DEF Denied
<1>5. ASSUME Fit, WellFormed(host.req), Serving PROVE Serving'
  <2>1. CASE host.req.dir = "in"
    <3>1. ServingRead
      BY <1>5, <2>1 DEF Serving
    <3>2. host.stage = "data" => ctrl.state = "DATA_IN"
      BY <1>1, <2>1, <3>1, SendingRead
    <3> QED
      BY <1>2, <1>5, <2>1, <3>1, <3>2 DEF Serving, ServingRead
  <2>2. CASE host.req.dir # "in"
    <3>1. ctrl.state # "DATA_OUT"
      BY <1>1, <1>5, <2>2, ReceivingWrite DEF Open, Received
    <3> QED
      BY <1>2, <1>5, <2>2, <3>1 DEF Serving, ServingWrite
  <2> QED
    BY <2>1, <2>2
<1> QED
  BY <1>2, <1>3, <1>4, <1>5 DEF Answering

LEMMA AnswerOverflow ==
  ASSUME IInv, Orderly, Answering, Overflow
  PROVE  Answering'
<1>1. /\ UNCHANGED <<address, configuration, host>> /\ ctrl'.callback = ctrl.callback
      /\ ctrl.state # "WAIT_IN_ZLP" => ep0'.halts = ep0.halts
      /\ ep0'.halts \subseteq ep0.halts \cup {"OUT"}
      /\ ctrl.state = "DATA_IN" => ctrl'.state = "WAIT_OUT_ZLP"
      /\ ctrl.state # "DATA_IN" => ctrl' = ctrl
  BY OverflowMoves
<1>2. Fit' <=> Fit
  BY <1>1, FitKept
<1>3. Denied => Denied'
  BY <1>1, <1>2 DEF Denied
<1>4. Serving => Serving'
  BY <1>1 DEF Serving, ServingRead, ServingWrite
<1> QED
  BY <1>1, <1>2, <1>3, <1>4 DEF Answering

LEMMA AnswerHostTakes ==
  ASSUME IInv, EventInv, AnswerInv, HostTakes
  PROVE  AnswerInv'
<1>1. /\ "RXSTP" \notin ep0.flags /\ "RXSTP" \notin ep0'.flags /\ "IN" \notin ep0.halts
      /\ host'.req = host.req /\ (host'.early <=> host.early)
      /\ (host'.overlap <=> host.overlap) /\ ep0'.halts = ep0.halts
      /\ UNCHANGED <<ctrl, address, configuration>>
  BY HostTakesMoves DEF EventInv, SetupWaits
<1>2. /\ host.stage # "idle" /\ host'.result \in {host.result, "done"}
      /\ host'.stage = "data" => host.stage = "data"
  BY HostTakesMoves
<1> SUFFICES ASSUME Orderly PROVE Answering'
  BY <1>1 DEF AnswerInv, InHand, Unanswered, Orderly
<1>3. Answering /\ ~Denied
  BY <1>1, <1>2 DEF AnswerInv, InHand, Denied
<1>4. Fit' <=> Fit
  BY <1>1 DEF Fit, Accepted
<1>5. Serving => Serving'
  BY <1>1, <1>2 DEF Serving, ServingRead, ServingWrite
<1> QED
  BY <1>1, <1>3, <1>4, <1>5 DEF Answering

LEMMA AnswerHostSends ==
  ASSUME IInv, AnswerInv, HostSends
  PROVE  AnswerInv'
<1>1. /\ "RXSTP" \notin ep0.flags /\ "RXSTP" \notin ep0'.flags
      /\ host'.req = host.req /\ (host'.early <=> host.early)
      /\ (host'.overlap <=> host.overlap) /\ ep0'.halts = ep0.halts
      /\ UNCHANGED <<ctrl, address, configuration>>
  BY HostSendsMoves
<1>2. /\ host.stage # "idle" /\ host'.result \in {host.result, "done"}
      /\ host'.stage = "data" => host.stage = "data"
      /\ \/ host.stage = "data" /\ host.req.dir # "in" /\ host'.result = host.result
         \/ host.stage = "status" /\ host.req.dir = "in" /\ host.req.wLength > 0
  BY HostSendsMoves
<1> SUFFICES ASSUME Orderly PROVE Answering'
  BY <1>1 DEF AnswerInv, InHand, Unanswered, Orderly
<1>3. Answering
  BY <1>1, <1>2 DEF AnswerInv, InHand
<1>4. Fit' <=> Fit
  BY <1>1 DEF Fit, Accepted
<1>5. host.req.wLength \in Nat /\ host.req.dir \in {"in", "out"}
  BY TypeParts DEF IInv, HostType, Request
<1>6. Denied => Denied'
  BY <1>1, <1>2, <1>4, <1>5 DEF Denied
<1>7. Serving => Serving'
  BY <1>1, <1>2 DEF Serving, ServingRead, ServingWrite
<1> QED
  BY <1>1, <1>3, <1>4, <1>6, <1>7 DEF Answering

LEMMA AnswerHostWaits ==
  ASSUME IInv, AnswerInv, HostWaits
  PROVE  AnswerInv'
<1>1. /\ host' = host /\ ep0'.halts = ep0.halts /\ UNCHANGED <<ctrl, address, configuration>>
      /\ "RXSTP" \in ep0'.flags <=> "RXSTP" \in ep0.flags
  BY HostWaitsMoves
<1>2. Fit' <=> Fit
  BY <1>1 DEF Fit, Accepted
<1> QED
  BY <1>1, <1>2
  DEF AnswerInv, InHand, Unanswered, Orderly, Answering, Denied, Serving, ServingRead,
      ServingWrite

(* The direction the host asks for is halted for no request but one that   *)
(* was to be refused.                                                      *)
LEMMA AnswerHostStalled ==
  ASSUME IInv, EventInv, AnswerInv, HostStalled
  PROVE  AnswerInv'
<1>1. /\ host'.req = host.req /\ (host'.early <=> host.early)
      /\ (host'.overlap <=> host.overlap) /\ host.stage # "idle"
      /\ host'.stage = "idle" /\ host'.result = "stalled" /\ Direction \in ep0.halts
      /\ UNCHANGED <<ctrl, ep0, address, configuration>>
  BY HostStalledMoves
<1>2. "RXSTP" \notin ep0.flags
  BY <1>1 DEF EventInv, SetupWaits
<1> SUFFICES ASSUME Orderly PROVE Answering'
  BY <1>1, <1>2 DEF AnswerInv, InHand, Unanswered, Orderly
<1>3. Answering
  BY <1>1, <1>2 DEF AnswerInv, InHand
<1>4. Fit' <=> Fit
  BY <1>1 DEF Fit, Accepted
<1>5. Denied => Denied'
  BY <1>1, <1>4 DEF Denied
<1>6. ASSUME Fit, WellFormed(host.req) PROVE ~Serving
  BY <1>1, <1>6, FitLengths DEF Serving, ServingRead, ServingWrite, Direction
<1> QED
  BY <1>1, <1>3, <1>4, <1>5, <1>6 DEF Answering

LEMMA InitAnswer == Init => AnswerInv
BY DEF Init, AfterReset, NoRequest, AnswerInv, InHand, Unanswered

LEMMA StepAnswer ==
  IInv /\ EventInv /\ ReadInv /\ WriteInv /\ WriteInv' /\ AnswerInv /\ [Next]_vars => AnswerInv'
<1> SUFFICES ASSUME IInv, EventInv, ReadInv, WriteInv, WriteInv', AnswerInv, [Next]_vars
             PROVE  AnswerInv'
  OBVIOUS
<1>1. CASE OnSetup
  BY <1>1, AnswerOnSetup
<1>2. CASE TransferOk("TRCPT1") \/ TransferOk("TRCPT0") \/ Underflow \/ Overflow
  <2>1. host' = host /\ "RXSTP" \notin ep0.flags
    BY <1>2 DEF TransferOk, Underflow, Overflow, Serves, Before, Event
  <2>2. "RXSTP" \notin ep0'.flags
    BY <1>2, <2>1, TransferOkKept, UnderflowMoves, OverflowMoves DEF Kept
  <2>3. Orderly /\ Answering => Answering'
    BY <1>2, AnswerTransferOk, AnswerUnderflow, AnswerOverflow
  <2> QED
    BY <2>1, <2>2, <2>3, AnswerInterrupt
<1>3. CASE OnBusReset
  <2>1. /\ host' = host /\ host = AfterReset /\ "RXSTP" \notin ep0'.flags
    BY <1>3, OnBusResetMoves
    DEF OnBusReset, Serves, Before, Event, EventInv, ResetClears
  <2> QED
    BY <2>1 DEF AnswerInv, InHand, Unanswered, AfterReset
<1>4. CASE HostTakes
  BY <1>4, AnswerHostTakes
<1>5. CASE HostSends
  BY <1>5, AnswerHostSends
<1>6. CASE HostWaits
  BY <1>6, AnswerHostWaits
<1>7. CASE HostStalled
  BY <1>7, AnswerHostStalled
<1>8. CASE HostSetup
  BY <1>8, HostSetupMoves DEF AnswerInv, InHand, Unanswered
<1>9. CASE HostEndsEarly
  BY <1>9, HostEndsEarlyMoves DEF AnswerInv, InHand, Unanswered, Orderly
<1>10. CASE HostReset
  BY <1>10, HostResetMoves DEF AnswerInv, InHand, Unanswered, AfterReset
<1>11. CASE UNCHANGED vars
  <2>1. Fit' <=> Fit
    BY <1>11 DEF vars, Fit, Accepted
  <2> QED
    BY <1>11, <2>1
    DEF vars, AnswerInv, InHand, Unanswered, Orderly, Answering, Denied, Serving,
        ServingRead, ServingWrite
<1> QED
  BY <1>1, <1>2, <1>3, <1>4, <1>5, <1>6, <1>7, <1>8, <1>9, <1>10, <1>11
  DEF Next, Interrupt, HostAsks

(* What is accepted is what is not to be refused.                          *)
LEMMA FitOrUnfit ==
  ASSUME NEW r \in Request, WellFormed(r)
  PROVE  Accepted(r, address) <=> ~Unfit(r)
<1>1. r.kind \in Kind /\ r.value \in Nat
  BY DEF Request
<1> QED
  BY <1>1 DEF Kind, WellFormed, Accepted, Unfit

(* For any requests and any host that lets the device serve one before the *)
(* next, a well formed request ends in a stall if the device is to refuse  *)
(* it, and only then: no halt for a packet that came too soon              *)
(* (udd_ctrl_underflow, udd_ctrl_overflow) is ever met by a request that   *)
(* was accepted (udc_process_setup), and no handshake by one that was not. *)
THEOREM AnswersMatch == Spec => []AnswerMatches
<1>1. IInv /\ EventInv /\ AnswerInv => AnswerMatches
  <2> SUFFICES ASSUME IInv, EventInv, AnswerInv, Orderly, WellFormed(host.req),
                      host.result # "none"
               PROVE  IF host.result = "done" THEN ~Unfit(host.req) ELSE Unfit(host.req)
    BY TypeParts DEF IInv, HostType, AnswerMatches
  <2>1. host.stage = "idle" /\ "RXSTP" \notin ep0.flags
    BY DEF IInv, Stages, EventInv, SetupWaits
  <2>2. Denied \/ (Fit /\ Serving)
    BY <2>1 DEF AnswerInv, InHand, Answering
  <2>3. Fit <=> ~Unfit(host.req)
    BY TypeParts, FitOrUnfit DEF IInv, HostType, Fit
  <2>4. host.result \in {"done", "stalled"}
    BY TypeParts DEF IInv, HostType
  <2> QED
    BY <2>2, <2>3, <2>4 DEF Denied, Serving
<1> QED
  BY <1>1, Inv, InitAddress, StepEvent, InitRead, StepRead, InitWrite, StepWrite,
     InitAnswer, StepAnswer, PTL DEF Spec
=============================================================================
