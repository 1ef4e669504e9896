--------------------------- MODULE ControlEndpoint ---------------------------
(***************************************************************************)
(* Endpoint 0 of the USB device (usb_device_udd.c) and the requests it     *)
(* serves (udc.c, udi_cdc.c).  The host's transactions set the event flags *)
(* of the endpoint; the interrupt serves one event at a time, the first of *)
(* Priority that is set (usb.c:1757-1874), and runs to its end.            *)
(*                                                                         *)
(* A transfer is a SETUP packet with a request, the packets of its data    *)
(* stage, if it has one, and an empty packet the other way, its status     *)
(* stage.  The host may give up a transfer, end its data stage early, and  *)
(* reset the bus.                                                          *)
(***************************************************************************)
EXTENDS Integers

CONSTANTS
  EpSize,         \* USB_DEVICE_EP_CTRL_SIZE: bytes of a packet, 64
  LineCodingSize, \* sizeof(usb_cdc_line_coding_t), 7
  Requests,       \* the requests of the host
  MaxTransfers,   \* bound: transfers the host begins
  MaxGivenUp,     \* bound: transfers the host gives up
  MaxResets,      \* bound: resets of the bus
  NULL            \* no packet, and no value

Kind == {"get_descriptor", "get_configuration", "set_configuration",
         "set_address", "get_line_coding", "set_line_coding",
         "set_control_line_state", "other"}

(* value is the descriptor's length, the configuration, the address or     *)
(* what every byte of the line coding is to be.                            *)
Request == [kind : Kind, dir : {"in", "out"}, value : Nat, wLength : Nat]

Reading == {"get_descriptor", "get_configuration", "get_line_coding"}
Writing == {"set_configuration", "set_address", "set_line_coding",
            "set_control_line_state"}

ASSUME SizesAssumption ==
  /\ EpSize \in Nat \ {0} /\ LineCodingSize \in Nat \ {0}
  /\ NULL \notin Nat

ASSUME RequestsAssumption ==
  /\ Requests \subseteq Request
  /\ \A r \in Requests : /\ r.kind \in Reading => r.dir = "in"
                         /\ r.kind \in Writing => r.dir = "out"
                         /\ r.kind = "get_descriptor" => r.value > 0

ASSUME BoundsAssumption ==
  MaxTransfers \in Nat /\ MaxGivenUp \in Nat /\ MaxResets \in Nat

VARIABLES
  ctrl,          \* the endpoint's state and udd_g_ctrlreq
  ep0,           \* registers and buffer of the endpoint
  address,       \* address the device answers to
  configuration, \* udc_num_configuration
  line_coding,   \* udi_cdc_line_coding
  host,          \* the host's side of the transfer
  left           \* transfers, surrenders and resets still to come

vars == <<ctrl, ep0, address, configuration, line_coding, host, left>>

State == {"SETUP", "DATA_OUT", "DATA_IN", "WAIT_IN_ZLP", "WAIT_OUT_ZLP",
          "STALL_REQ"}
Callback == {"udc_valid_address", "udi_cdc_line_coding_received", "none"}
Event == {"RXSTP", "TRCPT1", "TRCPT0", "TRFAIL1", "TRFAIL0", "EORST"}

(* A packet to the host: where it begins in the payload, and its size.     *)
Packet == [first : Nat, size : Nat]

NoRequest == [kind |-> "other", dir |-> "out", value |-> 0, wLength |-> 0]

(* The host when it has reset the bus.                                     *)
AfterReset ==
  [stage |-> "idle", req |-> NoRequest, got |-> 0, intact |-> TRUE,
   early |-> FALSE, result |-> "none", address |-> 0, overlap |-> FALSE,
   lost |-> FALSE]

Init ==
  /\ ctrl = [state |-> "SETUP", req |-> NoRequest, payload_size |-> 0,
             callback |-> "none", prev_nb_trans |-> 0, nb_trans |-> 0,
             b_shortpacket |-> FALSE, received_bytes |-> 0]
  /\ ep0 = [bank0 |-> FALSE, byte_count |-> 0, bank1 |-> NULL, halts |-> {},
            flags |-> {"EORST"}, setup |-> NoRequest, data |-> 0]
  /\ address = 0 /\ configuration = 0
  /\ line_coding = [i \in 1 .. LineCodingSize |-> 0]
  /\ host = AfterReset
  /\ left = [transfers |-> MaxTransfers, given_up |-> MaxGivenUp,
             resets |-> MaxResets]

AtMost(a, b) == IF a < b THEN a ELSE b

-----------------------------------------------------------------------------
(* The driver's calls of usb.c, on the endpoint e.                         *)
OpenOut(e) == [e EXCEPT !.bank0 = TRUE, !.byte_count = 0]
WriteIn(e, first, size) ==
  [e EXCEPT !.bank1 = [first |-> first, size |-> size]]

(* udd_ctrl_send_zlp_in: acknowledge the request.                          *)
SendZlpIn(c, e) ==
  /\ ctrl' = [c EXCEPT !.state = "WAIT_IN_ZLP"]
  /\ ep0' = WriteIn(OpenOut(e), 0, 0)

(* Mutant: a payload that ends with a full packet is not followed by an    *)
(* empty one.                                                              *)
InSentNoZlp(c, e) ==
  LET remain == c.payload_size - c.nb_trans
      n == AtMost(remain, EpSize)
  IN  IF remain = 0
      THEN /\ ctrl' = [c EXCEPT !.state = "WAIT_OUT_ZLP"]
           /\ ep0' = OpenOut(e)
      ELSE /\ ctrl' = [c EXCEPT !.nb_trans = @ + n, !.b_shortpacket = n < EpSize]
           /\ ep0' = WriteIn(e, c.nb_trans, n)

(* Mutant: every packet is a full one.                                     *)
InSentFull(c, e) ==
  /\ ctrl' = [c EXCEPT !.nb_trans = @ + EpSize, !.b_shortpacket = FALSE]
  /\ ep0' = WriteIn(e, c.nb_trans, EpSize)

(* Mutant: the next packet is sent from the start of the payload.          *)
InSentFromStart(c, e) ==
  LET remain == c.payload_size - c.nb_trans
      total == c.prev_nb_trans + IF remain = 0 THEN c.nb_trans ELSE 0
      n == AtMost(remain, EpSize)
  IN  IF remain = 0 /\ (c.req.wLength = total \/ c.b_shortpacket)
      THEN /\ ctrl' = [c EXCEPT !.prev_nb_trans = total,
                                !.state = "WAIT_OUT_ZLP"]
           /\ ep0' = OpenOut(e)
      ELSE /\ ctrl' = [c EXCEPT !.prev_nb_trans = total, !.nb_trans = @ + n,
                                !.b_shortpacket = n < EpSize]
           /\ ep0' = WriteIn(e, 0, n)

(* udd_ctrl_in_sent: the next packet of the payload, an empty one if the   *)
(* payload ends with a full packet before all that was asked for, and then *)
(* the status stage.  No request has a second payload buffer               *)
(* (over_under_run is NULL).                                               *)
InSent(c, e) ==
  LET remain == c.payload_size - c.nb_trans
      total == c.prev_nb_trans + IF remain = 0 THEN c.nb_trans ELSE 0
      n == AtMost(remain, EpSize)
  IN  IF remain = 0 /\ (c.req.wLength = total \/ c.b_shortpacket)
      THEN /\ ctrl' = [c EXCEPT !.prev_nb_trans = total,
                                !.state = "WAIT_OUT_ZLP"]
           /\ ep0' = OpenOut(e)
      ELSE /\ ctrl' = [c EXCEPT !.prev_nb_trans = total, !.nb_trans = @ + n,
                                !.b_shortpacket = n < EpSize]
           /\ ep0' = WriteIn(e, c.nb_trans, n)

(* Mutant: a packet is stored at the start of the payload.                 *)
StoredAtStart(c, e, n) ==
  [i \in 1 .. LineCodingSize |-> IF i \in 1 .. n THEN e.data ELSE line_coding[i]]

(* The n bytes received, as they are stored in the payload.                *)
Stored(c, e, n) ==
  [i \in 1 .. LineCodingSize |->
     IF i \in c.nb_trans + 1 .. c.nb_trans + n THEN e.data ELSE line_coding[i]]

(* udd_ctrl_out_received: store the packet; a short one, or the last, ends *)
(* the data stage; otherwise the next is waited for, unless the payload is *)
(* full.                                                                   *)
OutReceived(c, e) ==
  LET n == AtMost(c.received_bytes, c.payload_size - c.nb_trans)
      stored == c.nb_trans + n
      d == [c EXCEPT !.nb_trans = stored]
  IN  /\ line_coding' = Stored(c, e, n)
      /\ IF n # EpSize \/ c.req.wLength <= c.prev_nb_trans + stored
         THEN SendZlpIn([d EXCEPT !.payload_size = stored], e)
         ELSE IF c.payload_size = stored
              THEN /\ ctrl' = [d EXCEPT !.state = "STALL_REQ"]
                   /\ ep0' = [e EXCEPT !.halts = @ \cup {"OUT"}, !.bank0 = FALSE,
                                       !.flags = @ \ {"TRCPT0"}]
              ELSE ctrl' = d /\ ep0' = OpenOut(e)

-----------------------------------------------------------------------------
(* udc_process_setup: whether the request r is known and may be served, by *)
(* a device with address a.                                                *)
Accepted(r, a) ==
  \/ r.kind = "get_descriptor" /\ r.wLength > 0
  \/ r.kind = "get_configuration" /\ r.wLength = 1
  \/ r.kind = "set_address" /\ r.wLength = 0
  \/ r.kind = "set_configuration" /\ r.wLength = 0 /\ a # 0 /\ r.value <= 1
  \/ /\ r.kind \in {"get_line_coding", "set_line_coding"}
     /\ configuration # 0 /\ r.wLength = LineCodingSize
  \/ r.kind = "set_control_line_state" /\ configuration # 0

(* udd_set_setup_payload: the size of what is to be sent or received.      *)
Payload(r) ==
  CASE r.kind = "get_descriptor" -> AtMost(r.value, r.wLength)
    [] r.kind = "get_configuration" -> 1
    [] r.kind \in {"get_line_coding", "set_line_coding"} -> LineCodingSize
    [] OTHER -> 0

(* Mutant: a request without a callback keeps that of the one before.      *)
CallbackKept(r) ==
  CASE r.kind = "set_address" -> "udc_valid_address"
    [] r.kind = "set_line_coding" -> "udi_cdc_line_coding_received"
    [] OTHER -> ctrl.callback

CallbackOf(r) ==
  CASE r.kind = "set_address" -> "udc_valid_address"
    [] r.kind = "set_line_coding" -> "udi_cdc_line_coding_received"
    [] OTHER -> "none"

(* The address once the callback has run; that of the line coding does     *)
(* nothing (conf_usb.h:115).  Addresses are below 128, so that masking     *)
(* with 0x7F keeps them.                                                   *)
AddressAfter(c) ==
  IF c.callback = "udc_valid_address" THEN c.req.value ELSE address

(* Mutant: the halt is requested of the other direction.                   *)
StallDataOut(c, e) ==
  /\ ctrl' = [c EXCEPT !.state = "STALL_REQ"]
  /\ ep0' = [e EXCEPT !.halts = {"OUT"}]

(* udd_ctrl_stall_data: halts IN and clears the halt of OUT.               *)
StallData(c, e) ==
  /\ ctrl' = [c EXCEPT !.state = "STALL_REQ"]
  /\ ep0' = [e EXCEPT !.halts = {"IN"}]

-----------------------------------------------------------------------------
(* The interrupt serves the first event of this order that is set.         *)
Before(f) ==
  CASE f = "RXSTP" -> {}
    [] f = "TRCPT1" -> {"RXSTP"}
    [] f = "TRCPT0" -> {"RXSTP", "TRCPT1"}
    [] f = "TRFAIL1" -> {"RXSTP", "TRCPT1", "TRCPT0"}
    [] f = "TRFAIL0" -> Event \ {"TRFAIL0", "EORST"}
    [] f = "EORST" -> Event \ {"EORST"}

Serves(f) == f \in ep0.flags /\ ep0.flags \cap Before(f) = {}
Cleared(f) == [ep0 EXCEPT !.flags = @ \ {f}]

(* _usb_ep0_on_setup: a SETUP packet ends what was under way, running its  *)
(* callback.                                                               *)
OnSetup ==
  /\ Serves("RXSTP")
  /\ LET r == ep0.setup
         a == IF ctrl.state # "SETUP" THEN AddressAfter(ctrl) ELSE address
         ok == Accepted(r, a)
         e == Cleared("RXSTP")
         c == [state |-> "SETUP", req |-> r,
               payload_size |-> IF ok THEN Payload(r) ELSE 0,
               callback |-> IF ok THEN CallbackOf(r) ELSE "none",
               prev_nb_trans |-> 0, nb_trans |-> 0,
               b_shortpacket |-> ctrl.b_shortpacket, received_bytes |-> 8]
     IN  /\ address' = a
         /\ configuration' = IF ok /\ r.kind = "set_configuration"
                             THEN r.value ELSE configuration
         /\ line_coding' = IF configuration' # 0 /\ ok /\ r.kind = "set_configuration"
                           THEN [i \in 1 .. LineCodingSize |-> 0] ELSE line_coding
         /\ CASE ~ok -> StallData(c, e)
              [] ok /\ r.dir = "in" -> InSent([c EXCEPT !.state = "DATA_IN"], OpenOut(e))
              [] ok /\ r.dir = "out" /\ r.wLength = 0 -> SendZlpIn(c, e)
              [] OTHER -> /\ ctrl' = [c EXCEPT !.state = "DATA_OUT"]
                          /\ ep0' = OpenOut(e)
  /\ UNCHANGED <<host, left>>

(* _usb_ep0_on_transfer_ok: a packet was sent (TRCPT1) or received         *)
(* (TRCPT0); the state alone says which it is taken for.                   *)
TransferOk(f) ==
  /\ Serves(f)
  /\ LET c == IF f = "TRCPT0" THEN [ctrl EXCEPT !.received_bytes = ep0.byte_count]
                              ELSE ctrl
         e == Cleared(f)
     IN  CASE c.state = "DATA_OUT" -> OutReceived(c, e) /\ UNCHANGED address
           [] c.state = "DATA_IN" -> InSent(c, e) /\ UNCHANGED <<address, line_coding>>
           [] OTHER -> /\ address' = AddressAfter(c)
                       /\ ctrl' = [c EXCEPT !.state = "SETUP"]
                       /\ ep0' = e /\ UNCHANGED line_coding
  /\ UNCHANGED <<configuration, host, left>>

(* udd_ctrl_underflow: the host asked for a packet that was not there.  In *)
(* the data stage of a write, it wants to end it; in the status stage of a *)
(* read, it wants more than there is.                                      *)
Underflow ==
  /\ Serves("TRFAIL1")
  /\ LET e == Cleared("TRFAIL1")
     IN  CASE ctrl.state = "DATA_OUT" -> SendZlpIn(ctrl, e)
           [] ctrl.state = "WAIT_OUT_ZLP" ->
                ep0' = [e EXCEPT !.halts = @ \cup {"IN"}] /\ UNCHANGED ctrl
           [] OTHER -> ep0' = e /\ UNCHANGED ctrl
  /\ UNCHANGED <<address, configuration, line_coding, host, left>>

(* udd_ctrl_overflow: the host sent a packet there was no room for.        *)
Overflow ==
  /\ Serves("TRFAIL0")
  /\ LET e == Cleared("TRFAIL0")
     IN  CASE ctrl.state = "DATA_IN" ->
                ctrl' = [ctrl EXCEPT !.state = "WAIT_OUT_ZLP"] /\ ep0' = e
           [] ctrl.state = "WAIT_IN_ZLP" ->
                ep0' = [e EXCEPT !.halts = @ \cup {"OUT"}] /\ UNCHANGED ctrl
           [] OTHER -> ep0' = e /\ UNCHANGED ctrl
  /\ UNCHANGED <<address, configuration, line_coding, host, left>>

(* _usb_on_bus_reset                                                       *)
OnBusReset ==
  /\ Serves("EORST")
  /\ ctrl' = [ctrl EXCEPT !.state = "SETUP"]
  /\ ep0' = OpenOut(Cleared("EORST"))
  /\ address' = 0 /\ configuration' = 0
  /\ UNCHANGED <<line_coding, host, left>>

Interrupt ==
  OnSetup \/ TransferOk("TRCPT1") \/ TransferOk("TRCPT0") \/ Underflow
  \/ Overflow \/ OnBusReset

-----------------------------------------------------------------------------
(* The host and the controller's hardware.                                 *)
Listening == address = host.address /\ "EORST" \notin ep0.flags

(* A SETUP packet is always accepted: it ends what was under way and the   *)
(* endpoint's halts.  Whether it leaves the OUT bank open is not known.    *)
(* The transfers overlap if events of the last one are yet to be served.   *)
HostSetup ==
  /\ Listening /\ "RXSTP" \notin ep0.flags
  /\ left.transfers > 0
  /\ host.stage = "idle" \/ left.given_up > 0
  /\ \E r \in Requests, open \in {FALSE, ep0.bank0} :
       /\ ep0' = [ep0 EXCEPT !.bank0 = open, !.bank1 = NULL, !.halts = {},
                             !.flags = @ \cup {"RXSTP"}, !.setup = r]
       /\ host' = [host EXCEPT !.req = r, !.got = 0, !.intact = TRUE,
                     !.stage = IF r.wLength > 0 THEN "data" ELSE "status",
                     !.early = FALSE, !.result = "none",
                     !.overlap = ep0.flags # {},
                     !.lost = @ \/ (host.stage # "idle" /\ host.req.kind = "set_address")]
  /\ left' = [left EXCEPT !.transfers = @ - 1,
                          !.given_up = IF host.stage = "idle" THEN @ ELSE @ - 1]
  /\ UNCHANGED <<ctrl, address, configuration, line_coding>>

(* The host ends the data stage before it has all that it asked for.       *)
HostEndsEarly ==
  /\ host.stage = "data"
  /\ host' = [host EXCEPT !.stage = "status", !.early = TRUE]
  /\ UNCHANGED <<ctrl, ep0, address, configuration, line_coding, left>>

(* Which way the next packet goes.                                         *)
Direction ==
  IF host.stage = "data" THEN IF host.req.dir = "in" THEN "IN" ELSE "OUT"
  ELSE IF host.req.dir = "in" /\ host.req.wLength > 0 THEN "OUT" ELSE "IN"

Asks(d) == host.stage # "idle" /\ Direction = d /\ Listening

Done(h) == [h EXCEPT !.stage = "idle", !.result = "done",
              !.address = IF h.req.kind = "set_address" THEN h.req.value ELSE @]

Read(h, p) ==
  [h EXCEPT !.got = @ + p.size, !.intact = @ /\ p.first = h.got,
     !.stage = IF p.size < EpSize \/ h.got + p.size >= h.req.wLength
               THEN "status" ELSE "data"]

Written(h, n) ==
  [h EXCEPT !.got = @ + n,
     !.stage = IF h.got + n >= h.req.wLength THEN "status" ELSE "data"]

HostTakes ==
  /\ Asks("IN") /\ "IN" \notin ep0.halts /\ ep0.bank1 # NULL
  /\ ep0' = [ep0 EXCEPT !.bank1 = NULL, !.flags = @ \cup {"TRCPT1"}]
  /\ host' = IF host.stage = "data" THEN Read(host, ep0.bank1) ELSE Done(host)
  /\ UNCHANGED <<ctrl, address, configuration, line_coding, left>>

HostSends ==
  /\ Asks("OUT") /\ "OUT" \notin ep0.halts /\ "RXSTP" \notin ep0.flags /\ ep0.bank0
  /\ LET n == IF host.stage = "data" THEN AtMost(host.req.wLength - host.got, EpSize)
              ELSE 0
     IN  /\ ep0' = [ep0 EXCEPT !.bank0 = FALSE, !.flags = @ \cup {"TRCPT0"},
                      !.byte_count = n, !.data = IF n > 0 THEN host.req.value ELSE @]
         /\ host' = IF host.stage = "data" THEN Written(host, n) ELSE Done(host)
  /\ UNCHANGED <<ctrl, address, configuration, line_coding, left>>

(* A packet that is refused for now tells the interrupt so.                *)
HostWaits ==
  /\ \/ /\ Asks("IN") /\ "IN" \notin ep0.halts /\ ep0.bank1 = NULL
        /\ ep0' = [ep0 EXCEPT !.flags = @ \cup {"TRFAIL1"}]
     \/ /\ Asks("OUT") /\ "OUT" \notin ep0.halts
        /\ ~ep0.bank0 \/ "RXSTP" \in ep0.flags
        /\ ep0' = [ep0 EXCEPT !.flags = @ \cup {"TRFAIL0"}]
  /\ UNCHANGED <<ctrl, address, configuration, line_coding, host, left>>

HostStalled ==
  /\ \E d \in ep0.halts : Asks(d)
  /\ host' = [host EXCEPT !.stage = "idle", !.result = "stalled"]
  /\ UNCHANGED <<ctrl, ep0, address, configuration, line_coding, left>>

HostReset ==
  /\ left.resets > 0
  /\ left' = [left EXCEPT !.resets = @ - 1]
  /\ ep0' = [ep0 EXCEPT !.bank0 = FALSE, !.bank1 = NULL, !.halts = {},
                        !.flags = {"EORST"}]
  /\ host' = AfterReset
  /\ UNCHANGED <<ctrl, address, configuration, line_coding>>

HostAsks == HostTakes \/ HostSends \/ HostWaits \/ HostStalled

Next == Interrupt \/ HostAsks \/ HostSetup \/ HostEndsEarly \/ HostReset

Spec == Init /\ [][Next]_vars

(* The interrupt is served, and the host keeps asking for the next packet  *)
(* of a transfer it has not given up.                                      *)
FairSpec == Spec /\ WF_vars(Interrupt) /\ WF_vars(HostAsks)

-----------------------------------------------------------------------------
TypeOK ==
  /\ ctrl \in [state : State, req : Request, payload_size : Nat,
               callback : Callback, prev_nb_trans : Nat, nb_trans : Nat,
               b_shortpacket : BOOLEAN, received_bytes : Nat]
  /\ ep0 \in [bank0 : BOOLEAN, byte_count : Nat, bank1 : Packet \cup {NULL},
              halts : SUBSET {"IN", "OUT"}, flags : SUBSET Event,
              setup : Request, data : Nat]
  /\ address \in Nat /\ configuration \in {0, 1}
  /\ line_coding \in [1 .. LineCodingSize -> Nat]
  /\ host \in [stage : {"idle", "data", "status"}, req : Request, got : Nat,
               intact : BOOLEAN, early : BOOLEAN,
               result : {"none", "done", "stalled"}, address : Nat,
               overlap : BOOLEAN, lost : BOOLEAN]
  /\ left \in [transfers : 0 .. MaxTransfers, given_up : 0 .. MaxGivenUp,
               resets : 0 .. MaxResets]
  /\ ctrl.nb_trans <= ctrl.payload_size

(* What is claimed of a transfer that began after every event of the one   *)
(* before had been served, and whose data stage the host let run.          *)
Orderly == ~host.overlap /\ ~host.early

(* A read that reached its status stage gave the host, in order, the       *)
(* descriptor or as much of it as was asked for: no packet was skipped,    *)
(* sent twice or overwritten while the host was taking it, though host and *)
(* interrupt race from packet to packet (udd_ctrl_in_sent).                *)
ReadExact ==
  LET r == host.req
  IN  Orderly /\ r.dir = "in" =>
        /\ host.intact
        /\ host.stage = "status" \/ host.result = "done" =>
             host.got = IF r.kind = "get_descriptor" /\ r.value < r.wLength
                        THEN r.value ELSE r.wLength

(* A line coding the host was told is set, is set, every byte of it        *)
(* (udd_ctrl_out_received), although its packets are stored in the         *)
(* variable itself one by one.                                             *)
WriteStored ==
  Orderly /\ host.result = "done" /\ host.req.kind = "set_line_coding" =>
    \A i \in 1 .. LineCodingSize : line_coding[i] = host.req.value

(* The lengths the requests have by the standard.                          *)
WellFormed(r) ==
  CASE r.kind = "get_descriptor" -> r.wLength > 0
    [] r.kind = "get_configuration" -> r.wLength = 1
    [] r.kind \in {"get_line_coding", "set_line_coding"} -> r.wLength = LineCodingSize
    [] r.kind = "other" -> TRUE
    [] OTHER -> r.wLength = 0

(* What a device is to refuse: a request it does not know, one of its      *)
(* class while it is not configured, a configuration it does not have or   *)
(* before it has an address.                                               *)
Unfit(r) ==
  \/ r.kind = "other"
  \/ /\ r.kind \in {"get_line_coding", "set_line_coding", "set_control_line_state"}
     /\ configuration = 0
  \/ r.kind = "set_configuration" /\ (address = 0 \/ r.value > 1)

(* The host sees such a request stalled, never succeed, and any other that *)
(* is well formed succeed, never stalled, although the device halts its    *)
(* endpoint for packets that come too soon as well (udd_ctrl_stall_data,   *)
(* udd_ctrl_underflow, udd_ctrl_overflow).                                 *)
AnswerMatches ==
  Orderly /\ WellFormed(host.req) =>
    /\ host.result = "done" => ~Unfit(host.req)
    /\ host.result = "stalled" => Unfit(host.req)

(* The device changes its address after the host has seen the transfer end *)
(* and before it serves another event: throughout a transfer it listens    *)
(* where the host talks (udc.c:589: "The address must be changed at the    *)
(* end of setup request after the handshake").  A host that gave up        *)
(* SET_ADDRESS may have lost it: the next SETUP runs the callback.         *)
AddressAgreed ==
  ~host.overlap /\ ~host.lost /\ "EORST" \notin ep0.flags
    /\ (host.stage # "idle" \/ ep0.flags = {})
  => address = host.address

(* A transfer ends, whatever it asks for, in success or in a stall: device *)
(* and host never wait for each other, wherever the host ends the data     *)
(* stage.  Excepted is what a host may send to a device that has refused   *)
(* its request, data or an early status: udd_ctrl_stall_data halts IN only *)
(* (line 623), and a packet the other way may be put off for ever.         *)
Answered ==
  \/ /\ host.req.dir = "in" \/ host.req.wLength = 0
     /\ ~host.early \/ host.req.kind = "get_descriptor"
  \/ host.req.kind = "set_line_coding" /\ configuration # 0

InTransfer ==
  host.stage # "idle" /\ ~host.overlap /\ ~host.lost /\ Answered

TransferEnds == InTransfer ~> ~InTransfer
=============================================================================
