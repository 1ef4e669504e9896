-------------------------------- MODULE UsbCdc --------------------------------
(***************************************************************************)
(* The CDC data channel (udi_cdc.c) between the firmware and its host: two *)
(* buffers each way, one for the program and one for the USB controller.   *)
(*                                                                         *)
(* All of it runs in the USB interrupt, one handler after the other: the   *)
(* firmware reads its commands, and writes the replies, in the receive     *)
(* callback (main.c:56).  Meanwhile the controller goes on by itself: the  *)
(* host takes and sends packets and starts frames.  The handlers are       *)
(* therefore single steps, except the callback, which reads and writes one *)
(* byte per step and may have to wait.                                     *)
(***************************************************************************)
EXTENDS Integers, Sequences, FiniteSets

CONSTANTS
  Data,          \* the bytes of a packet of the SLIP link ...
  End,           \* ... and the one that ends it
  RxBuffers,     \* UDI_CDC_RX_BUFFERS: 64
  TxBuffers,     \* UDI_CDC_TX_BUFFERS: 64
  ZlpAfter,      \* idle frames before an empty packet is sent: 100
  FrameModulus,  \* the controller counts frames modulo this: 2048
  ReplyLengths,  \* lengths of the replies, their End included
  MaxUnanswered, \* the host has at most this many commands without a reply
  MayHalt        \* whether the host may halt an endpoint

ASSUME SizesAssumption ==
  /\ RxBuffers \in Nat \ {0}
  /\ TxBuffers \in Nat \ {0}
  /\ ZlpAfter \in Nat \ {0}
  /\ FrameModulus \in Nat \ {0, 1}

ASSUME BytesAssumption == End \notin Data

ASSUME HostAssumption ==
  /\ ReplyLengths \subseteq Nat \ {0}
  /\ MaxUnanswered \in Nat
  /\ MayHalt \in BOOLEAN

Byte == Data \cup {End}
Buffer == {0, 1}
Other(b) == 1 - b
Frame == 0 .. FrameModulus - 1

BoundedSeq(S, n) == {s \in Seq(S) : Len(s) <= n}

(* A job of the device driver: the buffer given to the controller, its     *)
(* length, and whether the host has taken ("in") or filled ("out") it.     *)
JobState == {"none", "started", "done"}
NoJob == [state |-> "none", buf |-> 0, size |-> 0]

Endpoint == {"in", "out"}

VARIABLES
  running,  \* udi_cdc_data_running: the host has configured the device
  tx,       \* the transmit buffers and flags of udi_cdc.c
  rx,       \* the receive buffers and flags of udi_cdc.c
  tx_job,   \* the job of the endpoint to the host
  rx_job,   \* the job of the endpoint from the host
  halt,     \* of each endpoint, since the interface was enabled
  frame,    \* the controller's frame number
  sof,      \* a frame started and its interrupt is pending
  pc,       \* where the callback is: "idle", "getc" or "putc"
  rx_pos,   \* whether rx_blob holds a part of a command
  reply,    \* what process_command has yet to put
  got,      \* the packet the host last took since it configured the device
  byte      \* the byte the firmware last read

vars == <<running, tx, rx, tx_job, rx_job, halt, frame, sof, pc, rx_pos,
          reply, got, byte>>

callback == <<pc, rx_pos, reply, byte>>
transmit == <<tx, tx_job, got>>
receive == <<rx, rx_job>>
time == <<frame, sof>>

Tx == [buf : [Buffer -> BoundedSeq(Byte, TxBuffers)], sel : Buffer,
       ongoing : BOOLEAN, both : BOOLEAN, sof_num : Frame,
       zlp : 0 .. ZlpAfter - 1]
Rx == [buf : [Buffer -> BoundedSeq(Byte, RxBuffers)],
       nb : [Buffer -> 0 .. RxBuffers], sel : Buffer, pos : 0 .. RxBuffers,
       ongoing : BOOLEAN]
Job(n) == [state : JobState, buf : Buffer, size : 0 .. n]

ResetTx(zlp) == [buf |-> [b \in Buffer |-> <<>>], sel |-> 0, ongoing |-> FALSE,
                 both |-> FALSE, sof_num |-> 0, zlp |-> zlp]
ResetRx == [buf |-> [b \in Buffer |-> <<>>], nb |-> [b \in Buffer |-> 0],
            sel |-> 0, pos |-> 0, ongoing |-> FALSE]

Init ==
  /\ running = FALSE
  /\ tx = ResetTx(0)
  /\ rx = ResetRx
  /\ tx_job = NoJob
  /\ rx_job = NoJob
  /\ halt = [e \in Endpoint |-> "never"]
  /\ frame = 0
  /\ sof = FALSE
  /\ pc = "idle"
  /\ rx_pos = FALSE
  /\ reply = <<>>
  /\ got = <<>>
  /\ byte = <<>>

-----------------------------------------------------------------------------
(* The device driver.  A job runs unless its endpoint is halted or busy.   *)

UddEpRun(job, e, b, n) ==
  IF halt[e] = "halted" \/ job.state # "none"
  THEN job
  ELSE [state |-> "started", buf |-> b, size |-> n]

-----------------------------------------------------------------------------
(* To the host.                                                            *)

(* udi_cdc_tx_send, called with the flags t and the job j: wait for the    *)
(* next frame, or count an idle one, or hand a buffer to the controller,   *)
(* the other one first if both wait.                                       *)
Waits(t) == t.ongoing \/ t.sof_num = frame

Idles(t) == t.buf[t.sel] = <<>> /\ t.zlp + 1 < ZlpAfter

(* Mutant: the counter of idle frames is not static.                       *)
Uncounted(t) == [t EXCEPT !.zlp = 0]

Counted(t) == [t EXCEPT !.zlp = @ + 1]

SelTrans(t) == IF t.both THEN Other(t.sel) ELSE t.sel

(* Mutant: the program goes on with the buffer the controller has.         *)
SendingShared(t) ==
  [t EXCEPT !.zlp = 0, !.ongoing = TRUE,
            !.sof_num = IF Len(t.buf[SelTrans(t)]) # TxBuffers THEN frame ELSE 0]

Sending(t) ==
  [t EXCEPT !.zlp = 0, !.ongoing = TRUE,
            !.sel = IF t.both THEN @ ELSE Other(@),
            !.sof_num = IF Len(t.buf[SelTrans(t)]) # TxBuffers THEN frame ELSE 0]

TxSend(t, j) ==
  \/ /\ Waits(t)
     /\ tx' = t /\ tx_job' = j
  \/ /\ ~Waits(t) /\ Idles(t)
     /\ tx' = Counted(t) /\ tx_job' = j
  \/ /\ ~Waits(t) /\ ~Idles(t)
     /\ tx' = Sending(t)
     /\ tx_job' = UddEpRun(j, "in", SelTrans(t), Len(t.buf[SelTrans(t)]))

(* Mutant: the transfer is not marked as ended.                            *)
SentOngoing(t) == [t EXCEPT !.buf[Other(t.sel)] = <<>>, !.both = FALSE]

(* Mutant: the buffer that the program fills is freed as well.             *)
SentBoth(t) ==
  [t EXCEPT !.buf = [b \in Buffer |-> <<>>], !.both = FALSE, !.ongoing = FALSE]

(* The host took the packet: its buffer is free and the next may go.       *)
Sent(t) ==
  [t EXCEPT !.buf[Other(t.sel)] = <<>>, !.both = FALSE, !.ongoing = FALSE]

DataSent ==
  /\ pc = "idle" /\ tx_job.state = "done"
  /\ TxSend(Sent(tx), NoJob)
  /\ UNCHANGED <<running, receive, halt, time, callback, got>>

(* udi_cdc_multi_get_free_tx_buffer: a full buffer is exchanged for the    *)
(* other one if that is not in use.                                        *)
FreeTxBuffer(t) ==
  IF Len(t.buf[t.sel]) = TxBuffers /\ ~t.ongoing /\ ~t.both
  THEN [t EXCEPT !.both = TRUE, !.sel = Other(@)]
  ELSE t

(* Mutant: one byte too many.                                              *)
HasRoomForOneMore(t) == Len(t.buf[t.sel]) <= TxBuffers

HasRoom(t) == Len(t.buf[t.sel]) < TxBuffers

(* udi_cdc_multi_putc.  Without room it tries again, for nothing changes   *)
(* that the interrupt it runs in does not change: it is not enabled.       *)
Putc == LET t == FreeTxBuffer(tx) IN
  /\ pc = "putc" /\ HasRoom(t)
  /\ tx' = [t EXCEPT !.buf[t.sel] = Append(@, Head(reply))]
  /\ reply' = Tail(reply)
  /\ pc' = IF reply' = <<>> THEN "getc" ELSE "putc"
  /\ UNCHANGED <<running, receive, tx_job, halt, time, rx_pos, got, byte>>

-----------------------------------------------------------------------------
(* From the host.                                                          *)

(* Mutant: the last byte does not count.                                   *)
IsRxReadyButOne(r) == r.pos + 1 < r.nb[r.sel]

IsRxReady(r) == r.pos < r.nb[r.sel]

(* udi_cdc_rx_start, after a transfer: unless bytes are left to read, the  *)
(* buffers change places.  If there is something to read now the program   *)
(* is called, otherwise the controller gets the other buffer at once.      *)
RxStart(r) ==
  LET refused == r.ongoing \/ IsRxReady(r)
      s == IF refused THEN r
           ELSE [r EXCEPT !.pos = 0, !.sel = Other(@), !.ongoing = TRUE]
      notify == ~refused /\ IsRxReady(s)
  IN /\ rx' = s
     /\ rx_job' = IF refused \/ notify THEN NoJob
                  ELSE UddEpRun(NoJob, "out", Other(s.sel), 0)
     /\ pc' = IF notify THEN "getc" ELSE "idle"

(* Mutant: the transfer is not marked as ended.                            *)
ReceivedOngoing(r, n) == [r EXCEPT !.nb[Other(r.sel)] = n]

(* Mutant: the length of the packet is not stored.                         *)
ReceivedUncounted(r, n) == [r EXCEPT !.ongoing = FALSE]

(* A packet arrived.  The endpoint to the host has the lower number and is *)
(* served first.                                                           *)
Received(r, n) == [r EXCEPT !.nb[Other(r.sel)] = n, !.ongoing = FALSE]

DataReceived ==
  /\ pc = "idle" /\ rx_job.state = "done" /\ tx_job.state # "done"
  /\ \/ /\ rx_job.size = 0
        /\ rx_job' = UddEpRun(NoJob, "out", Other(rx.sel), 0)
        /\ UNCHANGED <<rx, pc>>
     \/ /\ rx_job.size > 0
        /\ RxStart(Received(rx, rx_job.size))
  /\ UNCHANGED <<running, transmit, halt, time, rx_pos, reply, byte>>

(* udi_cdc_rx_callback: udi_cdc_getc as long as there is something to read *)
(* (its udi_cdc_rx_start returns at once, a transfer being ongoing).  A    *)
(* byte goes to rx_blob, and an End has the command there carried out,     *)
(* which replies; an End on its own is skipped.                            *)
Getc ==
  /\ pc = "getc" /\ IsRxReady(rx)
  /\ byte' = <<rx.buf[rx.sel][rx.pos + 1]>>
  /\ rx' = [rx EXCEPT !.pos = @ + 1]

ReadByte ==
  /\ Getc
  /\ byte' # <<End>> \/ ~rx_pos
  /\ rx_pos' = (byte' # <<End>>)
  /\ UNCHANGED <<running, transmit, rx_job, halt, time, pc, reply>>

ReadCommand ==
  /\ Getc
  /\ byte' = <<End>> /\ rx_pos
  /\ \E n \in ReplyLengths : \E body \in [1 .. n - 1 -> Data] :
       reply' = Append(body, End)
  /\ rx_pos' = FALSE
  /\ pc' = "putc"
  /\ UNCHANGED <<running, transmit, rx_job, halt, time>>

(* All is read: udi_cdc_rx_start goes on and starts the transfer.          *)
EndCallback ==
  /\ pc = "getc" /\ ~IsRxReady(rx)
  /\ rx_job' = UddEpRun(rx_job, "out", Other(rx.sel), 0)
  /\ pc' = "idle"
  /\ UNCHANGED <<running, transmit, rx, halt, time, rx_pos, reply, byte>>

-----------------------------------------------------------------------------
(* The device controller.                                                  *)

NoEndpointInterrupt == tx_job.state # "done" /\ rx_job.state # "done"

(* Start of frame.                                                         *)
SofNotify ==
  /\ pc = "idle" /\ sof /\ NoEndpointInterrupt
  /\ sof' = FALSE
  /\ IF running THEN TxSend(tx, tx_job) ELSE UNCHANGED <<tx, tx_job>>
  /\ UNCHANGED <<running, receive, halt, frame, callback, got>>

(* The host sets the configuration: what was is forgotten, but for the     *)
(* counter of idle frames, which is static.  Hosts have cleared the halts  *)
(* they made by then, so that the reception starts.                        *)
Enable ==
  /\ pc = "idle" /\ \A e \in Endpoint : halt[e] # "halted"
  /\ running' = TRUE
  /\ halt' = [e \in Endpoint |-> "never"]
  /\ TxSend(ResetTx(tx.zlp), NoJob)
  /\ RxStart(ResetRx)
  /\ got' = <<>>
  /\ UNCHANGED <<time, rx_pos, reply, byte>>

(* A bus reset takes the configuration, and the jobs, away.                *)
Disable ==
  /\ pc = "idle" /\ running /\ NoEndpointInterrupt
  /\ running' = FALSE
  /\ tx_job' = NoJob /\ rx_job' = NoJob
  /\ UNCHANGED <<tx, rx, halt, time, callback, got>>

(* Halting an endpoint aborts its job; the callbacks ignore aborted ones.  *)
SetHalt(e) ==
  /\ pc = "idle" /\ MayHalt /\ running
  /\ halt' = [halt EXCEPT ![e] = "halted"]
  /\ tx_job' = IF e = "in" THEN NoJob ELSE tx_job
  /\ rx_job' = IF e = "out" THEN NoJob ELSE rx_job
  /\ UNCHANGED <<running, tx, rx, time, callback, got>>

ClearHalt(e) ==
  /\ pc = "idle" /\ halt[e] = "halted"
  /\ halt' = [halt EXCEPT ![e] = "cleared"]
  /\ UNCHANGED <<running, transmit, receive, time, callback>>

-----------------------------------------------------------------------------
(* The two queues: what was put and the host has not taken, and what the   *)
(* host has sent and the firmware has not read.                            *)

Unread == SubSeq(rx.buf[rx.sel], rx.pos + 1, rx.nb[rx.sel])
Arrived == SubSeq(rx.buf[rx_job.buf], 1, rx_job.size)

(* A transfer that was aborted, or refused by a halted endpoint, never     *)
(* ends: nothing will be sent any more, nor what is put from then on.      *)
TxStopped == tx.ongoing /\ tx_job.state = "none"

TxQueue ==
  IF ~running \/ TxStopped THEN <<>>
  ELSE (IF tx_job.state = "done" THEN <<>> ELSE tx.buf[Other(tx.sel)])
       \o tx.buf[tx.sel]

RxQueue ==
  IF ~running THEN <<>>
  ELSE Unread \o (IF rx_job.state = "done" THEN Arrived ELSE <<>>)

-----------------------------------------------------------------------------
(* The host.  Packets go straight to and from the buffers.                 *)

Ends(s) == Cardinality({i \in DOMAIN s : s[i] = End})
Unanswered == Ends(RxQueue) + Ends(reply) + Ends(TxQueue)

HostSends ==
  /\ rx_job.state = "started"
  /\ \E n \in 0 .. RxBuffers : \E p \in [1 .. n -> Byte] :
       /\ Ends(p) > 0 => Ends(p) + Unanswered <= MaxUnanswered
       /\ rx' = [rx EXCEPT !.buf[rx_job.buf] = p]
       /\ rx_job' = [rx_job EXCEPT !.state = "done", !.size = n]
  /\ UNCHANGED <<running, transmit, halt, time, callback>>

HostTakes ==
  /\ tx_job.state = "started"
  /\ got' = SubSeq(tx.buf[tx_job.buf], 1, tx_job.size)
  /\ tx_job' = [tx_job EXCEPT !.state = "done"]
  /\ UNCHANGED <<running, tx, receive, halt, time, callback>>

(* A frame starts.  Its interrupt is served before the next one starts.    *)
FrameTick ==
  /\ ~sof
  /\ frame' = (frame + 1) % FrameModulus
  /\ sof' = TRUE
  /\ UNCHANGED <<running, transmit, receive, halt, callback>>

Next ==
  \/ DataSent \/ Putc
  \/ DataReceived \/ ReadByte \/ ReadCommand \/ EndCallback
  \/ SofNotify \/ Enable \/ Disable
  \/ \E e \in Endpoint : SetHalt(e) \/ ClearHalt(e)
  \/ HostSends \/ HostTakes \/ FrameTick

Spec == Init /\ [][Next]_vars

(* Interrupts are served: the endpoints' before the frame's, but a packet  *)
(* takes longer on the bus than the interrupt it causes, so that there is  *)
(* time in between.  The callback goes on if it can.  Frames start, and    *)
(* the host reads; it need not send anything.                              *)
FairSpec ==
  /\ Spec
  /\ WF_vars(DataSent) /\ WF_vars(DataReceived)
  /\ WF_vars(Putc \/ ReadByte \/ ReadCommand \/ EndCallback)
  /\ SF_vars(SofNotify)
  /\ WF_vars(FrameTick) /\ WF_vars(HostTakes)

-----------------------------------------------------------------------------
(* Type invariant: no buffer holds more than fits, and no index of         *)
(* udi_cdc.c leaves its buffer.                                            *)
TypeOK ==
  /\ running \in BOOLEAN
  /\ tx \in Tx
  /\ rx \in Rx
  /\ tx_job \in Job(TxBuffers)
  /\ rx_job \in Job(RxBuffers)
  /\ halt \in [Endpoint -> {"never", "halted", "cleared"}]
  /\ frame \in Frame
  /\ sof \in BOOLEAN
  /\ pc \in {"idle", "getc", "putc"}
  /\ rx_pos \in BOOLEAN
  /\ reply \in Seq(Byte)
  /\ got \in BoundedSeq(Byte, TxBuffers)
  /\ byte \in BoundedSeq(Byte, 1)

(* What is in the buffers may be lost when the host sets the configuration,*)
(* resets the bus or halts the endpoint.  The endpoint to the host, once   *)
(* halted, may also lose it later: by the next transfer, which it refuses  *)
(* (udi_cdc.c:704-706 and 753-763).                                        *)
TxLost == Enable \/ Disable \/ (halt'["in"] # "never" /\ TxStopped')
RxLost == Enable \/ Disable \/ SetHalt("out")

(* Either direction is a queue: whatever the interleaving of handlers,     *)
(* callback and host, no byte in a buffer is doubled, overwritten while it *)
(* is under transfer or overtaken by a later one, and none is lost but for *)
(* TxLost or RxLost (udi_cdc.c:574-770, 1003-1081); and the transmit queue *)
(* holds two buffers, the receive queue one.                               *)
ToHost == INSTANCE ByteQueue WITH
  queue <- TxQueue, got <- got, Capacity <- 2 * TxBuffers
FromHost == INSTANCE ByteQueue WITH
  queue <- RxQueue, got <- byte, Capacity <- RxBuffers

TransmitIsQueue == ToHost!Init /\ [][ToHost!Next(TxLost)]_<<TxQueue, got>>
ReceiveIsQueue == FromHost!Init /\ [][FromHost!Next(RxLost)]_<<RxQueue, byte>>

(* A direction that waits for the end of a transfer has one under way,     *)
(* unless the host has halted its endpoint since it enabled the interface: *)
(* udi_cdc.c:635 and 678 leave trans_ongoing set.                          *)
StoppedOnlyByHalt ==
  running /\ pc = "idle" =>
    /\ halt["in"] = "never" => (tx.ongoing <=> tx_job.state # "none")
    /\ halt["out"] = "never" => rx.ongoing /\ rx_job.state # "none"

(* udi_cdc_putc never waits, for a host that has at most one command       *)
(* unanswered if replies fit in a buffer: there is room whatever the       *)
(* transmit direction is doing, sending an empty packet included.          *)
PutcNeverWaits == pc = "putc" => HasRoom(FreeTxBuffer(tx))

(* For such a host everything written is sent, and everything sent read.   *)
RepliesArrive == ToHost!Emptied
CommandsRead == FromHost!Emptied

(* The host goes on reading until a packet is not full.  After a full one  *)
(* that was the last it is told, with an empty packet (udi_cdc.c:714-722), *)
(* unless something else is put first.                                     *)
ReadsEnd ==
  Len(got) = TxBuffers /\ TxQueue = <<>>
    ~> Len(got) < TxBuffers \/ TxQueue # <<>> \/ ~running

(* What udi_cdc.h:444 says: udi_cdc_putc returns, with one or zero.        *)
PutcReturns == pc = "putc" ~> pc # "putc"
=============================================================================
