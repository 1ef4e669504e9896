---------------------------- MODULE UsbCdcProofs ----------------------------
(***************************************************************************)
(* Proofs about the CDC data channel, for buffers of any length, any       *)
(* replies and any host: either direction is a queue.                      *)
(***************************************************************************)
EXTENDS UsbCdc, SequenceTheorems, FiniteSetTheorems, TLAPS

(* The transmit flags t and the job j agree: a job is that of the buffer   *)
(* the program does not use, and that buffer is empty when it waits for    *)
(* nothing.                                                                *)
TxOk(t, j) ==
  /\ t \in Tx /\ j \in Job(TxBuffers)
  /\ j.state # "none" =>
       t.ongoing /\ j.buf = Other(t.sel) /\ j.size = Len(t.buf[j.buf])
  /\ ~t.ongoing /\ ~t.both => t.buf[Other(t.sel)] = <<>>

(* The receive flags agree with the job and the callback: what may be read *)
(* has arrived, and is read before the controller gets a buffer again.     *)
RxOk ==
  /\ rx.nb[rx.sel] <= Len(rx.buf[rx.sel])
  /\ rx_job.state # "none" =>
       pc = "idle" /\ rx.ongoing /\ rx_job.buf = Other(rx.sel)
  /\ rx_job.state = "done" => rx_job.size = Len(rx.buf[rx_job.buf])
  /\ IF pc = "idle" THEN ~IsRxReady(rx) ELSE rx.ongoing

ReplyOk == pc = "putc" <=> reply # <<>>

(* StoppedOnlyByHalt, for the callback as well.                            *)
OngoingOk ==
  running =>
    /\ halt["in"] = "never" => (tx.ongoing <=> tx_job.state # "none")
    /\ halt["out"] = "never" /\ pc = "idle" => rx.ongoing /\ rx_job.state # "none"

(* Without a configuration nothing is under way.                           *)
RunningOk ==
  ~running => tx_job.state = "none" /\ rx_job.state = "none" /\ pc = "idle"

IInv ==
  TypeOK /\ TxOk(tx, tx_job) /\ RxOk /\ ReplyOk /\ OngoingOk /\ RunningOk

-----------------------------------------------------------------------------
(* Sequences.                                                              *)

(* Taking a first part off a sequence leaves the rest.                     *)
LEMMA SplitConcat ==
  ASSUME NEW S, NEW s \in Seq(S), NEW t \in Seq(S)
  PROVE  /\ SubSeq(s \o t, 1, Len(s)) = s
         /\ SubSeq(s \o t, Len(s) + 1, Len(s \o t)) = t
<1> DEFINE u == s \o t
<1>1. /\ u \in Seq(S) /\ Len(s) \in Nat /\ Len(t) \in Nat /\ Len(u) = Len(s) + Len(t)
      /\ \A i \in 1 .. Len(s) + Len(t) : u[i] = IF i <= Len(s) THEN s[i] ELSE t[i - Len(s)]
  BY ConcatProperties, LenProperties
<1>2. \A i \in 1 .. Len(u) : u[i] \in S
  BY <1>1, ElementOfSeq
<1> HIDE DEF u
<1>3. SubSeq(u, 1, Len(s)) = s
  <2>1. \A i \in 1 .. Len(s) : u[i] \in S
    BY <1>1, <1>2
  <2>2. /\ SubSeq(u, 1, Len(s)) \in Seq(S)
        /\ Len(SubSeq(u, 1, Len(s))) = Len(s)
        /\ \A i \in 1 .. Len(s) : SubSeq(u, 1, Len(s))[i] = s[i]
    BY <1>1, <2>1, SubSeqProperties
  <2> QED
    BY <2>2, SeqEqual
<1>4. SubSeq(u, Len(s) + 1, Len(u)) = t
  <2>1. \A i \in Len(s) + 1 .. Len(u) : u[i] \in S
    BY <1>1, <1>2
  <2>2. /\ SubSeq(u, Len(s) + 1, Len(u)) \in Seq(S)
        /\ Len(SubSeq(u, Len(s) + 1, Len(u))) = Len(t)
        /\ \A i \in 1 .. Len(t) : SubSeq(u, Len(s) + 1, Len(u))[i] = u[Len(s) + i]
    BY <1>1, <2>1, SubSeqProperties
  <2>3. ASSUME NEW i \in 1 .. Len(t)
        PROVE  u[Len(s) + i] = t[i]
    <3>1. /\ Len(s) + i \in 1 .. Len(s) + Len(t) /\ ~(Len(s) + i <= Len(s))
          /\ (Len(s) + i) - Len(s) = i
      BY <1>1
    <3> QED
      BY <1>1, <3>1
  <2> QED
    BY <2>2, <2>3, SeqEqual
<1> QED
  BY <1>3, <1>4 DEF u

LEMMA AppendConcat ==
  \A s, t \in Seq(Byte), e \in Byte : Append(s \o t, e) = s \o Append(t, e)
<1> TAKE s, t \in Seq(Byte), e \in Byte
<1>1. <<e>> \in Seq(Byte) /\ s \o t \in Seq(Byte)
  BY ConcatProperties
<1>2. (s \o t) \o <<e>> = s \o (t \o <<e>>)
  BY <1>1, ConcatAssociative
<1>3. Append(s \o t, e) = (s \o t) \o <<e>> /\ Append(t, e) = t \o <<e>>
  BY <1>1, AppendIsConcat
<1> QED
  BY <1>2, <1>3

USE SizesAssumption, HostAssumption

LEMMA BufferFacts ==
  ASSUME NEW b \in Buffer
  PROVE  Other(b) \in Buffer /\ Other(b) # b /\ Other(Other(b)) = b
BY DEF Buffer, Other

LEMMA EmptyBounded ==
  ASSUME NEW n \in Nat
  PROVE  <<>> \in BoundedSeq(Byte, n) /\ Len(<<>>) = 0
BY EmptySeq DEF BoundedSeq

LEMMA TxFields ==
  ASSUME NEW t \in Tx
  PROVE  /\ t.sel \in Buffer /\ t.ongoing \in BOOLEAN /\ t.both \in BOOLEAN
         /\ t.sof_num \in Frame /\ t.zlp \in 0 .. ZlpAfter - 1
         /\ t.buf \in [Buffer -> BoundedSeq(Byte, TxBuffers)]
         /\ \A b \in Buffer : /\ t.buf[b] \in Seq(Byte)
                              /\ Len(t.buf[b]) \in 0 .. TxBuffers
<1>1. /\ t.sel \in Buffer /\ t.ongoing \in BOOLEAN /\ t.both \in BOOLEAN
      /\ t.sof_num \in Frame /\ t.zlp \in 0 .. ZlpAfter - 1
      /\ t.buf \in [Buffer -> BoundedSeq(Byte, TxBuffers)]
  BY DEF Tx
<1>2. ASSUME NEW b \in Buffer
      PROVE  t.buf[b] \in Seq(Byte) /\ Len(t.buf[b]) \in 0 .. TxBuffers
  <2>1. t.buf[b] \in BoundedSeq(Byte, TxBuffers)
    BY <1>1
  <2> QED
    BY <2>1, LenProperties DEF BoundedSeq
<1> QED
  BY <1>1, <1>2

-----------------------------------------------------------------------------
(* Transmitting.                                                           *)

(* TxQueue of an enabled interface, as a function of flags and job.        *)
Waiting(t, j) ==
  IF t.ongoing /\ j.state = "none" THEN <<>>
  ELSE (IF j.state = "done" THEN <<>> ELSE t.buf[Other(t.sel)]) \o t.buf[t.sel]

LEMMA TxQueueWaiting == TxQueue = IF running THEN Waiting(tx, tx_job) ELSE <<>>
BY DEF TxQueue, TxStopped, Waiting

LEMMA SendingType ==
  ASSUME NEW t \in Tx, frame \in Frame
  PROVE  Sending(t) \in Tx
<1>1. 0 \in Frame /\ 0 \in 0 .. ZlpAfter - 1
  BY DEF Frame
<1> QED
  BY <1>1, TxFields, BufferFacts DEF Sending, Tx

(* udi_cdc_tx_send keeps flags and job in agreement, and loses no byte     *)
(* unless the endpoint is halted.                                          *)
LEMMA TxSendOk ==
  ASSUME NEW t, NEW j, TxOk(t, j), frame \in Frame, TxSend(t, j)
  PROVE  /\ TxOk(tx', tx_job')
         /\ \/ Waiting(tx', tx_job') = Waiting(t, j)
            \/ tx'.ongoing /\ tx_job'.state = "none"
         /\ halt["in"] # "halted" /\ (t.ongoing <=> j.state # "none") =>
              (tx'.ongoing <=> tx_job'.state # "none")
<1>1. t \in Tx /\ j \in Job(TxBuffers)
  BY DEF TxOk
<1>2. CASE Waits(t) /\ tx' = t /\ tx_job' = j
  BY <1>2
<1>3. CASE ~Waits(t) /\ Idles(t) /\ tx' = Counted(t) /\ tx_job' = j
  <2>1. /\ tx' \in Tx /\ tx'.sel = t.sel /\ tx'.buf = t.buf
        /\ tx'.ongoing = t.ongoing /\ tx'.both = t.both
    BY <1>1, <1>3 DEF Idles, Counted, Tx
  <2> QED
    BY <1>3, <2>1 DEF TxOk, Waiting
<1>4. CASE /\ ~Waits(t) /\ ~Idles(t) /\ tx' = Sending(t)
           /\ tx_job' = UddEpRun(j, "in", SelTrans(t), Len(t.buf[SelTrans(t)]))
  <2> DEFINE b == SelTrans(t)
  <2>1. ~t.ongoing /\ j.state = "none"
    BY <1>1, <1>4, TxFields DEF Waits, TxOk
  <2>2. /\ tx' \in Tx /\ tx'.ongoing /\ tx'.buf = t.buf
        /\ tx'.sel = IF t.both THEN t.sel ELSE Other(t.sel)
    BY <1>1, <1>4, SendingType DEF Sending, Tx
  <2>3. b \in Buffer /\ b = Other(tx'.sel)
    BY <1>1, <2>2, TxFields, BufferFacts DEF SelTrans
  <2>4. \/ tx_job' = [state |-> "started", buf |-> b, size |-> Len(t.buf[b])]
        \/ tx_job' = j /\ halt["in"] = "halted"
    BY <1>4, <2>1 DEF UddEpRun
  <2>5. TxOk(tx', tx_job')
    BY <1>1, <2>1, <2>2, <2>3, <2>4, TxFields DEF TxOk, Job, JobState
  <2>6. \/ Waiting(tx', tx_job') = Waiting(t, j)
        \/ tx'.ongoing /\ tx_job'.state = "none"
    <3>1. CASE tx_job' = j
      BY <2>1, <2>2, <3>1
    <3>2. CASE tx_job'.state = "started"
      <4>1. /\ Waiting(tx', tx_job') = t.buf[b] \o t.buf[tx'.sel]
            /\ Waiting(t, j) = t.buf[Other(t.sel)] \o t.buf[t.sel]
        BY <2>1, <2>2, <2>3, <3>2 DEF Waiting
      <4>2. CASE t.both
        BY <2>2, <2>3, <4>1, <4>2
      <4>3. CASE ~t.both
        <5>1. b = t.sel /\ tx'.sel = Other(t.sel) /\ t.buf[Other(t.sel)] = <<>>
          BY <2>1, <2>2, <4>3 DEF SelTrans, TxOk
        <5>2. t.buf[t.sel] \in Seq(Byte)
          BY <1>1, TxFields
        <5> QED
          BY <4>1, <5>1, <5>2, ConcatEmptySeq
      <4> QED
        BY <4>2, <4>3
    <3> QED
      BY <2>4, <3>1, <3>2
  <2> QED
    BY <2>1, <2>2, <2>4, <2>5, <2>6
<1> QED
  BY <1>2, <1>3, <1>4 DEF TxSend

LEMMA NoJobType ==
  ASSUME NEW n \in Nat
  PROVE  NoJob \in Job(n) /\ NoJob.state = "none"
BY DEF NoJob, Job, JobState, Buffer

LEMMA SentOk ==
  ASSUME TxOk(tx, tx_job), tx_job.state = "done"
  PROVE  /\ TxOk(Sent(tx), NoJob) /\ ~Sent(tx).ongoing
         /\ Waiting(Sent(tx), NoJob) = Waiting(tx, tx_job)
<1>1. tx \in Tx
  BY DEF TxOk
<1>2. /\ Sent(tx) \in Tx /\ Sent(tx).sel = tx.sel
      /\ ~Sent(tx).ongoing /\ ~Sent(tx).both
      /\ Sent(tx).buf = [tx.buf EXCEPT ![Other(tx.sel)] = <<>>]
  <2>1. [tx.buf EXCEPT ![Other(tx.sel)] = <<>>] \in [Buffer -> BoundedSeq(Byte, TxBuffers)]
    BY <1>1, TxFields, BufferFacts, EmptyBounded
  <2> QED
    BY <1>1, <2>1 DEF Sent, Tx
<1>3. /\ Sent(tx).buf[Other(tx.sel)] = <<>>
      /\ Sent(tx).buf[tx.sel] = tx.buf[tx.sel]
  BY <1>1, <1>2, TxFields, BufferFacts
<1>4. TxOk(Sent(tx), NoJob)
  BY <1>2, <1>3, NoJobType DEF TxOk
<1>5. Waiting(Sent(tx), NoJob) = Waiting(tx, tx_job)
  BY <1>2, <1>3, NoJobType DEF Waiting
<1> QED
  BY <1>2, <1>4, <1>5

(* Taking the other buffer for a full one changes neither the agreement    *)
(* nor what waits.                                                         *)
LEMMA FreeTxBufferOk ==
  ASSUME TxOk(tx, tx_job)
  PROVE  /\ TxOk(FreeTxBuffer(tx), tx_job)
         /\ FreeTxBuffer(tx).ongoing = tx.ongoing
         /\ Waiting(FreeTxBuffer(tx), tx_job) = Waiting(tx, tx_job)
<1> DEFINE t == FreeTxBuffer(tx)
<1>1. tx \in Tx
  BY DEF TxOk
<1>2. CASE t = tx
  BY <1>2
<1>3. CASE Len(tx.buf[tx.sel]) = TxBuffers /\ ~tx.ongoing /\ ~tx.both
  <2>1. /\ t \in Tx /\ t.sel = Other(tx.sel) /\ t.buf = tx.buf
        /\ t.ongoing = tx.ongoing /\ ~t.ongoing /\ t.both
    BY <1>1, <1>3, TxFields, BufferFacts DEF FreeTxBuffer, Tx
  <2>2. tx_job.state = "none" /\ tx.buf[Other(tx.sel)] = <<>>
    BY <1>3 DEF TxOk
  <2>3. TxOk(t, tx_job)
    BY <2>1, <2>2 DEF TxOk
  <2>4. tx.buf[tx.sel] \in Seq(Byte) /\ Other(t.sel) = tx.sel
    BY <1>1, <2>1, TxFields, BufferFacts
  <2>5. Waiting(t, tx_job) = Waiting(tx, tx_job)
    BY <1>3, <2>1, <2>2, <2>4, ConcatEmptySeq DEF Waiting
  <2> QED
    BY <1>3, <2>1, <2>3, <2>5
<1> QED
  BY <1>2, <1>3 DEF FreeTxBuffer

LEMMA WaitingBounded ==
  ASSUME NEW t, NEW j, TxOk(t, j)
  PROVE  /\ Waiting(t, j) \in Seq(Byte)
         /\ Len(Waiting(t, j)) \in 0 .. 2 * TxBuffers
         /\ Len(t.buf[t.sel]) < TxBuffers => Len(Waiting(t, j)) < 2 * TxBuffers
<1>1. /\ t.buf[t.sel] \in Seq(Byte) /\ Len(t.buf[t.sel]) \in 0 .. TxBuffers
      /\ t.buf[Other(t.sel)] \in Seq(Byte) /\ Len(t.buf[Other(t.sel)]) \in 0 .. TxBuffers
  BY TxFields, BufferFacts DEF TxOk
<1> DEFINE front == IF j.state = "done" THEN <<>> ELSE t.buf[Other(t.sel)]
<1>2. front \in Seq(Byte) /\ Len(front) \in 0 .. TxBuffers
  BY <1>1, EmptySeq
<1>3. \/ Waiting(t, j) = <<>>
      \/ Waiting(t, j) = front \o t.buf[t.sel]
  BY DEF Waiting
<1> HIDE DEF front
<1>4. /\ front \o t.buf[t.sel] \in Seq(Byte)
      /\ Len(front \o t.buf[t.sel]) = Len(front) + Len(t.buf[t.sel])
  BY <1>1, <1>2, ConcatProperties
<1>5. CASE Waiting(t, j) = <<>>
  <2>1. Waiting(t, j) \in Seq(Byte) /\ Len(Waiting(t, j)) = 0
    BY <1>5, EmptySeq
  <2> HIDE DEF Waiting
  <2> QED
    BY <2>1
<1>6. CASE Waiting(t, j) = front \o t.buf[t.sel]
  <2> DEFINE n == Len(front)
             m == Len(t.buf[t.sel])
             w == Waiting(t, j)
  <2>1. n \in 0 .. TxBuffers /\ m \in 0 .. TxBuffers /\ w \in Seq(Byte) /\ Len(w) = n + m
    BY <1>1, <1>2, <1>4, <1>6
  <2> HIDE DEF n, w
  <2>2. Len(w) \in 0 .. 2 * TxBuffers /\ (m < TxBuffers => Len(w) < 2 * TxBuffers)
    <3> HIDE DEF m
    <3> QED
      BY <2>1
  <2> QED
    BY <2>1, <2>2 DEF w
<1> QED
  BY <1>3, <1>5, <1>6

(* A byte put goes to the end of what waits, unless nothing waits any more *)
(* because the endpoint was halted.                                        *)
LEMMA PutcOk ==
  ASSUME TxOk(tx, tx_job), reply \in Seq(Byte), reply # <<>>, Putc
  PROVE  /\ TxOk(tx', tx_job') /\ tx'.ongoing = tx.ongoing
         /\ \/ Waiting(tx', tx_job') = Append(Waiting(tx, tx_job), Head(reply))
            \/ Waiting(tx', tx_job') = <<>> /\ Waiting(tx, tx_job) = <<>>
         /\ Len(Waiting(tx', tx_job')) <= 2 * TxBuffers
<1> DEFINE t == FreeTxBuffer(tx)
           e == Head(reply)
<1>1. /\ HasRoom(t) /\ tx_job' = tx_job
      /\ tx' = [t EXCEPT !.buf[t.sel] = Append(@, e)]
  BY DEF Putc
<1>2. /\ TxOk(t, tx_job) /\ t.ongoing = tx.ongoing
      /\ Waiting(t, tx_job) = Waiting(tx, tx_job)
  BY FreeTxBufferOk
<1>3. t \in Tx /\ e \in Byte
  BY <1>2, HeadTailProperties DEF TxOk
<1> HIDE DEF t, e
<1>4. /\ t.buf[t.sel] \in Seq(Byte) /\ Len(t.buf[t.sel]) < TxBuffers
      /\ Append(t.buf[t.sel], e) \in BoundedSeq(Byte, TxBuffers)
  <2>1. t.buf[t.sel] \in Seq(Byte) /\ Len(t.buf[t.sel]) < TxBuffers
    BY <1>1, <1>3, TxFields DEF HasRoom
  <2>2. /\ Append(t.buf[t.sel], e) \in Seq(Byte)
        /\ Len(Append(t.buf[t.sel], e)) = Len(t.buf[t.sel]) + 1
    BY <1>3, <2>1, AppendProperties
  <2> QED
    BY <1>3, <2>1, <2>2, TxFields DEF BoundedSeq
<1>5. /\ tx' \in Tx /\ tx'.sel = t.sel /\ tx'.ongoing = t.ongoing /\ tx'.both = t.both
      /\ tx'.buf[t.sel] = Append(t.buf[t.sel], e)
      /\ tx'.buf[Other(t.sel)] = t.buf[Other(t.sel)]
  <2>1. [t.buf EXCEPT ![t.sel] = Append(t.buf[t.sel], e)]
          \in [Buffer -> BoundedSeq(Byte, TxBuffers)]
    BY <1>3, <1>4, TxFields
  <2>2. /\ tx' \in Tx /\ tx'.sel = t.sel /\ tx'.ongoing = t.ongoing /\ tx'.both = t.both
        /\ tx'.buf = [t.buf EXCEPT ![t.sel] = Append(t.buf[t.sel], e)]
    BY <1>1, <1>3, <2>1 DEF Tx
  <2> QED
    BY <1>3, <2>2, TxFields, BufferFacts
<1>6. TxOk(tx', tx_job')
  <2>1. \A b \in Buffer : b = Other(t.sel) => tx'.buf[b] = t.buf[b]
    BY <1>5
  <2> QED
    BY <1>1, <1>2, <1>5, <2>1, BufferFacts DEF TxOk, Job
<1>7. \/ Waiting(tx', tx_job') = Append(Waiting(t, tx_job), e)
      \/ Waiting(tx', tx_job') = <<>> /\ Waiting(t, tx_job) = <<>>
  <2>1. CASE t.ongoing /\ tx_job.state = "none"
    BY <1>1, <1>5, <2>1 DEF Waiting
  <2>2. CASE ~(t.ongoing /\ tx_job.state = "none")
    <3> DEFINE front == IF tx_job.state = "done" THEN <<>> ELSE t.buf[Other(t.sel)]
    <3>1. /\ Waiting(t, tx_job) = front \o t.buf[t.sel]
          /\ Waiting(tx', tx_job') = front \o Append(t.buf[t.sel], e)
      BY <1>1, <1>5, <2>2 DEF Waiting
    <3>2. front \in Seq(Byte)
      BY <1>3, TxFields, BufferFacts, EmptySeq
    <3> HIDE DEF front
    <3> DEFINE back == t.buf[t.sel]
    <3>3. back \in Seq(Byte) /\ e \in Byte
      BY <1>3, <1>4
    <3> HIDE DEF back
    <3>4. Append(front \o back, e) = front \o Append(back, e)
      BY <3>2, <3>3, AppendConcat
    <3> QED
      BY <3>1, <3>4 DEF back
  <2> QED
    BY <2>1, <2>2
<1>8. Len(Waiting(tx', tx_job')) <= 2 * TxBuffers
  BY <1>6, WaitingBounded
<1> QED
  BY <1>2, <1>5, <1>6, <1>7, <1>8 DEF e

(* What Enable starts from: nothing waits, in buffers or for their end.    *)
LEMMA ResetTxOk ==
  ASSUME tx \in Tx
  PROVE  /\ TxOk(ResetTx(tx.zlp), NoJob) /\ ~ResetTx(tx.zlp).ongoing
         /\ Waiting(ResetTx(tx.zlp), NoJob) = <<>>
<1> DEFINE t == ResetTx(tx.zlp)
<1>1. 0 \in Frame /\ 0 \in Buffer /\ tx.zlp \in 0 .. ZlpAfter - 1
  BY TxFields DEF Frame, Buffer
<1>2. [b \in Buffer |-> <<>>] \in [Buffer -> BoundedSeq(Byte, TxBuffers)]
  BY EmptyBounded
<1>3. /\ t \in Tx /\ t.sel = 0 /\ ~t.ongoing /\ ~t.both
      /\ \A b \in Buffer : t.buf[b] = <<>>
  BY <1>1, <1>2 DEF ResetTx, Tx
<1> HIDE DEF t
<1>4. TxOk(t, NoJob)
  BY <1>1, <1>3, NoJobType, BufferFacts DEF TxOk
<1>5. Waiting(t, NoJob) = <<>> \o <<>>
  BY <1>1, <1>3, NoJobType, BufferFacts DEF Waiting
<1>6. <<>> \o <<>> = <<>>
  <2>1. <<>> \in Seq(Byte)
    BY EmptySeq
  <2> QED
    BY <2>1, ConcatEmptySeq
<1> QED
  BY <1>3, <1>4, <1>5, <1>6 DEF t

-----------------------------------------------------------------------------
(* Receiving.                                                              *)

LEMMA RxFields ==
  ASSUME NEW r \in Rx
  PROVE  /\ r.sel \in Buffer /\ r.ongoing \in BOOLEAN /\ r.pos \in 0 .. RxBuffers
         /\ r.nb \in [Buffer -> 0 .. RxBuffers]
         /\ r.buf \in [Buffer -> BoundedSeq(Byte, RxBuffers)]
         /\ \A b \in Buffer : /\ r.nb[b] \in 0 .. RxBuffers
                              /\ r.buf[b] \in Seq(Byte)
                              /\ Len(r.buf[b]) \in 0 .. RxBuffers
<1>1. /\ r.sel \in Buffer /\ r.ongoing \in BOOLEAN /\ r.pos \in 0 .. RxBuffers
      /\ r.nb \in [Buffer -> 0 .. RxBuffers]
      /\ r.buf \in [Buffer -> BoundedSeq(Byte, RxBuffers)]
  BY DEF Rx
<1>2. ASSUME NEW b \in Buffer
      PROVE  r.buf[b] \in Seq(Byte) /\ Len(r.buf[b]) \in 0 .. RxBuffers
  <2>1. r.buf[b] \in BoundedSeq(Byte, RxBuffers)
    BY <1>1
  <2> QED
    BY <2>1, LenProperties DEF BoundedSeq
<1> QED
  BY <1>1, <1>2

(* A job runs for the buffer it was asked for, or not at all.              *)
LEMMA UddEpRunType ==
  ASSUME NEW n \in Nat, NEW j \in Job(n), NEW e \in Endpoint,
         NEW b \in Buffer, NEW m \in 0 .. n
  PROVE  /\ UddEpRun(j, e, b, m) \in Job(n)
         /\ \/ /\ UddEpRun(j, e, b, m) = j
               /\ halt[e] = "halted" \/ j.state # "none"
            \/ UddEpRun(j, e, b, m) = [state |-> "started", buf |-> b, size |-> m]
BY DEF UddEpRun, Job, JobState

(* udi_cdc_rx_start, called with flags that await its transfer: the        *)
(* buffers change places, and either the callback or the controller has    *)
(* the next move.                                                          *)
LEMMA RxStartOk ==
  ASSUME NEW r \in Rx, ~r.ongoing, ~IsRxReady(r),
         r.nb[Other(r.sel)] <= Len(r.buf[Other(r.sel)]), RxStart(r)
  PROVE  /\ rx' \in Rx /\ rx'.sel = Other(r.sel) /\ rx'.pos = 0 /\ rx'.ongoing
         /\ rx'.buf = r.buf /\ rx'.nb = r.nb
         /\ pc' = IF r.nb[Other(r.sel)] > 0 THEN "getc" ELSE "idle"
         /\ rx_job' \in Job(RxBuffers)
         /\ pc' = "getc" => rx_job'.state = "none"
         /\ pc' = "idle" /\ halt["out"] # "halted" => rx_job'.state = "started"
         /\ RxOk'
<1> DEFINE s == [r EXCEPT !.pos = 0, !.sel = Other(@), !.ongoing = TRUE]
<1>1. /\ s \in Rx /\ s.sel = Other(r.sel) /\ s.pos = 0 /\ s.ongoing
      /\ s.buf = r.buf /\ s.nb = r.nb
  <2>1. Other(r.sel) \in Buffer /\ 0 \in 0 .. RxBuffers
    BY RxFields, BufferFacts
  <2> QED
    BY <2>1 DEF Rx
<1>2. IsRxReady(s) <=> r.nb[Other(r.sel)] > 0
  BY <1>1, RxFields, BufferFacts DEF IsRxReady
<1>3. /\ rx' = s
      /\ rx_job' = IF IsRxReady(s) THEN NoJob
                   ELSE UddEpRun(NoJob, "out", Other(s.sel), 0)
      /\ pc' = IF IsRxReady(s) THEN "getc" ELSE "idle"
  BY DEF RxStart
<1> HIDE DEF s
<1>4. Other(s.sel) \in Buffer
  BY <1>1, RxFields, BufferFacts
<1>5. /\ rx_job' \in Job(RxBuffers)
      /\ rx_job'.state # "done" /\ (rx_job'.state # "none" => rx_job'.buf = Other(s.sel))
      /\ pc' = "getc" => rx_job'.state = "none"
      /\ pc' = "idle" /\ halt["out"] # "halted" => rx_job'.state = "started"
  <2> DEFINE j == UddEpRun(NoJob, "out", Other(s.sel), 0)
  <2>1. NoJob \in Job(RxBuffers) /\ NoJob.state = "none"
    BY NoJobType
  <2>2. "out" \in Endpoint /\ 0 \in 0 .. RxBuffers
    BY DEF Endpoint
  <2>3. /\ j \in Job(RxBuffers)
        /\ \/ j = NoJob /\ halt["out"] = "halted"
           \/ j = [state |-> "started", buf |-> Other(s.sel), size |-> 0]
    BY <1>4, <2>1, <2>2, UddEpRunType
  <2>4. /\ rx_job' = IF IsRxReady(s) THEN NoJob ELSE j
        /\ pc' = IF IsRxReady(s) THEN "getc" ELSE "idle"
    BY <1>3
  <2> HIDE DEF j
  <2> QED
    BY <2>1, <2>3, <2>4
<1>6. RxOk'
  BY <1>1, <1>2, <1>3, <1>5, RxFields, BufferFacts DEF RxOk, IsRxReady
<1> QED
  BY <1>1, <1>2, <1>3, <1>5, <1>6

-----------------------------------------------------------------------------
(* The invariant is inductive.                                             *)

LEMMA InitInv == Init => IInv
<1> SUFFICES ASSUME Init PROVE IInv
  OBVIOUS
<1>1. /\ 0 \in Frame /\ 0 \in Buffer /\ 0 \in 0 .. ZlpAfter - 1 /\ 0 \in 0 .. RxBuffers
      /\ <<>> \in Seq(Byte) /\ <<>> \in BoundedSeq(Byte, 1)
      /\ \A n \in {TxBuffers, RxBuffers} : <<>> \in BoundedSeq(Byte, n)
  BY EmptySeq, EmptyBounded DEF Frame, Buffer
<1>2. ResetTx(0) \in Tx /\ ResetRx \in Rx
  BY <1>1 DEF ResetTx, ResetRx, Tx, Rx
<1>3. NoJob \in Job(TxBuffers) /\ NoJob \in Job(RxBuffers) /\ NoJob.state = "none"
  BY NoJobType
<1>4. TypeOK
  BY <1>1, <1>2, <1>3 DEF Init, TypeOK
<1>5. TxOk(tx, tx_job)
  <2>1. tx = ResetTx(0) /\ tx.zlp = 0 /\ tx_job = NoJob /\ tx \in Tx
    BY <1>2 DEF Init, ResetTx
  <2> QED
    BY <2>1, ResetTxOk
<1>6. RxOk
  BY <1>1, <1>3, EmptyBounded DEF Init, RxOk, IsRxReady, ResetRx
<1> QED
  BY <1>3, <1>4, <1>5, <1>6 DEF Init, IInv, ReplyOk, OngoingOk, RunningOk

(* udi_cdc_data_sent.                                                      *)
LEMMA DataSentInv == IInv /\ DataSent => IInv'
<1> SUFFICES ASSUME IInv, DataSent PROVE IInv'
  OBVIOUS
<1>1. /\ TxOk(tx', tx_job') /\ (halt["in"] # "halted" => (tx'.ongoing <=> tx_job'.state # "none"))
      /\ running
  <2>1. TxOk(Sent(tx), NoJob) /\ ~Sent(tx).ongoing /\ NoJob.state = "none"
    BY SentOk, NoJobType DEF IInv, DataSent
  <2>2. frame \in Frame /\ TxSend(Sent(tx), NoJob)
    BY DEF IInv, TypeOK, DataSent
  <2> QED
    BY <2>1, <2>2, TxSendOk DEF IInv, RunningOk, DataSent
<1>2. TypeOK'
  BY <1>1 DEF IInv, TypeOK, DataSent, receive, time, callback, TxOk
<1> QED
  BY <1>1, <1>2 DEF IInv, RxOk, ReplyOk, OngoingOk, RunningOk, DataSent,
                    receive, time, callback, TxOk, IsRxReady

LEMMA PutcInv == IInv /\ Putc => IInv'
<1> SUFFICES ASSUME IInv, Putc PROVE IInv'
  OBVIOUS
<1>1. reply \in Seq(Byte) /\ reply # <<>>
  BY DEF IInv, TypeOK, ReplyOk, Putc
<1>2. TxOk(tx', tx_job') /\ tx'.ongoing = tx.ongoing
  BY <1>1, PutcOk DEF IInv
<1>3. reply' \in Seq(Byte)
  BY <1>1, HeadTailProperties DEF Putc
<1>4. TypeOK'
  BY <1>2, <1>3 DEF IInv, TypeOK, Putc, receive, time, TxOk
<1> QED
  BY <1>2, <1>4 DEF IInv, RxOk, ReplyOk, OngoingOk, RunningOk, Putc, receive, time,
                    TxOk, IsRxReady

(* The end of a transfer that brought something: it is the program's.      *)
LEMMA ReceivedOk ==
  ASSUME IInv, DataReceived, rx_job.size > 0
  PROVE  /\ rx' \in Rx /\ rx'.sel = Other(rx.sel) /\ rx'.pos = 0 /\ rx'.buf = rx.buf
         /\ rx'.nb[Other(rx.sel)] = rx_job.size
         /\ rx_job' \in Job(RxBuffers) /\ RxOk' /\ pc' = "getc"
<1> DEFINE r == Received(rx, rx_job.size)
<1>1. /\ rx \in Rx /\ rx_job \in Job(RxBuffers) /\ ~IsRxReady(rx)
      /\ rx_job.size = Len(rx.buf[Other(rx.sel)])
  BY DEF IInv, TypeOK, RxOk, DataReceived
<1>2. RxStart(r)
  BY DEF DataReceived
<1>3. rx_job.size \in 0 .. RxBuffers
  BY <1>1 DEF Job
<1>4. /\ r \in Rx /\ r.sel = rx.sel /\ r.pos = rx.pos /\ r.buf = rx.buf /\ ~r.ongoing
      /\ r.nb = [rx.nb EXCEPT ![Other(rx.sel)] = rx_job.size]
  BY <1>1, <1>3, RxFields, BufferFacts DEF Received, Rx
<1>5. r.nb[Other(rx.sel)] = rx_job.size /\ r.nb[rx.sel] = rx.nb[rx.sel]
  BY <1>1, <1>4, RxFields, BufferFacts
<1>6. ~IsRxReady(r)
  BY <1>1, <1>4, <1>5 DEF IsRxReady
<1> HIDE DEF r
<1>7. r.nb[Other(r.sel)] <= Len(r.buf[Other(r.sel)]) /\ r.nb[Other(r.sel)] > 0
  BY <1>1, <1>3, <1>4, <1>5
<1> QED
  BY <1>2, <1>4, <1>5, <1>6, <1>7, RxStartOk

(* udi_cdc_data_received.                                                  *)
LEMMA DataReceivedInv == IInv /\ DataReceived => IInv'
<1> SUFFICES ASSUME IInv, DataReceived PROVE IInv'
  OBVIOUS
<1>1. rx \in Rx /\ rx_job \in Job(RxBuffers) /\ rx_job.state = "done" /\ pc = "idle"
  BY DEF IInv, TypeOK, DataReceived
<1>2. /\ rx_job.buf = Other(rx.sel) /\ rx.ongoing /\ ~IsRxReady(rx)
      /\ rx_job.size = Len(rx.buf[Other(rx.sel)])
  BY <1>1 DEF IInv, RxOk
<1>3. running
  BY <1>1 DEF IInv, RunningOk
<1>4. CASE rx_job.size = 0
  <2>1. /\ rx_job' = UddEpRun(NoJob, "out", Other(rx.sel), 0)
        /\ rx' = rx /\ pc' = pc
    BY <1>4 DEF DataReceived
  <2>2. /\ rx_job' \in Job(RxBuffers)
        /\ rx_job'.state # "none" => rx_job'.state = "started" /\ rx_job'.buf = Other(rx.sel)
        /\ halt["out"] # "halted" => rx_job'.state = "started"
    BY <1>1, <2>1, RxFields, BufferFacts, NoJobType, UddEpRunType DEF Endpoint
  <2>3. TypeOK'
    BY <2>1, <2>2 DEF IInv, TypeOK, DataReceived, transmit, time
  <2> QED
    BY <1>1, <1>2, <1>3, <2>1, <2>2, <2>3 DEF IInv, RxOk, ReplyOk, OngoingOk, RunningOk,
       DataReceived, transmit, time, TxOk, IsRxReady
<1>5. CASE rx_job.size > 0
  <2>1. rx' \in Rx /\ rx_job' \in Job(RxBuffers) /\ RxOk' /\ pc' = "getc"
    BY <1>5, ReceivedOk
  <2>2. TypeOK'
    BY <2>1 DEF IInv, TypeOK, DataReceived, transmit, time
  <2> QED
    BY <1>1, <1>3, <2>1, <2>2 DEF IInv, ReplyOk, OngoingOk, RunningOk,
       DataReceived, transmit, time, TxOk
<1> QED
  BY <1>4, <1>5 DEF DataReceived

(* A byte read is one that arrived.                                        *)
LEMMA GetcOk ==
  ASSUME IInv, Getc
  PROVE  /\ rx' \in Rx /\ rx'.sel = rx.sel /\ rx'.buf = rx.buf /\ rx'.nb = rx.nb
         /\ rx'.ongoing = rx.ongoing /\ rx'.pos = rx.pos + 1
         /\ rx.pos + 1 \in 1 .. rx.nb[rx.sel]
         /\ byte' = <<rx.buf[rx.sel][rx.pos + 1]>>
         /\ rx.buf[rx.sel][rx.pos + 1] \in Byte /\ byte' \in BoundedSeq(Byte, 1)
<1>1. rx \in Rx /\ rx.nb[rx.sel] <= Len(rx.buf[rx.sel]) /\ rx.pos < rx.nb[rx.sel]
  BY DEF IInv, TypeOK, RxOk, Getc, IsRxReady
<1>2. rx.pos + 1 \in 1 .. rx.nb[rx.sel] /\ rx.pos + 1 \in 0 .. RxBuffers
  BY <1>1, RxFields
<1>3. rx.buf[rx.sel] \in Seq(Byte) /\ rx.pos + 1 \in 1 .. Len(rx.buf[rx.sel])
  BY <1>1, <1>2, RxFields
<1>4. rx.buf[rx.sel][rx.pos + 1] \in Byte
  BY <1>3, ElementOfSeq
<1>5. byte' = <<rx.buf[rx.sel][rx.pos + 1]>>
  BY DEF Getc
<1>6. byte' \in BoundedSeq(Byte, 1)
  BY <1>4, <1>5 DEF BoundedSeq
<1>7. /\ rx' \in Rx /\ rx'.sel = rx.sel /\ rx'.buf = rx.buf /\ rx'.nb = rx.nb
      /\ rx'.ongoing = rx.ongoing /\ rx'.pos = rx.pos + 1
  BY <1>1, <1>2 DEF Getc, Rx
<1> QED
  BY <1>2, <1>4, <1>5, <1>6, <1>7

LEMMA ReadInv == IInv /\ (ReadByte \/ ReadCommand) => IInv'
<1> SUFFICES ASSUME IInv, ReadByte \/ ReadCommand PROVE IInv'
  OBVIOUS
<1>1. Getc /\ pc = "getc"
  BY DEF ReadByte, ReadCommand, Getc
<1>2. /\ rx' \in Rx /\ rx'.sel = rx.sel /\ rx'.buf = rx.buf /\ rx'.nb = rx.nb
      /\ rx'.ongoing = rx.ongoing /\ byte' \in BoundedSeq(Byte, 1)
  BY <1>1, GetcOk
<1>3. /\ rx_pos' \in BOOLEAN /\ rx_job' = rx_job
      /\ \/ pc' = "getc" /\ reply' = reply
         \/ pc' = "putc" /\ reply' \in Seq(Byte) /\ reply' # <<>>
  <2>1. CASE ReadByte
    BY <1>1, <2>1 DEF ReadByte
  <2>2. CASE ReadCommand
    <3>1. PICK n \in ReplyLengths : \E body \in [1 .. n - 1 -> Data] :
            reply' = Append(body, End)
      BY <2>2 DEF ReadCommand
    <3>2. PICK body \in [1 .. n - 1 -> Data] : reply' = Append(body, End)
      BY <3>1
    <3>3. n - 1 \in Nat
      BY <3>1
    <3>4. body \in Seq(Byte)
      <4>1. body \in [1 .. n - 1 -> Byte]
        BY DEF Byte
      <4> QED
        BY <3>3, <4>1, SeqDef
    <3>5. reply' \in Seq(Byte) /\ reply' # <<>>
      <4>1. End \in Byte
        BY DEF Byte
      <4> QED
        BY <3>2, <3>4, <4>1, AppendProperties
    <3> QED
      BY <2>2, <3>5 DEF ReadCommand
  <2> QED
    BY <2>1, <2>2
<1>4. /\ tx' = tx /\ tx_job' = tx_job /\ got' = got /\ running' = running
      /\ halt' = halt /\ frame' = frame /\ sof' = sof
  BY DEF ReadByte, ReadCommand, transmit, time
<1>5. TypeOK'
  BY <1>2, <1>3, <1>4 DEF IInv, TypeOK
<1>6. RxOk'
  BY <1>1, <1>2, <1>3 DEF IInv, RxOk
<1>7. ReplyOk'
  BY <1>1, <1>3 DEF IInv, ReplyOk
<1> QED
  BY <1>1, <1>3, <1>4, <1>5, <1>6, <1>7 DEF IInv, TxOk, OngoingOk, RunningOk

LEMMA EndCallbackInv == IInv /\ EndCallback => IInv'
<1> SUFFICES ASSUME IInv, EndCallback PROVE IInv'
  OBVIOUS
<1>1. /\ rx \in Rx /\ rx_job \in Job(RxBuffers) /\ rx_job.state = "none"
      /\ rx.ongoing /\ pc = "getc" /\ ~IsRxReady(rx) /\ reply = <<>>
  BY DEF IInv, TypeOK, RxOk, ReplyOk, EndCallback
<1>2. /\ rx_job' = UddEpRun(rx_job, "out", Other(rx.sel), 0)
      /\ rx' = rx /\ pc' = "idle" /\ halt' = halt
  BY DEF EndCallback
<1>3. /\ rx_job' \in Job(RxBuffers)
      /\ rx_job'.state # "none" => rx_job'.state = "started" /\ rx_job'.buf = Other(rx.sel)
      /\ halt["out"] # "halted" => rx_job'.state = "started"
  BY <1>1, <1>2, RxFields, BufferFacts, UddEpRunType DEF Endpoint
<1>4. TypeOK'
  BY <1>2, <1>3 DEF IInv, TypeOK, EndCallback, transmit, time
<1>5. RxOk'
  BY <1>1, <1>2, <1>3 DEF IInv, RxOk, IsRxReady
<1>6. OngoingOk' /\ RunningOk'
  BY <1>1, <1>2, <1>3 DEF IInv, OngoingOk, RunningOk, EndCallback, transmit
<1> QED
  BY <1>1, <1>2, <1>4, <1>5, <1>6 DEF IInv, EndCallback, transmit, TxOk, ReplyOk

LEMMA SofNotifyInv == IInv /\ SofNotify => IInv'
<1> SUFFICES ASSUME IInv, SofNotify PROVE IInv'
  OBVIOUS
<1>1. /\ TxOk(tx', tx_job')
      /\ running /\ halt["in"] # "halted" /\ (tx.ongoing <=> tx_job.state # "none") =>
           (tx'.ongoing <=> tx_job'.state # "none")
      /\ ~running => tx' = tx /\ tx_job' = tx_job
  <2>1. CASE running
    <3>1. TxOk(tx, tx_job) /\ frame \in Frame /\ TxSend(tx, tx_job)
      BY <2>1 DEF IInv, TypeOK, SofNotify
    <3> QED
      BY <2>1, <3>1, TxSendOk
  <2>2. CASE ~running
    BY <2>2 DEF SofNotify, IInv
  <2> QED
    BY <2>1, <2>2
<1>2. TypeOK'
  BY <1>1 DEF IInv, TypeOK, SofNotify, receive, callback, TxOk
<1> QED
  BY <1>1, <1>2 DEF IInv, RxOk, ReplyOk, OngoingOk, RunningOk, SofNotify,
                    receive, callback, TxOk, IsRxReady

(* Enable gives the controller an empty buffer to receive in.              *)
LEMMA EnableRxOk ==
  ASSUME Enable, halt["out"] # "halted"
  PROVE  /\ rx' \in Rx /\ rx'.ongoing /\ rx_job' \in Job(RxBuffers) /\ RxOk' /\ pc' = "idle"
         /\ rx_job'.state = "started"
<1>1. /\ 0 \in Buffer /\ 0 \in 0 .. RxBuffers
      /\ [b \in Buffer |-> <<>>] \in [Buffer -> BoundedSeq(Byte, RxBuffers)]
  BY EmptyBounded DEF Buffer
<1>2. /\ ResetRx \in Rx /\ ~ResetRx.ongoing /\ ResetRx.sel = 0 /\ ResetRx.pos = 0
      /\ \A b \in Buffer : ResetRx.nb[b] = 0 /\ ResetRx.buf[b] = <<>>
  BY <1>1 DEF ResetRx, Rx
<1>3. Other(ResetRx.sel) \in Buffer /\ Len(<<>>) = 0
  BY <1>1, <1>2, BufferFacts, EmptySeq
<1>4. ~IsRxReady(ResetRx)
  BY <1>1, <1>2 DEF IsRxReady
<1>5. /\ ResetRx.nb[Other(ResetRx.sel)] = 0
      /\ ResetRx.nb[Other(ResetRx.sel)] <= Len(ResetRx.buf[Other(ResetRx.sel)])
  BY <1>2, <1>3
<1>6. RxStart(ResetRx)
  BY DEF Enable
<1> QED
  BY <1>2, <1>4, <1>5, <1>6, RxStartOk

(* Enable: the host's configuration resets flags, jobs and halts.          *)
LEMMA EnableInv == IInv /\ Enable => IInv'
<1> SUFFICES ASSUME IInv, Enable PROVE IInv'
  OBVIOUS
<1>1. /\ tx \in Tx /\ frame \in Frame /\ pc = "idle" /\ reply = <<>>
      /\ halt["in"] # "halted" /\ halt["out"] # "halted"
  BY DEF IInv, TypeOK, ReplyOk, Enable, Endpoint
<1>2. TxOk(tx', tx_job') /\ (tx'.ongoing <=> tx_job'.state # "none")
  <2>1. TxOk(ResetTx(tx.zlp), NoJob) /\ ~ResetTx(tx.zlp).ongoing /\ NoJob.state = "none"
    BY <1>1, ResetTxOk, NoJobType
  <2>2. TxSend(ResetTx(tx.zlp), NoJob)
    BY DEF Enable
  <2> QED
    BY <1>1, <2>1, <2>2, TxSendOk
<1>3. /\ rx' \in Rx /\ rx'.ongoing /\ rx_job' \in Job(RxBuffers) /\ RxOk' /\ pc' = "idle"
      /\ rx_job'.state = "started"
  BY <1>1, EnableRxOk
<1>4. running' = TRUE /\ halt' = [e \in Endpoint |-> "never"] /\ got' = <<>>
  BY DEF Enable
<1>5. TypeOK'
  BY <1>2, <1>3, <1>4, EmptyBounded DEF IInv, TypeOK, Enable, time, TxOk
<1>6. OngoingOk'
  BY <1>2, <1>3 DEF OngoingOk
<1> QED
  BY <1>1, <1>2, <1>3, <1>4, <1>5, <1>6 DEF IInv, Enable, ReplyOk, RunningOk, TxOk

LEMMA DisableInv == IInv /\ Disable => IInv'
<1> SUFFICES ASSUME IInv, Disable PROVE IInv'
  OBVIOUS
<1>1. /\ NoJob \in Job(TxBuffers) /\ NoJob \in Job(RxBuffers) /\ NoJob.state = "none"
  BY NoJobType
<1>2. TypeOK'
  BY <1>1 DEF IInv, TypeOK, Disable, time, callback
<1> QED
  BY <1>1, <1>2 DEF IInv, TxOk, RxOk, ReplyOk, OngoingOk, RunningOk, Disable, callback, IsRxReady

(* Halting an endpoint, or not halting it any more.                        *)
LEMMA HaltInv == ASSUME NEW e \in Endpoint PROVE IInv /\ (SetHalt(e) \/ ClearHalt(e)) => IInv'
<1> SUFFICES ASSUME IInv, SetHalt(e) \/ ClearHalt(e) PROVE IInv'
  OBVIOUS
<1>1. /\ NoJob \in Job(TxBuffers) /\ NoJob \in Job(RxBuffers) /\ NoJob.state = "none"
  BY NoJobType
<1>2. CASE SetHalt(e)
  <2>1. TypeOK'
    BY <1>1, <1>2 DEF IInv, TypeOK, SetHalt, time, callback
  <2>2. OngoingOk'
    BY <1>2 DEF IInv, TypeOK, OngoingOk, SetHalt, Endpoint, callback
  <2> QED
    BY <1>1, <1>2, <2>1, <2>2 DEF IInv, TxOk, RxOk, ReplyOk, RunningOk, SetHalt, callback, IsRxReady
<1>3. CASE ClearHalt(e)
  <2>1. TypeOK'
    BY <1>3 DEF IInv, TypeOK, ClearHalt, time, callback, transmit, receive
  <2>2. OngoingOk'
    BY <1>3 DEF IInv, TypeOK, OngoingOk, ClearHalt, Endpoint, callback, transmit, receive
  <2> QED
    BY <1>3, <2>1, <2>2 DEF IInv, TxOk, RxOk, ReplyOk, RunningOk, ClearHalt,
       callback, transmit, receive, IsRxReady
<1> QED
  BY <1>2, <1>3

(* The controller fills the buffer that the program does not read.         *)
LEMMA HostSendsInv == IInv /\ HostSends => IInv'
<1> SUFFICES ASSUME IInv, HostSends PROVE IInv'
  OBVIOUS
<1>1. /\ rx \in Rx /\ rx_job \in Job(RxBuffers) /\ rx_job.state = "started"
      /\ pc = "idle" /\ rx.ongoing /\ rx_job.buf = Other(rx.sel) /\ ~IsRxReady(rx) /\ running
  BY DEF IInv, TypeOK, RxOk, RunningOk, HostSends
<1>2. PICK n \in 0 .. RxBuffers : \E p \in [1 .. n -> Byte] :
        /\ rx' = [rx EXCEPT !.buf[rx_job.buf] = p]
        /\ rx_job' = [rx_job EXCEPT !.state = "done", !.size = n]
  BY DEF HostSends
<1>3. PICK p \in [1 .. n -> Byte] :
        /\ rx' = [rx EXCEPT !.buf[rx_job.buf] = p]
        /\ rx_job' = [rx_job EXCEPT !.state = "done", !.size = n]
  BY <1>2
<1>4. p \in Seq(Byte) /\ Len(p) = n
  <2>1. n \in Nat
    OBVIOUS
  <2>2. p \in Seq(Byte)
    BY <2>1, SeqDef
  <2>3. DOMAIN p = 1 .. n /\ DOMAIN p = 1 .. Len(p) /\ Len(p) \in Nat
    BY <2>2, LenProperties
  <2> QED
    BY <2>1, <2>2, <2>3
<1>5. p \in BoundedSeq(Byte, RxBuffers) /\ rx_job.buf \in Buffer /\ rx_job.buf # rx.sel
  BY <1>1, <1>4, RxFields, BufferFacts DEF BoundedSeq
<1>6. /\ rx' \in Rx /\ rx'.sel = rx.sel /\ rx'.pos = rx.pos /\ rx'.nb = rx.nb
      /\ rx'.ongoing = rx.ongoing /\ rx'.buf = [rx.buf EXCEPT ![rx_job.buf] = p]
  <2>1. [rx.buf EXCEPT ![rx_job.buf] = p] \in [Buffer -> BoundedSeq(Byte, RxBuffers)]
    BY <1>1, <1>5, RxFields
  <2> QED
    BY <1>1, <1>3, <2>1 DEF Rx
<1>7. rx'.buf[rx_job.buf] = p /\ rx'.buf[rx.sel] = rx.buf[rx.sel]
  BY <1>1, <1>5, <1>6, RxFields
<1>8. /\ rx_job' \in Job(RxBuffers) /\ rx_job'.state = "done"
      /\ rx_job'.buf = rx_job.buf /\ rx_job'.size = n
  BY <1>1, <1>3 DEF Job, JobState
<1>9. /\ running' = running /\ tx' = tx /\ tx_job' = tx_job /\ got' = got /\ halt' = halt
      /\ frame' = frame /\ sof' = sof /\ pc' = pc /\ rx_pos' = rx_pos /\ reply' = reply
      /\ byte' = byte
  BY DEF HostSends, transmit, time, callback
<1>10. TypeOK'
  BY <1>6, <1>8, <1>9 DEF IInv, TypeOK
<1>11. RxOk'
  BY <1>1, <1>4, <1>6, <1>7, <1>8, <1>9 DEF IInv, RxOk, IsRxReady
<1> QED
  BY <1>1, <1>6, <1>8, <1>9, <1>10, <1>11 DEF IInv, TxOk, ReplyOk, OngoingOk, RunningOk

(* The host takes all of the buffer that the controller has.               *)
LEMMA HostTakesOk ==
  ASSUME IInv, HostTakes
  PROVE  /\ got' = tx.buf[Other(tx.sel)] /\ got' \in BoundedSeq(Byte, TxBuffers)
         /\ tx' = tx /\ tx_job' \in Job(TxBuffers) /\ tx_job'.state = "done"
         /\ tx_job'.buf = tx_job.buf /\ tx_job'.size = tx_job.size
         /\ tx_job.state = "started" /\ running
<1>1. /\ tx \in Tx /\ tx_job \in Job(TxBuffers) /\ tx_job.state = "started" /\ running
      /\ tx_job.buf = Other(tx.sel) /\ tx_job.size = Len(tx.buf[Other(tx.sel)])
  BY DEF IInv, TypeOK, TxOk, RunningOk, HostTakes
<1>2. tx.buf[Other(tx.sel)] \in BoundedSeq(Byte, TxBuffers) /\ tx.buf[Other(tx.sel)] \in Seq(Byte)
  BY <1>1, TxFields, BufferFacts
<1>3. got' = tx.buf[Other(tx.sel)]
  <2>1. SubSeq(tx.buf[Other(tx.sel)], 1, Len(tx.buf[Other(tx.sel)])) = tx.buf[Other(tx.sel)]
    BY <1>2, SubSeqFull
  <2> QED
    BY <1>1, <2>1 DEF HostTakes
<1>4. /\ tx' = tx /\ tx_job' \in Job(TxBuffers) /\ tx_job'.state = "done"
      /\ tx_job'.buf = tx_job.buf /\ tx_job'.size = tx_job.size
  BY <1>1 DEF HostTakes, Job, JobState
<1> QED
  BY <1>1, <1>2, <1>3, <1>4

LEMMA HostTakesInv == IInv /\ HostTakes => IInv'
<1> SUFFICES ASSUME IInv, HostTakes PROVE IInv'
  OBVIOUS
<1>1. /\ got' \in BoundedSeq(Byte, TxBuffers) /\ tx' = tx /\ tx_job' \in Job(TxBuffers)
      /\ tx_job'.state = "done" /\ tx_job.state = "started" /\ running
      /\ tx_job'.buf = tx_job.buf /\ tx_job'.size = tx_job.size
  BY HostTakesOk
<1>2. TypeOK'
  BY <1>1 DEF IInv, TypeOK, HostTakes, receive, time, callback
<1> QED
  BY <1>1, <1>2 DEF IInv, TxOk, RxOk, ReplyOk, OngoingOk, RunningOk, HostTakes,
                    receive, time, callback, IsRxReady

LEMMA FrameTickInv == IInv /\ FrameTick => IInv'
<1> SUFFICES ASSUME IInv, FrameTick PROVE IInv'
  OBVIOUS
<1>1. frame' \in Frame
  BY DEF FrameTick, IInv, TypeOK, Frame
<1>2. TypeOK'
  BY <1>1 DEF IInv, TypeOK, FrameTick, transmit, receive, callback
<1> QED
  BY <1>2 DEF IInv, TxOk, RxOk, ReplyOk, OngoingOk, RunningOk, FrameTick,
              transmit, receive, callback, IsRxReady

LEMMA NextInv == IInv /\ [Next]_vars => IInv'
<1>1. IInv /\ UNCHANGED vars => IInv'
  BY DEF vars, IInv, TypeOK, TxOk, RxOk, ReplyOk, OngoingOk, RunningOk, IsRxReady
<1> QED
  BY <1>1, DataSentInv, PutcInv, DataReceivedInv, ReadInv, EndCallbackInv, SofNotifyInv,
     EnableInv, DisableInv, HaltInv, HostSendsInv, HostTakesInv, FrameTickInv DEF Next

(* The strengthening of the type invariant on which the others rest: the   *)
(* flags of udi_cdc.c agree with the jobs of the device driver.            *)
THEOREM Invariance == Spec => []IInv
BY InitInv, NextInv, PTL DEF Spec

(* Every state has the right type: for buffers of any length no index of   *)
(* udi_cdc.c leaves its buffer and no buffer holds more than fits          *)
(* (udi_cdc.c:574-770, 1003-1081).                                         *)
THEOREM TypeCorrect == Spec => []TypeOK
<1>1. IInv => TypeOK
  BY DEF IInv
<1> QED
  BY <1>1, Invariance, PTL

(* A direction waits for a transfer that is not under way only after the   *)
(* host has halted its endpoint (udi_cdc.c:635, 678).                      *)
THEOREM Stopped == Spec => []StoppedOnlyByHalt
<1>1. IInv => StoppedOnlyByHalt
  BY DEF IInv, OngoingOk, StoppedOnlyByHalt
<1> QED
  BY <1>1, Invariance, PTL

-----------------------------------------------------------------------------
(* Either direction implements the queue of ByteQueue.                     *)

(* What a step does to the transmit queue: only Putc puts, and only where  *)
(* TxLost allows it is anything lost.                                      *)
LEMMA TransmitMoves ==
  ASSUME IInv, [Next]_vars
  PROVE  \/ TxQueue' = TxQueue /\ got' = got
         \/ ToHost!Take
         \/ TxLost /\ ToHost!Clear
         \/ Putc /\ ToHost!Put
<1> DEFINE q == TxQueue
           Stutter == q' = q /\ got' = got
<1>1. q = IF running THEN Waiting(tx, tx_job) ELSE <<>>
  BY TxQueueWaiting
<1>2. q' = IF running' THEN Waiting(tx', tx_job') ELSE <<>>
  BY DEF TxQueue, TxStopped, Waiting
<1> HIDE DEF q
<1>3. SUFFICES Stutter \/ ToHost!Take \/ (TxLost /\ ToHost!Clear) \/ (Putc /\ ToHost!Put)
  BY DEF q
<1>4. TxOk(tx, tx_job) /\ tx \in Tx /\ IInv'
  BY NextInv DEF IInv, TypeOK
<1>5. ASSUME running' = running, tx' = tx, tx_job' = tx_job, got' = got
      PROVE  Stutter
  BY <1>1, <1>2, <1>5
<1>6. ASSUME running' = running, got' = got,
             \/ Waiting(tx', tx_job') = Waiting(tx, tx_job)
             \/ tx'.ongoing /\ tx_job'.state = "none"
      PROVE  Stutter \/ (TxLost /\ ToHost!Clear)
  <2>1. CASE ~running \/ Waiting(tx', tx_job') = Waiting(tx, tx_job)
    BY <1>1, <1>2, <1>6, <2>1
  <2>2. CASE running /\ tx'.ongoing /\ tx_job'.state = "none"
    <3>1. q' = <<>>
      BY <1>2, <2>2 DEF Waiting
    <3>2. TxStopped' /\ halt'["in"] # "never"
      BY <1>4, <1>6, <2>2 DEF TxStopped, IInv, OngoingOk
    <3> QED
      BY <1>6, <3>1, <3>2 DEF TxLost, ToHost!Clear, q
  <2> QED
    BY <1>6, <2>1, <2>2
<1>7. CASE DataSent
  <2>1. /\ TxOk(Sent(tx), NoJob) /\ Waiting(Sent(tx), NoJob) = Waiting(tx, tx_job)
        /\ TxSend(Sent(tx), NoJob) /\ frame \in Frame
        /\ running' = running /\ got' = got
    BY <1>4, <1>7, SentOk DEF DataSent, IInv, TypeOK
  <2>2. \/ Waiting(tx', tx_job') = Waiting(tx, tx_job)
        \/ tx'.ongoing /\ tx_job'.state = "none"
    BY <2>1, TxSendOk
  <2> QED
    BY <1>6, <2>1, <2>2
<1>8. CASE SofNotify
  <2>1. running' = running /\ got' = got
    BY <1>8 DEF SofNotify, callback
  <2>2. CASE running
    <3>1. TxSend(tx, tx_job) /\ frame \in Frame
      BY <1>8, <2>2 DEF SofNotify, IInv, TypeOK
    <3>2. \/ Waiting(tx', tx_job') = Waiting(tx, tx_job)
          \/ tx'.ongoing /\ tx_job'.state = "none"
      BY <1>4, <3>1, TxSendOk
    <3> QED
      BY <1>6, <2>1, <3>2
  <2>3. CASE ~running
    BY <1>1, <1>2, <2>1, <2>3
  <2> QED
    BY <2>2, <2>3
<1>9. CASE Enable
  <2>1. /\ TxOk(ResetTx(tx.zlp), NoJob) /\ Waiting(ResetTx(tx.zlp), NoJob) = <<>>
        /\ TxSend(ResetTx(tx.zlp), NoJob) /\ frame \in Frame /\ got' = <<>>
    BY <1>4, <1>9, ResetTxOk DEF Enable, IInv, TypeOK
  <2>2. Waiting(tx', tx_job') = <<>>
    BY <2>1, TxSendOk DEF Waiting
  <2>3. q' = <<>>
    BY <1>2, <2>2
  <2> QED
    BY <1>9, <2>1, <2>3 DEF TxLost, ToHost!Clear, q
<1>10. CASE Disable
  <2>1. q' = <<>> /\ got' = got
    BY <1>2, <1>10 DEF Disable
  <2> QED
    BY <1>10, <2>1 DEF TxLost, ToHost!Clear, q
<1>11. ASSUME NEW e \in Endpoint, SetHalt(e)
       PROVE  Stutter \/ (TxLost /\ ToHost!Clear)
  <2>1. /\ running' = running /\ got' = got /\ tx' = tx
        /\ tx_job' \in {tx_job, NoJob} /\ NoJob.state = "none"
    BY <1>11 DEF SetHalt, NoJob
  <2>2. \/ Waiting(tx', tx_job') = Waiting(tx, tx_job)
        \/ tx'.ongoing /\ tx_job'.state = "none"
    BY <1>4, <2>1 DEF Waiting, TxOk
  <2> QED
    BY <1>6, <2>1, <2>2
<1>12. ASSUME NEW e \in Endpoint, ClearHalt(e)
       PROVE  Stutter
  BY <1>5, <1>12 DEF ClearHalt, transmit
<1>13. CASE HostTakes
  <2>1. /\ got' = tx.buf[Other(tx.sel)] /\ tx' = tx
        /\ tx_job.state = "started" /\ tx_job'.state = "done" /\ running /\ running' = running
    BY <1>13, HostTakesOk DEF HostTakes
  <2> DEFINE a == tx.buf[Other(tx.sel)]
             b == tx.buf[tx.sel]
  <2>2. a \in Seq(Byte) /\ b \in Seq(Byte) /\ got' = a
    BY <1>4, <2>1, TxFields, BufferFacts
  <2>3. q = a \o b
    BY <1>1, <2>1 DEF Waiting
  <2>4. q' = <<>> \o b
    BY <1>2, <1>4, <2>1 DEF Waiting, TxOk
  <2> HIDE DEF a, b
  <2>5. q' = b
    BY <2>2, <2>4, ConcatEmptySeq
  <2>6. /\ SubSeq(q, 1, Len(a)) = a /\ SubSeq(q, Len(a) + 1, Len(q)) = b
        /\ Len(a) \in 0 .. Len(q)
    BY <2>2, <2>3, SplitConcat, ConcatProperties, LenProperties
  <2> QED
    BY <2>2, <2>5, <2>6 DEF ToHost!Take, q
<1>14. CASE Putc
  <2>1. reply \in Seq(Byte) /\ reply # <<>>
    BY <1>14 DEF IInv, TypeOK, ReplyOk, Putc
  <2>2. /\ running' = running /\ got' = got
        /\ \/ Waiting(tx', tx_job') = Append(Waiting(tx, tx_job), Head(reply))
           \/ Waiting(tx', tx_job') = <<>> /\ Waiting(tx, tx_job) = <<>>
        /\ Len(Waiting(tx', tx_job')) <= 2 * TxBuffers
        /\ running
    BY <1>4, <1>14, <2>1, PutcOk DEF Putc, IInv, RunningOk
  <2>3. CASE q' = q
    BY <2>2, <2>3
  <2>4. CASE q' = Append(q, Head(reply))
    <3>1. q \in Seq(Byte) /\ Head(reply) \in Byte
      BY <1>1, <1>4, <2>1, <2>2, WaitingBounded, HeadTailProperties
    <3>2. Len(q') = Len(q) + 1 /\ Len(q') <= 2 * TxBuffers /\ Len(q) \in Nat
      BY <1>2, <2>2, <2>4, <3>1, AppendProperties, LenProperties
    <3>3. SubSeq(q', 1, Len(q)) = q
      <4>1. q' = q \o <<Head(reply)>> /\ <<Head(reply)>> \in Seq(Byte)
        BY <2>4, <3>1, AppendIsConcat
      <4> QED
        BY <3>1, <4>1, SplitConcat
    <3> QED
      BY <1>14, <2>2, <3>2, <3>3 DEF ToHost!Put, q
  <2> QED
    BY <1>1, <1>2, <2>2, <2>3, <2>4
<1>15. CASE DataReceived \/ ReadByte \/ ReadCommand \/ EndCallback
  BY <1>5, <1>15 DEF DataReceived, ReadByte, ReadCommand, EndCallback, transmit
<1>16. CASE HostSends \/ FrameTick
  BY <1>5, <1>16 DEF HostSends, FrameTick, transmit
<1>17. CASE UNCHANGED vars
  BY <1>5, <1>17 DEF vars
<1> QED
  BY <1>7, <1>8, <1>9, <1>10, <1>11, <1>12, <1>13, <1>14, <1>15, <1>16, <1>17 DEF Next

(* The transmit direction is a queue of bytes (udi_cdc.c:660-770,          *)
(* 1003-1081): nothing is doubled, overwritten while the controller reads  *)
(* it, or overtaken, and nothing is lost but when the interface is enabled *)
(* or disabled, or after the host has halted the endpoint.                 *)
THEOREM TransmitQueue == Spec => TransmitIsQueue
<1>1. Init => ToHost!Init
  BY DEF Init, ToHost!Init, TxQueue
<1>2. IInv /\ [Next]_vars => [ToHost!Next(TxLost)]_<<TxQueue, got>>
  BY TransmitMoves DEF ToHost!Next
<1> QED
  BY <1>1, <1>2, Invariance, PTL DEF Spec, TransmitIsQueue

(* What the receive queue holds: nothing when the callback is not running, *)
(* but for a packet whose interrupt is pending.                            *)
RxQueueOk ==
  /\ RxQueue \in Seq(Byte)
  /\ pc # "idle" => RxQueue = Unread
  /\ pc = "idle" /\ rx_job.state # "done" => RxQueue = <<>>
  /\ rx_job.state = "done" => RxQueue = rx.buf[Other(rx.sel)]

LEMMA RxQueueIs == IInv => RxQueueOk
<1> SUFFICES ASSUME IInv PROVE RxQueueOk
  OBVIOUS
<1>1. rx \in Rx /\ rx_job \in Job(RxBuffers)
  BY DEF IInv, TypeOK
<1>2. Unread \in Seq(Byte)
  <2>1. /\ rx.buf[rx.sel] \in Seq(Byte) /\ rx.pos + 1 \in 1 .. RxBuffers + 1
        /\ rx.nb[rx.sel] \in 0 .. Len(rx.buf[rx.sel]) /\ Len(rx.buf[rx.sel]) \in Nat
    BY <1>1, RxFields DEF IInv, RxOk
  <2>2. \A i \in rx.pos + 1 .. rx.nb[rx.sel] : rx.buf[rx.sel][i] \in Byte
    BY <2>1, ElementOfSeq
  <2>3. rx.pos + 1 \in Int /\ rx.nb[rx.sel] \in Int
    BY <2>1
  <2> QED
    BY <2>2, <2>3, SubSeqProperties DEF Unread
<1>3. CASE pc # "idle"
  <2>1. running /\ rx_job.state = "none"
    BY <1>3 DEF IInv, RunningOk, RxOk
  <2>2. RxQueue = Unread \o <<>>
    BY <2>1 DEF RxQueue
  <2> QED
    BY <1>2, <1>3, <2>1, <2>2, ConcatEmptySeq DEF RxQueueOk
<1>4. CASE pc = "idle"
  <2>1. Unread = <<>>
    <3>1. rx.pos + 1 \in Int /\ rx.nb[rx.sel] \in Int /\ rx.nb[rx.sel] < rx.pos + 1
      BY <1>1, <1>4, RxFields DEF IInv, RxOk, IsRxReady
    <3> QED
      BY <3>1, SubSeqEmpty DEF Unread
  <2>2. <<>> \in Seq(Byte) /\ <<>> \o <<>> = <<>>
    <3>1. <<>> \in Seq(Byte)
      BY EmptySeq
    <3> QED
      BY <3>1, ConcatEmptySeq
  <2>3. rx_job.state # "done" => RxQueue = <<>>
    BY <2>1, <2>2 DEF RxQueue
  <2>4. ASSUME rx_job.state = "done"
        PROVE  RxQueue = rx.buf[Other(rx.sel)]
    <3>1. /\ running /\ rx_job.buf = Other(rx.sel)
          /\ rx_job.size = Len(rx.buf[Other(rx.sel)])
      BY <2>4 DEF IInv, RunningOk, RxOk
    <3>2. rx.buf[Other(rx.sel)] \in Seq(Byte)
      BY <1>1, RxFields, BufferFacts
    <3>3. Arrived = rx.buf[Other(rx.sel)]
      BY <3>1, <3>2, SubSeqFull DEF Arrived
    <3>4. RxQueue = <<>> \o Arrived
      BY <2>1, <2>4, <3>1 DEF RxQueue
    <3> QED
      BY <3>2, <3>3, <3>4, ConcatEmptySeq
  <2>5. RxQueue \in Seq(Byte)
    <3>1. rx.buf[Other(rx.sel)] \in Seq(Byte)
      BY <1>1, RxFields, BufferFacts
    <3> QED
      BY <2>2, <2>3, <2>4, <3>1
  <2> QED
    BY <1>4, <2>3, <2>4, <2>5 DEF RxQueueOk
<1> QED
  BY <1>3, <1>4 DEF IInv, RxOk

LEMMA RxQueueAlways == [](IInv => RxQueueOk)
BY RxQueueIs, PTL

(* A byte read is the first one of the queue.                              *)
LEMMA ReadTakes ==
  ASSUME IInv, RxQueueOk, RxQueueOk', Getc, pc' # "idle"
  PROVE  FromHost!Take
<1>1. /\ rx'.sel = rx.sel /\ rx'.buf = rx.buf /\ rx'.nb = rx.nb /\ rx'.pos = rx.pos + 1
      /\ rx.pos + 1 \in 1 .. rx.nb[rx.sel]
      /\ byte' = <<rx.buf[rx.sel][rx.pos + 1]>> /\ rx.buf[rx.sel][rx.pos + 1] \in Byte
  BY GetcOk
<1>2. RxQueue = Unread /\ RxQueue' = Unread'
  BY DEF RxQueueOk, Getc
<1> DEFINE s == rx.buf[rx.sel]
           m == rx.pos + 1
           n == rx.nb[rx.sel]
           q == SubSeq(s, m, n)
<1>3. RxQueue = q /\ RxQueue' = SubSeq(s, m + 1, n) /\ byte' = <<s[m]>>
  BY <1>1, <1>2 DEF Unread
<1>4. s \in Seq(Byte) /\ m \in 1 .. Len(s) /\ n \in m .. Len(s) /\ Len(s) \in Nat /\ s[m] \in Byte
  BY <1>1, RxFields DEF IInv, TypeOK, RxOk
<1> HIDE DEF s, m, n
<1>5. \A i \in m .. n : s[i] \in Byte
  BY <1>4, ElementOfSeq
<1>6. /\ q \in Seq(Byte) /\ Len(q) = n - m + 1
      /\ \A i \in 1 .. n - m + 1 : q[i] = s[m + i - 1]
  BY <1>4, <1>5, SubSeqProperties
<1>7. Tail(q) = SubSeq(s, m + 1, n)
  BY <1>4, HeadTailOfSubSeq
<1>8. Len(q) \in Nat /\ Len(q) >= 1 /\ q[1] = s[m]
  BY <1>4, <1>6
<1> HIDE DEF q
<1>9. q # <<>>
  BY <1>8, EmptySeq
<1>10. RxQueue' = SubSeq(q, 2, Len(q))
  <2>1. Tail(q) = SubSeq(q, 2, Len(q))
    BY <1>6, <1>9, TailIsSubSeq
  <2> QED
    BY <1>3, <1>7, <2>1
<1>11. byte' = SubSeq(q, 1, 1)
  <2>1. \A i \in 1 .. 1 : q[i] \in Byte
    BY <1>4, <1>8
  <2>2. /\ SubSeq(q, 1, 1) \in Seq(Byte) /\ Len(SubSeq(q, 1, 1)) = 1
        /\ SubSeq(q, 1, 1)[1] = q[1]
    BY <2>1, SubSeqProperties
  <2>3. byte' \in Seq(Byte) /\ Len(byte') = 1 /\ byte'[1] = s[m]
    BY <1>3, <1>4
  <2> QED
    BY <1>8, <2>2, <2>3, SeqEqual
<1> QED
  <2>1. 1 \in 0 .. Len(q) /\ 1 + 1 = 2
    BY <1>8
  <2>2. RxQueue = q
    BY <1>3
  <2> HIDE DEF RxQueue
  <2>3. /\ 1 \in 0 .. Len(RxQueue) /\ byte' = SubSeq(RxQueue, 1, 1)
        /\ RxQueue' = SubSeq(RxQueue, 1 + 1, Len(RxQueue))
    BY <1>10, <1>11, <2>1, <2>2
  <2> QED
    BY <2>3 DEF FromHost!Take

(* What a step does to the receive queue: only the host puts, and only     *)
(* where RxLost allows it is anything lost.                                *)
LEMMA ReceiveMoves ==
  ASSUME IInv, IInv', RxQueueOk, RxQueueOk', [Next]_vars
  PROVE  \/ RxQueue' = RxQueue /\ byte' = byte
         \/ FromHost!Take
         \/ RxLost /\ FromHost!Clear
         \/ HostSends /\ FromHost!Put
<1> DEFINE Stutter == RxQueue' = RxQueue /\ byte' = byte
<1>1. SUFFICES \/ Stutter \/ FromHost!Take
               \/ (RxLost /\ FromHost!Clear) \/ (HostSends /\ FromHost!Put)
  OBVIOUS
<1>2. rx \in Rx /\ rx_job \in Job(RxBuffers)
  BY DEF IInv, TypeOK
<1>3. ASSUME running' = running, rx' = rx, rx_job' = rx_job, byte' = byte
      PROVE  Stutter
  BY <1>3 DEF RxQueue, Unread, Arrived
<1>4. ASSUME RxLost, RxQueue' = <<>>, byte' = byte
      PROVE  RxLost /\ FromHost!Clear
  BY <1>4 DEF FromHost!Clear
<1>5. CASE ReadByte \/ ReadCommand
  <2>1. Getc /\ pc' # "idle"
    BY <1>5 DEF ReadByte, ReadCommand, Getc
  <2> QED
    BY <2>1, ReadTakes
<1>6. CASE EndCallback
  <2>1. /\ pc' = "idle" /\ byte' = byte /\ rx_job.state = "none"
        /\ rx_job' = UddEpRun(rx_job, "out", Other(rx.sel), 0)
    BY <1>6 DEF EndCallback, IInv, RxOk
  <2>2. rx_job'.state # "done"
    BY <2>1 DEF UddEpRun
  <2>3. RxQueue = <<>>
    <3>1. RxQueue = Unread /\ ~IsRxReady(rx)
      BY <1>6 DEF EndCallback, RxQueueOk
    <3>2. rx.pos + 1 \in Int /\ rx.nb[rx.sel] \in Int /\ rx.nb[rx.sel] < rx.pos + 1
      BY <1>2, <3>1, RxFields DEF IsRxReady
    <3> QED
      BY <3>1, <3>2, SubSeqEmpty DEF Unread
  <2> QED
    BY <2>1, <2>2, <2>3 DEF RxQueueOk
<1>7. CASE DataReceived
  <2>1. /\ rx_job.state = "done" /\ pc = "idle" /\ byte' = byte
        /\ RxQueue = rx.buf[Other(rx.sel)] /\ rx_job.size = Len(rx.buf[Other(rx.sel)])
        /\ rx.buf[Other(rx.sel)] \in Seq(Byte) /\ ~IsRxReady(rx)
    BY <1>2, <1>7, RxFields, BufferFacts DEF DataReceived, IInv, RxOk, RxQueueOk
  <2>2. CASE rx_job.size = 0
    <3>1. /\ pc' = "idle" /\ rx_job' = UddEpRun(NoJob, "out", Other(rx.sel), 0)
      BY <1>7, <2>1, <2>2 DEF DataReceived
    <3>2. rx_job'.state # "done"
      BY <3>1 DEF UddEpRun, NoJob
    <3>3. RxQueue = <<>>
      BY <2>1, <2>2, EmptySeq
    <3> QED
      BY <2>1, <3>1, <3>2, <3>3 DEF RxQueueOk
  <2>3. CASE rx_job.size > 0
    <3>1. /\ pc' = "getc" /\ rx'.sel = Other(rx.sel) /\ rx'.pos = 0
          /\ rx'.buf = rx.buf /\ rx'.nb[Other(rx.sel)] = rx_job.size
      BY <1>7, <2>3, ReceivedOk
    <3>2. RxQueue' = SubSeq(rx.buf[Other(rx.sel)], 0 + 1, Len(rx.buf[Other(rx.sel)]))
      BY <2>1, <3>1 DEF RxQueueOk, Unread
    <3>3. 0 + 1 = 1
      OBVIOUS
    <3>4. SubSeq(rx.buf[Other(rx.sel)], 1, Len(rx.buf[Other(rx.sel)])) = rx.buf[Other(rx.sel)]
      BY <2>1, SubSeqFull
    <3> QED
      BY <2>1, <3>2, <3>3, <3>4
  <2> QED
    BY <1>7, <2>2, <2>3 DEF DataReceived
<1>8. CASE HostSends
  <2>1. /\ RxQueue = <<>> /\ rx_job'.state = "done" /\ byte' = byte
        /\ rx' \in Rx
    BY <1>8 DEF HostSends, callback, IInv, TypeOK, RxOk, RxQueueOk
  <2> DEFINE q == RxQueue'
  <2>2. q \in Seq(Byte) /\ Len(q) \in 0 .. RxBuffers
    BY <2>1, RxFields, BufferFacts DEF RxQueueOk
  <2>3. CASE q = <<>>
    BY <2>1, <2>3
  <2>4. CASE q # <<>>
    <3>1. Len(q) \in 1 .. RxBuffers
      <4> HIDE DEF q
      <4> QED
        BY <2>2, <2>4, EmptySeq
    <3>2. SubSeq(q, 1, 0) = <<>>
      BY SubSeqEmpty
    <3>3. Len(RxQueue) = 0
      BY <2>1, EmptySeq
    <3> QED
      BY <1>8, <2>1, <3>1, <3>2, <3>3 DEF FromHost!Put
  <2> QED
    BY <2>3, <2>4
<1>9. CASE Enable
  <2>1. halt["out"] # "halted" /\ byte' = byte
    BY <1>9 DEF Enable, Endpoint
  <2>2. pc' = "idle" /\ rx_job'.state = "started"
    BY <1>9, <2>1, EnableRxOk
  <2>3. RxQueue' = <<>>
    BY <2>2 DEF RxQueueOk
  <2> QED
    BY <1>4, <1>9, <2>1, <2>3 DEF RxLost
<1>10. CASE Disable
  <2>1. RxQueue' = <<>> /\ byte' = byte
    BY <1>10 DEF Disable, callback, RxQueue
  <2> QED
    BY <1>4, <1>10, <2>1 DEF RxLost
<1>11. ASSUME NEW e \in Endpoint, SetHalt(e)
       PROVE  Stutter \/ (RxLost /\ FromHost!Clear)
  <2>1. CASE e = "out"
    <3>1. pc' = "idle" /\ rx_job' = NoJob /\ NoJob.state = "none" /\ byte' = byte
      BY <1>11, <2>1 DEF SetHalt, callback, NoJob
    <3>2. RxQueue' = <<>>
      BY <3>1 DEF RxQueueOk
    <3> QED
      BY <1>4, <1>11, <2>1, <3>1, <3>2 DEF RxLost
  <2>2. CASE e # "out"
    BY <1>3, <1>11, <2>2 DEF SetHalt, callback
  <2> QED
    BY <2>1, <2>2
<1>12. ASSUME NEW e \in Endpoint, ClearHalt(e)
       PROVE  Stutter
  BY <1>3, <1>12 DEF ClearHalt, receive, callback
<1>13. CASE DataSent \/ Putc \/ SofNotify
  BY <1>3, <1>13 DEF DataSent, Putc, SofNotify, receive, callback
<1>14. CASE HostTakes \/ FrameTick
  BY <1>3, <1>14 DEF HostTakes, FrameTick, receive, callback
<1>15. CASE UNCHANGED vars
  BY <1>3, <1>15 DEF vars
<1> QED
  BY <1>5, <1>6, <1>7, <1>8, <1>9, <1>10, <1>11, <1>12, <1>13, <1>14, <1>15 DEF Next

(* The receive direction is a queue of bytes (udi_cdc.c:574-657, 859-901): *)
(* the firmware reads what the host sent, in order, each byte once, and    *)
(* loses of it only what it had not read when the interface was enabled or *)
(* disabled or the endpoint halted.                                        *)
THEOREM ReceiveQueue == Spec => ReceiveIsQueue
<1>1. Init => FromHost!Init
  BY DEF Init, FromHost!Init, RxQueue
<1>2. IInv /\ IInv' /\ RxQueueOk /\ RxQueueOk' /\ [Next]_vars
        => [FromHost!Next(RxLost)]_<<RxQueue, byte>>
  BY ReceiveMoves DEF FromHost!Next
<1> QED
  BY <1>1, <1>2, Invariance, RxQueueAlways, PTL DEF Spec, ReceiveIsQueue

-----------------------------------------------------------------------------
(* How many packets of the SLIP link end in a sequence of bytes.           *)
EndsAt(s) == {i \in DOMAIN s : s[i] = End}

LEMMA EndsType ==
  ASSUME NEW s \in Seq(Byte)
  PROVE  IsFiniteSet(EndsAt(s)) /\ Ends(s) = Cardinality(EndsAt(s)) /\ Ends(s) \in Nat
<1>1. DOMAIN s = 1 .. Len(s) /\ Len(s) \in Nat
  BY LenProperties
<1>2. IsFiniteSet(1 .. Len(s)) /\ EndsAt(s) \in SUBSET (1 .. Len(s))
  BY <1>1, FS_Interval DEF EndsAt
<1>3. IsFiniteSet(EndsAt(s))
  BY <1>2, FS_Subset
<1> QED
  BY <1>3, FS_CardinalityType DEF Ends, EndsAt

LEMMA EndsEmpty == Ends(<<>>) = 0
<1>1. <<>> \in Seq(Byte) /\ Len(<<>>) = 0
  BY EmptySeq
<1>2. EndsAt(<<>>) = {}
  BY <1>1, LenProperties DEF EndsAt
<1> QED
  BY <1>1, <1>2, EndsType, FS_EmptySet

LEMMA EndsOne ==
  ASSUME NEW b \in Byte
  PROVE  Ends(<<b>>) = IF b = End THEN 1 ELSE 0
<1>1. <<b>> \in Seq(Byte) /\ DOMAIN <<b>> = {1}
  OBVIOUS
<1>2. EndsAt(<<b>>) = IF b = End THEN {1} ELSE {}
  BY <1>1 DEF EndsAt
<1> QED
  BY <1>1, <1>2, EndsType, FS_EmptySet, FS_Singleton

LEMMA EndsSome ==
  ASSUME NEW s \in Seq(Byte), NEW i \in 1 .. Len(s), s[i] = End
  PROVE  Ends(s) > 0
<1>1. i \in EndsAt(s)
  BY LenProperties DEF EndsAt
<1>2. Ends(s) # 0
  BY <1>1, EndsType, FS_EmptySet
<1> QED
  BY <1>2, EndsType

(* They add up.                                                            *)
LEMMA EndsConcat ==
  ASSUME NEW s \in Seq(Byte), NEW t \in Seq(Byte)
  PROVE  Ends(s \o t) = Ends(s) + Ends(t)
<1> DEFINE m == Len(s)
           n == Len(t)
           u == s \o t
           A == EndsAt(s)
           B == EndsAt(t)
           C == {m + j : j \in B}
           f == [j \in B |-> m + j]
<1>1. /\ u \in Seq(Byte) /\ Len(u) = m + n /\ m \in Nat /\ n \in Nat
      /\ \A i \in 1 .. m + n : u[i] = IF i <= m THEN s[i] ELSE t[i - m]
      /\ DOMAIN s = 1 .. m /\ DOMAIN t = 1 .. n /\ DOMAIN u = 1 .. m + n
  <2>1. u \in Seq(Byte) /\ Len(u) = m + n
    BY ConcatProperties
  <2>2. DOMAIN u = 1 .. m + n
    BY <2>1, LenProperties
  <2> QED
    BY <2>1, <2>2, ConcatProperties, LenProperties
<1>2. A \subseteq 1 .. m /\ B \subseteq 1 .. n /\ (\A i \in 1 .. m : i \in A <=> s[i] = End)
      /\ (\A j \in 1 .. n : j \in B <=> t[j] = End)
  BY <1>1 DEF EndsAt
<1>3. EndsAt(u) = {i \in 1 .. m + n : u[i] = End}
  BY <1>1 DEF EndsAt
<1> HIDE DEF m, n, u, A, B
<1>4. EndsAt(u) = A \cup C
  <2>1. ASSUME NEW i \in EndsAt(u) PROVE i \in A \cup C
    <3>1. i \in 1 .. m + n /\ u[i] = End
      BY <1>3
    <3>2. CASE i <= m
      BY <1>1, <1>2, <3>1, <3>2
    <3>3. CASE ~(i <= m)
      <4>1. i - m \in 1 .. n /\ t[i - m] = End /\ i = m + (i - m)
        BY <1>1, <3>1, <3>3
      <4> QED
        BY <1>2, <4>1
    <3> QED
      BY <3>2, <3>3
  <2>2. ASSUME NEW i \in A PROVE i \in EndsAt(u)
    BY <1>1, <1>2, <1>3
  <2>3. ASSUME NEW j \in B PROVE m + j \in EndsAt(u)
    <3>1. j \in 1 .. n /\ t[j] = End
      BY <1>2
    <3>2. m + j \in 1 .. m + n /\ ~(m + j <= m) /\ (m + j) - m = j
      BY <1>1, <3>1
    <3> QED
      BY <1>1, <1>3, <3>1, <3>2
  <2> QED
    BY <2>1, <2>2, <2>3
<1>5. A \cap C = {}
  BY <1>1, <1>2
<1>6. IsFiniteSet(A) /\ Ends(s) = Cardinality(A) /\ Ends(s) \in Nat
      /\ IsFiniteSet(B) /\ Ends(t) = Cardinality(B) /\ Ends(t) \in Nat
  BY EndsType DEF A, B
<1>7. f \in Bijection(B, C)
  <2>1. f \in [B -> C]
    OBVIOUS
  <2>2. ASSUME NEW i \in B, NEW j \in B, f[i] = f[j] PROVE i = j
    BY <1>1, <1>2, <2>2
  <2>3. \A c \in C : \E j \in B : f[j] = c
    OBVIOUS
  <2> QED
    BY <2>1, <2>2, <2>3 DEF Bijection, Injection, Surjection, IsInjective
<1>8. IsFiniteSet(C) /\ Cardinality(C) = Cardinality(B)
  BY <1>6, <1>7, FS_Bijection DEF ExistsBijection
<1>9. Cardinality(A \cup C) = Cardinality(A) + Cardinality(C) - 0
  BY <1>5, <1>6, <1>8, FS_Union, FS_EmptySet
<1>10. Ends(u) = Cardinality(A \cup C)
  BY <1>1, <1>4, EndsType
<1> QED
  BY <1>6, <1>8, <1>9, <1>10 DEF u

LastEnds(s) == s # <<>> => s[Len(s)] = End

(* What is taken from a queue is what is missing in it; the rest still     *)
(* ends the way it did.                                                    *)
LEMMA EndsSplit ==
  ASSUME NEW q \in Seq(Byte), NEW n \in 0 .. Len(q)
  PROVE  LET g == SubSeq(q, 1, n)
             r == SubSeq(q, n + 1, Len(q))
         IN  /\ g \in Seq(Byte) /\ r \in Seq(Byte)
             /\ Ends(q) = Ends(g) + Ends(r) /\ Ends(g) \in Nat /\ Ends(r) \in Nat
             /\ LastEnds(q) => LastEnds(r)
<1> DEFINE g == SubSeq(q, 1, n)
           r == SubSeq(q, n + 1, Len(q))
           m == Len(q)
<1>1. m \in Nat /\ n \in 0 .. m /\ (\A i \in 1 .. m : q[i] \in Byte)
  BY LenProperties, ElementOfSeq
<1>2. g \in Seq(Byte)
  <2>1. \A i \in 1 .. n : q[i] \in Byte
    BY <1>1
  <2> QED
    BY <1>1, <2>1, SubSeqProperties
<1>3. /\ r \in Seq(Byte) /\ Len(r) = IF n + 1 <= m THEN m - (n + 1) + 1 ELSE 0
      /\ \A i \in 1 .. m - (n + 1) + 1 : r[i] = q[n + 1 + i - 1]
  <2>1. n + 1 \in Int /\ m \in Int /\ \A i \in n + 1 .. m : q[i] \in Byte
    BY <1>1
  <2> QED
    BY <2>1, SubSeqProperties
<1>4. g \o r = q
  <2>1. 1 \in 1 .. m + 1 /\ n \in 1 - 1 .. m /\ m \in n .. m
    BY <1>1
  <2>2. SubSeq(q, 1, n) \o SubSeq(q, n + 1, m) = SubSeq(q, 1, m)
    BY <2>1, ConcatAdjacentSubSeq
  <2> QED
    BY <2>2, SubSeqFull
<1>5. Ends(q) = Ends(g) + Ends(r) /\ Ends(g) \in Nat /\ Ends(r) \in Nat
  BY <1>2, <1>3, <1>4, EndsConcat, EndsType
<1>6. ASSUME LastEnds(q), r # <<>> PROVE r[Len(r)] = End
  <2>1. Len(r) \in Nat \ {0}
    <3> HIDE DEF r
    <3> QED
      BY <1>3, <1>6, EmptySeq
  <2> DEFINE k == Len(r)
  <2>2. k \in Nat \ {0} /\ k = IF n + 1 <= m THEN m - (n + 1) + 1 ELSE 0
    BY <1>3, <2>1
  <2> HIDE DEF k, r, m
  <2>3. k = m - n /\ k \in 1 .. m - (n + 1) + 1 /\ n + 1 + k - 1 = m
    BY <1>1, <2>2
  <2>4. r[k] = q[m]
    BY <1>3, <2>3
  <2>5. q # <<>>
    BY <1>1, <2>1, <2>3, EmptySeq DEF k, m
  <2> QED
    BY <1>6, <2>4, <2>5 DEF LastEnds, k, m
<1> QED
  BY <1>2, <1>3, <1>5, <1>6 DEF LastEnds

(* The reply to a command is one packet of an allowed length.              *)
LEMMA ReplyIsPacket ==
  ASSUME ReadCommand
  PROVE  /\ reply' \in Seq(Byte) /\ reply' # <<>> /\ LastEnds(reply') /\ Ends(reply') = 1
         /\ Len(reply') \in ReplyLengths
<1>1. PICK n \in ReplyLengths : \E body \in [1 .. n - 1 -> Data] :
        reply' = Append(body, End)
  BY DEF ReadCommand
<1>2. PICK body \in [1 .. n - 1 -> Data] : reply' = Append(body, End)
  BY <1>1
<1>3. n - 1 \in Nat /\ End \in Byte /\ End \notin Data
  BY <1>1, BytesAssumption DEF Byte
<1>4. body \in Seq(Byte) /\ Len(body) = n - 1
  <2>1. body \in [1 .. n - 1 -> Byte]
    BY DEF Byte
  <2>2. body \in Seq(Byte)
    BY <1>3, <2>1, SeqDef
  <2>3. DOMAIN body = 1 .. n - 1 /\ DOMAIN body = 1 .. Len(body) /\ Len(body) \in Nat
    BY <2>2, LenProperties
  <2> QED
    BY <1>3, <2>2, <2>3
<1>5. /\ reply' \in Seq(Byte) /\ reply' # <<>> /\ Len(reply') = n - 1 + 1
      /\ reply'[n - 1 + 1] = End /\ reply' = body \o <<End>>
  BY <1>2, <1>3, <1>4, AppendProperties, AppendIsConcat
<1>6. Ends(body) = 0
  <2>1. EndsAt(body) = {}
    BY <1>3 DEF EndsAt
  <2> QED
    BY <1>4, <2>1, EndsType, FS_EmptySet
<1>7. Ends(reply') = 1
  <2>1. <<End>> \in Seq(Byte) /\ Ends(<<End>>) = 1
    BY <1>3, EndsOne
  <2> QED
    <3>1. Ends(body \o <<End>>) = Ends(body) + Ends(<<End>>)
      BY <1>4, <2>1, EndsConcat
    <3>2. Ends(body \o <<End>>) = 1
      BY <1>6, <2>1, <3>1
    <3> QED
      BY <1>5, <3>2
<1>8. n - 1 + 1 = n
  BY <1>1
<1> QED
  BY <1>1, <1>5, <1>7, <1>8 DEF LastEnds

(* The host keeps to its bound: a command whose reply it has not taken is  *)
(* in the receive queue, in the reply, or in the transmit queue.           *)
CountInv == Unanswered <= MaxUnanswered

(* What waits for the host ends with the end of a reply, but for a reply   *)
(* that is being put.                                                      *)
TailInv == LastEnds(reply) /\ (reply = <<>> => LastEnds(TxQueue))

(* There is room for all of a reply.                                       *)
RoomInv ==
  halt["in"] = "never" /\ pc = "putc" => Len(tx.buf[tx.sel]) + Len(reply) <= TxBuffers

LEMMA TxQueueType == ASSUME IInv PROVE TxQueue \in Seq(Byte)
<1>1. Waiting(tx, tx_job) \in Seq(Byte) /\ <<>> \in Seq(Byte)
  BY WaitingBounded, EmptySeq DEF IInv
<1> QED
  BY <1>1, TxQueueWaiting

LEMMA EmptyEnds ==
  ASSUME NEW s, s = <<>>
  PROVE  s \in Seq(Byte) /\ Ends(s) = 0 /\ LastEnds(s)
BY EmptySeq, EndsEmpty DEF LastEnds

(* Where nothing is put, what waits can only become less.                  *)
LEMMA TransmitLess ==
  ASSUME IInv, [Next]_vars, ~Putc
  PROVE  /\ TxQueue' \in Seq(Byte) /\ Ends(TxQueue') <= Ends(TxQueue)
         /\ LastEnds(TxQueue) => LastEnds(TxQueue')
<1>1. TxQueue \in Seq(Byte) /\ <<>> \in Seq(Byte)
  BY TxQueueType, EmptySeq
<1>2. Ends(TxQueue) \in Nat
  BY <1>1, EndsType
<1>3. \/ TxQueue' = TxQueue
      \/ ToHost!Take
      \/ TxQueue' = <<>>
  BY TransmitMoves DEF ToHost!Clear
<1>4. CASE ToHost!Take
  <2>1. PICK n \in 0 .. Len(TxQueue) :
          TxQueue' = SubSeq(TxQueue, n + 1, Len(TxQueue))
    BY <1>4 DEF ToHost!Take
  <2> HIDE DEF TxQueue
  <2>2. /\ SubSeq(TxQueue, n + 1, Len(TxQueue)) \in Seq(Byte)
        /\ Ends(SubSeq(TxQueue, n + 1, Len(TxQueue))) <= Ends(TxQueue)
        /\ LastEnds(TxQueue) => LastEnds(SubSeq(TxQueue, n + 1, Len(TxQueue)))
    BY <1>1, EndsSplit
  <2> QED
    BY <2>1, <2>2
<1>5. CASE TxQueue' = <<>>
  <2>1. TxQueue' \in Seq(Byte) /\ Ends(TxQueue') = 0 /\ LastEnds(TxQueue')
    BY <1>5, EmptyEnds
  <2> QED
    BY <1>2, <2>1
<1>6. CASE TxQueue' = TxQueue
  <2> HIDE DEF TxQueue
  <2> QED
    BY <1>1, <1>2, <1>6
<1> QED
  BY <1>3, <1>4, <1>5, <1>6

LEMMA ReceiveLess ==
  ASSUME IInv, IInv', RxQueueOk, RxQueueOk', [Next]_vars, ~HostSends
  PROVE  Ends(RxQueue') <= Ends(RxQueue)
<1>1. RxQueue \in Seq(Byte)
  BY DEF RxQueueOk
<1>2. Ends(RxQueue) \in Nat
  BY <1>1, EndsType
<1>3. \/ RxQueue' = RxQueue
      \/ FromHost!Take
      \/ RxQueue' = <<>>
  BY ReceiveMoves DEF FromHost!Clear
<1>4. CASE FromHost!Take
  <2>1. PICK n \in 0 .. Len(RxQueue) :
          RxQueue' = SubSeq(RxQueue, n + 1, Len(RxQueue))
    BY <1>4 DEF FromHost!Take
  <2>2. Ends(SubSeq(RxQueue, n + 1, Len(RxQueue))) <= Ends(RxQueue)
    BY <1>1, EndsSplit
  <2> QED
    BY <2>1, <2>2
<1> QED
  BY <1>2, <1>3, <1>4, EmptyEnds

(* The end of a command leaves the receive queue when it is read.          *)
LEMMA CommandRead ==
  ASSUME IInv, RxQueueOk, RxQueueOk', ReadCommand
  PROVE  Ends(RxQueue) = 1 + Ends(RxQueue')
<1>1. FromHost!Take /\ byte' = <<End>> /\ RxQueue \in Seq(Byte)
  BY ReadTakes DEF ReadCommand, RxQueueOk
<1>2. PICK n \in 0 .. Len(RxQueue) :
        /\ byte' = SubSeq(RxQueue, 1, n)
        /\ RxQueue' = SubSeq(RxQueue, n + 1, Len(RxQueue))
  BY <1>1 DEF FromHost!Take
<1>3. Ends(RxQueue) = Ends(SubSeq(RxQueue, 1, n)) + Ends(SubSeq(RxQueue, n + 1, Len(RxQueue)))
  BY <1>1, EndsSplit
<1>4. Ends(<<End>>) = 1
  BY EndsOne DEF Byte
<1> QED
  BY <1>1, <1>2, <1>3, <1>4

(* A byte moves from the reply to the transmit queue.                      *)
LEMMA PutcMoves ==
  ASSUME IInv, Putc
  PROVE  /\ reply \in Seq(Byte) /\ reply # <<>> /\ reply' = Tail(reply)
         /\ \/ TxQueue' = Append(TxQueue, Head(reply))
            \/ TxQueue' = <<>> /\ TxQueue = <<>>
<1>1. reply \in Seq(Byte) /\ reply # <<>> /\ running /\ running' = running
  BY DEF IInv, TypeOK, ReplyOk, RunningOk, Putc
<1>2. \/ Waiting(tx', tx_job') = Append(Waiting(tx, tx_job), Head(reply))
      \/ Waiting(tx', tx_job') = <<>> /\ Waiting(tx, tx_job) = <<>>
  BY <1>1, PutcOk DEF IInv
<1>3. TxQueue' = Waiting(tx', tx_job') /\ TxQueue = Waiting(tx, tx_job)
  BY <1>1 DEF TxQueue, TxStopped, Waiting
<1> QED
  BY <1>1, <1>2, <1>3 DEF Putc

LEMMA SplitHead ==
  ASSUME NEW s \in Seq(Byte), s # <<>>
  PROVE  /\ Head(s) \in Byte /\ Tail(s) \in Seq(Byte)
         /\ Ends(s) = Ends(<<Head(s)>>) + Ends(Tail(s))
         /\ LastEnds(s) => LastEnds(Tail(s))
         /\ LastEnds(s) /\ Tail(s) = <<>> => Head(s) = End
<1>1. Len(s) \in Nat \ {0} /\ 1 \in 0 .. Len(s) /\ 1 \in 1 .. Len(s)
  BY EmptySeq
<1>2. Head(s) \in Byte /\ Tail(s) \in Seq(Byte) /\ Len(Tail(s)) = Len(s) - 1 /\ Head(s) = s[1]
  BY HeadTailProperties
<1>3. Tail(s) = SubSeq(s, 1 + 1, Len(s))
  BY TailIsSubSeq
<1>4. SubSeq(s, 1, 1) = <<Head(s)>>
  <2>1. \A i \in 1 .. 1 : s[i] \in Byte
    BY <1>2
  <2>2. SubSeq(s, 1, 1) \in Seq(Byte) /\ Len(SubSeq(s, 1, 1)) = 1 /\ SubSeq(s, 1, 1)[1] = s[1]
    BY <2>1, SubSeqProperties
  <2>3. <<Head(s)>> \in Seq(Byte) /\ Len(<<Head(s)>>) = 1 /\ <<Head(s)>>[1] = Head(s)
    BY <1>2
  <2> DEFINE g == SubSeq(s, 1, 1)
             h == <<Head(s)>>
  <2>4. /\ g \in Seq(Byte) /\ h \in Seq(Byte) /\ Len(g) = Len(h)
        /\ \A i \in 1 .. Len(g) : g[i] = h[i]
    BY <1>2, <2>2, <2>3
  <2> HIDE DEF g, h
  <2> QED
    BY <2>4, SeqEqual DEF g, h
<1>5. Tail(s) = <<>> => Len(s) = 1
  <2>1. Tail(s) = <<>> => Len(Tail(s)) = 0
    BY EmptySeq
  <2> QED
    BY <1>1, <1>2, <2>1
<1> QED
  BY <1>1, <1>2, <1>3, <1>4, <1>5, EndsSplit DEF LastEnds

LEMMA ReplyKept ==
  ASSUME [Next]_vars, ~Putc, ~ReadCommand
  PROVE  reply' = reply
<1>1. CASE DataSent \/ DataReceived \/ ReadByte \/ EndCallback \/ SofNotify \/ Enable
  BY <1>1 DEF DataSent, DataReceived, ReadByte, EndCallback, SofNotify, Enable, callback
<1>2. CASE Disable \/ HostSends \/ HostTakes \/ FrameTick
  BY <1>2 DEF Disable, HostSends, HostTakes, FrameTick, callback
<1>3. ASSUME NEW e \in Endpoint, SetHalt(e) \/ ClearHalt(e)
      PROVE  reply' = reply
  BY <1>3 DEF SetHalt, ClearHalt, callback
<1> QED
  BY <1>1, <1>2, <1>3 DEF Next, vars

LEMMA CountType ==
  ASSUME IInv, RxQueueOk
  PROVE  /\ RxQueue \in Seq(Byte) /\ reply \in Seq(Byte) /\ TxQueue \in Seq(Byte)
         /\ Ends(RxQueue) \in Nat /\ Ends(reply) \in Nat /\ Ends(TxQueue) \in Nat
<1>1. RxQueue \in Seq(Byte) /\ reply \in Seq(Byte) /\ TxQueue \in Seq(Byte)
  BY TxQueueType DEF RxQueueOk, IInv, TypeOK
<1> QED
  BY <1>1, EndsType

(* A byte put carries its packet from the reply to the transmit queue.     *)
LEMMA PutcCounts ==
  ASSUME IInv, RxQueueOk, Putc
  PROVE  Ends(reply') + Ends(TxQueue') <= Ends(reply) + Ends(TxQueue)
<1>1. /\ reply \in Seq(Byte) /\ reply # <<>> /\ reply' = Tail(reply)
      /\ \/ TxQueue' = Append(TxQueue, Head(reply))
         \/ TxQueue' = <<>> /\ TxQueue = <<>>
  BY PutcMoves
<1>2. /\ Head(reply) \in Byte /\ Tail(reply) \in Seq(Byte)
      /\ Ends(reply) = Ends(<<Head(reply)>>) + Ends(Tail(reply))
  BY <1>1, SplitHead
<1>3. Ends(<<Head(reply)>>) \in Nat /\ Ends(Tail(reply)) \in Nat
  <2>1. <<Head(reply)>> \in Seq(Byte)
    BY <1>2
  <2> QED
    BY <1>2, <2>1, EndsType
<1>4. TxQueue \in Seq(Byte) /\ Ends(TxQueue) \in Nat /\ Ends(reply) \in Nat
  BY CountType
<1>5. Ends(reply') = Ends(Tail(reply))
  BY <1>1
<1>6. CASE TxQueue' = Append(TxQueue, Head(reply))
  <2>1. TxQueue' = TxQueue \o <<Head(reply)>> /\ <<Head(reply)>> \in Seq(Byte)
    BY <1>2, <1>4, <1>6, AppendIsConcat
  <2>2. Ends(TxQueue \o <<Head(reply)>>) = Ends(TxQueue) + Ends(<<Head(reply)>>)
    BY <1>4, <2>1, EndsConcat
  <2>3. Ends(TxQueue') = Ends(TxQueue) + Ends(<<Head(reply)>>)
    BY <2>1, <2>2
  <2> QED
    BY <1>2, <1>3, <1>4, <1>5, <2>3
<1>7. CASE TxQueue' = <<>> /\ TxQueue = <<>>
  <2>1. Ends(TxQueue') = 0
    BY <1>7, EmptyEnds
  <2> QED
    BY <1>2, <1>3, <1>4, <1>5, <2>1
<1> QED
  BY <1>1, <1>6, <1>7

(* The host sends the end of a command only within its bound.              *)
LEMMA HostSendsCounts ==
  ASSUME IInv, RxQueueOk, RxQueueOk', CountInv, HostSends
  PROVE  CountInv'
<1>1. /\ rx \in Rx /\ rx_job.state = "started" /\ pc = "idle"
      /\ rx_job.buf = Other(rx.sel) /\ running
  BY DEF IInv, TypeOK, RxOk, RunningOk, HostSends
<1>2. PICK n \in 0 .. RxBuffers : \E p \in [1 .. n -> Byte] :
        /\ Ends(p) > 0 => Ends(p) + Unanswered <= MaxUnanswered
        /\ rx' = [rx EXCEPT !.buf[rx_job.buf] = p]
        /\ rx_job' = [rx_job EXCEPT !.state = "done", !.size = n]
  BY DEF HostSends
<1>3. PICK p \in [1 .. n -> Byte] :
        /\ Ends(p) > 0 => Ends(p) + Unanswered <= MaxUnanswered
        /\ rx' = [rx EXCEPT !.buf[rx_job.buf] = p]
        /\ rx_job' = [rx_job EXCEPT !.state = "done", !.size = n]
  BY <1>2
<1>4. rx' = [rx EXCEPT !.buf = [rx.buf EXCEPT ![Other(rx.sel)] = p]]
  BY <1>1, <1>3
<1>5. /\ rx'.sel = rx.sel /\ rx'.buf = [rx.buf EXCEPT ![Other(rx.sel)] = p]
  BY <1>1, <1>4 DEF Rx
<1>6. rx'.buf[Other(rx'.sel)] = p
  BY <1>1, <1>5, RxFields, BufferFacts
<1>7. rx_job'.state = "done"
  <2>1. rx_job \in Job(RxBuffers)
    BY DEF IInv, TypeOK
  <2> QED
    BY <1>3, <2>1 DEF Job
<1>8. RxQueue' = p /\ RxQueue = <<>>
  BY <1>1, <1>6, <1>7 DEF RxQueueOk
<1>9. TxQueue' = TxQueue /\ reply' = reply
  BY DEF HostSends, TxQueue, TxStopped, transmit, callback
<1>10. p \in Seq(Byte) /\ Ends(p) \in Nat /\ Ends(RxQueue) = 0
  <2>1. p \in Seq(Byte)
    BY <1>8 DEF RxQueueOk
  <2> QED
    BY <1>8, <2>1, EndsType, EmptyEnds
<1>11. Ends(RxQueue') = Ends(p) /\ Ends(TxQueue') = Ends(TxQueue) /\ Ends(reply') = Ends(reply)
  BY <1>8, <1>9
<1>12. Ends(TxQueue) \in Nat /\ Ends(reply) \in Nat
  BY CountType
<1> QED
  BY <1>3, <1>10, <1>11, <1>12 DEF CountInv, Unanswered

LEMMA CountStep ==
  ASSUME IInv, IInv', RxQueueOk, RxQueueOk', CountInv, [Next]_vars
  PROVE  CountInv'
<1>1. /\ Ends(RxQueue) \in Nat /\ Ends(reply) \in Nat /\ Ends(TxQueue) \in Nat
  BY CountType
<1>2. /\ Ends(RxQueue') \in Nat /\ Ends(reply') \in Nat /\ Ends(TxQueue') \in Nat
  <2>1. /\ RxQueue' \in Seq(Byte) /\ reply' \in Seq(Byte) /\ TxQueue' \in Seq(Byte)
    <3>1. reply' \in Seq(Byte)
      BY DEF IInv, TypeOK
    <3>2. RxQueue' \in Seq(Byte)
      BY DEF RxQueueOk
    <3>3. TxQueue' \in Seq(Byte)
      <4>1. Waiting(tx', tx_job') \in Seq(Byte) /\ <<>> \in Seq(Byte)
        BY WaitingBounded, EmptySeq DEF IInv
      <4>2. TxQueue' = IF running' THEN Waiting(tx', tx_job') ELSE <<>>
        BY DEF TxQueue, TxStopped, Waiting
      <4> QED
        BY <4>1, <4>2
    <3> QED
      BY <3>1, <3>2, <3>3
  <2> QED
    BY <2>1, EndsType
<1>3. CASE Putc
  <2>1. RxQueue' = RxQueue
    BY <1>3 DEF Putc, receive, RxQueue, Unread, Arrived
  <2>2. Ends(RxQueue') = Ends(RxQueue)
    BY <2>1
  <2>3. Ends(reply') + Ends(TxQueue') <= Ends(reply) + Ends(TxQueue)
    BY <1>3, PutcCounts
  <2> QED
    BY <1>1, <1>2, <2>2, <2>3 DEF CountInv, Unanswered
<1>4. CASE ReadCommand
  <2>1. Ends(RxQueue) = 1 + Ends(RxQueue')
    BY <1>4, CommandRead
  <2>2. Ends(reply') = 1
    BY <1>4, ReplyIsPacket
  <2>3. TxQueue' = TxQueue
    BY <1>4 DEF ReadCommand, transmit, TxQueue, TxStopped
  <2>4. Ends(TxQueue') = Ends(TxQueue)
    BY <2>3
  <2> QED
    BY <1>1, <1>2, <2>1, <2>2, <2>4 DEF CountInv, Unanswered
<1>5. CASE HostSends
  BY <1>5, HostSendsCounts
<1>6. CASE ~Putc /\ ~ReadCommand /\ ~HostSends
  <2>1. reply' = reply
    BY <1>6, ReplyKept
  <2>2. Ends(reply') = Ends(reply)
    BY <2>1
  <2>3. Ends(TxQueue') <= Ends(TxQueue)
    BY <1>6, TransmitLess
  <2>4. Ends(RxQueue') <= Ends(RxQueue)
    BY <1>6, ReceiveLess
  <2> QED
    BY <1>1, <1>2, <2>2, <2>3, <2>4 DEF CountInv, Unanswered
<1> QED
  BY <1>3, <1>4, <1>5, <1>6

(* Each reply is put as a whole before the next command is read, so that   *)
(* what waits for the host ends with the end of a reply.                   *)
LEMMA TailStep ==
  ASSUME IInv, TailInv, [Next]_vars
  PROVE  TailInv'
<1>1. CASE Putc
  <2>1. /\ reply \in Seq(Byte) /\ reply # <<>> /\ reply' = Tail(reply)
        /\ \/ TxQueue' = Append(TxQueue, Head(reply))
           \/ TxQueue' = <<>>
    BY <1>1, PutcMoves
  <2>2. /\ Head(reply) \in Byte
        /\ LastEnds(reply) => LastEnds(Tail(reply))
        /\ LastEnds(reply) /\ Tail(reply) = <<>> => Head(reply) = End
    BY <2>1, SplitHead
  <2>3. LastEnds(reply')
    BY <2>1, <2>2 DEF TailInv
  <2>4. ASSUME reply' = <<>> PROVE LastEnds(TxQueue')
    <3>1. CASE TxQueue' = <<>>
      BY <3>1, EmptyEnds
    <3>2. CASE TxQueue' = Append(TxQueue, Head(reply))
      <4>1. TxQueue \in Seq(Byte) /\ Head(reply) = End /\ End \in Byte
        BY <2>1, <2>2, <2>4, TxQueueType DEF TailInv
      <4> DEFINE w == Append(TxQueue, End)
      <4>2. Len(w) = Len(TxQueue) + 1 /\ w[Len(TxQueue) + 1] = End
        BY <4>1, AppendProperties
      <4>3. TxQueue' = w
        BY <3>2, <4>1
      <4> HIDE DEF w
      <4>4. LastEnds(w)
        BY <4>2 DEF LastEnds
      <4> QED
        BY <4>3, <4>4
    <3> QED
      BY <2>1, <3>1, <3>2
  <2> QED
    BY <2>3, <2>4 DEF TailInv
<1>2. CASE ReadCommand
  BY <1>2, ReplyIsPacket DEF TailInv
<1>3. CASE ~Putc /\ ~ReadCommand
  <2>1. reply' = reply
    BY <1>3, ReplyKept
  <2>2. LastEnds(TxQueue) => LastEnds(TxQueue')
    BY <1>3, TransmitLess
  <2>3. LastEnds(reply')
    BY <2>1 DEF TailInv
  <2> QED
    BY <2>1, <2>2, <2>3 DEF TailInv
<1> QED
  BY <1>1, <1>2, <1>3

(* When a command is read nothing waits for the host: its end is the one   *)
(* the host may have without a reply.                                      *)
LEMMA NothingWaits ==
  ASSUME MaxUnanswered <= 1, IInv, RxQueueOk, RxQueueOk', CountInv, TailInv, ReadCommand
  PROVE  TxQueue = <<>>
<1>1. /\ TxQueue \in Seq(Byte) /\ Ends(TxQueue) \in Nat
      /\ Ends(RxQueue) \in Nat /\ Ends(reply) \in Nat
  BY CountType
<1>2. Ends(RxQueue) = 1 + Ends(RxQueue') /\ Ends(RxQueue') \in Nat
  <2>1. RxQueue' \in Seq(Byte)
    BY DEF RxQueueOk
  <2> QED
    BY <2>1, CommandRead, EndsType
<1>3. Ends(TxQueue) = 0
  BY <1>1, <1>2 DEF CountInv, Unanswered
<1>4. reply = <<>>
  BY DEF IInv, ReplyOk, ReadCommand, Getc
<1>5. ASSUME TxQueue # <<>> PROVE FALSE
  <2> DEFINE n == Len(TxQueue)
  <2>1. n \in 1 .. Len(TxQueue)
    BY <1>1, <1>5, EmptySeq
  <2>2. TxQueue[n] = End
    BY <1>4, <1>5 DEF TailInv, LastEnds
  <2> HIDE DEF n, TxQueue
  <2>3. Ends(TxQueue) > 0
    BY <1>1, <2>1, <2>2, EndsSome
  <2> QED
    BY <1>3, <2>3
<1> QED
  BY <1>5

LEMMA OnlyPutting ==
  ASSUME IInv, [Next]_vars, ~Putc, ~ReadCommand, pc' = "putc"
  PROVE  pc = "putc" /\ tx' = tx /\ reply' = reply /\ halt' = halt
<1>1. CASE DataReceived
  BY <1>1 DEF DataReceived, RxStart
<1>2. CASE Enable
  BY <1>2 DEF Enable, RxStart
<1>3. CASE DataSent \/ ReadByte \/ EndCallback \/ SofNotify
  BY <1>3 DEF DataSent, ReadByte, Getc, EndCallback, SofNotify, callback
<1>4. CASE Disable \/ HostSends \/ HostTakes \/ FrameTick
  BY <1>4 DEF Disable, HostSends, HostTakes, FrameTick, callback, transmit
<1>5. ASSUME NEW e \in Endpoint, SetHalt(e) \/ ClearHalt(e)
      PROVE  FALSE
  BY <1>5 DEF SetHalt, ClearHalt, callback
<1> QED
  BY <1>1, <1>2, <1>3, <1>4, <1>5 DEF Next, vars

LEMMA RoomStep ==
  ASSUME MaxUnanswered <= 1, ReplyLengths \subseteq 1 .. TxBuffers,
         IInv, IInv', RxQueueOk, RxQueueOk', CountInv, TailInv, RoomInv, [Next]_vars
  PROVE  RoomInv'
<1> SUFFICES ASSUME halt'["in"] = "never", pc' = "putc"
             PROVE  Len(tx'.buf[tx'.sel]) + Len(reply') <= TxBuffers
  BY DEF RoomInv
<1>1. tx \in Tx
  BY DEF IInv, TypeOK
<1>2. CASE Putc
  <2>1. halt["in"] = "never" /\ pc = "putc"
    BY <1>2 DEF Putc
  <2>2. /\ reply \in Seq(Byte) /\ reply # <<>> /\ reply' = Tail(reply)
    BY <1>2, PutcMoves
  <2>3. Len(tx.buf[tx.sel]) + Len(reply) <= TxBuffers
    BY <2>1 DEF RoomInv
  <2>4. Len(reply) \in Nat \ {0} /\ Len(reply') = Len(reply) - 1
    BY <2>2, EmptySeq, HeadTailProperties
  <2>5. tx.sel \in Buffer /\ tx.buf[tx.sel] \in Seq(Byte) /\ Len(tx.buf[tx.sel]) \in Nat
    BY <1>1, TxFields
  <2>6. FreeTxBuffer(tx) = tx
    BY <2>3, <2>4, <2>5 DEF FreeTxBuffer
  <2>7. tx' = [tx EXCEPT !.buf[tx.sel] = Append(@, Head(reply))]
    BY <1>2, <2>6 DEF Putc
  <2>8. Head(reply) \in Byte
    BY <2>2, HeadTailProperties
  <2>9. tx'.sel = tx.sel /\ tx'.buf[tx'.sel] = Append(tx.buf[tx.sel], Head(reply))
    BY <1>1, <2>5, <2>7, TxFields DEF Tx
  <2>10. Len(tx'.buf[tx'.sel]) = Len(tx.buf[tx.sel]) + 1
    BY <2>5, <2>8, <2>9, AppendProperties
  <2> QED
    BY <2>3, <2>4, <2>5, <2>10
<1>3. CASE ReadCommand
  <2>1. /\ halt["in"] = "never" /\ pc = "getc" /\ tx' = tx
    BY <1>3 DEF ReadCommand, Getc, transmit
  <2>2. running /\ ~TxStopped
    BY <2>1 DEF IInv, RunningOk, OngoingOk, TxStopped
  <2>3. TxQueue = <<>>
    BY <1>3, NothingWaits
  <2> DEFINE front == IF tx_job.state = "done" THEN <<>> ELSE tx.buf[Other(tx.sel)]
             back == tx.buf[tx.sel]
  <2>4. front \o back = <<>>
    BY <2>2, <2>3 DEF TxQueue
  <2>5. front \in Seq(Byte) /\ back \in Seq(Byte)
    BY <1>1, TxFields, BufferFacts, EmptySeq
  <2>6. back = <<>>
    <3> HIDE DEF front, back
    <3> DEFINE n == Len(front)
               m == Len(back)
    <3>1. n \in Nat /\ m \in Nat /\ Len(front \o back) = n + m
      BY <2>5, LenProperties, ConcatProperties
    <3>2. n + m = 0
      BY <2>4, <3>1, EmptySeq
    <3> HIDE DEF n, m
    <3>3. m = 0
      BY <3>1, <3>2
    <3> QED
      BY <2>5, <3>3, EmptySeq DEF m
  <2>7. Len(tx'.buf[tx'.sel]) = 0
    <3>1. tx'.buf[tx'.sel] = <<>>
      BY <2>1, <2>6
    <3> QED
      BY <3>1, EmptySeq
  <2>8. Len(reply') \in 1 .. TxBuffers
    BY <1>3, ReplyIsPacket
  <2> QED
    BY <2>7, <2>8
<1>4. CASE ~Putc /\ ~ReadCommand
  BY <1>4, OnlyPutting DEF RoomInv
<1> QED
  BY <1>2, <1>3, <1>4

(* With a host that has at most one command without a reply and halts no   *)
(* endpoint, udi_cdc_putc always finds room for a byte of a reply that     *)
(* fits in a buffer, for buffers of any length and whatever the transmit   *)
(* direction is doing (udi_cdc.c:1003-1081).                               *)
THEOREM PutcHasRoom ==
  ASSUME MaxUnanswered <= 1, ~MayHalt, ReplyLengths \subseteq 1 .. TxBuffers
  PROVE  Spec => []PutcNeverWaits
<1> DEFINE Never == halt["in"] = "never"
           AllInv == CountInv /\ TailInv /\ RoomInv /\ Never
<1>1. Init => AllInv
  <2> SUFFICES ASSUME Init PROVE AllInv
    OBVIOUS
  <2>1. RxQueue = <<>> /\ TxQueue = <<>> /\ reply = <<>>
    BY DEF Init, RxQueue, TxQueue
  <2>2. /\ Ends(RxQueue) = 0 /\ Ends(TxQueue) = 0 /\ Ends(reply) = 0
        /\ LastEnds(reply) /\ LastEnds(TxQueue)
    BY <2>1, EmptyEnds
  <2>3. CountInv
    BY <2>2 DEF CountInv, Unanswered
  <2> QED
    BY <2>2, <2>3 DEF Init, TailInv, RoomInv, Endpoint
<1>2. IInv /\ Never /\ [Next]_vars => Never'
  <2> SUFFICES ASSUME IInv, Never, [Next]_vars PROVE Never'
    OBVIOUS
  <2>1. CASE DataSent \/ DataReceived \/ ReadByte \/ ReadCommand \/ EndCallback
    BY <2>1 DEF DataSent, DataReceived, ReadByte, ReadCommand, EndCallback
  <2>2. CASE Putc \/ SofNotify \/ Enable \/ Disable
    BY <2>2 DEF Putc, SofNotify, Enable, Disable, Endpoint
  <2>3. CASE HostSends \/ HostTakes \/ FrameTick
    BY <2>3 DEF HostSends, HostTakes, FrameTick
  <2>4. ASSUME NEW e \in Endpoint, SetHalt(e) \/ ClearHalt(e)
        PROVE  Never'
    <3>1. e # "in" /\ halt' = [halt EXCEPT ![e] = "cleared"]
      BY <2>4 DEF SetHalt, ClearHalt
    <3>2. halt'["in"] = halt["in"]
      BY <3>1 DEF IInv, TypeOK, Endpoint
    <3> QED
      BY <3>2
  <2> QED
    BY <2>1, <2>2, <2>3, <2>4 DEF Next, vars
<1>3. IInv /\ IInv' /\ RxQueueOk /\ RxQueueOk' /\ AllInv /\ [Next]_vars => AllInv'
  BY <1>2, CountStep, TailStep, RoomStep
<1>4. IInv /\ AllInv => PutcNeverWaits
  <2> SUFFICES ASSUME IInv, AllInv, pc = "putc" PROVE HasRoom(FreeTxBuffer(tx))
    BY DEF PutcNeverWaits
  <2>1. Len(tx.buf[tx.sel]) + Len(reply) <= TxBuffers
    BY DEF RoomInv
  <2>2. reply \in Seq(Byte) /\ reply # <<>> /\ tx \in Tx
    BY DEF IInv, TypeOK, ReplyOk
  <2>3. Len(reply) \in Nat \ {0}
    BY <2>2, EmptySeq
  <2>4. Len(tx.buf[tx.sel]) \in Nat
    BY <2>2, TxFields
  <2>5. Len(tx.buf[tx.sel]) < TxBuffers
    BY <2>1, <2>3, <2>4
  <2>6. FreeTxBuffer(tx) = tx
    BY <2>4, <2>5 DEF FreeTxBuffer
  <2> QED
    BY <2>5, <2>6 DEF HasRoom
<1>5. Spec => []AllInv
  BY <1>1, <1>3, Invariance, RxQueueAlways, PTL DEF Spec
<1> QED
  BY <1>4, <1>5, Invariance, PTL
=============================================================================
