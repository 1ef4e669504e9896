\* The system may really stop: a putc that waits in the interrupt.
CHECK_DEADLOCK FALSE
SPECIFICATION Spec
CONSTANTS
  Data = {d}
  End = e
  RxBuffers = 2
  TxBuffers = 2
  ZlpAfter = 2
  FrameModulus = 2
  ReplyLengths <- Lengths
  MaxUnanswered = 2
  MayHalt = TRUE
INVARIANTS
  TypeOK
  StoppedOnlyByHalt
PROPERTIES
  TransmitIsQueue
  ReceiveIsQueue
