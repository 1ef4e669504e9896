\* The system may really stop: that is what this run shows.
CHECK_DEADLOCK FALSE
SPECIFICATION FairSpec
CONSTANTS
  Data = {d}
  End = e
  RxBuffers = 2
  TxBuffers = 2
  ZlpAfter = 2
  FrameModulus = 2
  ReplyLengths <- Lengths
  MaxUnanswered = 1
  MayHalt = FALSE
PROPERTIES
  PutcReturns
