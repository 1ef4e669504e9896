SPECIFICATION FairSpec
CONSTANTS
  Data = {d}
  End = e
  RxBuffers = 2
  TxBuffers = 3
  ZlpAfter = 2
  FrameModulus = 2
  ReplyLengths <- Lengths
  MaxUnanswered = 1
  MayHalt = FALSE
INVARIANTS
  PutcNeverWaits
PROPERTIES
  RepliesArrive
  CommandsRead
  ReadsEnd
