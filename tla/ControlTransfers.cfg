SPECIFICATION FairSpec
CONSTANTS
  EpSize = 2
  LineCodingSize = 3
  Requests <- SomeRequests
  MaxTransfers = 4
  MaxGivenUp = 1
  MaxResets = 1
  NULL = NULL
INVARIANTS
  TypeOK
  ReadExact
  WriteStored
  AnswerMatches
  AddressAgreed
PROPERTIES
  TransferEnds
CHECK_DEADLOCK FALSE
