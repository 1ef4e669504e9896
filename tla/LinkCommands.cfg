\* The host asks for a limited number of commands and then stops.
CHECK_DEADLOCK FALSE
SPECIFICATION FairSpec
CONSTANTS
  END = END
  ESC = ESC
  ESC_END = ESC_END
  ESC_ESC = ESC_ESC
  Set = Set
  Get = Get
  Button = Button
  ACK = ACK
  NACK = NACK
  Dangling = Dangling
  Plain = {Set, Get, Button, ACK, NACK}
  RX_BUFFER_LENGTH = 5
  Exact <- OneTable
  AtLeast <- OneArgument
  Queries <- OneQuery
  Commands <- CommandPackets
  MaxAsks = 3
  MaxRestarts = 1
INVARIANTS
  TypeOK
  PacketInBlob
PROPERTIES
  LinkIsServer
  NothingLeftOver
