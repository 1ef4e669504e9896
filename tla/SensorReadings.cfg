SPECIFICATION FairSpec
CONSTANTS
  NChips = 2
  Millisecond = 2
  SpiTime = 1
  PressureTime = 1
  TemperatureTime = 3
  MaxFaults = 1
  MaxCommands = 1
INVARIANTS
  TypeOK
  OwnReadings
  Recovers
  AtMostOneTorn
PROPERTIES
  TimeKept
  CellRead
