SPECIFICATION Spec
CONSTANTS
  NServos = 2
  Positions <- FarPositions
  PositionModulus = 65536
  ClockModulus = 16
  SettleAfter = 1
  RestAfter = 2
  Backlash = 99
  BackOff = 50
  MaxMsec = 3
  CommandHorizon = 1
  MaxMoves = 1
  MaxCommands = 2
  MaxFaults = 1
  MaxPass = 5
INVARIANTS
  TypeOK
  BackOffBounded
  UndisturbedOutput
  PinMatchesChannels
