SPECIFICATION FairSpec
CONSTANTS
  NServos = 2
  Positions <- NearPositions
  PositionModulus = 65536
  ClockModulus = 16
  SettleAfter = 3
  RestAfter = 4
  Backlash = 99
  BackOff = 50
  MaxMsec = 7
  CommandHorizon = 1
  MaxMoves = 1
  MaxCommands = 2
  MaxFaults = 1
  MaxPass = 1
PROPERTIES
  PositionReached
  ServosRest
