SPECIFICATION HSpec
CONSTANTS
  NStates = 3
  NTransitions = 2
  NKeyframes = 2
  NServos = 2
  NButtons = 1
  NChannels = 1
  Readings = {0, 1}
  Uploads <- PairUploads
  ValvePositions = {6}
  Commands = {"ABORT", "RESET", "UPLOAD", "BUTTON",
              "SET_VALVES", "SINGLE_VALVE"}
  ClockModulus = 8
  MaxMsec = 2
  CommandHorizon = 1
  MaxCommands = 4
  NULL = NULL
INVARIANTS
  TypeOK
  CurrentStateActive
  KeyframeReadInBounds
  AbortInForce
  EarlyPressSeen
  TimerDelayHonoured
  StateServosApplied
  SparkAsLastAsked
