SPECIFICATION HSpec
CONSTANTS
  NStates = 3
  NTransitions = 2
  NKeyframes = 2
  NServos = 1
  NButtons = 1
  NChannels = 1
  Readings = {0}
  Uploads <- TimerUploads
  ValvePositions = {}
  Commands = {"RESET", "UPLOAD"}
  ClockModulus = 8
  MaxMsec = 3
  CommandHorizon = 2
  MaxCommands = 2
  NULL = NULL
INVARIANTS
  ResetStartsAfresh
