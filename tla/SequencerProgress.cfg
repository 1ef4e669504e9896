SPECIFICATION HFairSpec
CONSTANTS
  NStates = 3
  NTransitions = 2
  NKeyframes = 2
  NServos = 1
  NButtons = 1
  NChannels = 1
  Readings = {0}
  Uploads <- OxUploads
  ValvePositions = {}
  Commands = {"ABORT", "RESET", "UPLOAD", "BUTTON"}
  ClockModulus = 8
  MaxMsec = 2
  CommandHorizon = 1
  MaxCommands = 3
  NULL = NULL
PROPERTIES
  PassEnds
  DueKeyframePlayed
