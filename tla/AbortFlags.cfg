SPECIFICATION HSpec
CONSTANTS
  NStates = 3
  NTransitions = 2
  NKeyframes = 2
  NServos = 1
  NButtons = 1
  NChannels = 1
  Readings = {0}
  Uploads <- OxUploads
  ValvePositions = {}
  Commands = {"ABORT", "UPLOAD", "BUTTON"}
  ClockModulus = 8
  MaxMsec = 1
  CommandHorizon = 1
  MaxCommands = 3
  NULL = NULL
INVARIANTS
  AbortLeavesOneActive
