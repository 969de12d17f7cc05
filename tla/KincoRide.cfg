SPECIFICATION KincoSpec
CONSTANTS
  MaxPosition = 1
  TakeoverTolerance = 0
  StartupMode = 9
  ModeSwitching = TRUE
  AckTimeout = 1
  MaxRideThrough = 1
  Writes <- MCWrites
PROPERTY LostFrameKeepsTarget
