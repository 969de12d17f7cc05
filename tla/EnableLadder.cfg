SPECIFICATION Spec
CONSTANTS
  Axes = {1, 2}
  Batches <- TwoBatches
  ReadyTerminal = {2}
  Devices = {}
  CheckModes = FALSE
  ModeSwitchAxes = {}
  HasReadySources = FALSE
  EnableOnly = TRUE
  MotionModeSwitching = FALSE
  BatchTimeout = 4
  DisableStageTimeout = 2
  InterBatchDelay = 1
  FaultResetTimeout = 2
  ReadyHold = 0
  Workers = {}
  ClientTimeouts = TRUE
  Clients = {"enable", "reset"}
  Disturbances = {"drive_fault", "power_stage_lost"}
  Lifecycle = TRUE
VIEW LiveState
INVARIANT TypeOK
INVARIANT BatchIndex
INVARIANT InactiveIsQuiet
PROPERTY BatchOrder
PROPERTY FaultStopsTorque
PROPERTY ResetEdge
