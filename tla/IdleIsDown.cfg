SPECIFICATION Spec
CONSTANTS
  Axes = {1}
  Batches <- OneBatch
  ReadyTerminal = {}
  Devices = {}
  CheckModes = FALSE
  ModeSwitchAxes = {}
  HasReadySources = FALSE
  EnableOnly = TRUE
  MotionModeSwitching = FALSE
  BatchTimeout = 4
  DisableStageTimeout = 2
  InterBatchDelay = 1
  FaultResetTimeout = 2
  ReadyHold = 0
  Workers = {}
  ClientTimeouts = FALSE
  Clients = {"enable", "reset"}
  Disturbances = {}
  Lifecycle = FALSE
VIEW LiveState
INVARIANT IdleIsDown
