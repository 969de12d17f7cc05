SPECIFICATION Spec
CONSTANTS
  Axes = {1}
  Batches <- OneBatch
  ReadyTerminal = {}
  Devices = {}
  CheckModes = TRUE
  ModeSwitchAxes = {1}
  HasReadySources = FALSE
  EnableOnly = FALSE
  MotionModeSwitching = TRUE
  BatchTimeout = 4
  DisableStageTimeout = 2
  InterBatchDelay = 1
  FaultResetTimeout = 2
  ReadyHold = 0
  Workers = {}
  ClientTimeouts = FALSE
  Clients = {"enable", "mode"}
  Disturbances = {"offline"}
  Lifecycle = FALSE
VIEW LiveState
PROPERTY RestartLatch
