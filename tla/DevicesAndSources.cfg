SPECIFICATION Spec
CONSTANTS
  Axes = {1}
  Batches <- OneBatch
  ReadyTerminal = {}
  Devices = {"head"}
  CheckModes = TRUE
  ModeSwitchAxes = {}
  HasReadySources = TRUE
  EnableOnly = TRUE
  MotionModeSwitching = FALSE
  BatchTimeout = 4
  DisableStageTimeout = 2
  InterBatchDelay = 1
  FaultResetTimeout = 2
  ReadyHold = 1
  Workers = {}
  ClientTimeouts = FALSE
  Clients = {"enable", "reset"}
  Disturbances = {"device", "sources", "drive_fault", "power_stage_lost", "modes"}
  Lifecycle = FALSE
VIEW LiveState
INVARIANT ResetQuiet
PROPERTY DevicesLast
PROPERTY SourcesFirst
PROPERTY ResetCommit
PROPERTY EnableCommit
