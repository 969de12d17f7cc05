SPECIFICATION Spec
CONSTANTS
  Axes = {1}
  Batches <- OneBatch
  ReadyTerminal = {}
  Devices = {}
  CheckModes = TRUE
  ModeSwitchAxes = {1}
  HasReadySources = FALSE
  EnableOnly = FALSE
  MotionModeSwitching = TRUE
  BatchTimeout = 4
  DisableStageTimeout = 2
  InterBatchDelay = 1
  FaultResetTimeout = 2
  ReadyHold = 0
  Workers = {}
  ClientTimeouts = FALSE
  Clients = {"enable", "disable", "mode"}
  Disturbances = {"offline", "power_stage_lost", "motion_fault"}
  Lifecycle = FALSE
CONSTRAINT EnableAlone
VIEW LiveState
INVARIANT ReportsRunningMode
INVARIANT CspUnderTrajectory
PROPERTY DisableCommit
PROPERTY EnableCommit
