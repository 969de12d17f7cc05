SPECIFICATION StopsSpec
CONSTANTS
  Axes = {1}
  Batches <- OneBatch
  ReadyTerminal = {}
  Devices = {}
  CheckModes = FALSE
  ModeSwitchAxes = {}
  HasReadySources = FALSE
  EnableOnly = FALSE
  MotionModeSwitching = FALSE
  BatchTimeout = 4
  DisableStageTimeout = 2
  InterBatchDelay = 1
  FaultResetTimeout = 2
  ReadyHold = 0
  Workers = {"w1"}
  ClientTimeouts = FALSE
  Clients = {"enable", "disable", "reset"}
  Disturbances = {"drive_fault", "motion_fault"}
  Lifecycle = FALSE
PROPERTY FaultDeactivates
PROPERTY EnableReleases
PROPERTY JtcActivatingSettles
PROPERTY MotionFaultStops
PROPERTY StopsSettle
