SPECIFICATION Spec
CONSTANTS
 Modules = {1}
 Feedbacks <- MCFeedbacks
 Smoothing = TRUE
 TopSpeed = 1
 EncoderWindow = 1
 CommandTimeout = 1
 FaultHold = 1
 FaultTimeout = 2
 MaxActivations = 2
 Reports <- MCReports
 StatusTimeout = 1
 BmsTimeout = 2
 Observation = 1
 Stable = 1
INVARIANT FaultNeverResumes
