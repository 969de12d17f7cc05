SPECIFICATION FairSpec
CONSTANTS
  Motors <- TwoMotors
  FeedbackTimeout = 1
  TransitionTimeout = 2
  SpecialPeriod = 2
  CommandPeriod = 1
  MaxGeneration = 2
INVARIANT HeadTypeOK
INVARIANT LatchCoherent
INVARIANT NoSpuriousFault
PROPERTY FaultDisables
PROPERTY PositionIsSafe
PROPERTY ResetConsumes
PROPERTY ImplementsDevice
PROPERTY HeadSettles
