CONSTANTS
  Settings <- OldOption
  Image = 1
  Latest = 2
  Starts = 2
  Smbd = {}
  Eventful = {}
  Names = 1
  MaxKeys = 1
  None = None
  Torn = Torn
SPECIFICATION Spec
CHECK_DEADLOCK FALSE
INVARIANTS
  ResetsItself
