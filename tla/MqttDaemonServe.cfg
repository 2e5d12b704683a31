CONSTANTS
  Disks = {sda}
  Nas = nas
  IdleOptions = {FALSE, TRUE}
  MaxLines = 1
  MaxStarts = 2
SPECIFICATION Spec
INVARIANTS
  TypeOK
  CrashLeavesNothing
  DeletedIsOver
  PowerShown
PROPERTIES
  SensorsKeepComing
