CONSTANTS
  Disks = {sda}
  Nas = nas
  IdleOptions = {TRUE}
  MaxLines = 1
  MaxStarts = 1
SPECIFICATION Spec
PROPERTIES
  DiskDataIsSent
