CONSTANTS
  Settings <- Rough
  Smbd <- SmbdToo
  Eventful <- HostToo
  Image = 1
  Latest = 2
  Starts = 3
  Names = 2
  MaxKeys = 5
  None = None
  Torn = Torn
SPECIFICATION Spec
CHECK_DEADLOCK FALSE
INVARIANTS
  TypeOK
  RemovedAsAsked
  ResetsItselfAlone
  CertServes
