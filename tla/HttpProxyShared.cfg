CONSTANTS
  t1 = t1
  t2 = t2
  api = api
  fw = fw
  temp = temp
  missing = missing
  Threads = {t1, t2}
  Urls = {api, temp, missing}
  Served = {api, temp}
  Weather = {temp}
  Table <- DefaultTable
  MaxReqs = 3
  MaxFlips = 1
  Faults = TRUE
  Nil = Nil
SPECIFICATION Spec
CHECK_DEADLOCK FALSE
INVARIANTS
  TypeOK
  OwnAnswer
  RightSide
PROPERTIES
  OnlyServersHang
