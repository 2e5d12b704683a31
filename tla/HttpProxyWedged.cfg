CONSTANTS
  t1 = t1
  t2 = t2
  api = api
  fw = fw
  temp = temp
  missing = missing
  Threads = {t1, t2}
  Urls = {temp}
  Served = {temp}
  Weather = {temp}
  Table <- LocationTable
  MaxReqs = 2
  MaxFlips = 0
  Faults = FALSE
  Nil = Nil
SPECIFICATION Spec
CHECK_DEADLOCK FALSE
INVARIANTS
  Usable
