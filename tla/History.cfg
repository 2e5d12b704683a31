CONSTANTS
  t1 = t1
  t2 = t2
  Threads = {t1, t2}
  Traffics <- WeatherCallsDatagrams
  TTL = 2
  Window = 1
  Spring = 1
  Fold = 2
  Shift = 1
  MaxTime = 3
  Error = Error
  Nil = Nil
SPECIFICATION Spec
INVARIANTS
  TypeOK
  ServedMeansTables
  PagesHoldTotal
PROPERTIES
  WeatherForward
  HistoryShows
  OnlyFetchHangs
