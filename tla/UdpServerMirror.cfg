CONSTANTS
  r1 = r1
  r2 = r2
  a1 = a1
  a2 = a2
  Rooms = {r1}
  Days = {1, 2}
  Addrs = {a1, a2}
  Home = a1
  Cloud = cloud
  Knocks = 2
  CloudKinds = {"ack", "PING", "PROGRAM"}
  Proxy = TRUE
  MaxInFlight = 1
  MaxEvents = 3
  Nil = Nil
SPECIFICATION Spec
INVARIANTS
  TypeOK
  EchoMeansStored
PROPERTIES
  NeverBackwards
  SettingsSettle
  ProgramsSettle
