CONSTANTS
  c1 = c1
  c2 = c2
  Clients = {c1, c2}
  Udp = udp
  MaxCSeq = 2
  MaxCalls = 1
  MaxUnwaited = 0
  Encodable = {v1}
  Oversized = {}
  Programs = {}
  NoTxn = NoTxn
  Nil = Nil
  Error = Error
  ProgValue = progvalue
SPECIFICATION Spec
CHECK_DEADLOCK FALSE
INVARIANTS
  OkMeansApplied
