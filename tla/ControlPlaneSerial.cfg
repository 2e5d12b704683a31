CONSTANTS
  c1 = c1
  c2 = c2
  Clients = {c1}
  Udp = udp
  MaxCSeq = 2
  MaxCalls = 3
  MaxUnwaited = 0
  Encodable = {v1, v2}
  Oversized = {big}
  Programs = {v1}
  NoTxn = NoTxn
  Nil = Nil
  Error = Error
  ProgValue = progvalue
SPECIFICATION Spec
CHECK_DEADLOCK FALSE
PROPERTIES
  ImplementsControlCall
