CONSTANTS
  c1 = c1
  c2 = c2
  Clients = {c1, c2}
  Udp = udp
  MaxCSeq = 1
  MaxCalls = 1
  MaxUnwaited = 1
  Encodable = {v1}
  Oversized = {big}
  Programs = {v1}
  NoTxn = NoTxn
  Nil = Nil
  Error = Error
  ProgValue = progvalue
SPECIFICATION Spec
CHECK_DEADLOCK FALSE
INVARIANTS
  TypeOK
  NoLeak
  AnswerCarriesNumber
  OpenCallIsRegistered
  ExclusiveAnswer
  SignalledIsReturned
PROPERTIES
  CallReturns
  UdpReturns
