CONSTANTS
  Clients = {c1, c2}
  Servers = {s1}
  Threads = {t1}
  MaxCalls <- MCOneEach
  Half = 2
  MaxGone = 1
  CanFail = TRUE
  NoGuid = NoGuid
  NoCall = NoCall
SPECIFICATION Spec
INVARIANT TypeOK
PROPERTIES TakeFindsOwnResponse ImplementsRpc
CHECK_DEADLOCK FALSE
