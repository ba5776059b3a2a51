CONSTANTS
  Clients = {c1}
  Servers = {s1, s2}
  Threads = {t1, t2}
  MaxCalls <- MCTwoEach
  Half = 2
  MaxGone = 0
  CanFail = FALSE
  NoGuid = NoGuid
  NoCall = NoCall
SPECIFICATION FairSpec
INVARIANT AnswersFitCalls
PROPERTY CallIsAnswered
CHECK_DEADLOCK FALSE
