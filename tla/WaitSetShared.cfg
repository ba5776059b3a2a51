CONSTANTS
  Endpoints <- MCTwoEvents
  MaxChanges <- MCOneDeadline
  WaitSets = {w1, w2}
  r = r
  g = g
  e1 = e1
  e2 = e2
  Readers = {}
  Guards = {}
  EventObjects = {e1, e2}
  Null = Null
  ArgLists <- MCSharedCalls
  CanFail = {"offered_deadline_missed"}
  Polling = {FALSE}
SPECIFICATION Spec
INVARIANTS ArmedUnlessStale QuietChangeWasReported
PROPERTIES TimeoutMeansNothingReady
SYMMETRY MCSymmetry
VIEW MCWaitView
