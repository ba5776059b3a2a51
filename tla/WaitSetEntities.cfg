CONSTANTS
  Endpoints <- MCNoEvents
  MaxChanges <- MCOneDeadline
  WaitSets = {w1, w2}
  r = r
  g = g
  e1 = e1
  e2 = e2
  Readers = {r}
  Guards = {g}
  EventObjects = {}
  Null = Null
  ArgLists <- MCEntityCalls
  CanFail = {g}
  Polling = {TRUE, FALSE}
SPECIFICATION FairSpec
INVARIANTS TypeOK ArmedUnlessStale WokenByEntries
PROPERTIES WaiterIsWoken TriggerIsReported
