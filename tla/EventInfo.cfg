CONSTANTS
  Endpoints <- MCEndpoints
  MaxChanges <- MCChanges
SPECIFICATION EventSpec
INVARIANTS ChangesConserved SharedCountConserved DroppedWasTold ListenerMatchesCallbacks
PROPERTY SpuriousOnlyByInstall
