CONSTANTS
  MaxNodes = 2
  MaxInits = 3
  CanFail <- MCAnyFailure
SPECIFICATION FairSpec
INVARIANTS TypeOK NodesAreServed CleanAfterLastNode ListenerIsJoined CallbackTargetExists RemoteCallbacksFindContext
PROPERTY JoinReturns
CHECK_DEADLOCK FALSE
