CONSTANTS
  p1 = p1
  p2 = p2
  pub = pub
  sub = sub
  srv = srv
  Participants = {p1}
  Handles = {pub, sub, srv}
  Owner <- MCOneOwner
  Kind <- MCKind
  Localhost = {}
  MayDepart = {}
  CanFail = {"create", "entity", "publish", "delete"}
SPECIFICATION Spec
INVARIANTS LiveIsRegistered EndedLeavesNoGhost AdvertisedExists
CHECK_DEADLOCK FALSE
