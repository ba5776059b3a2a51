CONSTANTS
  p1 = p1
  p2 = p2
  pub = pub
  sub = sub
  srv = srv
  Participants = {p1, p2}
  Handles = {srv, sub}
  Owner <- MCTwoOwners
  Kind <- MCKind
  Localhost = {p2}
  MayDepart = {p1}
  CanFail = {}
SPECIFICATION FairSpec
INVARIANTS TypeOK PeersAgree
PROPERTY HandleIsSeen
CHECK_DEADLOCK FALSE
