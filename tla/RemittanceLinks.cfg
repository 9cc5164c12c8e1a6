CONSTANTS
  r1 = r1
  r2 = r2
  q1 = q1
  q2 = q2
  NoRemittance = NoRemittance
  Remittances = {r1, r2}
  Requests = {q1, q2}
  FeePayer = "oracle"
  TrustedHashes = FALSE
  MaxAborts = 0
  Handlers = {"create", "relay"}
SPECIFICATION Spec
SYMMETRY SlotsAndRemittances
INVARIANTS
  StatusBackedByEscrow
  LinkIsOwn
PROPERTY FollowsTicket
CHECK_DEADLOCK FALSE
