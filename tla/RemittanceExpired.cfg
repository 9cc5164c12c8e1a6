CONSTANTS
  r1 = r1
  q1 = q1
  q2 = q2
  NoRemittance = NoRemittance
  Remittances = {r1}
  Requests = {q1, q2}
  FeePayer = "admin"
  TrustedHashes = TRUE
  MaxAborts = 0
  Handlers = {"create", "fund", "sweep"}
SPECIFICATION Spec
INVARIANT ExpiredHoldsNoFunds
CHECK_DEADLOCK FALSE
