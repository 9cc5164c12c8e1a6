CONSTANTS
  r1 = r1
  q1 = q1
  q2 = q2
  NoRemittance = NoRemittance
  Remittances = {r1}
  Requests = {q1, q2}
  FeePayer = "admin"
  TrustedHashes = TRUE
  MaxAborts = 1
  Handlers = {"create", "fund", "process", "settle", "release", "sweep"}
SPECIFICATION Spec
INVARIANT SettlementMirrored
CHECK_DEADLOCK FALSE
