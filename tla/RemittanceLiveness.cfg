CONSTANTS
  r1 = r1
  q1 = q1
  q2 = q2
  NoRemittance = NoRemittance
  Remittances = {r1}
  Requests = {q1, q2}
  FeePayer = "oracle"
  TrustedHashes = TRUE
  MaxAborts = 0
  Handlers = {"create", "fund", "process", "settle", "release", "refund", "sweep", "confirm", "relay", "app", "split"}
SPECIFICATION FairSpec
INVARIANT SettlementMirrored
PROPERTIES
  OutcomeNeverReversed
  OpenFundsReturn
CHECK_DEADLOCK FALSE
