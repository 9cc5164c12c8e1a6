CONSTANTS
  NoRemittance = NoRemittance
  NoTransfer = NoTransfer
  Remittances = {r1}
  Requests = {q1, q2}
  Transfers = {t1}
  FeePayer = "oracle"
  TrustedHashes = TRUE
  MaxAborts = 0
  MaxJobAborts = 0
  Handlers = {"create", "fund", "process", "settle", "release", "refund", "sweep"}
SPECIFICATION TransfersSpec
INVARIANT CompletedIsSettled
CHECK_DEADLOCK FALSE
