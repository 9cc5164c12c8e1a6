CONSTANTS
  NoRemittance = NoRemittance
  NoTransfer = NoTransfer
  Remittances = {r1}
  Requests = {q1, q2}
  Transfers = {t1}
  FeePayer = "oracle"
  TrustedHashes = TRUE
  MaxAborts = 1
  MaxJobAborts = 1
  Handlers = {"create", "fund", "process", "settle", "release", "refund", "sweep", "public", "split"}
SPECIFICATION FairTransfersSpec
INVARIANTS
  TransfersTypeOK
  PaidOnlyWhenDelivered
  DeliveredFirst
  ForgottenOnlyByFaults
  SessionsLostToOthers
PROPERTIES
  ImplementsRemittanceService
  DeliveryIsSettled
CHECK_DEADLOCK FALSE
