CONSTANTS
  r1 = r1
  q1 = q1
  q2 = q2
  NoRemittance = NoRemittance
  Remittances = {r1}
  Requests = {q1, q2}
  FeePayer = "admin"
  TrustedHashes = TRUE
  MaxAborts = 2
  Handlers = {"create", "fund", "process", "settle", "release", "refund", "sweep", "payment", "confirm", "relay", "app", "public", "split"}
SPECIFICATION Spec
SYMMETRY Slots
INVARIANTS
  TypeOK
  StatusBackedByEscrow
  CorridorNeedsFundedRow
  SettledNeverExpired
  PaymentPhaseNeedsFunds
  DecisionsJustified
  SettlementInHand
  FundsAreLinked
PROPERTIES
  KeepsPromise
  OnlyLateMovesAreIllegal
CHECK_DEADLOCK FALSE
