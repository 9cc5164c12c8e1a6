CONSTANTS
  cust = cust
  wallet = wallet
  ownKey = ownKey
  q1 = q1
  q2 = q2
  i1 = i1
  i2 = i2
  r1 = r1
  r2 = r2
  NoQuote = NoQuote
  NoRem = NoRem
  Requests = {q1, q2}
  MaxFaults = 1
  Wallets = {wallet}
  Customers = {cust}
  OwnKeys = {ownKey}
  Registering = {cust, wallet}
  cheap = cheap
  dear = dear
  NoVersion = NoVersion
  Versions = {cheap, dear}
  Fineness = 10
  RateScale = 100
  Bps = 10000
  PlatformBps = 50
  CorridorBps = 25
  ProviderRates = {0}
  StaticRates = {67}
  Owners = {cust, wallet}
  QuoteIds = {i1, i2}
  Amounts = {9999, 5000}
  Usual = 999
  AnchorFees <- MCAnchorFees
  QuoteTtl = 1
  MaxTime = 1
  RemIds = {r1, r2}
  ContractTtl = 1
  TrustedHashes = FALSE
SPECIFICATION Spec
CONSTRAINT Bounded
SYMMETRY Symmetric
INVARIANTS
  IntakeTypeOK
  SingleUse
  LookalikesAreForeign
  SettlementStandsFirm
  ClaimNotWasted
  EscrowNotLost
  CallRowsTrue
  DirectoryComplete
  PricesAreFair
  HandlersSound
PROPERTIES
  FeeMissedOnlyInRefresh
  KeepsTickets
CHECK_DEADLOCK FALSE
