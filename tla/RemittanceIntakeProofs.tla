----------------------- MODULE RemittanceIntakeProofs -----------------------
(***************************************************************************)
(* Proofs about the intake, for any sessions, keys, prices, quotes,        *)
(* handlers and failures.                                                  *)
(***************************************************************************)
EXTENDS IntakeRefinement, SequenceTheorems, TLAPS

-----------------------------------------------------------------------------
\* Types

Handlers ==
  {Idle} \union RegisterHandlers \union IssueHandlers \union DiscoverHandlers
         \union QuoteHandlers \union CreateHandlers \union ConfirmHandlers

\* What a create remembers at each await.
LEMMA CreateRemembers ==
  ASSUME NEW h \in Handlers, h.op = "create"
  PROVE  /\ h.pc \in {"account", "owner", "claim", "insert", "signer", "record", "submit",
                      "failed", "confirmed", "link"}
         /\ h.session \in Sessions
         /\ h.pc = "account" =>
              h \in [op : {"create"}, pc : {"account"}, session : Sessions, quote : QuoteIds]
         /\ h.pc = "owner" =>
              h \in [op : {"create"}, pc : {"owner"}, session : Sessions, quote : QuoteIds,
                     account : Accounts]
         /\ h.pc \in {"claim", "insert"} =>
              h \in [op : {"create"}, pc : {"claim", "insert"}, session : Sessions,
                     quote : QuoteIds, account : Accounts, user : UserIds, expiry : Nat]
         /\ h.pc \in {"signer", "record", "submit"} =>
              h \in [op : {"create"}, pc : {"signer", "record", "submit", "failed"},
                     session : Sessions, rem : RemIds]
         /\ h.pc \in {"confirmed", "link"} =>
              h \in [op : {"create"}, pc : {"confirmed", "failed", "link"},
                     session : Sessions, rem : RemIds, link : Nat]
         /\ h.pc \in {"signer", "record", "submit", "failed", "confirmed", "link"} =>
              h.rem \in RemIds
BY DEF Handlers, Idle, RegisterHandlers, IssueHandlers, DiscoverHandlers, QuoteHandlers,
       CreateHandlers, ConfirmHandlers

\* What the other handlers remember.
LEMMA OthersRemember ==
  ASSUME NEW h \in Handlers
  PROVE  /\ h.op = "register" => h \in RegisterHandlers
         /\ h.op = "issue" => h \in IssueHandlers
         /\ h.op = "discover" => h \in DiscoverHandlers
         /\ h.op = "quote" /\ h.pc = "fee" =>
              h \in [op : {"quote"}, pc : {"fee"}, owner : Owners, source : Nat, rate : Nat]
         /\ h.op = "quote" /\ h.pc = "insert" =>
              h \in [op : {"quote"}, pc : {"insert"}, owner : Owners, terms : AllTerms,
                     expires : Nat]
         /\ h.op = "confirm" /\ h.pc = "newest" =>
              h \in [op : {"confirm"}, pc : {"newest"}, session : Sessions, rem : RemIds]
         /\ h.op = "confirm" /\ h.pc \in {"match", "link"} =>
              h \in [op : {"confirm"}, pc : {"match", "link"}, session : Sessions,
                     rem : RemIds, link : Nat]
         /\ h.op = "confirm" =>
              /\ h.pc \in {"newest", "match", "link"}
              /\ h.rem \in RemIds
              /\ h.session \in Sessions
BY DEF Handlers, Idle, RegisterHandlers, IssueHandlers, DiscoverHandlers, QuoteHandlers,
       CreateHandlers, ConfirmHandlers

\* One handler goes on, the others stay where they are.
LEMMA OneMoves ==
  ASSUME NEW q \in Requests, NEW h, req \in [Requests -> Handlers],
         req' = [req EXCEPT ![q] = h]
  PROVE  /\ req'[q] = h
         /\ \A p \in Requests : p # q => req'[p] = req[p]
         /\ h \in Handlers => req' \in [Requests -> Handlers]
OBVIOUS

-----------------------------------------------------------------------------
\* Prices

\* Division rounds down.
LEMMA DivisionRounds ==
  ASSUME NEW a \in Nat, NEW c \in Nat \ {0}
  PROVE  a \div c \in Nat /\ Rounds(a \div c, a, c)
BY DEF Rounds

\* What a decimal string made of a number of stroops says is that number.
LEMMA StroopsRoundTrip ==
  ASSUME NEW n \in Nat
  PROVE  ToStroops(FromStroops(n)) = n
BY PricingAssumption DEF ToStroops, FromStroops

\* What a payable request is priced at is fair, and of the right type.
LEMMA PayableIsFair ==
  ASSUME NEW source \in Nat, NEW rate \in Nat, NEW fee \in Fees, Payable(source, rate, fee)
  PROVE  Terms(source, rate, fee) \in AllTerms /\ FairTerms(Terms(source, rate, fee))
<1> DEFINE platform == (source * PlatformBps) \div Bps
           corridor == (source * CorridorBps) \div Bps
           rest == source - platform - corridor
           gross == (rest * rate) \div RateScale
           share == (gross * fee.bps) \div Bps
<1>1. platform \in Nat /\ Rounds(platform, source * PlatformBps, Bps)
  BY PricingAssumption, DivisionRounds, source * PlatformBps \in Nat
<1>2. corridor \in Nat /\ Rounds(corridor, source * CorridorBps, Bps)
  BY PricingAssumption, DivisionRounds, source * CorridorBps \in Nat
<1>3. rest \in Nat /\ rest > 0
  BY <1>1, <1>2 DEF Payable, AfterSourceFees
<1>4. gross \in Nat /\ Rounds(gross, rest * rate, RateScale)
  <2>1. rest * rate \in Nat
    BY <1>3
  <2> HIDE DEF rest
  <2> QED
    BY <2>1, PricingAssumption, DivisionRounds
<1>5. share \in Nat
  <2>1. gross * fee.bps \in Nat
    BY <1>4 DEF Fees
  <2> HIDE DEF gross
  <2> QED
    BY <2>1, PricingAssumption, DivisionRounds
<1>6. gross = Gross(source, rate) /\ share + fee.fixed = AnchorFee(gross, fee)
  BY DEF Gross, AfterSourceFees, AnchorFee
<1>7. share + fee.fixed \in Nat
  BY <1>5 DEF Fees
<1> HIDE DEF platform, corridor, rest, gross, share
<1>8. ComputeDestination(source, rate, fee)
        = [source |-> source, rate |-> rate, platform |-> platform, corridor |-> corridor,
           anchor |-> share + fee.fixed, destination |-> gross - (share + fee.fixed)]
  BY <1>6 DEF ComputeDestination, platform, corridor
<1>9. Terms(source, rate, fee) = ComputeDestination(source, rate, fee)
  <2>1. /\ ToStroops(FromStroops(platform)) = platform
        /\ ToStroops(FromStroops(corridor)) = corridor
        /\ ToStroops(FromStroops(share + fee.fixed)) = share + fee.fixed
    BY <1>1, <1>2, <1>7, StroopsRoundTrip
  <2> DEFINE t == ComputeDestination(source, rate, fee)
  <2>2. Terms(source, rate, fee)
          = [t EXCEPT !.platform = ToStroops(FromStroops(t.platform)),
                      !.corridor = ToStroops(FromStroops(t.corridor)),
                      !.anchor = ToStroops(FromStroops(t.anchor))]
    BY DEF Terms
  <2>3. t.platform = platform /\ t.corridor = corridor /\ t.anchor = share + fee.fixed
    BY <1>8
  <2> QED
    BY <1>8, <2>1, <2>2, <2>3
<1>10. gross - (share + fee.fixed) \in Nat /\ gross - (share + fee.fixed) > 0
  BY <1>4, <1>7, <1>8 DEF Payable
<1>11. (gross - (share + fee.fixed)) + (share + fee.fixed) = gross
  BY <1>4, <1>7
<1>12. Terms(source, rate, fee) \in AllTerms
  BY <1>1, <1>2, <1>7, <1>8, <1>9, <1>10 DEF AllTerms
<1> QED
  BY <1>1, <1>2, <1>3, <1>4, <1>8, <1>9, <1>10, <1>11, <1>12 DEF FairTerms, rest

-----------------------------------------------------------------------------
\* Every step keeps the types

LEMMA InitTypes == Init => IntakeTypeOK
BY DeskAssumption, QuoteAssumption, DirectoryAssumption
   DEF Init, DeskInit, RegistryInit, DirectoryInit, QuotesInit, IntakeInit, IntakeTypeOK,
       VersionsOrNone

\* The types of the tables that only some steps touch.
TablesTypeOK ==
  /\ users \subseteq UserIds
  /\ accounts \subseteq Accounts
  /\ anchor \in VersionsOrNone /\ assets \subseteq Versions
  /\ quotes \in [QuoteIds -> QuoteRows \union {NoRow}]
  /\ now \in 0..MaxTime
  /\ rems \in [RemIds -> RemRows \union {NoRemRow}]
  /\ ledger \in Seq(Commitments)
  /\ calls \in [RemIds -> {"none", "pending", "confirmed", "failed"}]
  /\ prepared \in [RemIds -> {"none", "ready", "spent"}]
  /\ burnt \subseteq QuoteIds

LEMMA TypesSplit ==
  IntakeTypeOK <=> TablesTypeOK /\ faults \in 0..MaxFaults /\ req \in [Requests -> Handlers]
BY DEF IntakeTypeOK, TablesTypeOK, Handlers

\* A handler that begins, becomes another or ends keeps the handlers' types.
LEMMA HandlerGoesOn ==
  ASSUME req \in [Requests -> Handlers], faults \in 0..MaxFaults,
         NEW q \in Requests, NEW h \in Handlers, Begin(q, h) \/ Becomes(q, h)
  PROVE  req' \in [Requests -> Handlers] /\ faults' \in 0..MaxFaults
BY DEF Begin, Becomes

LEMMA HandlerEnds ==
  ASSUME req \in [Requests -> Handlers], faults \in 0..MaxFaults,
         NEW q \in Requests, Ends(q) \/ Dies(q)
  PROVE  req' \in [Requests -> Handlers] /\ faults' \in 0..MaxFaults
BY DeskAssumption DEF Ends, Becomes, Dies, Faulty, Handlers

LEMMA RegistryTypes ==
  ASSUME IntakeTypeOK, Accounting
  PROVE  IntakeTypeOK'
<1>0. TablesTypeOK /\ faults \in 0..MaxFaults /\ req \in [Requests -> Handlers]
  BY TypesSplit
<1>1. UNCHANGED <<directoryVars, quoteVars, intakeVars>>
  BY DEF Accounting
<1> SUFFICES /\ users' \subseteq UserIds /\ accounts' \subseteq Accounts
             /\ req' \in [Requests -> Handlers] /\ faults' \in 0..MaxFaults
  BY <1>0, <1>1, TypesSplit
     DEF TablesTypeOK, IntakeTypeOK, Handlers, directoryVars, quoteVars, intakeVars
<1>2. ASSUME NEW q \in Requests, NEW s \in Sessions, Register(q, s)
      PROVE  /\ users' \subseteq UserIds /\ accounts' \subseteq Accounts
             /\ req' \in [Requests -> Handlers] /\ faults' \in 0..MaxFaults
  <2>1. PICK k \in Keys :
          Begin(q, [op |-> "register", session |-> s, key |-> k,
                    pc |-> IF UserOf(s) \in users THEN "account" ELSE "newUser"])
    BY <1>2 DEF Register
  <2> QED
    BY <1>0, <1>2, <2>1, HandlerGoesOn
       DEF Register, registryVars, TablesTypeOK, Handlers, RegisterHandlers
<1>3. ASSUME NEW q \in Requests, NEW c \in Customers, IssueCustodial(q, c)
      PROVE  /\ users' \subseteq UserIds /\ accounts' \subseteq Accounts
             /\ req' \in [Requests -> Handlers] /\ faults' \in 0..MaxFaults
  BY <1>0, <1>3, HandlerGoesOn DEF IssueCustodial, TablesTypeOK, Handlers, IssueHandlers, UserIds
<1>4. ASSUME NEW q \in Requests, RegistryStep(q)
      PROVE  /\ users' \subseteq UserIds /\ accounts' \subseteq Accounts
             /\ req' \in [Requests -> Handlers] /\ faults' \in 0..MaxFaults
  <2>1. req[q] \in Handlers
    BY <1>0
  <2>2. CASE InsertUser(q) \/ LookUpAccount(q)
    <3>1. req[q] \in RegisterHandlers
      BY <2>1, <2>2, OthersRemember DEF InsertUser, LookUpAccount, At
    <3>2. ASSUME NEW pc \in {"account", "insert"}
          PROVE  [req[q] EXCEPT !.pc = pc] \in Handlers
      BY <3>1 DEF RegisterHandlers, Handlers
    <3>3. req' \in [Requests -> Handlers] /\ faults' \in 0..MaxFaults
      BY <1>0, <2>2, <3>2, HandlerGoesOn, HandlerEnds DEF InsertUser, LookUpAccount, Goes
    <3>4. UserOf(req[q].session) \in UserIds
      BY <3>1 DEF RegisterHandlers, UserIds
    <3> QED
      BY <1>0, <2>2, <3>3, <3>4 DEF InsertUser, LookUpAccount, TablesTypeOK, registryVars
  <2>3. CASE InsertAccount(q)
    <3>1. req[q] \in RegisterHandlers
      BY <2>1, <2>3, OthersRemember DEF InsertAccount, At
    <3>2. [user |-> UserOf(req[q].session), key |-> req[q].key] \in Accounts
      BY <3>1 DEF RegisterHandlers, UserIds, Accounts
    <3> QED
      BY <1>0, <2>3, <3>2, HandlerEnds DEF InsertAccount, TablesTypeOK
  <2>4. CASE InsertCustodial(q)
    <3>1. req[q] \in IssueHandlers
      BY <2>1, <2>4, OthersRemember DEF InsertCustodial, At
    <3>2. req[q].session \in Customers
      BY <3>1 DEF IssueHandlers
    <3>3. req[q].session \in UserIds /\ req[q].session \in Keys
      BY <3>2 DEF UserIds, Keys
    <3> QED
      BY <1>0, <2>4, <3>3, HandlerEnds DEF InsertCustodial, TablesTypeOK, Accounts
  <2> QED
    BY <1>4, <2>2, <2>3, <2>4 DEF RegistryStep
<1> QED
  BY <1>2, <1>3, <1>4 DEF Accounting, RegistryNext, Sessions

LEMMA DirectoryTypes ==
  ASSUME IntakeTypeOK, Discovery
  PROVE  IntakeTypeOK'
<1>0. TablesTypeOK /\ faults \in 0..MaxFaults /\ req \in [Requests -> Handlers]
  BY TypesSplit
<1>1. UNCHANGED <<registryVars, quoteVars, intakeVars>>
  BY DEF Discovery
<1> SUFFICES /\ anchor' \in VersionsOrNone /\ assets' \subseteq Versions
             /\ req' \in [Requests -> Handlers] /\ faults' \in 0..MaxFaults
  BY <1>0, <1>1, TypesSplit
     DEF TablesTypeOK, IntakeTypeOK, Handlers, registryVars, quoteVars, intakeVars
<1>2. ASSUME NEW q \in Requests, Discover(q)
      PROVE  /\ anchor' \in VersionsOrNone /\ assets' \subseteq Versions
             /\ req' \in [Requests -> Handlers] /\ faults' \in 0..MaxFaults
  BY <1>0, <1>2, HandlerGoesOn
     DEF Discover, directoryVars, TablesTypeOK, Handlers, DiscoverHandlers
<1>3. ASSUME NEW q \in Requests, DirectoryStep(q)
      PROVE  /\ anchor' \in VersionsOrNone /\ assets' \subseteq Versions
             /\ req' \in [Requests -> Handlers] /\ faults' \in 0..MaxFaults
  <2>1. req[q] \in DiscoverHandlers
    BY <1>0, <1>3, OthersRemember
       DEF DirectoryStep, SelectAnchor, InsertAnchor, UpdateAnchor, DeleteAssets,
           InsertAssets, At
  <2>2. req[q].version \in Versions
    BY <2>1 DEF DiscoverHandlers
  <2>3. ASSUME NEW pc \in {"select", "insert", "update", "delete", "assets"}
        PROVE  [req[q] EXCEPT !.pc = pc] \in Handlers
    BY <2>1 DEF DiscoverHandlers, Handlers
  <2>4. \/ Ends(q) \/ Goes(q, "update") \/ Goes(q, "insert") \/ Goes(q, "assets")
        \/ Goes(q, "delete")
    BY <1>3 DEF DirectoryStep, SelectAnchor, InsertAnchor, UpdateAnchor, DeleteAssets,
                InsertAssets
  <2>5. req' \in [Requests -> Handlers] /\ faults' \in 0..MaxFaults
    BY <1>0, <2>3, <2>4, HandlerGoesOn, HandlerEnds DEF Goes
  <2> QED
    BY <1>0, <1>3, <2>2, <2>5
       DEF DirectoryStep, SelectAnchor, InsertAnchor, UpdateAnchor, DeleteAssets,
           InsertAssets, TablesTypeOK, VersionsOrNone, directoryVars
<1> QED
  BY <1>2, <1>3 DEF Discovery, DirectoryNext

\* The rates and fees that compute meets are natural numbers.
LEMMA PricesAreNatural ==
  ASSUME IntakeTypeOK
  PROVE  /\ \A rate \in ResolvedRates : rate \in Nat
         /\ \A fee \in ListedFees : fee \in Fees
         /\ \A amount \in Amounts : ToStroops(amount) \in Int
<1>1. \A rate \in ResolvedRates : rate \in Nat
  BY PricingAssumption DEF ResolvedRates, Fallback
<1>2. \A fee \in ListedFees : fee \in Fees
  BY QuoteAssumption DEF ListedFees, NoFee, Fees, IntakeTypeOK
<1>3. \A amount \in Amounts : ToStroops(amount) \in Int
  BY PricingAssumption, QuoteAssumption DEF ToStroops
<1> QED
  BY <1>1, <1>2, <1>3

\* A handler that goes on to insert a quote holds a fair offer.
LEMMA PricedIsFair ==
  ASSUME now \in Nat, NEW s \in Owners, NEW source \in Nat, NEW rate \in Nat,
         NEW fee \in Fees, Payable(source, rate, fee)
  PROVE  /\ Priced(s, source, rate, fee) \in Handlers
         /\ Priced(s, source, rate, fee).op = "quote"
         /\ Priced(s, source, rate, fee).pc = "insert"
         /\ FairTerms(Priced(s, source, rate, fee).terms)
BY PayableIsFair, QuoteAssumption DEF Priced, Handlers, QuoteHandlers

\* What a quote request leaves in its slot.
LEMMA RequestQuoteBegins ==
  ASSUME IntakeTypeOK, NEW q \in Requests, NEW s \in Owners, RequestQuote(q, s)
  PROVE  \E h \in Handlers :
           /\ Begin(q, h)
           /\ h.op = "quote"
           /\ h.pc = "fee" => anchor # NoVersion
           /\ h.pc = "insert" => FairTerms(h.terms)
<1>0. now \in Nat
  BY QuoteAssumption DEF IntakeTypeOK
<1>1. PICK amount \in Amounts, rate \in ResolvedRates :
        LET source == ToStroops(amount) IN
        /\ source > 0
        /\ \/ /\ anchor # NoVersion
              /\ Begin(q, [op |-> "quote", pc |-> "fee", owner |-> s,
                           source |-> source, rate |-> rate])
           \/ /\ Payable(source, rate, NoFee)
              /\ Begin(q, Priced(s, source, rate, NoFee))
  BY DEF RequestQuote
<1>2. ToStroops(amount) \in Nat /\ rate \in Nat
  BY <1>1, PricesAreNatural
<1>3. NoFee \in Fees
  BY DEF NoFee, Fees
<1>4. CASE anchor # NoVersion /\ Begin(q, [op |-> "quote", pc |-> "fee", owner |-> s,
                                           source |-> ToStroops(amount), rate |-> rate])
  BY <1>2, <1>4 DEF Handlers, QuoteHandlers
<1>5. CASE /\ Payable(ToStroops(amount), rate, NoFee)
           /\ Begin(q, Priced(s, ToStroops(amount), rate, NoFee))
  BY <1>0, <1>2, <1>3, <1>5, PricedIsFair
<1> QED
  BY <1>1, <1>4, <1>5

\* What the reading of the anchor's fee leaves in its slot.
LEMMA FeeIsRead ==
  ASSUME IntakeTypeOK, NEW q \in Requests, ReadAnchorFee(q)
  PROVE  \/ Ends(q)
         \/ \E h \in Handlers : /\ Becomes(q, h)
                                /\ h.op = "quote" /\ h.pc = "insert"
                                /\ FairTerms(h.terms)
<1>0. now \in Nat /\ req[q] \in Handlers
  BY QuoteAssumption, TypesSplit DEF IntakeTypeOK
<1>1. req[q].owner \in Owners /\ req[q].source \in Nat /\ req[q].rate \in Nat
  BY <1>0, OthersRemember DEF ReadAnchorFee, At
<1>2. PICK fee \in ListedFees :
        IF Payable(req[q].source, req[q].rate, fee)
          THEN Becomes(q, Priced(req[q].owner, req[q].source, req[q].rate, fee))
          ELSE Ends(q)
  BY DEF ReadAnchorFee
<1>3. fee \in Fees
  BY PricesAreNatural
<1> QED
  BY <1>0, <1>1, <1>2, <1>3, PricedIsFair

\* An INSERT of a quote, or its conflict.
LEMMA QuoteIsInserted ==
  ASSUME IntakeTypeOK, NEW q \in Requests, InsertQuote(q)
  PROVE  \/ UNCHANGED quotes
         \/ /\ \A i \in QuoteIds : ~SameQuote(i, req[q].owner, req[q].terms)
            /\ \E i \in QuoteIds :
                 LET row == [owner |-> req[q].owner, terms |-> req[q].terms,
                             expires |-> req[q].expires, used |-> FALSE] IN
                 /\ ~Stored(i)
                 /\ row \in QuoteRows
                 /\ quotes' \in [QuoteIds -> QuoteRows \union {NoRow}]
                 /\ quotes'[i] = row
                 /\ \A j \in QuoteIds : j # i => quotes'[j] = quotes[j]
<1>1. req[q] \in [op : {"quote"}, pc : {"insert"}, owner : Owners, terms : AllTerms, expires : Nat]
  BY OthersRemember, TypesSplit DEF InsertQuote, At
<1>2. [owner |-> req[q].owner, terms |-> req[q].terms,
       expires |-> req[q].expires, used |-> FALSE] \in QuoteRows
  BY <1>1 DEF QuoteRows
<1>3. quotes \in [QuoteIds -> QuoteRows \union {NoRow}]
  BY DEF IntakeTypeOK
<1> QED
  BY <1>2, <1>3 DEF InsertQuote

LEMMA QuoteTypes ==
  ASSUME IntakeTypeOK, Quoting
  PROVE  IntakeTypeOK'
<1>0. TablesTypeOK /\ faults \in 0..MaxFaults /\ req \in [Requests -> Handlers]
  BY TypesSplit
<1>1. UNCHANGED <<registryVars, directoryVars, intakeVars>>
  BY DEF Quoting
<1> SUFFICES /\ quotes' \in [QuoteIds -> QuoteRows \union {NoRow}] /\ now' \in 0..MaxTime
             /\ req' \in [Requests -> Handlers] /\ faults' \in 0..MaxFaults
  BY <1>0, <1>1, TypesSplit
     DEF TablesTypeOK, IntakeTypeOK, Handlers, registryVars, directoryVars, intakeVars
<1>2. ASSUME NEW q \in Requests, NEW s \in Sessions, RequestQuote(q, s)
      PROVE  /\ quotes' \in [QuoteIds -> QuoteRows \union {NoRow}] /\ now' \in 0..MaxTime
             /\ req' \in [Requests -> Handlers] /\ faults' \in 0..MaxFaults
  BY <1>0, <1>2, RequestQuoteBegins, IntakeAssumption, HandlerGoesOn
     DEF RequestQuote, quoteVars, TablesTypeOK
<1>3. ASSUME NEW q \in Requests, ReadAnchorFee(q)
      PROVE  /\ quotes' \in [QuoteIds -> QuoteRows \union {NoRow}] /\ now' \in 0..MaxTime
             /\ req' \in [Requests -> Handlers] /\ faults' \in 0..MaxFaults
  BY <1>0, <1>3, FeeIsRead, HandlerGoesOn, HandlerEnds
     DEF ReadAnchorFee, quoteVars, TablesTypeOK
<1>4. ASSUME NEW q \in Requests, InsertQuote(q)
      PROVE  /\ quotes' \in [QuoteIds -> QuoteRows \union {NoRow}] /\ now' \in 0..MaxTime
             /\ req' \in [Requests -> Handlers] /\ faults' \in 0..MaxFaults
  BY <1>0, <1>4, QuoteIsInserted, HandlerEnds DEF InsertQuote, TablesTypeOK
<1>5. CASE Tick
  BY <1>0, <1>5, QuoteAssumption DEF Tick, deskVars, TablesTypeOK
<1> QED
  BY <1>2, <1>3, <1>4, <1>5 DEF Quoting, QuoteStep

\* A row is a row, and a quote that is stored has its terms.
LEMMA InsertedIsRow ==
  ASSUME IntakeTypeOK, NEW r \in RemIds
  PROVE  /\ Inserted(r) <=> rems[r] \in RemRows
         /\ Inserted(r) <=> rems[r].quote \in QuoteIds
         /\ rems[r].link # 0 => Inserted(r)
BY QuoteAssumption DEF IntakeTypeOK, Inserted, RemRows, NoRemRow

LEMMA StoredIsRow ==
  ASSUME IntakeTypeOK, NEW i \in QuoteIds
  PROVE  Stored(i) => quotes[i] \in QuoteRows
BY DEF IntakeTypeOK, Stored

\* What a row commits to is of the ledger's type.
LEMMA CommitmentTyped ==
  ASSUME IntakeTypeOK, RowsSound, NEW r \in RemIds, Inserted(r)
  PROVE  Commitment(r) \in Commitments
<1>1. rems[r] \in RemRows /\ Stored(rems[r].quote)
  BY InsertedIsRow DEF RowsSound
<1>2. quotes[rems[r].quote] \in QuoteRows /\ rems[r].account \in Accounts /\ rems[r].expiry \in Nat
  BY <1>1, StoredIsRow DEF Stored, RemRows
<1> QED
  BY <1>2 DEF Commitment, Commitments, QuoteRows, Accounts

\* The owner of a row fits the account that was found before.
LEMMA OwnerFits ==
  ASSUME RegistrySound, users \subseteq UserIds, NEW s \in Sessions, NEW a \in accounts, Owns(s, a)
  PROVE  ResolveUserId(s) \in UserIds /\ UserFits(ResolveUserId(s), a)
<1>1. CASE s \in Customers /\ a = [user |-> s, key |-> s]
  BY <1>1 DEF ResolveUserId, UserIds, UserFits, IdentitySplit
<1>2. CASE a.user = UserOf(s)
  <2>1. UserOf(s) \in users
    BY <1>2 DEF RegistrySound
  <2> QED
    BY <1>2, <2>1 DEF ResolveUserId, UserFits
<1> QED
  BY <1>1, <1>2 DEF Owns

\* Opening an escrow appends what the row commits to.
LEMMA OpenAppends ==
  ASSUME IntakeTypeOK, RowsSound, NEW r \in RemIds, Inserted(r), Open(r)
  PROVE  /\ ledger' \in Seq(Commitments)
         /\ Len(ledger) \in Nat
         /\ Escrows = 1..Len(ledger)
         /\ Escrows' = 1..(Len(ledger) + 1)
         /\ \A n \in Escrows : n \in Escrows' /\ ledger'[n] = ledger[n]
         /\ ledger'[Len(ledger) + 1] = Commitment(r)
<1>1. ledger \in Seq(Commitments) /\ Commitment(r) \in Commitments
  BY CommitmentTyped DEF IntakeTypeOK
<1>2. ledger' = Append(ledger, Commitment(r))
  BY DEF Open
<1>3. /\ ledger' \in Seq(Commitments)
      /\ Len(ledger') = Len(ledger) + 1
      /\ \A n \in 1..Len(ledger) : ledger'[n] = ledger[n]
      /\ ledger'[Len(ledger) + 1] = Commitment(r)
  BY <1>1, <1>2, AppendProperties
<1>4. Len(ledger) \in Nat /\ DOMAIN ledger = 1..Len(ledger) /\ DOMAIN ledger' = 1..Len(ledger')
  BY <1>1, <1>3
<1> QED
  BY <1>3, <1>4 DEF Escrows

-----------------------------------------------------------------------------
\* What each step of an intake handler does

Alone(q) ==
  /\ req' \in [Requests -> Handlers]
  /\ \A p \in Requests : p # q => req'[p] = req[p]

LEMMA CreateDoes ==
  ASSUME IntakeTypeOK, NEW q \in Requests, NEW s \in Sessions, Create(q, s)
  PROVE  /\ Alone(q)
         /\ UNCHANGED <<faults, registryVars, directoryVars, quoteVars, intakeVars>>
         /\ req[q] = Idle
         /\ req'[q].op = "create" /\ req'[q].pc = "account"
         /\ req'[q].session = s /\ req'[q].quote \in QuoteIds
         /\ Stored(req'[q].quote)
<1>1. req \in [Requests -> Handlers]
  BY TypesSplit
<1>2. PICK i \in QuoteIds :
        /\ Usable(i)
        /\ Begin(q, [op |-> "create", pc |-> "account", session |-> s, quote |-> i])
  BY DEF Create
<1>3. [op |-> "create", pc |-> "account", session |-> s, quote |-> i] \in Handlers
  BY DEF Handlers, CreateHandlers
<1>4. req'[q] = [op |-> "create", pc |-> "account", session |-> s, quote |-> i]
  BY <1>1, <1>2 DEF Begin
<1> QED
  BY <1>1, <1>2, <1>3, <1>4 DEF Create, Begin, Usable, Alone

LEMMA ResolveSenderDoes ==
  ASSUME IntakeTypeOK, NEW q \in Requests, ResolveSender(q)
  PROVE  /\ Alone(q)
         /\ UNCHANGED <<faults, registryVars, directoryVars, quoteVars, intakeVars>>
         /\ req[q].op = "create" /\ req[q].pc = "account"
         /\ req[q].session \in Sessions /\ req[q].quote \in QuoteIds
         /\ \/ req'[q] = Idle
            \/ /\ req'[q].op = "create" /\ req'[q].pc = "owner"
               /\ req'[q].session = req[q].session /\ req'[q].quote = req[q].quote
               /\ req'[q].account \in accounts
               /\ req'[q].account.user = ResolveUserId(req[q].session)
<1> DEFINE u == ResolveUserId(req[q].session)
<1>1. req \in [Requests -> Handlers] /\ accounts \subseteq Accounts
  BY TypesSplit DEF TablesTypeOK
<1>2. /\ req[q].op = "create" /\ req[q].pc = "account"
      /\ req[q].session \in Sessions /\ req[q].quote \in QuoteIds
  BY <1>1, CreateRemembers DEF ResolveSender, At
<1>3. CASE Ends(q)
  BY <1>1, <1>2, <1>3 DEF ResolveSender, Ends, Becomes, Alone, Handlers
<1>4. ASSUME NEW k \in Keys, HasAccount(u, k),
             Becomes(q, [op |-> "create", pc |-> "owner", session |-> req[q].session,
                         quote |-> req[q].quote, account |-> [user |-> u, key |-> k]])
      PROVE  /\ Alone(q)
             /\ UNCHANGED faults
             /\ req'[q].op = "create" /\ req'[q].pc = "owner"
             /\ req'[q].session = req[q].session /\ req'[q].quote = req[q].quote
             /\ req'[q].account \in accounts
             /\ req'[q].account.user = u
  <2>1. [user |-> u, key |-> k] \in accounts
    BY <1>4 DEF HasAccount
  <2>2. [op |-> "create", pc |-> "owner", session |-> req[q].session,
         quote |-> req[q].quote, account |-> [user |-> u, key |-> k]] \in Handlers
    BY <1>1, <1>2, <2>1 DEF Handlers, CreateHandlers
  <2> HIDE DEF u
  <2>3. /\ Alone(q) /\ UNCHANGED faults
        /\ req'[q] = [op |-> "create", pc |-> "owner", session |-> req[q].session,
                      quote |-> req[q].quote, account |-> [user |-> u, key |-> k]]
    BY <1>1, <1>4, <2>2 DEF Becomes, Alone
  <2> QED
    BY <2>1, <2>3
<1> QED
  BY <1>2, <1>3, <1>4 DEF ResolveSender

LEMMA ResolveOwnerDoes ==
  ASSUME IntakeTypeOK, RegistrySound, CreatesSound, NEW q \in Requests, ResolveOwner(q)
  PROVE  /\ Alone(q)
         /\ UNCHANGED <<faults, registryVars, directoryVars, quoteVars, intakeVars>>
         /\ req[q].op = "create" /\ req[q].pc = "owner"
         /\ UserFits(ResolveUserId(req[q].session), req[q].account)
         /\ req'[q].op = "create" /\ req'[q].pc = "claim"
         /\ req'[q].session = req[q].session /\ req'[q].quote = req[q].quote
         /\ req'[q].account = req[q].account
         /\ req'[q].user = ResolveUserId(req[q].session)
<1> DEFINE c == req[q]
           expiry == Earlier(quotes[c.quote].expires, now + ContractTtl)
<1>1. req \in [Requests -> Handlers]
  BY TypesSplit
<1>2. c.op = "create" /\ c.pc = "owner"
  BY DEF ResolveOwner, At
<1>3. c.session \in Sessions /\ c.quote \in QuoteIds /\ c.account \in Accounts
  BY <1>1, <1>2, CreateRemembers
<1>4. Stored(c.quote) /\ c.account \in accounts /\ Owns(c.session, c.account)
  BY <1>2 DEF CreatesSound
<1>5. ResolveUserId(c.session) \in UserIds /\ UserFits(ResolveUserId(c.session), c.account)
  BY <1>3, <1>4, OwnerFits DEF IntakeTypeOK
<1>6. expiry \in Nat
  <2>1. quotes[c.quote].expires \in Nat
    BY <1>3, <1>4, StoredIsRow DEF QuoteRows
  <2>2. now + ContractTtl \in Nat
    BY QuoteAssumption, IntakeAssumption DEF IntakeTypeOK
  <2> QED
    BY <2>1, <2>2 DEF Earlier
<1> HIDE DEF expiry
<1>7. [op |-> "create", pc |-> "claim", session |-> c.session, quote |-> c.quote,
       account |-> c.account, user |-> ResolveUserId(c.session), expiry |-> expiry] \in Handlers
  BY <1>3, <1>5, <1>6 DEF Handlers, CreateHandlers
<1>8. Becomes(q, [op |-> "create", pc |-> "claim", session |-> c.session, quote |-> c.quote,
                  account |-> c.account, user |-> ResolveUserId(c.session), expiry |-> expiry])
  BY DEF ResolveOwner, expiry
<1> HIDE DEF c
<1>9. Alone(q) /\ UNCHANGED faults
      /\ req'[q] = [op |-> "create", pc |-> "claim", session |-> c.session, quote |-> c.quote,
                    account |-> c.account, user |-> ResolveUserId(c.session), expiry |-> expiry]
  BY <1>1, <1>7, <1>8 DEF Becomes, Alone
<1> QED
  BY <1>2, <1>5, <1>6, <1>9 DEF ResolveOwner, c

LEMMA ClaimDoes ==
  ASSUME IntakeTypeOK, NEW q \in Requests, Claim(q)
  PROVE  /\ Alone(q)
         /\ UNCHANGED <<faults, now, registryVars, directoryVars, intakeVars>>
         /\ req[q].op = "create" /\ req[q].pc = "claim"
         /\ req[q].quote \in QuoteIds
         /\ \/ req'[q] = Idle /\ UNCHANGED quotes
            \/ /\ ~quotes[req[q].quote].used
               /\ quotes' = [quotes EXCEPT ![req[q].quote].used = TRUE]
               /\ req'[q].op = "create" /\ req'[q].pc = "insert"
               /\ req'[q].session = req[q].session /\ req'[q].quote = req[q].quote
               /\ req'[q].account = req[q].account /\ req'[q].user = req[q].user
<1>1. req \in [Requests -> Handlers]
  BY TypesSplit
<1>2. req[q].op = "create" /\ req[q].pc = "claim"
  BY DEF Claim, At
<1>3. req[q] \in [op : {"create"}, pc : {"claim", "insert"}, session : Sessions,
                  quote : QuoteIds, account : Accounts, user : UserIds, expiry : Nat]
  BY <1>1, <1>2, CreateRemembers
<1> DEFINE h == [req[q] EXCEPT !.pc = "insert"]
<1>4. h \in Handlers
  BY <1>3 DEF Handlers, CreateHandlers
<1>5. /\ h.op = "create" /\ h.pc = "insert"
      /\ h.session = req[q].session /\ h.quote = req[q].quote
      /\ h.account = req[q].account /\ h.user = req[q].user
  BY <1>3
<1> HIDE DEF h
<1>6. Goes(q, "insert") => Becomes(q, h)
  BY DEF Goes, h
<1> QED
  BY <1>1, <1>2, <1>3, <1>4, <1>5, <1>6
     DEF Claim, Claimable, MarkUsed, Ends, Becomes, Alone, Handlers

\* The INSERT is made, and its row is the handler's.
Books(q) ==
  \E r \in RemIds :
    LET row == [quote |-> req[q].quote, user |-> req[q].user,
                account |-> req[q].account, expiry |-> req[q].expiry, link |-> 0] IN
    /\ ~Inserted(r)
    /\ row \in RemRows
    /\ rems' \in [RemIds -> RemRows \union {NoRemRow}]
    /\ rems'[r] = row
    /\ \A t \in RemIds : t # r => rems'[t] = rems[t]
    /\ rems'[r].quote = req[q].quote /\ rems'[r].user = req[q].user
    /\ rems'[r].account = req[q].account /\ rems'[r].link = 0
    /\ req'[q].op = "create" /\ req'[q].pc = "signer" /\ req'[q].rem = r

LEMMA InsertRemittanceDoes ==
  ASSUME IntakeTypeOK, NEW q \in Requests, InsertRemittance(q)
  PROVE  /\ Alone(q)
         /\ UNCHANGED <<faults, registryVars, directoryVars, quoteVars, ledger, calls, prepared>>
         /\ req[q].op = "create" /\ req[q].pc = "insert" /\ req[q].quote \in QuoteIds
         /\ \/ Books(q) /\ UNCHANGED burnt
            \/ /\ req'[q] = Idle
               /\ burnt' = burnt \union {req[q].quote}
               /\ UNCHANGED rems
<1>1. req \in [Requests -> Handlers] /\ rems \in [RemIds -> RemRows \union {NoRemRow}]
  BY TypesSplit DEF TablesTypeOK
<1>2. req[q].op = "create" /\ req[q].pc = "insert"
  BY DEF InsertRemittance, At
<1>3. req[q] \in [op : {"create"}, pc : {"claim", "insert"}, session : Sessions,
                  quote : QuoteIds, account : Accounts, user : UserIds, expiry : Nat]
  BY <1>1, <1>2, CreateRemembers
<1> DEFINE row == [quote |-> req[q].quote, user |-> req[q].user,
                   account |-> req[q].account, expiry |-> req[q].expiry, link |-> 0]
<1>4. row \in RemRows
  BY <1>3 DEF RemRows
<1>5. ASSUME NEW r \in RemIds, ~Inserted(r), rems' = [rems EXCEPT ![r] = row],
             Becomes(q, [op |-> "create", pc |-> "signer", session |-> req[q].session, rem |-> r])
      PROVE  Alone(q) /\ UNCHANGED faults /\ Books(q)
  <2>1. [op |-> "create", pc |-> "signer", session |-> req[q].session, rem |-> r] \in Handlers
    BY <1>3 DEF Handlers, CreateHandlers
  <2>2. row.quote = req[q].quote /\ row.user = req[q].user
        /\ row.account = req[q].account /\ row.link = 0
    OBVIOUS
  <2> HIDE DEF row
  <2>3. /\ rems' \in [RemIds -> RemRows \union {NoRemRow}]
        /\ rems'[r] = row
        /\ \A t \in RemIds : t # r => rems'[t] = rems[t]
    BY <1>1, <1>4, <1>5
  <2>4. /\ Alone(q)
        /\ UNCHANGED faults
        /\ req'[q] = [op |-> "create", pc |-> "signer", session |-> req[q].session, rem |-> r]
    BY <1>1, <1>5, <2>1 DEF Becomes, Alone
  <2>5. req'[q].op = "create" /\ req'[q].pc = "signer" /\ req'[q].rem = r
    BY <2>4
  <2>6. Books(q)
    BY <1>4, <1>5, <2>2, <2>3, <2>5 DEF Books, row
  <2> QED
    BY <2>4, <2>6
<1>6. ASSUME Ends(q)
      PROVE  Alone(q) /\ UNCHANGED faults /\ req'[q] = Idle
  BY <1>1, <1>6 DEF Ends, Becomes, Alone, Handlers
<1>7. req[q].quote \in QuoteIds
  BY <1>3
<1>8. \/ UNCHANGED burnt /\ \E r \in RemIds :
           /\ ~Inserted(r)
           /\ rems' = [rems EXCEPT ![r] = row]
           /\ Becomes(q, [op |-> "create", pc |-> "signer", session |-> req[q].session, rem |-> r])
      \/ Ends(q) /\ burnt' = burnt \union {req[q].quote} /\ UNCHANGED rems
  BY DEF InsertRemittance
<1>9. UNCHANGED <<registryVars, directoryVars, quoteVars, ledger, calls, prepared>>
  BY DEF InsertRemittance
<1> HIDE DEF row
<1> QED
  BY <1>2, <1>5, <1>6, <1>7, <1>8, <1>9

\* A handler that waits at signer, record, submit, failed, confirmed or link goes
\* on to another of these, and keeps what it holds.
LEMMA OpeningGoes ==
  ASSUME req \in [Requests -> Handlers], NEW q \in Requests, req[q].op = "create",
         NEW pc, \/ req[q].pc = "signer" /\ pc = "record"
                 \/ req[q].pc = "record" /\ pc = "submit"
                 \/ req[q].pc \in {"submit", "confirmed"} /\ pc = "failed"
                 \/ req[q].pc = "confirmed" /\ pc = "link",
         req' = [req EXCEPT ![q] = [req[q] EXCEPT !.pc = pc]]
  PROVE  /\ Alone(q)
         /\ req'[q].op = "create" /\ req'[q].pc = pc
         /\ req'[q].session = req[q].session
         /\ req'[q].rem = req[q].rem
         /\ req[q].pc = "confirmed" => req'[q].link = req[q].link
<1>1. req[q] \in Handlers
  OBVIOUS
<1>2. \/ /\ req[q].pc \in {"signer", "record", "submit"}
         /\ req[q] \in [op : {"create"}, pc : {"signer", "record", "submit", "failed"},
                        session : Sessions, rem : RemIds]
      \/ /\ req[q].pc = "confirmed"
         /\ req[q] \in [op : {"create"}, pc : {"confirmed", "failed", "link"},
                        session : Sessions, rem : RemIds, link : Nat]
  BY <1>1, CreateRemembers
<1>3. [req[q] EXCEPT !.pc = pc] \in Handlers
  BY <1>2 DEF Handlers, CreateHandlers
<1>4. req'[q] = [req[q] EXCEPT !.pc = pc]
  OBVIOUS
<1>5. /\ req'[q].op = "create" /\ req'[q].pc = pc
      /\ req'[q].session = req[q].session
      /\ req'[q].rem = req[q].rem
      /\ req[q].pc = "confirmed" => req'[q].link = req[q].link
  BY <1>2, <1>4
<1> QED
  BY <1>3, <1>5 DEF Alone

LEMMA SenderSignerDoes ==
  ASSUME IntakeTypeOK, NEW q \in Requests, SenderSigner(q)
  PROVE  /\ Alone(q)
         /\ UNCHANGED <<faults, registryVars, directoryVars, quoteVars, rems, ledger, calls, burnt>>
         /\ req[q].op = "create" /\ req[q].pc = "signer" /\ req[q].rem \in RemIds
         /\ \/ /\ UNCHANGED prepared
               /\ req'[q].op = "create" /\ req'[q].pc = "record"
               /\ req'[q].rem = req[q].rem
            \/ /\ ~IsCustodial(rems[req[q].rem].account)
               /\ prepared' = [prepared EXCEPT ![req[q].rem] = "ready"]
               /\ req'[q] = Idle
            \/ UNCHANGED prepared /\ req'[q] = Idle
<1>1. req \in [Requests -> Handlers]
  BY TypesSplit
<1>2. req[q].op = "create" /\ req[q].pc = "signer" /\ req[q].rem \in RemIds
  BY <1>1, CreateRemembers DEF SenderSigner, At
<1>3. CASE Ends(q)
  BY <1>1, <1>2, <1>3 DEF SenderSigner, Ends, Goes, Becomes, Alone, Handlers, Idle
<1>4. CASE Goes(q, "record") /\ UNCHANGED prepared
  <2>1. req' = [req EXCEPT ![q] = [req[q] EXCEPT !.pc = "record"]] /\ UNCHANGED faults
    BY <1>4 DEF Goes, Becomes
  <2> QED
    BY <1>1, <1>2, <1>4, <2>1, OpeningGoes DEF SenderSigner
<1> QED
  BY <1>3, <1>4 DEF SenderSigner

LEMMA InsertCallDoes ==
  ASSUME IntakeTypeOK, NEW q \in Requests, InsertCall(q)
  PROVE  /\ Alone(q)
         /\ UNCHANGED <<faults, registryVars, directoryVars, quoteVars, rems, ledger, prepared,
                        burnt>>
         /\ req[q].op = "create" /\ req[q].pc = "record" /\ req[q].rem \in RemIds
         /\ calls' = [calls EXCEPT ![req[q].rem] = "pending"]
         /\ req'[q].op = "create" /\ req'[q].pc = "submit" /\ req'[q].rem = req[q].rem
<1>1. req \in [Requests -> Handlers]
  BY TypesSplit
<1>2. req[q].op = "create" /\ req[q].pc = "record" /\ req[q].rem \in RemIds
  BY <1>1, CreateRemembers DEF InsertCall, At
<1>3. req' = [req EXCEPT ![q] = [req[q] EXCEPT !.pc = "submit"]] /\ UNCHANGED faults
  BY DEF InsertCall, Goes, Becomes
<1> QED
  BY <1>1, <1>2, <1>3, OpeningGoes DEF InsertCall

LEMMA SubmitDoes ==
  ASSUME IntakeTypeOK, NEW q \in Requests, Submit(q)
  PROVE  /\ Alone(q)
         /\ faults' \in 0..MaxFaults /\ faults' >= faults
         /\ UNCHANGED <<registryVars, directoryVars, quoteVars, rems, calls, prepared, burnt>>
         /\ req[q].op = "create" /\ req[q].pc = "submit" /\ req[q].rem \in RemIds
         /\ req'[q].op = "create" /\ req'[q].rem = req[q].rem
         /\ \/ /\ Open(req[q].rem)
               /\ UNCHANGED faults
               /\ req'[q].pc = "confirmed" /\ req'[q].link = Len(ledger) + 1
            \/ /\ UNCHANGED <<ledger, faults>>
               /\ req'[q].pc = "failed"
            \/ /\ Open(req[q].rem)
               /\ faults' > 0
               /\ req'[q].pc = "failed"
<1> DEFINE r == req[q].rem
<1>1. req \in [Requests -> Handlers] /\ faults \in 0..MaxFaults
  BY TypesSplit
<1>2. /\ req[q].op = "create" /\ req[q].pc = "submit" /\ r \in RemIds
      /\ req[q].session \in Sessions
  BY <1>1, CreateRemembers DEF Submit, At
<1>3. CASE Open(r) /\ Becomes(q, [op |-> "create", pc |-> "confirmed",
                                  session |-> req[q].session, rem |-> r, link |-> Len(ledger) + 1])
  <2>1. Len(ledger) + 1 \in Nat
    BY DEF IntakeTypeOK
  <2>2. [op |-> "create", pc |-> "confirmed", session |-> req[q].session, rem |-> r,
         link |-> Len(ledger) + 1] \in Handlers
    BY <1>2, <2>1 DEF Handlers, CreateHandlers
  <2> HIDE DEF r
  <2>3. /\ Alone(q) /\ UNCHANGED faults
        /\ req'[q] = [op |-> "create", pc |-> "confirmed", session |-> req[q].session, rem |-> r,
                      link |-> Len(ledger) + 1]
    BY <1>1, <1>3, <2>2 DEF Becomes, Alone
  <2> QED
    BY <1>1, <1>2, <1>3, <2>3, DeskAssumption DEF Submit, r
<1>4. CASE Goes(q, "failed") /\ UNCHANGED ledger
  <2>1. req' = [req EXCEPT ![q] = [req[q] EXCEPT !.pc = "failed"]] /\ UNCHANGED faults
    BY <1>4 DEF Goes, Becomes
  <2>2. faults' \in 0..MaxFaults /\ faults' >= faults
    BY <1>1, <2>1, DeskAssumption
  <2> QED
    BY <1>1, <1>2, <1>4, <2>1, <2>2, OpeningGoes DEF Submit
<1>5. CASE Open(r) /\ Faulty /\ req' = [req EXCEPT ![q].pc = "failed"]
  <2>1. req' = [req EXCEPT ![q] = [req[q] EXCEPT !.pc = "failed"]]
    BY <1>5
  <2>2. faults' \in 0..MaxFaults /\ faults' >= faults /\ faults' > 0
    BY <1>1, <1>5, DeskAssumption DEF Faulty
  <2> QED
    BY <1>1, <1>2, <1>5, <2>1, <2>2, OpeningGoes DEF Submit
<1> QED
  BY <1>3, <1>4, <1>5 DEF Submit

LEMMA RecordFailureDoes ==
  ASSUME IntakeTypeOK, NEW q \in Requests, RecordFailure(q)
  PROVE  /\ Alone(q)
         /\ UNCHANGED <<faults, registryVars, directoryVars, quoteVars, rems, ledger, prepared,
                        burnt>>
         /\ req[q].op = "create" /\ req[q].pc = "failed" /\ req[q].rem \in RemIds
         /\ calls' = [calls EXCEPT ![req[q].rem] = "failed"]
         /\ req'[q] = Idle
<1>1. req \in [Requests -> Handlers]
  BY TypesSplit
<1> QED
  BY <1>1, CreateRemembers DEF RecordFailure, At, Ends, Becomes, Alone, Handlers

LEMMA RecordSuccessDoes ==
  ASSUME IntakeTypeOK, NEW q \in Requests, RecordSuccess(q)
  PROVE  /\ Alone(q)
         /\ faults' \in 0..MaxFaults /\ faults' >= faults
         /\ UNCHANGED <<registryVars, directoryVars, quoteVars, rems, ledger, prepared, burnt>>
         /\ req[q].op = "create" /\ req[q].pc = "confirmed" /\ req[q].rem \in RemIds
         /\ req'[q].op = "create" /\ req'[q].rem = req[q].rem /\ req'[q].link = req[q].link
         /\ \/ /\ calls' = [calls EXCEPT ![req[q].rem] = "confirmed"]
               /\ UNCHANGED faults
               /\ req'[q].pc = "link"
            \/ UNCHANGED calls /\ faults' > 0 /\ req'[q].pc = "failed"
<1>1. req \in [Requests -> Handlers] /\ faults \in 0..MaxFaults
  BY TypesSplit
<1>2. req[q].op = "create" /\ req[q].pc = "confirmed" /\ req[q].rem \in RemIds
  BY <1>1, CreateRemembers DEF RecordSuccess, At
<1>3. CASE calls' = [calls EXCEPT ![req[q].rem] = "confirmed"] /\ Goes(q, "link")
  <2>1. req' = [req EXCEPT ![q] = [req[q] EXCEPT !.pc = "link"]] /\ UNCHANGED faults
    BY <1>3 DEF Goes, Becomes
  <2>2. faults' \in 0..MaxFaults /\ faults' >= faults
    BY <1>1, <2>1, DeskAssumption
  <2> QED
    BY <1>1, <1>2, <1>3, <2>1, <2>2, OpeningGoes DEF RecordSuccess
<1>4. CASE Faulty /\ req' = [req EXCEPT ![q].pc = "failed"] /\ UNCHANGED calls
  <2>1. req' = [req EXCEPT ![q] = [req[q] EXCEPT !.pc = "failed"]]
    BY <1>4
  <2>2. faults' \in 0..MaxFaults /\ faults' >= faults /\ faults' > 0
    BY <1>1, <1>4, DeskAssumption DEF Faulty
  <2> QED
    BY <1>1, <1>2, <1>4, <2>1, <2>2, OpeningGoes DEF RecordSuccess
<1> QED
  BY <1>3, <1>4 DEF RecordSuccess

LEMMA LinkDoes ==
  ASSUME IntakeTypeOK, NEW q \in Requests, Link(q)
  PROVE  /\ Alone(q)
         /\ UNCHANGED <<faults, registryVars, directoryVars, quoteVars, ledger, calls, prepared,
                        burnt>>
         /\ req[q].op \in {"create", "confirm"} /\ req[q].pc = "link"
         /\ req[q].rem \in RemIds /\ req[q].link \in Nat
         /\ rems' = [rems EXCEPT ![req[q].rem].link = req[q].link]
         /\ req'[q] = Idle
<1>1. req \in [Requests -> Handlers]
  BY TypesSplit
<1>2. req[q].op \in {"create", "confirm"} /\ req[q].pc = "link"
  BY DEF Link
<1>3. req[q].rem \in RemIds /\ req[q].link \in Nat
  BY <1>1, <1>2, CreateRemembers, OthersRemember
<1> QED
  BY <1>1, <1>2, <1>3 DEF Link, Ends, Becomes, Alone, Handlers

LEMMA ConfirmDoes ==
  ASSUME IntakeTypeOK, NEW q \in Requests, NEW s \in Sessions, Confirm(q, s)
  PROVE  /\ Alone(q)
         /\ UNCHANGED <<faults, registryVars, directoryVars, quoteVars, intakeVars>>
         /\ req[q] = Idle
         /\ req'[q].op = "confirm" /\ req'[q].pc = "newest"
         /\ req'[q].rem \in RemIds /\ Inserted(req'[q].rem)
<1>1. req \in [Requests -> Handlers]
  BY TypesSplit
<1>2. PICK r \in RemIds :
        /\ Inserted(r)
        /\ Begin(q, [op |-> "confirm", pc |-> "newest", session |-> s, rem |-> r])
  BY DEF Confirm
<1>3. [op |-> "confirm", pc |-> "newest", session |-> s, rem |-> r] \in Handlers
  BY DEF Handlers, ConfirmHandlers
<1>4. req'[q] = [op |-> "confirm", pc |-> "newest", session |-> s, rem |-> r]
  BY <1>1, <1>2 DEF Begin
<1> QED
  BY <1>1, <1>2, <1>3, <1>4 DEF Confirm, Begin, Alone

LEMMA ReadNewestDoes ==
  ASSUME IntakeTypeOK, NEW q \in Requests, ReadNewest(q)
  PROVE  /\ Alone(q)
         /\ UNCHANGED <<faults, registryVars, directoryVars, quoteVars, intakeVars>>
         /\ req[q].op = "confirm" /\ req[q].pc = "newest" /\ req[q].rem \in RemIds
         /\ \/ req'[q] = Idle
            \/ /\ Len(ledger) \in Escrows
               /\ req'[q].op = "confirm" /\ req'[q].pc = "match"
               /\ req'[q].rem = req[q].rem /\ req'[q].link = Len(ledger)
<1>1. req \in [Requests -> Handlers] /\ ledger \in Seq(Commitments)
  BY TypesSplit DEF TablesTypeOK
<1>2. /\ req[q].op = "confirm" /\ req[q].pc = "newest"
      /\ req[q].rem \in RemIds /\ req[q].session \in Sessions
  BY <1>1, OthersRemember DEF ReadNewest, At
<1>3. CASE ledger = <<>>
  BY <1>1, <1>2, <1>3 DEF ReadNewest, Ends, Becomes, Alone, Handlers
<1>4. CASE ledger # <<>>
  <2>1. Len(ledger) \in Nat /\ Len(ledger) \in Escrows
    BY <1>1, <1>4 DEF Escrows
  <2>2. [op |-> "confirm", pc |-> "match", session |-> req[q].session,
         rem |-> req[q].rem, link |-> Len(ledger)] \in Handlers
    BY <1>2, <2>1 DEF Handlers, ConfirmHandlers
  <2>3. /\ Alone(q) /\ UNCHANGED faults
        /\ req'[q] = [op |-> "confirm", pc |-> "match", session |-> req[q].session,
                      rem |-> req[q].rem, link |-> Len(ledger)]
    BY <1>1, <1>4, <2>2 DEF ReadNewest, Becomes, Alone
  <2> QED
    BY <1>2, <2>1, <2>3 DEF ReadNewest
<1> QED
  BY <1>3, <1>4

LEMMA MatchDoes ==
  ASSUME IntakeTypeOK, NEW q \in Requests, Match(q)
  PROVE  /\ Alone(q)
         /\ UNCHANGED <<faults, registryVars, directoryVars, quoteVars, intakeVars>>
         /\ req[q].op = "confirm" /\ req[q].pc = "match" /\ req[q].rem \in RemIds
         /\ \/ req'[q] = Idle
            \/ /\ Matches(ledger[req[q].link], req[q].rem)
               /\ req'[q].op = "confirm" /\ req'[q].pc = "link"
               /\ req'[q].rem = req[q].rem /\ req'[q].link = req[q].link
<1>1. req \in [Requests -> Handlers]
  BY TypesSplit
<1>2. /\ req[q].op = "confirm" /\ req[q].pc = "match" /\ req[q].rem \in RemIds
      /\ req[q] \in [op : {"confirm"}, pc : {"match", "link"}, session : Sessions,
                     rem : RemIds, link : Nat]
  BY <1>1, OthersRemember DEF Match, At
<1>3. CASE Ends(q)
  BY <1>1, <1>2, <1>3 DEF Match, Ends, Becomes, Alone, Handlers
<1>4. CASE Matches(ledger[req[q].link], req[q].rem) /\ Goes(q, "link")
  <2>1. [req[q] EXCEPT !.pc = "link"] \in Handlers
    BY <1>2 DEF Handlers, ConfirmHandlers
  <2>2. /\ Alone(q) /\ UNCHANGED faults
        /\ req'[q] = [req[q] EXCEPT !.pc = "link"]
    BY <1>1, <1>4, <2>1 DEF Goes, Becomes, Alone
  <2> QED
    BY <1>2, <1>4, <2>2 DEF Match
<1> QED
  BY <1>3, <1>4 DEF Match

\* The steps of the intake's handlers and wallets, one by one.
LEMMA IntakeCases ==
  ASSUME Intake
  PROVE  \/ \E q \in Requests, s \in Sessions : Create(q, s) \/ Confirm(q, s)
         \/ \E q \in Requests :
              \/ ResolveSender(q) \/ ResolveOwner(q) \/ Claim(q) \/ InsertRemittance(q)
              \/ SenderSigner(q) \/ InsertCall(q) \/ Submit(q) \/ RecordFailure(q)
              \/ RecordSuccess(q) \/ Link(q) \/ ReadNewest(q) \/ Match(q)
         \/ \E r \in RemIds : AppSubmits(r)
BY DEF Intake, IntakeStep

LEMMA IntakeTypes ==
  ASSUME IntakeTypeOK, HandlersSound, Intake
  PROVE  IntakeTypeOK'
<1>0. /\ TablesTypeOK /\ faults \in 0..MaxFaults /\ req \in [Requests -> Handlers]
      /\ RegistrySound /\ CreatesSound /\ RowsSound /\ OpeningsSound /\ LedgerSound
  BY TypesSplit DEF HandlersSound
<1> SUFFICES TablesTypeOK' /\ faults' \in 0..MaxFaults /\ req' \in [Requests -> Handlers]
  BY DEF IntakeTypeOK, TablesTypeOK, Handlers
<1> USE DEF TablesTypeOK, registryVars, directoryVars, quoteVars, intakeVars, Alone
<1>1. ASSUME NEW q \in Requests, NEW s \in Sessions, Create(q, s) \/ Confirm(q, s)
      PROVE  TablesTypeOK' /\ faults' \in 0..MaxFaults /\ req' \in [Requests -> Handlers]
  BY <1>0, <1>1, CreateDoes, ConfirmDoes
<1>2. ASSUME NEW q \in Requests,
             ResolveSender(q) \/ ResolveOwner(q) \/ ReadNewest(q) \/ Match(q)
      PROVE  TablesTypeOK' /\ faults' \in 0..MaxFaults /\ req' \in [Requests -> Handlers]
  BY <1>0, <1>2, ResolveSenderDoes, ResolveOwnerDoes, ReadNewestDoes, MatchDoes
<1>3. ASSUME NEW q \in Requests, Claim(q)
      PROVE  TablesTypeOK' /\ faults' \in 0..MaxFaults /\ req' \in [Requests -> Handlers]
  <2>1. /\ Alone(q) /\ UNCHANGED <<faults, now, registryVars, directoryVars, intakeVars>>
        /\ req[q].quote \in QuoteIds
        /\ \/ UNCHANGED quotes
           \/ quotes' = [quotes EXCEPT ![req[q].quote].used = TRUE]
    BY <1>3, ClaimDoes
  <2>2. Stored(req[q].quote)
    BY <1>0, <1>3 DEF CreatesSound, Claim, At
  <2>3. [quotes[req[q].quote] EXCEPT !.used = TRUE] \in QuoteRows
    BY <2>1, <2>2, StoredIsRow DEF QuoteRows
  <2>4. quotes' \in [QuoteIds -> QuoteRows \union {NoRow}]
    BY <1>0, <2>1, <2>3
  <2> QED
    BY <1>0, <2>1, <2>4
<1>4. ASSUME NEW q \in Requests, InsertRemittance(q)
      PROVE  TablesTypeOK' /\ faults' \in 0..MaxFaults /\ req' \in [Requests -> Handlers]
  <2>1. /\ Alone(q)
        /\ UNCHANGED <<faults, registryVars, directoryVars, quoteVars, ledger, calls, prepared>>
        /\ req[q].quote \in QuoteIds
        /\ burnt' = burnt \/ burnt' = burnt \union {req[q].quote}
    BY <1>4, InsertRemittanceDoes
  <2>2. rems' \in [RemIds -> RemRows \union {NoRemRow}]
    <3>1. Books(q) \/ UNCHANGED rems
      BY <1>4, InsertRemittanceDoes
    <3>2. CASE Books(q)
      BY <3>2 DEF Books
    <3> QED
      BY <1>0, <3>1, <3>2
  <2>3. burnt' \subseteq QuoteIds
    BY <1>0, <2>1
  <2> QED
    BY <1>0, <2>1, <2>2, <2>3
<1>5. ASSUME NEW q \in Requests, SenderSigner(q)
      PROVE  TablesTypeOK' /\ faults' \in 0..MaxFaults /\ req' \in [Requests -> Handlers]
  BY <1>0, <1>5, SenderSignerDoes
<1>6. ASSUME NEW q \in Requests, InsertCall(q) \/ RecordFailure(q) \/ RecordSuccess(q)
      PROVE  TablesTypeOK' /\ faults' \in 0..MaxFaults /\ req' \in [Requests -> Handlers]
  <2>1. /\ Alone(q) /\ faults' \in 0..MaxFaults
        /\ UNCHANGED <<registryVars, directoryVars, quoteVars, rems, ledger, prepared, burnt>>
    BY <1>0, <1>6, InsertCallDoes, RecordFailureDoes, RecordSuccessDoes
  <2>2. calls' \in [RemIds -> {"none", "pending", "confirmed", "failed"}]
    BY <1>0, <1>6, InsertCallDoes, RecordFailureDoes, RecordSuccessDoes
  <2> QED
    BY <1>0, <2>1, <2>2
<1>7. ASSUME NEW q \in Requests, Submit(q)
      PROVE  TablesTypeOK' /\ faults' \in 0..MaxFaults /\ req' \in [Requests -> Handlers]
  <2>1. Inserted(req[q].rem) /\ req[q].rem \in RemIds
    BY <1>7, <1>0, SubmitDoes DEF OpeningsSound, Opens
  <2>2. /\ Alone(q) /\ faults' \in 0..MaxFaults
        /\ UNCHANGED <<registryVars, directoryVars, quoteVars, rems, calls, prepared, burnt>>
        /\ Open(req[q].rem) \/ UNCHANGED ledger
    BY <1>7, SubmitDoes
  <2>3. ledger' \in Seq(Commitments)
    BY <1>0, <2>1, <2>2, OpenAppends
  <2> QED
    BY <1>0, <2>2, <2>3
<1>8. ASSUME NEW q \in Requests, Link(q)
      PROVE  TablesTypeOK' /\ faults' \in 0..MaxFaults /\ req' \in [Requests -> Handlers]
  <2>1. /\ Alone(q)
        /\ UNCHANGED <<faults, registryVars, directoryVars, quoteVars, ledger, calls, prepared,
                       burnt>>
        /\ req[q].rem \in RemIds /\ req[q].link \in Nat
        /\ rems' = [rems EXCEPT ![req[q].rem].link = req[q].link]
        /\ req[q].op \in {"create", "confirm"} /\ req[q].pc = "link"
    BY <1>8, LinkDoes
  <2>2. Inserted(req[q].rem)
    BY <1>0, <2>1 DEF OpeningsSound, Opens, HandlersSound, ConfirmsSound
  <2>3. [rems[req[q].rem] EXCEPT !.link = req[q].link] \in RemRows
    BY <2>1, <2>2, InsertedIsRow DEF RemRows
  <2>4. rems' \in [RemIds -> RemRows \union {NoRemRow}]
    BY <1>0, <2>1, <2>3
  <2> QED
    BY <1>0, <2>1, <2>4
<1>9. ASSUME NEW r \in RemIds, AppSubmits(r)
      PROVE  TablesTypeOK' /\ faults' \in 0..MaxFaults /\ req' \in [Requests -> Handlers]
  <2>1. Inserted(r)
    BY <1>0, <1>9 DEF LedgerSound, AppSubmits
  <2>2. ledger' \in Seq(Commitments)
    BY <1>0, <1>9, <2>1, OpenAppends DEF AppSubmits
  <2>3. prepared' \in [RemIds -> {"none", "ready", "spent"}]
    BY <1>0, <1>9 DEF AppSubmits
  <2> QED
    BY <1>0, <1>9, <2>2, <2>3 DEF AppSubmits, deskVars
<1> QED
  BY <1>1, <1>2, <1>3, <1>4, <1>5, <1>6, <1>7, <1>8, <1>9, IntakeCases

-----------------------------------------------------------------------------
\* The other routes run beside the intake: all they do to it is to add users,
\* accounts and quotes, and a restart takes some of its handlers away.

Ours == {"create", "confirm"}

SlotsBeside ==
  /\ faults' >= faults
  /\ \A p \in Requests : req'[p].op \in Ours => req'[p] = req[p]
  /\ faults' > 0 \/ \A p \in Requests : req[p].op \in Ours => req'[p] = req[p]

Beside ==
  /\ UNCHANGED intakeVars
  /\ users \subseteq users' /\ accounts \subseteq accounts'
  /\ \A i \in QuoteIds : Stored(i) => quotes'[i] = quotes[i]
  /\ \A i \in QuoteIds : quotes'[i].used => quotes[i].used
  /\ SlotsBeside

\* A slot that is not the intake's and does not become it.
LEMMA AnotherSlot ==
  ASSUME IntakeTypeOK, NEW q \in Requests, req[q].op \notin Ours, NEW h,
         h.op \notin Ours, Begin(q, h) \/ Becomes(q, h)
  PROVE  SlotsBeside
<1>1. \A p \in Requests : req'[p] = IF p = q THEN h ELSE req[p]
  BY TypesSplit DEF Begin, Becomes
<1>2. faults' = faults /\ faults \in Nat
  BY DeskAssumption DEF Begin, Becomes, IntakeTypeOK
<1> QED
  BY <1>1, <1>2 DEF SlotsBeside

LEMMA AnotherEnds ==
  ASSUME IntakeTypeOK, NEW q \in Requests, req[q].op \notin Ours, Ends(q)
  PROVE  SlotsBeside
<1>1. Idle.op \notin Ours
  BY DEF Idle, Ours
<1> QED
  BY <1>1, AnotherSlot DEF Ends

LEMMA AnotherGoes ==
  ASSUME IntakeTypeOK, NEW q \in Requests, req[q].op \notin Ours,
         req[q] \in RegisterHandlers \union DiscoverHandlers, NEW pc, Goes(q, pc)
  PROVE  SlotsBeside
<1>1. [req[q] EXCEPT !.pc = pc].op = req[q].op
  BY DEF RegisterHandlers, DiscoverHandlers
<1> QED
  BY <1>1, AnotherSlot DEF Goes

LEMMA IdleIsNotOurs ==
  ASSUME NEW q \in Requests, NEW h, Begin(q, h)
  PROVE  req[q].op \notin Ours
BY DEF Begin, Idle, Ours

LEMMA AccountingBeside ==
  ASSUME IntakeTypeOK, Accounting
  PROVE  Beside
<1>0. UNCHANGED <<quoteVars, intakeVars>> /\ req \in [Requests -> Handlers]
  BY TypesSplit DEF Accounting
<1> SUFFICES SlotsBeside /\ users \subseteq users' /\ accounts \subseteq accounts'
  BY <1>0 DEF Beside, quoteVars
<1>1. ASSUME NEW q \in Requests, NEW s \in Sessions, Register(q, s)
      PROVE  SlotsBeside /\ users \subseteq users' /\ accounts \subseteq accounts'
  <2>1. PICK k \in Keys :
          Begin(q, [op |-> "register", session |-> s, key |-> k,
                    pc |-> IF UserOf(s) \in users THEN "account" ELSE "newUser"])
    BY <1>1 DEF Register
  <2>2. SlotsBeside
    BY <2>1, IdleIsNotOurs, AnotherSlot DEF Ours
  <2> QED
    BY <1>1, <2>2 DEF Register, registryVars
<1>2. ASSUME NEW q \in Requests, NEW c \in Customers, IssueCustodial(q, c)
      PROVE  SlotsBeside /\ users \subseteq users' /\ accounts \subseteq accounts'
  BY <1>2, IdleIsNotOurs, AnotherSlot DEF IssueCustodial, Ours
<1>3. ASSUME NEW q \in Requests, RegistryStep(q)
      PROVE  SlotsBeside /\ users \subseteq users' /\ accounts \subseteq accounts'
  <2>1. /\ req[q].op \notin Ours
        /\ Ends(q) \/ (req[q].op = "register" /\ (Goes(q, "account") \/ Goes(q, "insert")))
    BY <1>3 DEF RegistryStep, InsertUser, LookUpAccount, InsertAccount, InsertCustodial, At, Ours
  <2>2. SlotsBeside
    BY <1>0, <2>1, OthersRemember, AnotherEnds, AnotherGoes
  <2> QED
    BY <1>3, <2>2
       DEF RegistryStep, InsertUser, LookUpAccount, InsertAccount, InsertCustodial, registryVars
<1> QED
  BY <1>1, <1>2, <1>3 DEF Accounting, RegistryNext, Sessions

LEMMA DiscoveryBeside ==
  ASSUME IntakeTypeOK, Discovery
  PROVE  Beside
<1>0. UNCHANGED <<registryVars, quoteVars, intakeVars>> /\ req \in [Requests -> Handlers]
  BY TypesSplit DEF Discovery
<1> SUFFICES SlotsBeside
  BY <1>0 DEF Beside, quoteVars, registryVars
<1>1. ASSUME NEW q \in Requests, Discover(q)
      PROVE  SlotsBeside
  BY <1>1, IdleIsNotOurs, AnotherSlot DEF Discover, Ours
<1>2. ASSUME NEW q \in Requests, DirectoryStep(q)
      PROVE  SlotsBeside
  <2>1. /\ req[q].op = "discover"
        /\ \/ Ends(q) \/ Goes(q, "update") \/ Goes(q, "insert") \/ Goes(q, "assets")
           \/ Goes(q, "delete")
    BY <1>2 DEF DirectoryStep, SelectAnchor, InsertAnchor, UpdateAnchor, DeleteAssets,
                InsertAssets, At
  <2>2. req[q] \in DiscoverHandlers /\ req[q].op \notin Ours
    BY <1>0, <2>1, OthersRemember DEF Ours
  <2> QED
    BY <2>1, <2>2, AnotherEnds, AnotherGoes
<1> QED
  BY <1>1, <1>2 DEF Discovery, DirectoryNext

LEMMA QuotingBeside ==
  ASSUME IntakeTypeOK, Quoting
  PROVE  Beside
<1>0. UNCHANGED <<registryVars, intakeVars>> /\ req \in [Requests -> Handlers]
  BY TypesSplit DEF Quoting
<1> SUFFICES /\ SlotsBeside
             /\ \A i \in QuoteIds : Stored(i) => quotes'[i] = quotes[i]
             /\ \A i \in QuoteIds : quotes'[i].used => quotes[i].used
  BY <1>0 DEF Beside, registryVars
<1>1. ASSUME NEW q \in Requests, NEW s \in Sessions, RequestQuote(q, s)
      PROVE  SlotsBeside /\ UNCHANGED quotes
  <2>1. PICK h \in Handlers : Begin(q, h) /\ h.op = "quote"
    BY <1>1, RequestQuoteBegins, IntakeAssumption
  <2> QED
    BY <1>1, <2>1, IdleIsNotOurs, AnotherSlot DEF RequestQuote, quoteVars, Ours
<1>2. ASSUME NEW q \in Requests, ReadAnchorFee(q)
      PROVE  SlotsBeside /\ UNCHANGED quotes
  <2>1. req[q].op \notin Ours
    BY <1>2 DEF ReadAnchorFee, At, Ours
  <2>2. CASE Ends(q)
    BY <1>2, <2>1, <2>2, AnotherEnds DEF ReadAnchorFee, quoteVars
  <2>3. CASE \E h \in Handlers : Becomes(q, h) /\ h.op = "quote"
    BY <1>2, <2>1, <2>3, AnotherSlot DEF ReadAnchorFee, quoteVars, Ours
  <2> QED
    BY <1>2, <2>2, <2>3, FeeIsRead
<1>3. ASSUME NEW q \in Requests, InsertQuote(q)
      PROVE  /\ SlotsBeside
             /\ \A i \in QuoteIds : Stored(i) => quotes'[i] = quotes[i]
             /\ \A i \in QuoteIds : quotes'[i].used => quotes[i].used
  <2>1. SlotsBeside
    BY <1>3, AnotherEnds DEF InsertQuote, At, Ours
  <2>2. CASE UNCHANGED quotes
    BY <2>1, <2>2
  <2>3. CASE ~UNCHANGED quotes
    <3>1. PICK i \in QuoteIds :
            /\ ~Stored(i)
            /\ quotes'[i] = [owner |-> req[q].owner, terms |-> req[q].terms,
                             expires |-> req[q].expires, used |-> FALSE]
            /\ \A j \in QuoteIds : j # i => quotes'[j] = quotes[j]
      BY <1>3, <2>3, QuoteIsInserted
    <3>2. ~quotes'[i].used
      BY <3>1
    <3> QED
      BY <2>1, <3>1, <3>2
  <2> QED
    BY <2>2, <2>3
<1>4. CASE Tick
  <2>1. faults \in Nat
    BY DeskAssumption DEF IntakeTypeOK
  <2> QED
    BY <1>4, <2>1 DEF Tick, deskVars, SlotsBeside
<1> QED
  BY <1>1, <1>2, <1>3, <1>4 DEF Quoting, QuoteStep

LEMMA RestartBeside ==
  ASSUME IntakeTypeOK, Restart
  PROVE  Beside
<1>1. PICK q \in Requests : Dies(q)
  BY DEF Restart
<1>2. \A p \in Requests : req'[p] = IF p = q THEN Idle ELSE req[p]
  BY <1>1, TypesSplit DEF Dies
<1>3. faults' > 0 /\ faults' >= faults
  BY <1>1, DeskAssumption DEF Dies, Faulty, IntakeTypeOK
<1> QED
  BY <1>2, <1>3
     DEF Restart, Beside, SlotsBeside, Idle, Ours, registryVars, quoteVars, intakeVars

LEMMA StutterBeside ==
  ASSUME IntakeTypeOK, UNCHANGED vars
  PROVE  Beside
<1>1. faults \in Nat
  BY DeskAssumption DEF IntakeTypeOK
<1> QED
  BY <1>1 DEF vars, Beside, SlotsBeside, deskVars, registryVars, quoteVars, intakeVars

\* Every step is one of the intake's, or runs beside it.
LEMMA StepsApart ==
  ASSUME IntakeTypeOK, [Next]_vars
  PROVE  Intake \/ Beside
BY AccountingBeside, DiscoveryBeside, QuotingBeside, RestartBeside, StutterBeside DEF Next

\* Every step keeps the types.
LEMMA TypesKept ==
  ASSUME IntakeTypeOK, HandlersSound, [Next]_vars
  PROVE  IntakeTypeOK'
<1>1. CASE Restart
  <2>1. /\ req' \in [Requests -> Handlers] /\ faults' \in 0..MaxFaults
        /\ UNCHANGED <<registryVars, directoryVars, quoteVars, intakeVars>>
    BY <1>1, TypesSplit, HandlerEnds DEF Restart
  <2> QED
    BY <2>1, TypesSplit
       DEF IntakeTypeOK, TablesTypeOK, Handlers, registryVars, directoryVars, quoteVars, intakeVars
<1>2. CASE UNCHANGED vars
  BY <1>2 DEF vars, deskVars, registryVars, directoryVars, quoteVars, intakeVars, IntakeTypeOK
<1> QED
  BY <1>1, <1>2, RegistryTypes, DirectoryTypes, QuoteTypes, IntakeTypes DEF Next

-----------------------------------------------------------------------------
\* And the intake leaves the other routes alone: all it does to a quote is to
\* use it up.

QuotesKept ==
  \A i \in QuoteIds :
    /\ Stored(i)' <=> Stored(i)
    /\ quotes'[i].owner = quotes[i].owner
    /\ quotes'[i].terms = quotes[i].terms
    /\ quotes[i].used => quotes'[i].used

Others == {"register", "issue", "discover", "quote"}

IntakeBeside ==
  /\ UNCHANGED <<registryVars, directoryVars, now>>
  /\ QuotesKept
  /\ faults' >= faults
  /\ \A p \in Requests : req'[p].op \in Others \/ req[p].op \in Others => req'[p] = req[p]

LEMMA ClaimKeepsQuotes ==
  ASSUME IntakeTypeOK, CreatesSound, NEW q \in Requests, Claim(q)
  PROVE  QuotesKept
<1>1. /\ req[q].op = "create" /\ req[q].pc = "claim" /\ req[q].quote \in QuoteIds
      /\ \/ UNCHANGED quotes
         \/ quotes' = [quotes EXCEPT ![req[q].quote].used = TRUE]
  BY ClaimDoes
<1>2. Stored(req[q].quote) /\ quotes[req[q].quote] \in QuoteRows
  BY <1>1, StoredIsRow DEF CreatesSound
<1>3. CASE UNCHANGED quotes
  BY <1>3 DEF QuotesKept, Stored
<1>4. CASE quotes' = [quotes EXCEPT ![req[q].quote].used = TRUE]
  <2> DEFINE i == req[q].quote
             row == [quotes[i] EXCEPT !.used = TRUE]
  <2>1. /\ row.owner = quotes[i].owner /\ row.terms = quotes[i].terms /\ row.used
        /\ row # NoRow
    BY <1>2 DEF QuoteRows, NoRow
  <2>2. \A j \in QuoteIds : quotes'[j] = IF j = i THEN row ELSE quotes[j]
    BY <1>4 DEF IntakeTypeOK
  <2> HIDE DEF row
  <2> QED
    BY <1>2, <2>1, <2>2 DEF QuotesKept, Stored
<1> QED
  BY <1>1, <1>3, <1>4

LEMMA IntakeApart ==
  ASSUME IntakeTypeOK, HandlersSound, Intake
  PROVE  IntakeBeside
<1>0. RegistrySound /\ CreatesSound /\ faults \in Nat
  BY DeskAssumption DEF HandlersSound, IntakeTypeOK
<1>1. UNCHANGED quotes => QuotesKept
  BY DEF QuotesKept, Stored
<1>2. Idle.op = "none" /\ "none" \notin Others /\ "create" \notin Others /\ "confirm" \notin Others
  BY DEF Idle, Others
<1>3. ASSUME NEW q \in Requests, Alone(q), req[q].op \notin Others, req'[q].op \notin Others
      PROVE  \A p \in Requests : req'[p].op \in Others \/ req[p].op \in Others => req'[p] = req[p]
  BY <1>3 DEF Alone
<1>4. ASSUME NEW q \in Requests, NEW s \in Sessions, Create(q, s) \/ Confirm(q, s)
      PROVE  IntakeBeside
  <2>1. /\ Alone(q) /\ UNCHANGED <<faults, registryVars, directoryVars, quoteVars>>
        /\ req[q] = Idle /\ req'[q].op \notin Others
    <3>1. CASE Create(q, s)
      BY <1>2, <3>1, CreateDoes
    <3>2. CASE Confirm(q, s)
      BY <1>2, <3>2, ConfirmDoes
    <3> QED
      BY <1>4, <3>1, <3>2
  <2> QED
    BY <1>0, <1>1, <1>2, <1>3, <2>1 DEF IntakeBeside, quoteVars
<1>5. ASSUME NEW q \in Requests,
             ResolveSender(q) \/ ResolveOwner(q) \/ ReadNewest(q) \/ Match(q)
      PROVE  IntakeBeside
  <2>1. /\ Alone(q) /\ UNCHANGED <<faults, registryVars, directoryVars, quoteVars>>
        /\ req[q].op \notin Others /\ req'[q].op \notin Others
    <3>1. CASE ResolveSender(q)
      BY <1>2, <3>1, ResolveSenderDoes
    <3>2. CASE ResolveOwner(q)
      BY <1>0, <1>2, <3>2, ResolveOwnerDoes
    <3>3. CASE ReadNewest(q)
      BY <1>2, <3>3, ReadNewestDoes
    <3>4. CASE Match(q)
      BY <1>2, <3>4, MatchDoes
    <3> QED
      BY <1>5, <3>1, <3>2, <3>3, <3>4
  <2> QED
    BY <1>0, <1>1, <1>3, <2>1 DEF IntakeBeside, quoteVars
<1>6. ASSUME NEW q \in Requests, Claim(q)
      PROVE  IntakeBeside
  <2>1. /\ Alone(q) /\ UNCHANGED <<faults, now, registryVars, directoryVars>>
        /\ req[q].op \notin Others /\ req'[q].op \notin Others
    BY <1>2, <1>6, ClaimDoes
  <2> QED
    BY <1>0, <1>3, <1>6, <2>1, ClaimKeepsQuotes DEF IntakeBeside
<1>7. ASSUME NEW q \in Requests, InsertRemittance(q) \/ SenderSigner(q) \/ InsertCall(q)
                                   \/ RecordFailure(q) \/ Link(q)
      PROVE  IntakeBeside
  <2>1. /\ Alone(q) /\ UNCHANGED <<faults, registryVars, directoryVars, quoteVars>>
        /\ req[q].op \notin Others /\ req'[q].op \notin Others
    <3>1. CASE InsertRemittance(q)
      BY <1>2, <3>1, InsertRemittanceDoes DEF Books
    <3>2. CASE SenderSigner(q)
      BY <1>2, <3>2, SenderSignerDoes
    <3>3. CASE InsertCall(q)
      BY <1>2, <3>3, InsertCallDoes
    <3>4. CASE RecordFailure(q)
      BY <1>2, <3>4, RecordFailureDoes
    <3>5. CASE Link(q)
      BY <1>2, <3>5, LinkDoes
    <3> QED
      BY <1>7, <3>1, <3>2, <3>3, <3>4, <3>5
  <2> QED
    BY <1>0, <1>1, <1>3, <2>1 DEF IntakeBeside, quoteVars
<1>8. ASSUME NEW q \in Requests, Submit(q) \/ RecordSuccess(q)
      PROVE  IntakeBeside
  <2>1. /\ Alone(q) /\ UNCHANGED <<registryVars, directoryVars, quoteVars>> /\ faults' >= faults
        /\ req[q].op \notin Others /\ req'[q].op \notin Others
    BY <1>2, <1>8, SubmitDoes, RecordSuccessDoes
  <2> QED
    BY <1>1, <1>3, <2>1 DEF IntakeBeside, quoteVars
<1>9. ASSUME NEW r \in RemIds, AppSubmits(r)
      PROVE  IntakeBeside
  BY <1>0, <1>1, <1>9 DEF AppSubmits, IntakeBeside, quoteVars, deskVars
<1> QED
  BY <1>4, <1>5, <1>6, <1>7, <1>8, <1>9, IntakeCases

-----------------------------------------------------------------------------
\* Accounts

\* A register or issue handler that only Accounting moves.
LEMMA RegistryKeptElsewhere ==
  ASSUME RegistrySound, UNCHANGED registryVars,
         \A p \in Requests :
           req'[p].op \in {"register", "issue"} => req'[p] = req[p]
  PROVE  RegistrySound'
BY DEF RegistrySound, registryVars

LEMMA RegistryKeptByAccounting ==
  ASSUME IntakeTypeOK, RegistrySound, Accounting
  PROVE  RegistrySound'
<1>0. req \in [Requests -> Handlers]
  BY TypesSplit
<1> DEFINE Good(h) ==
             /\ h.op = "register" /\ h.pc # "newUser" => UserOf(h.session) \in users'
             /\ h.op = "issue" => h.session \in users'
<1>1. \A p \in Requests : users \subseteq users' => Good(req[p])
  BY DEF RegistrySound
<1>2. ~Good(Idle) => FALSE
  BY DEF Idle
<1>3. ASSUME NEW q \in Requests, NEW h, Good(h), Begin(q, h) \/ Becomes(q, h),
             users \subseteq users',
             \A a \in accounts' : a.user \in users' /\ \E s \in Sessions : Owns(s, a)
      PROVE  RegistrySound'
  <2>1. \A p \in Requests : req'[p] = IF p = q THEN h ELSE req[p]
    BY <1>0, <1>3 DEF Begin, Becomes
  <2>2. \A p \in Requests : Good(req'[p])
    BY <1>1, <1>3, <2>1
  <2>3. \A a \in accounts' : \E s \in Sessions : Owns(s, a)'
    BY <1>3 DEF Owns
  <2> QED
    BY <1>3, <2>2, <2>3 DEF RegistrySound
<1>4. \A a \in accounts : a.user \in users /\ \E s \in Sessions : Owns(s, a)
  BY DEF RegistrySound
<1> HIDE DEF Good
<1>5. ASSUME NEW q \in Requests, NEW s \in Sessions, Register(q, s)
      PROVE  RegistrySound'
  <2>1. PICK k \in Keys :
          Begin(q, [op |-> "register", session |-> s, key |-> k,
                    pc |-> IF UserOf(s) \in users THEN "account" ELSE "newUser"])
    BY <1>5 DEF Register
  <2>2. UNCHANGED <<users, accounts>>
    BY <1>5 DEF Register, registryVars
  <2>3. Good([op |-> "register", session |-> s, key |-> k,
              pc |-> IF UserOf(s) \in users THEN "account" ELSE "newUser"])
    BY <2>2 DEF Good
  <2> QED
    BY <1>3, <1>4, <2>1, <2>2, <2>3
<1>6. ASSUME NEW q \in Requests, NEW c \in Customers, IssueCustodial(q, c)
      PROVE  RegistrySound'
  <2>1. /\ users' = users \union {c} /\ accounts' = accounts
        /\ Begin(q, [op |-> "issue", pc |-> "insert", session |-> c])
    BY <1>6 DEF IssueCustodial
  <2>2. Good([op |-> "issue", pc |-> "insert", session |-> c])
    BY <2>1 DEF Good
  <2> QED
    BY <1>3, <1>4, <2>1, <2>2
<1>7. ASSUME NEW q \in Requests, InsertUser(q) \/ LookUpAccount(q)
      PROVE  RegistrySound'
  <2>1. req[q] \in RegisterHandlers
    BY <1>0, <1>7, OthersRemember DEF InsertUser, LookUpAccount, At
  <2>2. users \subseteq users' /\ UNCHANGED accounts
    BY <1>7 DEF InsertUser, LookUpAccount, registryVars
  <2>4. Ends(q) \/ (UserOf(req[q].session) \in users' /\ (Goes(q, "account") \/ Goes(q, "insert")))
    <3>1. CASE InsertUser(q)
      BY <3>1 DEF InsertUser
    <3>2. CASE LookUpAccount(q)
      <4>1. UserOf(req[q].session) \in users
        BY <2>1, <3>2 DEF LookUpAccount, At, RegistrySound
      <4> QED
        BY <2>2, <3>2, <4>1 DEF LookUpAccount
    <3> QED
      BY <1>7, <3>1, <3>2
  <2>5. ASSUME UserOf(req[q].session) \in users', NEW pc \in {"account", "insert"}, Goes(q, pc)
        PROVE  RegistrySound'
    <3>1. Good([req[q] EXCEPT !.pc = pc])
      BY <2>1, <2>5 DEF Good, RegisterHandlers
    <3> QED
      BY <1>3, <1>4, <2>2, <2>5, <3>1 DEF Goes
  <2>6. CASE Ends(q)
    BY <1>2, <1>3, <1>4, <2>2, <2>6 DEF Ends
  <2> QED
    BY <2>4, <2>5, <2>6
<1>8. ASSUME NEW q \in Requests, InsertAccount(q)
      PROVE  RegistrySound'
  <2>1. req[q] \in RegisterHandlers
    BY <1>0, <1>8, OthersRemember DEF InsertAccount, At
  <2> DEFINE s == req[q].session
             a == [user |-> UserOf(s), key |-> req[q].key]
  <2>2. s \in Sessions /\ UserOf(s) \in users
    BY <2>1, <1>8 DEF RegistrySound, RegisterHandlers, InsertAccount, At
  <2>3. a.user \in users /\ Owns(s, a)
    BY <2>2 DEF Owns
  <2>4. accounts' = accounts \union {a} /\ users' = users /\ Ends(q)
    BY <1>8 DEF InsertAccount
  <2> HIDE DEF a, s
  <2> QED
    BY <1>2, <1>3, <1>4, <2>2, <2>3, <2>4 DEF Ends
<1>9. ASSUME NEW q \in Requests, InsertCustodial(q)
      PROVE  RegistrySound'
  <2>1. req[q] \in IssueHandlers
    BY <1>0, <1>9, OthersRemember DEF InsertCustodial, At
  <2> DEFINE c == req[q].session
             a == [user |-> c, key |-> c]
  <2>2. c \in Customers /\ c \in Sessions /\ c \in users
    BY <2>1 DEF RegistrySound, IssueHandlers, Sessions
  <2>3. a.user \in users /\ Owns(c, a)
    BY <2>2 DEF Owns
  <2>4. accounts' = accounts \union {a} /\ users' = users /\ Ends(q)
    BY <1>9 DEF InsertCustodial
  <2> HIDE DEF a, c
  <2> QED
    BY <1>2, <1>3, <1>4, <2>2, <2>3, <2>4 DEF Ends
<1> QED
  BY <1>5, <1>6, <1>7, <1>8, <1>9 DEF Accounting, RegistryNext, RegistryStep, Sessions

-----------------------------------------------------------------------------
\* Which handlers each group of routes moves

Within(ops) ==
  \A p \in Requests :
    req'[p] = req[p] \/ (req[p].op \in ops \union {"none"} /\ req'[p].op \in ops \union {"none"})

LEMMA MovesWithin ==
  ASSUME IntakeTypeOK, NEW q \in Requests, NEW ops, NEW h, h.op \in ops \union {"none"},
         \/ Begin(q, h)
         \/ req[q].op \in ops \union {"none"} /\ Becomes(q, h)
  PROVE  Within(ops)
<1>1. \A p \in Requests : req'[p] = IF p = q THEN h ELSE req[p]
  BY TypesSplit DEF Begin, Becomes
<1>2. req[q].op \in ops \union {"none"}
  BY DEF Begin, Idle
<1> QED
  BY <1>1, <1>2 DEF Within

LEMMA EndsWithin ==
  ASSUME IntakeTypeOK, NEW q \in Requests, NEW ops, req[q].op \in ops, Ends(q)
  PROVE  Within(ops)
<1>1. Idle.op \in ops \union {"none"}
  BY DEF Idle
<1> QED
  BY <1>1, MovesWithin DEF Ends

LEMMA GoesWithin ==
  ASSUME IntakeTypeOK, NEW q \in Requests, NEW ops, req[q].op \in ops,
         req[q] \in RegisterHandlers \union DiscoverHandlers, NEW pc, Goes(q, pc)
  PROVE  Within(ops)
<1>1. [req[q] EXCEPT !.pc = pc].op = req[q].op
  BY DEF RegisterHandlers, DiscoverHandlers
<1> QED
  BY <1>1, MovesWithin DEF Goes

LEMMA AccountingMoves ==
  ASSUME IntakeTypeOK, Accounting
  PROVE  Within({"register", "issue"}) /\ UNCHANGED faults
<1>0. req \in [Requests -> Handlers]
  BY TypesSplit
<1>1. ASSUME NEW q \in Requests, NEW s \in Sessions, Register(q, s)
      PROVE  Within({"register", "issue"}) /\ UNCHANGED faults
  <2>1. PICK k \in Keys :
          Begin(q, [op |-> "register", session |-> s, key |-> k,
                    pc |-> IF UserOf(s) \in users THEN "account" ELSE "newUser"])
    BY <1>1 DEF Register
  <2>2. Within({"register", "issue"})
    BY <2>1, MovesWithin
  <2> QED
    BY <2>1, <2>2 DEF Begin
<1>2. ASSUME NEW q \in Requests, NEW c \in Customers, IssueCustodial(q, c)
      PROVE  Within({"register", "issue"}) /\ UNCHANGED faults
  <2>1. Begin(q, [op |-> "issue", pc |-> "insert", session |-> c])
    BY <1>2 DEF IssueCustodial
  <2>2. Within({"register", "issue"})
    BY <2>1, MovesWithin
  <2> QED
    BY <2>1, <2>2 DEF Begin
<1>3. ASSUME NEW q \in Requests, RegistryStep(q)
      PROVE  Within({"register", "issue"}) /\ UNCHANGED faults
  <2>1. \/ req[q].op \in {"register", "issue"} /\ Ends(q)
        \/ req[q].op = "register" /\ (Goes(q, "account") \/ Goes(q, "insert"))
    BY <1>3 DEF RegistryStep, InsertUser, LookUpAccount, InsertAccount, InsertCustodial, At
  <2>2. req[q].op = "register" => req[q] \in RegisterHandlers
    BY <1>0, OthersRemember
  <2>3. Within({"register", "issue"})
    BY <2>1, <2>2, EndsWithin, GoesWithin
  <2> QED
    BY <2>1, <2>3 DEF Ends, Goes, Becomes
<1> QED
  BY <1>1, <1>2, <1>3 DEF Accounting, RegistryNext, Sessions

LEMMA DiscoveryMoves ==
  ASSUME IntakeTypeOK, Discovery
  PROVE  Within({"discover"}) /\ UNCHANGED faults
<1>0. req \in [Requests -> Handlers]
  BY TypesSplit
<1>1. ASSUME NEW q \in Requests, Discover(q)
      PROVE  Within({"discover"}) /\ UNCHANGED faults
  <2>1. PICK v \in Versions : Begin(q, [op |-> "discover", pc |-> "select", version |-> v])
    BY <1>1 DEF Discover
  <2>2. Within({"discover"})
    BY <2>1, MovesWithin
  <2> QED
    BY <2>1, <2>2 DEF Begin
<1>2. ASSUME NEW q \in Requests, DirectoryStep(q)
      PROVE  Within({"discover"}) /\ UNCHANGED faults
  <2>1. /\ req[q].op = "discover"
        /\ \/ Ends(q) \/ Goes(q, "update") \/ Goes(q, "insert") \/ Goes(q, "assets")
           \/ Goes(q, "delete")
    BY <1>2 DEF DirectoryStep, SelectAnchor, InsertAnchor, UpdateAnchor, DeleteAssets,
                InsertAssets, At
  <2>2. req[q] \in DiscoverHandlers /\ req[q].op \in {"discover"}
    BY <1>0, <2>1, OthersRemember
  <2>3. Within({"discover"})
    BY <2>1, <2>2, EndsWithin, GoesWithin
  <2> QED
    BY <2>1, <2>3 DEF Ends, Goes, Becomes
<1> QED
  BY <1>1, <1>2 DEF Discovery, DirectoryNext

LEMMA QuotingMoves ==
  ASSUME IntakeTypeOK, Quoting
  PROVE  Within({"quote"}) /\ UNCHANGED faults
<1>1. ASSUME NEW q \in Requests, NEW s \in Sessions, RequestQuote(q, s)
      PROVE  Within({"quote"}) /\ UNCHANGED faults
  <2>1. PICK h \in Handlers : Begin(q, h) /\ h.op = "quote"
    BY <1>1, RequestQuoteBegins, IntakeAssumption
  <2>2. Within({"quote"})
    BY <2>1, MovesWithin
  <2> QED
    BY <2>1, <2>2 DEF Begin
<1>2. ASSUME NEW q \in Requests, ReadAnchorFee(q)
      PROVE  Within({"quote"}) /\ UNCHANGED faults
  <2>1. req[q].op \in {"quote"}
    BY <1>2 DEF ReadAnchorFee, At
  <2>2. CASE Ends(q)
    BY <2>1, <2>2, EndsWithin DEF Ends, Becomes
  <2>3. CASE \E h \in Handlers : Becomes(q, h) /\ h.op = "quote"
    BY <2>1, <2>3, MovesWithin DEF Becomes
  <2> QED
    BY <1>2, <2>2, <2>3, FeeIsRead
<1>3. ASSUME NEW q \in Requests, InsertQuote(q)
      PROVE  Within({"quote"}) /\ UNCHANGED faults
  <2>1. req[q].op \in {"quote"} /\ Ends(q)
    BY <1>3 DEF InsertQuote, At
  <2> QED
    BY <2>1, EndsWithin DEF Ends, Becomes
<1>4. CASE Tick
  BY <1>4 DEF Tick, deskVars, Within
<1> QED
  BY <1>1, <1>2, <1>3, <1>4 DEF Quoting, QuoteStep

LEMMA RestartMoves ==
  ASSUME IntakeTypeOK, Restart
  PROVE  /\ faults' > 0 /\ faults' >= faults
         /\ \A p \in Requests : req'[p] = req[p] \/ req'[p] = Idle
<1>1. PICK q \in Requests : Dies(q)
  BY DEF Restart
<1>2. \A p \in Requests : req'[p] = IF p = q THEN Idle ELSE req[p]
  BY <1>1, TypesSplit DEF Dies
<1>3. faults' > 0 /\ faults' >= faults
  BY <1>1, DeskAssumption DEF Dies, Faulty, IntakeTypeOK
<1> QED
  BY <1>2, <1>3

\* Every account stays one session's.
LEMMA RegistryKept ==
  ASSUME IntakeTypeOK, HandlersSound, [Next]_vars
  PROVE  RegistrySound'
<1>0. RegistrySound
  BY DEF HandlersSound
<1>1. CASE Accounting
  BY <1>0, <1>1, RegistryKeptByAccounting
<1>2. CASE Discovery
  BY <1>0, <1>2, DiscoveryMoves, RegistryKeptElsewhere DEF Within, Discovery
<1>3. CASE Quoting
  BY <1>0, <1>3, QuotingMoves, RegistryKeptElsewhere DEF Within, Quoting
<1>4. CASE Intake
  BY <1>0, <1>4, IntakeApart, RegistryKeptElsewhere DEF IntakeBeside, Others
<1>5. CASE Restart
  BY <1>0, <1>5, RestartMoves, RegistryKeptElsewhere DEF Restart, Idle
<1>6. CASE UNCHANGED vars
  BY <1>0, <1>6, RegistryKeptElsewhere DEF vars, deskVars
<1> QED
  BY <1>1, <1>2, <1>3, <1>4, <1>5, <1>6 DEF Next

-----------------------------------------------------------------------------
\* The directory

\* A registered anchor is never deleted.
LEMMA AnchorStays ==
  ASSUME IntakeTypeOK, HandlersSound, [Next]_vars, anchor # NoVersion
  PROVE  anchor' # NoVersion
<1>0. req \in [Requests -> Handlers]
  BY TypesSplit
<1>1. CASE Discovery
  <2>1. PICK q \in Requests : Discover(q) \/ DirectoryStep(q)
    BY <1>1 DEF Discovery, DirectoryNext
  <2>2. req[q].op = "discover" => req[q].version \in Versions
    BY <1>0, OthersRemember DEF DiscoverHandlers
  <2> QED
    BY <2>1, <2>2, DirectoryAssumption
       DEF Discover, DirectoryStep, SelectAnchor, InsertAnchor, UpdateAnchor, DeleteAssets,
           InsertAssets, At, directoryVars
<1>2. CASE ~Discovery
  BY <1>2, IntakeApart
     DEF Next, Accounting, Quoting, Restart, vars, directoryVars, IntakeBeside
<1> QED
  BY <1>1, <1>2

\* A handler that has met the anchor's row still would.
LEMMA AnchorMetKept ==
  ASSUME IntakeTypeOK, HandlersSound, [Next]_vars
  PROVE  AnchorMet'
<1>0. AnchorMet /\ req \in [Requests -> Handlers]
  BY TypesSplit DEF HandlersSound
<1> DEFINE Met(h) == \/ h.op = "discover" /\ h.pc \in {"update", "delete"}
                     \/ h.op = "quote" /\ h.pc = "fee"
<1> SUFFICES ASSUME NEW p \in Requests, Met(req'[p])
             PROVE  anchor' # NoVersion
  BY DEF AnchorMet, At
<1>1. CASE req'[p] = req[p]
  BY <1>0, <1>1, AnchorStays DEF AnchorMet, At
<1>2. CASE req'[p] # req[p]
  <2>1. CASE Discovery
    <3>1. PICK q \in Requests : Discover(q) \/ DirectoryStep(q)
      BY <2>1 DEF Discovery, DirectoryNext
    <3>2. CASE Discover(q)
      <4>1. PICK v \in Versions : Begin(q, [op |-> "discover", pc |-> "select", version |-> v])
        BY <3>2 DEF Discover
      <4>2. req'[p] = [op |-> "discover", pc |-> "select", version |-> v]
        BY <1>0, <1>2, <4>1 DEF Begin
      <4> QED
        BY <4>2
    <3>3. CASE DirectoryStep(q)
      <4>1. req[q] \in DiscoverHandlers
        BY <1>0, <3>3, OthersRemember
           DEF DirectoryStep, SelectAnchor, InsertAnchor, UpdateAnchor, DeleteAssets,
               InsertAssets, At
      <4>2. p = q
        BY <1>0, <1>2, <3>3
           DEF DirectoryStep, SelectAnchor, InsertAnchor, UpdateAnchor, DeleteAssets,
               InsertAssets, Ends, Goes, Becomes
      <4>3. CASE SelectAnchor(q)
        <5>1. anchor # NoVersion \/ (req'[q].op = "discover" /\ req'[q].pc = "insert")
          BY <1>0, <4>1, <4>3 DEF SelectAnchor, Goes, Becomes, DiscoverHandlers
        <5> QED
          BY <4>2, <5>1, AnchorStays
      <4>4. CASE UpdateAnchor(q)
        BY <4>1, <4>4, DirectoryAssumption DEF UpdateAnchor, DiscoverHandlers
      <4>5. CASE InsertAnchor(q) \/ DeleteAssets(q) \/ InsertAssets(q)
        <5>1. req'[q] = Idle \/ (req'[q].op = "discover" /\ req'[q].pc = "assets")
          BY <1>0, <4>1, <4>5
             DEF InsertAnchor, DeleteAssets, InsertAssets, Ends, Goes, Becomes, DiscoverHandlers
        <5> QED
          BY <4>2, <5>1 DEF Idle
      <4> QED
        BY <3>3, <4>3, <4>4, <4>5 DEF DirectoryStep
    <3> QED
      BY <3>1, <3>2, <3>3
  <2>2. CASE Quoting
    <3>1. CASE \E q \in Requests, s \in Sessions : RequestQuote(q, s)
      <4>1. PICK q \in Requests, s \in Sessions : RequestQuote(q, s)
        BY <3>1
      <4>2. PICK h \in Handlers : Begin(q, h) /\ (h.op = "quote" /\ h.pc = "fee" => anchor # NoVersion)
                                  /\ h.op = "quote"
        BY <4>1, RequestQuoteBegins, IntakeAssumption
      <4>3. req'[p] = h
        BY <1>0, <1>2, <4>2 DEF Begin
      <4> QED
        BY <4>2, <4>3, AnchorStays
    <3>2. CASE \E q \in Requests : QuoteStep(q)
      <4>1. PICK q \in Requests : QuoteStep(q)
        BY <3>2
      <4>2. \/ Ends(q)
            \/ \E h \in Handlers : Becomes(q, h) /\ h.op = "quote" /\ h.pc = "insert"
        BY <4>1, FeeIsRead DEF QuoteStep, InsertQuote
      <4>3. req'[p] = Idle \/ (req'[p].op = "quote" /\ req'[p].pc = "insert")
        BY <1>0, <1>2, <4>2 DEF Ends, Becomes
      <4> QED
        BY <4>3 DEF Idle
    <3>3. CASE Tick
      BY <1>2, <3>3 DEF Tick, deskVars
    <3> QED
      BY <2>2, <3>1, <3>2, <3>3 DEF Quoting
  <2>3. CASE Accounting
    BY <1>2, <2>3, AccountingMoves DEF Within
  <2>4. CASE Intake
    BY <1>2, <2>4, IntakeApart DEF IntakeBeside, Others
  <2>5. CASE Restart
    BY <1>2, <2>5, RestartMoves DEF Idle
  <2>6. CASE UNCHANGED vars
    BY <1>2, <2>6 DEF vars, deskVars
  <2> QED
    BY <2>1, <2>2, <2>3, <2>4, <2>5, <2>6 DEF Next
<1> QED
  BY <1>1, <1>2

\* A refresh that is under way stays so when another handler moves.
LEMMA RefreshStays ==
  ASSUME IntakeTypeOK, Refreshing, NEW q \in Requests, ~At(q, "discover", "assets"),
         \A p \in Requests : p # q => req'[p] = req[p]
  PROVE  Refreshing'
BY DEF Refreshing, At

\* Every refresh, whatever it overlaps with, leaves the anchor with assets or
\* another refresh under way (upsertAnchor).
LEMMA DirectoryKept ==
  ASSUME IntakeTypeOK, HandlersSound, DirectoryComplete, [Next]_vars
  PROVE  DirectoryComplete'
<1>0. AnchorMet /\ req \in [Requests -> Handlers] /\ faults \in Nat
  BY TypesSplit, DeskAssumption DEF HandlersSound
<1>1. CASE Discovery
  <2>1. UNCHANGED faults
    BY <1>1, DiscoveryMoves
  <2>2. PICK q \in Requests : Discover(q) \/ DirectoryStep(q)
    BY <1>1 DEF Discovery, DirectoryNext
  <2>3. \A p \in Requests : p # q => req'[p] = req[p]
    BY <1>0, <2>2
       DEF Discover, DirectoryStep, SelectAnchor, InsertAnchor, UpdateAnchor, DeleteAssets,
           InsertAssets, Begin, Ends, Goes, Becomes
  <2>4. CASE Discover(q) \/ SelectAnchor(q)
    BY <2>1, <2>3, <2>4, RefreshStays
       DEF Discover, SelectAnchor, Begin, Idle, At, DirectoryComplete, directoryVars
  <2>5. CASE InsertAnchor(q)
    <3>1. CASE anchor # NoVersion
      BY <2>1, <2>3, <2>5, <3>1, RefreshStays DEF InsertAnchor, At, DirectoryComplete
    <3>2. CASE anchor = NoVersion
      <4>1. req[q] \in DiscoverHandlers
        BY <1>0, <2>5, OthersRemember DEF InsertAnchor, At
      <4>2. req'[q].op = "discover" /\ req'[q].pc = "assets"
        BY <1>0, <2>5, <3>2, <4>1 DEF InsertAnchor, Goes, Becomes, DiscoverHandlers
      <4> QED
        BY <4>2 DEF DirectoryComplete, Refreshing, At
    <3> QED
      BY <3>1, <3>2
  <2>6. CASE UpdateAnchor(q)
    <3>1. anchor # NoVersion
      BY <1>0, <2>6 DEF AnchorMet, UpdateAnchor
    <3> QED
      BY <2>1, <2>3, <2>6, <3>1, RefreshStays DEF UpdateAnchor, At, DirectoryComplete
  <2>7. CASE DeleteAssets(q)
    <3>1. req[q] \in DiscoverHandlers
      BY <1>0, <2>7, OthersRemember DEF DeleteAssets, At
    <3>2. req'[q].op = "discover" /\ req'[q].pc = "assets"
      BY <1>0, <2>7, <3>1 DEF DeleteAssets, Goes, Becomes, DiscoverHandlers
    <3> QED
      BY <3>2 DEF DirectoryComplete, Refreshing, At
  <2>8. CASE InsertAssets(q)
    BY <2>8 DEF InsertAssets, DirectoryComplete
  <2> QED
    BY <2>2, <2>4, <2>5, <2>6, <2>7, <2>8 DEF DirectoryStep
<1>2. CASE ~Discovery
  <2>1. UNCHANGED directoryVars /\ faults' >= faults
    BY <1>0, <1>2, IntakeApart, AccountingMoves, QuotingMoves, RestartMoves
       DEF Next, Accounting, Quoting, Restart, vars, deskVars, IntakeBeside
  <2>2. \/ faults' > 0
        \/ \A p \in Requests : req[p].op = "discover" => req'[p] = req[p]
    BY <1>2, IntakeApart, AccountingMoves, QuotingMoves, RestartMoves
       DEF Next, vars, deskVars, IntakeBeside, Others, Within
  <2>3. faults' \in Nat
    BY TypesKept, DeskAssumption DEF IntakeTypeOK
  <2> QED
    BY <1>0, <2>1, <2>2, <2>3 DEF DirectoryComplete, Refreshing, At, directoryVars
<1> QED
  BY <1>1, <1>2

\* A quote that names the anchor is priced with a listed fee, or while the
\* directory has none (compute).
LEMMA FeeMissed ==
  ASSUME IntakeTypeOK, HandlersSound, DirectoryComplete,
         [Next]_vars, NEW q \in Requests,
         At(q, "quote", "fee"), req'[q].op = "quote", req'[q].pc = "insert",
         \A v \in Versions : req'[q].terms # Terms(req[q].source, req[q].rate, AnchorFees[v])
  PROVE  Refreshing \/ faults > 0
<1>0. /\ AnchorMet /\ req \in [Requests -> Handlers] /\ faults \in Nat
      /\ assets \subseteq Versions
  BY TypesSplit, DeskAssumption DEF HandlersSound, TablesTypeOK
<1>1. req'[q] # req[q] /\ req'[q] # Idle
  BY DEF At, Idle
<1>2. Quoting
  BY <1>1, IntakeApart, AccountingMoves, DiscoveryMoves, RestartMoves
     DEF Next, vars, deskVars, IntakeBeside, Others, Within, At
<1>3. PICK p \in Requests : QuoteStep(p) \/ \E s \in Sessions : RequestQuote(p, s)
  BY <1>1, <1>2 DEF Quoting, Tick, deskVars
<1>4. p = q
  <2>1. CASE QuoteStep(p)
    <3>1. Ends(p) \/ \E h \in Handlers : Becomes(p, h)
      BY <2>1, FeeIsRead DEF QuoteStep, InsertQuote
    <3> QED
      BY <1>0, <1>1, <3>1 DEF Ends, Becomes
  <2>2. CASE \E s \in Sessions : RequestQuote(p, s)
    <3>1. \E h \in Handlers : Begin(p, h)
      BY <2>2, RequestQuoteBegins, IntakeAssumption
    <3> QED
      BY <1>0, <1>1, <3>1 DEF Begin
  <2> QED
    BY <1>3, <2>1, <2>2
<1>5. ReadAnchorFee(q)
  <2>1. ~InsertQuote(q)
    BY DEF InsertQuote, At
  <2>2. ~\E s \in Sessions : RequestQuote(q, s)
    <3>1. ASSUME NEW s \in Sessions, RequestQuote(q, s) PROVE req[q] = Idle
      BY <3>1, RequestQuoteBegins, IntakeAssumption DEF Begin
    <3> QED
      BY <3>1 DEF At, Idle
  <2> QED
    BY <1>3, <1>4, <2>1, <2>2 DEF QuoteStep
<1>6. PICK fee \in ListedFees :
        Becomes(q, Priced(req[q].owner, req[q].source, req[q].rate, fee)) \/ Ends(q)
  BY <1>5 DEF ReadAnchorFee
<1>7. req'[q] = Priced(req[q].owner, req[q].source, req[q].rate, fee)
  BY <1>0, <1>1, <1>6 DEF Becomes, Ends
<1>8. req'[q].terms = Terms(req[q].source, req[q].rate, fee)
  BY <1>7 DEF Priced
<1>9. assets = {}
  BY <1>0, <1>8 DEF ListedFees
<1> QED
  BY <1>0, <1>9 DEF DirectoryComplete, AnchorMet

-----------------------------------------------------------------------------
\* Quotes

\* A handler about to insert a quote holds fair terms.
LEMMA OffersKept ==
  ASSUME IntakeTypeOK, HandlersSound, [Next]_vars
  PROVE  OffersAreFair'
<1>0. OffersAreFair /\ req \in [Requests -> Handlers]
  BY TypesSplit DEF HandlersSound
<1> SUFFICES ASSUME NEW p \in Requests, req'[p].op = "quote", req'[p].pc = "insert"
             PROVE  FairTerms(req'[p].terms)
  BY DEF OffersAreFair, At
<1>1. CASE req'[p] = req[p]
  BY <1>0, <1>1 DEF OffersAreFair, At
<1>2. CASE req'[p] # req[p]
  <2>0. req'[p] # Idle
    BY DEF Idle
  <2>1. Quoting
    BY <1>2, <2>0, IntakeApart, AccountingMoves, DiscoveryMoves, RestartMoves
       DEF Next, vars, deskVars, IntakeBeside, Others, Within
  <2>2. PICK q \in Requests : QuoteStep(q) \/ \E s \in Sessions : RequestQuote(q, s)
    BY <1>2, <2>1 DEF Quoting, Tick, deskVars
  <2>3. \E h \in Handlers : /\ Begin(q, h) \/ Becomes(q, h)
                            /\ h = Idle \/ h.op = "quote"
                            /\ h.pc = "insert" => FairTerms(h.terms)
    <3>1. CASE ReadAnchorFee(q) \/ InsertQuote(q)
      <4>1. CASE Ends(q)
        BY <4>1 DEF Ends, Idle, Handlers
      <4>2. CASE ~Ends(q)
        BY <3>1, <4>2, FeeIsRead DEF InsertQuote
      <4> QED
        BY <4>1, <4>2
    <3>2. CASE \E s \in Sessions : RequestQuote(q, s)
      BY <3>2, RequestQuoteBegins, IntakeAssumption
    <3> QED
      BY <2>2, <3>1, <3>2 DEF QuoteStep
  <2> QED
    BY <1>0, <1>2, <2>3 DEF Begin, Becomes
<1> QED
  BY <1>1, <1>2

\* Only InsertQuote adds to the table, and what is in it stays.
LEMMA QuotesInsertedOnly ==
  ASSUME IntakeTypeOK, HandlersSound, [Next]_vars
  PROVE  QuotesKept \/ \E q \in Requests : InsertQuote(q)
<1>1. CASE Quoting
  <2>1. (\E q \in Requests : InsertQuote(q)) \/ UNCHANGED quotes
    BY <1>1 DEF Quoting, QuoteStep, RequestQuote, ReadAnchorFee, Tick, quoteVars
  <2> QED
    BY <2>1 DEF QuotesKept, Stored
<1>2. CASE Intake
  BY <1>2, IntakeApart DEF IntakeBeside
<1>3. CASE ~Quoting /\ ~Intake
  BY <1>3 DEF Next, Accounting, Discovery, Restart, vars, quoteVars, QuotesKept, Stored
<1> QED
  BY <1>1, <1>2, <1>3

\* Quotes stay fair.
LEMMA PricesKept ==
  ASSUME IntakeTypeOK, HandlersSound, PricesAreFair, [Next]_vars
  PROVE  PricesAreFair'
<1>1. CASE QuotesKept
  BY <1>1 DEF PricesAreFair, QuotesKept
<1>2. ASSUME NEW q \in Requests, InsertQuote(q)
      PROVE  PricesAreFair'
  <2>1. CASE UNCHANGED quotes
    BY <2>1 DEF PricesAreFair, Stored
  <2>2. CASE ~UNCHANGED quotes
    <3>1. PICK i \in QuoteIds :
            /\ quotes'[i] = [owner |-> req[q].owner, terms |-> req[q].terms,
                             expires |-> req[q].expires, used |-> FALSE]
            /\ \A j \in QuoteIds : j # i => quotes'[j] = quotes[j]
      BY <1>2, <2>2, QuoteIsInserted
    <3>2. quotes'[i].terms = req[q].terms
      BY <3>1
    <3>3. FairTerms(req[q].terms)
      BY <1>2 DEF InsertQuote, HandlersSound, OffersAreFair
    <3> QED
      BY <3>1, <3>2, <3>3 DEF PricesAreFair, Stored
  <2> QED
    BY <2>1, <2>2
<1> QED
  BY <1>1, <1>2, QuotesInsertedOnly

\* One owner's quotes still differ in their terms.
LEMMA OneQuoteKept ==
  ASSUME IntakeTypeOK, HandlersSound, [Next]_vars
  PROVE  OneQuotePerTerms'
<1>0. OneQuotePerTerms
  BY DEF HandlersSound
<1>1. CASE QuotesKept
  BY <1>0, <1>1 DEF OneQuotePerTerms, SameQuote, QuotesKept
<1>2. ASSUME NEW q \in Requests, InsertQuote(q)
      PROVE  OneQuotePerTerms'
  <2>1. CASE UNCHANGED quotes
    BY <1>0, <2>1 DEF OneQuotePerTerms, SameQuote, Stored
  <2>2. CASE ~UNCHANGED quotes
    <3>1. PICK i \in QuoteIds :
            /\ quotes'[i] = [owner |-> req[q].owner, terms |-> req[q].terms,
                             expires |-> req[q].expires, used |-> FALSE]
            /\ ~Stored(i)
            /\ [owner |-> req[q].owner, terms |-> req[q].terms,
                expires |-> req[q].expires, used |-> FALSE] \in QuoteRows
            /\ \A j \in QuoteIds : j # i => quotes'[j] = quotes[j]
      BY <1>2, <2>2, QuoteIsInserted
    <3>2. quotes'[i].terms = req[q].terms /\ quotes'[i].owner = req[q].owner
      BY <3>1
    <3>3. \A j \in QuoteIds : ~SameQuote(j, req[q].owner, req[q].terms)
      BY <1>2, <2>2, QuoteIsInserted
    <3>4. \A j, k \in QuoteIds :
            Stored(j)' /\ quotes'[k].owner = quotes'[j].owner
                       /\ quotes'[k].terms = quotes'[j].terms => j = k
      BY <1>0, <3>1, <3>2, <3>3 DEF OneQuotePerTerms, SameQuote, Stored
    <3> QED
      BY <3>4 DEF OneQuotePerTerms, SameQuote
  <2> QED
    BY <2>1, <2>2
<1> QED
  BY <1>1, <1>2, QuotesInsertedOnly

-----------------------------------------------------------------------------
\* Whose escrow is whose

\* The sender, the terms and the owner of its quote name a row.
LEMMA SameRow ==
  ASSUME IntakeTypeOK, HandlersSound, SingleUse, NEW r \in RemIds, NEW t \in RemIds,
         Inserted(r), Inserted(t), Matches(Commitment(r), t),
         quotes[rems[r].quote].owner = quotes[rems[t].quote].owner
  PROVE  r = t
<1>1. quotes[rems[r].quote].terms = quotes[rems[t].quote].terms
  BY DEF Matches, Commitment
<1>2. /\ Stored(rems[r].quote) /\ Stored(rems[t].quote)
      /\ rems[r].quote \in QuoteIds /\ rems[t].quote \in QuoteIds
  BY DEF HandlersSound, RowsSound, Stored
<1>3. rems[r].quote = rems[t].quote
  BY <1>1, <1>2 DEF HandlersSound, OneQuotePerTerms, SameQuote
<1> QED
  BY <1>3 DEF SingleUse

\* An escrow that a row commits to and that matches another row makes the other
\* row's lookalike of it.
LEMMA MatchPasses ==
  ASSUME IntakeTypeOK, HandlersSound, NEW r \in RemIds, NEW n \in Escrows,
         Matches(ledger[n], r)
  PROVE  Passes(n, r)
<1> DEFINE t == ledger[n].row
<1>1. Inserted(t) /\ ledger[n] = Commitment(t)
  BY DEF HandlersSound, LedgerSound
<1>2. /\ t \in RemIds
      /\ rems[t].account.key = rems[r].account.key
      /\ quotes[rems[t].quote].terms = quotes[rems[r].quote].terms
  <2>1. Commitment(t).sender = rems[t].account.key
        /\ Commitment(t).terms = quotes[rems[t].quote].terms
    BY DEF Commitment
  <2> HIDE DEF t
  <2> QED
    BY <1>1, <2>1 DEF Matches, Inserted
<1> HIDE DEF t
<1>3. CASE t = r
  BY <1>1, <1>3 DEF Passes
<1>4. CASE t # r
  BY <1>1, <1>2, <1>4 DEF Passes, Lookalike
<1> QED
  BY <1>3, <1>4

-----------------------------------------------------------------------------
\* What every step leaves standing

Frame ==
  /\ users \subseteq users' /\ accounts \subseteq accounts' /\ faults' >= faults
  /\ \A i \in QuoteIds :
       Stored(i) => /\ Stored(i)'
                    /\ quotes'[i].owner = quotes[i].owner
                    /\ quotes'[i].terms = quotes[i].terms
                    /\ quotes[i].used => quotes'[i].used
  /\ \A r \in RemIds :
       Inserted(r) => /\ Inserted(r)'
                      /\ rems'[r].quote = rems[r].quote
                      /\ rems'[r].user = rems[r].user
                      /\ rems'[r].account = rems[r].account
                      /\ rems'[r].expiry = rems[r].expiry
  /\ \A n \in Escrows : n \in Escrows' /\ ledger'[n] = ledger[n]
  /\ burnt \subseteq burnt'

LEMMA StepsFramed ==
  ASSUME IntakeTypeOK, HandlersSound, [Next]_vars
  PROVE  Frame
<1>1. CASE Beside
  BY <1>1 DEF Beside, SlotsBeside, Frame, intakeVars, Inserted, Stored, Escrows
<1>2. CASE Intake
  <2>1. /\ users \subseteq users' /\ accounts \subseteq accounts' /\ faults' >= faults
        /\ \A i \in QuoteIds :
             Stored(i) => /\ Stored(i)'
                          /\ quotes'[i].owner = quotes[i].owner
                          /\ quotes'[i].terms = quotes[i].terms
                          /\ quotes[i].used => quotes'[i].used
    BY <1>2, IntakeApart DEF IntakeBeside, QuotesKept, registryVars
  <2> DEFINE RowsStay == \A r \in RemIds :
       Inserted(r) => /\ Inserted(r)'
                      /\ rems'[r].quote = rems[r].quote
                      /\ rems'[r].user = rems[r].user
                      /\ rems'[r].account = rems[r].account
                      /\ rems'[r].expiry = rems[r].expiry
             LedgerGrows == \A n \in Escrows : n \in Escrows' /\ ledger'[n] = ledger[n]
  <2>2. UNCHANGED rems => RowsStay
    BY DEF Inserted
  <2>3. UNCHANGED ledger => LedgerGrows
    BY DEF Escrows
  <2>4. ASSUME NEW r \in RemIds, Inserted(r), Open(r) PROVE LedgerGrows
    BY <2>4, OpenAppends DEF HandlersSound
  <2> HIDE DEF LedgerGrows
  <2>5. ASSUME NEW q \in Requests, InsertRemittance(q) PROVE RowsStay
    <3>1. CASE UNCHANGED rems
      BY <2>2, <3>1
    <3>2. CASE Books(q)
      <4>1. PICK r \in RemIds : ~Inserted(r) /\ \A t \in RemIds : t # r => rems'[t] = rems[t]
        BY <3>2 DEF Books
      <4> QED
        BY <4>1 DEF Inserted, RowsStay
    <3> QED
      BY <2>5, <3>1, <3>2, InsertRemittanceDoes
  <2>6. ASSUME NEW q \in Requests, Link(q) PROVE RowsStay
    <3>1. rems' = [rems EXCEPT ![req[q].rem].link = req[q].link] /\ req[q].rem \in RemIds
      BY <2>6, LinkDoes
    <3>2. ASSUME NEW r \in RemIds, Inserted(r)
          PROVE  /\ rems'[r].quote = rems[r].quote /\ rems'[r].user = rems[r].user
                 /\ rems'[r].account = rems[r].account /\ rems'[r].expiry = rems[r].expiry
                 /\ rems'[r].quote # NoQuote
      <4>1. rems[r] \in RemRows
        BY <3>2, InsertedIsRow
      <4>2. rems'[r] = IF r = req[q].rem THEN [rems[r] EXCEPT !.link = req[q].link] ELSE rems[r]
        BY <3>1 DEF IntakeTypeOK
      <4> QED
        BY <4>1, <4>2, QuoteAssumption DEF RemRows
    <3> QED
      BY <3>2 DEF Inserted, NoRemRow
  <2> HIDE DEF RowsStay
  <2>7. ASSUME NEW q \in Requests, NEW s \in Sessions, Create(q, s) \/ Confirm(q, s)
        PROVE  RowsStay /\ LedgerGrows
    BY <2>2, <2>3, <2>7 DEF Create, Confirm, intakeVars
  <2>8. ASSUME NEW q \in Requests,
               \/ ResolveSender(q) \/ ResolveOwner(q) \/ Claim(q) \/ InsertRemittance(q)
               \/ SenderSigner(q) \/ InsertCall(q) \/ RecordFailure(q)
               \/ RecordSuccess(q) \/ Link(q) \/ ReadNewest(q) \/ Match(q)
        PROVE  RowsStay /\ LedgerGrows
    BY <2>2, <2>3, <2>5, <2>6, <2>8
       DEF ResolveSender, ResolveOwner, Claim, InsertRemittance, SenderSigner, InsertCall,
           RecordFailure, RecordSuccess, Link, ReadNewest, Match, intakeVars
  <2>9. ASSUME NEW q \in Requests, Submit(q) PROVE RowsStay /\ LedgerGrows
    <3>1. req[q].rem \in RemIds /\ Inserted(req[q].rem)
      BY <2>9, SubmitDoes DEF HandlersSound, OpeningsSound, Opens
    <3> QED
      BY <2>2, <2>3, <2>4, <2>9, <3>1, SubmitDoes
  <2>10. ASSUME NEW r \in RemIds, AppSubmits(r) PROVE RowsStay /\ LedgerGrows
    BY <2>2, <2>4, <2>10 DEF AppSubmits, HandlersSound, LedgerSound
  <2>11. RowsStay /\ LedgerGrows
    BY <1>2, <2>7, <2>8, <2>9, <2>10, IntakeCases
  <2>12. burnt \subseteq burnt'
    <3>1. ASSUME NEW q \in Requests, NEW s \in Sessions, Create(q, s) \/ Confirm(q, s)
          PROVE  burnt \subseteq burnt'
      BY <3>1 DEF Create, Confirm, intakeVars
    <3>2. ASSUME NEW q \in Requests,
                 \/ ResolveSender(q) \/ ResolveOwner(q) \/ Claim(q) \/ ReadNewest(q) \/ Match(q)
          PROVE  burnt \subseteq burnt'
      BY <3>2 DEF ResolveSender, ResolveOwner, Claim, ReadNewest, Match, intakeVars
    <3>3. ASSUME NEW q \in Requests, InsertRemittance(q)
          PROVE  burnt \subseteq burnt'
      BY <3>3, InsertRemittanceDoes
    <3>4. ASSUME NEW q \in Requests,
                 \/ SenderSigner(q) \/ InsertCall(q) \/ Submit(q)
                 \/ RecordFailure(q) \/ RecordSuccess(q) \/ Link(q)
          PROVE  burnt \subseteq burnt'
      BY <3>4 DEF SenderSigner, InsertCall, Submit, RecordFailure, RecordSuccess, Link
    <3>5. ASSUME NEW r \in RemIds, AppSubmits(r)
          PROVE  burnt \subseteq burnt'
      BY <3>5 DEF AppSubmits
    <3> QED
      BY <1>2, <3>1, <3>2, <3>3, <3>4, <3>5, IntakeCases
  <2> QED
    BY <2>1, <2>11, <2>12 DEF Frame, RowsStay, LedgerGrows
<1> QED
  BY <1>1, <1>2, StepsApart

\* What a row commits to stands, and so does its escrow.
LEMMA CommitmentStands ==
  ASSUME IntakeTypeOK, HandlersSound, Frame, NEW r \in RemIds, Inserted(r)
  PROVE  /\ Commitment(r)' = Commitment(r)
         /\ \A record : Matches(record, r)' <=> Matches(record, r)
         /\ Escrowed(r) => Escrowed(r)'
<1>1. /\ rems'[r].account = rems[r].account /\ rems'[r].expiry = rems[r].expiry
      /\ quotes'[rems'[r].quote].terms = quotes[rems[r].quote].terms
  BY DEF HandlersSound, RowsSound, Frame, Stored
<1>2. ASSUME NEW record PROVE Matches(record, r)' <=> Matches(record, r)
  BY <1>1 DEF Matches
<1>3. Commitment(r)' = Commitment(r)
  BY <1>1 DEF Commitment
<1>4. Escrowed(r) => Escrowed(r)'
  BY DEF Escrowed, Frame
<1> QED
  BY <1>2, <1>3, <1>4

\* A lookalike stays one, and an escrow that passes for a row's still does.
LEMMA PassesStands ==
  ASSUME IntakeTypeOK, HandlersSound, Frame, NEW r \in RemIds, Inserted(r)
  PROVE  /\ Lookalike(r) => Lookalike(r)'
         /\ \A n : Passes(n, r) => Passes(n, r)'
<1>1. \A t \in RemIds :
        Inserted(t) => /\ Inserted(t)'
                       /\ rems'[t].account = rems[t].account
                       /\ quotes'[rems'[t].quote].terms = quotes[rems[t].quote].terms
  BY DEF HandlersSound, RowsSound, Frame, Stored
<1>2. Lookalike(r) => Lookalike(r)'
  BY <1>1 DEF Lookalike
<1>3. ASSUME NEW n, Passes(n, r) PROVE Passes(n, r)'
  <2>1. n \in Escrows /\ Matches(ledger[n], r) /\ (ledger[n] = Commitment(r) \/ Lookalike(r))
    BY <1>3 DEF Passes
  <2>2. n \in Escrows' /\ ledger'[n] = ledger[n]
    BY <2>1 DEF Frame
  <2>3. /\ ledger[n].sender = rems[r].account.key
        /\ ledger[n].terms = quotes[rems[r].quote].terms
    BY <2>1 DEF Matches
  <2>4. Matches(ledger[n], r)'
    BY <1>1, <2>2, <2>3 DEF Matches
  <2>5. Commitment(r)' = Commitment(r)
    BY CommitmentStands
  <2> QED
    BY <1>2, <2>1, <2>2, <2>4, <2>5 DEF Passes
<1> QED
  BY <1>2, <1>3

\* The escrow that a row commits to matches it.
LEMMA OwnPasses ==
  ASSUME NEW r \in RemIds, NEW n \in Escrows, ledger[n] = Commitment(r)
  PROVE  Passes(n, r) /\ Escrowed(r)
BY DEF Passes, Matches, Commitment, Escrowed

\* No row gets an escrow while the ledger stands.
LEMMA NoEscrowStands ==
  ASSUME NEW r \in RemIds, ~Escrowed(r), UNCHANGED ledger
  PROVE  ~Escrowed(r)'
BY DEF Escrowed, Escrows

\* Opening the escrow of one row opens that of no other.
LEMMA OthersNotEscrowed ==
  ASSUME IntakeTypeOK, HandlersSound, NEW r \in RemIds, NEW t \in RemIds,
         Inserted(t), Open(t), r # t, ~Escrowed(r)
  PROVE  ~Escrowed(r)'
<1>1. Commitment(t).row = t
  BY DEF Commitment
<1>2. /\ Len(ledger) \in Nat
      /\ Escrows = 1..Len(ledger) /\ Escrows' = 1..(Len(ledger) + 1)
      /\ \A n \in Escrows : ledger'[n] = ledger[n]
      /\ ledger'[Len(ledger) + 1] = Commitment(t)
  BY OpenAppends DEF HandlersSound
<1>3. ASSUME NEW n \in Escrows' PROVE ledger'[n].row # r
  <2>1. CASE n = Len(ledger) + 1
    BY <1>1, <1>2, <2>1
  <2>2. CASE n \in Escrows
    BY <1>2, <2>2 DEF Escrowed
  <2> QED
    BY <1>2, <1>3, <2>1, <2>2
<1> QED
  BY <1>3 DEF Escrowed

\* And it does open that one.
LEMMA OpenedIsEscrowed ==
  ASSUME IntakeTypeOK, HandlersSound, Frame, NEW r \in RemIds, Inserted(r), Open(r)
  PROVE  /\ Len(ledger) + 1 \in Escrows'
         /\ ledger'[Len(ledger) + 1] = Commitment(r)'
         /\ \A n \in Escrows' : n \in Escrows \/ n = Len(ledger) + 1
<1>1. /\ Len(ledger) \in Nat
      /\ Escrows = 1..Len(ledger) /\ Escrows' = 1..(Len(ledger) + 1)
      /\ ledger'[Len(ledger) + 1] = Commitment(r)
  BY OpenAppends DEF HandlersSound
<1> QED
  BY <1>1, CommitmentStands

\* The steps that touch the intake's tables.
LEMMA Disturbing ==
  ASSUME IntakeTypeOK, [Next]_vars
  PROVE  \/ UNCHANGED intakeVars
         \/ \E q \in Requests :
              \/ InsertRemittance(q) \/ SenderSigner(q) \/ InsertCall(q) \/ Submit(q)
              \/ RecordFailure(q) \/ RecordSuccess(q) \/ Link(q)
         \/ \E r \in RemIds : AppSubmits(r)
<1>1. CASE Beside
  BY <1>1 DEF Beside
<1>2. CASE Intake
  <2>1. ASSUME NEW q \in Requests, NEW s \in Sessions, Create(q, s) \/ Confirm(q, s)
        PROVE  UNCHANGED intakeVars
    BY <2>1 DEF Create, Confirm
  <2>2. ASSUME NEW q \in Requests,
               ResolveSender(q) \/ ResolveOwner(q) \/ Claim(q) \/ ReadNewest(q) \/ Match(q)
        PROVE  UNCHANGED intakeVars
    BY <2>2 DEF ResolveSender, ResolveOwner, Claim, ReadNewest, Match
  <2> QED
    BY <1>2, <2>1, <2>2, IntakeCases
<1> QED
  BY <1>1, <1>2, StepsApart

\* An escrow is opened for a row that has none, whose call is under way or whose
\* wallet was asked.
LEMMA LedgerMoves ==
  ASSUME IntakeTypeOK, HandlersSound, [Next]_vars
  PROVE  \/ UNCHANGED ledger
         \/ \E r \in RemIds :
              /\ Inserted(r) /\ Open(r) /\ ~Escrowed(r)
              /\ calls[r] \in {"none", "pending"}
              /\ UNCHANGED <<rems, calls>>
              /\ prepared'[r] # "ready"
              /\ \A t \in RemIds : t # r => prepared'[t] = prepared[t]
              /\ \/ prepared[r] = "ready"
                 \/ \E q \in Requests : Opens(q, r) /\ req'[q] # req[q]
<1>1. ASSUME NEW q \in Requests, Submit(q), ~UNCHANGED ledger
      PROVE  \E r \in RemIds :
              /\ Inserted(r) /\ Open(r) /\ ~Escrowed(r)
              /\ calls[r] \in {"none", "pending"}
              /\ UNCHANGED <<rems, calls>>
              /\ prepared'[r] # "ready"
              /\ \A t \in RemIds : t # r => prepared'[t] = prepared[t]
              /\ \/ prepared[r] = "ready"
                 \/ \E p \in Requests : Opens(p, r) /\ req'[p] # req[p]
  <2>1. req[q].rem \in RemIds /\ Opens(q, req[q].rem) /\ req[q].pc = "submit"
    BY <1>1, SubmitDoes DEF Opens
  <2>2. /\ Inserted(req[q].rem) /\ ~Escrowed(req[q].rem) /\ calls[req[q].rem] = "pending"
        /\ prepared[req[q].rem] = "none"
    BY <2>1 DEF HandlersSound, OpeningsSound
  <2>3. /\ Open(req[q].rem) /\ UNCHANGED <<rems, calls, prepared>>
        /\ req'[q] # req[q]
    BY <1>1, <2>1, SubmitDoes
  <2> QED
    BY <2>1, <2>2, <2>3
<1>2. ASSUME NEW r \in RemIds, AppSubmits(r)
      PROVE  /\ Inserted(r) /\ Open(r) /\ ~Escrowed(r)
             /\ calls[r] \in {"none", "pending"}
             /\ UNCHANGED <<rems, calls>>
             /\ prepared'[r] # "ready"
             /\ \A t \in RemIds : t # r => prepared'[t] = prepared[t]
             /\ prepared[r] = "ready"
  <2>1. Inserted(r) /\ ~Escrowed(r) /\ calls[r] = "none"
    BY <1>2 DEF AppSubmits, HandlersSound, LedgerSound
  <2> QED
    BY <1>2, <2>1 DEF AppSubmits, IntakeTypeOK
<1>3. ASSUME NEW q \in Requests,
             \/ InsertRemittance(q) \/ SenderSigner(q) \/ InsertCall(q)
             \/ RecordFailure(q) \/ RecordSuccess(q) \/ Link(q)
      PROVE  UNCHANGED ledger
  BY <1>3 DEF InsertRemittance, SenderSigner, InsertCall, RecordFailure, RecordSuccess, Link
<1> QED
  BY <1>1, <1>2, <1>3, Disturbing DEF intakeVars

\* Only the handler that opens a row's escrow writes down its call.
LEMMA CallsMove ==
  ASSUME IntakeTypeOK, HandlersSound, [Next]_vars
  PROVE  \/ UNCHANGED calls
         \/ \E q \in Requests, r \in RemIds :
              /\ Opens(q, r)
              /\ UNCHANGED <<rems, ledger, prepared, faults>>
              /\ \A t \in RemIds : t # r => calls'[t] = calls[t]
              /\ Alone(q)
              /\ \/ req[q].pc = "record" /\ calls'[r] = "pending"
                    /\ req'[q].pc = "submit"
                 \/ req[q].pc = "failed" /\ calls'[r] = "failed" /\ req'[q] = Idle
                 \/ req[q].pc = "confirmed" /\ calls'[r] = "confirmed" /\ req'[q].pc = "link"
<1>1. ASSUME NEW q \in Requests, InsertCall(q) \/ RecordFailure(q) \/ RecordSuccess(q),
             ~UNCHANGED calls
      PROVE  /\ req[q].rem \in RemIds
             /\ Opens(q, req[q].rem)
             /\ UNCHANGED <<rems, ledger, prepared, faults>>
             /\ \A t \in RemIds : t # req[q].rem => calls'[t] = calls[t]
             /\ Alone(q)
             /\ \/ req[q].pc = "record" /\ calls'[req[q].rem] = "pending"
                    /\ req'[q].pc = "submit"
                \/ req[q].pc = "failed" /\ calls'[req[q].rem] = "failed" /\ req'[q] = Idle
                \/ req[q].pc = "confirmed" /\ calls'[req[q].rem] = "confirmed"
                   /\ req'[q].pc = "link"
  <2>1. CASE InsertCall(q)
    BY <2>1, InsertCallDoes DEF Opens, IntakeTypeOK
  <2>2. CASE RecordFailure(q)
    BY <2>2, RecordFailureDoes DEF Opens, IntakeTypeOK
  <2>3. CASE RecordSuccess(q)
    BY <1>1, <2>3, RecordSuccessDoes DEF Opens, IntakeTypeOK
  <2> QED
    BY <1>1, <2>1, <2>2, <2>3
<1>2. ASSUME NEW q \in Requests, InsertRemittance(q) \/ SenderSigner(q) \/ Submit(q) \/ Link(q)
      PROVE  UNCHANGED calls
  BY <1>2 DEF InsertRemittance, SenderSigner, Submit, Link
<1>3. ASSUME NEW r \in RemIds, AppSubmits(r) PROVE UNCHANGED calls
  BY <1>3 DEF AppSubmits
<1> QED
  BY <1>1, <1>2, <1>3, Disturbing DEF intakeVars

-----------------------------------------------------------------------------
\* Rows

\* A row is inserted by a create that has used up its quote.
LEMMA RowInserted ==
  ASSUME IntakeTypeOK, HandlersSound, NEW q \in Requests, InsertRemittance(q), Books(q)
  PROVE  \E r \in RemIds :
           /\ ~Inserted(r)
           /\ Inserted(r)'
           /\ \A t \in RemIds : t # r => rems'[t] = rems[t]
           /\ rems'[r].quote = req[q].quote /\ rems'[r].user = req[q].user
           /\ rems'[r].account = req[q].account /\ rems'[r].link = 0
           /\ req'[q].op = "create" /\ req'[q].pc = "signer" /\ req'[q].rem = r
           /\ Stored(req[q].quote) /\ quotes[req[q].quote].used
           /\ req[q].account \in accounts
           /\ UserFits(req[q].user, req[q].account)
           /\ \A t \in RemIds : rems[t].quote # req[q].quote
<1>1. PICK r \in RemIds :
         /\ ~Inserted(r)
         /\ \A t \in RemIds : t # r => rems'[t] = rems[t]
         /\ rems'[r].quote = req[q].quote /\ rems'[r].user = req[q].user
         /\ rems'[r].account = req[q].account /\ rems'[r].link = 0
         /\ req'[q].op = "create" /\ req'[q].pc = "signer" /\ req'[q].rem = r
  BY DEF Books
<1>2. req[q].op = "create" /\ req[q].pc = "insert"
  BY InsertRemittanceDoes
<1>3. /\ Stored(req[q].quote) /\ quotes[req[q].quote].used
      /\ req[q].account \in accounts
      /\ UserFits(req[q].user, req[q].account)
      /\ \A t \in RemIds : rems[t].quote # req[q].quote
  BY <1>2 DEF HandlersSound, CreatesSound
<1>4. Inserted(r)'
  BY <1>1, <1>3, QuoteAssumption DEF Inserted, NoRemRow, Stored
<1> QED
  BY <1>1, <1>3, <1>4

\* Nothing else inserts one.
LEMMA RowsInsertedOnly ==
  ASSUME IntakeTypeOK, HandlersSound, [Next]_vars
  PROVE  \/ \A r \in RemIds : /\ Inserted(r)' <=> Inserted(r)
                              /\ rems'[r].quote = rems[r].quote
         \/ \E q \in Requests : InsertRemittance(q) /\ Books(q)
<1>1. CASE UNCHANGED rems
  BY <1>1 DEF Inserted
<1>2. ASSUME NEW q \in Requests, Link(q)
      PROVE  \A r \in RemIds : /\ Inserted(r)' <=> Inserted(r)
                               /\ rems'[r].quote = rems[r].quote
  <2>1. /\ rems' = [rems EXCEPT ![req[q].rem].link = req[q].link] /\ req[q].rem \in RemIds
        /\ req[q].op \in {"create", "confirm"} /\ req[q].pc = "link"
    BY <1>2, LinkDoes
  <2>2. Inserted(req[q].rem)
    BY <2>1 DEF HandlersSound, OpeningsSound, Opens, ConfirmsSound
  <2>3. \A r \in RemIds : r # req[q].rem => rems'[r] = rems[r]
    BY <2>1 DEF IntakeTypeOK
  <2> QED
    BY <2>2, <2>3, StepsFramed DEF Frame, Inserted
<1>3. ASSUME NEW q \in Requests, InsertRemittance(q)
      PROVE  UNCHANGED rems \/ Books(q)
  BY <1>3, InsertRemittanceDoes
<1> QED
  BY <1>1, <1>2, <1>3, Disturbing
     DEF intakeVars, SenderSigner, InsertCall, Submit, RecordFailure, RecordSuccess, AppSubmits

\* The rows stay sound.
LEMMA RowsKept ==
  ASSUME IntakeTypeOK, HandlersSound, [Next]_vars
  PROVE  RowsSound'
<1>0. RowsSound /\ Frame
  BY StepsFramed DEF HandlersSound
<1>1. ASSUME NEW r \in RemIds, Inserted(r)
      PROVE  /\ Stored(rems[r].quote)'
             /\ quotes'[rems'[r].quote].used
             /\ rems'[r].account \in accounts'
             /\ UserFits(rems[r].user, rems[r].account)'
  <2>1. /\ Stored(rems[r].quote) /\ rems[r].quote \in QuoteIds
        /\ quotes[rems[r].quote].used
        /\ rems[r].account \in accounts
        /\ UserFits(rems[r].user, rems[r].account)
    BY <1>0, <1>1 DEF RowsSound, Stored
  <2>2. /\ rems'[r].quote = rems[r].quote /\ rems'[r].account = rems[r].account
        /\ rems'[r].user = rems[r].user
    BY <1>0, <1>1, <2>1 DEF Frame
  <2>3. Stored(rems[r].quote)' /\ quotes'[rems'[r].quote].used
    BY <1>0, <2>1, <2>2 DEF Frame, Stored
  <2>5. UserFits(rems[r].user, rems[r].account)'
    BY <1>0, <2>1, <2>2 DEF UserFits, IdentitySplit, Frame
  <2> QED
    BY <1>0, <2>1, <2>2, <2>3, <2>5 DEF Frame
<1>2. CASE \A r \in RemIds : Inserted(r)' <=> Inserted(r)
  BY <1>1, <1>2 DEF RowsSound
<1>3. ASSUME NEW q \in Requests, InsertRemittance(q), Books(q)
      PROVE  RowsSound'
  <2>1. PICK r \in RemIds :
           /\ \A t \in RemIds : t # r => rems'[t] = rems[t]
           /\ rems'[r].quote = req[q].quote /\ rems'[r].user = req[q].user
           /\ rems'[r].account = req[q].account
           /\ Stored(req[q].quote) /\ quotes[req[q].quote].used
           /\ req[q].account \in accounts
           /\ UserFits(req[q].user, req[q].account)
    BY <1>3, RowInserted
  <2>2. UNCHANGED <<registryVars, quoteVars>>
    BY <1>3 DEF InsertRemittance
  <2>3. /\ Stored(rems[r].quote)'
        /\ quotes'[rems'[r].quote].used
        /\ rems'[r].account \in accounts'
        /\ UserFits(rems[r].user, rems[r].account)'
    BY <2>1, <2>2 DEF registryVars, quoteVars, Stored, UserFits, IdentitySplit
  <2>4. \A t \in RemIds : t # r => (Inserted(t)' <=> Inserted(t))
    BY <2>1 DEF Inserted
  <2> QED
    BY <1>1, <2>3, <2>4 DEF RowsSound
<1> QED
  BY <1>2, <1>3, RowsInsertedOnly

\* One quote still backs one remittance.
LEMMA SingleUseKept ==
  ASSUME IntakeTypeOK, HandlersSound, SingleUse, [Next]_vars
  PROVE  SingleUse'
<1>1. CASE \A r \in RemIds : /\ Inserted(r)' <=> Inserted(r)
                             /\ rems'[r].quote = rems[r].quote
  BY <1>1 DEF SingleUse
<1>2. ASSUME NEW q \in Requests, InsertRemittance(q), Books(q)
      PROVE  SingleUse'
  <2>1. PICK r \in RemIds :
           /\ \A t \in RemIds : t # r => rems'[t] = rems[t]
           /\ rems'[r].quote = req[q].quote
           /\ \A t \in RemIds : rems[t].quote # req[q].quote
    BY <1>2, RowInserted
  <2> QED
    BY <2>1 DEF SingleUse, Inserted
<1> QED
  BY <1>1, <1>2, RowsInsertedOnly

\* A new row has no escrow yet.
LEMMA NewRowNotEscrowed ==
  ASSUME HandlersSound, NEW q \in Requests, InsertRemittance(q), NEW r \in RemIds, ~Inserted(r)
  PROVE  ~Escrowed(r)'
<1>1. ~Escrowed(r)
  BY DEF HandlersSound, LedgerSound, Escrowed
<1> QED
  BY <1>1, NoEscrowStands DEF InsertRemittance

-----------------------------------------------------------------------------
\* The ledger

\* Two escrows that are alike are those of two rows, so of quotes of two owners.
LEMMA ToldApart ==
  ASSUME IntakeTypeOK, HandlersSound, SingleUse
  PROVE  LookalikesAreForeign
<1> SUFFICES ASSUME NEW m \in Escrows, NEW n \in Escrows,
                    ledger[m].sender = ledger[n].sender,
                    ledger[m].terms = ledger[n].terms,
                    quotes[rems[ledger[m].row].quote].owner
                      = quotes[rems[ledger[n].row].quote].owner
             PROVE  m = n
  BY DEF LookalikesAreForeign
<1> DEFINE r == ledger[m].row
           t == ledger[n].row
<1>1. /\ Inserted(r) /\ ledger[m] = Commitment(r)
      /\ Inserted(t) /\ ledger[n] = Commitment(t)
  BY DEF HandlersSound, LedgerSound
<1>2. r \in RemIds /\ t \in RemIds
  BY <1>1 DEF Inserted
<1>3. Commitment(t).sender = rems[t].account.key
      /\ Commitment(t).terms = quotes[rems[t].quote].terms
  BY DEF Commitment
<1>4. quotes[rems[r].quote].owner = quotes[rems[t].quote].owner
  OBVIOUS
<1>5. ledger[m].sender = Commitment(t).sender /\ ledger[m].terms = Commitment(t).terms
  BY <1>1
<1> HIDE DEF r, t
<1>6. Matches(Commitment(r), t)
  BY <1>1, <1>3, <1>5 DEF Matches
<1>7. r = t
  BY <1>1, <1>2, <1>4, <1>6, SameRow
<1> QED
  BY <1>7 DEF HandlersSound, LedgerSound, r, t

\* Who has no escrow, and has a wallet that was asked, still has none.
LEMMA LedgerKept ==
  ASSUME IntakeTypeOK, HandlersSound, [Next]_vars
  PROVE  LedgerSound'
<1>0. Frame /\ LedgerSound
  BY StepsFramed DEF HandlersSound
<1> DEFINE Own(n) == Inserted(ledger[n].row) /\ ledger[n] = Commitment(ledger[n].row)
<1>1. ASSUME NEW n \in Escrows
      PROVE  n \in Escrows' /\ ledger'[n] = ledger[n] /\ Own(n)'
  <2>1. PICK r : r = ledger[n].row
    OBVIOUS
  <2>2. Inserted(r) /\ ledger[n] = Commitment(r)
    BY <1>0, <2>1 DEF LedgerSound
  <2>3. r \in RemIds
    BY <2>2 DEF Inserted
  <2>4. Commitment(r)' = Commitment(r) /\ Inserted(r)'
    BY <1>0, <2>2, <2>3, CommitmentStands DEF Frame
  <2>5. n \in Escrows' /\ ledger'[n] = ledger[n]
    BY <1>0 DEF Frame
  <2> QED
    BY <2>1, <2>2, <2>4, <2>5
<1>2. /\ \A n \in Escrows' : Own(n)'
      /\ \A m, n \in Escrows' : ledger'[m].row = ledger'[n].row => m = n
  <2>1. CASE UNCHANGED ledger
    <3>1. Escrows' = Escrows
      BY <2>1 DEF Escrows
    <3> QED
      BY <1>0, <1>1, <2>1, <3>1 DEF LedgerSound
  <2>2. ASSUME NEW r \in RemIds, Inserted(r), Open(r), ~Escrowed(r)
        PROVE  /\ \A n \in Escrows' : Own(n)'
               /\ \A m, n \in Escrows' : ledger'[m].row = ledger'[n].row => m = n
    <3>1. /\ ledger'[Len(ledger) + 1] = Commitment(r)'
          /\ \A n \in Escrows' : n \in Escrows \/ n = Len(ledger) + 1
          /\ Inserted(r)'
      BY <1>0, <2>2, OpenedIsEscrowed DEF Frame
    <3>2. Commitment(r)'.row = r
      BY DEF Commitment
    <3>3. ASSUME NEW n, n = Len(ledger) + 1
          PROVE  Own(n)'
      <4>1. ledger'[n] = Commitment(r)' /\ ledger'[n].row = r
        BY <3>1, <3>2, <3>3
      <4> QED
        BY <3>1, <4>1
    <3>4. \A n \in Escrows : ledger'[n].row # r
      BY <1>1, <2>2 DEF Escrowed
    <3>5. ASSUME NEW m \in Escrows', NEW n \in Escrows', ledger'[m].row = ledger'[n].row
          PROVE  m = n
      <4>1. CASE m \in Escrows /\ n \in Escrows
        BY <1>0, <1>1, <3>5, <4>1 DEF LedgerSound
      <4>2. CASE ~(m \in Escrows /\ n \in Escrows)
        BY <3>1, <3>2, <3>4, <3>5, <4>2
      <4> QED
        BY <4>1, <4>2
    <3>6. ASSUME NEW n \in Escrows' PROVE Own(n)'
      <4>1. CASE n \in Escrows
        BY <1>1, <4>1
      <4>2. CASE n = Len(ledger) + 1
        BY <3>3, <4>2
      <4> QED
        BY <3>1, <4>1, <4>2
    <3> QED
      BY <3>5, <3>6
  <2> QED
    BY <2>1, <2>2, LedgerMoves
<1>3. ASSUME NEW r \in RemIds, prepared[r] = "ready", prepared'[r] = "ready"
      PROVE  ~Escrowed(r)' /\ calls'[r] = "none" /\ ~IsCustodial(rems'[r].account)
  <2>1. Inserted(r) /\ ~Escrowed(r) /\ calls[r] = "none" /\ ~IsCustodial(rems[r].account)
    BY <1>0, <1>3 DEF LedgerSound
  <2>2. ~Escrowed(r)'
    <3>1. CASE UNCHANGED ledger
      BY <1>0, <2>1, <3>1, NoEscrowStands
    <3>2. ASSUME NEW t \in RemIds, Inserted(t), Open(t), prepared'[t] # "ready"
          PROVE  ~Escrowed(r)'
      BY <1>0, <1>3, <2>1, <3>2, OthersNotEscrowed
    <3> QED
      BY <3>1, <3>2, LedgerMoves
  <2>3. calls'[r] = "none"
    <3>1. ASSUME NEW q \in Requests, Opens(q, r) PROVE FALSE
      BY <1>3, <3>1 DEF HandlersSound, OpeningsSound
    <3> QED
      BY <2>1, <3>1, CallsMove
  <2> QED
    BY <1>0, <2>1, <2>2, <2>3 DEF Frame
<1>4. ASSUME NEW r \in RemIds, prepared[r] # "ready", prepared'[r] = "ready"
      PROVE  ~Escrowed(r)' /\ calls'[r] = "none" /\ ~IsCustodial(rems'[r].account)
  <2>1. PICK q \in Requests : SenderSigner(q)
    BY <1>4, Disturbing
       DEF intakeVars, InsertRemittance, InsertCall, Submit, RecordFailure, RecordSuccess,
           Link, AppSubmits, IntakeTypeOK
  <2>2. /\ UNCHANGED <<rems, ledger, calls>>
        /\ Opens(q, req[q].rem) /\ req[q].pc = "signer" /\ req[q].rem \in RemIds
        /\ ~IsCustodial(rems[req[q].rem].account)
        /\ req[q].rem = r
    BY <1>4, <2>1, SenderSignerDoes DEF Opens, IntakeTypeOK
  <2>3. Inserted(r) /\ ~Escrowed(r) /\ calls[r] = "none"
    BY <2>2 DEF HandlersSound, OpeningsSound
  <2> QED
    BY <1>0, <2>2, <2>3, NoEscrowStands
<1>5. ASSUME NEW r \in RemIds, ~Inserted(r)'
      PROVE  calls'[r] = "none" /\ prepared'[r] = "none"
  <2>1. ~Inserted(r)
    BY <1>0, <1>5 DEF Frame
  <2>2. calls[r] = "none" /\ prepared[r] = "none"
    BY <1>0, <2>1 DEF LedgerSound
  <2>3. ASSUME NEW q \in Requests, Opens(q, r) PROVE FALSE
    BY <2>1, <2>3 DEF HandlersSound, OpeningsSound
  <2>4. calls'[r] = "none"
    BY <2>2, <2>3, CallsMove
  <2>5. prepared'[r] = "none"
    <3>1. ASSUME NEW q \in Requests, SenderSigner(q) PROVE prepared'[r] = prepared[r]
      <4>1. req[q].op = "create" /\ req[q].pc = "signer" /\ req[q].rem # r
        BY <2>3, <3>1, SenderSignerDoes DEF Opens
      <4> QED
        BY <3>1, <4>1, SenderSignerDoes DEF IntakeTypeOK
    <3>2. ASSUME NEW t \in RemIds, AppSubmits(t) PROVE prepared'[r] = prepared[r]
      BY <2>2, <3>2 DEF AppSubmits, IntakeTypeOK
    <3> QED
      BY <2>2, <3>1, <3>2, Disturbing
         DEF intakeVars, InsertRemittance, InsertCall, Submit, RecordFailure, RecordSuccess,
             Link
  <2> QED
    BY <2>4, <2>5
<1> QED
  BY <1>2, <1>3, <1>4, <1>5 DEF LedgerSound

\* The contract id of a row is still that of an escrow that passes for its own.
LEMMA LinksKept ==
  ASSUME IntakeTypeOK, HandlersSound, [Next]_vars
  PROVE  LinksSound'
<1>0. Frame /\ LinksSound
  BY StepsFramed DEF HandlersSound
<1>1. ASSUME NEW r \in RemIds, rems'[r].link = rems[r].link, rems'[r].link # 0
      PROVE  Passes(rems[r].link, r)'
  <2>1. PICK n : n = rems[r].link
    OBVIOUS
  <2>2. Inserted(r) /\ Passes(n, r)
    BY <1>0, <1>1, <2>1, InsertedIsRow DEF LinksSound
  <2>3. Passes(n, r)'
    BY <1>0, <2>2, PassesStands
  <2> QED
    BY <1>1, <2>1, <2>3
<1>2. CASE UNCHANGED rems
  BY <1>1, <1>2 DEF LinksSound
<1>3. ASSUME NEW q \in Requests, InsertRemittance(q), Books(q)
      PROVE  LinksSound'
  <2>1. \A r \in RemIds : rems'[r].link = rems[r].link \/ rems'[r].link = 0
    BY <1>3, RowInserted
  <2> QED
    BY <1>1, <2>1 DEF LinksSound
<1>4. ASSUME NEW q \in Requests, Link(q)
      PROVE  LinksSound'
  <2>1. /\ rems' = [rems EXCEPT ![req[q].rem].link = req[q].link]
        /\ req[q].rem \in RemIds
        /\ req[q].op \in {"create", "confirm"} /\ req[q].pc = "link"
    BY <1>4, LinkDoes
  <2>2. PICK r \in RemIds, n \in {req[q].link} : r = req[q].rem /\ n = req[q].link
    BY <2>1
  <2>3. Inserted(r) /\ Passes(n, r)
    <3>1. CASE req[q].op = "create"
      <4>1. Inserted(r) /\ n \in Escrows /\ ledger[n] = Commitment(r)
        BY <2>1, <2>2, <3>1 DEF HandlersSound, OpeningsSound, Opens
      <4> QED
        BY <4>1, OwnPasses
    <3>2. CASE req[q].op = "confirm"
      BY <2>1, <2>2, <3>2 DEF HandlersSound, ConfirmsSound
    <3> QED
      BY <2>1, <3>1, <3>2
  <2>4. rems'[r].link = n
    <3>1. rems[r] \in RemRows
      BY <2>3, InsertedIsRow
    <3> QED
      BY <2>1, <2>2, <3>1 DEF IntakeTypeOK, RemRows
  <2>5. Passes(n, r)'
    BY <1>0, <2>3, PassesStands
  <2>6. \A t \in RemIds : t # r => rems'[t] = rems[t]
    BY <2>1, <2>2 DEF IntakeTypeOK
  <2>7. ASSUME NEW t \in RemIds, rems'[t].link # 0
        PROVE  Passes(rems[t].link, t)'
    <3>1. CASE t = r
      BY <2>4, <2>5, <3>1
    <3>2. CASE t # r
      BY <1>1, <2>6, <2>7, <3>2
    <3> QED
      BY <3>1, <3>2
  <2> QED
    BY <2>7 DEF LinksSound
<1>5. ASSUME NEW q \in Requests, InsertRemittance(q)
      PROVE  UNCHANGED rems \/ Books(q)
  BY <1>5, InsertRemittanceDoes
<1> QED
  BY <1>2, <1>3, <1>4, <1>5, Disturbing
     DEF intakeVars, SenderSigner, InsertCall, Submit, RecordFailure, RecordSuccess, AppSubmits

\* What a call is recorded as still is what the ledger says.
LEMMA CallRowsKept ==
  ASSUME IntakeTypeOK, HandlersSound, CallRowsTrue, [Next]_vars
  PROVE  CallRowsTrue'
<1>0. Frame /\ LedgerSound /\ faults \in Nat /\ faults' \in Nat
  BY StepsFramed, TypesKept, DeskAssumption DEF HandlersSound, IntakeTypeOK
<1>1. ASSUME NEW r \in RemIds, calls'[r] = calls[r], calls[r] # "none"
      PROVE  /\ calls'[r] = "confirmed" => Escrowed(r)'
             /\ calls'[r] = "failed" => ~Escrowed(r)' \/ faults' > 0
  <2>1. Inserted(r)
    BY <1>0, <1>1 DEF LedgerSound
  <2>2. calls[r] = "confirmed" => Escrowed(r)'
    BY <1>0, <2>1, CommitmentStands DEF CallRowsTrue
  <2>3. ASSUME calls[r] = "failed", ~(faults' > 0)
        PROVE  ~Escrowed(r)'
    <3>1. ~Escrowed(r)
      BY <1>0, <2>3 DEF CallRowsTrue, Frame
    <3>2. CASE UNCHANGED ledger
      BY <1>0, <2>1, <3>1, <3>2, NoEscrowStands
    <3>3. ASSUME NEW t \in RemIds, Inserted(t), Open(t), calls[t] \in {"none", "pending"}
          PROVE  ~Escrowed(r)'
      BY <1>0, <2>1, <2>3, <3>1, <3>3, OthersNotEscrowed
    <3> QED
      BY <3>2, <3>3, LedgerMoves
  <2> QED
    BY <1>1, <2>2, <2>3
<1>2. ASSUME NEW r \in RemIds, calls'[r] # calls[r]
      PROVE  /\ calls'[r] = "confirmed" => Escrowed(r)'
             /\ calls'[r] = "failed" => ~Escrowed(r)' \/ faults' > 0
  <2>1. PICK q \in Requests :
              /\ Opens(q, r)
              /\ UNCHANGED <<ledger, faults>>
              /\ \/ calls'[r] = "pending"
                 \/ req[q].pc = "failed" /\ calls'[r] = "failed"
                 \/ req[q].pc = "confirmed" /\ calls'[r] = "confirmed"
    BY <1>2, CallsMove
  <2>2. CASE req[q].pc = "failed"
    <3>1. Inserted(r) /\ (~Escrowed(r) \/ faults > 0)
      BY <2>1, <2>2 DEF HandlersSound, OpeningsSound
    <3> QED
      BY <1>0, <2>1, <2>2, <3>1, NoEscrowStands
  <2>3. CASE req[q].pc = "confirmed"
    <3>1. Inserted(r) /\ req[q].link \in Escrows /\ ledger[req[q].link] = Commitment(r)
      BY <2>1, <2>3 DEF HandlersSound, OpeningsSound
    <3>2. Escrowed(r)
      BY <3>1, OwnPasses
    <3> QED
      BY <1>0, <2>1, <2>3, <3>1, <3>2, CommitmentStands
  <2> QED
    BY <2>1, <2>2, <2>3
<1> QED
  BY <1>1, <1>2 DEF CallRowsTrue

-----------------------------------------------------------------------------
\* Handlers

\* A handler of the intake that has moved did so by one of its own steps.
LEMMA OurSlotMoves ==
  ASSUME IntakeTypeOK, HandlersSound, [Next]_vars, NEW p \in Requests,
         req'[p].op \in Ours, req'[p] # req[p]
  PROVE  \/ \E s \in Sessions : Create(p, s) \/ Confirm(p, s)
         \/ ResolveSender(p) \/ ResolveOwner(p) \/ Claim(p) \/ InsertRemittance(p)
         \/ SenderSigner(p) \/ InsertCall(p) \/ Submit(p) \/ RecordSuccess(p)
         \/ ReadNewest(p) \/ Match(p)
<1>1. Intake
  BY StepsApart DEF Beside, SlotsBeside
<1>2. Idle.op \notin Ours
  BY DEF Idle, Ours
<1>3. ASSUME NEW q \in Requests, Alone(q) PROVE p = q
  BY <1>3 DEF Alone
<1>4. ASSUME NEW q \in Requests, NEW s \in Sessions, Create(q, s) \/ Confirm(q, s)
      PROVE  p = q
  BY <1>3, <1>4, CreateDoes, ConfirmDoes
<1>5. ASSUME NEW q \in Requests,
             \/ ResolveSender(q) \/ ResolveOwner(q) \/ Claim(q) \/ InsertRemittance(q)
             \/ SenderSigner(q) \/ InsertCall(q)
      PROVE  p = q
  BY <1>3, <1>5, ResolveSenderDoes, ResolveOwnerDoes, ClaimDoes, InsertRemittanceDoes,
     SenderSignerDoes, InsertCallDoes DEF HandlersSound
<1>6. ASSUME NEW q \in Requests,
             \/ Submit(q) \/ RecordFailure(q) \/ RecordSuccess(q) \/ Link(q)
             \/ ReadNewest(q) \/ Match(q)
      PROVE  p = q
  BY <1>3, <1>6, SubmitDoes, RecordFailureDoes, RecordSuccessDoes, LinkDoes, ReadNewestDoes,
     MatchDoes
<1>7. ASSUME NEW q \in Requests, RecordFailure(q) \/ Link(q), p = q PROVE FALSE
  BY <1>2, <1>7, RecordFailureDoes, LinkDoes
<1>8. ASSUME NEW r \in RemIds, AppSubmits(r) PROVE FALSE
  BY <1>8 DEF AppSubmits, deskVars
<1> QED
  BY <1>1, <1>4, <1>5, <1>6, <1>7, <1>8, IntakeCases

\* A create stays a create until it ends.
LEMMA CreateStepsGoOn ==
  ASSUME IntakeTypeOK, HandlersSound, NEW p \in Requests,
         \/ ResolveSender(p) \/ ResolveOwner(p) \/ Claim(p) \/ InsertRemittance(p)
         \/ SenderSigner(p) \/ InsertCall(p) \/ Submit(p) \/ RecordSuccess(p)
  PROVE  req'[p] = Idle \/ req'[p].op = "create"
<1>1. CASE ResolveSender(p)
  BY <1>1, ResolveSenderDoes
<1>2. CASE ResolveOwner(p)
  BY <1>2, ResolveOwnerDoes DEF HandlersSound
<1>3. CASE Claim(p)
  BY <1>3, ClaimDoes
<1>4. CASE InsertRemittance(p)
  BY <1>4, InsertRemittanceDoes DEF Books
<1>5. CASE SenderSigner(p)
  BY <1>5, SenderSignerDoes
<1>6. CASE InsertCall(p)
  BY <1>6, InsertCallDoes
<1>7. CASE Submit(p)
  BY <1>7, SubmitDoes
<1>8. CASE RecordSuccess(p)
  BY <1>8, RecordSuccessDoes
<1> QED
  BY <1>1, <1>2, <1>3, <1>4, <1>5, <1>6, <1>7, <1>8

\* A confirm still holds the id of an escrow, and once it has compared it, of
\* one that passes for its row's.
LEMMA ConfirmsKept ==
  ASSUME IntakeTypeOK, HandlersSound, [Next]_vars
  PROVE  ConfirmsSound'
<1>0. Frame /\ ConfirmsSound /\ req \in [Requests -> Handlers]
  BY StepsFramed, TypesSplit DEF HandlersSound
<1> DEFINE Good(p) == /\ Inserted(req[p].rem)
                      /\ req[p].pc # "newest" => req[p].link \in Escrows
                      /\ req[p].pc = "link" => Passes(req[p].link, req[p].rem)
<1> SUFFICES ASSUME NEW p \in Requests, req'[p].op = "confirm"
             PROVE  Good(p)'
  BY DEF ConfirmsSound
<1>1. CASE req'[p] = req[p]
  <2>1. req[p].rem \in RemIds /\ Good(p)
    BY <1>0, <1>1, OthersRemember DEF ConfirmsSound
  <2>2. PICK r \in RemIds, n \in {req[p].link} : r = req[p].rem /\ n = req[p].link
    BY <2>1
  <2>3. Inserted(r)' /\ (n \in Escrows => n \in Escrows')
    BY <1>0, <2>1, <2>2 DEF Frame
  <2>4. Passes(n, r) => Passes(n, r)'
    BY <1>0, <2>1, <2>2, PassesStands
  <2> QED
    BY <1>1, <2>1, <2>2, <2>3, <2>4
<1>2. CASE req'[p] # req[p]
  <2>1. ASSUME NEW s \in Sessions, Confirm(p, s)
        PROVE  Good(p)'
    BY <1>0, <2>1, ConfirmDoes DEF Frame
  <2>2. CASE ReadNewest(p)
    <3>1. /\ UNCHANGED <<registryVars, directoryVars, quoteVars, intakeVars>>
          /\ req[p].op = "confirm" /\ req[p].pc = "newest" /\ req[p].rem \in RemIds
          /\ \/ req'[p] = Idle
             \/ /\ Len(ledger) \in Escrows
                /\ req'[p].op = "confirm" /\ req'[p].pc = "match"
                /\ req'[p].rem = req[p].rem /\ req'[p].link = Len(ledger)
      BY <2>2, ReadNewestDoes
    <3>2. req'[p] # Idle
      BY DEF Idle
    <3>3. Inserted(req[p].rem)
      BY <1>0, <3>1 DEF ConfirmsSound
    <3> QED
      BY <1>0, <3>1, <3>2, <3>3 DEF Frame
  <2>3. CASE Match(p)
    <3>1. /\ req[p].op = "confirm" /\ req[p].pc = "match" /\ req[p].rem \in RemIds
          /\ \/ req'[p] = Idle
             \/ /\ Matches(ledger[req[p].link], req[p].rem)
                /\ req'[p].op = "confirm" /\ req'[p].pc = "link"
                /\ req'[p].rem = req[p].rem /\ req'[p].link = req[p].link
      BY <2>3, MatchDoes
    <3>2. req'[p] # Idle
      BY DEF Idle
    <3>3. Inserted(req[p].rem) /\ req[p].link \in Escrows
      BY <1>0, <3>1 DEF ConfirmsSound
    <3>4. PICK r \in RemIds, n \in Escrows : r = req[p].rem /\ n = req[p].link
      BY <3>1, <3>3
    <3>5. Passes(n, r)
      BY <3>1, <3>2, <3>4, MatchPasses
    <3>6. Passes(n, r)' /\ Inserted(r)' /\ n \in Escrows'
      BY <1>0, <3>3, <3>4, <3>5, PassesStands DEF Frame
    <3>7. req'[p].rem = r /\ req'[p].link = n
      BY <3>1, <3>2, <3>4
    <3> QED
      BY <3>6, <3>7
  <2>4. ~\E s \in Sessions : Create(p, s)
    BY CreateDoes
  <2>5. ~(\/ ResolveSender(p) \/ ResolveOwner(p) \/ Claim(p) \/ InsertRemittance(p)
          \/ SenderSigner(p) \/ InsertCall(p) \/ Submit(p) \/ RecordSuccess(p))
    BY CreateStepsGoOn DEF Idle
  <2> QED
    BY <1>2, <2>1, <2>2, <2>3, <2>4, <2>5, OurSlotMoves DEF Ours
<1> QED
  BY <1>1, <1>2

\* A handler comes to open a row's escrow by inserting the row.
LEMMA OpensBefore ==
  ASSUME IntakeTypeOK, HandlersSound, [Next]_vars, NEW q \in Requests, NEW r \in RemIds,
         Opens(q, r)'
  PROVE  Opens(q, r) \/ (InsertRemittance(q) /\ Books(q) /\ ~Inserted(r) /\ Inserted(r)')
<1>1. CASE req'[q] = req[q]
  BY <1>1 DEF Opens
<1>2. CASE req'[q] # req[q]
  <2>0. /\ req'[q].op = "create" /\ req'[q].rem = r
        /\ req'[q].pc \in {"signer", "record", "submit", "failed", "confirmed", "link"}
        /\ req'[q] # Idle
    BY DEF Opens, Idle
  <2>1. ~\E s \in Sessions : Create(q, s) \/ Confirm(q, s)
    BY <2>0, CreateDoes, ConfirmDoes
  <2>2. ~ResolveSender(q)
    BY <2>0, ResolveSenderDoes
  <2>3. ~ResolveOwner(q)
    BY <2>0, ResolveOwnerDoes DEF HandlersSound
  <2>4. ~Claim(q)
    BY <2>0, ClaimDoes
  <2>5. ~ReadNewest(q)
    BY <2>0, ReadNewestDoes
  <2>6. ~Match(q)
    BY <2>0, MatchDoes
  <2>7. CASE InsertRemittance(q)
    BY <2>0, <2>7, RowInserted, InsertRemittanceDoes
  <2>8. CASE SenderSigner(q)
    BY <2>0, <2>8, SenderSignerDoes DEF Opens
  <2>9. CASE InsertCall(q)
    BY <2>0, <2>9, InsertCallDoes DEF Opens
  <2>10. CASE Submit(q)
    BY <2>0, <2>10, SubmitDoes DEF Opens
  <2>11. CASE RecordSuccess(q)
    BY <2>0, <2>11, RecordSuccessDoes DEF Opens
  <2> QED
    BY <1>2, <2>0, <2>1, <2>2, <2>3, <2>4, <2>5, <2>6, <2>7, <2>8, <2>9, <2>10, <2>11,
       OurSlotMoves DEF Ours
<1> QED
  BY <1>1, <1>2

\* It remains the only one, and the wallet is not asked as well.
LEMMA OpenersAlone ==
  ASSUME IntakeTypeOK, HandlersSound, [Next]_vars, NEW q \in Requests, NEW r \in RemIds,
         Opens(q, r)'
  PROVE  /\ Inserted(r)'
         /\ prepared'[r] = "none"
         /\ \A p \in Requests : Opens(p, r)' => p = q
<1>0. Frame /\ LedgerSound
  BY StepsFramed DEF HandlersSound
<1>1. CASE Opens(q, r)
  <2>1. /\ Inserted(r) /\ prepared[r] = "none"
        /\ \A p \in Requests : Opens(p, r) => p = q
    BY <1>1 DEF HandlersSound, OpeningsSound
  <2>2. \A p \in Requests : Opens(p, r)' => p = q
    BY <2>1, OpensBefore
  <2>3. prepared'[r] = "none"
    <3>1. ASSUME NEW p \in Requests, SenderSigner(p) PROVE prepared'[r] = "none"
      <4>1. CASE req[p].rem = r
        <5>1. Opens(p, r) /\ req[p].pc = "signer"
          BY <3>1, <4>1, SenderSignerDoes DEF Opens
        <5>2. p = q
          BY <2>1, <5>1
        <5>3. req'[q] # Idle
          BY DEF Opens, Idle
        <5> QED
          BY <2>1, <3>1, <5>2, <5>3, SenderSignerDoes
      <4>2. CASE req[p].rem # r
        BY <2>1, <3>1, <4>2, SenderSignerDoes DEF IntakeTypeOK
      <4> QED
        BY <4>1, <4>2
    <3>2. ASSUME NEW t \in RemIds, AppSubmits(t) PROVE prepared'[r] = "none"
      BY <2>1, <3>2 DEF AppSubmits, IntakeTypeOK
    <3> QED
      BY <2>1, <3>1, <3>2, Disturbing
         DEF intakeVars, InsertRemittance, InsertCall, Submit, RecordFailure, RecordSuccess,
             Link
  <2> QED
    BY <1>0, <2>1, <2>2, <2>3 DEF Frame
<1>2. CASE InsertRemittance(q) /\ Books(q) /\ ~Inserted(r) /\ Inserted(r)'
  <2>1. prepared'[r] = "none"
    BY <1>0, <1>2 DEF LedgerSound, InsertRemittance
  <2>2. ASSUME NEW p \in Requests, Opens(p, r)', p # q
        PROVE  FALSE
    <3>1. req'[p] = req[p]
      BY <1>2, <2>2, InsertRemittanceDoes DEF Alone
    <3>2. Opens(p, r)
      BY <2>2, <3>1 DEF Opens
    <3> QED
      BY <1>2, <3>2 DEF HandlersSound, OpeningsSound
  <2> QED
    BY <1>2, <2>1, <2>2
<1> QED
  BY <1>1, <1>2, OpensBefore

\* Up to the submission there is still no escrow, and afterwards its id is known.
LEMMA OpeningsKept ==
  ASSUME IntakeTypeOK, HandlersSound, [Next]_vars
  PROVE  OpeningsSound'
<1>0. Frame /\ LedgerSound /\ faults \in Nat /\ faults' \in Nat
  BY StepsFramed, TypesKept, DeskAssumption DEF HandlersSound, IntakeTypeOK
<1> SUFFICES ASSUME NEW q \in Requests, NEW r \in RemIds, Opens(q, r)'
             PROVE  /\ req'[q].pc = "signer" => calls'[r] = "none"
                    /\ req'[q].pc = "submit" => calls'[r] = "pending"
                    /\ req'[q].pc \in {"signer", "record", "submit"} => ~Escrowed(r)'
                    /\ req'[q].pc = "failed" => ~Escrowed(r)' \/ faults' > 0
                    /\ req'[q].pc \in {"confirmed", "link"} =>
                         /\ req'[q].link \in Escrows'
                         /\ ledger'[req'[q].link] = Commitment(r)'
  BY OpenersAlone DEF OpeningsSound
<1> DEFINE Good(h) ==
             /\ h.pc = "signer" => calls[r] = "none"
             /\ h.pc = "submit" => calls[r] = "pending"
             /\ h.pc \in {"signer", "record", "submit"} => ~Escrowed(r)
             /\ h.pc = "failed" => ~Escrowed(r) \/ faults > 0
             /\ h.pc \in {"confirmed", "link"} =>
                  h.link \in Escrows /\ ledger[h.link] = Commitment(r)
<1>1. CASE req'[q] = req[q]
  <2>1. Opens(q, r)
    BY <1>1 DEF Opens
  <2>2. /\ Inserted(r) /\ prepared[r] = "none" /\ Good(req[q])
        /\ \A p \in Requests : Opens(p, r) => p = q
    BY <2>1 DEF HandlersSound, OpeningsSound
  <2>3. calls'[r] = calls[r]
    <3>1. ASSUME NEW p \in Requests, Opens(p, r), Alone(p),
                 \/ req[p].pc = "record" /\ req'[p].pc = "submit"
                 \/ req[p].pc = "failed" /\ req'[p] = Idle
                 \/ req[p].pc = "confirmed" /\ req'[p].pc = "link"
          PROVE  FALSE
      BY <1>1, <2>2, <3>1 DEF Idle
    <3> QED
      BY <3>1, CallsMove
  <2>4. ~Escrowed(r) => ~Escrowed(r)'
    <3>1. CASE UNCHANGED ledger
      BY <1>0, <2>2, <3>1, NoEscrowStands
    <3>2. ASSUME NEW t \in RemIds, Inserted(t), Open(t),
                 prepared[t] = "ready" \/ \E p \in Requests : Opens(p, t) /\ req'[p] # req[p]
          PROVE  ~Escrowed(r) => ~Escrowed(r)'
      <4>1. t # r
        BY <1>1, <2>2, <3>2
      <4> QED
        BY <1>0, <2>2, <3>2, <4>1, OthersNotEscrowed
    <3> QED
      BY <3>1, <3>2, LedgerMoves
  <2>5. \A n \in Escrows : ledger[n] = Commitment(r) => n \in Escrows' /\ ledger'[n] = Commitment(r)'
    BY <1>0, <2>2, CommitmentStands DEF Frame
  <2> QED
    BY <1>0, <1>1, <2>2, <2>3, <2>4, <2>5 DEF Frame
<1>2. CASE InsertRemittance(q) /\ Books(q) /\ ~Inserted(r) /\ Inserted(r)'
  <2>1. ~Escrowed(r)'
    BY <1>0, <1>2, NewRowNotEscrowed
  <2>2. calls'[r] = "none" /\ req'[q].pc = "signer"
    BY <1>0, <1>2, RowInserted DEF LedgerSound, InsertRemittance
  <2> QED
    BY <2>1, <2>2
<1>3. CASE req'[q] # req[q] /\ Opens(q, r)
  <2>1. /\ Inserted(r) /\ Good(req[q]) /\ req[q].rem = r /\ req'[q].rem = r
        /\ req[q].op = "create"
        /\ req[q].pc \in {"signer", "record", "submit", "failed", "confirmed", "link"}
        /\ req'[q] # Idle /\ req'[q].op = "create"
    BY <1>3 DEF HandlersSound, OpeningsSound, Opens, Idle
  <2>2. UNCHANGED ledger /\ ~Escrowed(r) => ~Escrowed(r)'
    BY <1>0, <2>1, NoEscrowStands
  <2>3. \A n \in Escrows : ledger[n] = Commitment(r) => n \in Escrows' /\ ledger'[n] = Commitment(r)'
    BY <1>0, <2>1, CommitmentStands DEF Frame
  <2>4. CASE SenderSigner(q)
    BY <2>1, <2>2, <2>4, SenderSignerDoes
  <2>5. CASE InsertCall(q)
    <3>1. calls'[r] = "pending"
      BY <2>1, <2>5, InsertCallDoes DEF IntakeTypeOK
    <3> QED
      BY <2>1, <2>2, <2>5, <3>1, InsertCallDoes
  <2>6. CASE Submit(q)
    <3>1. Open(r) => /\ Len(ledger) + 1 \in Escrows'
                     /\ ledger'[Len(ledger) + 1] = Commitment(r)'
      BY <1>0, <2>1, OpenedIsEscrowed
    <3> QED
      BY <2>1, <2>2, <2>6, <3>1, SubmitDoes
  <2>7. CASE RecordSuccess(q)
    BY <2>1, <2>3, <2>7, RecordSuccessDoes
  <2>8. ~((\E s \in Sessions : Create(q, s) \/ Confirm(q, s))
          \/ ReadNewest(q) \/ Match(q))
    BY <2>1, CreateDoes, ConfirmDoes, ReadNewestDoes, MatchDoes DEF Idle
  <2>9. ~(ResolveSender(q) \/ ResolveOwner(q) \/ Claim(q) \/ InsertRemittance(q))
    BY <2>1 DEF ResolveSender, ResolveOwner, Claim, InsertRemittance, At
  <2> QED
    BY <1>3, <2>1, <2>4, <2>5, <2>6, <2>7, <2>8, <2>9, OurSlotMoves DEF Ours
<1> QED
  BY <1>1, <1>2, <1>3, OpensBefore

\* The accounts a session finds are its own.
LEMMA ResolvedIsOwned ==
  ASSUME RegistrySound, NEW s \in Sessions, NEW a \in accounts, a.user = ResolveUserId(s)
  PROVE  Owns(s, a)
<1>1. PICK t \in Sessions : Owns(t, a)
  BY DEF RegistrySound
<1>2. a.user = UserOf(s) \/ a.user = s
  BY DEF ResolveUserId
<1>3. UserOf(s) \notin Sessions /\ UserOf(t) \notin Sessions
  BY RegistryAssumption
<1>4. CASE t \in Customers /\ a = [user |-> t, key |-> t]
  <2>1. a.user = t
    BY <1>4
  <2> QED
    BY <1>1, <1>2, <1>3, <2>1
<1>5. CASE a.user = UserOf(t)
  <2>1. a.user = UserOf(s)
    BY <1>2, <1>3, <1>5
  <2>2. t = s
    BY <1>5, <2>1 DEF UserOf
  <2> QED
    BY <1>1, <2>2
<1> QED
  BY <1>1, <1>4, <1>5 DEF Owns

\* The handler that holds a claimed quote.
Holds(p, i) == req[p].op = "create" /\ req[p].pc = "insert" /\ req[p].quote = i

\* A handler comes to hold a quote by claiming one that nobody had claimed.
LEMMA HoldsBefore ==
  ASSUME IntakeTypeOK, HandlersSound, [Next]_vars, NEW p \in Requests, NEW i \in QuoteIds,
         Holds(p, i)'
  PROVE  \/ Holds(p, i) /\ req'[p] = req[p]
         \/ Claim(p) /\ ~quotes[i].used /\ quotes'[i].used
<1>1. CASE req'[p] = req[p]
  BY <1>1 DEF Holds
<1>2. CASE req'[p] # req[p]
  <2>0. /\ req'[p].op = "create" /\ req'[p].pc = "insert" /\ req'[p].quote = i
        /\ req'[p] # Idle
    BY DEF Holds, Idle
  <2>1. ~\E s \in Sessions : Create(p, s) \/ Confirm(p, s)
    BY <2>0, CreateDoes, ConfirmDoes
  <2>2. ~ResolveSender(p)
    BY <2>0, ResolveSenderDoes
  <2>3. ~ResolveOwner(p)
    BY <2>0, ResolveOwnerDoes DEF HandlersSound
  <2>4. ~(ReadNewest(p) \/ Match(p))
    BY <2>0, ReadNewestDoes, MatchDoes
  <2>5. ~InsertRemittance(p)
    BY <2>0, InsertRemittanceDoes DEF Books
  <2>6. ~(SenderSigner(p) \/ InsertCall(p))
    BY <2>0, SenderSignerDoes, InsertCallDoes
  <2>7. ~(Submit(p) \/ RecordSuccess(p))
    BY <2>0, SubmitDoes, RecordSuccessDoes
  <2>8. Claim(p)
    BY <1>2, <2>0, <2>1, <2>2, <2>3, <2>4, <2>5, <2>6, <2>7, OurSlotMoves DEF Ours
  <2>9. ~quotes[i].used /\ quotes' = [quotes EXCEPT ![i].used = TRUE]
        /\ req[p].op = "create" /\ req[p].pc = "claim" /\ req[p].quote = i
    BY <2>0, <2>8, ClaimDoes
  <2>10. quotes[i] \in QuoteRows
    BY <2>9, StoredIsRow DEF HandlersSound, CreatesSound
  <2>11. quotes'[i].used
    BY <2>9, <2>10 DEF QuoteRows, IntakeTypeOK
  <2> QED
    BY <2>8, <2>9, <2>11
<1> QED
  BY <1>1, <1>2

\* A claimed quote is held by one handler, and by no row yet.
LEMMA HeldAlone ==
  ASSUME IntakeTypeOK, HandlersSound, [Next]_vars, NEW p \in Requests, NEW i \in QuoteIds,
         Holds(p, i)'
  PROVE  /\ quotes'[i].used
         /\ \A r \in RemIds : rems'[r].quote # i
         /\ \A q \in Requests : Holds(q, i)' => q = p
<1>0. Frame /\ CreatesSound
  BY StepsFramed DEF HandlersSound
<1>1. ASSUME NEW q \in Requests, Holds(q, i)
      PROVE  /\ Stored(i) /\ quotes[i].used
             /\ \A r \in RemIds : rems[r].quote # i
             /\ \A t \in Requests : Holds(t, i) => t = q
  <2>1. req[q].op = "create" /\ req[q].pc = "insert" /\ req[q].quote = i
    BY <1>1 DEF Holds
  <2> QED
    BY <1>0, <2>1 DEF CreatesSound, At, Holds
<1>2. ASSUME ~quotes[i].used, NEW r \in RemIds
      PROVE  rems[r].quote # i
  BY <1>2, InsertedIsRow DEF HandlersSound, RowsSound
<1>3. \A q \in Requests : Holds(q, i)' => q = p
  <2>1. ASSUME NEW q \in Requests, Holds(q, i)', q # p
        PROVE  FALSE
    <3>1. CASE Claim(p) /\ ~quotes[i].used
      <4>1. Alone(p)
        BY <3>1, ClaimDoes
      <4>2. req'[q] = req[q]
        BY <2>1, <4>1 DEF Alone
      <4>3. Holds(q, i)
        BY <2>1, <4>2 DEF Holds
      <4> QED
        BY <1>1, <3>1, <4>3
    <3>2. CASE Holds(p, i) /\ req'[p] = req[p]
      <4>1. quotes[i].used
        BY <1>1, <3>2
      <4>2. Holds(q, i)
        BY <2>1, <4>1, HoldsBefore
      <4> QED
        BY <1>1, <2>1, <3>2, <4>2
    <3> QED
      BY <3>1, <3>2, HoldsBefore
  <2> QED
    BY <2>1
<1>4. quotes'[i].used /\ \A r \in RemIds : rems[r].quote # i
  BY <1>0, <1>1, <1>2, HoldsBefore DEF Frame
<1>5. \A r \in RemIds : rems'[r].quote # i
  <2>1. CASE \A r \in RemIds : rems'[r].quote = rems[r].quote
    BY <1>4, <2>1
  <2>2. ASSUME NEW q \in Requests, InsertRemittance(q), Books(q)
        PROVE  \A r \in RemIds : rems'[r].quote # i
    <3>1. PICK r \in RemIds :
             /\ \A t \in RemIds : t # r => rems'[t] = rems[t]
             /\ rems'[r].quote = req[q].quote
             /\ req'[q].pc = "signer"
      BY <2>2, RowInserted
    <3>2. CASE req[q].quote # i
      BY <1>4, <3>1, <3>2
    <3>3. CASE req[q].quote = i
      <4>1. Holds(q, i)
        BY <2>2, <3>3 DEF InsertRemittance, At, Holds
      <4>2. Holds(p, i)
        BY <1>1, <4>1, HoldsBefore
      <4>3. p = q
        BY <1>1, <4>1, <4>2
      <4> QED
        BY <3>1, <4>3 DEF Holds
    <3> QED
      BY <3>2, <3>3
  <2> QED
    BY <2>1, <2>2, RowsInsertedOnly
<1> QED
  BY <1>3, <1>4, <1>5

\* What a create holds on its way is still good.
LEMMA CreatesKept ==
  ASSUME IntakeTypeOK, HandlersSound, [Next]_vars
  PROVE  CreatesSound'
<1>0. Frame /\ CreatesSound /\ RegistrySound /\ req \in [Requests -> Handlers]
  BY StepsFramed, TypesSplit DEF HandlersSound
<1> SUFFICES ASSUME NEW p \in Requests, req'[p].op = "create"
             PROVE  /\ req'[p].pc \in {"account", "owner", "claim", "insert"} =>
                         Stored(req[p].quote)'
                    /\ req'[p].pc \in {"owner", "claim", "insert"} =>
                         /\ req'[p].account \in accounts'
                         /\ Owns(req[p].session, req[p].account)'
                    /\ req'[p].pc \in {"claim", "insert"} =>
                         UserFits(req[p].user, req[p].account)'
  <2>1. ASSUME NEW p \in Requests, req'[p].op = "create", req'[p].pc = "insert",
               Stored(req[p].quote)'
        PROVE  /\ quotes'[req'[p].quote].used
               /\ \A r \in RemIds : rems'[r].quote # req'[p].quote
               /\ \A q \in Requests :
                    At(q, "create", "insert")' /\ req'[q].quote = req'[p].quote => q = p
    <3>1. PICK i \in QuoteIds : i = req'[p].quote
      BY <2>1 DEF Stored
    <3>2. Holds(p, i)'
      BY <2>1, <3>1 DEF Holds
    <3> QED
      BY <3>1, <3>2, HeldAlone DEF Holds, At
  <2> QED
    BY <2>1 DEF CreatesSound
<1>4. CASE req'[p] = req[p]
  <2>2. /\ req[p].pc \in {"account", "owner", "claim", "insert"} =>
             Stored(req[p].quote)
        /\ req[p].pc \in {"owner", "claim", "insert"} =>
             req[p].account \in accounts /\ Owns(req[p].session, req[p].account)
        /\ req[p].pc \in {"claim", "insert"} => UserFits(req[p].user, req[p].account)
    BY <1>0, <1>4 DEF CreatesSound
  <2>3. req'[p].pc \in {"account", "owner", "claim", "insert"} =>
          Stored(req[p].quote)'
    BY <1>0, <1>4, <2>2 DEF Frame, Stored
  <2>4. req'[p].pc \in {"owner", "claim", "insert"} =>
          req'[p].account \in accounts' /\ Owns(req[p].session, req[p].account)'
    BY <1>0, <1>4, <2>2 DEF Frame, Owns
  <2>5. req'[p].pc \in {"claim", "insert"} => UserFits(req[p].user, req[p].account)'
    BY <1>0, <1>4, <2>2 DEF Frame, UserFits, IdentitySplit
  <2> QED
    BY <2>3, <2>4, <2>5
<1>5. ASSUME NEW s \in Sessions, Create(p, s)
      PROVE  req'[p].pc = "account" /\ Stored(req[p].quote)'
  BY <1>0, <1>5, CreateDoes DEF Frame, Stored
<1>6. CASE ResolveSender(p)
  <2>0. req'[p] # Idle
    BY DEF Idle
  <2>1. /\ UNCHANGED <<registryVars, quoteVars>>
        /\ req[p].op = "create" /\ req[p].pc = "account"
        /\ req[p].session \in Sessions
        /\ req'[p].pc = "owner"
        /\ req'[p].session = req[p].session /\ req'[p].quote = req[p].quote
        /\ req'[p].account \in accounts
        /\ req'[p].account.user = ResolveUserId(req[p].session)
    BY <1>6, <2>0, ResolveSenderDoes
  <2>2. Stored(req[p].quote)
    BY <1>0, <2>1 DEF CreatesSound
  <2>3. Owns(req[p].session, req'[p].account)
    BY <1>0, <2>1, ResolvedIsOwned
  <2>4. Owns(req[p].session, req[p].account)'
    BY <2>1, <2>3 DEF Owns
  <2> QED
    BY <2>1, <2>2, <2>4 DEF registryVars, quoteVars, Stored
<1>7. CASE ResolveOwner(p)
  <2>1. /\ UNCHANGED <<registryVars, quoteVars>>
        /\ req[p].op = "create" /\ req[p].pc = "owner"
        /\ UserFits(ResolveUserId(req[p].session), req[p].account)
        /\ req'[p].pc = "claim"
        /\ req'[p].session = req[p].session /\ req'[p].quote = req[p].quote
        /\ req'[p].account = req[p].account
        /\ req'[p].user = ResolveUserId(req[p].session)
    BY <1>0, <1>7, ResolveOwnerDoes
  <2>2. /\ Stored(req[p].quote)
        /\ req[p].account \in accounts /\ Owns(req[p].session, req[p].account)
    BY <1>0, <2>1 DEF CreatesSound
  <2> QED
    BY <2>1, <2>2
       DEF registryVars, quoteVars, Stored, Owns, UserFits, IdentitySplit
<1>8. CASE Claim(p)
  <2>0. req'[p] # Idle
    BY DEF Idle
  <2>1. /\ UNCHANGED registryVars
        /\ req[p].op = "create" /\ req[p].pc = "claim" /\ req[p].quote \in QuoteIds
        /\ req'[p].session = req[p].session /\ req'[p].quote = req[p].quote
        /\ req'[p].account = req[p].account /\ req'[p].user = req[p].user
    BY <1>8, <2>0, ClaimDoes
  <2>2. /\ Stored(req[p].quote)
        /\ req[p].account \in accounts /\ Owns(req[p].session, req[p].account)
        /\ UserFits(req[p].user, req[p].account)
    BY <1>0, <2>1 DEF CreatesSound
  <2> QED
    BY <1>0, <2>1, <2>2
       DEF registryVars, Frame, Stored, Owns, UserFits, IdentitySplit
<1>9. CASE InsertRemittance(p) \/ SenderSigner(p) \/ InsertCall(p) \/ Submit(p) \/ RecordSuccess(p)
  <2>1. req'[p].pc \in {"signer", "record", "submit", "failed", "confirmed", "link"}
    <3>1. req'[p] # Idle
      BY DEF Idle
    <3> QED
      BY <1>9, <3>1, InsertRemittanceDoes, SenderSignerDoes, InsertCallDoes, SubmitDoes,
         RecordSuccessDoes DEF Books
  <2> QED
    BY <2>1
<1>10. ~(ReadNewest(p) \/ Match(p) \/ \E s \in Sessions : Confirm(p, s))
  BY ReadNewestDoes, MatchDoes, ConfirmDoes DEF Idle
<1> QED
  BY <1>4, <1>5, <1>6, <1>7, <1>8, <1>9, <1>10, OurSlotMoves DEF Ours

-----------------------------------------------------------------------------
\* Nothing is lost while no handler dies and no answer is lost

\* A handler of the intake is then only moved by itself.
LEMMA OurMoverActs ==
  ASSUME IntakeTypeOK, HandlersSound, [Next]_vars, NEW p \in Requests,
         req[p].op \in Ours, req'[p] # req[p], ~(faults' > 0)
  PROVE  \/ ResolveSender(p) \/ ResolveOwner(p) \/ Claim(p) \/ InsertRemittance(p)
         \/ SenderSigner(p) \/ InsertCall(p) \/ Submit(p) \/ RecordFailure(p)
         \/ RecordSuccess(p) \/ Link(p) \/ ReadNewest(p) \/ Match(p)
<1>1. Intake
  BY StepsApart DEF Beside, SlotsBeside
<1>2. ASSUME NEW q \in Requests, Alone(q) PROVE p = q
  BY <1>2 DEF Alone
<1>3. ASSUME NEW q \in Requests, NEW s \in Sessions, Create(q, s) \/ Confirm(q, s)
      PROVE  FALSE
  BY <1>2, <1>3, CreateDoes, ConfirmDoes DEF Idle, Ours
<1>4. ASSUME NEW q \in Requests,
             \/ ResolveSender(q) \/ ResolveOwner(q) \/ Claim(q) \/ InsertRemittance(q)
             \/ SenderSigner(q) \/ InsertCall(q)
      PROVE  p = q
  BY <1>2, <1>4, ResolveSenderDoes, ResolveOwnerDoes, ClaimDoes, InsertRemittanceDoes,
     SenderSignerDoes, InsertCallDoes DEF HandlersSound
<1>5. ASSUME NEW q \in Requests,
             \/ Submit(q) \/ RecordFailure(q) \/ RecordSuccess(q) \/ Link(q)
             \/ ReadNewest(q) \/ Match(q)
      PROVE  p = q
  BY <1>2, <1>5, SubmitDoes, RecordFailureDoes, RecordSuccessDoes, LinkDoes, ReadNewestDoes,
     MatchDoes
<1>6. ASSUME NEW r \in RemIds, AppSubmits(r) PROVE FALSE
  BY <1>6 DEF AppSubmits, deskVars
<1> QED
  BY <1>1, <1>3, <1>4, <1>5, <1>6, IntakeCases

\* A quote that is used up is a row's, or held by the create that is to insert one,
\* or was that of a create whose INSERT was refused.
LEMMA ClaimsKept ==
  ASSUME IntakeTypeOK, HandlersSound, ClaimNotWasted, [Next]_vars
  PROVE  ClaimNotWasted'
<1>0. Frame /\ faults \in Nat /\ faults' \in Nat
  BY StepsFramed, TypesKept, DeskAssumption DEF IntakeTypeOK
<1> SUFFICES ASSUME NEW i \in QuoteIds, quotes'[i].used, ~(faults' > 0), i \notin burnt'
             PROVE  \/ \E r \in RemIds : rems'[r].quote = i
                    \/ \E q \in Requests : At(q, "create", "insert")' /\ req'[q].quote = i
  BY DEF ClaimNotWasted
<1>1. CASE quotes[i].used
  <2>1. CASE \E r \in RemIds : rems[r].quote = i
    BY <1>0, <2>1, InsertedIsRow DEF Frame
  <2>2. ASSUME NEW q \in Requests, At(q, "create", "insert"), req[q].quote = i
        PROVE  \/ \E r \in RemIds : rems'[r].quote = i
               \/ At(q, "create", "insert")' /\ req'[q].quote = i
    <3>1. CASE req'[q] = req[q]
      BY <2>2, <3>1 DEF At
    <3>2. CASE req'[q] # req[q]
      <4>1. InsertRemittance(q)
        BY <2>2, <3>2, OurMoverActs
           DEF Ours, At, ResolveSender, ResolveOwner, Claim, SenderSigner, InsertCall, Submit,
               RecordFailure, RecordSuccess, Link, ReadNewest, Match
      <4>2. Books(q)
        BY <2>2, <4>1, InsertRemittanceDoes
      <4> QED
        BY <2>2, <4>1, <4>2, RowInserted
    <3> QED
      BY <3>1, <3>2
  <2>3. ~(faults > 0) /\ i \notin burnt
    BY <1>0 DEF Frame
  <2> QED
    BY <1>1, <2>1, <2>2, <2>3 DEF ClaimNotWasted
<1>2. CASE ~quotes[i].used
  <2>1. Intake
    BY <1>2, StepsApart DEF Beside
  <2>2. ~UNCHANGED quotes
    BY <1>2
  <2>3. PICK q \in Requests : Claim(q)
    <3>1. ASSUME NEW q \in Requests,
                 \/ ResolveSender(q) \/ ResolveOwner(q) \/ InsertRemittance(q)
                 \/ SenderSigner(q) \/ InsertCall(q) \/ Submit(q) \/ RecordFailure(q)
                 \/ RecordSuccess(q) \/ Link(q) \/ ReadNewest(q) \/ Match(q)
          PROVE  UNCHANGED quotes
      BY <3>1 DEF ResolveSender, ResolveOwner, InsertRemittance, SenderSigner, InsertCall,
                  Submit, RecordFailure, RecordSuccess, Link, ReadNewest, Match, quoteVars
    <3>2. ASSUME NEW q \in Requests, NEW s \in Sessions, Create(q, s) \/ Confirm(q, s)
          PROVE  UNCHANGED quotes
      BY <3>2 DEF Create, Confirm, quoteVars
    <3>3. ASSUME NEW r \in RemIds, AppSubmits(r) PROVE UNCHANGED quotes
      BY <3>3 DEF AppSubmits, quoteVars
    <3> QED
      BY <2>1, <2>2, <3>1, <3>2, <3>3, IntakeCases
  <2>4. /\ quotes' = [quotes EXCEPT ![req[q].quote].used = TRUE]
        /\ req'[q].op = "create" /\ req'[q].pc = "insert" /\ req'[q].quote = req[q].quote
    BY <2>2, <2>3, ClaimDoes
  <2>5. req[q].quote = i
    BY <1>2, <2>4 DEF IntakeTypeOK
  <2> QED
    BY <2>4, <2>5 DEF At
<1> QED
  BY <1>1, <1>2

\* The contract id of a row is only ever replaced by itself, or by that of a
\* lookalike's escrow.
LEMMA LinkStays ==
  ASSUME IntakeTypeOK, HandlersSound, [Next]_vars,
         NEW r \in RemIds, Inserted(r), NEW n \in Escrows, ledger[n] = Commitment(r)
  PROVE  /\ rems[r].link = n => rems'[r].link = n \/ Lookalike(r)
         /\ \A q \in Requests :
              Link(q) /\ req[q].rem = r => rems'[r].link = n \/ Lookalike(r)
<1>1. ASSUME NEW q \in Requests, Link(q), req[q].rem = r
      PROVE  rems'[r].link = n \/ Lookalike(r)
  <2>1. /\ rems' = [rems EXCEPT ![r].link = req[q].link]
        /\ req[q].op \in {"create", "confirm"} /\ req[q].pc = "link"
    BY <1>1, LinkDoes
  <2>2. /\ req[q].link \in Escrows
        /\ ledger[req[q].link] = Commitment(r) \/ Lookalike(r)
    <3>1. CASE req[q].op = "create"
      BY <1>1, <2>1, <3>1 DEF HandlersSound, OpeningsSound, Opens
    <3>2. CASE req[q].op = "confirm"
      BY <1>1, <2>1, <3>2 DEF HandlersSound, ConfirmsSound, Passes
    <3> QED
      BY <2>1, <3>1, <3>2
  <2>3. ledger[req[q].link] = Commitment(r) => req[q].link = n
    BY <2>2 DEF HandlersSound, LedgerSound
  <2>4. rems[r] \in RemRows
    BY InsertedIsRow
  <2> QED
    BY <2>1, <2>2, <2>3, <2>4 DEF IntakeTypeOK, RemRows
<1>2. ASSUME NEW q \in Requests, Link(q), req[q].rem # r
      PROVE  rems'[r] = rems[r]
  BY <1>2, LinkDoes DEF IntakeTypeOK
<1>3. ASSUME NEW q \in Requests, InsertRemittance(q)
      PROVE  rems'[r] = rems[r]
  BY <1>3, RowInserted, InsertRemittanceDoes
<1>4. CASE UNCHANGED rems
  BY <1>1, <1>4
<1> QED
  BY <1>1, <1>2, <1>3, <1>4, Disturbing
     DEF intakeVars, SenderSigner, InsertCall, Submit, RecordFailure, RecordSuccess, AppSubmits

\* A custodial escrow is linked to its row, or about to be, or its row has a
\* lookalike.
LEMMA EscrowsKept ==
  ASSUME IntakeTypeOK, HandlersSound, EscrowNotLost, LedgerSound', [Next]_vars
  PROVE  EscrowNotLost'
<1>0. Frame /\ faults \in Nat /\ faults' \in Nat
  BY StepsFramed, TypesKept, DeskAssumption DEF IntakeTypeOK
<1> DEFINE Linking(q, r) == /\ At(q, "create", "confirmed") \/ At(q, "create", "link")
                            /\ req[q].rem = r
           Found(n, r) == \/ rems[r].link = n
                          \/ ~IsCustodial(rems[r].account)
                          \/ Lookalike(r)
                          \/ faults > 0
                          \/ \E q \in Requests : Linking(q, r)
<1>1. ASSUME NEW n \in Escrows, NEW r \in RemIds, Inserted(r), ledger[n] = Commitment(r),
             Found(n, r)
      PROVE  Found(n, r)'
  <2>1. /\ rems[r].link = n => rems'[r].link = n \/ Lookalike(r)
        /\ \A q \in Requests :
             Link(q) /\ req[q].rem = r => rems'[r].link = n \/ Lookalike(r)
    BY <1>1, LinkStays
  <2>2. Lookalike(r) => Lookalike(r)'
    BY <1>0, <1>1, PassesStands
  <2>3. ~IsCustodial(rems[r].account) => ~IsCustodial(rems'[r].account)
    BY <1>0, <1>1 DEF Frame
  <2>4. faults > 0 => faults' > 0
    BY <1>0 DEF Frame
  <2>5. ASSUME NEW q \in Requests, Linking(q, r), ~(faults' > 0)
        PROVE  rems'[r].link = n \/ Lookalike(r) \/ Linking(q, r)'
    <3>1. CASE req'[q] = req[q]
      BY <2>5, <3>1 DEF At
    <3>2. CASE req'[q] # req[q]
      <4>1. RecordSuccess(q) \/ Link(q)
        BY <2>5, <3>2, OurMoverActs
           DEF Ours, At, ResolveSender, ResolveOwner, Claim, InsertRemittance, SenderSigner,
               InsertCall, Submit, RecordFailure, ReadNewest, Match
      <4>2. CASE RecordSuccess(q)
        BY <2>5, <4>2, RecordSuccessDoes DEF At
      <4>3. CASE Link(q)
        BY <2>1, <2>5, <4>3
      <4> QED
        BY <4>1, <4>2, <4>3
    <3> QED
      BY <3>1, <3>2
  <2> QED
    BY <1>1, <2>1, <2>2, <2>3, <2>4, <2>5 DEF IsCustodial
<1>2. ASSUME NEW n \in Escrows', n \notin Escrows, NEW r \in RemIds, ledger'[n].row = r
      PROVE  Found(n, r)'
  <2>0. ~UNCHANGED ledger
    BY <1>2 DEF Escrows
  <2>1. ASSUME NEW t \in RemIds, Inserted(t), Open(t)
        PROVE  t = r
    <3>1. n = Len(ledger) + 1
      BY <1>0, <1>2, <2>1, OpenedIsEscrowed
    <3>2. ledger'[n] = Commitment(t)'
      BY <1>0, <2>1, <3>1, OpenedIsEscrowed
    <3> QED
      BY <1>2, <3>2 DEF Commitment
  <2>2. ASSUME NEW q \in Requests, Submit(q)
        PROVE  Found(n, r)'
    <3>1. PICK t \in RemIds : t = req[q].rem
      BY <2>2, SubmitDoes
    <3>2. Opens(q, t)
      BY <2>2, <3>1, SubmitDoes DEF Opens
    <3>3. Inserted(t) /\ Open(t)
      BY <2>0, <2>2, <3>1, <3>2, SubmitDoes DEF HandlersSound, OpeningsSound
    <3>4. Linking(q, t)' \/ faults' > 0
      BY <2>0, <2>2, <3>1, SubmitDoes DEF At
    <3> QED
      BY <2>1, <3>3, <3>4
  <2>3. ASSUME NEW t \in RemIds, AppSubmits(t)
        PROVE  Found(n, r)'
    <3>1. Inserted(t) /\ ~IsCustodial(rems[t].account) /\ Open(t) /\ UNCHANGED rems
      BY <2>3 DEF AppSubmits, HandlersSound, LedgerSound
    <3>2. t = r
      BY <2>1, <3>1
    <3> QED
      BY <3>1, <3>2 DEF IsCustodial
  <2> QED
    BY <2>0, <2>2, <2>3, Disturbing
       DEF intakeVars, InsertRemittance, SenderSigner, InsertCall, RecordFailure,
           RecordSuccess, Link
<1>3. ASSUME NEW n \in Escrows', NEW r, r = ledger'[n].row
      PROVE  Inserted(r)' /\ r \in RemIds /\ ledger'[n] = Commitment(r)'
  BY <1>3 DEF LedgerSound, Inserted
<1>4. ASSUME NEW n \in Escrows', NEW r, r = ledger'[n].row
      PROVE  Found(n, r)'
  <2>1. r \in RemIds
    BY <1>3, <1>4
  <2>2. CASE n \in Escrows
    <3>1. ledger'[n] = ledger[n]
      BY <1>0, <2>2 DEF Frame
    <3>2. Inserted(r) /\ ledger[n] = Commitment(r) /\ Found(n, r)
      BY <1>4, <2>2, <3>1 DEF EscrowNotLost
    <3> QED
      BY <1>1, <2>1, <2>2, <3>2
  <2>3. CASE n \notin Escrows
    BY <1>2, <1>4, <2>1, <2>3
  <2> QED
    BY <2>2, <2>3
<1>5. \A m, n \in Escrows' : ledger'[m].row = ledger'[n].row => m = n
  BY DEF LedgerSound
<1> HIDE DEF Found
<1>6. ASSUME NEW n \in Escrows'
      PROVE  /\ Inserted(ledger[n].row)'
             /\ ledger'[n] = Commitment(ledger[n].row)'
             /\ Found(n, ledger[n].row)'
  BY <1>3, <1>4
<1> QED
  BY <1>5, <1>6 DEF EscrowNotLost, Found

-----------------------------------------------------------------------------
\* The whole

\* What settlement states again is what was locked, unless an identity has split.
LEMMA RowsStandFirm ==
  ASSUME IntakeTypeOK, HandlersSound
  PROVE  SettlementStandsFirm
<1> SUFFICES ASSUME NEW r \in RemIds, rems[r].link # 0
             PROVE  \/ IsAccountOf(rems[r].account, rems[r].user)
                    \/ IdentitySplit(rems[r].account.user)
  BY DEF SettlementStandsFirm, HandlersSound, LinksSound, Passes
<1> DEFINE a == rems[r].account
<1>1. Inserted(r)
  BY InsertedIsRow
<1>2. UserFits(rems[r].user, a) /\ a \in accounts
  BY <1>1 DEF HandlersSound, RowsSound
<1>3. PICK s \in Sessions : Owns(s, a)
  BY <1>2 DEF HandlersSound, RegistrySound
<1>4. CASE s \in Customers /\ a = [user |-> s, key |-> s]
  BY <1>2, <1>4 DEF UserFits, IdentitySplit, IsAccountOf, ResolveUserId
<1>5. CASE a.user = UserOf(s)
  <2>1. UserOf(UserOf(s)) \notin users
    <3>1. UserOf(UserOf(s)) \notin Customers
      BY RegistryAssumption DEF Sessions
    <3>2. ASSUME NEW t \in Sessions, UserOf(UserOf(s)) = UserOf(t) PROVE FALSE
      <4>1. UserOf(s) = t
        BY <3>2 DEF UserOf
      <4> QED
        BY <4>1, RegistryAssumption
    <3> QED
      BY <3>1, <3>2 DEF UserIds, IntakeTypeOK
  <2> QED
    BY <1>2, <1>5, <2>1 DEF UserFits, IsAccountOf, ResolveUserId
<1> QED
  BY <1>3, <1>4, <1>5 DEF Owns

LEMMA InitSound == Init => HandlersSound
<1> SUFFICES ASSUME Init PROVE HandlersSound
  OBVIOUS
<1>1. /\ \A q \in Requests : req[q] = Idle
      /\ \A i \in QuoteIds : ~Stored(i)
      /\ \A r \in RemIds : ~Inserted(r) /\ rems[r].link = 0 /\ calls[r] = "none"
                           /\ prepared[r] = "none"
      /\ Escrows = {} /\ accounts = {}
  BY DEF Init, DeskInit, RegistryInit, QuotesInit, IntakeInit, Stored, Inserted, NoRemRow, Escrows
<1>2. RegistrySound /\ AnchorMet /\ OffersAreFair /\ CreatesSound /\ OpeningsSound /\ ConfirmsSound
  BY <1>1 DEF RegistrySound, AnchorMet, OffersAreFair, CreatesSound, OpeningsSound, Opens,
              ConfirmsSound, At, Idle
<1>3. RowsSound /\ LedgerSound /\ LinksSound /\ OneQuotePerTerms
  BY <1>1 DEF RowsSound, LedgerSound, LinksSound, OneQuotePerTerms
<1> QED
  BY <1>2, <1>3 DEF HandlersSound

LEMMA InitRest ==
  Init => /\ SingleUse /\ DirectoryComplete /\ PricesAreFair
          /\ ClaimNotWasted /\ EscrowNotLost /\ CallRowsTrue
BY DEF Init, DirectoryInit, QuotesInit, IntakeInit, SingleUse,
       DirectoryComplete, PricesAreFair, ClaimNotWasted, EscrowNotLost, CallRowsTrue, Stored,
       NoRow, Inserted, NoRemRow, Escrows

\* The inductive invariant: what the handlers rely on between two awaits, with
\* the properties that lean on each other.
IntakeInv ==
  /\ IntakeTypeOK
  /\ HandlersSound
  /\ SingleUse
  /\ DirectoryComplete /\ PricesAreFair
  /\ ClaimNotWasted /\ EscrowNotLost /\ CallRowsTrue

LEMMA InitInv == Init => IntakeInv
BY InitTypes, InitSound, InitRest DEF IntakeInv

LEMMA StepsKeepInv == IntakeInv /\ [Next]_vars => IntakeInv'
<1> SUFFICES ASSUME IntakeInv, [Next]_vars PROVE IntakeInv'
  OBVIOUS
<1> USE DEF IntakeInv
<1>1. IntakeTypeOK'
  BY TypesKept
<1>2. HandlersSound'
  BY RegistryKept, AnchorMetKept, OffersKept, CreatesKept, RowsKept, OpeningsKept,
     ConfirmsKept, LedgerKept, LinksKept, OneQuoteKept DEF HandlersSound
<1>3. SingleUse'
  BY SingleUseKept
<1>4. DirectoryComplete' /\ PricesAreFair'
  BY DirectoryKept, PricesKept
<1>5. ClaimNotWasted' /\ EscrowNotLost' /\ CallRowsTrue'
  BY ClaimsKept, EscrowsKept, CallRowsKept, LedgerKept
<1> QED
  BY <1>1, <1>2, <1>3, <1>4, <1>5

LEMMA Invariance == Spec => []IntakeInv
<1>1. Init => IntakeInv
  BY InitInv
<1>2. IntakeInv /\ [Next]_vars => IntakeInv'
  BY StepsKeepInv
<1> QED
  BY <1>1, <1>2, PTL DEF Spec

\* Every row, every escrow and every handler at each of its awaits has its type
\* (create, confirm, quote, register, discover).
THEOREM IntakeIsTyped == Spec => []IntakeTypeOK
<1>1. IntakeInv => IntakeTypeOK
  BY DEF IntakeInv
<1> QED
  BY <1>1, Invariance, PTL

\* Between any two awaits every handler's decision is still good: nobody else
\* has taken its quote, opened its escrow or made its account another's.
THEOREM HandlersStaySound == Spec => []HandlersSound
<1>1. IntakeInv => HandlersSound
  BY DEF IntakeInv
<1> QED
  BY <1>1, Invariance, PTL

\* One quote backs one remittance, however many creates overlap (claim).
THEOREM QuotesAreSingleUse == Spec => []SingleUse
<1>1. IntakeInv => SingleUse
  BY DEF IntakeInv
<1> QED
  BY <1>1, Invariance, PTL

\* One owner's escrows differ in the sender and the quote hash by which confirm
\* recognises an escrow: the lookalikes are those of other owners' quotes.
THEOREM EscrowsAreTold == Spec => []LookalikesAreForeign
<1>1. IntakeInv => LookalikesAreForeign
  BY ToldApart DEF IntakeInv
<1> QED
  BY <1>1, Invariance, PTL

\* What settlement states again from the rows is what the escrow was opened
\* with, and the escrow is the row's own unless the row has a lookalike; its
\* sender is found, or is a customer whose identity has split (confirm,
\* authorizeAndRelease, loadSenderAccount).
THEOREM SettlementIsFirm == Spec => []SettlementStandsFirm
<1>1. IntakeInv => SettlementStandsFirm
  BY RowsStandFirm DEF IntakeInv
<1> QED
  BY <1>1, Invariance, PTL

\* No quote is used up without a remittance unless a create has died or its
\* INSERT was refused for an anchor_id that is no anchor's (create).
THEOREM QuotesAreNotWasted == Spec => []ClaimNotWasted
<1>1. IntakeInv => ClaimNotWasted
  BY DEF IntakeInv
<1> QED
  BY <1>1, Invariance, PTL

\* Every escrow is a row's and the only one of that row, and a custodial one is
\* linked to it or about to be, unless a handler has died, an answer was lost or
\* the row has a lookalike (create, confirm).
THEOREM EscrowsAreNotLost == Spec => []EscrowNotLost
<1>1. IntakeInv => EscrowNotLost
  BY DEF IntakeInv
<1> QED
  BY <1>1, Invariance, PTL

\* The record of a create call is wrong only in one way: it calls a call failed
\* that was accepted, after an answer or an UPDATE was lost (record).
THEOREM CallRecordsAreTrue == Spec => []CallRowsTrue
<1>1. IntakeInv => CallRowsTrue
  BY DEF IntakeInv
<1> QED
  BY <1>1, Invariance, PTL

\* Upserts that overlap, conflict and throw leave a registered anchor with
\* assets, once none is under way and unless one has died (upsertAnchor).
THEOREM DirectoryIsComplete == Spec => []DirectoryComplete
<1>1. IntakeInv => DirectoryComplete
  BY DEF IntakeInv
<1> QED
  BY <1>1, Invariance, PTL

\* The parts of every stored quote add up, whatever the amount, the rate and the
\* fees (computeDestination).
THEOREM QuotesAreFair == Spec => []PricesAreFair
<1>1. IntakeInv => PricesAreFair
  BY DEF IntakeInv
<1> QED
  BY <1>1, Invariance, PTL

\* An anchor's fee is left out of a quote only while its assets are being
\* replaced, or after an upsert has died (compute, upsertAnchor).
THEOREM FeesAreMissedInRefresh == Spec => FeeMissedOnlyInRefresh
<1>1. IntakeInv /\ [Next]_vars =>
        [\A q \in Requests :
           /\ At(q, "quote", "fee")
           /\ req'[q].op = "quote"
           /\ req'[q].pc = "insert"
           /\ \A v \in Versions :
                req'[q].terms # Terms(req[q].source, req[q].rate, AnchorFees[v])
           => Refreshing \/ faults > 0]_<<deskVars, directoryVars, quoteVars>>
  <2> SUFFICES ASSUME IntakeInv, [Next]_vars, NEW q \in Requests,
                      At(q, "quote", "fee"), req'[q].op = "quote", req'[q].pc = "insert",
                      \A v \in Versions :
                        req'[q].terms # Terms(req[q].source, req[q].rate, AnchorFees[v])
               PROVE  Refreshing \/ faults > 0
    OBVIOUS
  <2> QED
    BY FeeMissed DEF IntakeInv
<1> QED
  BY <1>1, Invariance, PTL DEF Spec, FeeMissedOnlyInRefresh

-----------------------------------------------------------------------------
\* The refinement

\* How far a quote without a row has come, and one with a row.
LEMMA Stages ==
  ASSUME IntakeTypeOK, SingleUse
  PROVE  /\ \A i \in QuoteIds :
              (\A r \in RemIds : rems[r].quote # i) =>
                StageOf(i) = IF quotes[i].used THEN "taken"
                             ELSE IF Stored(i) THEN "offered" ELSE "blank"
         /\ \A r \in RemIds :
              Inserted(r) =>
                StageOf(rems[r].quote) = IF rems[r].link # 0 THEN "linked"
                                         ELSE IF Escrowed(r) THEN "locked" ELSE "booked"
<1>1. ASSUME NEW i \in QuoteIds, \A r \in RemIds : rems[r].quote # i
      PROVE  RowsOf(i) = {}
  BY <1>1 DEF RowsOf
<1>2. ASSUME NEW r \in RemIds, Inserted(r)
      PROVE  RowsOf(rems[r].quote) = {r}
  <2>1. \A t \in RemIds : rems[t].quote = rems[r].quote => Inserted(t)
    BY <1>2, InsertedIsRow
  <2> QED
    BY <1>2, <2>1 DEF RowsOf, SingleUse
<1> QED
  BY <1>1, <1>2 DEF StageOf

LEMMA StagesImplied ==
  IntakeTypeOK /\ SingleUse =>
         /\ \A i \in QuoteIds :
              (\A r \in RemIds : rems[r].quote # i) =>
                StageOf(i) = IF quotes[i].used THEN "taken"
                             ELSE IF Stored(i) THEN "offered" ELSE "blank"
         /\ \A r \in RemIds :
              Inserted(r) =>
                StageOf(rems[r].quote) = IF rems[r].link # 0 THEN "linked"
                                         ELSE IF Escrowed(r) THEN "locked" ELSE "booked"
BY Stages

\* And after a step.
LEMMA StagesAfter ==
  (IntakeTypeOK /\ SingleUse)' =>
         /\ \A i \in QuoteIds :
              (\A r \in RemIds : rems'[r].quote # i) =>
                StageOf(i)' = IF quotes'[i].used THEN "taken"
                              ELSE IF Stored(i)' THEN "offered" ELSE "blank"
         /\ \A r \in RemIds :
              Inserted(r)' =>
                StageOf(rems[r].quote)' = IF rems'[r].link # 0 THEN "linked"
                                          ELSE IF Escrowed(r)' THEN "locked" ELSE "booked"
<1>1. (IntakeTypeOK /\ SingleUse =>
         /\ \A i \in QuoteIds :
              (\A r \in RemIds : rems[r].quote # i) =>
                StageOf(i) = IF quotes[i].used THEN "taken"
                             ELSE IF Stored(i) THEN "offered" ELSE "blank"
         /\ \A r \in RemIds :
              Inserted(r) =>
                StageOf(rems[r].quote) = IF rems[r].link # 0 THEN "linked"
                                         ELSE IF Escrowed(r) THEN "locked" ELSE "booked")'
  BY StagesImplied, PTL
<1> QED
  BY <1>1

\* A row is not the absence of one.
LEMMA NoQuoteIsNoOwner ==
  ASSUME NEW row \in QuoteRows
  PROVE  row # NoRow
BY QuoteAssumption DEF QuoteRows, NoRow

\* The ids on the ledger start from one.
LEMMA LedgerIds ==
  ASSUME IntakeTypeOK, NEW n \in Escrows
  PROVE  n # 0
<1>1. DOMAIN ledger = 1..Len(ledger) /\ Len(ledger) \in Nat
  BY LenProperties DEF IntakeTypeOK
<1> QED
  BY <1>1 DEF Escrows

\* A quote whose row, use and escrow stay as they are stays where it is.
Steady(i) ==
  /\ \A r \in RemIds : rems[r].quote = i <=> rems'[r].quote = i
  /\ \A r \in RemIds :
       rems[r].quote = i => /\ rems'[r].link = 0 <=> rems[r].link = 0
                            /\ Escrowed(r)' <=> Escrowed(r)
  /\ (\A r \in RemIds : rems[r].quote # i) =>
       quotes'[i].used = quotes[i].used /\ (Stored(i)' <=> Stored(i))

LEMMA SteadyStays ==
  ASSUME IntakeInv, IntakeInv', NEW i \in QuoteIds, Steady(i)
  PROVE  StageOf(i)' = StageOf(i)
<1>1. CASE \A r \in RemIds : rems[r].quote # i
  <2>1. \A r \in RemIds : rems'[r].quote # i
    BY <1>1 DEF Steady
  <2>2. StageOf(i) = IF quotes[i].used THEN "taken" ELSE IF Stored(i) THEN "offered" ELSE "blank"
    BY <1>1, Stages DEF IntakeInv
  <2>3. StageOf(i)' = IF quotes'[i].used THEN "taken"
                      ELSE IF Stored(i)' THEN "offered" ELSE "blank"
    BY <2>1, StagesAfter DEF IntakeInv
  <2> QED
    BY <1>1, <2>2, <2>3 DEF Steady
<1>2. ASSUME NEW r \in RemIds, rems[r].quote = i
      PROVE  StageOf(i)' = StageOf(i)
  <2>1. rems'[r].quote = i
    BY <1>2 DEF Steady
  <2>2. Inserted(r)
    BY <1>2, InsertedIsRow DEF IntakeInv
  <2>3. Inserted(r)'
    BY <2>1, QuoteAssumption DEF Inserted, NoRemRow
  <2>4. StageOf(i) = IF rems[r].link # 0 THEN "linked"
                     ELSE IF Escrowed(r) THEN "locked" ELSE "booked"
    BY <1>2, <2>2, Stages DEF IntakeInv
  <2>5. StageOf(i)' = IF rems'[r].link # 0 THEN "linked"
                      ELSE IF Escrowed(r)' THEN "locked" ELSE "booked"
    BY <2>1, <2>3, StagesAfter DEF IntakeInv
  <2> QED
    BY <1>2, <2>4, <2>5 DEF Steady
<1> QED
  BY <1>1, <1>2

LEMMA TicketStutters ==
  ASSUME \A i \in QuoteIds : StageOf(i)' = StageOf(i) /\ quotes'[i].terms = quotes[i].terms
  PROVE  UNCHANGED Ticket!ticketVars
BY DEF Ticket!ticketVars

LEMMA TicketAdvances ==
  ASSUME NEW i \in QuoteIds,
         \/ StageOf(i) = "blank" /\ StageOf(i)' = "offered"
         \/ StageOf(i) = "offered" /\ StageOf(i)' = "taken"
         \/ StageOf(i) = "taken" /\ StageOf(i)' = "booked"
         \/ StageOf(i) = "booked" /\ StageOf(i)' = "locked"
         \/ StageOf(i) = "locked" /\ StageOf(i)' = "linked",
         StageOf(i) # "blank" => quotes'[i].terms = quotes[i].terms,
         \A j \in QuoteIds \ {i} : StageOf(j)' = StageOf(j) /\ quotes'[j].terms = quotes[j].terms
  PROVE  Ticket!Next
<1>1. Ticket!Advance(i)
  BY DEF Ticket!Advance, Ticket!Following
<1> QED
  BY <1>1 DEF Ticket!Next

LEMMA TicketMistaken ==
  ASSUME NEW i \in QuoteIds, StageOf(i) = "booked", StageOf(i)' = "linked",
         NEW j \in QuoteIds \ {i}, StageOf(j) \in {"locked", "linked"},
         quotes[j].terms = quotes[i].terms,
         \A k \in QuoteIds \ {i} : StageOf(k)' = StageOf(k),
         \A k \in QuoteIds : quotes'[k].terms = quotes[k].terms
  PROVE  Ticket!Next
<1>1. Ticket!Mistaken(i)
  BY DEF Ticket!Mistaken
<1> QED
  BY <1>1 DEF Ticket!Next

\* Quotes change when one is inserted and when one is claimed.
LEMMA QuotesMove ==
  ASSUME IntakeTypeOK, [Next]_vars
  PROVE  UNCHANGED quotes \/ \E q \in Requests : InsertQuote(q) \/ Claim(q)
<1>1. CASE Quoting
  BY <1>1 DEF Quoting, QuoteStep, RequestQuote, ReadAnchorFee, Tick, quoteVars
<1>2. CASE Intake
  <2>1. ASSUME NEW q \in Requests,
               \/ ResolveSender(q) \/ ResolveOwner(q) \/ InsertRemittance(q)
               \/ SenderSigner(q) \/ InsertCall(q) \/ Submit(q) \/ RecordFailure(q)
               \/ RecordSuccess(q) \/ Link(q) \/ ReadNewest(q) \/ Match(q)
        PROVE  UNCHANGED quotes
    BY <2>1 DEF ResolveSender, ResolveOwner, InsertRemittance, SenderSigner, InsertCall,
                Submit, RecordFailure, RecordSuccess, Link, ReadNewest, Match, quoteVars
  <2>2. ASSUME NEW q \in Requests, NEW s \in Sessions, Create(q, s) \/ Confirm(q, s)
        PROVE  UNCHANGED quotes
    BY <2>2 DEF Create, Confirm, quoteVars
  <2>3. ASSUME NEW r \in RemIds, AppSubmits(r) PROVE UNCHANGED quotes
    BY <2>3 DEF AppSubmits, quoteVars
  <2> QED
    BY <1>2, <2>1, <2>2, <2>3, IntakeCases
<1> QED
  BY <1>1, <1>2 DEF Next, Accounting, Discovery, Restart, vars, quoteVars

\* A quote that is not stored, or not used, has no row.
LEMMA RowsNeedUse ==
  ASSUME IntakeInv, NEW i \in QuoteIds, ~Stored(i) \/ ~quotes[i].used, NEW r \in RemIds
  PROVE  rems[r].quote # i
BY InsertedIsRow DEF IntakeInv, HandlersSound, RowsSound

LEMMA StepTicketed ==
  ASSUME IntakeInv, IntakeInv', [Next]_vars
  PROVE  Ticket!Next \/ UNCHANGED Ticket!ticketVars
<1>0. Frame /\ IntakeTypeOK /\ HandlersSound /\ SingleUse
  BY StepsFramed DEF IntakeInv
<1>1. ASSUME NEW r \in RemIds, Inserted(r), UNCHANGED ledger
      PROVE  Escrowed(r)' <=> Escrowed(r)
  BY <1>0, <1>1, NoEscrowStands, CommitmentStands
<1>2. \A r \in RemIds : rems[r].quote \in QuoteIds => Inserted(r)
  BY <1>0, InsertedIsRow
<1>3. ASSUME UNCHANGED <<rems, ledger>>, NEW i \in QuoteIds,
             quotes'[i].used = quotes[i].used, Stored(i)' <=> Stored(i)
      PROVE  StageOf(i)' = StageOf(i)
  BY <1>1, <1>2, <1>3, SteadyStays DEF Steady
<1>4. CASE UNCHANGED <<rems, ledger, quotes>>
  BY <1>3, <1>4, TicketStutters DEF Stored
<1>5. ASSUME NEW q \in Requests, InsertQuote(q), ~UNCHANGED quotes, UNCHANGED <<rems, ledger>>
      PROVE  Ticket!Next
  <2>1. PICK i \in QuoteIds :
          /\ ~Stored(i)
          /\ quotes'[i] = [owner |-> req[q].owner, terms |-> req[q].terms,
                           expires |-> req[q].expires, used |-> FALSE]
          /\ [owner |-> req[q].owner, terms |-> req[q].terms,
              expires |-> req[q].expires, used |-> FALSE] \in QuoteRows
          /\ \A j \in QuoteIds : j # i => quotes'[j] = quotes[j]
    BY <1>0, <1>5, QuoteIsInserted
  <2>2. ~quotes[i].used
    BY <2>1 DEF Stored, NoRow
  <2>3. \A r \in RemIds : rems[r].quote # i
    BY <2>1, RowsNeedUse
  <2>4. StageOf(i) = "blank"
    BY <1>0, <2>1, <2>2, <2>3, Stages
  <2>5. ~quotes'[i].used
    BY <2>1
  <2>6. Stored(i)'
    BY <2>1, NoQuoteIsNoOwner DEF Stored
  <2>7. StageOf(i)' = "offered"
    BY <1>5, <2>3, <2>5, <2>6, StagesAfter DEF IntakeInv
  <2>8. \A j \in QuoteIds \ {i} : StageOf(j)' = StageOf(j) /\ quotes'[j].terms = quotes[j].terms
    BY <1>3, <1>5, <2>1 DEF Stored
  <2> QED
    BY <2>4, <2>7, <2>8, TicketAdvances
<1>6. ASSUME NEW q \in Requests, Claim(q), ~UNCHANGED quotes, UNCHANGED <<rems, ledger>>
      PROVE  Ticket!Next
  <2> DEFINE i == req[q].quote
  <2>1. /\ i \in QuoteIds /\ ~quotes[i].used
        /\ quotes' = [quotes EXCEPT ![i].used = TRUE]
        /\ req[q].op = "create" /\ req[q].pc = "claim"
    BY <1>0, <1>6, ClaimDoes
  <2>2. Stored(i) /\ quotes[i] \in QuoteRows
    BY <1>0, <2>1, StoredIsRow DEF HandlersSound, CreatesSound
  <2>3. quotes'[i].used /\ quotes'[i].terms = quotes[i].terms
    BY <1>0, <2>1, <2>2 DEF IntakeTypeOK, QuoteRows
  <2>4. \A r \in RemIds : rems[r].quote # i
    BY <2>1, RowsNeedUse
  <2>5. \A j \in QuoteIds \ {i} : quotes'[j] = quotes[j]
    BY <1>0, <2>1 DEF IntakeTypeOK
  <2> HIDE DEF i
  <2>6. PICK k \in QuoteIds : k = i
    BY <2>1
  <2>7. StageOf(k) = "offered"
    BY <1>0, <2>1, <2>2, <2>4, <2>6, Stages
  <2>8. StageOf(k)' = "taken"
    <3>1. \A r \in RemIds : rems'[r].quote # k
      BY <1>6, <2>4, <2>6
    <3>2. quotes'[k].used
      BY <2>3, <2>6
    <3> QED
      BY <3>1, <3>2, StagesAfter DEF IntakeInv
  <2>9. \A j \in QuoteIds \ {k} : StageOf(j)' = StageOf(j) /\ quotes'[j].terms = quotes[j].terms
    BY <1>3, <1>6, <2>5, <2>6 DEF Stored
  <2> QED
    BY <2>3, <2>6, <2>7, <2>8, <2>9, TicketAdvances
<1>7. ASSUME NEW q \in Requests, InsertRemittance(q), Books(q)
      PROVE  Ticket!Next
  <2>1. PICK r \in RemIds :
           /\ ~Inserted(r) /\ Inserted(r)'
           /\ \A t \in RemIds : t # r => rems'[t] = rems[t]
           /\ rems'[r].quote = req[q].quote /\ rems'[r].link = 0
           /\ Stored(req[q].quote) /\ quotes[req[q].quote].used
           /\ \A t \in RemIds : rems[t].quote # req[q].quote
    BY <1>0, <1>7, RowInserted
  <2>2. PICK i \in QuoteIds : i = req[q].quote
    BY <2>1 DEF Stored
  <2>3. UNCHANGED <<quotes, ledger>>
    BY <1>7 DEF InsertRemittance, quoteVars
  <2>4. StageOf(i) = "taken"
    BY <1>0, <2>1, <2>2, Stages
  <2>5. ~Escrowed(r)'
    BY <1>0, <1>7, <2>1, NewRowNotEscrowed
  <2>6. StageOf(rems[r].quote)' = "booked"
    BY <2>1, <2>5, StagesAfter DEF IntakeInv
  <2>7. StageOf(i)' = "booked"
    BY <2>1, <2>2, <2>6
  <2>8. ASSUME NEW j \in QuoteIds \ {i}
        PROVE  StageOf(j)' = StageOf(j)
    <3>1. \A t \in RemIds : rems[t].quote = j => t # r
      BY <1>2, <2>1
    <3>2. Steady(j)
      BY <1>1, <1>2, <2>1, <2>2, <2>3, <3>1 DEF Steady, Stored
    <3> QED
      BY <3>2, SteadyStays
  <2> QED
    BY <2>3, <2>4, <2>7, <2>8, TicketAdvances
<1>8. ASSUME NEW q \in Requests, Link(q)
      PROVE  Ticket!Next \/ UNCHANGED Ticket!ticketVars
  <2>1. /\ UNCHANGED <<quotes, ledger>>
        /\ req[q].rem \in RemIds
        /\ rems' = [rems EXCEPT ![req[q].rem].link = req[q].link]
        /\ req[q].op \in {"create", "confirm"} /\ req[q].pc = "link"
    BY <1>0, <1>8, LinkDoes DEF quoteVars
  <2>2. PICK r \in RemIds : r = req[q].rem
    BY <2>1
  <2>3. Inserted(r) /\ req[q].link \in Escrows /\ Passes(req[q].link, r)
    <3>1. CASE req[q].op = "create"
      <4>1. Inserted(r) /\ req[q].link \in Escrows /\ ledger[req[q].link] = Commitment(r)
        BY <1>0, <2>1, <2>2, <3>1 DEF HandlersSound, OpeningsSound, Opens
      <4> QED
        BY <4>1, OwnPasses
    <3>2. CASE req[q].op = "confirm"
      BY <1>0, <2>1, <2>2, <3>2 DEF HandlersSound, ConfirmsSound
    <3> QED
      BY <2>1, <3>1, <3>2
  <2>4. rems[r] \in RemRows /\ rems[r].quote \in QuoteIds
    BY <1>0, <2>3, InsertedIsRow
  <2>5. /\ rems'[r].link = req[q].link /\ rems'[r].quote = rems[r].quote
        /\ \A t \in RemIds : t # r => rems'[t] = rems[t]
    BY <1>0, <2>1, <2>2, <2>4 DEF IntakeTypeOK, RemRows
  <2>6. req[q].link # 0
    BY <1>0, <2>3, LedgerIds
  <2>7. Inserted(r)'
    BY <1>0, <2>3 DEF Frame
  <2>8. PICK i \in QuoteIds : i = rems[r].quote
    BY <2>4
  <2>9. StageOf(i)' = "linked"
    <3>1. StageOf(rems[r].quote)' = "linked"
      BY <2>5, <2>6, <2>7, StagesAfter DEF IntakeInv
    <3> QED
      BY <2>5, <2>8, <3>1
  <2>10. ASSUME NEW j \in QuoteIds \ {i}
         PROVE  StageOf(j)' = StageOf(j)
    <3>1. Steady(j)
      BY <1>1, <1>2, <2>1, <2>5, <2>8 DEF Steady, Stored
    <3> QED
      BY <3>1, SteadyStays
  <2>11. CASE StageOf(i) = "linked"
    BY <2>1, <2>9, <2>10, <2>11, TicketStutters
  <2>12. CASE StageOf(i) = "locked"
    BY <2>1, <2>9, <2>10, <2>12, TicketAdvances
  <2>13. CASE StageOf(i) = "booked"
    <3>1. ~Escrowed(r) /\ rems[r].link = 0
      BY <1>0, <2>3, <2>8, <2>13, Stages
    <3>2. PICK t \in RemIds : t = ledger[req[q].link].row /\ Inserted(t)
                              /\ ledger[req[q].link] = Commitment(t)
      BY <1>0, <2>3 DEF HandlersSound, LedgerSound, Inserted
    <3>3. Escrowed(t) /\ t # r
      <4>1. Escrowed(t)
        BY <2>3, <3>2, OwnPasses
      <4> QED
        BY <3>1, <4>1
    <3>4. quotes[rems[t].quote].terms = quotes[rems[r].quote].terms
      <4>1. ledger[req[q].link].terms = quotes[rems[r].quote].terms
        BY <2>3 DEF Passes, Matches
      <4>2. Commitment(t).terms = quotes[rems[t].quote].terms
        BY DEF Commitment
      <4> QED
        BY <3>2, <4>1, <4>2
    <3>5. PICK j \in QuoteIds : j = rems[t].quote
      BY <1>0, <3>2, InsertedIsRow
    <3>6. j # i
      BY <1>0, <2>3, <2>8, <3>2, <3>3, <3>5 DEF SingleUse
    <3>7. StageOf(j) \in {"locked", "linked"}
      BY <1>0, <3>2, <3>3, <3>5, Stages
    <3> QED
      BY <2>1, <2>8, <2>9, <2>10, <2>13, <3>4, <3>5, <3>6, <3>7, TicketMistaken
  <2> QED
    BY <1>0, <2>3, <2>8, <2>11, <2>12, <2>13, Stages
<1>9. ASSUME UNCHANGED <<rems, quotes>>, NEW t \in RemIds, Inserted(t), Open(t), ~Escrowed(t)
      PROVE  Ticket!Next \/ UNCHANGED Ticket!ticketVars
  <2>1. PICK i \in QuoteIds : i = rems[t].quote
    BY <1>0, <1>9, InsertedIsRow
  <2>2. Escrowed(t)'
    <3>1. /\ Len(ledger) + 1 \in Escrows'
          /\ ledger'[Len(ledger) + 1] = Commitment(t)'
      BY <1>0, <1>9, OpenedIsEscrowed
    <3>2. Commitment(t)'.row = t
      BY DEF Commitment
    <3> QED
      BY <3>1, <3>2 DEF Escrowed
  <2>3. Inserted(t)'
    BY <1>0, <1>9 DEF Frame
  <2>4. ASSUME NEW j \in QuoteIds \ {i}
        PROVE  StageOf(j)' = StageOf(j)
    <3>1. ASSUME NEW r \in RemIds, rems[r].quote = j
          PROVE  Escrowed(r)' <=> Escrowed(r)
      <4>1. Inserted(r) /\ r # t
        BY <1>2, <2>1, <3>1
      <4> QED
        BY <1>0, <1>9, <4>1, OthersNotEscrowed, CommitmentStands
    <3>2. Steady(j)
      BY <1>9, <3>1 DEF Steady, Stored
    <3> QED
      BY <3>2, SteadyStays
  <2>5. CASE rems[t].link = 0
    <3>1. StageOf(i) = "booked"
      BY <1>0, <1>9, <2>1, <2>5, Stages
    <3>2. StageOf(rems[t].quote)' = "locked"
      BY <1>9, <2>2, <2>3, <2>5, StagesAfter DEF IntakeInv
    <3>3. StageOf(i)' = "locked"
      BY <1>9, <2>1, <3>2
    <3> QED
      BY <1>9, <2>4, <3>1, <3>3, TicketAdvances
  <2>6. CASE rems[t].link # 0
    <3>1. StageOf(i) = "linked"
      BY <1>0, <1>9, <2>1, <2>6, Stages
    <3>2. StageOf(rems[t].quote)' = "linked"
      BY <1>9, <2>3, <2>6, StagesAfter DEF IntakeInv
    <3>3. StageOf(i)' = "linked"
      BY <1>9, <2>1, <3>2
    <3> QED
      BY <1>9, <2>4, <3>1, <3>3, TicketStutters
  <2> QED
    BY <2>5, <2>6
<1>10. CASE UNCHANGED <<rems, ledger>>
  BY <1>0, <1>4, <1>5, <1>6, <1>10, QuotesMove
<1>11. ASSUME NEW q \in Requests,
              \/ SenderSigner(q) \/ InsertCall(q) \/ RecordFailure(q) \/ RecordSuccess(q)
       PROVE  UNCHANGED <<rems, ledger>>
  BY <1>11 DEF SenderSigner, InsertCall, RecordFailure, RecordSuccess
<1>12. ASSUME \/ \E q \in Requests : Submit(q)
              \/ \E r \in RemIds : AppSubmits(r)
       PROVE  UNCHANGED <<rems, quotes>>
  BY <1>12 DEF Submit, AppSubmits, quoteVars
<1>13. ASSUME NEW q \in Requests, InsertRemittance(q), ~Books(q)
       PROVE  UNCHANGED <<rems, ledger>>
  BY <1>0, <1>13, InsertRemittanceDoes
<1> QED
  BY <1>0, <1>7, <1>8, <1>9, <1>10, <1>11, <1>12, <1>13, Disturbing, LedgerMoves
     DEF intakeVars

\* The intake, with any number of sessions, quotes, handlers and deaths, whoever
\* uses whose quote and registers whose key, is an implementation of
\* RemittanceTicket: no quote skips a stage or goes back one, but for a confirm
\* that takes the escrow of another quote of the same terms (create, confirm).
THEOREM TicketsAreKept == Spec => KeepsTickets
<1>1. Init => Ticket!Init
  <2> SUFFICES ASSUME Init PROVE Ticket!Init
    OBVIOUS
  <2>1. ASSUME NEW i \in QuoteIds
        PROVE  quotes[i].terms = NoQuote /\ StageOf(i) = "blank"
    <3>1. IntakeTypeOK /\ SingleUse
      BY InitTypes, InitRest
    <3>2. \A r \in RemIds : rems[r].quote # i
      BY QuoteAssumption DEF Init, IntakeInit, NoRemRow
    <3>3. quotes[i].terms = NoQuote /\ ~quotes[i].used /\ ~Stored(i)
      BY DEF Init, QuotesInit, NoRow, Stored
    <3> QED
      BY <3>1, <3>2, <3>3, Stages
  <2> QED
    BY <2>1 DEF Ticket!Init
<1>2. IntakeInv /\ IntakeInv' /\ [Next]_vars => [Ticket!Next]_(Ticket!ticketVars)
  BY StepTicketed
<1> QED
  BY <1>1, <1>2, Invariance, PTL DEF Spec, KeepsTickets, Ticket!Spec
=============================================================================
