-------------------------- MODULE RemittanceService --------------------------
(***************************************************************************)
(* The remittance service (src/modules/remittance/RemittanceService.ts),   *)
(* its expiry sweep (jobs.ts) and the escrow contract they drive.          *)
(*                                                                         *)
(* A handler runs from one await to the next: it reads the database row,   *)
(* calls the contract, reads the row again in setState, and writes it.     *)
(* Other handlers, the sweep, the senders' wallets and the public run in   *)
(* between, and no row is locked.  A request slot holds what one running   *)
(* handler remembers: the remittance, the step it is at, the status it is  *)
(* about to write and what its snapshot of the row said.                   *)
(*                                                                         *)
(* A contract id is represented by the remittance whose escrow it names.   *)
(* No two of the remittances have the same sender and quote hash: those    *)
(* that do, the lookalikes of RemittanceIntake, are left to that module.   *)
(***************************************************************************)
EXTENDS Naturals, RemittanceStates, EscrowContract

CONSTANTS
  Remittances,    \* the remittances that may be created, none a lookalike of another
  Requests,       \* slots for the handlers running at the same time
  FeePayer,       \* the role behind the fee_payer key
  TrustedHashes,  \* the app only confirms with the hash of the transaction it names
  MaxAborts,      \* bound: how many handlers may die at an await
  Handlers,       \* the entry points in use
  NoRemittance    \* "no remittance", "no contract id"

AllHandlers == {"create", "fund", "process", "settle", "release", "refund",
                "sweep", "payment", "confirm", "relay", "app", "public", "split"}

ASSUME ConstantsAssumption ==
  /\ NoRemittance \notin Remittances
  /\ FeePayer \in {"admin", "oracle", "fee_operator"}
  /\ TrustedHashes \in BOOLEAN
  /\ MaxAborts \in Nat
  /\ Handlers \subseteq AllHandlers

VARIABLES
  custodial,    \* the remittances whose sender account has a server-side key
  row,          \* the remittances table: status, lifecycle and contract id of each
  escrow,       \* the contract: the stored status of each remittance's escrow
  envelopes,    \* the transactions the service has prepared for each app to sign
  newest,       \* the remittance whose escrow has the highest contract id
  expired,      \* the backend's clock has passed the row's expiry
  chainExpired, \* the ledger's clock has passed the escrow's expiry
  req,          \* the running handlers
  split,        \* the remittances whose sender's session has become another user's
  aborts        \* how many handlers have died

vars == <<custodial, row, escrow, envelopes, newest, expired, chainExpired, req, split, aborts>>

-----------------------------------------------------------------------------
\* Rows and requests

RemittanceOrNone == Remittances \union {NoRemittance}

\* A row that has not been inserted yet.
NoRow == [status |-> "NONE", lifecycle |-> "NONE", link |-> NoRemittance]

Rows == [status : Statuses, lifecycle : LifecyclePhases, link : RemittanceOrNone]
          \union {NoRow}

\* The operations a slot can be running.  A refund is a "cancel" signed by the
\* sender or a "reclaim" signed by the fee payer.
Ops == {"none", "create", "fund", "process", "settle", "release", "cancel",
        "reclaim", "sweep", "payment", "confirmCreate", "confirmFund",
        "relayCreate", "relayFund", "relayRefund"}

\* The await a handler is suspended at.
Points == {"idle", "read", "query", "call", "submit", "reload", "wait",
           "verify", "match", "link", "check", "write"}

Idle == [op |-> "none", rem |-> NoRemittance, pc |-> "idle", to |-> "NONE",
         seen |-> "NONE", link |-> NoRemittance]

RequestRecords == [op   : Ops,
                   rem  : RemittanceOrNone,
                   pc   : Points,
                   to   : Statuses \union LifecyclePhases \union {"NONE"},
                   seen : Statuses \union {"NONE"},
                   link : RemittanceOrNone]

\* The handler that reads row r now and goes on to point pc.
Started(op, r, pc, to) ==
  [op |-> op, rem |-> r, pc |-> pc, to |-> to, seen |-> "NONE",
   link |-> row[r].link]

Begin(q, request) == req[q] = Idle /\ req' = [req EXCEPT ![q] = request]
Continue(q, pc, to) ==
  req' = [req EXCEPT ![q] = [req[q] EXCEPT !.pc = pc, !.to = to]]
Finish(q) == req' = [req EXCEPT ![q] = Idle]

At(q, pc) == req[q].pc = pc

ledgerVars == <<escrow, newest>>
clockVars == <<expired, chainExpired>>
otherVars == <<custodial, envelopes, split, aborts>>

-----------------------------------------------------------------------------
\* Initial state: nothing created, nothing running.

Init ==
  /\ custodial \in SUBSET Remittances
  /\ row = [r \in Remittances |-> NoRow]
  /\ escrow = [r \in Remittances |-> "None"]
  /\ envelopes = [r \in Remittances |-> {}]
  /\ newest = NoRemittance
  /\ expired = [r \in Remittances |-> FALSE]
  /\ chainExpired = [r \in Remittances |-> FALSE]
  /\ req = [q \in Requests |-> Idle]
  /\ split = {}
  /\ aborts = 0

-----------------------------------------------------------------------------
\* Calls to the contract

\* The contract accepts the call request c is about to make.  An unset
\* contract id cannot be encoded, so the call throws; authorize_settlement
\* re-states the terms of the row, which only its own escrow matches.
CallAllowed(c) ==
  \/ c.op = "create" /\ escrow[c.rem] = "None" /\ ~chainExpired[c.rem]
  \/ /\ c.link \in Remittances
     /\ \/ c.op = "fund" /\ FundAllowed(escrow[c.link], chainExpired[c.link])
        \/ c.op = "process" /\ BeginAllowed(escrow[c.link])
        \/ /\ c.op = "settle"
           /\ c.link = c.rem
           /\ AuthorizeAllowed(escrow[c.link], chainExpired[c.link])
        \/ c.op = "release" /\ ReleaseAllowed(escrow[c.link])
        \/ /\ c.op = "cancel"
           /\ RefundAllowed(escrow[c.link], chainExpired[c.link], "sender")
        \/ /\ c.op \in {"reclaim", "sweep"}
           /\ RefundAllowed(escrow[c.link], chainExpired[c.link], FeePayer)

\* What an accepted call does to the escrow, and the status its caller then
\* writes to the row.
Effect == [create |-> "Created", fund |-> "Funded", process |-> "Processing",
           settle |-> "SettlementAuthorized", release |-> "Released",
           cancel |-> "Refunded", reclaim |-> "Refunded", sweep |-> "Refunded"]

Target == [create |-> "NONE", fund |-> "FUNDED", process |-> "PROCESSING",
           settle |-> "SETTLEMENT_AUTHORIZED", release |-> "RELEASED",
           cancel |-> "REFUNDED", reclaim |-> "REFUNDED", sweep |-> "REFUNDED"]

\* Where a handler continues after its call: create stores the id the contract
\* returned, the sweep writes the row at once, every other goes to setState.
AfterCall(c) ==
  [c EXCEPT !.pc = IF c.op = "create" THEN "link"
                   ELSE IF c.op = "sweep" THEN "write" ELSE "check",
            !.to = Target[c.op],
            !.link = IF c.op = "create" THEN c.rem ELSE c.link]

\* A call that is accepted, submitted and confirmed.
ContractCall(q) ==
  LET c == req[q] IN
  /\ At(q, "call")
  /\ CallAllowed(c)
  /\ escrow' = [escrow EXCEPT ![IF c.op = "create" THEN c.rem ELSE c.link] = Effect[c.op]]
  /\ newest' = IF c.op = "create" THEN c.rem ELSE newest
  /\ req' = [req EXCEPT ![q] = AfterCall(c)]
  /\ UNCHANGED <<row, clockVars, otherVars>>

\* Faulty variant: the sweep marks the row although its refund was refused.
CallRejectedSweepContinues(q) ==
  /\ At(q, "call")
  /\ ~CallAllowed(req[q])
  /\ IF req[q].op = "sweep" THEN Continue(q, "write", "REFUNDED") ELSE Finish(q)
  /\ UNCHANGED <<row, ledgerVars, clockVars, otherVars>>

\* create's senderSigner, before its call, no longer finds the account.
SignerNotFound(c) == c.op = "create" /\ c.rem \in split

\* A call that the contract rejects, or that is not made for want of a signer: the
\* handler throws (the sweep logs it).
CallRejected(q) ==
  /\ At(q, "call")
  /\ ~CallAllowed(req[q]) \/ SignerNotFound(req[q])
  /\ Finish(q)
  /\ UNCHANGED <<row, ledgerVars, clockVars, otherVars>>

-----------------------------------------------------------------------------
\* setState

\* The SELECT: the transition is validated against the persisted status.
SetStateCheck(q) ==
  LET c == req[q] IN
  /\ At(q, "check")
  /\ IF CanTransition(row[c.rem].status, c.to)
       THEN Continue(q, "write", c.to)
       ELSE Finish(q)
  /\ UNCHANGED <<row, ledgerVars, clockVars, otherVars>>

\* Faulty variant: authorizeAndRelease ends once the settlement is recorded.
AfterWriteStops(c) == Idle

\* What follows the write: settlement goes on to release, others are done.
AfterWrite(c) ==
  IF c.to = "SETTLEMENT_AUTHORIZED"
    THEN [c EXCEPT !.op = "release", !.pc = "call", !.to = "NONE"]
    ELSE Idle

\* Faulty variant: the handler saves the row as it remembers it.
StatusWriteWholeRow(q) ==
  LET c == req[q] IN
  /\ At(q, "write")
  /\ c.op # "payment"
  /\ row' = [row EXCEPT ![c.rem] = [status |-> c.to, lifecycle |-> LifecycleFromStatus[c.to],
                                   link |-> c.link]]
  /\ req' = [req EXCEPT ![q] = AfterWrite(c)]
  /\ UNCHANGED <<ledgerVars, clockVars, otherVars>>

\* The UPDATE, by id alone: setState's, and the sweep's own.
StatusWrite(q) ==
  LET c == req[q] IN
  /\ At(q, "write")
  /\ c.op # "payment"
  /\ row' = [row EXCEPT ![c.rem] =
               [row[c.rem] EXCEPT !.status = c.to,
                                  !.lifecycle = LifecycleFromStatus[c.to]]]
  /\ req' = [req EXCEPT ![q] = AfterWrite(c)]
  /\ UNCHANGED <<ledgerVars, clockVars, otherVars>>

-----------------------------------------------------------------------------
\* Handlers of the custodial flow

\* create: the row is inserted, then a custodial sender's escrow is created
\* server-side; a non-custodial sender gets an envelope to sign.
Create(q, r) ==
  /\ "create" \in Handlers
  /\ row[r] = NoRow
  /\ row' = [row EXCEPT ![r] = [status |-> "CREATED", lifecycle |-> "QUOTE_CREATED",
                                link |-> NoRemittance]]
  /\ req[q] = Idle
  /\ \/ /\ r \in custodial
        /\ req' = [req EXCEPT ![q] = Started("create", r, "call", "NONE")]
        /\ UNCHANGED envelopes
     \/ /\ r \notin custodial
        /\ envelopes' = [envelopes EXCEPT ![r] = {"relayCreate"}]
        /\ UNCHANGED req
  /\ UNCHANGED <<ledgerVars, clockVars, custodial, split, aborts>>

\* The UPDATE that stores the contract id (create's and confirm's).
RecordContractId(q) ==
  /\ At(q, "link")
  /\ row' = [row EXCEPT ![req[q].rem] = [@ EXCEPT !.link = req[q].link]]
  /\ Finish(q)
  /\ UNCHANGED <<ledgerVars, clockVars, otherVars>>

\* loadOwned and loadSenderAccount find the remittance's owner and account for
\* the sender's session; otherwise the handler throws.
Owned(r) == r \notin split

\* fund.
Fund(q, r) ==
  /\ "fund" \in Handlers
  /\ r \in custodial /\ Owned(r)
  /\ row[r].status = "CREATED"
  /\ ~expired[r]
  /\ row[r].link # NoRemittance
  /\ Begin(q, Started("fund", r, "call", "NONE"))
  /\ UNCHANGED <<row, ledgerVars, clockVars, otherVars>>

\* Faulty variant: processing begins whatever the status of the row.
BeginProcessingUnguarded(q, r) ==
  /\ "process" \in Handlers
  /\ row[r] # NoRow
  /\ Begin(q, Started("process", r, "call", "NONE"))
  /\ UNCHANGED <<row, ledgerVars, clockVars, otherVars>>

\* onAnchorTransferStarted and the beginProcessing it calls.
BeginProcessing(q, r) ==
  /\ "process" \in Handlers
  /\ row[r].status = "FUNDED"
  /\ Begin(q, Started("process", r, "call", "NONE"))
  /\ UNCHANGED <<row, ledgerVars, clockVars, otherVars>>

\* onAnchorStatus for a completed anchor transfer: a first read of the row.
OnAnchorStatus(q, r) ==
  /\ "settle" \in Handlers
  /\ row[r].status \in {"PROCESSING", "FUNDED"}
  /\ Begin(q, Started("settle", r, "read", "NONE"))
  /\ UNCHANGED <<row, ledgerVars, clockVars, otherVars>>

\* Faulty variant: the business expiry is left to the contract.
SettleableAtAnyTime(r) == row[r].status \in {"FUNDED", "PROCESSING"}

\* The rows authorizeAndRelease goes on to settle.
Settleable(r) == row[r].status \in {"FUNDED", "PROCESSING"} /\ ~expired[r]

\* authorizeAndRelease reads the row itself: a settlement already authorized
\* is checked on-chain, a settleable row whose sender's account is found goes to
\* the contract, others throw.
AuthorizeAndRelease(q) ==
  LET r == req[q].rem
      reread == [req[q] EXCEPT !.link = row[r].link]
  IN
  /\ At(q, "read")
  /\ req' = [req EXCEPT ![q] =
               IF row[r].status = "SETTLEMENT_AUTHORIZED" THEN [reread EXCEPT !.pc = "query"]
               ELSE IF Settleable(r) /\ Owned(r) THEN [reread EXCEPT !.pc = "call"]
               ELSE Idle]
  /\ UNCHANGED <<row, ledgerVars, clockVars, otherVars>>

\* statusOf as a handler reads it: throws (no value) without a contract id.
ChainStatus(c) ==
  IF c.link \in Remittances THEN StatusOf(escrow[c.link], chainExpired[c.link])
                            ELSE "None"

\* Faulty variant: a settlement authorized earlier is taken as released.
ReentryQueryTrusting(q) ==
  /\ At(q, "query")
  /\ Continue(q, "check", "RELEASED")
  /\ UNCHANGED <<row, ledgerVars, clockVars, otherVars>>

\* The re-entry guard of authorizeAndRelease.
ReentryQuery(q) ==
  /\ At(q, "query")
  /\ IF ChainStatus(req[q]) = "Released" THEN Continue(q, "check", "RELEASED")
                                         ELSE Finish(q)
  /\ UNCHANGED <<row, ledgerVars, clockVars, otherVars>>

\* release.
Release(q, r) ==
  /\ "release" \in Handlers
  /\ Owned(r)
  /\ row[r].status = "SETTLEMENT_AUTHORIZED"
  /\ Begin(q, Started("release", r, "call", "NONE"))
  /\ UNCHANGED <<row, ledgerVars, clockVars, otherVars>>

\* refund: before expiry the custodial sender cancels a funded remittance (a
\* processing one is refused); past expiry the fee payer signs.
Refund(q, r) ==
  /\ "refund" \in Handlers
  /\ Owned(r)
  /\ \/ /\ row[r].status = "FUNDED"
        /\ ~expired[r]
        /\ r \in custodial
        /\ Begin(q, Started("cancel", r, "call", "NONE"))
     \/ /\ row[r].status \in {"FUNDED", "PROCESSING"}
        /\ expired[r]
        /\ Begin(q, Started("reclaim", r, "call", "NONE"))
  /\ UNCHANGED <<row, ledgerVars, clockVars, otherVars>>

\* Faulty variant: the SELECT leaves the PROCESSING rows out.
ExpirySweepFundedOnly(q, r) ==
  /\ "sweep" \in Handlers
  /\ expired[r]
  /\ \/ /\ row[r].status = "CREATED"
        /\ Begin(q, Started("sweep", r, "write", "EXPIRED"))
     \/ /\ row[r].status = "FUNDED"
        /\ row[r].link # NoRemittance
        /\ Begin(q, Started("sweep", r, "call", "NONE"))
  /\ UNCHANGED <<row, ledgerVars, clockVars, otherVars>>

\* One row of expirySweep's SELECT: a CREATED row is marked EXPIRED by id, a
\* FUNDED or PROCESSING one with a contract id is refunded first.
ExpirySweep(q, r) ==
  /\ "sweep" \in Handlers
  /\ expired[r]
  /\ \/ /\ row[r].status = "CREATED"
        /\ Begin(q, Started("sweep", r, "write", "EXPIRED"))
     \/ /\ row[r].status \in {"FUNDED", "PROCESSING"}
        /\ row[r].link # NoRemittance
        /\ Begin(q, Started("sweep", r, "call", "NONE"))
  /\ UNCHANGED <<row, ledgerVars, clockVars, otherVars>>

-----------------------------------------------------------------------------
\* Handlers of the non-custodial flow: the app signs, and either submits the
\* transaction itself and confirms it, or has the service relay it.

\* The transaction of a confirm or relay operation is on the ledger.
Landed(op, r) ==
  \/ op \in {"confirmCreate", "relayCreate"} /\ escrow[r] # "None"
  \/ op \in {"confirmFund", "relayFund"} /\ escrow[r] \notin {"None", "Created"}
  \/ op = "relayRefund" /\ escrow[r] = "Refunded"

\* What confirm remembers of the row it loads.
Loaded(c) == [c EXCEPT !.seen = row[c.rem].status,
                       !.link = IF c.op \in {"confirmCreate", "relayCreate"}
                                  THEN row[c.rem].link ELSE c.link]

\* confirm: loadOwned, then waitForTransaction.
Confirm(q, r) ==
  /\ "confirm" \in Handlers
  /\ row[r] # NoRow /\ Owned(r)
  /\ \E op \in {"confirmCreate", "confirmFund"} :
       Begin(q, Loaded(Started(op, r, "wait", "NONE")))
  /\ UNCHANGED <<row, ledgerVars, clockVars, otherVars>>

\* relay: loadOwned; a second create is refused.
Relay(q, r) ==
  /\ "relay" \in Handlers
  /\ row[r] # NoRow /\ Owned(r)
  /\ \/ /\ row[r].link = NoRemittance
        /\ Begin(q, Started("relayCreate", r, "submit", "NONE"))
     \/ \E op \in {"relayFund", "relayRefund"} : Begin(q, Started(op, r, "submit", "NONE"))
  /\ UNCHANGED <<row, ledgerVars, clockVars, otherVars>>

\* prepareFund and prepareRefund: the envelope for the app to sign.
PrepareFund(r) ==
  /\ "relay" \in Handlers
  /\ r \notin custodial
  /\ row[r].status = "CREATED"
  /\ ~expired[r]
  /\ row[r].link # NoRemittance
  /\ envelopes' = [envelopes EXCEPT ![r] = @ \union {"relayFund"}]
  /\ UNCHANGED <<row, ledgerVars, clockVars, custodial, req, split, aborts>>

PrepareRefund(r) ==
  /\ "relay" \in Handlers
  /\ r \notin custodial
  /\ row[r].status = "FUNDED"
  /\ ~expired[r]
  /\ row[r].link # NoRemittance
  /\ envelopes' = [envelopes EXCEPT ![r] = @ \union {"relayRefund"}]
  /\ UNCHANGED <<row, ledgerVars, clockVars, custodial, req, split, aborts>>

\* The contract accepts the envelope the app signed, and the escrow it leaves.
EnvelopeAllowed(op, r) ==
  /\ op \in envelopes[r]
  /\ \/ op = "relayCreate" /\ escrow[r] = "None" /\ ~chainExpired[r]
     \/ op = "relayFund" /\ FundAllowed(escrow[r], chainExpired[r])
     \/ op = "relayRefund" /\ RefundAllowed(escrow[r], chainExpired[r], "sender")

EnvelopeEffect == [relayCreate |-> "Created", relayFund |-> "Funded",
                   relayRefund |-> "Refunded"]

\* submitEnvelope: the envelope takes effect; or it is a duplicate of one that
\* did, or a successful transaction of some other kind; or it fails.
RelaySubmit(q) ==
  LET c == req[q] IN
  /\ At(q, "submit")
  /\ \/ /\ EnvelopeAllowed(c.op, c.rem)
        /\ escrow' = [escrow EXCEPT ![c.rem] = EnvelopeEffect[c.op]]
        /\ newest' = IF c.op = "relayCreate" THEN c.rem ELSE newest
        /\ Continue(q, "reload", "NONE")
     \/ /\ Landed(c.op, c.rem) \/ ~TrustedHashes
        /\ Continue(q, "reload", "NONE")
        /\ UNCHANGED ledgerVars
     \/ /\ ~EnvelopeAllowed(c.op, c.rem)
        /\ Finish(q)
        /\ UNCHANGED ledgerVars
  /\ UNCHANGED <<row, clockVars, otherVars>>

\* confirm within relay: loadOwned again; the transaction is known to be final.
RelayReload(q) ==
  LET c == req[q] IN
  /\ At(q, "reload")
  /\ req' = [req EXCEPT ![q] = IF Owned(c.rem) THEN [Loaded(c) EXCEPT !.pc = "wait"] ELSE Idle]
  /\ UNCHANGED <<row, ledgerVars, clockVars, otherVars>>

\* The status confirm goes on to write, if any, given the row it loaded.
ConfirmTarget(c) ==
  IF c.op \in {"confirmFund", "relayFund"} /\ c.seen = "CREATED" THEN "FUNDED"
  ELSE IF c.op = "relayRefund" /\ c.seen \in {"FUNDED", "PROCESSING"} THEN "REFUNDED"
  ELSE "NONE"

\* confirm's setState, skipped when there is nothing to write.
Advance(q) ==
  LET to == ConfirmTarget(req[q]) IN
  IF to = "NONE" THEN Finish(q) ELSE Continue(q, "check", to)

\* waitForTransaction returns when the transaction is final and successful, or
\* gives up; then a create is reconciled, a relayed call verified, and a
\* confirmed fund advances the row with no further look at the chain.
WaitForTransaction(q) ==
  LET c == req[q] IN
  /\ At(q, "wait")
  /\ \/ /\ \/ c.op \in {"relayCreate", "relayFund", "relayRefund"}
           \/ Landed(c.op, c.rem)
           \/ ~TrustedHashes
        /\ IF c.op \in {"relayFund", "relayRefund"} THEN Continue(q, "verify", "NONE")
           ELSE IF c.op = "confirmFund" THEN Advance(q)
           ELSE IF c.link = NoRemittance THEN Continue(q, "match", "NONE")
           ELSE Finish(q)
     \/ /\ c.op \in {"confirmCreate", "confirmFund"}
        /\ ~Landed(c.op, c.rem)
        /\ Finish(q)
  /\ UNCHANGED <<row, ledgerVars, clockVars, otherVars>>

\* Faulty variant: the successful transaction is taken as the one it names.
VerifyRelayTrusting(q) ==
  /\ At(q, "verify")
  /\ Advance(q)
  /\ UNCHANGED <<row, ledgerVars, clockVars, otherVars>>

\* relay's verification of the escrow before the row may advance.
VerifyRelay(q) ==
  LET c == req[q]
      required == IF c.op = "relayFund" THEN "Funded" ELSE "Refunded"
  IN
  /\ At(q, "verify")
  /\ IF ChainStatus(c) = required THEN Advance(q) ELSE Finish(q)
  /\ UNCHANGED <<row, ledgerVars, clockVars, otherVars>>

\* Faulty variant: the newest record is not compared with the commitment.
IsOursUnchecked(candidate, r) == TRUE

\* The record with the newest id is this remittance's: sender and quote hash
\* agree, as they do with no other's here.
IsOurs(candidate, r) == candidate = r

\* confirm's reconciliation of a create: only the newest record is looked at.
ReconcileCreate(q) ==
  LET c == req[q] IN
  /\ At(q, "match")
  /\ req' = [req EXCEPT ![q] =
               IF newest # NoRemittance /\ Owned(c.rem) /\ IsOurs(newest, c.rem)
                 THEN [c EXCEPT !.pc = "link", !.link = newest]
                 ELSE Idle]
  /\ UNCHANGED <<row, ledgerVars, clockVars, otherVars>>

-----------------------------------------------------------------------------
\* Payment events of the recipient's account that match the commitment

\* Faulty variant: a payment before the funding advances the feed as well.
PaymentPhaseEarly(lifecycle, type) ==
  IF type = "path_payment" /\ lifecycle \in {"QUOTE_CREATED", "TRANSFER_INITIATED"}
    THEN "STELLAR_PAYMENT_SUBMITTED"
  ELSE IF lifecycle = "STELLAR_PAYMENT_SUBMITTED" THEN "STELLAR_PAYMENT_CONFIRMED"
  ELSE "NONE"

\* The phase applyPaymentEvent writes for an event, given the phase it read.
PaymentPhase(lifecycle, type) ==
  IF type = "path_payment" /\ lifecycle = "TRANSFER_INITIATED"
    THEN "STELLAR_PAYMENT_SUBMITTED"
  ELSE IF lifecycle = "STELLAR_PAYMENT_SUBMITTED" THEN "STELLAR_PAYMENT_CONFIRMED"
  ELSE "NONE"

ApplyPaymentEvent(q, r) ==
  /\ "payment" \in Handlers
  /\ \E type \in {"payment", "path_payment"} :
       /\ PaymentPhase(row[r].lifecycle, type) # "NONE"
       /\ Begin(q, Started("payment", r, "write", PaymentPhase(row[r].lifecycle, type)))
  /\ UNCHANGED <<row, ledgerVars, clockVars, otherVars>>

\* Faulty variant: the phase is written to the status column.
PhaseWriteToStatus(q) ==
  LET c == req[q] IN
  /\ At(q, "write")
  /\ c.op = "payment"
  /\ row' = [row EXCEPT ![c.rem] = [@ EXCEPT !.status = c.to]]
  /\ Finish(q)
  /\ UNCHANGED <<ledgerVars, clockVars, otherVars>>

\* Its UPDATE of the phase, by id alone.
PhaseWrite(q) ==
  LET c == req[q] IN
  /\ At(q, "write")
  /\ c.op = "payment"
  /\ row' = [row EXCEPT ![c.rem] = [@ EXCEPT !.lifecycle = c.to]]
  /\ Finish(q)
  /\ UNCHANGED <<ledgerVars, clockVars, otherVars>>

-----------------------------------------------------------------------------
\* Failures, other parties and time

\* The process restarts, or the database or the RPC node fails at an await.
\* After an accepted call this is a response that was lost.
Abort(q) ==
  /\ req[q] # Idle
  /\ aborts < MaxAborts
  /\ aborts' = aborts + 1
  /\ Finish(q)
  /\ UNCHANGED <<row, ledgerVars, clockVars, custodial, envelopes, split>>

\* The app submits its own signed transaction.
AppSubmits(r) ==
  /\ "app" \in Handlers
  /\ row[r] # NoRow
  /\ \E op \in {"relayCreate", "relayFund", "relayRefund"} :
       /\ EnvelopeAllowed(op, r)
       /\ escrow' = [escrow EXCEPT ![r] = EnvelopeEffect[op]]
       /\ newest' = IF op = "relayCreate" THEN r ELSE newest
  /\ UNCHANGED <<row, clockVars, otherVars, req>>

\* Anyone may release or refund where the contract is permissionless, and the
\* admin may rescue a processing escrow, without the service.
PublicCall(r) ==
  /\ "public" \in Handlers
  /\ \/ /\ ReleaseAllowed(escrow[r])
        /\ escrow' = [escrow EXCEPT ![r] = "Released"]
     \/ /\ \E caller \in {"anyone", "admin"} :
             RefundAllowed(escrow[r], chainExpired[r], caller)
        /\ escrow' = [escrow EXCEPT ![r] = "Refunded"]
  /\ UNCHANGED <<row, newest, clockVars, otherVars, req>>

\* The sender of a custodial remittance registers a key of its own: from then on
\* its session is resolved to another user (resolveUserId), and neither the
\* remittance nor its account is found for it any more.
SenderSplits(r) ==
  /\ "split" \in Handlers
  /\ r \in custodial \ split
  /\ row[r] # NoRow
  /\ split' = split \union {r}
  /\ UNCHANGED <<row, ledgerVars, clockVars, req, custodial, envelopes, aborts>>

\* The two clocks reach the expiry independently of each other.
Expire(r) ==
  /\ row[r] # NoRow
  /\ ~expired[r]
  /\ expired' = [expired EXCEPT ![r] = TRUE]
  /\ UNCHANGED <<row, ledgerVars, chainExpired, otherVars, req>>

LedgerExpire(r) ==
  /\ row[r] # NoRow
  /\ ~chainExpired[r]
  /\ chainExpired' = [chainExpired EXCEPT ![r] = TRUE]
  /\ UNCHANGED <<row, ledgerVars, expired, otherVars, req>>

-----------------------------------------------------------------------------
\* A handler's next step.
Step(q) ==
  \/ ContractCall(q) \/ CallRejected(q)
  \/ SetStateCheck(q) \/ StatusWrite(q) \/ PhaseWrite(q) \/ RecordContractId(q)
  \/ AuthorizeAndRelease(q) \/ ReentryQuery(q)
  \/ RelaySubmit(q) \/ RelayReload(q) \/ WaitForTransaction(q)
  \/ VerifyRelay(q) \/ ReconcileCreate(q)

\* A handler or a job starts on a remittance.
Start(q, r) ==
  \/ Create(q, r) \/ Fund(q, r) \/ BeginProcessing(q, r) \/ OnAnchorStatus(q, r)
  \/ Release(q, r) \/ Refund(q, r) \/ ExpirySweep(q, r)
  \/ Confirm(q, r) \/ Relay(q, r) \/ ApplyPaymentEvent(q, r)

Environment(r) ==
  \/ PrepareFund(r) \/ PrepareRefund(r)
  \/ AppSubmits(r) \/ PublicCall(r) \/ SenderSplits(r) \/ Expire(r) \/ LedgerExpire(r)

Next ==
  \/ \E q \in Requests : Step(q) \/ Abort(q)
  \/ \E q \in Requests, r \in Remittances : Start(q, r)
  \/ \E r \in Remittances : Environment(r)

Spec == Init /\ [][Next]_vars

\* Fairness: a handler that is running goes on (every await settles), both
\* clocks advance, and the sweep job, scheduled every minute, reaches each row
\* it has to deal with again and again.
FairSpec ==
  /\ Spec
  /\ \A q \in Requests : WF_vars(Step(q))
  /\ \A r \in Remittances : /\ SF_vars(\E q \in Requests : ExpirySweep(q, r))
                            /\ WF_vars(Expire(r) \/ LedgerExpire(r))

-----------------------------------------------------------------------------
\* Properties

\* Every variable stays within its type: the rows hold statuses and phases of
\* state.ts, and the running handlers are at one of their awaits.
TypeOK ==
  /\ custodial \in SUBSET Remittances
  /\ row \in [Remittances -> Rows]
  /\ escrow \in [Remittances -> EscrowStates]
  /\ envelopes \in [Remittances -> SUBSET {"relayCreate", "relayFund", "relayRefund"}]
  /\ newest \in RemittanceOrNone
  /\ expired \in [Remittances -> BOOLEAN]
  /\ chainExpired \in [Remittances -> BOOLEAN]
  /\ req \in [Requests -> RequestRecords]
  /\ split \subseteq custodial
  /\ aborts \in 0..MaxAborts

\* The escrow has held the sender's funds.
WasFunded == EscrowStates \ {"None", "Created"}

\* A FUNDED row can be relied on: the confirm endpoint, which looks at no
\* on-chain state, is only given hashes of the transaction it names.
ConfirmIsSafe == TrustedHashes \/ "confirm" \notin Handlers

\* The escrow states a row's status may stand for.
ReachedBy ==
  [NONE                  |-> EscrowStates,
   CREATED               |-> EscrowStates,
   FUNDED                |-> IF ConfirmIsSafe THEN WasFunded ELSE EscrowStates,
   PROCESSING            |-> {"Processing", "SettlementAuthorized", "Released", "Refunded"},
   SETTLEMENT_AUTHORIZED |-> {"SettlementAuthorized", "Released"},
   RELEASED              |-> {"Released"},
   REFUNDED              |-> {"Refunded"},
   EXPIRED               |-> EscrowStates]

\* A row never claims more than the escrow has done, whatever handlers overlap,
\* die after their call, or write a stale decision: FUNDED only once funds were
\* locked, RELEASED only once paid out, REFUNDED only once paid back (setState
\* after each contract call, the relay's verification, the sweep's own write).
StatusBackedByEscrow == \A r \in Remittances : escrow[r] \in ReachedBy[row[r].status]

\* The corridor never works on a remittance whose row still says CREATED, where
\* fund and prepareFund would accept another attempt (the reads in
\* beginProcessing and authorizeAndRelease against a fund still in flight).
CorridorNeedsFundedRow ==
  \A r \in Remittances :
    escrow[r] \in {"Processing", "SettlementAuthorized", "Released"} =>
      row[r].status \notin {"NONE", "CREATED"}

\* A remittance whose settlement was authorized is never marked EXPIRED, even by
\* a sweep that read the row as CREATED, and even when the ledger's clock is
\* behind: authorizeAndRelease's own expiry check is what keeps them apart.
SettledNeverExpired ==
  \A r \in Remittances :
    row[r].status = "EXPIRED" => escrow[r] \notin {"SettlementAuthorized", "Released"}

\* A row's contract id is the id of its own escrow, however many creates and
\* confirms of other remittances, none of them a lookalike, run at the same time
\* (create's returned id and confirm's look at the newest record).
LinkIsOwn ==
  \A r \in Remittances :
    row[r].link # NoRemittance => row[r].link = r /\ escrow[r] # "None"

\* Money never is in an escrow that its row does not point at, where no refund,
\* no settlement and not even the sweep would find it, although the id is stored
\* by an UPDATE of its own that may never come, and stale handlers write the row
\* after it (create, confirm and prepareFund, the UPDATE of setState).
FundsAreLinked ==
  \A r \in Remittances : escrow[r] \in WasFunded => row[r].link = r

\* The feed shows a recipient's payment only for a remittance that was funded
\* (applyPaymentEvent's check of the phase against writes still in flight).
PaymentPhaseNeedsFunds ==
  \A r \in Remittances :
    row[r].lifecycle \in {"TRANSFER_INITIATED", "STELLAR_PAYMENT_SUBMITTED",
                          "STELLAR_PAYMENT_CONFIRMED"} =>
      escrow[r] \in ReachedBy["FUNDED"]

\* The row never tells both outcomes: once it has shown RELEASED it never shows
\* REFUNDED, and once REFUNDED never RELEASED, although a stale write may take
\* it through other statuses in between.
OutcomeNeverReversed ==
  \A r \in Remittances :
    /\ [](row[r].status = "RELEASED" => [](row[r].status # "REFUNDED"))
    /\ [](row[r].status = "REFUNDED" => [](row[r].status # "RELEASED"))

\* Funds in escrow behind an open row are eventually paid out or paid back, as
\* long as handlers run to completion and the row is not marked EXPIRED under
\* them (the sweep's refund in jobs.ts, repeated until the contract accepts it,
\* and authorizeAndRelease, which must not stop between its two calls).
OpenFundsReturn ==
  \A r \in Remittances :
    row[r].status \in {"FUNDED", "PROCESSING"}
      ~> (escrow[r] \in {"Released", "Refunded"} \/ row[r].status = "EXPIRED")

\* state.ts: "`status` mirrors the on-chain contract machine exactly".  When no
\* handler is at work on a remittance whose settlement the contract authorized,
\* its row says so: otherwise release refuses the row, refund and
\* authorizeAndRelease are refused by the contract, and the payout is stuck.
SettlementMirrored ==
  \A r \in Remittances :
    (escrow[r] = "SettlementAuthorized" /\ \A q \in Requests : req[q].rem # r)
      => row[r].status = "SETTLEMENT_AUTHORIZED"

\* setState: "validating against the *current* persisted state (not a possibly-
\* stale in-memory row)": every status change of a row is one of
\* ALLOWED_TRANSITIONS from the status it had.
TransitionsAreLegal ==
  [][\A r \in Remittances :
       row[r] # NoRow /\ row'[r].status # row[r].status =>
         CanTransition(row[r].status, row'[r].status)]_vars

\* What an UPDATE by id alone adds to ALLOWED_TRANSITIONS: FUNDED or PROCESSING
\* written late over whatever came after it, the release that follows upon such a
\* write, and the sweep's two marks over each other.
LateMoves ==
  (Statuses \ {"CREATED"}) \X {"FUNDED", "PROCESSING"}
    \union {"FUNDED", "PROCESSING"} \X {"RELEASED"}
    \union {<<"EXPIRED", "REFUNDED">>, <<"REFUNDED", "EXPIRED">>}

\* What setState's check is worth although the row may change before its UPDATE:
\* no stale write but those of LateMoves gets through.  A row never returns to
\* CREATED, enters SETTLEMENT_AUTHORIZED from FUNDED or PROCESSING only and is
\* not taken from it, or from RELEASED, to a refund or an expiry.
OnlyLateMovesAreIllegal ==
  [][\A r \in Remittances :
       row[r] # NoRow /\ row'[r].status # row[r].status =>
         \/ CanTransition(row[r].status, row'[r].status)
         \/ <<row[r].status, row'[r].status>> \in LateMoves]_vars

\* jobs.ts: "Expire CREATED remittances and auto-refund FUNDED/PROCESSING ones
\* past their business expiry": a row marked EXPIRED has nothing to refund.
ExpiredHoldsNoFunds ==
  \A r \in Remittances : row[r].status = "EXPIRED" => escrow[r] \notin Holding
=============================================================================
