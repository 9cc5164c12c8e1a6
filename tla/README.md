# Remittance backend: formal verification

TLA+ modules of the remittance backend, the TLC configurations that check them
and proofs of their main safety properties. Paths below are relative to `src/`
(the repository), so `src/modules/...` is `src/src/modules/...` from the root of
the workspace.

## 1. The system

The backend sends money across borders. A sender locks funds in a Soroban escrow
contract, an anchor pays the recipient out, and the backend moves a database row
along with both. Its parts, their state and the way they interact:

| Component | State | Operations | Interacts with |
|---|---|---|---|
| State machine (`remittance/state.ts`) | none | `canTransition`, `lifecycleFromStatus` | used by `setState` |
| Remittance service (`remittance/RemittanceService.ts`) | table `remittances`: status, lifecycle, contract id, expiry | `create`, `fund`, `beginProcessing`, `authorizeAndRelease`, `release`, `refund`, `confirmSorobanSubmission`, `prepareFund`, `prepareRefund`, `relay`, `onAnchorTransferStarted`, `onAnchorStatus`, `applyPaymentEvent` | escrow contract (RPC), quotes, every other handler through the row |
| Expiry sweep (`remittance/jobs.ts`) | the same table | every 60 s: mark CREATED rows EXPIRED, refund FUNDED and PROCESSING ones | writes rows directly, calls the contract |
| Anchor poll (`remittance/jobs.ts`) | table `sep_transactions` | every 30 s: ask the anchor, record the answer, settle | `onAnchorStatus`, SEP-6 and SEP-24 services |
| Payment-event queue (`remittance/jobs.ts`) | Redis (BullMQ) | runs `applyPaymentEvent` | fed by streaming and reconciler |
| Escrow client (`soroban/`) | `soroban_transactions`; the escrow itself is on the ledger | contract calls, `waitForTransaction`, `statusOf`, `submitEnvelope` | Soroban RPC |
| SEP-24 and SEP-6 transfers | `sep_transactions` | open a transfer, start processing, store the session | anchor, remittance service |
| Payment streaming (`horizon/PaymentStreamer.ts`) | `stream_cursors`, `payment_events` | `watch`, `onMessage`, `onError` | Horizon, shares both tables with the reconciler |
| Reconciler (`horizon/Reconciler.ts`) | the same tables | a pass over each account, page by page | Horizon |
| Quotes (`quotes/`, `lib/amounts.ts`) | `quotes` | pricing, re-quote of equal terms, `assertUsable`, `claim` | reads the anchor directory, used by `create` |
| Accounts (`accounts/routes.ts`) | `users`, `stellar_accounts` | register a key, issue a custodial account | `create`, `confirm`, settlement look the sender up |
| Anchor directory (`anchors/`, `sep1/`) | `anchors`, `anchor_assets` | `upsertAnchor` from a stellar.toml | fees for the quotes, endpoints for the transfers |
| SEP-10, signing, path payments, Horizon client, HTTP server, configuration | none, or own tables | login, signatures, submission, wiring | see section 8 |

What is hard here:

* **No row is ever locked.** Handlers read a row, await the RPC node for seconds,
  read the row again in `setState` and update it *by id alone*. Requests, the
  sweep, polls, wallets and the public run in between.
* **Two sources of truth.** The escrow decides about the money, the row about
  which operations the backend offers. The response of an accepted call may be
  lost, and the process may restart between the call and the row's update.
* **Two clocks.** The backend compares the expiry with its own clock, the contract
  with the ledger's.
* **Others act on the escrow.** Wallets submit their own transactions, release and
  late refunds are open to everyone.
* **Identities are loose.** A quote may be used by any session, a key registered by several, and a custodial
  customer that registers a key of its own is no longer resolved to the user it was.
* **Checks and uses are apart.** `create` looks up quote, account and owner one await after
  the other, while registrations, refreshes of the anchor and other creates change them; an
  anchor is replaced in several statements without a transaction.
* **The anchor's books.** A transfer exists at the anchor before the backend has a record of it;
  the answer or the INSERT may be lost, and the AUTO preference then tries another protocol. For a wallet's session the
  INSERT never succeeds.
* **Overlapping readers.** Stream, replay after reconnect and polling deliver the
  same payments at the same time and save the same cursor.

What makes each part right:

* service and sweep: a row never claims more than its escrow has done, never shows
  both outcomes, points at its own escrow, and funds behind an open row come back;
* anchor transfers: nothing is settled before the anchor delivered, what it
  delivered is settled, and what it opened is known to the backend;
* streaming: every payment is handed over once, and the cursor skips none;
* quotes, accounts, directory and `create`: a quote adds up, is used once and leads to one
  remittance and one escrow at most, and settlement will speak months later of that one or of one with the same sender and terms.

## 2. Modules

| Module | Models | Uses |
|---|---|---|
| `RemittanceStates` | `state.ts`: statuses, phases, transition table | |
| `EscrowContract` | the contract's rules, as the bindings and `SorobanService` describe them; the contract is not in the repository, so it is external | |
| `RemittanceService` | service, sweep, payment events and the contract, at the granularity of awaits | the two above |
| `RemittanceInvariant` | its inductive invariant `DecisionsJustified` | `RemittanceService` |
| `EscrowPromise` | **abstract specification**: where a remittance's money is, and what is announced of it | |
| `RemittanceRefinement` | the refinement mappings: `RemittanceService` implements `EscrowPromise` and goes on with the tickets of `RemittanceTicket` | `RemittanceInvariant` |
| `RemittanceServiceProofs` | the proofs | `RemittanceRefinement` |
| `MCRemittanceService` | symmetry sets for TLC | `RemittanceRefinement` |
| `RequestDesk` | HTTP handlers running at the same time, and faults | |
| `AccountRegistry` | users and accounts: registration, custodial issuance, `resolveUserId` | `RequestDesk` |
| `AnchorDirectory` | `upsertAnchor` over one home domain | `RequestDesk` |
| `QuotePricing` | rates, fees and rounding as operators | |
| `QuoteService` | compute, the `quotes` table, claim and expiry | `AnchorDirectory`, `QuotePricing` |
| `RemittanceIntake` | `create` and the create side of `confirm` in full, **composed with** accounts, directory and quotes | `AccountRegistry`, `QuoteService` |
| `IntakeInvariant` | its inductive invariant `HandlersSound` | `RemittanceIntake` |
| `RemittanceTicket` | **abstract specification**: what a quote promises its owner, the stages of a remittance up to its contract id | |
| `IntakeRefinement` | the refinement mapping: the intake implements `RemittanceTicket` | `IntakeInvariant` |
| `RemittanceIntakeProofs` | the proofs | `IntakeRefinement` |
| `MCRemittanceIntake` | numbers of the pricing and symmetry for TLC | `IntakeRefinement` |
| `AnchorTransfers` | the SEP routes and the anchor poll, **composed with** every handler of the service | `RemittanceService` |
| `AnchorTransfersProofs` | the refinement and its theorems | `AnchorTransfers`, `RemittanceServiceProofs` |
| `PaymentStream` | streamer, reconciler, cursor and dedupe table of one account | |
| `PaymentStreamProofs` | the proofs | `PaymentStream` |

Operators named `...Unguarded`, `...Trusting`, `...Early` and so on, marked "Faulty
variant", are not part of a specification: each is a definition with a plausible
bug put in, which shows that a property really depends on the code it is about.

### RemittanceService and the code

A running handler occupies a slot `req[q]` that holds what its JavaScript closure
remembers: operation, remittance, the await it is suspended at (`pc`), the status it
is about to write (`to`), the status it saw and the contract id it loaded. One action
is the code between two awaits:

| Point | Code |
|---|---|
| start actions (`Create`, `Fund`, `Refund`, ...) | the first read with its checks; a failed check is an early return and no step |
| `call` | a contract call: `ContractCall` (accepted and confirmed) or `CallRejected` (throws) |
| `check` | the SELECT of `setState` with `canTransition` |
| `write` | the UPDATE by id, of `setState`, of the sweep, of `applyPaymentEvent` |
| `read`, `query` | the second read of `authorizeAndRelease` and its re-entry guard |
| `submit`, `reload`, `wait`, `verify` | `relay`: submit, `loadOwned` again, wait, look at the escrow |
| `match`, `link` | reconciling a create with the newest contract id, recording the id |

`custodial` splits the senders: for a custodial one the backend signs, the others sign
an envelope the service prepared. A contract id is represented by the remittance
whose escrow it names, `newest` stands for the highest id. `Abort` is a handler that
dies at an await: a restart, a database or RPC error, a lost response.
`Handlers` says which entry points a run uses, so that a run can leave some out.

Simplifications: one row of the sweep's SELECT at a time, with a write that may come
arbitrarily late; the first read of `onAnchorTransferStarted` is merged with that of
`beginProcessing`, which checks the same; no two remittances have the same sender and quote hash, so
the newest escrow is a remittance's own or visibly another's (`IsOurs`). One owner's remittances never have both in common, as
the intake shows (`LookalikesAreForeign`); those of two owners' quotes may, and what this module says of
contract ids (`LinkIsOwn`, `FollowsTicket`) is not said of such lookalikes, which are `RemittanceIntake`'s. Apps submit only
envelopes the service prepared; the quote claim is the intake's; audit rows and `settled_at` are left out. `TrustedHashes` says
whether an app's `confirm` names the transaction it claims to name.

`SenderSplits` is a custodial sender that registers a key of its own. From then on `loadOwned` and
`loadSenderAccount` throw for it (`Owned`, `SignerNotFound`), in the middle of a handler as well: `create` makes no call,
a relay stops before its `confirm`, and `authorizeAndRelease` throws although the poll that
called it has recorded its transfer as completed. Calls that the fee payer signs, the sweep's among them, go on.

### AnchorTransfers and the code

A route or a poll runs in a slot as well; while the service works for it, `req[q]` holds the
service's request, so the service's own actions are used unchanged. A route starts as
`opening[q]`: `StartTransfer` (the request and the protocols it may use), then `OpenAtAnchor`,
`AnchorRefuses` or `AnswerLost` (the POST to the anchor), then `InsertRecord`, `InsertFails` or, for a wallet's session,
`InsertRefused`: its subject is a public key, and `user_id` is a uuid. An
attempt that throws goes on to the other protocol if there is one left (`AttemptFails`, the catch of
`withFallback`). `opened` is the anchor's book of the transfers it has opened. From its INSERT on the
route is `job[q]`: `OnAnchorTransferStarted`, `StoreSession`. `Poll`, `QueryAnchor`, `RecordAnswer`,
`Notify` are the parts of a poll, which may overlap another poll of the same record. `Deliver` is the
anchor, which completes what it has opened, recorded or not. `JobDies` is a route
or poll that fails at an await of its own; if the service throws, the route stops
before it stores the session (`ServiceStep`), if it throws in a poll the poll logs it.

Simplifications: one record of the SELECT per poll; the two protocols are alike; a wallet may ask for a transfer of
any remittance, since the routes do not look at its owner; a transfer is for a
remittance that exists (for an id that does not, the foreign key refuses the INSERT after the anchor
has opened the transfer, and transfers without a remittance touch no row the model has);
answers other than "completed" keep the record pending, as in the code.

### RemittanceIntake and the code

A handler is a record in its slot that holds exactly what its closure remembers at that await; one action
is the code between two awaits:

| Action | Code |
|---|---|
| `Register`, `InsertUser`, `LookUpAccount`, `InsertAccount` | `POST /v1/accounts`: users row by subject, then the key |
| `IssueCustodial`, `InsertCustodial` | `POST /v1/accounts/custodial` |
| `Discover`, `SelectAnchor`, `InsertAnchor`, `UpdateAnchor`, `DeleteAssets`, `InsertAssets` | the statements of `upsertAnchor` |
| `RequestQuote`, `ReadAnchorFee`, `InsertQuote` | `compute` and `createQuote`; a conflict of owner and hash answers the row that is there |
| `Create`, `ResolveSender`, `ResolveOwner`, `Claim`, `InsertRemittance`, `SenderSigner` | `create`, await by await, with whichever quote the client names; the INSERT is refused when the client's `anchor_id` is no anchor's, and the claim before it stands (`burnt`) |
| `InsertCall`, `Submit`, `RecordSuccess`, `RecordFailure` | `createRemittance` inside `record`: the `soroban_transactions` row before, the call, the row after |
| `Link` | the UPDATE of the contract id |
| `AppSubmits`, `Confirm`, `ReadNewest`, `Match`, `Link` | a wallet's own submission and `confirm` |
| `Dies` | a restart, or a statement that throws; `Submit` and `RecordSuccess` may lose an answer as well |

The terms of a quote are the numbers of `ComputedQuote`; equal terms have equal hashes. The ledger is the
sequence of commitments in the order of their ids.

A session may use any quote and register any key, as the routes let it. Two rows with the same sender and equal terms are
*lookalikes*: one was created with a quote of another owner. `confirm` compares sender and quote hash, so it may link a
row to its lookalike's escrow. The ghost `row` of a commitment remembers for whom an escrow was opened.

Assumed of the environment: only the holder of a key signs with it, so a custodial key registered by
somebody else opens no escrow; the contract may accept or refuse a create; a version of a stellar.toml lists at least one
asset; with `TrustedHashes` an app confirms only after its create has landed (the run does without). Left out: the default
flag of an account (a client may name any of its accounts), recipient and corridor (no step depends
on them).

### PaymentStream and the code

Horizon numbers the records of the account, `cursor` is the saved row. `messages` holds
the `onMessage` handlers, several of which may run at a time because the stream
does not wait for them; `pass` is the reconciler's pass. Each has its awaits: persist,
hand over, save the cursor. `Restart` also stands for a handler that rejects, since an
unhandled rejection ends the process; `PassFails` is a pass that throws. Three ghosts: `due` holds
the records made while the account had a cursor to resume from, `interrupted` the events that were in
somebody's hands when a restart or a failing pass ended him, `overlooked` the due events behind which a subscription started
because its "now" had been loaded before the first cursor was saved (finding 5).

## 3. Runs

| Run | Bounds | Shows |
|---|---|---|
| `settlement_safety` | 1 remittance, 2 slots, 2 deaths, every entry point, a sender whose identity splits, fee payer admin; 886,000 states | rows are backed by escrows, the corridor needs a funded row, settled is never expired, payment phases need funds; every authorized settlement but as many as handlers have died is in somebody's hand, written once and released afterwards (`SettlementInHand`); money is behind rows that point at it (`FundsAreLinked`); stale writes are those of `LateMoves` (`OnlyLateMovesAreIllegal`); `DecisionsJustified` is the invariant of the proofs; the service implements `EscrowPromise` (`KeepsPromise`) |
| `intake` | 1 customer with a custodial account, 1 wallet, a key that both may register, 2 quotes that either may use, 2 remittances, 2 slots, 1 fault or 1 tick, any hashes in `confirm`, `CONSTRAINT Bounded`; 363,000 states | prices add up, a quote is used once and not wasted but by a refused INSERT, one owner's escrows differ (`LookalikesAreForeign`), none is lost, and they match what settlement states again; call records are true, the directory stays complete; `HandlersSound` is invariant; the intake implements `RemittanceTicket` (`KeepsTickets`) |
| `linking` | 2 remittances, 2 slots, create and relay, untrusted hashes; 1,090,000 states | concurrent creates of remittances that are no lookalikes never link a foreign escrow, and each remittance goes through the stages of its ticket in their order (`FollowsTicket`) |
| `settlement_liveness` | 1 remittance, 2 slots, no deaths, a sender whose identity splits; 135,000 states | outcomes are never reversed, funds behind an open row are paid out or back, a settlement is mirrored |
| `anchor_transfers` | 1 remittance, 1 transfer, 2 slots, 1 death of a handler and 1 fault of a job, wallet sessions, a sender whose identity splits, no payment events; 373,000 states | nothing is settled before delivery, a delivery is settled unless the sender's identity has split, each fault costs at most one transfer beside those whose INSERT was refused, sessions are lost only to somebody who moved the escrow on, the whole implements `RemittanceService` |
| `payment_stream` | 4 records of which 1 is no payment, pages of 2, 1 fault; 366,000 states | handed over once; the cursor skips nothing, and nothing is lost, but the events that a fault found in somebody's hands and those that a stale "now" started behind |
| `stale_transition` | violation | `setState` can make an illegal transition |
| `expired_with_funds` | violation | the sweep can mark a row EXPIRED over a funded escrow |
| `lost_response` | violation | a lost response leaves a settlement that nothing can finish |
| `stream_restart` | violation | a restart between persisting and handing over loses a payment |
| `stale_now` | violation | with nothing failing but the stream, the cursor passes a payment that nobody has seen |
| `completed_unsettled` | violation | a completed transfer may never be settled |

Why the bounds are enough to be interesting: the properties of a row involve one remittance
(only the choice of the newest contract id relates two, hence `linking`), and two slots
give every pair of overlapping handlers, a third party being the environment's actions.
In the intake two handlers are what a race takes (two creates of one quote, two first registrations,
a quote during a refresh, a confirm during a create), two quotes and remittances what it takes to
mix them up, a customer and a wallet with a key in common what it takes to split an identity, to use a foreign quote and
to make lookalikes. Two amounts, one that ends up with
nothing to deliver and one whose parts round separately, a rate below one and a fee with both parts make every
rounding of `QuotePricing` visible. `Bounded` cuts off what does not meet: a behaviour has at most two accounts besides
no fault, tick or unusual amount, or one account and one of these; and the directory is
refreshed before there are users, because creates, confirms and registrations see nothing of it but the terms of quotes, which
they copy and compare. No behaviour the constraint keeps is altered by it, and the proofs have none of these bounds.
Two transfers of one remittance with fewer handlers were also checked (342,000 states).
Four records let a message and a page overlap while a third payment is made after a subscription that starts at a
stale "now", and one more after it; the fault is a restart or a pass that throws at any await.
The proofs then remove the bounds from the safety properties.
All runs but the stream's stop when everything is finished, hence
`CHECK_DEADLOCK FALSE`: a remittance that is released and expired on both clocks has
no step left. Symmetry is used for slots and remittances in safety runs only.

### Fairness

* A handler, route or poll that runs goes on: an await settles, in time or with an
  error (weak fairness of its steps). Deaths are the exception and are bounded by
  `MaxAborts` and `MaxJobAborts`; `OpenFundsReturn` is checked with none, and
  `DeliveryIsSettled` is about behaviours with none.
* The sweep and the poll are repeatable jobs and reach each row they select again and
  again (strong fairness, since a row may leave and enter the selection or the slots
  may be taken). This needs `STREAM_ENABLED`: without it there is no worker.
* Both clocks advance (weak fairness).
* The reconciler's interval fires for ever (weak fairness). Its running flag is shared by
  all accounts; that this account's turn comes is part of the assumption. Nothing
  is assumed of the stream.

## 4. What is proved

`tlapm` checks every step; the theorems hold for every number of remittances, slots,
transfers, records, page sizes and failures. The assumptions are the named `ASSUME`s of the
modules (which TLC evaluates in the runs), nothing else.

**RemittanceServiceProofs.** `DecisionsAlwaysJustified`, and from it `TypeCorrect`,
`StatusesAreBacked`, `LinksAreOwn`, `CorridorSafe`, `PhasesAreFunded`, `SettledSafe`,
`OutcomesAreFinal`. `StatusBackedByEscrow` speaks of rows; a handler between its call and its
write carries a decision on an older state, so the property alone is not inductive.
`Sound` adds what every decision in flight still guarantees when it is carried out:
the escrow has reached a state the status to be written may stand for, and since escrows only
move forward (`EscrowsMoveForward`) that stays so (`BackedIsStable`, `SoundIsStable`). The
lemmas `LocalStep`, `RowWrite`, `LedgerWrite`, `AcceptedCall` cover one kind of step each.
`SettledNeverExpired` needs `ExpiringInv`: a settlement starts from a row that left CREATED before
its expiry, a sweep from one that was CREATED after it. `OutcomesAreFinal` follows from the
finality of "Released" and "Refunded" on-chain. A sender whose identity splits may stop a handler at each of its lookups;
nothing that a handler has decided depends on the account being found again.

`PromiseIsKept` is the refinement: a contract call moves `MoneyOf[escrow]` by one step of
`EscrowPromise` or not at all, a status write tells what the backing of the decision allows.
`TicketsAreFollowed` is the other one: `StageOf` reads the stage of a ticket off the row, its escrow and its
contract id, and no step of the service takes a stage back or leaves one out (`RowsStay`, `LinkChanges`). The intake
implements the same `RemittanceTicket`, so the two specifications agree on what a remittance is where one ends
and the other starts.

`SettlementsAreSeenThrough` adds to the invariant who works on an authorized settlement. Only the
contract call of a "settle" makes an escrow SettlementAuthorized, and the contract accepts it once; the
handler that made it is then the only one `Deciding` to write SETTLEMENT_AUTHORIZED (`DecidedOnce`), the row it meets has not
been marked (so `setState` does not refuse it), and after the write it carries on to release. It
ends only when the escrow is Released, by itself or by somebody else, or when it dies: a settlement nobody
carries is `Dropped`, each death drops one at most (`DroppedStep`), and a set that grows by one at most while a
count goes up by one stays within the count (`CountKeepsUp`). `StuckPayoutsAreCounted` draws the conclusion:
of any number of remittances no more payouts are stuck for good than handlers have died; `lost_response` shows
that one death is enough for one. `SettlementsAreMirrored` is the case without deaths.
The other half, `FinishedAfterwards`, says that whoever releases does so after the row was marked, and that nobody is
left to mark it again. It rests on `AllGoOn`, which describes how any step of the system changes any handler (`GoesOnAs`).

`StaleWritesAreLate` measures what finding 1 is worth. `setState` may write over a row that changed after its
check, so transitions outside `ALLOWED_TRANSITIONS` do happen; but of the 49 pairs of statuses only those of `LateMoves`
can: FUNDED or PROCESSING written late, the release that follows such a write, and EXPIRED and REFUNDED over each other.
A row never goes back to CREATED and never leaves SETTLEMENT_AUTHORIZED or RELEASED for a refund or an expiry.
Each pair is excluded by what the escrow has done (`WritesFind`): it can not be both settled and refunded, a marked settlement
has no second writer, and the sweep never meets a settled row. On the small instance each of these pairs does occur.

`FundersStayLinked`, `FundsStayLinked`: a contract id is stored by an UPDATE of its own, which may never come, and
stale handlers write the row after it; still there is never money in an escrow that its row does not point at.
`FundersLinked`, which is stated by its theorem only, adds who is about to fund: a handler past its check and a wallet with
an envelope. `OpenRowsHaveIds` concludes that
the sweep's condition on the contract id hides no FUNDED or PROCESSING row from it, which is why
`OpenFundsReturn` needs no hypothesis about ids. The hypothesis `ConfirmIsSafe` (no `confirm` in use, or hashes that can be
trusted) leaves out an app that confirms a funding with the hash of another transaction (section 5).

Three theorems are about the dead ends that a run or a hazard shows to be reachable; they say that nothing leads out of them.
`TerminalIsFinal`: a row that is RELEASED, REFUNDED or EXPIRED stays so once the writers that overlapped with its last change are through,
so neither the sweep nor a later refund request ever takes up a row as in finding 2 again. `StuckForGood`: a settlement left behind as in finding 3 is
`Jammed`, its row keeps saying FUNDED or PROCESSING even after somebody else has paid the funds out. Both rest on
`MarkingComes`: whoever comes to write a status has passed `setState`'s check against this very row, or is a sweep. `OrphansStayEmpty`:
an escrow whose id was not stored before the next one was created is never linked, as `LinkingComes` and
`NewestOnce` show, and since only linked escrows are funded, no money is ever in it.

**AnchorTransfersProofs.** `TransfersTypeCorrect`; `TransfersImplementService`: every step of the
composed system is a step of `RemittanceService` or leaves its variables alone, so its theorems carry
over (`TransfersInheritSafety` lists them). `DeliveredAlwaysFirst`: neither an escrow, a settlement in flight nor
a poll with an answer is ahead of the anchor; `PayoutFollowsDelivery` follows. The argument
separates the steps that start or finish no settlement (`NoNewSettlement`, shown for each kind
of step) from the contract call, which settles what is being settled, and the poll, which starts a
settlement only with the anchor's answer. `BooksAgree` is the invariant of the opening: a record is of a transfer
the anchor opened for its remittance, and a route that is about to insert one is alone with it. So besides the INSERT that is
refused to a wallet's session only a fault takes a
transfer away from the backend, one at a time (`ForgottenStep`), and `ForgottenTransfersCounted` counts them.
`SessionsAreLostToOthers` does the same for the sessions: a route that has recorded its transfer stores the session
unless `onAnchorTransferStarted` throws or somebody dies. Its invariant `RoutesAtWork` follows the service's request of a route
from the row it found to the contract call, which is refused only when the escrow has left the states in which processing may
begin, and an escrow does not come back. It has the hypothesis `ConfirmIsSafe`: a row that `confirm` marked FUNDED
over an escrow without funds lets the route start and the contract refuse it.
`OnlyNewTransfersSettle` is finding 6 for good: once each transfer of a remittance is completed or has lost its session
and nobody settles it (`Unwatched`), nobody ever will unless its owner opens another transfer. `SettlementsComeFrom` names the
steps that can start a settlement, and the poll is the only one.

**PaymentStreamProofs.** `EventsAlwaysAccounted`, and from it `StreamTypeCorrect`, `NeverHandedOverTwice`,
`CursorNeverSkips`. The invariant has two halves: `HandedOverOnce`, because only
one handler gets an event from `persistEvents` and keeps it to itself; and `NothingSkipped`, which
says that every position from which somebody reads or which somebody may save as the cursor
has only events behind it that are taken care of: handed over, in somebody's hands, or in the hands of one that a restart
or a failing pass interrupted. The exception is `overlooked`, the events that a subscription at a stale "now" started behind:
only `Subscribe` adds to it, and no fault is needed for that (finding 5). Faults lose what they interrupt (finding 4) and nothing else
(`FaultsSkipNothing`): apart from the overlooked ones the cursor never skips an event that nobody had taken. `LostForGood` says
that the loss by a fault is final: the
row of `payment_events` that makes repetitions harmless hides the event from every later replay and pass.

**RemittanceIntakeProofs.** `IntakeIsTyped`, `HandlersStaySound`, and from them one theorem for each property
of the run (`QuotesAreSingleUse`, `EscrowsAreTold`, `SettlementIsFirm`, `QuotesAreNotWasted`, `EscrowsAreNotLost`,
`CallRecordsAreTrue`, `DirectoryIsComplete`, `QuotesAreFair`, `FeesAreMissedInRefresh`) and the refinement `TicketsAreKept`,
for any number of sessions, keys, quotes, remittances, handlers and faults, any fees and rates.
`HandlersSound` is the inductive invariant, a conjunction of parts by what they are about: accounts
(`RegistrySound`), the directory (`AnchorMet`), offers (`OffersAreFair`), creates up to their INSERT (`CreatesSound`), rows
(`RowsSound`), creates that open an escrow (`OpeningsSound`), confirms (`ConfirmsSound`), the ledger
(`LedgerSound`) and contract ids (`LinksSound`). It assumes nothing of whose quote a create uses or who registers which key. Its
core is a chain of uniqueness: owner and terms are unique among
the quotes, a claim makes one create the only one behind a quote, its row the only row of that quote, and each row
opens one escrow; the first of these makes `EscrowsAreTold`: two escrows with one sender and one hash are those of two owners' quotes
(`ToldApart`). `Passes` says what the comparison in `confirm` is worth: the escrow is the row's own, or a lookalike of
the row exists, and `MatchPasses`, `PassesStands` and `OwnPasses` show that every contract id is such an escrow's and stays it. `SettlementIsFirm`
draws the conclusion for settlement: sender, terms and escrow agree even where the escrow is a lookalike's. In
`TicketsAreKept` that case is the step `Mistaken` of `RemittanceTicket`, the only one that skips a stage. `QuotesAreNotWasted`
counts a quote as used up for nothing only if a create has died behind it or its INSERT was refused (`burnt`). The proof separates the steps of
`create` and `confirm` from those beside them, which touch a frame of the state only, and has a
lemma for each conjunct; the rounding in `QuotesAreFair` rests on one lemma about `\div`.

Only model-checked: the liveness properties (`OpenFundsReturn`, `DeliveryIsSettled`,
`OnlyInterruptedEventsAreLost`), which are beyond the prover. Every other property of a passing run is stated by a theorem.

## 5. Findings

Each is a run that TLC ends with a counterexample; the documents quoted are in `PROJECT.json`.

1. `stale_transition`: `setState` validates the transition and then updates by id, so PROCESSING may
   replace SETTLEMENT_AUTHORIZED (`RemittanceService.ts:184`).
2. `expired_with_funds`: the sweep marks a row that it read as CREATED while its fund call is in flight; the
   escrow is funded, the row EXPIRED and no operation refunds it (`jobs.ts:71`).
3. `lost_response`: when `authorizeAndRelease` dies after the authorization, no operation finishes the payout
   (`RemittanceService.ts:421`). Release stays open to everyone on the contract.
4. `stream_restart`: an event that is persisted and not handed over is lost by a restart
   (`PaymentStreamer.ts:61`).
5. `stale_now`: after an error the stream may load "now" while a handler of the old connection is about to save the account's
   first cursor; a payment made between that save and the subscription is behind both, and nothing has failed but the stream
   (`PaymentStreamer.ts:52`).
6. `completed_unsettled`: the poll records a transfer as completed before it settles, and does not look at it
   again if the settlement is skipped or throws (`jobs.ts:120`).

The proofs bound the damage: the row never claims more than the escrow has
done, no escrow is paid out before the anchor delivered, of the illegal transitions only
those of `LateMoves` occur (1), a death costs one stuck payout (3), a fault only the events it interrupts (4), and a stale "now"
only those it started behind (5). They also show that no later
request, sweep, poll or replay repairs what has happened: `TerminalIsFinal` (2), `StuckForGood` (3), `LostForGood` (4),
`OnlyNewTransfersSettle` (6).

Seen while modelling, and stated as the exceptions of properties that hold rather than as runs of their own:

* A custodial customer that registers a key of its own gets a second users row, by its subject, and `resolveUserId`
  no longer finds the first: its custodial account and earlier remittances are out of reach. `authorizeAndRelease` throws
  for them, after the poll has recorded the transfer as completed, and they stay as they are until the sweep refunds them
  (`accounts/routes.ts:63`; `IdentitySplit` in `SettlementStandsFirm`, the exception in `DeliveryIsSettled`). The comment of
  the `users` table (`db/schema.ts:24`) has one row per identity.
* `confirm` with `fund_remittance` takes any transaction that has succeeded for the funding (`RemittanceService.ts:258`), so a
  row may be FUNDED without funds. What is said of the service holds for apps that confirm the transaction they name:
  `TrustedHashes`, and `ConfirmIsSafe` as a hypothesis of the theorems that need it.
* `create` accepts any session's quote and a key may be registered by several sessions, so two rows may share sender and
  quote hash. The comment at `RemittanceService.ts:240`, by which the newest record must be the row's own if it agrees in both, does not hold
  for such lookalikes: `confirm` may give one the other's contract id (`SettlementStandsFirm`, `Mistaken`).
* `create` does not look the client's `anchor_id` up. When it is no anchor's, the foreign key refuses the INSERT after the claim, and
  the quote is used up without a remittance (`RemittanceService.ts:312`; `burnt` in `ClaimNotWasted`).
* The SEP routes pass the session's subject as `user_id`, a uuid column. For a wallet's session the INSERT always throws, after
  the anchor has opened the transfer; with AUTO it then opens a second one, and neither is recorded
  (`Sep24Service.ts:81`, `db/schema.ts:172`; `refused` in `ForgottenOnlyByFaults`).
* A quote asked for again with equal terms is answered with the earlier row's id and a fresh expiry that is not the row's:
  once that row is used or expired, its owner cannot remit on these terms again (`QuoteService.ts:275`).
* Two first registrations at a time: the slower one throws on the unique subject or key, although the route is
  documented as idempotent.
* `claim` does not look at the expiry again, so a quote may expire between `assertUsable` and its claim.
* The UPDATE to "confirmed" stands inside the try of the contract call: when it fails, an accepted call is
  recorded as failed and its escrow is linked to no row (`SorobanService.ts:171`; the exception in `CallRowsTrue`).
* AUTO falls back to SEP-6 on every error of the SEP-24 attempt, an INSERT that failed among them, while the comment
  at `Sep6Service.ts:131` speaks of SEP-24 being unavailable: the anchor may then hold two transfers of which one is
  unknown to the backend (`ForgottenOnlyByFaults` counts them). Nothing refuses a second transfer for one remittance either.

## 6. Hazards

`PROJECT.json` lists, at its line, each thing in this code that is hard to test, with the properties that cover
it. Those without a property are behaviours for which no document promises anything: a `confirm` that never matches
because another create is newer (`OrphansStayEmpty` proves that nothing is lost with it but the remittance), a relayed fund whose row stays CREATED over a funded escrow; the funding that `confirm` takes on trust (section 5); and three that
lie outside the bounds of a model: more than 100 pending transfers in one SELECT, the reconciler's flag that all accounts
share, and accounts that are registered after the list of watched accounts was read.

## 7. What could follow

The order of the work was that of what can go wrong with money: the service, its sweep and the contract; the stream;
the anchor transfers; then quotes, accounts, directory and `create`, and the two abstract specifications. What remains:

1. **Payment events end to end**: the stream's hand-over feeding `applyPaymentEvent` through the queue. Both ends are modelled
   (`PaymentStream` up to the hand-over, `ApplyPaymentEvent` at any time from then on), their composition is not.
2. **One composed system**: `RemittanceIntake` ends where `RemittanceService` starts, at a row with or without a contract id; the two
   agree on the stages of a ticket, which both are proved to follow, but are not one specification. With lookalikes in the service
   two rows would share one escrow, and the statuses of one would be backed by what was done for the other.
3. **Path payments**, once something calls `prepare` and `submit`.

## 8. Not modelled, and why

* Path payments: `PathPaymentService.prepare` and `submit` have no caller in the repository, `quote` only reads; signing is stateless.
* SEP-10 login and SEP-10 towards anchors: stateless signature and token checks of an SDK.
* Horizon client, HTTP server, validation, metrics, migrations, configuration, encryption: wiring and pure I/O.
* Redis and BullMQ: a job may start at any time and overlap itself, which covers delivery and retries; a job that
  Redis loses is outside.
* The audit table, and the rows of `soroban_transactions` for calls other than create: written, never read by the protocol.
