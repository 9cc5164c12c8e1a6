--------------------------- MODULE AnchorTransfers ---------------------------
(***************************************************************************)
(* What drives the corridor: the SEP-6 and SEP-24 routes that open a       *)
(* transfer at an anchor for a remittance (src/modules/sep24 and sep6),    *)
(* and the anchor poll (jobs.ts) that settles it, beside every other       *)
(* handler of the remittance service.                                      *)
(*                                                                         *)
(* A route or a poll runs in one of the service's request slots.  A route  *)
(* that has no record yet is described by opening[q]; from then on its     *)
(* awaits, and a poll's, are the points of job[q].  While the service      *)
(* works for it, the slot holds the service's request.                     *)
(***************************************************************************)
EXTENDS RemittanceService, FiniteSets

CONSTANTS
  Transfers,    \* the transfers that may be opened at the anchor
  NoTransfer,   \* "no transfer"
  MaxJobAborts  \* bound: how many routes and polls may die at an await of their own

ASSUME TransfersAssumption ==
  /\ NoTransfer \notin Transfers
  /\ MaxJobAborts \in Nat

VARIABLES
  opened,     \* the anchor's books: the remittance each transfer was opened for
  opening,    \* the routes that are opening a transfer
  refused,    \* ghost: the transfers whose record the database refused
  transfer,   \* the sep_transactions table
  delivered,  \* the transfers the anchor has completed
  job,        \* the routes and polls that are running
  jobAborts   \* how many of them have died

transferVars == <<transfer, delivered, job, jobAborts>>
openingVars == <<opened, opening, refused>>
allVars == <<vars, transferVars, openingVars>>

-----------------------------------------------------------------------------
NoRecord == [rem |-> NoRemittance, status |-> "none", session |-> FALSE]

Records == [rem : Remittances, status : {"pending", "completed"}, session : BOOLEAN]
             \union {NoRecord}

NoJob == [tx |-> NoTransfer, pc |-> "idle"]

\* A poll is at "completed" or "unfinished" when it has the anchor's answer.
Jobs == [tx : Transfers,
         pc : {"started", "processing", "session",
               "query", "completed", "unfinished", "notify"}]
          \union {NoJob}

\* A route waits for the anchor's answer and then, with the transfer the anchor
\* opened, for its INSERT; "again" says that a second protocol is left to try, and
\* "wallet" that the session is a wallet's.
NoOpening == [rem |-> NoRemittance, tx |-> NoTransfer, again |-> FALSE, wallet |-> FALSE]

Openings == [rem : Remittances, tx : Transfers \union {NoTransfer}, again : BOOLEAN,
             wallet : BOOLEAN]
              \union {NoOpening}

Asking(q) == opening[q] # NoOpening /\ opening[q].tx = NoTransfer

Inserting(q) == opening[q].tx # NoTransfer

\* Nothing runs in slot q.
Free(q) == req[q] = Idle /\ job[q] = NoJob /\ opening[q] = NoOpening

TransfersInit ==
  /\ Init
  /\ opened = [t \in Transfers |-> NoRemittance]
  /\ opening = [q \in Requests |-> NoOpening]
  /\ refused = {}
  /\ transfer = [t \in Transfers |-> NoRecord]
  /\ delivered = {}
  /\ job = [q \in Requests |-> NoJob]
  /\ jobAborts = 0

Goes(q, pc) == job' = [job EXCEPT ![q].pc = pc]
Stops(q) == job' = [job EXCEPT ![q] = NoJob]

\* The remittance a job is about.
Subject(q) == transfer[job[q].tx].rem

-----------------------------------------------------------------------------
\* The routes

\* A request for a transfer of a remittance that exists, whatever its status:
\* through one protocol, or (preference AUTO) through SEP-24 with SEP-6 to fall
\* back to.
StartTransfer(q, r) ==
  /\ Free(q)
  /\ row[r] # NoRow
  /\ \E again, wallet \in BOOLEAN :
       opening' = [opening EXCEPT ![q] = [rem |-> r, tx |-> NoTransfer, again |-> again,
                                          wallet |-> wallet]]
  /\ UNCHANGED <<vars, transferVars, opened, refused>>

\* The attempt throws: withFallback goes on to SEP-6, or throws as well.
AttemptFails(q) ==
  opening' = [opening EXCEPT ![q] =
                IF @.again THEN [@ EXCEPT !.tx = NoTransfer, !.again = FALSE] ELSE NoOpening]

\* Faulty variant: withFallback tries SEP-6 after SEP-24 went well.
OpenAtAnchorTwice(q, t) ==
  /\ Asking(q)
  /\ opened[t] = NoRemittance
  /\ opened' = [opened EXCEPT ![t] = opening[q].rem]
  /\ IF opening[q].again THEN AttemptFails(q) ELSE opening' = [opening EXCEPT ![q].tx = t]
  /\ UNCHANGED <<vars, transferVars, refused>>

\* The anchor opens transfer t and answers with its id.
OpenAtAnchor(q, t) ==
  /\ Asking(q)
  /\ opened[t] = NoRemittance
  /\ opened' = [opened EXCEPT ![t] = opening[q].rem]
  /\ opening' = [opening EXCEPT ![q].tx = t]
  /\ UNCHANGED <<vars, transferVars, refused>>

\* The anchor refuses, or the protocol is not on offer.
AnchorRefuses(q) ==
  /\ Asking(q)
  /\ AttemptFails(q)
  /\ UNCHANGED <<vars, transferVars, opened, refused>>

Fault == jobAborts < MaxJobAborts /\ jobAborts' = jobAborts + 1

\* The anchor opens transfer t, but the answer is lost or has no id in it.
AnswerLost(q, t) ==
  /\ Asking(q)
  /\ opened[t] = NoRemittance
  /\ opened' = [opened EXCEPT ![t] = opening[q].rem]
  /\ AttemptFails(q)
  /\ Fault
  /\ UNCHANGED <<vars, transfer, delivered, job, refused>>

\* The record of the transfer, with the id of the session's user.
InsertRecord(q) ==
  LET t == opening[q].tx IN
  /\ Inserting(q)
  /\ ~opening[q].wallet
  /\ transfer' = [transfer EXCEPT ![t] =
                    [rem |-> opening[q].rem, status |-> "pending", session |-> FALSE]]
  /\ job' = [job EXCEPT ![q] = [tx |-> t, pc |-> "started"]]
  /\ opening' = [opening EXCEPT ![q] = NoOpening]
  /\ UNCHANGED <<vars, opened, refused, delivered, jobAborts>>

\* The INSERT throws: AUTO falls back although the anchor has opened a transfer.
InsertFails(q) ==
  /\ Inserting(q)
  /\ AttemptFails(q)
  /\ Fault
  /\ UNCHANGED <<vars, opened, refused, transfer, delivered, job>>

\* A wallet's session is its public key, which is no user's id: the INSERT always
\* throws.
InsertRefused(q) ==
  /\ Inserting(q)
  /\ opening[q].wallet
  /\ AttemptFails(q)
  /\ refused' = refused \union {opening[q].tx}
  /\ UNCHANGED <<vars, transferVars, opened>>

\* Faulty variant: the route stops when there is nothing to put into processing.
OnAnchorTransferStartedOnly(q) ==
  /\ job[q].pc = "started"
  /\ IF row[Subject(q)].status = "FUNDED"
       THEN BeginProcessing(q, Subject(q)) /\ Goes(q, "processing")
       ELSE UNCHANGED vars /\ Stops(q)
  /\ UNCHANGED <<transfer, delivered, jobAborts, openingVars>>

\* onAnchorTransferStarted: only a FUNDED remittance goes into processing.
OnAnchorTransferStarted(q) ==
  /\ job[q].pc = "started"
  /\ IF row[Subject(q)].status = "FUNDED"
       THEN BeginProcessing(q, Subject(q)) /\ Goes(q, "processing")
       ELSE UNCHANGED vars /\ Goes(q, "session")
  /\ UNCHANGED <<transfer, delivered, jobAborts, openingVars>>

\* The anchor session is stored with the record.
StoreSession(q) ==
  /\ job[q].pc = "session"
  /\ transfer' = [transfer EXCEPT ![job[q].tx].session = TRUE]
  /\ Stops(q)
  /\ UNCHANGED <<vars, delivered, jobAborts, openingVars>>

-----------------------------------------------------------------------------
\* The anchor poll, one record of its SELECT

Poll(q, t) ==
  /\ Free(q)
  /\ transfer[t].status = "pending"
  /\ transfer[t].session
  /\ job' = [job EXCEPT ![q] = [tx |-> t, pc |-> "query"]]
  /\ UNCHANGED <<vars, transfer, delivered, jobAborts, openingVars>>

\* Faulty variant: a transfer the anchor still works on counts as completed.
QueryAnchorHopeful(q) ==
  /\ job[q].pc = "query"
  /\ Goes(q, "completed")
  /\ UNCHANGED <<vars, transfer, delivered, jobAborts, openingVars>>

\* transactionStatus, as the anchor answers.
QueryAnchor(q) ==
  /\ job[q].pc = "query"
  /\ Goes(q, IF job[q].tx \in delivered THEN "completed" ELSE "unfinished")
  /\ UNCHANGED <<vars, transfer, delivered, jobAborts, openingVars>>

\* Faulty variant: the poll stops once the record says completed.
RecordAnswerOnly(q) ==
  /\ job[q].pc \in {"completed", "unfinished"}
  /\ transfer' = [transfer EXCEPT ![job[q].tx].status =
                    IF job[q].pc = "completed" THEN "completed" ELSE "pending"]
  /\ Stops(q)
  /\ UNCHANGED <<vars, delivered, jobAborts, openingVars>>

\* Faulty variant: what the anchor says is stored as the status.
RecordAnswerRaw(q) ==
  /\ job[q].pc \in {"completed", "unfinished"}
  /\ transfer' = [transfer EXCEPT ![job[q].tx].status = job[q].pc]
  /\ IF job[q].pc = "completed" THEN Goes(q, "notify") ELSE Stops(q)
  /\ UNCHANGED <<vars, delivered, jobAborts, openingVars>>

\* The UPDATE, by id alone, comes before the settlement.
RecordAnswer(q) ==
  /\ job[q].pc \in {"completed", "unfinished"}
  /\ IF job[q].pc = "completed"
       THEN /\ transfer' = [transfer EXCEPT ![job[q].tx].status = "completed"]
            /\ Goes(q, "notify")
       ELSE /\ transfer' = [transfer EXCEPT ![job[q].tx].status = "pending"]
            /\ Stops(q)
  /\ UNCHANGED <<vars, delivered, jobAborts, openingVars>>

\* Faulty variant: the settlement is called without onAnchorStatus's check.
NotifyUnchecked(q) ==
  /\ job[q].pc = "notify"
  /\ req[q] = Idle
  /\ req' = [req EXCEPT ![q] = Started("settle", Subject(q), "read", "NONE")]
  /\ Stops(q)
  /\ UNCHANGED <<row, ledgerVars, clockVars, otherVars, transfer, delivered, jobAborts, openingVars>>

\* onAnchorStatus: the settlement starts on a FUNDED or PROCESSING row; the
\* poll logs it if it throws.
Notify(q) ==
  /\ job[q].pc = "notify"
  /\ IF row[Subject(q)].status \in {"PROCESSING", "FUNDED"}
       THEN OnAnchorStatus(q, Subject(q))
       ELSE UNCHANGED vars
  /\ Stops(q)
  /\ UNCHANGED <<transfer, delivered, jobAborts, openingVars>>

-----------------------------------------------------------------------------
\* The service, the anchor and failures

\* A step of the service.  The route whose remittance it put into processing
\* goes on after the row is written; if the service threw, so does the route.
ServiceStep(q) ==
  /\ Step(q)
  /\ IF job[q].pc # "processing" \/ req'[q] # Idle THEN UNCHANGED job
     ELSE IF At(q, "write") THEN Goes(q, "session")
     ELSE Stops(q)
  /\ UNCHANGED <<transfer, delivered, jobAborts, openingVars>>

\* A service handler dies, and the route it works for with it.
HandlerDies(q) ==
  /\ Abort(q)
  /\ Stops(q)
  /\ UNCHANGED <<transfer, delivered, jobAborts, openingVars>>

\* A route or a poll dies at an await of its own, or the anchor does not answer.
JobDies(q) ==
  /\ job[q] # NoJob \/ opening[q] # NoOpening
  /\ req[q] = Idle
  /\ Fault
  /\ Stops(q)
  /\ opening' = [opening EXCEPT ![q] = NoOpening]
  /\ UNCHANGED <<vars, opened, refused, transfer, delivered>>

\* The anchor completes a transfer it has opened, whether it was recorded or not.
Deliver(t) ==
  /\ opened[t] # NoRemittance
  /\ t \notin delivered
  /\ delivered' = delivered \union {t}
  /\ UNCHANGED <<vars, transfer, job, jobAborts, openingVars>>

\* The entry points of the service that users, apps and the sweep call.
ServiceStart(q, r) ==
  /\ job[q] = NoJob /\ opening[q] = NoOpening
  /\ \/ Create(q, r) \/ Fund(q, r) \/ Release(q, r) \/ Refund(q, r)
     \/ ExpirySweep(q, r) \/ Confirm(q, r) \/ Relay(q, r) \/ ApplyPaymentEvent(q, r)
  /\ UNCHANGED <<transferVars, openingVars>>

\* The next step of what runs in slot q.
Run(q) ==
  \/ ServiceStep(q)
  \/ (\E t \in Transfers : OpenAtAnchor(q, t)) \/ AnchorRefuses(q)
  \/ InsertRecord(q) \/ InsertRefused(q)
  \/ OnAnchorTransferStarted(q) \/ StoreSession(q)
  \/ QueryAnchor(q) \/ RecordAnswer(q) \/ Notify(q)

TransfersNext ==
  \/ \E q \in Requests :
       \/ Run(q) \/ HandlerDies(q) \/ JobDies(q) \/ InsertFails(q)
       \/ \E t \in Transfers : Poll(q, t) \/ AnswerLost(q, t)
       \/ \E r \in Remittances : ServiceStart(q, r) \/ StartTransfer(q, r)
  \/ \E t \in Transfers : Deliver(t)
  \/ \E r \in Remittances : Environment(r) /\ UNCHANGED <<transferVars, openingVars>>

TransfersSpec == TransfersInit /\ [][TransfersNext]_allVars

\* Fairness: what runs goes on, and the poll, scheduled every 30 seconds,
\* reaches each record it selects again and again.
FairTransfersSpec ==
  /\ TransfersSpec
  /\ \A q \in Requests : WF_allVars(Run(q))
  /\ \A t \in Transfers : SF_allVars(\E q \in Requests : Poll(q, t))

-----------------------------------------------------------------------------
\* Properties

OpeningTypeOK ==
  /\ opened \in [Transfers -> RemittanceOrNone]
  /\ opening \in [Requests -> Openings]
  /\ refused \subseteq Transfers

\* The records, routes and polls stay within their types; a job is about a
\* record that was inserted.
TransfersTypeOK ==
  /\ OpeningTypeOK
  /\ transfer \in [Transfers -> Records]
  /\ delivered \subseteq Transfers
  /\ job \in [Requests -> Jobs]
  /\ jobAborts \in 0..MaxJobAborts
  /\ \A q \in Requests : job[q] # NoJob => transfer[job[q].tx] # NoRecord

\* The transfers the anchor has opened of which the backend knows nothing, but for
\* those whose record the database refused.
Forgotten ==
  {t \in Transfers \ refused :
     /\ opened[t] # NoRemittance
     /\ transfer[t] = NoRecord
     /\ \A q \in Requests : opening[q].tx # t}

\* A transfer that the anchor opened is recorded, or about to be, and AUTO opens
\* no second one beside it: each fault costs at most one transfer, and without a
\* fault only those of wallets are lost, whose records the database never takes
\* (withFallback, interactive and programmatic, which insert after the anchor has
\* answered).
ForgottenOnlyByFaults == Cardinality(Forgotten) <= jobAborts

\* The transfers that were recorded but that no route is working on, and that are
\* without the session the poll needs although their remittance is still to be
\* processed.
Stranded ==
  {t \in Transfers :
     /\ transfer[t] # NoRecord /\ ~transfer[t].session
     /\ \A q \in Requests : job[q].tx # t
     /\ escrow[transfer[t].rem] \notin {"Processing", "SettlementAuthorized",
                                       "Released", "Refunded"}}

\* A route loses the session only to somebody who has moved the escrow on, another
\* route or a refund, or by dying: each death strands at most one transfer (the
\* route stores the session after onAnchorTransferStarted, which may throw).
SessionsLostToOthers == Cardinality(Stranded) <= aborts + jobAborts

\* The remittance has a transfer that the anchor completed.
Delivered(r) == \E t \in delivered : transfer[t].rem = r

\* RemittanceService.ts: authorizeAndRelease is "Called when the anchor
\* completes": the escrow of a remittance is never settled, let alone paid out,
\* before the anchor delivered one of its transfers, however polls, stale
\* answers and routes overlap (QueryAnchor to onAnchorStatus).
PaidOnlyWhenDelivered ==
  \A r \in Remittances :
    escrow[r] \in {"SettlementAuthorized", "Released"} => Delivered(r)

\* Invariant behind it: the escrow is never ahead of the anchor, because neither
\* is a poll that has its answer or a settlement that a poll started (anchorPoll
\* and the awaits of authorizeAndRelease).
DeliveredFirst ==
  /\ PaidOnlyWhenDelivered
  /\ \A q \in Requests :
       /\ job[q].pc \in {"completed", "notify"} => job[q].tx \in delivered
       /\ req[q].op = "settle" => Delivered(req[q].rem)

\* The routes and the poll only do to a remittance what the service allows: the
\* composed system implements RemittanceService, so that everything that is
\* proved of it holds here (the routes and jobs.ts go through onAnchor...).
ImplementsRemittanceService == Spec

\* As long as no handler, route or poll dies, a transfer with a session that the
\* anchor completes while its row is in PROCESSING leads to the settlement,
\* unless one of the clocks reaches the expiry first, or the sender's session has
\* become another user's: then authorizeAndRelease no longer finds its account and
\* throws, after the UPDATE that keeps the poll from trying again (repeated polls,
\* stale answers among them; the UPDATE that comes before onAnchorStatus).
DeliveryIsSettled ==
  [](aborts = 0 /\ jobAborts = 0) =>
    \A t \in Transfers, r \in Remittances :
      /\ transfer[t] = [rem |-> r, status |-> "pending", session |-> TRUE]
      /\ t \in delivered
      /\ row[r].status = "PROCESSING"
      ~> \/ escrow[r] \in {"SettlementAuthorized", "Released", "Refunded"}
         \/ expired[r] \/ chainExpired[r] \/ r \in split

\* jobs.ts: "Poll pending anchor transactions and settle completed ones": a
\* completed transfer does not leave its remittance funded and unexpired with
\* nobody at work on it.
CompletedIsSettled ==
  \A t \in Transfers :
    LET r == transfer[t].rem IN
    /\ transfer[t].status = "completed"
    /\ \A q \in Requests : req[q] = Idle /\ job[q] = NoJob
    => row[r].status \notin {"FUNDED", "PROCESSING"} \/ expired[r] \/ chainExpired[r]
=============================================================================
