----------------------- MODULE RemittanceServiceProofs -----------------------
(***************************************************************************)
(* Proofs of the remittance service's safety properties, for any number of *)
(* remittances, overlapping handlers and deaths of handlers.               *)
(***************************************************************************)
EXTENDS RemittanceRefinement, FiniteSetTheorems, TLAPS

-----------------------------------------------------------------------------
\* Facts about the two state machines

\* One step of an escrow.
EscrowMoves(e, f) ==
  \/ f = e
  \/ e = "None" /\ f = "Created"
  \/ e = "Created" /\ f = "Funded"
  \/ e = "Funded" /\ f \in {"Processing", "SettlementAuthorized", "Refunded"}
  \/ e = "Processing" /\ f \in {"SettlementAuthorized", "Refunded"}
  \/ e = "SettlementAuthorized" /\ f = "Released"

\* What an escrow backs it goes on backing: the states a status may stand for
\* are closed under the contract's transitions.
LEMMA BackedIsStable ==
  ASSUME NEW s \in Statuses \union {"NONE"}, NEW e \in EscrowStates, NEW f \in EscrowStates,
         EscrowMoves(e, f), e \in ReachedBy[s]
  PROVE  f \in ReachedBy[s]
  BY DEF ReachedBy, EscrowMoves, Statuses, EscrowStates, WasFunded

-----------------------------------------------------------------------------
\* What one step does to what a suspended handler relies on

\* Escrows move forward, rows are not deleted, and do not return to CREATED.
Forward ==
  \A r \in Remittances :
    /\ EscrowMoves(escrow[r], escrow'[r])
    /\ row[r] # NoRow => row'[r] # NoRow
    /\ row[r] # NoRow /\ row[r].status # "CREATED" => row'[r].status # "CREATED"

LEMMA SoundIsStable ==
  ASSUME TypeOK, TypeOK', Forward, NEW c \in RequestRecords, Sound(c)
  PROVE  Sound(c)'
<1>1. CASE c = Idle
  BY <1>1 DEF Sound
<1>2. CASE c # Idle
  <2> DEFINE r == c.rem
             s == IF c.op = "payment" THEN "FUNDED" ELSE c.to
  <2>1. /\ r \in Remittances /\ row[r] # NoRow /\ WellFormed(c)
        /\ c.link \in {r, NoRemittance}
        /\ c.link # NoRemittance => escrow[r] # "None"
        /\ c.op = "confirmFund" => "confirm" \in Handlers
        /\ c.op \in {"process", "settle"} => row[r].status # "CREATED"
        /\ c.pc \in {"check", "write"} => escrow[r] \in ReachedBy[s]
    BY <1>2 DEF Sound
  <2>2. escrow[r] \in EscrowStates /\ escrow'[r] \in EscrowStates
    BY <2>1 DEF TypeOK
  <2>3. EscrowMoves(escrow[r], escrow'[r])
    BY <2>1 DEF Forward
  <2>4. escrow[r] # "None" => escrow'[r] # "None"
    BY <2>3 DEF EscrowMoves
  <2>5. row'[r] # NoRow /\ (row[r].status # "CREATED" => row'[r].status # "CREATED")
    BY <2>1 DEF Forward
  <2>6. c.pc \in {"check", "write"} => s \in Statuses
    BY <2>1 DEF WellFormed, Statuses
  <2>7. c.pc \in {"check", "write"} => escrow'[r] \in ReachedBy[s]
    BY <2>1, <2>2, <2>3, <2>6, BackedIsStable
  <2> QED
    BY <2>1, <2>4, <2>5, <2>7 DEF Sound
<1> QED
  BY <1>1, <1>2

-----------------------------------------------------------------------------
\* A step of one handler that touches neither a row nor the ledger

LEMMA LocalStep ==
  ASSUME DecisionsJustified,
         UNCHANGED <<row, ledgerVars, clockVars, custodial, envelopes, split>>,
         aborts' \in 0..MaxAborts,
         NEW q \in Requests, NEW d \in RequestRecords,
         req' = [req EXCEPT ![q] = d],
         Sound(d),
         d.to = "EXPIRED" => \/ Expiring(d.rem)
                             \/ row[d.rem].status = "CREATED" /\ expired[d.rem],
         d.op = "settle" /\ d.pc = "call" => ~Expiring(d.rem)
  PROVE  DecisionsJustified'
<1>1. TypeOK'
  BY DEF DecisionsJustified, TypeOK, ledgerVars, clockVars
<1>2. ASSUME NEW p \in Requests PROVE Sound(req[p])'
  <2>1. req \in [Requests -> RequestRecords]
    BY DEF DecisionsJustified, TypeOK
  <2>2. req'[p] = IF p = q THEN d ELSE req[p]
    BY <2>1
  <2>3. Sound(req[p])
    BY DEF DecisionsJustified
  <2> QED
    BY <2>2, <2>3 DEF Sound, ledgerVars
<1>3. EscrowsInv' /\ LinkIsOwn' /\ StatusBackedByEscrow' /\ CorridorNeedsFundedRow'
  BY DEF DecisionsJustified, EscrowsInv, LinkIsOwn, StatusBackedByEscrow,
         CorridorNeedsFundedRow, ledgerVars
<1>4. PaymentPhaseNeedsFunds'
  BY DEF DecisionsJustified, PaymentPhaseNeedsFunds, ledgerVars
<1>5. ExpiringInv'
  <2> SUFFICES ASSUME NEW r \in Remittances, Expiring(r)'
               PROVE  /\ expired[r]
                      /\ escrow[r] \notin {"SettlementAuthorized", "Released"}
                      /\ ~Settling(r)'
    BY DEF ExpiringInv, ledgerVars, clockVars
  <2>1. req \in [Requests -> RequestRecords]
    BY DEF DecisionsJustified, TypeOK
  <2>2. \A p \in Requests : req'[p] = IF p = q THEN d ELSE req[p]
    BY <2>1
  <2>3. CASE Expiring(r)
    <3>1. expired[r] /\ escrow[r] \notin {"SettlementAuthorized", "Released"} /\ ~Settling(r)
      BY <2>3 DEF DecisionsJustified, ExpiringInv
    <3> QED
      BY <2>2, <2>3, <3>1 DEF Settling
  <2>4. CASE ~Expiring(r)
    <3>1. d.to = "EXPIRED" /\ d.rem = r
      BY <2>2, <2>4 DEF Expiring
    <3>2. row[r].status = "CREATED" /\ expired[r]
      BY <2>4, <3>1
    <3>3. escrow[r] \notin {"SettlementAuthorized", "Released"}
      BY <3>2 DEF DecisionsJustified, CorridorNeedsFundedRow
    <3>4. \A p \in Requests : req[p].op = "settle" => req[p].rem # r
      BY <3>2 DEF DecisionsJustified, Sound, Idle
    <3>5. d.op = "settle" => d.rem # r
      BY <3>2 DEF Sound, Idle
    <3> QED
      BY <2>2, <3>2, <3>3, <3>4, <3>5 DEF Settling
  <2> QED
    BY <2>3, <2>4
<1> QED
  BY <1>1, <1>2, <1>3, <1>4, <1>5 DEF DecisionsJustified

-----------------------------------------------------------------------------
\* The handlers' local steps

\* What a handler that has just read its row holds.
LEMMA StartedIsSound ==
  ASSUME DecisionsJustified, NEW r \in Remittances, row[r] # NoRow,
         NEW op \in Ops \ {"confirmFund"}, NEW pc \in Points,
         NEW to \in Statuses \union LifecyclePhases \union {"NONE"},
         WellFormed(Started(op, r, pc, to)),
         op \in {"process", "settle"} => row[r].status # "CREATED",
         pc \in {"check", "write"} =>
           escrow[r] \in ReachedBy[IF op = "payment" THEN "FUNDED" ELSE to]
  PROVE  Started(op, r, pc, to) \in RequestRecords /\ Sound(Started(op, r, pc, to))
<1>1. row[r].link \in {r, NoRemittance} /\ (row[r].link # NoRemittance => escrow[r] # "None")
  BY DEF DecisionsJustified, LinkIsOwn
<1>2. Started(op, r, pc, to) \in RequestRecords
  BY <1>1 DEF Started, RequestRecords, RemittanceOrNone
<1>3. Sound(Started(op, r, pc, to))
  BY <1>1 DEF Sound, Started
<1> QED
  BY <1>2, <1>3

\* A row that shows a status has been inserted.
LEMMA RowWithStatus ==
  ASSUME NEW r \in Remittances, row[r].status \in Statuses
  PROVE  row[r] # NoRow
  BY DEF NoRow, Statuses

\* The handlers of the custodial flow start on a row they have read.
LEMMA CustodialStart ==
  ASSUME DecisionsJustified, NEW q \in Requests, NEW r \in Remittances,
         \/ Fund(q, r) \/ BeginProcessing(q, r) \/ OnAnchorStatus(q, r)
         \/ Release(q, r) \/ Refund(q, r)
  PROVE  DecisionsJustified'
<1>1. PICK op \in {"fund", "process", "settle", "release", "cancel", "reclaim"},
           pc \in {"call", "read"} :
        /\ req' = [req EXCEPT ![q] = Started(op, r, pc, "NONE")]
        /\ UNCHANGED <<row, ledgerVars, clockVars, otherVars>>
        /\ row[r].status \in Statuses
        /\ op \in {"process", "settle"} => row[r].status # "CREATED"
        /\ pc = "read" <=> op = "settle"
  BY DEF Fund, BeginProcessing, OnAnchorStatus, Release, Refund, Begin, Statuses
<1> DEFINE d == Started(op, r, pc, "NONE")
<1>2. WellFormed(d)
  BY <1>1 DEF WellFormed, Started, ContractOps
<1>3. d \in RequestRecords /\ Sound(d)
  BY <1>1, <1>2, RowWithStatus, StartedIsSound DEF Ops, Points
<1>4. d.to = "NONE" /\ ~(d.op = "settle" /\ d.pc = "call")
  BY <1>1 DEF Started
<1>5. aborts' \in 0..MaxAborts /\ UNCHANGED <<custodial, envelopes, split>>
  BY <1>1 DEF DecisionsJustified, TypeOK, otherVars
<1> QED
  BY <1>1, <1>3, <1>4, <1>5, LocalStep

\* The sweep starts on a row past its expiry.
LEMMA SweepStart ==
  ASSUME DecisionsJustified, NEW q \in Requests, NEW r \in Remittances, ExpirySweep(q, r)
  PROVE  DecisionsJustified'
<1>1. PICK pc \in {"call", "write"}, to \in {"NONE", "EXPIRED"} :
        /\ req' = [req EXCEPT ![q] = Started("sweep", r, pc, to)]
        /\ UNCHANGED <<row, ledgerVars, clockVars, otherVars>>
        /\ row[r].status \in Statuses
        /\ expired[r]
        /\ pc = "write" <=> to = "EXPIRED"
        /\ to = "EXPIRED" => row[r].status = "CREATED"
  BY DEF ExpirySweep, Begin, Statuses
<1> DEFINE d == Started("sweep", r, pc, to)
<1>2. WellFormed(d)
  BY <1>1 DEF WellFormed, Started, ContractOps, Statuses
<1>3. pc = "write" => escrow[r] \in ReachedBy[to]
  BY <1>1 DEF DecisionsJustified, TypeOK, ReachedBy
<1>4. d \in RequestRecords /\ Sound(d)
  BY <1>1, <1>2, <1>3, RowWithStatus, StartedIsSound DEF Ops, Points, Statuses
<1>5. d.to = "EXPIRED" => row[d.rem].status = "CREATED" /\ expired[d.rem]
  BY <1>1 DEF Started
<1>6. aborts' \in 0..MaxAborts /\ UNCHANGED <<custodial, envelopes, split>> /\ d.op # "settle"
  BY <1>1 DEF DecisionsJustified, TypeOK, otherVars, Started
<1> QED
  BY <1>1, <1>4, <1>5, <1>6, LocalStep

\* A payment event is applied to the phase it found.
LEMMA PaymentStart ==
  ASSUME DecisionsJustified, NEW q \in Requests, NEW r \in Remittances,
         ApplyPaymentEvent(q, r)
  PROVE  DecisionsJustified'
<1>1. PICK to \in {"STELLAR_PAYMENT_SUBMITTED", "STELLAR_PAYMENT_CONFIRMED"} :
        /\ req' = [req EXCEPT ![q] = Started("payment", r, "write", to)]
        /\ UNCHANGED <<row, ledgerVars, clockVars, otherVars>>
        /\ row[r].lifecycle \in {"TRANSFER_INITIATED", "STELLAR_PAYMENT_SUBMITTED"}
  BY DEF ApplyPaymentEvent, PaymentPhase, Begin
<1> DEFINE d == Started("payment", r, "write", to)
<1>2. row[r] # NoRow /\ escrow[r] \in ReachedBy["FUNDED"]
  BY <1>1 DEF DecisionsJustified, PaymentPhaseNeedsFunds, NoRow
<1>3. WellFormed(d)
  BY DEF WellFormed, Started
<1>4. d \in RequestRecords /\ Sound(d)
  BY <1>2, <1>3, StartedIsSound DEF Ops, Points, LifecyclePhases
<1>5. aborts' \in 0..MaxAborts /\ UNCHANGED <<custodial, envelopes, split>>
      /\ d.op # "settle" /\ d.to # "EXPIRED"
  BY <1>1 DEF DecisionsJustified, TypeOK, otherVars, Started
<1> QED
  BY <1>1, <1>4, <1>5, LocalStep

\* Confirm and relay start on a row they have loaded.
LEMMA ConfirmStart ==
  ASSUME DecisionsJustified, NEW q \in Requests, NEW r \in Remittances,
         Confirm(q, r) \/ Relay(q, r)
  PROVE  DecisionsJustified'
<1>1. PICK d \in {Loaded(Started(op, r, "wait", "NONE")) : op \in {"confirmCreate", "confirmFund"}}
               \union {Started(op, r, "submit", "NONE") : op \in RelayOps} :
        /\ req' = [req EXCEPT ![q] = d]
        /\ UNCHANGED <<row, ledgerVars, clockVars, otherVars>>
        /\ row[r] # NoRow
        /\ d.op = "confirmFund" => "confirm" \in Handlers
  <2>1. CASE Confirm(q, r)
    BY <2>1 DEF Confirm, Begin
  <2>2. CASE Relay(q, r)
    <3>1. PICK op \in RelayOps : req' = [req EXCEPT ![q] = Started(op, r, "submit", "NONE")]
      BY <2>2 DEF Relay, Begin, RelayOps
    <3>2. Started(op, r, "submit", "NONE").op # "confirmFund"
      BY DEF Started, RelayOps
    <3> QED
      BY <2>2, <3>1, <3>2 DEF Relay
  <2> QED
    BY <2>1, <2>2
<1>2. /\ row[r].link \in {r, NoRemittance} /\ (row[r].link # NoRemittance => escrow[r] # "None")
      /\ row[r].status \in Statuses
  BY <1>1 DEF DecisionsJustified, LinkIsOwn, TypeOK, Rows
<1> DEFINE Fresh == /\ d.rem = r /\ d.to = "NONE" /\ d.link = row[r].link
                    /\ WellFormed(d) /\ d \in RequestRecords
                    /\ d.pc \in {"wait", "submit"} /\ d.op \notin {"process", "settle"}
<1>3. Fresh
  <2>1. ASSUME NEW op \in {"confirmCreate", "confirmFund"},
               d = Loaded(Started(op, r, "wait", "NONE"))
        PROVE  Fresh
    <3>1. d = [op |-> op, rem |-> r, pc |-> "wait", to |-> "NONE",
               seen |-> row[r].status, link |-> row[r].link]
      BY <2>1 DEF Loaded, Started
    <3> QED
      BY <3>1, <1>2 DEF WellFormed, RequestRecords, Ops, Points, RemittanceOrNone
  <2>2. ASSUME NEW op \in RelayOps, d = Started(op, r, "submit", "NONE")
        PROVE  Fresh
    <3>1. d = [op |-> op, rem |-> r, pc |-> "submit", to |-> "NONE",
               seen |-> "NONE", link |-> row[r].link]
      BY <2>2 DEF Started
    <3> QED
      BY <3>1, <1>2 DEF WellFormed, RelayOps, RequestRecords, Ops, Points, RemittanceOrNone
  <2> QED
    BY <2>1, <2>2
<1>4. Sound(d)
  BY <1>1, <1>2, <1>3 DEF Sound
<1>5. aborts' \in 0..MaxAborts /\ UNCHANGED <<custodial, envelopes, split>>
  BY <1>1 DEF DecisionsJustified, TypeOK, otherVars
<1> QED
  BY <1>1, <1>3, <1>4, <1>5, LocalStep

\* What is known of a handler at one of its awaits.
LEMMA Suspended ==
  ASSUME DecisionsJustified, NEW q \in Requests, req[q] # Idle
  PROVE  /\ req \in [Requests -> RequestRecords]
         /\ req[q] \in RequestRecords
         /\ req[q].rem \in Remittances
         /\ row[req[q].rem] \in Rows
         /\ row[req[q].rem] # NoRow
         /\ row[req[q].rem].status \in Statuses
         /\ escrow[req[q].rem] \in EscrowStates
         /\ Sound(req[q])
         /\ WellFormed(req[q])
         /\ req[q].link \in {req[q].rem, NoRemittance}
         /\ req[q].link # NoRemittance => escrow[req[q].rem] # "None"
         /\ req[q].to = "EXPIRED" => Expiring(req[q].rem)
         /\ aborts \in 0..MaxAborts
<1>1. Sound(req[q]) /\ req \in [Requests -> RequestRecords]
  BY DEF DecisionsJustified, TypeOK
<1>2. /\ req[q].rem \in Remittances /\ row[req[q].rem] # NoRow /\ WellFormed(req[q])
      /\ req[q].link \in {req[q].rem, NoRemittance}
      /\ req[q].link # NoRemittance => escrow[req[q].rem] # "None"
  BY <1>1 DEF Sound
<1>3. row[req[q].rem] \in Rows /\ row[req[q].rem].status \in Statuses
      /\ escrow[req[q].rem] \in EscrowStates
  BY <1>2 DEF DecisionsJustified, TypeOK, Rows
<1>4. req[q].to = "EXPIRED" => Expiring(req[q].rem)
  BY DEF Expiring
<1>5. aborts \in 0..MaxAborts
  BY DEF DecisionsJustified, TypeOK
<1> QED
  BY <1>1, <1>2, <1>3, <1>4, <1>5

\* A handler that ends, or goes on without a status to write, is sound.
LEMMA Ending ==
  ASSUME DecisionsJustified, NEW q \in Requests, Finish(q),
         UNCHANGED <<row, ledgerVars, clockVars, custodial, envelopes, split>>,
         aborts' \in 0..MaxAborts
  PROVE  DecisionsJustified'
<1>1. Idle \in RequestRecords
  BY DEF Idle, RequestRecords, Ops, Points, RemittanceOrNone
<1>2. Sound(Idle) /\ Idle.to # "EXPIRED" /\ Idle.op # "settle"
  BY DEF Sound, Idle
<1> QED
  BY <1>1, <1>2, LocalStep DEF Finish

\* A handler that goes on to another await of its operation.
LEMMA GoingOn ==
  ASSUME DecisionsJustified, NEW q \in Requests, req[q] # Idle,
         NEW pc \in Points, NEW to \in Statuses \union {"NONE"},
         Continue(q, pc, to),
         UNCHANGED <<row, ledgerVars, clockVars, otherVars>>,
         WellFormed([req[q] EXCEPT !.pc = pc, !.to = to]),
         pc \in {"check", "write"} =>
           escrow[req[q].rem] \in ReachedBy[IF req[q].op = "payment" THEN "FUNDED" ELSE to],
         to = "EXPIRED" => req[q].to = "EXPIRED",
         pc # "call"
  PROVE  DecisionsJustified'
<1> DEFINE d == [req[q] EXCEPT !.pc = pc, !.to = to]
<1>1. req[q] \in RequestRecords /\ Sound(req[q])
  BY Suspended
<1>2. d \in RequestRecords
  BY <1>1 DEF RequestRecords
<1>3. /\ d.op = req[q].op /\ d.rem = req[q].rem /\ d.link = req[q].link
      /\ d.pc = pc /\ d.to = to
  BY <1>1 DEF RequestRecords
<1>4. Sound(d)
  BY <1>1, <1>3 DEF Sound
<1>5. d.to = "EXPIRED" => Expiring(d.rem)
  BY <1>3, Suspended
<1>6. aborts' \in 0..MaxAborts /\ UNCHANGED <<custodial, envelopes, split>>
  BY Suspended DEF otherVars
<1>7. req' = [req EXCEPT ![q] = d]
  BY DEF Continue
<1> QED
  BY <1>2, <1>3, <1>4, <1>5, <1>6, <1>7, LocalStep

\* setState's SELECT.
LEMMA SetStateCheckStep ==
  ASSUME DecisionsJustified, NEW q \in Requests, SetStateCheck(q)
  PROVE  DecisionsJustified'
<1> DEFINE c == req[q]
<1>1. c # Idle
  BY DEF SetStateCheck, At, Idle
<1>2. c.op # "payment" /\ c.to \in Statuses \ {"CREATED"}
  BY <1>1, Suspended DEF SetStateCheck, At, WellFormed
<1>3. escrow[c.rem] \in ReachedBy[c.to]
  BY <1>1, <1>2, Suspended DEF SetStateCheck, At, Sound
<1>4. CASE Continue(q, "write", c.to)
  <2>1. c \in RequestRecords
    BY <1>1, Suspended
  <2>2. WellFormed([c EXCEPT !.pc = "write", !.to = c.to])
    BY <1>2, <2>1 DEF WellFormed, RequestRecords
  <2> QED
    BY <1>1, <1>2, <1>3, <1>4, <2>2, GoingOn DEF SetStateCheck, Points
<1>5. CASE Finish(q)
  BY <1>1, <1>5, Ending, Suspended DEF SetStateCheck, otherVars
<1> QED
  BY <1>4, <1>5 DEF SetStateCheck

\* authorizeAndRelease's own read of the row.
LEMMA AuthorizeAndReleaseStep ==
  ASSUME DecisionsJustified, NEW q \in Requests, AuthorizeAndRelease(q)
  PROVE  DecisionsJustified'
<1> DEFINE r == req[q].rem
<1>1. req[q] # Idle
  BY DEF AuthorizeAndRelease, At, Idle
<1>2. req[q].op = "settle" /\ req[q].pc = "read"
  BY <1>1, Suspended DEF AuthorizeAndRelease, At, WellFormed
<1>3. aborts' \in 0..MaxAborts /\ UNCHANGED <<custodial, envelopes, split>>
  BY <1>1, Suspended DEF AuthorizeAndRelease, otherVars
<1>4. CASE Finish(q)
  BY <1>3, <1>4, Ending DEF AuthorizeAndRelease
<1>5. ASSUME NEW pc \in {"query", "call"},
             req' = [req EXCEPT ![q] = [req[q] EXCEPT !.link = row[r].link, !.pc = pc]],
             pc = "call" => Settleable(r)
      PROVE  DecisionsJustified'
  <2> DEFINE d == [req[q] EXCEPT !.link = row[r].link, !.pc = pc]
  <2>1. row[r].link \in {r, NoRemittance} /\ (row[r].link # NoRemittance => escrow[r] # "None")
    BY <1>1, Suspended DEF DecisionsJustified, LinkIsOwn
  <2>2. /\ d.op = "settle" /\ d.pc = pc /\ d.rem = r
        /\ d.link = row[r].link /\ d.to = req[q].to /\ d \in RequestRecords
    BY <1>1, <1>2, <2>1, Suspended DEF RequestRecords, RemittanceOrNone, Points
  <2>3. r \in Remittances /\ row[r] # NoRow /\ row[r].status # "CREATED"
    BY <1>1, <1>2, Suspended DEF Sound
  <2>4. WellFormed(d)
    BY <2>2 DEF WellFormed, ContractOps
  <2>5. Sound(d)
    BY <2>1, <2>2, <2>3, <2>4 DEF Sound
  <2>6. d.to = "EXPIRED" => Expiring(d.rem)
    BY <1>1, <2>2, Suspended
  <2>7. pc = "call" => ~Expiring(r)
    BY <1>5, <2>3 DEF Settleable, DecisionsJustified, ExpiringInv
  <2> QED
    BY <1>3, <1>5, <2>2, <2>5, <2>6, <2>7, LocalStep DEF AuthorizeAndRelease
<1>6. [[req[q] EXCEPT !.link = row[r].link] EXCEPT !.pc = "query"]
        = [req[q] EXCEPT !.link = row[r].link, !.pc = "query"]
  OBVIOUS
<1>7. [[req[q] EXCEPT !.link = row[r].link] EXCEPT !.pc = "call"]
        = [req[q] EXCEPT !.link = row[r].link, !.pc = "call"]
  OBVIOUS
<1> QED
  BY <1>4, <1>5, <1>6, <1>7 DEF AuthorizeAndRelease, Finish

\* The re-entry guard: RELEASED is only adopted from the contract.
LEMMA ReentryQueryStep ==
  ASSUME DecisionsJustified, NEW q \in Requests, ReentryQuery(q)
  PROVE  DecisionsJustified'
<1> DEFINE c == req[q]
<1>1. c # Idle
  BY DEF ReentryQuery, At, Idle
<1>2. c.op = "settle" /\ c \in RequestRecords
  BY <1>1, Suspended DEF ReentryQuery, At, WellFormed
<1>3. CASE ChainStatus(c) = "Released"
  <2>1. escrow[c.rem] = "Released"
    BY <1>1, <1>3, Suspended, ConstantsAssumption DEF ChainStatus, StatusOf
  <2>2. WellFormed([c EXCEPT !.pc = "check", !.to = "RELEASED"])
    BY <1>2 DEF WellFormed, RequestRecords, Statuses
  <2> QED
    BY <1>1, <1>2, <1>3, <2>1, <2>2, GoingOn
    DEF ReentryQuery, Points, Statuses, ReachedBy
<1>4. CASE ChainStatus(c) # "Released"
  BY <1>1, <1>4, Ending, Suspended DEF ReentryQuery, otherVars
<1> QED
  BY <1>3, <1>4

\* The second load of the row within relay.
LEMMA RelayReloadStep ==
  ASSUME DecisionsJustified, NEW q \in Requests, RelayReload(q)
  PROVE  DecisionsJustified'
<1> DEFINE c == req[q]
           d == [Loaded(c) EXCEPT !.pc = "wait"]
<1>1. c # Idle
  BY DEF RelayReload, At, Idle
<1>2. c.op \in RelayOps /\ c \in RequestRecords
  BY <1>1, Suspended DEF RelayReload, At, WellFormed
<1>3. row[c.rem].link \in {c.rem, NoRemittance}
      /\ (row[c.rem].link # NoRemittance => escrow[c.rem] # "None")
  BY <1>1, Suspended DEF DecisionsJustified, LinkIsOwn
<1>4. /\ d.op = c.op /\ d.rem = c.rem /\ d.pc = "wait" /\ d.to = c.to
      /\ d.link \in {c.rem, NoRemittance}
      /\ d.link # NoRemittance => escrow[c.rem] # "None"
      /\ d \in RequestRecords
  <2> DEFINE e == Loaded(c)
             link == IF c.op \in {"confirmCreate", "relayCreate"} THEN row[c.rem].link ELSE c.link
  <2>1. /\ row[c.rem].status \in Statuses
        /\ link \in {c.rem, NoRemittance} /\ link \in RemittanceOrNone
        /\ link # NoRemittance => escrow[c.rem] # "None"
    BY <1>1, <1>3, Suspended DEF RemittanceOrNone
  <2>2. e = [c EXCEPT !.seen = row[c.rem].status, !.link = link]
    BY DEF Loaded
  <2> HIDE DEF e, link
  <2>3. /\ e \in RequestRecords /\ e.op = c.op /\ e.rem = c.rem /\ e.to = c.to
        /\ e.link = link
    BY <1>2, <2>1, <2>2 DEF RequestRecords
  <2>4. d = [e EXCEPT !.pc = "wait"]
    BY DEF e
  <2>5. /\ d \in RequestRecords /\ d.op = e.op /\ d.rem = e.rem /\ d.to = e.to
        /\ d.link = e.link /\ d.pc = "wait"
    BY <2>3, <2>4 DEF RequestRecords, Points
  <2> QED
    BY <2>1, <2>3, <2>5
<1>5. WellFormed(d)
  BY <1>2, <1>4 DEF WellFormed
<1>6. Sound(d)
  BY <1>1, <1>2, <1>3, <1>4, <1>5, Suspended DEF Sound, RelayOps
<1>7. d.to = "EXPIRED" => Expiring(d.rem)
  BY <1>1, <1>4, Suspended
<1>8. aborts' \in 0..MaxAborts /\ UNCHANGED <<custodial, envelopes, split>>
  BY <1>1, Suspended DEF RelayReload, otherVars
<1> QED
  <2>1. CASE Owned(c.rem)
    BY <2>1, <1>4, <1>6, <1>7, <1>8, LocalStep DEF RelayReload
  <2>2. CASE ~Owned(c.rem)
    BY <2>2, <1>8, Ending DEF RelayReload, Finish
  <2> QED
    BY <2>1, <2>2

\* confirm's last step before setState: what it is about to write is backed.
LEMMA AdvanceStep ==
  ASSUME DecisionsJustified, NEW q \in Requests, req[q] # Idle, Advance(q),
         UNCHANGED <<row, ledgerVars, clockVars, otherVars>>,
         req[q].op # "payment",
         ConfirmTarget(req[q]) # "NONE" =>
           escrow[req[q].rem] \in ReachedBy[ConfirmTarget(req[q])]
  PROVE  DecisionsJustified'
<1> DEFINE c == req[q]
           to == ConfirmTarget(c)
<1>1. to \in {"NONE", "FUNDED", "REFUNDED"}
  BY DEF ConfirmTarget
<1>2. CASE to = "NONE"
  BY <1>2, Ending, Suspended DEF Advance, otherVars
<1>3. CASE to # "NONE"
  <2>1. c \in RequestRecords
    BY Suspended
  <2>2. WellFormed([c EXCEPT !.pc = "check", !.to = to])
    BY <1>1, <1>3, <2>1 DEF WellFormed, RequestRecords, Statuses
  <2>3. Continue(q, "check", to)
    BY <1>3 DEF Advance
  <2> QED
    BY <1>1, <1>3, <2>2, <2>3, GoingOn DEF Points, Statuses
<1> QED
  BY <1>2, <1>3

\* confirm's wait for the transaction.
LEMMA WaitForTransactionStep ==
  ASSUME DecisionsJustified, NEW q \in Requests, WaitForTransaction(q)
  PROVE  DecisionsJustified'
<1> DEFINE c == req[q]
<1>1. c # Idle
  BY DEF WaitForTransaction, At, Idle
<1>2. c.op \in RelayOps \union {"confirmCreate", "confirmFund"} /\ c \in RequestRecords
  BY <1>1, Suspended DEF WaitForTransaction, At, WellFormed
<1>3. CASE Finish(q)
  BY <1>1, <1>3, Ending, Suspended DEF WaitForTransaction, otherVars
<1>4. CASE c.op \in {"relayFund", "relayRefund"} /\ Continue(q, "verify", "NONE")
  <2>1. WellFormed([c EXCEPT !.pc = "verify", !.to = "NONE"])
    BY <1>2, <1>4 DEF WellFormed, RequestRecords
  <2> QED
    BY <1>1, <1>4, <2>1, GoingOn DEF WaitForTransaction, Points
<1>5. CASE c.op \in {"confirmCreate", "relayCreate"} /\ Continue(q, "match", "NONE")
  <2>1. WellFormed([c EXCEPT !.pc = "match", !.to = "NONE"])
    BY <1>2, <1>5 DEF WellFormed, RequestRecords
  <2> QED
    BY <1>1, <1>5, <2>1, GoingOn DEF WaitForTransaction, Points
<1>6. CASE /\ c.op = "confirmFund"
           /\ Landed(c.op, c.rem) \/ ~TrustedHashes
           /\ Advance(q)
  <2>1. escrow[c.rem] \in EscrowStates /\ "confirm" \in Handlers
    BY <1>1, <1>6, Suspended DEF Sound
  <2>2. escrow[c.rem] \in ReachedBy["FUNDED"]
    BY <1>6, <2>1 DEF Landed, ReachedBy, ConfirmIsSafe, WasFunded
  <2>3. ConfirmTarget(c) \in {"NONE", "FUNDED"}
    BY <1>6 DEF ConfirmTarget
  <2> QED
    BY <1>1, <1>6, <2>2, <2>3, AdvanceStep DEF WaitForTransaction
<1> QED
  BY <1>2, <1>3, <1>4, <1>5, <1>6 DEF WaitForTransaction, RelayOps

\* relay's verification of the escrow.
LEMMA VerifyRelayStep ==
  ASSUME DecisionsJustified, NEW q \in Requests, VerifyRelay(q)
  PROVE  DecisionsJustified'
<1> DEFINE c == req[q]
<1>1. c # Idle
  BY DEF VerifyRelay, At, Idle
<1>2. c.op \in {"relayFund", "relayRefund"}
  BY <1>1, Suspended DEF VerifyRelay, At, WellFormed
<1>3. CASE Finish(q)
  BY <1>1, <1>3, Ending, Suspended DEF VerifyRelay, otherVars
<1>4. CASE Advance(q) /\ ChainStatus(c) = IF c.op = "relayFund" THEN "Funded" ELSE "Refunded"
  <2>1. escrow[c.rem] = IF c.op = "relayFund" THEN "Funded" ELSE "Refunded"
    BY <1>1, <1>2, <1>4, Suspended, ConstantsAssumption DEF ChainStatus, StatusOf
  <2>2. escrow[c.rem] \in ReachedBy[IF c.op = "relayFund" THEN "FUNDED" ELSE "REFUNDED"]
    BY <2>1 DEF ReachedBy, WasFunded, EscrowStates
  <2>3. ConfirmTarget(c) \in {"NONE", IF c.op = "relayFund" THEN "FUNDED" ELSE "REFUNDED"}
    BY <1>2 DEF ConfirmTarget
  <2> QED
    BY <1>1, <1>2, <1>4, <2>2, <2>3, AdvanceStep DEF VerifyRelay
<1> QED
  BY <1>3, <1>4 DEF VerifyRelay

\* The comparison of the newest record with the commitment.
LEMMA ReconcileCreateStep ==
  ASSUME DecisionsJustified, NEW q \in Requests, ReconcileCreate(q)
  PROVE  DecisionsJustified'
<1> DEFINE c == req[q]
           d == [c EXCEPT !.pc = "link", !.link = newest]
<1>1. c # Idle
  BY DEF ReconcileCreate, At, Idle
<1>2. c.op \in {"confirmCreate", "relayCreate"} /\ c \in RequestRecords
  BY <1>1, Suspended DEF ReconcileCreate, At, WellFormed
<1>3. aborts' \in 0..MaxAborts /\ UNCHANGED <<custodial, envelopes, split>>
  BY <1>1, Suspended DEF ReconcileCreate, otherVars
<1>4. CASE newest # NoRemittance /\ Owned(c.rem) /\ IsOurs(newest, c.rem)
  <2>1. newest = c.rem /\ escrow[c.rem] # "None"
    BY <1>4 DEF IsOurs, DecisionsJustified, EscrowsInv
  <2>2. /\ d.op = c.op /\ d.rem = c.rem /\ d.pc = "link" /\ d.to = c.to
        /\ d.link = c.rem /\ d \in RequestRecords
    BY <1>1, <1>2, <2>1, Suspended DEF RequestRecords, RemittanceOrNone, Points
  <2>3. WellFormed(d)
    BY <2>2 DEF WellFormed
  <2>4. Sound(d)
    BY <1>1, <1>2, <2>1, <2>2, <2>3, Suspended DEF Sound
  <2>5. d.to = "EXPIRED" => Expiring(d.rem)
    BY <1>1, <2>2, Suspended
  <2> QED
    BY <1>3, <1>4, <2>2, <2>4, <2>5, LocalStep DEF ReconcileCreate
<1>5. CASE ~(newest # NoRemittance /\ Owned(c.rem) /\ IsOurs(newest, c.rem))
  BY <1>3, <1>5, Ending DEF ReconcileCreate, Finish
<1> QED
  BY <1>4, <1>5

\* A rejected call and a handler that dies leave nothing behind.
LEMMA HandlerEnds ==
  ASSUME DecisionsJustified, NEW q \in Requests, CallRejected(q) \/ Abort(q)
  PROVE  DecisionsJustified'
<1>1. req[q] # Idle
  BY DEF CallRejected, Abort, At, Idle
<1>2. aborts' \in 0..MaxAborts
  BY <1>1, Suspended, ConstantsAssumption DEF CallRejected, Abort, otherVars
<1> QED
  BY <1>2, Ending DEF CallRejected, Abort, otherVars

-----------------------------------------------------------------------------
\* Steps that write a row

\* A handler that a step leaves alone stays sound if the step goes forward.
LEMMA OthersStaySound ==
  ASSUME DecisionsJustified, TypeOK', Forward, NEW p \in Requests, req'[p] = req[p]
  PROVE  Sound(req[p])'
<1>1. req[p] \in RequestRecords /\ Sound(req[p]) /\ TypeOK
  BY DEF DecisionsJustified, TypeOK
<1>2. \A c \in RequestRecords : Sound(c) => Sound(c)'
  BY <1>1, SoundIsStable
<1> QED
  BY <1>1, <1>2 DEF Sound

\* The handler whose step it is stays sound, and brings about no expiry and no
\* settlement; the others are left alone.
HandlersMove ==
  /\ req' \in [Requests -> RequestRecords]
  /\ \A p \in Requests :
       \/ req'[p] = req[p]
       \/ /\ Sound(req[p])'
          /\ req'[p].to # "EXPIRED"
          /\ req'[p].op = "settle" => req'[p].pc # "call"

LEMMA RowWrite ==
  ASSUME DecisionsJustified, HandlersMove,
         UNCHANGED <<ledgerVars, clockVars, custodial, split, aborts>>,
         envelopes' \in [Remittances -> SUBSET {"relayCreate", "relayFund", "relayRefund"}],
         NEW r \in Remittances, NEW x \in Rows \ {NoRow},
         row' = [row EXCEPT ![r] = x],
         x.status = "CREATED" => row[r] = NoRow \/ row[r].status = "CREATED",
         x.status = "EXPIRED" => Expiring(r),
         x.link \in {r, NoRemittance},
         x.link # NoRemittance => escrow[r] # "None",
         escrow[r] \in ReachedBy[x.status],
         x.lifecycle \in {"TRANSFER_INITIATED", "STELLAR_PAYMENT_SUBMITTED",
                          "STELLAR_PAYMENT_CONFIRMED"} => escrow[r] \in ReachedBy["FUNDED"]
  PROVE  DecisionsJustified'
<1>1. TypeOK'
  BY DEF DecisionsJustified, TypeOK, ledgerVars, clockVars, HandlersMove
<1>2. row \in [Remittances -> Rows]
  BY DEF DecisionsJustified, TypeOK
<1>3. \A s \in Remittances : row'[s] = IF s = r THEN x ELSE row[s]
  BY <1>2
<1>4. x.status \in Statuses
  BY DEF Rows
<1>5. Forward
  BY <1>3 DEF Forward, EscrowMoves, ledgerVars
<1>6. ASSUME NEW p \in Requests PROVE Sound(req[p])'
  BY <1>1, <1>5, OthersStaySound DEF HandlersMove
<1>7. EscrowsInv' /\ LinkIsOwn' /\ StatusBackedByEscrow'
  BY <1>3 DEF DecisionsJustified, EscrowsInv, LinkIsOwn, StatusBackedByEscrow, ledgerVars
<1>8. PaymentPhaseNeedsFunds'
  BY <1>3 DEF DecisionsJustified, PaymentPhaseNeedsFunds, ledgerVars
<1>9. CorridorNeedsFundedRow'
  <2>1. row[r] = NoRow => escrow[r] = "None"
    BY DEF DecisionsJustified, EscrowsInv
  <2> QED
    BY <1>3, <1>4, <2>1 DEF DecisionsJustified, CorridorNeedsFundedRow, Statuses, ledgerVars
<1>10. ExpiringInv'
  <2>1. ASSUME NEW s \in Remittances, Expiring(s)' PROVE Expiring(s)
    BY <1>3, <2>1 DEF Expiring, HandlersMove
  <2>2. ASSUME NEW s \in Remittances, Settling(s)' PROVE Settling(s)
    BY <2>2 DEF Settling, HandlersMove
  <2> QED
    BY <2>1, <2>2 DEF DecisionsJustified, ExpiringInv, ledgerVars, clockVars
<1> QED
  BY <1>1, <1>6, <1>7, <1>8, <1>9, <1>10 DEF DecisionsJustified

\* One handler moves on to d.
LEMMA OneHandlerMoves ==
  ASSUME DecisionsJustified, NEW q \in Requests, NEW d \in RequestRecords,
         req' = [req EXCEPT ![q] = d], Sound(req[q])', d.to # "EXPIRED",
         d.op = "settle" => d.pc # "call"
  PROVE  HandlersMove
  BY DEF HandlersMove, DecisionsJustified, TypeOK

LEMMA OneHandlerEnds ==
  ASSUME DecisionsJustified, NEW q \in Requests, Finish(q)
  PROVE  HandlersMove
<1>1. Idle \in RequestRecords /\ Idle.to # "EXPIRED" /\ Idle.op # "settle"
  BY DEF Idle, RequestRecords, Ops, Points, RemittanceOrNone
<1>2. req'[q] = Idle
  BY DEF Finish, DecisionsJustified, TypeOK
<1>3. Sound(req[q])'
  BY <1>2 DEF Sound
<1> QED
  BY <1>1, <1>3, OneHandlerMoves DEF Finish

\* A row keeps what it had, and only this of it changes.
LEMMA RowAtRest ==
  ASSUME DecisionsJustified, NEW r \in Remittances, row[r] # NoRow
  PROVE  /\ row[r] \in [status : Statuses, lifecycle : LifecyclePhases, link : RemittanceOrNone]
         /\ row[r].link \in {r, NoRemittance}
         /\ row[r].link # NoRemittance => escrow[r] # "None"
         /\ escrow[r] \in ReachedBy[row[r].status]
         /\ row[r].lifecycle \in {"TRANSFER_INITIATED", "STELLAR_PAYMENT_SUBMITTED",
                                  "STELLAR_PAYMENT_CONFIRMED"} => escrow[r] \in ReachedBy["FUNDED"]
<1>1. row[r] \in [status : Statuses, lifecycle : LifecyclePhases, link : RemittanceOrNone]
  BY DEF DecisionsJustified, TypeOK, Rows
<1>2. row[r].link \in {r, NoRemittance} /\ (row[r].link # NoRemittance => escrow[r] # "None")
  BY DEF DecisionsJustified, LinkIsOwn
<1>3. escrow[r] \in ReachedBy[row[r].status]
  BY DEF DecisionsJustified, StatusBackedByEscrow
<1> QED
  BY <1>1, <1>2, <1>3 DEF DecisionsJustified, PaymentPhaseNeedsFunds

LEMMA StatusWriteStep ==
  ASSUME DecisionsJustified, NEW q \in Requests, StatusWrite(q)
  PROVE  DecisionsJustified'
<1> DEFINE c == req[q]
           r == c.rem
           x == [row[r] EXCEPT !.status = c.to, !.lifecycle = LifecycleFromStatus[c.to]]
<1>1. c # Idle
  BY DEF StatusWrite, At, Idle
<1>2. c.op # "payment" /\ c.to \in Statuses \ {"CREATED"} /\ r \in Remittances /\ row[r] # NoRow
  BY <1>1, Suspended DEF StatusWrite, At, WellFormed
<1>3. escrow[r] \in ReachedBy[c.to]
  BY <1>1, <1>2, Suspended DEF StatusWrite, At, Sound
<1>4. /\ x \in [status : Statuses, lifecycle : LifecyclePhases, link : RemittanceOrNone]
      /\ x.status = c.to /\ x.lifecycle = LifecycleFromStatus[c.to] /\ x.link = row[r].link
  <2>1. LifecycleFromStatus[c.to] \in LifecyclePhases
    BY <1>2 DEF LifecycleFromStatus, LifecyclePhases, Statuses
  <2>2. row[r] \in [status : Statuses, lifecycle : LifecyclePhases, link : RemittanceOrNone]
    BY <1>2, RowAtRest
  <2> QED
    BY <1>2, <2>1, <2>2
<1>5. x \in Rows \ {NoRow}
  BY <1>2, <1>4 DEF Rows, NoRow, Statuses
<1>6. x.lifecycle = "TRANSFER_INITIATED" => c.to = "FUNDED"
  BY <1>2, <1>4 DEF LifecycleFromStatus, Statuses
<1>7. x.lifecycle \notin {"STELLAR_PAYMENT_SUBMITTED", "STELLAR_PAYMENT_CONFIRMED"}
  BY <1>2, <1>4 DEF LifecycleFromStatus, Statuses
<1>8. c.to = "EXPIRED" => Expiring(r)
  BY <1>1, Suspended
<1>9. row' = [row EXCEPT ![r] = x]
  BY DEF StatusWrite
<1>10. HandlersMove
  <2>1. CASE c.to # "SETTLEMENT_AUTHORIZED"
    BY <2>1, OneHandlerEnds DEF StatusWrite, AfterWrite, Finish
  <2>2. CASE c.to = "SETTLEMENT_AUTHORIZED"
    <3> DEFINE d == [c EXCEPT !.op = "release", !.pc = "call", !.to = "NONE"]
    <3>1. /\ d \in RequestRecords /\ d.op = "release" /\ d.pc = "call" /\ d.to = "NONE"
          /\ d.rem = r /\ d.link = c.link
      BY <1>1, Suspended DEF RequestRecords, Ops, Points
    <3>2. req' = [req EXCEPT ![q] = d]
      BY <2>2 DEF StatusWrite, AfterWrite
    <3>3. req'[q] = d
      BY <3>2, <1>1, Suspended
    <3>4. row'[r] # NoRow /\ escrow' = escrow
      BY <1>2, <1>5, <1>9 DEF DecisionsJustified, TypeOK, StatusWrite, ledgerVars
    <3>5. c.link \in {r, NoRemittance} /\ (c.link # NoRemittance => escrow[r] # "None")
      BY <1>1, Suspended
    <3>6. WellFormed(req[q])'
      BY <3>1, <3>3 DEF WellFormed, ContractOps
    <3> HIDE DEF d
    <3>7. Sound(req[q])'
      BY <1>2, <3>1, <3>3, <3>4, <3>5, <3>6 DEF Sound
    <3> QED
      BY <3>1, <3>2, <3>7, OneHandlerMoves
  <2> QED
    BY <2>1, <2>2
<1>11. UNCHANGED <<ledgerVars, clockVars, custodial, split, aborts>>
  BY DEF StatusWrite, otherVars
<1>12. envelopes' \in [Remittances -> SUBSET {"relayCreate", "relayFund", "relayRefund"}]
  BY DEF StatusWrite, otherVars, DecisionsJustified, TypeOK
<1> HIDE DEF x
<1> QED
  BY <1>2, <1>3, <1>4, <1>5, <1>6, <1>7, <1>8, <1>9, <1>10, <1>11, <1>12, RowAtRest, RowWrite

LEMMA RecordContractIdStep ==
  ASSUME DecisionsJustified, NEW q \in Requests, RecordContractId(q)
  PROVE  DecisionsJustified'
<1> DEFINE c == req[q]
           r == c.rem
           x == [row[r] EXCEPT !.link = c.link]
<1>1. c # Idle
  BY DEF RecordContractId, At, Idle
<1>2. /\ r \in Remittances /\ row[r] # NoRow /\ c.link = r
      /\ c.link # NoRemittance => escrow[r] # "None"
  BY <1>1, Suspended DEF RecordContractId, At, WellFormed
<1>3. row[r] \in [status : Statuses, lifecycle : LifecyclePhases, link : RemittanceOrNone]
  BY <1>2, RowAtRest
<1>4. /\ x \in [status : Statuses, lifecycle : LifecyclePhases, link : RemittanceOrNone]
      /\ x.status = row[r].status /\ x.lifecycle = row[r].lifecycle /\ x.link = c.link
  BY <1>2, <1>3 DEF RemittanceOrNone
<1>5. x \in Rows \ {NoRow}
  BY <1>3, <1>4 DEF Rows, NoRow, Statuses
<1>6. row' = [row EXCEPT ![r] = x]
  BY DEF RecordContractId
<1>7. HandlersMove
  BY OneHandlerEnds DEF RecordContractId
<1>8. UNCHANGED <<ledgerVars, clockVars, custodial, split, aborts>>
  BY DEF RecordContractId, otherVars
<1>9. envelopes' \in [Remittances -> SUBSET {"relayCreate", "relayFund", "relayRefund"}]
  BY DEF RecordContractId, otherVars, DecisionsJustified, TypeOK
<1>10. row[r].status = "EXPIRED" => Expiring(r)
  BY DEF Expiring
<1> HIDE DEF x
<1> QED
  BY <1>2, <1>4, <1>5, <1>6, <1>7, <1>8, <1>9, <1>10, RowAtRest, RowWrite

LEMMA PhaseWriteStep ==
  ASSUME DecisionsJustified, NEW q \in Requests, PhaseWrite(q)
  PROVE  DecisionsJustified'
<1> DEFINE c == req[q]
           r == c.rem
           x == [row[r] EXCEPT !.lifecycle = c.to]
<1>1. c # Idle
  BY DEF PhaseWrite, At, Idle
<1>2. /\ r \in Remittances /\ row[r] # NoRow
      /\ c.to \in {"STELLAR_PAYMENT_SUBMITTED", "STELLAR_PAYMENT_CONFIRMED"}
  BY <1>1, Suspended DEF PhaseWrite, At, WellFormed
<1>3. escrow[r] \in ReachedBy["FUNDED"]
  BY <1>1, Suspended DEF PhaseWrite, At, Sound
<1>4. row[r] \in [status : Statuses, lifecycle : LifecyclePhases, link : RemittanceOrNone]
  BY <1>2, RowAtRest
<1>5. /\ x \in [status : Statuses, lifecycle : LifecyclePhases, link : RemittanceOrNone]
      /\ x.status = row[r].status /\ x.link = row[r].link
  BY <1>2, <1>4 DEF LifecyclePhases
<1>6. x \in Rows \ {NoRow}
  BY <1>4, <1>5 DEF Rows, NoRow, Statuses
<1>7. row' = [row EXCEPT ![r] = x]
  BY DEF PhaseWrite
<1>8. HandlersMove
  BY OneHandlerEnds DEF PhaseWrite
<1>9. UNCHANGED <<ledgerVars, clockVars, custodial, split, aborts>>
  BY DEF PhaseWrite, otherVars
<1>10. envelopes' \in [Remittances -> SUBSET {"relayCreate", "relayFund", "relayRefund"}]
  BY DEF PhaseWrite, otherVars, DecisionsJustified, TypeOK
<1>11. row[r].status = "EXPIRED" => Expiring(r)
  BY DEF Expiring
<1> HIDE DEF x
<1> QED
  BY <1>2, <1>3, <1>5, <1>6, <1>7, <1>8, <1>9, <1>10, <1>11, RowAtRest, RowWrite

LEMMA CreateStep ==
  ASSUME DecisionsJustified, NEW q \in Requests, NEW r \in Remittances, Create(q, r)
  PROVE  DecisionsJustified'
<1> DEFINE x == [status |-> "CREATED", lifecycle |-> "QUOTE_CREATED", link |-> NoRemittance]
           d == Started("create", r, "call", "NONE")
<1>1. row[r] = NoRow /\ row' = [row EXCEPT ![r] = x]
  BY DEF Create
<1>2. x \in Rows \ {NoRow}
  BY DEF Rows, NoRow, Statuses, LifecyclePhases, RemittanceOrNone
<1>3. escrow[r] \in ReachedBy["CREATED"]
  BY DEF DecisionsJustified, TypeOK, ReachedBy
<1>4. row'[r] = x
  BY <1>1 DEF DecisionsJustified, TypeOK
<1>5. HandlersMove
  <2>1. CASE UNCHANGED req
    BY <2>1 DEF HandlersMove, DecisionsJustified, TypeOK
  <2>2. CASE req' = [req EXCEPT ![q] = d]
    <3>1. d.link = NoRemittance
      BY <1>1 DEF Started, NoRow
    <3>2. /\ d \in RequestRecords /\ d.op = "create" /\ d.rem = r /\ d.pc = "call"
          /\ d.to = "NONE"
      BY <3>1 DEF Started, RequestRecords, Ops, Points, RemittanceOrNone
    <3>3. req'[q] = d
      BY <2>2 DEF DecisionsJustified, TypeOK
    <3> HIDE DEF d
    <3>4. WellFormed(req[q])'
      BY <3>2, <3>3 DEF WellFormed, ContractOps
    <3>5. row'[r] # NoRow
      BY <1>2, <1>4
    <3>6. Sound(req[q])'
      BY <3>1, <3>2, <3>3, <3>4, <3>5 DEF Sound
    <3> QED
      BY <2>2, <3>2, <3>6, OneHandlerMoves
  <2> QED
    BY <2>1, <2>2 DEF Create
<1>6. envelopes' \in [Remittances -> SUBSET {"relayCreate", "relayFund", "relayRefund"}]
  BY DEF Create, DecisionsJustified, TypeOK
<1>7. UNCHANGED <<ledgerVars, clockVars, custodial, split, aborts>>
  BY DEF Create
<1> QED
  BY <1>1, <1>2, <1>3, <1>5, <1>6, <1>7, RowWrite

-----------------------------------------------------------------------------
\* Steps that move an escrow

LEMMA LedgerWrite ==
  ASSUME DecisionsJustified, HandlersMove,
         UNCHANGED <<row, clockVars, otherVars>>,
         NEW r \in Remittances, row[r] # NoRow,
         NEW f \in EscrowStates \ {"None"}, EscrowMoves(escrow[r], f),
         escrow' = [escrow EXCEPT ![r] = f],
         newest' \in {newest, r},
         f \in {"Processing", "SettlementAuthorized"} => row[r].status # "CREATED",
         f = "SettlementAuthorized" => ~Expiring(r)
  PROVE  DecisionsJustified'
<1>1. TypeOK'
  BY DEF DecisionsJustified, TypeOK, clockVars, otherVars, HandlersMove, RemittanceOrNone
<1>2. escrow \in [Remittances -> EscrowStates] /\ row \in [Remittances -> Rows]
  BY DEF DecisionsJustified, TypeOK
<1>3. \A s \in Remittances : escrow'[s] = IF s = r THEN f ELSE escrow[s]
  BY <1>2
<1>4. Forward
  BY <1>3 DEF Forward, EscrowMoves
<1>5. ASSUME NEW p \in Requests PROVE Sound(req[p])'
  BY <1>1, <1>4, OthersStaySound DEF HandlersMove
<1>6. EscrowsInv' /\ LinkIsOwn'
  BY <1>1, <1>3 DEF DecisionsJustified, EscrowsInv, LinkIsOwn, TypeOK, RemittanceOrNone
<1>7. ASSUME NEW s \in Remittances, NEW t \in Statuses \union {"NONE"}, escrow[s] \in ReachedBy[t]
      PROVE  escrow'[s] \in ReachedBy[t]
  <2>1. escrow[s] \in EscrowStates /\ escrow'[s] \in EscrowStates /\ EscrowMoves(escrow[s], escrow'[s])
    BY <1>1, <1>4 DEF Forward, TypeOK, DecisionsJustified
  <2> QED
    BY <1>7, <2>1, BackedIsStable
<1>8. StatusBackedByEscrow'
  <2>1. \A s \in Remittances : row[s].status \in Statuses \union {"NONE"}
    BY <1>2 DEF Rows, NoRow
  <2> QED
    BY <1>7, <2>1 DEF DecisionsJustified, StatusBackedByEscrow
<1>9. PaymentPhaseNeedsFunds'
  BY <1>7 DEF DecisionsJustified, PaymentPhaseNeedsFunds, Statuses
<1>10. CorridorNeedsFundedRow'
  <2>1. row[r].status # "NONE"
    BY <1>2 DEF Rows, Statuses
  <2>2. f = "Released" => row[r].status # "CREATED"
    BY DEF EscrowMoves, DecisionsJustified, CorridorNeedsFundedRow
  <2> QED
    BY <1>3, <2>1, <2>2 DEF DecisionsJustified, CorridorNeedsFundedRow
<1>11. ExpiringInv'
  <2>1. ASSUME NEW s \in Remittances, Expiring(s)' PROVE Expiring(s)
    BY <2>1 DEF Expiring, HandlersMove
  <2>2. ASSUME NEW s \in Remittances, Settling(s)' PROVE Settling(s)
    BY <2>2 DEF Settling, HandlersMove
  <2>3. f = "Released" => ~Expiring(r)
    BY DEF EscrowMoves, DecisionsJustified, ExpiringInv
  <2> QED
    BY <1>3, <2>1, <2>2, <2>3 DEF DecisionsJustified, ExpiringInv, clockVars
<1> QED
  BY <1>1, <1>5, <1>6, <1>8, <1>9, <1>10, <1>11 DEF DecisionsJustified

LEMMA HandlersRest ==
  ASSUME DecisionsJustified, UNCHANGED req
  PROVE  HandlersMove
  BY DEF HandlersMove, DecisionsJustified, TypeOK

\* An accepted call moves the escrow one step, by the right of its operation.
LEMMA AcceptedCall ==
  ASSUME DecisionsJustified, NEW q \in Requests, req[q] # Idle, req[q].pc = "call",
         CallAllowed(req[q])
  PROVE  /\ req[q].op \in ContractOps
         /\ req[q].op # "create" => req[q].link = req[q].rem
         /\ EscrowMoves(escrow[req[q].rem], Effect[req[q].op])
         /\ Effect[req[q].op] \in EscrowStates \ {"None"}
         /\ Effect[req[q].op] \in {"Processing", "SettlementAuthorized"} =>
              row[req[q].rem].status # "CREATED"
         /\ Effect[req[q].op] = "SettlementAuthorized" => ~Expiring(req[q].rem)
<1> DEFINE c == req[q]
<1>1. c.op \in ContractOps
  BY Suspended DEF WellFormed
<1>2. c.op # "create" => c.link = c.rem
  BY <1>1, Suspended, ConstantsAssumption DEF CallAllowed, ContractOps
<1>3. EscrowMoves(escrow[c.rem], Effect[c.op])
  BY <1>1, <1>2 DEF CallAllowed, ContractOps, Effect, EscrowMoves, FundAllowed,
     BeginAllowed, AuthorizeAllowed, ReleaseAllowed, RefundAllowed
<1>4. Effect[c.op] \in EscrowStates \ {"None"}
  BY <1>1 DEF ContractOps, Effect, EscrowStates
<1>5. Effect[c.op] \in {"Processing", "SettlementAuthorized"} => c.op \in {"process", "settle"}
  BY <1>1 DEF ContractOps, Effect
<1>6. Effect[c.op] = "SettlementAuthorized" => c.op = "settle"
  BY <1>1 DEF ContractOps, Effect
<1>7. c.op \in {"process", "settle"} => row[c.rem].status # "CREATED"
  BY Suspended DEF Sound
<1>8. c.op = "settle" => ~Expiring(c.rem)
  <2>1. c.op = "settle" => Settling(c.rem)
    BY DEF Settling
  <2> QED
    BY <2>1, Suspended DEF DecisionsJustified, ExpiringInv
<1> QED
  BY <1>1, <1>2, <1>3, <1>4, <1>5, <1>6, <1>7, <1>8

LEMMA ContractCallStep ==
  ASSUME DecisionsJustified, NEW q \in Requests, ContractCall(q)
  PROVE  DecisionsJustified'
<1> DEFINE c == req[q]
           r == c.rem
           f == Effect[c.op]
           d == AfterCall(c)
<1>1. c # Idle /\ c.pc = "call" /\ CallAllowed(c)
  BY DEF ContractCall, At, Idle
<1>2. /\ c.op \in ContractOps /\ c \in RequestRecords
      /\ r \in Remittances /\ row[r] # NoRow
      /\ c.link \in {r, NoRemittance}
      /\ req \in [Requests -> RequestRecords]
  BY <1>1, AcceptedCall, Suspended
<1>3. escrow' = [escrow EXCEPT ![r] = f] /\ newest' \in {newest, r}
  BY <1>1, AcceptedCall DEF ContractCall
<1>4. req' = [req EXCEPT ![q] = d] /\ req'[q] = d
  BY <1>2 DEF ContractCall
<1>5. UNCHANGED <<row, clockVars, otherVars>>
  BY DEF ContractCall
<1>6. escrow'[r] = f
  BY <1>2, <1>3 DEF DecisionsJustified, TypeOK
<1>7. /\ d.op = c.op /\ d.rem = r /\ d.to = Target[c.op] /\ d.link \in {r, NoRemittance}
      /\ d.pc = IF c.op = "create" THEN "link" ELSE IF c.op = "sweep" THEN "write" ELSE "check"
      /\ c.op = "create" => d.link = r
      /\ d \in RequestRecords
  <2>1. Target[c.op] \in Statuses \union {"NONE"}
    BY <1>2 DEF Target, ContractOps, Statuses
  <2> QED
    BY <1>2, <2>1 DEF AfterCall, RequestRecords, Points, RemittanceOrNone
<1> HIDE DEF d
<1>8. c.op # "create" => /\ Target[c.op] \in Statuses \ {"CREATED", "EXPIRED"}
                         /\ f \in ReachedBy[Target[c.op]]
  BY <1>2 DEF ContractOps, Target, Statuses, ReachedBy, Effect, WasFunded, EscrowStates
<1>9. c.op = "create" => Target[c.op] = "NONE"
  BY DEF Target
<1>10. WellFormed(req[q])'
  BY <1>2, <1>4, <1>7, <1>8 DEF WellFormed, ContractOps
<1>11. Sound(req[q])'
  <2>1. c.op \in {"process", "settle"} => row[r].status # "CREATED"
    BY <1>1, Suspended DEF Sound
  <2>2. f # "None" /\ c.op \notin {"payment", "confirmFund"}
    BY <1>1, <1>2, AcceptedCall DEF ContractOps
  <2> QED
    BY <1>2, <1>4, <1>5, <1>6, <1>7, <1>8, <1>10, <2>1, <2>2 DEF Sound
<1>12. HandlersMove
  BY <1>4, <1>7, <1>8, <1>9, <1>11, OneHandlerMoves
<1> QED
  BY <1>1, <1>2, <1>3, <1>5, <1>12, AcceptedCall, LedgerWrite

\* An envelope that takes effect moves the escrow one step.
LEMMA AcceptedEnvelope ==
  ASSUME NEW r \in Remittances, NEW op \in RelayOps, EnvelopeAllowed(op, r)
  PROVE  /\ EscrowMoves(escrow[r], EnvelopeEffect[op])
         /\ EnvelopeEffect[op] \in {"Created", "Funded", "Refunded"}
  BY DEF EnvelopeAllowed, EnvelopeEffect, EscrowMoves, RelayOps, FundAllowed, RefundAllowed

LEMMA RelaySubmitStep ==
  ASSUME DecisionsJustified, NEW q \in Requests, RelaySubmit(q)
  PROVE  DecisionsJustified'
<1> DEFINE c == req[q]
           r == c.rem
           d == [c EXCEPT !.pc = "reload", !.to = "NONE"]
<1>1. c # Idle
  BY DEF RelaySubmit, At, Idle
<1>2. /\ c.op \in RelayOps /\ c \in RequestRecords /\ r \in Remittances /\ row[r] # NoRow
      /\ c.link \in {r, NoRemittance}
      /\ c.link # NoRemittance => escrow[r] # "None"
  BY <1>1, Suspended DEF RelaySubmit, At, WellFormed
<1>3. /\ d.op = c.op /\ d.rem = r /\ d.pc = "reload" /\ d.to = "NONE" /\ d.link = c.link
      /\ d \in RequestRecords
  BY <1>2 DEF RequestRecords, Points
<1>4. WellFormed(d)
  BY <1>2, <1>3 DEF WellFormed
<1>5. CASE UNCHANGED ledgerVars /\ Continue(q, "reload", "NONE")
  BY <1>1, <1>4, <1>5, GoingOn DEF RelaySubmit, Points
<1>6. CASE UNCHANGED ledgerVars /\ Finish(q)
  BY <1>1, <1>6, Ending, Suspended DEF RelaySubmit, otherVars
<1>7. CASE /\ EnvelopeAllowed(c.op, r)
           /\ escrow' = [escrow EXCEPT ![r] = EnvelopeEffect[c.op]]
           /\ newest' \in {newest, r}
           /\ Continue(q, "reload", "NONE")
  <2>1. EnvelopeEffect[c.op] \in {"Created", "Funded", "Refunded"}
        /\ EscrowMoves(escrow[r], EnvelopeEffect[c.op])
    BY <1>2, <1>7, AcceptedEnvelope
  <2>2. UNCHANGED <<row, clockVars, otherVars>>
    BY DEF RelaySubmit
  <2>3. escrow'[r] # "None"
    BY <1>2, <1>7, <2>1 DEF DecisionsJustified, TypeOK
  <2>4. req' = [req EXCEPT ![q] = d]
    BY <1>7 DEF Continue
  <2>5. req'[q] = d
    BY <2>4 DEF DecisionsJustified, TypeOK
  <2> HIDE DEF d
  <2>6. WellFormed(req[q])'
    BY <1>4, <2>5 DEF WellFormed
  <2>7. Sound(req[q])'
    BY <1>2, <1>3, <2>2, <2>3, <2>5, <2>6 DEF Sound, RelayOps
  <2>8. HandlersMove
    BY <1>3, <2>4, <2>7, OneHandlerMoves
  <2>9. EnvelopeEffect[c.op] \in EscrowStates \ {"None"}
    BY <2>1 DEF EscrowStates
  <2> QED
    BY <1>2, <1>7, <2>1, <2>2, <2>8, <2>9, LedgerWrite
<1> QED
  BY <1>5, <1>6, <1>7 DEF RelaySubmit

\* The app and the public move escrows without the service.
LEMMA OthersMoveEscrow ==
  ASSUME DecisionsJustified, NEW r \in Remittances, AppSubmits(r) \/ PublicCall(r)
  PROVE  DecisionsJustified'
<1>1. HandlersMove
  BY HandlersRest DEF AppSubmits, PublicCall
<1>2. CASE AppSubmits(r)
  <2>1. PICK op \in RelayOps :
          /\ EnvelopeAllowed(op, r)
          /\ escrow' = [escrow EXCEPT ![r] = EnvelopeEffect[op]]
          /\ newest' \in {newest, r}
    BY <1>2 DEF AppSubmits, RelayOps
  <2>2. EnvelopeEffect[op] \in {"Created", "Funded", "Refunded"}
        /\ EscrowMoves(escrow[r], EnvelopeEffect[op])
    BY <2>1, AcceptedEnvelope
  <2>3. row[r] # NoRow /\ UNCHANGED <<row, clockVars, otherVars>>
    BY <1>2 DEF AppSubmits
  <2>4. EnvelopeEffect[op] \in EscrowStates \ {"None"}
    BY <2>2 DEF EscrowStates
  <2> QED
    BY <1>1, <2>1, <2>2, <2>3, <2>4, LedgerWrite
<1>3. CASE PublicCall(r)
  <2>1. PICK f \in {"Released", "Refunded"} :
          /\ escrow' = [escrow EXCEPT ![r] = f]
          /\ EscrowMoves(escrow[r], f)
          /\ escrow[r] # "None"
    BY <1>3 DEF PublicCall, ReleaseAllowed, RefundAllowed, EscrowMoves
  <2>2. row[r] # NoRow
    BY <2>1 DEF DecisionsJustified, EscrowsInv
  <2>3. UNCHANGED <<row, newest, clockVars, otherVars>>
    BY <1>3 DEF PublicCall
  <2>4. f \in EscrowStates \ {"None"}
    BY DEF EscrowStates
  <2> QED
    BY <1>1, <2>1, <2>2, <2>3, <2>4, LedgerWrite
<1> QED
  BY <1>2, <1>3

-----------------------------------------------------------------------------
\* Preparing an envelope and the passing of time

LEMMA OtherSteps ==
  ASSUME DecisionsJustified, NEW r \in Remittances,
         PrepareFund(r) \/ PrepareRefund(r) \/ SenderSplits(r) \/ Expire(r) \/ LedgerExpire(r)
  PROVE  DecisionsJustified'
<1>1. UNCHANGED <<row, escrow, newest, req, custodial, aborts>>
  BY DEF PrepareFund, PrepareRefund, Expire, SenderSplits, LedgerExpire, ledgerVars, otherVars
<1>2. TypeOK'
  BY DEF DecisionsJustified, TypeOK, PrepareFund, PrepareRefund, Expire, SenderSplits, LedgerExpire,
         ledgerVars, clockVars, otherVars
<1>3. Forward
  BY <1>1 DEF Forward, EscrowMoves
<1>4. ASSUME NEW p \in Requests PROVE Sound(req[p])'
  BY <1>1, <1>2, <1>3, OthersStaySound
<1>5. EscrowsInv' /\ LinkIsOwn' /\ StatusBackedByEscrow' /\ CorridorNeedsFundedRow'
      /\ PaymentPhaseNeedsFunds'
  BY <1>1 DEF DecisionsJustified, EscrowsInv, LinkIsOwn, StatusBackedByEscrow,
              CorridorNeedsFundedRow, PaymentPhaseNeedsFunds
<1>6. \A s \in Remittances : expired[s] => expired'[s]
  BY DEF PrepareFund, PrepareRefund, Expire, SenderSplits, LedgerExpire, clockVars, DecisionsJustified, TypeOK
<1>7. ExpiringInv'
  BY <1>1, <1>6 DEF DecisionsJustified, ExpiringInv, Expiring, Settling
<1> QED
  BY <1>2, <1>4, <1>5, <1>7 DEF DecisionsJustified

-----------------------------------------------------------------------------
\* The invariant

LEMMA InitJustified == Init => DecisionsJustified
<1> SUFFICES ASSUME Init PROVE DecisionsJustified
  OBVIOUS
<1>1. NoRow \in Rows /\ Idle \in RequestRecords /\ 0 \in 0..MaxAborts
  BY ConstantsAssumption DEF Rows, Idle, RequestRecords, Ops, Points, RemittanceOrNone
<1>2. TypeOK
  BY <1>1 DEF Init, TypeOK, EscrowStates, RemittanceOrNone
<1>3. \A q \in Requests : Sound(req[q])
  BY DEF Init, Sound
<1>4. EscrowsInv /\ LinkIsOwn /\ CorridorNeedsFundedRow
  BY DEF Init, EscrowsInv, LinkIsOwn, CorridorNeedsFundedRow, NoRow
<1>5. StatusBackedByEscrow /\ PaymentPhaseNeedsFunds
  BY DEF Init, StatusBackedByEscrow, PaymentPhaseNeedsFunds, NoRow, ReachedBy, EscrowStates
<1>6. ExpiringInv
  BY DEF Init, ExpiringInv, Expiring, NoRow, Idle
<1> QED
  BY <1>2, <1>3, <1>4, <1>5, <1>6 DEF DecisionsJustified

LEMMA StutterJustified ==
  ASSUME DecisionsJustified, UNCHANGED vars
  PROVE  DecisionsJustified'
<1> SUFFICES /\ TypeOK' /\ (\A q \in Requests : Sound(req[q]))' /\ EscrowsInv' /\ LinkIsOwn'
             /\ StatusBackedByEscrow' /\ PaymentPhaseNeedsFunds'
             /\ CorridorNeedsFundedRow' /\ ExpiringInv'
  BY DEF DecisionsJustified
<1>1. TypeOK'
  BY DEF vars, DecisionsJustified, TypeOK
<1>2. ASSUME NEW q \in Requests PROVE Sound(req[q])'
  BY DEF vars, DecisionsJustified, Sound
<1>3. EscrowsInv' /\ LinkIsOwn' /\ StatusBackedByEscrow'
  BY DEF vars, DecisionsJustified, EscrowsInv, LinkIsOwn, StatusBackedByEscrow
<1>4. PaymentPhaseNeedsFunds' /\ CorridorNeedsFundedRow'
  BY DEF vars, DecisionsJustified, PaymentPhaseNeedsFunds, CorridorNeedsFundedRow
<1>5. ExpiringInv'
  BY DEF vars, DecisionsJustified, ExpiringInv, Expiring, Settling
<1> QED
  BY <1>1, <1>2, <1>3, <1>4, <1>5

\* Every step of the system keeps every decision in flight justified.
LEMMA NextJustified ==
  ASSUME DecisionsJustified, [Next]_vars
  PROVE  DecisionsJustified'
<1>1. ASSUME NEW q \in Requests, Step(q) PROVE DecisionsJustified'
  BY <1>1, ContractCallStep, HandlerEnds, SetStateCheckStep, StatusWriteStep,
     PhaseWriteStep, RecordContractIdStep, AuthorizeAndReleaseStep, ReentryQueryStep,
     RelaySubmitStep, RelayReloadStep, WaitForTransactionStep, VerifyRelayStep,
     ReconcileCreateStep DEF Step
<1>2. ASSUME NEW q \in Requests, Abort(q) PROVE DecisionsJustified'
  BY <1>2, HandlerEnds
<1>3. ASSUME NEW q \in Requests, NEW r \in Remittances, Start(q, r)
      PROVE  DecisionsJustified'
  BY <1>3, CreateStep, CustodialStart, SweepStart, ConfirmStart, PaymentStart DEF Start
<1>4. ASSUME NEW r \in Remittances, Environment(r) PROVE DecisionsJustified'
  BY <1>4, OthersMoveEscrow, OtherSteps DEF Environment
<1>5. CASE UNCHANGED vars
  BY <1>5, StutterJustified
<1> QED
  BY <1>1, <1>2, <1>3, <1>4, <1>5 DEF Next

\* Every decision in flight stays justified, in every reachable state.
THEOREM DecisionsAlwaysJustified == Spec => []DecisionsJustified
<1>1. Init => DecisionsJustified
  BY InitJustified
<1>2. DecisionsJustified /\ [Next]_vars => DecisionsJustified'
  BY NextJustified
<1> QED
  BY <1>1, <1>2, PTL DEF Spec

-----------------------------------------------------------------------------
\* What it establishes

\* Type correctness of every reachable state.
THEOREM TypeCorrect == Spec => []TypeOK
<1>1. DecisionsJustified => TypeOK
  BY DEF DecisionsJustified
<1> QED
  BY <1>1, DecisionsAlwaysJustified, PTL

\* A row never claims more than its escrow has done.
THEOREM StatusesAreBacked == Spec => []StatusBackedByEscrow
<1>1. DecisionsJustified => StatusBackedByEscrow
  BY DEF DecisionsJustified
<1> QED
  BY <1>1, DecisionsAlwaysJustified, PTL

\* A row's contract id is always its own escrow's, for any remittances of which
\* none is a lookalike of another.
THEOREM LinksAreOwn == Spec => []LinkIsOwn
<1>1. DecisionsJustified => LinkIsOwn
  BY DEF DecisionsJustified
<1> QED
  BY <1>1, DecisionsAlwaysJustified, PTL

\* The corridor only works on rows that have left CREATED.
THEOREM CorridorSafe == Spec => []CorridorNeedsFundedRow
<1>1. DecisionsJustified => CorridorNeedsFundedRow
  BY DEF DecisionsJustified
<1> QED
  BY <1>1, DecisionsAlwaysJustified, PTL

\* The feed shows payments only of remittances that were funded.
THEOREM PhasesAreFunded == Spec => []PaymentPhaseNeedsFunds
<1>1. DecisionsJustified => PaymentPhaseNeedsFunds
  BY DEF DecisionsJustified
<1> QED
  BY <1>1, DecisionsAlwaysJustified, PTL

\* A settled remittance is never marked EXPIRED.
THEOREM SettledSafe == Spec => []SettledNeverExpired
<1>1. DecisionsJustified => SettledNeverExpired
  BY DEF DecisionsJustified, ExpiringInv, Expiring, SettledNeverExpired
<1> QED
  BY <1>1, DecisionsAlwaysJustified, PTL

\* Every step moves each escrow along its own machine, or not at all.
LEMMA EscrowsMoveForward ==
  ASSUME DecisionsJustified, [Next]_vars, NEW r \in Remittances
  PROVE  EscrowMoves(escrow[r], escrow'[r])
<1> USE DEF ledgerVars
<1>1. escrow \in [Remittances -> EscrowStates]
  BY DEF DecisionsJustified, TypeOK
<1>2. CASE UNCHANGED escrow
  BY <1>2 DEF EscrowMoves
<1>3. ASSUME NEW q \in Requests, ContractCall(q) PROVE EscrowMoves(escrow[r], escrow'[r])
  <2>1. req[q] # Idle /\ req[q].pc = "call" /\ CallAllowed(req[q])
    BY <1>3 DEF ContractCall, At, Idle
  <2>2. escrow' = [escrow EXCEPT ![req[q].rem] = Effect[req[q].op]]
    BY <1>3, <2>1, AcceptedCall DEF ContractCall
  <2>3. EscrowMoves(escrow[req[q].rem], Effect[req[q].op])
    BY <2>1, AcceptedCall
  <2> QED
    BY <1>1, <2>2, <2>3 DEF EscrowMoves
<1>4. ASSUME NEW q \in Requests, RelaySubmit(q), ~UNCHANGED escrow
      PROVE  EscrowMoves(escrow[r], escrow'[r])
  <2>1. req[q] # Idle
    BY <1>4 DEF RelaySubmit, At, Idle
  <2>2. req[q].op \in RelayOps /\ req[q].rem \in Remittances
    BY <1>4, <2>1, Suspended DEF RelaySubmit, At, WellFormed
  <2>3. EnvelopeAllowed(req[q].op, req[q].rem)
        /\ escrow' = [escrow EXCEPT ![req[q].rem] = EnvelopeEffect[req[q].op]]
    BY <1>4 DEF RelaySubmit
  <2> QED
    BY <1>1, <2>2, <2>3, AcceptedEnvelope DEF EscrowMoves
<1>5. ASSUME NEW s \in Remittances, AppSubmits(s) PROVE EscrowMoves(escrow[r], escrow'[r])
  <2>1. PICK op \in RelayOps :
          /\ EnvelopeAllowed(op, s)
          /\ escrow' = [escrow EXCEPT ![s] = EnvelopeEffect[op]]
    BY <1>5 DEF AppSubmits, RelayOps
  <2> QED
    BY <1>1, <2>1, AcceptedEnvelope DEF EscrowMoves
<1>6. ASSUME NEW s \in Remittances, PublicCall(s) PROVE EscrowMoves(escrow[r], escrow'[r])
  BY <1>1, <1>6 DEF PublicCall, ReleaseAllowed, RefundAllowed, EscrowMoves
<1>7. ASSUME NEW q \in Requests, Step(q), ~UNCHANGED escrow
      PROVE  ContractCall(q) \/ RelaySubmit(q)
  BY <1>7 DEF Step, CallRejected, SetStateCheck, StatusWrite, PhaseWrite, RecordContractId,
     AuthorizeAndRelease, ReentryQuery, RelayReload, WaitForTransaction, VerifyRelay,
     ReconcileCreate
<1>8. ASSUME NEW q \in Requests, NEW s \in Remittances, Start(q, s) \/ Abort(q)
      PROVE  UNCHANGED escrow
  BY <1>8 DEF Start, Create, Fund, BeginProcessing, OnAnchorStatus, Release, Refund,
     ExpirySweep, Confirm, Relay, ApplyPaymentEvent, Abort
<1>9. ASSUME NEW s \in Remittances, Environment(s), ~UNCHANGED escrow
      PROVE  AppSubmits(s) \/ PublicCall(s)
  BY <1>9 DEF Environment, PrepareFund, PrepareRefund, Expire, SenderSplits, LedgerExpire
<1>10. UNCHANGED vars => UNCHANGED escrow
  BY DEF vars
<1> QED
  BY <1>2, <1>3, <1>4, <1>5, <1>6, <1>7, <1>8, <1>9, <1>10 DEF Next

\* A remittance once shown RELEASED is never shown REFUNDED, nor the reverse:
\* either status stands for the one final state its escrow is in.
THEOREM OutcomesAreFinal == Spec => OutcomeNeverReversed
<1> SUFFICES ASSUME NEW r \in Remittances
             PROVE  Spec => /\ [](row[r].status = "RELEASED" => [](row[r].status # "REFUNDED"))
                            /\ [](row[r].status = "REFUNDED" => [](row[r].status # "RELEASED"))
  BY DEF OutcomeNeverReversed
<1> DEFINE ShowsReleased == row[r].status = "RELEASED"
           ShowsRefunded == row[r].status = "REFUNDED"
           IsReleased == escrow[r] = "Released"
           IsRefunded == escrow[r] = "Refunded"
<1>1. DecisionsJustified => (ShowsReleased => IsReleased) /\ (ShowsRefunded => IsRefunded)
  BY DEF DecisionsJustified, StatusBackedByEscrow, ReachedBy
<1>2. DecisionsJustified /\ [Next]_vars => (IsReleased => IsReleased') /\ (IsRefunded => IsRefunded')
  BY EscrowsMoveForward DEF EscrowMoves
<1>3. ~(IsReleased /\ IsRefunded)
  OBVIOUS
<1>4. row[r].status # "REFUNDED" <=> ~ShowsRefunded
  OBVIOUS
<1>5. row[r].status # "RELEASED" <=> ~ShowsReleased
  OBVIOUS
<1> HIDE DEF ShowsReleased, ShowsRefunded, IsReleased, IsRefunded
<1>6. Spec => [](ShowsReleased => []~ShowsRefunded) /\ [](ShowsRefunded => []~ShowsReleased)
  BY <1>1, <1>2, <1>3, DecisionsAlwaysJustified, PTL DEF Spec
<1> QED
  BY <1>4, <1>5, <1>6, PTL DEF ShowsReleased, ShowsRefunded
-----------------------------------------------------------------------------
\* The service implements EscrowPromise

LEMMA InitPromised == Init => Promise!Init
  BY DEF Init, Promise!Init, NoRow, MoneyOf, ToldBy

\* A step changes the row of one remittance, or the escrow of one, or neither.
LEMMA OneThingChanges ==
  ASSUME DecisionsJustified, [Next]_vars
  PROVE  \/ UNCHANGED <<row, escrow>>
         \/ /\ UNCHANGED escrow
            /\ \E r \in Remittances : \A s \in Remittances \ {r} : row'[s] = row[s]
         \/ /\ UNCHANGED row
            /\ \E r \in Remittances : \A s \in Remittances \ {r} : escrow'[s] = escrow[s]
<1> USE DEF ledgerVars
<1>1. row \in [Remittances -> Rows] /\ escrow \in [Remittances -> EscrowStates]
  BY DEF DecisionsJustified, TypeOK
<1>2. ASSUME NEW q \in Requests, ContractCall(q)
      PROVE  UNCHANGED row /\ \E r \in Remittances : \A s \in Remittances \ {r} : escrow'[s] = escrow[s]
  <2>1. req[q] # Idle /\ req[q].pc = "call" /\ CallAllowed(req[q])
    BY <1>2 DEF ContractCall, At, Idle
  <2>2. req[q].rem \in Remittances
    BY <2>1, Suspended
  <2>3. escrow' = [escrow EXCEPT ![req[q].rem] = Effect[req[q].op]]
    BY <1>2, <2>1, AcceptedCall DEF ContractCall
  <2>4. \A s \in Remittances \ {req[q].rem} : escrow'[s] = escrow[s]
    BY <1>1, <2>3
  <2> QED
    BY <1>2, <2>2, <2>4 DEF ContractCall
<1>3. ASSUME NEW q \in Requests, RelaySubmit(q)
      PROVE  UNCHANGED row /\ \E r \in Remittances : \A s \in Remittances \ {r} : escrow'[s] = escrow[s]
  <2>1. req[q] # Idle
    BY <1>3 DEF RelaySubmit, At, Idle
  <2>2. req[q].rem \in Remittances
    BY <1>3, <2>1, Suspended DEF RelaySubmit, At, WellFormed
  <2>3. \A s \in Remittances \ {req[q].rem} : escrow'[s] = escrow[s]
    BY <1>1, <1>3 DEF RelaySubmit
  <2> QED
    BY <1>3, <2>2, <2>3 DEF RelaySubmit
<1>4. ASSUME NEW q \in Requests,
             StatusWrite(q) \/ PhaseWrite(q) \/ RecordContractId(q)
      PROVE  UNCHANGED escrow /\ \E r \in Remittances : \A s \in Remittances \ {r} : row'[s] = row[s]
  <2>1. req[q] # Idle
    BY <1>4 DEF StatusWrite, PhaseWrite, RecordContractId, At, Idle
  <2>2. req[q].rem \in Remittances
    BY <2>1, Suspended
  <2>3. \A s \in Remittances \ {req[q].rem} : row'[s] = row[s]
    BY <1>1, <1>4 DEF StatusWrite, PhaseWrite, RecordContractId
  <2> QED
    BY <1>4, <2>2, <2>3 DEF StatusWrite, PhaseWrite, RecordContractId
<1>5. ASSUME NEW q \in Requests, NEW r \in Remittances, Create(q, r)
      PROVE  UNCHANGED escrow /\ \A s \in Remittances \ {r} : row'[s] = row[s]
  BY <1>1, <1>5 DEF Create
<1>6. ASSUME NEW r \in Remittances, AppSubmits(r) \/ PublicCall(r)
      PROVE  UNCHANGED row /\ \A s \in Remittances \ {r} : escrow'[s] = escrow[s]
  BY <1>1, <1>6 DEF AppSubmits, PublicCall
<1>7. ASSUME NEW q \in Requests, Step(q), ~ContractCall(q), ~RelaySubmit(q),
             ~StatusWrite(q), ~PhaseWrite(q), ~RecordContractId(q)
      PROVE  UNCHANGED <<row, escrow>>
  BY <1>7 DEF Step, CallRejected, SetStateCheck, AuthorizeAndRelease, ReentryQuery,
     RelayReload, WaitForTransaction, VerifyRelay, ReconcileCreate
<1>8. ASSUME NEW q \in Requests, NEW r \in Remittances,
             Abort(q) \/ (Start(q, r) /\ ~Create(q, r))
      PROVE  UNCHANGED <<row, escrow>>
  BY <1>8 DEF Abort, Start, Fund, BeginProcessing, OnAnchorStatus, Release, Refund,
     ExpirySweep, Confirm, Relay, ApplyPaymentEvent
<1>9. ASSUME NEW r \in Remittances, Environment(r), ~AppSubmits(r), ~PublicCall(r)
      PROVE  UNCHANGED <<row, escrow>>
  BY <1>9 DEF Environment, PrepareFund, PrepareRefund, Expire, SenderSplits, LedgerExpire
<1>10. UNCHANGED vars => UNCHANGED <<row, escrow>>
  BY DEF vars
<1>11. ASSUME NEW q \in Requests, Abort(q) PROVE UNCHANGED <<row, escrow>>
  BY <1>11 DEF Abort
<1> QED
  BY <1>2, <1>3, <1>4, <1>5, <1>6, <1>7, <1>8, <1>9, <1>10, <1>11 DEF Next

\* What an escrow's step is for the money.
LEMMA MoneyMoves ==
  ASSUME NEW e \in EscrowStates, NEW f \in EscrowStates, EscrowMoves(e, f)
  PROVE  \/ MoneyOf[f] = MoneyOf[e]
         \/ MoneyOf[e] = "sender" /\ MoneyOf[f] = "held"
         \/ MoneyOf[e] = "held" /\ MoneyOf[f] \in {"committed", "returned"}
         \/ MoneyOf[e] = "committed" /\ MoneyOf[f] = "recipient"
  BY DEF EscrowMoves, EscrowStates, MoneyOf

\* A step of the service is a step of the promise, or changes nothing of it.
LEMMA StepPromised ==
  ASSUME DecisionsJustified, DecisionsJustified', [Next]_vars
  PROVE  [Promise!Next]_(Promise!promiseVars)
<1> DEFINE money == [r \in Remittances |-> MoneyOf[escrow[r]]]
           told == [r \in Remittances |-> ToldBy(row[r].status)]
<1> SUFFICES \/ UNCHANGED <<money, told>>
             \/ \E r \in Remittances :
                  \/ /\ UNCHANGED told
                     /\ \E to \in Promise!Places :
                          /\ money' = [money EXCEPT ![r] = to]
                          /\ \/ money[r] = "sender" /\ to = "held"
                             \/ money[r] = "held" /\ to \in {"committed", "returned"}
                             \/ money[r] = "committed" /\ to = "recipient"
                  \/ /\ UNCHANGED money
                     /\ \/ told' = [told EXCEPT ![r] = Promise!Truth(r)]
                        \/ told' = [told EXCEPT ![r] = "open"]
  BY Zenon DEF Promise!Next, Promise!promiseVars, Promise!Lock, Promise!Commit, Promise!PayOut,
     Promise!PayBack, Promise!Move, Promise!Tell, Promise!Withhold
<1>1. /\ row \in [Remittances -> Rows] /\ escrow \in [Remittances -> EscrowStates]
      /\ row' \in [Remittances -> Rows] /\ escrow' \in [Remittances -> EscrowStates]
  BY DEF DecisionsJustified, TypeOK
<1>2. CASE UNCHANGED <<row, escrow>>
  BY <1>2
<1>3. ASSUME UNCHANGED row,
             NEW r \in Remittances, \A s \in Remittances \ {r} : escrow'[s] = escrow[s]
      PROVE  \/ UNCHANGED <<money, told>>
             \/ /\ UNCHANGED told
                /\ \E to \in Promise!Places :
                     /\ money' = [money EXCEPT ![r] = to]
                     /\ \/ money[r] = "sender" /\ to = "held"
                        \/ money[r] = "held" /\ to \in {"committed", "returned"}
                        \/ money[r] = "committed" /\ to = "recipient"
  <2>1. EscrowMoves(escrow[r], escrow'[r])
    BY EscrowsMoveForward
  <2>2. UNCHANGED told /\ money[r] = MoneyOf[escrow[r]]
    BY <1>3
  <2>3. money' = [money EXCEPT ![r] = MoneyOf[escrow'[r]]]
    BY <1>3
  <2>4. MoneyOf[escrow'[r]] \in Promise!Places
    BY <1>1 DEF MoneyOf, EscrowStates, Promise!Places
  <2>5. CASE MoneyOf[escrow'[r]] = MoneyOf[escrow[r]]
    BY <2>2, <2>3, <2>5
  <2>6. CASE MoneyOf[escrow'[r]] # MoneyOf[escrow[r]]
    <3> DEFINE to == MoneyOf[escrow'[r]]
    <3>1. escrow[r] \in EscrowStates /\ escrow'[r] \in EscrowStates
      BY <1>1
    <3>2. \/ MoneyOf[escrow[r]] = "sender" /\ to = "held"
          \/ MoneyOf[escrow[r]] = "held" /\ to \in {"committed", "returned"}
          \/ MoneyOf[escrow[r]] = "committed" /\ to = "recipient"
      BY <2>1, <2>6, <3>1, MoneyMoves
    <3>3. to \in Promise!Places /\ money' = [money EXCEPT ![r] = to]
      BY <2>3, <2>4
    <3> HIDE DEF money, told, to
    <3> QED
      BY <2>2, <3>2, <3>3
  <2> QED
    BY <2>5, <2>6
<1>4. ASSUME UNCHANGED escrow,
             NEW r \in Remittances, \A s \in Remittances \ {r} : row'[s] = row[s]
      PROVE  /\ UNCHANGED money
             /\ \/ told' = [told EXCEPT ![r] = Promise!Truth(r)]
                \/ told' = [told EXCEPT ![r] = "open"]
  <2>1. UNCHANGED money
    BY <1>4
  <2>2. told' = [told EXCEPT ![r] = ToldBy(row'[r].status)]
    BY <1>4
  <2>3. row'[r].status = "RELEASED" => escrow[r] = "Released"
    BY <1>4 DEF DecisionsJustified, StatusBackedByEscrow, ReachedBy
  <2>4. row'[r].status = "REFUNDED" => escrow[r] = "Refunded"
    BY <1>4 DEF DecisionsJustified, StatusBackedByEscrow, ReachedBy
  <2>5. ToldBy(row'[r].status) \in {Promise!Truth(r), "open"}
    BY <2>3, <2>4 DEF ToldBy, Promise!Truth, MoneyOf
  <2> QED
    BY <2>1, <2>2, <2>5
<1> HIDE DEF money, told
<1> QED
  BY <1>2, <1>3, <1>4, OneThingChanges

\* The service, with any number of remittances, handlers and deaths, is an
\* implementation of EscrowPromise.
THEOREM PromiseIsKept == Spec => KeepsPromise
<1>1. Init => Promise!Init
  BY InitPromised
<1>2. DecisionsJustified /\ DecisionsJustified' /\ [Next]_vars
        => [Promise!Next]_(Promise!promiseVars)
  BY StepPromised
<1> QED
  BY <1>1, <1>2, DecisionsAlwaysJustified, PTL DEF Spec, KeepsPromise, Promise!Spec


-----------------------------------------------------------------------------
\* A settlement is seen through by the handler that authorized it

\* A step neither has a settlement of r decided twice nor drops it.
StaysInHand(r) == DecidedOnce(r)' /\ (Carried(r) => Carried(r)')

\* That is so if no handler comes to decide, and the one that carries the
\* settlement gives it up only when the escrow has moved on.
LEMMA NothingDecided ==
  ASSUME NEW r \in Remittances, DecidedOnce(r),
         escrow'[r] = "SettlementAuthorized" => escrow[r] = "SettlementAuthorized",
         row'[r].status = "SETTLEMENT_AUTHORIZED" => row[r].status = "SETTLEMENT_AUTHORIZED",
         \A q \in Requests : req'[q] = req[q] \/ ~Deciding(q, r)'
  PROVE  /\ DecidedOnce(r)'
         /\ (\A q \in Requests : \/ req'[q] = req[q]
                                 \/ Carrying(q, r) => escrow'[r] # "SettlementAuthorized")
            => StaysInHand(r)
<1>1. ASSUME NEW q \in Requests, Deciding(q, r)'
      PROVE  Deciding(q, r) /\ req'[q] = req[q]
  BY <1>1 DEF Deciding
<1>2. ASSUME NEW q \in Requests, Deciding(q, r)'
      PROVE  /\ row'[r].status # "SETTLEMENT_AUTHORIZED"
             /\ \A p \in Requests : Deciding(p, r)' => p = q
  BY <1>1, <1>2 DEF DecidedOnce
<1>3. DecidedOnce(r)'
  BY <1>2 DEF DecidedOnce
<1>4. ASSUME \A q \in Requests : \/ req'[q] = req[q]
                                 \/ Carrying(q, r) => escrow'[r] # "SettlementAuthorized",
             Carried(r), escrow'[r] = "SettlementAuthorized"
      PROVE  \E q \in Requests : Carrying(q, r)'
  <2>1. PICK q \in Requests : Carrying(q, r)
    BY <1>4 DEF Carried
  <2>2. req'[q] = req[q]
    BY <1>4, <2>1
  <2> QED
    BY <2>1, <2>2 DEF Carrying, Deciding
<1>5. (\A q \in Requests : \/ req'[q] = req[q]
                           \/ Carrying(q, r) => escrow'[r] # "SettlementAuthorized")
      => (Carried(r) => Carried(r)')
  BY <1>4 DEF Carried
<1> QED
  BY <1>3, <1>5 DEF StaysInHand

\* A contract call: an accepted settlement is carried from here on, an accepted
\* release ends it, and the contract refuses none that is carried.
LEMMA ContractCallInHand ==
  ASSUME DecisionsJustified, NEW r \in Remittances, DecidedOnce(r), NEW q \in Requests,
         ContractCall(q)
  PROVE  StaysInHand(r)
<1> DEFINE c == req[q]
           d == AfterCall(c)
<1>1. c # Idle /\ c.pc = "call" /\ CallAllowed(c)
  BY DEF ContractCall, At, Idle
<1>2. /\ c.op \in ContractOps /\ c \in RequestRecords /\ c.rem \in Remittances
      /\ req \in [Requests -> RequestRecords]
      /\ c.op # "create" => c.link = c.rem
  BY <1>1, AcceptedCall, Suspended
<1>3. escrow' = [escrow EXCEPT ![c.rem] = Effect[c.op]]
  BY <1>2 DEF ContractCall
<1>4. req' = [req EXCEPT ![q] = d] /\ req'[q] = d /\ UNCHANGED row
  BY <1>2 DEF ContractCall, otherVars
<1>5. /\ d.rem = c.rem /\ d.to = Target[c.op] /\ d.op = c.op
      /\ c.op \in {"settle", "release"} => d.link = c.rem
      /\ c.op = "settle" => d.pc = "check"
  BY <1>2 DEF AfterCall, RequestRecords
<1>6. escrow \in [Remittances -> EscrowStates]
  BY DEF DecisionsJustified, TypeOK
<1> HIDE DEF c, d
<1>7. CASE c.op = "settle" /\ c.rem = r
  <2>1. escrow[r] \in {"Funded", "Processing"}
    BY <1>1, <1>2, <1>7 DEF CallAllowed, AuthorizeAllowed
  <2>2. row[r].status # "SETTLEMENT_AUTHORIZED"
    BY <2>1 DEF DecisionsJustified, StatusBackedByEscrow, ReachedBy
  <2>3. ASSUME NEW p \in Requests PROVE ~Deciding(p, r)
    <3>1. SUFFICES ASSUME Deciding(p, r) PROVE FALSE
      OBVIOUS
    <3>2. req[p] # Idle /\ req[p].op # "payment"
      BY <3>1, Suspended DEF Deciding, Idle, WellFormed
    <3>3. escrow[r] \in ReachedBy["SETTLEMENT_AUTHORIZED"]
      BY <3>1, <3>2, Suspended DEF Deciding, Sound
    <3> QED
      BY <2>1, <3>3 DEF ReachedBy
  <2>4. Deciding(q, r)' /\ Carrying(q, r)'
    BY <1>4, <1>5, <1>7 DEF Deciding, Carrying, Target
  <2>5. ASSUME NEW p \in Requests, Deciding(p, r)' PROVE p = q
    <3>1. p # q => req'[p] = req[p]
      BY <1>4
    <3> QED
      BY <2>3, <2>5, <3>1 DEF Deciding
  <2> QED
    BY <1>4, <2>2, <2>4, <2>5 DEF StaysInHand, DecidedOnce, Carried
<1>8. CASE ~(c.op = "settle" /\ c.rem = r)
  <2>1. ~Deciding(q, r)'
    BY <1>2, <1>4, <1>5, <1>8 DEF Deciding, Target, ContractOps
  <2>2. escrow'[r] = "SettlementAuthorized" => escrow[r] = "SettlementAuthorized"
    BY <1>2, <1>3, <1>6, <1>8 DEF Effect, ContractOps
  <2>3. Carrying(q, r) => escrow'[r] # "SettlementAuthorized"
    <3>1. Carrying(q, r) => c.rem = r /\ c.op = "release"
      BY <1>1 DEF Carrying, Deciding, c
    <3> QED
      BY <1>2, <1>3, <1>6, <3>1 DEF Effect
  <2>4. \A p \in Requests \ {q} : req'[p] = req[p]
    BY <1>2, <1>4
  <2> QED
    BY <1>4, <2>1, <2>2, <2>3, <2>4, NothingDecided
<1> QED
  BY <1>7, <1>8

LEMMA CallRejectedInHand ==
  ASSUME DecisionsJustified, NEW r \in Remittances, DecidedOnce(r), NEW q \in Requests,
         CallRejected(q)
  PROVE  StaysInHand(r)
<1>1. UNCHANGED <<row, escrow>> /\ req' = [req EXCEPT ![q] = Idle]
  BY DEF CallRejected, Finish, ledgerVars, otherVars
<1>2. \A p \in Requests \ {q} : req'[p] = req[p]
  BY <1>1
<1>3. ~Deciding(q, r)'
  BY <1>1 DEF Deciding, Idle, DecisionsJustified, TypeOK
<1>4. Carrying(q, r) => escrow'[r] # "SettlementAuthorized"
  BY <1>1 DEF Carrying, Deciding, CallRejected, At, CallAllowed, ReleaseAllowed, SignerNotFound
<1> QED
  BY <1>1, <1>2, <1>3, <1>4, NothingDecided

\* setState's SELECT cannot refuse a settlement in hand: the row is neither
\* CREATED nor EXPIRED nor already marked, nor shows an outcome.
LEMMA SetStateCheckInHand ==
  ASSUME DecisionsJustified, NEW r \in Remittances, DecidedOnce(r), NEW q \in Requests,
         SetStateCheck(q)
  PROVE  StaysInHand(r)
<1> DEFINE c == req[q]
<1>1. c # Idle /\ c.pc = "check" /\ UNCHANGED <<row, escrow>>
  BY DEF SetStateCheck, At, Idle, ledgerVars, otherVars
<1>2. /\ req \in [Requests -> RequestRecords] /\ c \in RequestRecords
      /\ c.rem \in Remittances /\ row[c.rem].status \in Statuses
      /\ \A p \in Requests \ {q} : req'[p] = req[p]
  BY <1>1, Suspended DEF SetStateCheck, Continue, Finish
<1>3. CASE CanTransition(row[c.rem].status, c.to)
  <2>1. req'[q] = [c EXCEPT !.pc = "write", !.to = c.to]
    BY <1>2, <1>3 DEF SetStateCheck, Continue
  <2>2. /\ req'[q].op = c.op /\ req'[q].rem = c.rem /\ req'[q].to = c.to
        /\ req'[q].link = c.link /\ req'[q].pc = "write"
    BY <1>2, <2>1 DEF RequestRecords
  <2>3. \A p \in Requests : (Deciding(p, r)' <=> Deciding(p, r))
    BY <1>1, <1>2, <2>2 DEF Deciding
  <2>4. \A p \in Requests : Carrying(p, r) => Carrying(p, r)'
    BY <1>1, <1>2, <2>2, <2>3 DEF Carrying
  <2> QED
    BY <1>1, <2>3, <2>4 DEF StaysInHand, DecidedOnce, Carried
<1>4. CASE ~CanTransition(row[c.rem].status, c.to)
  <2>1. req' = [req EXCEPT ![q] = Idle] /\ req'[q] = Idle
    BY <1>2, <1>4 DEF SetStateCheck, Finish
  <2>2. ~Deciding(q, r)'
    BY <2>1 DEF Deciding, Idle
  <2>3. Carrying(q, r) => escrow'[r] # "SettlementAuthorized"
    <3>1. SUFFICES ASSUME Carrying(q, r), escrow[r] = "SettlementAuthorized" PROVE FALSE
      BY <1>1
    <3>2. Deciding(q, r) /\ c.rem = r
      BY <1>1, <3>1 DEF Carrying, Deciding
    <3>3. row[r].status \notin {"SETTLEMENT_AUTHORIZED", "CREATED", "EXPIRED", "REFUNDED", "RELEASED"}
      BY <1>1, <3>1, <3>2 DEF DecidedOnce, DecisionsJustified, CorridorNeedsFundedRow,
         ExpiringInv, Expiring, StatusBackedByEscrow, ReachedBy
    <3>4. row[r].status \in {"FUNDED", "PROCESSING"}
      BY <1>2, <3>2, <3>3 DEF Statuses
    <3> QED
      BY <1>4, <3>2, <3>4 DEF CanTransition, AllowedTransitions, Deciding
  <2> QED
    BY <1>1, <1>2, <2>2, <2>3, NothingDecided
<1> QED
  BY <1>3, <1>4


\* The UPDATE: only the handler in charge marks a settlement, and goes on.
LEMMA StatusWriteInHand ==
  ASSUME DecisionsJustified, NEW r \in Remittances, DecidedOnce(r), NEW q \in Requests,
         StatusWrite(q)
  PROVE  StaysInHand(r)
<1> DEFINE c == req[q]
           d == AfterWrite(c)
<1>1. c # Idle /\ c.pc = "write" /\ UNCHANGED escrow
  BY DEF StatusWrite, At, Idle, ledgerVars, otherVars
<1>2. /\ req \in [Requests -> RequestRecords] /\ c \in RequestRecords
      /\ c.rem \in Remittances /\ row[c.rem] \in Rows /\ row[c.rem] # NoRow
      /\ c.link \in {c.rem, NoRemittance}
  BY <1>1, Suspended
<1>3. req' = [req EXCEPT ![q] = d] /\ req'[q] = d /\ \A p \in Requests \ {q} : req'[p] = req[p]
  BY <1>2 DEF StatusWrite
<1>4. row'[c.rem].status = c.to /\ \A s \in Remittances \ {c.rem} : row'[s] = row[s]
  <2>1. row \in [Remittances -> Rows] /\ row[c.rem] \in Rows \ {NoRow}
    BY <1>2 DEF DecisionsJustified, TypeOK
  <2>2. row[c.rem] \in [status : Statuses, lifecycle : LifecyclePhases, link : RemittanceOrNone]
    BY <2>1 DEF Rows
  <2> QED
    BY <1>2, <2>1, <2>2 DEF StatusWrite
<1>5. ~Deciding(q, r)'
  BY <1>2, <1>3 DEF AfterWrite, Deciding, Idle, RequestRecords
<1>6. CASE Deciding(q, r)
  <2>1. \A p \in Requests : ~Deciding(p, r)'
    <3>1. \A p \in Requests \ {q} : ~Deciding(p, r)
      BY <1>6 DEF DecidedOnce
    <3> QED
      BY <1>3, <1>5, <3>1 DEF Deciding
  <2>2. ASSUME escrow[r] = "SettlementAuthorized", Carried(r)
        PROVE  \E p \in Requests : Carrying(p, r)'
    <3>1. PICK p \in Requests : Carrying(p, r)
      BY <2>2 DEF Carried
    <3>2. CASE p = q
      <4>1. c.link = r /\ d = [c EXCEPT !.op = "release", !.pc = "call", !.to = "NONE"]
        BY <1>6, <3>1, <3>2 DEF Carrying, Deciding, AfterWrite
      <4>2. d.link = r /\ d.rem = r /\ d.op = "release" /\ d.pc = "call"
        BY <1>2, <1>6, <4>1 DEF Deciding, RequestRecords
      <4> QED
        BY <1>3, <4>2 DEF Carrying
    <3>3. CASE p # q
      BY <1>3, <3>1, <3>3 DEF Carrying, Deciding
    <3> QED
      BY <3>2, <3>3
  <2> QED
    BY <1>1, <2>1, <2>2 DEF StaysInHand, DecidedOnce, Carried
<1>7. CASE ~Deciding(q, r)
  <2>1. row'[r].status = "SETTLEMENT_AUTHORIZED" => row[r].status = "SETTLEMENT_AUTHORIZED"
    BY <1>1, <1>4, <1>7 DEF Deciding
  <2>2. ~Carrying(q, r)
    BY <1>1, <1>7 DEF Carrying
  <2> QED
    BY <1>1, <1>3, <1>5, <2>1, <2>2, NothingDecided
<1> QED
  BY <1>6, <1>7

\* The other steps of a running handler decide nothing of a settlement.
LEMMA OtherHandlerStepsInHand ==
  ASSUME DecisionsJustified, NEW r \in Remittances, DecidedOnce(r), NEW q \in Requests,
         \/ PhaseWrite(q) \/ RecordContractId(q)
         \/ AuthorizeAndRelease(q) \/ ReentryQuery(q)
         \/ RelaySubmit(q) \/ RelayReload(q) \/ WaitForTransaction(q)
         \/ VerifyRelay(q) \/ ReconcileCreate(q)
  PROVE  StaysInHand(r)
<1> DEFINE c == req[q]
<1>1. c # Idle
  BY DEF PhaseWrite, RecordContractId, AuthorizeAndRelease, ReentryQuery, RelaySubmit,
     RelayReload, WaitForTransaction, VerifyRelay, ReconcileCreate, At, Idle
<1>2. /\ c \in RequestRecords /\ c.rem \in Remittances /\ WellFormed(c)
      /\ req \in [Requests -> RequestRecords] /\ row \in [Remittances -> Rows]
      /\ escrow \in [Remittances -> EscrowStates]
  BY <1>1, Suspended DEF DecisionsJustified, TypeOK
<1>4. ~Carrying(q, r)
  <2>1. c.pc # "call"
    BY DEF PhaseWrite, RecordContractId, AuthorizeAndRelease, ReentryQuery, RelaySubmit,
       RelayReload, WaitForTransaction, VerifyRelay, ReconcileCreate, At
  <2>2. ~Deciding(q, r)
    BY <1>2 DEF PhaseWrite, RecordContractId, AuthorizeAndRelease, ReentryQuery, RelaySubmit,
       RelayReload, WaitForTransaction, VerifyRelay, ReconcileCreate, At, Deciding, WellFormed
  <2> QED
    BY <2>1, <2>2 DEF Carrying
<1>5. row'[r].status = row[r].status
  <2>1. CASE PhaseWrite(q) \/ RecordContractId(q)
    <3>1. row[c.rem] \in Rows
      BY <1>2
    <3>2. row'[c.rem].status = row[c.rem].status
      BY <1>2, <2>1, <3>1 DEF PhaseWrite, RecordContractId, Rows, NoRow
    <3>3. r # c.rem => row'[r] = row[r]
      BY <1>2, <2>1 DEF PhaseWrite, RecordContractId
    <3> QED
      BY <3>2, <3>3
  <2>2. CASE ~(PhaseWrite(q) \/ RecordContractId(q))
    BY <2>2 DEF AuthorizeAndRelease, ReentryQuery, RelaySubmit, RelayReload,
       WaitForTransaction, VerifyRelay, ReconcileCreate
  <2> QED
    BY <2>1, <2>2
<1>6. escrow'[r] = "SettlementAuthorized" => escrow[r] = "SettlementAuthorized"
  <2>1. CASE RelaySubmit(q)
    <3>1. c.op \in RelayOps
      BY <1>2, <2>1 DEF RelaySubmit, At, WellFormed
    <3>2. EnvelopeEffect[c.op] # "SettlementAuthorized"
      BY <3>1 DEF EnvelopeEffect, RelayOps
    <3> QED
      BY <1>2, <2>1, <3>2 DEF RelaySubmit, ledgerVars
  <2>2. CASE ~RelaySubmit(q)
    BY <2>2 DEF PhaseWrite, RecordContractId, AuthorizeAndRelease, ReentryQuery, RelayReload,
       WaitForTransaction, VerifyRelay, ReconcileCreate, ledgerVars
  <2> QED
    BY <2>1, <2>2
<1>7. ~Deciding(q, r)'
  <2>1. req'[q] = Idle \/ req'[q].pc \notin {"check", "write"}
          \/ req'[q].to \in {"RELEASED", "FUNDED", "REFUNDED"}
    <3>1. CASE PhaseWrite(q) \/ RecordContractId(q)
      BY <1>2, <3>1 DEF PhaseWrite, RecordContractId, Finish
    <3>2. CASE AuthorizeAndRelease(q)
      BY <1>2, <3>2 DEF AuthorizeAndRelease, RequestRecords, Idle
    <3>3. CASE ReentryQuery(q)
      BY <1>2, <3>3 DEF ReentryQuery, Continue, Finish, RequestRecords
    <3>4. CASE RelaySubmit(q)
      BY <1>2, <3>4 DEF RelaySubmit, Continue, Finish, RequestRecords
    <3>5. CASE RelayReload(q)
      BY <1>2, <3>5 DEF RelayReload, Loaded, RequestRecords
    <3>6. ConfirmTarget(c) \in {"NONE", "FUNDED", "REFUNDED"}
      BY DEF ConfirmTarget
    <3>7. Advance(q) => req'[q] = Idle \/ req'[q].to \in {"FUNDED", "REFUNDED"}
      BY <1>2, <3>6 DEF Advance, Continue, Finish, RequestRecords
    <3>8. CASE WaitForTransaction(q)
      <4>1. \/ Advance(q) \/ Finish(q)
            \/ Continue(q, "verify", "NONE") \/ Continue(q, "match", "NONE")
        BY <3>8 DEF WaitForTransaction
      <4>2. Finish(q) => req'[q] = Idle
        BY <1>2 DEF Finish
      <4>3. Continue(q, "verify", "NONE") \/ Continue(q, "match", "NONE") =>
              req'[q].pc \in {"verify", "match"}
        BY <1>2 DEF Continue, RequestRecords
      <4> QED
        BY <3>7, <4>1, <4>2, <4>3
    <3>9. CASE VerifyRelay(q)
      BY <1>2, <3>7, <3>9 DEF VerifyRelay, Finish
    <3>10. CASE ReconcileCreate(q)
      BY <1>2, <3>10 DEF ReconcileCreate, RequestRecords, Idle
    <3> QED
      BY <3>1, <3>2, <3>3, <3>4, <3>5, <3>8, <3>9, <3>10
  <2> QED
    BY <2>1 DEF Deciding, Idle
<1>8. \A p \in Requests \ {q} : req'[p] = req[p]
  BY <1>2 DEF PhaseWrite, RecordContractId, AuthorizeAndRelease, ReentryQuery, RelaySubmit,
     RelayReload, WaitForTransaction, VerifyRelay, ReconcileCreate, Continue, Finish, Advance
<1> QED
  BY <1>4, <1>5, <1>6, <1>7, <1>8, NothingDecided

\* A handler that starts or dies decides nothing.
LEMMA StartInHand ==
  ASSUME DecisionsJustified, NEW r \in Remittances, DecidedOnce(r), NEW q \in Requests,
         NEW s \in Remittances, Start(q, s)
  PROVE  StaysInHand(r)
<1>1. /\ req[q] = Idle /\ UNCHANGED escrow
      /\ \A p \in Requests \ {q} : req'[p] = req[p]
      /\ row'[r].status = "SETTLEMENT_AUTHORIZED" => row[r].status = "SETTLEMENT_AUTHORIZED"
  <2>1. row \in [Remittances -> Rows] /\ req \in [Requests -> RequestRecords]
    BY DEF DecisionsJustified, TypeOK
  <2>2. CASE Create(q, s)
    BY <2>1, <2>2 DEF Create, ledgerVars
  <2>3. CASE ~Create(q, s)
    BY <2>1, <2>3 DEF Start, Fund, BeginProcessing, OnAnchorStatus, Release, Refund,
       ExpirySweep, Confirm, Relay, ApplyPaymentEvent, Begin, ledgerVars, otherVars
  <2> QED
    BY <2>2, <2>3
<1>2. req'[q].to # "SETTLEMENT_AUTHORIZED"
  <2>1. req \in [Requests -> RequestRecords]
    BY DEF DecisionsJustified, TypeOK
  <2>2. CASE Create(q, s)
    BY <1>1, <2>1, <2>2 DEF Create, Started, Idle
  <2>3. CASE ApplyPaymentEvent(q, s)
    BY <2>1, <2>3 DEF ApplyPaymentEvent, Begin, Started, PaymentPhase
  <2>4. CASE Confirm(q, s)
    BY <2>1, <2>4 DEF Confirm, Begin, Started, Loaded
  <2>5. CASE ~Create(q, s) /\ ~ApplyPaymentEvent(q, s) /\ ~Confirm(q, s)
    BY <2>1, <2>5 DEF Start, Fund, BeginProcessing, OnAnchorStatus, Release, Refund,
       ExpirySweep, Relay, Begin, Started
  <2> QED
    BY <2>2, <2>3, <2>4, <2>5
<1>3. ~Carrying(q, r) /\ ~Deciding(q, r)'
  BY <1>1, <1>2 DEF Carrying, Deciding, Idle
<1> QED
  BY <1>1, <1>3, NothingDecided

\* A handler that dies drops the settlement it was carrying, if any.
LEMMA AbortDrops ==
  ASSUME DecisionsJustified, NEW r \in Remittances, DecidedOnce(r), NEW q \in Requests, Abort(q)
  PROVE  /\ DecidedOnce(r)'
         /\ Carried(r) /\ r # req[q].rem => Carried(r)'
<1>1. UNCHANGED <<row, escrow>>
  BY DEF Abort, ledgerVars
<1>2. req'[q] = Idle /\ \A p \in Requests \ {q} : req'[p] = req[p]
  BY DEF Abort, Finish, DecisionsJustified, TypeOK
<1>3. ~Deciding(q, r)'
  BY <1>2 DEF Deciding, Idle
<1>4. r # req[q].rem => ~Carrying(q, r)
  BY DEF Carrying, Deciding
<1> QED
  BY <1>1, <1>2, <1>3, <1>4, NothingDecided DEF StaysInHand

LEMMA EnvironmentInHand ==
  ASSUME DecisionsJustified, NEW r \in Remittances, DecidedOnce(r), NEW s \in Remittances,
         Environment(s)
  PROVE  StaysInHand(r)
<1>1. UNCHANGED <<row, req>>
  BY DEF Environment, PrepareFund, PrepareRefund, AppSubmits, PublicCall, Expire,
     SenderSplits, LedgerExpire, otherVars
<1>2. escrow'[r] = "SettlementAuthorized" => escrow[r] = "SettlementAuthorized"
  <2>1. escrow \in [Remittances -> EscrowStates]
    BY DEF DecisionsJustified, TypeOK
  <2>2. CASE UNCHANGED escrow
    BY <2>2
  <2>3. CASE AppSubmits(s)
    <3>1. PICK op \in RelayOps : escrow' = [escrow EXCEPT ![s] = EnvelopeEffect[op]]
      BY <2>3 DEF AppSubmits, RelayOps
    <3>2. EnvelopeEffect[op] # "SettlementAuthorized"
      BY <3>1 DEF EnvelopeEffect, RelayOps
    <3> QED
      BY <2>1, <3>1, <3>2
  <2>4. CASE PublicCall(s)
    BY <2>1, <2>4 DEF PublicCall
  <2> QED
    BY <2>2, <2>3, <2>4 DEF Environment, PrepareFund, PrepareRefund, Expire, SenderSplits, LedgerExpire,
       ledgerVars
<1> QED
  BY <1>1, <1>2, NothingDecided

\* A step keeps every settlement in hand, or a handler dies.
LEMMA NextInHand ==
  ASSUME DecisionsJustified, [Next]_vars, NEW r \in Remittances, DecidedOnce(r)
  PROVE  StaysInHand(r) \/ \E q \in Requests : Abort(q)
<1>1. ASSUME NEW q \in Requests, Step(q) PROVE StaysInHand(r)
  BY <1>1, ContractCallInHand, CallRejectedInHand, SetStateCheckInHand, StatusWriteInHand,
     OtherHandlerStepsInHand DEF Step
<1>2. CASE UNCHANGED vars
  BY <1>2, NothingDecided DEF vars
<1> QED
  BY <1>1, <1>2, StartInHand, EnvironmentInHand DEF Next

\* The settlements that a step drops: none, or one by a handler's death.
LEMMA DroppedStep ==
  ASSUME DecisionsJustified, [Next]_vars, \A r \in Remittances : DecidedOnce(r)
  PROVE  /\ \A r \in Remittances : DecidedOnce(r)'
         /\ \/ Dropped' \subseteq Dropped /\ aborts' >= aborts
            \/ /\ aborts' = aborts + 1
               /\ \E s : Dropped' \subseteq Dropped \union {s}
<1>1. aborts \in Nat
  BY ConstantsAssumption DEF DecisionsJustified, TypeOK
<1>2. ASSUME NEW q \in Requests, Abort(q)
      PROVE  /\ \A r \in Remittances : DecidedOnce(r)'
             /\ aborts' = aborts + 1
             /\ Dropped' \subseteq Dropped \union {req[q].rem}
  BY <1>2, AbortDrops DEF Abort, Dropped
<1>3. CASE ~\E q \in Requests : Abort(q)
  <2>1. \A r \in Remittances : StaysInHand(r)
    BY <1>3, NextInHand
  <2>2. UNCHANGED aborts
    <3>1. ASSUME NEW q \in Requests, Step(q) PROVE UNCHANGED aborts
      <4>1. CASE ContractCall(q) \/ CallRejected(q) \/ SetStateCheck(q) \/ StatusWrite(q)
        BY <4>1 DEF ContractCall, CallRejected, SetStateCheck, StatusWrite, otherVars
      <4>2. CASE \/ PhaseWrite(q) \/ RecordContractId(q) \/ AuthorizeAndRelease(q)
                 \/ ReentryQuery(q) \/ RelaySubmit(q)
        BY <4>2 DEF PhaseWrite, RecordContractId, AuthorizeAndRelease, ReentryQuery, RelaySubmit,
                    otherVars
      <4>3. CASE \/ RelayReload(q) \/ WaitForTransaction(q) \/ VerifyRelay(q)
                 \/ ReconcileCreate(q)
        BY <4>3 DEF RelayReload, WaitForTransaction, VerifyRelay, ReconcileCreate, otherVars
      <4> QED
        BY <3>1, <4>1, <4>2, <4>3 DEF Step
    <3>2. ASSUME NEW q \in Requests, NEW r \in Remittances, Start(q, r) PROVE UNCHANGED aborts
      BY <3>2 DEF Start, Create, Fund, BeginProcessing, OnAnchorStatus, Release, Refund,
                  ExpirySweep, Confirm, Relay, ApplyPaymentEvent, otherVars
    <3>3. ASSUME NEW r \in Remittances, Environment(r) PROVE UNCHANGED aborts
      BY <3>3 DEF Environment, PrepareFund, PrepareRefund, AppSubmits, PublicCall, Expire,
                  SenderSplits, LedgerExpire, otherVars
    <3> QED
      BY <1>3, <3>1, <3>2, <3>3 DEF Next, vars
  <2> QED
    BY <1>1, <2>1, <2>2 DEF StaysInHand, Dropped
<1> QED
  BY <1>2, <1>3

-----------------------------------------------------------------------------
\* The release comes after the settlement was recorded

\* What a step makes of the operation a handler is at, and of what it is to write.
GoesOnAs(c, d, q) ==
  \/ d = Idle
  \/ /\ c # Idle /\ d.rem = c.rem /\ d.op = c.op
     /\ \/ /\ ContractCall(q) /\ c.pc = "call" /\ d.to = Target[c.op]
           /\ d.pc \notin {"query", "call"} /\ (d.pc = "write" => c.op = "sweep")
        \/ /\ d.to = c.to /\ d.pc \notin {"query", "check", "write"}
           /\ d.pc = "call" => c.pc = "read"
        \/ /\ d.to = c.to /\ c.pc = "check" /\ d.pc = "write"
           /\ CanTransition(row[c.rem].status, c.to)
        \/ d.to = c.to /\ d.pc = "query" /\ row[c.rem].status = "SETTLEMENT_AUTHORIZED"
        \/ d.to \in {"NONE", "FUNDED", "REFUNDED"} /\ d.pc \notin {"query", "call", "write"}
        \/ d.to = "RELEASED" /\ c.pc = "query" /\ d.pc = "check"
  \/ /\ StatusWrite(q) /\ c # Idle /\ d.rem = c.rem
     /\ c.to = "SETTLEMENT_AUTHORIZED" /\ c.pc = "write"
     /\ d.to = "NONE" /\ d.pc = "call" /\ d.op = "release"
  \/ /\ c = Idle /\ d.pc # "query"
     /\ d.to \notin {"PROCESSING", "SETTLEMENT_AUTHORIZED", "RELEASED"}
     /\ d.op = "release" => row[d.rem].status = "SETTLEMENT_AUTHORIZED"
     /\ d.op = "sweep" => row[d.rem].status \in {"CREATED", "FUNDED", "PROCESSING"}
     /\ d.pc = "write" => d.op \in {"sweep", "payment"}

\* Handlers that start.
LEMMA StartsAs ==
  ASSUME DecisionsJustified, NEW q \in Requests, NEW s \in Remittances, Start(q, s)
  PROVE  GoesOnAs(req[q], req'[q], q)
<1>1. req \in [Requests -> RequestRecords]
  BY DEF DecisionsJustified, TypeOK
<1>2. CASE Create(q, s)
  BY <1>1, <1>2 DEF Create, Started, GoesOnAs
<1>3. CASE ApplyPaymentEvent(q, s)
  BY <1>1, <1>3 DEF ApplyPaymentEvent, Begin, Started, PaymentPhase, GoesOnAs
<1>4. CASE Confirm(q, s)
  BY <1>1, <1>4 DEF Confirm, Begin, Started, Loaded, GoesOnAs
<1>5. CASE ~Create(q, s) /\ ~ApplyPaymentEvent(q, s) /\ ~Confirm(q, s)
  BY <1>1, <1>5 DEF Start, Fund, BeginProcessing, OnAnchorStatus, Release, Refund,
     ExpirySweep, Relay, Begin, Started, GoesOnAs
<1> QED
  BY <1>2, <1>3, <1>4, <1>5

\* Handlers that go on.
LEMMA StepsAs ==
  ASSUME DecisionsJustified, NEW q \in Requests, Step(q)
  PROVE  GoesOnAs(req[q], req'[q], q)
<1> DEFINE c == req[q]
<1>1. c # Idle
  BY DEF Step, ContractCall, CallRejected, SetStateCheck, StatusWrite, PhaseWrite,
     RecordContractId, AuthorizeAndRelease, ReentryQuery, RelaySubmit, RelayReload,
     WaitForTransaction, VerifyRelay, ReconcileCreate, At, Idle
<1>2. c \in RequestRecords /\ req \in [Requests -> RequestRecords]
  BY <1>1, Suspended
<1>3. Finish(q) => req'[q] = Idle
  BY <1>2 DEF Finish
<1>4. ASSUME NEW pc, NEW to, Continue(q, pc, to)
      PROVE  req'[q].rem = c.rem /\ req'[q].op = c.op /\ req'[q].pc = pc /\ req'[q].to = to
  BY <1>2, <1>4 DEF Continue, RequestRecords
<1>5. ConfirmTarget(c) \in {"NONE", "FUNDED", "REFUNDED"}
  BY DEF ConfirmTarget
<1>6. Advance(q) => GoesOnAs(c, req'[q], q)
  BY <1>1, <1>3, <1>4, <1>5 DEF Advance, GoesOnAs
<1>7. CASE ContractCall(q)
  <2>1. req'[q] = AfterCall(c)
    BY <1>2, <1>7 DEF ContractCall
  <2>2. /\ req'[q].rem = c.rem /\ req'[q].op = c.op
        /\ req'[q].to = Target[c.op] /\ req'[q].pc \notin {"query", "call"}
        /\ req'[q].pc = "write" => c.op = "sweep"
    BY <1>2, <2>1 DEF AfterCall, RequestRecords
  <2> QED
    BY <1>1, <1>7, <2>2 DEF GoesOnAs, ContractCall, At
<1>8. CASE CallRejected(q)
  BY <1>3, <1>8 DEF CallRejected, GoesOnAs
<1>9. CASE SetStateCheck(q)
  BY <1>1, <1>3, <1>4, <1>9 DEF SetStateCheck, At, GoesOnAs
<1>10. CASE StatusWrite(q)
  <2>1. req'[q] = AfterWrite(c) /\ c.pc = "write"
    BY <1>2, <1>10 DEF StatusWrite, At
  <2> QED
    BY <1>1, <1>2, <1>10, <2>1 DEF AfterWrite, RequestRecords, GoesOnAs
<1>11. CASE PhaseWrite(q) \/ RecordContractId(q)
  BY <1>3, <1>11 DEF PhaseWrite, RecordContractId, GoesOnAs
<1>12. CASE AuthorizeAndRelease(q)
  <2>1. \/ req'[q] = Idle
        \/ /\ req'[q].rem = c.rem /\ req'[q].op = c.op /\ req'[q].to = c.to
           /\ \/ req'[q].pc = "call"
              \/ req'[q].pc = "query" /\ row[c.rem].status = "SETTLEMENT_AUTHORIZED"
    BY <1>2, <1>12 DEF AuthorizeAndRelease, RequestRecords
  <2> QED
    BY <1>1, <1>12, <2>1 DEF AuthorizeAndRelease, At, GoesOnAs
<1>13. CASE ReentryQuery(q)
  BY <1>1, <1>3, <1>4, <1>13 DEF ReentryQuery, At, GoesOnAs
<1>14. CASE RelaySubmit(q)
  BY <1>1, <1>3, <1>4, <1>14 DEF RelaySubmit, GoesOnAs
<1>15. CASE RelayReload(q) \/ ReconcileCreate(q)
  <2>1. \/ req'[q] = Idle
        \/ /\ req'[q].rem = c.rem /\ req'[q].op = c.op /\ req'[q].to = c.to
           /\ req'[q].pc \in {"wait", "link"}
    <3>1. CASE RelayReload(q)
      BY <1>2, <3>1 DEF RelayReload, Loaded, RequestRecords
    <3>2. CASE ReconcileCreate(q)
      <4>1. CASE newest # NoRemittance /\ IsOurs(newest, c.rem)
        BY <1>2, <3>2, <4>1 DEF ReconcileCreate, RequestRecords
      <4>2. CASE ~(newest # NoRemittance /\ IsOurs(newest, c.rem))
        BY <1>2, <3>2, <4>2 DEF ReconcileCreate, RequestRecords
      <4> QED
        BY <4>1, <4>2
    <3> QED
      BY <1>15, <3>1, <3>2
  <2> QED
    BY <1>1, <2>1 DEF GoesOnAs
<1>16. CASE WaitForTransaction(q)
  <2>1. \/ Advance(q) \/ Finish(q)
        \/ Continue(q, "verify", "NONE") \/ Continue(q, "match", "NONE")
    BY <1>16 DEF WaitForTransaction
  <2> QED
    BY <1>1, <1>3, <1>4, <1>6, <2>1 DEF GoesOnAs
<1>17. CASE VerifyRelay(q)
  BY <1>3, <1>6, <1>17 DEF VerifyRelay, GoesOnAs
<1> QED
  BY <1>7, <1>8, <1>9, <1>10, <1>11, <1>12, <1>13, <1>14, <1>15, <1>16, <1>17 DEF Step

\* A step moves one handler at most.
LEMMA OneHandlerSteps ==
  ASSUME DecisionsJustified, NEW q \in Requests,
         Step(q) \/ Abort(q) \/ \E s \in Remittances : Start(q, s)
  PROVE  \A p \in Requests \ {q} : req'[p] = req[p]
<1>1. req \in [Requests -> RequestRecords]
  BY DEF DecisionsJustified, TypeOK
<1>2. CASE Abort(q)
  BY <1>1, <1>2 DEF Abort, Finish
<1>3. ASSUME NEW s \in Remittances, Start(q, s)
      PROVE  \A p \in Requests \ {q} : req'[p] = req[p]
  BY <1>1, <1>3 DEF Start, Create, Fund, BeginProcessing, OnAnchorStatus, Release, Refund,
     ExpirySweep, Confirm, Relay, ApplyPaymentEvent, Begin
<1>4. CASE Step(q)
  BY <1>1, <1>4 DEF Step, ContractCall, CallRejected, SetStateCheck, StatusWrite, PhaseWrite,
     RecordContractId, AuthorizeAndRelease, ReentryQuery, RelaySubmit, RelayReload,
     WaitForTransaction, VerifyRelay, ReconcileCreate, Continue, Finish, Advance
<1> QED
  BY <1>2, <1>3, <1>4

\* Every step, for every handler.
LEMMA AllGoOn ==
  ASSUME DecisionsJustified, [Next]_vars, NEW p \in Requests
  PROVE  req'[p] = req[p] \/ GoesOnAs(req[p], req'[p], p)
<1>1. ASSUME NEW q \in Requests, Step(q) \/ Abort(q) \/ \E s \in Remittances : Start(q, s)
      PROVE  req'[p] = req[p] \/ GoesOnAs(req[p], req'[p], p)
  <2>1. CASE p # q
    BY <1>1, <2>1, OneHandlerSteps
  <2>2. CASE p = q /\ Abort(q)
    BY <2>2 DEF Abort, Finish, DecisionsJustified, TypeOK, GoesOnAs
  <2> QED
    BY <1>1, <2>1, <2>2, StepsAs, StartsAs
<1>2. ASSUME NEW s \in Remittances, Environment(s) PROVE UNCHANGED req
  BY <1>2 DEF Environment, PrepareFund, PrepareRefund, AppSubmits, PublicCall, Expire,
     SenderSplits, LedgerExpire, otherVars
<1> QED
  BY <1>1, <1>2 DEF Next, vars

\* Whoever comes to decide has had a settlement accepted.
LEMMA DecidingComes ==
  ASSUME DecisionsJustified, [Next]_vars, NEW r \in Remittances, NEW p \in Requests,
         Deciding(p, r)', ~Deciding(p, r)
  PROVE  escrow[r] \in {"Funded", "Processing"}
<1> DEFINE c == req[p]
           d == req'[p]
<1>1. d # c /\ d # Idle
  BY DEF Deciding, Idle
<1>2. /\ c # Idle /\ d.rem = c.rem /\ d.op = c.op
      /\ ContractCall(p) /\ c.pc = "call" /\ d.to = Target[c.op]
  BY <1>1, AllGoOn DEF GoesOnAs, Deciding
<1>3. c.op \in ContractOps /\ c.op = "settle" /\ c.rem = r
  <2>1. CallAllowed(c)
    BY <1>2 DEF ContractCall
  <2>2. c.op \in ContractOps
    BY <1>2, <2>1, AcceptedCall
  <2> QED
    BY <1>2, <2>2 DEF Deciding, Target, ContractOps
<1> QED
  BY <1>2, <1>3 DEF ContractCall, CallAllowed, AuthorizeAllowed

\* Whoever comes to finish a settlement has just recorded it, or it was recorded.
LEMMA FinishingComes ==
  ASSUME DecisionsJustified, [Next]_vars, NEW r \in Remittances, NEW p \in Requests,
         Finishing(p, r)', ~Recorded(r)
  PROVE  StatusWrite(p) /\ Deciding(p, r)
<1> DEFINE c == req[p]
           d == req'[p]
<1>1. ~Finishing(p, r) /\ row[r].status # "SETTLEMENT_AUTHORIZED"
  BY DEF Recorded
<1>2. d # c /\ d # Idle /\ d.rem = r
  BY <1>1, ConstantsAssumption DEF Finishing, Idle
<1>3. CASE c # Idle /\ d.rem = c.rem /\ d.op = c.op
  <2>1. ContractCall(p) /\ c # Idle => c.op \in ContractOps
    BY Suspended, AcceptedCall DEF ContractCall, At
  <2>2. c.op \in ContractOps /\ Target[c.op] = "RELEASED" => c.op = "release"
    BY DEF ContractOps, Target
  <2> QED
    BY <1>1, <1>2, <1>3, <2>1, <2>2, AllGoOn DEF GoesOnAs, Finishing
<1>4. CASE ~(c # Idle /\ d.rem = c.rem /\ d.op = c.op)
  BY <1>1, <1>2, <1>4, AllGoOn DEF GoesOnAs, Finishing, Deciding
<1> QED
  BY <1>3, <1>4

\* Only an INSERT and the status UPDATE change what a row tells.
LEMMA StatusChanges ==
  ASSUME DecisionsJustified, [Next]_vars, NEW r \in Remittances,
         row'[r].status # row[r].status
  PROVE  \/ row[r] = NoRow /\ row'[r].status = "CREATED"
         \/ \E q \in Requests :
              /\ StatusWrite(q) /\ req[q] # Idle
              /\ req[q].rem = r /\ req[q].pc = "write" /\ req[q].op # "payment"
              /\ row'[r].status = req[q].to
<1>1. row \in [Remittances -> Rows]
  BY DEF DecisionsJustified, TypeOK
<1>2. ASSUME NEW q \in Requests, StatusWrite(q)
      PROVE  /\ req[q] # Idle /\ req[q].pc = "write" /\ req[q].op # "payment"
             /\ req[q].rem = r /\ row'[r].status = req[q].to
  <2>1. req[q] # Idle /\ req[q].pc = "write" /\ req[q].op # "payment"
    BY <1>2 DEF StatusWrite, At, Idle
  <2>2. req[q].rem \in Remittances /\ row[req[q].rem] \in Rows \ {NoRow}
    BY <2>1, Suspended
  <2>3. \A s \in Remittances \ {req[q].rem} : row'[s] = row[s]
    BY <1>1, <1>2, <2>2 DEF StatusWrite
  <2>4. req[q].rem = r
    BY <2>3
  <2>5. row[r] \in [status : Statuses, lifecycle : LifecyclePhases, link : RemittanceOrNone]
    BY <2>2, <2>4 DEF Rows
  <2> QED
    BY <1>1, <1>2, <2>1, <2>4, <2>5 DEF StatusWrite
<1>3. ASSUME NEW q \in Requests, PhaseWrite(q) \/ RecordContractId(q)
      PROVE  row'[r].status = row[r].status
  <2>1. req[q] # Idle
    BY <1>3 DEF PhaseWrite, RecordContractId, At, Idle
  <2>2. req[q].rem \in Remittances /\ row[req[q].rem] \in Rows \ {NoRow}
    BY <2>1, Suspended
  <2>3. row'[req[q].rem].status = row[req[q].rem].status
    BY <1>1, <1>3, <2>2 DEF PhaseWrite, RecordContractId, Rows
  <2>4. \A s \in Remittances \ {req[q].rem} : row'[s] = row[s]
    BY <1>1, <1>3, <2>2 DEF PhaseWrite, RecordContractId
  <2> QED
    BY <2>3, <2>4
<1>4. ASSUME NEW q \in Requests, NEW s \in Remittances, Create(q, s)
      PROVE  row[r] = NoRow /\ row'[r].status = "CREATED"
  BY <1>1, <1>4 DEF Create
<1>5. ASSUME NEW q \in Requests, Step(q), ~StatusWrite(q), ~PhaseWrite(q), ~RecordContractId(q)
      PROVE  UNCHANGED row
  BY <1>5 DEF Step, ContractCall, CallRejected, SetStateCheck, AuthorizeAndRelease,
     ReentryQuery, RelaySubmit, RelayReload, WaitForTransaction, VerifyRelay, ReconcileCreate
<1>6. ASSUME NEW q \in Requests, NEW s \in Remittances, Start(q, s), ~Create(q, s)
      PROVE  UNCHANGED row
  BY <1>6 DEF Start, Fund, BeginProcessing, OnAnchorStatus, Release, Refund, ExpirySweep,
     Confirm, Relay, ApplyPaymentEvent
<1>7. ASSUME NEW q \in Requests, Abort(q) PROVE UNCHANGED row
  BY <1>7 DEF Abort
<1>8. ASSUME NEW s \in Remittances, Environment(s) PROVE UNCHANGED row
  BY <1>8 DEF Environment, PrepareFund, PrepareRefund, AppSubmits, PublicCall, Expire,
     SenderSplits, LedgerExpire
<1> QED
  BY <1>2, <1>3, <1>4, <1>5, <1>6, <1>7, <1>8 DEF Next, vars

\* A settlement stays recorded and undecided, and is recorded by the one handler
\* that decided it.
LEMMA FinishedStep ==
  ASSUME DecisionsJustified, [Next]_vars, NEW r \in Remittances, DecidedOnce(r),
         FinishedAfterwards(r)
  PROVE  FinishedAfterwards(r)'
<1> DEFINE Settled == {"SettlementAuthorized", "Released"}
<1> SUFFICES ASSUME Recorded(r)'
             PROVE  escrow'[r] \in Settled /\ \A p \in Requests : ~Deciding(p, r)'
  BY DEF FinishedAfterwards
<1>1. escrow[r] \in Settled => escrow'[r] \in Settled
  BY EscrowsMoveForward DEF EscrowMoves
<1>2. CASE Recorded(r)
  BY <1>1, <1>2, DecidingComes DEF FinishedAfterwards
<1>3. CASE ~Recorded(r)
  <2>1. PICK q \in Requests : StatusWrite(q) /\ Deciding(q, r)
    <3>1. ASSUME row'[r].status \in {"SETTLEMENT_AUTHORIZED", "RELEASED"}
          PROVE  \E q \in Requests : StatusWrite(q) /\ Deciding(q, r)
      <4>1. row'[r].status # row[r].status
        BY <1>3, <3>1 DEF Recorded
      <4>2. PICK q \in Requests :
              /\ StatusWrite(q) /\ req[q].rem = r /\ req[q].pc = "write"
              /\ row'[r].status = req[q].to
        BY <3>1, <4>1, StatusChanges
      <4>3. ~Finishing(q, r)
        BY <1>3 DEF Recorded
      <4> QED
        BY <3>1, <4>2, <4>3 DEF Finishing, Deciding
    <3> QED
      BY <1>3, <3>1, FinishingComes DEF Recorded
  <2>2. req[q] # Idle /\ req[q].pc = "write" /\ req[q].op # "payment"
    BY <2>1 DEF StatusWrite, At, Idle
  <2>3. escrow[r] \in Settled
    <3>1. escrow[r] \in ReachedBy["SETTLEMENT_AUTHORIZED"]
      BY <2>1, <2>2, Suspended DEF Deciding, Sound
    <3> QED
      BY <3>1 DEF ReachedBy
  <2>4. req'[q].pc \notin {"check", "write"} /\ \A p \in Requests \ {q} : req'[p] = req[p]
    BY <2>1, <2>2, Suspended DEF StatusWrite, Deciding, AfterWrite, RequestRecords
  <2>5. \A p \in Requests : ~Deciding(p, r)'
    BY <2>1, <2>4 DEF Deciding, DecidedOnce
  <2> QED
    BY <1>1, <2>3, <2>5
<1> QED
  BY <1>2, <1>3

\* A set that grows by one element at most while a count goes up by one keeps
\* within the count.
LEMMA CountKeepsUp ==
  ASSUME NEW A, NEW B, NEW n \in Nat, NEW m \in Nat,
         IsFiniteSet(A), Cardinality(A) <= n,
         \/ B \subseteq A /\ m >= n
         \/ m = n + 1 /\ \E s : B \subseteq A \union {s}
  PROVE  IsFiniteSet(B) /\ Cardinality(B) <= m
<1>1. Cardinality(A) \in Nat
  BY FS_CardinalityType
<1>2. CASE B \subseteq A /\ m >= n
  <2>1. IsFiniteSet(B) /\ Cardinality(B) <= Cardinality(A)
    BY <1>2, FS_Subset
  <2>2. Cardinality(B) \in Nat
    BY <2>1, FS_CardinalityType
  <2> QED
    BY <1>1, <1>2, <2>1, <2>2
<1>3. ASSUME NEW s, B \subseteq A \union {s}, m = n + 1
      PROVE  IsFiniteSet(B) /\ Cardinality(B) <= m
  <2>1. /\ IsFiniteSet(A \union {s})
        /\ Cardinality(A \union {s}) <= Cardinality(A) + 1
    BY <1>1, FS_AddElement
  <2>2. IsFiniteSet(B) /\ Cardinality(B) <= Cardinality(A \union {s})
    BY <1>3, <2>1, FS_Subset
  <2>3. Cardinality(B) \in Nat /\ Cardinality(A \union {s}) \in Nat
    BY <2>1, <2>2, FS_CardinalityType
  <2> QED
    BY <1>1, <1>3, <2>1, <2>2, <2>3
<1> QED
  BY <1>2, <1>3

\* The settlements in hand, the others being finitely many.
LEMMA SettlementsAreCounted == Spec => [](SettlementInHand /\ IsFiniteSet(Dropped))
<1> DEFINE Counted == SettlementInHand /\ IsFiniteSet(Dropped)
<1>1. Init => Counted
  <2> SUFFICES ASSUME Init PROVE Counted
    OBVIOUS
  <2>1. Dropped = {}
    BY DEF Init, Dropped, Carried
  <2> QED
    BY <2>1, FS_EmptySet, ConstantsAssumption
       DEF Init, SettlementInHand, DecidedOnce, Deciding, Idle, FinishedAfterwards, Recorded,
           Finishing, NoRow
<1>2. DecisionsJustified /\ DecisionsJustified' /\ Counted /\ [Next]_vars => Counted'
  <2> SUFFICES ASSUME DecisionsJustified, DecisionsJustified', Counted, [Next]_vars
               PROVE  Counted'
    OBVIOUS
  <2>1. aborts \in Nat /\ aborts' \in Nat
    BY ConstantsAssumption DEF DecisionsJustified, TypeOK
  <2>2. /\ \A r \in Remittances : DecidedOnce(r)'
        /\ \/ Dropped' \subseteq Dropped /\ aborts' >= aborts
           \/ aborts' = aborts + 1 /\ \E s : Dropped' \subseteq Dropped \union {s}
    BY DroppedStep DEF SettlementInHand
  <2>3. IsFiniteSet(Dropped') /\ Cardinality(Dropped') <= aborts'
    BY <2>1, <2>2, CountKeepsUp DEF SettlementInHand
  <2>4. \A r \in Remittances : FinishedAfterwards(r)'
    BY FinishedStep DEF SettlementInHand
  <2> QED
    BY <2>2, <2>3, <2>4 DEF SettlementInHand
<1> QED
  BY <1>1, <1>2, DecisionsAlwaysJustified, PTL DEF Spec

\* Whatever overlaps, a settlement is authorized once and seen through by the
\* handler that authorized it; of any number of settlements only as many are
\* dropped as handlers have died (authorizeAndRelease).
THEOREM SettlementsAreSeenThrough == Spec => []SettlementInHand
BY SettlementsAreCounted, PTL

\* The remittances whose payout is stuck: authorized on the ledger, not in the
\* row, and nobody at work on them.
Stuck ==
  {r \in Remittances :
     /\ escrow[r] = "SettlementAuthorized"
     /\ row[r].status # "SETTLEMENT_AUTHORIZED"
     /\ \A q \in Requests : req[q].rem # r}

\* No more payouts are ever stuck than handlers have died: the lost response is
\* the only way to lose a settlement (authorizeAndRelease, onAnchorStatus).
THEOREM StuckPayoutsAreCounted == Spec => [](Cardinality(Stuck) <= aborts)
<1>1. DecisionsJustified /\ SettlementInHand /\ IsFiniteSet(Dropped)
        => Cardinality(Stuck) <= aborts
  <2> SUFFICES ASSUME DecisionsJustified, SettlementInHand, IsFiniteSet(Dropped)
               PROVE  Cardinality(Stuck) <= aborts
    OBVIOUS
  <2>1. Stuck \subseteq Dropped
    BY DEF Stuck, Dropped, Carried, Carrying, Deciding
  <2>2. aborts \in Nat
    BY ConstantsAssumption DEF DecisionsJustified, TypeOK
  <2> QED
    BY <2>1, <2>2, CountKeepsUp DEF SettlementInHand
<1> QED
  BY <1>1, DecisionsAlwaysJustified, SettlementsAreCounted, PTL

\* In particular, as long as no handler dies a row mirrors the settlement of its
\* escrow whenever nobody is at work on it (authorizeAndRelease, onAnchorStatus).
THEOREM SettlementsAreMirrored ==
  ASSUME MaxAborts = 0
  PROVE  Spec => []SettlementMirrored
<1>1. DecisionsJustified /\ SettlementInHand /\ IsFiniteSet(Dropped) => SettlementMirrored
  <2> SUFFICES ASSUME DecisionsJustified, SettlementInHand, IsFiniteSet(Dropped)
               PROVE  SettlementMirrored
    OBVIOUS
  <2>1. aborts = 0
    BY DEF DecisionsJustified, TypeOK
  <2>2. Cardinality(Dropped) \in Nat
    BY FS_CardinalityType
  <2>3. Dropped = {}
    BY <2>1, <2>2, FS_EmptySet DEF SettlementInHand
  <2> QED
    BY <2>3 DEF SettlementMirrored, Dropped, Carried, Carrying, Deciding
<1> QED
  BY <1>1, DecisionsAlwaysJustified, SettlementsAreCounted, PTL

-----------------------------------------------------------------------------
\* Stale writes

\* Only whoever called start_processing is to write PROCESSING.
ProcessingIsMeant == \A q \in Requests : req[q].to = "PROCESSING" => req[q].op = "process"

LEMMA ProcessingStaysMeant == Spec => []ProcessingIsMeant
<1>1. Init => ProcessingIsMeant
  BY DEF Init, ProcessingIsMeant, Idle
<1>2. DecisionsJustified /\ ProcessingIsMeant /\ [Next]_vars => ProcessingIsMeant'
  <2> SUFFICES ASSUME DecisionsJustified, ProcessingIsMeant, [Next]_vars,
                      NEW q \in Requests, req'[q].to = "PROCESSING"
               PROVE  req'[q].op = "process"
    BY DEF ProcessingIsMeant
  <2>1. CASE req'[q] = req[q]
    BY <2>1 DEF ProcessingIsMeant
  <2>2. CASE req'[q] # req[q]
    <3>1. GoesOnAs(req[q], req'[q], q) /\ req'[q] # Idle
      BY <2>2, AllGoOn DEF Idle
    <3>2. req[q] # Idle /\ req'[q].op = req[q].op
      BY <3>1 DEF GoesOnAs
    <3>3. CASE req[q].to = "PROCESSING"
      BY <3>2, <3>3 DEF ProcessingIsMeant
    <3>4. CASE req[q].to # "PROCESSING"
      <4>1. ContractCall(q) /\ Target[req[q].op] = "PROCESSING"
        BY <3>1, <3>2, <3>4 DEF GoesOnAs
      <4>2. req[q].op \in ContractOps
        BY <3>2, <4>1, AcceptedCall DEF ContractCall, At
      <4> QED
        BY <3>2, <4>1, <4>2 DEF Target, ContractOps
    <3> QED
      BY <3>3, <3>4
  <2> QED
    BY <2>1, <2>2
<1> QED
  BY <1>1, <1>2, DecisionsAlwaysJustified, PTL DEF Spec

\* What a status UPDATE may find in its row, by what it is to write there.
LEMMA WritesFind ==
  ASSUME DecisionsJustified, SettlementInHand, ProcessingIsMeant,
         NEW q \in Requests, req[q] # Idle, req[q].pc = "write", req[q].op # "payment"
  PROVE  LET from == row[req[q].rem].status
             to   == req[q].to
         IN  /\ from \in Statuses /\ to \in Statuses \ {"CREATED"}
             /\ to = "PROCESSING" => from # "CREATED"
             /\ to = "SETTLEMENT_AUTHORIZED" => from \in {"FUNDED", "PROCESSING"}
             /\ to = "RELEASED" =>
                  from \in {"FUNDED", "PROCESSING", "SETTLEMENT_AUTHORIZED", "RELEASED"}
             /\ to \in {"REFUNDED", "EXPIRED"} =>
                  from \notin {"SETTLEMENT_AUTHORIZED", "RELEASED"}
<1> DEFINE c == req[q]
           r == c.rem
           from == row[r].status
<1>1. /\ r \in Remittances /\ from \in Statuses /\ c.to \in Statuses \ {"CREATED"}
      /\ c.op = "process" => from # "CREATED"
      /\ escrow[r] \in ReachedBy[c.to] /\ escrow[r] \in ReachedBy[from]
  BY Suspended DEF WellFormed, Sound, DecisionsJustified, StatusBackedByEscrow
<1>2. c.to = "PROCESSING" => from # "CREATED"
  BY <1>1 DEF ProcessingIsMeant
<1>3. ASSUME escrow[r] \in {"SettlementAuthorized", "Released"}
      PROVE  from \notin {"CREATED", "REFUNDED", "EXPIRED"}
  BY <1>1, <1>3 DEF DecisionsJustified, CorridorNeedsFundedRow, ExpiringInv, Expiring, ReachedBy
<1>4. ASSUME c.to = "SETTLEMENT_AUTHORIZED" PROVE from \in {"FUNDED", "PROCESSING"}
  <2>1. Deciding(q, r)
    BY <1>4 DEF Deciding
  <2>2. from \notin {"SETTLEMENT_AUTHORIZED", "RELEASED"}
    BY <1>1, <2>1 DEF SettlementInHand, FinishedAfterwards, Recorded
  <2> QED
    BY <1>1, <1>3, <1>4, <2>2 DEF ReachedBy, Statuses
<1>5. ASSUME c.to = "RELEASED"
      PROVE  from \in {"FUNDED", "PROCESSING", "SETTLEMENT_AUTHORIZED", "RELEASED"}
  BY <1>1, <1>3, <1>5 DEF ReachedBy, Statuses
<1>6. ASSUME c.to \in {"REFUNDED", "EXPIRED"}
      PROVE  from \notin {"SETTLEMENT_AUTHORIZED", "RELEASED"}
  <2>1. escrow[r] \notin {"SettlementAuthorized", "Released"}
    BY <1>1, <1>6 DEF DecisionsJustified, ExpiringInv, Expiring, ReachedBy
  <2> QED
    BY <1>1, <2>1 DEF ReachedBy
<1> QED
  BY <1>1, <1>2, <1>4, <1>5, <1>6

\* setState checks and writes in two steps, and the row may change in between;
\* whatever it changes to, only the moves of LateMoves come through that are not
\* ALLOWED_TRANSITIONS (setState, expirySweep).
THEOREM StaleWritesAreLate == Spec => OnlyLateMovesAreIllegal
<1>1. DecisionsJustified /\ SettlementInHand /\ ProcessingIsMeant /\ [Next]_vars =>
        [\A r \in Remittances :
           row[r] # NoRow /\ row'[r].status # row[r].status =>
             \/ CanTransition(row[r].status, row'[r].status)
             \/ <<row[r].status, row'[r].status>> \in LateMoves]_vars
  <2> SUFFICES ASSUME DecisionsJustified, SettlementInHand, ProcessingIsMeant, [Next]_vars,
                      NEW r \in Remittances,
                      row[r] # NoRow, row'[r].status # row[r].status
               PROVE  \/ CanTransition(row[r].status, row'[r].status)
                      \/ <<row[r].status, row'[r].status>> \in LateMoves
    OBVIOUS
  <2> DEFINE from == row[r].status
             to   == row'[r].status
  <2>1. /\ from \in Statuses /\ to \in Statuses \ {"CREATED"} /\ from # to
        /\ to = "PROCESSING" => from # "CREATED"
        /\ to = "SETTLEMENT_AUTHORIZED" => from \in {"FUNDED", "PROCESSING"}
        /\ to = "RELEASED" =>
             from \in {"FUNDED", "PROCESSING", "SETTLEMENT_AUTHORIZED", "RELEASED"}
        /\ to \in {"REFUNDED", "EXPIRED"} =>
             from \notin {"SETTLEMENT_AUTHORIZED", "RELEASED"}
    BY StatusChanges, WritesFind
  <2> HIDE DEF from, to
  <2>2. CanTransition(from, to) \/ <<from, to>> \in LateMoves
    <3>1. CASE from = "CREATED"
      BY <2>1, <3>1 DEF CanTransition, AllowedTransitions, Statuses
    <3>2. CASE from # "CREATED" /\ to \in {"FUNDED", "PROCESSING"}
      BY <2>1, <3>2 DEF LateMoves
    <3>3. CASE from # "CREATED" /\ to = "SETTLEMENT_AUTHORIZED"
      BY <2>1, <3>3 DEF CanTransition, AllowedTransitions
    <3>4. CASE from # "CREATED" /\ to = "RELEASED"
      BY <2>1, <3>4 DEF CanTransition, AllowedTransitions, LateMoves
    <3>5. CASE from # "CREATED" /\ to \in {"REFUNDED", "EXPIRED"}
      BY <2>1, <3>5 DEF CanTransition, AllowedTransitions, LateMoves, Statuses
    <3> QED
      BY <2>1, <3>1, <3>2, <3>3, <3>4, <3>5 DEF Statuses
  <2> QED
    BY <2>2 DEF from, to
<1> QED
  BY <1>1, DecisionsAlwaysJustified, SettlementsAreSeenThrough, ProcessingStaysMeant, PTL
     DEF Spec, OnlyLateMovesAreIllegal

-----------------------------------------------------------------------------
\* Rows that nothing changes any more

\* Handler q is to write the status of r without another look at the row.
Marking(q, r) ==
  /\ req[q].rem = r
  /\ \/ req[q].pc = "write" /\ req[q].op # "payment"
     \/ req[q].pc = "call" /\ req[q].op = "sweep"

\* The row of r shows s, and nobody is to mark it.
OverAs(r, s) == row[r].status = s /\ \A q \in Requests : ~Marking(q, r)

\* The settlement of r is on the ledger, the row does not tell it, and nobody is
\* to write that it does.
Jammed(r) ==
  /\ row[r].status \in {"FUNDED", "PROCESSING"}
  /\ escrow[r] \in {"SettlementAuthorized", "Released"}
  /\ \A q \in Requests : /\ ~Deciding(q, r)
                         /\ ~(Marking(q, r) /\ req[q].to = "RELEASED")

\* A handler comes to mark a row by setState's check, or it is a sweep that has
\* selected it.
LEMMA MarkingComes ==
  ASSUME DecisionsJustified, [Next]_vars, NEW r \in Remittances, NEW p \in Requests,
         Marking(p, r)', ~(Marking(p, r) /\ req[p].to = req'[p].to)
  PROVE  \/ req'[p].to \in AllowedTransitions[row[r].status]
         \/ Marking(p, r) /\ req[p].op = "sweep" /\ req'[p].to = "REFUNDED"
         \/ /\ req'[p].op = "sweep" /\ req'[p].to # "RELEASED"
            /\ row[r].status \in {"CREATED", "FUNDED", "PROCESSING"}
<1> DEFINE c == req[p]
           d == req'[p]
<1>1. d # c /\ d # Idle /\ d.rem = r
  BY ConstantsAssumption DEF Marking, Idle
<1>2. GoesOnAs(c, d, p)
  BY <1>1, AllGoOn
<1>3. CASE c # Idle /\ d.rem = c.rem /\ d.op = c.op
  <2>1. CASE ContractCall(p) /\ c.pc = "call" /\ d.to = Target[c.op] /\ c.op = "sweep"
    BY <1>1, <1>3, <2>1 DEF Marking, Target
  <2>2. CASE d.to = c.to /\ d.pc = "call" /\ c.pc = "read"
    BY <1>1, <1>3, <2>2, Suspended DEF Marking, WellFormed
  <2>3. CASE d.to = c.to /\ CanTransition(row[c.rem].status, c.to)
    BY <1>1, <1>3, <2>3 DEF CanTransition
  <2> QED
    BY <1>1, <1>2, <1>3, <2>1, <2>2, <2>3 DEF GoesOnAs, Marking
<1>4. CASE c # Idle /\ ~(d.rem = c.rem /\ d.op = c.op)
  BY <1>1, <1>2, <1>4 DEF GoesOnAs, Marking
<1>5. CASE c = Idle
  BY <1>1, <1>2, <1>5 DEF GoesOnAs, Marking
<1> QED
  BY <1>3, <1>4, <1>5

\* RELEASED, REFUNDED and EXPIRED are the end of a row, stale writes or not, once
\* those that overlapped with its last change have come through: a row marked
\* EXPIRED over funds that arrived late is never swept again (ALLOWED_TRANSITIONS
\* in setState, the SELECT of expirySweep).
THEOREM TerminalIsFinal ==
  ASSUME NEW r \in Remittances, NEW s \in {"RELEASED", "REFUNDED", "EXPIRED"}
  PROVE  Spec => [](OverAs(r, s) => []OverAs(r, s))
<1>1. ASSUME DecisionsJustified, [Next]_vars, OverAs(r, s) PROVE OverAs(r, s)'
  <2>1. row'[r].status = s
    <3>1. row[r] # NoRow
      BY <1>1 DEF OverAs, NoRow
    <3> QED
      BY <1>1, <3>1, StatusChanges DEF OverAs, Marking
  <2>2. ASSUME NEW p \in Requests, Marking(p, r)' PROVE FALSE
    <3>1. AllowedTransitions[s] = {}
      BY DEF AllowedTransitions
    <3> QED
      BY <1>1, <2>2, <3>1, MarkingComes DEF OverAs
  <2> QED
    BY <2>1, <2>2 DEF OverAs
<1> HIDE DEF OverAs
<1> QED
  BY <1>1, DecisionsAlwaysJustified, PTL DEF Spec

\* A row that a settlement has passed by stays so.
LEMMA JammedStays ==
  ASSUME DecisionsJustified, [Next]_vars, NEW r \in Remittances, Jammed(r)
  PROVE  Jammed(r)'
<1>1. escrow'[r] \in {"SettlementAuthorized", "Released"}
  BY EscrowsMoveForward DEF EscrowMoves, Jammed
<1>2. \A q \in Requests : ~Deciding(q, r)'
  BY DecidingComes DEF Jammed
<1>3. row'[r].status \in {"FUNDED", "PROCESSING"}
  <2> SUFFICES ASSUME row'[r].status # row[r].status PROVE row'[r].status \in {"FUNDED", "PROCESSING"}
    BY DEF Jammed
  <2>1. row[r] # NoRow
    BY DEF Jammed, NoRow
  <2>2. PICK q \in Requests :
          /\ req[q] # Idle
          /\ req[q].rem = r /\ req[q].pc = "write" /\ req[q].op # "payment"
          /\ row'[r].status = req[q].to
    BY <2>1, StatusChanges
  <2>3. req[q].to \in Statuses \ {"CREATED"} /\ escrow[r] \in ReachedBy[req[q].to]
    BY <2>2, Suspended DEF WellFormed, Sound
  <2>4. req[q].to \notin {"SETTLEMENT_AUTHORIZED", "RELEASED"}
    BY <2>2 DEF Jammed, Marking, Deciding
  <2>5. req[q].to # "EXPIRED"
    BY <2>2 DEF Jammed, DecisionsJustified, ExpiringInv, Expiring
  <2>6. req[q].to # "REFUNDED"
    BY <2>3 DEF Jammed, ReachedBy
  <2> QED
    BY <2>2, <2>3, <2>4, <2>5, <2>6 DEF Statuses
<1>4. ASSUME NEW p \in Requests, Marking(p, r)', req'[p].to = "RELEASED" PROVE FALSE
  <2>1. ~(Marking(p, r) /\ req[p].to = req'[p].to)
    BY <1>4 DEF Jammed
  <2>2. "RELEASED" \in AllowedTransitions[row[r].status]
    BY <1>4, <2>1, MarkingComes
  <2> QED
    BY <2>2 DEF Jammed, AllowedTransitions
<1> QED
  BY <1>1, <1>2, <1>3, <1>4 DEF Jammed

\* A row left behind by a settlement never catches up: no later read, sweep,
\* settlement or release has it tell what the escrow did, not even once somebody
\* has paid out the funds (the guards of authorizeAndRelease, release and refund,
\* and the contract's refusals).
THEOREM StuckForGood ==
  ASSUME NEW r \in Remittances
  PROVE  Spec => [](r \in Stuck => []Jammed(r))
<1> DEFINE IsStuck == r \in Stuck
<1>1. ASSUME DecisionsJustified, IsStuck PROVE Jammed(r)
  <2>1. /\ escrow[r] = "SettlementAuthorized" /\ row[r].status # "SETTLEMENT_AUTHORIZED"
        /\ \A q \in Requests : req[q].rem # r
    BY <1>1 DEF Stuck
  <2>2. row[r].status \in Statuses \union {"NONE"}
    BY <1>1 DEF DecisionsJustified, TypeOK, Rows, NoRow
  <2>3. row[r].status \notin {"NONE", "CREATED", "EXPIRED"}
    BY <1>1, <2>1 DEF DecisionsJustified, CorridorNeedsFundedRow, ExpiringInv, Expiring
  <2>4. escrow[r] \in ReachedBy[row[r].status]
    BY <1>1 DEF DecisionsJustified, StatusBackedByEscrow
  <2>5. row[r].status \notin {"RELEASED", "REFUNDED"}
    BY <2>1, <2>4 DEF ReachedBy
  <2>6. row[r].status \in {"FUNDED", "PROCESSING"}
    BY <2>1, <2>2, <2>3, <2>5 DEF Statuses
  <2> QED
    BY <2>1, <2>6 DEF Jammed, Deciding, Marking
<1>2. DecisionsJustified /\ [Next]_vars /\ Jammed(r) => Jammed(r)'
  BY JammedStays
<1>3. IsStuck <=> r \in Stuck
  OBVIOUS
<1> HIDE DEF IsStuck, Jammed
<1>4. Spec => [](IsStuck => []Jammed(r))
  BY <1>1, <1>2, DecisionsAlwaysJustified, PTL DEF Spec
<1> QED
  BY <1>3, <1>4, PTL

-----------------------------------------------------------------------------
\* No money in an escrow that its row does not point at

\* Only the UPDATE of the contract id changes a row's, and stores its own escrow's.
LEMMA LinkChanges ==
  ASSUME DecisionsJustified, [Next]_vars, NEW r \in Remittances
  PROVE  \/ row'[r].link = row[r].link
         \/ /\ row'[r].link = r
            /\ \E q \in Requests : req[q].rem = r /\ req[q].pc = "link"
<1>1. row \in [Remittances -> Rows] /\ req \in [Requests -> RequestRecords]
  BY DEF DecisionsJustified, TypeOK
<1>2. CASE UNCHANGED row
  BY <1>2
<1>3. ASSUME NEW q \in Requests, StatusWrite(q) \/ PhaseWrite(q)
      PROVE  row'[r].link = row[r].link
  <2>1. /\ req[q].rem \in Remittances
        /\ row[req[q].rem] \in [status : Statuses, lifecycle : LifecyclePhases,
                                link : RemittanceOrNone]
    <3>1. req[q] # Idle
      BY <1>3 DEF StatusWrite, PhaseWrite, At, Idle
    <3> QED
      BY <3>1, Suspended DEF Rows
  <2>2. row'[req[q].rem].link = row[req[q].rem].link
    <3>1. CASE StatusWrite(q)
      <4> DEFINE next == [row[req[q].rem] EXCEPT
                            !.status = req[q].to,
                            !.lifecycle = LifecycleFromStatus[req[q].to]]
      <4>1. row' = [row EXCEPT ![req[q].rem] = next]
        BY <3>1 DEF StatusWrite
      <4>2. next.link = row[req[q].rem].link
        BY <2>1
      <4> HIDE DEF next
      <4> QED
        BY <1>1, <2>1, <4>1, <4>2
    <3>2. CASE PhaseWrite(q)
      BY <1>1, <2>1, <3>2 DEF PhaseWrite
    <3> QED
      BY <1>3, <3>1, <3>2
  <2>3. \A s \in Remittances \ {req[q].rem} : row'[s] = row[s]
    BY <1>1, <1>3, <2>1 DEF StatusWrite, PhaseWrite
  <2> QED
    BY <2>2, <2>3
<1>4. ASSUME NEW q \in Requests, RecordContractId(q)
      PROVE  \/ row'[r].link = row[r].link
             \/ row'[r].link = r /\ req[q].rem = r /\ req[q].pc = "link"
  <2>1. /\ req[q].rem \in Remittances /\ req[q].link = req[q].rem
        /\ row[req[q].rem] \in [status : Statuses, lifecycle : LifecyclePhases,
                                link : RemittanceOrNone]
    <3>1. req[q] # Idle
      BY <1>4 DEF RecordContractId, At, Idle
    <3> QED
      BY <1>4, <3>1, Suspended DEF Rows, WellFormed, RecordContractId, At
  <2>2. row'[req[q].rem].link = req[q].rem
    BY <1>1, <1>4, <2>1 DEF RecordContractId
  <2>3. \A s \in Remittances \ {req[q].rem} : row'[s] = row[s]
    BY <1>1, <1>4, <2>1 DEF RecordContractId
  <2>4. req[q].pc = "link"
    BY <1>4 DEF RecordContractId, At
  <2> QED
    BY <2>2, <2>3, <2>4
<1>5. ASSUME NEW q \in Requests, NEW s \in Remittances, Create(q, s)
      PROVE  row'[r].link = row[r].link
  BY <1>1, <1>5 DEF Create, NoRow
<1>6. ASSUME NEW q \in Requests, Step(q)
      PROVE  \/ UNCHANGED row
             \/ StatusWrite(q) \/ PhaseWrite(q) \/ RecordContractId(q)
  BY <1>6 DEF Step, ContractCall, CallRejected, SetStateCheck, AuthorizeAndRelease,
     ReentryQuery, RelaySubmit, RelayReload, WaitForTransaction, VerifyRelay, ReconcileCreate
<1>7. ASSUME NEW q \in Requests, NEW s \in Remittances, Start(q, s)
      PROVE  UNCHANGED row \/ Create(q, s)
  BY <1>7 DEF Start, Fund, BeginProcessing, OnAnchorStatus, Release, Refund, ExpirySweep,
     Confirm, Relay, ApplyPaymentEvent
<1>8. ASSUME NEW s \in Remittances, Environment(s)
      PROVE  UNCHANGED row
  BY <1>8 DEF Environment, PrepareFund, PrepareRefund, AppSubmits, PublicCall, Expire,
     SenderSplits, LedgerExpire
<1>9. ASSUME NEW q \in Requests, Abort(q)
      PROVE  UNCHANGED row
  BY <1>9 DEF Abort
<1> QED
  BY <1>2, <1>3, <1>4, <1>5, <1>6, <1>7, <1>8, <1>9 DEF Next, vars

\* No UPDATE takes a row's contract id away.
LEMMA RowsKeepLinks ==
  ASSUME DecisionsJustified, [Next]_vars, NEW r \in Remittances, row[r].link # NoRemittance
  PROVE  row'[r].link # NoRemittance
BY LinkChanges, ConstantsAssumption

\* Handler q goes on as d, and d is no fund but one that was at work already or
\* that has just read its row.
FundsAsBefore(q, d) ==
  d.op = "fund" => \/ req[q].op = "fund" /\ d.rem = req[q].rem /\ d.link = req[q].link
                   \/ d.link = row[d.rem].link

LEMMA FundsGoOn ==
  ASSUME DecisionsJustified, NEW q \in Requests, Step(q) \/ Abort(q)
  PROVE  FundsAsBefore(q, req'[q])
<1> DEFINE c == req[q]
<1>1. /\ req \in [Requests -> RequestRecords] /\ c \in RequestRecords
      /\ Idle.op # "fund"
  BY DEF DecisionsJustified, TypeOK, Idle
<1>2. ASSUME Finish(q) PROVE FundsAsBefore(q, req'[q])
  BY <1>1, <1>2 DEF Finish, FundsAsBefore
<1>3. ASSUME NEW pc, NEW to, Continue(q, pc, to) PROVE FundsAsBefore(q, req'[q])
  BY <1>1, <1>3 DEF Continue, FundsAsBefore, RequestRecords
<1>4. CASE Advance(q)
  BY <1>2, <1>3, <1>4 DEF Advance
<1>5. CASE ContractCall(q)
  BY <1>1, <1>5 DEF ContractCall, AfterCall, FundsAsBefore, RequestRecords
<1>6. CASE StatusWrite(q)
  BY <1>1, <1>6 DEF StatusWrite, AfterWrite, FundsAsBefore, RequestRecords
<1>7. CASE AuthorizeAndRelease(q)
  BY <1>1, <1>7 DEF AuthorizeAndRelease, FundsAsBefore, RequestRecords
<1>8. CASE RelayReload(q)
  <2>1. Loaded(c) \in RequestRecords /\ Loaded(c).op = c.op
    <3>1. c # Idle
      BY <1>8 DEF RelayReload, At, Idle
    <3>2. row[c.rem] \in [status : Statuses, lifecycle : LifecyclePhases,
                          link : RemittanceOrNone]
      BY <3>1, Suspended DEF Rows
    <3> QED
      BY <1>1, <3>2 DEF Loaded, RequestRecords
  <2>2. c.op \in RelayOps
    <3>1. c # Idle
      BY <1>8 DEF RelayReload, At, Idle
    <3> QED
      BY <1>8, <3>1, Suspended DEF RelayReload, At, WellFormed
  <2> QED
    BY <1>1, <1>8, <2>1, <2>2 DEF RelayReload, FundsAsBefore, RequestRecords, RelayOps
<1>9. CASE ReconcileCreate(q)
  <2>1. c.op \in {"confirmCreate", "relayCreate"}
    <3>1. c # Idle
      BY <1>9 DEF ReconcileCreate, At, Idle
    <3> QED
      BY <1>9, <3>1, Suspended DEF ReconcileCreate, At, WellFormed
  <2> QED
    BY <1>1, <1>9, <2>1 DEF ReconcileCreate, FundsAsBefore, RequestRecords
<1>10. CASE WaitForTransaction(q)
  BY <1>2, <1>3, <1>4, <1>10 DEF WaitForTransaction
<1>11. CASE \/ CallRejected(q) \/ SetStateCheck(q) \/ PhaseWrite(q) \/ RecordContractId(q)
            \/ ReentryQuery(q) \/ RelaySubmit(q) \/ VerifyRelay(q) \/ Abort(q)
  BY <1>2, <1>3, <1>4, <1>11 DEF CallRejected, SetStateCheck, PhaseWrite, RecordContractId,
     ReentryQuery, RelaySubmit, VerifyRelay, Abort
<1> QED
  BY <1>5, <1>6, <1>7, <1>8, <1>9, <1>10, <1>11 DEF Step

LEMMA FundsStart ==
  ASSUME DecisionsJustified, NEW q \in Requests, NEW s \in Remittances, Start(q, s)
  PROVE  FundsAsBefore(q, req'[q])
<1>1. req \in [Requests -> RequestRecords]
  BY DEF DecisionsJustified, TypeOK
<1>2. CASE Create(q, s)
  BY <1>1, <1>2 DEF Create, Started, FundsAsBefore
<1>3. CASE Confirm(q, s)
  BY <1>1, <1>3 DEF Confirm, Begin, Started, Loaded, FundsAsBefore
<1>4. CASE ~Create(q, s) /\ ~Confirm(q, s)
  BY <1>1, <1>4 DEF Start, Fund, BeginProcessing, OnAnchorStatus, Release, Refund,
     ExpirySweep, Relay, ApplyPaymentEvent, Begin, Started, FundsAsBefore
<1> QED
  BY <1>2, <1>3, <1>4

\* Whoever puts money into an escrow does so for a row that points at it.
LEMMA FundedIsLinked ==
  ASSUME DecisionsJustified, FundersLinked, [Next]_vars, NEW r \in Remittances,
         escrow'[r] \in WasFunded
  PROVE  row[r].link # NoRemittance
<1>1. escrow \in [Remittances -> EscrowStates]
  BY DEF DecisionsJustified, TypeOK
<1>2. CASE escrow[r] \in WasFunded
  BY <1>2, ConstantsAssumption DEF FundersLinked, FundsAreLinked
<1>3. ASSUME escrow[r] \notin WasFunded
      PROVE  escrow[r] = "Created" /\ escrow'[r] = "Funded"
  BY <1>1, <1>3, EscrowsMoveForward DEF EscrowMoves, WasFunded, EscrowStates
<1>4. ASSUME NEW q \in Requests, ContractCall(q), escrow[r] = "Created", escrow'[r] = "Funded"
      PROVE  row[r].link # NoRemittance
  <2> DEFINE c == req[q]
  <2>1. c # Idle /\ c.pc = "call" /\ CallAllowed(c)
    BY <1>4 DEF ContractCall, At, Idle
  <2>2. c.op \in ContractOps /\ c.rem \in Remittances /\ (c.op # "create" => c.link = c.rem)
    BY <2>1, AcceptedCall, Suspended
  <2>3. escrow' = [escrow EXCEPT ![c.rem] = Effect[c.op]]
    BY <1>4, <2>2 DEF ContractCall
  <2>4. c.rem = r /\ Effect[c.op] = "Funded"
    BY <1>1, <1>4, <2>2, <2>3
  <2>5. c.op = "fund" /\ c.link = r
    BY <2>2, <2>4 DEF Effect, ContractOps
  <2> QED
    BY <2>4, <2>5, ConstantsAssumption DEF FundersLinked
<1>5. ASSUME NEW s \in Remittances, NEW op \in RelayOps, EnvelopeAllowed(op, s),
             escrow' = [escrow EXCEPT ![s] = EnvelopeEffect[op]],
             escrow[r] = "Created", escrow'[r] = "Funded"
      PROVE  row[r].link # NoRemittance
  <2>1. s = r /\ EnvelopeEffect[op] = "Funded"
    BY <1>1, <1>5
  <2>2. op = "relayFund"
    BY <2>1 DEF EnvelopeEffect, RelayOps
  <2> QED
    BY <1>5, <2>1, <2>2 DEF EnvelopeAllowed, FundersLinked
<1>6. ASSUME NEW q \in Requests, RelaySubmit(q), escrow[r] = "Created", escrow'[r] = "Funded"
      PROVE  row[r].link # NoRemittance
  <2>1. req[q].op \in RelayOps /\ req[q].rem \in Remittances
    BY <1>6, Suspended DEF RelaySubmit, At, WellFormed, Idle
  <2>2. /\ EnvelopeAllowed(req[q].op, req[q].rem)
        /\ escrow' = [escrow EXCEPT ![req[q].rem] = EnvelopeEffect[req[q].op]]
    BY <1>6 DEF RelaySubmit, ledgerVars
  <2> QED
    BY <1>5, <1>6, <2>1, <2>2
<1>7. ASSUME NEW s \in Remittances, AppSubmits(s), escrow[r] = "Created", escrow'[r] = "Funded"
      PROVE  row[r].link # NoRemittance
  BY <1>5, <1>7 DEF AppSubmits, RelayOps
<1>8. ASSUME NEW s \in Remittances, PublicCall(s)
      PROVE  ~(escrow[r] = "Created" /\ escrow'[r] = "Funded")
  BY <1>1, <1>8 DEF PublicCall
<1>9. ASSUME NEW q \in Requests, Step(q), ~UNCHANGED escrow
      PROVE  ContractCall(q) \/ RelaySubmit(q)
  BY <1>9 DEF Step, CallRejected, SetStateCheck, StatusWrite, PhaseWrite, RecordContractId,
     AuthorizeAndRelease, ReentryQuery, RelayReload, WaitForTransaction, VerifyRelay,
     ReconcileCreate, ledgerVars
<1>10. ASSUME NEW q \in Requests, NEW s \in Remittances, Start(q, s) \/ Abort(q)
       PROVE  UNCHANGED escrow
  BY <1>10 DEF Start, Create, Fund, BeginProcessing, OnAnchorStatus, Release, Refund,
     ExpirySweep, Confirm, Relay, ApplyPaymentEvent, Abort, ledgerVars
<1>11. ASSUME NEW q \in Requests, Abort(q)
       PROVE  UNCHANGED escrow
  BY <1>11 DEF Abort, ledgerVars
<1>12. ASSUME NEW s \in Remittances, Environment(s), ~UNCHANGED escrow
       PROVE  AppSubmits(s) \/ PublicCall(s)
  BY <1>12 DEF Environment, PrepareFund, PrepareRefund, Expire, SenderSplits, LedgerExpire, ledgerVars
<1>13. CASE UNCHANGED escrow
  BY <1>2, <1>13
<1> QED
  BY <1>2, <1>3, <1>4, <1>6, <1>7, <1>8, <1>9, <1>10, <1>11, <1>12, <1>13 DEF Next, vars

\* A wallet gets an envelope for a fund only if the row points at its escrow.
LEMMA EnvelopesKeepLinked ==
  ASSUME DecisionsJustified, FundersLinked, [Next]_vars, NEW r \in Remittances,
         "relayFund" \in envelopes'[r]
  PROVE  row[r].link # NoRemittance
<1>1. envelopes \in [Remittances -> SUBSET {"relayCreate", "relayFund", "relayRefund"}]
  BY DEF DecisionsJustified, TypeOK
<1>2. CASE "relayFund" \in envelopes[r]
  BY <1>2 DEF FundersLinked
<1>3. ASSUME NEW s \in Remittances, PrepareFund(s) \/ PrepareRefund(s)
      PROVE  row[r].link # NoRemittance
  BY <1>1, <1>2, <1>3 DEF PrepareFund, PrepareRefund
<1>4. ASSUME NEW q \in Requests, NEW s \in Remittances, Create(q, s)
      PROVE  row[r].link # NoRemittance
  BY <1>1, <1>2, <1>4 DEF Create
<1>5. \/ UNCHANGED envelopes
      \/ \E s \in Remittances : PrepareFund(s) \/ PrepareRefund(s)
      \/ \E q \in Requests, s \in Remittances : Create(q, s)
  BY DEF Next, Step, Start, Environment, ContractCall, CallRejected, SetStateCheck,
     StatusWrite, PhaseWrite, RecordContractId, AuthorizeAndRelease, ReentryQuery,
     RelaySubmit, RelayReload, WaitForTransaction, VerifyRelay, ReconcileCreate,
     Fund, BeginProcessing, OnAnchorStatus, Release, Refund, ExpirySweep,
     Confirm, Relay, ApplyPaymentEvent, AppSubmits, PublicCall, Expire, SenderSplits, LedgerExpire,
     Abort, otherVars, vars
<1> QED
  BY <1>2, <1>3, <1>4, <1>5

\* Every step keeps the funders linked.
LEMMA LinkedStep ==
  DecisionsJustified /\ DecisionsJustified' /\ FundersLinked /\ [Next]_vars => FundersLinked'
<1> SUFFICES ASSUME DecisionsJustified, DecisionsJustified', FundersLinked, [Next]_vars
             PROVE  FundersLinked'
  OBVIOUS
<1>1. FundsAreLinked'
  <2> SUFFICES ASSUME NEW r \in Remittances, escrow'[r] \in WasFunded
               PROVE  row'[r].link = r
    BY DEF FundsAreLinked
  <2>1. row'[r].link # NoRemittance
    BY FundedIsLinked, RowsKeepLinks
  <2> QED
    BY <2>1 DEF DecisionsJustified, LinkIsOwn
<1>2. ASSUME NEW r \in Remittances, "relayFund" \in envelopes'[r]
      PROVE  row'[r].link # NoRemittance
  BY <1>2, EnvelopesKeepLinked, RowsKeepLinks
<1>3. ASSUME NEW p \in Requests, req'[p].op = "fund", req'[p].link # NoRemittance
      PROVE  row'[req'[p].rem].link # NoRemittance
  <2>1. req'[p] = req[p] \/ FundsAsBefore(p, req'[p])
    <3>1. CASE UNCHANGED req
      BY <3>1
    <3>2. ASSUME NEW s \in Remittances, Environment(s)
          PROVE  UNCHANGED req
      BY <3>2 DEF Environment, PrepareFund, PrepareRefund, AppSubmits, PublicCall, Expire,
         SenderSplits, LedgerExpire
    <3>3. ASSUME NEW q \in Requests, Step(q) \/ Abort(q) \/ \E s \in Remittances : Start(q, s)
          PROVE  req'[p] = req[p] \/ FundsAsBefore(p, req'[p])
      BY <3>3, FundsGoOn, FundsStart, OneHandlerSteps
    <3> QED
      BY <3>1, <3>2, <3>3 DEF Next, vars
  <2>2. req'[p].rem \in Remittances
    BY <1>3 DEF DecisionsJustified, Sound, Idle
  <2>3. row[req'[p].rem].link # NoRemittance
    BY <1>3, <2>1 DEF FundersLinked, FundsAsBefore
  <2> QED
    BY <2>2, <2>3, RowsKeepLinks
<1> QED
  BY <1>1, <1>2, <1>3 DEF FundersLinked

\* A fund at work and a wallet's envelope for one are for a row that points at
\* its escrow, and stay so (fund, prepareFund and the UPDATEs).
THEOREM FundersStayLinked == Spec => []FundersLinked
<1>1. Init => FundersLinked
  BY DEF Init, FundersLinked, FundsAreLinked, WasFunded, Idle
<1> QED
  BY <1>1, LinkedStep, DecisionsAlwaysJustified, PTL DEF Spec

\* There is never money in an escrow that its row does not point at.
THEOREM FundsStayLinked == Spec => []FundsAreLinked
<1>1. FundersLinked => FundsAreLinked
  BY DEF FundersLinked
<1> QED
  BY <1>1, FundersStayLinked, PTL

\* So the sweep's condition on the contract id excludes no row with funds: what
\* it reads as FUNDED or PROCESSING can be refunded (expirySweep, refund).
THEOREM OpenRowsHaveIds ==
  ASSUME ConfirmIsSafe
  PROVE  Spec => [](\A r \in Remittances :
                      row[r].status \in {"FUNDED", "PROCESSING"} => row[r].link = r)
<1>1. DecisionsJustified /\ FundersLinked =>
        \A r \in Remittances :
          row[r].status \in {"FUNDED", "PROCESSING"} => row[r].link = r
  BY DEF DecisionsJustified, StatusBackedByEscrow, ReachedBy, WasFunded, EscrowStates,
     FundersLinked, FundsAreLinked
<1> QED
  BY <1>1, DecisionsAlwaysJustified, FundersStayLinked, PTL

-----------------------------------------------------------------------------
\* Escrows that no row ever points at

\* The escrow of r exists, r's row does not point at it, nobody is to store its
\* id, and it is not the newest.
Orphaned(r) ==
  /\ escrow[r] # "None"
  /\ row[r].link = NoRemittance
  /\ newest # r
  /\ \A q \in Requests : ~(req[q].rem = r /\ req[q].pc = "link")

\* An escrow becomes the newest when it is created, and never again.
LEMMA NewestOnce ==
  ASSUME DecisionsJustified, [Next]_vars, NEW r \in Remittances, newest' = r
  PROVE  newest = r \/ escrow[r] = "None"
<1>1. ASSUME NEW q \in Requests, ContractCall(q) PROVE newest = r \/ escrow[r] = "None"
  <2>1. req[q] # Idle /\ CallAllowed(req[q])
    BY <1>1 DEF ContractCall, At, Idle
  <2> QED
    BY <1>1, <2>1 DEF ContractCall, CallAllowed
<1>2. ASSUME NEW q \in Requests, RelaySubmit(q) PROVE newest = r \/ escrow[r] = "None"
  BY <1>2 DEF RelaySubmit, EnvelopeAllowed, ledgerVars
<1>3. ASSUME NEW s \in Remittances, AppSubmits(s) PROVE newest = r \/ escrow[r] = "None"
  BY <1>3 DEF AppSubmits, EnvelopeAllowed
<1>4. ASSUME NEW q \in Requests, Step(q), ~UNCHANGED newest
      PROVE  ContractCall(q) \/ RelaySubmit(q)
  BY <1>4 DEF Step, CallRejected, SetStateCheck, StatusWrite, PhaseWrite, RecordContractId,
     AuthorizeAndRelease, ReentryQuery, RelayReload, WaitForTransaction, VerifyRelay,
     ReconcileCreate, ledgerVars
<1>5. ASSUME NEW q \in Requests, NEW s \in Remittances, Start(q, s) PROVE UNCHANGED newest
  BY <1>5 DEF Start, Create, Fund, BeginProcessing, OnAnchorStatus, Release, Refund,
     ExpirySweep, Confirm, Relay, ApplyPaymentEvent, ledgerVars
<1>6. ASSUME NEW q \in Requests, Abort(q) PROVE UNCHANGED newest
  BY <1>6 DEF Abort, ledgerVars
<1>7. ASSUME NEW s \in Remittances, Environment(s), ~UNCHANGED newest PROVE AppSubmits(s)
  BY <1>7 DEF Environment, PrepareFund, PrepareRefund, PublicCall, Expire, SenderSplits, LedgerExpire,
     ledgerVars
<1>8. UNCHANGED vars => UNCHANGED newest
  BY DEF vars
<1> QED
  BY <1>1, <1>2, <1>3, <1>4, <1>5, <1>6, <1>7, <1>8 DEF Next

\* A handler comes to store the id of r's escrow when its create returns, or when
\* it finds that escrow to be the newest.
LEMMA LinkingComes ==
  ASSUME DecisionsJustified, [Next]_vars, NEW r \in Remittances, NEW p \in Requests,
         req'[p].rem = r, req'[p].pc = "link", req'[p] # req[p]
  PROVE  newest = r \/ escrow[r] = "None"
<1>1. req \in [Requests -> RequestRecords]
  BY DEF DecisionsJustified, TypeOK
<1>2. ASSUME NEW q \in Requests, Step(q) \/ Abort(q) \/ \E s \in Remittances : Start(q, s)
      PROVE  p = q
  BY <1>2, OneHandlerSteps
<1>3. CASE ContractCall(p)
  <2>1. req[p] # Idle /\ CallAllowed(req[p]) /\ req'[p] = AfterCall(req[p])
    BY <1>1, <1>3 DEF ContractCall, At, Idle
  <2>2. req[p].op = "create" /\ req[p].rem = r
    BY <1>1, <2>1 DEF AfterCall, RequestRecords
  <2> QED
    BY <2>1, <2>2, Suspended DEF CallAllowed
<1>4. CASE ReconcileCreate(p)
  BY <1>1, <1>4 DEF ReconcileCreate, IsOurs, Idle, RequestRecords
<1>5. CASE StatusWrite(p)
  BY <1>1, <1>5 DEF StatusWrite, AfterWrite, Idle, RequestRecords
<1>6. CASE AuthorizeAndRelease(p) \/ RelayReload(p)
  <2>1. CASE AuthorizeAndRelease(p)
    BY <1>1, <2>1 DEF AuthorizeAndRelease, Idle, RequestRecords
  <2>2. CASE RelayReload(p)
    BY <1>1, <2>2 DEF RelayReload, Loaded, RequestRecords, Idle
  <2> QED
    BY <1>6, <2>1, <2>2
<1>7. ASSUME NEW pc, NEW to, Continue(p, pc, to) PROVE pc = "link"
  BY <1>1, <1>7 DEF Continue, RequestRecords
<1>8. ~Finish(p)
  BY <1>1 DEF Finish, Idle
<1>9. CASE \/ CallRejected(p) \/ SetStateCheck(p) \/ PhaseWrite(p) \/ RecordContractId(p)
           \/ ReentryQuery(p) \/ RelaySubmit(p) \/ WaitForTransaction(p) \/ VerifyRelay(p)
           \/ Abort(p)
  BY <1>7, <1>8, <1>9 DEF CallRejected, SetStateCheck, PhaseWrite, RecordContractId,
     ReentryQuery, RelaySubmit, WaitForTransaction, VerifyRelay, Advance, Abort
<1>10. ASSUME NEW s \in Remittances, Start(p, s) PROVE FALSE
  <2>1. CASE Create(p, s)
    BY <1>1, <2>1 DEF Create, Started
  <2>2. CASE Confirm(p, s)
    BY <1>1, <2>2 DEF Confirm, Begin, Started, Loaded
  <2>3. CASE ~Create(p, s) /\ ~Confirm(p, s)
    BY <1>1, <1>10, <2>3 DEF Start, Fund, BeginProcessing, OnAnchorStatus, Release, Refund,
       ExpirySweep, Relay, ApplyPaymentEvent, Begin, Started
  <2> QED
    BY <2>1, <2>2, <2>3
<1>11. ASSUME NEW s \in Remittances, Environment(s) PROVE UNCHANGED req
  BY <1>11 DEF Environment, PrepareFund, PrepareRefund, AppSubmits, PublicCall, Expire,
     SenderSplits, LedgerExpire, otherVars
<1> QED
  BY <1>2, <1>3, <1>4, <1>5, <1>6, <1>9, <1>10, <1>11 DEF Next, Step, vars

\* An escrow whose id nobody stored before the next one was created is never
\* pointed at: confirm, repeated as often as the app likes, looks at the newest
\* record only; and nothing is ever paid into it (confirm's reconciliation by
\* readNewestOnChain, the guards of fund and prepareFund).
THEOREM OrphansStayEmpty ==
  ASSUME NEW r \in Remittances
  PROVE  Spec => [](Orphaned(r) => [](Orphaned(r) /\ escrow[r] = "Created"))
<1> DEFINE Empty == escrow[r] = "Created"
<1>1. ASSUME DecisionsJustified, FundersLinked, Orphaned(r) PROVE Empty
  BY <1>1, ConstantsAssumption
     DEF Orphaned, FundersLinked, FundsAreLinked, WasFunded, DecisionsJustified, TypeOK
<1>2. ASSUME DecisionsJustified, [Next]_vars, Orphaned(r) PROVE Orphaned(r)'
  <2>1. escrow'[r] # "None"
    BY <1>2, EscrowsMoveForward DEF EscrowMoves, Orphaned
  <2>2. row'[r].link = NoRemittance
    BY <1>2, LinkChanges DEF Orphaned
  <2>3. newest' # r
    BY <1>2, NewestOnce DEF Orphaned
  <2>4. \A q \in Requests : ~(req'[q].rem = r /\ req'[q].pc = "link")
    BY <1>2, LinkingComes DEF Orphaned
  <2> QED
    BY <2>1, <2>2, <2>3, <2>4 DEF Orphaned
<1>3. Empty <=> escrow[r] = "Created"
  OBVIOUS
<1> HIDE DEF Orphaned, Empty
<1>4. Spec => [](Orphaned(r) => [](Orphaned(r) /\ Empty))
  BY <1>1, <1>2, DecisionsAlwaysJustified, FundersStayLinked, PTL DEF Spec
<1> QED
  BY <1>3, <1>4, PTL

-----------------------------------------------------------------------------
\* The service goes on with the tickets of RemittanceTicket

\* A row that has been inserted stays.
LEMMA RowsStay ==
  ASSUME DecisionsJustified, [Next]_vars, NEW r \in Remittances, row[r] # NoRow
  PROVE  row'[r] # NoRow
<1>1. row[r].status \in Statuses
  BY DEF DecisionsJustified, TypeOK, Rows
<1>2. SUFFICES ASSUME row'[r] = NoRow PROVE FALSE
  OBVIOUS
<1>3. row'[r].status = "NONE" /\ row[r].status # "NONE"
  BY <1>1, <1>2 DEF NoRow, Statuses
<1>4. PICK q \in Requests :
        /\ req[q] # Idle /\ req[q].pc = "write" /\ req[q].op # "payment"
        /\ row'[r].status = req[q].to
  BY <1>3, StatusChanges
<1>5. req[q].to \in Statuses
  BY <1>4, Suspended DEF WellFormed
<1> QED
  BY <1>3, <1>4, <1>5 DEF Statuses

\* A remittance stays at its stage or goes on to the next.
LEMMA StageFollows ==
  ASSUME DecisionsJustified, DecisionsJustified', [Next]_vars, NEW r \in Remittances
  PROVE  \/ StageOf(r)' = StageOf(r)
         \/ /\ StageOf(r) # "linked"
            /\ StageOf(r)' = Ticket!Following[StageOf(r)]
<1>1. /\ row[r] = NoRow => escrow[r] = "None"
      /\ row'[r] = NoRow => escrow'[r] = "None"
      /\ row[r].link # NoRemittance => escrow[r] # "None"
      /\ row'[r].link # NoRemittance => escrow'[r] # "None"
  BY DEF DecisionsJustified, EscrowsInv, LinkIsOwn
<1>2. escrow[r] # "None" => escrow'[r] # "None"
  BY EscrowsMoveForward DEF EscrowMoves
<1>3. NoRow.link = NoRemittance
  BY DEF NoRow
<1>4. row'[r] = row[r] \/ escrow'[r] = escrow[r]
  BY OneThingChanges
<1>5. CASE StageOf(r) = "taken"
  BY <1>1, <1>3, <1>4, <1>5 DEF StageOf, Ticket!Following
<1>6. CASE StageOf(r) = "booked"
  BY <1>1, <1>4, <1>6, RowsStay DEF StageOf, Ticket!Following
<1>7. CASE StageOf(r) = "locked"
  BY <1>1, <1>2, <1>7, RowsStay DEF StageOf, Ticket!Following
<1>8. CASE StageOf(r) = "linked"
  BY <1>8, RowsStay, RowsKeepLinks DEF StageOf
<1> QED
  BY <1>5, <1>6, <1>7, <1>8 DEF StageOf

\* From its INSERT on a remittance goes through the stages of its ticket, which
\* the intake's remittances follow as well: the two modules speak of the same.
THEOREM TicketsAreFollowed == Spec => FollowsTicket
<1> DEFINE stage == [r \in Remittances |-> StageOf(r)]
           offer == [r \in Remittances |-> r]
<1>1. ASSUME DecisionsJustified, DecisionsJustified', [Next]_vars
      PROVE  [Ticket!Next]_(Ticket!ticketVars)
  <2> SUFFICES \/ UNCHANGED <<offer, stage>>
               \/ \E r \in Remittances :
                    /\ stage[r] # "linked"
                    /\ stage'[r] = Ticket!Following[stage[r]]
                    /\ \A s \in Remittances \ {r} : stage'[s] = stage[s] /\ offer'[s] = offer[s]
                    /\ stage[r] # "blank" => offer'[r] = offer[r]
    BY Zenon DEF Ticket!Next, Ticket!Advance, Ticket!ticketVars
  <2>1. \A s \in Remittances : stage[s] = StageOf(s) /\ stage'[s] = StageOf(s)'
    OBVIOUS
  <2>2. UNCHANGED offer
    OBVIOUS
  <2>3. ASSUME UNCHANGED <<row, escrow>> PROVE UNCHANGED stage
    BY <2>3 DEF StageOf
  <2>4. ASSUME NEW r \in Remittances, \A s \in Remittances \ {r} : stage'[s] = stage[s]
        PROVE  \/ UNCHANGED stage
               \/ stage[r] # "linked" /\ stage'[r] = Ticket!Following[stage[r]]
    <3>1. CASE StageOf(r)' = StageOf(r)
      <4>1. \A s \in Remittances : stage'[s] = stage[s]
        BY <2>1, <2>4, <3>1
      <4> QED
        BY <4>1
    <3>2. CASE StageOf(r)' # StageOf(r)
      BY <1>1, <2>1, <3>2, StageFollows
    <3> QED
      BY <3>1, <3>2
  <2>5. ASSUME NEW r \in Remittances,
               \A s \in Remittances \ {r} : row'[s] = row[s] /\ escrow'[s] = escrow[s]
        PROVE  \A s \in Remittances \ {r} : stage'[s] = stage[s]
    BY <2>1, <2>5 DEF StageOf
  <2>6. \/ UNCHANGED <<row, escrow>>
        \/ \E r \in Remittances :
             \A s \in Remittances \ {r} : row'[s] = row[s] /\ escrow'[s] = escrow[s]
    BY <1>1, OneThingChanges
  <2> HIDE DEF stage, offer
  <2> QED
    BY <2>2, <2>3, <2>4, <2>5, <2>6
<1> QED
  BY <1>1, DecisionsAlwaysJustified, PTL DEF Spec, FollowsTicket
=============================================================================
