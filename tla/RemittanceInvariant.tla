------------------------ MODULE RemittanceInvariant ------------------------
(***************************************************************************)
(* The inductive invariant of the remittance service.  The properties of   *)
(* RemittanceService speak of rows and escrows at rest; they are not       *)
(* inductive, because a handler between two awaits carries a decision that *)
(* it took on an older state.  What makes the code right is what every     *)
(* such decision still guarantees when it is carried out.                  *)
(***************************************************************************)
EXTENDS RemittanceService, FiniteSets

ContractOps == {"create", "fund", "process", "settle", "release", "cancel",
                "reclaim", "sweep"}

RelayOps == {"relayCreate", "relayFund", "relayRefund"}

\* The points at which each operation can be suspended, and what it may be
\* about to write there.
WellFormed(c) ==
  \/ c.pc = "call" /\ c.op \in ContractOps
  \/ c.pc \in {"read", "query"} /\ c.op = "settle"
  \/ c.pc \in {"check", "write"} /\ c.op # "payment" /\ c.to \in Statuses \ {"CREATED"}
  \/ /\ c.pc = "write"
     /\ c.op = "payment"
     /\ c.to \in {"STELLAR_PAYMENT_SUBMITTED", "STELLAR_PAYMENT_CONFIRMED"}
  \/ c.pc \in {"submit", "reload"} /\ c.op \in RelayOps
  \/ c.pc = "wait" /\ c.op \in RelayOps \union {"confirmCreate", "confirmFund"}
  \/ c.pc = "verify" /\ c.op \in {"relayFund", "relayRefund"}
  \/ c.pc = "match" /\ c.op \in {"confirmCreate", "relayCreate"}
  \/ c.pc = "link" /\ c.link = c.rem

\* What the memory c of a handler guarantees while it is suspended: it works on
\* an inserted row, the contract id it holds is that of the row's own escrow,
\* and what it is about to write is backed by the escrow whatever happened
\* since it was decided.
Sound(c) ==
  \/ c = Idle
  \/ /\ c.rem \in Remittances
     /\ row[c.rem] # NoRow
     /\ WellFormed(c)
     /\ c.link \in {c.rem, NoRemittance}
     /\ c.link # NoRemittance => escrow[c.rem] # "None"
     /\ c.op = "confirmFund" => "confirm" \in Handlers
     /\ c.op \in {"process", "settle"} => row[c.rem].status # "CREATED"
     /\ c.pc \in {"check", "write"} =>
          escrow[c.rem] \in ReachedBy[IF c.op = "payment" THEN "FUNDED" ELSE c.to]

\* Escrows belong to inserted rows, and the newest of them exists.
EscrowsInv ==
  /\ \A r \in Remittances : row[r] = NoRow => escrow[r] = "None"
  /\ newest # NoRemittance => escrow[newest] # "None"

\* Remittance r is marked EXPIRED, or a sweep is about to mark it.
Expiring(r) ==
  \/ row[r].status = "EXPIRED"
  \/ \E q \in Requests : req[q].rem = r /\ req[q].to = "EXPIRED"

\* A settlement of r is about to be authorized.
Settling(r) ==
  \E q \in Requests : req[q].rem = r /\ req[q].op = "settle" /\ req[q].pc = "call"

\* Nothing expiring is settled or can come to be: a settlement needs a row that
\* has left CREATED before its expiry, the sweep one that was still CREATED
\* after it.
ExpiringInv ==
  \A r \in Remittances :
    Expiring(r) =>
      /\ expired[r]
      /\ escrow[r] \notin {"SettlementAuthorized", "Released"}
      /\ ~Settling(r)

\* Invariant: every decision in flight, in any handler, is still justified by
\* the escrow when it reaches the database (the read-await-write sequences of
\* RemittanceService.ts and of the sweep in jobs.ts).
DecisionsJustified ==
  /\ TypeOK
  /\ \A q \in Requests : Sound(req[q])
  /\ EscrowsInv
  /\ LinkIsOwn
  /\ StatusBackedByEscrow
  /\ PaymentPhaseNeedsFunds
  /\ CorridorNeedsFundedRow
  /\ ExpiringInv

\* Invariant behind FundsAreLinked: whoever is about to put money into an escrow,
\* a fund at work or a wallet with an envelope to sign, does so for a row that
\* points at it, and goes on doing so (fund and prepareFund refuse a row without
\* a contract id, and no UPDATE takes one away).
FundersLinked ==
  /\ FundsAreLinked
  /\ \A r \in Remittances : "relayFund" \in envelopes[r] => row[r].link # NoRemittance
  /\ \A q \in Requests :
       req[q].op = "fund" /\ req[q].link # NoRemittance => row[req[q].rem].link # NoRemittance

\* Handler q is to write that r's settlement is authorized.
Deciding(q, r) ==
  /\ req[q].rem = r
  /\ req[q].pc \in {"check", "write"}
  /\ req[q].to = "SETTLEMENT_AUTHORIZED"

\* Handler q sees the settlement of r through: it writes the row and releases.
Carrying(q, r) ==
  /\ req[q].link = r
  /\ \/ Deciding(q, r)
     \/ req[q].rem = r /\ req[q].op = "release" /\ req[q].pc = "call"

\* The settlement of r is authorized once, by a handler that then meets a row
\* nobody else has marked.
DecidedOnce(r) ==
  \A q \in Requests :
    Deciding(q, r) =>
      /\ row[r].status # "SETTLEMENT_AUTHORIZED"
      /\ \A p \in Requests : Deciding(p, r) => p = q

\* Handler q is busy with the release that follows upon the settlement of r.
Finishing(q, r) ==
  /\ req[q].rem = r
  /\ req[q].op = "release" \/ req[q].pc = "query" \/ req[q].to = "RELEASED"

\* The row has told the settlement of r, or somebody has read there that it did.
Recorded(r) ==
  \/ row[r].status \in {"SETTLEMENT_AUTHORIZED", "RELEASED"}
  \/ \E q \in Requests : Finishing(q, r)

\* By then it is authorized on the ledger and nobody is to write so any more.
FinishedAfterwards(r) ==
  Recorded(r) => /\ escrow[r] \in {"SettlementAuthorized", "Released"}
                 /\ \A q \in Requests : ~Deciding(q, r)

\* The settlement of r has somebody to see it through.
Carried(r) ==
  escrow[r] = "SettlementAuthorized" => \E q \in Requests : Carrying(q, r)

\* The settlements that were authorized and then left to whoever comes next.
Dropped == {r \in Remittances : ~Carried(r)}

\* Invariant: an authorized settlement has a handler that will write the row and
\* release the funds, however many settlements, sweeps and refunds overlap; every
\* handler that dies drops one settlement at most, and nothing else drops any: as
\* long as nothing dies no row waits in SETTLEMENT_AUTHORIZED for a call of the
\* release endpoint (authorizeAndRelease and its re-entry guard, which throws
\* when it meets such a row).
SettlementInHand ==
  /\ \A r \in Remittances : DecidedOnce(r) /\ FinishedAfterwards(r)
  /\ Cardinality(Dropped) <= aborts
=============================================================================
