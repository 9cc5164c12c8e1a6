------------------------ MODULE RemittanceRefinement ------------------------
(***************************************************************************)
(* The remittance service implements EscrowPromise: the status of an       *)
(* escrow says where the money is, the status of a row what is announced.  *)
(* It also goes on with the tickets of RemittanceTicket where the intake   *)
(* takes them: a remittance here is the remittance of one ticket there.    *)
(***************************************************************************)
EXTENDS RemittanceInvariant

MoneyOf ==
  [None |-> "sender", Created |-> "sender", Funded |-> "held", Processing |-> "held",
   SettlementAuthorized |-> "committed", Released |-> "recipient", Refunded |-> "returned"]

ToldBy(status) ==
  IF status = "RELEASED" THEN "paid out"
  ELSE IF status = "REFUNDED" THEN "paid back" ELSE "open"

Promise == INSTANCE EscrowPromise
             WITH money <- [r \in Remittances |-> MoneyOf[escrow[r]]],
                  told <- [r \in Remittances |-> ToldBy(row[r].status)]

\* The handlers, the sweep, the wallets and the public together move a
\* remittance's money only forwards, never pay back what was committed to the
\* recipient, and never write an outcome the money has not reached (the calls
\* and the status writes of RemittanceService.ts and jobs.ts).
KeepsPromise == Promise!Spec

\* Every remittance here comes of a ticket that has been taken.
StageOf(r) ==
  IF row[r] = NoRow THEN "taken"
  ELSE IF row[r].link # NoRemittance THEN "linked"
  ELSE IF escrow[r] # "None" THEN "locked" ELSE "booked"

Ticket == INSTANCE RemittanceTicket
            WITH Tickets <- Remittances, NoOffer <- NoRemittance,
                 offer <- [r \in Remittances |-> r],
                 stage <- [r \in Remittances |-> StageOf(r)]

\* The intake and the service see the same remittances: here as there a row is
\* inserted, then its escrow opened, then its contract id stored, never out of
\* this order, and no later UPDATE or call takes any of it back (create, confirm
\* and relay beside all others).  No two remittances here have the same offer, so
\* none is linked because of another one's escrow.
FollowsTicket == [][Ticket!Next]_(Ticket!ticketVars)
=============================================================================
