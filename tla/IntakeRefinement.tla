-------------------------- MODULE IntakeRefinement --------------------------
(***************************************************************************)
(* The intake implements RemittanceTicket: a quote is its owner's ticket,  *)
(* and the tables and the ledger say how far it has come.                  *)
(***************************************************************************)
EXTENDS IntakeInvariant

RowsOf(i) == {r \in RemIds : rems[r].quote = i}

StageOf(i) ==
  IF RowsOf(i) = {}
    THEN IF quotes[i].used THEN "taken" ELSE IF Stored(i) THEN "offered" ELSE "blank"
  ELSE IF \E r \in RowsOf(i) : rems[r].link # 0 THEN "linked"
  ELSE IF \E r \in RowsOf(i) : Escrowed(r) THEN "locked" ELSE "booked"

Ticket == INSTANCE RemittanceTicket
            WITH Tickets <- QuoteIds, NoOffer <- NoQuote,
                 offer <- [i \in QuoteIds |-> quotes[i].terms],
                 stage <- [i \in QuoteIds |-> StageOf(i)]

\* Sessions, creates, confirms and wallets together take a quote through its
\* stages one by one and never back: no escrow without a row, no contract id
\* without an escrow, none but the row's own unless another quote of exactly the
\* same terms has one, and terms that stay what was offered (createQuote, claim,
\* create and confirm).
KeepsTickets == Ticket!Spec
=============================================================================
