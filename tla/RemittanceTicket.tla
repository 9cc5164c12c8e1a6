-------------------------- MODULE RemittanceTicket --------------------------
(***************************************************************************)
(* What a quote promises its owner, and nothing of how: terms that do not  *)
(* change once offered, taken at most once, and from then on one           *)
(* remittance and one escrow, reached one stage after the other.           *)
(***************************************************************************)

CONSTANTS
  Tickets,
  NoOffer    \* "no terms yet"

VARIABLES
  offer,     \* the terms of each ticket
  stage      \* how far each ticket has come

ticketVars == <<offer, stage>>

Init ==
  /\ offer = [t \in Tickets |-> NoOffer]
  /\ stage = [t \in Tickets |-> "blank"]

Following ==
  [blank |-> "offered", offered |-> "taken", taken |-> "booked", booked |-> "locked",
   locked |-> "linked"]

\* A ticket goes on to its next stage, and no other does; its terms are chosen
\* in the first step and stand from then on.
Advance(t) ==
  /\ stage[t] # "linked"
  /\ stage'[t] = Following[stage[t]]
  /\ \A u \in Tickets \ {t} : stage'[u] = stage[u] /\ offer'[u] = offer[u]
  /\ stage[t] # "blank" => offer'[t] = offer[t]

\* A ticket whose escrow has been opened is mistaken for another one with the
\* same terms, which is then taken for locked and linked at once.
Mistaken(t) ==
  /\ stage[t] = "booked"
  /\ \E u \in Tickets \ {t} : stage[u] \in {"locked", "linked"} /\ offer[u] = offer[t]
  /\ stage' = [stage EXCEPT ![t] = "linked"]
  /\ UNCHANGED offer

Next == \E t \in Tickets : Advance(t) \/ Mistaken(t)

Spec == Init /\ [][Next]_ticketVars
=============================================================================
