---------------------------- MODULE EscrowPromise ----------------------------
(***************************************************************************)
(* What the remittance service promises a sender, and nothing of how: the  *)
(* money of a remittance moves in one direction, a settlement once         *)
(* committed is no longer paid back, and an outcome is only ever announced *)
(* once the money has got there.                                           *)
(***************************************************************************)

CONSTANT Remittances

VARIABLES
  money,  \* where the money of each remittance is
  told    \* the outcome that is announced of it

Places == {"sender", "held", "committed", "recipient", "returned"}
Outcomes == {"open", "paid out", "paid back"}

Init ==
  /\ money = [r \in Remittances |-> "sender"]
  /\ told = [r \in Remittances |-> "open"]

Move(r, from, to) ==
  /\ money[r] = from
  /\ money' = [money EXCEPT ![r] = to]
  /\ UNCHANGED told

Lock(r) == Move(r, "sender", "held")
Commit(r) == Move(r, "held", "committed")
PayOut(r) == Move(r, "committed", "recipient")
PayBack(r) == Move(r, "held", "returned")

\* The outcome where the money is.
Truth(r) ==
  IF money[r] = "recipient" THEN "paid out"
  ELSE IF money[r] = "returned" THEN "paid back" ELSE "open"

\* The truth may be told, or withheld again, and nothing else is ever said.
Tell(r) ==
  /\ told' = [told EXCEPT ![r] = Truth(r)]
  /\ UNCHANGED money

Withhold(r) ==
  /\ told' = [told EXCEPT ![r] = "open"]
  /\ UNCHANGED money

Next ==
  \E r \in Remittances :
    \/ Lock(r) \/ Commit(r) \/ PayOut(r) \/ PayBack(r)
    \/ Tell(r) \/ Withhold(r)

promiseVars == <<money, told>>

Spec == Init /\ [][Next]_promiseVars
=============================================================================
