--------------------------- MODULE EscrowContract ---------------------------
(***************************************************************************)
(* The Soroban escrow contract, as the backend's bindings describe it      *)
(* (src/modules/soroban/bindings/src/index.ts; the contract itself is not  *)
(* in the repository).  The state of one escrow is its stored status;      *)
(* "late" says whether the ledger clock has passed the escrow's business   *)
(* expiry.  A call whose rule does not hold is rejected without effect.    *)
(***************************************************************************)

\* The stored statuses; "None" is an escrow that has not been created.
EscrowStates == {"None", "Created", "Funded", "Processing",
                 "SettlementAuthorized", "Released", "Refunded"}

\* The escrow holds the sender's funds.
Holding == {"Funded", "Processing", "SettlementAuthorized"}

\* fund_remittance: once, and before business expiry.
FundAllowed(e, late) == e = "Created" /\ ~late

\* begin_processing: only a funded escrow.
BeginAllowed(e) == e = "Funded"

\* authorize_settlement: from Funded or Processing, before business expiry.
AuthorizeAllowed(e, late) == e \in {"Funded", "Processing"} /\ ~late

\* release: permissionless once settlement is authorized.
ReleaseAllowed(e) == e = "SettlementAuthorized"

\* refund: the sender cancels a funded escrow, the admin rescues a processing
\* one; past business expiry anyone may refund either.
RefundAllowed(e, late, caller) ==
  \/ e = "Funded" /\ ~late /\ caller = "sender"
  \/ e = "Processing" /\ ~late /\ caller = "admin"
  \/ e \in {"Funded", "Processing"} /\ late

\* status_of: the stored status, or the derived "Expired" for any
\* pre-authorization status past business expiry.
StatusOf(e, late) ==
  IF late /\ e \in {"Created", "Funded", "Processing"} THEN "Expired" ELSE e
=============================================================================
