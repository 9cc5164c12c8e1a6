-------------------------- MODULE RemittanceStates --------------------------
(***************************************************************************)
(* The remittance state machine of src/modules/remittance/state.ts: the    *)
(* statuses a database row can show, the lifecycle phases of the app's     *)
(* feed, and the table of legal transitions that setState consults.        *)
(***************************************************************************)

\* REMITTANCE_STATUSES.
Statuses == {"CREATED", "FUNDED", "PROCESSING", "SETTLEMENT_AUTHORIZED",
             "RELEASED", "REFUNDED", "EXPIRED"}

\* LIFECYCLE_PHASES.
LifecyclePhases == {"QUOTE_CREATED", "TRANSFER_INITIATED", "ANCHOR_PROCESSING",
                    "STELLAR_PAYMENT_SUBMITTED", "STELLAR_PAYMENT_CONFIRMED",
                    "DESTINATION_SETTLEMENT", "COMPLETED", "REFUNDED", "EXPIRED"}

\* Faulty variant: settlement only from PROCESSING.
AllowedTransitionsNoShortcut ==
  [CREATED               |-> {"FUNDED", "REFUNDED", "EXPIRED"},
   FUNDED                |-> {"PROCESSING", "REFUNDED", "EXPIRED"},
   PROCESSING            |-> {"SETTLEMENT_AUTHORIZED", "REFUNDED", "EXPIRED"},
   SETTLEMENT_AUTHORIZED |-> {"RELEASED"},
   RELEASED              |-> {},
   REFUNDED              |-> {},
   EXPIRED               |-> {}]

\* ALLOWED_TRANSITIONS: the statuses reachable from one status in one step.
AllowedTransitions ==
  [CREATED               |-> {"FUNDED", "REFUNDED", "EXPIRED"},
   FUNDED                |-> {"PROCESSING", "REFUNDED", "EXPIRED", "SETTLEMENT_AUTHORIZED"},
   PROCESSING            |-> {"SETTLEMENT_AUTHORIZED", "REFUNDED", "EXPIRED"},
   SETTLEMENT_AUTHORIZED |-> {"RELEASED"},
   RELEASED              |-> {},
   REFUNDED              |-> {},
   EXPIRED               |-> {}]

CanTransition(from, to) == to \in AllowedTransitions[from]

\* lifecycleFromStatus, and the phase every status write of the service sets.
LifecycleFromStatus ==
  [CREATED               |-> "QUOTE_CREATED",
   FUNDED                |-> "TRANSFER_INITIATED",
   PROCESSING            |-> "ANCHOR_PROCESSING",
   SETTLEMENT_AUTHORIZED |-> "DESTINATION_SETTLEMENT",
   RELEASED              |-> "COMPLETED",
   REFUNDED              |-> "REFUNDED",
   EXPIRED               |-> "EXPIRED"]
=============================================================================
