------------------------- MODULE MCRemittanceIntake -------------------------
(***************************************************************************)
(* Model values, the numbers of the pricing, bounds and symmetry for the   *)
(* run of RemittanceIntake.                                                *)
(***************************************************************************)
EXTENDS IntakeRefinement, TLC, FiniteSets

CONSTANTS
  cheap, dear,
  Usual   \* an amount asked for, in stroops

\* What the versions of the stellar.toml say: 2 stroops and 1 %, or a fee that
\* takes everything.
MCAnchorFees == (cheap :> [fixed |-> 2, bps |-> 100]) @@ (dear :> [fixed |-> 665, bps |-> 0])

\* The quotes that are not of the usual amount, stored or about to be.
Unusual ==
  {i \in QuoteIds : Stored(i) /\ quotes[i].terms.source # Usual}
    \union {q \in Requests : At(q, "quote", "insert") /\ req[q].terms.source # Usual}

\* Bounds.  Of a second account, a quote of another amount, a fault and the passing
\* of time a behaviour sees one.  The directory is refreshed while
\* there are no users: what creates, confirms and registrations see of it is the
\* terms of the quotes, which they only copy and compare.
Bounded ==
  /\ Cardinality(accounts) <= 2
  /\ 2 * (now + faults + Cardinality(Unusual)) + Cardinality(accounts) <= 3
  /\ anchor # NoVersion \/ (\E q \in Requests : req[q].op = "discover") => users = {}

Symmetric == Permutations(Requests) \union Permutations(QuoteIds) \union Permutations(RemIds)
=============================================================================
