------------------------ MODULE MCRemittanceService ------------------------
(***************************************************************************)
(* Model values and symmetry for the runs of RemittanceService.            *)
(***************************************************************************)
EXTENDS RemittanceRefinement, TLC

\* The slots are interchangeable (used by the runs that check safety only).
Slots == Permutations(Requests)

\* So are the remittances.
SlotsAndRemittances == Permutations(Requests) \union Permutations(Remittances)
=============================================================================
