----------------------------- MODULE RequestDesk -----------------------------
(***************************************************************************)
(* The HTTP handlers running at the same time.  A handler runs from one    *)
(* await to the next; what it remembers in between is the record in its    *)
(* slot.  A handler can die at any await: the process restarts, or the     *)
(* statement it is waiting for fails and it throws.                        *)
(***************************************************************************)
EXTENDS Naturals

CONSTANTS
  Requests,   \* slots for the handlers running at the same time
  MaxFaults   \* bound: how many handlers may die, or lose an answer

ASSUME DeskAssumption == MaxFaults \in Nat

VARIABLES
  req,     \* what the handler in each slot remembers
  faults   \* how many handlers have died or lost an answer

deskVars == <<req, faults>>

Idle == [op |-> "none", pc |-> "idle"]

DeskInit == req = [q \in Requests |-> Idle] /\ faults = 0

At(q, op, pc) == req[q].op = op /\ req[q].pc = pc

\* A handler starts, goes on, or ends (it has answered, or thrown).
Begin(q, handler) ==
  req[q] = Idle /\ req' = [req EXCEPT ![q] = handler] /\ UNCHANGED faults
Becomes(q, handler) == req' = [req EXCEPT ![q] = handler] /\ UNCHANGED faults
Goes(q, pc) == Becomes(q, [req[q] EXCEPT !.pc = pc])
Ends(q) == Becomes(q, Idle)

Faulty == faults < MaxFaults /\ faults' = faults + 1

Dies(q) ==
  /\ req[q] # Idle
  /\ Faulty
  /\ req' = [req EXCEPT ![q] = Idle]
=============================================================================
