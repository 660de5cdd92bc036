------------------------- MODULE GenerationOutcome -------------------------
(***************************************************************************)
(* What POST /api/chat promises about a background generation: a request   *)
(* is submitted once and settled once, and the assistant message that goes *)
(* with the outcome is saved in the same step.                             *)
(***************************************************************************)
CONSTANT Gen

VARIABLES
  state,  \* [Gen -> {"absent", "pending", "completed", "failed", "cancelled"}]
  saved   \* [Gen -> {"none", "full", "partial"}]

vars == <<state, saved>>

\* The messages that may go with an outcome.
SavedFor(outcome) ==
  IF outcome = "completed" THEN {"full"} ELSE {"none", "partial"}

Init ==
  /\ state = [g \in Gen |-> "absent"]
  /\ saved = [g \in Gen |-> "none"]

Submit(g) ==
  /\ state[g] = "absent"
  /\ state' = [state EXCEPT ![g] = "pending"]
  /\ UNCHANGED saved

Settle(g) ==
  /\ state[g] = "pending"
  /\ \E outcome \in {"completed", "failed", "cancelled"} :
       \E message \in SavedFor(outcome) :
         /\ state' = [state EXCEPT ![g] = outcome]
         /\ saved' = [saved EXCEPT ![g] = message]

Next == \E g \in Gen : Submit(g) \/ Settle(g)

Spec == Init /\ [][Next]_vars

\* Every submitted request is settled.
FairSpec == Spec /\ \A g \in Gen : WF_vars(Settle(g))
=============================================================================
