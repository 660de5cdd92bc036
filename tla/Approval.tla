------------------------------ MODULE Approval ------------------------------
(***************************************************************************)
(* What the confirmation of a tool's write promises its reviewer: a        *)
(* proposal is decided once, an approval permits one write to what was     *)
(* shown, and only a write that happened is shown as completed.            *)
(***************************************************************************)
EXTENDS Sequences

CONSTANTS Action, Target

VARIABLES
  phase,    \* [Action -> "unasked", the status the reviewer sees, or "gone"]
  open,     \* the actions whose approval has not been used up
  shown,    \* [Action -> the target the reviewer sees]
  written   \* [Action -> Seq(Target)]

vars == <<phase, open, shown, written>>

Stored == {a \in Action : phase[a] \notin {"unasked", "gone"}}

Init ==
  /\ phase = [a \in Action |-> "unasked"]
  /\ open = {}
  /\ shown \in [Action -> Target]
  /\ written = [a \in Action |-> <<>>]

\* A proposal may clear what has expired.
Ask(a) ==
  /\ phase[a] = "unasked"
  /\ \E target \in Target : shown' = [shown EXCEPT ![a] = target]
  /\ \E cleared \in SUBSET Stored :
       phase' = [b \in Action |->
                   IF b = a THEN "pending" ELSE IF b \in cleared THEN "gone" ELSE phase[b]]
  /\ UNCHANGED <<open, written>>

Approve(a) ==
  /\ phase[a] = "pending"
  /\ phase' = [phase EXCEPT ![a] = "executing"]
  /\ open' = open \cup {a}
  /\ UNCHANGED <<shown, written>>

Reject(a) ==
  /\ phase[a] = "pending"
  /\ phase' = [phase EXCEPT ![a] = "rejected"]
  /\ UNCHANGED <<open, shown, written>>

CarryOut(a) ==
  /\ a \in open
  /\ written' = [written EXCEPT ![a] = Append(@, shown[a])]
  /\ open' = open \ {a}
  /\ UNCHANGED <<phase, shown>>

\* An approval whose request fails or dies is lost, not kept.
Lapse(a) ==
  /\ a \in open
  /\ open' = open \ {a}
  /\ UNCHANGED <<phase, shown, written>>

\* A failure promises nothing: the reviewer is told to look at the destination.
Answer(a) ==
  /\ phase[a] = "executing"
  /\ \/ written[a] # <<>> /\ phase' = [phase EXCEPT ![a] = "completed"]
     \/ phase' = [phase EXCEPT ![a] = "failed"]
  /\ UNCHANGED <<open, shown, written>>

Clear ==
  /\ \E cleared \in (SUBSET Stored) \ {{}} :
       phase' = [a \in Action |-> IF a \in cleared THEN "gone" ELSE phase[a]]
  /\ UNCHANGED <<open, shown, written>>

Next ==
  \/ \E a \in Action :
       Ask(a) \/ Approve(a) \/ Reject(a) \/ CarryOut(a) \/ Lapse(a) \/ Answer(a)
  \/ Clear

Spec == Init /\ [][Next]_vars
=============================================================================
