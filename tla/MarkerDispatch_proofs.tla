----------------------- MODULE MarkerDispatch_proofs -----------------------
(***************************************************************************)
(* Theorems about MarkerDispatch: a conversion is paid for once, a row     *)
(* that is over stays so, a result at hand is not dropped, and the import  *)
(* follows the row.                                                        *)
(***************************************************************************)
EXTENDS MarkerDispatch, TLAPS

-----------------------------------------------------------------------------
(***************************************************************************)
(* The inductive invariant.  Pay: a row can be claimed only before its     *)
(* first claim, and nothing is paid before it.  Tasks: only one is on its  *)
(* way to the paid call, and before it; what is being completed has a      *)
(* result; a webhook reports how the provider's job ended, and once it has *)
(* refused the row the row stays refused or is over.                       *)
(***************************************************************************)
Live == Status \ (Terminal \cup {"none"})
Paying == {"checking", "signing", "calling"}
WithResult == {"confirming", "entering", "indexing", "invalid"}
Hooks == {"hook", "hooked", "unhooked"}

TaskOK(state, r, p, res, rem) ==
  /\ state.pc \in Paying => p = 0 /\ r.dispatches = 1
  /\ state.pc \in WithResult => res
  /\ state.pc \in Hooks => rem \in {"done", "failed"} /\ (state.flag <=> rem = "done")
  /\ state.pc \in {"hooked", "unhooked"} /\ rem = "failed" => r.status \in Refused \cup Terminal

TaskInv == \A t \in Task : TaskOK(task[t], row, paid, result, remote)
SolePayer == \A t, u \in Task : task[t].pc \in Paying /\ task[u].pc \in Paying => t = u
PayInv ==
  /\ row.status \in Dispatchable \cup {"none"} => row.dispatches = 0
  /\ row.dispatches = 0 => paid = 0
  /\ paid = 0 => remote = "none"
  /\ paid \in {0, 1}

IInv == TypeOK /\ TaskInv /\ SolePayer /\ PayInv /\ CompletedHasResult /\ ImportFollowsRow

-----------------------------------------------------------------------------
(***************************************************************************)
(* How a row can change.                                                   *)
(***************************************************************************)
Edge(from, to, completions, rem) ==
  \/ from = "none" /\ to = "dispatch_queued"
  \/ from \in Dispatchable /\ to \in Dispatchable
  \/ from \in Sent /\ to \in {"awaiting_result", "completion_queued", "failure_queued"}
  \/ from \in Offered \cup {"completing"} /\ to \in Offered
  \/ from = "completing" /\ to \in {"completed", "invalid_result"}
  \/ from \in Offered \cup {"completing"} /\ to \in Refused \cup {"failed"} /\ completions = MaxCompletions
  \/ from \in Refused /\ to \in Refused \cup {"failed"}
  \/ from = "failure_queued" /\ to = "completion_enqueue_failed" /\ rem = "done"
  \/ from \in Live /\ to = "cancelled"

RowOK(a, b, rem) ==
  /\ b \in Row
  /\ \/ b = a
     \/ /\ Edge(a.status, b.status, a.completions, rem)
        /\ b.dispatches = a.dispatches /\ b.completions = a.completions
     \/ /\ a.status \in Dispatchable /\ b.status = "dispatching"
        /\ b.dispatches = 1 /\ b.completions = a.completions
     \/ /\ a.status \in Offered /\ b.status = "completing"
        /\ b.dispatches = a.dispatches /\ b.completions = a.completions + 1

\* a step that does not end the row
GoesOn == /\ RowOK(row, row', remote) /\ aged' \in BOOLEAN
          /\ row' = row \/ (row.status \in Live /\ row'.status \in Live)

LEMMA Statuses ==
  /\ Live = Dispatchable \cup Sent \cup Offered \cup Refused \cup {"completing"}
  /\ Live \subseteq Status /\ Terminal \subseteq Status
  /\ Live \cap Terminal = {} /\ "none" \notin Live /\ "none" \notin Terminal
BY DEF Live, Status, Dispatchable, Sent, Offered, Refused, Terminal

LEMMA WithStatus ==
  ASSUME row \in Row, NEW s \in Status, NEW b, b = [row EXCEPT !.status = s]
  PROVE  b \in Row /\ b.status = s /\ b.dispatches = row.dispatches /\ b.completions = row.completions
BY DEF Row

LEMMA Unmoved == ASSUME TypeOK, UNCHANGED rowVars PROVE GoesOn
BY DEF TypeOK, rowVars, GoesOn, RowOK

LEMMA Moved ==
  ASSUME TypeOK, NEW s \in Live, row' = [row EXCEPT !.status = s], aged' \in BOOLEAN,
         row.status \in Live, Edge(row.status, s, row.completions, remote)
  PROVE  GoesOn
<1>1. row' \in Row /\ row'.status = s /\ row'.dispatches = row.dispatches /\ row'.completions = row.completions
  BY WithStatus, Statuses DEF TypeOK
<1> QED BY <1>1 DEF GoesOn, RowOK

LEMMA RowFields ==
  ASSUME TypeOK
  PROVE  /\ row \in Row /\ row.status \in Status /\ row.completions \in 0..MaxCompletions /\ row.dispatches \in {0, 1}
         /\ aged \in BOOLEAN /\ MaxCompletions \in Nat /\ MaxCompletions > 0
BY MarkerAssumption DEF TypeOK, Row

\* Steps of a task that record something of the row.
LEMMA Recorded ==
  ASSUME IInv, NEW t \in Task,
         \/ SubmitFailed(t) \/ Pause(t) \/ Ambiguous(t) \/ Reject(t) \/ FailureUnpublished(t)
         \/ Ready(t) \/ CompletionUnpublished(t) \/ HookUnpublished(t) \/ Republished(t) \/ Unoffered(t)
  PROVE  GoesOn
<1>0. TypeOK /\ TaskOK(task[t], row, paid, result, remote)
  BY DEF IInv, TaskInv
<1>1. CASE SubmitFailed(t)
  BY <1>0, <1>1, Moved, Unmoved, Statuses DEF SubmitFailed, Move, Edge, Dispatchable
<1>2. CASE Pause(t)
  BY <1>0, <1>2, Moved, Unmoved, Statuses DEF Pause, Move, Edge, Dispatchable
<1>3. CASE Ambiguous(t)
  BY <1>0, <1>3, Moved, Unmoved, Statuses DEF Ambiguous, Move, Edge, Owned, Sent
<1>4. CASE Reject(t)
  BY <1>0, <1>4, Moved, Unmoved, Statuses DEF Reject, Move, Edge, Owned, Refused
<1>5. CASE FailureUnpublished(t)
  BY <1>0, <1>5, Moved, Unmoved, Statuses DEF FailureUnpublished, Move, Edge, Owned, Refused
<1>6. CASE Ready(t)
  BY <1>0, <1>6, Moved, Unmoved, Statuses DEF Ready, Move, Edge, Owned, Offered
<1>7. CASE CompletionUnpublished(t)
  BY <1>0, <1>7, Moved, Unmoved, Statuses DEF CompletionUnpublished, Move, Edge, Owned, Offered
<1>8. CASE HookUnpublished(t)
  <2>1. /\ task[t].pc \in Hooks /\ (task[t].flag <=> remote = "done")
        /\ ~task[t].flag => row.status \in Refused \cup Terminal
    BY <1>0, <1>8 DEF HookUnpublished, At, TaskOK, Hooks
  <2>2. "completion_queued" \notin Refused \cup Terminal
    BY DEF Refused, Terminal
  <2>3. CASE row.status \in {"completion_queued", "failure_queued"}
    <3> DEFINE s == IF task[t].flag THEN "completion_enqueue_failed" ELSE "failure_enqueue_failed"
    <3>1. row' = [row EXCEPT !.status = s] /\ aged' \in BOOLEAN
      BY <1>8, <2>3 DEF HookUnpublished, Move
    <3>2. s \in Live /\ row.status \in Live
      BY <2>3, Statuses DEF Offered, Refused
    <3>3. Edge(row.status, s, row.completions, remote)
      BY <2>1, <2>2, <2>3 DEF Edge, Offered, Refused
    <3> QED BY <1>0, <3>1, <3>2, <3>3, Moved
  <2>4. CASE row.status \notin {"completion_queued", "failure_queued"}
    BY <1>0, <1>8, <2>4, Unmoved DEF HookUnpublished, Move
  <2> QED BY <2>3, <2>4
<1>9. CASE Republished(t)
  BY <1>0, <1>9, Moved, Unmoved, Statuses DEF Republished, Move, Edge, Dispatchable
<1>10. CASE Unoffered(t)
  <2>1. CASE task[t].flag
    BY <1>0, <1>10, <2>1, Moved, Unmoved, Statuses DEF Unoffered, Move, Edge, Refused
  <2>2. CASE ~task[t].flag
    BY <1>0, <1>10, <2>2, Moved, Unmoved, Statuses DEF Unoffered, Move, Edge, Offered
  <2> QED BY <2>1, <2>2
<1> QED BY <1>1, <1>2, <1>3, <1>4, <1>5, <1>6, <1>7, <1>8, <1>9, <1>10

\* Steps that take the row on: claims, acknowledgements, webhooks and sweeps.
LEMMA Advanced ==
  ASSUME IInv, NEW t \in Task,
         Claim(t) \/ Accepted(t) \/ TakeCompletion(t) \/ TakeFailure(t) \/ HookMoves(t) \/ Sweeping(t)
  PROVE  GoesOn
<1>0. TypeOK /\ TaskOK(task[t], row, paid, result, remote)
  BY DEF IInv, TaskInv
<1>1. CASE Claim(t)
  <2>1. CASE row.status \in Dispatchable
    <3>1. row' = [row EXCEPT !.status = "dispatching", !.dispatches = 1] /\ aged' \in BOOLEAN
      BY <1>1, <2>1 DEF Claim
    <3>2. row \in Row /\ "dispatching" \in Live /\ "dispatching" \in Status /\ row.status \in Live
      BY <1>0, <2>1, RowFields, Statuses DEF Sent
    <3>3. /\ row' \in Row /\ row'.status = "dispatching" /\ row'.dispatches = 1
          /\ row'.completions = row.completions
      BY <3>1, <3>2 DEF Row
    <3> QED BY <2>1, <3>1, <3>2, <3>3 DEF GoesOn, RowOK
  <2>2. CASE row.status \notin Dispatchable
    BY <1>0, <1>1, <2>2, Unmoved DEF Claim
  <2> QED BY <2>1, <2>2
<1>2. CASE Accepted(t)
  <2>1. CASE Owned(t, {"dispatching"})
    <3>1. row' = [row EXCEPT !.status = "awaiting_result", !.id = TRUE] /\ aged' \in BOOLEAN
      BY <1>2, <2>1 DEF Accepted
    <3>2. /\ row \in Row /\ "awaiting_result" \in Live /\ "awaiting_result" \in Status
          /\ row.status \in Live /\ row.status = "dispatching"
      BY <1>0, <2>1, RowFields, Statuses DEF Sent, Owned
    <3>3. /\ row' \in Row /\ row'.status = "awaiting_result" /\ row'.dispatches = row.dispatches
          /\ row'.completions = row.completions
      BY <3>1, <3>2 DEF Row
    <3> QED BY <2>1, <3>1, <3>2, <3>3 DEF GoesOn, RowOK, Edge, Sent
  <2>2. CASE ~Owned(t, {"dispatching"})
    BY <1>0, <1>2, <2>2, Unmoved DEF Accepted
  <2> QED BY <2>1, <2>2
<1>3. CASE TakeCompletion(t)
  <2>1. CASE row.status \in Offered /\ row.completions < MaxCompletions /\ parent
    <3>1. row' = [row EXCEPT !.status = "completing", !.completions = @ + 1] /\ aged' \in BOOLEAN
      BY <1>3, <2>1 DEF TakeCompletion
    <3>2. row \in Row /\ "completing" \in Live /\ "completing" \in Status /\ row.status \in Live
      BY <1>0, <2>1, RowFields, Statuses
    <3>3. row.completions + 1 \in 0..MaxCompletions
      BY <1>0, <2>1, RowFields
    <3>4. /\ row' \in Row /\ row'.status = "completing" /\ row'.dispatches = row.dispatches
          /\ row'.completions = row.completions + 1
      BY <3>1, <3>2, <3>3 DEF Row
    <3> QED BY <2>1, <3>1, <3>2, <3>4 DEF GoesOn, RowOK
  <2>2. CASE ~(row.status \in Offered /\ row.completions < MaxCompletions /\ parent)
    BY <1>0, <1>3, <2>2, Unmoved DEF TakeCompletion
  <2> QED BY <2>1, <2>2
<1>4. CASE TakeFailure(t)
  <2>1. CASE row.status \in Refused \ {"failing"}
    <3>1. Edge(row.status, "failing", row.completions, remote) /\ "failing" \in Live /\ row.status \in Live
      BY <2>1, Statuses DEF Edge, Refused
    <3>2. row' = [row EXCEPT !.status = "failing"] /\ aged' \in BOOLEAN
      BY <1>4, <2>1 DEF TakeFailure, Move
    <3> QED BY <1>0, <3>1, <3>2, Moved
  <2>2. CASE row.status \notin Refused \ {"failing"}
    BY <1>0, <1>4, <2>2, Unmoved DEF TakeFailure
  <2> QED BY <2>1, <2>2
<1>5. CASE HookMoves(t)
  <2>1. CASE row.status \in Sent
    <3> DEFINE s == IF task[t].flag THEN "completion_queued" ELSE "failure_queued"
    <3>1. row' = [row EXCEPT !.id = TRUE, !.status = s] /\ aged' \in BOOLEAN
      BY <1>5, <2>1 DEF HookMoves
    <3>2. row \in Row /\ s \in Live /\ s \in Status /\ row.status \in Live /\ s \in {"completion_queued", "failure_queued"}
      BY <1>0, <2>1, RowFields, Statuses DEF Offered, Refused
    <3> HIDE DEF s
    <3>3. row' \in Row /\ row'.status = s /\ row'.dispatches = row.dispatches /\ row'.completions = row.completions
      BY <3>1, <3>2 DEF Row
    <3> QED BY <2>1, <3>1, <3>2, <3>3 DEF GoesOn, RowOK, Edge
  <2>2. CASE row.status \notin Sent
    BY <1>0, <1>5, <2>2, Unmoved DEF HookMoves
  <2> QED BY <2>1, <2>2
<1>6. CASE SweepDispatchable(t)
  BY <1>0, <1>6, Moved, Statuses DEF SweepDispatchable, SweepRow, Edge, Dispatchable
<1>7. CASE SweepStale(t)
  BY <1>0, <1>7, Moved, Statuses DEF SweepStale, SweepRow, Edge, Sent
<1>8. CASE SweepAwaiting(t)
  BY <1>0, <1>8, Unmoved DEF SweepAwaiting
<1>9. CASE SweepContinuation(t)
  <2> DEFINE s == IF row.status \in Refused \/ row.completions >= MaxCompletions
                    THEN "failure_queued" ELSE "completion_queued"
  <2>1. row' = [row EXCEPT !.status = s] /\ aged' \in BOOLEAN
    BY <1>9 DEF SweepContinuation, SweepRow
  <2>2. s \in Live /\ row.status \in Live /\ row.status \in Offered \cup {"completing"} \cup Refused
    BY <1>9, Statuses DEF SweepContinuation, Offered, Refused
  <2>3. row.completions >= MaxCompletions => row.completions = MaxCompletions
    BY <1>0, RowFields
  <2>4. Edge(row.status, s, row.completions, remote)
    BY <2>2, <2>3 DEF Edge, Offered, Refused
  <2> HIDE DEF s
  <2> QED BY <1>0, <2>1, <2>2, <2>4, Moved
<1> QED BY <1>1, <1>2, <1>3, <1>4, <1>5, <1>6, <1>7, <1>8, <1>9 DEF Sweeping

-----------------------------------------------------------------------------
(***************************************************************************)
(* What a step does to the task that takes it.                             *)
(***************************************************************************)
Plain == Pc \ (Paying \cup WithResult \cup Hooks)
TaskStep(t) ==
  /\ task' \in [Task -> TaskState]
  /\ \A u \in Task \ {t} : task'[u] = task[u]
  /\ task'[t].pc \in Paying => task[t].pc \in Paying
  /\ TaskOK(task'[t], row', paid', result', remote')

LEMMA StateFields ==
  ASSUME NEW state \in TaskState
  PROVE  state.pc \in Pc /\ state.flag \in BOOLEAN
BY DEF TaskState

LEMMA IdleState == Idle \in TaskState /\ Idle.pc = "idle" /\ "idle" \in Plain
BY MarkerAssumption DEF Idle, TaskState, Pc, Plain, Paying, WithResult, Hooks

LEMMA SetPlain ==
  ASSUME TypeOK, NEW t \in Task, NEW state \in TaskState, state.pc \in Plain, task' = [task EXCEPT ![t] = state]
  PROVE  TaskStep(t)
<1>1. task' \in [Task -> TaskState] /\ task'[t] = state /\ \A u \in Task \ {t} : task'[u] = task[u]
  BY DEF TypeOK
<1>2. state.pc \notin Paying /\ state.pc \notin WithResult /\ state.pc \notin Hooks
  BY DEF Plain
<1>3. {"hooked", "unhooked"} \subseteq Hooks
  BY DEF Hooks
<1> QED BY <1>1, <1>2, <1>3 DEF TaskStep, TaskOK

LEMMA RestPlain == ASSUME TypeOK, NEW t \in Task, Rest(t) PROVE TaskStep(t)
BY IdleState, SetPlain DEF Rest

LEMMA StartPlain ==
  ASSUME TypeOK, NEW t \in Task, NEW state \in TaskState, state.pc \in Plain, Start(t, state)
  PROVE  TaskStep(t)
BY SetPlain DEF Start

LEMMA GotoState ==
  ASSUME TypeOK, NEW t \in Task, NEW pc \in Pc, Goto(t, pc)
  PROVE  /\ task' \in [Task -> TaskState]
         /\ \A u \in Task \ {t} : task'[u] = task[u]
         /\ task'[t].pc = pc /\ task'[t].flag = task[t].flag
<1>1. task[t] \in TaskState
  BY DEF TypeOK
<1> DEFINE state == [task[t] EXCEPT !.pc = pc]
<1>2. state \in TaskState /\ state.pc = pc /\ state.flag = task[t].flag
  BY <1>1 DEF TaskState
<1>3. task' = [task EXCEPT ![t] = state]
  BY DEF Goto
<1> HIDE DEF state
<1> QED BY <1>2, <1>3 DEF TypeOK

LEMMA GotoPlain ==
  ASSUME TypeOK, NEW t \in Task, NEW pc \in Plain, Goto(t, pc)
  PROVE  TaskStep(t)
<1>1. pc \in Pc /\ pc \notin Paying /\ pc \notin WithResult /\ pc \notin Hooks
  BY DEF Plain
<1>2. {"hooked", "unhooked"} \subseteq Hooks
  BY DEF Hooks
<1> QED BY <1>1, <1>2, GotoState DEF TaskStep, TaskOK

LEMMA PlainPcs ==
  /\ {"pausing", "claiming", "answering", "accepted", "ambiguous", "rejecting", "telling", "untold",
      "probing", "asking", "abandoning", "ready", "handing", "unhanded", "loading", "retrying", "settled",
      "failing", "idle", "submitted", "unsubmitted", "republishing", "republished", "unrepublished",
      "reprobing", "reoffering", "unoffered"} \subseteq Plain
  /\ Plain \subseteq Pc /\ Paying \subseteq Pc /\ WithResult \subseteq Pc /\ Hooks \subseteq Pc
  /\ Paying \cap WithResult = {} /\ Paying \cap Hooks = {} /\ WithResult \cap Hooks = {}
BY DEF Plain, Pc, DispatchPc, CompletePc, FailPc, Paying, WithResult, Hooks

-----------------------------------------------------------------------------
(***************************************************************************)
(* Ordinary steps: one task moves, and perhaps the row with it, which does *)
(* not end; the outside world and the import do not change.                *)
(***************************************************************************)
Ordinary(t) ==
  /\ GoesOn /\ TaskStep(t)
  /\ UNCHANGED <<enabled, canvas, outside>>
  /\ queue' \in SUBSET Message /\ faults' \in 0..MaxFaults

LEMMA RowAdvances ==
  ASSUME IInv, RowOK(row, row', remote)
  PROVE  /\ row.status \in Terminal => row' = row
         /\ row.dispatches = 1 => row'.dispatches = 1
         /\ row'.status \in Dispatchable \cup {"none"} => row'.dispatches = 0
         /\ remote # "done" /\ row.status \in Refused \cup Terminal => row'.status \in Refused \cup Terminal
         /\ row.status \in Offered \cup {"completing"} /\ row'.status \in Refused \cup {"failed"}
              => row.completions = MaxCompletions
<1>0. /\ row.status \in Dispatchable \cup {"none"} => row.dispatches = 0
      /\ row'.status \in Status
  BY DEF IInv, PayInv, RowOK, Row
<1>1. CASE row' = row
  BY <1>0, <1>1 DEF Refused, Offered
<1>2. CASE row' # row /\ row.status = "none"
  BY <1>0, <1>2, Statuses DEF RowOK, Edge, Terminal, Dispatchable, Sent, Offered, Refused
<1>3. CASE row' # row /\ row.status \in Dispatchable
  BY <1>0, <1>3, Statuses DEF RowOK, Edge, Terminal, Dispatchable, Sent, Offered, Refused
<1>4. CASE row' # row /\ row.status \in Sent \cup Offered \cup {"completing"} \cup Refused
  BY <1>0, <1>4, Statuses DEF RowOK, Edge, Terminal, Dispatchable, Sent, Offered, Refused
<1>5. CASE row' # row /\ row.status \in Terminal
  BY <1>0, <1>5, Statuses DEF RowOK, Edge, Terminal, Dispatchable, Sent, Offered, Refused, Live
<1>6. row.status \in {"none"} \cup Dispatchable \cup Sent \cup Offered \cup {"completing"} \cup Refused \cup Terminal
  BY RowFields DEF IInv, Status
<1> QED BY <1>1, <1>2, <1>3, <1>4, <1>5, <1>6

\* The tasks that do not move keep what is known of them.
LEMMA OthersKeep ==
  ASSUME IInv, RowOK(row, row', remote), result => result', UNCHANGED paid,
         remote' = remote \/ remote = "queued", NEW t \in Task
  PROVE  TaskOK(task[t], row', paid', result', remote')
<1>1. TaskOK(task[t], row, paid, result, remote)
  BY DEF IInv, TaskInv
<1>2. task[t].pc \in Hooks => remote' = remote
  BY <1>1 DEF TaskOK
<1>3. {"hooked", "unhooked"} \subseteq Hooks
  BY DEF Hooks
<1> QED BY <1>1, <1>2, <1>3, RowAdvances DEF TaskOK

LEMMA PayKept ==
  ASSUME IInv, RowOK(row, row', remote), UNCHANGED paid, remote' = remote \/ remote = "queued"
  PROVE  PayInv'
<1>1. row.dispatches \in {0, 1} /\ row'.dispatches \in {0, 1}
  BY RowFields DEF IInv, RowOK, Row
<1> QED BY <1>1, RowAdvances DEF IInv, PayInv

LEMMA TasksKept ==
  ASSUME IInv, NEW t \in Task, TaskStep(t), RowOK(row, row', remote), result => result', UNCHANGED paid,
         remote' = remote \/ remote = "queued"
  PROVE  TaskInv' /\ SolePayer'
<1>1. \A u \in Task : TaskOK(task'[u], row', paid', result', remote')
  BY OthersKeep DEF TaskStep
<1>2. \A u \in Task : task'[u].pc \in Paying => task[u].pc \in Paying
  BY DEF TaskStep
<1> QED BY <1>1, <1>2 DEF IInv, TaskInv, SolePayer

LEMMA ImportKept ==
  ASSUME IInv, GoesOn, UNCHANGED import, result => result'
  PROVE  ImportFollowsRow' /\ CompletedHasResult'
<1>1. row.status = row'.status \/ (row.status \in Live /\ row'.status \in Live)
  BY DEF GoesOn
<1>2. {"completed", "failed", "invalid_result"} \subseteq Terminal
  BY DEF Terminal
<1> QED BY <1>1, <1>2, Statuses DEF IInv, ImportFollowsRow, CompletedHasResult

\* what every step keeps
Sound == IInv' /\ RowOK(row, row', remote)

LEMMA OrdinaryKeeps == ASSUME IInv, NEW t \in Task, Ordinary(t) PROVE Sound
<1>1. /\ RowOK(row, row', remote) /\ TaskStep(t) /\ UNCHANGED <<import, result, paid, remote>>
  BY DEF Ordinary, GoesOn, canvas, outside
<1>2. TypeOK'
  BY DEF IInv, TypeOK, Ordinary, GoesOn, RowOK, TaskStep, canvas, outside
<1>3. TaskInv' /\ SolePayer' /\ PayInv'
  BY <1>1, TasksKept, PayKept
<1>4. ImportFollowsRow' /\ CompletedHasResult'
  BY <1>1, ImportKept DEF Ordinary
<1> QED BY <1>1, <1>2, <1>3, <1>4 DEF IInv, Sound

\* Publications, and what else is ordinary in a task.
LEMMA PublishOrdinary ==
  ASSUME IInv, NEW t \in Task, NEW message \in Message, NEW sent \in Plain, NEW failed \in Plain,
         Publish(t, message, sent, failed)
  PROVE  Ordinary(t)
<1>1. GoesOn
  BY Unmoved DEF Publish, IInv
<1>2. TaskStep(t)
  BY GotoPlain DEF Publish, IInv
<1>3. queue' \in SUBSET Message /\ faults' \in 0..MaxFaults
  BY MarkerAssumption DEF Publish, IInv, TypeOK, Fault
<1> QED BY <1>1, <1>2, <1>3 DEF Publish, Ordinary

LEMMA FaultType == ASSUME TypeOK, Fault \/ UNCHANGED faults PROVE faults' \in 0..MaxFaults
BY MarkerAssumption DEF TypeOK, Fault

LEMMA PublishSteps ==
  ASSUME IInv, NEW t \in Task,
         \/ PublishSubmitted(t) \/ PublishFailure(t) \/ PublishCompletion(t)
         \/ Republish(t) \/ Reprobe(t) \/ Reoffer(t)
  PROVE  Ordinary(t)
<1>1. {"dispatch", "complete", "failed"} \subseteq Message
  BY DEF Message
<1>2. CASE PublishSubmitted(t)
  BY <1>1, <1>2, PublishOrdinary, PlainPcs DEF PublishSubmitted
<1>3. CASE PublishFailure(t)
  BY <1>1, <1>3, PublishOrdinary, PlainPcs DEF PublishFailure
<1>4. CASE PublishCompletion(t)
  BY <1>1, <1>4, PublishOrdinary, PlainPcs DEF PublishCompletion
<1>5. CASE Republish(t)
  BY <1>1, <1>5, PublishOrdinary, PlainPcs DEF Republish
<1>6. CASE Reprobe(t)
  BY <1>1, <1>6, PublishOrdinary, PlainPcs DEF Reprobe
<1>7. CASE Reoffer(t)
  BY <1>1, <1>7, PublishOrdinary, PlainPcs DEF Reoffer
<1> QED BY <1>2, <1>3, <1>4, <1>5, <1>6, <1>7

LEMMA RecordSteps ==
  ASSUME IInv, NEW t \in Task,
         \/ SubmitFailed(t) \/ Pause(t) \/ Ambiguous(t) \/ Reject(t) \/ FailureUnpublished(t)
         \/ Ready(t) \/ CompletionUnpublished(t) \/ HookUnpublished(t) \/ Republished(t) \/ Unoffered(t)
  PROVE  Ordinary(t)
<1>1. GoesOn
  BY Recorded
<1>2. TypeOK
  BY DEF IInv
<1>3. Rest(t) \/ (\E pc \in Plain : Goto(t, pc))
  BY PlainPcs DEF SubmitFailed, Pause, Ambiguous, Reject, FailureUnpublished, Ready,
     CompletionUnpublished, HookUnpublished, Republished, Unoffered
<1>4. TaskStep(t)
  BY <1>2, <1>3, RestPlain, GotoPlain
<1>5. UNCHANGED <<enabled, canvas, queue, outside, faults>>
  BY DEF SubmitFailed, Pause, Ambiguous, Reject, FailureUnpublished, Ready,
     CompletionUnpublished, HookUnpublished, Republished, Unoffered
<1> QED BY <1>1, <1>2, <1>4, <1>5 DEF Ordinary, TypeOK

\* Steps that look something up and go on.
LEMMA LookSteps ==
  ASSUME IInv, NEW t \in Task, Answer(t) \/ Probe(t) \/ Ask(t)
  PROVE  Ordinary(t)
<1>1. TypeOK
  BY DEF IInv
<1>2. GoesOn
  BY <1>1, Unmoved DEF Answer, Probe, Ask
<1>3. Rest(t) \/ (\E pc \in Plain : Goto(t, pc))
  BY PlainPcs DEF Answer, Probe, Ask
<1>4. TaskStep(t)
  BY <1>1, <1>3, RestPlain, GotoPlain
<1>5. faults' \in 0..MaxFaults
  BY <1>1, FaultType DEF Answer, Probe, Ask
<1>6. UNCHANGED <<enabled, canvas, queue, outside>>
  BY DEF Answer, Probe, Ask
<1> QED BY <1>1, <1>2, <1>4, <1>5, <1>6 DEF Ordinary, TypeOK

\* On the way to the paid call.
LEMMA PaySteps == ASSUME IInv, NEW t \in Task, Check(t) \/ Sign(t) PROVE Ordinary(t)
<1>1. TypeOK /\ TaskOK(task[t], row, paid, result, remote)
  BY DEF IInv, TaskInv
<1>2. UNCHANGED rowVars /\ UNCHANGED <<enabled, canvas, queue, outside>> /\ (Fault \/ UNCHANGED faults)
  BY DEF Check, Sign
<1>3. GoesOn /\ faults' \in 0..MaxFaults
  BY <1>1, <1>2, Unmoved, FaultType
<1>4. task[t].pc \in Paying
  BY DEF Check, Sign, At, Paying
<1>5. \E pc \in Plain \cup {"signing", "calling"} : Goto(t, pc)
  BY PlainPcs DEF Check, Sign
<1>6. ASSUME NEW pc \in {"signing", "calling"}, Goto(t, pc) PROVE TaskStep(t)
  <2>1. pc \in Paying /\ pc \in Pc /\ pc \notin WithResult /\ pc \notin Hooks /\ pc \notin {"hooked", "unhooked"}
    BY PlainPcs DEF Paying
  <2>2. paid' = paid /\ row' = row
    BY <1>2 DEF outside, rowVars
  <2> QED BY <1>1, <1>4, <1>6, <2>1, <2>2, GotoState DEF TaskStep, TaskOK
<1>7. TaskStep(t)
  BY <1>1, <1>5, <1>6, GotoPlain
<1> QED BY <1>1, <1>2, <1>3, <1>7 DEF Ordinary, TypeOK

\* A completion on its way to the index.
LEMMA CompletionSteps ==
  ASSUME IInv, NEW t \in Task, Load(t) \/ Confirm(t) \/ Enter(t)
  PROVE  Ordinary(t)
<1>1. TypeOK /\ TaskOK(task[t], row, paid, result, remote)
  BY DEF IInv, TaskInv
<1>2. UNCHANGED rowVars /\ UNCHANGED <<enabled, canvas, queue, outside>> /\ (Fault \/ UNCHANGED faults)
  BY DEF Load, Confirm, Enter
<1>3. GoesOn /\ faults' \in 0..MaxFaults
  BY <1>1, <1>2, Unmoved, FaultType
<1>4. (\E pc \in Plain : Goto(t, pc)) \/ (result /\ \E pc \in WithResult : Goto(t, pc))
  BY <1>1, PlainPcs DEF Load, Confirm, Enter, At, TaskOK, WithResult
<1>5. ASSUME NEW pc \in WithResult, Goto(t, pc), result PROVE TaskStep(t)
  <2>1. pc \in Pc /\ pc \notin Paying /\ pc \notin Hooks /\ pc \notin {"hooked", "unhooked"}
    BY PlainPcs DEF Hooks
  <2>2. result'
    BY <1>2, <1>5 DEF outside
  <2> QED BY <1>1, <1>5, <2>1, <2>2, GotoState DEF TaskStep, TaskOK
<1>6. TaskStep(t)
  BY <1>1, <1>4, <1>5, GotoPlain
<1> QED BY <1>1, <1>2, <1>3, <1>6 DEF Ordinary, TypeOK

LEMMA DieStep == ASSUME IInv, NEW t \in Task, Die(t) PROVE Ordinary(t)
<1>1. TypeOK
  BY DEF IInv
<1>2. GoesOn /\ TaskStep(t) /\ faults' \in 0..MaxFaults
  BY <1>1, Unmoved, RestPlain, FaultType DEF Die
<1> QED BY <1>1, <1>2 DEF Die, Ordinary, TypeOK

\* Messages taken, sweeps begun and webhooks.
LEMMA PlainStates ==
  ASSUME TypeOK, NEW pc \in Plain
  PROVE  /\ [Idle EXCEPT !.pc = pc] \in TaskState /\ [Idle EXCEPT !.pc = pc].pc = pc
         /\ \A flag \in BOOLEAN : /\ [Idle EXCEPT !.pc = pc, !.flag = flag] \in TaskState
                                  /\ [Idle EXCEPT !.pc = pc, !.flag = flag].pc = pc
         /\ \A token \in 0..MaxCompletions : /\ [Idle EXCEPT !.pc = pc, !.token = token] \in TaskState
                                             /\ [Idle EXCEPT !.pc = pc, !.token = token].pc = pc
         /\ \A seen \in {0, 1} : /\ [Idle EXCEPT !.pc = pc, !.seen = seen] \in TaskState
                                 /\ [Idle EXCEPT !.pc = pc, !.seen = seen].pc = pc
BY IdleState, PlainPcs DEF TaskState

LEMMA ConsumeType ==
  ASSUME TypeOK, NEW message \in Message, Consume(message)
  PROVE  queue' \in SUBSET Message /\ faults' \in 0..MaxFaults
BY FaultType DEF Consume, TypeOK

LEMMA Unstarted == ASSUME TypeOK, NEW t \in Task, UNCHANGED task, task[t].pc = "idle" PROVE TaskStep(t)
<1>1. task[t].pc \notin Paying /\ task[t].pc \notin WithResult /\ task[t].pc \notin Hooks
  BY IdleState DEF Plain
<1>2. task[t].pc \notin {"hooked", "unhooked"}
  BY IdleState
<1> QED BY <1>1, <1>2 DEF TaskStep, TaskOK, TypeOK

LEMMA TakeDispatchStep == ASSUME IInv, NEW t \in Task, TakeDispatch(t) PROVE Ordinary(t)
<1>1. TypeOK /\ row.dispatches \in {0, 1} /\ row.id \in BOOLEAN /\ aged \in BOOLEAN
  BY DEF IInv, TypeOK, Row
<1>2. GoesOn
  BY <1>1, Unmoved DEF TakeDispatch
<1>3. queue' \in SUBSET Message /\ faults' \in 0..MaxFaults
  BY <1>1, ConsumeType DEF TakeDispatch, Message
<1>4. TaskStep(t)
  <2>1. CASE row.status = "awaiting_result"
    <3> DEFINE state == [Idle EXCEPT !.pc = "probing", !.token = row.dispatches, !.flag = aged, !.known = row.id]
    <3>1. Start(t, state)
      BY <2>1 DEF TakeDispatch, Terminal
    <3>2. row.dispatches \in 0..MaxCompletions
      BY <1>1, MarkerAssumption
    <3>3. state \in TaskState /\ state.pc = "probing"
      BY <1>1, <3>2, IdleState, PlainPcs DEF TaskState
    <3> HIDE DEF state
    <3> QED BY <1>1, <3>1, <3>3, StartPlain, PlainPcs
  <2>2. CASE row.status \in Terminal \cup {"none"}
    <3>1. UNCHANGED task /\ At(t, "idle")
      BY <2>2 DEF TakeDispatch, Terminal
    <3> QED BY <1>1, <3>1, Unstarted DEF At
  <2>3. CASE row.status \notin Terminal \cup {"none", "awaiting_result"}
    <3>1. CASE enabled
      <4> DEFINE state == [Idle EXCEPT !.pc = "claiming", !.seen = row.dispatches]
      <4>1. Start(t, state)
        BY <2>3, <3>1 DEF TakeDispatch
      <4>2. state \in TaskState /\ state.pc = "claiming"
        BY <1>1, PlainStates, PlainPcs
      <4> HIDE DEF state
      <4> QED BY <1>1, <4>1, <4>2, StartPlain, PlainPcs
    <3>2. CASE ~enabled
      <4> DEFINE state == [Idle EXCEPT !.pc = "pausing"]
      <4>1. Start(t, state)
        BY <2>3, <3>2 DEF TakeDispatch
      <4>2. state \in TaskState /\ state.pc = "pausing"
        BY <1>1, PlainStates, PlainPcs
      <4> HIDE DEF state
      <4> QED BY <1>1, <4>1, <4>2, StartPlain, PlainPcs
    <3> QED BY <3>1, <3>2
  <2> QED BY <2>1, <2>2, <2>3
<1> QED BY <1>2, <1>3, <1>4 DEF TakeDispatch, Ordinary

LEMMA TakeCompletionStep == ASSUME IInv, NEW t \in Task, TakeCompletion(t) PROVE Ordinary(t)
<1>1. TypeOK
  BY DEF IInv
<1>2. GoesOn
  BY Advanced
<1>3. queue' \in SUBSET Message /\ faults' \in 0..MaxFaults
  BY <1>1, ConsumeType DEF TakeCompletion, Message
<1>4. TaskStep(t)
  <2>1. CASE row.status \in Offered /\ row.completions < MaxCompletions /\ parent
    <3> DEFINE state == [Idle EXCEPT !.pc = "loading", !.token = row.completions + 1]
    <3>1. Start(t, state)
      BY <2>1 DEF TakeCompletion
    <3>2. row.completions + 1 \in 0..MaxCompletions
      BY <1>1, <2>1, RowFields
    <3>3. state \in TaskState /\ state.pc = "loading"
      BY <1>1, <3>2, PlainStates, PlainPcs
    <3> HIDE DEF state
    <3> QED BY <1>1, <3>1, <3>3, StartPlain, PlainPcs
  <2>2. CASE ~(row.status \in Offered /\ row.completions < MaxCompletions /\ parent)
    <3>1. UNCHANGED task /\ At(t, "idle")
      BY <2>2 DEF TakeCompletion
    <3> QED BY <1>1, <3>1, Unstarted DEF At
  <2> QED BY <2>1, <2>2
<1> QED BY <1>2, <1>3, <1>4 DEF TakeCompletion, Ordinary

LEMMA TakeFailureStep == ASSUME IInv, NEW t \in Task, TakeFailure(t) PROVE Ordinary(t)
<1>1. TypeOK
  BY DEF IInv
<1>2. GoesOn
  BY Advanced
<1>3. queue' \in SUBSET Message /\ faults' \in 0..MaxFaults
  BY <1>1, ConsumeType DEF TakeFailure, Message
<1>4. TaskStep(t)
  <2>1. CASE row.status \in Refused \ {"failing"}
    <3> DEFINE state == [Idle EXCEPT !.pc = "failing"]
    <3>1. Start(t, state)
      BY <2>1 DEF TakeFailure
    <3>2. state \in TaskState /\ state.pc = "failing"
      BY <1>1, PlainStates, PlainPcs
    <3> HIDE DEF state
    <3> QED BY <1>1, <3>1, <3>2, StartPlain, PlainPcs
  <2>2. CASE row.status \notin Refused \ {"failing"}
    <3>1. UNCHANGED task /\ At(t, "idle")
      BY <2>2 DEF TakeFailure
    <3> QED BY <1>1, <3>1, Unstarted DEF At
  <2> QED BY <2>1, <2>2
<1> QED BY <1>2, <1>3, <1>4 DEF TakeFailure, Ordinary

LEMMA SweepStep == ASSUME IInv, NEW t \in Task, Sweeping(t) PROVE Ordinary(t)
<1>1. TypeOK
  BY DEF IInv
<1>2. GoesOn
  BY Advanced
<1>3. UNCHANGED <<enabled, canvas, queue, outside, faults>>
  BY DEF Sweeping, SweepDispatchable, SweepStale, SweepAwaiting, SweepContinuation, SweepRow, rowVars
<1>4. \E pc \in Plain, flag \in BOOLEAN : \/ Start(t, [Idle EXCEPT !.pc = pc])
                                          \/ Start(t, [Idle EXCEPT !.pc = pc, !.flag = flag])
  <2>1. CASE SweepDispatchable(t)
    BY <2>1, PlainPcs DEF SweepDispatchable, SweepRow
  <2>2. CASE SweepStale(t)
    BY <2>2, PlainPcs DEF SweepStale, SweepRow
  <2>3. CASE SweepAwaiting(t)
    BY <2>3, PlainPcs DEF SweepAwaiting
  <2>4. CASE SweepContinuation(t)
    <3> DEFINE s == IF row.status \in Refused \/ row.completions >= MaxCompletions
                      THEN "failure_queued" ELSE "completion_queued"
               flag == (s = "failure_queued")
    <3>1. Start(t, [Idle EXCEPT !.pc = "reoffering", !.flag = flag])
      BY <2>4 DEF SweepContinuation, SweepRow
    <3>2. flag \in BOOLEAN /\ "reoffering" \in Plain
      BY PlainPcs
    <3> HIDE DEF flag
    <3> QED BY <3>1, <3>2
  <2> QED BY <2>1, <2>2, <2>3, <2>4 DEF Sweeping
<1>5. TaskStep(t)
  BY <1>1, <1>4, PlainStates, StartPlain
<1> QED BY <1>1, <1>2, <1>3, <1>5 DEF Ordinary, TypeOK

LEMMA AcceptedStep == ASSUME IInv, NEW t \in Task, Accepted(t) PROVE Ordinary(t)
<1>1. TypeOK
  BY DEF IInv
<1>2. GoesOn /\ TaskStep(t)
  BY <1>1, Advanced, RestPlain DEF Accepted
<1>3. UNCHANGED <<enabled, canvas, queue, outside, faults>>
  BY DEF Accepted
<1> QED BY <1>1, <1>2, <1>3 DEF Ordinary, TypeOK

LEMMA HookState ==
  ASSUME IInv, NEW t \in Task, NEW pc \in Hooks, Goto(t, pc), task[t].pc \in Hooks, UNCHANGED <<paid, result, remote>>,
         pc \in {"hooked", "unhooked"} /\ remote = "failed" => row'.status \in Refused \cup Terminal
  PROVE  TaskStep(t)
<1>1. TypeOK /\ TaskOK(task[t], row, paid, result, remote)
  BY DEF IInv, TaskInv
<1>2. pc \in Pc /\ pc \notin Paying /\ pc \notin WithResult
  BY PlainPcs
<1>3. remote \in {"done", "failed"} /\ (task[t].flag <=> remote = "done")
  BY <1>1 DEF TaskOK
<1> QED BY <1>1, <1>2, <1>3, GotoState DEF TaskStep, TaskOK

LEMMA HookSteps ==
  ASSUME IInv, NEW t \in Task, Hook(t) \/ HookMoves(t) \/ HookPublishes(t)
  PROVE  Ordinary(t)
<1>1. TypeOK /\ TaskOK(task[t], row, paid, result, remote)
  BY DEF IInv, TaskInv
<1>2. CASE Hook(t)
  <2> DEFINE flag == (remote = "done")
             state == [Idle EXCEPT !.pc = "hook", !.flag = flag]
  <2>1. state \in TaskState /\ state.pc = "hook" /\ state.flag = flag
    BY IdleState DEF TaskState, Pc
  <2>2. task' = [task EXCEPT ![t] = state] /\ remote \in {"done", "failed"}
    BY <1>2 DEF Hook, Start
  <2>3. "hook" \notin Paying /\ "hook" \notin WithResult
    BY DEF Paying, WithResult
  <2>4. UNCHANGED <<enabled, canvas, rowVars, queue, outside, faults>>
    BY <1>2 DEF Hook
  <2> HIDE DEF state
  <2>5. task' \in [Task -> TaskState] /\ task'[t] = state /\ \A u \in Task \ {t} : task'[u] = task[u]
    BY <1>1, <2>1, <2>2 DEF TypeOK
  <2>6. remote' = remote
    BY <2>4 DEF outside
  <2>7. TaskStep(t)
    BY <2>1, <2>2, <2>3, <2>5, <2>6 DEF TaskStep, TaskOK
  <2>8. GoesOn
    BY <1>1, <2>4, Unmoved
  <2> QED BY <1>1, <2>4, <2>7, <2>8 DEF Ordinary, TypeOK
<1>3. CASE HookMoves(t)
  <2>1. UNCHANGED <<enabled, canvas, queue, outside, faults>> /\ task[t].pc = "hook"
    BY <1>3 DEF HookMoves, At
  <2>2. UNCHANGED <<paid, result, remote>>
    BY <2>1 DEF outside
  <2>3. TaskStep(t)
    <3>1. CASE row.status \in Sent
      <4>1. Goto(t, "hooked") /\ "hooked" \in Hooks /\ task[t].pc \in Hooks
        BY <1>3, <2>1, <3>1 DEF HookMoves, Hooks
      <4>2. remote = "failed" => row'.status = "failure_queued"
        <5>1. remote = "failed" => ~task[t].flag
          BY <1>1, <2>1 DEF TaskOK, Hooks
        <5>2. remote = "failed" => row' = [row EXCEPT !.id = TRUE, !.status = "failure_queued"]
          BY <1>3, <3>1, <5>1 DEF HookMoves
        <5> QED BY <1>1, <5>2 DEF TypeOK, Row
      <4> QED BY <2>2, <4>1, <4>2, HookState DEF Refused
    <3>2. CASE row.status \notin Sent
      BY <1>1, <1>3, <3>2, RestPlain DEF HookMoves
    <3> QED BY <3>1, <3>2
  <2>4. GoesOn
    BY <1>3, Advanced
  <2> QED BY <1>1, <2>1, <2>3, <2>4 DEF Ordinary, TypeOK
<1>4. CASE HookPublishes(t)
  <2> DEFINE message == IF task[t].flag THEN "complete" ELSE "failed"
  <2>1. Publish(t, message, "idle", "unhooked") /\ message \in Message /\ task[t].pc = "hooked"
    BY <1>4 DEF HookPublishes, Message, At
  <2> HIDE DEF message
  <2>2. UNCHANGED rowVars /\ UNCHANGED <<enabled, canvas, outside>> /\ (Fault \/ UNCHANGED faults)
    BY <2>1 DEF Publish
  <2>3. queue' \in SUBSET Message
    BY <1>1, <2>1 DEF Publish, TypeOK
  <2>4. Goto(t, "idle") \/ Goto(t, "unhooked")
    BY <2>1 DEF Publish
  <2>5. UNCHANGED <<paid, result, remote>> /\ row' = row
    BY <2>2 DEF outside, rowVars
  <2>6. ASSUME Goto(t, "unhooked") PROVE TaskStep(t)
    <3>1. "unhooked" \in Hooks /\ task[t].pc \in Hooks /\ (remote = "failed" => row'.status \in Refused \cup Terminal)
      BY <1>1, <2>1, <2>5 DEF TaskOK, Hooks
    <3> QED BY <2>5, <2>6, <3>1, HookState
  <2>7. TaskStep(t)
    BY <1>1, <2>4, <2>6, GotoPlain, IdleState
  <2>8. GoesOn /\ faults' \in 0..MaxFaults
    BY <1>1, <2>2, Unmoved, FaultType
  <2> QED BY <2>2, <2>3, <2>7, <2>8 DEF Ordinary
<1> QED BY <1>2, <1>3, <1>4

-----------------------------------------------------------------------------
(***************************************************************************)
(* The other steps.                                                        *)
(***************************************************************************)
LEMMA Keeps ==
  ASSUME IInv, TypeOK', RowOK(row, row', remote), UNCHANGED paid, remote' = remote \/ remote = "queued",
         result => result', ImportFollowsRow', CompletedHasResult',
         UNCHANGED task \/ \E t \in Task : TaskStep(t)
  PROVE  Sound
<1>1. PayInv'
  BY PayKept
<1>2. CASE UNCHANGED task
  <2>1. \A u \in Task : TaskOK(task[u], row', paid', result', remote')
    BY OthersKeep
  <2> QED BY <1>1, <1>2, <2>1 DEF IInv, TaskInv, SolePayer, Sound
<1>3. ASSUME NEW t \in Task, TaskStep(t) PROVE Sound
  BY <1>1, <1>3, TasksKept DEF IInv, Sound
<1> QED BY <1>2, <1>3

\* a row that ends, and its import
LEMMA Ended ==
  ASSUME IInv, NEW s \in Terminal, row' = [row EXCEPT !.status = s], row.status \in Live,
         Edge(row.status, s, row.completions, remote), s = "completed" => result', result => result',
         import' = IF s = "completed" THEN "complete" ELSE IF s = "cancelled" THEN "cancelled" ELSE "error"
  PROVE  RowOK(row, row', remote) /\ ImportFollowsRow' /\ CompletedHasResult'
<1>1. row' \in Row /\ row'.status = s /\ row'.dispatches = row.dispatches /\ row'.completions = row.completions
  BY WithStatus, Statuses DEF IInv, TypeOK
<1> QED BY <1>1 DEF RowOK, ImportFollowsRow, CompletedHasResult, Terminal

LEMMA SubmitStep == ASSUME IInv, NEW t \in Task, Submit(t) PROVE Sound
<1>1. TypeOK
  BY DEF IInv
<1>2. TaskStep(t)
  <2>1. PICK pc \in {"submitted", "idle"} : Start(t, [Idle EXCEPT !.pc = pc])
    BY DEF Submit
  <2> DEFINE state == [Idle EXCEPT !.pc = pc]
  <2>2. pc \in Plain
    BY PlainPcs
  <2>3. state \in TaskState /\ state.pc = pc
    BY <1>1, <2>2, PlainStates
  <2>4. Start(t, state)
    BY <2>1
  <2> HIDE DEF state
  <2> QED BY <1>1, <2>2, <2>3, <2>4, StartPlain
<1>3. faults' \in 0..MaxFaults /\ UNCHANGED <<enabled, parent, queue, outside>>
  BY <1>1, FaultType DEF Submit
<1>4. CASE row' = [row EXCEPT !.status = "dispatch_queued"] /\ row.status = "none" /\ aged' = FALSE /\ import' = "pending_marker"
  <2>1. "dispatch_queued" \in Status /\ "dispatch_queued" \in Live
    BY Statuses DEF Dispatchable
  <2>2. /\ row' \in Row /\ row'.status = "dispatch_queued"
        /\ row'.dispatches = row.dispatches /\ row'.completions = row.completions
    BY <1>1, <1>4, <2>1, WithStatus DEF TypeOK
  <2>3. RowOK(row, row', remote)
    BY <1>4, <2>2 DEF RowOK, Edge
  <2>4. ImportFollowsRow' /\ CompletedHasResult'
    BY <1>4, <2>2 DEF ImportFollowsRow, CompletedHasResult, Terminal
  <2>5. TypeOK'
    BY <1>1, <1>2, <1>3, <1>4, <2>2 DEF TypeOK, outside, TaskStep
  <2> QED BY <1>2, <1>3, <2>3, <2>4, <2>5, Keeps DEF outside
<1>5. CASE UNCHANGED <<rowVars, import>>
  <2>1. GoesOn
    BY <1>1, <1>5, Unmoved
  <2> QED BY <1>1, <1>2, <1>3, <1>5, <2>1, OrdinaryKeeps DEF Ordinary, canvas, TypeOK
<1> QED BY <1>4, <1>5 DEF Submit

LEMMA ClaimStep == ASSUME IInv, NEW t \in Task, Claim(t) PROVE Sound
<1>1. TypeOK /\ row.dispatches \in {0, 1} /\ GoesOn
  BY Advanced, RowFields DEF IInv
<1>2. UNCHANGED <<enabled, canvas, queue, outside, faults>>
  BY DEF Claim
<1>3. CASE row.status \in Dispatchable
  <2>1. row.dispatches = 0 /\ paid = 0
    BY <1>3 DEF IInv, PayInv
  <2>2. row'.dispatches = 1 /\ RowOK(row, row', remote) /\ row' \in Row
    <3>1. row' = [row EXCEPT !.status = "dispatching", !.dispatches = 1]
      BY <1>3 DEF Claim
    <3> QED BY <1>1, <3>1 DEF GoesOn, RowOK, TypeOK, Row
  <2>3. \A u \in Task : task[u].pc \notin Paying
    BY <2>1 DEF IInv, TaskInv, TaskOK
  <2> DEFINE state == [task[t] EXCEPT !.pc = "checking", !.token = 1]
  <2>4. state \in TaskState /\ state.pc = "checking" /\ "checking" \in Paying
    <3>1. 1 \in 0..MaxCompletions /\ "checking" \in Pc /\ "checking" \in Paying
      BY MarkerAssumption DEF Pc, DispatchPc, Paying
    <3> QED BY <1>1, <3>1 DEF TypeOK, TaskState
  <2>5. task' = [task EXCEPT ![t] = state]
    BY <1>3 DEF Claim
  <2> HIDE DEF state
  <2>6. task' \in [Task -> TaskState] /\ task'[t] = state /\ \A u \in Task \ {t} : task'[u] = task[u]
    BY <1>1, <2>4, <2>5 DEF TypeOK
  <2>7. "checking" \notin WithResult /\ "checking" \notin Hooks /\ "checking" \notin {"hooked", "unhooked"}
    BY DEF WithResult, Hooks
  <2>8. UNCHANGED <<paid, remote, result, import>>
    BY <1>2 DEF outside, canvas
  <2>9. TaskOK(task'[t], row', paid', result', remote')
    BY <2>1, <2>2, <2>4, <2>6, <2>7, <2>8 DEF TaskOK
  <2>10. \A u \in Task : TaskOK(task[u], row', paid', result', remote')
    BY <2>2, <2>8, OthersKeep
  <2>11. TaskInv' /\ SolePayer'
    BY <2>3, <2>6, <2>9, <2>10 DEF TaskInv, SolePayer
  <2>12. PayInv' /\ ImportFollowsRow' /\ CompletedHasResult'
    BY <1>1, <2>2, <2>8, PayKept, ImportKept
  <2>13. TypeOK'
    BY <1>1, <1>2, <2>2, <2>6 DEF TypeOK, GoesOn, outside, canvas
  <2> QED BY <2>2, <2>11, <2>12, <2>13 DEF IInv, Sound
<1>4. CASE row.status \notin Dispatchable
  <2>1. TaskStep(t)
    BY <1>1, <1>4, RestPlain DEF Claim
  <2> QED BY <1>1, <1>2, <2>1, OrdinaryKeeps DEF Ordinary, TypeOK
<1> QED BY <1>3, <1>4

LEMMA CallStep == ASSUME IInv, NEW t \in Task, Call(t) PROVE Sound
<1>1. TypeOK /\ TaskOK(task[t], row, paid, result, remote)
  BY DEF IInv, TaskInv
<1>2. task[t].pc = "calling" /\ "calling" \in Paying
  BY DEF Call, At, Paying
<1>3. paid = 0 /\ row.dispatches = 1
  BY <1>1, <1>2 DEF TaskOK
<1>4. remote = "none"
  BY <1>3 DEF IInv, PayInv
<1>5. UNCHANGED <<provider, result, expired, enabled, canvas, rowVars, queue>> /\ (Fault \/ UNCHANGED faults)
  BY DEF Call
<1>6. GoesOn /\ row' = row /\ faults' \in 0..MaxFaults
  BY <1>1, <1>5, Unmoved, FaultType DEF rowVars
<1>7. \E pc \in {"answering", "rejecting", "ambiguous"} : Goto(t, pc)
  BY DEF Call
<1>8. TaskStep(t)
  BY <1>1, <1>7, PlainPcs, GotoPlain
<1>9. paid' \in {0, 1} /\ remote' \in {"none", "queued"} /\ (paid' = 0 => remote' = "none")
  BY <1>3, <1>4 DEF Call
<1>10. \A u \in Task \ {t} : task[u].pc \notin Paying
  BY <1>2 DEF IInv, SolePayer
<1>11. \A u \in Task : task[u].pc \notin Hooks
  BY <1>4 DEF IInv, TaskInv, TaskOK
<1>12. task'[t].pc \notin Paying
  <2>1. \A pc \in {"answering", "rejecting", "ambiguous"} : pc \in Pc /\ pc \notin Paying
    BY PlainPcs DEF Plain
  <2> QED BY <1>1, <1>7, <2>1, GotoState
<1>13. \A u \in Task \ {t} : TaskOK(task[u], row', paid', result', remote')
  <2>1. \A u \in Task : TaskOK(task[u], row, paid, result, remote)
    BY DEF IInv, TaskInv
  <2>2. {"hooked", "unhooked"} \subseteq Hooks
    BY DEF Hooks
  <2> QED BY <1>5, <1>6, <1>10, <1>11, <2>1, <2>2 DEF TaskOK
<1>14. TaskInv' /\ SolePayer'
  BY <1>8, <1>10, <1>12, <1>13 DEF TaskStep, TaskInv, SolePayer
<1>15. PayInv'
  BY <1>3, <1>6, <1>9 DEF IInv, PayInv
<1>16. ImportFollowsRow' /\ CompletedHasResult'
  BY <1>5, <1>6, ImportKept DEF canvas
<1>17. TypeOK'
  BY <1>1, <1>5, <1>6, <1>8, <1>9 DEF TypeOK, canvas, rowVars, TaskStep
<1> QED BY <1>6, <1>14, <1>15, <1>16, <1>17 DEF IInv, Sound, GoesOn

LEMMA AbandonStep == ASSUME IInv, NEW t \in Task, Abandon(t) PROVE Sound
<1>1. TypeOK
  BY DEF IInv
<1>2. UNCHANGED <<provider, result, expired, paid, enabled, canvas, rowVars, queue>> /\ (Fault \/ UNCHANGED faults)
  BY DEF Abandon
<1>3. GoesOn /\ faults' \in 0..MaxFaults /\ TaskStep(t)
  BY <1>1, <1>2, Unmoved, FaultType, PlainPcs, GotoPlain DEF Abandon
<1>4. remote' = remote \/ (remote = "queued" /\ remote' = "failed")
  BY DEF Abandon
<1>5. ImportFollowsRow' /\ CompletedHasResult'
  BY <1>2, <1>3, ImportKept DEF canvas
<1>6. TypeOK'
  BY <1>1, <1>2, <1>3, <1>4 DEF TypeOK, canvas, rowVars, TaskStep
<1> QED BY <1>2, <1>3, <1>4, <1>5, <1>6, Keeps DEF GoesOn

LEMMA IndexStep == ASSUME IInv, NEW t \in Task, Index(t) PROVE Sound
<1>1. TypeOK /\ TaskOK(task[t], row, paid, result, remote)
  BY DEF IInv, TaskInv
<1>2. UNCHANGED <<enabled, parent, queue, outside>> /\ (Fault \/ UNCHANGED faults)
  BY DEF Index
<1>3. Rest(t) \/ \E pc \in Plain : Goto(t, pc)
  BY PlainPcs DEF Index
<1>4. TaskStep(t) /\ faults' \in 0..MaxFaults
  BY <1>1, <1>2, <1>3, RestPlain, GotoPlain, FaultType
<1>5. CASE row' = [row EXCEPT !.status = "completed"] /\ row.status = "completing" /\ aged' = FALSE
           /\ import' = IF import = "pending_marker" THEN "complete" ELSE import
  <2>1. result
    BY <1>1 DEF Index, At, TaskOK, WithResult
  <2>2. row.status \in Live /\ "completed" \in Terminal /\ Edge(row.status, "completed", row.completions, remote)
    BY <1>5, Statuses DEF Terminal, Edge
  <2>3. import' = "complete"
    BY <1>5, <2>2, Statuses DEF IInv, ImportFollowsRow
  <2>4. RowOK(row, row', remote) /\ ImportFollowsRow' /\ CompletedHasResult'
    BY <1>2, <1>5, <2>1, <2>2, <2>3, Ended DEF outside
  <2>5. TypeOK'
    BY <1>1, <1>2, <1>4, <1>5, <2>3, <2>4 DEF TypeOK, outside, TaskStep, RowOK
  <2> QED BY <1>2, <1>4, <2>4, <2>5, Keeps DEF outside
<1>6. CASE UNCHANGED <<rowVars, import>>
  <2>1. GoesOn
    BY <1>1, <1>6, Unmoved
  <2> QED BY <1>1, <1>2, <1>4, <1>6, <2>1, OrdinaryKeeps DEF Ordinary, canvas, TypeOK
<1> QED BY <1>5, <1>6 DEF Index, Completing

\* The import of a row that fails is put in error.
LEMMA FailureKeeps ==
  ASSUME IInv, NEW t \in Task, TaskStep(t), NEW s \in {"failed", "invalid_result"},
         row' = [row EXCEPT !.status = s], aged' = FALSE, row.status \in Live,
         Edge(row.status, s, row.completions, remote),
         import' = IF import = "pending_marker" THEN "error" ELSE import,
         UNCHANGED <<enabled, parent, queue, outside, faults>>
  PROVE  Sound
<1>1. s \in Terminal /\ s # "completed" /\ s # "cancelled"
  BY DEF Terminal
<1>2. import' = "error"
  BY Statuses DEF IInv, ImportFollowsRow
<1>3. RowOK(row, row', remote) /\ ImportFollowsRow' /\ CompletedHasResult'
  BY <1>1, <1>2, Ended DEF outside
<1>4. TypeOK'
  BY <1>2, <1>3 DEF IInv, TypeOK, outside, TaskStep, RowOK
<1> QED BY <1>3, <1>4, Keeps DEF outside

LEMMA FinalizeSteps ==
  ASSUME IInv, NEW t \in Task, Retry(t) \/ Invalidate(t) \/ Fail(t)
  PROVE  Sound
<1>1. TypeOK /\ task[t] \in TaskState
  BY DEF IInv, TypeOK
<1>2. UNCHANGED <<enabled, parent, outside, faults>> /\ queue' \in SUBSET Message
  BY <1>1 DEF Retry, Invalidate, Fail, TypeOK, Message
<1>3. Rest(t) \/ Goto(t, "settled")
  BY DEF Retry, Invalidate, Fail, Finalize
<1>4. TaskStep(t)
  BY <1>1, <1>3, RestPlain, GotoPlain, PlainPcs
<1>5. CASE UNCHANGED <<rowVars, import>>
  <2>1. GoesOn
    BY <1>1, <1>5, Unmoved
  <2> QED BY <1>1, <1>2, <1>4, <1>5, <2>1, OrdinaryKeeps DEF Ordinary, canvas, TypeOK
<1>6. CASE Retry(t) /\ task[t].token < MaxCompletions /\ Completing(t)
  <2>0. task[t].token # MaxCompletions
    BY <1>1, <1>6, MarkerAssumption DEF TaskState
  <2>1. row' = [row EXCEPT !.status = "completion_retry"] /\ aged' = FALSE /\ import' = import
    BY <1>6, <2>0 DEF Retry, Move, Completing
  <2>2. row.status \in Live /\ "completion_retry" \in Live /\ Edge(row.status, "completion_retry", row.completions, remote)
    BY <1>6, Statuses DEF Completing, Edge, Offered
  <2>3. GoesOn
    BY <1>1, <2>1, <2>2, Moved
  <2> QED BY <1>1, <1>2, <1>4, <2>1, <2>3, OrdinaryKeeps DEF Ordinary, canvas, TypeOK
<1>7. CASE Retry(t) /\ task[t].token = MaxCompletions /\ Completing(t)
  <2>0. ~(task[t].token < MaxCompletions)
    BY <1>7, MarkerAssumption
  <2>1. /\ row' = [row EXCEPT !.status = "failed"] /\ aged' = FALSE /\ queue' = queue
        /\ import' = IF import = "pending_marker" THEN "error" ELSE import
    BY <1>7, <2>0 DEF Retry, Finalize, Completing
  <2>2. row.status \in Live /\ Edge(row.status, "failed", row.completions, remote)
    BY <1>7, Statuses DEF Completing, Edge
  <2> QED BY <1>2, <1>4, <2>1, <2>2, FailureKeeps
<1>8. CASE Invalidate(t) /\ Completing(t)
  <2>1. /\ row' = [row EXCEPT !.status = "invalid_result"] /\ aged' = FALSE /\ queue' = queue
        /\ import' = IF import = "pending_marker" THEN "error" ELSE import
    BY <1>8 DEF Invalidate, Finalize
  <2>2. row.status \in Live /\ Edge(row.status, "invalid_result", row.completions, remote)
    BY <1>8, Statuses DEF Completing, Edge
  <2> QED BY <1>2, <1>4, <2>1, <2>2, FailureKeeps
<1>9. CASE Fail(t) /\ row.status = "failing"
  <2>1. /\ row' = [row EXCEPT !.status = "failed"] /\ aged' = FALSE /\ queue' = queue
        /\ import' = IF import = "pending_marker" THEN "error" ELSE import
    BY <1>9 DEF Fail, Finalize
  <2>2. row.status \in Live /\ Edge(row.status, "failed", row.completions, remote)
    BY <1>9, Statuses DEF Refused, Edge
  <2> QED BY <1>2, <1>4, <2>1, <2>2, FailureKeeps
<1>10. CASE Retry(t)
  <2>1. CASE ~Completing(t)
    BY <1>5, <1>10, <2>1 DEF Retry, Finalize, Move
  <2> QED BY <1>6, <1>7, <1>10, <2>1 DEF Retry
<1>11. CASE Invalidate(t)
  BY <1>5, <1>8, <1>11 DEF Invalidate, Finalize
<1>12. CASE Fail(t)
  BY <1>5, <1>9, <1>12 DEF Fail, Finalize
<1> QED BY <1>10, <1>11, <1>12

LEMMA SettledStep == ASSUME IInv, NEW t \in Task, Settled(t) PROVE Sound
<1>1. TypeOK
  BY DEF IInv
<1>2. UNCHANGED <<enabled, import, rowVars, queue, outside, faults>>
  BY DEF Settled
<1>3. GoesOn /\ TaskStep(t)
  BY <1>1, <1>2, Unmoved, RestPlain DEF Settled
<1>4. ImportFollowsRow' /\ CompletedHasResult'
  BY <1>2, <1>3, ImportKept DEF outside
<1>5. parent' \in BOOLEAN
  BY <1>1 DEF Settled, TypeOK
<1>6. TypeOK'
  BY <1>1, <1>2, <1>3, <1>5 DEF TypeOK, outside, rowVars, TaskStep
<1> QED BY <1>2, <1>3, <1>4, <1>6, Keeps DEF GoesOn, outside

LEMMA CancelStep == ASSUME IInv, Cancel PROVE Sound
<1>1. TypeOK
  BY DEF IInv
<1>2. UNCHANGED <<enabled, queue, outside, task, faults>> /\ parent' = FALSE
  BY DEF Cancel
<1>3. CASE row.status \in Terminal \cup {"none"}
  <2>1. UNCHANGED rowVars /\ import' \in {import, "cancelled"} /\ (import' # import => import \in {"indexing", "pending_marker"})
    BY <1>3 DEF Cancel
  <2>2. GoesOn
    BY <1>1, <2>1, Unmoved
  <2>3. ImportFollowsRow' /\ CompletedHasResult'
    BY <1>2, <1>3, <2>1 DEF IInv, ImportFollowsRow, CompletedHasResult, rowVars, outside
  <2>4. TypeOK'
    BY <1>1, <1>2, <2>1 DEF TypeOK, outside, rowVars
  <2> QED BY <1>2, <2>2, <2>3, <2>4, Keeps DEF GoesOn, outside
<1>4. CASE row.status \notin Terminal \cup {"none"}
  <2>1. row.status \in Live
    BY <1>1, <1>4, RowFields DEF Live
  <2>2. import = "pending_marker"
    BY <1>4 DEF IInv, ImportFollowsRow
  <2>3. row' = [row EXCEPT !.status = "cancelled"] /\ aged' = FALSE /\ import' = "cancelled"
    BY <1>4, <2>2 DEF Cancel
  <2>4. Edge(row.status, "cancelled", row.completions, remote) /\ "cancelled" \in Terminal
    BY <2>1 DEF Edge, Terminal
  <2>5. RowOK(row, row', remote) /\ ImportFollowsRow' /\ CompletedHasResult'
    BY <1>2, <2>1, <2>3, <2>4, Ended DEF outside
  <2>6. TypeOK'
    BY <1>1, <1>2, <2>3, <2>5 DEF TypeOK, outside, RowOK
  <2> QED BY <1>2, <2>5, <2>6, Keeps DEF outside
<1> QED BY <1>3, <1>4

\* The dispatch switch, time and the provider.
LEMMA WorldSteps ==
  ASSUME IInv, Switch \/ Age \/ Expire \/ Upload \/ RemoteEnd
  PROVE  Sound
<1>1. TypeOK
  BY DEF IInv
<1>2. row' = row /\ aged' \in BOOLEAN /\ UNCHANGED <<task, import, paid>> /\ (result => result')
      /\ (remote' = remote \/ remote = "queued")
  BY <1>1 DEF Switch, Age, Expire, Upload, RemoteEnd, outside, canvas, rowVars, TypeOK
<1>3. GoesOn
  BY <1>1, <1>2 DEF GoesOn, RowOK, TypeOK
<1>4. faults' \in 0..MaxFaults
  BY <1>1, FaultType DEF Switch, Age, Expire, Upload, RemoteEnd
<1>5. TypeOK'
  BY <1>1, <1>2, <1>4 DEF Switch, Age, Expire, Upload, RemoteEnd, outside, canvas, rowVars, TypeOK
<1>6. ImportFollowsRow' /\ CompletedHasResult'
  BY <1>2, <1>3, ImportKept
<1> QED BY <1>2, <1>3, <1>5, <1>6, Keeps DEF GoesOn

-----------------------------------------------------------------------------
(***************************************************************************)
(* The theorems.                                                           *)
(***************************************************************************)
LEMMA InitInv == Init => IInv
<1> SUFFICES ASSUME Init PROVE IInv
  OBVIOUS
<1>1. TypeOK
  <2>1. task \in [Task -> TaskState]
    BY IdleState DEF Init
  <2>2. row \in Row
    BY MarkerAssumption DEF Init, Row, Status
  <2>3. paid \in Nat /\ faults \in 0..MaxFaults /\ queue \in SUBSET Message
    BY MarkerAssumption DEF Init
  <2>4. /\ provider \in Provider /\ enabled \in BOOLEAN /\ parent \in BOOLEAN /\ import = "indexing"
        /\ aged \in BOOLEAN /\ remote = "none" /\ result \in BOOLEAN /\ expired \in BOOLEAN
    BY DEF Init
  <2> QED BY <2>1, <2>2, <2>3, <2>4 DEF TypeOK
<1>2. \A t \in Task : /\ task[t].pc \notin Paying /\ task[t].pc \notin WithResult /\ task[t].pc \notin Hooks
                      /\ task[t].pc \notin {"hooked", "unhooked"}
  BY IdleState DEF Init, Plain
<1>3. TaskInv /\ SolePayer
  BY <1>2 DEF TaskInv, TaskOK, SolePayer
<1>4. PayInv /\ CompletedHasResult /\ ImportFollowsRow
  BY DEF Init, PayInv, CompletedHasResult, ImportFollowsRow, Terminal
<1> QED BY <1>1, <1>3, <1>4 DEF IInv

LEMMA StepKeeps == ASSUME IInv, Next PROVE Sound
<1>1. ASSUME NEW t \in Task, Work(t) \/ Die(t) PROVE Sound
  <2>1. CASE \/ PublishSubmitted(t) \/ PublishFailure(t) \/ PublishCompletion(t)
             \/ Republish(t) \/ Reprobe(t) \/ Reoffer(t)
    BY <2>1, PublishSteps, OrdinaryKeeps
  <2>2. CASE \/ SubmitFailed(t) \/ Pause(t) \/ Ambiguous(t) \/ Reject(t) \/ FailureUnpublished(t)
             \/ Ready(t) \/ CompletionUnpublished(t) \/ HookUnpublished(t) \/ Republished(t) \/ Unoffered(t)
    BY <2>2, RecordSteps, OrdinaryKeeps
  <2>3. CASE Answer(t) \/ Probe(t) \/ Ask(t)
    BY <2>3, LookSteps, OrdinaryKeeps
  <2>4. CASE Check(t) \/ Sign(t)
    BY <2>4, PaySteps, OrdinaryKeeps
  <2>5. CASE Load(t) \/ Confirm(t) \/ Enter(t)
    BY <2>5, CompletionSteps, OrdinaryKeeps
  <2>6. CASE HookMoves(t) \/ HookPublishes(t)
    BY <2>6, HookSteps, OrdinaryKeeps
  <2>7. CASE Accepted(t) \/ Die(t)
    BY <2>7, AcceptedStep, DieStep, OrdinaryKeeps
  <2>8. CASE Claim(t)
    BY <2>8, ClaimStep
  <2>9. CASE Call(t)
    BY <2>9, CallStep
  <2>10. CASE Abandon(t)
    BY <2>10, AbandonStep
  <2>11. CASE Index(t)
    BY <2>11, IndexStep
  <2>12. CASE Retry(t) \/ Invalidate(t) \/ Fail(t)
    BY <2>12, FinalizeSteps
  <2>13. CASE Settled(t)
    BY <2>13, SettledStep
  <2> QED BY <1>1, <2>1, <2>2, <2>3, <2>4, <2>5, <2>6, <2>7, <2>8, <2>9, <2>10, <2>11, <2>12, <2>13 DEF Work
<1>2. ASSUME NEW t \in Consumer, Take(t) PROVE Sound
  BY <1>2, TakeDispatchStep, TakeCompletionStep, TakeFailureStep, OrdinaryKeeps DEF Take, Task
<1>3. ASSUME NEW t \in Sweep, Sweeping(t) PROVE Sound
  BY <1>3, SweepStep, OrdinaryKeeps DEF Task
<1>4. ASSUME NEW t \in Request, Submit(t) \/ Hook(t) PROVE Sound
  BY <1>4, SubmitStep, HookSteps, OrdinaryKeeps DEF Task
<1>5. CASE Cancel
  BY <1>5, CancelStep
<1>6. CASE Switch \/ Age \/ Expire \/ Upload \/ RemoteEnd
  BY <1>6, WorldSteps
<1> QED BY <1>1, <1>2, <1>3, <1>4, <1>5, <1>6 DEF Next

LEMMA StutterKeeps == ASSUME IInv, UNCHANGED vars PROVE Sound
<1>1. UNCHANGED <<provider, enabled, parent, import, row, aged, queue, remote, result, expired, task, paid, faults>>
  BY DEF vars, canvas, rowVars, outside
<1>2. RowOK(row, row', remote)
  BY <1>1 DEF IInv, TypeOK, RowOK
<1>3. IInv'
  BY <1>1 DEF IInv, TypeOK, TaskInv, SolePayer, PayInv, CompletedHasResult, ImportFollowsRow
<1> QED BY <1>2, <1>3 DEF Sound

(***************************************************************************)
(* The inductive invariant holds, for any consumers, sweeps, requests,     *)
(* providers, completion attempts and faults.                              *)
(***************************************************************************)
THEOREM Inductive == Spec => []IInv
<1>1. IInv /\ [Next]_vars => IInv'
  BY StepKeeps, StutterKeeps DEF Sound
<1> QED BY InitInv, <1>1, PTL DEF Spec

(***************************************************************************)
(* The state of MarkerDispatch keeps its types.                            *)
(***************************************************************************)
THEOREM TypeCorrect == Spec => []TypeOK
<1>1. IInv => TypeOK
  BY DEF IInv
<1> QED BY <1>1, Inductive, PTL

(***************************************************************************)
(* One PDF is paid for at most once, whatever is redelivered, swept, lost  *)
(* or answered late (dispatch_attempts and maxDispatchAttempts).           *)
(***************************************************************************)
THEOREM PaidOnceCorrect == Spec => []PaidOnce
<1>1. IInv => PaidOnce
  BY DEF IInv, PayInv, PaidOnce
<1> QED BY <1>1, Inductive, PTL

(***************************************************************************)
(* Row and import are settled together (finalizeMarkerFailure, the         *)
(* completing transaction, Stop).                                          *)
(***************************************************************************)
THEOREM ImportFollowsRowCorrect == Spec => []ImportFollowsRow
<1>1. IInv => ImportFollowsRow
  BY DEF IInv
<1> QED BY <1>1, Inductive, PTL

(***************************************************************************)
(* What is completed was converted.                                        *)
(***************************************************************************)
THEOREM CompletedHasResultCorrect == Spec => []CompletedHasResult
<1>1. IInv => CompletedHasResult
  BY DEF IInv
<1> QED BY <1>1, Inductive, PTL

(***************************************************************************)
(* No late message, webhook, sweep or attempt changes a row that is over.  *)
(***************************************************************************)
THEOREM OverIsFinalCorrect == Spec => OverIsFinal
<1>1. IInv /\ [Next]_vars => [row.status \in Terminal => row' = row]_vars
  <2> SUFFICES ASSUME IInv, [Next]_vars PROVE row.status \in Terminal => row' = row
    OBVIOUS
  <2>1. RowOK(row, row', remote)
    BY StepKeeps, StutterKeeps DEF Sound
  <2> QED BY <2>1, RowAdvances
<1> QED BY <1>1, Inductive, PTL DEF Spec, OverIsFinal

(***************************************************************************)
(* A result at hand ends otherwise only by an invalid result, the last     *)
(* completion attempt or a cancellation.                                   *)
(***************************************************************************)
THEOREM ResultIsNotDroppedCorrect == Spec => ResultIsNotDropped
<1> DEFINE kept == row.status \in Offered \cup {"completing"} /\ row'.status \in Refused \cup {"failed"}
                     => row.completions = MaxCompletions
<1>1. IInv /\ [Next]_vars => [kept]_vars
  <2> SUFFICES ASSUME IInv, [Next]_vars PROVE kept
    OBVIOUS
  <2>1. RowOK(row, row', remote)
    BY StepKeeps, StutterKeeps DEF Sound
  <2> QED BY <2>1, RowAdvances
<1> QED BY <1>1, Inductive, PTL DEF Spec, ResultIsNotDropped
=============================================================================
