--------------------------- MODULE MarkerDispatch ---------------------------
(***************************************************************************)
(* Serverless Marker OCR of one PDF: its row of app.marker_jobs, the queue *)
(* messages and webhooks about it, the paid provider call and the result   *)
(* object that call uploads, and the Canvas import that waits for it.      *)
(*                                                                         *)
(* Every statement locks the row and is one step; whatever is awaited      *)
(* between two statements lets others in.  A task is a queue consumer, a   *)
(* webhook request or a worker's recovery sweep.  `aged' stands for        *)
(* updated_at older than what the row's status allows (15 seconds for a    *)
(* publication, 30 minutes for work, the result grace for observation).    *)
(* A task that dies, a failed storage call or publication, a redelivery, a *)
(* stall and a turn of the dispatch switch each spend one of MaxFaults.    *)
(***************************************************************************)
EXTENDS Integers

CONSTANTS
  Provider,        \* MARKER_PROVIDER: "vast" answers when the work is done,
                   \* "runpod" when it is queued
  Consumer,        \* job slots of the workers' queue consumers
  Sweep,           \* the workers' recovery timers
  Request,         \* submissions and webhook requests
  MaxCompletions,  \* MARKER_COMPLETION_MAX_ATTEMPTS, 3
  MaxFaults        \* bound on the faults of a behaviour

ASSUME MarkerAssumption ==
  /\ Provider \subseteq {"vast", "runpod"}
  /\ MaxCompletions \in Nat \ {0} /\ MaxFaults \in Nat
  /\ Consumer \cap Sweep = {} /\ (Consumer \cup Sweep) \cap Request = {}

VARIABLES
  provider,  \* where the row's work is sent
  enabled,   \* MARKER_SERVERLESS_DISPATCH_ENABLED
  parent,    \* the Canvas job is discovering or processing
  import,    \* status of the canvas_imports row
  row,       \* the marker_jobs row
  aged,      \* its updated_at is older than its status allows
  queue,     \* messages waiting for a consumer
  remote,    \* the provider's job
  result,    \* the result object exists
  expired,   \* the signed upload URL is past its deadline
  task,      \* [Task -> what each task is about to do]
  paid,      \* provider calls that may have started work (history)
  faults

Task == Consumer \cup Sweep \cup Request

rowVars == <<row, aged>>
outside == <<provider, remote, result, expired, paid>>
canvas == <<parent, import>>
vars == <<enabled, canvas, rowVars, queue, outside, task, faults>>

Dispatchable == {"dispatch_queued", "dispatch_paused", "enqueue_failed", "recovering"}
Sent == {"dispatching", "awaiting_result"}
Offered == {"completion_queued", "completion_enqueue_failed", "completion_retry"}
Refused == {"failure_queued", "failure_enqueue_failed", "failing"}
Terminal == {"completed", "failed", "invalid_result", "cancelled"}
Status == {"none", "completing"} \cup Dispatchable \cup Sent \cup Offered \cup Refused \cup Terminal

Row == [status : Status, dispatches : {0, 1}, completions : 0..MaxCompletions, id : BOOLEAN]

\* What a consumer does with each kind of message, and what the other tasks do.
DispatchPc == {"pausing", "claiming", "checking", "signing", "calling", "answering",
               "accepted", "ambiguous", "rejecting", "telling", "untold",
               "probing", "asking", "abandoning", "ready", "handing", "unhanded"}
CompletePc == {"loading", "confirming", "entering", "indexing", "retrying", "invalid", "settled"}
FailPc == {"failing", "settled"}
Message == {"dispatch", "complete", "failed"}
Doing == [dispatch |-> DispatchPc, complete |-> CompletePc, failed |-> FailPc]
Pc == DispatchPc \cup CompletePc \cup FailPc \cup
      {"idle", "submitted", "unsubmitted", "hook", "hooked", "unhooked",
       "republishing", "republished", "unrepublished", "reprobing", "reoffering", "unoffered"}
TaskState == [pc : Pc, seen : {0, 1}, token : 0..MaxCompletions,
              flag : BOOLEAN, known : BOOLEAN]

TypeOK ==
  /\ provider \in Provider /\ enabled \in BOOLEAN
  /\ parent \in BOOLEAN
  /\ import \in {"indexing", "pending_marker", "complete", "error", "cancelled"}
  /\ row \in Row
  /\ aged \in BOOLEAN
  /\ queue \in SUBSET Message
  /\ remote \in {"none", "queued", "done", "failed"}
  /\ result \in BOOLEAN /\ expired \in BOOLEAN
  /\ task \in [Task -> TaskState]
  /\ paid \in Nat /\ faults \in 0..MaxFaults

Idle == [pc |-> "idle", seen |-> 0, token |-> 0, flag |-> FALSE, known |-> FALSE]

Init ==
  /\ provider \in Provider /\ enabled = TRUE
  /\ parent = TRUE /\ import = "indexing"
  /\ row = [status |-> "none", dispatches |-> 0, completions |-> 0, id |-> FALSE]
  /\ aged = FALSE /\ queue = {}
  /\ remote = "none" /\ result = FALSE /\ expired = FALSE
  /\ task = [t \in Task |-> Idle]
  /\ paid = 0 /\ faults = 0

Fault == faults < MaxFaults /\ faults' = faults + 1

At(t, pc) == task[t].pc = pc
Goto(t, pc) == task' = [task EXCEPT ![t].pc = pc]
Start(t, state) == At(t, "idle") /\ task' = [task EXCEPT ![t] = state]
Rest(t) == task' = [task EXCEPT ![t] = Idle]

\* A completion holds the row and the owner's advisory lock while it indexes.
Free == \A t \in Task : ~At(t, "indexing")

\* UPDATE ... SET status WHERE condition, the row locked and re-checked.
Move(condition, status) ==
  /\ Free
  /\ IF condition THEN row' = [row EXCEPT !.status = status] /\ aged' = FALSE
                  ELSE UNCHANGED rowVars

\* An enqueue: accepted, refused, or accepted although its sender saw an error.  The
\* queue may take it for a duplicate of the message a consumer is working on (jobId).
Publish(t, message, pcSent, pcFailed) ==
  /\ \/ queue' = queue \cup {message} /\ Goto(t, pcSent) /\ UNCHANGED faults
     \/ /\ \E c \in Consumer : task[c].pc \in Doing[message]
        /\ UNCHANGED queue /\ Goto(t, pcSent) /\ UNCHANGED faults
     \/ Fault /\ queue' \in {queue, queue \cup {message}} /\ Goto(t, pcFailed)
  /\ UNCHANGED <<enabled, canvas, rowVars, outside>>

-----------------------------------------------------------------------------
(* submitMarkerJob: row, import and parent in one transaction.             *)

Submit(t) ==
  /\ parent /\ Free
  /\ \/ /\ row.status = "none" /\ import = "indexing"
        /\ row' = [row EXCEPT !.status = "dispatch_queued"] /\ aged' = FALSE
        /\ import' = "pending_marker"
        /\ Start(t, [Idle EXCEPT !.pc = "submitted"])
        /\ UNCHANGED faults
     \/ /\ row.status \in Status \ (Terminal \cup {"none"}) /\ Fault
        /\ Start(t, [Idle EXCEPT !.pc = IF row.status \in Dispatchable \ {"recovering"}
                                          THEN "submitted" ELSE "idle"])
        /\ UNCHANGED <<rowVars, import>>
  /\ UNCHANGED <<enabled, parent, queue, outside>>

PublishSubmitted(t) == At(t, "submitted") /\ Publish(t, "dispatch", "idle", "unsubmitted")

SubmitFailed(t) ==
  /\ At(t, "unsubmitted")
  /\ Move(row.status \in {"dispatch_queued", "enqueue_failed"}, "enqueue_failed")
  /\ Rest(t)
  /\ UNCHANGED <<enabled, canvas, queue, outside, faults>>

-----------------------------------------------------------------------------
(* dispatchMarkerJob.                                                      *)

\* The message is consumed; a stalled consumer's message comes again.
Consume(message) ==
  /\ message \in queue
  /\ \/ queue' = queue \ {message} /\ UNCHANGED faults
     \/ Fault /\ UNCHANGED queue

\* The row is read; what it says may be stale by the time it is used.
TakeDispatch(t) ==
  /\ Consume("dispatch")
  /\ \/ /\ row.status = "awaiting_result"
        /\ Start(t, [Idle EXCEPT !.pc = "probing", !.token = row.dispatches,
                       !.flag = aged, !.known = row.id])
     \/ /\ row.status \in Terminal \cup {"none"}
        /\ At(t, "idle") /\ UNCHANGED task
     \/ /\ row.status \notin Terminal \cup {"none", "awaiting_result"}
        /\ Start(t, IF enabled THEN [Idle EXCEPT !.pc = "claiming", !.seen = row.dispatches]
                               ELSE [Idle EXCEPT !.pc = "pausing"])
  /\ UNCHANGED <<enabled, canvas, rowVars, outside>>

Pause(t) ==
  /\ At(t, "pausing")
  /\ Move(row.status \in Dispatchable, "dispatch_paused")
  /\ Rest(t)
  /\ UNCHANGED <<enabled, canvas, queue, outside, faults>>

Claim(t) ==
  /\ At(t, "claiming") /\ Free
  /\ IF row.status \in Dispatchable
       THEN /\ row' = [row EXCEPT !.status = "dispatching", !.dispatches = 1]
            /\ aged' = FALSE
            /\ task' = [task EXCEPT ![t].pc = "checking", ![t].token = 1]
       ELSE Rest(t) /\ UNCHANGED rowVars
  /\ UNCHANGED <<enabled, canvas, queue, outside, faults>>

\* A result that is already there is preferred; the attempts are those read
\* before the claim.
Check(t) ==
  /\ At(t, "checking")
  /\ \/ result /\ Goto(t, "ready") /\ UNCHANGED faults
     \/ ~result /\ task[t].seen = 1 /\ Goto(t, "rejecting") /\ UNCHANGED faults
     \/ ~result /\ task[t].seen = 0 /\ Goto(t, "signing") /\ UNCHANGED faults
     \/ Fault /\ Goto(t, "ambiguous")
  /\ UNCHANGED <<enabled, canvas, rowVars, queue, outside>>

Owned(t, statuses) == row.status \in statuses /\ row.dispatches = task[t].token

\* The upload deadline is stored (not in updated_at) while the row is still owned.
Sign(t) ==
  /\ At(t, "signing") /\ Free
  /\ \/ Goto(t, IF Owned(t, {"dispatching"}) THEN "calling" ELSE "idle") /\ UNCHANGED faults
     \/ Fault /\ Goto(t, "ambiguous")
  /\ UNCHANGED <<enabled, canvas, rowVars, queue, outside>>

\* The paid call: taken by the provider, refused before any work, or lost.
Call(t) ==
  /\ At(t, "calling")
  /\ \/ /\ paid' = paid + 1 /\ remote' = "queued"
        /\ Goto(t, "answering") /\ UNCHANGED faults
     \/ Goto(t, "rejecting") /\ UNCHANGED <<paid, remote, faults>>
     \/ Fault /\ Goto(t, "ambiguous") /\ UNCHANGED <<paid, remote>>
  /\ UNCHANGED <<provider, result, expired, enabled, canvas, rowVars, queue>>

\* Mutant: an answer that is lost is asked for again with the same call.
AnswerRetries(t) ==
  /\ At(t, "answering")
  /\ \/ provider = "runpod" /\ Goto(t, "accepted") /\ UNCHANGED faults
     \/ /\ provider = "vast" /\ remote = "done"
        /\ Goto(t, IF result THEN "ready" ELSE "ambiguous") /\ UNCHANGED faults
     \/ provider = "vast" /\ remote = "failed" /\ Goto(t, "rejecting") /\ UNCHANGED faults
     \/ Fault /\ Goto(t, "calling")
  /\ UNCHANGED <<enabled, canvas, rowVars, queue, outside>>

\* RunPod acknowledges with its job id.  Vast answers for the finished work, and its
\* answer counts once the object is seen.  Anything else is ambiguous.
Answer(t) ==
  /\ At(t, "answering")
  /\ \/ provider = "runpod" /\ Goto(t, "accepted") /\ UNCHANGED faults
     \/ /\ provider = "vast" /\ remote = "done"
        /\ Goto(t, IF result THEN "ready" ELSE "ambiguous") /\ UNCHANGED faults
     \/ provider = "vast" /\ remote = "failed" /\ Goto(t, "rejecting") /\ UNCHANGED faults
     \/ Fault /\ Goto(t, "ambiguous")
  /\ UNCHANGED <<enabled, canvas, rowVars, queue, outside>>

\* markAwaitingResult.
Accepted(t) ==
  /\ At(t, "accepted") /\ Free
  /\ IF Owned(t, {"dispatching"})
       THEN row' = [row EXCEPT !.status = "awaiting_result", !.id = TRUE] /\ aged' = FALSE
       ELSE UNCHANGED rowVars
  /\ Rest(t)
  /\ UNCHANGED <<enabled, canvas, queue, outside, faults>>

\* recordAmbiguousDispatchOutcome.
Ambiguous(t) ==
  /\ At(t, "ambiguous")
  /\ Move(Owned(t, {"dispatching"}), "awaiting_result")
  /\ Rest(t)
  /\ UNCHANGED <<enabled, canvas, queue, outside, faults>>

\* recordTerminalDispatchFailure.
Reject(t) ==
  /\ At(t, "rejecting")
  /\ Move(Owned(t, Sent), "failure_queued")
  /\ Goto(t, IF Owned(t, Sent) THEN "telling" ELSE "idle")
  /\ UNCHANGED <<enabled, canvas, queue, outside, faults>>

PublishFailure(t) == At(t, "telling") /\ Publish(t, "failed", "idle", "untold")

FailureUnpublished(t) ==
  /\ At(t, "untold")
  /\ Move(Owned(t, {"failure_queued"}), "failure_enqueue_failed")
  /\ Rest(t)
  /\ UNCHANGED <<enabled, canvas, queue, outside, faults>>

\* An awaited result is looked for in storage, then at RunPod, until it is overdue.
Probe(t) ==
  /\ At(t, "probing")
  /\ \/ Goto(t, IF result THEN "ready" ELSE "asking") /\ UNCHANGED faults
     \/ Fault /\ Rest(t)
  /\ UNCHANGED <<enabled, canvas, rowVars, queue, outside>>

\* The status probe is advisory and needs the job id of the row that was read.
Ask(t) ==
  LET over == provider = "runpod" /\ task[t].known /\ remote = "failed"
      overdue == task[t].flag \/ expired
  IN /\ At(t, "asking")
     /\ \/ over /\ Goto(t, "rejecting") /\ UNCHANGED faults
        \/ ~over /\ Goto(t, IF overdue THEN "abandoning" ELSE "idle") /\ UNCHANGED faults
        \/ over /\ Fault /\ Goto(t, IF overdue THEN "abandoning" ELSE "idle")
     /\ UNCHANGED <<enabled, canvas, rowVars, queue, outside>>

\* cancelAbandonedRunPodJob, best effort.
Abandon(t) ==
  /\ At(t, "abandoning")
  /\ \/ /\ remote' = IF provider = "runpod" /\ task[t].known /\ remote = "queued" THEN "failed" ELSE remote
        /\ UNCHANGED faults
     \/ Fault /\ UNCHANGED remote
  /\ Goto(t, "rejecting")
  /\ UNCHANGED <<provider, result, expired, paid, enabled, canvas, rowVars, queue>>

\* markResultReady.
Ready(t) ==
  /\ At(t, "ready")
  /\ Move(Owned(t, Sent), "completion_queued")
  /\ Goto(t, IF Owned(t, Sent) THEN "handing" ELSE "idle")
  /\ UNCHANGED <<enabled, canvas, queue, outside, faults>>

PublishCompletion(t) == At(t, "handing") /\ Publish(t, "complete", "idle", "unhanded")

CompletionUnpublished(t) ==
  /\ At(t, "unhanded")
  /\ Move(Owned(t, {"completion_queued"}), "completion_enqueue_failed")
  /\ Rest(t)
  /\ UNCHANGED <<enabled, canvas, queue, outside, faults>>

-----------------------------------------------------------------------------
(* processMarkerComplete and processMarkerFailed.                          *)

TakeCompletion(t) ==
  /\ Consume("complete") /\ Free
  /\ IF row.status \in Offered /\ row.completions < MaxCompletions /\ parent
       THEN /\ row' = [row EXCEPT !.status = "completing", !.completions = @ + 1] /\ aged' = FALSE
            /\ Start(t, [Idle EXCEPT !.pc = "loading", !.token = row.completions + 1])
       ELSE At(t, "idle") /\ UNCHANGED <<rowVars, task>>
  /\ UNCHANGED <<enabled, canvas, outside>>

\* The object is fetched and validated.
Load(t) ==
  /\ At(t, "loading")
  /\ \/ result /\ (\E pc \in {"confirming", "invalid"} : Goto(t, pc)) /\ UNCHANGED faults
     \/ ~result /\ Goto(t, "retrying") /\ UNCHANGED faults
     \/ Fault /\ Goto(t, "retrying")
  /\ UNCHANGED <<enabled, canvas, rowVars, queue, outside>>

Completing(t) == row.status = "completing" /\ row.completions = task[t].token

\* The import still waits for this claim; nothing is locked yet.
Confirm(t) ==
  /\ At(t, "confirming")
  /\ Goto(t, IF Completing(t) /\ import = "pending_marker" /\ parent THEN "entering" ELSE "idle")
  /\ UNCHANGED <<enabled, canvas, rowVars, queue, outside, faults>>

\* assertCanvasExecution: the claim is checked again and the row stays locked.
Enter(t) ==
  /\ At(t, "entering") /\ Free
  /\ Goto(t, IF parent /\ Completing(t) THEN "indexing" ELSE "idle")
  /\ UNCHANGED <<enabled, canvas, rowVars, queue, outside, faults>>

\* Notes, chunks and the terminal transition commit together, or not at all.
Index(t) ==
  /\ At(t, "indexing")
  /\ \/ /\ IF Completing(t)
             THEN /\ row' = [row EXCEPT !.status = "completed"] /\ aged' = FALSE
                  /\ import' = IF import = "pending_marker" THEN "complete" ELSE import
                  /\ Goto(t, "settled")
             ELSE Rest(t) /\ UNCHANGED <<rowVars, import>>
        /\ UNCHANGED faults
     \/ Fault /\ Goto(t, "retrying") /\ UNCHANGED <<rowVars, import>>
  /\ UNCHANGED <<enabled, parent, queue, outside>>

\* Mutant: the import is left as it is.
FinalizeRowOnly(t, condition, status) ==
  /\ Free
  /\ IF condition
       THEN /\ row' = [row EXCEPT !.status = status] /\ aged' = FALSE
            /\ Goto(t, "settled")
       ELSE Rest(t) /\ UNCHANGED rowVars
  /\ UNCHANGED import

\* finalizeMarkerFailure.
Finalize(t, condition, status) ==
  /\ Free
  /\ IF condition
       THEN /\ row' = [row EXCEPT !.status = status] /\ aged' = FALSE
            /\ import' = IF import = "pending_marker" THEN "error" ELSE import
            /\ Goto(t, "settled")
       ELSE Rest(t) /\ UNCHANGED <<rowVars, import>>

\* The last attempt fails the row; an earlier one throws and is delivered again,
\* as often as the queue allows.
Retry(t) ==
  /\ At(t, "retrying")
  /\ \/ /\ task[t].token = MaxCompletions
        /\ Finalize(t, Completing(t), "failed") /\ UNCHANGED queue
     \/ /\ task[t].token < MaxCompletions
        /\ Move(Completing(t), "completion_retry") /\ Rest(t)
        /\ queue' \in {queue, queue \cup {"complete"}} /\ UNCHANGED import
  /\ UNCHANGED <<enabled, parent, outside, faults>>

Invalidate(t) ==
  /\ At(t, "invalid")
  /\ Finalize(t, Completing(t), "invalid_result")
  /\ UNCHANGED <<enabled, parent, queue, outside, faults>>

TakeFailure(t) ==
  /\ Consume("failed")
  /\ IF row.status \in Refused \ {"failing"}
       THEN Move(TRUE, "failing") /\ Start(t, [Idle EXCEPT !.pc = "failing"])
       ELSE At(t, "idle") /\ UNCHANGED <<rowVars, task>>
  /\ UNCHANGED <<enabled, canvas, outside>>

Fail(t) ==
  /\ At(t, "failing")
  /\ Finalize(t, row.status = "failing", "failed")
  /\ UNCHANGED <<enabled, parent, queue, outside, faults>>

\* checkAndCompleteJob: the job is complete if this was its last open file.
Settled(t) ==
  /\ At(t, "settled")
  /\ parent' \in {parent, FALSE}
  /\ Rest(t)
  /\ UNCHANGED <<enabled, import, rowVars, queue, outside, faults>>

-----------------------------------------------------------------------------
(* The RunPod webhook.  RunPod sends it when a job is over, perhaps again. *)

Hook(t) ==
  /\ provider = "runpod" /\ remote \in {"done", "failed"}
  /\ Start(t, [Idle EXCEPT !.pc = "hook", !.flag = (remote = "done")])
  /\ UNCHANGED <<enabled, canvas, rowVars, queue, outside, faults>>

\* Mutant: a webhook moves any row that is not over.
HookMovesAny(t) ==
  LET moves == row.status \notin Terminal \cup {"none"}
  IN /\ At(t, "hook") /\ Free
     /\ IF moves
          THEN /\ row' = [row EXCEPT !.id = TRUE,
                            !.status = IF task[t].flag THEN "completion_queued" ELSE "failure_queued"]
               /\ aged' = FALSE /\ Goto(t, "hooked")
          ELSE Rest(t) /\ UNCHANGED rowVars
     /\ UNCHANGED <<enabled, canvas, queue, outside, faults>>

HookMoves(t) ==
  /\ At(t, "hook") /\ Free
  /\ IF row.status \in Sent
       THEN /\ row' = [row EXCEPT !.id = TRUE,
                         !.status = IF task[t].flag THEN "completion_queued" ELSE "failure_queued"]
            /\ aged' = FALSE /\ Goto(t, "hooked")
       ELSE Rest(t) /\ UNCHANGED rowVars
  /\ UNCHANGED <<enabled, canvas, queue, outside, faults>>

HookPublishes(t) ==
  /\ At(t, "hooked")
  /\ Publish(t, IF task[t].flag THEN "complete" ELSE "failed", "idle", "unhooked")

HookUnpublished(t) ==
  /\ At(t, "unhooked")
  /\ Move(row.status \in {"completion_queued", "failure_queued"},
          IF task[t].flag THEN "completion_enqueue_failed" ELSE "failure_enqueue_failed")
  /\ Rest(t)
  /\ UNCHANGED <<enabled, canvas, queue, outside, faults>>

-----------------------------------------------------------------------------
(* recoverMarkerDispatchJobs, one disjunct per query of the sweep.         *)

SweepRow(t, state, status) ==
  /\ Free
  /\ row' = [row EXCEPT !.status = status] /\ aged' = FALSE
  /\ Start(t, state)
  /\ UNCHANGED <<enabled, canvas, queue, outside, faults>>

SweepDispatchable(t) ==
  /\ enabled /\ aged /\ row.status \in Dispatchable
  /\ SweepRow(t, [Idle EXCEPT !.pc = "republishing"], "recovering")

Republish(t) ==
  At(t, "republishing") /\ Publish(t, "dispatch", "republished", "unrepublished")

Republished(t) ==
  /\ \/ At(t, "republished") /\ Move(row.status = "recovering", "dispatch_queued")
     \/ At(t, "unrepublished") /\ Move(row.status = "recovering", "enqueue_failed")
  /\ Rest(t)
  /\ UNCHANGED <<enabled, canvas, queue, outside, faults>>

SweepStale(t) ==
  /\ aged /\ row.status = "dispatching"
  /\ SweepRow(t, [Idle EXCEPT !.pc = "reprobing"], "awaiting_result")

\* Mutant: results are awaited only while dispatch is switched on.
SweepAwaitingEnabled(t) ==
  /\ enabled /\ row.status = "awaiting_result"
  /\ Start(t, [Idle EXCEPT !.pc = "reprobing"])
  /\ UNCHANGED <<enabled, canvas, rowVars, queue, outside, faults>>

SweepAwaiting(t) ==
  /\ row.status = "awaiting_result"
  /\ Start(t, [Idle EXCEPT !.pc = "reprobing"])
  /\ UNCHANGED <<enabled, canvas, rowVars, queue, outside, faults>>

Reprobe(t) == At(t, "reprobing") /\ Publish(t, "dispatch", "idle", "idle")

SweepContinuation(t) ==
  LET status == IF row.status \in Refused \/ row.completions >= MaxCompletions
                  THEN "failure_queued" ELSE "completion_queued"
  IN /\ aged /\ row.status \in Offered \cup {"completing"} \cup Refused
     /\ SweepRow(t, [Idle EXCEPT !.pc = "reoffering", !.flag = (status = "failure_queued")], status)

Reoffer(t) ==
  At(t, "reoffering") /\ Publish(t, IF task[t].flag THEN "failed" ELSE "complete", "idle", "unoffered")

Unoffered(t) ==
  /\ At(t, "unoffered")
  /\ IF task[t].flag THEN Move(row.status = "failure_queued", "failure_enqueue_failed")
                     ELSE Move(row.status = "completion_queued", "completion_enqueue_failed")
  /\ Rest(t)
  /\ UNCHANGED <<enabled, canvas, queue, outside, faults>>

-----------------------------------------------------------------------------
(* Stop, the dispatch switch, time, the provider and dying processes.      *)

\* Stop, replacement and trash cancel job, marker row and import together.
Cancel ==
  /\ parent /\ Free
  /\ parent' = FALSE
  /\ IF row.status \in Terminal \cup {"none"}
       THEN UNCHANGED rowVars
       ELSE row' = [row EXCEPT !.status = "cancelled"] /\ aged' = FALSE
  /\ import' = IF import \in {"indexing", "pending_marker"} THEN "cancelled" ELSE import
  /\ UNCHANGED <<enabled, queue, outside, task, faults>>

Switch ==
  /\ Fault /\ enabled' = ~enabled
  /\ UNCHANGED <<canvas, rowVars, queue, outside, task>>

\* A row ages although somebody works on it only if that task stalls.
Attended ==
  \E t \in Task :
    \/ /\ row.status = "dispatching"
       /\ task[t].pc \in {"checking", "signing", "calling", "answering", "accepted", "ambiguous",
                          "rejecting", "ready"}
    \/ /\ row.status = "completing"
       /\ task[t].pc \in {"loading", "confirming", "entering", "indexing", "retrying", "invalid"}
    \/ row.status = "failing" /\ task[t].pc = "failing"
    \/ row.status = "recovering" /\ task[t].pc \in {"republishing", "republished", "unrepublished"}

Age ==
  /\ ~aged /\ row.status \notin Terminal \cup {"none"}
  /\ IF Attended THEN Fault ELSE UNCHANGED faults
  /\ aged' = TRUE
  /\ UNCHANGED <<enabled, canvas, row, queue, outside, task>>

\* The signed URLs end, counted from the first dispatch.
Expire ==
  /\ row.dispatches = 1 /\ ~expired
  /\ expired' = TRUE
  /\ UNCHANGED <<provider, remote, result, paid, enabled, canvas, rowVars, queue, task, faults>>

Upload ==
  /\ remote = "queued" /\ ~expired /\ ~result
  /\ result' = TRUE
  /\ UNCHANGED <<provider, remote, expired, paid, enabled, canvas, rowVars, queue, task, faults>>

\* A provider may call a job done whose upload it lost.
RemoteEnd ==
  /\ remote = "queued"
  /\ remote' \in {"done", "failed"}
  /\ UNCHANGED <<provider, result, expired, paid, enabled, canvas, rowVars, queue, task, faults>>

Die(t) ==
  /\ task[t].pc # "idle" /\ Fault
  /\ Rest(t)
  /\ UNCHANGED <<enabled, canvas, rowVars, queue, outside>>

Take(t) == TakeDispatch(t) \/ TakeCompletion(t) \/ TakeFailure(t)
Sweeping(t) ==
  SweepDispatchable(t) \/ SweepStale(t) \/ SweepAwaiting(t) \/ SweepContinuation(t)

Work(t) ==
  \/ PublishSubmitted(t) \/ SubmitFailed(t)
  \/ Pause(t) \/ Claim(t) \/ Check(t) \/ Sign(t) \/ Call(t) \/ Answer(t)
  \/ Accepted(t) \/ Ambiguous(t) \/ Reject(t) \/ PublishFailure(t) \/ FailureUnpublished(t)
  \/ Probe(t) \/ Ask(t) \/ Abandon(t)
  \/ Ready(t) \/ PublishCompletion(t) \/ CompletionUnpublished(t)
  \/ Load(t) \/ Confirm(t) \/ Enter(t) \/ Index(t) \/ Retry(t) \/ Invalidate(t)
  \/ Fail(t) \/ Settled(t)
  \/ HookMoves(t) \/ HookPublishes(t) \/ HookUnpublished(t)
  \/ Republish(t) \/ Republished(t) \/ Reprobe(t) \/ Reoffer(t) \/ Unoffered(t)

Next ==
  \/ \E t \in Task : Work(t) \/ Die(t)
  \/ \E t \in Consumer : Take(t)
  \/ \E t \in Sweep : Sweeping(t)
  \/ \E t \in Request : Submit(t) \/ Hook(t)
  \/ Cancel \/ Switch \/ Age \/ Expire \/ Upload \/ RemoteEnd

Spec == Init /\ [][Next]_vars

Healthy(A) == A /\ UNCHANGED faults

\* Workers that are up take their steps and what is queued, one sweeps every 30 seconds,
\* time passes, and the provider ends every job.  Requests may stop anywhere.
FairSpec ==
  /\ Spec
  /\ \A t \in Consumer \cup Sweep : WF_vars(Healthy(Work(t)))
  /\ WF_vars(\E t \in Consumer : Healthy(Take(t)))
  /\ WF_vars(\E t \in Sweep : Healthy(Sweeping(t)))
  /\ WF_vars(Healthy(Age)) /\ WF_vars(Expire) /\ WF_vars(RemoteEnd)

-----------------------------------------------------------------------------

\* One row pays for at most one conversion, whatever is redelivered, swept, lost
\* or answered late (maxDispatchAttempts).
PaidOnce == paid <= 1

\* The row and the import it feeds agree: an import waits only for a row that is
\* still moving, and is complete, failed or cancelled as the row is.
ImportFollowsRow ==
  /\ import = "pending_marker" <=> row.status \notin Terminal \cup {"none"}
  /\ import = "complete" <=> row.status = "completed"
  /\ import = "error" <=> row.status \in {"failed", "invalid_result"}

\* What is completed was converted: its result object exists.
CompletedHasResult == row.status = "completed" => result

\* A row that is over stays as it is: no late message, webhook, sweep or attempt
\* brings a cancelled or failed import back.
OverIsFinal == [][row.status \in Terminal => row' = row]_vars

\* Once a result is at hand, only an invalid result, the last completion attempt or
\* a cancellation ends the row otherwise: a replayed webhook must not flip it.
ResultIsNotDropped ==
  [][row.status \in Offered \cup {"completing"} /\ row'.status \in Refused \cup {"failed"}
       => row.completions = MaxCompletions]_vars

\* A row whose conversion may have been sent is settled, even if dispatch is
\* switched off.
SentIsSettled == row.dispatches = 1 ~> row.status \in Terminal

\* Every row is settled, unless dispatch is switched off before it was sent.
EventuallySettled ==
  row.status # "none" ~> row.status \in Terminal \/ (~enabled /\ row.dispatches = 0)
=============================================================================
