--------------------------- MODULE ChatGeneration ---------------------------
(***************************************************************************)
(* The life of a background chat generation in OghmaNotes: the row of      *)
(* app.chat_generations, the BullMQ deliveries that point at it, the       *)
(* worker processes that claim it under a lease, the Stop requests and the *)
(* recovery sweep.  One SQL statement of generation-store.ts is one atomic *)
(* step (it locks the row), and everything the worker awaits between two   *)
(* statements is a separate step, so crashes, expired leases, Stop and     *)
(* recovery interleave with a run exactly where the code can be preempted. *)
(*                                                                         *)
(* A lease token is a UUID in the code; here it is the number of the claim *)
(* that wrote it, and 0 is NULL.  `live' stands for lease_expires_at >     *)
(* NOW().  Everything that needs a machine, Redis or PostgreSQL to         *)
(* misbehave (and a republication that was not needed) spends one unit of  *)
(* the budget MaxFaults, so that "the faults stop" is a property of every  *)
(* behaviour and liveness can be stated without assuming a reliable system.*)
(***************************************************************************)
EXTENDS Integers, FiniteSets

CONSTANTS
  Gen,          \* generation ids
  Worker,       \* job slots of the worker processes (chatConcurrency each)
  MaxAttempts,  \* deliveries BullMQ makes of one job (`attempts', 2 in queue.ts)
  MaxFaults     \* bound on the faults of a behaviour

ASSUME AttemptsAssumption == MaxAttempts \in Nat \ {0}
ASSUME FaultsAssumption == MaxFaults \in Nat

VARIABLES
  status,     \* [Gen -> Status]: the row's status, "absent" before the insert
  token,      \* [Gen -> Nat]: lease_token, 0 for NULL
  live,       \* [Gen -> BOOLEAN]: lease_expires_at > NOW()
  claims,     \* [Gen -> Nat]: claims so far, i.e. the last token handed out
  payload,    \* [Gen -> BOOLEAN]: request_payload IS NOT NULL
  answer,     \* [Gen -> Answer]: the assistant message saved for the row
  answerRun,  \* [Gen -> Nat]: the claim whose run wrote that message (history)
  flag,       \* [Gen -> Nat]: 0, or 1 + the claims made when Redis first took
              \* the cancel flag: the first run that starts after the Stop
  route,      \* [Gen -> Route]: POST /api/chat, between the insert and its reply
  stop,       \* [Gen -> StopStep]: where a Stop request stands
  waiting,    \* [Gen -> [Attempts -> Nat]]: jobs in BullMQ by the attempt
              \* number their next delivery carries
  pc,         \* [Worker -> Pc]: what the worker's current job is about to do
  job,        \* [Worker -> Gen]: the generation the job names
  attempt,    \* [Worker -> Attempts]: job.attemptsStarted
  lease,      \* [Worker -> Nat]: the lease token of the run
  output,     \* [Worker -> BOOLEAN]: hasOutput, the model has produced something
  lost,       \* [Worker -> BOOLEAN]: leaseLost
  abort,      \* [Worker -> Abort]: abortReason
  faults      \* faults so far

rowVars    == <<status, token, live, claims, payload, answer, answerRun>>
clientVars == <<flag, route, stop>>
runVars    == <<job, attempt, lease, output, lost, abort>>
vars == <<rowVars, clientVars, waiting, pc, runVars, faults>>

Attempts == 1..MaxAttempts
Active   == {"queued", "generating"}
Terminal == {"completed", "failed", "cancelled"}
Status   == {"absent"} \cup Active \cup Terminal
Answer   == {"none", "full", "partial"}
Route    == {"none", "publishing", "over"}
StopStep == {"none", "loaded", "missed"}
Abort    == {"no", "stopped", "disconnected"}

\* Between the claim and the end of processChatGeneration's try/catch: the
\* points at which the run holds its token and the watchdog ticks.
Running == {"entry", "entryStop", "preparing", "streaming", "completing",
            "stopping", "salvaging", "requeueing", "failing"}
Pc == {"idle", "claiming", "returning", "throwing"} \cup Running

TypeOK ==
  /\ status \in [Gen -> Status]
  /\ token \in [Gen -> Nat]
  /\ live \in [Gen -> BOOLEAN]
  /\ claims \in [Gen -> Nat]
  /\ payload \in [Gen -> BOOLEAN]
  /\ answer \in [Gen -> Answer]
  /\ answerRun \in [Gen -> Nat]
  /\ flag \in [Gen -> Nat]
  /\ route \in [Gen -> Route]
  /\ stop \in [Gen -> StopStep]
  /\ waiting \in [Gen -> [Attempts -> Nat]]
  /\ pc \in [Worker -> Pc]
  /\ job \in [Worker -> Gen]
  /\ attempt \in [Worker -> Attempts]
  /\ lease \in [Worker -> Nat]
  /\ output \in [Worker -> BOOLEAN]
  /\ lost \in [Worker -> BOOLEAN]
  /\ abort \in [Worker -> Abort]
  /\ faults \in 0..MaxFaults

Init ==
  /\ status = [g \in Gen |-> "absent"]
  /\ token = [g \in Gen |-> 0]
  /\ live = [g \in Gen |-> FALSE]
  /\ claims = [g \in Gen |-> 0]
  /\ payload = [g \in Gen |-> FALSE]
  /\ answer = [g \in Gen |-> "none"]
  /\ answerRun = [g \in Gen |-> 0]
  /\ flag = [g \in Gen |-> 0]
  /\ route = [g \in Gen |-> "none"]
  /\ stop = [g \in Gen |-> "none"]
  /\ waiting = [g \in Gen |-> [k \in Attempts |-> 0]]
  /\ pc = [w \in Worker |-> "idle"]
  /\ job \in [Worker -> Gen]
  /\ attempt = [w \in Worker |-> 1]
  /\ lease = [w \in Worker |-> 0]
  /\ output = [w \in Worker |-> FALSE]
  /\ lost = [w \in Worker |-> FALSE]
  /\ abort = [w \in Worker |-> "no"]
  /\ faults = 0

NoFault == UNCHANGED faults
Fault   == faults < MaxFaults /\ faults' = faults + 1

-----------------------------------------------------------------------------
(* What the statements of generation-store.ts do to one row.               *)

\* Mutant: the statements check that the row is leased, not to whom.
OwnedByAnyone(g, t) == status[g] = "generating" /\ token[g] # 0

\* The fence of every worker-side statement: the row is generating under this
\* token and the lease has not run out.
Owned(g, t) == status[g] = "generating" /\ token[g] = t /\ live[g]

\* No live worker owns the row: what claim, cancel without a lease and the
\* recovery sweep accept.
Unowned(g) == status[g] = "queued" \/ (status[g] = "generating" /\ ~live[g])

ClearLease(g) ==
  /\ token' = [token EXCEPT ![g] = 0]
  /\ live' = [live EXCEPT ![g] = FALSE]

SetStatus(g, s) ==
  /\ status' = [status EXCEPT ![g] = s]
  /\ ClearLease(g)
  /\ UNCHANGED <<claims, payload, answer, answerRun>>

\* finalizeChatGeneration: the message and the outcome in one statement; the
\* insert is ON CONFLICT (generation_id) DO NOTHING.
Finalize(g, s, a, run) ==
  /\ status' = [status EXCEPT ![g] = s]
  /\ ClearLease(g)
  /\ IF a = "none" \/ answer[g] # "none"
       THEN UNCHANGED <<answer, answerRun>>
       ELSE /\ answer' = [answer EXCEPT ![g] = a]
            /\ answerRun' = [answerRun EXCEPT ![g] = run]
  /\ UNCHANGED <<claims, payload>>

\* claimChatGeneration: a new token and a live lease.
TakeLease(g) ==
  /\ status' = [status EXCEPT ![g] = "generating"]
  /\ claims' = [claims EXCEPT ![g] = @ + 1]
  /\ token' = [token EXCEPT ![g] = claims[g] + 1]
  /\ live' = [live EXCEPT ![g] = TRUE]
  /\ UNCHANGED <<payload, answer, answerRun>>

\* The worker goes on to `next'; the run's local variables end with the run.
Goto(w, next, out) ==
  /\ pc' = [pc EXCEPT ![w] = next]
  /\ output' = [output EXCEPT ![w] = out /\ next \in Running]
  /\ IF next \in Running THEN UNCHANGED <<lease, lost, abort>>
     ELSE /\ lease' = [lease EXCEPT ![w] = 0]
          /\ lost' = [lost EXCEPT ![w] = FALSE]
          /\ abort' = [abort EXCEPT ![w] = "no"]

\* A worker's statement, fenced by the run's lease: it commits when the run
\* still owns the row, changes nothing when it does not, or the driver reports
\* an error, and then the statement may or may not have committed.
Statement(w, Commit, done, missed, error) ==
  LET owned == Owned(job[w], lease[w])
  IN \/ owned /\ Commit /\ Goto(w, done, output[w]) /\ NoFault
     \/ ~owned /\ UNCHANGED rowVars /\ Goto(w, missed, output[w]) /\ NoFault
     \/ /\ Fault
        /\ Goto(w, error, output[w])
        /\ UNCHANGED rowVars \/ (owned /\ Commit)

Enqueue(g, k) == waiting' = [waiting EXCEPT ![g][k] = @ + 1]

\* The attempt number BullMQ gives the delivery after the k-th; a stalled job
\* may come back beyond the limit, which the code treats like the last one.
NextAttempt(k) == IF k < MaxAttempts THEN k + 1 ELSE MaxAttempts

-----------------------------------------------------------------------------
(* The API route, the Stop route and the maintenance tasks.                *)

\* POST /api/chat in background mode: insert the row, then publish its id.  The
\* job is in the queue from here on or never; a job that lands late is one that
\* is delivered late.
Create(g) ==
  /\ status[g] = "absent"
  /\ status' = [status EXCEPT ![g] = "queued"]
  /\ payload' = [payload EXCEPT ![g] = TRUE]
  /\ route' = [route EXCEPT ![g] = "publishing"]
  /\ \/ Enqueue(g, 1) /\ NoFault
     \/ UNCHANGED waiting /\ Fault
  /\ UNCHANGED <<token, live, claims, answer, answerRun, flag, stop, pc, runVars>>

RouteReplies(g) ==
  /\ route[g] = "publishing"
  /\ route' = [route EXCEPT ![g] = "over"]
  /\ UNCHANGED <<rowVars, flag, stop, waiting, pc, runVars, faults>>

\* Mutant: the route fails the row whether or not a worker has it.
RouteFailsAnyway(g) ==
  /\ route[g] = "publishing"
  /\ route' = [route EXCEPT ![g] = "over"]
  /\ SetStatus(g, "failed") /\ Fault
  /\ UNCHANGED <<flag, stop, waiting, pc, runVars>>

\* The publish rejects or times out, although the job may have landed: the route
\* fails the row only while it is still queued.
RouteFails(g) ==
  /\ route[g] = "publishing"
  /\ route' = [route EXCEPT ![g] = "over"]
  /\ IF status[g] = "queued" THEN SetStatus(g, "failed") ELSE UNCHANGED rowVars
  /\ Fault
  /\ UNCHANGED <<flag, stop, waiting, pc, runVars>>

\* Stop, in the order of the cancel route: read the row, try to cancel it in
\* PostgreSQL, then leave a flag for the live worker or, without Redis, revoke.
StopLoads(g) ==
  /\ stop[g] = "none" /\ status[g] \in Active
  /\ stop' = [stop EXCEPT ![g] = "loaded"]
  /\ UNCHANGED <<rowVars, flag, route, waiting, pc, runVars, faults>>

StopCancels(g) ==
  /\ stop[g] = "loaded"
  /\ \/ /\ Unowned(g)
        /\ SetStatus(g, "cancelled")
        /\ stop' = [stop EXCEPT ![g] = "none"]
     \/ /\ ~Unowned(g)
        /\ UNCHANGED rowVars
        /\ stop' = [stop EXCEPT ![g] = "missed"]
  /\ UNCHANGED <<flag, route, waiting, pc, runVars, faults>>

StopFlags(g) ==
  /\ stop[g] = "missed"
  /\ flag' = [flag EXCEPT ![g] = IF @ = 0 THEN claims[g] + 1 ELSE @]
  /\ stop' = [stop EXCEPT ![g] = "none"]
  /\ UNCHANGED <<rowVars, route, waiting, pc, runVars, faults>>

StopRevokes(g) ==
  /\ stop[g] = "missed"
  /\ Fault
  /\ IF status[g] \in Active THEN SetStatus(g, "cancelled") ELSE UNCHANGED rowVars
  /\ stop' = [stop EXCEPT ![g] = "none"]
  /\ UNCHANGED <<flag, route, waiting, pc, runVars>>

\* A job for g is in the queue, or a worker is about to claim it or to hand it
\* back: within the minutes the sweep waits before it republishes a queued row,
\* that job gets to its claim unless something goes wrong.
JobPending(g) ==
  \/ \E k \in Attempts : waiting[g][k] > 0
  \/ \E w \in Worker : job[w] = g /\ pc[w] \in {"claiming", "throwing"}

\* Mutant: the sweep sees queued rows only, not expired leases.
RecoverQueuedOnly(g) ==
  /\ status[g] = "queued" /\ ~JobPending(g)
  /\ SetStatus(g, "queued") /\ Enqueue(g, 1) /\ NoFault
  /\ UNCHANGED <<clientVars, pc, runVars>>

\* recoverStaleChatGenerations and the republication under a fresh job id.
Recover(g) ==
  /\ Unowned(g)
  /\ SetStatus(g, "queued")
  /\ \/ ~JobPending(g) /\ Enqueue(g, 1) /\ NoFault
     \/ JobPending(g) /\ Enqueue(g, 1) /\ Fault
     \/ UNCHANGED waiting /\ Fault
  /\ UNCHANGED <<clientVars, pc, runVars>>

\* pruneChatGenerationPayloads, a week after the row settled.
Prune(g) ==
  /\ status[g] \in Terminal /\ payload[g]
  /\ payload' = [payload EXCEPT ![g] = FALSE]
  /\ UNCHANGED <<status, token, live, claims, answer, answerRun>>
  /\ UNCHANGED <<clientVars, waiting, pc, runVars, faults>>

\* The lease runs out: at once expected when no running worker renews it, a
\* fault (45 s without one successful heartbeat) when one does.
Held(g) == \E w \in Worker : /\ pc[w] \in Running
                             /\ job[w] = g /\ lease[w] = token[g]

LeaseLapses(g) ==
  /\ live[g]
  /\ live' = [live EXCEPT ![g] = FALSE]
  /\ IF Held(g) THEN Fault ELSE NoFault
  /\ UNCHANGED <<status, token, claims, payload, answer, answerRun>>
  /\ UNCHANGED <<clientVars, waiting, pc, runVars>>

-----------------------------------------------------------------------------
(* One delivery of a job: processChatGeneration.                           *)

Deliver(w, g, k) ==
  /\ pc[w] = "idle" /\ waiting[g][k] > 0
  /\ waiting' = [waiting EXCEPT ![g][k] = @ - 1]
  /\ pc' = [pc EXCEPT ![w] = "claiming"]
  /\ job' = [job EXCEPT ![w] = g]
  /\ attempt' = [attempt EXCEPT ![w] = k]
  /\ UNCHANGED <<rowVars, clientVars, lease, output, lost, abort, faults>>

Claim(w) ==
  /\ pc[w] = "claiming"
  /\ \/ /\ Unowned(job[w]) /\ TakeLease(job[w]) /\ NoFault
        /\ pc' = [pc EXCEPT ![w] = "entry"]
        /\ lease' = [lease EXCEPT ![w] = claims[job[w]] + 1]
        /\ UNCHANGED <<output, lost, abort>>
     \/ /\ ~Unowned(job[w]) /\ UNCHANGED rowVars /\ NoFault
        /\ Goto(w, "returning", FALSE)
     \/ /\ Fault /\ Goto(w, "throwing", FALSE)
        /\ UNCHANGED rowVars \/ (Unowned(job[w]) /\ TakeLease(job[w]))
  /\ UNCHANGED <<clientVars, waiting, job, attempt>>

\* The watchdog's tick: renew the lease or lose it; then the Stop flag, then the
\* presence of the user.  It does nothing more once it has aborted the run.
Watchdog(w) ==
  /\ pc[w] \in Running /\ abort[w] = "no" /\ ~lost[w]
  /\ \/ /\ ~Owned(job[w], lease[w])
        /\ lost' = [lost EXCEPT ![w] = TRUE]
        /\ UNCHANGED abort
     \/ /\ Owned(job[w], lease[w])
        /\ \E why \in {"stopped", "disconnected"} :
             /\ (why = "stopped") <=> (flag[job[w]] # 0)
             /\ abort' = [abort EXCEPT ![w] = why]
        /\ UNCHANGED lost
  /\ UNCHANGED <<rowVars, clientVars, waiting, pc, job, attempt, lease, output, faults>>

\* Mutant: a run with output is retried like one without.
CatchRetries(w) ==
  CASE lost[w] -> "returning"
    [] ~lost[w] /\ abort[w] # "no" -> "stopping"
    [] OTHER -> IF attempt[w] < MaxAttempts THEN "requeueing" ELSE "failing"

\* Where the catch block goes: nowhere once the lease is lost, to the cancelled
\* outcome after an abort (finishCancelled runs once, so not again after the
\* entry check called it), to the partial outcome when there is output, and
\* otherwise back to the queue or, on the last attempt, to failed.
Catch(w) ==
  CASE lost[w]                              -> "returning"
    [] ~lost[w] /\ abort[w] # "no"          -> IF pc[w] = "entryStop"
                                               THEN "returning" ELSE "stopping"
    [] ~lost[w] /\ abort[w] = "no" /\ output[w] -> "salvaging"
    [] OTHER -> IF attempt[w] < MaxAttempts THEN "requeueing" ELSE "failing"

\* A step of a run that changes nothing but the worker.
Local(w, next, out) ==
  /\ Goto(w, next, out)
  /\ UNCHANGED <<rowVars, clientVars, waiting, job, attempt, faults>>

\* Mutant: the run does not look at the Stop flag before it starts.
CheckNothing(w) == pc[w] = "entry" /\ Local(w, "preparing", FALSE)

CheckFlag(w) ==
  /\ pc[w] = "entry"
  /\ Local(w, IF flag[job[w]] # 0 THEN "entryStop" ELSE "preparing", FALSE)

\* Prompt and model are ready.  Without a configured model the fallback reply is
\* the answer, and no abort is looked at before it is saved.
Prepare(w) ==
  /\ pc[w] = "preparing"
  /\ \/ Local(w, "completing", FALSE)
     \/ Local(w, IF abort[w] # "no" THEN "stopping" ELSE "streaming", FALSE)

Produce(w) ==
  /\ pc[w] = "streaming" /\ ~output[w]
  /\ Local(w, "streaming", TRUE)

\* The provider stream ends with a usable answer, or an abort cut it short.
StreamEnds(w) ==
  /\ pc[w] = "streaming"
  /\ \/ lost[w] /\ Local(w, "returning", FALSE)
     \/ ~lost[w] /\ abort[w] # "no" /\ Local(w, "stopping", output[w])
     \/ ~lost[w] /\ abort[w] = "no" /\ Local(w, "completing", TRUE)

\* Redis at the entry check, retrieval, the provider or an unusable final answer
\* throws into the catch block.
Throw(w) ==
  /\ pc[w] \in {"entry", "preparing", "streaming", "completing"}
  /\ Local(w, Catch(w), output[w])

Settling(w, at, Commit, done, missed, error) ==
  /\ pc[w] = at
  /\ Statement(w, Commit, done, missed, error)
  /\ UNCHANGED <<clientVars, waiting, job, attempt>>

EntryStop(w) ==
  Settling(w, "entryStop", Finalize(job[w], "cancelled", "none", lease[w]),
           "returning", "returning", Catch(w))

Complete(w) ==
  Settling(w, "completing", Finalize(job[w], "completed", "full", lease[w]),
           "returning", "returning", Catch(w))

FinishCancelled(w) ==
  Settling(w, "stopping",
           Finalize(job[w], "cancelled", IF output[w] THEN "partial" ELSE "none", lease[w]),
           "returning", "returning", "returning")

SavePartial(w) ==
  Settling(w, "salvaging", Finalize(job[w], "failed", "partial", lease[w]),
           "returning", "returning", "throwing")

Requeue(w) ==
  Settling(w, "requeueing", SetStatus(job[w], "queued"),
           "throwing", "returning", "throwing")

FailRun(w) ==
  Settling(w, "failing", SetStatus(job[w], "failed"),
           "throwing", "returning", "throwing")

\* The slot is free for another job.
Leave(w) ==
  /\ Goto(w, "idle", FALSE)
  /\ attempt' = [attempt EXCEPT ![w] = 1]
  /\ UNCHANGED <<rowVars, clientVars, job>>

\* The job completes, or fails and is retried while it has attempts left.
Return(w) ==
  /\ pc[w] = "returning"
  /\ Leave(w)
  /\ UNCHANGED <<waiting, faults>>

Rethrow(w) ==
  /\ pc[w] = "throwing"
  /\ Leave(w)
  /\ IF attempt[w] < MaxAttempts THEN Enqueue(job[w], attempt[w] + 1)
                                 ELSE UNCHANGED waiting
  /\ NoFault

\* The process dies; BullMQ finds the job stalled and redelivers it, or gives it
\* up as stalled too often.
Crash(w) ==
  /\ pc[w] # "idle" /\ Fault
  /\ Leave(w)
  /\ UNCHANGED waiting \/ Enqueue(job[w], NextAttempt(attempt[w]))

\* The job lock lapses although the process is alive: a second delivery.
Redeliver(w) ==
  /\ pc[w] # "idle" /\ Fault
  /\ Enqueue(job[w], NextAttempt(attempt[w]))
  /\ UNCHANGED <<rowVars, clientVars, pc, runVars>>

-----------------------------------------------------------------------------

RouteStep(g) == Create(g) \/ RouteReplies(g) \/ RouteFails(g)
StopRequest(g) == StopLoads(g) \/ StopCancels(g) \/ StopFlags(g) \/ StopRevokes(g)
Upkeep(g) == Recover(g) \/ Prune(g) \/ LeaseLapses(g)

RunStep(w) ==
  \/ \E g \in Gen, k \in Attempts : Deliver(w, g, k)
  \/ Claim(w) \/ Watchdog(w) \/ CheckFlag(w) \/ Prepare(w)
  \/ Produce(w) \/ StreamEnds(w) \/ Throw(w)
  \/ EntryStop(w) \/ Complete(w) \/ FinishCancelled(w) \/ SavePartial(w)
  \/ Requeue(w) \/ FailRun(w) \/ Return(w) \/ Rethrow(w)

Next ==
  \/ \E g \in Gen : RouteStep(g) \/ StopRequest(g) \/ Upkeep(g)
  \/ \E w \in Worker : RunStep(w) \/ Crash(w) \/ Redeliver(w)

Spec == Init /\ [][Next]_vars

\* A worker that is up keeps going, an unrenewed lease runs out, and the 30 s
\* repair task keeps sweeping.  None of this promises a step that needs a fault,
\* nor that anybody asks, stops or prunes.
Fairness ==
  /\ \A w \in Worker : WF_vars(RunStep(w) /\ NoFault)
  /\ \A g \in Gen : WF_vars(LeaseLapses(g) /\ NoFault)
  /\ \A g \in Gen : WF_vars(Recover(g) /\ NoFault)

FairSpec == Spec /\ Fairness

-----------------------------------------------------------------------------
(* Properties.                                                             *)

\* The outcome and the saved message agree: nothing is saved while the row is
\* active, a completed row has the whole answer, and a failed or cancelled one
\* has at most a partial answer.  finalizeChatGeneration writes both, but rows
\* are also settled by the Stop route, the publish failure and the sweep, which
\* write no message.
AnswerMatchesOutcome ==
  \A g \in Gen :
    /\ status[g] = "completed" <=> answer[g] = "full"
    /\ answer[g] = "partial" => status[g] \in {"failed", "cancelled"}

\* The saved message was written by the run of the last claim, whatever a worker
\* that outlived its lease, or a redelivered job, does in between.
AnswerFromLastRun ==
  \A g \in Gen : answer[g] # "none" => answerRun[g] = claims[g]

\* Once the Stop flag is up, no run that starts afterwards completes: recovery
\* and retries of a stopped generation end in a cancelled or failed row.
StopOutlivesRuns ==
  \A g \in Gen : flag[g] # 0 /\ answer[g] = "full" => answerRun[g] < flag[g]

\* Work that can still be claimed has its replay inputs, so the branch of
\* processChatGeneration that fails a run without a payload is never needed.
ClaimableHasPayload ==
  \A g \in Gen : status[g] \in Active => payload[g]

\* A settled generation stays as it is: no late worker, retry, recovery sweep or
\* publish timeout changes its outcome or its message.
OutcomeIsFinal ==
  [][\A g \in Gen : status[g] \in Terminal =>
        /\ status'[g] = status[g]
        /\ answer'[g] = answer[g] /\ answerRun'[g] = answerRun[g]]_vars

\* A run that has produced output is never put back in the queue while it holds
\* the row, so tools it may have called are not run twice by a provider error.
NoRetryAfterOutput ==
  [][\A w \in Worker :
        pc[w] \in Running /\ output[w] /\ Owned(job[w], lease[w])
          => status'[job[w]] # "queued"]_vars

\* Every generation accepted by the route is settled in the end, through
\* crashes, lost publications, expired leases and failed statements.
EventuallySettled ==
  \A g \in Gen : status[g] \in Active ~> status[g] \in Terminal

-----------------------------------------------------------------------------
(* What the component promises, without leases, jobs or workers.           *)

Outcome == INSTANCE GenerationOutcome WITH
  state <- [g \in Gen |-> IF status[g] \in Active THEN "pending" ELSE status[g]],
  saved <- answer

\* Every behaviour of the rows, jobs and workers is one in which each request is
\* submitted once and then settled once, message and outcome together.
ImplementsOutcome == Outcome!Spec

\* With the fairness of the workers and the sweep it settles as promised.
ImplementsFairOutcome == Outcome!FairSpec
=============================================================================
