----------------------- MODULE ChatGeneration_proofs -----------------------
(***************************************************************************)
(* Proofs about ChatGeneration for every set of generations and workers,   *)
(* every retry limit and every number of faults.                           *)
(***************************************************************************)
EXTENDS ChatGeneration, TLAPS

-----------------------------------------------------------------------------
(* What the building blocks of the actions do to the types.                *)

\* Goto keeps the worker's variables in their sets.
LEMMA GotoType ==
  ASSUME TypeOK, NEW w \in Worker, NEW next \in Pc, NEW out \in BOOLEAN,
         Goto(w, next, out)
  PROVE  /\ pc' \in [Worker -> Pc]
         /\ lease' \in [Worker -> Nat]
         /\ output' \in [Worker -> BOOLEAN]
         /\ lost' \in [Worker -> BOOLEAN]
         /\ abort' \in [Worker -> Abort]
<1>1. pc' \in [Worker -> Pc]
  BY DEF TypeOK, Goto
<1>2. lease' \in [Worker -> Nat]
  <2>1. CASE next \in Running
    BY <2>1 DEF TypeOK, Goto
  <2>2. CASE next \notin Running
    <3>1. lease' = [lease EXCEPT ![w] = 0]
      BY <2>2 DEF Goto
    <3>2. lease \in [Worker -> Nat]
      BY DEF TypeOK
    <3> QED BY <3>1, <3>2
  <2> QED BY <2>1, <2>2
<1>3. (out /\ next \in Running) \in BOOLEAN
  OBVIOUS
<1>4. output' \in [Worker -> BOOLEAN]
  BY <1>3 DEF TypeOK, Goto
<1>5. lost' \in [Worker -> BOOLEAN]
  BY DEF TypeOK, Goto
<1>6. abort' \in [Worker -> Abort]
  BY DEF TypeOK, Goto, Abort
<1> QED BY <1>1, <1>2, <1>4, <1>5, <1>6

\* A published job is counted under its attempt number.
LEMMA EnqueueType ==
  ASSUME TypeOK, NEW g \in Gen, NEW k \in Attempts, Enqueue(g, k)
  PROVE  waiting' \in [Gen -> [Attempts -> Nat]]
BY DEF TypeOK, Enqueue

\* The first attempt, and the one after any attempt, are attempts.
LEMMA AttemptNumbers ==
  /\ 1 \in Attempts
  /\ \A k \in Attempts : NextAttempt(k) \in Attempts
  /\ \A k \in Attempts : k < MaxAttempts => k + 1 \in Attempts
BY AttemptsAssumption DEF NextAttempt, Attempts

\* The fault budget is never overdrawn.
LEMMA FaultType ==
  ASSUME TypeOK, Fault \/ NoFault
  PROVE  faults' \in 0..MaxFaults
BY FaultsAssumption DEF TypeOK, Fault, NoFault

\* The type of the row variables, the part of TypeOK the statements change.
RowType ==
  /\ status \in [Gen -> Status]
  /\ token \in [Gen -> Nat]
  /\ live \in [Gen -> BOOLEAN]
  /\ claims \in [Gen -> Nat]
  /\ payload \in [Gen -> BOOLEAN]
  /\ answer \in [Gen -> Answer]
  /\ answerRun \in [Gen -> Nat]

\* SetStatus keeps the row well typed.
LEMMA SetStatusType ==
  ASSUME TypeOK, NEW g \in Gen, NEW s \in Status, SetStatus(g, s)
  PROVE  RowType'
BY DEF TypeOK, RowType, SetStatus, ClearLease

\* Finalize keeps the row well typed.
LEMMA FinalizeType ==
  ASSUME TypeOK, NEW g \in Gen, NEW s \in Status, NEW a \in Answer, NEW run \in Nat,
         Finalize(g, s, a, run)
  PROVE  RowType'
<1>1. /\ status' \in [Gen -> Status]
      /\ claims' \in [Gen -> Nat] /\ payload' \in [Gen -> BOOLEAN]
  BY DEF TypeOK, Finalize
<1>2. token' \in [Gen -> Nat] /\ live' \in [Gen -> BOOLEAN]
  BY DEF TypeOK, Finalize, ClearLease
<1>3. answer' \in [Gen -> Answer]
  BY DEF TypeOK, Finalize
<1>4. answerRun' \in [Gen -> Nat]
  BY DEF TypeOK, Finalize
<1> QED BY <1>1, <1>2, <1>3, <1>4 DEF RowType

\* TakeLease keeps the row well typed.
LEMMA TakeLeaseType ==
  ASSUME TypeOK, NEW g \in Gen, TakeLease(g)
  PROVE  RowType'
BY DEF TypeOK, RowType, TakeLease, Status, Active

\* A statement that touches no row keeps every row well typed.
LEMMA RowStutterType ==
  ASSUME TypeOK, UNCHANGED rowVars
  PROVE  RowType'
BY DEF TypeOK, RowType, rowVars

\* Where the catch block goes is a point of the run, or its end.
LEMMA CatchType ==
  ASSUME TypeOK, NEW w \in Worker
  PROVE  Catch(w) \in Pc
BY DEF TypeOK, Catch, Pc, Running

-----------------------------------------------------------------------------
(* Type correctness.                                                       *)

\* The steps of the route, of Stop and of the maintenance tasks.
LEMMA ClientTypeStep ==
  ASSUME TypeOK, NEW g \in Gen, RouteStep(g) \/ StopRequest(g) \/ Upkeep(g)
  PROVE  TypeOK'
<1> USE DEF Status, Active, Terminal
<1>1. CASE Create(g)
  BY <1>1, EnqueueType, FaultType, AttemptNumbers DEF TypeOK, Create, runVars, Route
<1>2. CASE RouteReplies(g)
  BY <1>2 DEF TypeOK, RouteReplies, rowVars, runVars, Route
<1>3. CASE RouteFails(g)
  <2>1. RowType'
    BY <1>3, SetStatusType, RowStutterType DEF RouteFails
  <2> QED BY <1>3, <2>1, FaultType DEF TypeOK, RowType, RouteFails, runVars, Route
<1>4. CASE StopLoads(g)
  BY <1>4 DEF TypeOK, StopLoads, rowVars, runVars, StopStep
<1>5. CASE StopCancels(g)
  <2>1. RowType'
    BY <1>5, SetStatusType, RowStutterType DEF StopCancels
  <2> QED BY <1>5, <2>1 DEF TypeOK, RowType, StopCancels, runVars, StopStep
<1>6. CASE StopFlags(g)
  <2>1. flag' \in [Gen -> Nat]
    BY <1>6 DEF TypeOK, StopFlags
  <2> QED BY <1>6, <2>1 DEF TypeOK, StopFlags, rowVars, runVars, StopStep
<1>7. CASE StopRevokes(g)
  <2>1. RowType'
    BY <1>7, SetStatusType, RowStutterType DEF StopRevokes
  <2> QED BY <1>7, <2>1, FaultType DEF TypeOK, RowType, StopRevokes, runVars, StopStep
<1>8. CASE Recover(g)
  <2>1. RowType'
    BY <1>8, SetStatusType DEF Recover
  <2> QED BY <1>8, <2>1, EnqueueType, FaultType, AttemptNumbers
          DEF TypeOK, RowType, Recover, runVars, clientVars
<1>9. CASE Prune(g)
  BY <1>9 DEF TypeOK, Prune, runVars, clientVars
<1>10. CASE LeaseLapses(g)
  BY <1>10, FaultType DEF TypeOK, LeaseLapses, runVars, clientVars
<1> QED BY <1>1, <1>2, <1>3, <1>4, <1>5, <1>6, <1>7, <1>8, <1>9, <1>10
        DEF RouteStep, StopRequest, Upkeep

\* The steps of a worker that only move it along.
LEMMA LocalType ==
  ASSUME TypeOK, NEW w \in Worker, NEW next \in Pc, NEW out \in BOOLEAN,
         Local(w, next, out)
  PROVE  TypeOK'
BY GotoType DEF TypeOK, Local, rowVars, clientVars

\* The steps of a worker that write a row under its lease.
LEMMA SettlingTypeStep ==
  ASSUME TypeOK, NEW w \in Worker,
         \/ EntryStop(w) \/ Complete(w) \/ FinishCancelled(w)
         \/ SavePartial(w) \/ Requeue(w) \/ FailRun(w)
  PROVE  TypeOK'
<1> USE DEF Settling, Statement
<1>1. /\ job[w] \in Gen /\ lease[w] \in Nat /\ output[w] \in BOOLEAN
      /\ {"queued", "cancelled", "completed", "failed"} \subseteq Status
      /\ {"none", "full", "partial"} \subseteq Answer
      /\ {"returning", "throwing"} \subseteq Pc
  BY DEF TypeOK, Status, Active, Terminal, Answer, Pc
<1>2. /\ UNCHANGED <<clientVars, waiting, job, attempt>>
      /\ faults' \in 0..MaxFaults
      /\ \E next \in Pc : Goto(w, next, output[w])
  BY <1>1, CatchType, FaultType
  DEF EntryStop, Complete, FinishCancelled, SavePartial, Requeue, FailRun
<1>3. RowType'
  <2>1. CASE EntryStop(w)
    BY <1>1, <2>1, FinalizeType, RowStutterType DEF EntryStop
  <2>2. CASE Complete(w)
    BY <1>1, <2>2, FinalizeType, RowStutterType DEF Complete
  <2>3. CASE FinishCancelled(w)
    BY <1>1, <2>3, FinalizeType, RowStutterType DEF FinishCancelled
  <2>4. CASE SavePartial(w)
    BY <1>1, <2>4, FinalizeType, RowStutterType DEF SavePartial
  <2>5. CASE Requeue(w)
    BY <1>1, <2>5, SetStatusType, RowStutterType DEF Requeue
  <2>6. CASE FailRun(w)
    BY <1>1, <2>6, SetStatusType, RowStutterType DEF FailRun
  <2> QED BY <2>1, <2>2, <2>3, <2>4, <2>5, <2>6
<1> QED BY <1>1, <1>2, <1>3, GotoType DEF TypeOK, RowType, clientVars

\* Every other step of a worker.
LEMMA WorkerTypeStep ==
  ASSUME TypeOK, NEW w \in Worker, RunStep(w) \/ Crash(w) \/ Redeliver(w)
  PROVE  TypeOK'
<1>1. ASSUME NEW g \in Gen, NEW k \in Attempts, Deliver(w, g, k)
      PROVE  TypeOK'
  <2>1. waiting' \in [Gen -> [Attempts -> Nat]]
    BY <1>1 DEF TypeOK, Deliver
  <2> QED BY <1>1, <2>1 DEF TypeOK, Deliver, Pc, rowVars, clientVars
<1>2. CASE Claim(w)
  <2>1. RowType' /\ faults' \in 0..MaxFaults
    BY <1>2, TakeLeaseType, RowStutterType, FaultType DEF Claim, TypeOK
  <2>2. /\ pc' \in [Worker -> Pc] /\ lease' \in [Worker -> Nat]
        /\ output' \in [Worker -> BOOLEAN] /\ lost' \in [Worker -> BOOLEAN]
        /\ abort' \in [Worker -> Abort]
    <3>1. CASE Goto(w, "returning", FALSE) \/ Goto(w, "throwing", FALSE)
      BY <3>1, GotoType DEF Pc
    <3>2. CASE /\ pc' = [pc EXCEPT ![w] = "entry"]
               /\ lease' = [lease EXCEPT ![w] = claims[job[w]] + 1]
               /\ UNCHANGED <<output, lost, abort>>
      BY <3>2 DEF TypeOK, Pc, Running
    <3> QED BY <1>2, <3>1, <3>2 DEF Claim
  <2> QED BY <1>2, <2>1, <2>2 DEF Claim, TypeOK, RowType, clientVars
<1>3. CASE Watchdog(w)
  BY <1>3 DEF TypeOK, Watchdog, rowVars, clientVars, Abort
<1>4. CASE CheckFlag(w)
  BY <1>4, LocalType DEF CheckFlag, Pc, Running
<1>5. CASE Prepare(w)
  BY <1>5, LocalType DEF Prepare, Pc, Running
<1>6. CASE Produce(w)
  BY <1>6, LocalType DEF Produce, Pc, Running
<1>7. CASE StreamEnds(w)
  <2>1. output[w] \in BOOLEAN
    BY DEF TypeOK
  <2> QED BY <1>7, <2>1, LocalType DEF StreamEnds, Pc, Running
<1>8. CASE Throw(w)
  <2>1. output[w] \in BOOLEAN
    BY DEF TypeOK
  <2> QED BY <1>8, <2>1, LocalType, CatchType DEF Throw
<1>9. ASSUME Leave(w), Fault \/ NoFault,
             waiting' \in [Gen -> [Attempts -> Nat]]
      PROVE  TypeOK'
  BY <1>9, GotoType, FaultType, AttemptNumbers
  DEF TypeOK, Leave, Pc, rowVars, clientVars
<1>10. job[w] \in Gen /\ attempt[w] \in Attempts /\ waiting \in [Gen -> [Attempts -> Nat]]
  BY DEF TypeOK
<1>11. CASE Return(w)
  BY <1>9, <1>10, <1>11 DEF Return, NoFault
<1>12. CASE Rethrow(w)
  BY <1>9, <1>10, <1>12, EnqueueType, AttemptNumbers DEF Rethrow
<1>13. CASE Crash(w)
  BY <1>9, <1>10, <1>13, EnqueueType, AttemptNumbers DEF Crash
<1>14. CASE Redeliver(w)
  BY <1>10, <1>14, EnqueueType, AttemptNumbers, FaultType
  DEF Redeliver, TypeOK, rowVars, clientVars, runVars
<1> QED BY <1>1, <1>2, <1>3, <1>4, <1>5, <1>6, <1>7, <1>8, <1>11, <1>12, <1>13,
           <1>14, SettlingTypeStep DEF RunStep

\* Every step keeps the types.
LEMMA TypeStep ==
  ASSUME TypeOK, [Next]_vars
  PROVE  TypeOK'
<1>1. CASE Next
  BY <1>1, ClientTypeStep, WorkerTypeStep DEF Next
<1>2. CASE UNCHANGED vars
  BY <1>2 DEF TypeOK, vars, rowVars, clientVars, runVars
<1> QED BY <1>1, <1>2

\* Every reachable state is well typed.
THEOREM TypeCorrect == Spec => []TypeOK
<1>1. Init => TypeOK
  BY AttemptNumbers, FaultsAssumption
  DEF Init, TypeOK, Status, Active, Terminal, Answer, Route, StopStep, Abort, Pc
<1>2. TypeOK /\ [Next]_vars => TypeOK'
  BY TypeStep
<1> QED BY <1>1, <1>2, PTL DEF Spec

-----------------------------------------------------------------------------
(* The inductive invariant.                                                *)

\* A lease token is the number of the last claim of a row that is generating.
LeaseInv ==
  \A g \in Gen : token[g] # 0 => status[g] = "generating" /\ token[g] = claims[g]

\* A message exists only beside a final outcome, and is the last run's.
AnswerInv ==
  \A g \in Gen : answer[g] # "none" => status[g] \in Terminal /\ answerRun[g] = claims[g]

RowInv == LeaseInv /\ AnswerInv /\ AnswerMatchesOutcome /\ ClaimableHasPayload

\* A run holds a token that was handed out, and no two runs hold the same one.
RunInv ==
  /\ \A w \in Worker : pc[w] \in Running => lease[w] # 0 /\ lease[w] <= claims[job[w]]
  /\ \A v, w \in Worker :
       /\ pc[v] \in Running /\ pc[w] \in Running
       /\ job[v] = job[w] /\ lease[v] = lease[w]
       => v = w

\* A run that got past the entry check of a stopped generation began before the
\* Stop.
StopInv ==
  \A w \in Worker :
    pc[w] \in {"preparing", "streaming", "completing"} /\ flag[job[w]] # 0
      => lease[w] < flag[job[w]]

\* The catch block requeues only runs without output.
OutputInv == \A w \in Worker : pc[w] = "requeueing" => ~output[w]

IInv == TypeOK /\ RowInv /\ RunInv /\ StopInv /\ StopOutlivesRuns /\ OutputInv

-----------------------------------------------------------------------------
(* The ways a step can change a row.                                       *)

Inserted(g) ==
  /\ status[g] = "absent"
  /\ status' = [status EXCEPT ![g] = "queued"]
  /\ payload' = [payload EXCEPT ![g] = TRUE]
  /\ UNCHANGED <<token, live, claims, answer, answerRun>>

Released(g) ==
  /\ status[g] \in Active
  /\ \E s \in {"queued", "failed", "cancelled"} : SetStatus(g, s)

Claimed(g) == Unowned(g) /\ TakeLease(g)

Settled(g) ==
  \E t \in Nat \ {0}, s \in Terminal :
    \E a \in Outcome!SavedFor(s) : Owned(g, t) /\ Finalize(g, s, a, t)

Pruned(g) ==
  /\ status[g] \in Terminal
  /\ payload' = [payload EXCEPT ![g] = FALSE]
  /\ UNCHANGED <<status, token, live, claims, answer, answerRun>>

Lapsed(g) ==
  /\ live' = [live EXCEPT ![g] = FALSE]
  /\ UNCHANGED <<status, token, claims, payload, answer, answerRun>>

RowStep(g) ==
  Inserted(g) \/ Released(g) \/ Claimed(g) \/ Settled(g) \/ Pruned(g) \/ Lapsed(g)

\* Every step of the system changes at most one row, in one of those ways.
LEMMA RowSteps ==
  ASSUME TypeOK, RunInv, [Next]_vars
  PROVE  UNCHANGED rowVars \/ \E g \in Gen : RowStep(g)
<1>1. ASSUME NEW g \in Gen, RouteStep(g) \/ StopRequest(g) \/ Upkeep(g)
      PROVE  UNCHANGED rowVars \/ RowStep(g)
  <2>1. CASE Create(g)
    BY <2>1 DEF Create, RowStep, Inserted
  <2>2. CASE RouteFails(g) \/ StopCancels(g) \/ StopRevokes(g) \/ Recover(g)
    BY <2>2 DEF RouteFails, StopCancels, StopRevokes, Recover, RowStep, Released, Unowned, Active
  <2>3. CASE Prune(g)
    BY <2>3 DEF Prune, RowStep, Pruned
  <2>4. CASE LeaseLapses(g)
    BY <2>4 DEF LeaseLapses, RowStep, Lapsed
  <2>5. CASE RouteReplies(g) \/ StopLoads(g) \/ StopFlags(g)
    BY <2>5 DEF RouteReplies, StopLoads, StopFlags
  <2> QED BY <1>1, <2>1, <2>2, <2>3, <2>4, <2>5 DEF RouteStep, StopRequest, Upkeep
<1>2. ASSUME NEW w \in Worker, RunStep(w) \/ Crash(w) \/ Redeliver(w)
      PROVE  UNCHANGED rowVars \/ RowStep(job[w])
  <2> DEFINE g == job[w]
  <2>1. CASE Claim(w)
    BY <2>1 DEF Claim, RowStep, Claimed
  <2>2. CASE EntryStop(w) \/ Complete(w) \/ FinishCancelled(w) \/ SavePartial(w)
    <3>1. lease[w] \in Nat \ {0}
      BY <2>2 DEF TypeOK, RunInv, Running, EntryStop, Complete, FinishCancelled,
                  SavePartial, Settling
    <3>2. UNCHANGED rowVars \/ \E s \in Terminal : \E a \in Outcome!SavedFor(s) :
                Owned(g, lease[w]) /\ Finalize(g, s, a, lease[w])
      BY <2>2 DEF EntryStop, Complete, FinishCancelled, SavePartial, Settling, Statement,
                  Terminal, Outcome!SavedFor
    <3> QED BY <3>1, <3>2 DEF RowStep, Settled
  <2>3. CASE Requeue(w) \/ FailRun(w)
    BY <2>3 DEF Requeue, FailRun, Settling, Statement, Owned, RowStep, Released, Active
  <2>4. CASE \/ \E h \in Gen, k \in Attempts : Deliver(w, h, k)
             \/ Watchdog(w) \/ CheckFlag(w) \/ Prepare(w) \/ Produce(w)
             \/ StreamEnds(w) \/ Throw(w) \/ Return(w) \/ Rethrow(w)
             \/ Crash(w) \/ Redeliver(w)
    BY <2>4 DEF Deliver, Watchdog, CheckFlag, Prepare, Produce, StreamEnds, Throw, Local,
                Return, Rethrow, Crash, Redeliver, Leave
  <2> QED BY <1>2, <2>1, <2>2, <2>3, <2>4 DEF RunStep
<1>3. CASE UNCHANGED vars
  BY <1>3 DEF vars
<1>4. ASSUME NEW w \in Worker PROVE job[w] \in Gen
  BY DEF TypeOK
<1> QED BY <1>1, <1>2, <1>3, <1>4 DEF Next

\* The claim counter never goes back.
LEMMA ClaimsGrow ==
  ASSUME TypeOK, RunInv, [Next]_vars, NEW g \in Gen
  PROVE  claims'[g] \in Nat /\ claims[g] \in Nat /\ claims[g] <= claims'[g]
BY RowSteps DEF TypeOK, RowStep, Inserted, Released, Claimed, Settled, Pruned, Lapsed,
                SetStatus, TakeLease, Finalize, rowVars

\* The row part of the invariant survives every change of a row.
LEMMA RowInvStep ==
  ASSUME TypeOK, RowInv, RunInv, [Next]_vars
  PROVE  RowInv'
<1> USE DEF RowInv, LeaseInv, AnswerInv, AnswerMatchesOutcome, ClaimableHasPayload
<1>1. CASE UNCHANGED rowVars
  BY <1>1 DEF rowVars
<1> SUFFICES ASSUME NEW g \in Gen, RowStep(g) PROVE RowInv'
  BY <1>1, RowSteps
<1>2. CASE Inserted(g)
  BY <1>2 DEF TypeOK, Inserted, Active, Terminal
<1>3. CASE Released(g)
  BY <1>3 DEF TypeOK, Released, SetStatus, ClearLease, Active, Terminal
<1>4. CASE Claimed(g)
  BY <1>4 DEF TypeOK, Claimed, Unowned, TakeLease, Active, Terminal
<1>5. CASE Settled(g)
  <2>1. PICK t \in Nat \ {0}, s \in Terminal : \E a \in Outcome!SavedFor(s) :
               Owned(g, t) /\ Finalize(g, s, a, t)
    BY <1>5 DEF Settled
  <2>2. PICK a \in Outcome!SavedFor(s) : Owned(g, t) /\ Finalize(g, s, a, t)
    BY <2>1
  <2>3. status[g] = "generating" /\ t = claims[g] /\ answer[g] = "none"
    BY <2>2 DEF Owned, TypeOK, Terminal
  <2> QED BY <2>2, <2>3 DEF TypeOK, Finalize, ClearLease, Active, Terminal, Outcome!SavedFor
<1>6. CASE Pruned(g)
  BY <1>6 DEF TypeOK, Pruned, Active, Terminal
<1>7. CASE Lapsed(g)
  BY <1>7 DEF TypeOK, Lapsed
<1> QED BY <1>2, <1>3, <1>4, <1>5, <1>6, <1>7 DEF RowStep

-----------------------------------------------------------------------------
(* The ways a step can change a worker.                                    *)

\* A run goes on or ends; a run never begins this way.
Moves(w) ==
  /\ \E next \in Pc, out \in BOOLEAN :
       Goto(w, next, out) /\ (next \in Running => pc[w] \in Running)
  /\ UNCHANGED <<job, flag>>

\* An idle slot takes a job.
Takes(w) ==
  /\ \E g \in Gen : job' = [job EXCEPT ![w] = g]
  /\ pc' = [pc EXCEPT ![w] = "claiming"]
  /\ UNCHANGED <<lease, output, flag>>

\* A claim succeeds and a run begins under a new token.
Begins(w) ==
  /\ pc[w] = "claiming"
  /\ TakeLease(job[w])
  /\ pc' = [pc EXCEPT ![w] = "entry"]
  /\ lease' = [lease EXCEPT ![w] = claims[job[w]] + 1]
  /\ UNCHANGED <<job, output, flag>>

Rests == UNCHANGED <<pc, job, lease, output>>

\* Every step of the system changes at most one worker, in one of those ways.
LEMMA WorkerSteps ==
  ASSUME TypeOK, [Next]_vars
  PROVE  Rests \/ \E w \in Worker : Moves(w) \/ Takes(w) \/ Begins(w)
<1>1. ASSUME NEW g \in Gen, RouteStep(g) \/ StopRequest(g) \/ Upkeep(g)
      PROVE  Rests
  BY <1>1 DEF RouteStep, StopRequest, Upkeep, Create, RouteReplies, RouteFails, StopLoads,
              StopCancels, StopFlags, StopRevokes, Recover, Prune, LeaseLapses, Rests, runVars
<1>2. ASSUME NEW w \in Worker, RunStep(w) \/ Crash(w) \/ Redeliver(w)
      PROVE  Rests \/ Moves(w) \/ Takes(w) \/ Begins(w)
  <2>1. /\ output[w] \in BOOLEAN /\ FALSE \in BOOLEAN /\ TRUE \in BOOLEAN
        /\ Running \subseteq Pc
        /\ {"idle", "returning", "throwing"} \subseteq Pc
        /\ {"idle", "returning", "throwing"} \cap Running = {}
        /\ Catch(w) \in Pc
    BY CatchType DEF TypeOK, Pc, Running
  <2>2. ASSUME NEW g \in Gen, NEW k \in Attempts, Deliver(w, g, k)
        PROVE  Takes(w)
    BY <2>2 DEF Deliver, Takes, clientVars
  <2>3. CASE Claim(w)
    BY <2>1, <2>3 DEF Claim, Begins, Moves, clientVars
  <2>4. CASE Watchdog(w) \/ Redeliver(w)
    BY <2>4 DEF Watchdog, Redeliver, Rests, runVars
  <2>5. CASE CheckFlag(w) \/ Prepare(w) \/ Produce(w) \/ StreamEnds(w) \/ Throw(w)
    BY <2>1, <2>5 DEF CheckFlag, Prepare, Produce, StreamEnds, Throw, Local, Moves,
                      clientVars, Running
  <2>6. CASE \/ EntryStop(w) \/ Complete(w) \/ FinishCancelled(w)
             \/ SavePartial(w) \/ Requeue(w) \/ FailRun(w)
    BY <2>1, <2>6 DEF EntryStop, Complete, FinishCancelled, SavePartial, Requeue, FailRun,
                      Settling, Statement, Moves, clientVars, Running
  <2>7. CASE Return(w) \/ Rethrow(w) \/ Crash(w)
    BY <2>1, <2>7 DEF Return, Rethrow, Crash, Leave, Moves, clientVars
  <2> QED BY <1>2, <2>2, <2>3, <2>4, <2>5, <2>6, <2>7 DEF RunStep
<1>3. CASE UNCHANGED vars
  BY <1>3 DEF vars, runVars, Rests
<1> QED BY <1>1, <1>2, <1>3 DEF Next

\* Tokens stay handed out and unshared: a new run's token is newer than all.
LEMMA RunInvStep ==
  ASSUME TypeOK, RunInv, [Next]_vars
  PROVE  RunInv'
<1> USE DEF RunInv
<1>1. CASE Rests
  BY <1>1, ClaimsGrow DEF Rests, TypeOK
<1> SUFFICES ASSUME NEW w \in Worker, Moves(w) \/ Takes(w) \/ Begins(w) PROVE RunInv'
  BY <1>1, WorkerSteps
<1>2. CASE Moves(w)
  <2>1. PICK next \in Pc, out \in BOOLEAN :
          Goto(w, next, out) /\ (next \in Running => pc[w] \in Running)
    BY <1>2 DEF Moves
  <2>2. \A v \in Worker : pc'[v] \in Running
          => pc[v] \in Running /\ lease'[v] = lease[v] /\ job'[v] = job[v]
    BY <1>2, <2>1 DEF Moves, Goto, TypeOK
  <2> QED BY <2>2, ClaimsGrow DEF TypeOK
<1>3. CASE Takes(w)
  <2>1. \A v \in Worker : pc'[v] \in Running
          => pc[v] \in Running /\ lease'[v] = lease[v] /\ job'[v] = job[v]
    BY <1>3 DEF Takes, TypeOK, Running
  <2> QED BY <2>1, ClaimsGrow DEF TypeOK
<1>4. CASE Begins(w)
  <2>1. /\ lease'[w] = claims[job[w]] + 1 /\ claims'[job[w]] = claims[job[w]] + 1
        /\ job[w] \in Gen /\ claims[job[w]] \in Nat
    BY <1>4 DEF Begins, TakeLease, TypeOK
  <2>2. \A v \in Worker \ {w} : pc'[v] = pc[v] /\ lease'[v] = lease[v]
    BY <1>4 DEF Begins, TypeOK
  <2>3. job' = job
    BY <1>4 DEF Begins
  <2>4. ASSUME NEW v \in Worker, pc'[v] \in Running
        PROVE  lease'[v] # 0 /\ lease'[v] <= claims'[job'[v]]
    <3>1. job[v] \in Gen /\ lease[v] \in Nat
      BY DEF TypeOK
    <3> QED BY <2>1, <2>2, <2>3, <2>4, <3>1, ClaimsGrow
  <2>5. ASSUME NEW v \in Worker \ {w}, pc'[v] \in Running, job[v] = job[w]
        PROVE  lease'[v] < lease'[w]
    <3>1. lease[v] \in Nat /\ lease[v] <= claims[job[w]]
      BY <2>2, <2>5 DEF TypeOK
    <3> QED BY <2>1, <2>2, <3>1
  <2>6. ASSUME NEW u \in Worker, NEW v \in Worker, pc'[u] \in Running, pc'[v] \in Running,
               job'[u] = job'[v], lease'[u] = lease'[v]
        PROVE  u = v
    <3>1. lease'[u] \in Nat
      <4>1. lease[u] \in Nat
        BY DEF TypeOK
      <4> QED BY <2>1, <2>2, <4>1
    <3> QED BY <2>2, <2>3, <2>5, <2>6, <3>1
  <2>7. \A v \in Worker : pc'[v] \in Running => lease'[v] # 0 /\ lease'[v] <= claims'[job'[v]]
    BY <2>4
  <2>8. \A u, v \in Worker : /\ pc'[u] \in Running /\ pc'[v] \in Running
                             /\ job'[u] = job'[v] /\ lease'[u] = lease'[v]
                             => u = v
    BY <2>6
  <2> QED BY <2>7, <2>8
<1> QED BY <1>2, <1>3, <1>4

\* No run that began after the Stop gets past the entry check.
LEMMA StopInvStep ==
  ASSUME IInv, [Next]_vars
  PROVE  StopInv'
<1> USE DEF StopInv
<1> DEFINE Past == {"preparing", "streaming", "completing"}
<1>1. ASSUME NEW g \in Gen, RouteStep(g) \/ StopRequest(g) \/ Upkeep(g)
      PROVE  StopInv'
  <2>1. UNCHANGED <<pc, job, lease>>
    BY <1>1 DEF RouteStep, StopRequest, Upkeep, Create, RouteReplies, RouteFails, StopLoads,
                StopCancels, StopFlags, StopRevokes, Recover, Prune, LeaseLapses, runVars
  <2>2. CASE StopFlags(g)
    <3>1. ASSUME NEW w \in Worker, pc[w] \in Past, flag'[job[w]] # 0
          PROVE  lease[w] < flag'[job[w]]
      <4>1. lease[w] \in Nat /\ claims[job[w]] \in Nat /\ lease[w] <= claims[job[w]]
            /\ job[w] \in Gen
        BY <3>1 DEF IInv, TypeOK, RunInv, Running
      <4>2. CASE flag'[job[w]] = flag[job[w]]
        BY <3>1, <4>2 DEF IInv
      <4>3. CASE flag'[job[w]] = claims[job[w]] + 1
        BY <4>1, <4>3
      <4> QED BY <2>2, <4>1, <4>2, <4>3 DEF StopFlags, IInv, TypeOK
    <3> QED BY <2>1, <3>1
  <2>3. CASE flag' = flag
    BY <2>1, <2>3 DEF IInv
  <2> QED BY <1>1, <2>2, <2>3 DEF RouteStep, StopRequest, Upkeep, Create, RouteReplies,
        RouteFails, StopLoads, StopCancels, StopRevokes, Recover, Prune, LeaseLapses, clientVars
<1>2. ASSUME NEW w \in Worker, RunStep(w) \/ Crash(w) \/ Redeliver(w)
      PROVE  StopInv'
  <2>1. flag' = flag
    BY <1>2 DEF RunStep, Crash, Redeliver, Deliver, Claim, Watchdog, CheckFlag, Prepare,
         Produce, StreamEnds, Throw, EntryStop, Complete, FinishCancelled, SavePartial,
         Requeue, FailRun, Return, Rethrow, Settling, Local, Leave, clientVars
  <2>2. \A v \in Worker \ {w} : pc'[v] = pc[v] /\ lease'[v] = lease[v] /\ job'[v] = job[v]
    BY <1>2 DEF RunStep, Crash, Redeliver, Deliver, Claim, Watchdog, CheckFlag, Prepare,
         Produce, StreamEnds, Throw, EntryStop, Complete, FinishCancelled, SavePartial,
         Requeue, FailRun, Return, Rethrow, Settling, Statement, Local, Leave, Goto, runVars,
         IInv, TypeOK
  <2>3. pc'[w] \in Past => /\ lease'[w] = lease[w] /\ job'[w] = job[w]
                           /\ pc[w] \in Past \/ flag[job[w]] = 0
    BY <1>2 DEF RunStep, Crash, Redeliver, Deliver, Claim, Watchdog, CheckFlag, Prepare,
         Produce, StreamEnds, Throw, EntryStop, Complete, FinishCancelled, SavePartial,
         Requeue, FailRun, Return, Rethrow, Settling, Statement, Local, Leave, Goto, runVars,
         IInv, TypeOK, Catch, Running
  <2> QED BY <2>1, <2>2, <2>3 DEF IInv
<1>3. CASE UNCHANGED vars
  BY <1>3 DEF vars, runVars, clientVars, IInv
<1> QED BY <1>1, <1>2, <1>3 DEF Next

\* Requeueing runs have no output: only the catch block leads there.
LEMMA OutputInvStep ==
  ASSUME IInv, [Next]_vars
  PROVE  OutputInv'
<1> USE DEF OutputInv
<1>1. ASSUME NEW g \in Gen, RouteStep(g) \/ StopRequest(g) \/ Upkeep(g)
      PROVE  UNCHANGED <<pc, output>>
  BY <1>1 DEF RouteStep, StopRequest, Upkeep, Create, RouteReplies, RouteFails, StopLoads,
              StopCancels, StopFlags, StopRevokes, Recover, Prune, LeaseLapses, runVars
<1>2. ASSUME NEW w \in Worker, RunStep(w) \/ Crash(w) \/ Redeliver(w)
      PROVE  OutputInv'
  <2>1. \A v \in Worker \ {w} : pc'[v] = pc[v] /\ output'[v] = output[v]
    BY <1>2 DEF RunStep, Crash, Redeliver, Deliver, Claim, Watchdog, CheckFlag, Prepare,
         Produce, StreamEnds, Throw, EntryStop, Complete, FinishCancelled, SavePartial,
         Requeue, FailRun, Return, Rethrow, Settling, Statement, Local, Leave, Goto, runVars,
         IInv, TypeOK
  <2>2. pc'[w] = "requeueing" => ~output'[w]
    BY <1>2 DEF RunStep, Crash, Redeliver, Deliver, Claim, Watchdog, CheckFlag, Prepare,
         Produce, StreamEnds, Throw, EntryStop, Complete, FinishCancelled, SavePartial,
         Requeue, FailRun, Return, Rethrow, Settling, Statement, Local, Leave, Goto, runVars,
         IInv, TypeOK, Catch
  <2> QED BY <2>1, <2>2 DEF IInv
<1>3. CASE UNCHANGED vars
  BY <1>3 DEF vars, runVars, IInv
<1> QED BY <1>1, <1>2, <1>3 DEF Next, IInv

\* A whole answer is saved by a run that got past the entry check only.
LEMMA StopOutlivesStep ==
  ASSUME IInv, [Next]_vars
  PROVE  StopOutlivesRuns'
<1> USE DEF StopOutlivesRuns
<1>1. ASSUME NEW g \in Gen, RouteStep(g) \/ StopRequest(g) \/ Upkeep(g)
      PROVE  StopOutlivesRuns'
  <2>1. UNCHANGED <<answer, answerRun>>
    BY <1>1 DEF RouteStep, StopRequest, Upkeep, Create, RouteReplies, RouteFails, StopLoads,
                StopCancels, StopFlags, StopRevokes, Recover, Prune, LeaseLapses, SetStatus,
                rowVars
  <2>2. CASE StopFlags(g)
    <3>1. flag[g] = 0 /\ answer[g] = "full" => answerRun[g] = claims[g] /\ claims[g] \in Nat
      BY DEF IInv, RowInv, AnswerInv, TypeOK
    <3>2. \A h \in Gen : \/ flag'[h] = flag[h]
                         \/ h = g /\ flag[g] = 0 /\ flag'[g] = claims[g] + 1
      BY <2>2 DEF StopFlags, IInv, TypeOK
    <3> QED BY <2>1, <3>1, <3>2 DEF IInv
  <2>3. CASE flag' = flag
    BY <2>1, <2>3 DEF IInv
  <2> QED BY <1>1, <2>2, <2>3 DEF RouteStep, StopRequest, Upkeep, Create, RouteReplies,
        RouteFails, StopLoads, StopCancels, StopRevokes, Recover, Prune, LeaseLapses, clientVars
<1>2. ASSUME NEW w \in Worker, RunStep(w) \/ Crash(w) \/ Redeliver(w)
      PROVE  StopOutlivesRuns'
  <2>1. flag' = flag
    BY <1>2 DEF RunStep, Crash, Redeliver, Deliver, Claim, Watchdog, CheckFlag, Prepare,
         Produce, StreamEnds, Throw, EntryStop, Complete, FinishCancelled, SavePartial,
         Requeue, FailRun, Return, Rethrow, Settling, Local, Leave, clientVars
  <2>2. CASE Complete(w)
    <3>1. job[w] \in Gen /\ (flag[job[w]] # 0 => lease[w] < flag[job[w]])
      BY <2>2 DEF Complete, Settling, IInv, StopInv, TypeOK
    <3>2. \A g \in Gen :
            \/ answer'[g] = answer[g] /\ answerRun'[g] = answerRun[g]
            \/ g = job[w] /\ answerRun'[g] = lease[w]
      BY <2>2 DEF Complete, Settling, Statement, Finalize, rowVars, IInv, TypeOK
    <3> QED BY <2>1, <3>1, <3>2 DEF IInv
  <2>3. CASE EntryStop(w) \/ FinishCancelled(w) \/ SavePartial(w)
    <3>1. \A g \in Gen :
            \/ answer'[g] = answer[g] /\ answerRun'[g] = answerRun[g]
            \/ answer'[g] # "full"
      BY <2>3 DEF EntryStop, FinishCancelled, SavePartial, Settling, Statement, Finalize,
                  rowVars, IInv, TypeOK
    <3> QED BY <2>1, <3>1 DEF IInv
  <2>4. CASE UNCHANGED <<answer, answerRun>>
    BY <2>1, <2>4 DEF IInv
  <2> QED BY <1>2, <2>2, <2>3, <2>4 DEF RunStep, Crash, Redeliver, Deliver, Claim, Watchdog,
         CheckFlag, Prepare, Produce, StreamEnds, Throw, Requeue, FailRun, Return, Rethrow,
         Settling, Statement, Local, Leave, SetStatus, TakeLease, rowVars
<1>3. CASE UNCHANGED vars
  BY <1>3 DEF vars, rowVars, clientVars, IInv
<1> QED BY <1>1, <1>2, <1>3 DEF Next

-----------------------------------------------------------------------------
(* The theorems.                                                           *)

\* The invariant holds initially and every step keeps it.
THEOREM Inductive == Spec => []IInv
<1>1. Init => IInv
  <2> SUFFICES ASSUME Init PROVE IInv
    OBVIOUS
  <2>1. TypeOK
    BY AttemptNumbers, FaultsAssumption
    DEF Init, TypeOK, Status, Active, Terminal, Answer, Route, StopStep, Abort, Pc
  <2> QED BY <2>1 DEF Init, IInv, RowInv, LeaseInv, AnswerInv, AnswerMatchesOutcome,
        ClaimableHasPayload, RunInv, StopInv, StopOutlivesRuns, OutputInv, Active, Running
<1>2. IInv /\ [Next]_vars => IInv'
  <2> SUFFICES ASSUME IInv, [Next]_vars PROVE IInv'
    OBVIOUS
  <2>1. TypeOK'
    BY TypeStep DEF IInv
  <2>2. RowInv' /\ RunInv'
    BY RowInvStep, RunInvStep DEF IInv
  <2>3. StopInv' /\ StopOutlivesRuns' /\ OutputInv'
    BY StopInvStep, StopOutlivesStep, OutputInvStep
  <2> QED BY <2>1, <2>2, <2>3 DEF IInv
<1> QED BY <1>1, <1>2, PTL DEF Spec

\* The saved message is the last run's, for any number of workers and faults.
THEOREM AnswerFromLastRunCorrect == Spec => []AnswerFromLastRun
<1>1. IInv => AnswerFromLastRun
  BY DEF IInv, RowInv, AnswerInv, AnswerFromLastRun
<1> QED BY <1>1, Inductive, PTL

\* Message and outcome agree in every reachable state.
THEOREM AnswerMatchesOutcomeCorrect == Spec => []AnswerMatchesOutcome
<1>1. IInv => AnswerMatchesOutcome
  BY DEF IInv, RowInv
<1> QED BY <1>1, Inductive, PTL

\* Claimable work has its replay inputs.
THEOREM ClaimableHasPayloadCorrect == Spec => []ClaimableHasPayload
<1>1. IInv => ClaimableHasPayload
  BY DEF IInv, RowInv
<1> QED BY <1>1, Inductive, PTL

\* No run that starts after the Stop flag is up completes.
THEOREM StopOutlivesRunsCorrect == Spec => []StopOutlivesRuns
<1>1. IInv => StopOutlivesRuns
  BY DEF IInv
<1> QED BY <1>1, Inductive, PTL

\* A settled row never changes again.
THEOREM OutcomeIsFinalCorrect == Spec => OutcomeIsFinal
<1> DEFINE Frozen == \A g \in Gen : status[g] \in Terminal =>
                       /\ status'[g] = status[g]
                       /\ answer'[g] = answer[g] /\ answerRun'[g] = answerRun[g]
<1>1. IInv /\ [Next]_vars => Frozen
  <2> SUFFICES ASSUME IInv, [Next]_vars PROVE Frozen
    OBVIOUS
  <2>1. UNCHANGED rowVars \/ \E g \in Gen : RowStep(g)
    BY RowSteps DEF IInv
  <2> QED BY <2>1 DEF IInv, TypeOK, rowVars, RowStep, Inserted, Released, Claimed, Settled,
        Pruned, Lapsed, SetStatus, TakeLease, Finalize, Owned, Unowned, Active, Terminal
<1>2. IInv /\ [Next]_vars => [Frozen]_vars
  BY <1>1
<1> QED BY <1>2, Inductive, PTL DEF Spec, OutcomeIsFinal

\* A run that produced output and holds its row is never requeued.
THEOREM NoRetryAfterOutputCorrect == Spec => NoRetryAfterOutput
<1> DEFINE Kept == \A w \in Worker :
                     pc[w] \in Running /\ output[w] /\ Owned(job[w], lease[w])
                       => status'[job[w]] # "queued"
<1>1. IInv /\ [Next]_vars => Kept
  <2> SUFFICES ASSUME IInv, [Next]_vars, NEW w \in Worker, pc[w] \in Running, output[w],
                      Owned(job[w], lease[w])
               PROVE  status'[job[w]] # "queued"
    OBVIOUS
  <2>1. job[w] \in Gen /\ status[job[w]] = "generating" /\ live[job[w]]
    BY DEF Owned, IInv, TypeOK
  <2>2. CASE \E v \in Worker : Requeue(v)
    <3>1. PICK v \in Worker : Requeue(v)
      BY <2>2
    <3>2. status' = status \/ (Owned(job[v], lease[v]) /\ SetStatus(job[v], "queued"))
      BY <3>1 DEF Requeue, Settling, Statement, rowVars
    <3>3. v # w
      BY <3>1 DEF Requeue, Settling, IInv, OutputInv
    <3>4. Owned(job[v], lease[v]) => job[v] # job[w]
      BY <3>1, <3>3 DEF Owned, Requeue, Settling, Running, IInv, RunInv
    <3> QED BY <2>1, <3>2, <3>4 DEF SetStatus, IInv, TypeOK
  <2>3. CASE ~\E v \in Worker : Requeue(v)
    <3>1. ASSUME NEW g \in Gen, RouteStep(g) \/ StopRequest(g) \/ Upkeep(g)
          PROVE  status'[job[w]] # "queued"
      BY <2>1, <3>1 DEF RouteStep, StopRequest, Upkeep, Create, RouteReplies, RouteFails,
         StopLoads, StopCancels, StopFlags, StopRevokes, Recover, Prune, LeaseLapses,
         SetStatus, Unowned, rowVars, IInv, TypeOK
    <3>2. ASSUME NEW v \in Worker, RunStep(v) \/ Crash(v) \/ Redeliver(v)
          PROVE  status'[job[w]] # "queued"
      BY <2>1, <2>3, <3>2 DEF RunStep, Crash, Redeliver, Deliver, Claim, Watchdog, CheckFlag,
         Prepare, Produce, StreamEnds, Throw, EntryStop, Complete, FinishCancelled,
         SavePartial, FailRun, Return, Rethrow, Settling, Statement, Local, Leave, SetStatus,
         TakeLease, Finalize, rowVars, IInv, TypeOK
    <3>3. CASE UNCHANGED vars
      BY <2>1, <3>3 DEF vars, rowVars
    <3> QED BY <3>1, <3>2, <3>3 DEF Next
  <2> QED BY <2>2, <2>3
<1>2. IInv /\ [Next]_vars => [Kept]_vars
  BY <1>1
<1> QED BY <1>2, Inductive, PTL DEF Spec, NoRetryAfterOutput

\* The rows, jobs, workers and faults implement the abstract outcome: a request is
\* submitted once and settled once, with its message.
THEOREM RefinesOutcome == Spec => ImplementsOutcome
<1> DEFINE mapped == [g \in Gen |-> IF status[g] \in Active THEN "pending" ELSE status[g]]
<1>1. Init => Outcome!Init
  BY DEF Init, Outcome!Init, Active
<1>2. IInv /\ [Next]_vars => [Outcome!Next]_(Outcome!vars)
  <2> SUFFICES ASSUME IInv, [Next]_vars PROVE [Outcome!Next]_(Outcome!vars)
    OBVIOUS
  <2>1. CASE UNCHANGED rowVars
    BY <2>1 DEF rowVars, Outcome!vars
  <2>2. ASSUME NEW g \in Gen, RowStep(g) PROVE [Outcome!Next]_(Outcome!vars)
    <3>1. CASE Inserted(g)
      <4>1. Outcome!Submit(g)
        BY <3>1 DEF Inserted, Outcome!Submit, Active, IInv, TypeOK
      <4> QED BY <4>1 DEF Outcome!Next
    <3>2. CASE Released(g)
      <4>1. PICK s \in {"queued", "failed", "cancelled"} : SetStatus(g, s)
        BY <3>2 DEF Released
      <4>2. CASE s = "queued"
        <5>1. mapped' = mapped
          BY <3>2, <4>1, <4>2 DEF Released, SetStatus, Active, IInv, TypeOK
        <5> QED BY <4>1, <5>1 DEF SetStatus, Outcome!vars
      <4>3. CASE s # "queued"
        <5>1. mapped' = [mapped EXCEPT ![g] = s] /\ mapped[g] = "pending"
          BY <3>2, <4>1, <4>3 DEF Released, SetStatus, Active, IInv, TypeOK
        <5>2. answer[g] = "none" /\ answer' = [answer EXCEPT ![g] = "none"]
          BY <3>2, <4>1 DEF Released, SetStatus, Active, Terminal, IInv, TypeOK, RowInv, AnswerInv
        <5>3. "none" \in Outcome!SavedFor(s)
          BY <4>3 DEF Outcome!SavedFor
        <5> QED BY <4>3, <5>1, <5>2, <5>3 DEF Outcome!Settle, Outcome!Next
      <4> QED BY <4>2, <4>3
    <3>3. CASE Claimed(g)
      <4>1. mapped' = mapped
        BY <3>3 DEF Claimed, Unowned, TakeLease, Active, IInv, TypeOK
      <4> QED BY <3>3, <4>1 DEF Claimed, TakeLease, Outcome!vars
    <3>4. CASE Settled(g)
      <4>1. PICK t \in Nat \ {0}, s \in Terminal : \E a \in Outcome!SavedFor(s) :
                   Owned(g, t) /\ Finalize(g, s, a, t)
        BY <3>4 DEF Settled
      <4>2. PICK a \in Outcome!SavedFor(s) : Owned(g, t) /\ Finalize(g, s, a, t)
        BY <4>1
      <4>3. status[g] = "generating" /\ answer[g] = "none"
        BY <4>2 DEF Owned, IInv, RowInv, AnswerInv, Terminal
      <4>4. mapped' = [mapped EXCEPT ![g] = s] /\ mapped[g] = "pending"
        BY <4>2, <4>3 DEF Finalize, Active, Terminal, IInv, TypeOK
      <4>5. answer' = [answer EXCEPT ![g] = a]
        BY <4>2, <4>3 DEF Finalize, IInv, TypeOK
      <4> QED BY <4>4, <4>5 DEF Outcome!Settle, Outcome!Next, Terminal
    <3>5. CASE Pruned(g) \/ Lapsed(g)
      BY <3>5 DEF Pruned, Lapsed, Outcome!vars
    <3> QED BY <2>2, <3>1, <3>2, <3>3, <3>4, <3>5 DEF RowStep
  <2> QED BY <2>1, <2>2, RowSteps DEF IInv
<1> QED BY <1>1, <1>2, Inductive, PTL DEF Spec, ImplementsOutcome, Outcome!Spec
=============================================================================
