---------------------------- MODULE CanvasImport ----------------------------
(***************************************************************************)
(* One user's Canvas imports: the jobs (app.canvas_import_jobs), their     *)
(* files (app.canvas_imports), the queue messages about both, the workers  *)
(* that discover, download and extract, and the sweeps that repair what    *)
(* was lost.                                                               *)
(*                                                                         *)
(* A worker claims a row with a fresh token and holds no lock while it     *)
(* downloads or extracts; each thing it publishes is a transaction that    *)
(* locks the job and the row and checks the token again.  A row's `claims' *)
(* numbers its tokens.  A worker may die at any time.  A stall past its    *)
(* lease, a lost publication, a redelivery and a wait for a shared PDF     *)
(* each spend one of MaxFaults.  dispatched_at and the order of dispatch   *)
(* are left to FairDispatch.                                               *)
(***************************************************************************)
EXTENDS Integers

CONSTANTS
  File, Worker, None,
  MaxJobs,        \* bound on the jobs the user starts
  MaxExecutions,  \* CANVAS_FILE_QUEUE_MAX_ATTEMPTS, 3
  MaxRetries,     \* MAX_EXTRACTION_RETRIES, 4
  Recovery,       \* CANVAS_CLAIM_RECOVERY = "enabled"
  MaxFaults       \* bound on the faults of a behaviour

ASSUME CanvasAssumption ==
  /\ MaxJobs \in Nat \ {0} /\ MaxExecutions \in Nat \ {0} /\ MaxRetries \in Nat \ {0}
  /\ Recovery \in BOOLEAN /\ MaxFaults \in Nat /\ None \notin File

VARIABLES
  job,     \* [Job -> the canvas_import_jobs row]
  file,    \* [File -> the canvas_imports row]
  notes,   \* [File -> the claim that last published its notes] (history)
  queue,   \* messages waiting for a worker
  worker,  \* [Worker -> what each worker slot does]
  faults

vars == <<job, file, notes, queue, worker, faults>>

Job == 1..MaxJobs
JobLive == {"queued", "discovering", "processing"}
JobOver == {"complete", "failed", "cancelled"}
Running == {"downloading", "processing", "indexing"}
Open == Running \cup
  {"pending", "pending_cache", "pending_extract", "pending_retry", "pending_marker"}
Closed == {"complete", "forbidden", "error", "cancelled"}

JobRow == [status : {"none"} \cup JobLive \cup JobOver, attempts : 0..MaxExecutions, late : BOOLEAN]
FileRow == [status : {"none"} \cup Open \cup Closed, job : {0} \cup Job, token : Nat, claims : Nat,
            executions : Nat, retries : 0..MaxRetries + 1, seq : Nat, source : BOOLEAN,
            due : BOOLEAN, late : BOOLEAN]
Message == [kind : {"discover", "file", "extract", "retry"}, job : Job,
            file : File \cup {None}, seq : Nat]
DiscoverPc == {"listing"}
FilePc == {"fetching", "storing", "reused"}
ExtractPc == {"extracting", "indexed"}
CheckPc == {"checking", "counted", "countedEarly"}
WorkerState == [pc : {"idle"} \cup CheckPc \cup DiscoverPc \cup FilePc \cup ExtractPc,
                job : {0} \cup Job, file : File \cup {None}, token : Nat]
Claim == [job : {0} \cup Job, token : Nat]

TypeOK ==
  /\ job \in [Job -> JobRow]
  /\ file \in [File -> FileRow]
  /\ notes \in [File -> Claim]
  /\ queue \subseteq Message
  /\ worker \in [Worker -> WorkerState]
  /\ faults \in 0..MaxFaults

Idle == [pc |-> "idle", job |-> 0, file |-> None, token |-> 0]

Init ==
  /\ job = [j \in Job |-> [status |-> "none", attempts |-> 0, late |-> FALSE]]
  /\ file = [f \in File |->
       [status |-> "none", job |-> 0, token |-> 0, claims |-> 0, executions |-> 0, retries |-> 0,
        seq |-> 0, source |-> FALSE, due |-> TRUE, late |-> FALSE]]
  /\ notes = [f \in File |-> [job |-> 0, token |-> 0]]
  /\ queue = {} /\ worker = [w \in Worker |-> Idle] /\ faults = 0

Fault == faults < MaxFaults /\ faults' = faults + 1

Working(j) == job[j].status \in {"discovering", "processing"}
Live(j) == job[j].status \in JobLive
Files(j) == {f \in File : file[f].job = j}
Done(j) == \A f \in Files(j) : file[f].status \in Closed

DiscoverMessage(j) == [kind |-> "discover", job |-> j, file |-> None, seq |-> 0]
FileMessage(f) == [kind |-> "file", job |-> file[f].job, file |-> f, seq |-> 0]
ExtractMessage(f) == [kind |-> "extract", job |-> file[f].job, file |-> f, seq |-> 0]
RetryMessage(f, seq) == [kind |-> "retry", job |-> file[f].job, file |-> f, seq |-> seq]

\* A publication, refused or lost by a fault; every caller leaves the repair to a sweep.
Publish(message) ==
  \/ queue' = queue \cup {message} /\ UNCHANGED faults
  \/ Fault /\ UNCHANGED queue

Goto(w, pc) == worker' = [worker EXCEPT ![w].pc = pc]
Rest(w) == worker' = [worker EXCEPT ![w] = Idle]
SetFile(f, row) == file' = [file EXCEPT ![f] = row]
Release(row, status) == [row EXCEPT !.status = status, !.token = 0, !.late = FALSE]

-----------------------------------------------------------------------------
(* startCanvasRun, Stop: at most one job is live, under the user's lock.   *)

\* cancelActiveCanvasImportJobs.
CancelledJobs == [j \in Job |-> IF Live(j) THEN [job[j] EXCEPT !.status = "cancelled"] ELSE job[j]]

CancelledFiles ==
  [f \in File |-> IF file[f].job # 0 /\ Live(file[f].job) /\ file[f].status \in Open
                    THEN [file[f] EXCEPT !.status = "cancelled"] ELSE file[f]]

Stop ==
  /\ \E j \in Job : Live(j)
  /\ job' = CancelledJobs /\ file' = CancelledFiles
  /\ UNCHANGED <<notes, queue, worker, faults>>

Unused(j) == job[j].status = "none" /\ \A i \in Job : i < j => job[i].status # "none"

\* An import or sync; a live run is replaced.
StartRun(j) ==
  /\ Unused(j)
  /\ job' = [CancelledJobs EXCEPT ![j].status = "queued"] /\ file' = CancelledFiles
  /\ Publish(DiscoverMessage(j))
  /\ UNCHANGED <<notes, worker>>

\* A new generation of a file, with fresh budgets.
Fresh(row, j, status) ==
  [row EXCEPT !.status = status, !.job = j, !.token = 0, !.claims = 0, !.executions = 0,
              !.retries = 0, !.seq = @ + 1, !.due = TRUE, !.late = FALSE]

\* A retry of the failed files of a run that is over; which errors can be retried is open.
RetryRun(j) ==
  \E i \in Job :
    /\ Unused(j) /\ job[i].status \in {"complete", "failed"}
    /\ \E chosen \in SUBSET {f \in Files(i) : file[f].status = "error"} :
         /\ chosen # {}
         /\ job' = [CancelledJobs EXCEPT ![j].status = "processing"]
         /\ file' = [f \in File |-> IF f \in chosen THEN Fresh(file[f], j, "pending")
                                                     ELSE CancelledFiles[f]]
    /\ UNCHANGED <<notes, queue, worker, faults>>

-----------------------------------------------------------------------------
(* processDiscoverJob.                                                     *)

\* A message is consumed; a stalled consumer's message comes again.
Consume(message) ==
  /\ message \in queue
  /\ \/ queue' = queue \ {message} /\ UNCHANGED faults
     \/ Fault /\ UNCHANGED queue

TakeDiscover(w, message) ==
  LET j == message.job
  IN /\ worker[w].pc = "idle" /\ message.kind = "discover" /\ Consume(message)
     /\ IF job[j].status = "queued"
          THEN /\ job' = [job EXCEPT ![j] =
                    [status |-> "discovering", attempts |-> job[j].attempts + 1, late |-> FALSE]]
               /\ worker' = [worker EXCEPT ![w] =
                    [pc |-> "listing", job |-> j, file |-> None, token |-> job[j].attempts + 1]]
          ELSE UNCHANGED <<job, worker>>
     /\ UNCHANGED <<file, notes>>

OwnsDiscovery(w) ==
  LET j == worker[w].job
  IN job[j].status = "discovering" /\ job[j].attempts = worker[w].token

\* insertPendingFile: only a closed row of another run begins a new generation.
List(w, f) ==
  LET j == worker[w].job
  IN /\ worker[w].pc = "listing" /\ OwnsDiscovery(w)
     /\ file[f].status \in {"none", "error", "forbidden", "cancelled"} /\ file[f].job # j
     /\ \E status \in {"pending", "forbidden"} :
          SetFile(f, [Fresh(file[f], j, status) EXCEPT !.source = FALSE])
     /\ UNCHANGED <<job, notes, queue, worker, faults>>

EndListing(w) ==
  /\ worker[w].pc = "listing" /\ OwnsDiscovery(w)
  /\ job' = [job EXCEPT ![worker[w].job].status = "processing"]
  /\ Goto(w, "checking")
  /\ UNCHANGED <<file, notes, queue, faults>>

\* What a requeued discovery does to a file in progress.
Requeued(row) ==
  LET status == IF row.status # "indexing" THEN "pending"
                ELSE IF row.retries >= MaxRetries THEN "error"
                ELSE IF ~row.source THEN "pending"
                ELSE IF row.retries = 0 THEN "pending_extract" ELSE "pending_retry"
  IN IF row.status \notin Running THEN row
     ELSE [Release(row, status) EXCEPT !.seq = @ + 1, !.due = TRUE]

\* Mutant: a run that fails forgets the files nobody works on.
AbandonWorking(j) ==
  LET again == job[j].attempts < MaxExecutions
  IN /\ job' = [job EXCEPT ![j].status = IF again THEN "queued" ELSE "failed", ![j].late = FALSE]
     /\ file' = [f \in File |->
          IF file[f].job # j THEN file[f]
          ELSE IF again THEN Requeued(file[f])
          ELSE IF file[f].status \in Running \cup {"pending"} THEN Release(file[f], "error") ELSE file[f]]

\* A discovery that threw or stopped responding is queued again, as often as its attempts
\* allow; after the last one the whole run fails.
AbandonDiscovery(j) ==
  LET again == job[j].attempts < MaxExecutions
  IN /\ job' = [job EXCEPT ![j].status = IF again THEN "queued" ELSE "failed", ![j].late = FALSE]
     /\ file' = [f \in File |->
          IF file[f].job # j THEN file[f]
          ELSE IF again THEN Requeued(file[f])
          ELSE IF file[f].status \in Open THEN Release(file[f], "error") ELSE file[f]]

FailListing(w) ==
  /\ worker[w].pc = "listing" /\ OwnsDiscovery(w)
  /\ AbandonDiscovery(worker[w].job)
  /\ Rest(w)
  /\ UNCHANGED <<notes, queue, faults>>

-----------------------------------------------------------------------------
(* processCanvasFile.                                                      *)

\* The claim every worker of a file makes, whatever the status it starts from.
ClaimFile(w, message, claimable, row, status, pc) ==
  LET f == message.file
      token == file[f].claims + 1
  IN /\ worker[w].pc = "idle" /\ Consume(message)
     /\ IF claimable /\ file[f].job = message.job /\ Working(message.job)
          THEN /\ SetFile(f, [row EXCEPT !.status = status, !.token = token, !.claims = token,
                                         !.late = FALSE])
               /\ worker' = [worker EXCEPT ![w] =
                    [pc |-> pc, job |-> message.job, file |-> f, token |-> token]]
          ELSE UNCHANGED <<file, worker>>
     /\ UNCHANGED <<job, notes>>

TakeFile(w, message) ==
  LET row == file[message.file]
  IN /\ message.kind = "file"
     /\ ClaimFile(w, message, row.status = "pending" /\ row.due,
                  [row EXCEPT !.executions = @ + 1], "downloading", "fetching")

\* Mutant: the status of the row is checked, not who claimed it.
OwnsAny(w) ==
  LET row == file[worker[w].file]
  IN Working(worker[w].job) /\ row.job = worker[w].job /\ row.status \in Running

\* assertCanvasExecution, under the locks of the job and the row.
Owns(w) ==
  LET row == file[worker[w].file]
  IN /\ Working(worker[w].job) /\ row.job = worker[w].job
     /\ row.token = worker[w].token /\ row.status \in Running

\* A publication: w still owns the file and moves it.
Publishes(w, pcs, row, pc) ==
  /\ worker[w].pc \in pcs /\ Owns(w)
  /\ SetFile(worker[w].file, row) /\ Goto(w, pc)
  /\ UNCHANGED job

WriteNotes(w) ==
  notes' = [notes EXCEPT ![worker[w].file] = [job |-> worker[w].job, token |-> worker[w].token]]

Row(w) == file[worker[w].file]
At(w, status) == [Row(w) EXCEPT !.status = status]

Forbid(w) ==
  /\ Publishes(w, {"fetching"}, At(w, "forbidden"), "checking")
  /\ UNCHANGED <<notes, queue, faults>>

\* The bytes are here.
Store(w) ==
  /\ Publishes(w, {"fetching"}, At(w, "processing"), "storing")
  /\ UNCHANGED <<notes, queue, faults>>

\* A shared PDF is ready: its notes are copied.
Reuse(w) ==
  /\ Publishes(w, {"fetching", "storing"}, At(w, "indexing"), "reused") /\ WriteNotes(w)
  /\ UNCHANGED <<queue, faults>>

\* Another import is producing the shared PDF.
WaitForCache(w) ==
  /\ Publishes(w, {"storing"},
       [Release(Row(w), "pending_cache") EXCEPT !.executions = @ - 1], "checking")
  /\ Fault
  /\ UNCHANGED <<notes, queue>>

\* stageCanvasExtraction.
Stage(w) ==
  /\ Publishes(w, {"storing"}, [Release(Row(w), "pending_extract") EXCEPT !.source = TRUE], "checking")
  /\ Publish(ExtractMessage(worker[w].file))
  /\ UNCHANGED notes

Complete(w) ==
  /\ Publishes(w, {"reused", "indexed"}, At(w, "complete"), "checking")
  /\ UNCHANGED <<notes, queue, faults>>

\* The catch block: a transient error waits for another execution, up to the limit.
FailFile(w) ==
  /\ worker[w].pc \in FilePc
  /\ \E again \in BOOLEAN :
       /\ again => Row(w).executions < MaxExecutions
       /\ IF Row(w).job = worker[w].job /\ Row(w).token = worker[w].token /\ Row(w).status \in Running
            THEN SetFile(worker[w].file,
                   [Release(Row(w), IF again THEN "pending" ELSE "error") EXCEPT !.due = ~again])
            ELSE UNCHANGED file
       /\ IF again THEN Rest(w) ELSE Goto(w, "checking")
  /\ UNCHANGED <<job, notes, queue, faults>>

-----------------------------------------------------------------------------
(* processCanvasExtract and processExtractionRetry.                        *)

TakeExtract(w, message) ==
  LET row == file[message.file]
  IN /\ message.kind = "extract"
     /\ ClaimFile(w, message, row.status = "pending_extract", row, "indexing", "extracting")

TakeRetry(w, message) ==
  LET row == file[message.file]
  IN /\ message.kind = "retry"
     /\ ClaimFile(w, message,
          row.status = "pending_retry" /\ row.seq = message.seq /\ row.due /\ row.retries < MaxRetries,
          [row EXCEPT !.retries = @ + 1], "indexing", "extracting")

\* processRagPipeline publishes the notes and their chunks in one transaction.
Index(w) ==
  /\ Publishes(w, {"extracting"}, Row(w), "indexed") /\ WriteNotes(w)
  /\ UNCHANGED <<queue, faults>>

\* submitMarkerJob; the run goes on in MarkerDispatch.
SendToMarker(w) ==
  /\ Publishes(w, {"extracting"}, At(w, "pending_marker"), "checking")
  /\ UNCHANGED <<notes, queue, faults>>

\* stageCanvasExtractionRetry.
FailExtract(w) ==
  /\ Publishes(w, ExtractPc,
       [Release(Row(w), IF Row(w).retries < MaxRetries THEN "pending_retry" ELSE "error")
          EXCEPT !.seq = @ + 1, !.due = Row(w).retries >= MaxRetries], "checking")
  /\ IF Row(w).retries < MaxRetries THEN Publish(RetryMessage(worker[w].file, Row(w).seq + 1))
                                    ELSE UNCHANGED <<queue, faults>>
  /\ UNCHANGED notes

\* The stored source is gone, or the last statement of a retry failed.
LoseSource(w) ==
  /\ Publishes(w, ExtractPc, Release(Row(w), "error"), "checking")
  /\ UNCHANGED <<notes, queue, faults>>

\* CanvasClaimLostError: a download just ends, an extraction still looks at the job.
LoseClaim(w) ==
  /\ \/ worker[w].pc \in FilePc /\ ~Owns(w) /\ Rest(w)
     \/ worker[w].pc \in ExtractPc /\ ~Owns(w) /\ Goto(w, "checking")
     \/ worker[w].pc \in DiscoverPc /\ ~OwnsDiscovery(w) /\ Rest(w)
  /\ UNCHANGED <<job, file, notes, queue, faults>>

\* checkAndCompleteJob counts the open files ...  (Of a run that is over there is nothing
\* to complete.  A count taken before the discovery ended has a name of its own for the
\* properties only.)
Count(w) ==
  LET j == worker[w].job
  IN /\ worker[w].pc = "checking"
     /\ IF ~Done(j) \/ ~Live(j) THEN Rest(w)
        ELSE Goto(w, IF job[j].status = "processing" THEN "counted" ELSE "countedEarly")
     /\ UNCHANGED <<job, file, notes, queue, faults>>

Completes(j) ==
  /\ job[j].status = "processing"
  /\ job' = [job EXCEPT ![j].status = "complete"]

\* ... and then, in a statement with a snapshot of its own, looks for the job; it skips one
\* that somebody has locked.
Finish(w) ==
  /\ worker[w].pc \in {"counted", "countedEarly"}
  /\ Completes(worker[w].job) \/ UNCHANGED job
  /\ Rest(w)
  /\ UNCHANGED <<file, notes, queue, faults>>

-----------------------------------------------------------------------------
(* The worker's sweeps: repairQueues and settleStuckJobs.                  *)

Republish(j) ==
  /\ job[j].status = "queued" /\ Publish(DiscoverMessage(j))
  /\ UNCHANGED <<job, file, notes, worker>>

\* dispatchFairCanvasFiles, its order and caps left out.
Dispatch(f) ==
  /\ file[f].status = "pending" /\ file[f].due /\ Working(file[f].job)
  /\ Publish(FileMessage(f))
  /\ UNCHANGED <<job, file, notes, worker>>

\* The shared PDF is ready, or its producer stopped.
ReleaseWaiting(f) ==
  /\ file[f].status = "pending_cache" /\ Working(file[f].job)
  /\ SetFile(f, [file[f] EXCEPT !.status = "pending", !.due = TRUE])
  /\ UNCHANGED <<job, notes, queue, worker, faults>>

RepublishExtract(f) ==
  /\ file[f].status = "pending_extract" /\ Working(file[f].job)
  /\ Publish(ExtractMessage(f))
  /\ UNCHANGED <<job, file, notes, worker>>

RepublishRetry(f) ==
  /\ file[f].status = "pending_retry" /\ file[f].due /\ file[f].retries < MaxRetries
  /\ file[f].source /\ Working(file[f].job)
  /\ Publish(RetryMessage(f, file[f].seq))
  /\ UNCHANGED <<job, file, notes, worker>>

\* recoverExpiredCanvasExtracts, whether or not claim recovery is enabled.
ReclaimExtract(f) ==
  LET spent == file[f].retries + 1 >= MaxRetries
  IN /\ file[f].status = "indexing" /\ file[f].source /\ file[f].late /\ Working(file[f].job)
     /\ SetFile(f, [Release(file[f], IF spent THEN "error" ELSE "pending_extract")
                      EXCEPT !.retries = @ + 1])
     /\ IF spent THEN UNCHANGED <<queue, faults>> ELSE Publish(ExtractMessage(f))
     /\ UNCHANGED <<job, notes, worker>>

\* recoverCanvasExecutions, for a discovery.
RecoverDiscovery(j) ==
  /\ Recovery /\ job[j].status = "discovering" /\ job[j].late
  /\ AbandonDiscovery(j)
  /\ UNCHANGED <<notes, queue, worker, faults>>

\* A file is recovered when its lease ended, its run is over or its retries are spent; the
\* last two repair what earlier releases left behind.
Abandoned(f) ==
  \/ file[f].status \in Running /\ file[f].late
  \/ job[file[f].job].status \in JobOver /\ file[f].status \in Open
  \/ file[f].status = "pending_retry" /\ (file[f].retries >= MaxRetries \/ ~file[f].source)

\* Mutant: what is indexing is left to the extraction sweep.
RecoverDownload(f) ==
  LET row == file[f]
  IN /\ Recovery /\ row.job # 0 /\ row.status \in {"downloading", "processing"} /\ row.late
     /\ SetFile(f, [Release(row, IF row.executions < MaxExecutions THEN "pending" ELSE "error")
                      EXCEPT !.seq = @ + 1, !.due = TRUE])
     /\ UNCHANGED <<job, notes, queue, worker, faults>>

\* recoverCanvasExecutions, for a file.
RecoverFile(f) ==
  LET row == file[f]
      live == Live(row.job)
      spends == live /\ row.status = "indexing"
      retries == IF spends THEN row.retries + 1 ELSE row.retries
      extracts == live /\ row.status \in {"indexing", "pending_retry"}
      status == IF job[row.job].status = "cancelled" THEN "cancelled"
                ELSE IF extracts /\ retries >= MaxRetries THEN "error"
                ELSE IF extracts /\ row.source THEN IF row.retries = 0 /\ spends THEN "pending_extract" ELSE "pending_retry"
                ELSE IF live /\ row.executions < MaxExecutions THEN "pending" ELSE "error"
  IN /\ Recovery /\ row.job # 0 /\ Abandoned(f)
     /\ SetFile(f, [Release(row, status) EXCEPT !.seq = @ + 1, !.due = TRUE,
                      !.retries = retries])
     /\ UNCHANGED <<job, notes, queue, worker, faults>>

\* settleStuckJobs chooses jobs whose discovery has ended; one step, since nothing opens a
\* file of such a job.
SettleJob(j) ==
  /\ Done(j) /\ Completes(j)
  /\ UNCHANGED <<file, notes, queue, worker, faults>>

-----------------------------------------------------------------------------
(* Marker, time and dying workers.                                         *)

\* The Marker row settles with its import (MarkerDispatch); a result needs a working run.
MarkerEnds(f) ==
  /\ file[f].status = "pending_marker"
  /\ \/ /\ Working(file[f].job)
        /\ SetFile(f, [file[f] EXCEPT !.status = "complete"])
     \/ SetFile(f, [file[f] EXCEPT !.status = "error"])
  /\ UNCHANGED <<job, notes, queue, worker, faults>>

ComeDue(f) ==
  /\ ~file[f].due /\ file[f].status \in {"pending", "pending_retry"}
  /\ SetFile(f, [file[f] EXCEPT !.due = TRUE])
  /\ UNCHANGED <<job, notes, queue, worker, faults>>

\* The lease of a worker that still works ends only if it stalls.
Attended(f) == \E w \in Worker : worker[w].file = f /\ worker[w].pc \in FilePc \cup ExtractPc /\ Owns(w)

Lapse(f) ==
  /\ file[f].status \in Running /\ ~file[f].late
  /\ IF Attended(f) THEN Fault ELSE UNCHANGED faults
  /\ SetFile(f, [file[f] EXCEPT !.late = TRUE])
  /\ UNCHANGED <<job, notes, queue, worker>>

LapseDiscovery(j) ==
  /\ job[j].status = "discovering" /\ ~job[j].late
  /\ IF \E w \in Worker : worker[w].pc = "listing" /\ worker[w].job = j /\ OwnsDiscovery(w)
       THEN Fault ELSE UNCHANGED faults
  /\ job' = [job EXCEPT ![j].late = TRUE]
  /\ UNCHANGED <<file, notes, queue, worker>>

Die(w) ==
  /\ worker[w].pc # "idle" /\ Rest(w)
  /\ UNCHANGED <<job, file, notes, queue, faults>>

Take(w) ==
  \E message \in queue :
    \/ TakeDiscover(w, message) \/ TakeFile(w, message)
    \/ TakeExtract(w, message) \/ TakeRetry(w, message)
Work(w) ==
  \/ \E f \in File : List(w, f)
  \/ EndListing(w) \/ FailListing(w)
  \/ Forbid(w) \/ Store(w) \/ Reuse(w) \/ WaitForCache(w) \/ Stage(w) \/ FailFile(w)
  \/ Index(w) \/ SendToMarker(w) \/ FailExtract(w) \/ LoseSource(w)
  \/ Complete(w) \/ LoseClaim(w) \/ Count(w) \/ Finish(w)
RepairJob(j) == Republish(j) \/ RecoverDiscovery(j) \/ SettleJob(j)
RepairFile(f) ==
  \/ Dispatch(f) \/ ReleaseWaiting(f) \/ RepublishExtract(f) \/ RepublishRetry(f)
  \/ ReclaimExtract(f) \/ RecoverFile(f)

Next ==
  \/ Stop
  \/ \E j \in Job : StartRun(j) \/ RetryRun(j) \/ RepairJob(j) \/ LapseDiscovery(j)
  \/ \E w \in Worker : Take(w) \/ Work(w) \/ Die(w)
  \/ \E f \in File : RepairFile(f) \/ MarkerEnds(f) \/ ComeDue(f) \/ Lapse(f)

Spec == Init /\ [][Next]_vars

Healthy(A) == A /\ UNCHANGED faults

\* A worker that is up works on and takes what is queued, the sweeps run every 30 seconds
\* or five minutes, leases end, retries come due and Marker rows settle.  Workers may still
\* die as often as they like.
FairSpec ==
  /\ Spec
  /\ \A w \in Worker : WF_vars(Healthy(Work(w)))
  /\ WF_vars(\E w \in Worker : Healthy(Take(w)))
  /\ \A j \in Job : WF_vars(Healthy(RepairJob(j))) /\ WF_vars(Healthy(LapseDiscovery(j)))
  /\ \A f \in File :
       /\ WF_vars(Healthy(RepairFile(f))) /\ WF_vars(MarkerEnds(f))
       /\ WF_vars(ComeDue(f)) /\ WF_vars(Healthy(Lapse(f)))

-----------------------------------------------------------------------------

\* A run that was stopped or failed leaves no file behind, and while a run waits for its
\* discovery to be tried again nobody works on its files.
StoppedHasNoWork ==
  \A f \in File : /\ file[f].status \in Open => job[file[f].job].status \notin {"failed", "cancelled"}
                  /\ file[f].status \in Running => job[file[f].job].status # "queued"

\* A run whose files were counted after its discovery ended is complete only when every
\* file is closed, and then stays so.
CompleteWhenDone ==
  [][\A j \in Job : job[j].status = "processing" /\ job'[j].status = "complete" =>
       Done(j) \/ \E w \in Worker : worker[w].pc = "countedEarly" /\ worker[w].job = j]_vars

\* What checkAndCompleteJob's comment claims: `marks a job complete when all its
\* canvas_imports rows are in terminal states'.
CompleteHasNoWork ==
  \A f \in File : file[f].status \in Open => job[file[f].job].status # "complete"

\* Redeliveries, reclaims and requeues do not refill a file's budget: a file that keeps
\* killing its worker is claimed a bounded number of times.
BudgetHolds ==
  \A f \in File :
    file[f].job # 0 => file[f].claims <=
      MaxExecutions + MaxRetries + 1 + job[file[f].job].attempts + faults

\* A worker whose claim was reclaimed, stopped or replaced publishes nothing over its
\* successor's notes.
LateWorkersPublishNothing ==
  [][\A f \in File : notes'[f] # notes[f] =>
       notes'[f] = [job |-> file[f].job, token |-> file[f].claims] /\ Working(file[f].job)]_vars

\* A run that is over stays so, and so does a file until another run takes it.
OverIsFinal ==
  [][/\ \A j \in Job : job[j].status \in JobOver => job'[j] = job[j]
     /\ \A f \in File : file[f].status \in Closed =>
          file'[f].status = file[f].status \/ file'[f].job # file[f].job]_vars

\* With claim recovery enabled every run ends, however often its workers die.
EventuallyOver == \A j \in Job : Live(j) ~> job[j].status \in JobOver
=============================================================================
