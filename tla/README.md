# OghmaNotes: TLA+ models

OghmaNotes is a Next.js application with a BullMQ worker, PostgreSQL, Redis, an
S3 store and Qdrant. Most of its routes are one validated request and one SQL
statement; its hard behaviour is in the work that outlives a request: chat
generations, imports, OCR dispatch, study-map jobs, note deletion. These modules
model that work, starting with background chat, whose code makes the most
promises about crashes, retries and cancellation.

Paths below are relative to the repository root.

## 1. The system

| Component | State | Operations | Hard behaviour |
|---|---|---|---|
| Chat generation (`src/lib/chat/generation-store.ts`, `generate-background.ts`, `src/app/api/chat/`) | `app.chat_generations` (status, lease token and expiry, payload), `app.chat_messages`, Redis cancel flag, BullMQ job | create, claim, heartbeat, finalize, fail, cancel, revoke, requeue, recover, prune | leases that lapse under a live worker, redelivered jobs, lost commits, Stop against everything |
| Chat session status (`session.ts`, `generation-store.ts`, `app/api/chat/route.ts`) | `app.chat_sessions.generation_status` | user message, answer, settle, mark failed | statements that read other rows at READ COMMITTED, requests that die |
| Chat replay (`redis-event-writer.ts`, `paragraph-stream.ts`, `generations/[id]/stream`, `client-stream.ts`) | the worker's buffer, a Redis Stream, the browser's cursor | append, reset, read after, fall back on PostgreSQL, reconnect | two runs writing one stream, failed appends, reconnects |
| Chat tool actions (`actions.ts`, `actions/[id]`) | `app.chat_tool_actions` | propose, approve, reject, complete, fail, expire | at-most-once execution, death while executing |
| Chat presence (`presence.ts`) | a Redis hash of tabs | heartbeat, leave, decide to abort | stale tabs, grace windows |
| Queue facade and worker shell (`lib/queue.ts`, `lib/worker/`, `lib/canvas/worker-entry.ts`) | BullMQ queues, timers | publish with a timeout, consume, sweep every 30 s | late publications, stalled jobs |
| Extraction and Marker (`lib/marker/`) | `app.marker_jobs`, result objects | dispatch, probe, webhook, expire | at most one paid call, ambiguous outcomes |
| Canvas import (`lib/canvas/`) | `app.canvas_import_jobs`, `app.canvas_imports`, caches | discover, claim an execution, extract, retry, cancel | recovery of running executions, shared caches |
| Notes and tree (`lib/notes/`, `lib/rag/`) | `app.notes`, `app.tree_items`, cleanup tasks, Qdrant | create, move, trash, restore, delete, reindex | external cleanup after commit, cohorts |
| Study maps (`lib/study-map/`) | job rows, topics, reviews | claim, publish, revoke | publication of superseded analyses |
| Vault (`lib/vault/`) | job rows, archives | export, import | job claims and retries |
| Auth (`lib/auth/`) | logins, Redis lockout counters, grants | sign in, lock out, exchange, revoke, purge | atomic counters, single use |
| Quiz (`lib/quiz/`) | cards, sessions, reviews | generate, answer, complete | a repeated answer |
| Storage and upload, calendar, Canvas sync, Canvas MCP, editor, public site, Android app, CI | rows and objects | CRUD, fetch and upsert, rendering | little control of their own |

What makes each modelled component correct:

* **Generation.** Every accepted generation is settled once; the message saved
  with it is the one its last claim produced; a stopped generation is not
  answered by a later run; a run that may have called tools is not repeated by
  its own failure.
* **Session.** `generation_status` says generating while an exchange is under
  way and how the last one ended otherwise.
* **Tool actions.** An approval is good for at most one write, to the destination
  the reviewer was shown, under the login that asked for it; a decided action
  keeps its outcome; concurrent proposals respect the account's cap.
* **Marker.** A PDF is paid for at most once; a result that arrived is neither lost
  nor overwritten; the row and the import it feeds are settled together; what was
  sent ends.
* **Canvas import.** Work belongs to a live run; only the worker that holds the
  claim publishes; a user's marks stay within the cap and every class and user gets
  a turn; a run ends.
* **Index.** Vectors belong to rows or to somebody who will remove them; what is in
  the Trash or gone is not searched.
* **Tree.** Active notes are reachable, bundles whole, restores as shown, expired
  bundles go.
* **Study map.** A judgement is of the text and topics it says; one worker publishes a
  job, once; the user's edits win over proposals; the automatic setup does not
  repeat failures or undo what the user did, and gets the rest judged.
* **Replay.** The browser is told `done` or `error` only for a row settled that
  way, is always told in the end, and does not see gaps or two runs mixed.

How the parts meet: the route inserts the row and publishes a job; the worker
claims the row under a lease and writes events to Redis; the browser reads them
through the stream route, which falls back on the row; Stop cancels an unowned
row, or raises a Redis flag the worker's watchdog reads, or revokes the lease;
a sweep in every worker releases rows whose lease has lapsed and publishes them
again. An import run discovers files, each downloaded and extracted by a worker; a
scanned PDF becomes a marker row whose completion settles the file; notes made by
either are indexed in Qdrant by a job of their own and are what a study map judges.
Trash, deletion and Stop cut across all of it. PostgreSQL rows are the only truth;
jobs, flags and events may be lost.

## 2. Modules

| Module | Models |
|---|---|
| `GenerationOutcome` | what `POST /api/chat` promises: submitted once, settled once, message and outcome in one step |
| `ChatGeneration` | rows, leases, jobs, worker runs, Stop, recovery; implements `GenerationOutcome` |
| `ChatGeneration_proofs` | theorems about `ChatGeneration` |
| `ChatSession` | the session status under overlapping statements and inline requests |
| `ChatReplay` | the event buffer, the stream, the route's reader and the browser |
| `ChatClient_proofs` | theorems about what a client is shown: `ChatReplay` and `ChatSession` |
| `Approval` | what a confirmation promises its reviewer: decided once, one write to what was shown, completed only after it |
| `ToolAction` | proposals of writing tools, their decisions and writes; implements `Approval` |
| `MCToolAction` | symmetry of proposers, requests and connections |
| `ToolAction_proofs` | theorems about `ToolAction` |
| `MarkerDispatch`, `MCMarkerDispatch` | paid OCR of one PDF: dispatch, webhook, sweep, completion, Stop |
| `MarkerDispatch_proofs` | theorems about `MarkerDispatch` |
| `CanvasImport`, `MCCanvasImport` | a user's import runs and files: discovery, claims, extraction, retries, recovery, Stop |
| `CanvasImport_proofs` | theorems about `CanvasImport` |
| `ClassShares` | weighted turns of the service classes |
| `FairDispatch`, `MCFairDispatch` | which pending file is dispatched next; extends `ClassShares` |
| `FairDispatch_proofs` | theorems about both |
| `NoteIndex`, `MCNoteIndex` | chunks and vectors of one note through saves, Trash and deletion |
| `NoteTree`, `MCNoteTree` | tree, Trash bundles, restores, purge, Clear Vault, extraction folders |
| `Note_proofs` | theorems about `NoteTree` and `NoteIndex` |
| `StudyMap`, `MCStudyMap` | a course's study map: jobs, workers, automatic setup, page, user |
| `StudyMap_proofs` | theorems about `StudyMap` |

### ChatGeneration

One SQL statement is one step: each locks its row. Everything awaited between
two statements is another step, so a run can be preempted where the code can.
`pc[w]` follows `processChatGeneration`:

| `pc` | Code |
|---|---|
| `claiming` | `claimChatGeneration` (`Claim`) |
| `entry`, `entryStop` | the cancel flag read at entry, and `finishCancelled` before there is output |
| `preparing`, `streaming` | prompt and provider; `Produce`, `StreamEnds`, `Throw` stand for what the provider does |
| `completing`, `stopping`, `salvaging` | the settling write of an answer, of a stopped answer, of partial output in the catch block |
| `requeueing`, `failing` | the catch block without output, by `attempt < maxAttempts` |
| `returning`, `throwing` | what BullMQ sees: done, or another delivery if attempts remain |

`Watchdog` ticks at every running step: it renews the lease or notices it is gone, reads
the flag, and may abort for a disconnect (`presence.ts` is an input). A lease token is
the number of the claim that wrote it, so "another claim has happened" is visible;
`live` is `lease_expires_at > NOW()`. Rows of before leases (NULL expiry) count as not
live. A publication that times out for the route but lands later is a late delivery.
`JobPending` stands for the five-minute threshold below which a queued row is not swept:
sweeping while a job is still due costs a fault.

Faults are a budget (`MaxFaults`): lost or unseen commits, failed statements,
crashes, lapsed leases of a live worker, redelivered or dropped jobs, Redis
errors. A step without `Fault` is one a healthy system takes.

Not in the model: the LLM stream itself (it ends, because `ai-config.ts` bounds
each provider call to five minutes), what the answer says, the one-hour lifetime
of the cancel flag (taken to outlive every recovery), and the seven-day age of
`pruneChatGenerationPayloads` (any settled row may be pruned). The branch that
fails a run without payload is left out: `ClaimableHasPayload` shows no run needs
it.

### ChatSession

At READ COMMITTED a statement reads other rows in the snapshot it starts with,
then waits for its own row, re-checks it and commits. `Begin` takes the snapshot
(`others`), `Commit` re-checks and writes generation and session. Leases are left
out; a worker's and a client's statement on the same row may overlap anyhow.
`Release` is requeue or recovery. The `Inline...` actions are the SSE and JSON
branches of `POST /api/chat`: `sse` is inside the handler's try from the user
message on, `json` is not until the provider call (`call`). `MaxActive` is how many
exchanges the client lets run at once. The specification is `SessionSpec` (and the
names with `Session` before them), so that one module can reason about this and
`ChatReplay`.

### ChatReplay

`queue[r]` is the promise chain of `createBufferedSseWriter`: its head is already
with Redis, so discarding cannot recall it. `log` is everything ever appended and
`floor` what `DEL` removed; an event id is a position in `log`, which assumes
Redis' clock moves between an old run's last append and a reset. `late` records
that a superseded run wrote to the stream. `Read`, `Deliver` and `Load` are the
loop of the stream route, one connection and its browser; `Drop` and `Reconnect`
are the browser losing it. The browser gives up after four reconnects without
progress; the model bounds lost connections by `MaxDrops` instead. Trimming at
4000 events, the one-hour lifetime of a stream and a deleted session's ending
are not modelled. An event is a block the paragraph buffer released: that buffer
flushes before every other event and so keeps the order.

### ToolAction

`prop[p]` follows `proposeToolAction`: `Ask` reads the Canvas connection, `Begin` opens
the transaction (whose `NOW()` is its start, so `old` is what it may delete), `Lock` is
the `SELECT ... FOR UPDATE` of the account, `Refuse` and `Accept` are the count,
`Insert` is the insertion and commit, `Abort` a rollback. `dec[d]` follows the POST
handler: the login is read (`Authenticate`), one UPDATE decides (`Claim`), the
connection is read again (`Resolve`), the tool runs (`Write`), one of two guarded
updates settles (`Complete`, `Fail`), and the process may die in between (`Die`).
Waiting for Canvas has a limit (`safe-fetch.ts:68-107`), and a connection to PostgreSQL
can be lost under a commit: what was sent and is no longer awaited is in `late`, and
`Land` is the destination carrying it out after all, perhaps when the row already says
`failed`. That is why the handler tells a user to check the destination before asking
again, and why `Approval` lets nothing be concluded from a failure. `Revoke`,
`DeleteAccount` and `Connect` are the statements on the account's row, which wait for a
proposal's lock; `DeleteSession` cascades to the session's actions; `Expire` is the
fifteen minutes, `Prune` the worker's daily deletion. Row ids are never used again.
Inputs, the size limit, rate limits, what a tool writes and re-activation of a closed
account are left out.

`Approval` knows neither requests nor transactions. A phase is the status a reviewer
sees, or that there is no row yet or no more; `open` are the actions whose approval
has not been used up. `ToolAction` implements it: an action is open from the claim
until its request sends the write or gives up, and on while the write is late.
`Insert` is `Ask` (with the expired rows it removes), `Claim` is `Approve` or
`Reject`, a write that takes effect is `CarryOut`, one that cannot any more is
`Lapse`, a settling update is `Answer`, and rows that are deleted are `Clear`.

### MarkerDispatch

One PDF's row of `app.marker_jobs`. `Consumer`, `Sweep` and `Request` are the
processes that touch it: a slot of the queue consumer (`processMarkerDispatch`,
`processMarkerCompletion`, `processMarkerFailure`), the recovery sweep, and a
submission or webhook request. `Claim`, `Check`, `Sign`, `Call` and `Answer`
are the dispatch between two awaits; `Accepted`, `Ambiguous`, `Reject` its three
endings; `Ask`, `Probe`, `Abandon` what a dispatch does with a row that was paid
for before. `Load`, `Confirm`, `Enter`, `Index`, `Retry`, `Invalidate` are the
completion, `Hook...` the webhook, `Sweep...` the sweep's four passes. `aged` is
"`updated_at` is older than the row's status allows". The provider is a set of
answers: `vast` answers when the work is done, `runpod` when it is queued; each
call may be refused, answer ambiguously, or work without answering. Its result
object is uploaded before a signed URL `expired`. Left out: the import-cache
variant of a source, the `ingestion_jobs` mirror, metrics, legacy
`dispatch_retry` rows, requeueing of a parent job, direct uploads.

### CanvasImport

The runs (`canvas_import_jobs`) and files (`canvas_imports`) of one user. A
message names a run, and a file and retry sequence where the code's does. `Take`
claims a row with a fresh token, the worker's steps (`List`, `Store`, `Reuse`,
`Stage`, `Index`, `SendToMarker`, the failures) publish under `Owns`, the token
check each of them makes; `Count` and `Finish` are the two statements of
`checkAndCompleteJob`, so a file listed between them is missed
(`MCCanvasImport_race.cfg`). The sweeps are `Republish`, `Dispatch`,
`RepublishExtract`, `RepublishRetry`, `ReleaseWaiting`, `RecoverDiscovery`,
`RecoverFile` (the last two only with `Recovery`, since `CANVAS_CLAIM_RECOVERY`
is off by default) and `SettleJob`, which is one statement in the code and one
step here. Which pending file is dispatched next is `FairDispatch`; the marker
row of a file is `MarkerDispatch`, here only `MarkerEnds`. Left out: who owns a
PDF shared through the cache, direct extraction of uploads, deactivated accounts.

### ClassShares and FairDispatch

`ClassShares` is `chooseWeightedClass` over any sequence of sets of classes that
have work. `FairDispatch` extends it with `dispatchFairCanvasFiles`, of which
several calls may run. `Begin` is the start of the transaction, whose time `NOW()`
stays; `Lock` gets the advisory lock, `Weigh` reads the classes that have work,
locks the rows of the classes and charges one, `Pick` counts again and marks a file
of it, `Commit` makes the marks visible; `Send` publishes one. A transaction sees
its own marks (`Marked`), and the rows it marks are locked (`RowLocked`): the others
skip them, a worker's claim waits. `Serial` stands for both locks, which are held
from their first use to the commit. Either alone keeps the cap, because `Pick`
counts after it has the rows of the classes; the mutant drops both. A transaction that
is cut off is one that never got the lock. Times are kept as ranks, of what
is compared only: users served by one transaction tie, and one that waited writes
an older time than another has written. The marks
(`dispatched_at`) are taken back by `Release` after five minutes, by a failed
publication, by `Leave` and `ReleaseWaiting`. What becomes of a file is reduced to
the statuses the caps read.

### NoteIndex

One note, its rows of `app.chunks`, its vectors and its reindex job. A set of
chunks is a number and the content it was cut from. `Take`, `Open`, `Commit`,
`Check`, `Hide`, `DropVectors`, `DropRows`, `Stamp` follow `runReindex` and
`replaceNoteEmbeddings`: from `Open` to `Commit` the note's row is locked while
Qdrant answers (`Unlocked` guards the others), afterwards nothing is. `Delete`
is `deleteVectorsOrJournal`. `TrashNote` and `RestoreNote` commit and update visibility
afterwards (`ReadChunks`, `SetVisibility`); `Reconcile` and `Cleanup` are the
daily maintenance. `Reconcile` takes the `Batch` oldest sets of chunks of everybody's
trashed notes; `note.ahead` counts those of other notes that come before this note's
and changes as they do (`OthersMove`). So `ReachedIsHidden` speaks of a note the batch
reaches from some day on; that a note may never be reached is a finding
(`MCNoteIndex_behind.cfg`). Assumed: a call meets a failure of Qdrant or of the
database, not of both; an upsert that timed out has been applied by then or never is.
The Cloudflare queue, which does not deduplicate, is left out. The fault
`torn`, a worker's death between its vectors and its commit, is a kind of its
own and is in no configuration: it does leave a vector nobody names (see the
hazards), and `VectorsAreAccountedFor` says that nothing else does. The
specification is `IndexSpec` (`IndexFairSpec` with fairness), so that one module can
reason about this and `NoteTree`.

### NoteTree

Every structural write of notes holds the user's advisory lock and is one step;
a request that is refused (a move below itself, a 409 on `expectedParentId`) is
none. Ids are fresh. `ActiveSubtree` and `Ancestors` are the recursive queries,
written as the least set closed under the relation, which the proofs can use.
What spans transactions is split: Empty Trash and the purge (`EmptyTrash`,
`ListExpired`, then one bundle each), Clear Vault (`ListForClear`, `Clear`), the
import dialog (`OfferRestore`, `RestoreOffered`), an extraction
(`BeginExtraction`, `MoveToBundle`). `Spec` is without Clear Vault: together with
extractions it breaks `TrashIsWhole` (`MCNoteTree_cleared.cfg`); `ClearSpec`
adds it. Left out: titles beyond what an extraction compares, contents, Canvas
module folders, attachments; a note an extraction writes is a `Create`, and
`removeNewNoteWithTree`, which nothing calls, is not modelled.

### StudyMap

The map of one course. Every transaction holds the user's advisory lock and
reads its sources `FOR SHARE`, so it is one step; provider calls lie between.
`Claim` takes lapsed leases back and leases the oldest job, `Read` loads the
input, `Publish...` re-checks source, map, taxonomy, membership and lease,
`GiveUp` fails the job if the lease is held, `Die` leaves it to lapse. `Begin`,
`SyncMaterials`, `Configure`, `SetupClassify`, `Ask`, `SetupPropose` are
`autoConfigureStudyMap`; `ListCourse` and `CreateListed` the page that makes maps.
A text stands for the hash of a note, a meaning for what `taxonomyMeaning`
compares. `seen`, `against`, `overtaken`, `revoked`, `published`, `automatic` are
history: no guard reads them (`automatic` aside, which is stored as the
requester). A note whose text is empty, too long or unreadable (`Blank`) gets no job
and no failure: batches pass it over (`Candidates`), requests for it and proposals
whose syllabus, or oldest material, it is are refused, a proposal reads the others,
and a job that finds its note so gives up. So `EventuallyJudged` promises nothing of
such a note, and leaves to the user whatever failed last, an edit during the provider
call included. What the provider answers, and whether the outline is found, is chosen
freely. `Room` is the user's cap and, in the same place, the bound
`MaxJobs`. Left out: the board, overrides, paper import, limits per map, caches.

## 3. Runs

| Run | Question | Bounds |
|---|---|---|
| `chat_generation` | do outcome, answer and Stop agree, and does every generation settle as the abstract one does? | 1 generation, 2 slots, 2 attempts, 1 fault |
| `chat_session` | is the status right for a client that waits? | 3 generations, 2 inline requests, one at a time |
| `chat_replay` | is what the browser sees in order, of one run and true, and is it told? | 2 runs of 2 events, buffer 1, `COUNT` 2, 1 lost connection |
| `tool_action` | is an approval good for one write, where and for whom it was shown, and is that all a reviewer can see? | 1 proposer again and again, 1 row, 2 requests, 2 connections, cap 1 |
| `marker` | is a conversion paid for once, and does its result arrive? | both providers, 1 consumer, 1 sweep, 1 request, 1 completion attempt, 1 fault |
| `canvas_work` | do ended runs keep no work, and late workers publish nothing? | 1 file, 1 run, 2 workers, 2 executions, 2 retries, 1 fault |
| `canvas_live` | does every run end? | 1 file, 2 runs, 1 worker that may die at any time, 1 fault |
| `fair` | do caps, shares and fairness hold? | 2 users of two classes, 3 files (one tried twice), 2 dispatchers that die and come again, 1 slot, cap 1, 1 fault |
| `note_index` | does search show what it may and forget what it must? | 2 workers, 1 request, 2 contents, 3 writes, 3 indexings, a batch of 2 sets, 1 fault of any kind but `torn` |
| `note_tree` | do tree, Trash and restores hold together, and does the purge finish? | 2 course folders, a document and its bundle, 2 moves to the Trash |
| `study_jobs` | are judgements, publications and edits kept apart? | 1 note, 2 workers, 1 job (an analysis or a proposal), 2 attempts, 2 texts, 3 versions of the map |
| `study_setup` | does the automatic setup get things judged and keep out of the rest? | 1 note that is there or written later, 2 texts and an empty one, 2 topics, a map or none or a deleted one with a setup under way, 1 worker, 1 setup, 1 visitor, 2 attempts, 2 versions; room for 4 jobs, which are never used up |

Why these are enough. Generations do not share a row, a job or a flag, so one generation
with two slots has every conflict of `ChatGeneration`: an old and a new run, a Stop and
a sweep. One fault lets the lease lapse under the old run, or a write of either commit
unseen; two faults were checked with the same result and take longer than a run should.
Three generations let a session's status be written by an old statement, a current one
and a new one. Two runs of two events overflow a buffer of one with an event or with the
terminal one. Actions of one account meet only in the cap, so one row with a cap of one
has both its cases, and two requests have every conflict over it. A marker row and a
Canvas file are each contended for by at most an old holder, a new one and the sweep;
one fault is enough to make a holder old. Two files of one user, a cap of one and two
dispatchers that overlap are the smallest that could exceed it, one light file against
two of a heavy user that come again the smallest that could starve. Each class has one
user there, so the order of service within a class does nothing in this run, and no
property is about it. A body that changes and changes back, two indexings that overlap
and a Trash between them need two workers and three writes. A bundle in a bundle, a
restore into a folder that is gone and an extraction that ends late need three folders
and one document. Two jobs on one note meet the cap, the fence and the user. A map whose
topics quote the note, whose text is edited once it has been judged and quoted anew,
makes the judgement stale by its text; other topics make it stale by its taxonomy:
`study_setup` has both, so its mutant that compares no hashes (`DueByStatus`) leaves the
note unjudged. A setup of a deleted map and a successor that is made meanwhile are two
maps; the first is deleted in the initial state, because a second life of everything
else costs ten times the states. `CHECK_DEADLOCK` is off because each system may stop:
settled generations, an ended connection, a closed account, an empty queue.

### Configurations on file

Eighteen findings are disagreements between the code and its comments or
documents. PROJECT.json quotes both sides; the configuration named here is the
smallest on which TLC shows each, with `tlc -config X.cfg M`:

| Configuration | Property | What happens |
|---|---|---|
| `MCChatSession_two` (`ChatSession`) | `SettledWithSession` | two settling statements of one session each see the other generation active; the later commit leaves the session `generating` with nothing left to do |
| `MCChatSession_inline` (`ChatSession`) | `StuckPointsAtBackground` | a JSON request that throws between the saved user message and the provider call leaves the session `generating`, which the runbook ascribes to the background path |
| `MCChatReplay_stale` (`ChatReplay`) | `ResetDropsOldRun` | appends carry no fence: a run that lost its lease writes into the rerun's stream until a heartbeat tells it |
| `MCToolAction_cap` | `RefusedForPending` | the cap counts decided actions until they expire, so a user told to review pending actions may have none |
| `MCCanvasImport_race` | `CompleteHasNoWork` | a file listed between the two statements of the completion check is left pending in a completed run |
| `MCFairDispatch_late` | `DownloadsCapped` | a mark taken back early lets a user download more than two files |
| `MCNoteIndex_undone` | `IndexIsCurrent` | a body that changes and changes back keeps the chunks of the other body |
| `MCNoteIndex_twice` | `IndexIsCurrent` | a stalled run publishes an older body over a newer index, and its requeued job finds nothing to do |
| `MCNoteIndex_restored` | `RestoredIsSearched` | a slow Trash request hides the vectors of a note that has been restored |
| `MCNoteIndex_behind` | `TrashedIsHidden` | the daily pass takes the same oldest chunks every day and never comes to a newer note's |
| `MCNoteTree_purged` | `OnlyExpiredIsPurged` | the purge deletes a bundle that was restored and trashed again after it was listed |
| `MCNoteTree_moved` | `TreeRowsStay` | an extraction moves a document that is in the Trash |
| `MCNoteTree_cleared` | `TrashIsWhole` | Clear Vault removes the root of a bundle but not a note that was created after it listed the vault |
| `MCNoteTree_late` | `ClearFencesWorkers` | an import that was extracting makes a folder after Clear Vault has fenced the jobs |
| `MCStudyMap_twice` | `ProposedOnce` | a setup that stalls queues a second automatic proposal |
| `MCStudyMap_closed` | `ClosedStartsNothing` | a setup that began before the account was closed queues a job that a worker starts |
| `MCStudyMap_dismissed` | `DismissedStaysDeleted` | a page that listed a course makes its map again after the user deleted it |
| `MCStudyMap_cited` | `ProposalCitesMembers` | a proposal under way cites a material that was removed meanwhile |

## 4. Fairness

`ChatGeneration`: weak fairness of each slot's fault-free steps (a worker process
that is up runs its event loop; a provider call ends), of a lease lapsing (time
passes), and of the sweep (`repairQueues` every 30 s in every worker). Nothing is
assumed of clients, Stop, pruning or faults.

`ChatReplay`: weak fairness of the reader as a whole. A read returns or fails
(`BLOCK` 15 s, three retries per request), a reload returns, a browser
reconnects. Nothing is assumed of the worker or of Redis.

`ToolAction`: weak fairness of expiry and of the daily pruning. Nothing is assumed
of requests: each may stop where it is.

`MarkerDispatch`: consumers and sweeps take and finish what there is, time passes
(`Age`, `Expire`), the remote job ends, as its deadline makes it. Requests may
stop anywhere: a webhook may never come.

`CanvasImport`: a worker that is up works on and somebody takes what is queued,
the sweeps come again, leases end, retries come due, marker rows settle. Deaths
are not bounded. The property is about `CANVAS_CLAIM_RECOVERY=enabled`: by default
recovery only observes, and a run whose worker died stays open.

`FairDispatch`: the sweep comes every 30 s and finishes, workers end what they
take. Imports come again without end.

`NoteIndex`: the reindex workers, the daily reconciliation with its visibility
update, and the cleanup go on. Requests may stop anywhere.

`NoteTree`: the daily pass comes again (weak) and does not fail at one bundle for
ever (strong fairness of `PurgeOne`). Its listing limit is taken to be larger
than the Trash.

`StudyMap`: somebody claims again and again (strong: deaths and lapses disable a
claim), a worker that lives reads, publishes or gives up, a lease nobody renews
lapses, the reconcile pass comes every minute and does not fail at one step for
ever. Nothing is assumed of users and pages.

## 5. Proofs

`ChatGeneration_proofs` proves, for any sets of generations and slots and any
bounds, type correctness, all safety invariants and both action properties of
the runs, and that `ChatGeneration` implements `GenerationOutcome`. It assumes
only `MaxAttempts \in Nat \ {0}` and `MaxFaults \in Nat`.

The argument: no safety property is inductive alone, because what a worker does
next depends on what its row was when it looked. `IInv` adds that a token is a
number of a claim already made and no two runs share one (`RunInv`), that a live
lease belongs to the last claim (`RowInv`), what a run knows of the Stop flag
by where it is (`StopInv`) and what output it has by where it is (`OutputInv`).
`RowSteps` reduces every action to one of six ways a row can change; the row
invariants are proved once over these six, the run invariants per action. The
refinement follows from the same six: an insertion is `Submit`, a release to a
terminal status or a settlement is `Settle`, everything else stutters.

`ChatClient_proofs` proves of `ChatReplay` type correctness and all safety properties of
the run, and `EndIsWhole`, which no run repeats, for any number of runs, events, lost
connections, buffer and batch sizes. The invariant of `EndIsDurable` carries "told only
what the row says" from the browser back along the pipe: every terminal event in the
log, in a batch and in a buffer agrees with the settled row, and a settled row does not
change. `NoGaps`, `OneRunShown` and `EndIsWhole` need another (`OrderInv`), which holds
until a superseded run writes to the stream (`MCChatReplay_stale.cfg` shows what happens
then). Every event of the log and of the newest run's buffer `Joins` the one before it:
a token its predecessor or the reset, a terminal event the last token made. The view
ends with what the event behind the cursor joins (`AtCursor`). The reader's jump over
what `DEL` removed could break that; it does not, because what comes right behind the
cut is a reset or the end of a run that produced nothing.

Of `ChatSession` it proves type correctness for every `MaxActive`, and both
invariants of the run, for any generations, inline exchanges and overlapping
statements, of a client that lets one exchange run at a time (`MaxActive = 1`, what
the configuration has). `OneAtATime` says that of generations that are active, of
insertions in flight and of inline exchanges at most one is; it follows that no
statement's snapshot has seen another generation active (`Alone`), so that whichever
of a row's overlapping statements commits writes what the session should show
(`StatusShows`, which unlike the two invariants also speaks of what is in flight).
Without inline exchanges `SettledOneAtATime` adds that no settled session is left
`generating`: `MCChatSession_two.cfg` needs two exchanges at once to leave one, and
`MCChatSession_inline.cfg` an inline one.

`ToolAction_proofs` proves type correctness, all safety invariants, both action
properties, and that `ToolAction` implements `Approval`, for any number of proposals,
requests, connections and rows, assuming `ActionAssumption`: the bounds are naturals,
the cap is positive, and `None` and `"local"` are not connections. The invariant has two
parts. `DataInv` follows a row: an action leaves `pending` once, so at most one request
is ever between the claim and the write of it (`SoleInv`), that request has the target
that was shown and has not written yet (`DecInv`), and the log of writes is empty or
that one target (`WriteInv`). A write that is late is to the shown target, is the first,
and leaves no request that could send another (`LateInv`). A row may vanish under its
request, which is why `DecInv` speaks of the log and not only of the row. `CapInv`
follows the account's lock: from its count to its insertion a proposal is alone in
adding rows, others only remove them, so the count it made is still an upper bound; a
row it counted as deleted had expired, which is why `Capped` speaks of the rows that
have not.

The refinement maps each step by what it does to the phase and to `open`. That a
write is `CarryOut` needs the whole of `DataInv`: the action is open because its
request holds it or its write is late, it is closed afterwards because no other
request holds it (`SoleInv`) and nothing of it is late (`LateInv`), and what is
written is what was shown. That `Answer` may say `completed` is `DecInv`.

`FairDispatch_proofs` proves `Balanced` and the cap on marks for any users, files,
dispatchers and faults. A step of the weighted round robin raises every eligible
class by its weight and charges the winner the sum, so credits keep a zero sum; the
bound needs the box `-6..6`, `-7..7`, `-7..7` with zero sum, which is inductive
because a winner's raised credit is not negative. The cap is
inductive only of what a transaction sees: `MarksOK` says that at most one is past
the locks (`Sole`), that its view, uncommitted marks included, respects the cap
(`SeenCapped`), and that what it marks stays pending because the rows are locked
(`Locked`). `Pick` adds to a view below the cap, `Commit` makes the one view
everybody's, every other step takes marks away or moves a marked file between
statuses that count.

`Note_proofs` proves of `NoteTree`, for any folders, files, courses and bundles, that
the tree stays reachable and bundles whole (`TreeIsSound`, and `ClearKeepsReachable`
with Clear Vault when nothing is extracted), and three action properties. `TreeInv` has
five parts: `Shape` (what is in the Trash has a root, what is not has none), `Born` and
`Hangs` (a parent of a note that exists is a folder that has existed), `Acyclic`, stated
without paths as "every nonempty set of notes has one whose parent is outside it", and
`Below` (a bundle's members hang in their bundle). That a subtree or the ancestors of a
note are closed sets follows from their definition as least sets. The argument of a move
is that a set closed under parents that contains the moved note would contain it among
the ancestors of its new parent.

Of `NoteIndex` it proves type correctness, `FencedFromTrash`, and, if no worker dies
inside the publishing transaction (`"torn" \notin Faults`), `VectorsAreAccountedFor`,
for any workers, requests, contents and bounds. It assumes `IndexAssumption`. What
makes the latter inductive is that a set of chunks is its worker's alone until it is
published (`Fresh`, which needs `Numbered`: no number is given twice), and that a
worker about to delete rows has seen their vectors gone or written them down
(`Dropped`). So a step of one worker never takes away what accounts for a vector of
another. `FencedFromTrash` needs that whoever publishes holds the row of an active
note, alone (`Fenced`), because everything that changes the note's state waits for
that row.

`StudyMap_proofs` proves, for any notes, workers, setups, visitors, caps and
attempts, type correctness and every safety and action property of the runs, and
`OpenOnce`, which no run repeats. It assumes `StudyMapAssumption` (finitely many
numbered notes, positive bounds). `JobInv` says what a job's row tells about its result (one
publication if completed, none otherwise; withdrawn implies not open), `WorkInv` that
a token is one of the job's attempts and that what a worker has read is not newer
than the map, means the same while the taxonomy version is the same, and is older
once the user has edited it; `ResultInv` carries the latter into what is stored.
`AutoInv` is stronger than `FailedWaitsForUser`: the last job before an automatic one
completed, because the open ones block the queue and ended ones stay ended. All
steps reduce to two ways the jobs can change: each moves on as `JobKeeps` allows, or
new ones are added behind them for what is not queued (`AddsTo`). Finiteness of the
notes makes an enumeration of a batch injective, hence the notes of a batch distinct.

`MarkerDispatch_proofs` proves, for any consumers, sweeps, requests, completion
attempts and faults, every safety and action property of the run, and two more
(`CompletedHasResult`, `OverIsFinal`). It assumes `MarkerAssumption`: at least one
completion attempt, a finite number of faults. Paying once is not a guard of the code
but the sum of several: a row is claimed only from a status in which it has never been
claimed, the statuses after a claim never lead back to those, and between the claim
and the call one task at most is on its way (`SolePayer`). `TaskOK` carries what a
task has learnt: what is being completed has its object, and a webhook's flag is how
the provider's job ended, so a row it refused is contradicted by no later result.
`RowOK` and `Edge` are the table of all changes of a row; each action is shown once to
be in it, and the action properties follow from the table.

`CanvasImport_proofs` proves, for any files, workers, runs, limits and faults, with
claim recovery on or off, both properties of `canvas_work`, that a file is claimed a
bounded number of times (`BudgetHolds`), and that what is done or over stays so
(`CompleteWhenDone`, `OverIsFinal`). It assumes `CanvasAssumption`. Runs start in order
and only the last can be live (`JobInv`). A row's claims are paid: those before its
extraction is staged are executions, those after it, all but one, are retries; a requeued
discovery pays for one more execution, an unseen commit is paid by its fault (`Paid`).
A worker with a file holds a token the row gave it (`Claimed`); the one whose token is
still the row's knows what the row may yet spend (`Spends`), which is how a late
worker is kept from refilling the budget. Almost every action is `Ordinary`: the rows,
jobs and workers move as `RowGoes`, `JobGoes` and `WorkerGoes` allow, and the invariant
and the action properties are proved of those once. `BudgetHolds`, `CompleteWhenDone`,
`OverIsFinal` and the properties named as "more" above are in no configuration; TLC
checked them together with the inductive invariants before the proofs.

Only model-checked: liveness (`ImplementsFairOutcome`, `EventuallyTold`,
`EventuallyCleared`, `SentIsSettled`, `EventuallyOver`, `EventuallyDownloaded`,
`ReachedIsHidden`, `GoneLeavesNothing`, `ExpiredLeaves`, `EventuallyJudged`), which
the prover does not cover; of `ImplementsFairOutcome` the safety part is the theorem
`RefinesOutcome`. Every other property of the runs is the property of a theorem; where
it has a hypothesis (`MaxActive = 1`, `"torn" \notin Faults`), the configuration
satisfies it. `AnswerMatchesOutcome` of
`ChatGeneration` is proved and in no configuration, since `GenerationOutcome`, which
a run and `RefinesOutcome` compare with, couples message and outcome in each step.

## 6. Not modelled, and next

1. `ChatSession` extended with session deletion (`sessions/[id]/route.ts` stops
   the generations it listed, then deletes).
2. A death inside the publishing transaction of an index, once the code lists Qdrant
   for points without a row.
3. The import cache's ownership (`import-cache.ts`) over `CanvasImport`.
4. Vault jobs, which claim and retry like study-map jobs.
5. `LoginLockout`, mobile grants, the rate limiter's windows, chat presence.

Not planned: rendering, formatting and translation; provider and Canvas HTTP
clients; scheduling arithmetic inside ts-fsrs; schema migrations and CI.
