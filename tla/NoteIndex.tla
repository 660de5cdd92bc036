------------------------------ MODULE NoteIndex ------------------------------
(***************************************************************************)
(* The search index of one note: its rows in app.chunks, its vectors in    *)
(* Qdrant, and the note-reindex job that rebuilds both after a save.       *)
(*                                                                         *)
(* One indexing writes one set of chunks, which is a pair of its number    *)
(* and the content it was cut from; a set is in the table or in Qdrant as  *)
(* a whole.  The transaction that publishes it holds the note's row while  *)
(* it talks to Qdrant, so nothing that locks the note runs in between;     *)
(* what follows the commit runs without a lock.                            *)
(*                                                                         *)
(* A request to Qdrant that fails may have taken effect by then.  Every    *)
(* failure spends one of MaxFaults, which is less than the job's attempts, *)
(* and no call meets a failure of Qdrant and of the database at once.      *)
(***************************************************************************)
EXTENDS Integers, FiniteSets

CONSTANTS
  Worker, Request,
  MaxContent,  \* contents of the note are 0..MaxContent, 0 is empty
  Undo,        \* whether a content can come back
  Restorable,  \* whether a trashed note can come back
  MaxWrites,   \* bound on saves and moves to and from the Trash
  MaxSets,     \* bound on the indexings
  Batch,       \* the sets of chunks the daily reconciliation takes, retentionBatchSize() * 20
  Faults,      \* the kinds of failures that happen
  MaxFaults

\* A process dies ("death"), and a worker does so between its vectors and its commit ("torn").
FaultKind == {"qdrant", "database", "embedding", "queue", "death", "torn", "stall"}

ASSUME IndexAssumption ==
  /\ MaxContent \in Nat /\ MaxWrites \in Nat /\ MaxSets \in Nat /\ MaxFaults \in Nat /\ Batch \in Nat
  /\ Undo \in BOOLEAN /\ Restorable \in BOOLEAN /\ Faults \subseteq FaultKind

VARIABLES
  note,     \* the row: its state, content, updated_at and extracted_text; while it is in the
            \* Trash, how many older sets of chunks other trashed notes have, up to Batch
  chunks,   \* app.chunks
  shown,    \* sets of vectors a search considers
  hidden,   \* sets of vectors with searchable = false
  journal,  \* note_deletion_cleanup_tasks.chunk_ids
  job,      \* the note-reindex job: waiting, or to be added after the active one
  run,      \* [Worker -> the indexing it is in]
  call,     \* [Request \cup {"sweep"} -> its update of vector visibility]
  minted, faults

indexVars == <<note, chunks, shown, hidden, journal, job, run, call, minted, faults>>

Content == 0..MaxContent
ChunkSet == (1..MaxSets) \X Content
ContentOf(set) == set[2]

NoteRow == [state : {"active", "trashed", "gone"}, content : Content,
            stamp : 0..MaxWrites, text : Content, ahead : 0..Batch]
Pc == {"idle", "embed", "commit", "undo", "check", "hide", "vectors", "rows", "stamp"}
NoSet == <<0, 0>>
Run == [pc : Pc, set : ChunkSet \cup {NoSet}, stamp : 0..MaxWrites, old : SUBSET ChunkSet,
        owns : BOOLEAN]
Call == [pc : {"idle", "read", "set"}, value : BOOLEAN, sets : SUBSET ChunkSet]

IndexTypeOK ==
  /\ note \in NoteRow
  /\ chunks \subseteq ChunkSet /\ shown \subseteq ChunkSet /\ hidden \subseteq ChunkSet
  /\ shown \cap hidden = {}
  /\ journal \subseteq ChunkSet
  /\ job \in [waiting : BOOLEAN, again : BOOLEAN]
  /\ run \in [Worker -> Run] /\ call \in [Request \cup {"sweep"} -> Call]
  /\ minted \in 0..MaxSets /\ faults \in 0..MaxFaults

Idle == [pc |-> "idle", set |-> NoSet, stamp |-> 0, old |-> {}, owns |-> FALSE]
NoCall == [pc |-> "idle", value |-> FALSE, sets |-> {}]

IndexInit ==
  /\ note = [state |-> "active", content |-> 0, stamp |-> 0, text |-> 0, ahead |-> 0]
  /\ chunks = {} /\ shown = {} /\ hidden = {} /\ journal = {}
  /\ job = [waiting |-> FALSE, again |-> FALSE]
  /\ run = [w \in Worker |-> Idle]
  /\ call = [r \in Request \cup {"sweep"} |-> NoCall]
  /\ minted = 0 /\ faults = 0

Fault(kind) == kind \in Faults /\ faults < MaxFaults /\ faults' = faults + 1

\* No publication holds the note's row.
Unlocked == \A w \in Worker : run[w].pc # "commit"

-----------------------------------------------------------------------------
(* The note-reindex job.  Its deduplication keeps one waiting or active,   *)
(* and one to follow the active one.                                       *)

ActiveJob == \E w \in Worker : run[w].pc # "idle" /\ run[w].owns

Enqueue ==
  job' = IF ActiveJob THEN [job EXCEPT !.again = TRUE] ELSE [job EXCEPT !.waiting = TRUE]

FollowUp == job' = [waiting |-> job.again, again |-> FALSE]
Retry(w) == job' = IF run[w].owns THEN [job EXCEPT !.waiting = TRUE] ELSE job

Goto(w, pc) == run' = [run EXCEPT ![w].pc = pc]
Leave(w) == run' = [run EXCEPT ![w] = Idle]

Return(w) == Leave(w) /\ IF run[w].owns THEN FollowUp ELSE UNCHANGED job

Throw(w) == Leave(w) /\ Retry(w)

\* runReindex: the note is read without a lock.
Take(w) ==
  /\ run[w].pc = "idle" /\ job.waiting
  /\ IF note.state # "active" \/ note.content = note.text
       THEN FollowUp /\ UNCHANGED <<run, minted>>
       ELSE /\ minted < MaxSets /\ minted' = minted + 1
            /\ job' = [job EXCEPT !.waiting = FALSE]
            /\ run' = [run EXCEPT ![w] =
                 [pc |-> "embed", set |-> <<minted + 1, note.content>>,
                  stamp |-> note.stamp, old |-> {}, owns |-> TRUE]]
  /\ UNCHANGED <<note, chunks, shown, hidden, journal, call, faults>>

Fails(w) ==
  /\ \/ run[w].pc = "embed" /\ Fault("embedding")
     \/ run[w].pc \in {"check", "rows", "stamp"} /\ Fault("database")
  /\ Throw(w)
  /\ UNCHANGED <<note, chunks, shown, hidden, journal, call, minted>>

\* Mutant: the note is locked whatever its state.
OpenAny(w) ==
  /\ run[w].pc = "embed" /\ Unlocked /\ ContentOf(run[w].set) # 0
  /\ run' = [run EXCEPT ![w].pc = "commit", ![w].old = chunks]
  /\ shown' = shown \cup {run[w].set}
  /\ UNCHANGED <<note, chunks, hidden, journal, job, call, minted, faults>>

\* replaceNoteEmbeddings up to the answer of Qdrant.  A note that is no longer active is left
\* alone, and its job goes on to the stamp.
Open(w) ==
  /\ run[w].pc = "embed" /\ Unlocked
  /\ IF note.state # "active"
       THEN Goto(w, "stamp") /\ UNCHANGED <<shown, faults>>
     ELSE IF ContentOf(run[w].set) = 0
       THEN run' = [run EXCEPT ![w].pc = "vectors", ![w].old = chunks] /\ UNCHANGED <<shown, faults>>
     ELSE \/ /\ run' = [run EXCEPT ![w].pc = "commit", ![w].old = chunks]
             /\ shown' = shown \cup {run[w].set}
             /\ UNCHANGED faults
          \/ /\ Fault("qdrant") /\ Goto(w, "undo")
             /\ shown' \in {shown, shown \cup {run[w].set}}
  /\ UNCHANGED <<note, chunks, hidden, journal, job, call, minted>>

\* The commit may fail, or only its answer.
Commit(w) ==
  /\ run[w].pc = "commit"
  /\ \/ chunks' = chunks \cup {run[w].set} /\ Goto(w, "check") /\ UNCHANGED faults
     \/ /\ Fault("database") /\ Goto(w, "undo")
        /\ chunks' \in {chunks, chunks \cup {run[w].set}}
  /\ UNCHANGED <<note, shown, hidden, journal, job, call, minted>>

\* Mutant: a delete that fails is dropped.
DeleteOrForget(sets) ==
  \/ /\ shown' = shown \ sets /\ hidden' = hidden \ sets
     /\ UNCHANGED <<journal, faults>>
  \/ Fault("qdrant") /\ UNCHANGED <<journal, shown, hidden>>

\* deleteVectorsOrJournal.
Delete(sets) ==
  \/ /\ shown' = shown \ sets /\ hidden' = hidden \ sets
     /\ UNCHANGED <<journal, faults>>
  \/ /\ Fault("qdrant") /\ journal' = journal \cup sets
     /\ UNCHANGED <<shown, hidden>>

UndoVectors(w) ==
  /\ run[w].pc = "undo"
  /\ Delete({run[w].set}) /\ Throw(w)
  /\ UNCHANGED <<note, chunks, call, minted>>

\* After the commit the note may have been moved to the Trash.
Check(w) ==
  /\ run[w].pc = "check"
  /\ Goto(w, IF note.state = "trashed" THEN "hide" ELSE "vectors")
  /\ UNCHANGED <<note, chunks, shown, hidden, journal, job, call, minted, faults>>

SetSearchable(sets, value) ==
  LET there == sets \cap (shown \cup hidden)
  IN IF value THEN shown' = shown \cup there /\ hidden' = hidden \ there
              ELSE hidden' = hidden \cup there /\ shown' = shown \ there

\* A failure is only logged.
TrySetSearchable(sets, value) ==
  \/ SetSearchable(sets, value) /\ UNCHANGED faults
  \/ Fault("qdrant") /\ UNCHANGED <<shown, hidden>>

Hide(w) ==
  /\ run[w].pc = "hide"
  /\ TrySetSearchable({run[w].set}, FALSE) /\ Goto(w, "vectors")
  /\ UNCHANGED <<note, chunks, journal, job, call, minted>>

\* deleteChunkSet: the vectors, then the rows.
DropVectors(w) ==
  /\ run[w].pc = "vectors"
  /\ Delete(run[w].old) /\ Goto(w, "rows")
  /\ UNCHANGED <<note, chunks, job, call, minted>>

DropRows(w) ==
  /\ run[w].pc = "rows"
  /\ chunks' = chunks \ run[w].old /\ Goto(w, "stamp")
  /\ UNCHANGED <<note, shown, hidden, journal, job, call, minted, faults>>

Current(w) == note.state = "active" /\ note.stamp = run[w].stamp

\* The index is recorded for the body it was built from, or the job is queued again.
Stamp(w) ==
  /\ run[w].pc = "stamp" /\ Unlocked
  /\ \/ /\ Current(w)
        /\ note' = [note EXCEPT !.text = ContentOf(run[w].set)]
        /\ Return(w) /\ UNCHANGED faults
     \/ /\ ~Current(w) /\ Leave(w) /\ UNCHANGED <<note, faults>>
        /\ IF run[w].owns THEN job' = [waiting |-> TRUE, again |-> FALSE] ELSE Enqueue
     \/ ~Current(w) /\ Fault("queue") /\ Throw(w) /\ UNCHANGED note
  /\ UNCHANGED <<chunks, shown, hidden, journal, call, minted>>

\* A dead worker's transaction is rolled back and its job is delivered again.
Die(w) ==
  /\ run[w].pc # "idle" /\ Throw(w)
  /\ Fault(IF run[w].pc \in {"commit", "undo"} THEN "torn" ELSE "death")
  /\ UNCHANGED <<note, chunks, shown, hidden, journal, call, minted>>

\* BullMQ delivers the job of a worker that does not answer again; the worker carries on.
Stall(w) ==
  /\ run[w].pc # "idle" /\ run[w].owns /\ Fault("stall")
  /\ run' = [run EXCEPT ![w].owns = FALSE] /\ Retry(w)
  /\ UNCHANGED <<note, chunks, shown, hidden, journal, call, minted>>

Reindex(w) ==
  Take(w) \/ Open(w) \/ Commit(w) \/ UndoVectors(w) \/ Check(w) \/ Hide(w)
    \/ DropVectors(w) \/ DropRows(w) \/ Stamp(w)

-----------------------------------------------------------------------------
(* Saves, the Trash and permanent deletion.                                *)

Write == Unlocked /\ note.stamp < MaxWrites

\* A save is queued after its commit; a queue that refuses it is logged.
Save ==
  /\ Write /\ note.state = "active"
  /\ \E content \in Content \ {note.content} :
       /\ Undo \/ content = note.content + 1
       /\ note' = [note EXCEPT !.content = content, !.stamp = @ + 1]
  /\ \/ Enqueue /\ UNCHANGED faults
     \/ Fault("queue") /\ UNCHANGED job
  /\ UNCHANGED <<chunks, shown, hidden, journal, run, call, minted>>

\* moveSubtreeToTrash and restoreTrashRoot: visibility follows the transaction.
MoveNote(r, from, to) ==
  /\ Write /\ call[r].pc = "idle" /\ note.state = from
  /\ \E n \in IF to = "trashed" THEN 0..Batch ELSE {0} :
       note' = [note EXCEPT !.state = to, !.stamp = @ + 1, !.ahead = n]
  /\ call' = [call EXCEPT ![r] = [NoCall EXCEPT !.pc = "read", !.value = (to = "active")]]
  /\ UNCHANGED <<chunks, shown, hidden, journal, job, run, minted, faults>>

TrashNote(r) == MoveNote(r, "active", "trashed")
RestoreNote(r) == Restorable /\ MoveNote(r, "trashed", "active")

\* updateVectorVisibility.
ReadChunks(r) ==
  /\ call[r].pc = "read"
  /\ call' = [call EXCEPT ![r].pc = "set", ![r].sets = chunks]
  /\ UNCHANGED <<note, chunks, shown, hidden, journal, job, run, minted, faults>>

SetVisibility(r) ==
  /\ call[r].pc = "set"
  /\ TrySetSearchable(call[r].sets, call[r].value)
  /\ call' = [call EXCEPT ![r] = NoCall]
  /\ UNCHANGED <<note, chunks, journal, job, run, minted>>

DieRequest(r) ==
  /\ call[r].pc # "idle" /\ Fault("death")
  /\ call' = [call EXCEPT ![r] = NoCall]
  /\ UNCHANGED <<note, chunks, shown, hidden, journal, job, run, minted>>

\* Mutant: vectors of trashed notes are left as they are.
NoReconciliation == FALSE /\ UNCHANGED indexVars

\* reconcileTrashedVectorVisibility, daily: the oldest chunks of everybody's trashed notes,
\* the same ones every day.
Reconcile ==
  /\ call["sweep"].pc = "idle" /\ note.state = "trashed"
  /\ \E sets \in SUBSET chunks :
       /\ sets # {}
       /\ \/ sets = chunks /\ note.ahead + Cardinality(sets) <= Batch
          \/ note.ahead + Cardinality(sets) = Batch
       /\ call' = [call EXCEPT !["sweep"] = [pc |-> "set", value |-> FALSE, sets |-> sets]]
  /\ UNCHANGED <<note, chunks, shown, hidden, journal, job, run, minted, faults>>

\* Notes of other users are trashed, restored and purged.
OthersMove ==
  /\ note.state = "trashed"
  /\ \E n \in {note.ahead - 1, note.ahead + 1} \cap 0..Batch : note' = [note EXCEPT !.ahead = n]
  /\ UNCHANGED <<chunks, shown, hidden, journal, job, run, call, minted, faults>>

\* removeNoteRowsPermanently, from the Trash or with the whole vault.
RemoveNote ==
  /\ Unlocked /\ note.state # "gone"
  /\ note' = [note EXCEPT !.state = "gone", !.ahead = 0]
  /\ chunks' = {} /\ journal' = journal \cup chunks
  /\ UNCHANGED <<shown, hidden, job, run, call, minted, faults>>

\* Mutant: a task that fails is dropped.
CleanupOnce ==
  /\ \E set \in journal :
       /\ journal' = journal \ {set}
       /\ \/ shown' = shown \ {set} /\ hidden' = hidden \ {set} /\ UNCHANGED faults
          \/ Fault("qdrant") /\ UNCHANGED <<shown, hidden>>
  /\ UNCHANGED <<note, chunks, job, run, call, minted>>

\* processNoteDeletionCleanupTask: a task that fails or is cut off stays.
Cleanup ==
  /\ \E set \in journal :
       /\ shown' = shown \ {set} /\ hidden' = hidden \ {set}
       /\ \/ journal' = journal \ {set} /\ UNCHANGED faults
          \/ Fault("database") /\ UNCHANGED journal
  /\ UNCHANGED <<note, chunks, job, run, call, minted>>

IndexNext ==
  \/ \E w \in Worker : Reindex(w) \/ Fails(w) \/ Die(w) \/ Stall(w)
  \/ Save \/ RemoveNote \/ Reconcile \/ OthersMove \/ Cleanup
  \/ \E r \in Request : TrashNote(r) \/ RestoreNote(r)
  \/ \E r \in Request \cup {"sweep"} : ReadChunks(r) \/ SetVisibility(r) \/ DieRequest(r)

IndexSpec == IndexInit /\ [][IndexNext]_indexVars

\* Workers and the daily maintenance keep running; requests may stop anywhere.
IndexFairSpec ==
  /\ IndexSpec
  /\ \A w \in Worker : WF_indexVars(Reindex(w))
  /\ WF_indexVars(Reconcile) /\ WF_indexVars(SetVisibility("sweep")) /\ WF_indexVars(Cleanup)

-----------------------------------------------------------------------------

\* A deletion either prevents vectors or knows them: vectors belong to a row, to a task that
\* will delete them, or to the publication that is about to commit or to take them back.
\* It takes a worker's death in that transaction ("torn") to leave one behind.
VectorsAreAccountedFor ==
  \A set \in (shown \cup hidden) \ (chunks \cup journal) :
    \E w \in Worker : run[w].set = set /\ run[w].pc \in {"commit", "undo"}

\* No indexer publishes, neither vectors nor rows, for a note that has been moved to the Trash
\* or removed, however long ago it read it.
FencedFromTrash ==
  [][note.state # "active" =>
       shown' \subseteq shown \cup hidden /\ chunks' \subseteq chunks]_indexVars

Quiet ==
  /\ ~job.waiting /\ ~job.again
  /\ \A w \in Worker : run[w].pc = "idle"
  /\ \A r \in DOMAIN call : call[r].pc = "idle"

Indexed == {ContentOf(set) : set \in chunks}

\* Once nothing is under way, the index of an active note holds its body and nothing else:
\* `safe to run late or more than once', and never `an index that describes an older body'
\* (reindexNote).
IndexIsCurrent ==
  Quiet /\ note.state = "active" => Indexed = {note.content} \ {0}

\* Once nothing is under way, what is indexed of an active note is searched.
RestoredIsSearched == Quiet /\ note.state = "active" => hidden \cap chunks = {}

\* A note that stays in the Trash, and that the daily batch reaches from some day on, stops
\* using up recall, whatever its worker and the requests failed to hide.
ReachedIsHidden ==
  <>[](note.state = "trashed" /\ note.ahead + Cardinality(chunks) <= Batch)
    => <>[](chunks \cap shown = {})

\* What the comment on reconcileTrashedVectorVisibility says of every trashed note: it `keeps
\* retained vectors from degrading semantic-search recall until their bundle is restored'.
TrashedIsHidden == <>[](note.state = "trashed") => <>[](chunks \cap shown = {})

\* A note that is gone leaves no vector.
GoneLeavesNothing == <>[](note.state = "gone") => <>[](shown = {} /\ hidden = {})
=============================================================================
