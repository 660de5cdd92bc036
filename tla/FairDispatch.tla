---------------------------- MODULE FairDispatch ----------------------------
(***************************************************************************)
(* dispatchFairCanvasFiles: which pending files go to the workers.  Service *)
(* classes compete by weight (ClassShares), the users of a class take turns, *)
(* a user's oldest file goes first.  A dispatch is marked on the row        *)
(* (dispatched_at) in a transaction and published after it, so a message    *)
(* may be missing for a mark; after five minutes a mark is taken back, so   *)
(* it may be missing for a message.                                        *)
(*                                                                         *)
(* A transaction sees its own marks; the others see them when it commits.   *)
(* Two locks keep transactions apart: an advisory one taken first, and the  *)
(* rows of the classes, which every slot reads FOR UPDATE.  What happens to *)
(* a file between its claim and its end is in CanvasImport; here it is      *)
(* reduced to what the two caps count.  Every early release of a mark,      *)
(* failed publication, row lock and dead dispatcher spends one of           *)
(* MaxFaults.                                                              *)
(***************************************************************************)
EXTENDS ClassShares, FiniteSets

CONSTANTS
  User, File,     \* files are numbered in the order of created_at
  ClassOf, Owner, \* [User -> Class], [File -> User]
  Dispatcher,
  Slots,          \* the limit of one call
  MaxInFlight,    \* MAX_IN_FLIGHT_DOWNLOADS_PER_USER, 2
  MaxDownstream,  \* MAX_PENDING_EXTRACTIONS_PER_USER, 8
  MaxTries,       \* bound on the downloads of a file in one import
  Retried,        \* the files whose downloads and extractions are tried again
  MaxFaults

ASSUME FairAssumption ==
  /\ File \subseteq Nat /\ IsFiniteSet(File)
  /\ ClassOf \in [User -> Class] /\ Owner \in [File -> User]
  /\ Slots \in Nat /\ MaxInFlight \in Nat \ {0} /\ MaxDownstream \in Nat \ {0}
  /\ MaxTries \in Nat /\ MaxFaults \in Nat /\ Retried \subseteq File

VARIABLES
  file,      \* [File -> what the caps see of its canvas_imports row]
  served,    \* [User -> last_dispatched_at], 0 for a user who was never served
  now,       \* [Dispatcher -> when its transaction began], 0 outside one
  queue,     \* files with a canvas-file message
  dispatch,  \* [Dispatcher -> where its call is]
  faults

scheduler == <<credit, served, now, dispatch>>
vars == <<scheduler, file, queue, faults>>

Status == {"new", "pending", "cached", "downloading", "extracting", "waiting", "over"}
FileRow == [status : Status, marked : BOOLEAN, due : BOOLEAN, tries : 0..MaxTries]

\* Where a call is, the slots its transaction has left, the class it has chosen last, and
\* the files it has marked and not yet published.
Call == [step : {"out", "waiting", "choosing", "picking"}, slots : 0..Slots,
         class : Class, files : SUBSET File]

TypeOK ==
  /\ credit \in [Class -> Int]
  /\ file \in [File -> FileRow]
  /\ served \in [User -> Nat] /\ now \in [Dispatcher -> Nat]
  /\ queue \subseteq File
  /\ dispatch \in [Dispatcher -> Call]
  /\ faults \in 0..MaxFaults

New == [status |-> "new", marked |-> FALSE, due |-> TRUE, tries |-> 0]
\* A mark is left out where neither cap looks at it.
Over == [New EXCEPT !.status = "over"]
Out == [step |-> "out", slots |-> 0, class |-> "free", files |-> {}]

FairInit ==
  /\ Init
  /\ file = [f \in File |-> New]
  /\ served = [u \in User |-> 0] /\ queue = {}
  /\ now = [d \in Dispatcher |-> 0] /\ dispatch = [d \in Dispatcher |-> Out]
  /\ faults = 0

Fault == faults < MaxFaults /\ faults' = faults + 1

InTransaction(d) == dispatch[d].step \in {"choosing", "picking"}
Uncommitted(d) == IF InTransaction(d) THEN dispatch[d].files ELSE {}
RowLocked == UNION {Uncommitted(d) : d \in Dispatcher}

\* What d's statements see of dispatched_at.
Marked(d, f) == file[f].marked \/ f \in Uncommitted(d)

FilesOf(u) == {f \in File : Owner[f] = u}
InFlight(d, u) == {f \in FilesOf(u) : Marked(d, f) /\ file[f].status \in {"pending", "downloading"}}
Downstream(u) == {f \in FilesOf(u) : file[f].status = "extracting"}

Set(f, row) == file' = [file EXCEPT ![f] = row]

-----------------------------------------------------------------------------
(* dispatchFairCanvasFiles.                                                *)

Unmark(f) == [file[f] EXCEPT !.marked = FALSE]

\* recoverStaleCanvasDispatches: the mark is five minutes old.  Unless the message was lost
\* it is still waiting for a worker.
Release(f) ==
  /\ file[f].status = "pending" /\ file[f].marked
  /\ IF f \in queue \/ \E d \in Dispatcher : f \in dispatch[d].files
       THEN Fault ELSE UNCHANGED faults
  /\ Set(f, Unmark(f))
  /\ UNCHANGED <<scheduler, queue>>

\* The shared PDF is ready, or its producer stopped.
ReleaseWaiting(f) ==
  /\ file[f].status = "cached"
  /\ Set(f, [Unmark(f) EXCEPT !.status = "pending", !.due = TRUE])
  /\ UNCHANGED <<scheduler, queue, faults>>

\* Those the order of service compares.
Rivals == {u \in User : \E v \in User \ {u} : ClassOf[v] = ClassOf[u]}

\* Of times only the order matters: what is kept is their ranks.
KeepTimes(begun, last) ==
  LET times == {begun[d] : d \in Dispatcher} \cup {last[u] : u \in Rivals}
      Rank(t) == Cardinality({x \in times : 0 < x /\ x <= t})
  IN /\ now' = [d \in Dispatcher |-> Rank(begun[d])]
     /\ served' = [u \in User |-> IF u \in Rivals THEN Rank(last[u]) ELSE 0]

Later == 1 + Cardinality(Dispatcher) + Cardinality(User)

\* One call; its caller waits for it.  NOW() is the time of the transaction's start, before
\* it waits for the advisory lock.
Begin(d) ==
  /\ dispatch[d] = Out
  /\ dispatch' = [dispatch EXCEPT ![d].step = "waiting"]
  /\ KeepTimes([now EXCEPT ![d] = Later], served)
  /\ UNCHANGED <<credit, file, queue, faults>>

\* Mutant: the statements run outside a transaction, so that neither lock outlives its
\* statement.
NotSerial(d) == TRUE

\* Nobody else holds the advisory lock, or the rows of the classes.
Serial(d) == \A e \in Dispatcher \ {d} : ~InTransaction(e)

Lock(d) ==
  /\ dispatch[d].step = "waiting" /\ Serial(d)
  /\ dispatch' = [dispatch EXCEPT ![d].step = "choosing", ![d].slots = Slots]
  /\ UNCHANGED <<credit, served, now, file, queue, faults>>

Eligible(d) ==
  {f \in File : /\ file[f].status = "pending" /\ ~Marked(d, f) /\ file[f].due
                /\ Cardinality(InFlight(d, Owner[f])) < MaxInFlight
                /\ Cardinality(Downstream(Owner[f])) < MaxDownstream}

\* The class of the next slot; it pays whether or not a file of it can be picked.
Weigh(d) ==
  LET classes == {ClassOf[Owner[f]] : f \in Eligible(d)}
  IN /\ dispatch[d].step = "choosing" /\ dispatch[d].slots > 0 /\ Serial(d)
     /\ \E c \in classes :
          /\ Choose(classes, c)
          /\ dispatch' = [dispatch EXCEPT ![d].step = "picking", ![d].class = c]
     /\ UNCHANGED <<served, now, file, queue, faults>>

\* Users who were served in the same transaction tie, and the older file goes first.
Before(f, g) ==
  \/ served[Owner[f]] < served[Owner[g]]
  \/ served[Owner[f]] = served[Owner[g]] /\ f <= g

\* A statement of its own, which counts again.  Rows somebody has locked are skipped.
Pick(d) ==
  LET candidates == {f \in Eligible(d) \ RowLocked : ClassOf[Owner[f]] = dispatch[d].class}
      Done(files) == dispatch' = [dispatch EXCEPT
        ![d].step = "choosing", ![d].slots = @ - 1, ![d].files = @ \cup files]
  IN /\ dispatch[d].step = "picking"
     /\ \E free \in SUBSET candidates :
          /\ IF free = candidates THEN UNCHANGED faults ELSE Fault
          /\ \/ free = {} /\ Done({}) /\ UNCHANGED <<served, now>>
             \/ \E f \in free :
                  /\ \A g \in free : Before(f, g)
                  /\ Done({f})
                  /\ KeepTimes(now, [served EXCEPT ![Owner[f]] = now[d]])
     /\ UNCHANGED <<credit, file, queue>>

Commit(d) ==
  /\ dispatch[d].step = "choosing" /\ (dispatch[d].slots = 0 \/ Eligible(d) = {})
  /\ file' = [f \in File |->
       IF f \in dispatch[d].files THEN [file[f] EXCEPT !.marked = TRUE] ELSE file[f]]
  /\ dispatch' = [dispatch EXCEPT ![d] = [Out EXCEPT !.files = dispatch[d].files]]
  /\ KeepTimes([now EXCEPT ![d] = 0], served)
  /\ UNCHANGED <<credit, queue, faults>>

\* After the commit.  A publication that fails takes the mark back; whether the message got
\* through is not known.
Send(d) ==
  /\ dispatch[d].step = "out"
  /\ \E f \in dispatch[d].files :
       /\ dispatch' = [dispatch EXCEPT ![d].files = @ \ {f}]
       /\ \/ queue' = queue \cup {f} /\ UNCHANGED <<file, faults>>
          \/ /\ Fault /\ queue' \in {queue, queue \cup {f}}
             /\ Set(f, IF file[f].status = "pending" THEN Unmark(f) ELSE file[f])
  /\ UNCHANGED <<credit, served, now>>

\* The dispatcher dies with messages unsent, or in its transaction, which is rolled back: it
\* never happened, as if it had died before it got the lock.
DieDispatching(d) ==
  /\ Fault
  /\ \/ dispatch[d].step = "waiting"
     \/ dispatch[d].step = "out" /\ dispatch[d].files # {}
  /\ dispatch' = [dispatch EXCEPT ![d] = Out]
  /\ KeepTimes([now EXCEPT ![d] = 0], served)
  /\ UNCHANGED <<credit, file, queue>>

-----------------------------------------------------------------------------
(* What the rest of the import does to the rows (CanvasImport).            *)

\* insertPendingFile.
Discover(f) ==
  /\ file[f].status = "new" /\ Set(f, [New EXCEPT !.status = "pending"])
  /\ UNCHANGED <<scheduler, queue, faults>>

\* A later import of the same files.
Rediscover(u) ==
  /\ FilesOf(u) # {} /\ \A f \in FilesOf(u) : file[f].status = "over"
  /\ file' = [f \in File |-> IF f \in FilesOf(u) THEN New ELSE file[f]]
  /\ UNCHANGED <<scheduler, queue, faults>>

\* The claim of processCanvasFile neither reads nor sets the mark; it waits for a dispatcher
\* that is marking the row.
Claim(f) ==
  /\ f \in queue \ RowLocked /\ queue' = queue \ {f}
  /\ IF file[f].status = "pending" /\ file[f].due
       THEN Set(f, [file[f] EXCEPT !.status = "downloading"]) ELSE UNCHANGED file
  /\ UNCHANGED <<scheduler, faults>>

\* A download ends: it is staged for extraction, fails for good, is served from the shared
\* cache, waits for it, or fails and is tried again.
Leave(f) ==
  /\ file[f].status = "downloading"
  /\ \/ Set(f, [Unmark(f) EXCEPT !.status = "extracting"])
     \/ Set(f, Over)
     \/ f \in Retried /\ file[f].tries < MaxTries
        /\ Set(f, [Unmark(f) EXCEPT !.status = "cached", !.tries = @ + 1])
     \/ f \in Retried /\ file[f].tries < MaxTries
        /\ Set(f, [Unmark(f) EXCEPT !.status = "pending", !.due = FALSE, !.tries = @ + 1])
  /\ UNCHANGED <<scheduler, queue, faults>>

ComeDue(f) ==
  /\ file[f].status = "pending" /\ ~file[f].due
  /\ Set(f, [file[f] EXCEPT !.due = TRUE])
  /\ UNCHANGED <<scheduler, queue, faults>>

\* An extraction ends or waits for a retry or for Marker, and comes back.
Extract(f) ==
  /\ \/ file[f].status = "extracting" /\ Set(f, Over)
     \/ /\ file[f].status = "extracting" /\ f \in Retried /\ file[f].tries < MaxTries
        /\ Set(f, [file[f] EXCEPT !.status = "waiting", !.tries = @ + 1])
     \/ file[f].status = "waiting" /\ Set(f, [file[f] EXCEPT !.status = "extracting"])
  /\ UNCHANGED <<scheduler, queue, faults>>

Sweep(d) == Begin(d) \/ Lock(d) \/ Weigh(d) \/ Pick(d) \/ Commit(d) \/ Send(d)
Advance(f) ==
  Release(f) \/ ReleaseWaiting(f) \/ Discover(f) \/ Claim(f) \/ Leave(f) \/ ComeDue(f) \/ Extract(f)

FairNext ==
  \/ \E d \in Dispatcher : Sweep(d) \/ DieDispatching(d)
  \/ \E f \in File : Advance(f)
  \/ \E u \in User : Rediscover(u)

DispatchSpec == FairInit /\ [][FairNext]_vars

Healthy(A) == A /\ UNCHANGED faults

\* The sweep comes every 30 seconds and after every file; workers end what they take, wherever
\* it goes.
FairSpec ==
  /\ DispatchSpec
  /\ \A d \in Dispatcher : WF_vars(Healthy(Sweep(d)))
  /\ \A f \in File : WF_vars(Healthy(Advance(f)))

-----------------------------------------------------------------------------

\* Several dispatchers that wait for one another, count, mark and commit, die, lose
\* publications and take marks back never have more than two of a user's files marked at once.
InFlightCapped ==
  \A u \in User :
    Cardinality({f \in FilesOf(u) : file[f].marked /\ file[f].status \in {"pending", "downloading"}})
      <= MaxInFlight

\* What the comment on dispatchFairCanvasFiles says: `Each user can have two active
\* downloads'.
DownloadsCapped ==
  \A u \in User : Cardinality({f \in FilesOf(u) : file[f].status = "downloading"}) <= MaxInFlight

\* Whatever the other users import meanwhile, again and again all files of a user that are
\* pending have been downloaded or given up.
EventuallyDownloaded ==
  \A u \in User : []<>(\A f \in FilesOf(u) : file[f].status # "pending")
=============================================================================
