------------------------------- MODULE NoteTree -------------------------------
(***************************************************************************)
(* One user's notes and folders: creation, moves, Trash bundles, restore,  *)
(* permanent deletion, the daily purge, Clear Vault, the folder of a       *)
(* Canvas course and the folder an extraction makes for its document.      *)
(*                                                                         *)
(* Every structural write runs in a transaction under the user's advisory  *)
(* lock, so each is one step.  What spans several transactions is split:   *)
(* Empty Trash and the purge list bundles and delete them one by one,      *)
(* Clear Vault lists the notes in one transaction and deletes them in      *)
(* another, the import dialog lists the bundles it offers to restore, and  *)
(* an extraction runs long after it has seen its document active.          *)
(*                                                                         *)
(* A refused request changes nothing and is no step.  Identifiers are      *)
(* fresh UUIDs: a note that is gone does not come back.                    *)
(***************************************************************************)
EXTENDS Naturals, FiniteSets

CONSTANTS
  Folders, Files,
  Courses,    \* folders with the identity of one Canvas course
  Bundles,    \* folders only an extraction makes
  Titles, Title,  \* a file's title is the one its extraction bundle would get
  Extracted,  \* files that are extracted
  Top,        \* parent_id NULL
  MaxTrashed  \* bound on moves to the Trash

Notes == Folders \cup Files
Places == Folders \cup {Top}

ASSUME TreeAssumption ==
  /\ Folders \cap Files = {} /\ Top \notin Notes
  /\ Courses \subseteq Folders /\ Bundles \subseteq Folders /\ Courses \cap Bundles = {}
  /\ Title \in [Notes -> Titles] /\ Extracted \subseteq Files
  /\ MaxTrashed \in Nat

VARIABLES
  state,      \* [Notes -> unborn, active, trashed (deleted_at set), gone]
  parent,     \* tree_items.parent_id
  root,       \* trash_root_id
  deletedAt,  \* the number of the transition that trashed the note
  clock,
  due,        \* trashed roots whose trash_expires_at has passed
  emptying, purging,  \* bundles listed and still to delete
  offer,      \* bundles the import dialog offers to restore
  clearing,   \* Clear Vault: the notes it has listed
  extracting  \* files whose extraction is under way

sweeps == <<emptying, purging>>
rows == <<state, parent, root, deletedAt>>
vars == <<state, parent, root, deletedAt, clock, due, emptying, purging, offer, clearing,
          extracting>>

Active == {n \in Notes : state[n] = "active"}
Trashed == {n \in Notes : state[n] = "trashed"}
TrashRoots == {n \in Trashed : root[n] = n}
\* Mutant: without its members.
RootAlone(r) == {n \in Trashed : n = r}
Bundle(r) == {n \in Trashed : root[n] = r}

Offer == [root : Notes, at : 0..MaxTrashed, notes : SUBSET Notes]

TypeOK ==
  /\ state \in [Notes -> {"unborn", "active", "trashed", "gone"}]
  /\ parent \in [Notes -> Places]
  /\ root \in [Notes -> Notes \cup {Top}]
  /\ deletedAt \in [Notes -> 0..MaxTrashed]
  /\ clock \in 0..MaxTrashed
  /\ due \subseteq Notes /\ emptying \subseteq Notes /\ purging \subseteq Notes
  /\ offer \subseteq Offer
  /\ clearing \subseteq Notes /\ extracting \subseteq Extracted

Init ==
  /\ state = [n \in Notes |-> "unborn"]
  /\ parent = [n \in Notes |-> Top]
  /\ root = [n \in Notes |-> Top]
  /\ deletedAt = [n \in Notes |-> 0]
  /\ clock = 0 /\ due = {} /\ emptying = {} /\ purging = {} /\ offer = {}
  /\ clearing = {} /\ extracting = {}

-----------------------------------------------------------------------------
(* The recursive queries: the least set that holds the start and is closed. *)

\* r and every active note below it by way of active ones.
ActiveSubtree(r) ==
  {n \in Active : \A S \in SUBSET Active :
     (r \in S /\ \A m \in Active : parent[m] \in S => m \in S) => n \in S}

\* p and the folders above it.
Ancestors(p) ==
  {a \in Notes : p # Top /\ \A S \in SUBSET Notes :
     (p \in S /\ \A m \in S : parent[m] \in Notes => parent[m] \in S) => a \in S}

IsActiveFolder(p) == p \in Folders /\ state[p] = "active"
IsPlace(p) == p = Top \/ IsActiveFolder(p)

-----------------------------------------------------------------------------
(* Creation and moves.                                                     *)

Insert(n, p) ==
  /\ state' = [state EXCEPT ![n] = "active"]
  /\ parent' = [parent EXCEPT ![n] = p]

Create(n, p) ==
  /\ n \in Notes \ (Courses \cup Bundles) /\ state[n] = "unborn" /\ IsPlace(p)
  /\ Insert(n, p)
  /\ UNCHANGED <<root, deletedAt, clock, due, sweeps, offer, clearing, extracting>>

KnownCourse == \E c \in Courses : state[c] \in {"active", "trashed"}

\* A known course is used as it is, or refuses the import from the Trash.
CourseFolder(c) ==
  /\ state[c] = "unborn" /\ ~KnownCourse
  /\ Insert(c, Top)
  /\ UNCHANGED <<root, deletedAt, clock, due, sweeps, offer, clearing, extracting>>

Move(n, p) ==
  /\ n \in Active /\ IsPlace(p)
  /\ n \notin Ancestors(p)
  /\ parent' = [parent EXCEPT ![n] = p]
  /\ UNCHANGED <<state, root, deletedAt, clock, due, sweeps, offer, clearing, extracting>>

BeginExtraction(f) ==
  /\ f \in Extracted \ extracting /\ state[f] = "active"
  /\ extracting' = extracting \cup {f}
  /\ UNCHANGED <<rows, clock, due, sweeps, offer, clearing>>

EndExtraction(f) == extracting' = extracting \ {f}

BundleAt(p, t) == {b \in Folders : state[b] = "active" /\ parent[b] = p /\ Title[b] = t}
InBundle(f) == parent[f] # Top /\ Title[parent[f]] = Title[f]

\* The source's row is all that is asked for: it may be in the Trash.
MoveToBundle(f) ==
  /\ f \in extracting /\ EndExtraction(f)
  /\ state[f] \in {"active", "trashed"} /\ ~InBundle(f)
  /\ \/ \E b \in BundleAt(parent[f], Title[f]) :
          parent' = [parent EXCEPT ![f] = b] /\ UNCHANGED state
     \/ /\ BundleAt(parent[f], Title[f]) = {} /\ IsPlace(parent[f])
        /\ \E b \in Bundles :
             /\ state[b] = "unborn" /\ Title[b] = Title[f]
             /\ state' = [state EXCEPT ![b] = "active"]
             /\ parent' = [parent EXCEPT ![b] = parent[f], ![f] = b]
  /\ UNCHANGED <<root, deletedAt, clock, due, sweeps, offer, clearing>>

\* It is in its bundle already, or its row or its parent is gone.
LeaveInPlace(f) ==
  /\ f \in extracting /\ EndExtraction(f)
  /\ \/ state[f] = "gone" \/ InBundle(f)
     \/ BundleAt(parent[f], Title[f]) = {} /\ ~IsPlace(parent[f])
  /\ UNCHANGED <<rows, clock, due, sweeps, offer, clearing>>

-----------------------------------------------------------------------------
(* Trash and restore.                                                      *)

Trash(r) ==
  /\ r \in Active /\ clock < MaxTrashed
  /\ clock' = clock + 1
  /\ LET S == ActiveSubtree(r) IN
       /\ state' = [n \in Notes |-> IF n \in S THEN "trashed" ELSE state[n]]
       /\ root' = [n \in Notes |-> IF n \in S THEN r ELSE root[n]]
       /\ deletedAt' = [n \in Notes |-> IF n \in S THEN clock + 1 ELSE deletedAt[n]]
  /\ UNCHANGED <<parent, due, sweeps, offer, clearing, extracting>>

\* Mutant: a root stays where it was.
ReviveInPlace(r) ==
  /\ state' = [n \in Notes |-> IF n \in Bundle(r) THEN "active" ELSE state[n]]
  /\ root' = [n \in Notes |-> IF n \in Bundle(r) THEN Top ELSE root[n]]
  /\ deletedAt' = [n \in Notes |-> IF n \in Bundle(r) THEN 0 ELSE deletedAt[n]]
  /\ parent' = parent
  /\ due' = due \ {r}
Revive(r) ==
  /\ state' = [n \in Notes |-> IF n \in Bundle(r) THEN "active" ELSE state[n]]
  /\ root' = [n \in Notes |-> IF n \in Bundle(r) THEN Top ELSE root[n]]
  /\ deletedAt' = [n \in Notes |-> IF n \in Bundle(r) THEN 0 ELSE deletedAt[n]]
  /\ parent' = IF IsPlace(parent[r]) THEN parent ELSE [parent EXCEPT ![r] = Top]
  /\ due' = due \ {r}
RestoreRoot(r) ==
  /\ r \in TrashRoots
  /\ Revive(r)
  /\ UNCHANGED <<clock, sweeps, clearing, extracting>>

Restore(r) == RestoreRoot(r) /\ UNCHANGED offer

\* The import dialog lists the bundles that hold the course's folder.
OfferRestore ==
  /\ offer = {}
  /\ offer' = {[root |-> r, at |-> deletedAt[r], notes |-> Bundle(r)] :
                 r \in {q \in TrashRoots : \E c \in Courses : c \in Bundle(q)}}
  /\ offer' # {}
  /\ UNCHANGED <<rows, clock, due, sweeps, clearing, extracting>>

\* Mutant: any bundle of that root will do.
Unconfirmed(o) == TRUE
Confirmed(o) == deletedAt[o.root] = o.at

RestoreOffered(o) ==
  /\ o \in offer /\ offer' = offer \ {o}
  /\ Confirmed(o) /\ RestoreRoot(o.root)

\* The bundle has changed, or the user declines.
DropOffer(o) ==
  /\ o \in offer /\ offer' = offer \ {o}
  /\ UNCHANGED <<rows, clock, due, sweeps, clearing, extracting>>

-----------------------------------------------------------------------------
(* Permanent deletion.                                                     *)

\* Notes that stay behind move to the top.
Remove(S) ==
  /\ state' = [n \in Notes |-> IF n \in S THEN "gone" ELSE state[n]]
  /\ parent' = [n \in Notes |-> IF parent[n] \in S /\ n \notin S THEN Top ELSE parent[n]]
  /\ due' = due \ S
  /\ UNCHANGED <<root, deletedAt>>
RemoveBundle(r) == r \in TrashRoots /\ Remove(Bundle(r))

DeleteForever(r) ==
  /\ RemoveBundle(r)
  /\ UNCHANGED <<clock, sweeps, offer, clearing, extracting>>

EmptyTrash ==
  /\ emptying = {} /\ emptying' = TrashRoots
  /\ UNCHANGED <<rows, clock, due, purging, offer, clearing, extracting>>

\* A bundle that left the Trash meanwhile is skipped.
EmptyOne(r) ==
  /\ r \in emptying /\ emptying' = emptying \ {r}
  /\ RemoveBundle(r) \/ (r \notin TrashRoots /\ UNCHANGED <<rows, due>>)
  /\ UNCHANGED <<clock, purging, offer, clearing, extracting>>

\* The retention of a bundle ends.
Expire(r) ==
  /\ r \in TrashRoots \ due /\ due' = due \cup {r}
  /\ UNCHANGED <<rows, clock, sweeps, offer, clearing, extracting>>

\* Mutant: bundles with members are left out.
ListSingles ==
  /\ purging = {} /\ purging' = {r \in due : Bundle(r) = {r}} /\ purging' # {}
  /\ UNCHANGED <<rows, clock, due, emptying, offer, clearing, extracting>>
ListExpired ==
  /\ purging = {} /\ due # {} /\ purging' = due
  /\ UNCHANGED <<rows, clock, due, emptying, offer, clearing, extracting>>

PurgeOne(r) ==
  /\ r \in purging /\ purging' = purging \ {r}
  /\ RemoveBundle(r) \/ (r \notin TrashRoots /\ UNCHANGED <<rows, due>>)
  /\ UNCHANGED <<clock, emptying, offer, clearing, extracting>>

\* The transaction fails; the next pass lists the bundle again.
PurgeFails(r) ==
  /\ r \in purging /\ purging' = purging \ {r}
  /\ UNCHANGED <<rows, clock, due, emptying, offer, clearing, extracting>>

\* A request or the worker dies.
DieEmptying ==
  /\ emptying # {} /\ emptying' = {}
  /\ UNCHANGED <<rows, clock, due, purging, offer, clearing, extracting>>
DiePurging ==
  /\ purging # {} /\ purging' = {}
  /\ UNCHANGED <<rows, clock, due, emptying, offer, clearing, extracting>>

ListForClear ==
  /\ clearing = {} /\ clearing' = Active \cup Trashed
  /\ UNCHANGED <<rows, clock, due, sweeps, offer, extracting>>

Clear ==
  /\ clearing # {} /\ clearing' = {}
  /\ Remove({n \in clearing : state[n] \in {"active", "trashed"}})
  /\ UNCHANGED <<clock, sweeps, offer, extracting>>

-----------------------------------------------------------------------------
Organise ==
  \/ \E n \in Notes, p \in Places : Create(n, p) \/ Move(n, p)
  \/ \E c \in Courses : CourseFolder(c)

Extract == \E f \in Files : BeginExtraction(f) \/ MoveToBundle(f) \/ LeaveInPlace(f)

Recycle ==
  \/ \E r \in Notes : Trash(r) \/ Restore(r) \/ DeleteForever(r) \/ EmptyOne(r)
  \/ OfferRestore \/ EmptyTrash \/ DieEmptying
  \/ \E o \in offer : RestoreOffered(o) \/ DropOffer(o)

Purge ==
  \/ ListExpired \/ DiePurging
  \/ \E r \in Notes : Expire(r) \/ PurgeOne(r) \/ PurgeFails(r)

ClearVault == ListForClear \/ Clear

Next == Organise \/ Extract \/ Recycle \/ Purge
Spec == Init /\ [][Next]_vars
ClearSpec == Init /\ [][Next \/ ClearVault]_vars

\* The daily pass comes again, and is not cut short or refused forever.
PurgeSpec ==
  Spec /\ WF_vars(ListExpired) /\ \A r \in Notes : SF_vars(PurgeOne(r))

-----------------------------------------------------------------------------
(* An active note is found from the top through active folders: its        *)
(* parent is one, and there is no cycle, which is that every set of notes  *)
(* has one whose parent is outside of it (pg-tree.ts, create-note.ts).     *)
ActiveIsReachable ==
  /\ \A n \in Active : IsPlace(parent[n])
  /\ \A S \in (SUBSET Notes) \ {{}} : \E n \in S : parent[n] \notin S

(* What is in the Trash belongs to a bundle that the Trash lists, and a    *)
(* member of it is below a folder of the same bundle: it can be restored   *)
(* or purged, and comes back in place (note-lifecycle.ts 239-284).         *)
TrashIsWhole ==
  \A n \in Trashed :
    /\ root[n] \in TrashRoots
    /\ root[n] # n => parent[n] \in Folders /\ root[n] = root[parent[n]]
                        /\ state[parent[n]] = "trashed"

(* A course has one folder, in the tree or in the Trash, although imports  *)
(* race with Trash and restore (canvas-folders.ts 109-153).                *)
OneFolderPerCourse ==
  \A c, d \in Courses \cap (Active \cup Trashed) : c = d

(* A restore confirmed in the import dialog brings back the bundle the     *)
(* user was shown, never a later one (note-lifecycle.ts 302-306).          *)
ConfirmedRestore ==
  [][\A o \in offer : RestoreOffered(o) => o.notes = Bundle(o.root)]_vars

(* Nothing is removed for good while it is active, although Empty Trash    *)
(* and the purge delete what they listed before (note-lifecycle.ts         *)
(* 613-644).                                                               *)
OnlyTrashIsRemoved ==
  [][\A n \in Notes : state[n] = "active" => state'[n] # "gone"]_vars

(* A bundle whose window has elapsed leaves the Trash.                     *)
ExpiredLeaves == \A r \in Notes : r \in due ~> r \notin due

(* The purge finalises bundles whose window has elapsed                    *)
(* (note-lifecycle.ts 731).                                                *)
OnlyExpiredIsPurged ==
  [][\A r \in Notes : PurgeOne(r) /\ r \in TrashRoots => r \in due]_vars

(* The tree row of a note stays as it is while the note is in the Trash    *)
(* (059_note_trash_and_cache_retention.sql 3), as long as its folder lasts. *)
TreeRowsStay ==
  [][\A n \in Trashed :
       state'[n] = "trashed" => parent'[n] \in {parent[n], Top}]_vars

(* Once Clear Vault has fenced the jobs, no worker makes a folder          *)
(* (vault/route.ts 45-47).                                                 *)
ClearFencesWorkers ==
  [][\A b \in Bundles : clearing # {} /\ state[b] = "unborn" => state'[b] = "unborn"]_vars
=============================================================================
