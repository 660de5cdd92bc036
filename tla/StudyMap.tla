------------------------------ MODULE StudyMap ------------------------------
(***************************************************************************)
(* The study map of one Canvas course: its catalogue of topics, the        *)
(* materials and papers judged against it, the durable jobs that propose   *)
(* topics, classify materials and analyse papers, the workers that lease   *)
(* those jobs, and the automatic setup that queues them                    *)
(* (src/src/lib/study-map).                                                *)
(*                                                                         *)
(* Every write to a map holds the user's advisory lock and the map's row,  *)
(* and reads its sources FOR SHARE, so each transaction is one step.  What *)
(* a worker or a setup does is several: they read, call a provider outside *)
(* any transaction, and come back.  A text stands for the hash of a note's *)
(* canonical source, a meaning for what taxonomyMeaning compares.          *)
(***************************************************************************)
EXTENDS Integers, FiniteSets

CONSTANTS
  Note,         \* the notes under the course folder, numbered as they were created
  Paper,        \* those that are past papers
  Worker,       \* worker processes, one study job at a time each
  Setup,        \* requests and reconcile passes that configure the map
  Visitor,      \* openings of the study map page
  Attempts,     \* claims of one job: 3 in the code
  Cap,          \* active jobs of a user: 100 in the code
  None,
  Asked,        \* the kinds of job that users ask for
  Reviewed,     \* the notes that users review as papers
  Year,         \* academic years
  Blank,        \* the texts no job is made of: empty, or longer than a provider is sent
  MaxText, MaxMeaning, MaxVersion, MaxJobs, MaxMaps   \* bounds of the model

ASSUME StudyMapAssumption ==
  /\ Note \subseteq Nat /\ Paper \subseteq Note /\ Reviewed \subseteq Note
  /\ Blank \subseteq 1..MaxText
  /\ Asked \subseteq {"taxonomy", "classify", "paper"}
  /\ 0 \in Year
  /\ None \notin Note /\ IsFiniteSet(Note)
  /\ {Attempts, Cap, MaxText, MaxJobs} \subseteq Nat
  /\ {MaxMeaning, MaxVersion, MaxMaps} \subseteq Nat \ {0}

VARIABLES
  account,      \* app.login.is_active
  map,          \* app.study_maps, the row of the course
  dismissed,    \* app.study_map_dismissed_courses holds the course
  note,         \* app.notes: where a note is and its text
  material,     \* app.study_materials
  paper,        \* app.study_papers
  jobs,         \* app.study_jobs, in the order of their creation
  queued,       \* how many of them there are
  worker,       \* what each worker process is doing
  setup,        \* what each autoConfigureStudyMap call is doing
  visitor       \* whether setupStudyMaps has listed the course
vars == <<account, map, dismissed, note, material, paper, jobs, queued, worker, setup, visitor>>

Text    == 0..MaxText
Unread  == -1
Meaning == 0..MaxMeaning
Version == 0..MaxVersion
JobId   == 1..MaxJobs
Kind    == {"taxonomy", "classify", "paper"}
Topics  == [meaning : Meaning, cite : Note \cup {None}, text : Text]
NoTopics == [meaning |-> 0, cite |-> None, text |-> 0]
Map     == [id : 0..MaxMaps, live : BOOLEAN, auto : BOOLEAN, version : Version,
            taxonomy : Version, topics : Topics, syllabus : Note \cup {None}, year : Year]
Place   == {"new", "active", "trashed", "gone"}
(***************************************************************************)
(* A judgement stores the hash of the text and the taxonomy version it is  *)
(* good for; "seen" and "against" record what the provider really was      *)
(* given.                                                                  *)
(***************************************************************************)
Judgement == [text : Text, taxonomy : Version, seen : Text, against : Meaning]
NotJudged == [text |-> 0, taxonomy |-> 0, seen |-> 0, against |-> 0]
Material  == [in : {"no", "yes", "removed"}, status : {"unclassified", "classified", "stale"}, result : Judgement]
Analysis  == [by : {"nobody", "job", "user"}, result : Judgement]
Job       == [kind : Kind, note : Note \cup {None}, state : {"none", "pending", "running", "completed", "failed", "gone"},
              attempts : 0..Attempts, lapsed : BOOLEAN,
              automatic : BOOLEAN,    \* queued by the automatic setup
              published : Nat,        \* how often its result was published
              revoked : BOOLEAN]      \* something that withdraws it has happened
Input     == [texts : [Note -> Text \cup {Unread}], topics : Topics, version : Version,
              taxonomy : Version, syllabus : Note \cup {None}, year : Year]
NoInput   == [texts |-> [n \in Note |-> Unread], topics |-> NoTopics, version |-> 0,
              taxonomy |-> 0, syllabus |-> None, year |-> 0]
Work      == [pc : {"idle", "read", "publish", "classify"}, job : 0..MaxJobs, token : 0..Attempts,
              input : Input, overtaken : BOOLEAN]   \* the map was edited since the input was read
Resting   == [pc |-> "idle", job |-> 0, token |-> 0, input |-> NoInput, overtaken |-> FALSE]
Call      == [pc : {"idle", "sync", "configure", "classify", "ask", "propose"}, map : 0..MaxMaps]

TypeOK ==
  /\ account \in BOOLEAN /\ dismissed \in BOOLEAN
  /\ map \in Map
  /\ note \in [Note -> [place : Place, text : Text]]
  /\ material \in [Note -> Material]
  /\ paper \in [Note -> Analysis]
  /\ jobs \in [JobId -> Job] /\ queued \in 0..MaxJobs
  /\ \A i \in JobId : jobs[i].lapsed => jobs[i].state = "running"   \* a CHECK of the table
  /\ worker \in [Worker -> Work]
  /\ setup \in [Setup -> Call]
  /\ visitor \in [Visitor -> BOOLEAN]

NewMaterial == [in |-> "no", status |-> "unclassified", result |-> NotJudged]
NoPaper     == [by |-> "nobody", result |-> NotJudged]
NoJob       == [kind |-> "taxonomy", note |-> None, state |-> "none", attempts |-> 0, lapsed |-> FALSE,
                automatic |-> FALSE, published |-> 0, revoked |-> FALSE]
IdleCall    == [pc |-> "idle", map |-> 0]
\* setups of a map that the course had before
Late        == [pc : {"sync", "configure", "classify", "ask", "propose"}, map : {0}]
NewMap(id)  == [id |-> id, live |-> TRUE, auto |-> TRUE, version |-> 1, taxonomy |-> 1,
                topics |-> NoTopics, syllabus |-> None, year |-> 0]

(***************************************************************************)
(* A course that has been imported and has a map, with or without topics,  *)
(* or none yet, or had one that the user deleted while it was set up.      *)
(***************************************************************************)
Init ==
  /\ account = TRUE
  /\ note \in [Note -> [place : {"new", "active"}, text : {0}]]
  /\ \/ /\ map = [NewMap(0) EXCEPT !.live = FALSE]
        /\ dismissed \in BOOLEAN
     \/ /\ \E topics \in {NoTopics} \cup [meaning : {1}, cite : {n \in Note : note[n].place = "active"}, text : {0}] :
             map = [NewMap(1) EXCEPT !.topics = topics]
        /\ dismissed = FALSE
  /\ material = [n \in Note |-> NewMaterial]
  /\ paper = [n \in Note |-> NoPaper]
  /\ jobs = [i \in JobId |-> NoJob] /\ queued = 0
  /\ worker = [w \in Worker |-> Resting]
  /\ setup \in [Setup -> {IdleCall} \cup IF dismissed THEN Late ELSE {}]
  /\ visitor = [v \in Visitor |-> FALSE]

Active(n)   == note[n].place = "active"
Member(n)   == material[n].in = "yes"
Legible(n)  == note[n].text \notin Blank
IsOpen(job) == job.state \in {"pending", "running"}
\* every cited passage is where it was and reads as it did
Current(topics) == topics.meaning # 0 =>
  /\ topics.cite \in Note
  /\ Active(topics.cite)
  /\ note[topics.cite].text = topics.text
\* a job that something has overtaken: failed if it had not ended
Revoke(job) == [job EXCEPT !.revoked = TRUE, !.state = IF IsOpen(job) THEN "failed" ELSE @,
                           !.lapsed = IF IsOpen(job) THEN FALSE ELSE @]

Withdraw(ids) == jobs' = [i \in JobId |-> IF i \in ids THEN Revoke(jobs[i]) ELSE jobs[i]]
\* the rows go with the map or the note they belong to
Erase(ids) == jobs' = [i \in JobId |-> IF i \in ids THEN [Revoke(jobs[i]) EXCEPT !.state = "gone", !.lapsed = FALSE] ELSE jobs[i]]

-----------------------------------------------------------------------------
(***************************************************************************)
(* Queueing.  Candidates are read, checked and inserted in one             *)
(* transaction; the unique index of open jobs drops what is queued already.*)
(***************************************************************************)
Newest(kind, n) == {i \in 1..queued : /\ jobs[i].kind = kind /\ jobs[i].note = n /\ jobs[i].state # "gone"
                                      /\ \A j \in (i + 1)..queued : jobs[j].kind = kind /\ jobs[j].note = n => jobs[j].state = "gone"}
IsQueued(kind, n) == \E i \in 1..queued : jobs[i].kind = kind /\ jobs[i].note = n /\ IsOpen(jobs[i])
FailedLast(kind, n) == \E i \in Newest(kind, n) : jobs[i].state = "failed"
\* what is left of the user's cap, and of the jobs the model may have
Room == LET left == Cap - Cardinality({i \in 1..queued : IsOpen(jobs[i])})
        IN  IF left <= MaxJobs - queued THEN left ELSE MaxJobs - queued

\* variant: the stored hash is not compared with the text
DueByStatus(kind, n) ==
  LET result == IF kind = "paper" THEN paper[n].result ELSE material[n].result
  IN  \/ kind = "paper" /\ paper[n].by = "nobody"
      \/ kind = "classify" /\ material[n].status # "classified"
      \/ result.taxonomy # map.taxonomy
\* never judged, or judged by other topics or of another text
Due(kind, n) ==
  LET result == IF kind = "paper" THEN paper[n].result ELSE material[n].result
  IN  \/ kind = "paper" /\ paper[n].by = "nobody"
      \/ kind = "classify" /\ material[n].status # "classified"
      \/ result.taxonomy # map.taxonomy
      \/ result.text # note[n].text

\* variant: without a look at the last job
CandidatesAnyway(kind, automatic) ==
  {n \in Note : /\ Member(n) /\ Active(n) /\ Legible(n) /\ Due(kind, n) /\ ~IsQueued(kind, n)
                /\ kind = "paper" => n \in Paper}
\* what is due; a note without a usable text is passed over, without a job or a failure
Candidates(kind, automatic) ==
  {n \in Note : /\ Member(n) /\ Active(n) /\ Legible(n) /\ Due(kind, n) /\ ~IsQueued(kind, n)
                /\ kind = "paper" => n \in Paper
                /\ automatic => ~FailedLast(kind, n)}

Insert(kind, order, automatic) ==
  LET size == Cardinality(DOMAIN order)
  IN  /\ queued' = queued + size
      /\ jobs' = [i \in JobId |->
           IF i - queued \in DOMAIN order
           THEN [NoJob EXCEPT !.kind = kind, !.note = order[i - queued], !.state = "pending", !.automatic = automatic]
           ELSE jobs[i]]

Orders(S) == {f \in [1..Cardinality(S) -> S] : \A x \in S : \E i \in DOMAIN f : f[i] = x}

MayQueue(automatic) ==
  /\ map.live
  /\ automatic => map.auto
  /\ map.topics.meaning # 0 /\ Current(map.topics)
  /\ Room > 0

\* as many of the candidates as there is room for, in any order
QueueBatch(kind, automatic) ==
  LET all == Candidates(kind, automatic)
  IN  /\ MayQueue(automatic)
      /\ \E S \in SUBSET all :
           /\ S # {} /\ Cardinality(S) <= Room
           /\ S = all \/ Cardinality(S) = Room
           /\ \E order \in Orders(S) : Insert(kind, order, automatic)
\* the automatic setup queues what is due, or leaves things as they are
ClassifyAutomatically ==
  \/ QueueBatch("classify", TRUE)
  \/ ~(MayQueue(TRUE) /\ Candidates("classify", TRUE) # {}) /\ UNCHANGED <<jobs, queued>>

\* a proposal reads every material it can, but is refused unless it can read the
\* syllabus, or else the oldest material
ProposalSources == {n \in Note : Member(n) /\ Active(n) /\ Legible(n) /\ n \notin Paper}
IsOldest(n) == \A m \in Note : Member(m) /\ Active(m) => n <= m
MayPropose(automatic) ==
  /\ map.live
  /\ automatic => map.auto /\ ~FailedLast("taxonomy", None)
  /\ \E n \in Note : /\ Member(n) /\ Active(n) /\ Legible(n)
                     /\ IF map.syllabus # None THEN n = map.syllabus ELSE IsOldest(n)
  /\ Room > 0 /\ ~IsQueued("taxonomy", None)
QueueProposal(automatic) == MayPropose(automatic) /\ Insert("taxonomy", [i \in {1} |-> None], automatic)

\* a user asks for a proposal, for one note, or for all that is due
AskFor(kind) ==
  /\ account
  /\ \/ kind = "taxonomy" /\ QueueProposal(FALSE)
     \/ kind # "taxonomy" /\ QueueBatch(kind, FALSE)
     \/ /\ kind # "taxonomy" /\ MayQueue(FALSE)
        /\ \E n \in Note : /\ Member(n) /\ Active(n) /\ Legible(n) /\ ~IsQueued(kind, n)
                           /\ Insert(kind, [i \in {1} |-> n], FALSE)
  /\ UNCHANGED <<account, map, dismissed, note, material, paper, worker, setup, visitor>>

-----------------------------------------------------------------------------
(***************************************************************************)
(* A worker: claim, read the input, call the provider, publish.            *)
(***************************************************************************)
Reclaim(job) ==
  IF job.state = "running" /\ job.lapsed
  THEN [job EXCEPT !.state = IF job.attempts >= Attempts THEN "failed" ELSE "pending", !.lapsed = FALSE]
  ELSE job

\* lapsed leases are taken back first, then the oldest pending job is leased
Claim(w) ==
  LET reclaimed == [i \in JobId |-> Reclaim(jobs[i])]
      waiting   == {i \in JobId : reclaimed[i].state = "pending" /\ reclaimed[i].attempts < Attempts}
  IN  /\ worker[w].pc = "idle"
      /\ \/ /\ waiting = {} /\ reclaimed # jobs
            /\ jobs' = reclaimed
            /\ UNCHANGED worker
         \/ \E i \in waiting :
              /\ \A j \in waiting : i <= j
              /\ jobs' = [reclaimed EXCEPT ![i].state = "running", ![i].attempts = @ + 1]
              /\ worker' = [worker EXCEPT ![w] = [Resting EXCEPT !.pc = "read", !.job = i,
                                                   !.token = reclaimed[i].attempts + 1]]
      /\ UNCHANGED <<account, map, dismissed, note, material, paper, queued, setup, visitor>>

JobOf(w) == jobs[worker[w].job]
\* the heartbeat stops when a process stalls or loses the database for the length of a lease
Lapse(i) ==
  /\ jobs[i].state = "running" /\ ~jobs[i].lapsed
  /\ jobs' = [jobs EXCEPT ![i].lapsed = TRUE]
  /\ UNCHANGED <<account, map, dismissed, note, material, paper, queued, worker, setup, visitor>>

Sources(job) == IF job.kind = "taxonomy" THEN ProposalSources
                ELSE {n \in Note : n = job.note /\ Member(n) /\ Active(n) /\ Legible(n)}

Read(w) ==
  LET job == JobOf(w)
  IN  /\ worker[w].pc = "read"
      /\ job.state # "gone"
      /\ job.kind # "taxonomy" => map.topics.meaning # 0 /\ Current(map.topics)
      /\ Sources(job) # {}
      /\ worker' = [worker EXCEPT ![w] = [@ EXCEPT !.pc = "publish", !.input =
           [texts |-> [n \in Note |-> IF n \in Sources(job) THEN note[n].text ELSE Unread],
            topics |-> map.topics, version |-> map.version, taxonomy |-> map.taxonomy,
            syllabus |-> map.syllabus, year |-> map.year]]]
      /\ UNCHANGED <<account, map, dismissed, note, material, paper, jobs, queued, setup, visitor>>

\* variant of the fence: without the token
HoldsAny(w) == JobOf(w).state = "running" /\ ~JobOf(w).lapsed
Holds(w) == JobOf(w).state = "running" /\ ~JobOf(w).lapsed /\ JobOf(w).attempts = worker[w].token

\* variant: only the meaning of the topics counts
TopicsChangedSince(kind, input) == map.taxonomy # input.taxonomy
MapChangedSince(kind, input) ==
  IF kind = "taxonomy" THEN map.version # input.version \/ map.syllabus # input.syllabus
  ELSE map.taxonomy # input.taxonomy \/ (kind = "paper" /\ map.year # input.year)

\* variant: the source is not read again
Readable(n, input) == Member(n) /\ Active(n)
\* the source is in the map, readable, and the text that was read
CurrentSource(n, input) == Member(n) /\ Active(n) /\ note[n].text = input.texts[n]

Publishable(w) ==
  LET job == JobOf(w)
  IN  /\ worker[w].pc = "publish"
      /\ ~MapChangedSince(job.kind, worker[w].input)
      /\ job.kind # "taxonomy" => Current(map.topics) /\ CurrentSource(job.note, worker[w].input)
      /\ Holds(w)

Judged(w, n) == [text |-> note[n].text, taxonomy |-> map.taxonomy,
                 seen |-> worker[w].input.texts[n], against |-> worker[w].input.topics.meaning]

Complete(w) ==
  jobs' = [jobs EXCEPT ![worker[w].job].state = "completed", ![worker[w].job].published = @ + 1]

PublishClassification(w) ==
  /\ Publishable(w) /\ JobOf(w).kind = "classify"
  /\ LET n == JobOf(w).note
     IN  material' = [material EXCEPT ![n].status = "classified", ![n].result = Judged(w, n)]
  /\ Complete(w)
  /\ worker' = [worker EXCEPT ![w] = Resting]
  /\ UNCHANGED <<account, map, dismissed, note, paper, queued, setup, visitor>>

PublishPaper(w) ==
  /\ Publishable(w) /\ JobOf(w).kind = "paper"
  /\ LET n == JobOf(w).note
     IN  paper' = [paper EXCEPT ![n] = [by |-> "job", result |-> Judged(w, n)]]
  /\ Complete(w)
  /\ worker' = [worker EXCEPT ![w] = Resting]
  /\ UNCHANGED <<account, map, dismissed, note, material, queued, setup, visitor>>

Stale(m) == [m EXCEPT !.status = IF @ = "unclassified" THEN @ ELSE "stale"]
\* new topics; a change of their meaning makes every judgement stale
Replace(topics) ==
  /\ map.version < MaxVersion
  /\ LET changed == topics.meaning # map.topics.meaning
     IN  /\ map' = [map EXCEPT !.topics = topics, !.version = @ + 1,
                               !.taxonomy = IF changed THEN @ + 1 ELSE @]
         /\ material' = IF changed THEN [n \in Note |-> Stale(material[n])] ELSE material

\* a proposal must quote texts it has read and that still read so
PublishTopics(w) ==
  /\ Publishable(w) /\ JobOf(w).kind = "taxonomy"
  /\ \E n \in Note, meaning \in Meaning \ {0} :
       /\ worker[w].input.texts[n] # Unread
       /\ Active(n) /\ note[n].text = worker[w].input.texts[n]
       /\ Replace([meaning |-> meaning, cite |-> n, text |-> note[n].text])
  /\ Complete(w)
  /\ worker' = [worker EXCEPT ![w].pc = "classify"]
  /\ UNCHANGED <<account, dismissed, note, paper, queued, setup, visitor>>

\* after a proposal the worker queues what is now due, if the map is still automatic
ClassifyNext(w) ==
  /\ worker[w].pc = "classify"
  /\ worker' = [worker EXCEPT ![w] = Resting]
  /\ IF JobOf(w).state = "gone" THEN UNCHANGED <<jobs, queued>> ELSE ClassifyAutomatically
  /\ UNCHANGED <<account, map, dismissed, note, material, paper, setup, visitor>>

\* variant: the failure is not fenced by the lease
GiveUpAnyway(w) ==
  /\ worker[w].pc \in {"read", "publish"}
  /\ jobs' = [jobs EXCEPT ![worker[w].job].state = "failed"]
  /\ worker' = [worker EXCEPT ![w] = Resting]
  /\ UNCHANGED <<account, map, dismissed, note, material, paper, queued, setup, visitor>>
\* a refused publication, an unreadable input or a provider error ends the job, if it is still held
GiveUp(w) ==
  /\ worker[w].pc \in {"read", "publish"}
  /\ jobs' = IF Holds(w) THEN [jobs EXCEPT ![worker[w].job].state = "failed"] ELSE jobs
  /\ worker' = [worker EXCEPT ![w] = Resting]
  /\ UNCHANGED <<account, map, dismissed, note, material, paper, queued, setup, visitor>>

Die(w) ==
  /\ worker[w].pc # "idle"
  /\ worker' = [worker EXCEPT ![w] = Resting]
  /\ UNCHANGED <<account, map, dismissed, note, material, paper, jobs, queued, setup, visitor>>

-----------------------------------------------------------------------------
(***************************************************************************)
(* The automatic setup: after a request that touched the map, and from a   *)
(* pass over all automatic maps every minute.  Each step is a transaction  *)
(* of its own; a map deleted in between ends it.                           *)
(***************************************************************************)
Begin(c) ==
  /\ setup[c].pc = "idle" /\ account /\ map.live
  /\ setup' = [setup EXCEPT ![c] = [pc |-> "sync", map |-> map.id]]
  /\ UNCHANGED <<account, map, dismissed, note, material, paper, jobs, queued, worker, visitor>>
Reconcile(c) == map.auto /\ Begin(c)

\* variant: the map of the course rather than the one it began with
IsAny(c) == map.live
IsOf(c) == map.live /\ setup[c].map = map.id
Goto(c, pc) == setup' = [setup EXCEPT ![c] = IF pc = "idle" THEN IdleCall ELSE [@ EXCEPT !.pc = pc]]

\* the notes under the folder that have no row yet; a removed one keeps its row
SyncMaterials(c) ==
  /\ setup[c].pc = "sync" /\ IsOf(c)
  /\ material' = [n \in Note |-> IF Active(n) /\ material[n].in = "no"
                                 THEN [material[n] EXCEPT !.in = "yes"] ELSE material[n]]
  /\ Goto(c, "configure")
  /\ UNCHANGED <<account, map, dismissed, note, paper, jobs, queued, worker, visitor>>

AfterConfigure(topics, auto) ==
  IF ~auto THEN "idle" ELSE IF topics.meaning # 0 THEN "classify" ELSE "ask"

\* the outline is found or written and becomes the syllabus, or a material with such a title does
Configure(c) ==
  /\ setup[c].pc = "configure" /\ IsOf(c)
  /\ Goto(c, AfterConfigure(map.topics, map.auto))
  /\ \/ UNCHANGED <<map, note, material>>
     \/ /\ map.auto /\ map.syllabus = None /\ map.version < MaxVersion
        /\ \E n \in Note :
             /\ map' = [map EXCEPT !.syllabus = n, !.version = @ + 1]
             /\ \/ /\ note[n].place \in {"new", "active"}
                   /\ note' = [note EXCEPT ![n].place = "active"]
                   /\ material' = [material EXCEPT ![n].in = IF @ = "no" THEN "yes" ELSE @]
                \/ Member(n) /\ Active(n) /\ UNCHANGED <<note, material>>
  /\ UNCHANGED <<account, dismissed, paper, jobs, queued, worker, visitor>>

SetupClassify(c) ==
  /\ setup[c].pc = "classify" /\ IsOf(c)
  /\ ClassifyAutomatically
  /\ Goto(c, "idle")
  /\ UNCHANGED <<account, map, dismissed, note, material, paper, worker, visitor>>

\* a proposal is queued once per map, when no import of the user is going on
Proposed == \E i \in 1..queued : jobs[i].kind = "taxonomy" /\ jobs[i].state # "gone"
Ask(c) ==
  /\ setup[c].pc = "ask"
  /\ \/ Goto(c, "idle")
     \/ ~Proposed /\ IsOf(c) /\ Goto(c, "propose")
  /\ UNCHANGED <<account, map, dismissed, note, material, paper, jobs, queued, worker, visitor>>

SetupPropose(c) ==
  /\ setup[c].pc = "propose" /\ IsOf(c)
  /\ IF MayPropose(TRUE) THEN QueueProposal(TRUE) ELSE UNCHANGED <<jobs, queued>>
  /\ Goto(c, "idle")
  /\ UNCHANGED <<account, map, dismissed, note, material, paper, worker, visitor>>

\* the map is gone, a step fails, or its process dies
SetupFails(c) ==
  /\ setup[c].pc # "idle"
  /\ Goto(c, "idle")
  /\ UNCHANGED <<account, map, dismissed, note, material, paper, jobs, queued, worker, visitor>>

-----------------------------------------------------------------------------
(***************************************************************************)
(* The page that makes a map of every course without one.                  *)
(***************************************************************************)
ListCourse(v) ==
  /\ account /\ ~map.live /\ ~dismissed /\ ~visitor[v]
  /\ visitor' = [visitor EXCEPT ![v] = TRUE]
  /\ UNCHANGED <<account, map, dismissed, note, material, paper, jobs, queued, worker, setup>>

CreateStudyMap ==
  /\ map.id < MaxMaps
  /\ map' = IF map.live THEN map ELSE NewMap(map.id + 1)
CreateListed(v) ==
  /\ visitor[v] /\ CreateStudyMap
  /\ visitor' = [visitor EXCEPT ![v] = FALSE]
  /\ UNCHANGED <<account, dismissed, note, material, paper, jobs, queued, worker, setup>>
\* or the user asks for one by name
AddModule ==
  /\ account /\ ~map.live /\ CreateStudyMap
  /\ UNCHANGED <<account, dismissed, note, material, paper, jobs, queued, worker, setup, visitor>>

DeleteStudyMap ==
  /\ map.live /\ account
  /\ map' = [NewMap(map.id) EXCEPT !.live = FALSE]
  /\ dismissed' = TRUE
  /\ material' = [n \in Note |-> NewMaterial]
  /\ paper' = [n \in Note |-> NoPaper]
  /\ Erase(1..queued)
  /\ UNCHANGED <<account, note, queued, worker, setup, visitor>>

-----------------------------------------------------------------------------
(***************************************************************************)
(* The user: the map, its topics and materials, and the notes under it.    *)
(***************************************************************************)
Overtake == worker' = [w \in Worker |-> [worker[w] EXCEPT !.overtaken = @ \/ worker[w].pc = "publish"]]
\* only an explicit choice brings a removed material back
Include(n) == material' = [material EXCEPT ![n].in = "yes"]

UpdateMap ==
  /\ account /\ map.live /\ map.version < MaxVersion
  /\ \E n \in {m \in Note : Active(m)} \cup {None}, auto \in BOOLEAN, year \in Year :
       /\ map' = [map EXCEPT !.syllabus = n, !.auto = auto, !.year = year, !.version = @ + 1]
       /\ IF n = None THEN UNCHANGED material ELSE Include(n)
  /\ Overtake
  /\ UNCHANGED <<account, dismissed, note, paper, jobs, queued, setup, visitor>>

\* topics are saved against the version they were read at, with passages that read as quoted
SaveTopics ==
  /\ account /\ map.live
  /\ \E topics \in Topics : /\ (topics.meaning = 0) = (topics = NoTopics)
                            /\ Current(topics) /\ topics.text \notin Blank /\ Replace(topics)
  /\ Overtake
  /\ UNCHANGED <<account, dismissed, note, paper, jobs, queued, setup, visitor>>

AddMaterial(n) ==
  /\ account /\ map.live /\ Active(n) /\ ~Member(n)
  /\ Include(n)
  /\ UNCHANGED <<account, map, dismissed, note, paper, jobs, queued, worker, setup, visitor>>

RemoveMaterial(n) ==
  /\ account /\ map.live /\ Member(n)
  /\ material' = [material EXCEPT ![n].in = "removed"]
  /\ Withdraw({i \in 1..queued : jobs[i].note = n})
  /\ UNCHANGED <<account, map, dismissed, note, paper, queued, worker, setup, visitor>>

\* a review is of the current text and topics and wins over an analysis under way
SaveStudyPaper(n) ==
  /\ account /\ map.live /\ Member(n) /\ Active(n)
  /\ paper' = [paper EXCEPT ![n] = [by |-> "user", result |->
       [text |-> note[n].text, taxonomy |-> map.taxonomy, seen |-> note[n].text, against |-> map.topics.meaning]]]
  /\ Withdraw({i \in 1..queued : jobs[i].note = n /\ jobs[i].kind = "paper"})
  /\ UNCHANGED <<account, map, dismissed, note, material, queued, worker, setup, visitor>>

Edit(n) ==
  /\ Active(n)
  /\ \E text \in Text \ {note[n].text} : note' = [note EXCEPT ![n].text = text]
  /\ UNCHANGED <<account, map, dismissed, material, paper, jobs, queued, worker, setup, visitor>>

MoveNote(n, from, to) ==
  /\ note[n].place \in from
  /\ note' = [note EXCEPT ![n].place = to]
  /\ UNCHANGED <<account, map, dismissed, material, paper, jobs, queued, worker, setup, visitor>>
Trash(n)   == MoveNote(n, {"active"}, "trashed")
Restore(n) == MoveNote(n, {"trashed", "new"}, "active")   \* or created

\* the rows that refer to the note go with it
DeleteNote(n) ==
  /\ note[n].place \in {"active", "trashed"}
  /\ note' = [note EXCEPT ![n].place = "gone"]
  /\ material' = [material EXCEPT ![n] = NewMaterial]
  /\ paper' = [paper EXCEPT ![n] = NoPaper]
  /\ map' = [map EXCEPT !.syllabus = IF @ = n THEN None ELSE @]
  /\ Erase({i \in 1..queued : jobs[i].note = n})
  /\ UNCHANGED <<account, dismissed, queued, worker, setup, visitor>>

\* deactivation fails what is open in the transaction that closes the account
Deactivate ==
  /\ account /\ account' = FALSE
  /\ Withdraw(1..queued)
  /\ UNCHANGED <<map, dismissed, note, material, paper, queued, worker, setup, visitor>>

-----------------------------------------------------------------------------
\* what a worker does with the job it has claimed
Proceeds(w) == \/ Read(w) \/ PublishClassification(w) \/ PublishPaper(w) \/ PublishTopics(w)
             \/ ClassifyNext(w) \/ GiveUp(w)
Works(w) == Claim(w) \/ Proceeds(w)
SetsUp(c) == \/ SyncMaterials(c) \/ Configure(c) \/ SetupClassify(c) \/ Ask(c) \/ SetupPropose(c)

\* what the user and other requests do
Use == \/ \E kind \in Asked : AskFor(kind)
       \/ AddModule \/ UpdateMap \/ SaveTopics \/ DeleteStudyMap \/ Deactivate
       \/ \E n \in Reviewed : SaveStudyPaper(n)
       \/ \E n \in Note : \/ AddMaterial(n) \/ RemoveMaterial(n) \/ Edit(n) \/ Trash(n) \/ Restore(n) \/ DeleteNote(n)

Next ==
  \/ \E w \in Worker : Works(w) \/ Die(w)
  \/ \E i \in 1..queued : Lapse(i)
  \/ \E c \in Setup : Begin(c) \/ SetsUp(c) \/ SetupFails(c)
  \/ \E v \in Visitor : ListCourse(v) \/ CreateListed(v)
  \/ Use

Spec == Init /\ [][Next]_vars

-----------------------------------------------------------------------------
(***************************************************************************)
(* A classification or analysis that counts as current was made of the     *)
(* text whose hash it stores, and against the topics the map now has,      *)
(* whatever was edited and saved while the provider worked.                *)
(***************************************************************************)
GoodFor(result) == /\ result.seen = result.text
                   /\ result.taxonomy = map.taxonomy => result.against = map.topics.meaning
JudgedAsStored == \A n \in Note :
  /\ material[n].status = "classified" => GoodFor(material[n].result)
  /\ paper[n].by # "nobody" => GoodFor(paper[n].result)

(***************************************************************************)
(* A job is completed exactly when its result was published, once, however *)
(* many workers have held its lease (a lapsed worker may come back and     *)
(* find the job with another).                                             *)
(***************************************************************************)
CompletedIsPublished == \A i \in 1..queued :
  jobs[i].state # "gone" => jobs[i].published = IF jobs[i].state = "completed" THEN 1 ELSE 0

(***************************************************************************)
(* Work that was withdrawn changes nothing.  A worker whose lease lapsed   *)
(* and went to another neither publishes nor fails the job the other works *)
(* on; and a job asked for before its material was removed, its paper was  *)
(* reviewed by hand, its note or map was deleted or its account was closed *)
(* publishes nothing after that, even if the material is added again.      *)
(***************************************************************************)
WithdrawnWorkChangesNothing ==
  [][/\ \A w, v \in Worker :
          /\ worker[w].job = worker[v].job /\ worker[w].token < worker[v].token
          /\ worker'[w].pc # worker[w].pc
          => UNCHANGED <<jobs, material, paper, map>>
     /\ \A i \in JobId : jobs[i].revoked => jobs'[i].published = jobs[i].published]_vars

(***************************************************************************)
(* A proposal replaces the whole catalogue, so it is dropped when the      *)
(* user has changed the map or its topics since the proposal read them.    *)
(***************************************************************************)
EditsWin == [][\A w \in Worker : PublishTopics(w) => ~worker[w].overtaken]_vars

(***************************************************************************)
(* The automatic setup asks for nothing that failed the last time: that is *)
(* left to the user.                                                       *)
(***************************************************************************)
Before(i) == {j \in 1..(i - 1) : /\ jobs[j].kind = jobs[i].kind /\ jobs[j].note = jobs[i].note
                                 /\ jobs[j].state # "gone"}
FailedWaitsForUser == \A i \in 1..queued : jobs[i].automatic /\ jobs[i].state # "gone" =>
  \A j \in Before(i) : (\A k \in Before(i) : k <= j) => jobs[j].state # "failed"

(***************************************************************************)
(* The automatic setup leaves alone what is not its own: a map made anew,  *)
(* for the same course, after the one it was for was deleted; and a        *)
(* material the user removed, whose note it finds under the folder all the *)
(* same.                                                                   *)
(***************************************************************************)
SetupKeepsOut ==
  [][\A c \in Setup :
       /\ setup'[c].pc # setup[c].pc /\ setup[c].pc # "idle" /\ setup[c].map # map.id
            => UNCHANGED <<map, material, jobs, note>>
       /\ setup'[c] # setup[c] =>
            \A n \in Note : material[n].in = "removed" => material'[n].in = "removed"]_vars

(***************************************************************************)
(* Two requests for one thing share a job: never are two of them open, and *)
(* a user never has more open jobs than the cap.                           *)
(***************************************************************************)
OpenOnce ==
  /\ \A i, j \in {k \in 1..queued : IsOpen(jobs[k])} :
       jobs[i].kind = jobs[j].kind /\ jobs[i].note = jobs[j].note => i = j
  /\ Cardinality({i \in 1..queued : IsOpen(jobs[i])}) <= Cap

(***************************************************************************)
(* What the documentation says and the code does not keep: see the runs    *)
(* that expect a violation.                                                *)
(***************************************************************************)
\* one automatic proposal per map
Proposals == {i \in 1..queued : jobs[i].kind = "taxonomy" /\ jobs[i].automatic /\ jobs[i].state # "gone"}
ProposedOnce == Cardinality(Proposals) <= 1
\* no job starts for a closed account
ClosedStartsNothing == [][\A i \in JobId : jobs[i].state = "pending" /\ jobs'[i].state = "running" => account]_vars
\* a course whose map was deleted does not get one again by itself
DismissedStaysDeleted == [][\A v \in Visitor : CreateListed(v) /\ dismissed /\ ~map.live => ~map'.live]_vars
\* removing a material withdraws it from what is being worked on
ProposalCitesMembers == [][\A w \in Worker : PublishTopics(w) => Member(map'.topics.cite)]_vars

-----------------------------------------------------------------------------
(***************************************************************************)
(* Liveness.  Workers and reconcile passes keep coming and do not fail for *)
(* ever, and a lease that nobody renews runs out.                          *)
(***************************************************************************)
Abandoned(i) == ~\E w \in Worker : worker[w].pc # "idle" /\ worker[w].job = i /\ Holds(w)
Fairness ==
  /\ \A w \in Worker : SF_vars(Claim(w)) /\ WF_vars(Proceeds(w))
  /\ WF_vars(\E i \in JobId : Abandoned(i) /\ Lapse(i))
  /\ \A c \in Setup : /\ WF_vars(Reconcile(c))
                      /\ SF_vars(SyncMaterials(c)) /\ SF_vars(Configure(c)) /\ SF_vars(SetupClassify(c))
                      /\ WF_vars(SetsUp(c) \/ SetupFails(c))
LiveSpec == Spec /\ Fairness

(***************************************************************************)
(* Left alone, an automatic map gets every material it can read judged as  *)
(* it now reads and by the topics it now has, unless the last job for it   *)
(* failed: that is left to the user.  Texts, topics and members change     *)
(* before, during and after the jobs, workers die and leases lapse; the    *)
(* reconcile passes find what is left to do, and every job ends.           *)
(***************************************************************************)
UpToDate(n) == /\ material[n].status = "classified"
               /\ material[n].result.taxonomy = map.taxonomy /\ material[n].result.text = note[n].text
Settled(n) == UpToDate(n) \/ FailedLast("classify", n)
MapIsReady == account /\ map.live /\ map.auto /\ map.topics.meaning # 0 /\ Current(map.topics)
EventuallyJudged == <>[]MapIsReady =>
  []<>(\A n \in Note : Member(n) /\ Active(n) /\ Legible(n) => Settled(n))
=============================================================================
