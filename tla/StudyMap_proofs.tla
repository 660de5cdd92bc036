--------------------------- MODULE StudyMap_proofs ---------------------------
(***************************************************************************)
(* Theorems about StudyMap: what is stored as judged was judged, a result  *)
(* is published once and by the worker that holds the job, withdrawn work  *)
(* and old setups change nothing, and the user's edits win.                *)
(***************************************************************************)
EXTENDS StudyMap, FiniteSetTheorems, TLAPS

-----------------------------------------------------------------------------
(***************************************************************************)
(* The inductive invariant.  Map: the taxonomy version is one of its      *)
(* versions.  Jobs: one that is withdrawn is not open, and  *)
(* one is published exactly when it is completed; without a map there are  *)
(* none.  Workers: a token is one of the job's attempts; what was read of  *)
(* the map is not newer than the map, has its meaning while the taxonomy   *)
(* version is the same, and is older once the user has edited the map.     *)
(***************************************************************************)
Published(job) == job.state # "gone" => job.published = IF job.state = "completed" THEN 1 ELSE 0
JobOK(job) == job \in Job /\ (job.lapsed => job.state = "running") /\ Published(job) /\ (job.revoked => ~IsOpen(job))

JobInv == \A i \in JobId : /\ JobOK(jobs[i])
                           /\ jobs[i].state = "none" <=> i > queued
                           /\ ~map.live => jobs[i].state \in {"none", "gone"}

Ended(job) == job.state \in {"completed", "gone"}
NotNewer(input, m) == /\ input.version <= m.version /\ input.taxonomy <= m.taxonomy
                      /\ input.taxonomy = m.taxonomy => input.topics.meaning = m.topics.meaning
WorkOK(work, job, m) ==
  /\ work.token <= job.attempts
  /\ work.pc = "read" => ~work.overtaken
  /\ work.pc = "classify" => Ended(job) /\ work.token = job.attempts
  /\ work.pc = "publish" /\ job.state # "gone" =>
       NotNewer(work.input, m) /\ (work.overtaken => work.input.version < m.version)
WorkInv == \A w \in Worker :
  /\ worker[w].pc = "idle" => worker[w] = Resting
  /\ worker[w].pc # "idle" => worker[w].job \in 1..queued /\ WorkOK(worker[w], JobOf(w), map)

Good(result, m) == /\ result.seen = result.text /\ result.taxonomy <= m.taxonomy
                   /\ result.taxonomy = m.taxonomy => result.against = m.topics.meaning
ResultInv == \A n \in Note :
  /\ material[n].status = "classified" => map.live /\ Good(material[n].result, map)
  /\ paper[n].by # "nobody" => map.live /\ Good(paper[n].result, map)

LatestBefore(i, j) == j \in Before(i) /\ \A k \in Before(i) : k <= j
AutoInv == \A i \in 1..queued : jobs[i].automatic /\ jobs[i].state # "gone" =>
  \A j \in JobId : LatestBefore(i, j) => jobs[j].state = "completed"

MapOK(m) == m \in Map /\ m.taxonomy <= m.version

IInv == TypeOK /\ MapOK(map) /\ JobInv /\ WorkInv /\ ResultInv /\ AutoInv
-----------------------------------------------------------------------------
(***************************************************************************)
(* What can become of a job that exists.                                   *)
(***************************************************************************)
JobKeeps(a, b) ==
  /\ JobOK(b)
  /\ b.kind = a.kind /\ b.note = a.note /\ b.automatic = a.automatic
  /\ b.attempts >= a.attempts
  /\ a.state = "none" <=> b.state = "none"
  /\ IsOpen(b) => IsOpen(a)
  /\ a.state = "gone" => b.state = "gone"
  /\ Ended(a) => Ended(b) /\ b.attempts = a.attempts
  /\ a.revoked => b.revoked /\ b.published = a.published
\* and one that is not deleted
GoesOn(a, b) == JobKeeps(a, b) /\ (b.state = "gone" => a.state = "gone")

LEMMA JobFields ==
  ASSUME NEW a \in Job
  PROVE  /\ a.kind \in Kind /\ a.note \in Note \cup {None}
         /\ a.state \in {"none", "pending", "running", "completed", "failed", "gone"}
         /\ a.attempts \in 0..Attempts /\ a.lapsed \in BOOLEAN /\ a.automatic \in BOOLEAN
         /\ a.published \in Nat /\ a.revoked \in BOOLEAN
BY DEF Job

LEMMA Bounds ==
  /\ Attempts \in Nat /\ Cap \in Nat /\ MaxText \in Nat /\ MaxJobs \in Nat
  /\ MaxMeaning \in Nat \ {0} /\ MaxVersion \in Nat \ {0} /\ MaxMaps \in Nat \ {0}
BY StudyMapAssumption

LEMMA KeptAsIs == ASSUME NEW a, JobOK(a) PROVE GoesOn(a, a)
BY JobFields, Bounds DEF GoesOn, JobKeeps, JobOK, Ended, IsOpen

LEMMA KeptWhenReclaimed == ASSUME NEW a, JobOK(a) PROVE GoesOn(a, Reclaim(a))
<1>1. CASE a.state = "running" /\ a.lapsed
  <2> DEFINE b == Reclaim(a)
  <2>1. b \in Job
    BY <1>1 DEF JobOK, Job, Reclaim
  <2>2. /\ b.state = (IF a.attempts >= Attempts THEN "failed" ELSE "pending") /\ b.lapsed = FALSE
        /\ b.kind = a.kind /\ b.note = a.note /\ b.automatic = a.automatic
        /\ b.attempts = a.attempts /\ b.published = a.published /\ b.revoked = a.revoked
    BY <1>1 DEF JobOK, Job, Reclaim
  <2> HIDE DEF b
  <2>3. GoesOn(a, b)
    BY <1>1, <2>1, <2>2, Bounds, JobFields DEF GoesOn, JobKeeps, JobOK, Published, IsOpen, Ended
  <2> QED BY <2>3 DEF b
<1>2. CASE ~(a.state = "running" /\ a.lapsed)
  <2>1. Reclaim(a) = a
    BY <1>2 DEF Reclaim
  <2> QED BY <2>1, KeptAsIs
<1> QED BY <1>1, <1>2

LEMMA KeptWhenLeased ==
  ASSUME NEW a, JobOK(a), a.state = "pending", a.attempts < Attempts, NEW b,
         b = [a EXCEPT !.state = "running", !.attempts = @ + 1]
  PROVE  GoesOn(a, b)
<1>0. a.attempts + 1 \in 0..Attempts
  BY Bounds, JobFields DEF JobOK
<1>1. b \in Job
  BY <1>0 DEF JobOK, Job
<1>2. /\ b.state = "running" /\ b.lapsed = a.lapsed
      /\ b.kind = a.kind /\ b.note = a.note /\ b.automatic = a.automatic
      /\ b.attempts = a.attempts + 1 /\ b.published = a.published /\ b.revoked = a.revoked
  BY DEF JobOK, Job
<1> QED BY <1>1, <1>2, Bounds, JobFields DEF GoesOn, JobKeeps, JobOK, Published, IsOpen, Ended

LEMMA KeptWhenRevoked ==
  ASSUME NEW a, JobOK(a)
  PROVE  /\ GoesOn(a, Revoke(a))
         /\ a.state # "none" => JobKeeps(a, [Revoke(a) EXCEPT !.state = "gone", !.lapsed = FALSE])
<1> DEFINE b == Revoke(a)
           c == [b EXCEPT !.state = "gone", !.lapsed = FALSE]
<1>1. b \in Job
  BY DEF JobOK, Job, Revoke
<1>2. /\ b.state = (IF IsOpen(a) THEN "failed" ELSE a.state)
      /\ b.lapsed = (IF IsOpen(a) THEN FALSE ELSE a.lapsed)
      /\ b.kind = a.kind /\ b.note = a.note /\ b.automatic = a.automatic
      /\ b.attempts = a.attempts /\ b.published = a.published /\ b.revoked = TRUE
  BY DEF JobOK, Job, Revoke
<1> HIDE DEF b
<1>3. c \in Job
  BY <1>1 DEF Job
<1>4. /\ c.state = "gone" /\ c.lapsed = FALSE
      /\ c.kind = b.kind /\ c.note = b.note /\ c.automatic = b.automatic
      /\ c.attempts = b.attempts /\ c.published = b.published /\ c.revoked = b.revoked
  BY <1>1 DEF Job
<1> HIDE DEF c
<1>5. GoesOn(a, b)
  BY <1>1, <1>2, Bounds, JobFields DEF GoesOn, JobKeeps, JobOK, Published, IsOpen, Ended
<1>6. a.state # "none" => JobKeeps(a, c)
  BY <1>2, <1>3, <1>4, Bounds, JobFields DEF JobKeeps, JobOK, Published, IsOpen, Ended
<1> QED BY <1>5, <1>6 DEF b, c

LEMMA KeptWhenCompleted ==
  ASSUME NEW a, JobOK(a), a.state = "running", ~a.lapsed, NEW b,
         b = [[a EXCEPT !.state = "completed"] EXCEPT !.published = @ + 1]
  PROVE  GoesOn(a, b)
<1>0. a.published + 1 \in Nat
  BY JobFields DEF JobOK
<1>1. b \in Job
  BY <1>0 DEF JobOK, Job
<1>2. /\ b.state = "completed" /\ b.lapsed = a.lapsed
      /\ b.kind = a.kind /\ b.note = a.note /\ b.automatic = a.automatic
      /\ b.attempts = a.attempts /\ b.published = a.published + 1 /\ b.revoked = a.revoked
  BY DEF JobOK, Job
<1> QED BY <1>1, <1>2, Bounds, JobFields DEF GoesOn, JobKeeps, JobOK, Published, IsOpen, Ended

LEMMA KeptWhenFailed ==
  ASSUME NEW a, JobOK(a), a.state = "running", ~a.lapsed, NEW b,
         b = [a EXCEPT !.state = "failed"]
  PROVE  GoesOn(a, b)
<1>1. b \in Job
  BY DEF JobOK, Job
<1>2. /\ b.state = "failed" /\ b.lapsed = a.lapsed
      /\ b.kind = a.kind /\ b.note = a.note /\ b.automatic = a.automatic
      /\ b.attempts = a.attempts /\ b.published = a.published /\ b.revoked = a.revoked
  BY DEF JobOK, Job
<1> QED BY <1>1, <1>2, Bounds, JobFields DEF GoesOn, JobKeeps, JobOK, Published, IsOpen, Ended

LEMMA KeptWhenLapsed ==
  ASSUME NEW a, JobOK(a), a.state = "running", NEW b, b = [a EXCEPT !.lapsed = TRUE]
  PROVE  GoesOn(a, b)
<1>1. b \in Job
  BY DEF JobOK, Job
<1>2. /\ b.state = "running" /\ b.lapsed = TRUE
      /\ b.kind = a.kind /\ b.note = a.note /\ b.automatic = a.automatic
      /\ b.attempts = a.attempts /\ b.published = a.published /\ b.revoked = a.revoked
  BY DEF JobOK, Job
<1> QED BY <1>1, <1>2, Bounds, JobFields DEF GoesOn, JobKeeps, JobOK, Published, IsOpen, Ended

LEMMA KeptTwice ==
  ASSUME NEW a, NEW b, NEW c, JobOK(a), GoesOn(a, b), GoesOn(b, c)
  PROVE  GoesOn(a, c)
<1>1. {a.attempts, b.attempts, c.attempts} \subseteq Int
  BY JobFields, Bounds DEF GoesOn, JobKeeps, JobOK
<1>2. c.attempts >= a.attempts
  BY <1>1 DEF GoesOn, JobKeeps
<1>3. Ended(a) => Ended(c) /\ c.attempts = a.attempts
  BY DEF GoesOn, JobKeeps
<1> QED BY <1>2, <1>3 DEF GoesOn, JobKeeps

-----------------------------------------------------------------------------
(***************************************************************************)
(* What a step does to the table of jobs: some of them move on, or new     *)
(* ones, for things that are not queued, are added behind them.            *)
(***************************************************************************)
JobsKeep ==
  /\ queued' = queued /\ jobs' = [i \in JobId |-> jobs'[i]]
  /\ \A i \in JobId : JobKeeps(jobs[i], jobs'[i])
  /\ \A i \in JobId : jobs[i].state # "gone" /\ jobs'[i].state = "gone" =>
       \A k \in 1..queued : jobs[k].note = jobs[i].note => jobs'[k].state = "gone"
NewJob(job, kind, automatic) ==
  /\ job = [NoJob EXCEPT !.kind = kind, !.note = job.note, !.state = "pending", !.automatic = automatic]
  /\ job.note \in Note \cup {None} /\ ~IsQueued(kind, job.note)
  /\ automatic => ~FailedLast(kind, job.note)
AddsTo(last, kind, automatic) ==
  /\ queued' = last /\ last \in queued..MaxJobs /\ last - queued <= Room /\ jobs' = [i \in JobId |-> jobs'[i]]
  /\ \A i \in JobId : i \notin queued + 1..last => jobs'[i] = jobs[i]
  /\ \A i \in queued + 1..last : NewJob(jobs'[i], kind, automatic)
  /\ \A i, j \in queued + 1..last : jobs'[i].note = jobs'[j].note => i = j
Adds == map.live /\ \E last \in 0..MaxJobs, kind \in Kind, automatic \in BOOLEAN : AddsTo(last, kind, automatic)

LEMMA Queued == ASSUME TypeOK PROVE queued \in 0..MaxJobs /\ queued \in Nat /\ 1..queued \subseteq JobId
BY Bounds DEF TypeOK, JobId

Open == {i \in 1..queued : IsOpen(jobs[i])}

LEMMA RoomBound ==
  ASSUME TypeOK
  PROVE  /\ Room \in Int /\ Room <= MaxJobs - queued
         /\ IsFiniteSet(Open) /\ Cardinality(Open) \in Nat /\ Room <= Cap - Cardinality(Open)
<1>1. IsFiniteSet(1..queued)
  BY Queued, FS_Interval
<1>2. IsFiniteSet(Open)
  BY <1>1, FS_Subset DEF Open
<1>3. Cardinality(Open) \in Nat
  BY <1>2, FS_CardinalityType
<1>4. Room = (IF Cap - Cardinality(Open) <= MaxJobs - queued THEN Cap - Cardinality(Open) ELSE MaxJobs - queued)
  BY DEF Room, Open
<1> QED BY <1>2, <1>3, <1>4, Queued, Bounds

LEMMA InsertAdds ==
  ASSUME TypeOK, NEW k \in Nat, k <= Room, NEW order \in [1..k -> Note \cup {None}],
         \A x, y \in 1..k : order[x] = order[y] => x = y,
         NEW kind \in Kind, NEW automatic \in BOOLEAN, Insert(kind, order, automatic),
         \A x \in 1..k : ~IsQueued(kind, order[x]) /\ (automatic => ~FailedLast(kind, order[x]))
  PROVE  \E last \in 0..MaxJobs : AddsTo(last, kind, automatic)
<1>1. DOMAIN order = 1..k /\ Cardinality(1..k) = k
  BY FS_Interval
<1> DEFINE last == queued + k
           new(i) == [NoJob EXCEPT !.kind = kind, !.note = order[i - queued], !.state = "pending", !.automatic = automatic]
<1>2. queued' = last /\ last \in queued..MaxJobs /\ last \in 0..MaxJobs /\ last - queued <= Room
  <2>1. queued' = queued + Cardinality(DOMAIN order)
    BY DEF Insert
  <2> QED BY <1>1, <2>1, Queued, Bounds, RoomBound
<1>3. jobs' = [i \in JobId |-> IF i - queued \in 1..k THEN new(i) ELSE jobs[i]]
  BY <1>1 DEF Insert
<1> HIDE DEF new
<1>4. jobs' = [i \in JobId |-> jobs'[i]]
  BY <1>3
<1>5. \A i \in JobId : i \notin queued + 1..last => jobs'[i] = jobs[i]
  BY <1>3, Queued, Bounds DEF JobId
<1>6. ASSUME NEW i \in queued + 1..last
      PROVE  /\ i \in JobId /\ i - queued \in 1..k
             /\ jobs'[i] = new(i) /\ jobs'[i].note = order[i - queued]
  <2>1. i \in JobId /\ i - queued \in 1..k
    BY <1>2, Queued, Bounds DEF JobId
  <2>2. jobs'[i] = new(i)
    BY <1>3, <2>1
  <2>3. new(i).note = order[i - queued]
    BY DEF new, NoJob
  <2> QED BY <2>1, <2>2, <2>3
<1>7. ASSUME NEW i \in queued + 1..last PROVE NewJob(jobs'[i], kind, automatic)
  <2>1. new(i) = [NoJob EXCEPT !.kind = kind, !.note = jobs'[i].note, !.state = "pending", !.automatic = automatic]
    BY <1>6 DEF new
  <2>2. order[i - queued] \in Note \cup {None}
    BY <1>6
  <2>3. ~IsQueued(kind, order[i - queued]) /\ (automatic => ~FailedLast(kind, order[i - queued]))
    BY <1>6
  <2> QED BY <1>6, <2>1, <2>2, <2>3 DEF NewJob
<1>8. ASSUME NEW i \in queued + 1..last, NEW j \in queued + 1..last, jobs'[i].note = jobs'[j].note PROVE i = j
  <2>1. i - queued = j - queued
    BY <1>6, <1>8
  <2> QED BY <2>1, <1>2, Queued, Bounds
<1> QED BY <1>2, <1>4, <1>5, <1>7, <1>8 DEF AddsTo

LEMMA OrdersInjective ==
  ASSUME NEW S, IsFiniteSet(S), NEW order \in Orders(S)
  PROVE  /\ Cardinality(S) \in Nat /\ order \in [1..Cardinality(S) -> S]
         /\ \A x, y \in 1..Cardinality(S) : order[x] = order[y] => x = y
<1> DEFINE k == Cardinality(S)
<1>1. k \in Nat
  BY FS_CardinalityType
<1>2. IsFiniteSet(1..k) /\ Cardinality(1..k) = k
  BY <1>1, FS_Interval
<1>3. order \in [1..k -> S] /\ \A x \in S : \E i \in DOMAIN order : order[i] = x
  BY DEF Orders
<1> HIDE DEF k
<1>4. order \in Surjection(1..k, S)
  BY <1>3 DEF Surjection
<1>5. Cardinality(1..k) = Cardinality(S)
  BY <1>2 DEF k
<1>6. order \in Injection(1..k, S)
  BY <1>2, <1>4, <1>5, FS_SurjSameCardinalityImpliesInj
<1>7. \A x, y \in 1..k : order[x] = order[y] => x = y
  BY <1>3, <1>6 DEF Injection, IsInjective
<1> QED BY <1>1, <1>3, <1>7 DEF k

LEMMA BatchAdds ==
  ASSUME TypeOK, NEW kind \in Kind, NEW automatic \in BOOLEAN, QueueBatch(kind, automatic)
  PROVE  Adds
<1> DEFINE all == Candidates(kind, automatic)
<1>1. PICK S \in SUBSET all : /\ Cardinality(S) <= Room
                              /\ \E order \in Orders(S) : Insert(kind, order, automatic)
  BY DEF QueueBatch
<1>2. PICK order \in Orders(S) : Insert(kind, order, automatic)
  BY <1>1
<1>3. all \subseteq Note /\ \A n \in all : ~IsQueued(kind, n) /\ (automatic => ~FailedLast(kind, n))
  BY DEF Candidates
<1> HIDE DEF all
<1>4. IsFiniteSet(S)
  BY <1>3, FS_Subset, StudyMapAssumption
<1> DEFINE k == Cardinality(S)
<1>5. k \in Nat /\ order \in [1..k -> S] /\ \A x, y \in 1..k : order[x] = order[y] => x = y
  BY <1>4, OrdersInjective
<1>6. k <= Room
  BY <1>1
<1> HIDE DEF k
<1>7. order \in [1..k -> Note \cup {None}]
  BY <1>3, <1>5
<1>8. \A x \in 1..k : ~IsQueued(kind, order[x]) /\ (automatic => ~FailedLast(kind, order[x]))
  BY <1>3, <1>5
<1>9. \E last \in 0..MaxJobs : AddsTo(last, kind, automatic)
  BY <1>2, <1>5, <1>6, <1>7, <1>8, InsertAdds
<1>10. map.live
  BY DEF QueueBatch, MayQueue
<1> QED BY <1>9, <1>10 DEF Adds

LEMMA OneAdds ==
  ASSUME TypeOK, NEW kind \in Kind, NEW automatic \in BOOLEAN, NEW n \in Note \cup {None},
         map.live, Room > 0, ~IsQueued(kind, n), automatic => ~FailedLast(kind, n),
         Insert(kind, [i \in {1} |-> n], automatic)
  PROVE  Adds
<1>0. 1 \in Nat
  OBVIOUS
<1>1. 1..1 = {1}
  OBVIOUS
<1>2. 1 <= Room
  BY RoomBound
<1> DEFINE order == [i \in {1} |-> n]
<1>3. order \in [1..1 -> Note \cup {None}] /\ \A x \in 1..1 : order[x] = n
  BY <1>1
<1>4. \A x, y \in 1..1 : order[x] = order[y] => x = y
  BY <1>1
<1>5. Insert(kind, order, automatic)
  OBVIOUS
<1> HIDE DEF order
<1>6. \A x \in 1..1 : ~IsQueued(kind, order[x]) /\ (automatic => ~FailedLast(kind, order[x]))
  BY <1>3
<1>7. \E last \in 0..MaxJobs : AddsTo(last, kind, automatic)
  BY <1>0, <1>2, <1>3, <1>4, <1>5, <1>6, InsertAdds
<1> QED BY <1>7 DEF Adds

LEMMA ProposalAdds == ASSUME TypeOK, NEW automatic \in BOOLEAN, MayPropose(automatic), QueueProposal(automatic) PROVE Adds
<1>1. "taxonomy" \in Kind
  BY DEF Kind
<1> QED BY <1>1, OneAdds DEF MayPropose, QueueProposal

JobsStep == JobsKeep \/ Adds

LEMMA JobsType == ASSUME TypeOK, JobInv PROVE jobs = [i \in JobId |-> jobs[i]] /\ \A i \in JobId : JobOK(jobs[i])
BY DEF TypeOK, JobInv

LEMMA SameJobs == ASSUME TypeOK, JobInv, UNCHANGED <<jobs, queued>> PROVE JobsKeep
BY JobsType, KeptAsIs DEF JobsKeep, GoesOn

LEMMA WithdrawKeeps == ASSUME TypeOK, JobInv, NEW ids, Withdraw(ids), queued' = queued PROVE JobsKeep
<1>1. jobs' = [i \in JobId |-> jobs'[i]] /\ \A i \in JobId : jobs'[i] = Revoke(jobs[i]) \/ jobs'[i] = jobs[i]
  BY DEF Withdraw
<1> QED BY <1>1, JobsType, KeptAsIs, KeptWhenRevoked DEF JobsKeep, GoesOn

LEMMA EraseKeeps ==
  ASSUME TypeOK, JobInv, NEW ids \in SUBSET (1..queued), Erase(ids), queued' = queued,
         \A i \in ids, k \in 1..queued : jobs[k].note = jobs[i].note => k \in ids
  PROVE  JobsKeep /\ \A i \in ids : jobs'[i].state = "gone"
<1> DEFINE Erased(a) == [Revoke(a) EXCEPT !.state = "gone", !.lapsed = FALSE]
<1>1. jobs' = [i \in JobId |-> IF i \in ids THEN Erased(jobs[i]) ELSE jobs[i]]
  BY DEF Erase
<1>2. ASSUME NEW i \in JobId PROVE JobKeeps(jobs[i], jobs'[i])
  <2>1. CASE i \in ids
    <3>1. jobs[i].state # "none"
      BY <2>1, Queued DEF JobInv
    <3>2. JobKeeps(jobs[i], Erased(jobs[i]))
      BY <3>1, JobsType, KeptWhenRevoked
    <3> HIDE DEF Erased
    <3> QED BY <1>1, <2>1, <3>2
  <2>2. CASE i \notin ids
    <3> HIDE DEF Erased
    <3> QED BY <1>1, <2>2, JobsType, KeptAsIs DEF GoesOn
  <2> QED BY <2>1, <2>2
<1>3. ASSUME NEW i \in ids PROVE jobs'[i].state = "gone"
  <2>1. Erased(jobs[i]).state = "gone"
    <3>1. Revoke(jobs[i]) \in Job
      BY JobsType, Queued, KeptWhenRevoked DEF GoesOn, JobKeeps, JobOK
    <3> QED BY <3>1 DEF Job
  <2> HIDE DEF Erased
  <2> QED BY <1>1, <2>1, Queued
<1>4. jobs' = [i \in JobId |-> jobs'[i]]
  <2> HIDE DEF Erased
  <2> QED BY <1>1
<1>5. \A i \in JobId \ ids : jobs'[i] = jobs[i]
  <2> HIDE DEF Erased
  <2> QED BY <1>1
<1> QED BY <1>2, <1>3, <1>4, <1>5 DEF JobsKeep

\* One job changes.
LEMMA OneKeeps ==
  ASSUME TypeOK, JobInv, NEW j \in JobId, NEW job, GoesOn(jobs[j], job), jobs' = [jobs EXCEPT ![j] = job],
         queued' = queued
  PROVE  JobsKeep
<1>1. jobs' = [i \in JobId |-> jobs'[i]] /\ \A i \in JobId : jobs'[i] = IF i = j THEN job ELSE jobs[i]
  BY DEF TypeOK
<1> QED BY <1>1, JobsType, KeptAsIs DEF JobsKeep, GoesOn

LEMMA ClaimKeeps == ASSUME TypeOK, JobInv, NEW w \in Worker, Claim(w) PROVE JobsKeep
<1> DEFINE reclaimed == [i \in JobId |-> Reclaim(jobs[i])]
           waiting == {i \in JobId : reclaimed[i].state = "pending" /\ reclaimed[i].attempts < Attempts}
<1>1. \A i \in JobId : GoesOn(jobs[i], reclaimed[i])
  BY JobsType, KeptWhenReclaimed
<1>2. queued' = queued /\ (jobs' = reclaimed \/ \E i \in waiting :
                             jobs' = [reclaimed EXCEPT ![i].state = "running", ![i].attempts = @ + 1])
  BY DEF Claim
<1>3. CASE jobs' = reclaimed
  <2>1. jobs' = [i \in JobId |-> jobs'[i]]
    BY <1>3
  <2> HIDE DEF reclaimed
  <2> QED BY <1>1, <1>2, <1>3, <2>1 DEF JobsKeep, GoesOn
<1>4. ASSUME NEW j \in waiting, jobs' = [reclaimed EXCEPT ![j].state = "running", ![j].attempts = @ + 1]
      PROVE  JobsKeep
  <2> DEFINE a == reclaimed[j]
             b == [a EXCEPT !.state = "running", !.attempts = @ + 1]
  <2>1. j \in JobId /\ a.state = "pending" /\ a.attempts < Attempts
    OBVIOUS
  <2>2. GoesOn(jobs[j], a) /\ JobOK(a)
    BY <1>1, <2>1 DEF GoesOn, JobKeeps
  <2>3. jobs' = [i \in JobId |-> IF i = j THEN b ELSE reclaimed[i]]
    BY <1>4
  <2> HIDE DEF reclaimed, waiting
  <2>4. GoesOn(a, b)
    <3> HIDE DEF a
    <3> QED BY <2>1, <2>2, KeptWhenLeased
  <2> HIDE DEF a, b
  <2>5. GoesOn(jobs[j], b)
    BY <2>1, <2>2, <2>4, JobsType, KeptTwice
  <2>6. jobs' = [i \in JobId |-> jobs'[i]] /\ \A i \in JobId : jobs'[i] = IF i = j THEN b ELSE reclaimed[i]
    BY <2>3
  <2> QED BY <1>1, <1>2, <2>5, <2>6 DEF JobsKeep, GoesOn
<1> QED BY <1>2, <1>3, <1>4

LEMMA LapseKeeps == ASSUME TypeOK, JobInv, NEW i \in 1..queued, Lapse(i) PROVE JobsKeep
<1> DEFINE b == [jobs[i] EXCEPT !.lapsed = TRUE]
<1>1. jobs' = [jobs EXCEPT ![i] = b] /\ queued' = queued /\ jobs[i].state = "running" /\ i \in JobId
  BY Queued DEF Lapse
<1>2. GoesOn(jobs[i], b)
  BY <1>1, JobsType, KeptWhenLapsed
<1> HIDE DEF b
<1> QED BY <1>1, <1>2, OneKeeps

\* Who holds a job has it running.
LEMMA Held ==
  ASSUME TypeOK, WorkInv, NEW w \in Worker, worker[w].pc # "idle"
  PROVE  worker[w].job \in 1..queued /\ worker[w].job \in JobId
BY Queued DEF WorkInv

LEMMA CompleteKeeps ==
  ASSUME TypeOK, JobInv, WorkInv, NEW w \in Worker, worker[w].pc # "idle", Holds(w), Complete(w), queued' = queued
  PROVE  JobsKeep
<1> DEFINE j == worker[w].job
           b == [[jobs[j] EXCEPT !.state = "completed"] EXCEPT !.published = @ + 1]
<1>1. j \in JobId
  BY Held
<1>2. JobOK(jobs[j]) /\ jobs[j].state = "running" /\ ~jobs[j].lapsed
  BY <1>1, JobsType DEF Holds, JobOf
<1>3. GoesOn(jobs[j], b)
  BY <1>2, KeptWhenCompleted
<1>4. jobs' = [jobs EXCEPT ![j] = b]
  BY <1>1, <1>2 DEF Complete, JobOK, Job
<1> HIDE DEF b
<1> QED BY <1>1, <1>3, <1>4, OneKeeps

LEMMA GiveUpKeeps == ASSUME TypeOK, JobInv, WorkInv, NEW w \in Worker, GiveUp(w) PROVE JobsKeep
<1>1. CASE ~Holds(w)
  BY <1>1, SameJobs DEF GiveUp
<1>2. CASE Holds(w)
  <2> DEFINE j == worker[w].job
             b == [jobs[j] EXCEPT !.state = "failed"]
  <2>1. j \in JobId /\ queued' = queued
    BY Held DEF GiveUp
  <2>2. JobOK(jobs[j]) /\ jobs[j].state = "running" /\ ~jobs[j].lapsed
    BY <1>2, <2>1, JobsType DEF Holds, JobOf
  <2>3. GoesOn(jobs[j], b)
    BY <2>2, KeptWhenFailed
  <2>4. jobs' = [jobs EXCEPT ![j] = b]
    BY <1>2 DEF GiveUp
  <2> HIDE DEF b
  <2> QED BY <2>1, <2>3, <2>4, OneKeeps
<1> QED BY <1>1, <1>2

LEMMA ClassifyAdds == ASSUME TypeOK, JobInv, ClassifyAutomatically PROVE JobsStep
<1>1. "classify" \in Kind
  BY DEF Kind
<1> QED BY <1>1, SameJobs, BatchAdds DEF ClassifyAutomatically, JobsStep

LEMMA AskAdds == ASSUME TypeOK, JobInv, NEW kind \in Asked, AskFor(kind) PROVE Adds
<1>1. kind \in Kind /\ FALSE \in BOOLEAN
  BY StudyMapAssumption DEF Kind
<1>2. CASE kind = "taxonomy" /\ QueueProposal(FALSE)
  BY <1>2, ProposalAdds DEF QueueProposal
<1>3. CASE QueueBatch(kind, FALSE)
  BY <1>1, <1>3, BatchAdds
<1>4. ASSUME MayQueue(FALSE), NEW n \in Note, ~IsQueued(kind, n), Insert(kind, [i \in {1} |-> n], FALSE)
      PROVE  Adds
  BY <1>1, <1>4, OneAdds DEF MayQueue
<1> QED BY <1>2, <1>3, <1>4 DEF AskFor

-----------------------------------------------------------------------------
(***************************************************************************)
(* What a step does to the rest: the map moves forward, dies with its jobs *)
(* and results, or is made anew; a result is kept, dropped, or good; a     *)
(* worker is left alone, overtaken by an edit, or well off after its own   *)
(* step.                                                                   *)
(***************************************************************************)
MapGrows == /\ map'.live = map.live /\ map'.version >= map.version /\ map'.taxonomy >= map.taxonomy
            /\ map'.taxonomy = map.taxonomy => map'.topics.meaning = map.topics.meaning
MapDies == ~map'.live /\ queued' = queued /\ \A i \in 1..queued : jobs'[i].state = "gone"
MapBorn == ~map.live /\ UNCHANGED <<jobs, queued>>
MapStep == MapOK(map') /\ (MapGrows \/ MapDies \/ MapBorn)

ResultStep ==
  /\ material' \in [Note -> Material] /\ paper' \in [Note -> Analysis]
  /\ ~map'.live => \A n \in Note : material'[n].status # "classified" /\ paper'[n].by = "nobody"
  /\ \A n \in Note :
       /\ material'[n].status = "classified" =>
            Good(material'[n].result, map') \/ (material[n].status = "classified" /\ material'[n].result = material[n].result)
       /\ paper'[n].by # "nobody" =>
            Good(paper'[n].result, map') \/ (paper[n].by # "nobody" /\ paper'[n].result = paper[n].result)

LeftAlone(w) == worker'[w] = worker[w]
OvertakenIn(w) == /\ worker'[w] = [worker[w] EXCEPT !.overtaken = @ \/ worker[w].pc = "publish"]
                  /\ map'.version > map.version
WellOff(w) == /\ worker'[w].pc = "idle" => worker'[w] = Resting
              /\ worker'[w].pc # "idle" => /\ worker'[w].job \in 1..queued'
                                           /\ WorkOK(worker'[w], jobs'[worker'[w].job], map')
WorkStep == worker' \in [Worker -> Work] /\ \A w \in Worker : LeftAlone(w) \/ OvertakenIn(w) \/ WellOff(w)

OtherStep == /\ account' \in BOOLEAN /\ dismissed' \in BOOLEAN /\ note' \in [Note -> [place : Place, text : Text]]
             /\ setup' \in [Setup -> Call] /\ visitor' \in [Visitor -> BOOLEAN]

Moves == JobsStep /\ MapStep /\ ResultStep /\ WorkStep /\ OtherStep

LEMMA MapFields == ASSUME NEW m \in Map
  PROVE /\ m.id \in 0..MaxMaps /\ m.live \in BOOLEAN /\ m.auto \in BOOLEAN /\ m.version \in Version
        /\ m.taxonomy \in Version /\ m.topics \in Topics /\ m.syllabus \in Note \cup {None} /\ m.year \in Year
        /\ m.version \in Nat /\ m.taxonomy \in Nat
BY Bounds DEF Map, Version

LEMMA SameMap == ASSUME IInv, UNCHANGED map PROVE MapStep
BY MapFields DEF IInv, MapOK, MapStep, MapGrows

LEMMA SameResults == ASSUME IInv, UNCHANGED <<material, paper>>, map'.live = map.live PROVE ResultStep
BY DEF IInv, TypeOK, ResultInv, ResultStep, Analysis

LEMMA SameWork == ASSUME IInv, UNCHANGED worker PROVE WorkStep
BY DEF IInv, TypeOK, WorkStep, LeftAlone

LEMMA SameOthers == ASSUME IInv, UNCHANGED <<account, dismissed, note, setup, visitor>> PROVE OtherStep
BY DEF IInv, TypeOK, OtherStep

LEMMA SameTable == ASSUME IInv, UNCHANGED <<jobs, queued>> PROVE JobsStep
BY SameJobs DEF IInv, JobsStep

LEMMA ReplaceGrows ==
  ASSUME IInv, NEW topics \in Topics, Replace(topics)
  PROVE  /\ MapStep /\ map'.live = map.live /\ map'.version > map.version
         /\ material' \in [Note -> Material]
         /\ \A n \in Note : material'[n].status = "classified" =>
              material[n].status = "classified" /\ material'[n].result = material[n].result
<1> DEFINE changed == topics.meaning # map.topics.meaning
           taxonomy == IF changed THEN map.taxonomy + 1 ELSE map.taxonomy
<1>1. map \in Map /\ map.taxonomy <= map.version /\ map.version < MaxVersion
  BY DEF IInv, MapOK, Replace
<1>2. map.version + 1 \in Version /\ taxonomy \in Version /\ taxonomy <= map.version + 1 /\ taxonomy >= map.taxonomy
  BY <1>1, MapFields, Bounds DEF Version
<1>3. taxonomy = map.taxonomy => ~changed
  BY <1>1, MapFields
<1>4. map' = [map EXCEPT !.topics = topics, !.version = map.version + 1, !.taxonomy = taxonomy]
  BY DEF Replace
<1>5. /\ map'.live = map.live /\ map'.version = map.version + 1 /\ map'.taxonomy = taxonomy
      /\ map'.topics = topics
  BY <1>1, <1>4 DEF Map
<1>6. map' \in Map
  <2> HIDE DEF taxonomy
  <2> QED BY <1>1, <1>2, <1>4 DEF Map
<1>7. MapStep /\ map'.version > map.version
  <2>1. map'.version >= map.version /\ map'.version > map.version
    BY <1>1, <1>5, MapFields
  <2>2. map'.taxonomy = map.taxonomy => map'.topics.meaning = map.topics.meaning
    BY <1>3, <1>5
  <2>3. map'.taxonomy >= map.taxonomy /\ map'.taxonomy <= map'.version
    BY <1>2, <1>5
  <2> QED BY <1>5, <1>6, <2>1, <2>2, <2>3 DEF MapStep, MapGrows, MapOK
<1>8. ASSUME NEW n \in Note
      PROVE  /\ Stale(material[n]) \in Material
             /\ Stale(material[n]).status # "classified"
  BY DEF IInv, TypeOK, Stale, Material
<1>9. /\ material' \in [Note -> Material]
      /\ \A n \in Note : material'[n].status = "classified" =>
              material[n].status = "classified" /\ material'[n].result = material[n].result
  <2>1. material \in [Note -> Material]
    BY DEF IInv, TypeOK
  <2>2. material' = IF changed THEN [n \in Note |-> Stale(material[n])] ELSE material
    BY DEF Replace
  <2> QED BY <1>8, <2>1, <2>2
<1> QED BY <1>5, <1>7, <1>9

-----------------------------------------------------------------------------
(***************************************************************************)
(* What each step of a worker does.                                        *)
(***************************************************************************)
LEMMA WorkFields == ASSUME NEW k \in Work
  PROVE /\ k.pc \in {"idle", "read", "publish", "classify"} /\ k.job \in 0..MaxJobs /\ k.token \in 0..Attempts
        /\ k.input \in Input /\ k.overtaken \in BOOLEAN
BY DEF Work

LEMMA InputFields == ASSUME NEW k \in Input
  PROVE /\ k.texts \in [Note -> Text \cup {Unread}] /\ k.topics \in Topics /\ k.version \in Version
        /\ k.taxonomy \in Version /\ k.version \in Nat /\ k.taxonomy \in Nat
BY Bounds DEF Input, Version

LEMMA Idles == Resting \in Work /\ Resting.pc = "idle"
<1>1. NoInput \in Input
  BY Bounds, StudyMapAssumption DEF Input, NoInput, NoTopics, Topics, Meaning, Text, Version, Unread
<1> QED BY <1>1, Bounds DEF Resting, Work

\* One worker goes back to rest.
LEMMA RestStep == ASSUME IInv, NEW w \in Worker, worker' = [worker EXCEPT ![w] = Resting] PROVE WorkStep
BY Idles DEF IInv, TypeOK, WorkStep, LeftAlone, WellOff

\* One worker goes on.
LEMMA GoOn ==
  ASSUME IInv, NEW w \in Worker, NEW work \in Work, worker' = [worker EXCEPT ![w] = work], work.pc # "idle",
         work.job \in 1..queued', WorkOK(work, jobs'[work.job], map')
  PROVE  WorkStep
<1>1. worker' \in [Worker -> Work] /\ worker'[w] = work /\ \A v \in Worker \ {w} : worker'[v] = worker[v]
  BY DEF IInv, TypeOK
<1> QED BY <1>1 DEF WorkStep, LeftAlone, WellOff

LEMMA ClaimMoves == ASSUME IInv, NEW w \in Worker, Claim(w) PROVE Moves
<1> DEFINE reclaimed == [i \in JobId |-> Reclaim(jobs[i])]
           waiting == {i \in JobId : reclaimed[i].state = "pending" /\ reclaimed[i].attempts < Attempts}
<1>1. JobsStep
  BY ClaimKeeps DEF IInv, JobsStep
<1>2. MapStep /\ ResultStep /\ OtherStep
  BY SameMap, SameResults, SameOthers DEF Claim
<1>3. CASE UNCHANGED worker
  BY <1>1, <1>2, <1>3, SameWork DEF Moves
<1>4. ASSUME NEW i \in waiting, jobs' = [reclaimed EXCEPT ![i].state = "running", ![i].attempts = @ + 1],
             worker' = [worker EXCEPT ![w] = [Resting EXCEPT !.pc = "read", !.job = i, !.token = reclaimed[i].attempts + 1]]
      PROVE  Moves
  <2> DEFINE a == reclaimed[i]
             work == [Resting EXCEPT !.pc = "read", !.job = i, !.token = a.attempts + 1]
  <2>1. i \in JobId /\ a.state = "pending" /\ a.attempts < Attempts /\ JobKeeps(jobs[i], a)
    BY JobsType, KeptWhenReclaimed DEF IInv, GoesOn
  <2>2. a \in Job /\ jobs[i].state # "none" /\ i \in 1..queued
    BY <2>1, Queued, Bounds DEF JobKeeps, JobOK, IInv, JobInv, JobId
  <2>3. jobs'[i].attempts = a.attempts + 1 /\ queued' = queued
    <3>1. jobs'[i] = [a EXCEPT !.state = "running", !.attempts = @ + 1]
      BY <1>4, <2>1
    <3> HIDE DEF a
    <3> QED BY <2>2, <3>1 DEF Claim, Job
  <2> HIDE DEF a
  <2>4. a.attempts + 1 \in 0..Attempts /\ i \in 0..MaxJobs
    BY <2>1, <2>2, JobFields, Bounds DEF JobId
  <2>5. work \in Work
    BY <2>4, Idles DEF Work
  <2>6. work.pc = "read" /\ work.job = i /\ work.token = a.attempts + 1 /\ work.overtaken = FALSE
    BY DEF Resting
  <2>7. worker' = [worker EXCEPT ![w] = work]
    BY <1>4 DEF a
  <2> HIDE DEF work
  <2>8. WorkOK(work, jobs'[i], map')
    BY <2>3, <2>4, <2>6, Bounds DEF WorkOK
  <2>9. WorkStep
    BY <2>2, <2>3, <2>5, <2>6, <2>7, <2>8, GoOn
  <2> QED BY <1>1, <1>2, <2>9 DEF Moves
<1> QED BY <1>3, <1>4 DEF Claim

LEMMA ReadMoves == ASSUME IInv, NEW w \in Worker, Read(w) PROVE Moves
<1> DEFINE input == [texts |-> [n \in Note |-> IF n \in Sources(JobOf(w)) THEN note[n].text ELSE Unread],
                     topics |-> map.topics, version |-> map.version, taxonomy |-> map.taxonomy,
                     syllabus |-> map.syllabus, year |-> map.year]
           work == [worker[w] EXCEPT !.pc = "publish", !.input = input]
<1>1. JobsStep /\ MapStep /\ ResultStep /\ OtherStep
  BY SameTable, SameMap, SameResults, SameOthers DEF Read
<1>2. input \in Input
  <2>1. [n \in Note |-> IF n \in Sources(JobOf(w)) THEN note[n].text ELSE Unread] \in [Note -> Text \cup {Unread}]
    BY DEF IInv, TypeOK
  <2>2. map \in Map
    BY DEF IInv, MapOK
  <2> QED BY <2>1, <2>2, MapFields DEF Input
<1>3. input.version = map.version /\ input.taxonomy = map.taxonomy /\ input.topics = map.topics
  OBVIOUS
<1>4. worker' = [worker EXCEPT ![w] = work] /\ worker[w].pc = "read" /\ worker[w] \in Work
  BY DEF Read, IInv, TypeOK
<1> HIDE DEF input
<1>5. work \in Work
  BY <1>2, <1>4 DEF Work
<1>6. /\ work.pc = "publish" /\ work.job = worker[w].job /\ work.token = worker[w].token
      /\ work.input = input /\ work.overtaken = worker[w].overtaken
  BY <1>4 DEF Work
<1> HIDE DEF work
<1>7. worker[w].job \in 1..queued /\ WorkOK(worker[w], JobOf(w), map)
  BY <1>4 DEF IInv, WorkInv
<1>8. WorkOK(work, JobOf(w), map)
  <2>1. ~work.overtaken /\ work.token <= JobOf(w).attempts
    BY <1>4, <1>6, <1>7 DEF WorkOK
  <2>2. NotNewer(input, map)
    BY <1>3, MapFields DEF NotNewer, IInv, MapOK
  <2> QED BY <1>6, <2>1, <2>2 DEF WorkOK
<1>9. queued' = queued /\ jobs'[work.job] = JobOf(w) /\ map' = map
  BY <1>6 DEF Read, JobOf
<1>10. WorkStep
  BY <1>4, <1>5, <1>6, <1>7, <1>8, <1>9, GoOn
<1> QED BY <1>1, <1>10 DEF Moves

\* What a worker may publish was judged on what the map and the note still say.
LEMMA PublishableFacts ==
  ASSUME IInv, NEW w \in Worker, Publishable(w)
  PROVE  /\ worker[w].pc = "publish" /\ Holds(w) /\ worker[w].job \in JobId
         /\ JobOf(w).state = "running" /\ JobOf(w) \in Job /\ map.live
         /\ NotNewer(worker[w].input, map)
         /\ worker[w].overtaken => worker[w].input.version < map.version
<1>1. worker[w].pc = "publish" /\ Holds(w) /\ worker[w].job \in JobId
  BY Held DEF Publishable, IInv
<1>2. JobOf(w).state = "running" /\ JobOK(JobOf(w)) /\ map.live
  BY <1>1, JobsType DEF Holds, JobOf, IInv, JobInv
<1>3. WorkOK(worker[w], JobOf(w), map)
  BY <1>1 DEF IInv, WorkInv
<1> QED BY <1>1, <1>2, <1>3 DEF WorkOK, JobOK

LEMMA CompleteStep ==
  ASSUME IInv, NEW w \in Worker, Publishable(w), Complete(w), queued' = queued
  PROVE  /\ JobsStep /\ worker[w].job \in 1..queued'
         /\ jobs'[worker[w].job].state = "completed"
         /\ jobs'[worker[w].job].attempts = worker[w].token
<1> DEFINE j == worker[w].job
<1>1. j \in JobId /\ j \in 1..queued /\ Holds(w) /\ worker[w].pc = "publish" /\ jobs[j] \in Job
  BY PublishableFacts, Held DEF IInv, JobOf
<1>2. JobsStep
  BY <1>1, CompleteKeeps DEF IInv, JobsStep
<1>3. jobs'[j] = [[jobs[j] EXCEPT !.state = "completed"] EXCEPT !.published = @ + 1]
  BY <1>1 DEF Complete, IInv, TypeOK
<1>4. jobs'[j].state = "completed" /\ jobs'[j].attempts = jobs[j].attempts
  BY <1>1, <1>3 DEF Job
<1>5. jobs[j].attempts = worker[w].token
  BY <1>1 DEF Holds, JobOf
<1> QED BY <1>1, <1>2, <1>4, <1>5

LEMMA JudgedGood ==
  ASSUME IInv, NEW w \in Worker, Publishable(w), JobOf(w).kind # "taxonomy", JobOf(w).note \in Note
  PROVE  Judged(w, JobOf(w).note) \in Judgement /\ Good(Judged(w, JobOf(w).note), map)
<1> DEFINE n == JobOf(w).note
           input == worker[w].input
<1>1. map.taxonomy = input.taxonomy /\ note[n].text = input.texts[n]
  BY DEF Publishable, MapChangedSince, CurrentSource
<1>2. NotNewer(input, map) /\ map \in Map /\ input \in Input
  BY PublishableFacts, WorkFields DEF IInv, TypeOK
<1>3. input.topics.meaning = map.topics.meaning
  BY <1>1, <1>2 DEF NotNewer
<1>4. map.topics.meaning \in Meaning
  BY <1>2, MapFields DEF Topics
<1>5. note[n].text \in Text
  BY DEF IInv, TypeOK
<1> HIDE DEF n
<1>6. Judged(w, n) = [text |-> note[n].text, taxonomy |-> map.taxonomy, seen |-> note[n].text, against |-> map.topics.meaning]
  BY <1>1, <1>3 DEF Judged
<1>7. Judged(w, n) \in Judgement
  BY <1>2, <1>4, <1>5, <1>6, MapFields DEF Judgement
<1>8. Good(Judged(w, n), map)
  <2>1. map.taxonomy \in Nat
    BY <1>2, MapFields
  <2> QED BY <1>6, <2>1 DEF Good
<1> QED BY <1>7, <1>8 DEF n

LEMMA ClassificationMoves == ASSUME IInv, NEW w \in Worker, PublishClassification(w) PROVE Moves
<1> DEFINE n == JobOf(w).note
           result == Judged(w, n)
<1>1. Publishable(w) /\ Complete(w) /\ queued' = queued /\ map' = map /\ JobOf(w).kind # "taxonomy" /\ paper' = paper
  BY DEF PublishClassification
<1>2. JobsStep /\ MapStep /\ WorkStep /\ OtherStep
  BY <1>1, CompleteStep, SameMap, SameOthers, RestStep DEF PublishClassification
<1>3. map'.live /\ material \in [Note -> Material] /\ paper \in [Note -> Analysis]
  BY <1>1, PublishableFacts DEF IInv, TypeOK
<1>4. material' = [material EXCEPT ![n].status = "classified", ![n].result = result]
  BY DEF PublishClassification
<1>5. CASE n \in Note
  <2>1. result \in Judgement /\ Good(result, map')
    BY <1>1, <1>5, JudgedGood
  <2> HIDE DEF n, result
  <2> DEFINE new == [material[n] EXCEPT !.status = "classified", !.result = result]
  <2>2. material' = [material EXCEPT ![n] = new]
    BY <1>3, <1>4
  <2>3. new \in Material /\ new.result = result
    BY <1>3, <1>5, <2>1 DEF Material
  <2> HIDE DEF new
  <2>4. material' \in [Note -> Material] /\ material'[n] = new /\ \A m \in Note \ {n} : material'[m] = material[m]
    BY <1>3, <1>5, <2>2, <2>3
  <2> QED BY <1>1, <1>2, <1>3, <2>1, <2>3, <2>4 DEF ResultStep, Moves
<1>6. CASE n \notin Note
  <2>1. material' = material
    <3> HIDE DEF n, result
    <3> QED BY <1>3, <1>4, <1>6
  <2> QED BY <1>1, <1>2, <2>1, SameResults DEF Moves
<1> QED BY <1>5, <1>6

LEMMA PaperMoves == ASSUME IInv, NEW w \in Worker, PublishPaper(w) PROVE Moves
<1> DEFINE n == JobOf(w).note
           result == Judged(w, n)
           new == [by |-> "job", result |-> result]
<1>1. Publishable(w) /\ Complete(w) /\ queued' = queued /\ map' = map /\ JobOf(w).kind # "taxonomy" /\ material' = material
  BY DEF PublishPaper
<1>2. JobsStep /\ MapStep /\ WorkStep /\ OtherStep
  BY <1>1, CompleteStep, SameMap, SameOthers, RestStep DEF PublishPaper
<1>3. map'.live /\ material \in [Note -> Material] /\ paper \in [Note -> Analysis]
  BY <1>1, PublishableFacts DEF IInv, TypeOK
<1>4. paper' = [paper EXCEPT ![n] = new]
  BY DEF PublishPaper
<1>5. CASE n \in Note
  <2>1. result \in Judgement /\ Good(result, map')
    BY <1>1, <1>5, JudgedGood
  <2> HIDE DEF n, result
  <2>2. new \in Analysis /\ new.result = result
    BY <2>1 DEF Analysis
  <2> HIDE DEF new
  <2>3. paper' \in [Note -> Analysis] /\ paper'[n] = new /\ \A m \in Note \ {n} : paper'[m] = paper[m]
    BY <1>3, <1>4, <1>5, <2>2
  <2> QED BY <1>1, <1>2, <1>3, <2>1, <2>2, <2>3 DEF ResultStep, Moves
<1>6. CASE n \notin Note
  <2>1. paper' = paper
    <3> HIDE DEF n, result, new
    <3> QED BY <1>3, <1>4, <1>6
  <2> QED BY <1>1, <1>2, <2>1, SameResults DEF Moves
<1> QED BY <1>5, <1>6

LEMMA TopicsMoves == ASSUME IInv, NEW w \in Worker, PublishTopics(w) PROVE Moves
<1>1. PICK n \in Note, meaning \in Meaning : Replace([meaning |-> meaning, cite |-> n, text |-> note[n].text])
  BY DEF PublishTopics
<1> DEFINE topics == [meaning |-> meaning, cite |-> n, text |-> note[n].text]
<1>2. topics \in Topics
  BY DEF IInv, TypeOK, Topics
<1>3. Publishable(w) /\ Complete(w) /\ queued' = queued /\ paper' = paper
  BY DEF PublishTopics
<1> HIDE DEF topics
<1>4. /\ MapStep /\ map'.live = map.live /\ material' \in [Note -> Material]
      /\ \A m \in Note : material'[m].status = "classified" =>
           material[m].status = "classified" /\ material'[m].result = material[m].result
  BY <1>1, <1>2, ReplaceGrows DEF topics
<1>5. ResultStep
  BY <1>3, <1>4, PublishableFacts DEF ResultStep, IInv, TypeOK
<1>6. JobsStep /\ OtherStep
  BY <1>3, CompleteStep, SameOthers DEF PublishTopics
<1> DEFINE work == [worker[w] EXCEPT !.pc = "classify"]
<1>7. worker' = [worker EXCEPT ![w] = work] /\ worker[w] \in Work
  BY DEF PublishTopics, IInv, TypeOK
<1>8. work \in Work /\ work.pc = "classify" /\ work.job = worker[w].job /\ work.token = worker[w].token
  BY <1>7 DEF Work
<1> HIDE DEF work
<1>9. work.job \in 1..queued' /\ jobs'[work.job].state = "completed" /\ jobs'[work.job].attempts = work.token
  BY <1>3, <1>8, CompleteStep
<1>10. WorkOK(work, jobs'[work.job], map')
  <2>1. work.token \in Int
    BY <1>8, WorkFields
  <2> QED BY <1>8, <1>9, <2>1 DEF WorkOK, Ended
<1>11. WorkStep
  BY <1>7, <1>8, <1>9, <1>10, GoOn
<1> QED BY <1>4, <1>5, <1>6, <1>11 DEF Moves

LEMMA ClassifyNextMoves == ASSUME IInv, NEW w \in Worker, ClassifyNext(w) PROVE Moves
<1>1. JobsStep
  BY SameTable, ClassifyAdds DEF ClassifyNext, IInv
<1> QED BY <1>1, SameMap, SameResults, SameOthers, RestStep DEF ClassifyNext, Moves

LEMMA GiveUpMoves == ASSUME IInv, NEW w \in Worker, GiveUp(w) PROVE Moves
<1>1. JobsStep
  BY GiveUpKeeps DEF IInv, JobsStep
<1> QED BY <1>1, SameMap, SameResults, SameOthers, RestStep DEF GiveUp, Moves

LEMMA DieMoves == ASSUME IInv, NEW w \in Worker, Die(w) PROVE Moves
BY SameTable, SameMap, SameResults, SameOthers, RestStep DEF Die, Moves

LEMMA LapseMoves == ASSUME IInv, NEW i \in 1..queued, Lapse(i) PROVE Moves
<1>1. JobsStep
  BY LapseKeeps DEF IInv, JobsStep
<1> QED BY <1>1, SameMap, SameResults, SameOthers, SameWork DEF Lapse, Moves

-----------------------------------------------------------------------------
(***************************************************************************)
(* What each step of the setup, the page and the user does.                *)
(***************************************************************************)
\* Some materials change without becoming classified.
LEMMA MaterialsIn ==
  ASSUME IInv, map' = map, UNCHANGED paper, material' \in [Note -> Material],
         \A n \in Note : material'[n].status = material[n].status /\ material'[n].result = material[n].result
  PROVE  ResultStep
BY DEF IInv, TypeOK, ResultInv, ResultStep, Analysis

LEMMA CallGoes ==
  ASSUME IInv, NEW c \in Setup, NEW pc \in {"idle", "configure", "classify", "ask", "propose"}, Goto(c, pc)
  PROVE  setup' \in [Setup -> Call]
<1>1. IdleCall \in Call
  BY Bounds DEF IdleCall, Call
<1>2. setup[c] \in Call /\ [setup[c] EXCEPT !.pc = pc] \in Call
  BY DEF IInv, TypeOK, Call
<1> QED BY <1>1, <1>2 DEF Goto, IInv, TypeOK

LEMMA BeginMoves == ASSUME IInv, NEW c \in Setup, Begin(c) PROVE Moves
<1>1. [pc |-> "sync", map |-> map.id] \in Call
  BY MapFields DEF IInv, MapOK, Call
<1>2. setup' \in [Setup -> Call]
  BY <1>1 DEF Begin, IInv, TypeOK
<1>3. OtherStep
  BY <1>2 DEF Begin, IInv, TypeOK, OtherStep
<1> QED BY <1>3, SameTable, SameMap, SameResults, SameWork DEF Begin, Moves

LEMMA SetupMoves ==
  ASSUME IInv, NEW c \in Setup, SetupClassify(c) \/ Ask(c) \/ SetupPropose(c) \/ SetupFails(c)
  PROVE  Moves
<1>1. PICK pc \in {"idle", "configure", "classify", "ask", "propose"} : Goto(c, pc)
  BY DEF SetupClassify, Ask, SetupPropose, SetupFails
<1>2. setup' \in [Setup -> Call]
  BY <1>1, CallGoes
<1>3. UNCHANGED <<account, map, dismissed, note, material, paper, worker, visitor>>
  BY DEF SetupClassify, Ask, SetupPropose, SetupFails
<1>4. JobsStep
  <2>1. CASE SetupClassify(c)
    BY <2>1, ClassifyAdds DEF SetupClassify, IInv
  <2>2. CASE SetupPropose(c)
    <3>1. TRUE \in BOOLEAN
      OBVIOUS
    <3> QED BY <2>2, <3>1, ProposalAdds, SameTable DEF SetupPropose, IInv, JobsStep
  <2>3. CASE Ask(c) \/ SetupFails(c)
    BY <2>3, SameTable DEF Ask, SetupFails
  <2> QED BY <2>1, <2>2, <2>3
<1>5. OtherStep
  BY <1>2, <1>3 DEF IInv, TypeOK, OtherStep
<1> QED BY <1>3, <1>4, <1>5, SameMap, SameResults, SameWork DEF Moves

LEMMA SyncMoves == ASSUME IInv, NEW c \in Setup, SyncMaterials(c) PROVE Moves
<1>1. setup' \in [Setup -> Call]
  BY CallGoes DEF SyncMaterials
<1>2. OtherStep
  BY <1>1 DEF SyncMaterials, IInv, TypeOK, OtherStep
<1>3. ASSUME NEW n \in Note
      PROVE  material'[n] \in Material /\ material'[n].status = material[n].status /\ material'[n].result = material[n].result
  <2>1. material[n] \in Material
    BY DEF IInv, TypeOK
  <2>2. material'[n] = [material[n] EXCEPT !.in = "yes"] \/ material'[n] = material[n]
    BY DEF SyncMaterials
  <2> QED BY <2>1, <2>2 DEF Material
<1>4. material' \in [Note -> Material]
  BY <1>3 DEF SyncMaterials
<1>5. ResultStep
  BY <1>3, <1>4, MaterialsIn DEF SyncMaterials
<1> QED BY <1>2, <1>5, SameTable, SameMap, SameWork DEF SyncMaterials, Moves

\* The map changes, but not its topics.
LEMMA MapEdited ==
  ASSUME IInv, map' \in Map, map'.live = map.live, map'.version \in {map.version, map.version + 1},
         map'.taxonomy = map.taxonomy, map'.topics = map.topics
  PROVE  MapStep
<1>1. map.version \in Nat /\ map.taxonomy \in Nat /\ map.taxonomy <= map.version
  BY MapFields DEF IInv, MapOK
<1> QED BY <1>1 DEF MapStep, MapOK, MapGrows

LEMMA MaterialsInEdited ==
  ASSUME IInv, UNCHANGED paper, map'.live = map.live, material' \in [Note -> Material],
         \A n \in Note : material'[n].status = material[n].status /\ material'[n].result = material[n].result
  PROVE  ResultStep
BY DEF IInv, TypeOK, ResultInv, ResultStep, Analysis

\* A material comes in or is removed.
LEMMA MaterialSet ==
  ASSUME IInv, NEW n \in Note, NEW in \in {"no", "yes", "removed"}, material' = [material EXCEPT ![n].in = in]
  PROVE  /\ material' \in [Note -> Material]
         /\ \A m \in Note : material'[m].status = material[m].status /\ material'[m].result = material[m].result
<1>1. \A m \in Note : material[m] \in Material
  BY DEF IInv, TypeOK
<1>2. [material[n] EXCEPT !.in = in] \in Material
  BY <1>1 DEF Material
<1>3. material' = [m \in Note |-> IF m = n THEN [material[m] EXCEPT !.in = in] ELSE material[m]]
  BY DEF IInv, TypeOK
<1>4. \A m \in Note : material'[m].status = material[m].status /\ material'[m].result = material[m].result
  BY <1>1, <1>3 DEF Material
<1> QED BY <1>1, <1>2, <1>3, <1>4

LEMMA ConfigureMoves == ASSUME IInv, NEW c \in Setup, Configure(c) PROVE Moves
<1>1. AfterConfigure(map.topics, map.auto) \in {"idle", "configure", "classify", "ask", "propose"}
  BY DEF AfterConfigure
<1>2. setup' \in [Setup -> Call]
  BY <1>1, CallGoes DEF Configure
<1>3. UNCHANGED <<account, dismissed, paper, jobs, queued, worker, visitor>>
  BY DEF Configure
<1>4. CASE UNCHANGED <<map, note, material>>
  <2>1. OtherStep
    BY <1>2, <1>3, <1>4 DEF IInv, TypeOK, OtherStep
  <2> QED BY <1>3, <1>4, <2>1, SameTable, SameMap, SameResults, SameWork DEF Moves
<1>5. ASSUME NEW n \in Note, map.version < MaxVersion, map' = [map EXCEPT !.syllabus = n, !.version = @ + 1],
             \/ /\ note' = [note EXCEPT ![n].place = "active"]
                /\ material' = [material EXCEPT ![n].in = IF @ = "no" THEN "yes" ELSE @]
             \/ UNCHANGED <<note, material>>
      PROVE  Moves
  <2>1. map \in Map /\ map.version + 1 \in Version
    BY <1>5, MapFields, Bounds DEF IInv, MapOK, Version
  <2>2. /\ map' \in Map /\ map'.live = map.live /\ map'.version = map.version + 1
        /\ map'.taxonomy = map.taxonomy /\ map'.topics = map.topics
    BY <1>5, <2>1 DEF Map
  <2>3. MapStep
    BY <2>2, MapEdited
  <2>4. /\ material' \in [Note -> Material]
        /\ \A m \in Note : material'[m].status = material[m].status /\ material'[m].result = material[m].result
    <3> DEFINE in == IF material[n].in = "no" THEN "yes" ELSE material[n].in
    <3>1. in \in {"no", "yes", "removed"} /\ material \in [Note -> Material]
      BY DEF IInv, TypeOK, Material
    <3>2. material' = [material EXCEPT ![n].in = in] \/ material' = material
      BY <1>5, <3>1
    <3> HIDE DEF in
    <3> QED BY <3>1, <3>2, MaterialSet
  <2>5. ResultStep
    BY <1>3, <2>2, <2>4, MaterialsInEdited
  <2>6. note' \in [Note -> [place : Place, text : Text]]
    BY <1>5 DEF IInv, TypeOK, Place
  <2>7. OtherStep
    BY <1>2, <1>3, <2>6 DEF IInv, TypeOK, OtherStep
  <2> QED BY <1>3, <2>3, <2>5, <2>7, SameTable, SameWork DEF Moves
<1> QED BY <1>4, <1>5 DEF Configure

LEMMA CreateStep ==
  ASSUME IInv, CreateStudyMap, UNCHANGED <<material, paper, jobs, queued>>
  PROVE  MapStep /\ ResultStep
<1>1. CASE map.live
  <2>1. map' = map
    BY <1>1 DEF CreateStudyMap
  <2> QED BY <2>1, SameMap, SameResults
<1>2. CASE ~map.live
  <2>1. map' = NewMap(map.id + 1) /\ map.id + 1 \in 0..MaxMaps
    BY <1>2, MapFields, Bounds DEF CreateStudyMap, IInv, MapOK
  <2>2. NoTopics \in Topics /\ 1 \in Version /\ 0 \in Year
    BY Bounds, StudyMapAssumption DEF NoTopics, Topics, Meaning, Text, Version
  <2>3. map' \in Map /\ map'.taxonomy = 1 /\ map'.version = 1 /\ map'.live
    BY <2>1, <2>2 DEF NewMap, Map
  <2>4. MapStep
    BY <1>2, <2>3 DEF MapStep, MapOK, MapBorn
  <2>5. ResultStep
    BY <1>2, <2>3 DEF ResultStep, IInv, TypeOK, ResultInv
  <2> QED BY <2>4, <2>5
<1> QED BY <1>1, <1>2

LEMMA VisitorMoves ==
  ASSUME IInv, AddModule \/ \E v \in Visitor : ListCourse(v) \/ CreateListed(v)
  PROVE  Moves
<1>1. UNCHANGED <<account, dismissed, note, material, paper, jobs, queued, worker, setup>>
  BY DEF AddModule, ListCourse, CreateListed
<1>2. MapStep /\ ResultStep
  BY <1>1, CreateStep, SameMap, SameResults DEF AddModule, ListCourse, CreateListed
<1>3. visitor' \in [Visitor -> BOOLEAN]
  BY DEF AddModule, ListCourse, CreateListed, IInv, TypeOK
<1>4. OtherStep
  BY <1>1, <1>3 DEF IInv, TypeOK, OtherStep
<1> QED BY <1>1, <1>2, <1>4, SameTable, SameWork DEF Moves

LEMMA DeleteMapMoves == ASSUME IInv, DeleteStudyMap PROVE Moves
<1>1. JobsKeep /\ \A i \in 1..queued : jobs'[i].state = "gone"
  <2>1. 1..queued \in SUBSET (1..queued)
    OBVIOUS
  <2> QED BY <2>1, EraseKeeps DEF DeleteStudyMap, IInv
<1>2. map' = [NewMap(map.id) EXCEPT !.live = FALSE] /\ map.id \in 0..MaxMaps
  BY MapFields DEF DeleteStudyMap, IInv, MapOK
<1>3. NoTopics \in Topics /\ 1 \in Version /\ 0 \in Year
  BY Bounds, StudyMapAssumption DEF NoTopics, Topics, Meaning, Text, Version
<1>4. map' \in Map /\ map'.taxonomy = 1 /\ map'.version = 1 /\ ~map'.live
  BY <1>2, <1>3 DEF NewMap, Map
<1>5. MapStep
  BY <1>1, <1>4 DEF MapStep, MapOK, MapDies, JobsKeep
<1>6. NotJudged \in Judgement /\ NewMaterial \in Material /\ NoPaper \in Analysis
  BY Bounds DEF NotJudged, Judgement, NewMaterial, Material, NoPaper, Analysis, Text, Version, Meaning
<1>7. ResultStep
  <2>1. material' = [n \in Note |-> NewMaterial] /\ paper' = [n \in Note |-> NoPaper]
    BY DEF DeleteStudyMap
  <2>2. NewMaterial.status = "unclassified" /\ NoPaper.by = "nobody"
    BY DEF NewMaterial, NoPaper
  <2> QED BY <1>6, <2>1, <2>2 DEF ResultStep
<1>8. OtherStep
  BY DEF DeleteStudyMap, IInv, TypeOK, OtherStep
<1> QED BY <1>1, <1>5, <1>7, <1>8, SameWork DEF DeleteStudyMap, JobsStep, Moves

LEMMA OvertakeStep == ASSUME IInv, Overtake, map'.version > map.version PROVE WorkStep
<1>1. \A w \in Worker : worker[w] \in Work /\ [worker[w] EXCEPT !.overtaken = @ \/ worker[w].pc = "publish"] \in Work
  BY DEF IInv, TypeOK, Work
<1> QED BY <1>1 DEF Overtake, WorkStep, OvertakenIn

LEMMA UpdateMoves == ASSUME IInv, UpdateMap PROVE Moves
<1>1. PICK n \in Note \cup {None}, auto \in BOOLEAN, year \in Year :
        /\ map' = [map EXCEPT !.syllabus = n, !.auto = auto, !.year = year, !.version = @ + 1]
        /\ IF n = None THEN UNCHANGED material ELSE Include(n)
  BY DEF UpdateMap
<1>2. map \in Map /\ map.version + 1 \in Version /\ map.version \in Nat
  BY MapFields, Bounds DEF UpdateMap, IInv, MapOK, Version
<1>3. /\ map' \in Map /\ map'.live = map.live /\ map'.version = map.version + 1
      /\ map'.taxonomy = map.taxonomy /\ map'.topics = map.topics
  BY <1>1, <1>2 DEF Map
<1>4. MapStep /\ map'.version > map.version
  BY <1>2, <1>3, MapEdited
<1>5. ResultStep
  <2>1. CASE n = None
    BY <1>1, <1>3, <2>1, SameResults DEF UpdateMap
  <2>2. CASE n # None
    BY <1>1, <1>3, <2>2, MaterialSet, MaterialsInEdited DEF UpdateMap, Include
  <2> QED BY <2>1, <2>2
<1> QED BY <1>4, <1>5, SameTable, SameOthers, OvertakeStep DEF UpdateMap, Moves

LEMMA SaveTopicsMoves == ASSUME IInv, SaveTopics PROVE Moves
<1>1. PICK topics \in Topics : Replace(topics)
  BY DEF SaveTopics
<1>2. /\ MapStep /\ map'.live = map.live /\ map'.version > map.version /\ material' \in [Note -> Material]
      /\ \A m \in Note : material'[m].status = "classified" =>
           material[m].status = "classified" /\ material'[m].result = material[m].result
  BY <1>1, ReplaceGrows
<1>3. ResultStep
  BY <1>2 DEF SaveTopics, ResultStep, IInv, TypeOK
<1> QED BY <1>2, <1>3, SameTable, SameOthers, OvertakeStep DEF SaveTopics, Moves

LEMMA AddMaterialMoves == ASSUME IInv, NEW n \in Note, AddMaterial(n) PROVE Moves
<1>1. ResultStep
  BY MaterialSet, MaterialsIn DEF AddMaterial, Include
<1> QED BY <1>1, SameTable, SameMap, SameWork, SameOthers DEF AddMaterial, Moves

LEMMA RemoveMaterialMoves == ASSUME IInv, NEW n \in Note, RemoveMaterial(n) PROVE Moves
<1>1. ResultStep
  BY MaterialSet, MaterialsIn DEF RemoveMaterial
<1>2. JobsStep
  BY WithdrawKeeps DEF RemoveMaterial, IInv, JobsStep
<1> QED BY <1>1, <1>2, SameMap, SameWork, SameOthers DEF RemoveMaterial, Moves

LEMMA ReviewMoves == ASSUME IInv, NEW n \in Note, SaveStudyPaper(n) PROVE Moves
<1> DEFINE result == [text |-> note[n].text, taxonomy |-> map.taxonomy, seen |-> note[n].text, against |-> map.topics.meaning]
           new == [by |-> "user", result |-> result]
<1>1. map \in Map /\ map.taxonomy \in Version /\ map.taxonomy \in Nat /\ map.topics.meaning \in Meaning
  BY MapFields DEF IInv, MapOK, Topics
<1>2. result \in Judgement /\ note[n].text \in Text
  BY <1>1 DEF IInv, TypeOK, Judgement
<1>3. Good(result, map)
  BY <1>1 DEF Good
<1>4. new.result = result /\ paper' = [paper EXCEPT ![n] = new]
  BY DEF SaveStudyPaper
<1>5. new \in Analysis
  BY <1>2 DEF Analysis
<1> HIDE DEF result, new
<1>6. paper' \in [Note -> Analysis] /\ paper'[n] = new /\ \A m \in Note \ {n} : paper'[m] = paper[m]
  BY <1>4, <1>5 DEF IInv, TypeOK
<1>7. ResultStep
  BY <1>3, <1>4, <1>6 DEF SaveStudyPaper, ResultStep, IInv, TypeOK
<1>8. JobsStep
  BY WithdrawKeeps DEF SaveStudyPaper, IInv, JobsStep
<1> QED BY <1>7, <1>8, SameMap, SameWork, SameOthers DEF SaveStudyPaper, Moves

LEMMA NoteMoves ==
  ASSUME IInv, NEW n \in Note, Edit(n) \/ Trash(n) \/ Restore(n)
  PROVE  Moves
<1>1. UNCHANGED <<account, map, dismissed, material, paper, jobs, queued, worker, setup, visitor>>
  BY DEF Edit, Trash, Restore, MoveNote
<1>2. note' \in [Note -> [place : Place, text : Text]]
  BY DEF Edit, Trash, Restore, MoveNote, IInv, TypeOK, Place
<1>3. OtherStep
  BY <1>1, <1>2 DEF IInv, TypeOK, OtherStep
<1> QED BY <1>1, <1>3, SameTable, SameMap, SameResults, SameWork DEF Moves

LEMMA DeleteNoteMoves == ASSUME IInv, NEW n \in Note, DeleteNote(n) PROVE Moves
<1> DEFINE syllabus == IF map.syllabus = n THEN None ELSE map.syllabus
<1>1. map \in Map /\ syllabus \in Note \cup {None}
  BY MapFields DEF IInv, MapOK
<1>2. map' = [map EXCEPT !.syllabus = syllabus]
  BY DEF DeleteNote
<1> HIDE DEF syllabus
<1>3. /\ map' \in Map /\ map'.live = map.live /\ map'.version = map.version
      /\ map'.taxonomy = map.taxonomy /\ map'.topics = map.topics
  BY <1>1, <1>2 DEF Map
<1>4. MapStep
  BY <1>3, MapEdited
<1>5. NotJudged \in Judgement /\ NewMaterial \in Material /\ NoPaper \in Analysis
  BY Bounds DEF NotJudged, Judgement, NewMaterial, Material, NoPaper, Analysis, Text, Version, Meaning
<1>6. ResultStep
  <2>1. /\ material' \in [Note -> Material] /\ material'[n] = NewMaterial
        /\ \A m \in Note \ {n} : material'[m] = material[m]
    BY <1>5 DEF DeleteNote, IInv, TypeOK
  <2>2. /\ paper' \in [Note -> Analysis] /\ paper'[n] = NoPaper
        /\ \A m \in Note \ {n} : paper'[m] = paper[m]
    BY <1>5 DEF DeleteNote, IInv, TypeOK
  <2>3. NewMaterial.status = "unclassified" /\ NoPaper.by = "nobody"
    BY DEF NewMaterial, NoPaper
  <2>4. map.live \/ \A m \in Note : material[m].status # "classified" /\ paper[m].by = "nobody"
    BY DEF IInv, ResultInv
  <2> QED BY <1>3, <2>1, <2>2, <2>3, <2>4 DEF ResultStep
<1>7. JobsStep
  BY EraseKeeps DEF DeleteNote, IInv, JobsStep
<1>8. OtherStep
  BY DEF DeleteNote, IInv, TypeOK, OtherStep, Place
<1> QED BY <1>4, <1>6, <1>7, <1>8, SameWork DEF DeleteNote, Moves

LEMMA DeactivateMoves == ASSUME IInv, Deactivate PROVE Moves
<1>1. JobsStep
  BY WithdrawKeeps DEF Deactivate, IInv, JobsStep
<1>2. OtherStep
  BY DEF Deactivate, IInv, TypeOK, OtherStep
<1> QED BY <1>1, <1>2, SameMap, SameResults, SameWork DEF Deactivate, Moves

LEMMA AskMoves == ASSUME IInv, NEW kind \in Asked, AskFor(kind) PROVE Moves
<1>1. JobsStep
  BY AskAdds DEF IInv, JobsStep
<1> QED BY <1>1, SameMap, SameResults, SameWork, SameOthers DEF AskFor, Moves

LEMMA Steps == ASSUME IInv, Next PROVE Moves
<1>1. ASSUME NEW w \in Worker, Works(w) \/ Die(w) PROVE Moves
  BY <1>1, ClaimMoves, ReadMoves, ClassificationMoves, PaperMoves, TopicsMoves, ClassifyNextMoves, GiveUpMoves, DieMoves
  DEF Works, Proceeds
<1>2. ASSUME NEW c \in Setup, Begin(c) \/ SetsUp(c) \/ SetupFails(c) PROVE Moves
  BY <1>2, BeginMoves, SyncMoves, ConfigureMoves, SetupMoves DEF SetsUp
<1>3. CASE Use
  <2>1. ASSUME NEW n \in Reviewed, SaveStudyPaper(n) PROVE Moves
    <3>1. n \in Note
      BY StudyMapAssumption
    <3> QED BY <2>1, <3>1, ReviewMoves
  <2>2. ASSUME NEW n \in Note, AddMaterial(n) \/ RemoveMaterial(n) \/ Edit(n) \/ Trash(n) \/ Restore(n) \/ DeleteNote(n)
        PROVE  Moves
    BY <2>2, AddMaterialMoves, RemoveMaterialMoves, NoteMoves, DeleteNoteMoves
  <2> QED BY <1>3, <2>1, <2>2, AskMoves, VisitorMoves, UpdateMoves, SaveTopicsMoves, DeleteMapMoves, DeactivateMoves DEF Use
<1>4. CASE \E i \in 1..queued : Lapse(i)
  BY <1>4, LapseMoves
<1>5. CASE \E v \in Visitor : ListCourse(v) \/ CreateListed(v)
  BY <1>5, VisitorMoves
<1> QED BY <1>1, <1>2, <1>3, <1>4, <1>5 DEF Next

-----------------------------------------------------------------------------
(***************************************************************************)
(* Every step keeps the invariant.                                         *)
(***************************************************************************)
LEMMA NewJobFacts ==
  ASSUME NEW job, NEW kind \in Kind, NEW automatic \in BOOLEAN, NewJob(job, kind, automatic)
  PROVE  /\ JobOK(job) /\ job.kind = kind /\ job.state = "pending" /\ job.automatic = automatic
         /\ job.published = 0 /\ ~job.revoked
<1>1. NoJob \in Job
  BY Bounds DEF NoJob, Job, Kind
<1>2. /\ NoJob.attempts = 0 /\ ~NoJob.lapsed /\ NoJob.published = 0 /\ ~NoJob.revoked
  BY DEF NoJob
<1> DEFINE n == job.note
<1>3. job = [NoJob EXCEPT !.kind = kind, !.note = n, !.state = "pending", !.automatic = automatic] /\ n \in Note \cup {None}
  BY DEF NewJob
<1> HIDE DEF n
<1>4. job \in Job
  BY <1>1, <1>3 DEF Job
<1>5. /\ job.kind = kind /\ job.state = "pending" /\ job.automatic = automatic
      /\ job.lapsed = NoJob.lapsed /\ job.published = NoJob.published /\ job.revoked = NoJob.revoked
  BY <1>1, <1>3 DEF Job
<1> QED BY <1>2, <1>4, <1>5 DEF JobOK, Published

LEMMA OldJobs ==
  ASSUME IInv, JobsStep
  PROVE  queued' \in queued..MaxJobs /\ \A i \in 1..queued : i \in JobId /\ JobKeeps(jobs[i], jobs'[i])
<1>1. CASE JobsKeep
  BY <1>1, Queued, Bounds DEF JobsKeep, IInv
<1>2. CASE Adds
  BY <1>2, Queued, Bounds, JobsType, KeptAsIs DEF Adds, AddsTo, IInv, GoesOn
<1> QED BY <1>1, <1>2 DEF JobsStep

LEMMA JobsNext == ASSUME IInv, JobsStep, MapStep PROVE JobInv' /\ jobs' \in [JobId -> Job] /\ queued' \in 0..MaxJobs
<1>1. \A i \in JobId : JobOK(jobs'[i]) /\ (jobs'[i].state = "none" <=> i > queued')
  <2>1. CASE JobsKeep
    BY <2>1 DEF JobsKeep, JobKeeps, IInv, JobInv
  <2>2. ASSUME NEW last \in 0..MaxJobs, NEW kind \in Kind, NEW automatic \in BOOLEAN, AddsTo(last, kind, automatic),
               NEW i \in JobId
        PROVE  JobOK(jobs'[i]) /\ (jobs'[i].state = "none" <=> i > queued')
    <3>1. queued' = last /\ last \in queued..MaxJobs
      BY <2>2 DEF AddsTo
    <3>2. CASE i \in queued + 1..last
      <4>1. JobOK(jobs'[i]) /\ jobs'[i].state = "pending"
        BY <2>2, <3>2, NewJobFacts DEF AddsTo
      <4> QED BY <3>1, <3>2, <4>1, Queued, Bounds DEF IInv
    <3>3. CASE i \notin queued + 1..last
      <4>1. jobs'[i] = jobs[i]
        BY <2>2, <3>3 DEF AddsTo
      <4>2. i > queued <=> i > last
        BY <3>1, <3>3, Queued, Bounds DEF IInv, JobId
      <4> QED BY <3>1, <4>1, <4>2 DEF IInv, JobInv
    <3> QED BY <3>2, <3>3
  <2> QED BY <2>1, <2>2 DEF JobsStep, Adds
<1>2. jobs' = [i \in JobId |-> jobs'[i]]
  BY DEF JobsStep, JobsKeep, Adds, AddsTo
<1>3. jobs' \in [JobId -> Job]
  BY <1>1, <1>2 DEF JobOK
<1>4. queued' \in 0..MaxJobs
  BY OldJobs, Queued, Bounds DEF IInv
<1>5. ASSUME ~map'.live, NEW i \in JobId PROVE jobs'[i].state \in {"none", "gone"}
  <2>1. CASE MapGrows
    <3>1. ~map.live /\ JobsKeep
      BY <1>5, <2>1 DEF MapGrows, JobsStep, Adds
    <3> QED BY <3>1 DEF JobsKeep, JobKeeps, IInv, JobInv
  <2>2. CASE MapDies
    <3>1. i \in 1..queued \/ i > queued'
      BY <2>2, Queued DEF MapDies, IInv, JobId
    <3> QED BY <1>1, <2>2, <3>1 DEF MapDies
  <2>3. CASE MapBorn
    BY <2>3 DEF MapBorn, IInv, JobInv
  <2> QED BY <2>1, <2>2, <2>3 DEF MapStep
<1> QED BY <1>1, <1>3, <1>4, <1>5 DEF JobInv

LEMMA TypeNext == ASSUME IInv, Moves PROVE TypeOK'
<1>1. JobInv' /\ jobs' \in [JobId -> Job] /\ queued' \in 0..MaxJobs
  BY JobsNext DEF Moves
<1> QED BY <1>1 DEF Moves, MapStep, MapOK, ResultStep, WorkStep, OtherStep, TypeOK, JobInv, JobOK

\* What a worker knows of its job and the map stays true while others move.
LEMMA WorkStays ==
  ASSUME IInv, JobsStep, MapStep, NEW w \in Worker, worker[w].pc # "idle"
  PROVE  /\ worker[w].job \in 1..queued' /\ WorkOK(worker[w], jobs'[worker[w].job], map')
<1> DEFINE k == worker[w]
           a == jobs[k.job]
           b == jobs'[k.job]
<1>1. k \in Work /\ k.job \in 1..queued /\ WorkOK(k, a, map)
  BY DEF IInv, TypeOK, WorkInv, JobOf
<1>2. k.job \in 1..queued' /\ k.job \in JobId /\ JobKeeps(a, b)
  BY <1>1, OldJobs, Queued DEF IInv
<1>3. a \in Job /\ b \in Job /\ a.state # "none" /\ (~map.live => a.state = "gone")
  <2>1. ~(k.job > queued)
    BY <1>1, Queued DEF IInv
  <2> QED BY <1>2, <2>1 DEF JobKeeps, JobOK, IInv, JobInv
<1>4. {k.token, a.attempts, b.attempts} \subseteq Int
  BY <1>1, <1>3, WorkFields, JobFields, Bounds
<1>5. map \in Map /\ map' \in Map /\ k.input \in Input
  BY <1>1, WorkFields DEF IInv, MapOK, MapStep
<1>6. {map.version, map.taxonomy, map'.version, map'.taxonomy, k.input.version, k.input.taxonomy} \subseteq Int
  <2>1. map'.version \in Nat /\ map'.taxonomy \in Nat
    BY <1>5, MapFields
  <2> QED BY <1>5, <2>1, MapFields, InputFields
<1> DEFINE m == map'
<1>7. MapGrows \/ b.state = "gone"
  BY <1>1, <1>2, <1>3 DEF MapStep, MapDies, MapBorn, JobKeeps
<1> HIDE DEF a, b
<1>8. k.token <= b.attempts /\ (k.pc = "classify" => Ended(b) /\ k.token = b.attempts)
  BY <1>1, <1>2, <1>4 DEF WorkOK, JobKeeps
<1>9. ASSUME k.pc = "publish", b.state # "gone"
      PROVE  NotNewer(k.input, m) /\ (k.overtaken => k.input.version < m.version)
  <2>1. MapGrows /\ a.state # "gone"
    BY <1>2, <1>7, <1>9 DEF JobKeeps
  <2>2. NotNewer(k.input, map) /\ (k.overtaken => k.input.version < map.version)
    BY <1>1, <1>9, <2>1 DEF WorkOK
  <2> QED BY <1>6, <2>1, <2>2 DEF MapGrows, NotNewer
<1>10. WorkOK(k, b, m)
  BY <1>1, <1>8, <1>9 DEF WorkOK
<1> QED BY <1>2, <1>10 DEF b

LEMMA WorkNext == ASSUME IInv, Moves PROVE WorkInv'
<1> SUFFICES ASSUME NEW w \in Worker
             PROVE  /\ worker'[w].pc = "idle" => worker'[w] = Resting
                    /\ worker'[w].pc # "idle" => /\ worker'[w].job \in 1..queued'
                                                 /\ WorkOK(worker'[w], jobs'[worker'[w].job], map')
  BY DEF WorkInv, JobOf
<1> DEFINE k == worker[w]
<1>1. k \in Work /\ (k.pc = "idle" => k = Resting)
  BY DEF IInv, TypeOK, WorkInv
<1>2. CASE LeftAlone(w)
  BY <1>1, <1>2, WorkStays DEF LeftAlone, Moves
<1>3. CASE OvertakenIn(w)
  <2> DEFINE now == k.overtaken \/ k.pc = "publish"
             new == [k EXCEPT !.overtaken = now]
  <2>1. worker'[w] = new /\ map'.version > map.version
    BY <1>3 DEF OvertakenIn
  <2>2. /\ new.pc = k.pc /\ new.job = k.job /\ new.token = k.token /\ new.input = k.input
        /\ new.overtaken = now
    BY <1>1 DEF Work
  <2>3. CASE k.pc = "idle"
    <3>1. k = Resting /\ now = FALSE
      BY <1>1, <2>3 DEF Resting
    <3>2. [Resting EXCEPT !.overtaken = FALSE] = Resting
      <4>1. Resting = [f \in {"pc", "job", "token", "input", "overtaken"} |-> Resting[f]] /\ Resting.overtaken = FALSE
        BY DEF Resting
      <4> QED BY <4>1
    <3>3. new = Resting
      BY <3>1, <3>2
    <3> QED BY <2>1, <3>3, Idles
  <2>4. CASE k.pc # "idle"
    <3> DEFINE b == jobs'[k.job]
    <3>1. k.job \in 1..queued' /\ WorkOK(k, b, map')
      BY <2>4, WorkStays DEF Moves
    <3>2. ASSUME k.pc = "publish", b.state # "gone" PROVE k.input.version < map'.version
      <4>1. JobKeeps(jobs[k.job], b) /\ k.job \in 1..queued /\ WorkOK(k, jobs[k.job], map)
        BY <2>4, OldJobs DEF Moves, IInv, WorkInv, JobOf
      <4>2. k.input.version <= map.version
        BY <3>2, <4>1 DEF JobKeeps, WorkOK, NotNewer
      <4>3. k.input.version \in Int /\ map.version \in Int /\ map'.version \in Int
        <5>1. map \in Map /\ map' \in Map /\ k.input \in Input
          BY <1>1, WorkFields DEF IInv, MapOK, Moves, MapStep
        <5>2. map'.version \in Nat
          BY <5>1, MapFields
        <5> QED BY <5>1, <5>2, MapFields, InputFields
      <4> QED BY <2>1, <4>2, <4>3
    <3> HIDE DEF b
    <3>3. WorkOK(new, b, map')
      <4> HIDE DEF new
      <4> QED BY <2>2, <3>1, <3>2 DEF WorkOK
    <3> HIDE DEF new
    <3> QED BY <2>1, <2>2, <2>4, <3>1, <3>3 DEF b
  <2> QED BY <2>3, <2>4
<1>4. CASE WellOff(w)
  BY <1>4 DEF WellOff
<1> QED BY <1>2, <1>3, <1>4 DEF Moves, WorkStep

LEMMA GoodStays ==
  ASSUME IInv, MapStep, MapGrows, NEW result \in Judgement, Good(result, map)
  PROVE  Good(result, map')
<1>1. map \in Map /\ map' \in Map /\ result.taxonomy \in Nat
  BY Bounds DEF IInv, MapOK, MapStep, Judgement, Version
<1>2. map'.version \in Nat /\ map'.taxonomy \in Nat
  BY <1>1, MapFields
<1>3. map.taxonomy \in Nat
  BY <1>1, MapFields
<1> QED BY <1>1, <1>2, <1>3 DEF MapGrows, Good

LEMMA ResultNext == ASSUME IInv, Moves PROVE ResultInv'
<1> SUFFICES ASSUME NEW n \in Note
             PROVE  /\ material'[n].status = "classified" => map'.live /\ Good(material'[n].result, map')
                    /\ paper'[n].by # "nobody" => map'.live /\ Good(paper'[n].result, map')
  BY DEF ResultInv
<1>1. material[n].result \in Judgement /\ paper[n].result \in Judgement
  BY DEF IInv, TypeOK, Material, Analysis
<1>2. map'.live /\ map.live => MapGrows
  BY DEF Moves, MapStep, MapDies, MapBorn
<1>3. ASSUME material'[n].status = "classified" PROVE map'.live /\ Good(material'[n].result, map')
  <2>1. map'.live
    BY <1>3 DEF Moves, ResultStep
  <2>2. CASE material[n].status = "classified" /\ material'[n].result = material[n].result
    <3>1. map.live /\ Good(material[n].result, map)
      BY <2>2 DEF IInv, ResultInv
    <3> QED BY <1>1, <1>2, <2>1, <2>2, <3>1, GoodStays DEF Moves
  <2> QED BY <1>3, <2>1, <2>2 DEF Moves, ResultStep
<1>4. ASSUME paper'[n].by # "nobody" PROVE map'.live /\ Good(paper'[n].result, map')
  <2>1. map'.live
    BY <1>4 DEF Moves, ResultStep
  <2>2. CASE paper[n].by # "nobody" /\ paper'[n].result = paper[n].result
    <3>1. map.live /\ Good(paper[n].result, map)
      BY <2>2 DEF IInv, ResultInv
    <3> QED BY <1>1, <1>2, <2>1, <2>2, <3>1, GoodStays DEF Moves
  <2> QED BY <1>4, <2>1, <2>2 DEF Moves, ResultStep
<1> QED BY <1>3, <1>4

\* The last job before one that the setup queues now has been completed.
LEMMA AutoNext == ASSUME IInv, Moves PROVE AutoInv'
<1> DEFINE Earlier(i) == {j \in 1..(i - 1) : /\ jobs'[j].kind = jobs'[i].kind /\ jobs'[j].note = jobs'[i].note
                                             /\ jobs'[j].state # "gone"}
<1> SUFFICES ASSUME NEW i \in 1..queued', jobs'[i].automatic, jobs'[i].state # "gone", NEW j \in JobId,
                    j \in Earlier(i), \A k \in Earlier(i) : k <= j
             PROVE  jobs'[j].state = "completed"
  BY DEF AutoInv, LatestBefore, Before
<1>0. queued \in Nat /\ queued' \in Nat /\ queued' >= queued /\ queued' <= MaxJobs /\ 1..queued \subseteq JobId
  BY OldJobs, Queued, Bounds DEF IInv, Moves
<1>1. ASSUME i \in 1..queued, jobs[i].automatic, jobs[i].state # "gone", j \in Before(i),
             \A k \in Before(i) : k <= j
      PROVE  jobs[j].state = "completed"
  BY <1>1 DEF IInv, AutoInv, LatestBefore
<1>2. CASE JobsKeep
  <2>1. i \in 1..queued /\ i \in JobId /\ j \in 1..queued /\ j < i
    BY <1>0, <1>2 DEF JobsKeep
  <2>2. JobKeeps(jobs[i], jobs'[i]) /\ \A k \in 1..queued : JobKeeps(jobs[k], jobs'[k])
    BY <1>0, <1>2, <2>1 DEF JobsKeep
  <2>3. jobs[i].automatic /\ jobs[i].state # "gone" /\ j \in Before(i)
    BY <2>1, <2>2 DEF JobKeeps, Before
  <2>4. ASSUME NEW k \in Before(i) PROVE k <= j
    <3>1. /\ k \in 1..queued /\ k \in 1..(i - 1) /\ jobs[k].kind = jobs[i].kind /\ jobs[k].note = jobs[i].note
          /\ jobs[k].state # "gone"
      BY <1>0, <2>1 DEF Before
    <3>2. jobs'[k].state # "gone"
      BY <1>0, <1>2, <2>1, <3>1 DEF JobsKeep
    <3>3. jobs'[k].kind = jobs'[i].kind /\ jobs'[k].note = jobs'[i].note
      BY <2>2, <3>1 DEF JobKeeps
    <3> QED BY <3>1, <3>2, <3>3
  <2>5. jobs[j].state = "completed"
    BY <1>1, <2>1, <2>3, <2>4
  <2> QED BY <2>1, <2>2, <2>5 DEF JobKeeps, Ended
<1>3. ASSUME NEW last \in 0..MaxJobs, NEW kind \in Kind, NEW automatic \in BOOLEAN, AddsTo(last, kind, automatic)
      PROVE  jobs'[j].state = "completed"
  <2>1. queued' = last /\ \A k \in 1..queued : jobs'[k] = jobs[k]
    BY <1>0, <1>3 DEF AddsTo
  <2>2. CASE i \in 1..queued
    <3>1. j \in 1..queued /\ Earlier(i) = Before(i)
      BY <1>0, <2>1, <2>2 DEF Before
    <3> QED BY <1>1, <2>1, <2>2, <3>1
  <2>3. CASE i \notin 1..queued
    <3>1. i \in queued + 1..last
      BY <1>0, <2>1, <2>3
    <3>2. NewJob(jobs'[i], kind, automatic)
      BY <1>3, <3>1 DEF AddsTo
    <3> DEFINE n == jobs'[i].note
    <3>3. jobs'[i].kind = kind /\ automatic /\ ~IsQueued(kind, n) /\ ~FailedLast(kind, n)
      BY <3>2, NewJobFacts DEF NewJob
    <3>4. j \in 1..queued
      <4>1. CASE j \in queued + 1..last
        BY <1>0, <1>3, <3>1, <4>1 DEF AddsTo
      <4> QED BY <1>0, <2>1, <4>1
    <3>5. jobs[j].kind = kind /\ jobs[j].note = n /\ jobs[j].state # "gone" /\ jobs'[j] = jobs[j]
      BY <2>1, <3>3, <3>4
    <3>6. ASSUME NEW k \in (j + 1)..queued, jobs[k].kind = kind, jobs[k].note = n PROVE jobs[k].state = "gone"
      <4>1. k \in 1..queued /\ k \in 1..(i - 1) /\ ~(k <= j)
        BY <1>0, <3>1, <3>4
      <4>2. jobs'[k] = jobs[k]
        BY <2>1, <4>1
      <4> QED BY <3>3, <3>6, <4>1, <4>2
    <3> HIDE DEF n
    <3>7. j \in Newest(kind, n)
      BY <3>4, <3>5, <3>6 DEF Newest
    <3>8. jobs[j].state # "failed" /\ jobs[j].state \notin {"pending", "running"}
      BY <3>3, <3>4, <3>5, <3>7 DEF FailedLast, IsQueued, IsOpen
    <3>9. jobs[j] \in Job /\ jobs[j].state # "none"
      BY <1>0, <3>4 DEF IInv, TypeOK, JobInv
    <3> QED BY <3>5, <3>8, <3>9, JobFields
  <2> QED BY <2>2, <2>3
<1> QED BY <1>2, <1>3 DEF Moves, JobsStep, Adds

LEMMA Initial == ASSUME Init PROVE IInv
<1>1. NoTopics \in Topics /\ 0 \in Year /\ 0 \in Version /\ 1 \in Version
  BY Bounds, StudyMapAssumption DEF NoTopics, Topics, Meaning, Text, Version
<1>2. NoJob \in Job /\ NoJob.state = "none" /\ ~NoJob.lapsed /\ ~NoJob.revoked /\ NoJob.published = 0
  BY Bounds DEF NoJob, Job, Kind
<1>3. NotJudged \in Judgement /\ NewMaterial \in Material /\ NoPaper \in Analysis
  BY Bounds DEF NotJudged, Judgement, NewMaterial, Material, NoPaper, Analysis, Text, Version, Meaning
<1>4. IdleCall \in Call
  BY Bounds DEF IdleCall, Call
<1>5. MapOK(map)
  <2>1. NewMap(0) \in Map /\ NewMap(1) \in Map
    BY <1>1, Bounds DEF NewMap, Map
  <2>2. CASE map = [NewMap(0) EXCEPT !.live = FALSE]
    <3>1. map \in Map
      BY <2>1, <2>2 DEF Map
    <3> QED BY <2>2, <3>1 DEF MapOK, NewMap
  <2>3. ASSUME NEW topics \in {NoTopics} \cup [meaning : {1}, cite : {n \in Note : note[n].place = "active"}, text : {0}],
               map = [NewMap(1) EXCEPT !.topics = topics]
        PROVE  MapOK(map)
    <3>1. topics \in Topics
      BY <1>1, Bounds DEF Topics, Meaning, Text
    <3>2. map \in Map
      BY <2>1, <2>3, <3>1 DEF Map
    <3> QED BY <2>3, <3>2 DEF MapOK, NewMap
  <2> QED BY <2>2, <2>3 DEF Init
<1>6. TypeOK
  <2>1. note \in [Note -> [place : Place, text : Text]]
    BY Bounds DEF Init, Place, Text
  <2>2. jobs \in [JobId -> Job] /\ queued \in 0..MaxJobs /\ \A i \in JobId : jobs[i].lapsed => jobs[i].state = "running"
    BY <1>2, Bounds DEF Init
  <2>3. worker \in [Worker -> Work]
    BY Idles DEF Init
  <2>4. setup \in [Setup -> Call]
    <3>1. Late \subseteq Call
      BY Bounds DEF Late, Call
    <3> QED BY <1>4, <3>1 DEF Init
  <2>5. account \in BOOLEAN /\ dismissed \in BOOLEAN
    BY DEF Init
  <2> QED BY <1>3, <1>4, <1>5, <2>1, <2>2, <2>3, <2>4, <2>5 DEF Init, TypeOK, MapOK
<1>7. JobInv
  <2>1. \A i \in JobId : jobs[i] = NoJob /\ i > queued
    BY Bounds DEF Init, JobId
  <2> QED BY <1>2, <2>1 DEF JobInv, JobOK, Published, IsOpen
<1>8. WorkInv
  BY Idles DEF Init, WorkInv
<1>9. ResultInv
  BY DEF Init, ResultInv, NewMaterial, NoPaper
<1>10. AutoInv
  BY DEF Init, AutoInv
<1> QED BY <1>5, <1>6, <1>7, <1>8, <1>9, <1>10 DEF IInv

-----------------------------------------------------------------------------
(***************************************************************************)
(* The map, its results, jobs, workers and setups are always of their      *)
(* types, and the invariant that the theorems below rest on always holds.  *)
(***************************************************************************)
THEOREM Inductive == Spec => []IInv
<1>1. ASSUME IInv, [Next]_vars PROVE IInv'
  <2>1. CASE Next
    <3>1. Moves
      BY <1>1, <2>1, Steps
    <3>2. MapOK(map') /\ JobInv'
      BY <1>1, <3>1, JobsNext DEF Moves, MapStep
    <3> QED BY <1>1, <3>1, <3>2, TypeNext, WorkNext, ResultNext, AutoNext DEF IInv
  <2>2. CASE UNCHANGED vars
    BY <1>1, <2>2 DEF vars, IInv, TypeOK, MapOK, JobInv, WorkInv, ResultInv, AutoInv, LatestBefore, Before, JobOf
  <2> QED BY <1>1, <2>1, <2>2
<1> QED BY Initial, <1>1, PTL DEF Spec

THEOREM TypeCorrect == Spec => []TypeOK
BY Inductive, PTL DEF IInv

(***************************************************************************)
(* What counts as judged was judged: of the stored text, against the       *)
(* topics of the stored version.                                           *)
(***************************************************************************)
THEOREM JudgedAsStoredCorrect == Spec => []JudgedAsStored
<1>1. IInv => JudgedAsStored
  BY DEF IInv, ResultInv, JudgedAsStored, Good, GoodFor
<1> QED BY <1>1, Inductive, PTL

(***************************************************************************)
(* However many workers have leased a job, it is completed exactly when    *)
(* its result has been published, and that is once.                        *)
(***************************************************************************)
THEOREM CompletedIsPublishedCorrect == Spec => []CompletedIsPublished
<1>1. ASSUME IInv PROVE CompletedIsPublished
  BY <1>1, Queued DEF IInv, JobInv, JobOK, Published, CompletedIsPublished
<1> QED BY <1>1, Inductive, PTL

(***************************************************************************)
(* What the setup has queued follows no failure: the job before it, of the *)
(* same kind and for the same note, was completed.                         *)
(***************************************************************************)
THEOREM FailedWaitsForUserCorrect == Spec => []FailedWaitsForUser
<1>1. ASSUME IInv PROVE FailedWaitsForUser
  <2> SUFFICES ASSUME NEW i \in 1..queued, jobs[i].automatic, jobs[i].state # "gone", NEW j \in Before(i),
                      \A k \in Before(i) : k <= j
               PROVE  jobs[j].state # "failed"
    BY DEF FailedWaitsForUser
  <2>1. j \in JobId
    BY <1>1, Queued, Bounds DEF Before, IInv, JobId
  <2> QED BY <1>1, <2>1 DEF IInv, AutoInv, LatestBefore
<1> QED BY <1>1, Inductive, PTL

-----------------------------------------------------------------------------
\* A worker's place changes by its own steps only.
LEMMA OwnStep ==
  ASSUME IInv, Next, NEW w \in Worker, worker'[w].pc # worker[w].pc
  PROVE  Works(w) \/ Die(w)
<1>0. worker \in [Worker -> Work]
  BY DEF IInv, TypeOK
<1>1. ASSUME NEW u \in Worker, Works(u) \/ Die(u) PROVE u = w
  <2>1. \/ UNCHANGED worker
        \/ \E work : worker' = [worker EXCEPT ![u] = work]
    <3>1. CASE Claim(u)
      BY <3>1 DEF Claim
    <3>2. CASE Read(u)
      BY <3>2 DEF Read
    <3>3. CASE PublishClassification(u) \/ PublishPaper(u) \/ ClassifyNext(u) \/ GiveUp(u) \/ Die(u)
      BY <3>3 DEF PublishClassification, PublishPaper, ClassifyNext, GiveUp, Die
    <3>4. CASE PublishTopics(u)
      BY <3>4 DEF PublishTopics
    <3> QED BY <1>1, <3>1, <3>2, <3>3, <3>4 DEF Works, Proceeds
  <2> QED BY <1>0, <2>1
<1>2. ASSUME Overtake PROVE FALSE
  <2>1. worker[w] \in Work
    BY <1>0
  <2>2. worker'[w] = [worker[w] EXCEPT !.overtaken = @ \/ worker[w].pc = "publish"]
    BY <1>2 DEF Overtake
  <2> QED BY <2>1, <2>2 DEF Work
<1>3. ASSUME UNCHANGED worker PROVE FALSE
  BY <1>3
<1>4. CASE Use
  BY <1>2, <1>3, <1>4 DEF Use, AskFor, AddModule, UpdateMap, SaveTopics, DeleteStudyMap, Deactivate, AddMaterial,
     RemoveMaterial, SaveStudyPaper, Edit, Trash, Restore, MoveNote, DeleteNote
<1>5. CASE \/ \E i \in 1..queued : Lapse(i)
           \/ \E c \in Setup : Begin(c) \/ SetsUp(c) \/ SetupFails(c)
           \/ \E v \in Visitor : ListCourse(v) \/ CreateListed(v)
  BY <1>3, <1>5 DEF Lapse, Begin, SetsUp, SyncMaterials, Configure, SetupClassify, Ask, SetupPropose, SetupFails,
     ListCourse, CreateListed
<1> QED BY <1>1, <1>4, <1>5 DEF Next

LEMMA FencedStep ==
  ASSUME IInv, Next, NEW w \in Worker, NEW v \in Worker, worker[w].job = worker[v].job,
         worker[w].token < worker[v].token, worker'[w].pc # worker[w].pc
  PROVE  UNCHANGED <<jobs, material, paper, map>>
<1>1. worker[w] \in Work /\ worker[v] \in Work
  BY DEF IInv, TypeOK
<1>2. Resting.job = 0 /\ Resting.token = 0
  BY DEF Resting
<1>3. worker[w].token \in Int /\ worker[v].token \in Int
  BY <1>1, WorkFields, Bounds
<1>4. worker[w].pc # "idle" /\ worker[v].pc # "idle"
  BY <1>2, <1>3, Queued DEF IInv, WorkInv
<1>5. /\ worker[v].token <= JobOf(w).attempts /\ JobOf(w) \in Job
      /\ worker[w].pc = "classify" => worker[w].token = JobOf(w).attempts
  <2>1. WorkOK(worker[v], JobOf(v), map) /\ WorkOK(worker[w], JobOf(w), map) /\ worker[w].job \in JobId
    BY <1>4, Held DEF IInv, WorkInv
  <2> QED BY <2>1 DEF WorkOK, JobOf, IInv, TypeOK
<1>6. ~Holds(w) /\ worker[w].pc # "classify"
  <2>1. JobOf(w).attempts \in Int
    BY <1>5, JobFields, Bounds
  <2> QED BY <1>3, <1>5, <2>1 DEF Holds
<1> QED BY <1>4, <1>6, OwnStep
        DEF Works, Proceeds, Claim, Read, PublishClassification, PublishPaper, PublishTopics, Publishable, ClassifyNext, GiveUp, Die

LEMMA RevokedStep ==
  ASSUME IInv, Next, NEW i \in JobId, jobs[i].revoked
  PROVE  jobs'[i].published = jobs[i].published
<1>1. JobsStep
  BY Steps DEF Moves
<1>2. CASE JobsKeep
  BY <1>2 DEF JobsKeep, JobKeeps
<1>3. ASSUME NEW last \in 0..MaxJobs, NEW kind \in Kind, NEW automatic \in BOOLEAN, AddsTo(last, kind, automatic)
      PROVE  jobs'[i].published = jobs[i].published
  <2>1. CASE i \in queued + 1..last
    <3>1. NewJob(jobs'[i], kind, automatic)
      BY <1>3, <2>1 DEF AddsTo
    <3>2. jobs[i].state = "none" /\ JobOK(jobs[i])
      BY <2>1, Queued DEF IInv, JobInv
    <3> QED BY <3>1, <3>2, NewJobFacts DEF JobOK, Published
  <2>2. CASE i \notin queued + 1..last
    BY <1>3, <2>2 DEF AddsTo
  <2> QED BY <2>1, <2>2
<1> QED BY <1>1, <1>2, <1>3 DEF JobsStep, Adds

(***************************************************************************)
(* A worker whose job went to another changes nothing, and a withdrawn job *)
(* publishes nothing.                                                      *)
(***************************************************************************)
THEOREM WithdrawnWorkCorrect == Spec => WithdrawnWorkChangesNothing
<1>1. IInv /\ [Next]_vars =>
        [/\ \A w, v \in Worker :
              /\ worker[w].job = worker[v].job /\ worker[w].token < worker[v].token
              /\ worker'[w].pc # worker[w].pc
              => UNCHANGED <<jobs, material, paper, map>>
         /\ \A i \in JobId : jobs[i].revoked => jobs'[i].published = jobs[i].published]_vars
  BY FencedStep, RevokedStep
<1> QED BY <1>1, Inductive, PTL DEF Spec, WithdrawnWorkChangesNothing

(***************************************************************************)
(* No proposal is published over an edit made since it read the map.       *)
(***************************************************************************)
THEOREM EditsWinCorrect == Spec => EditsWin
<1>1. IInv => \A w \in Worker : PublishTopics(w) => ~worker[w].overtaken
  <2> SUFFICES ASSUME IInv, NEW w \in Worker, PublishTopics(w), worker[w].overtaken PROVE FALSE
    OBVIOUS
  <2>1. Publishable(w) /\ JobOf(w).kind = "taxonomy"
    BY DEF PublishTopics
  <2>2. worker[w].input.version = map.version
    BY <2>1 DEF Publishable, MapChangedSince
  <2>3. worker[w].input.version < map.version /\ map.version \in Nat
    BY <2>1, PublishableFacts, MapFields DEF IInv, MapOK
  <2> QED BY <2>2, <2>3
<1>2. IInv /\ [Next]_vars => [\A w \in Worker : PublishTopics(w) => ~worker[w].overtaken]_vars
  BY <1>1
<1> QED BY <1>2, Inductive, PTL DEF Spec, EditsWin

-----------------------------------------------------------------------------
\* A setup moves by its own steps only.
LEMMA OwnSetupStep ==
  ASSUME IInv, Next, NEW c \in Setup, setup'[c] # setup[c]
  PROVE  Begin(c) \/ SetsUp(c) \/ SetupFails(c)
<1>0. setup \in [Setup -> Call]
  BY DEF IInv, TypeOK
<1>1. ASSUME NEW d \in Setup, Begin(d) \/ SetsUp(d) \/ SetupFails(d) PROVE d = c
  <2>1. \/ UNCHANGED setup
        \/ \E call : setup' = [setup EXCEPT ![d] = call]
    BY <1>1 DEF Begin, SetsUp, SyncMaterials, Configure, SetupClassify, Ask, SetupPropose, SetupFails, Goto
  <2> QED BY <1>0, <2>1
<1>2. ASSUME UNCHANGED setup PROVE FALSE
  BY <1>2
<1>3. CASE Use
  BY <1>2, <1>3 DEF Use, AskFor, AddModule, UpdateMap, SaveTopics, DeleteStudyMap, Deactivate, AddMaterial,
     RemoveMaterial, SaveStudyPaper, Edit, Trash, Restore, MoveNote, DeleteNote
<1>4. CASE \/ \E i \in 1..queued : Lapse(i)
           \/ \E w \in Worker : Works(w) \/ Die(w)
           \/ \E v \in Visitor : ListCourse(v) \/ CreateListed(v)
  BY <1>2, <1>4 DEF Lapse, Works, Proceeds, Claim, Read, PublishClassification, PublishPaper, PublishTopics, ClassifyNext, GiveUp,
     Die, ListCourse, CreateListed
<1> QED BY <1>1, <1>3, <1>4 DEF Next

LEMMA SetupStep ==
  ASSUME IInv, Next, NEW c \in Setup
  PROVE  /\ setup'[c].pc # setup[c].pc /\ setup[c].pc # "idle" /\ setup[c].map # map.id
              => UNCHANGED <<map, material, jobs, note>>
         /\ setup'[c] # setup[c] =>
              \A n \in Note : material[n].in = "removed" => material'[n].in = "removed"
<1>1. ASSUME setup'[c].pc # setup[c].pc, setup[c].pc # "idle", setup[c].map # map.id
      PROVE  UNCHANGED <<map, material, jobs, note>>
  BY <1>1, OwnSetupStep DEF Begin, SetsUp, SyncMaterials, Configure, SetupClassify, Ask, SetupPropose, SetupFails, IsOf
<1>2. ASSUME setup'[c] # setup[c], NEW n \in Note, material[n].in = "removed"
      PROVE  material'[n].in = "removed"
  <2>1. material \in [Note -> Material]
    BY DEF IInv, TypeOK
  <2>2. CASE UNCHANGED material
    BY <1>2, <2>2
  <2>3. CASE SyncMaterials(c)
    BY <1>2, <2>3 DEF SyncMaterials
  <2>4. ASSUME NEW m \in Note, material' = [material EXCEPT ![m].in = IF @ = "no" THEN "yes" ELSE @]
        PROVE  material'[n].in = "removed"
    BY <1>2, <2>1, <2>4 DEF Material
  <2> QED BY <1>2, <2>2, <2>3, <2>4, OwnSetupStep DEF Begin, SetsUp, Configure, SetupClassify, Ask, SetupPropose, SetupFails
<1> QED BY <1>1, <1>2

(***************************************************************************)
(* A setup changes nothing of a map it was not begun for, and brings no    *)
(* removed material back.                                                  *)
(***************************************************************************)
THEOREM SetupKeepsOutCorrect == Spec => SetupKeepsOut
<1>1. IInv /\ [Next]_vars =>
        [\A c \in Setup :
           /\ setup'[c].pc # setup[c].pc /\ setup[c].pc # "idle" /\ setup[c].map # map.id
                => UNCHANGED <<map, material, jobs, note>>
           /\ setup'[c] # setup[c] =>
                \A n \in Note : material[n].in = "removed" => material'[n].in = "removed"]_vars
  BY SetupStep
<1> QED BY <1>1, Inductive, PTL DEF Spec, SetupKeepsOut

-----------------------------------------------------------------------------
LEMMA OpenOnceStep ==
  ASSUME IInv, OpenOnce, JobsStep
  PROVE  OpenOnce'
<1> DEFINE opened == {i \in 1..queued' : IsOpen(jobs'[i])}
<1>1. queued \in Nat /\ queued' \in Nat /\ queued' >= queued /\ queued' <= MaxJobs /\ 1..queued \subseteq JobId
  BY OldJobs, Queued, Bounds DEF IInv
<1>2. \A i, j \in Open : jobs[i].kind = jobs[j].kind /\ jobs[i].note = jobs[j].note => i = j
  BY DEF OpenOnce, Open
<1>3. IsFiniteSet(Open) /\ Cardinality(Open) \in Nat /\ Cardinality(Open) <= Cap
  BY RoomBound DEF IInv, OpenOnce, Open
<1>4. \A i \in 1..queued : IsOpen(jobs'[i]) => i \in Open /\ jobs'[i].kind = jobs[i].kind /\ jobs'[i].note = jobs[i].note
  BY OldJobs DEF JobKeeps, Open
<1>5. CASE JobsKeep
  <2>1. opened \subseteq Open
    BY <1>4, <1>5 DEF JobsKeep
  <2>2. Cardinality(opened) <= Cap
    <3>1. Cardinality(opened) <= Cardinality(Open) /\ IsFiniteSet(opened)
      BY <1>3, <2>1, FS_Subset
    <3>2. Cardinality(opened) \in Nat
      BY <3>1, FS_CardinalityType
    <3> QED BY <1>3, <3>1, <3>2, Bounds
  <2>3. \A i, j \in opened : jobs'[i].kind = jobs'[j].kind /\ jobs'[i].note = jobs'[j].note => i = j
    BY <1>2, <1>4, <1>5 DEF JobsKeep
  <2> QED BY <2>2, <2>3 DEF OpenOnce
<1>6. ASSUME NEW last \in 0..MaxJobs, NEW kind \in Kind, NEW automatic \in BOOLEAN, AddsTo(last, kind, automatic)
      PROVE  OpenOnce'
  <2> DEFINE new == queued + 1..last
  <2>1. queued' = last /\ last >= queued /\ last - queued <= Room
    BY <1>1, <1>6 DEF AddsTo
  <2>2. \A i \in new : /\ jobs'[i].kind = kind /\ ~IsQueued(kind, jobs'[i].note)
                       /\ \A j \in new : jobs'[i].note = jobs'[j].note => i = j
    <3>1. \A i \in new : NewJob(jobs'[i], kind, automatic)
      BY <1>6 DEF AddsTo
    <3>2. \A i, j \in new : jobs'[i].note = jobs'[j].note => i = j
      BY <1>6 DEF AddsTo
    <3> HIDE DEF new
    <3>3. ASSUME NEW i \in new PROVE jobs'[i].kind = kind /\ ~IsQueued(kind, jobs'[i].note)
      <4>1. NewJob(jobs'[i], kind, automatic)
        BY <3>1
      <4>2. ~IsQueued(kind, jobs'[i].note)
        BY <4>1 DEF NewJob
      <4>3. jobs'[i] = [NoJob EXCEPT !.kind = kind, !.note = jobs'[i].note, !.state = "pending", !.automatic = automatic]
        BY <4>1 DEF NewJob
      <4>4. jobs'[i].kind = kind
        BY <4>3 DEF NoJob
      <4> QED BY <4>2, <4>4
    <3> QED BY <3>2, <3>3
  <2>3. opened \subseteq Open \cup new
    BY <1>1, <1>4, <2>1
  <2>4. \A i \in Open : jobs[i].kind = kind => IsQueued(kind, jobs[i].note)
    BY DEF Open, IsQueued
  <2>5. ASSUME NEW i \in opened, NEW j \in opened, jobs'[i].kind = jobs'[j].kind, jobs'[i].note = jobs'[j].note
        PROVE  i = j
    <3>1. i \in 1..queued \/ i \in new
      BY <1>1, <2>1
    <3>2. j \in 1..queued \/ j \in new
      BY <1>1, <2>1
    <3> HIDE DEF new
    <3> QED BY <1>2, <1>4, <2>2, <2>4, <2>5, <3>1, <3>2
  <2>6. IsFiniteSet(new) /\ Cardinality(new) = last - queued
    <3>1. queued + 1 \in Int /\ last \in Int
      BY <1>1
    <3>2. IsFiniteSet(new) /\ Cardinality(new) = IF queued + 1 > last THEN 0 ELSE last - (queued + 1) + 1
      BY <3>1, FS_Interval
    <3> QED BY <1>1, <2>1, <3>2
  <2> HIDE DEF new
  <2>7. IsFiniteSet(Open \cup new) /\ Cardinality(Open \cup new) <= Cardinality(Open) + Cardinality(new)
    <3>1. IsFiniteSet(Open \cup new) /\ IsFiniteSet(Open \cap new)
      BY <1>3, <2>6, FS_Union, FS_Subset
    <3>2. /\ Cardinality(Open \cup new) = Cardinality(Open) + Cardinality(new) - Cardinality(Open \cap new)
          /\ Cardinality(Open \cap new) \in Nat /\ Cardinality(new) \in Nat
      BY <1>3, <2>6, <3>1, FS_Union, FS_CardinalityType
    <3> QED BY <1>3, <3>1, <3>2
  <2>8. Cardinality(opened) <= Cardinality(Open \cup new) /\ IsFiniteSet(opened)
    BY <2>3, <2>7, FS_Subset
  <2>9. Cardinality(opened) \in Nat /\ Cardinality(Open \cup new) \in Nat
    BY <2>7, <2>8, FS_CardinalityType
  <2>10. Cardinality(Open) + Cardinality(new) <= Cap
    BY <1>1, <1>3, <2>1, <2>6, RoomBound, Bounds DEF IInv
  <2>11. Cardinality(opened) <= Cap
    BY <1>1, <1>3, <2>1, <2>6, <2>7, <2>8, <2>9, <2>10, Bounds
  <2> QED BY <2>5, <2>11 DEF OpenOnce
<1> QED BY <1>5, <1>6 DEF JobsStep, Adds

(***************************************************************************)
(* Two requests for one thing share a job, and the cap of open jobs holds, *)
(* whatever the cap, the notes, and the workers are.                       *)
(***************************************************************************)
THEOREM OpenOnceCorrect == Spec => []OpenOnce
<1>1. Init => OpenOnce
  <2> SUFFICES ASSUME Init PROVE OpenOnce
    OBVIOUS
  <2>1. {i \in 1..queued : IsOpen(jobs[i])} = {}
    BY DEF Init
  <2> QED BY <2>1, FS_EmptySet, Bounds DEF OpenOnce
<1>2. ASSUME IInv, OpenOnce, [Next]_vars PROVE OpenOnce'
  <2>1. CASE Next
    BY <1>2, <2>1, Steps, OpenOnceStep DEF Moves
  <2>2. CASE UNCHANGED vars
    BY <1>2, <2>2 DEF vars, OpenOnce
  <2> QED BY <1>2, <2>1, <2>2
<1> QED BY <1>1, <1>2, Inductive, PTL DEF Spec
=============================================================================
