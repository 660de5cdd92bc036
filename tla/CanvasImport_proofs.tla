------------------------ MODULE CanvasImport_proofs -------------------------
(***************************************************************************)
(* Theorems about CanvasImport: a stopped or failed run leaves no work     *)
(* behind, a late worker publishes nothing, a run is completed only when   *)
(* it is done, what is over stays over, and a file is claimed a bounded    *)
(* number of times.                                                        *)
(***************************************************************************)
EXTENDS CanvasImport, TLAPS

-----------------------------------------------------------------------------
(***************************************************************************)
(* The inductive invariant.  Jobs are started in order, and only the last  *)
(* can be live.  A row's claims are paid from its executions, its retries, *)
(* the times its run's discovery was queued again and the faults.  Workers *)
(* of a file hold a token the row has given; the one whose token is the    *)
(* row's knows what the row may still spend.                               *)
(***************************************************************************)

\* How often a job's discovery was queued again.
Requeues(jr) == IF jr.status = "queued" THEN jr.attempts
                ELSE IF jr.attempts = 0 THEN 0 ELSE jr.attempts - 1

JobFits(jr) ==
  /\ jr.status = "none" => jr.attempts = 0
  /\ jr.status = "queued" => jr.attempts < MaxExecutions
  /\ jr.status = "discovering" => jr.attempts >= 1

Ordered == \A i, j \in Job : i < j /\ job[j].status # "none" => job[i].status \in JobOver

JobInv == Ordered /\ \A j \in Job : JobFits(job[j])

\* Before its extraction is staged every claim of a row is an execution, afterwards all
\* but one are retries.
Downloads(r, jr, n) == r.claims <= r.executions + n /\ r.executions <= MaxExecutions + Requeues(jr)
Extracts(r, jr, n) == r.claims <= MaxExecutions + Requeues(jr) + r.retries + 1 + n

Staged == {"pending_extract", "pending_retry", "pending_marker"}
Unstaged == {"pending", "pending_cache", "downloading", "processing"}

Placed(r, jr) ==
  /\ r.status # "none" => r.job # 0
  /\ r.job # 0 => jr.status # "none"
  /\ r.status \in Open => jr.status \notin {"failed", "cancelled"} /\ r.retries <= MaxRetries
  /\ r.status \in Running => jr.status # "queued"
  /\ r.token \in {0, r.claims}
  /\ r.status \in Staged => r.source

Paid(r, jr, n) ==
  /\ r.status \in Unstaged \/ (r.status = "indexing" /\ ~r.source) => Downloads(r, jr, n)
  /\ r.status \in {"pending", "pending_cache"} => r.executions < MaxExecutions + Requeues(jr)
  /\ r.status \in Open => Extracts(r, jr, n)
  /\ r.status = "pending_extract" => r.claims < MaxExecutions + Requeues(jr) + r.retries + 1 + n
  /\ r.job # 0 => r.claims <= MaxExecutions + MaxRetries + 1 + jr.attempts + n

RowsInv == \A f \in File : Placed(file[f], job[file[f].job]) /\ Paid(file[f], job[file[f].job], faults)

HasFile == FilePc \cup ExtractPc

\* A worker x and its row r.
Claimed(x, r) ==
  /\ x.token >= 1 /\ x.job <= r.job
  /\ x.job = r.job => x.token <= r.claims
Holds(x, r) == x.job = r.job /\ x.token = r.token /\ r.status \in Running
Spends(x, r, jr, n) ==
  /\ x.pc \in FilePc => Downloads(r, jr, n) /\ r.executions >= 1
  /\ x.pc \in ExtractPc => Extracts(r, jr, n) /\ r.source

WorkerInv(w) ==
  /\ worker[w].pc # "idle" => worker[w].job \in Job
  /\ worker[w].pc \in HasFile =>
       /\ worker[w].file \in File /\ Claimed(worker[w], Row(w))
       /\ Holds(worker[w], Row(w)) => Spends(worker[w], Row(w), job[worker[w].job], faults)
  /\ worker[w].pc = "counted" =>
       /\ job[worker[w].job].status \in {"processing"} \cup JobOver
       /\ job[worker[w].job].status = "processing" => Done(worker[w].job)

WorkersInv == \A w \in Worker : WorkerInv(w)

\* A message about a file names it.
Mail == {message \in Message : message.kind # "discover" => message.file \in File}

IInv == TypeOK /\ JobInv /\ RowsInv /\ WorkersInv /\ queue \subseteq Mail

-----------------------------------------------------------------------------
(***************************************************************************)
(* What a step may do to a job, a row and a worker.                        *)
(***************************************************************************)
JobGoes(a, b) ==
  /\ a.status # "none" => b.status # "none"
  /\ a.status \in JobOver => b = a
  /\ a.status = "processing" => b.status \in {"processing"} \cup JobOver
  /\ a.attempts <= b.attempts
  /\ b.status \notin {"failed", "cancelled"} => Requeues(a) <= Requeues(b)

\* A closed row is opened only for a run that begins or still lists; a token is new, or the
\* row goes on as its holder knows it.
RowGoes(a, b, status) ==
  /\ a.job <= b.job
  /\ a.job # b.job => status \in {"none", "discovering"}
  /\ a.job = b.job =>
       /\ a.status \in Closed => b.status = a.status
       /\ a.claims <= b.claims
       /\ b.status \in Running /\ b.token >= 1 =>
            \/ b.token > a.claims
            \/ /\ a.status \in Running /\ b.token = a.token /\ b.claims = a.claims
               /\ b.executions = a.executions /\ a.retries <= b.retries /\ (a.source => b.source)

Early(j) == \E w \in Worker : worker[w].pc = "countedEarly" /\ worker[w].job = j

Moves ==
  /\ job' \in [Job -> JobRow] /\ JobInv' /\ \A j \in Job : JobGoes(job[j], job'[j])
  /\ \A j \in Job : job[j].status = "processing" /\ job'[j].status = "complete" => Done(j) \/ Early(j)
  /\ file' \in [File -> FileRow] /\ RowsInv'
  /\ \A f \in File : RowGoes(file[f], file'[f], job[file'[f].job].status)
  /\ faults' \in 0..MaxFaults /\ faults <= faults'

\* A worker goes on with what it has, counts, or begins.
WorkerGoes(x, y) ==
  \/ y.pc = "idle"
  \/ /\ x.pc # "idle" /\ y.job = x.job /\ y.file = x.file /\ y.token = x.token
     /\ \/ y.pc = x.pc
        \/ x.pc \in FilePc /\ y.pc \in FilePc
        \/ x.pc \in ExtractPc /\ y.pc \in ExtractPc
        \/ y.pc \in {"checking", "countedEarly"}
        \/ y.pc = "counted" /\ job[y.job].status = "processing" /\ Done(y.job)
  \/ y.pc = "listing" /\ y.job \in Job

Goes == worker' \in [Worker -> WorkerState] /\ \A w \in Worker : WorkerGoes(worker[w], worker'[w])

NotesGo ==
  /\ notes' \in [File -> Claim]
  /\ \A f \in File : notes'[f] # notes[f] =>
       notes'[f] = [job |-> file[f].job, token |-> file[f].claims] /\ Working(file[f].job)

Sound == IInv' /\ Moves /\ NotesGo

-----------------------------------------------------------------------------
(***************************************************************************)
(* Sets and rows.                                                          *)
(***************************************************************************)
LEMMA Statuses ==
  /\ Running \subseteq Open /\ Open \cap Closed = {} /\ "none" \notin Open \cup Closed
  /\ Staged \subseteq Open \ Running /\ Unstaged \subseteq Open
  /\ \A s \in Open : s \in Staged \cup Unstaged \cup {"indexing"}
BY DEF Running, Open, Closed, Staged, Unstaged

LEMMA Attempts == ASSUME NEW jr \in JobRow PROVE Requeues(jr) \in Nat /\ Requeues(jr) <= jr.attempts
BY CanvasAssumption DEF JobRow, Requeues

LEMMA Fields ==
  ASSUME NEW r \in FileRow
  PROVE  /\ r.status \in {"none"} \cup Open \cup Closed /\ r.job \in {0} \cup Job /\ r.token \in Nat
         /\ r.claims \in Nat /\ r.executions \in Nat /\ r.retries \in 0..MaxRetries + 1
         /\ r.seq \in Nat /\ r.source \in BOOLEAN
BY DEF FileRow

LEMMA RowTypes ==
  ASSUME TypeOK, NEW f \in File
  PROVE  /\ file[f] \in FileRow /\ faults \in Nat /\ MaxRetries \in Nat /\ MaxExecutions \in Nat
         /\ file[f].job # 0 => file[f].job \in Job /\ job[file[f].job] \in JobRow
BY CanvasAssumption, Fields DEF TypeOK

\* A row stays as it is while its job and the faults go on.
LEMMA RowWaits ==
  ASSUME NEW r \in FileRow, NEW jr \in JobRow, NEW kr \in JobRow, NEW n \in Nat, NEW m \in Nat, n <= m,
         Placed(r, jr), Paid(r, jr, n), JobGoes(jr, kr),
         r.status \in Open => kr.status \notin {"failed", "cancelled"},
         r.status \in Running => kr.status # "queued"
  PROVE  Placed(r, kr) /\ Paid(r, kr, m)
<1>1. Placed(r, kr)
  BY Statuses DEF Placed, JobGoes
<1>2. r.status \in Open => Requeues(jr) <= Requeues(kr)
  BY DEF JobGoes
<1>3. /\ Requeues(jr) \in Nat /\ Requeues(kr) \in Nat /\ jr.attempts \in Nat /\ kr.attempts \in Nat
      /\ jr.attempts <= kr.attempts
  BY Attempts DEF JobRow, JobGoes
<1>4. /\ r.claims \in Nat /\ r.executions \in Nat /\ r.retries \in Nat
      /\ MaxExecutions \in Nat /\ MaxRetries \in Nat
  BY Fields, CanvasAssumption
<1>5. r.status \in Open /\ Downloads(r, jr, n) => Downloads(r, kr, m)
  BY <1>2, <1>3, <1>4 DEF Downloads
<1>6. r.status \in Open /\ Extracts(r, jr, n) => Extracts(r, kr, m)
  BY <1>2, <1>3, <1>4 DEF Extracts
<1>7. r.status \in Unstaged \cup {"indexing", "pending", "pending_cache", "pending_extract"} => r.status \in Open
  BY DEF Unstaged, Open, Running
<1>8. r.status \in {"pending", "pending_cache"} => r.executions < MaxExecutions + Requeues(kr)
  BY <1>2, <1>3, <1>4, <1>7 DEF Paid
<1>9. r.status = "pending_extract" => r.claims < MaxExecutions + Requeues(kr) + r.retries + 1 + m
  BY <1>2, <1>3, <1>4, <1>7 DEF Paid
<1>10. r.job # 0 => r.claims <= MaxExecutions + MaxRetries + 1 + kr.attempts + m
  BY <1>3, <1>4 DEF Paid
<1>11. Paid(r, kr, m)
  BY <1>5, <1>6, <1>7, <1>8, <1>9, <1>10 DEF Paid
<1> QED BY <1>1, <1>11

LEMMA SameRow == ASSUME NEW r \in FileRow, NEW status PROVE RowGoes(r, r, status)
BY Fields DEF RowGoes, Job

\* An open row has claims to spare for the bound that outlives it.
LEMMA OpenBound ==
  ASSUME NEW r \in FileRow, NEW jr \in JobRow, NEW n \in Nat, r.status \in Open,
         Placed(r, jr), Extracts(r, jr, n)
  PROVE  r.claims <= MaxExecutions + MaxRetries + 1 + jr.attempts + n
<1>1. /\ Requeues(jr) \in Nat /\ Requeues(jr) <= jr.attempts /\ jr.attempts \in Nat
      /\ r.retries <= MaxRetries
  BY Attempts DEF JobRow, Placed
<1> QED BY <1>1, Fields, CanvasAssumption DEF Extracts

\* Before the extraction every claim is paid for as one of it would be.
LEMMA DownloadsExtract ==
  ASSUME NEW r \in FileRow, NEW jr \in JobRow, NEW n \in Nat, Downloads(r, jr, n)
  PROVE  r.claims < MaxExecutions + Requeues(jr) + r.retries + 1 + n /\ Extracts(r, jr, n)
BY Attempts, Fields, CanvasAssumption DEF Downloads, Extracts

-----------------------------------------------------------------------------
(***************************************************************************)
(* What a step does to jobs and rows keeps what is known of the workers.   *)
(***************************************************************************)
LEMMA DoneStays ==
  ASSUME TypeOK, Moves, NEW j \in Job, job[j].status = "processing", Done(j)
  PROVE  Done(j)'
<1> SUFFICES ASSUME NEW f \in File, file'[f].job = j PROVE file'[f].status \in Closed
  BY DEF Done, Files
<1>1. RowGoes(file[f], file'[f], job[j].status)
  BY DEF Moves
<1>2. file[f].job = j
  BY <1>1 DEF RowGoes
<1>3. file[f].status \in Closed
  BY <1>2 DEF Done, Files
<1> QED BY <1>1, <1>2, <1>3 DEF RowGoes

\* A worker goes on with the file it has.
LEMMA FileWorker ==
  ASSUME IInv, Moves, NEW x \in WorkerState, NEW y \in WorkerState, NEW f \in File,
         x.pc \in HasFile, x.job \in Job, f = x.file, y.job = x.job, y.file = x.file, y.token = x.token,
         (y.pc \in FilePc /\ x.pc \in FilePc) \/ (y.pc \in ExtractPc /\ x.pc \in ExtractPc),
         Claimed(x, file[f]), Holds(x, file[f]) => Spends(x, file[f], job[x.job], faults)
  PROVE  Claimed(y, file'[f]) /\ (Holds(y, file'[f]) => Spends(y, file'[f], job'[y.job], faults'))
<1> DEFINE a == file[f]
           b == file'[f]
<1>1. a \in FileRow /\ b \in FileRow /\ x.token \in Nat /\ x.job \in Nat
  BY DEF IInv, TypeOK, Moves, WorkerState, Job
<1>2. RowGoes(a, b, job[b.job].status)
  BY DEF Moves
<1>3. a.job \in Nat /\ b.job \in Nat /\ a.claims \in Nat /\ b.claims \in Nat
  BY <1>1, Fields DEF Job
<1>4. a.job <= b.job /\ (x.job = b.job => a.job = b.job)
  BY <1>1, <1>2, <1>3 DEF Claimed, RowGoes
<1>5. Claimed(y, b)
  BY <1>1, <1>2, <1>3, <1>4 DEF Claimed, RowGoes
<1>6. ASSUME Holds(y, b) PROVE Spends(y, b, job'[y.job], faults')
  <2>1. b.status \in Running /\ b.token = x.token /\ x.token >= 1 /\ b.job = x.job /\ a.job = x.job
    BY <1>4, <1>6 DEF Holds, Claimed
  <2>2. x.token <= a.claims
    BY <2>1 DEF Claimed
  <2>3. /\ a.status \in Running /\ b.token = a.token /\ b.claims = a.claims
        /\ b.executions = a.executions /\ a.retries <= b.retries /\ (a.source => b.source)
    BY <1>1, <1>2, <1>3, <2>1, <2>2 DEF RowGoes
  <2>4. Spends(x, a, job[x.job], faults)
    BY <2>1, <2>3 DEF Holds
  <2>5. Placed(b, job'[x.job])
    BY <2>1 DEF Moves, RowsInv
  <2>6. job[x.job] \in JobRow /\ job'[x.job] \in JobRow /\ JobGoes(job[x.job], job'[x.job])
    BY DEF IInv, TypeOK, Moves
  <2>7. Requeues(job[x.job]) <= Requeues(job'[x.job])
    BY <2>1, <2>5, <2>6, Statuses DEF Placed, JobGoes
  <2>8. Requeues(job[x.job]) \in Nat /\ Requeues(job'[x.job]) \in Nat
    BY <2>6, Attempts
  <2>9. faults \in Nat /\ faults' \in Nat /\ faults <= faults'
    BY CanvasAssumption DEF IInv, TypeOK, Moves
  <2>10. /\ a.executions \in Nat /\ a.retries \in Nat /\ b.retries \in Nat
         /\ MaxExecutions \in Nat /\ MaxRetries \in Nat
    BY <1>1, Fields, CanvasAssumption
  <2>11. Downloads(a, job[x.job], faults) => Downloads(b, job'[x.job], faults')
    BY <1>3, <2>3, <2>7, <2>8, <2>9, <2>10 DEF Downloads
  <2>12. Extracts(a, job[x.job], faults) => Extracts(b, job'[x.job], faults')
    BY <1>3, <2>3, <2>7, <2>8, <2>9, <2>10 DEF Extracts
  <2>13. FilePc \cap ExtractPc = {}
    BY DEF FilePc, ExtractPc
  <2> QED BY <2>3, <2>4, <2>11, <2>12, <2>13 DEF Spends
<1> QED BY <1>5, <1>6

LEMMA WorkerKeeps ==
  ASSUME IInv, Moves, NEW w \in Worker, worker' \in [Worker -> WorkerState],
         WorkerGoes(worker[w], worker'[w])
  PROVE  WorkerInv(w)'
<1> DEFINE x == worker[w]
           y == worker'[w]
<1>1. x \in WorkerState /\ y \in WorkerState /\ WorkerInv(w)
  BY DEF IInv, TypeOK, WorkersInv
<1>2. HasFile \cap (CheckPc \cup {"idle", "listing"}) = {} /\ "counted" \in CheckPc
  BY DEF HasFile, FilePc, ExtractPc, CheckPc
<1>3. y.pc # "idle" => y.job \in Job
  BY <1>1 DEF WorkerGoes, WorkerInv
<1>4. ASSUME y.pc \in HasFile
      PROVE  /\ y.file \in File /\ Claimed(y, file'[y.file])
             /\ Holds(y, file'[y.file]) => Spends(y, file'[y.file], job'[y.job], faults')
  <2>1. /\ x.pc \in HasFile /\ y.job = x.job /\ y.file = x.file /\ y.token = x.token
        /\ (y.pc \in FilePc /\ x.pc \in FilePc) \/ (y.pc \in ExtractPc /\ x.pc \in ExtractPc)
    BY <1>2, <1>4 DEF WorkerGoes, HasFile, CheckPc
  <2>2. /\ x.file \in File /\ x.job \in Job /\ Claimed(x, file[x.file])
        /\ Holds(x, file[x.file]) => Spends(x, file[x.file], job[x.job], faults)
    BY <1>1, <1>2, <2>1 DEF WorkerInv, Row
  <2> QED BY <1>1, <2>1, <2>2, FileWorker
<1>5. ASSUME y.pc = "counted", NEW j \in Job, y.job = j
      PROVE  /\ job'[j].status \in {"processing"} \cup JobOver
             /\ job'[j].status = "processing" => Done(j)'
  <2>1. /\ j = x.job
        /\ \/ x.pc = "counted"
           \/ job[j].status = "processing" /\ Done(j)
    BY <1>2, <1>5 DEF WorkerGoes, HasFile
  <2>2. /\ job[j].status \in {"processing"} \cup JobOver
        /\ job[j].status = "processing" => Done(j)
    BY <1>1, <2>1 DEF WorkerInv
  <2>3. JobGoes(job[j], job'[j])
    BY <2>1 DEF Moves
  <2>4. "processing" \notin JobOver
    BY DEF JobOver
  <2> QED BY <2>1, <2>2, <2>3, <2>4, DoneStays DEF JobGoes, IInv
<1>6. y.pc = "counted" =>
        /\ job'[y.job].status \in {"processing"} \cup JobOver
        /\ job'[y.job].status = "processing" => Done(worker[w].job)'
  <2> SUFFICES ASSUME y.pc = "counted"
               PROVE  /\ job'[y.job].status \in {"processing"} \cup JobOver
                      /\ job'[y.job].status = "processing" => Done(worker[w].job)'
    OBVIOUS
  <2>1. PICK j \in Job : y.job = j
    BY <1>3
  <2>2. Done(worker[w].job)' <=> Done(j)'
    BY <2>1 DEF Done, Files
  <2> QED BY <1>5, <2>1, <2>2
<1> QED BY <1>3, <1>4, <1>6 DEF WorkerInv, Row

LEMMA WorkersKeep == ASSUME IInv, Moves, Goes PROVE WorkersInv' /\ worker' \in [Worker -> WorkerState]
BY WorkerKeeps DEF Goes, WorkersInv

-----------------------------------------------------------------------------
(***************************************************************************)
(* One row changes.                                                        *)
(***************************************************************************)
LEMMA FaultGoes ==
  ASSUME TypeOK, Fault \/ UNCHANGED faults
  PROVE  faults' \in 0..MaxFaults /\ faults' \in Nat /\ faults <= faults' /\ faults \in Nat
BY CanvasAssumption DEF TypeOK, Fault

LEMMA SameJob == ASSUME NEW jr \in JobRow PROVE JobGoes(jr, jr)
BY Attempts DEF JobGoes, JobRow, JobOver

LEMMA RowKept ==
  ASSUME IInv, NEW f \in File, NEW m \in Nat, faults <= m, NEW K \in [Job -> JobRow],
         \A j \in Job : JobGoes(job[j], K[j]),
         file[f].status \in Open => K[file[f].job].status \notin {"failed", "cancelled"},
         file[f].status \in Running => K[file[f].job].status # "queued"
  PROVE  Placed(file[f], K[file[f].job]) /\ Paid(file[f], K[file[f].job], m)
<1>1. /\ file[f] \in FileRow /\ faults \in Nat
      /\ Placed(file[f], job[file[f].job]) /\ Paid(file[f], job[file[f].job], faults)
  BY CanvasAssumption DEF IInv, TypeOK, RowsInv
<1>2. CASE file[f].job = 0
  <2>1. file[f].status = "none"
    BY <1>1, <1>2 DEF Placed
  <2> QED BY <1>1, <1>2, <2>1, Statuses DEF Placed, Paid
<1>3. CASE file[f].job # 0
  <2>1. file[f].job \in Job
    BY <1>1, <1>3, Fields
  <2>2. job[file[f].job] \in JobRow /\ K[file[f].job] \in JobRow
    BY <2>1 DEF IInv, TypeOK
  <2> QED BY <1>1, <2>1, <2>2, RowWaits
<1> QED BY <1>2, <1>3

LEMMA RowStep ==
  ASSUME IInv, NEW f \in File, NEW b \in FileRow, file' = [file EXCEPT ![f] = b], UNCHANGED job,
         faults' \in 0..MaxFaults, faults <= faults',
         Placed(b, job[b.job]), Paid(b, job[b.job], faults'), RowGoes(file[f], b, job[b.job].status)
  PROVE  Moves
<1>1. /\ job \in [Job -> JobRow] /\ file \in [File -> FileRow] /\ faults' \in Nat
  BY CanvasAssumption DEF IInv, TypeOK
<1>2. \A j \in Job : JobGoes(job[j], job'[j])
  BY <1>1, SameJob
<1>3. JobInv'
  BY DEF IInv, JobInv, Ordered
<1>4. file' \in [File -> FileRow] /\ file'[f] = b /\ \A g \in File : g # f => file'[g] = file[g]
  BY <1>1
<1>5. \A g \in File : Placed(file[g], job[file[g].job]) /\ Paid(file[g], job[file[g].job], faults')
  <2> SUFFICES ASSUME NEW g \in File
               PROVE  Placed(file[g], job[file[g].job]) /\ Paid(file[g], job[file[g].job], faults')
    OBVIOUS
  <2>1. Placed(file[g], job[file[g].job])
    BY DEF IInv, RowsInv
  <2>2. /\ file[g].status \in Open => job[file[g].job].status \notin {"failed", "cancelled"}
        /\ file[g].status \in Running => job[file[g].job].status # "queued"
    BY <2>1 DEF Placed
  <2> QED BY <1>1, <1>2, <2>2, RowKept
<1>6. RowsInv'
  BY <1>4, <1>5 DEF RowsInv
<1>7. \A g \in File : RowGoes(file[g], file'[g], job[file'[g].job].status)
  BY <1>1, <1>4, SameRow
<1>8. \A j \in Job : ~(job[j].status = "processing" /\ job'[j].status = "complete")
  OBVIOUS
<1> QED BY <1>1, <1>2, <1>3, <1>4, <1>6, <1>7, <1>8 DEF Moves

LEMMA Still ==
  ASSUME IInv, UNCHANGED <<job, file>>, faults' \in 0..MaxFaults, faults <= faults'
  PROVE  Moves
<1>1. CASE File = {}
  BY <1>1, SameJob DEF IInv, TypeOK, Moves, JobInv, Ordered, RowsInv
<1>2. CASE File # {}
  <2>1. PICK f \in File : TRUE
    BY <1>2
  <2>2. file[f] \in FileRow /\ file' = [file EXCEPT ![f] = file[f]] /\ faults' \in Nat
    BY CanvasAssumption DEF IInv, TypeOK
  <2>3. \A j \in Job : JobGoes(job[j], job[j])
    BY SameJob DEF IInv, TypeOK
  <2>4. Placed(file[f], job[file[f].job])
    BY DEF IInv, RowsInv
  <2>5. Paid(file[f], job[file[f].job], faults')
    BY <2>2, <2>3, <2>4, RowKept DEF IInv, TypeOK, Placed
  <2> QED BY <2>2, <2>4, <2>5, SameRow, RowStep
<1> QED BY <1>1, <1>2

\* Where the row a of the job jr may land: as b.
Lands(a, b, jr, m) == Placed(b, jr) /\ Paid(b, jr, m) /\ RowGoes(a, b, jr.status)

LEMMA Closes ==
  ASSUME NEW a \in FileRow, NEW b \in FileRow, NEW jr \in JobRow, NEW n \in Nat, NEW m \in Nat, n <= m,
         Placed(a, jr), Paid(a, jr, n), a.status \in Open,
         b.status \in Closed, b.job = a.job, b.claims = a.claims, b.token \in {0, a.token}
  PROVE  Lands(a, b, jr, m)
<1>1. a.claims \in Nat /\ b.claims \in Nat /\ jr.attempts \in Nat /\ MaxExecutions \in Nat /\ MaxRetries \in Nat
  BY Fields, CanvasAssumption DEF JobRow
<1>2. b.status \notin Open \cup Running \cup Staged \cup Unstaged /\ b.status # "none" /\ a.status # "none"
  BY Statuses
<1>3. Placed(b, jr)
  BY <1>2 DEF Placed
<1>4. Paid(b, jr, m)
  BY <1>1, <1>2, Statuses DEF Paid, Open, Running, Unstaged
<1>5. RowGoes(a, b, jr.status)
  BY <1>1, <1>2, Statuses, Fields DEF RowGoes, Job
<1> QED BY <1>3, <1>4, <1>5 DEF Lands

LEMMA Pends ==
  ASSUME NEW a \in FileRow, NEW b \in FileRow, NEW jr \in JobRow, NEW m \in Nat,
         Placed(a, jr), a.status \in Open,
         b.status \in {"pending", "pending_cache"}, b.job = a.job, b.claims = a.claims,
         b.token \in {0, a.token}, b.retries <= MaxRetries,
         Downloads(b, jr, m), b.executions < MaxExecutions + Requeues(jr)
  PROVE  Lands(a, b, jr, m)
<1>1. a.claims \in Nat /\ a.job \in Nat
  BY Fields DEF Job
<1>2. /\ b.status \in Open \ Running /\ b.status \notin Staged \cup {"pending_extract", "none"}
      /\ a.status \notin Closed \cup {"none"}
  BY Statuses DEF Open, Running, Staged
<1>3. Placed(b, jr)
  BY <1>2 DEF Placed
<1>4. Paid(b, jr, m)
  BY <1>2, <1>3, OpenBound, DownloadsExtract DEF Paid
<1>5. RowGoes(a, b, jr.status)
  BY <1>1, <1>2 DEF RowGoes
<1> QED BY <1>3, <1>4, <1>5 DEF Lands

LEMMA Stages ==
  ASSUME NEW a \in FileRow, NEW b \in FileRow, NEW jr \in JobRow, NEW m \in Nat,
         Placed(a, jr), a.status \in Open,
         b.status \in Staged, b.job = a.job, b.claims = a.claims,
         b.token \in {0, a.token}, b.retries <= MaxRetries, b.source,
         Extracts(b, jr, m),
         b.status = "pending_extract" => b.claims < MaxExecutions + Requeues(jr) + b.retries + 1 + m
  PROVE  Lands(a, b, jr, m)
<1>1. a.claims \in Nat /\ a.job \in Nat
  BY Fields DEF Job
<1>2. /\ b.status \in Open \ Running
      /\ b.status \notin Unstaged \cup {"indexing", "pending", "pending_cache", "none"}
      /\ a.status \notin Closed \cup {"none"}
  BY Statuses DEF Open, Running, Staged, Unstaged
<1>3. Placed(b, jr)
  BY <1>2 DEF Placed
<1>4. Paid(b, jr, m)
  BY <1>2, <1>3, OpenBound DEF Paid
<1>5. RowGoes(a, b, jr.status)
  BY <1>1, <1>2 DEF RowGoes
<1> QED BY <1>3, <1>4, <1>5 DEF Lands

\* A row that is worked on by the holder of its token.
LEMMA Runs ==
  ASSUME NEW a \in FileRow, NEW b \in FileRow, NEW jr \in JobRow, NEW m \in Nat,
         Placed(a, jr), a.status \in Open, jr.status # "queued",
         b.status \in Running, b.job = a.job, b.retries <= MaxRetries, b.token \in {0, b.claims},
         \/ b.token = a.claims + 1
         \/ /\ a.status \in Running /\ b.token = a.token /\ b.claims = a.claims
            /\ b.executions = a.executions /\ b.retries = a.retries /\ b.source = a.source,
         Extracts(b, jr, m),
         b.status # "indexing" \/ ~b.source => Downloads(b, jr, m)
  PROVE  Lands(a, b, jr, m)
<1>1. a.claims \in Nat /\ a.job \in Nat /\ a.retries \in Nat /\ b.claims \in Nat
  BY Fields DEF Job
<1>2. /\ b.status \in Open
      /\ b.status \notin Staged \cup {"pending", "pending_cache", "pending_extract", "none"}
      /\ a.status \notin Closed \cup {"none"} /\ "indexing" \notin Unstaged
  BY Statuses DEF Open, Running, Staged, Unstaged
<1>3. Placed(b, jr)
  BY <1>2 DEF Placed
<1>4. Paid(b, jr, m)
  BY <1>2, <1>3, OpenBound DEF Paid
<1>5. a.claims <= b.claims
  BY <1>1
<1>6. RowGoes(a, b, jr.status)
  BY <1>1, <1>2, <1>5 DEF RowGoes
<1> QED BY <1>3, <1>4, <1>6 DEF Lands

-----------------------------------------------------------------------------
(***************************************************************************)
(* Ordinary steps: nobody claims a file.                                   *)
(***************************************************************************)
Ordinary == Moves /\ Goes /\ NotesGo /\ queue' \subseteq Mail

LEMMA OrdinaryKeeps == ASSUME IInv, Ordinary PROVE Sound
<1>1. WorkersInv' /\ worker' \in [Worker -> WorkerState]
  BY WorkersKeep DEF Ordinary
<1>2. TypeOK'
  BY <1>1 DEF Ordinary, Moves, NotesGo, TypeOK, Mail
<1>3. JobInv' /\ RowsInv'
  BY DEF Ordinary, Moves
<1> QED BY <1>1, <1>2, <1>3 DEF Sound, IInv, Ordinary

LEMMA SameNotes == ASSUME IInv, UNCHANGED notes PROVE NotesGo
BY DEF IInv, TypeOK, NotesGo

LEMMA SameWorkers == ASSUME IInv, UNCHANGED worker PROVE Goes
<1>1. worker' \in [Worker -> WorkerState]
  BY DEF IInv, TypeOK
<1>2. \A w \in Worker : WorkerGoes(worker[w], worker'[w])
  BY DEF WorkerGoes
<1> QED BY <1>1, <1>2 DEF Goes

\* One worker goes on.
LEMMA WorkerStep ==
  ASSUME IInv, NEW w \in Worker, NEW y \in WorkerState, worker' = [worker EXCEPT ![w] = y],
         WorkerGoes(worker[w], y)
  PROVE  Goes
<1>1. worker \in [Worker -> WorkerState]
  BY DEF IInv, TypeOK
<1>2. worker' \in [Worker -> WorkerState] /\ worker'[w] = y /\ \A v \in Worker : v # w => worker'[v] = worker[v]
  BY <1>1
<1>3. \A v \in Worker : WorkerGoes(worker[v], worker[v])
  BY DEF WorkerGoes
<1>4. \A v \in Worker : WorkerGoes(worker[v], worker'[v])
  BY <1>2, <1>3
<1> QED BY <1>2, <1>4 DEF Goes

LEMMA RestGoes == ASSUME IInv, NEW w \in Worker, Rest(w) PROVE Goes
<1>1. Idle \in WorkerState /\ WorkerGoes(worker[w], Idle)
  BY DEF Idle, WorkerState, WorkerGoes
<1> QED BY <1>1, WorkerStep DEF Rest

LEMMA GotoGoes ==
  ASSUME IInv, NEW w \in Worker, NEW pc \in CheckPc \cup FilePc \cup ExtractPc, worker[w].pc # "idle",
         Goto(w, pc),
         \/ worker[w].pc \in FilePc /\ pc \in FilePc
         \/ worker[w].pc \in ExtractPc /\ pc \in ExtractPc
         \/ pc \in {"checking", "countedEarly"}
         \/ pc = "counted" /\ job[worker[w].job].status = "processing" /\ Done(worker[w].job)
  PROVE  Goes
<1> DEFINE y == [worker[w] EXCEPT !.pc = pc]
<1>1. worker[w] \in WorkerState
  BY DEF IInv, TypeOK
<1>2. y \in WorkerState /\ y.pc = pc /\ y.job = worker[w].job /\ y.file = worker[w].file /\ y.token = worker[w].token
  BY <1>1 DEF WorkerState
<1>3. worker' = [worker EXCEPT ![w] = y]
  BY DEF Goto
<1> HIDE DEF y
<1>4. WorkerGoes(worker[w], y)
  BY <1>2 DEF WorkerGoes
<1> QED BY <1>2, <1>3, <1>4, WorkerStep

\* The messages are what they should be.
LEMMA Messages ==
  /\ \A j \in Job : DiscoverMessage(j) \in Mail
  /\ \A f \in File : /\ file[f].job \in Job => FileMessage(f) \in Mail /\ ExtractMessage(f) \in Mail
                     /\ \A seq \in Nat : file[f].job \in Job => RetryMessage(f, seq) \in Mail
BY DEF DiscoverMessage, FileMessage, ExtractMessage, RetryMessage, Message, Mail

LEMMA PublishQueues ==
  ASSUME IInv, NEW message \in Mail, Publish(message)
  PROVE  queue' \subseteq Mail /\ (Fault \/ UNCHANGED faults)
BY DEF IInv, TypeOK, Publish

\* A row lands.
LEMMA LandsStep ==
  ASSUME IInv, NEW f \in File, NEW b \in FileRow, SetFile(f, b), UNCHANGED job, Fault \/ UNCHANGED faults,
         b.job = file[f].job, Lands(file[f], b, job[file[f].job], faults')
  PROVE  Moves
<1>1. faults' \in 0..MaxFaults /\ faults <= faults'
  BY FaultGoes DEF IInv
<1> QED BY <1>1, RowStep DEF Lands, SetFile

\* Who owns a file knows what it may spend.
LEMMA Owner ==
  ASSUME IInv, NEW w \in Worker, worker[w].pc \in HasFile, Holds(worker[w], Row(w))
  PROVE  /\ worker[w].file \in File /\ Row(w) \in FileRow /\ Row(w).status \in Open /\ Row(w).status \in Running
         /\ Row(w).job \in Job /\ job[Row(w).job] \in JobRow /\ worker[w].token = Row(w).claims
         /\ Placed(Row(w), job[Row(w).job]) /\ Paid(Row(w), job[Row(w).job], faults)
         /\ worker[w].pc \in FilePc => Downloads(Row(w), job[Row(w).job], faults) /\ Row(w).executions >= 1
         /\ worker[w].pc \in ExtractPc => Extracts(Row(w), job[Row(w).job], faults) /\ Row(w).source
<1>1. WorkerInv(w) /\ "idle" \notin HasFile
  BY DEF IInv, WorkersInv, HasFile, FilePc, ExtractPc
<1>2. worker[w].file \in File /\ worker[w].job \in Job /\ Claimed(worker[w], Row(w))
  BY <1>1 DEF WorkerInv
<1>3. Spends(worker[w], Row(w), job[worker[w].job], faults)
  BY <1>1 DEF WorkerInv
<1>4. /\ Row(w).job = worker[w].job /\ Row(w).token = worker[w].token /\ Row(w).status \in Running
      /\ Row(w).status \in Open
  BY Statuses DEF Holds
<1>5. Row(w) \in FileRow /\ job[Row(w).job] \in JobRow
  BY <1>2, <1>4 DEF Row, IInv, TypeOK
<1>6. Placed(Row(w), job[Row(w).job]) /\ Paid(Row(w), job[Row(w).job], faults)
  BY <1>2 DEF IInv, RowsInv, Row
<1>7. worker[w].token = Row(w).claims
  BY <1>2, <1>4, <1>6 DEF Placed, Claimed
<1> QED BY <1>2, <1>3, <1>4, <1>5, <1>6, <1>7 DEF Spends

LEMMA OwnsHolds == ASSUME NEW w \in Worker, Owns(w) PROVE Holds(worker[w], Row(w))
BY DEF Owns, Holds, Row

\* What an owner publishes.
LEMMA PublishStep ==
  ASSUME IInv, NEW w \in Worker, NEW pcs \in SUBSET HasFile, NEW b \in FileRow,
         NEW pc \in CheckPc \cup FilePc \cup ExtractPc,
         Publishes(w, pcs, b, pc), Fault \/ UNCHANGED faults,
         b.job = Row(w).job, Lands(Row(w), b, job[Row(w).job], faults'),
         \/ worker[w].pc \in FilePc /\ pc \in FilePc
         \/ worker[w].pc \in ExtractPc /\ pc \in ExtractPc
         \/ pc = "checking"
  PROVE  Moves /\ Goes
<1>1. worker[w].pc \in HasFile /\ Holds(worker[w], Row(w)) /\ worker[w].pc # "idle"
  BY OwnsHolds DEF Publishes, HasFile, FilePc, ExtractPc
<1>2. worker[w].file \in File
  BY <1>1, Owner
<1>3. Moves
  BY <1>2, LandsStep DEF Publishes, Row
<1>4. Goes
  BY <1>1, GotoGoes DEF Publishes
<1> QED BY <1>3, <1>4

-----------------------------------------------------------------------------
(***************************************************************************)
(* The workers of a file.                                                  *)
(***************************************************************************)
LEMMA PcSets ==
  /\ {"fetching"} \in SUBSET HasFile /\ {"storing"} \in SUBSET HasFile /\ {"extracting"} \in SUBSET HasFile
  /\ {"fetching", "storing"} \in SUBSET HasFile /\ {"reused", "indexed"} \in SUBSET HasFile
  /\ FilePc \in SUBSET HasFile /\ ExtractPc \in SUBSET HasFile
  /\ {"fetching", "storing", "reused"} \subseteq FilePc /\ {"extracting", "indexed"} \subseteq ExtractPc
  /\ "checking" \in CheckPc
BY DEF HasFile, FilePc, ExtractPc, CheckPc

LEMMA AtRow ==
  ASSUME NEW w \in Worker, Row(w) \in FileRow, NEW status \in Open \cup Closed
  PROVE  /\ At(w, status) \in FileRow /\ At(w, status).status = status
         /\ At(w, status).job = Row(w).job /\ At(w, status).token = Row(w).token
         /\ At(w, status).claims = Row(w).claims /\ At(w, status).executions = Row(w).executions
         /\ At(w, status).retries = Row(w).retries /\ At(w, status).source = Row(w).source
<1> DEFINE a == Row(w)
<1>1. a \in FileRow
  OBVIOUS
<1> HIDE DEF a
<1>2. [a EXCEPT !.status = status] \in FileRow
  BY <1>1 DEF FileRow
<1>3. /\ [a EXCEPT !.status = status].status = status /\ [a EXCEPT !.status = status].job = a.job
      /\ [a EXCEPT !.status = status].token = a.token /\ [a EXCEPT !.status = status].claims = a.claims
      /\ [a EXCEPT !.status = status].executions = a.executions
      /\ [a EXCEPT !.status = status].retries = a.retries /\ [a EXCEPT !.status = status].source = a.source
  BY <1>1 DEF FileRow
<1> QED BY <1>2, <1>3 DEF a, At

LEMMA ReleaseRow ==
  ASSUME NEW a \in FileRow, NEW status \in Open \cup Closed
  PROVE  /\ Release(a, status) \in FileRow /\ Release(a, status).status = status
         /\ Release(a, status).job = a.job /\ Release(a, status).token = 0
         /\ Release(a, status).claims = a.claims /\ Release(a, status).executions = a.executions
         /\ Release(a, status).retries = a.retries /\ Release(a, status).source = a.source
         /\ Release(a, status).seq = a.seq
BY DEF FileRow, Release

\* An owner closes its row.
LEMMA PublishCloses ==
  ASSUME IInv, NEW w \in Worker, NEW pcs \in SUBSET HasFile, NEW b \in FileRow,
         Publishes(w, pcs, b, "checking"), Fault \/ UNCHANGED faults, b.status \in Closed,
         b.job = Row(w).job, b.claims = Row(w).claims, b.token \in {0, Row(w).token}
  PROVE  Moves /\ Goes
<1>1. worker[w].pc \in HasFile /\ Holds(worker[w], Row(w))
  BY OwnsHolds DEF Publishes
<1>2. /\ Row(w) \in FileRow /\ Row(w).status \in Open /\ job[Row(w).job] \in JobRow
      /\ Placed(Row(w), job[Row(w).job]) /\ Paid(Row(w), job[Row(w).job], faults)
  BY <1>1, Owner
<1>3. faults \in Nat /\ faults' \in Nat /\ faults <= faults'
  BY FaultGoes DEF IInv
<1>4. Lands(Row(w), b, job[Row(w).job], faults')
  BY <1>2, <1>3, Closes
<1> QED BY <1>4, PublishStep, PcSets

LEMMA ClosingSteps ==
  ASSUME IInv, NEW w \in Worker, Forbid(w) \/ Complete(w) \/ LoseSource(w)
  PROVE  Ordinary
<1>1. /\ worker[w].pc \in HasFile /\ Owns(w)
      /\ Fault \/ UNCHANGED faults
      /\ UNCHANGED notes /\ queue' \subseteq Mail
  BY PcSets DEF Forbid, Complete, LoseSource, Publishes, IInv, TypeOK
<1>2. Row(w) \in FileRow
  BY <1>1, OwnsHolds, Owner
<1>3. {"forbidden", "complete", "error"} \subseteq Closed
  BY DEF Closed
<1>4. CASE Forbid(w)
  BY <1>1, <1>2, <1>3, <1>4, AtRow, PcSets, PublishCloses, SameNotes DEF Forbid, Ordinary
<1>5. CASE Complete(w)
  BY <1>1, <1>2, <1>3, <1>5, AtRow, PcSets, PublishCloses, SameNotes DEF Complete, Ordinary
<1>6. CASE LoseSource(w)
  BY <1>1, <1>2, <1>3, <1>6, ReleaseRow, PcSets, PublishCloses, SameNotes DEF LoseSource, Ordinary
<1> QED BY <1>4, <1>5, <1>6

\* An owner goes on with its row: it stores what it fetched, or takes notes over.
LEMMA RunningSteps ==
  ASSUME IInv, NEW w \in Worker, NEW b \in FileRow, NEW status \in {"processing", "indexing"},
         NEW pcs \in SUBSET FilePc, NEW pc \in FilePc,
         Publishes(w, pcs, b, pc), b = At(w, status), UNCHANGED faults
  PROVE  Moves /\ Goes
<1> DEFINE a == Row(w)
           jr == job[Row(w).job]
<1>1. worker[w].pc \in FilePc /\ worker[w].pc \in HasFile /\ Holds(worker[w], a) /\ jr.status # "queued"
  BY OwnsHolds DEF Publishes, HasFile, Owns, Working, Row
<1>2. /\ a \in FileRow /\ a.status \in Open /\ a.status \in Running /\ jr \in JobRow
      /\ Placed(a, jr) /\ Downloads(a, jr, faults)
  BY <1>1, Owner
<1>3. status \in Running /\ status \in Open
  BY DEF Open, Running
<1>4. /\ b.status = status /\ b.job = a.job /\ b.token = a.token /\ b.claims = a.claims
      /\ b.executions = a.executions /\ b.retries = a.retries /\ b.source = a.source
  BY <1>2, <1>3, AtRow
<1>5. faults \in Nat /\ faults' = faults
  BY CanvasAssumption DEF IInv, TypeOK
<1>6. Downloads(b, jr, faults) /\ Extracts(b, jr, faults)
  BY <1>2, <1>4, <1>5, DownloadsExtract DEF Downloads
<1>7. b.retries <= MaxRetries /\ b.token \in {0, b.claims}
  BY <1>2, <1>4 DEF Placed
<1>8. Lands(a, b, jr, faults')
  BY <1>1, <1>2, <1>3, <1>4, <1>5, <1>6, <1>7, Runs
<1> QED BY <1>1, <1>4, <1>5, <1>8, PublishStep, PcSets

\* The notes name the claim of the row, and its run is working.
LEMMA NotesStep ==
  ASSUME IInv, NEW w \in Worker, worker[w].pc \in HasFile, Owns(w), WriteNotes(w)
  PROVE  NotesGo
<1>1. /\ worker[w].file \in File /\ Row(w).job = worker[w].job /\ worker[w].token = Row(w).claims
      /\ Row(w) \in FileRow /\ Working(worker[w].job)
  BY OwnsHolds, Owner DEF Owns, Row
<1>2. [job |-> worker[w].job, token |-> worker[w].token] \in Claim
  BY <1>1, Fields DEF Claim
<1>3. notes \in [File -> Claim]
  BY DEF IInv, TypeOK
<1> QED BY <1>1, <1>2, <1>3 DEF WriteNotes, NotesGo, Row

LEMMA StoreSteps ==
  ASSUME IInv, NEW w \in Worker, Store(w) \/ Reuse(w)
  PROVE  Ordinary
<1>1. worker[w].pc \in HasFile /\ Owns(w) /\ queue' \subseteq Mail /\ UNCHANGED faults
  BY PcSets DEF Store, Reuse, Publishes, IInv, TypeOK
<1>2. Row(w) \in FileRow
  BY <1>1, OwnsHolds, Owner
<1>3. {"processing", "indexing"} \subseteq Open
  BY DEF Open, Running
<1>4. CASE Store(w)
  BY <1>1, <1>2, <1>3, <1>4, AtRow, PcSets, RunningSteps, SameNotes DEF Store, Ordinary
<1>5. CASE Reuse(w)
  BY <1>1, <1>2, <1>3, <1>5, AtRow, PcSets, RunningSteps, NotesStep DEF Reuse, Ordinary
<1> QED BY <1>4, <1>5

LEMMA IndexStep ==
  ASSUME IInv, NEW w \in Worker, Index(w)
  PROVE  Ordinary
<1>1. /\ worker[w].pc \in HasFile /\ worker[w].pc \in ExtractPc /\ Owns(w) /\ queue' \subseteq Mail
      /\ UNCHANGED faults /\ Publishes(w, {"extracting"}, Row(w), "indexed") /\ WriteNotes(w)
  BY PcSets DEF Index, Publishes, IInv, TypeOK
<1>2. /\ Row(w) \in FileRow /\ Placed(Row(w), job[Row(w).job]) /\ Paid(Row(w), job[Row(w).job], faults)
  BY <1>1, OwnsHolds, Owner
<1>3. Lands(Row(w), Row(w), job[Row(w).job], faults')
  BY <1>1, <1>2, SameRow DEF Lands
<1>4. Moves /\ Goes
  BY <1>1, <1>2, <1>3, PublishStep, PcSets
<1> QED BY <1>1, <1>4, NotesStep DEF Ordinary

\* A download waits for a shared PDF, or its bytes are staged for the extraction.
LEMMA WaitStep == ASSUME IInv, NEW w \in Worker, WaitForCache(w) PROVE Ordinary
<1> DEFINE a == Row(w)
           jr == job[Row(w).job]
           r == Release(Row(w), "pending_cache")
           b == [r EXCEPT !.executions = @ - 1]
<1>1. /\ worker[w].pc \in FilePc /\ worker[w].pc \in HasFile /\ Holds(worker[w], a) /\ Fault
      /\ queue' \subseteq Mail /\ UNCHANGED notes /\ Publishes(w, {"storing"}, b, "checking")
  BY PcSets, OwnsHolds DEF WaitForCache, Publishes, IInv, TypeOK
<1>2. /\ a \in FileRow /\ a.status \in Open /\ jr \in JobRow /\ Placed(a, jr)
      /\ Downloads(a, jr, faults) /\ a.executions >= 1
  BY <1>1, Owner
<1>3. "pending_cache" \in Open
  BY DEF Open
<1>4. /\ r \in FileRow /\ r.status = "pending_cache" /\ r.job = a.job /\ r.token = 0 /\ r.claims = a.claims
      /\ r.executions = a.executions /\ r.retries = a.retries
  BY <1>2, <1>3, ReleaseRow
<1>5. a.executions \in Nat /\ a.claims \in Nat
  BY <1>2, Fields
<1> HIDE DEF r
<1>6. b \in FileRow
  BY <1>2, <1>4, <1>5 DEF FileRow
<1>7. /\ b.status = "pending_cache" /\ b.job = a.job /\ b.token = 0 /\ b.claims = a.claims
      /\ b.executions = a.executions - 1 /\ b.retries = a.retries
  BY <1>4 DEF FileRow
<1> HIDE DEF b
<1>8. faults \in Nat /\ faults' = faults + 1 /\ MaxExecutions \in Nat /\ Requeues(jr) \in Nat
  BY <1>1, <1>2, FaultGoes, Attempts, CanvasAssumption DEF Fault, IInv
<1>9. Downloads(b, jr, faults') /\ b.executions < MaxExecutions + Requeues(jr)
  BY <1>2, <1>5, <1>7, <1>8 DEF Downloads
<1>10. b.retries <= MaxRetries
  BY <1>2, <1>7 DEF Placed
<1>11. Lands(a, b, jr, faults')
  BY <1>2, <1>6, <1>7, <1>8, <1>9, <1>10, Pends
<1>12. Moves /\ Goes
  BY <1>1, <1>6, <1>7, <1>11, PublishStep, PcSets
<1> QED BY <1>1, <1>12, SameNotes DEF Ordinary

LEMMA StageStep == ASSUME IInv, NEW w \in Worker, Stage(w) PROVE Ordinary
<1> DEFINE a == Row(w)
           jr == job[Row(w).job]
           r == Release(Row(w), "pending_extract")
           b == [r EXCEPT !.source = TRUE]
<1>1. /\ worker[w].pc \in FilePc /\ worker[w].pc \in HasFile /\ Holds(worker[w], a)
      /\ UNCHANGED notes /\ Publishes(w, {"storing"}, b, "checking")
      /\ Publish(ExtractMessage(worker[w].file))
  BY PcSets, OwnsHolds DEF Stage, Publishes
<1>2. /\ a \in FileRow /\ a.status \in Open /\ jr \in JobRow /\ Placed(a, jr)
      /\ Downloads(a, jr, faults) /\ worker[w].file \in File /\ a.job \in Job
  BY <1>1, Owner
<1>3. queue' \subseteq Mail /\ (Fault \/ UNCHANGED faults)
  BY <1>1, <1>2, Messages, PublishQueues DEF Row
<1>4. "pending_extract" \in Open /\ "pending_extract" \in Staged
  BY DEF Open, Staged
<1>5. /\ r \in FileRow /\ r.status = "pending_extract" /\ r.job = a.job /\ r.token = 0 /\ r.claims = a.claims
      /\ r.executions = a.executions /\ r.retries = a.retries
  BY <1>2, <1>4, ReleaseRow
<1> HIDE DEF r
<1>6. b \in FileRow
  BY <1>5 DEF FileRow
<1>7. /\ b.status = "pending_extract" /\ b.job = a.job /\ b.token = 0 /\ b.claims = a.claims
      /\ b.executions = a.executions /\ b.retries = a.retries /\ b.source
  BY <1>5 DEF FileRow
<1> HIDE DEF b
<1>8. faults \in Nat /\ faults' \in Nat /\ faults <= faults'
  BY <1>3, FaultGoes DEF IInv
<1>9. a.executions \in Nat /\ a.claims \in Nat /\ MaxExecutions \in Nat /\ Requeues(jr) \in Nat
  BY <1>2, Fields, Attempts, CanvasAssumption
<1>10. Downloads(b, jr, faults')
  BY <1>2, <1>7, <1>8, <1>9 DEF Downloads
<1>11. b.retries <= MaxRetries
  BY <1>2, <1>7 DEF Placed
<1>12. Lands(a, b, jr, faults')
  BY <1>2, <1>4, <1>6, <1>7, <1>8, <1>10, <1>11, DownloadsExtract, Stages
<1>13. Moves /\ Goes
  BY <1>1, <1>3, <1>6, <1>7, <1>12, PublishStep, PcSets
<1> QED BY <1>1, <1>3, <1>13, SameNotes DEF Ordinary

\* An extraction goes on at Marker, or waits for its retry.
LEMMA MarkerStep == ASSUME IInv, NEW w \in Worker, SendToMarker(w) PROVE Ordinary
<1> DEFINE a == Row(w)
           jr == job[Row(w).job]
           b == At(w, "pending_marker")
<1>1. /\ worker[w].pc \in ExtractPc /\ worker[w].pc \in HasFile /\ Holds(worker[w], a)
      /\ UNCHANGED <<notes, faults>> /\ Publishes(w, {"extracting"}, b, "checking")
      /\ queue' \subseteq Mail
  BY PcSets, OwnsHolds DEF SendToMarker, Publishes, IInv, TypeOK
<1>2. /\ a \in FileRow /\ a.status \in Open /\ jr \in JobRow /\ Placed(a, jr)
      /\ Extracts(a, jr, faults) /\ a.source
  BY <1>1, Owner
<1>3. "pending_marker" \in Open /\ "pending_marker" \in Staged
  BY DEF Open, Staged
<1>4. /\ b \in FileRow /\ b.status = "pending_marker" /\ b.job = a.job /\ b.token = a.token
      /\ b.claims = a.claims /\ b.executions = a.executions /\ b.retries = a.retries /\ b.source = a.source
  BY <1>2, <1>3, AtRow
<1> HIDE DEF b
<1>5. faults \in Nat /\ faults' = faults
  BY <1>1, CanvasAssumption DEF IInv, TypeOK
<1>6. Extracts(b, jr, faults') /\ b.retries <= MaxRetries
  BY <1>2, <1>4, <1>5 DEF Extracts, Placed
<1>7. Lands(a, b, jr, faults')
  BY <1>2, <1>3, <1>4, <1>5, <1>6, Stages
<1>8. Moves /\ Goes
  BY <1>1, <1>4, <1>7, PublishStep, PcSets
<1> QED BY <1>1, <1>8, SameNotes DEF Ordinary

LEMMA FailExtractStep == ASSUME IInv, NEW w \in Worker, FailExtract(w) PROVE Ordinary
<1> DEFINE a == Row(w)
           jr == job[Row(w).job]
           s == IF a.retries < MaxRetries THEN "pending_retry" ELSE "error"
           due == a.retries >= MaxRetries
           b == [Release(a, s) EXCEPT !.seq = @ + 1, !.due = due]
<1>1. /\ worker[w].pc \in ExtractPc /\ worker[w].pc \in HasFile /\ Holds(worker[w], a)
      /\ UNCHANGED notes /\ Publishes(w, ExtractPc, b, "checking")
      /\ IF a.retries < MaxRetries THEN Publish(RetryMessage(worker[w].file, a.seq + 1))
                                   ELSE UNCHANGED <<queue, faults>>
  BY PcSets, OwnsHolds DEF FailExtract, Publishes
<1>2. /\ a \in FileRow /\ a.status \in Open /\ jr \in JobRow /\ Placed(a, jr) /\ Paid(a, jr, faults)
      /\ Extracts(a, jr, faults) /\ a.source /\ worker[w].file \in File /\ a.job \in Job
  BY <1>1, Owner
<1>3. a.seq + 1 \in Nat /\ a.retries \in 0..MaxRetries + 1 /\ due \in BOOLEAN /\ MaxRetries \in Nat
  BY <1>2, Fields, CanvasAssumption
<1>4. queue' \subseteq Mail /\ (Fault \/ UNCHANGED faults)
  <2>1. RetryMessage(worker[w].file, a.seq + 1) \in Mail
    BY <1>2, <1>3, Messages DEF Row
  <2> QED BY <1>1, <2>1, PublishQueues DEF IInv, TypeOK
<1>5. /\ "pending_retry" \in Open /\ "pending_retry" \in Staged /\ "error" \in Closed
      /\ "pending_retry" # "pending_extract"
  BY DEF Open, Staged, Closed
<1>6. /\ b \in FileRow /\ b.status = s /\ b.job = a.job /\ b.token = 0 /\ b.claims = a.claims
      /\ b.executions = a.executions /\ b.retries = a.retries /\ b.source = a.source
  <2> DEFINE r == Release(a, s)
  <2>1. s \in Open \cup Closed
    BY <1>5
  <2> HIDE DEF s, due
  <2>2. /\ r \in FileRow /\ r.status = s /\ r.job = a.job /\ r.token = 0 /\ r.claims = a.claims
        /\ r.executions = a.executions /\ r.retries = a.retries /\ r.source = a.source /\ r.seq = a.seq
    BY <1>2, <2>1, ReleaseRow
  <2>3. b = [r EXCEPT !.seq = @ + 1, !.due = due]
    OBVIOUS
  <2> HIDE DEF r, b
  <2>4. b \in FileRow
    BY <1>3, <2>2, <2>3 DEF FileRow
  <2>5. /\ b.status = r.status /\ b.job = r.job /\ b.token = r.token /\ b.claims = r.claims
        /\ b.executions = r.executions /\ b.retries = r.retries /\ b.source = r.source
    BY <2>2, <2>3 DEF FileRow
  <2> QED BY <2>2, <2>4, <2>5
<1> HIDE DEF b
<1>7. faults \in Nat /\ faults' \in Nat /\ faults <= faults'
  BY <1>4, FaultGoes DEF IInv
<1>8. Lands(a, b, jr, faults')
  <2>1. CASE a.retries < MaxRetries
    <3>1. a.claims \in Nat /\ MaxExecutions \in Nat /\ Requeues(jr) \in Nat /\ a.retries \in Nat
      BY <1>2, Fields, Attempts, CanvasAssumption
    <3>2. Extracts(b, jr, faults') /\ b.retries <= MaxRetries
      BY <1>2, <1>3, <1>6, <1>7, <2>1, <3>1 DEF Extracts
    <3> QED BY <1>2, <1>5, <1>6, <1>7, <2>1, <3>2, Stages
  <2>2. CASE ~(a.retries < MaxRetries)
    BY <1>2, <1>5, <1>6, <1>7, <2>2, Closes
  <2> QED BY <2>1, <2>2
<1>9. Moves /\ Goes
  BY <1>1, <1>4, <1>6, <1>8, PublishStep, PcSets
<1> QED BY <1>1, <1>4, <1>9, SameNotes DEF Ordinary

\* A download fails: it waits for another execution, or its row is closed, or it was not
\* the worker's any more.
LEMMA FailFileStep == ASSUME IInv, NEW w \in Worker, FailFile(w) PROVE Ordinary
<1> DEFINE a == Row(w)
           jr == job[Row(w).job]
           f == worker[w].file
<1>1. /\ worker[w].pc \in FilePc /\ worker[w].pc \in HasFile /\ worker[w].pc # "idle"
      /\ UNCHANGED <<job, notes, faults>> /\ queue' \subseteq Mail
  BY PcSets DEF FailFile, IInv, TypeOK, HasFile, FilePc
<1>2. PICK again \in BOOLEAN :
        /\ again => a.executions < MaxExecutions
        /\ IF Holds(worker[w], a)
             THEN SetFile(f, [Release(a, IF again THEN "pending" ELSE "error") EXCEPT !.due = ~again])
             ELSE UNCHANGED file
        /\ IF again THEN Rest(w) ELSE Goto(w, "checking")
  BY DEF FailFile, Holds
<1>3. Goes
  BY <1>1, <1>2, RestGoes, GotoGoes, PcSets
<1>4. faults \in Nat /\ faults' = faults /\ faults' \in 0..MaxFaults
  BY <1>1, CanvasAssumption DEF IInv, TypeOK
<1>5. CASE ~Holds(worker[w], a)
  BY <1>1, <1>2, <1>3, <1>4, <1>5, Still, SameNotes DEF Ordinary
<1>6. CASE Holds(worker[w], a)
  <2> DEFINE s == IF again THEN "pending" ELSE "error"
             r == Release(a, s)
             b == [r EXCEPT !.due = ~again]
  <2>1. /\ a \in FileRow /\ a.status \in Open /\ jr \in JobRow /\ Placed(a, jr) /\ Paid(a, jr, faults)
        /\ Downloads(a, jr, faults) /\ f \in File
    BY <1>1, <1>6, Owner
  <2>2. "pending" \in Open /\ "error" \in Closed
    BY DEF Open, Closed
  <2>3. /\ r \in FileRow /\ r.status = s /\ r.job = a.job /\ r.token = 0 /\ r.claims = a.claims
        /\ r.executions = a.executions /\ r.retries = a.retries
    BY <2>1, <2>2, ReleaseRow
  <2>4. SetFile(f, b)
    BY <1>2, <1>6
  <2> HIDE DEF r
  <2>5. b \in FileRow
    BY <2>3 DEF FileRow
  <2>6. /\ b.status = s /\ b.job = a.job /\ b.token = 0 /\ b.claims = a.claims
        /\ b.executions = a.executions /\ b.retries = a.retries
    BY <2>3 DEF FileRow
  <2> HIDE DEF b
  <2>7. Lands(a, b, jr, faults')
    <3>1. CASE again
      <4>1. a.executions \in Nat /\ MaxExecutions \in Nat /\ Requeues(jr) \in Nat
        BY <2>1, Fields, Attempts, CanvasAssumption
      <4>2. b.executions < MaxExecutions + Requeues(jr)
        BY <1>2, <2>6, <3>1, <4>1
      <4>3. Downloads(b, jr, faults') /\ b.retries <= MaxRetries
        BY <1>4, <2>1, <2>6 DEF Downloads, Placed
      <4> QED BY <1>4, <2>1, <2>5, <2>6, <3>1, <4>2, <4>3, Pends
    <3>2. CASE ~again
      BY <1>4, <2>1, <2>2, <2>5, <2>6, <3>2, Closes
    <3> QED BY <3>1, <3>2
  <2>8. Moves
    BY <1>1, <2>1, <2>4, <2>5, <2>6, <2>7, LandsStep DEF Row
  <2> QED BY <1>1, <1>3, <2>8, SameNotes DEF Ordinary
<1> QED BY <1>5, <1>6

\* Steps of a worker that change no row.
LEMMA WorkerOnly ==
  ASSUME IInv, Goes, UNCHANGED <<job, file, notes, queue, faults>>
  PROVE  Ordinary
<1>1. queue' \subseteq Mail /\ faults' \in 0..MaxFaults /\ faults <= faults'
  BY CanvasAssumption DEF IInv, TypeOK
<1> QED BY <1>1, Still, SameNotes DEF Ordinary

LEMMA LookSteps ==
  ASSUME IInv, NEW w \in Worker, LoseClaim(w) \/ Count(w) \/ Die(w)
  PROVE  Ordinary
<1>1. UNCHANGED <<job, file, notes, queue, faults>>
  BY DEF LoseClaim, Count, Die
<1>2. /\ "idle" \notin FilePc \cup ExtractPc \cup DiscoverPc
      /\ {"checking", "counted", "countedEarly"} \subseteq CheckPc
  BY DEF FilePc, ExtractPc, DiscoverPc, CheckPc
<1>3. ASSUME LoseClaim(w) PROVE Goes
  BY <1>2, <1>3, RestGoes, GotoGoes DEF LoseClaim
<1>4. ASSUME Count(w) PROVE Goes
  <2>1. worker[w].pc = "checking" /\ (Rest(w) \/ (\E pc \in {"counted", "countedEarly"} : Goto(w, pc)))
    BY <1>4 DEF Count
  <2>2. CASE Rest(w)
    BY <2>2, RestGoes
  <2>3. CASE ~Rest(w)
    <3>1. /\ Done(worker[w].job)
          /\ Goto(w, IF job[worker[w].job].status = "processing" THEN "counted" ELSE "countedEarly")
      BY <1>4, <2>3 DEF Count
    <3>2. CASE job[worker[w].job].status = "processing"
      BY <1>2, <2>1, <3>1, <3>2, GotoGoes
    <3>3. CASE job[worker[w].job].status # "processing"
      BY <1>2, <2>1, <3>1, <3>3, GotoGoes
    <3> QED BY <3>2, <3>3
  <2> QED BY <2>2, <2>3
<1>5. ASSUME Die(w) PROVE Goes
  BY <1>5, RestGoes DEF Die
<1>6. Goes
  BY <1>3, <1>4, <1>5
<1> QED BY <1>1, <1>6, WorkerOnly

-----------------------------------------------------------------------------
(***************************************************************************)
(* The sweeps, Marker and time.                                            *)
(***************************************************************************)
LEMMA OpenRow ==
  ASSUME IInv, NEW f \in File, file[f].status \in Open
  PROVE  /\ file[f] \in FileRow /\ file[f].job \in Job /\ job[file[f].job] \in JobRow
         /\ Placed(file[f], job[file[f].job]) /\ Paid(file[f], job[file[f].job], faults)
<1>1. file[f] \in FileRow /\ Placed(file[f], job[file[f].job]) /\ Paid(file[f], job[file[f].job], faults)
  BY DEF IInv, TypeOK, RowsInv
<1>2. file[f].job \in Job
  BY <1>1, Fields, Statuses DEF Placed
<1> QED BY <1>1, <1>2 DEF IInv, TypeOK

LEMMA RowOnly ==
  ASSUME IInv, NEW f \in File, NEW b \in FileRow, SetFile(f, b), UNCHANGED <<job, notes, worker>>,
         Fault \/ UNCHANGED faults, queue' \subseteq Mail,
         b.job = file[f].job, Lands(file[f], b, job[file[f].job], faults')
  PROVE  Ordinary
BY LandsStep, SameNotes, SameWorkers DEF Ordinary

LEMMA SendSteps ==
  ASSUME IInv,
         \/ \E j \in Job : Republish(j)
         \/ \E f \in File : Dispatch(f) \/ RepublishExtract(f) \/ RepublishRetry(f)
  PROVE  Ordinary
<1>1. \E message \in Mail : Publish(message)
  <2>1. ASSUME NEW f \in File, Dispatch(f) \/ RepublishExtract(f) \/ RepublishRetry(f)
        PROVE  \E message \in Mail : Publish(message)
    <3>1. file[f].status \in Open /\ file[f].seq \in Nat
      BY <2>1, Fields DEF Dispatch, RepublishExtract, RepublishRetry, Open, IInv, TypeOK
    <3> QED BY <2>1, <3>1, OpenRow, Messages DEF Dispatch, RepublishExtract, RepublishRetry
  <2> QED BY <2>1, Messages DEF Republish
<1>2. UNCHANGED <<job, file, notes, worker>>
  BY DEF Republish, Dispatch, RepublishExtract, RepublishRetry
<1>3. queue' \subseteq Mail /\ (Fault \/ UNCHANGED faults)
  BY <1>1, PublishQueues
<1>4. faults' \in 0..MaxFaults /\ faults <= faults'
  BY <1>3, FaultGoes DEF IInv
<1> QED BY <1>2, <1>3, <1>4, Still, SameNotes, SameWorkers DEF Ordinary

LEMMA WaitingStep == ASSUME IInv, NEW f \in File, ReleaseWaiting(f) PROVE Ordinary
<1> DEFINE a == file[f]
           jr == job[file[f].job]
           b == [a EXCEPT !.status = "pending", !.due = TRUE]
<1>1. /\ a.status = "pending_cache" /\ SetFile(f, b) /\ UNCHANGED <<job, notes, queue, worker, faults>>
      /\ a.status \in Open /\ a.status \in Unstaged /\ "pending" \in Open
  BY DEF ReleaseWaiting, Open, Unstaged
<1>2. a \in FileRow /\ jr \in JobRow /\ Placed(a, jr) /\ Paid(a, jr, faults)
  BY <1>1, OpenRow
<1> HIDE DEF a
<1>3. b \in FileRow
  BY <1>1, <1>2 DEF FileRow
<1>4. /\ b.status = "pending" /\ b.job = a.job /\ b.token = a.token /\ b.claims = a.claims
      /\ b.executions = a.executions /\ b.retries = a.retries
  BY <1>2 DEF FileRow
<1> HIDE DEF b
<1>5. faults \in Nat /\ faults' = faults /\ queue' \subseteq Mail
  BY <1>1, CanvasAssumption DEF IInv, TypeOK
<1>6. Downloads(b, jr, faults') /\ b.executions < MaxExecutions + Requeues(jr) /\ b.retries <= MaxRetries
  BY <1>1, <1>2, <1>4, <1>5 DEF Downloads, Placed, Paid
<1>7. Lands(a, b, jr, faults')
  BY <1>1, <1>2, <1>3, <1>4, <1>5, <1>6, Pends
<1> QED BY <1>1, <1>3, <1>4, <1>5, <1>7, RowOnly DEF a

LEMMA ReclaimStep == ASSUME IInv, NEW f \in File, ReclaimExtract(f) PROVE Ordinary
<1> DEFINE a == file[f]
           jr == job[file[f].job]
           spent == a.retries + 1 >= MaxRetries
           s == IF spent THEN "error" ELSE "pending_extract"
           b == [Release(a, s) EXCEPT !.retries = @ + 1]
<1>1. /\ a.status = "indexing" /\ a.source /\ SetFile(f, b) /\ UNCHANGED <<job, notes, worker>>
      /\ IF spent THEN UNCHANGED <<queue, faults>> ELSE Publish(ExtractMessage(f))
      /\ a.status \in Open /\ "pending_extract" \in Open /\ "pending_extract" \in Staged /\ "error" \in Closed
  BY DEF ReclaimExtract, Open, Running, Staged, Closed
<1>2. /\ a \in FileRow /\ jr \in JobRow /\ Placed(a, jr) /\ Paid(a, jr, faults) /\ a.job \in Job
      /\ Extracts(a, jr, faults)
  BY <1>1, OpenRow DEF Paid
<1>3. queue' \subseteq Mail /\ (Fault \/ UNCHANGED faults)
  BY <1>1, <1>2, Messages, PublishQueues DEF IInv, TypeOK
<1>4. /\ a.retries \in Nat /\ a.retries <= MaxRetries /\ a.claims \in Nat /\ MaxExecutions \in Nat
      /\ MaxRetries \in Nat /\ Requeues(jr) \in Nat
  BY <1>1, <1>2, Fields, Attempts, CanvasAssumption DEF Placed
<1>5. /\ b \in FileRow /\ b.status = s /\ b.job = a.job /\ b.token = 0 /\ b.claims = a.claims
      /\ b.retries = a.retries + 1 /\ b.source = a.source
  <2> DEFINE r == Release(a, s)
  <2>1. s \in Open \cup Closed
    BY <1>1
  <2> HIDE DEF s, a
  <2>2. /\ r \in FileRow /\ r.status = s /\ r.job = a.job /\ r.token = 0 /\ r.claims = a.claims
        /\ r.retries = a.retries /\ r.source = a.source
    BY <1>2, <2>1, ReleaseRow
  <2>3. b = [r EXCEPT !.retries = r.retries + 1] /\ r.retries + 1 \in 0..MaxRetries + 1
    BY <1>4, <2>2
  <2> HIDE DEF r, b
  <2>4. b \in FileRow
    BY <2>2, <2>3 DEF FileRow
  <2>5. /\ b.status = r.status /\ b.job = r.job /\ b.token = r.token /\ b.claims = r.claims
        /\ b.retries = r.retries + 1 /\ b.source = r.source
    BY <2>2, <2>3 DEF FileRow
  <2> QED BY <2>2, <2>4, <2>5
<1> HIDE DEF b
<1>6. faults \in Nat /\ faults' \in Nat /\ faults <= faults'
  BY <1>3, FaultGoes DEF IInv
<1>7. Lands(a, b, jr, faults')
  <2>1. CASE spent
    BY <1>1, <1>2, <1>5, <1>6, <2>1, Closes
  <2>2. CASE ~spent
    <3>1. b.claims < MaxExecutions + Requeues(jr) + b.retries + 1 + faults' /\ b.retries <= MaxRetries
      BY <1>2, <1>4, <1>5, <1>6, <2>2 DEF Extracts
    <3>2. Extracts(b, jr, faults')
      BY <1>4, <1>5, <1>6, <3>1 DEF Extracts
    <3> QED BY <1>1, <1>2, <1>5, <1>6, <2>2, <3>1, <3>2, Stages
  <2> QED BY <2>1, <2>2
<1> QED BY <1>1, <1>3, <1>5, <1>7, RowOnly

\* What the recovery of an abandoned file makes of its row.
LEMMA RecoverFileStep == ASSUME IInv, NEW f \in File, RecoverFile(f) PROVE Ordinary
<1> DEFINE a == file[f]
           jr == job[file[f].job]
           live == Live(a.job)
           spends == live /\ a.status = "indexing"
           retries == IF spends THEN a.retries + 1 ELSE a.retries
           extracts == live /\ a.status \in {"indexing", "pending_retry"}
           s == IF jr.status = "cancelled" THEN "cancelled"
                ELSE IF extracts /\ retries >= MaxRetries THEN "error"
                ELSE IF extracts /\ a.source THEN IF a.retries = 0 /\ spends THEN "pending_extract" ELSE "pending_retry"
                ELSE IF live /\ a.executions < MaxExecutions THEN "pending" ELSE "error"
           b == [Release(a, s) EXCEPT !.seq = @ + 1, !.due = TRUE, !.retries = retries]
<1>1. Abandoned(f) /\ SetFile(f, b) /\ UNCHANGED <<job, notes, queue, worker, faults>>
  BY DEF RecoverFile
<1>2. a.status \in Open /\ (a.status \in Running \/ ~live \/ a.status = "pending_retry")
  BY <1>1 DEF Abandoned, Open, Live, JobLive, JobOver
<1>3. /\ a \in FileRow /\ jr \in JobRow /\ Placed(a, jr) /\ Paid(a, jr, faults) /\ a.job \in Job
      /\ Extracts(a, jr, faults)
  BY <1>2, OpenRow DEF Paid
<1>4. /\ a.retries \in Nat /\ a.retries <= MaxRetries /\ a.claims \in Nat /\ a.executions \in Nat
      /\ MaxExecutions \in Nat /\ MaxRetries \in Nat /\ Requeues(jr) \in Nat /\ a.seq + 1 \in Nat
  BY <1>2, <1>3, Fields, Attempts, CanvasAssumption DEF Placed
<1>5. retries \in Nat /\ retries \in 0..MaxRetries + 1 /\ a.retries <= retries
  BY <1>4
<1>6. /\ {"cancelled", "error"} \subseteq Closed /\ {"pending", "pending_extract", "pending_retry"} \subseteq Open
      /\ {"pending_extract", "pending_retry"} \subseteq Staged
  BY DEF Open, Closed, Staged
<1>7. s \in {"cancelled", "error", "pending", "pending_extract", "pending_retry"}
  OBVIOUS
<1>8. /\ b \in FileRow /\ b.status = s /\ b.job = a.job /\ b.token = 0 /\ b.claims = a.claims
      /\ b.executions = a.executions /\ b.retries = retries /\ b.source = a.source
  <2> DEFINE r == Release(a, s)
  <2>1. s \in Open \cup Closed
    BY <1>6, <1>7
  <2> HIDE DEF s, a, retries
  <2>2. /\ r \in FileRow /\ r.status = s /\ r.job = a.job /\ r.token = 0 /\ r.claims = a.claims
        /\ r.executions = a.executions /\ r.source = a.source /\ r.seq = a.seq
    BY <1>3, <2>1, ReleaseRow
  <2>3. b = [r EXCEPT !.seq = @ + 1, !.due = TRUE, !.retries = retries]
    OBVIOUS
  <2> HIDE DEF r, b
  <2>4. b \in FileRow
    BY <1>4, <1>5, <2>2, <2>3 DEF FileRow
  <2>5. /\ b.status = r.status /\ b.job = r.job /\ b.token = r.token /\ b.claims = r.claims
        /\ b.executions = r.executions /\ b.retries = retries /\ b.source = r.source
    BY <2>2, <2>3 DEF FileRow
  <2> QED BY <2>2, <2>4, <2>5
<1> HIDE DEF b
<1>9. faults \in Nat /\ faults' = faults /\ queue' \subseteq Mail
  BY <1>1, CanvasAssumption DEF IInv, TypeOK
<1>10. Lands(a, b, jr, faults')
  <2>1. CASE s \in {"cancelled", "error"}
    BY <1>2, <1>3, <1>6, <1>8, <1>9, <2>1, Closes
  <2>2. CASE s = "pending"
    <3>1. live /\ a.executions < MaxExecutions /\ ~(extracts /\ a.source) /\ ~(extracts /\ retries >= MaxRetries)
      BY <2>2
    <3>2. a.status # "pending_retry"
      BY <1>3, <3>1 DEF Placed, Staged
    <3>3. a.status \in Unstaged \/ (a.status = "indexing" /\ ~a.source)
      BY <1>2, <3>1, <3>2 DEF Running, Unstaged
    <3>4. Downloads(a, jr, faults)
      BY <1>3, <3>3 DEF Paid
    <3>5. b.retries <= MaxRetries
      BY <1>4, <1>5, <1>8, <3>1
    <3>6. Downloads(b, jr, faults') /\ b.executions < MaxExecutions + Requeues(jr)
      BY <1>4, <1>8, <1>9, <3>1, <3>4 DEF Downloads
    <3> HIDE DEF s
    <3> QED BY <1>2, <1>3, <1>8, <1>9, <2>2, <3>5, <3>6, Pends
  <2>3. CASE s \in {"pending_extract", "pending_retry"}
    <3>1. extracts /\ a.source /\ ~(retries >= MaxRetries)
      BY <2>3
    <3>2. s = "pending_extract" => retries = a.retries + 1
      BY <3>1
    <3>3. b.retries <= MaxRetries
      BY <1>4, <1>5, <1>8, <3>1
    <3> HIDE DEF s, retries
    <3>4. Extracts(b, jr, faults')
      BY <1>3, <1>4, <1>5, <1>8, <1>9 DEF Extracts
    <3>5. s = "pending_extract" => b.claims < MaxExecutions + Requeues(jr) + b.retries + 1 + faults'
      BY <1>3, <1>4, <1>5, <1>8, <1>9, <3>2 DEF Extracts
    <3> QED BY <1>2, <1>3, <1>6, <1>8, <1>9, <2>3, <3>1, <3>3, <3>4, <3>5, Stages
  <2> QED BY <1>7, <2>1, <2>2, <2>3
<1> QED BY <1>1, <1>8, <1>9, <1>10, RowOnly

LEMMA MarkerEndsStep == ASSUME IInv, NEW f \in File, MarkerEnds(f) PROVE Ordinary
<1> DEFINE a == file[f]
           jr == job[file[f].job]
<1>1. PICK s \in {"complete", "error"} :
        /\ a.status = "pending_marker" /\ SetFile(f, [a EXCEPT !.status = s])
        /\ UNCHANGED <<job, notes, queue, worker, faults>>
  BY DEF MarkerEnds
<1> DEFINE b == [a EXCEPT !.status = s]
<1>2. a.status \in Open /\ s \in Closed
  BY <1>1 DEF Open, Closed
<1>3. a \in FileRow /\ jr \in JobRow /\ Placed(a, jr) /\ Paid(a, jr, faults)
  BY <1>2, OpenRow
<1>4. b \in FileRow /\ b.status = s /\ b.job = a.job /\ b.token = a.token /\ b.claims = a.claims
  BY <1>2, <1>3 DEF FileRow
<1> HIDE DEF b
<1>5. faults \in Nat /\ faults' = faults /\ queue' \subseteq Mail
  BY <1>1, CanvasAssumption DEF IInv, TypeOK
<1>6. Lands(a, b, jr, faults')
  BY <1>2, <1>3, <1>4, <1>5, Closes
<1> QED BY <1>1, <1>4, <1>5, <1>6, RowOnly DEF b

\* A row that only comes due or late, or is published again.
LEMMA SameButTime ==
  ASSUME NEW a \in FileRow, NEW b \in FileRow, NEW jr \in JobRow, NEW n \in Nat, NEW m \in Nat, n <= m,
         Placed(a, jr), Paid(a, jr, n),
         b.status = a.status, b.job = a.job, b.token = a.token, b.claims = a.claims,
         b.executions = a.executions, b.retries = a.retries, b.source = a.source
  PROVE  Lands(a, b, jr, m)
<1>1. a.status \in Open => jr.status \notin {"failed", "cancelled"}
  BY DEF Placed
<1>2. a.status \in Running => jr.status # "queued"
  BY DEF Placed
<1>3. Placed(a, jr) /\ Paid(a, jr, m)
  BY <1>1, <1>2, SameJob, RowWaits
<1>4. Placed(b, jr) /\ Paid(b, jr, m)
  BY <1>3 DEF Placed, Paid, Downloads, Extracts
<1>5. RowGoes(a, b, jr.status)
  BY Fields DEF RowGoes, Job
<1> QED BY <1>4, <1>5 DEF Lands

LEMMA TimeSteps == ASSUME IInv, NEW f \in File, ComeDue(f) \/ Lapse(f) PROVE Ordinary
<1> DEFINE a == file[f]
           jr == job[file[f].job]
<1>1. PICK b \in {[a EXCEPT !.due = TRUE], [a EXCEPT !.late = TRUE]} :
        SetFile(f, b) /\ (Fault \/ UNCHANGED faults) /\ UNCHANGED <<job, notes, queue, worker>>
  BY DEF ComeDue, Lapse
<1>2. a.status \in Open
  BY DEF ComeDue, Lapse, Open
<1>3. a \in FileRow /\ jr \in JobRow /\ Placed(a, jr) /\ Paid(a, jr, faults)
  BY <1>2, OpenRow
<1>4. b \in FileRow
  BY <1>1, <1>3 DEF FileRow
<1>5. /\ b.status = a.status /\ b.job = a.job /\ b.token = a.token /\ b.claims = a.claims
      /\ b.executions = a.executions /\ b.retries = a.retries /\ b.source = a.source
  BY <1>1, <1>3 DEF FileRow
<1>6. faults \in Nat /\ faults' \in Nat /\ faults <= faults' /\ queue' \subseteq Mail
  BY <1>1, FaultGoes DEF IInv, TypeOK
<1>7. Lands(a, b, jr, faults')
  BY <1>3, <1>4, <1>5, <1>6, SameButTime
<1> QED BY <1>1, <1>4, <1>5, <1>6, <1>7, RowOnly

-----------------------------------------------------------------------------
(***************************************************************************)
(* A worker claims a file.                                                 *)
(***************************************************************************)
LEMMA ClaimStep ==
  ASSUME IInv, NEW w \in Worker, NEW f \in File, NEW b \in FileRow, NEW pc \in {"fetching", "extracting"},
         worker' = [worker EXCEPT ![w] =
           [pc |-> pc, job |-> file[f].job, file |-> f, token |-> file[f].claims + 1]],
         SetFile(f, b), UNCHANGED <<job, notes>>, Fault \/ UNCHANGED faults, queue' \subseteq Mail,
         file[f].status \in Open, Working(file[f].job), b.status \in Running, b.job = file[f].job,
         b.token = file[f].claims + 1, b.claims = file[f].claims + 1, b.retries <= MaxRetries,
         Extracts(b, job[file[f].job], faults'),
         b.status # "indexing" \/ ~b.source => Downloads(b, job[file[f].job], faults'),
         \/ pc = "fetching" /\ Downloads(b, job[file[f].job], faults') /\ b.executions >= 1
         \/ pc = "extracting" /\ b.source
  PROVE  Sound
<1> DEFINE a == file[f]
           jr == job[file[f].job]
           y == [pc |-> pc, job |-> file[f].job, file |-> f, token |-> file[f].claims + 1]
<1>1. a \in FileRow /\ a.job \in Job /\ jr \in JobRow /\ Placed(a, jr)
  BY OpenRow
<1>2. faults \in Nat /\ faults' \in Nat /\ faults <= faults'
  BY FaultGoes DEF IInv
<1>3. jr.status # "queued" /\ a.claims \in Nat /\ a.claims + 1 \in Nat
  BY <1>1, Fields DEF Working
<1>4. b.token \in {0, b.claims}
  OBVIOUS
<1>5. Lands(a, b, jr, faults')
  BY <1>1, <1>2, <1>3, <1>4, Runs
<1>6. Moves
  BY <1>5, LandsStep
<1>7. pc \in FilePc \cup ExtractPc /\ pc \in HasFile /\ pc # "idle" /\ pc # "counted"
  BY DEF FilePc, ExtractPc, HasFile
<1>8. y \in WorkerState /\ y.pc = pc /\ y.job = a.job /\ y.file = f /\ y.token = a.claims + 1
  BY <1>1, <1>3, <1>7 DEF WorkerState
<1>9. /\ worker' \in [Worker -> WorkerState] /\ worker'[w] = y
      /\ \A v \in Worker : v # w => worker'[v] = worker[v]
  BY <1>8 DEF IInv, TypeOK
<1>10. file'[f] = b /\ job' = job
  BY DEF SetFile, IInv, TypeOK
<1> HIDE DEF y
<1>11. \A v \in Worker : v # w => WorkerInv(v)'
  <2> SUFFICES ASSUME NEW v \in Worker, v # w PROVE WorkerInv(v)'
    OBVIOUS
  <2>1. WorkerGoes(worker[v], worker'[v])
    BY <1>9 DEF WorkerGoes
  <2> QED BY <1>6, <1>9, <2>1, WorkerKeeps
<1>12. WorkerInv(w)'
  <2>1. a.job \in Nat /\ a.claims + 1 >= 1
    BY <1>1, <1>3 DEF Job
  <2>2. Claimed(y, b)
    BY <1>3, <1>8, <2>1 DEF Claimed
  <2>3. Spends(y, b, jr, faults')
    BY <1>8 DEF Spends, FilePc, ExtractPc
  <2> QED BY <1>1, <1>7, <1>8, <1>9, <1>10, <2>2, <2>3 DEF WorkerInv, Row
<1>13. WorkersInv'
  BY <1>11, <1>12 DEF WorkersInv
<1>14. NotesGo
  BY SameNotes
<1>15. TypeOK'
  BY <1>6, <1>9, <1>14 DEF Moves, NotesGo, TypeOK, Mail
<1> QED BY <1>6, <1>13, <1>14, <1>15 DEF Sound, IInv, Moves

\* A message that finds nothing to claim.
LEMMA Skipped ==
  ASSUME IInv, NEW message, Consume(message)
  PROVE  /\ queue' \subseteq Mail /\ (Fault \/ UNCHANGED faults)
         /\ message \in Mail
         /\ UNCHANGED <<job, file, notes, worker>> => Ordinary
<1>1. queue' \subseteq Mail /\ (Fault \/ UNCHANGED faults) /\ message \in Mail
  BY DEF Consume, IInv
<1>2. faults' \in 0..MaxFaults /\ faults <= faults'
  BY <1>1, FaultGoes DEF IInv
<1> QED BY <1>1, <1>2, Still, SameNotes, SameWorkers DEF Ordinary

LEMMA ClaimContext ==
  ASSUME IInv, NEW f \in File, file[f].status \in Open, Fault \/ UNCHANGED faults
  PROVE  /\ file[f] \in FileRow /\ Placed(file[f], job[file[f].job]) /\ Paid(file[f], job[file[f].job], faults)
         /\ job[file[f].job] \in JobRow /\ Requeues(job[file[f].job]) \in Nat /\ file[f].retries <= MaxRetries
         /\ file[f].claims \in Nat /\ file[f].executions \in Nat /\ file[f].retries \in Nat
         /\ MaxExecutions \in Nat /\ MaxRetries \in Nat /\ faults \in Nat /\ faults' \in Nat /\ faults <= faults'
<1>1. /\ file[f] \in FileRow /\ Placed(file[f], job[file[f].job]) /\ Paid(file[f], job[file[f].job], faults)
      /\ job[file[f].job] \in JobRow
  BY OpenRow
<1>2. faults \in Nat /\ faults' \in Nat /\ faults <= faults'
  BY FaultGoes DEF IInv
<1>3. file[f].retries <= MaxRetries
  BY <1>1 DEF Placed
<1> QED BY <1>1, <1>2, <1>3, Fields, Attempts, CanvasAssumption

LEMMA TakeFileStep ==
  ASSUME IInv, NEW w \in Worker, NEW message, TakeFile(w, message)
  PROVE  Sound
<1> DEFINE f == message.file
           a == file[f]
           jr == job[file[f].job]
           r == [a EXCEPT !.executions = @ + 1]
           b == [r EXCEPT !.status = "downloading", !.token = a.claims + 1, !.claims = a.claims + 1, !.late = FALSE]
           claimable == a.status = "pending" /\ a.due
<1>1. Consume(message) /\ message.kind = "file"
  BY DEF TakeFile, ClaimFile
<1>2. queue' \subseteq Mail /\ (Fault \/ UNCHANGED faults) /\ message \in Mail
  BY <1>1, Skipped
<1>3. CASE ~(claimable /\ a.job = message.job /\ Working(message.job))
  BY <1>1, <1>3, Skipped, OrdinaryKeeps DEF TakeFile, ClaimFile
<1>4. CASE claimable /\ a.job = message.job /\ Working(message.job)
  <2>1. f \in File
    BY <1>1, <1>2 DEF Mail
  <2>2. /\ SetFile(f, b) /\ UNCHANGED <<job, notes>> /\ Working(a.job)
        /\ worker' = [worker EXCEPT ![w] = [pc |-> "fetching", job |-> a.job, file |-> f, token |-> a.claims + 1]]
    BY <1>4 DEF TakeFile, ClaimFile
  <2>3. /\ a.status = "pending" /\ a.status \in Open /\ a.status \in Unstaged
        /\ "downloading" \in Running /\ "downloading" # "indexing"
    BY <1>4 DEF Open, Unstaged, Running
  <2>4. /\ a \in FileRow /\ jr \in JobRow /\ Requeues(jr) \in Nat /\ a.retries <= MaxRetries
        /\ a.claims \in Nat /\ a.executions \in Nat /\ a.retries \in Nat
        /\ MaxExecutions \in Nat /\ MaxRetries \in Nat /\ faults \in Nat /\ faults' \in Nat /\ faults <= faults'
        /\ Downloads(a, jr, faults) /\ a.executions < MaxExecutions + Requeues(jr)
    BY <1>2, <2>1, <2>3, ClaimContext DEF Paid
  <2>5. /\ r \in FileRow /\ r.job = a.job /\ r.executions = a.executions + 1 /\ r.retries = a.retries
        /\ r.source = a.source
    <3> HIDE DEF a
    <3> QED BY <2>4 DEF FileRow
  <2>6. a.claims + 1 \in Nat /\ a.executions + 1 \in Nat /\ a.retries \in 0..MaxRetries + 1
    BY <2>4
  <2>7. /\ b \in FileRow /\ b.status = "downloading" /\ b.job = a.job /\ b.token = a.claims + 1
        /\ b.claims = a.claims + 1 /\ b.executions = a.executions + 1 /\ b.retries = a.retries
    <3>1. "downloading" \in Open /\ "indexing" \in Open
      BY DEF Open, Running
    <3> HIDE DEF a, r
    <3>2. b \in FileRow
      BY <2>4, <2>5, <2>6, <3>1 DEF FileRow
    <3> QED BY <2>4, <2>5, <2>6, <3>2 DEF FileRow
  <2> HIDE DEF b
  <2>8. Downloads(b, jr, faults') /\ b.executions >= 1 /\ b.retries <= MaxRetries
    BY <2>4, <2>7 DEF Downloads
  <2>9. Extracts(b, jr, faults')
    BY <2>4, <2>7, <2>8, DownloadsExtract
  <2> QED BY <1>2, <2>1, <2>2, <2>3, <2>7, <2>8, <2>9, ClaimStep
<1> QED BY <1>3, <1>4

LEMMA TakeExtractStep ==
  ASSUME IInv, NEW w \in Worker, NEW message, TakeExtract(w, message)
  PROVE  Sound
<1> DEFINE f == message.file
           a == file[f]
           jr == job[file[f].job]
           b == [a EXCEPT !.status = "indexing", !.token = a.claims + 1, !.claims = a.claims + 1, !.late = FALSE]
           claimable == a.status = "pending_extract"
<1>1. Consume(message) /\ message.kind = "extract"
  BY DEF TakeExtract, ClaimFile
<1>2. queue' \subseteq Mail /\ (Fault \/ UNCHANGED faults) /\ message \in Mail
  BY <1>1, Skipped
<1>3. CASE ~(claimable /\ a.job = message.job /\ Working(message.job))
  BY <1>1, <1>3, Skipped, OrdinaryKeeps DEF TakeExtract, ClaimFile
<1>4. CASE claimable /\ a.job = message.job /\ Working(message.job)
  <2>1. f \in File
    BY <1>1, <1>2 DEF Mail
  <2>2. /\ SetFile(f, b) /\ UNCHANGED <<job, notes>> /\ Working(a.job)
        /\ worker' = [worker EXCEPT ![w] = [pc |-> "extracting", job |-> a.job, file |-> f, token |-> a.claims + 1]]
    BY <1>4 DEF TakeExtract, ClaimFile
  <2>3. /\ a.status = "pending_extract" /\ a.status \in Open /\ a.status \in Staged
        /\ "indexing" \in Running
    BY <1>4 DEF Open, Staged, Running
  <2>4. /\ a \in FileRow /\ jr \in JobRow /\ Requeues(jr) \in Nat /\ a.retries <= MaxRetries
        /\ a.claims \in Nat /\ a.executions \in Nat /\ a.retries \in Nat
        /\ MaxExecutions \in Nat /\ MaxRetries \in Nat /\ faults \in Nat /\ faults' \in Nat /\ faults <= faults'
        /\ a.claims < MaxExecutions + Requeues(jr) + a.retries + 1 + faults /\ a.source
    BY <1>2, <2>1, <2>3, ClaimContext DEF Paid, Placed
  <2>5. a.claims + 1 \in Nat /\ a.retries \in 0..MaxRetries + 1
    BY <2>4
  <2>6. /\ b \in FileRow /\ b.status = "indexing" /\ b.job = a.job /\ b.token = a.claims + 1
        /\ b.claims = a.claims + 1 /\ b.executions = a.executions /\ b.retries = a.retries /\ b.source = a.source
    <3>1. "indexing" \in Open
      BY DEF Open, Running
    <3> HIDE DEF a
    <3>2. b \in FileRow
      BY <2>4, <2>5, <3>1 DEF FileRow
    <3> QED BY <2>4, <2>5, <3>2 DEF FileRow
  <2> HIDE DEF b
  <2>7. Extracts(b, jr, faults') /\ b.retries <= MaxRetries /\ b.source
    BY <2>4, <2>6 DEF Extracts
  <2> QED BY <1>2, <2>1, <2>2, <2>3, <2>6, <2>7, ClaimStep
<1> QED BY <1>3, <1>4

LEMMA TakeRetryStep ==
  ASSUME IInv, NEW w \in Worker, NEW message, TakeRetry(w, message)
  PROVE  Sound
<1> DEFINE f == message.file
           a == file[f]
           jr == job[file[f].job]
           r == [a EXCEPT !.retries = @ + 1]
           b == [r EXCEPT !.status = "indexing", !.token = a.claims + 1, !.claims = a.claims + 1, !.late = FALSE]
           claimable == a.status = "pending_retry" /\ a.seq = message.seq /\ a.due /\ a.retries < MaxRetries
<1>1. Consume(message) /\ message.kind = "retry"
  BY DEF TakeRetry, ClaimFile
<1>2. queue' \subseteq Mail /\ (Fault \/ UNCHANGED faults) /\ message \in Mail
  BY <1>1, Skipped
<1>3. CASE ~(claimable /\ a.job = message.job /\ Working(message.job))
  BY <1>1, <1>3, Skipped, OrdinaryKeeps DEF TakeRetry, ClaimFile
<1>4. CASE claimable /\ a.job = message.job /\ Working(message.job)
  <2>1. f \in File
    BY <1>1, <1>2 DEF Mail
  <2>2. /\ SetFile(f, b) /\ UNCHANGED <<job, notes>> /\ Working(a.job)
        /\ worker' = [worker EXCEPT ![w] = [pc |-> "extracting", job |-> a.job, file |-> f, token |-> a.claims + 1]]
    BY <1>4 DEF TakeRetry, ClaimFile
  <2>3. /\ a.status = "pending_retry" /\ a.status \in Open /\ a.status \in Staged /\ a.retries < MaxRetries
        /\ "indexing" \in Running
    BY <1>4 DEF Open, Staged, Running
  <2>4. /\ a \in FileRow /\ jr \in JobRow /\ Requeues(jr) \in Nat
        /\ a.claims \in Nat /\ a.executions \in Nat /\ a.retries \in Nat
        /\ MaxExecutions \in Nat /\ MaxRetries \in Nat /\ faults \in Nat /\ faults' \in Nat /\ faults <= faults'
        /\ Extracts(a, jr, faults) /\ a.source
    BY <1>2, <2>1, <2>3, ClaimContext DEF Paid, Placed
  <2>5. a.claims + 1 \in Nat /\ a.retries + 1 \in 0..MaxRetries + 1
    BY <2>3, <2>4
  <2>6. /\ r \in FileRow /\ r.job = a.job /\ r.executions = a.executions /\ r.retries = a.retries + 1
        /\ r.source = a.source
    <3> HIDE DEF a
    <3> QED BY <2>4, <2>5 DEF FileRow
  <2>7. /\ b \in FileRow /\ b.status = "indexing" /\ b.job = a.job /\ b.token = a.claims + 1
        /\ b.claims = a.claims + 1 /\ b.executions = a.executions /\ b.retries = a.retries + 1
        /\ b.source = a.source
    <3>1. "downloading" \in Open /\ "indexing" \in Open
      BY DEF Open, Running
    <3> HIDE DEF a, r
    <3>2. b \in FileRow
      BY <2>4, <2>5, <2>6, <3>1 DEF FileRow
    <3> QED BY <2>4, <2>5, <2>6, <3>2 DEF FileRow
  <2> HIDE DEF b
  <2>8. Extracts(b, jr, faults') /\ b.retries <= MaxRetries /\ b.source
    BY <2>3, <2>4, <2>7 DEF Extracts
  <2> QED BY <1>2, <2>1, <2>2, <2>3, <2>7, <2>8, ClaimStep
<1> QED BY <1>3, <1>4

-----------------------------------------------------------------------------
(***************************************************************************)
(* Rows and jobs that begin.                                               *)
(***************************************************************************)
LEMMA FreshRow ==
  ASSUME NEW r \in FileRow, NEW j \in Job, NEW status \in Open \cup Closed
  PROVE  /\ Fresh(r, j, status) \in FileRow /\ Fresh(r, j, status).status = status
         /\ Fresh(r, j, status).job = j /\ Fresh(r, j, status).token = 0
         /\ Fresh(r, j, status).claims = 0 /\ Fresh(r, j, status).executions = 0
         /\ Fresh(r, j, status).retries = 0
<1>1. r.seq + 1 \in Nat /\ 0 \in Nat /\ 0 \in 0..MaxRetries + 1
  BY Fields, CanvasAssumption
<1>2. Fresh(r, j, status) \in FileRow
  BY <1>1 DEF FileRow, Fresh
<1>3. /\ Fresh(r, j, status).status = status /\ Fresh(r, j, status).job = j
      /\ Fresh(r, j, status).token = 0 /\ Fresh(r, j, status).claims = 0
      /\ Fresh(r, j, status).executions = 0 /\ Fresh(r, j, status).retries = 0
  BY DEF FileRow, Fresh
<1> QED BY <1>2, <1>3

LEMMA FreshFits ==
  ASSUME NEW b \in FileRow, NEW jr \in JobRow, NEW m \in Nat, b.status \in {"pending", "forbidden"},
         b.job \in Job, b.token = 0, b.claims = 0, b.executions = 0, b.retries = 0,
         jr.status \in {"discovering", "processing"}
  PROVE  Placed(b, jr) /\ Paid(b, jr, m)
<1>1. /\ Requeues(jr) \in Nat /\ jr.attempts \in Nat /\ MaxExecutions \in Nat \ {0} /\ MaxRetries \in Nat
      /\ b.job # 0
  BY Attempts, CanvasAssumption DEF JobRow, Job
<1>2. /\ b.status \notin Running \cup Staged \cup {"none", "indexing", "pending_extract"}
      /\ b.status \in Open \cup Closed
  BY DEF Running, Staged, Open, Closed
<1>3. Placed(b, jr)
  BY <1>1, <1>2 DEF Placed
<1>4. Downloads(b, jr, m) /\ Extracts(b, jr, m) /\ b.executions < MaxExecutions + Requeues(jr)
  BY <1>1 DEF Downloads, Extracts
<1>5. b.claims <= MaxExecutions + MaxRetries + 1 + jr.attempts + m
  BY <1>1
<1>6. Paid(b, jr, m)
  BY <1>2, <1>4, <1>5 DEF Paid
<1> QED BY <1>3, <1>6

LEMMA ListStep == ASSUME IInv, NEW w \in Worker, NEW f \in File, List(w, f) PROVE Ordinary
<1> DEFINE a == file[f]
           j == worker[w].job
<1>1. PICK status \in {"pending", "forbidden"} : SetFile(f, [Fresh(a, j, status) EXCEPT !.source = FALSE])
  BY DEF List
<1> DEFINE r == Fresh(a, j, status)
           b == [r EXCEPT !.source = FALSE]
<1>2. /\ worker[w].pc = "listing" /\ OwnsDiscovery(w) /\ a.job # j
      /\ a.status \in {"none", "error", "forbidden", "cancelled"}
      /\ UNCHANGED <<job, notes, queue, worker, faults>>
  BY DEF List
<1>3. j \in Job /\ job[j].status = "discovering" /\ job[j] \in JobRow
  BY <1>2 DEF IInv, WorkersInv, WorkerInv, OwnsDiscovery, TypeOK
<1>4. a \in FileRow /\ Placed(a, job[a.job]) /\ a.job \in {0} \cup Job
  BY Fields DEF IInv, TypeOK, RowsInv
<1>5. a.job < j
  <2>1. CASE a.job = 0
    BY <1>3, <2>1 DEF Job
  <2>2. CASE a.job \in Job
    <3>1. job[a.job].status # "none"
      BY <1>4, <2>2 DEF Placed, Job
    <3>2. ~(j < a.job)
      BY <1>3, <2>2, <3>1 DEF IInv, JobInv, Ordered, JobOver
    <3> QED BY <1>2, <1>3, <2>2, <3>2 DEF Job
  <2> QED BY <1>4, <2>1, <2>2
<1>6. status \in Open \cup Closed
  BY DEF Open, Closed
<1>7. /\ r \in FileRow /\ r.status = status /\ r.job = j /\ r.token = 0 /\ r.claims = 0
      /\ r.executions = 0 /\ r.retries = 0
  BY <1>3, <1>4, <1>6, FreshRow
<1>8. SetFile(f, b)
  BY <1>1
<1> HIDE DEF r, a, j
<1>9. b \in FileRow
  BY <1>7 DEF FileRow
<1>10. /\ b.status = status /\ b.job = j /\ b.token = 0 /\ b.claims = 0 /\ b.executions = 0
       /\ b.retries = 0
  BY <1>7 DEF FileRow
<1> HIDE DEF b
<1>11. faults \in Nat /\ faults' = faults /\ faults' \in 0..MaxFaults /\ queue' \subseteq Mail
  BY <1>2, CanvasAssumption DEF IInv, TypeOK
<1>12. Placed(b, job[j]) /\ Paid(b, job[j], faults')
  BY <1>3, <1>9, <1>10, <1>11, FreshFits
<1>13. a.job <= b.job /\ a.job # b.job
  BY <1>3, <1>4, <1>5, <1>10 DEF Job
<1>14. RowGoes(a, b, job[j].status)
  BY <1>3, <1>13 DEF RowGoes
<1>15. faults <= faults'
  BY <1>11
<1>16. Moves
  BY <1>2, <1>8, <1>9, <1>10, <1>11, <1>12, <1>14, <1>15, RowStep DEF SetFile, a
<1> QED BY <1>2, <1>11, <1>16, SameNotes, SameWorkers DEF Ordinary

\* A live job goes on alone.
LEMMA JobStep ==
  ASSUME IInv, NEW j \in Job, NEW kr \in JobRow, job' = [job EXCEPT ![j] = kr], UNCHANGED file,
         Fault \/ UNCHANGED faults, job[j].status \in JobLive, JobGoes(job[j], kr), JobFits(kr),
         kr.status \notin {"failed", "cancelled", "queued"},
         job[j].status = "processing" /\ kr.status = "complete" => Done(j) \/ Early(j)
  PROVE  Moves
<1>1. /\ job \in [Job -> JobRow] /\ file \in [File -> FileRow] /\ faults' \in 0..MaxFaults
      /\ faults \in Nat /\ faults' \in Nat /\ faults <= faults'
  BY FaultGoes DEF IInv, TypeOK
<1>2. job' \in [Job -> JobRow] /\ job'[j] = kr /\ \A i \in Job : i # j => job'[i] = job[i]
  BY <1>1
<1>3. \A i \in Job : JobGoes(job[i], job'[i])
  BY <1>1, <1>2, SameJob
<1>4. JobLive \cap JobOver = {} /\ "none" \notin JobLive
  BY DEF JobLive, JobOver
<1>5. Ordered'
  BY <1>2, <1>4 DEF Ordered, IInv, JobInv
<1>6. \A i \in Job : JobFits(job'[i])
  BY <1>2 DEF IInv, JobInv
<1>7. \A f \in File : Placed(file[f], job'[file[f].job]) /\ Paid(file[f], job'[file[f].job], faults')
  <2> SUFFICES ASSUME NEW f \in File
               PROVE  Placed(file[f], job'[file[f].job]) /\ Paid(file[f], job'[file[f].job], faults')
    OBVIOUS
  <2>1. file[f] \in FileRow /\ Placed(file[f], job[file[f].job])
    BY DEF IInv, TypeOK, RowsInv
  <2>2. file[f].status \in Open => file[f].job \in Job
    BY <2>1, Fields, Statuses DEF Placed
  <2>3. /\ file[f].status \in Open => job'[file[f].job].status \notin {"failed", "cancelled"}
        /\ file[f].status \in Running => job'[file[f].job].status # "queued"
    BY <1>2, <2>1, <2>2, Statuses DEF Placed
  <2> QED BY <1>1, <1>2, <1>3, <2>3, RowKept
<1>8. RowsInv'
  BY <1>7 DEF RowsInv
<1>9. \A f \in File : RowGoes(file[f], file'[f], job[file'[f].job].status)
  BY <1>1, SameRow
<1>10. \A i \in Job : job[i].status = "processing" /\ job'[i].status = "complete" => Done(i) \/ Early(i)
  BY <1>2
<1>11. JobInv'
  BY <1>5, <1>6 DEF JobInv
<1> QED BY <1>1, <1>2, <1>3, <1>8, <1>9, <1>10, <1>11 DEF Moves

LEMMA TakeDiscoverStep ==
  ASSUME IInv, NEW w \in Worker, NEW message, TakeDiscover(w, message)
  PROVE  Ordinary
<1> DEFINE j == message.job
           jr == job[message.job]
           kr == [status |-> "discovering", attempts |-> jr.attempts + 1, late |-> FALSE]
           y == [pc |-> "listing", job |-> j, file |-> None, token |-> jr.attempts + 1]
<1>1. Consume(message) /\ UNCHANGED <<file, notes>>
  BY DEF TakeDiscover
<1>2. queue' \subseteq Mail /\ (Fault \/ UNCHANGED faults) /\ message \in Mail
  BY <1>1, Skipped
<1>3. CASE jr.status # "queued"
  BY <1>1, <1>3, Skipped DEF TakeDiscover
<1>4. CASE jr.status = "queued"
  <2>1. j \in Job /\ jr \in JobRow /\ JobFits(jr)
    BY <1>2 DEF Mail, Message, IInv, TypeOK, JobInv
  <2>2. jr.attempts \in Nat /\ jr.attempts < MaxExecutions /\ MaxExecutions \in Nat
    BY <1>4, <2>1, CanvasAssumption DEF JobRow, JobFits
  <2>3. kr \in JobRow
    BY <2>2 DEF JobRow, JobLive
  <2>4. JobGoes(jr, kr) /\ JobFits(kr)
    BY <1>4, <2>2 DEF JobGoes, JobFits, Requeues, JobOver
  <2>5. job' = [job EXCEPT ![j] = kr] /\ worker' = [worker EXCEPT ![w] = y]
    BY <1>4 DEF TakeDiscover
  <2>6. jr.status \in JobLive /\ kr.status \notin {"failed", "cancelled", "queued", "complete"}
    BY <1>4 DEF JobLive
  <2>7. Moves
    <3> HIDE DEF kr
    <3> QED BY <1>1, <1>2, <2>1, <2>3, <2>4, <2>5, <2>6, JobStep
  <2>8. y \in WorkerState /\ y.pc = "listing" /\ y.job \in Job
    BY <2>1, <2>2 DEF WorkerState, DiscoverPc
  <2>9. Goes
    <3> HIDE DEF y
    <3>1. WorkerGoes(worker[w], y)
      BY <2>8 DEF WorkerGoes
    <3> QED BY <2>5, <2>8, <3>1, WorkerStep
  <2> QED BY <1>1, <1>2, <2>7, <2>9, SameNotes DEF Ordinary
<1> QED BY <1>3, <1>4

\* A discovery that ended, a run that is done, and a discovery's lease.
LEMMA Advance ==
  ASSUME NEW jr \in JobRow, NEW kr \in JobRow, kr.attempts = jr.attempts,
         \/ jr.status \in {"discovering", "processing"} /\ kr.status = "processing"
         \/ jr.status = "processing" /\ kr.status = "complete"
         \/ jr.status = "discovering" /\ kr.status = "discovering",
         JobFits(jr)
  PROVE  /\ JobGoes(jr, kr) /\ JobFits(kr) /\ jr.status \in JobLive
         /\ kr.status \notin {"failed", "cancelled", "queued"}
BY DEF JobGoes, JobFits, Requeues, JobOver, JobLive, JobRow

LEMMA CompletesStep ==
  ASSUME IInv, NEW j \in Job, Completes(j), Done(j) \/ Early(j), UNCHANGED <<file, faults>>
  PROVE  Moves
<1> DEFINE jr == job[j]
           kr == [jr EXCEPT !.status = "complete"]
<1>1. jr \in JobRow /\ JobFits(jr) /\ jr.status = "processing" /\ job' = [job EXCEPT ![j] = kr]
  BY DEF Completes, IInv, TypeOK, JobInv
<1>2. kr \in JobRow /\ kr.attempts = jr.attempts /\ kr.status = "complete"
  BY <1>1 DEF JobRow, JobOver
<1> HIDE DEF kr
<1> QED BY <1>1, <1>2, Advance, JobStep

LEMMA FinishStep == ASSUME IInv, NEW w \in Worker, Finish(w) PROVE Ordinary
<1>1. /\ worker[w].pc \in {"counted", "countedEarly"} /\ (Completes(worker[w].job) \/ UNCHANGED job)
      /\ Rest(w) /\ UNCHANGED <<file, notes, queue, faults>>
  BY DEF Finish
<1>2. worker[w].job \in Job /\ WorkerInv(w)
  BY <1>1 DEF IInv, WorkersInv, WorkerInv
<1>3. faults' \in 0..MaxFaults /\ faults <= faults' /\ queue' \subseteq Mail
  BY <1>1, CanvasAssumption DEF IInv, TypeOK
<1>4. Moves
  <2>1. CASE Completes(worker[w].job)
    <3>1. Done(worker[w].job) \/ Early(worker[w].job)
      BY <1>1, <1>2, <2>1 DEF WorkerInv, Completes, Early
    <3> QED BY <1>1, <1>2, <2>1, <3>1, CompletesStep
  <2>2. CASE UNCHANGED job
    BY <1>1, <1>3, <2>2, Still
  <2> QED BY <1>1, <2>1, <2>2
<1> QED BY <1>1, <1>3, <1>4, RestGoes, SameNotes DEF Ordinary

LEMMA JobSteps ==
  ASSUME IInv, \/ \E j \in Job : SettleJob(j) \/ LapseDiscovery(j)
               \/ \E w \in Worker : EndListing(w)
  PROVE  Ordinary
<1>1. CASE \E j \in Job : SettleJob(j)
  BY <1>1, CompletesStep, SameNotes, SameWorkers DEF SettleJob, Ordinary, IInv
<1>2. ASSUME NEW j \in Job, LapseDiscovery(j) PROVE Ordinary
  <2> DEFINE jr == job[j]
             kr == [jr EXCEPT !.late = TRUE]
  <2>1. /\ jr \in JobRow /\ JobFits(jr) /\ jr.status = "discovering" /\ job' = [job EXCEPT ![j] = kr]
        /\ UNCHANGED <<file, notes, queue, worker>> /\ (Fault \/ UNCHANGED faults)
    BY <1>2 DEF LapseDiscovery, IInv, TypeOK, JobInv
  <2>2. kr \in JobRow /\ kr.attempts = jr.attempts /\ kr.status = "discovering"
    BY <2>1 DEF JobRow
  <2> HIDE DEF kr
  <2>3. Moves
    BY <2>1, <2>2, Advance, JobStep
  <2> QED BY <2>1, <2>3, SameNotes, SameWorkers DEF Ordinary, IInv
<1>3. ASSUME NEW w \in Worker, EndListing(w) PROVE Ordinary
  <2> DEFINE j == worker[w].job
             jr == job[worker[w].job]
             kr == [jr EXCEPT !.status = "processing"]
  <2>1. j \in Job
    BY <1>3 DEF EndListing, IInv, WorkersInv, WorkerInv
  <2>2. /\ jr \in JobRow /\ JobFits(jr) /\ jr.status = "discovering" /\ job' = [job EXCEPT ![j] = kr]
        /\ UNCHANGED <<file, notes, queue, faults>> /\ Goto(w, "checking") /\ worker[w].pc # "idle"
    BY <1>3, <2>1 DEF EndListing, OwnsDiscovery, IInv, TypeOK, JobInv
  <2>3. kr \in JobRow /\ kr.attempts = jr.attempts /\ kr.status = "processing"
    BY <2>2 DEF JobRow, JobLive
  <2> HIDE DEF kr
  <2>4. Moves
    BY <2>1, <2>2, <2>3, Advance, JobStep
  <2> QED BY <2>2, <2>4, SameNotes, GotoGoes, PcSets DEF Ordinary, IInv
<1> QED BY <1>1, <1>2, <1>3

-----------------------------------------------------------------------------
(***************************************************************************)
(* Steps that move a job with its files.                                   *)
(***************************************************************************)

\* Where the row a may land when its job jr becomes kr: as b.
LandsWith(a, b, jr, kr, m) ==
  b \in FileRow /\ b.job = a.job /\ Placed(b, kr) /\ Paid(b, kr, m) /\ RowGoes(a, b, jr.status)

\* A row that closes.
LEMMA ClosesWith ==
  ASSUME NEW a \in FileRow, NEW b \in FileRow, NEW jr \in JobRow, NEW kr \in JobRow, NEW n \in Nat,
         NEW m \in Nat, n <= m, Placed(a, jr), Paid(a, jr, n), a.status \in Open, JobGoes(jr, kr),
         b.status \in Closed, b.job = a.job, b.claims = a.claims, b.token \in {0, a.token}
  PROVE  LandsWith(a, b, jr, kr, m)
<1>1. Lands(a, b, jr, m)
  BY Closes
<1>2. b.status \notin Open /\ b.status \notin Running
  BY Statuses
<1>3. Placed(b, kr) /\ Paid(b, kr, m)
  BY <1>1, <1>2, RowWaits DEF Lands
<1> QED BY <1>1, <1>3 DEF Lands, LandsWith

\* A row in progress whose discovery is queued again.
LEMMA RequeuedRow ==
  ASSUME NEW a \in FileRow, NEW jr \in JobRow, NEW kr \in JobRow, NEW n \in Nat,
         Placed(a, jr), Paid(a, jr, n), a.status \in Running, a.job # 0,
         jr.status = "discovering", JobFits(jr), kr.status = "queued", kr.attempts = jr.attempts
  PROVE  LandsWith(a, Requeued(a), jr, kr, n)
<1> DEFINE s == IF a.status # "indexing" THEN "pending"
                ELSE IF a.retries >= MaxRetries THEN "error"
                ELSE IF ~a.source THEN "pending"
                ELSE IF a.retries = 0 THEN "pending_extract" ELSE "pending_retry"
           b == [Release(a, s) EXCEPT !.seq = @ + 1, !.due = TRUE]
<1>1. Requeued(a) = b
  BY DEF Requeued
<1>2. /\ a.status \in Open /\ a.retries \in Nat /\ a.retries <= MaxRetries /\ a.claims \in Nat
      /\ a.executions \in Nat /\ a.seq + 1 \in Nat /\ a.job \in Nat
      /\ MaxExecutions \in Nat /\ MaxRetries \in Nat
  BY Statuses, Fields, CanvasAssumption DEF Placed, Job
<1>3. Requeues(jr) \in Nat /\ Requeues(kr) = Requeues(jr) + 1 /\ JobGoes(jr, kr)
  BY Attempts DEF Requeues, JobFits, JobRow, JobGoes, JobOver
<1>4. /\ "error" \in Closed /\ {"pending", "pending_extract", "pending_retry"} \subseteq Open \ Running
      /\ {"pending_extract", "pending_retry"} \subseteq Staged
      /\ "pending" \notin Staged
  BY DEF Open, Closed, Staged, Running
<1>5. s \in {"error", "pending", "pending_extract", "pending_retry"}
  OBVIOUS
<1>6. /\ b \in FileRow /\ b.status = s /\ b.job = a.job /\ b.token = 0 /\ b.claims = a.claims
      /\ b.executions = a.executions /\ b.retries = a.retries /\ b.source = a.source
  <2> DEFINE r == Release(a, s)
  <2>1. s \in Open \cup Closed
    BY <1>4, <1>5
  <2> HIDE DEF s
  <2>2. /\ r \in FileRow /\ r.status = s /\ r.job = a.job /\ r.token = 0 /\ r.claims = a.claims
        /\ r.executions = a.executions /\ r.retries = a.retries /\ r.source = a.source /\ r.seq = a.seq
    BY <2>1, ReleaseRow
  <2>3. b = [r EXCEPT !.seq = @ + 1, !.due = TRUE]
    OBVIOUS
  <2> HIDE DEF r, b
  <2>4. b \in FileRow
    BY <1>2, <2>2, <2>3 DEF FileRow
  <2>5. /\ b.status = r.status /\ b.job = r.job /\ b.token = r.token /\ b.claims = r.claims
        /\ b.executions = r.executions /\ b.retries = r.retries /\ b.source = r.source
    BY <2>2, <2>3 DEF FileRow
  <2> QED BY <2>2, <2>4, <2>5
<1> HIDE DEF b
<1>7. LandsWith(a, b, jr, kr, n)
  <2>1. CASE s = "error"
    <3>1. n <= n
      OBVIOUS
    <3> QED BY <3>1, <1>2, <1>3, <1>4, <1>6, <2>1, ClosesWith
  <2>2. CASE s # "error"
    <3>1. b.status \in Open /\ b.status \notin Running /\ b.status \notin Closed
      BY <1>4, <1>5, <1>6, <2>2, Statuses
    <3>2. /\ s \in Staged => a.source
          /\ s = "pending" => a.status \in Unstaged \/ (a.status = "indexing" /\ ~a.source)
      <4>1. a.status # "indexing" => a.status \in Unstaged
        BY DEF Running, Unstaged
      <4>2. s = "pending" => a.status # "indexing" \/ ~a.source
        OBVIOUS
      <4>3. s \in {"pending_extract", "pending_retry"} => a.source
        OBVIOUS
      <4>4. s \in Staged => s \in {"pending_extract", "pending_retry"}
        BY <1>4, <1>5, <2>2 DEF Staged
      <4> HIDE DEF s
      <4> QED BY <4>1, <4>2, <4>3, <4>4
    <3>3. s \in {"pending", "pending_extract", "pending_retry"}
      BY <1>5, <2>2
    <3> HIDE DEF s
    <3>4. Placed(b, kr)
      BY <1>2, <1>6, <3>1, <3>2 DEF Placed
    <3>5. Extracts(b, kr, n) /\ b.claims < MaxExecutions + Requeues(kr) + b.retries + 1 + n
      <4>1. Extracts(a, jr, n)
        BY <1>2 DEF Paid
      <4> QED BY <1>2, <1>3, <1>6, <4>1 DEF Extracts
    <3>6. s = "pending" => Downloads(b, kr, n) /\ b.executions < MaxExecutions + Requeues(kr)
      <4>1. s = "pending" => Downloads(a, jr, n)
        BY <3>2 DEF Paid
      <4> QED BY <1>2, <1>3, <1>6, <4>1 DEF Downloads
    <3>7. {"pending_extract", "pending_retry", "indexing"} \cap Unstaged = {} /\ "pending" \in Unstaged
      BY DEF Unstaged
    <3>8. b.claims <= MaxExecutions + MaxRetries + 1 + kr.attempts + n
      BY <1>6, <3>1, <3>4, <3>5, OpenBound
    <3>9. Paid(b, kr, n)
      BY <1>6, <3>3, <3>5, <3>6, <3>7, <3>8 DEF Paid
    <3>10. a.status \notin Closed
      BY <1>2, Statuses
    <3>11. RowGoes(a, b, jr.status)
      BY <1>2, <1>6, <3>1, <3>10 DEF RowGoes
    <3> QED BY <1>6, <3>4, <3>9, <3>11 DEF LandsWith
  <2> QED BY <2>1, <2>2
<1> QED BY <1>1, <1>7

LEMMA JobType == ASSUME TypeOK, NEW j \in Job PROVE job[j] \in JobRow
BY DEF TypeOK

LEMMA AbandonStep ==
  ASSUME IInv, NEW j \in Job, job[j].status = "discovering", AbandonDiscovery(j), UNCHANGED faults
  PROVE  Moves
<1> DEFINE jr == job[j]
           again == jr.attempts < MaxExecutions
           kr == [jr EXCEPT !.status = IF again THEN "queued" ELSE "failed", !.late = FALSE]
           G(f) == IF file[f].job # j THEN file[f]
                   ELSE IF again THEN Requeued(file[f])
                   ELSE IF file[f].status \in Open THEN Release(file[f], "error") ELSE file[f]
<1>1. /\ job \in [Job -> JobRow] /\ file \in [File -> FileRow] /\ faults \in Nat /\ faults' = faults
      /\ faults' \in 0..MaxFaults /\ jr \in JobRow /\ JobFits(jr) /\ jr.status = "discovering"
  BY CanvasAssumption DEF IInv, TypeOK, JobInv
<1>2. job' = [job EXCEPT ![j] = kr] /\ file' = [f \in File |-> G(f)]
  BY <1>1 DEF AbandonDiscovery
<1>3. kr \in JobRow
  BY <1>1 DEF JobRow, JobLive, JobOver
<1>4. kr.attempts = jr.attempts /\ kr.status = IF again THEN "queued" ELSE "failed"
  BY <1>1 DEF JobRow
<1>5. JobGoes(jr, kr) /\ JobFits(kr)
  <2> HIDE DEF kr
  <2>1. jr.attempts \in Nat
    BY <1>1 DEF JobRow
  <2> QED BY <1>1, <1>4, <2>1 DEF JobGoes, JobFits, Requeues, JobOver
<1> HIDE DEF kr
<1>6. job' \in [Job -> JobRow] /\ job'[j] = kr /\ \A i \in Job : i # j => job'[i] = job[i]
  BY <1>1, <1>2, <1>3
<1>7. \A i \in Job : JobGoes(job[i], job'[i])
  BY <1>1, <1>5, <1>6, SameJob
<1>8. JobInv'
  <2>1. Ordered'
    BY <1>1, <1>6 DEF Ordered, IInv, JobInv, JobOver
  <2>2. \A i \in Job : JobFits(job'[i])
    BY <1>5, <1>6 DEF IInv, JobInv
  <2> QED BY <2>1, <2>2 DEF JobInv
<1>9. \A i \in Job : ~(job[i].status = "processing" /\ job'[i].status = "complete")
  BY <1>1, <1>6
<1>10. ASSUME NEW f \in File
       PROVE  /\ G(f) \in FileRow /\ G(f).job = file[f].job
              /\ Placed(G(f), job'[file[f].job]) /\ Paid(G(f), job'[file[f].job], faults')
              /\ RowGoes(file[f], G(f), job[file[f].job].status)
  <2> DEFINE a == file[f]
  <2>1. a \in FileRow /\ Placed(a, job[a.job]) /\ Paid(a, job[a.job], faults)
    BY DEF IInv, TypeOK, RowsInv
  <2>2. a.status \in Open => a.job \in Job
    BY <2>1, Fields, Statuses DEF Placed
  <2>3. CASE G(f) = a /\ (a.job # j \/ a.status \notin Open \/ (again /\ a.status \notin Running))
    <3>1. /\ a.status \in Open => job'[a.job].status \notin {"failed", "cancelled"}
          /\ a.status \in Running => job'[a.job].status # "queued"
      BY <1>4, <1>6, <2>1, <2>2, <2>3, Statuses DEF Placed
    <3> QED BY <1>1, <1>6, <1>7, <2>1, <2>3, <3>1, RowKept, SameRow
  <2>4. CASE a.job = j /\ again /\ a.status \in Running
    <3>1. LandsWith(a, Requeued(a), jr, kr, faults)
      BY <1>1, <1>3, <1>4, <2>1, <2>4, RequeuedRow DEF Job
    <3> QED BY <1>1, <1>6, <2>4, <3>1 DEF LandsWith
  <2>5. CASE a.job = j /\ ~again /\ a.status \in Open
    <3>1. "error" \in Open \cup Closed /\ "error" \in Closed
      BY DEF Closed
    <3>2. LandsWith(a, Release(a, "error"), jr, kr, faults)
      <4>1. faults <= faults
        BY <1>1
      <4> QED BY <4>1, <1>1, <1>3, <1>5, <2>1, <2>5, <3>1, ReleaseRow, ClosesWith
    <3> QED BY <1>1, <1>6, <2>5, <3>2 DEF LandsWith
  <2>6. a.job = j /\ again /\ a.status \notin Running => G(f) = a
    BY DEF Requeued
  <2> QED BY <2>3, <2>4, <2>5, <2>6
<1>11. file' \in [File -> FileRow] /\ \A f \in File : file'[f] = G(f)
  BY <1>2, <1>10
<1> HIDE DEF G
<1>12. RowsInv'
  BY <1>10, <1>11 DEF RowsInv
<1>13. \A f \in File : RowGoes(file[f], file'[f], job[file'[f].job].status)
  BY <1>10, <1>11
<1>14. faults <= faults'
  BY <1>1
<1> QED BY <1>1, <1>6, <1>7, <1>8, <1>9, <1>11, <1>12, <1>13, <1>14 DEF Moves

LEMMA AbandonSteps ==
  ASSUME IInv, (\E w \in Worker : FailListing(w)) \/ (\E j \in Job : RecoverDiscovery(j))
  PROVE  Ordinary
<1>1. ASSUME NEW w \in Worker, FailListing(w) PROVE Ordinary
  <2>1. worker[w].job \in Job /\ job[worker[w].job].status = "discovering"
    BY <1>1 DEF FailListing, OwnsDiscovery, IInv, WorkersInv, WorkerInv
  <2> QED BY <1>1, <2>1, AbandonStep, RestGoes, SameNotes DEF FailListing, Ordinary, IInv
<1>2. ASSUME NEW j \in Job, RecoverDiscovery(j) PROVE Ordinary
  BY <1>2, AbandonStep, SameWorkers, SameNotes DEF RecoverDiscovery, Ordinary, IInv
<1> QED BY <1>1, <1>2

\* Live jobs are cancelled with their open files.
LEMMA CancelledGoes ==
  ASSUME IInv, NEW j \in Job
  PROVE  /\ CancelledJobs[j] \in JobRow /\ JobGoes(job[j], CancelledJobs[j]) /\ JobFits(CancelledJobs[j])
         /\ job[j].status \in JobOver => CancelledJobs[j] = job[j]
         /\ job[j].status # "none" => CancelledJobs[j].status \in JobOver
         /\ job[j].status = "none" => CancelledJobs[j] = job[j]
<1> DEFINE kr == [job[j] EXCEPT !.status = "cancelled"]
<1>1. job[j] \in JobRow /\ JobFits(job[j])
  BY DEF IInv, TypeOK, JobInv
<1>2. CancelledJobs[j] = IF Live(j) THEN kr ELSE job[j]
  BY DEF CancelledJobs
<1>3. kr \in JobRow /\ kr.status = "cancelled" /\ kr.attempts = job[j].attempts
  BY <1>1 DEF JobRow, JobOver
<1> HIDE DEF kr
<1>4. CASE Live(j)
  BY <1>1, <1>2, <1>3, <1>4 DEF Live, JobLive, JobOver, JobRow, JobGoes, JobFits
<1>5. CASE ~Live(j)
  BY <1>1, <1>2, <1>5, SameJob DEF Live, JobLive, JobOver, JobRow
<1> QED BY <1>4, <1>5

LEMMA CancelRows ==
  ASSUME IInv, NEW K \in [Job -> JobRow], \A i \in Job : JobGoes(job[i], K[i]),
         \A i \in Job : job[i].status # "none" => K[i] = CancelledJobs[i], NEW f \in File,
         NEW m \in Nat, faults <= m
  PROVE  /\ CancelledFiles[f] \in FileRow /\ CancelledFiles[f].job = file[f].job
         /\ Placed(CancelledFiles[f], K[file[f].job]) /\ Paid(CancelledFiles[f], K[file[f].job], m)
         /\ RowGoes(file[f], CancelledFiles[f], job[file[f].job].status)
<1> DEFINE a == file[f]
           b == [a EXCEPT !.status = "cancelled"]
<1>1. a \in FileRow /\ Placed(a, job[a.job]) /\ Paid(a, job[a.job], faults) /\ faults \in Nat
  BY CanvasAssumption DEF IInv, TypeOK, RowsInv
<1>2. CancelledFiles[f] = IF a.job # 0 /\ Live(a.job) /\ a.status \in Open THEN b ELSE a
  BY DEF CancelledFiles
<1>3. a.status \in Open => a.job \in Job
  BY <1>1, Fields, Statuses DEF Placed
<1>4. CASE a.job # 0 /\ Live(a.job) /\ a.status \in Open
  <2>1. "cancelled" \in Closed
    BY DEF Closed
  <2>2. b \in FileRow /\ b.status = "cancelled" /\ b.job = a.job /\ b.claims = a.claims /\ b.token = a.token
    BY <1>1, <2>1 DEF FileRow
  <2> HIDE DEF b
  <2>3. LandsWith(a, b, job[a.job], K[a.job], m)
    BY <1>1, <1>3, <1>4, <2>1, <2>2, ClosesWith, JobType DEF IInv
  <2> QED BY <1>2, <1>4, <2>3 DEF LandsWith
<1>5. CASE ~(a.job # 0 /\ Live(a.job) /\ a.status \in Open)
  <2>1. a.status \in Open => K[a.job] = job[a.job]
    <3>1. a.status \in Open => job[a.job].status # "none" /\ ~Live(a.job)
      BY <1>1, <1>3, <1>5, Statuses DEF Placed
    <3> QED BY <1>3, <3>1 DEF CancelledJobs
  <2>2. /\ a.status \in Open => K[a.job].status \notin {"failed", "cancelled"}
        /\ a.status \in Running => K[a.job].status # "queued"
    BY <1>1, <2>1, Statuses DEF Placed
  <2>3. Placed(a, K[a.job]) /\ Paid(a, K[a.job], m)
    BY <1>1, <2>2, RowKept
  <2> QED BY <1>1, <1>2, <1>5, <2>3, SameRow
<1> QED BY <1>4, <1>5

\* The job that begins, with the jobs before it cancelled.
Started(j, status) == [CancelledJobs EXCEPT ![j].status = status]

LEMMA Begins ==
  ASSUME IInv, NEW j \in Job, Unused(j), NEW status \in {"queued", "processing"}
  PROVE  /\ Started(j, status) \in [Job -> JobRow] /\ Started(j, status)[j].status = status
         /\ \A i \in Job : JobGoes(job[i], Started(j, status)[i]) /\ JobFits(Started(j, status)[i])
         /\ \A i \in Job : job[i].status # "none" => Started(j, status)[i] = CancelledJobs[i]
         /\ \A i \in Job : Started(j, status)[i].status # "complete" \/ job[i].status = "complete"
         /\ \A i, k \in Job : i < k /\ Started(j, status)[k].status # "none" => Started(j, status)[i].status \in JobOver
<1> DEFINE K == Started(j, status)
           kr == [CancelledJobs[j] EXCEPT !.status = status]
<1>1. /\ job[j] \in JobRow /\ JobFits(job[j]) /\ job[j].status = "none"
      /\ CancelledJobs[j] = job[j] /\ \A i \in Job : i < j => job[i].status # "none"
  BY CancelledGoes DEF IInv, TypeOK, JobInv, Unused
<1>2. /\ kr \in JobRow /\ kr.status = status /\ kr.attempts = job[j].attempts
  BY <1>1 DEF JobRow, JobLive
<1>3. JobGoes(job[j], kr) /\ JobFits(kr)
  <2> HIDE DEF kr
  <2>1. job[j].attempts = 0 /\ MaxExecutions \in Nat \ {0}
    BY <1>1, CanvasAssumption DEF JobFits
  <2> QED BY <1>1, <1>2, <2>1 DEF JobGoes, JobFits, Requeues, JobOver
<1> HIDE DEF kr
<1>4. CancelledJobs \in [Job -> JobRow]
  <2>1. CancelledJobs = [i \in Job |-> CancelledJobs[i]]
    BY DEF CancelledJobs
  <2> QED BY <2>1, CancelledGoes
<1>5. K = [CancelledJobs EXCEPT ![j] = kr]
  BY DEF kr, Started
<1> HIDE DEF K
<1>6. K \in [Job -> JobRow] /\ K[j] = kr /\ \A i \in Job : i # j => K[i] = CancelledJobs[i]
  BY <1>2, <1>4, <1>5
<1>7. \A i \in Job : JobGoes(job[i], K[i]) /\ JobFits(K[i])
  BY <1>3, <1>6, CancelledGoes
<1>8. \A i \in Job : K[i].status # "complete" \/ job[i].status = "complete"
  <2> SUFFICES ASSUME NEW i \in Job PROVE K[i].status # "complete" \/ job[i].status = "complete"
    OBVIOUS
  <2>1. job[i] \in JobRow
    BY DEF IInv, TypeOK
  <2>2. CancelledJobs[i].status # "complete" \/ job[i].status = "complete"
    BY <2>1 DEF CancelledJobs, JobRow
  <2> QED BY <1>2, <1>6, <2>2
<1>9. ASSUME NEW i \in Job, NEW k \in Job, i < k, K[k].status # "none" PROVE K[i].status \in JobOver
  <2>1. job[i].status # "none" /\ i # j
    <3>1. CASE k = j
      BY <1>1, <1>9, <3>1
    <3>2. CASE k # j
      <4>1. job[k].status # "none"
        BY <1>6, <1>9, <3>2, CancelledGoes
      <4>2. job[i].status \in JobOver /\ "none" \notin JobOver
        BY <1>9, <4>1 DEF IInv, JobInv, Ordered, JobOver
      <4> QED BY <1>1, <4>2
    <3> QED BY <1>9, <3>1, <3>2 DEF Job
  <2> QED BY <1>6, <2>1, CancelledGoes
<1>10. \A i \in Job : job[i].status # "none" => K[i] = CancelledJobs[i]
  BY <1>1, <1>6
<1> QED BY <1>2, <1>6, <1>7, <1>8, <1>9, <1>10 DEF K

\* A step that cancels what is live, and what is left of the others.
LEMMA CancelMoves ==
  ASSUME IInv, job' \in [Job -> JobRow], \A i \in Job : JobGoes(job[i], job'[i]) /\ JobFits(job'[i]),
         \A i \in Job : job'[i].status # "complete" \/ job[i].status = "complete",
         \A i, k \in Job : i < k /\ job'[k].status # "none" => job'[i].status \in JobOver,
         file' \in [File -> FileRow], faults' \in 0..MaxFaults, faults <= faults',
         \A f \in File : /\ Placed(file'[f], job'[file'[f].job]) /\ Paid(file'[f], job'[file'[f].job], faults')
                         /\ RowGoes(file[f], file'[f], job[file'[f].job].status)
  PROVE  Moves
<1>1. JobInv' /\ RowsInv'
  BY DEF JobInv, Ordered, RowsInv
<1> QED BY <1>1 DEF Moves

LEMMA CancelledFunction == CancelledFiles = [f \in File |-> CancelledFiles[f]]
BY DEF CancelledFiles

LEMMA StopStep == ASSUME IInv, Stop PROVE Ordinary
<1>1. job' = CancelledJobs /\ file' = CancelledFiles /\ UNCHANGED <<notes, queue, worker, faults>>
  BY DEF Stop
<1>2. job' \in [Job -> JobRow]
  <2>1. CancelledJobs = [i \in Job |-> CancelledJobs[i]]
    BY DEF CancelledJobs
  <2> QED BY <1>1, <2>1, CancelledGoes
<1>3. \A i \in Job : JobGoes(job[i], job'[i]) /\ JobFits(job'[i])
  BY <1>1, CancelledGoes
<1>4. \A i \in Job : job'[i].status # "complete" \/ job[i].status = "complete"
  BY <1>1 DEF CancelledJobs
<1>5. \A i, k \in Job : i < k /\ job'[k].status # "none" => job'[i].status \in JobOver
  <2> SUFFICES ASSUME NEW i \in Job, NEW k \in Job, i < k, job'[k].status # "none"
               PROVE  job'[i].status \in JobOver
    OBVIOUS
  <2>1. job[k].status # "none"
    BY <1>1, CancelledGoes
  <2>2. job[i].status \in JobOver
    BY <2>1 DEF IInv, JobInv, Ordered
  <2> QED BY <1>1, <2>2, CancelledGoes
<1>6. faults \in Nat /\ faults' = faults /\ faults' \in 0..MaxFaults /\ faults <= faults' /\ queue' \subseteq Mail
  BY <1>1, CanvasAssumption DEF IInv, TypeOK
<1>7. ASSUME NEW f \in File
      PROVE  /\ file'[f] \in FileRow
             /\ Placed(file'[f], job'[file'[f].job]) /\ Paid(file'[f], job'[file'[f].job], faults')
             /\ RowGoes(file[f], file'[f], job[file'[f].job].status)
  <2>1. /\ CancelledFiles[f] \in FileRow /\ CancelledFiles[f].job = file[f].job
        /\ Placed(CancelledFiles[f], job'[file[f].job]) /\ Paid(CancelledFiles[f], job'[file[f].job], faults')
        /\ RowGoes(file[f], CancelledFiles[f], job[file[f].job].status)
    BY <1>1, <1>2, <1>3, <1>6, CancelRows
  <2> QED BY <1>1, <2>1
<1>8. file' \in [File -> FileRow]
  BY <1>1, <1>7, CancelledFunction
<1>9. Moves
  BY <1>2, <1>3, <1>4, <1>5, <1>6, <1>7, <1>8, CancelMoves
<1> QED BY <1>1, <1>6, <1>9, SameNotes, SameWorkers DEF Ordinary

LEMMA StartStep == ASSUME IInv, NEW j \in Job, StartRun(j) PROVE Ordinary
<1>1. /\ Unused(j) /\ job' = [CancelledJobs EXCEPT ![j].status = "queued"] /\ file' = CancelledFiles
      /\ Publish(DiscoverMessage(j)) /\ UNCHANGED <<notes, worker>>
  BY DEF StartRun
<1>2. queue' \subseteq Mail /\ (Fault \/ UNCHANGED faults)
  BY <1>1, Messages, PublishQueues
<1>3. faults \in Nat /\ faults' \in Nat /\ faults' \in 0..MaxFaults /\ faults <= faults'
  BY <1>2, FaultGoes DEF IInv
<1>4. /\ job' \in [Job -> JobRow] /\ \A i \in Job : JobGoes(job[i], job'[i]) /\ JobFits(job'[i])
      /\ \A i \in Job : job[i].status # "none" => job'[i] = CancelledJobs[i]
      /\ \A i \in Job : job'[i].status # "complete" \/ job[i].status = "complete"
      /\ \A i, k \in Job : i < k /\ job'[k].status # "none" => job'[i].status \in JobOver
  BY <1>1, Begins DEF Started
<1>5. ASSUME NEW f \in File
      PROVE  /\ file'[f] \in FileRow
             /\ Placed(file'[f], job'[file'[f].job]) /\ Paid(file'[f], job'[file'[f].job], faults')
             /\ RowGoes(file[f], file'[f], job[file'[f].job].status)
  <2>1. /\ CancelledFiles[f] \in FileRow /\ CancelledFiles[f].job = file[f].job
        /\ Placed(CancelledFiles[f], job'[file[f].job]) /\ Paid(CancelledFiles[f], job'[file[f].job], faults')
        /\ RowGoes(file[f], CancelledFiles[f], job[file[f].job].status)
    BY <1>3, <1>4, CancelRows
  <2> QED BY <1>1, <2>1
<1>6. file' \in [File -> FileRow]
  BY <1>1, <1>5, CancelledFunction
<1>7. Moves
  BY <1>3, <1>4, <1>5, <1>6, CancelMoves
<1> QED BY <1>1, <1>2, <1>7, SameNotes, SameWorkers DEF Ordinary

LEMMA RetryRunStep == ASSUME IInv, NEW j \in Job, RetryRun(j) PROVE Ordinary
<1>1. PICK i \in Job :
        /\ Unused(j) /\ job[i].status \in {"complete", "failed"}
        /\ \E chosen \in SUBSET {f \in Files(i) : file[f].status = "error"} :
             /\ job' = [CancelledJobs EXCEPT ![j].status = "processing"]
             /\ file' = [f \in File |-> IF f \in chosen THEN Fresh(file[f], j, "pending")
                                                        ELSE CancelledFiles[f]]
        /\ UNCHANGED <<notes, queue, worker, faults>>
  BY DEF RetryRun
<1>2. PICK chosen \in SUBSET {f \in Files(i) : file[f].status = "error"} :
        /\ job' = [CancelledJobs EXCEPT ![j].status = "processing"]
        /\ file' = [f \in File |-> IF f \in chosen THEN Fresh(file[f], j, "pending")
                                                   ELSE CancelledFiles[f]]
  BY <1>1
<1>3. faults \in Nat /\ faults' = faults /\ faults' \in 0..MaxFaults /\ faults <= faults' /\ queue' \subseteq Mail
  BY <1>1, CanvasAssumption DEF IInv, TypeOK
<1>4. /\ job' \in [Job -> JobRow] /\ \A k \in Job : JobGoes(job[k], job'[k]) /\ JobFits(job'[k])
      /\ \A k \in Job : job[k].status # "none" => job'[k] = CancelledJobs[k]
      /\ \A k \in Job : job'[k].status # "complete" \/ job[k].status = "complete"
      /\ \A k, l \in Job : k < l /\ job'[l].status # "none" => job'[k].status \in JobOver
      /\ job'[j].status = "processing"
  <2>1. Unused(j)
    BY <1>1
  <2>2. job' = Started(j, "processing")
    BY <1>2 DEF Started
  <2> QED BY <2>1, <2>2, Begins
<1>5. i < j
  <2>1. job[j].status = "none" /\ job[i].status # "none" /\ "none" \notin JobOver
    BY <1>1 DEF Unused, JobOver
  <2>2. ~(j < i) /\ i # j
    BY <2>1 DEF IInv, JobInv, Ordered
  <2> QED BY <2>2 DEF Job
<1>6. ASSUME NEW f \in File
      PROVE  /\ file'[f] \in FileRow
             /\ Placed(file'[f], job'[file'[f].job]) /\ Paid(file'[f], job'[file'[f].job], faults')
             /\ RowGoes(file[f], file'[f], job[file'[f].job].status)
  <2>1. CASE f \in chosen
    <3> DEFINE b == Fresh(file[f], j, "pending")
    <3>1. file'[f] = b /\ file[f].job = i /\ file[f] \in FileRow
      BY <1>2, <2>1 DEF Files, IInv, TypeOK
    <3>2. "pending" \in Open \cup Closed
      BY DEF Open
    <3>3. /\ b \in FileRow /\ b.status = "pending" /\ b.job = j /\ b.token = 0 /\ b.claims = 0
          /\ b.executions = 0 /\ b.retries = 0
      BY <3>1, <3>2, FreshRow
    <3> HIDE DEF b
    <3>4. job'[j] \in JobRow
      BY <1>4
    <3>5. Placed(b, job'[j]) /\ Paid(b, job'[j], faults')
      BY <1>3, <1>4, <3>3, <3>4, FreshFits
    <3>6. job[j].status = "none"
      BY <1>1 DEF Unused
    <3>7. file[f].job <= b.job /\ file[f].job # b.job
      BY <1>5, <3>1, <3>3 DEF Job
    <3>8. RowGoes(file[f], b, job[j].status)
      BY <3>6, <3>7 DEF RowGoes
    <3> QED BY <3>1, <3>3, <3>5, <3>8
  <2>2. CASE f \notin chosen
    <3>1. /\ CancelledFiles[f] \in FileRow /\ CancelledFiles[f].job = file[f].job
          /\ Placed(CancelledFiles[f], job'[file[f].job]) /\ Paid(CancelledFiles[f], job'[file[f].job], faults')
          /\ RowGoes(file[f], CancelledFiles[f], job[file[f].job].status)
      BY <1>3, <1>4, CancelRows
    <3> QED BY <1>2, <2>2, <3>1
  <2> QED BY <2>1, <2>2
<1>7. file' \in [File -> FileRow]
  <2> DEFINE G(f) == IF f \in chosen THEN Fresh(file[f], j, "pending") ELSE CancelledFiles[f]
  <2>1. file' = [f \in File |-> G(f)]
    BY <1>2
  <2> HIDE DEF G
  <2>2. \A f \in File : file'[f] = G(f)
    BY <2>1
  <2> QED BY <1>6, <2>1, <2>2
<1>8. Moves
  BY <1>3, <1>4, <1>6, <1>7, CancelMoves
<1> QED BY <1>1, <1>3, <1>8, SameNotes, SameWorkers DEF Ordinary

-----------------------------------------------------------------------------
(***************************************************************************)
(* The theorems.                                                           *)
(***************************************************************************)
LEMMA InitInv == Init => IInv
<1> SUFFICES ASSUME Init PROVE IInv
  OBVIOUS
<1>1. Idle \in WorkerState /\ Idle.pc = "idle"
  BY DEF Idle, WorkerState
<1>2. TypeOK
  <2>1. job \in [Job -> JobRow]
    BY CanvasAssumption DEF Init, JobRow
  <2>2. file \in [File -> FileRow]
    BY CanvasAssumption DEF Init, FileRow
  <2>3. notes \in [File -> Claim]
    BY DEF Init, Claim
  <2>4. worker \in [Worker -> WorkerState] /\ queue \subseteq Message /\ faults \in 0..MaxFaults
    BY <1>1, CanvasAssumption DEF Init
  <2> QED BY <2>1, <2>2, <2>3, <2>4 DEF TypeOK
<1>3. JobInv
  BY DEF Init, JobInv, Ordered, JobFits
<1>4. RowsInv
  <2> SUFFICES ASSUME NEW f \in File
               PROVE  Placed(file[f], job[file[f].job]) /\ Paid(file[f], job[file[f].job], faults)
    BY DEF RowsInv
  <2>1. file[f].status = "none" /\ file[f].job = 0 /\ file[f].token = 0
    BY DEF Init
  <2> QED BY <2>1, Statuses DEF Placed, Paid, Open, Running, Staged, Unstaged
<1>5. WorkersInv
  BY <1>1 DEF Init, WorkersInv, WorkerInv, HasFile, FilePc, ExtractPc
<1>6. queue \subseteq Mail
  BY DEF Init
<1> QED BY <1>2, <1>3, <1>4, <1>5, <1>6 DEF IInv

LEMMA StepKeeps == ASSUME IInv, Next PROVE Sound
<1>1. ASSUME NEW w \in Worker, Take(w) PROVE Sound
  BY <1>1, TakeDiscoverStep, OrdinaryKeeps, TakeFileStep, TakeExtractStep, TakeRetryStep DEF Take
<1>2. ASSUME NEW w \in Worker, Work(w) \/ Die(w) PROVE Sound
  <2>1. CASE \E f \in File : List(w, f)
    BY <2>1, ListStep, OrdinaryKeeps
  <2>2. CASE EndListing(w) \/ FailListing(w)
    BY <2>2, JobSteps, AbandonSteps, OrdinaryKeeps
  <2>3. CASE Forbid(w) \/ Complete(w) \/ LoseSource(w)
    BY <2>3, ClosingSteps, OrdinaryKeeps
  <2>4. CASE Store(w) \/ Reuse(w) \/ Index(w)
    BY <2>4, StoreSteps, IndexStep, OrdinaryKeeps
  <2>5. CASE WaitForCache(w) \/ Stage(w) \/ FailFile(w)
    BY <2>5, WaitStep, StageStep, FailFileStep, OrdinaryKeeps
  <2>6. CASE SendToMarker(w) \/ FailExtract(w)
    BY <2>6, MarkerStep, FailExtractStep, OrdinaryKeeps
  <2>7. CASE LoseClaim(w) \/ Count(w) \/ Die(w)
    BY <2>7, LookSteps, OrdinaryKeeps
  <2>8. CASE Finish(w)
    BY <2>8, FinishStep, OrdinaryKeeps
  <2> QED BY <1>2, <2>1, <2>2, <2>3, <2>4, <2>5, <2>6, <2>7, <2>8 DEF Work
<1>3. ASSUME NEW j \in Job, StartRun(j) \/ RetryRun(j) \/ RepairJob(j) \/ LapseDiscovery(j) PROVE Sound
  BY <1>3, StartStep, RetryRunStep, SendSteps, AbandonSteps, JobSteps, OrdinaryKeeps DEF RepairJob
<1>4. ASSUME NEW f \in File, RepairFile(f) PROVE Sound
  BY <1>4, SendSteps, WaitingStep, ReclaimStep, RecoverFileStep, OrdinaryKeeps DEF RepairFile
<1>5. ASSUME NEW f \in File, MarkerEnds(f) \/ ComeDue(f) \/ Lapse(f) PROVE Sound
  BY <1>5, MarkerEndsStep, TimeSteps, OrdinaryKeeps
<1>6. CASE Stop
  BY <1>6, StopStep, OrdinaryKeeps
<1> QED BY <1>1, <1>2, <1>3, <1>4, <1>5, <1>6 DEF Next

LEMMA StutterKeeps == ASSUME IInv, UNCHANGED vars PROVE Sound
<1>1. UNCHANGED <<job, file, notes, queue, worker, faults>>
  BY DEF vars
<1>2. Goes
  BY <1>1, SameWorkers
<1> QED BY <1>1, <1>2, WorkerOnly, OrdinaryKeeps

LEMMA Steps == ASSUME IInv, [Next]_vars PROVE Sound
BY StepKeeps, StutterKeeps

(***************************************************************************)
(* The inductive invariant holds, for any files, workers, jobs, attempts,  *)
(* retries and faults, with claim recovery enabled or not.                 *)
(***************************************************************************)
THEOREM Inductive == Spec => []IInv
<1>1. IInv /\ [Next]_vars => IInv'
  BY Steps DEF Sound
<1> QED BY InitInv, <1>1, PTL DEF Spec

(***************************************************************************)
(* The state of CanvasImport keeps its types; no job is attempted, and no  *)
(* extraction retried, oftener than its limit.                             *)
(***************************************************************************)
THEOREM TypeCorrect == Spec => []TypeOK
<1>1. IInv => TypeOK
  BY DEF IInv
<1> QED BY <1>1, Inductive, PTL

(***************************************************************************)
(* A run that was stopped or failed leaves no file behind, and nobody      *)
(* works on the files of one that waits for its discovery                  *)
(* (cancelActiveCanvasImportJobs, recoverCanvasExecutions).                *)
(***************************************************************************)
THEOREM StoppedHasNoWorkCorrect == Spec => []StoppedHasNoWork
<1>1. IInv => StoppedHasNoWork
  BY DEF IInv, RowsInv, Placed, StoppedHasNoWork
<1> QED BY <1>1, Inductive, PTL

(***************************************************************************)
(* A file is claimed a bounded number of times, whatever is redelivered,   *)
(* reclaimed, recovered or queued again.                                   *)
(***************************************************************************)
THEOREM BudgetHoldsCorrect == Spec => []BudgetHolds
<1>1. IInv => BudgetHolds
  BY DEF IInv, RowsInv, Paid, BudgetHolds
<1> QED BY <1>1, Inductive, PTL

(***************************************************************************)
(* What is published as a file's notes comes from the claim the row holds, *)
(* while its run works (assertCanvasExecution).                            *)
(***************************************************************************)
THEOREM LateWorkersPublishNothingCorrect == Spec => LateWorkersPublishNothing
<1> DEFINE current == \A f \in File : notes'[f] # notes[f] =>
             notes'[f] = [job |-> file[f].job, token |-> file[f].claims] /\ Working(file[f].job)
<1>1. IInv /\ [Next]_vars => [current]_vars
  BY Steps DEF Sound, NotesGo
<1> QED BY <1>1, Inductive, PTL DEF Spec, LateWorkersPublishNothing

(***************************************************************************)
(* A run whose files were counted after its discovery ended is completed   *)
(* only when all of them are closed (checkAndCompleteJob,                  *)
(* settleStuckJobs).                                                       *)
(***************************************************************************)
THEOREM CompleteWhenDoneCorrect == Spec => CompleteWhenDone
<1> DEFINE done == \A j \in Job : job[j].status = "processing" /\ job'[j].status = "complete" =>
             Done(j) \/ \E w \in Worker : worker[w].pc = "countedEarly" /\ worker[w].job = j
<1>1. IInv /\ [Next]_vars => [done]_vars
  BY Steps DEF Sound, Moves, Early
<1> QED BY <1>1, Inductive, PTL DEF Spec, CompleteWhenDone

(***************************************************************************)
(* No late worker or sweep changes a run that is over, or opens a closed   *)
(* file unless another run takes it.                                       *)
(***************************************************************************)
THEOREM OverIsFinalCorrect == Spec => OverIsFinal
<1> DEFINE final == /\ \A j \in Job : job[j].status \in JobOver => job'[j] = job[j]
                    /\ \A f \in File : file[f].status \in Closed =>
                         file'[f].status = file[f].status \/ file'[f].job # file[f].job
<1>1. IInv /\ [Next]_vars => [final]_vars
  <2> SUFFICES ASSUME IInv, [Next]_vars PROVE final
    OBVIOUS
  <2>1. Moves
    BY Steps DEF Sound
  <2>2. \A j \in Job : job[j].status \in JobOver => job'[j] = job[j]
    BY <2>1 DEF Moves, JobGoes
  <2>3. \A f \in File : file[f].status \in Closed =>
          file'[f].status = file[f].status \/ file'[f].job # file[f].job
    BY <2>1 DEF Moves, RowGoes
  <2> QED BY <2>2, <2>3
<1> QED BY <1>1, Inductive, PTL DEF Spec, OverIsFinal
=============================================================================
