----------------------------- MODULE ChatReplay -----------------------------
(***************************************************************************)
(* Delivery of one generation's events: each worker run writes through a   *)
(* bounded buffer (redis-event-writer.ts) to the generation's Redis Stream *)
(* (generation-store.ts), and the stream route reads it for one browser    *)
(* that reconnects after its last event.                                   *)
(*                                                                         *)
(* What decides between runs (leases, attempts, Stop) is ChatGeneration's; *)
(* here a run owns the row until another claims it, and may lose it or die *)
(* at any time.  An event stands for one SSE block that reached the        *)
(* buffer: a paragraph, a tool call, a result.                             *)
(*                                                                         *)
(* The stream is the log of everything appended and the length DEL cut it  *)
(* at; a position in the log is an event id.  Redis takes ids from its     *)
(* clock, so ids are assumed to keep growing over a DEL.                   *)
(***************************************************************************)
EXTENDS Integers, Sequences, FiniteSets

CONSTANTS
  MaxRuns,     \* worker runs that may claim the generation
  MaxTokens,   \* events a run produces
  MaxPending,  \* DEFAULT_MAX_PENDING_CHAT_EVENTS
  ReadCount,   \* COUNT of XREAD
  MaxDrops     \* connections the browser loses

ASSUME ReplayAssumption ==
  /\ MaxRuns \in Nat \ {0} /\ MaxTokens \in Nat /\ MaxDrops \in Nat
  /\ MaxPending \in Nat \ {0} /\ ReadCount \in Nat \ {0}

VARIABLES
  status,   \* chat_generations.status
  claimed,  \* runs that have claimed the row so far
  phase,    \* [Run -> Phase]: where processChatGeneration is
  made,     \* [Run -> events the run produced]
  queue,    \* [Run -> Seq(Event)]: accepted by the buffer; the head is in flight
  stopped,  \* [Run -> BOOLEAN]: the buffer takes no more events
  log,      \* every event XADD stored
  floor,    \* events of log that DEL removed
  late,     \* a run another had superseded wrote to the stream (history)
  pc,       \* the stream route, or "lost" while the browser is disconnected
  replay,   \* replayAvailable
  batch,    \* events of the last XREAD not yet delivered
  empty,    \* whether the last XREAD returned nothing
  cursor,   \* the browser's last event id
  view,     \* what the browser shows
  end,      \* the terminal event the browser got
  drops

workerVars == <<phase, made, queue, stopped>>
streamVars == <<log, floor, late>>
readerVars == <<pc, replay, batch, empty, cursor, view, end, drops>>
vars == <<status, claimed, workerVars, streamVars, readerVars>>

Run == 1..MaxRuns
Phase == {"new", "opening", "resetting", "streaming", "failing", "over"}
Terminal == {"completed", "failed", "cancelled"}
Token == [run : Run, kind : {"token"}, n : 1..MaxTokens]
Mark == [run : Run, kind : {"reset", "done", "error"}, n : {0}]
Event == Token \cup Mark
NoEnd == [kind |-> "none", run |-> 0]

TypeOK ==
  /\ status \in {"queued", "generating"} \cup Terminal
  /\ claimed \in 0..MaxRuns
  /\ phase \in [Run -> Phase]
  /\ made \in [Run -> 0..MaxTokens]
  /\ queue \in [Run -> Seq(Event)] /\ \A r \in Run : Len(queue[r]) <= MaxPending
  /\ stopped \in [Run -> BOOLEAN]
  /\ log \in Seq(Event) /\ floor \in 0..Len(log) /\ late \in BOOLEAN
  /\ pc \in {"reading", "delivering", "loading", "lost", "over"}
  /\ replay \in BOOLEAN /\ empty \in BOOLEAN
  /\ batch \in Seq(Event) /\ Len(batch) <= ReadCount
  /\ cursor \in 0..Len(log)
  /\ view \in Seq(Token)
  /\ end \in [kind : {"none", "done", "error"}, run : 0..MaxRuns]
  /\ drops \in 0..MaxDrops

Init ==
  /\ status = "queued" /\ claimed = 0
  /\ phase = [r \in Run |-> "new"] /\ made = [r \in Run |-> 0]
  /\ queue = [r \in Run |-> <<>>] /\ stopped = [r \in Run |-> FALSE]
  /\ log = <<>> /\ floor = 0 /\ late = FALSE
  /\ pc = "reading" /\ replay = TRUE /\ batch = <<>> /\ empty = TRUE
  /\ cursor = 0 /\ view = <<>> /\ end = NoEnd /\ drops = 0

-----------------------------------------------------------------------------
(* The buffer.                                                             *)

Enqueue(r, event) ==
  LET full == Len(queue[r]) = MaxPending
  IN /\ stopped' = [stopped EXCEPT ![r] = @ \/ full]
     /\ queue' = IF stopped[r] \/ full THEN queue
                 ELSE [queue EXCEPT ![r] = Append(@, event)]

\* What has been handed to Redis cannot be recalled; the rest is dropped.
Discard(r) ==
  /\ stopped' = [stopped EXCEPT ![r] = TRUE]
  /\ queue' = [queue EXCEPT ![r] = SubSeq(@, 1, IF @ = <<>> THEN 0 ELSE 1)]

Writes(r) == late' = (late \/ r # claimed)

Stored(r) ==
  /\ queue[r] # <<>>
  /\ log' = Append(log, Head(queue[r]))
  /\ queue' = [queue EXCEPT ![r] = Tail(@)]
  /\ Writes(r)
  /\ UNCHANGED <<stopped, status, claimed, phase, made, floor, readerVars>>

\* Mutant: after a failed append the next one is tried.
AppendSkips(r) ==
  /\ queue[r] # <<>>
  /\ log' \in {log, Append(log, Head(queue[r]))}
  /\ queue' = [queue EXCEPT ![r] = Tail(@)]
  /\ Writes(r)
  /\ UNCHANGED <<stopped, status, claimed, phase, made, floor, readerVars>>

\* XADD or EXPIRE fails, whether or not the event was stored: nothing more of
\* this run is sent.
AppendFails(r) ==
  /\ queue[r] # <<>>
  /\ log' \in {log, Append(log, Head(queue[r]))}
  /\ queue' = [queue EXCEPT ![r] = <<>>]
  /\ stopped' = [stopped EXCEPT ![r] = TRUE]
  /\ Writes(r)
  /\ UNCHANGED <<status, claimed, phase, made, floor, readerVars>>

-----------------------------------------------------------------------------
(* The runs.                                                               *)

Owns(r) == status = "generating" /\ claimed = r
Live(r) == phase[r] \in {"opening", "resetting", "streaming", "failing"}

\* Mutant: a rerun streams behind what the replay already holds.
ClaimForgets(r) ==
  /\ r = claimed + 1
  /\ status \in {"queued", "generating"}
  /\ status' = "generating" /\ claimed' = r
  /\ phase' = [phase EXCEPT ![r] = "streaming"]
  /\ UNCHANGED <<made, queue, stopped, streamVars, readerVars>>

\* A queued row, or a generating one whose lease has lapsed; a run that is not
\* the first clears the replay before it streams.
Claim(r) ==
  /\ r = claimed + 1
  /\ status \in {"queued", "generating"}
  /\ status' = "generating" /\ claimed' = r
  /\ phase' = [phase EXCEPT ![r] = IF r = 1 THEN "streaming" ELSE "opening"]
  /\ UNCHANGED <<made, queue, stopped, streamVars, readerVars>>

ResetDeletes(r) ==
  /\ phase[r] = "opening"
  /\ \/ floor' = Len(log) /\ phase' = [phase EXCEPT ![r] = "resetting"]
     \/ floor' \in {floor, Len(log)} /\ phase' = [phase EXCEPT ![r] = "failing"]
  /\ Writes(r)
  /\ UNCHANGED <<status, claimed, made, queue, stopped, log, readerVars>>

ResetAppends(r) ==
  LET reset == Append(log, [run |-> r, kind |-> "reset", n |-> 0])
  IN /\ phase[r] = "resetting"
     /\ \/ log' = reset /\ phase' = [phase EXCEPT ![r] = "streaming"]
        \/ log' \in {log, reset} /\ phase' = [phase EXCEPT ![r] = "failing"]
     /\ Writes(r)
     /\ UNCHANGED <<status, claimed, made, queue, stopped, floor, readerVars>>

Produce(r) ==
  /\ phase[r] = "streaming" /\ made[r] < MaxTokens
  /\ made' = [made EXCEPT ![r] = @ + 1]
  /\ Enqueue(r, [run |-> r, kind |-> "token", n |-> made[r] + 1])
  /\ UNCHANGED <<status, claimed, phase, streamVars, readerVars>>

\* The settling write, then the terminal event.  A run can be stopped at entry,
\* before it resets the replay.
Settle(r, outcome) ==
  /\ Owns(r) /\ Live(r)
  /\ outcome = "completed" => phase[r] = "streaming"
  /\ status' = outcome
  /\ phase' = [phase EXCEPT ![r] = "over"]
  /\ Enqueue(r, [run |-> r, n |-> 0,
                 kind |-> IF outcome = "failed" THEN "error" ELSE "done"])
  /\ UNCHANGED <<claimed, made, streamVars, readerVars>>

\* Mutant: the attempt's error is announced although it will be retried.
RequeueAnnounces(r) ==
  /\ Owns(r) /\ phase[r] \in {"streaming", "failing"} /\ made[r] = 0
  /\ status' = "queued"
  /\ phase' = [phase EXCEPT ![r] = "over"]
  /\ Enqueue(r, [run |-> r, n |-> 0, kind |-> "error"])
  /\ UNCHANGED <<claimed, made, streamVars, readerVars>>

\* A failure before any output is retried without an event.
Requeue(r) ==
  /\ Owns(r) /\ phase[r] \in {"streaming", "failing"} /\ made[r] = 0
  /\ status' = "queued"
  /\ phase' = [phase EXCEPT ![r] = "over"]
  /\ UNCHANGED <<claimed, made, queue, stopped, streamVars, readerVars>>

\* The watchdog or a settling write finds the lease gone, or the process dies.
Lose(r) ==
  /\ Live(r)
  /\ phase' = [phase EXCEPT ![r] = "over"]
  /\ Discard(r)
  /\ UNCHANGED <<status, claimed, made, streamVars, readerVars>>

\* Stop settles queued, lapsed and revoked rows, and the route fails a queued one
\* it could not publish; neither writes an event.
SettleOutside ==
  /\ \/ status \in {"queued", "generating"} /\ status' = "cancelled"
     \/ status = "queued" /\ status' = "failed"
  /\ UNCHANGED <<claimed, workerVars, streamVars, readerVars>>

-----------------------------------------------------------------------------
(* The stream route and its browser.                                       *)

\* XREAD; an empty reply is the end of BLOCK.
Read ==
  LET from == IF cursor < floor THEN floor ELSE cursor
      upTo == IF Len(log) < from + ReadCount THEN Len(log) ELSE from + ReadCount
  IN /\ pc = "reading" /\ replay
     /\ batch' = SubSeq(log, from + 1, upTo)
     /\ empty' = (batch' = <<>>)
     /\ pc' = IF empty' THEN "loading" ELSE "delivering"
     /\ cursor' = from
     /\ UNCHANGED <<status, claimed, workerVars, streamVars, replay, view, end, drops>>

\* A failed read turns the connection to PostgreSQL, which it then polls.
ReadFails ==
  /\ pc = "reading" /\ replay' = FALSE
  /\ empty' = TRUE /\ pc' = "loading"
  /\ UNCHANGED <<status, claimed, workerVars, streamVars, batch, cursor, view, end, drops>>

Deliver ==
  LET event == Head(batch)
      last == event.kind \in {"done", "error"}
  IN /\ pc = "delivering"
     /\ cursor' = cursor + 1
     /\ batch' = IF last THEN <<>> ELSE Tail(batch)
     /\ view' = IF event.kind = "reset" THEN <<>>
                ELSE IF last THEN view ELSE Append(view, event)
     /\ end' = IF last THEN [kind |-> event.kind, run |-> event.run] ELSE end
     /\ pc' = IF last THEN "over" ELSE IF batch' = <<>> THEN "loading" ELSE pc
     /\ UNCHANGED <<status, claimed, workerVars, streamVars, replay, empty, drops>>

\* Mutant: only a completed or failed row ends an idle replay.
LoadForgetsStopped ==
  LET over == empty /\ status \in {"completed", "failed"}
  IN /\ pc = "loading"
     /\ pc' = IF over THEN "over" ELSE "reading"
     /\ end' = IF over
                 THEN [kind |-> IF status = "failed" THEN "error" ELSE "done", run |-> 0]
                 ELSE end
     /\ UNCHANGED <<status, claimed, workerVars, streamVars, replay, batch, empty, cursor, view, drops>>

\* The row is reloaded; once it is settled and the replay has run dry, its own
\* terminal event is sent.
Load ==
  LET over == empty /\ status \in Terminal
  IN /\ pc = "loading"
     /\ pc' = IF over THEN "over" ELSE "reading"
     /\ end' = IF over
                 THEN [kind |-> IF status = "failed" THEN "error" ELSE "done", run |-> 0]
                 ELSE end
     /\ UNCHANGED <<status, claimed, workerVars, streamVars, replay, batch, empty, cursor, view, drops>>

Drop ==
  /\ pc \in {"reading", "delivering", "loading"} /\ drops < MaxDrops
  /\ drops' = drops + 1
  /\ pc' = "lost" /\ batch' = <<>>
  /\ UNCHANGED <<status, claimed, workerVars, streamVars, replay, empty, cursor, view, end>>

Reconnect ==
  /\ pc = "lost"
  /\ pc' = "reading" /\ replay' = TRUE
  /\ UNCHANGED <<status, claimed, workerVars, streamVars, batch, empty, cursor, view, end, drops>>

RunStep(r) ==
  \/ Claim(r) \/ ResetDeletes(r) \/ ResetAppends(r) \/ Produce(r)
  \/ (\E outcome \in Terminal : Settle(r, outcome)) \/ Requeue(r) \/ Lose(r)
  \/ Stored(r) \/ AppendFails(r)

Reader == Read \/ ReadFails \/ Deliver \/ Load \/ Reconnect

Next == (\E r \in Run : RunStep(r)) \/ SettleOutside \/ Reader \/ Drop

Spec == Init /\ [][Next]_vars

\* A request keeps running, whatever Redis does: a read returns or fails.
FairSpec == Spec /\ WF_vars(Reader)

-----------------------------------------------------------------------------

Shown(r) == {i \in DOMAIN view : view[i].run = r}

\* A browser is told done or error only for a row that is settled, and settled
\* that way: neither a retried attempt nor a run that lost its lease ends it.
EndIsDurable ==
  /\ end.kind = "done" => status \in {"completed", "cancelled"}
  /\ end.kind = "error" => status = "failed"

\* What the browser shows of the newest run starts at its first event and skips
\* none, whatever appends fail or overflow and wherever it reconnects.
NoGaps ==
  ~late => \A i \in Shown(claimed) : view[i].n = Cardinality({j \in Shown(claimed) : j <= i})

\* A run's own terminal event reaches the browser only behind everything the run
\* produced; without it the browser waits for the row's.
EndIsWhole ==
  ~late /\ end.run # 0 => Cardinality(Shown(end.run)) = made[end.run]

\* While superseded runs keep off the stream the browser never mixes two runs.
OneRunShown ==
  ~late => \A i, j \in DOMAIN view : view[i].run = view[j].run

\* The reset of a rerun makes the browser drop the old run's output, and a run that
\* lost its lease adds nothing to the new one's replay.
ResetDropsOldRun == \A i, j \in DOMAIN view : view[i].run = view[j].run

\* Once the row is settled every attached browser is told, with or without Redis.
EventuallyTold == status \in Terminal ~> end # NoEnd
=============================================================================
