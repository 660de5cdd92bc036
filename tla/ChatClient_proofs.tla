------------------------- MODULE ChatClient_proofs -------------------------
(***************************************************************************)
(* Theorems about what a client of the chat is shown.                      *)
(*                                                                         *)
(* ChatReplay: its types, that a browser is told done or error only for a  *)
(* row that is settled that way, and that what it shows is one run's       *)
(* events from the first on, without gaps.  The events a row in a given    *)
(* state allows grow as the row settles and then stay the same, so what    *)
(* was put into a buffer, the stream or a batch stays allowed until it     *)
(* reaches the browser.                                                    *)
(*                                                                         *)
(* ChatSession, at the end: its types, and that the status of a session    *)
(* is right for a client that lets one exchange run at a time.             *)
(***************************************************************************)
EXTENDS ChatReplay, ChatSession, SequenceTheorems, FiniteSetTheorems, TLAPS

Statuses == {"queued", "generating"} \cup Terminal

Allows(s, kind) ==
  /\ kind = "done" => s \in {"completed", "cancelled"}
  /\ kind = "error" => s = "failed"

\* The events that may be on their way to the browser while the row is in s.
Allowed(s) == {event \in Event : Allows(s, event.kind)}

TruthInv ==
  /\ queue \in [Run -> Seq(Allowed(status))]
  /\ log \in Seq(Allowed(status))
  /\ batch \in Seq(Allowed(status))
  /\ Allows(status, end.kind)

\* What is being delivered lies in the log, behind the cursor.
BatchInv == pc = "delivering" => batch # <<>> /\ cursor + Len(batch) <= Len(log)

IInv == TypeOK /\ TruthInv /\ BatchInv

\* Filling the buffer keeps its elements and its bound.
LEMMA EnqueueKeeps ==
  ASSUME NEW S, NEW r \in Run, NEW event \in S, Enqueue(r, event),
         queue \in [Run -> Seq(S)], stopped \in [Run -> BOOLEAN],
         \A q \in Run : Len(queue[q]) <= MaxPending
  PROVE  /\ queue' \in [Run -> Seq(S)] /\ stopped' \in [Run -> BOOLEAN]
         /\ \A q \in Run : Len(queue'[q]) <= MaxPending
<1>1. Append(queue[r], event) \in Seq(S) /\ Len(Append(queue[r], event)) = Len(queue[r]) + 1
  OBVIOUS
<1>2. Len(queue[r]) \in Nat /\ MaxPending \in Nat
  BY ReplayAssumption
<1>3. CASE queue' = queue
  <2>1. (stopped[r] \/ (Len(queue[r]) = MaxPending)) \in BOOLEAN
    OBVIOUS
  <2> QED BY <1>3, <2>1 DEF Enqueue
<1>4. CASE queue' = [queue EXCEPT ![r] = Append(queue[r], event)] /\ Len(queue[r]) # MaxPending
  <2>1. Len(queue'[r]) <= MaxPending
    BY <1>1, <1>2, <1>4
  <2>2. \A q \in Run \ {r} : queue'[q] = queue[q]
    BY <1>4
  <2>3. queue' \in [Run -> Seq(S)]
    BY <1>1, <1>4
  <2>4. (stopped[r] \/ (Len(queue[r]) = MaxPending)) \in BOOLEAN
    OBVIOUS
  <2>5. stopped' \in [Run -> BOOLEAN]
    BY <2>4 DEF Enqueue
  <2> QED BY <2>1, <2>2, <2>3, <2>5
<1> QED BY <1>3, <1>4 DEF Enqueue

\* So does dropping all but the event in flight.
LEMMA DiscardKeeps ==
  ASSUME NEW S, NEW r \in Run, Discard(r),
         queue \in [Run -> Seq(S)], stopped \in [Run -> BOOLEAN],
         \A q \in Run : Len(queue[q]) <= MaxPending
  PROVE  /\ queue' \in [Run -> Seq(S)] /\ stopped' \in [Run -> BOOLEAN]
         /\ \A q \in Run : Len(queue'[q]) <= MaxPending
<1> DEFINE kept == SubSeq(queue[r], 1, IF queue[r] = <<>> THEN 0 ELSE 1)
<1>1. kept \in Seq(S) /\ Len(kept) <= MaxPending
  <2>1. CASE queue[r] = <<>>
    <3>1. kept = <<>>
      BY <2>1, SubSeqEmpty
    <3> QED BY <3>1, ReplayAssumption
  <2>2. CASE queue[r] # <<>>
    <3>1. Len(queue[r]) \in Nat \ {0}
      BY <2>2, EmptySeq
    <3>2. \A i \in 1..1 : queue[r][i] \in S
      BY <3>1, ElementOfSeq
    <3>3. SubSeq(queue[r], 1, 1) \in Seq(S) /\ Len(SubSeq(queue[r], 1, 1)) = 1
      BY <3>2, SubSeqProperties
    <3> QED BY <2>2, <3>3, ReplayAssumption
  <2> QED BY <2>1, <2>2
<1>2. queue' = [queue EXCEPT ![r] = kept]
  BY DEF Discard
<1>3. stopped' \in [Run -> BOOLEAN]
  BY DEF Discard
<1>4. \A q \in Run \ {r} : queue'[q] = queue[q]
  BY <1>2
<1> QED BY <1>1, <1>2, <1>3, <1>4

\* Handing the head to Redis, with or without the rest of the buffer.
LEMMA ShortenKeeps ==
  ASSUME NEW S, NEW r \in Run, queue[r] # <<>>,
         queue \in [Run -> Seq(S)], \A q \in Run : Len(queue[q]) <= MaxPending,
         NEW rest \in {Tail(queue[r]), <<>>}, queue' = [queue EXCEPT ![r] = rest]
  PROVE  /\ Head(queue[r]) \in S
         /\ queue' \in [Run -> Seq(S)]
         /\ \A q \in Run : Len(queue'[q]) <= MaxPending
<1>1. Head(queue[r]) \in S /\ Tail(queue[r]) \in Seq(S) /\ Len(Tail(queue[r])) = Len(queue[r]) - 1
  BY HeadTailProperties
<1>2. Len(queue[r]) \in Nat /\ Len(queue[r]) <= MaxPending /\ MaxPending \in Nat
  BY ReplayAssumption
<1>3. rest \in Seq(S) /\ Len(rest) <= MaxPending
  <2>1. CASE rest = <<>>
    BY <1>2, <2>1, EmptySeq
  <2>2. CASE rest = Tail(queue[r])
    BY <1>1, <1>2, <2>2
  <2> QED BY <2>1, <2>2
<1>4. \A q \in Run \ {r} : queue'[q] = queue[q]
  OBVIOUS
<1> QED BY <1>1, <1>3, <1>4

\* A row that settles allows what it allowed before, and a settled one stays.
LEMMA AllowedGrows ==
  ASSUME TypeOK, [Next]_vars
  PROVE  Allowed(status) \subseteq Allowed(status') /\ \A k : Allows(status, k) => Allows(status', k)
<1>1. status \in Terminal => status' = status
  <2>1. CASE UNCHANGED vars
    BY <2>1 DEF vars
  <2>2. ASSUME NEW r \in Run, RunStep(r) PROVE status \in Terminal => status' = status
    BY <2>2 DEF RunStep, Claim, ResetDeletes, ResetAppends, Produce, Settle, Requeue,
                Lose, Stored, AppendFails, Owns, Terminal
  <2>3. CASE SettleOutside
    BY <2>3 DEF SettleOutside, Terminal
  <2>4. CASE Reader \/ Drop
    BY <2>4 DEF Reader, Read, ReadFails, Deliver, Load, Reconnect, Drop
  <2> QED BY <2>1, <2>2, <2>3, <2>4 DEF Next
<1>2. status \in Statuses
  BY DEF TypeOK, Statuses
<1> QED BY <1>1, <1>2 DEF Allowed, Allows, Statuses, Terminal

\* The inductive invariant holds initially.
LEMMA InitInv == Init => IInv
<1> SUFFICES ASSUME Init PROVE IInv
  OBVIOUS
<1>1. <<>> \in Seq(Event) /\ <<>> \in Seq(Token) /\ <<>> \in Seq(Allowed(status))
  OBVIOUS
<1>2. Len(<<>>) = 0
  OBVIOUS
<1>3. TypeOK
  <2>1. 0 \in 0..MaxRuns /\ 0 \in 0..MaxTokens /\ 0 \in 0..MaxDrops /\ 0 \in 0..0
        /\ 0 <= MaxPending /\ 0 <= ReadCount
    BY ReplayAssumption
  <2>2. /\ phase \in [Run -> Phase] /\ made \in [Run -> 0..MaxTokens]
        /\ queue \in [Run -> Seq(Event)] /\ stopped \in [Run -> BOOLEAN]
        /\ \A r \in Run : queue[r] = <<>>
    BY <1>1, <2>1 DEF Init, Phase
  <2>3. end \in [kind : {"none", "done", "error"}, run : 0..MaxRuns]
    BY <2>1 DEF Init, NoEnd
  <2>4. \A r \in Run : Len(queue[r]) <= MaxPending
    BY <1>2, <2>1, <2>2
  <2>5. floor \in 0..Len(log) /\ cursor \in 0..Len(log) /\ Len(batch) <= ReadCount
    BY <1>2, <2>1 DEF Init
  <2> QED BY <1>1, <2>1, <2>2, <2>3, <2>4, <2>5 DEF Init, TypeOK
<1>4. TruthInv
  BY <1>1 DEF Init, TruthInv, Allows, NoEnd
<1>5. BatchInv
  BY DEF Init, BatchInv
<1> QED BY <1>3, <1>4, <1>5 DEF IInv

\* What a worker run does to the buffers and the stream.
LEMMA RunSteps ==
  ASSUME IInv, NEW r \in Run, RunStep(r)
  PROVE  IInv'
<1> USE DEF IInv
<1> DEFINE S == Allowed(status)
           T == Allowed(status')
<1>1. S \subseteq T /\ T \subseteq Event /\ \A k : Allows(status, k) => Allows(status', k)
  BY AllowedGrows DEF Next, Allowed
<1> HIDE DEF S, T
<1>2. queue \in [Run -> Seq(T)] /\ log \in Seq(T) /\ batch \in Seq(T)
  <2>1. \A q \in Run : queue[q] \in Seq(T)
    BY <1>1, SeqMonotonic DEF TruthInv, S
  <2> QED BY <1>1, <2>1, SeqMonotonic DEF TruthInv, S
<1>3. Len(log) \in Nat /\ cursor \in Nat /\ Len(batch) \in Nat /\ floor \in 0..Len(log)
  BY DEF TypeOK
<1>4. readerVars' = readerVars
  BY DEF RunStep, Claim, ResetDeletes, ResetAppends, Produce, Settle, Requeue, Lose,
         Stored, AppendFails, readerVars
<1>5. ASSUME status' \in {"queued", "generating"} \cup Terminal, claimed' \in 0..MaxRuns,
             phase' \in [Run -> Phase], made' \in [Run -> 0..MaxTokens],
             queue' \in [Run -> Seq(T)], \A q \in Run : Len(queue'[q]) <= MaxPending,
             stopped' \in [Run -> BOOLEAN], late' \in BOOLEAN,
             log' \in Seq(T), Len(log') >= Len(log), floor' \in 0..Len(log')
      PROVE  IInv'
  <2>1. \A q \in Run : queue'[q] \in Seq(Event)
    BY <1>1, <1>5, SeqMonotonic
  <2>2. log' \in Seq(Event) /\ Len(log') \in Nat
    BY <1>1, <1>5, SeqMonotonic
  <2>3. TypeOK'
    BY <1>3, <1>4, <1>5, <2>1, <2>2 DEF TypeOK, readerVars
  <2>4. TruthInv'
    BY <1>1, <1>2, <1>4, <1>5 DEF TruthInv, T, readerVars
  <2>5. BatchInv'
    BY <1>3, <1>4, <1>5, <2>2 DEF BatchInv, readerVars
  <2> QED BY <2>3, <2>4, <2>5
<1>6. CASE Claim(r) \/ ResetDeletes(r) \/ ResetAppends(r) \/ Requeue(r)
  <2>1. queue' = queue /\ stopped' = stopped /\ made' = made
    BY <1>6 DEF Claim, ResetDeletes, ResetAppends, Requeue
  <2>2. [run |-> r, kind |-> "reset", n |-> 0] \in T
    BY DEF T, Allowed, Allows, Event, Mark
  <2>3. log' \in Seq(T) /\ Len(log') >= Len(log) /\ floor' \in 0..Len(log')
    <3> DEFINE reset == Append(log, [run |-> r, kind |-> "reset", n |-> 0])
    <3>1. reset \in Seq(T) /\ Len(reset) = Len(log) + 1
      BY <1>2, <2>2
    <3>2. log' \in {log, reset} /\ floor' \in {floor, Len(log)} /\ (log' = log \/ floor' = floor)
      BY <1>6 DEF Claim, ResetDeletes, ResetAppends, Requeue, streamVars
    <3> HIDE DEF reset
    <3> QED BY <1>2, <1>3, <3>1, <3>2 DEF TypeOK
  <2>4. status' \in {"queued", "generating"} \cup Terminal /\ claimed' \in 0..MaxRuns
    <3>1. status' \in {"queued", "generating", status} /\ claimed' \in {claimed, r}
      BY <1>6 DEF Claim, ResetDeletes, ResetAppends, Requeue
    <3>2. r \in 0..MaxRuns
      BY ReplayAssumption DEF Run
    <3> QED BY <3>1, <3>2 DEF TypeOK
  <2>5. phase' \in [Run -> Phase]
    BY <1>6 DEF Claim, ResetDeletes, ResetAppends, Requeue, TypeOK, Phase
  <2>6. late' \in BOOLEAN
    BY <1>6 DEF Claim, ResetDeletes, ResetAppends, Requeue, TypeOK, streamVars, Writes
  <2>7. /\ made' \in [Run -> 0..MaxTokens] /\ stopped' \in [Run -> BOOLEAN]
        /\ queue' \in [Run -> Seq(T)] /\ \A q \in Run : Len(queue'[q]) <= MaxPending
    BY <1>2, <2>1 DEF TypeOK
  <2> QED BY <1>5, <2>3, <2>4, <2>5, <2>6, <2>7
<1>7. ASSUME NEW outcome \in Terminal, Settle(r, outcome)
      PROVE  IInv'
  <2> DEFINE event == [run |-> r, n |-> 0, kind |-> IF outcome = "failed" THEN "error" ELSE "done"]
  <2>1. event \in T /\ status' = outcome /\ Enqueue(r, event)
    BY <1>7 DEF Settle, T, Allowed, Allows, Event, Mark, Terminal
  <2> HIDE DEF event
  <2>2. /\ queue' \in [Run -> Seq(T)] /\ stopped' \in [Run -> BOOLEAN]
        /\ \A q \in Run : Len(queue'[q]) <= MaxPending
    BY <1>2, <2>1, EnqueueKeeps DEF TypeOK
  <2>3. phase' \in [Run -> Phase]
    BY <1>7 DEF Settle, TypeOK, Phase
  <2>4. UNCHANGED <<claimed, made, log, floor, late>>
    BY <1>7 DEF Settle, streamVars
  <2>5. /\ status' \in {"queued", "generating"} \cup Terminal /\ claimed' \in 0..MaxRuns
        /\ made' \in [Run -> 0..MaxTokens] /\ late' \in BOOLEAN
    BY <1>7, <2>1, <2>4 DEF TypeOK
  <2>6. log' \in Seq(T) /\ Len(log') >= Len(log) /\ floor' \in 0..Len(log')
    BY <1>2, <1>3, <2>4
  <2> QED BY <1>5, <2>2, <2>3, <2>5, <2>6
<1>8. CASE Produce(r)
  <2> DEFINE event == [run |-> r, kind |-> "token", n |-> made[r] + 1]
  <2>1. made[r] + 1 \in 1..MaxTokens
    BY <1>8, ReplayAssumption DEF Produce, TypeOK
  <2>2. event \in T /\ Enqueue(r, event)
    BY <1>8, <2>1 DEF Produce, T, Allowed, Allows, Event, Token
  <2> HIDE DEF event
  <2>3. /\ queue' \in [Run -> Seq(T)] /\ stopped' \in [Run -> BOOLEAN]
        /\ \A q \in Run : Len(queue'[q]) <= MaxPending
    BY <1>2, <2>2, EnqueueKeeps DEF TypeOK
  <2>4. made' \in [Run -> 0..MaxTokens]
    BY <1>8, <2>1, ReplayAssumption DEF Produce, TypeOK
  <2>5. UNCHANGED <<status, claimed, phase, log, floor, late>>
    BY <1>8 DEF Produce, streamVars
  <2>6. /\ status' \in {"queued", "generating"} \cup Terminal /\ claimed' \in 0..MaxRuns
        /\ phase' \in [Run -> Phase] /\ late' \in BOOLEAN
    BY <2>5 DEF TypeOK
  <2>7. log' \in Seq(T) /\ Len(log') >= Len(log) /\ floor' \in 0..Len(log')
    BY <1>2, <1>3, <2>5
  <2> QED BY <1>5, <2>3, <2>4, <2>6, <2>7
<1>9. CASE Lose(r)
  <2>1. /\ queue' \in [Run -> Seq(T)] /\ stopped' \in [Run -> BOOLEAN]
        /\ \A q \in Run : Len(queue'[q]) <= MaxPending
    BY <1>2, <1>9, DiscardKeeps DEF Lose, TypeOK
  <2>2. phase' \in [Run -> Phase]
    BY <1>9 DEF Lose, TypeOK, Phase
  <2>3. UNCHANGED <<status, claimed, made, log, floor, late>>
    BY <1>9 DEF Lose, streamVars
  <2>4. /\ status' \in {"queued", "generating"} \cup Terminal /\ claimed' \in 0..MaxRuns
        /\ made' \in [Run -> 0..MaxTokens] /\ late' \in BOOLEAN
    BY <2>3 DEF TypeOK
  <2>5. log' \in Seq(T) /\ Len(log') >= Len(log) /\ floor' \in 0..Len(log')
    BY <1>2, <1>3, <2>3
  <2> QED BY <1>5, <2>1, <2>2, <2>4, <2>5
<1>10. CASE Stored(r) \/ AppendFails(r)
  <2>1. queue[r] # <<>>
    BY <1>10 DEF Stored, AppendFails
  <2>2. PICK rest \in {Tail(queue[r]), <<>>} : queue' = [queue EXCEPT ![r] = rest]
    BY <1>10 DEF Stored, AppendFails
  <2>3. /\ Head(queue[r]) \in T
        /\ queue' \in [Run -> Seq(T)] /\ \A q \in Run : Len(queue'[q]) <= MaxPending
    BY <1>2, <2>1, <2>2, ShortenKeeps DEF TypeOK
  <2>4. stopped' \in [Run -> BOOLEAN] /\ late' \in BOOLEAN
    BY <1>10 DEF Stored, AppendFails, Writes, TypeOK
  <2>5. log' \in {log, Append(log, Head(queue[r]))} /\ floor' = floor
    BY <1>10 DEF Stored, AppendFails
  <2>6. log' \in Seq(T) /\ Len(log') >= Len(log) /\ floor' \in 0..Len(log')
    <3>1. Append(log, Head(queue[r])) \in Seq(T) /\ Len(Append(log, Head(queue[r]))) = Len(log) + 1
      BY <1>2, <2>3
    <3>2. Len(log') \in {Len(log), Len(log) + 1} /\ log' \in Seq(T)
      BY <1>2, <2>5, <3>1
    <3> QED BY <1>3, <2>5, <3>2
  <2>7. UNCHANGED <<status, claimed, phase, made>>
    BY <1>10 DEF Stored, AppendFails
  <2>8. /\ status' \in {"queued", "generating"} \cup Terminal /\ claimed' \in 0..MaxRuns
        /\ phase' \in [Run -> Phase] /\ made' \in [Run -> 0..MaxTokens]
    BY <2>7 DEF TypeOK
  <2> QED BY <1>5, <2>3, <2>4, <2>6, <2>8
<1> QED BY <1>6, <1>7, <1>8, <1>9, <1>10 DEF RunStep

\* What the route and its browser do with the stream.
LEMMA ReaderSteps ==
  ASSUME IInv, Reader \/ Drop \/ SettleOutside \/ UNCHANGED vars
  PROVE  IInv'
<1> USE DEF IInv
<1> DEFINE S == Allowed(status)
           T == Allowed(status')
<1>1. S \subseteq T /\ T \subseteq Event /\ \A k : Allows(status, k) => Allows(status', k)
  BY AllowedGrows DEF Next, Allowed
<1> HIDE DEF S, T
<1>2. /\ queue \in [Run -> Seq(T)] /\ log \in Seq(T) /\ batch \in Seq(T)
      /\ Allows(status', end.kind)
  <2>1. \A q \in Run : queue[q] \in Seq(T)
    BY <1>1, SeqMonotonic DEF TruthInv, S
  <2> QED BY <1>1, <2>1, SeqMonotonic DEF TruthInv, S
<1>3. Len(log) \in Nat /\ cursor \in Nat /\ Len(batch) \in Nat /\ floor \in 0..Len(log)
  BY DEF TypeOK
<1>4. UNCHANGED <<claimed, workerVars, streamVars>> /\ status' \in Statuses
  BY DEF Reader, Read, ReadFails, Deliver, Load, Reconnect, Drop, SettleOutside, vars,
         readerVars, TypeOK, Statuses, Terminal
<1>5. ASSUME pc' \in {"reading", "delivering", "loading", "lost", "over"},
             replay' \in BOOLEAN, empty' \in BOOLEAN, batch' \in Seq(T),
             Len(batch') <= ReadCount, cursor' \in 0..Len(log), view' \in Seq(Token),
             end' \in [kind : {"none", "done", "error"}, run : 0..MaxRuns],
             Allows(status', end'.kind), drops' \in 0..MaxDrops,
             pc' = "delivering" => batch' # <<>> /\ cursor' + Len(batch') <= Len(log)
      PROVE  IInv'
  <2>1. batch' \in Seq(Event)
    BY <1>1, <1>5, SeqMonotonic
  <2>2. TypeOK'
    BY <1>4, <1>5, <2>1 DEF TypeOK, workerVars, streamVars, Statuses
  <2>3. TruthInv'
    BY <1>2, <1>4, <1>5 DEF TruthInv, T, workerVars, streamVars
  <2>4. BatchInv'
    BY <1>4, <1>5 DEF BatchInv, streamVars
  <2> QED BY <2>2, <2>3, <2>4
<1>6. <<>> \in Seq(T) /\ Len(<<>>) = 0 /\ 0 <= ReadCount
  BY ReplayAssumption
<1>7. CASE SettleOutside \/ UNCHANGED vars
  <2>1. readerVars' = readerVars
    BY <1>7 DEF SettleOutside, vars
  <2> QED BY <1>2, <1>5, <2>1 DEF readerVars, TypeOK, BatchInv
<1>8. CASE Drop \/ Reconnect \/ ReadFails
  <2>1. /\ pc' \in {"reading", "loading", "lost"} /\ batch' \in {batch, <<>>}
        /\ replay' \in BOOLEAN /\ empty' \in BOOLEAN /\ UNCHANGED <<cursor, view, end>>
    BY <1>8 DEF Drop, Reconnect, ReadFails, TypeOK
  <2>2. drops' \in 0..MaxDrops
    BY <1>8, ReplayAssumption DEF Drop, Reconnect, ReadFails, TypeOK
  <2> QED BY <1>2, <1>5, <1>6, <2>1, <2>2 DEF TypeOK
<1>9. CASE Load
  <2>1. /\ pc' \in {"over", "reading"} /\ UNCHANGED <<status, batch, replay, empty, cursor, view, drops>>
    BY <1>9 DEF Load
  <2>2. \/ end' = end
        \/ /\ status \in Terminal
           /\ end' = [kind |-> IF status = "failed" THEN "error" ELSE "done", run |-> 0]
    BY <1>9 DEF Load
  <2>3. end' \in [kind : {"none", "done", "error"}, run : 0..MaxRuns] /\ Allows(status', end'.kind)
    <3>1. CASE end' = end
      BY <1>2, <3>1 DEF TypeOK
    <3>2. CASE status = "failed" /\ end' = [kind |-> "error", run |-> 0]
      BY <2>1, <3>2, ReplayAssumption DEF Allows
    <3>3. CASE status \in {"completed", "cancelled"} /\ end' = [kind |-> "done", run |-> 0]
      BY <2>1, <3>3, ReplayAssumption DEF Allows
    <3> QED BY <2>2, <3>1, <3>2, <3>3 DEF Terminal
  <2> QED BY <1>2, <1>5, <2>1, <2>3 DEF TypeOK
<1>10. CASE Read
  <2> DEFINE from == IF cursor < floor THEN floor ELSE cursor
             upTo == IF Len(log) < from + ReadCount THEN Len(log) ELSE from + ReadCount
  <2>1. /\ from \in Nat /\ from <= Len(log) /\ upTo \in Nat
        /\ from <= upTo /\ upTo <= Len(log) /\ upTo - from <= ReadCount
    BY <1>3, ReplayAssumption DEF TypeOK
  <2>2. /\ batch' = SubSeq(log, from + 1, upTo) /\ cursor' = from
        /\ empty' = (batch' = <<>>) /\ pc' = IF empty' THEN "loading" ELSE "delivering"
        /\ UNCHANGED <<replay, view, end, drops>>
    BY <1>10 DEF Read
  <2> HIDE DEF from, upTo
  <2>3. \A i \in (from + 1)..upTo : log[i] \in T
    BY <1>2, <2>1, ElementOfSeq
  <2>4. batch' \in Seq(T) /\ Len(batch') <= ReadCount /\ from + Len(batch') <= Len(log)
    <3>1. Len(batch') = IF from + 1 <= upTo THEN upTo - (from + 1) + 1 ELSE 0
      BY <2>1, <2>2, <2>3, SubSeqProperties
    <3>2. batch' \in Seq(T)
      BY <2>1, <2>2, <2>3, SubSeqProperties
    <3> QED BY <1>3, <2>1, <3>1, <3>2, ReplayAssumption
  <2>5. pc' \in {"loading", "delivering"} /\ empty' \in BOOLEAN /\ (pc' = "delivering" => batch' # <<>>)
    BY <2>2
  <2>6. cursor' \in 0..Len(log) /\ (pc' = "delivering" => cursor' + Len(batch') <= Len(log))
    BY <1>3, <2>1, <2>2, <2>4
  <2>7. /\ replay' \in BOOLEAN /\ view' \in Seq(Token) /\ drops' \in 0..MaxDrops
        /\ end' \in [kind : {"none", "done", "error"}, run : 0..MaxRuns]
        /\ Allows(status', end'.kind)
    BY <1>2, <2>2 DEF TypeOK
  <2> QED BY <1>5, <2>4, <2>5, <2>6, <2>7
<1>11. CASE Deliver
  <2> DEFINE event == Head(batch)
             last == event.kind \in {"done", "error"}
  <2>1. batch # <<>> /\ cursor + Len(batch) <= Len(log)
    BY <1>11 DEF Deliver, BatchInv
  <2>2. /\ event \in T /\ Tail(batch) \in Seq(T) /\ Len(Tail(batch)) = Len(batch) - 1
        /\ Len(batch) >= 1
    BY <1>2, <1>3, <2>1, HeadTailProperties, EmptySeq
  <2>3. event \in Event /\ Allows(status', event.kind)
    BY <1>1, <2>2 DEF T, Allowed
  <2>4. event.kind = "token" => event \in Token
    BY <2>3 DEF Event, Mark, Token
  <2>5. event.kind \in {"token", "reset", "done", "error"} /\ event.run \in 0..MaxRuns
    BY <2>3, ReplayAssumption DEF Event, Mark, Token, Run
  <2>6. /\ cursor' = cursor + 1
        /\ batch' = IF last THEN <<>> ELSE Tail(batch)
        /\ view' = IF event.kind = "reset" THEN <<>> ELSE IF last THEN view ELSE Append(view, event)
        /\ end' = IF last THEN [kind |-> event.kind, run |-> event.run] ELSE end
        /\ pc' = IF last THEN "over" ELSE IF batch' = <<>> THEN "loading" ELSE pc
        /\ UNCHANGED <<replay, empty, drops>>
    BY <1>11 DEF Deliver
  <2> HIDE DEF event, last
  <2>7. batch' \in Seq(T) /\ Len(batch') <= ReadCount
    <3>1. Len(Tail(batch)) <= ReadCount
      BY <1>3, <2>2, ReplayAssumption DEF TypeOK
    <3> QED BY <1>6, <2>2, <2>6, <3>1
  <2>8. view' \in Seq(Token)
    BY <2>4, <2>5, <2>6 DEF TypeOK, last
  <2>9. end' \in [kind : {"none", "done", "error"}, run : 0..MaxRuns] /\ Allows(status', end'.kind)
    <3>1. CASE last
      BY <2>3, <2>5, <2>6, <3>1 DEF last
    <3>2. CASE ~last
      BY <1>2, <2>6, <3>2 DEF TypeOK
    <3> QED BY <3>1, <3>2
  <2>10. cursor' \in 0..Len(log)
    BY <1>3, <2>1, <2>2, <2>6
  <2>11. pc' = "delivering" => batch' # <<>> /\ cursor' + Len(batch') <= Len(log)
    <3>1. CASE last
      BY <2>6, <3>1
    <3>2. CASE ~last
      BY <1>3, <2>1, <2>2, <2>6, <3>2
    <3> QED BY <3>1, <3>2
  <2>12. pc' \in {"reading", "delivering", "loading", "lost", "over"}
    BY <2>6 DEF TypeOK
  <2>13. replay' \in BOOLEAN /\ empty' \in BOOLEAN /\ drops' \in 0..MaxDrops
    BY <2>6 DEF TypeOK
  <2> QED BY <1>5, <2>7, <2>8, <2>9, <2>10, <2>11, <2>12, <2>13
<1> QED BY <1>7, <1>8, <1>9, <1>10, <1>11 DEF Reader

\* The invariant holds in every reachable state.
THEOREM Inductive == Spec => []IInv
<1>1. IInv /\ [Next]_vars => IInv'
  BY RunSteps, ReaderSteps DEF Next
<1> QED BY InitInv, <1>1, PTL DEF Spec

\* TypeOK: every reachable state is well typed; in particular no buffer holds more
\* than MaxPending events and the cursor never passes the end of the stream.
THEOREM TypeCorrect == Spec => []TypeOK
<1>1. IInv => TypeOK
  BY DEF IInv
<1> QED BY Inductive, <1>1, PTL

\* EndIsDurable: whatever the number of runs, events, lost leases and reconnects, a
\* browser is told done or error only for a row settled that way.
THEOREM EndIsDurableCorrect == Spec => []EndIsDurable
<1>1. IInv => EndIsDurable
  BY DEF IInv, TruthInv, Allows, EndIsDurable
<1> QED BY Inductive, <1>1, PTL

-----------------------------------------------------------------------------
(***************************************************************************)
(* What the browser shows is in order.  Every event of the log, and of the *)
(* newest run's buffer, joins the one before it: a token follows its       *)
(* predecessor or the reset, a terminal event the last token made.  The    *)
(* view ends with what the event behind the cursor joins.  A jump of the   *)
(* cursor over what DEL removed is harmless because nothing but a reset or *)
(* the end of an empty run follows it.  All of this holds until a          *)
(* superseded run writes to the stream.                                    *)
(***************************************************************************)
Start == [run |-> 0, kind |-> "start", n |-> 0]
Cut == [run |-> 0, kind |-> "cut", n |-> 0]
Reset(r) == [run |-> r, kind |-> "reset", n |-> 0]
Nth(r, n) == [run |-> r, kind |-> "token", n |-> n]
Point == Event \cup {Start, Cut}

Joins(p, e) ==
  /\ e.kind = "token" => /\ e.n <= made[e.run]
                         /\ IF e.n = 1 THEN p \in {Start, Reset(e.run)} ELSE p = Nth(e.run, e.n - 1)
  /\ e.kind \in {"done", "error"} => /\ phase[e.run] = "over"
                                     /\ made[e.run] = 0 \/ p = Nth(e.run, made[e.run])

\* What the next append joins.
Tip == IF log = <<>> THEN Start ELSE IF floor = Len(log) THEN Cut ELSE log[Len(log)]

LogInv ==
  /\ \A i \in 1..Len(log) : Joins(IF i = 1 THEN Start ELSE log[i - 1], log[i])
  /\ floor \in 1..(Len(log) - 1) => Joins(Cut, log[floor + 1])

PhaseInv ==
  /\ claimed = 0 => log = <<>>
  /\ \A r \in Run : /\ phase[r] \in {"new", "opening", "resetting", "failing"}
                         => queue[r] = <<>> /\ made[r] = 0 /\ ~stopped[r]
                    /\ r > claimed => phase[r] = "new"

Before(r, i) == IF i = 1 THEN Tip ELSE queue[r][i - 1]
Last(r) == Before(r, Len(queue[r]) + 1)

QueueInv(r) ==
  /\ \A i \in 1..Len(queue[r]) : queue[r][i].run = r /\ Joins(Before(r, i), queue[r][i])
  /\ phase[r] = "streaming" /\ ~stopped[r] =>
       IF made[r] = 0 THEN Last(r) \in {Start, Reset(r)} ELSE Last(r) = Nth(r, made[r])

Shows(p) ==
  /\ p.kind \in {"start", "reset"} => view = <<>>
  /\ p.kind = "token" => view # <<>> /\ view[Len(view)] = p

InOrder == \A i \in 1..Len(view) : view[i].n = i /\ view[i].run = view[1].run /\ i <= made[view[i].run]
AtCursor ==
  /\ cursor = Len(log) => Shows(Tip)
  /\ cursor < Len(log) => \E p \in Point : Shows(p) /\ Joins(p, log[cursor + 1])
EndInv ==
  end.run # 0 => /\ pc = "over" /\ phase[end.run] = "over"
                 /\ made[end.run] = 0 \/ Shows(Nth(end.run, made[end.run]))

BatchIs == pc = "delivering" => \A i \in 1..Len(batch) : batch[i] = log[cursor + i]
Orderly ==
  /\ LogInv /\ PhaseInv /\ (claimed # 0 => QueueInv(claimed))
  /\ InOrder /\ AtCursor /\ EndInv

OrderInv == BatchIs /\ (late \/ Orderly)

-----------------------------------------------------------------------------
\* What a run has made, and that it is over, stay as they are once it is over.
LEMMA MadeGrows ==
  ASSUME TypeOK, PhaseInv, [Next]_vars, NEW r \in Run
  PROVE  /\ made[r] \in Nat /\ made'[r] \in Nat /\ made[r] <= made'[r]
         /\ phase[r] = "over" => phase'[r] = "over" /\ made'[r] = made[r]
<1>0. made[r] \in 0..MaxTokens /\ MaxTokens \in Nat /\ claimed \in 0..MaxRuns /\ r \in 1..MaxRuns
  BY ReplayAssumption DEF TypeOK, Run
<1>1. CASE UNCHANGED <<made, phase>>
  BY <1>0, <1>1
<1>2. ASSUME NEW q \in Run, RunStep(q) PROVE made'[r] \in {made[r], made[r] + 1} /\
        (phase[r] = "over" => phase'[r] = "over" /\ made'[r] = made[r])
  <2>1. CASE Claim(q)
    <3>1. phase[q] = "new"
      BY <1>0, <2>1 DEF Claim, PhaseInv, TypeOK
    <3> QED BY <2>1, <3>1 DEF Claim, TypeOK
  <2>2. CASE Produce(q)
    BY <2>2 DEF Produce, TypeOK
  <2>3. CASE ResetDeletes(q) \/ ResetAppends(q)
    BY <2>3 DEF ResetDeletes, ResetAppends, TypeOK
  <2>4. CASE (\E outcome \in Terminal : Settle(q, outcome)) \/ Requeue(q) \/ Lose(q)
    BY <2>4 DEF Settle, Requeue, Lose, TypeOK
  <2>5. CASE Stored(q) \/ AppendFails(q)
    BY <2>5 DEF Stored, AppendFails
  <2> QED BY <1>2, <2>1, <2>2, <2>3, <2>4, <2>5 DEF RunStep
<1>3. CASE SettleOutside \/ Reader \/ Drop \/ UNCHANGED vars
  BY <1>1, <1>3 DEF SettleOutside, workerVars, Reader, Read, ReadFails, Deliver, Load, Reconnect, Drop, vars
<1> QED BY <1>0, <1>2, <1>3 DEF Next

\* So an event that joins another goes on to.
LEMMA JoinsKept ==
  ASSUME TypeOK, PhaseInv, [Next]_vars
  PROVE  \A p \in Point, e \in Event : Joins(p, e) => Joins(p, e)'
<1> SUFFICES ASSUME NEW p \in Point, NEW e \in Event, Joins(p, e) PROVE Joins(p, e)'
  OBVIOUS
<1>1. e.run \in Run /\ e.n \in Nat
  BY ReplayAssumption DEF Event, Token, Mark
<1>2. /\ made[e.run] \in Nat /\ made'[e.run] \in Nat /\ made[e.run] <= made'[e.run]
      /\ phase[e.run] = "over" => phase'[e.run] = "over" /\ made'[e.run] = made[e.run]
  BY <1>1, MadeGrows
<1>3. e.kind = "token" => Joins(p, e)'
  BY <1>1, <1>2 DEF Joins
<1>4. e.kind \in {"done", "error"} => Joins(p, e)'
  BY <1>2 DEF Joins
<1> QED BY <1>3, <1>4 DEF Joins

\* The fields of an event, and what its kind says about it.
LEMMA EventFields ==
  ASSUME NEW e \in Event
  PROVE  /\ e.run \in Run /\ e.n \in Nat /\ e.kind \in {"token", "reset", "done", "error"}
         /\ e.kind = "token" <=> e \in Token
         /\ e.kind = "token" => e = Nth(e.run, e.n) /\ e.n \in 1..MaxTokens
         /\ e.kind = "reset" => e = Reset(e.run)
BY ReplayAssumption DEF Event, Token, Mark, Nth, Reset

\* The tip is an event of the log, its start or the cut.
LEMMA TipIsPoint ==
  ASSUME TypeOK
  PROVE  Tip \in Point /\ (log # <<>> /\ floor < Len(log) => Tip = log[Len(log)] /\ Tip \in Event)
<1>1. log # <<>> => Len(log) \in 1..Len(log) /\ log[Len(log)] \in Event
  BY EmptySeq, ElementOfSeq DEF TypeOK
<1> QED BY <1>1 DEF Tip, Point, TypeOK

\* The view and its end keep their properties while runs go on.
LEMMA ShownKept ==
  ASSUME IInv, PhaseInv, InOrder, EndInv, [Next]_vars, UNCHANGED <<view, end, pc>>
  PROVE  InOrder' /\ EndInv'
<1>1. TypeOK
  BY DEF IInv
<1>2. InOrder'
  <2> SUFFICES ASSUME NEW i \in 1..Len(view)
               PROVE  view[i].n = i /\ view[i].run = view[1].run /\ i <= made'[view[i].run]
    BY DEF InOrder
  <2>1. view[i].n = i /\ view[i].run = view[1].run /\ i <= made[view[i].run]
    BY DEF InOrder
  <2>2. view[i] \in Token
    BY <1>1, ElementOfSeq DEF TypeOK
  <2>3. view[i].run \in Run
    BY <2>2 DEF Token
  <2>4. made[view[i].run] <= made'[view[i].run] /\ made[view[i].run] \in Nat /\ made'[view[i].run] \in Nat
    BY <1>1, <2>3, MadeGrows
  <2>5. i \in Nat
    BY <1>1 DEF TypeOK
  <2> QED BY <2>1, <2>4, <2>5
<1>3. EndInv'
  <2> SUFFICES ASSUME end.run # 0
               PROVE  /\ pc = "over" /\ phase'[end.run] = "over"
                      /\ made'[end.run] = 0 \/ Shows(Nth(end.run, made'[end.run]))
    BY DEF EndInv, Shows
  <2>1. end.run \in Run
    BY <1>1, ReplayAssumption DEF TypeOK, Run
  <2>2. /\ pc = "over" /\ phase[end.run] = "over"
        /\ made[end.run] = 0 \/ Shows(Nth(end.run, made[end.run]))
    BY DEF EndInv
  <2>3. phase'[end.run] = "over" /\ made'[end.run] = made[end.run]
    BY <1>1, <2>1, <2>2, MadeGrows
  <2> QED BY <2>2, <2>3
<1> QED BY <1>2, <1>3

Streamed == LogInv' /\ InOrder' /\ AtCursor' /\ EndInv'

\* A step of the runs that appends nothing; DEL may cut the stream at its end.
LEMMA Unappended ==
  ASSUME IInv, Orderly, [Next]_vars, floor' \in {floor, Len(log)}, UNCHANGED <<log, readerVars>>
  PROVE  Streamed
<1>1. TypeOK /\ PhaseInv /\ InOrder /\ EndInv /\ LogInv /\ AtCursor
  BY DEF IInv, Orderly
<1>2. InOrder' /\ EndInv'
  BY <1>1, ShownKept DEF readerVars
<1>3. \A p \in Point, e \in Event : Joins(p, e) => Joins(p, e)'
  BY <1>1, JoinsKept
<1>4. \A i \in 1..Len(log) : log[i] \in Event
  BY <1>1, ElementOfSeq DEF TypeOK
<1>5. Start \in Point /\ Cut \in Point /\ Event \subseteq Point
  BY DEF Point
<1>6. Len(log) \in Nat /\ cursor \in 0..Len(log) /\ floor \in 0..Len(log)
      /\ (log = <<>> <=> Len(log) = 0)
  BY <1>1, EmptySeq DEF TypeOK
<1>7. LogInv'
  <2>1. ASSUME NEW i \in 1..Len(log) PROVE Joins(IF i = 1 THEN Start ELSE log[i - 1], log[i])'
    <3> DEFINE p == IF i = 1 THEN Start ELSE log[i - 1]
    <3>1. p \in Point
      BY <1>4, <1>5, <1>6
    <3>2. Joins(p, log[i])
      BY <1>1 DEF LogInv
    <3>3. PICK q \in Point, e \in Event : q = p /\ e = log[i]
      BY <1>4, <3>1
    <3>4. Joins(q, e)'
      BY <1>3, <3>2, <3>3
    <3>5. q = (IF i = 1 THEN Start ELSE log'[i - 1]) /\ e = log'[i]
      BY <3>3
    <3> QED BY <3>4, <3>5
  <2>2. ASSUME floor' \in 1..(Len(log') - 1) PROVE Joins(Cut, log[floor + 1])'
    <3>0. floor' = floor /\ floor \in 1..(Len(log) - 1)
      BY <1>6, <2>2
    <3>1. PICK e \in Event : e = log[floor + 1]
      BY <1>4, <1>6, <3>0
    <3>2. Joins(Cut, e)'
      BY <1>1, <1>3, <1>5, <3>0, <3>1 DEF LogInv
    <3>3. e = log'[floor' + 1] /\ Cut' = Cut
      BY <3>0, <3>1 DEF Cut
    <3> QED BY <3>2, <3>3
  <2> QED BY <2>1, <2>2 DEF LogInv
<1>8. AtCursor'
  <2>1. ASSUME cursor = Len(log) PROVE Shows(Tip)'
    <3>1. Tip' = Tip \/ Tip' = Cut
      BY <1>6 DEF Tip
    <3> QED BY <1>1, <2>1, <3>1 DEF AtCursor, Shows, Cut, readerVars
  <2>2. ASSUME cursor < Len(log) PROVE \E p \in Point : Shows(p)' /\ Joins(p, log[cursor + 1])'
    <3>1. PICK p \in Point : Shows(p) /\ Joins(p, log[cursor + 1])
      BY <1>1, <2>2 DEF AtCursor
    <3>2. PICK e \in Event : e = log[cursor + 1]
      BY <1>4, <1>6, <2>2
    <3>3. Joins(p, e)'
      BY <1>3, <3>1, <3>2
    <3>4. e = log'[cursor' + 1] /\ Shows(p)'
      BY <3>1, <3>2 DEF Shows, readerVars
    <3> QED BY <3>3, <3>4
  <2> QED BY <2>1, <2>2 DEF AtCursor, readerVars
<1> QED BY <1>2, <1>7, <1>8 DEF Streamed

\* An event that joins the tip is appended.
LEMMA Appended ==
  ASSUME IInv, Orderly, [Next]_vars, NEW e \in Event, Joins(Tip, e), log' = Append(log, e),
         UNCHANGED <<floor, readerVars>>
  PROVE  Streamed /\ Tip' = e
<1>1. TypeOK /\ PhaseInv /\ InOrder /\ EndInv /\ LogInv /\ AtCursor
  BY DEF IInv, Orderly
<1>2. InOrder' /\ EndInv'
  BY <1>1, ShownKept DEF readerVars
<1>3. \A p \in Point, f \in Event : Joins(p, f) => Joins(p, f)'
  BY <1>1, JoinsKept
<1>4. \A i \in 1..Len(log) : log[i] \in Event
  BY <1>1, ElementOfSeq DEF TypeOK
<1>5. Start \in Point /\ Cut \in Point /\ Event \subseteq Point
  BY DEF Point
<1>6. /\ Len(log) \in Nat /\ cursor \in 0..Len(log) /\ floor \in 0..Len(log)
      /\ Len(log') = Len(log) + 1 /\ log'[Len(log) + 1] = e /\ \A i \in 1..Len(log) : log'[i] = log[i]
      /\ log' # <<>> /\ (log = <<>> <=> Len(log) = 0)
  BY <1>1, EmptySeq DEF TypeOK
<1>8. PICK tip \in Point : tip = Tip /\ Joins(tip, e)'
  <2>1. PICK p \in Point : p = Tip
    BY <1>1, TipIsPoint
  <2>2. Joins(p, e)'
    BY <1>3, <2>1
  <2> QED BY <2>1, <2>2
<1>9. LogInv'
  <2>1. ASSUME NEW i \in 1..(Len(log) + 1) PROVE Joins(IF i = 1 THEN Start ELSE log[i - 1], log[i])'
    <3>1. CASE i <= Len(log)
      <4> DEFINE p == IF i = 1 THEN Start ELSE log[i - 1]
      <4>1. p \in Point /\ i \in 1..Len(log)
        BY <1>4, <1>5, <1>6, <3>1
      <4>2. Joins(p, log[i])
        BY <1>1, <4>1 DEF LogInv
      <4>3. PICK q \in Point, f \in Event : q = p /\ f = log[i]
        BY <1>4, <4>1
      <4>4. Joins(q, f)'
        BY <1>3, <4>2, <4>3
      <4>5. q = (IF i = 1 THEN Start ELSE log'[i - 1]) /\ f = log'[i]
        BY <1>6, <4>1, <4>3
      <4> QED BY <4>4, <4>5
    <3>2. CASE i = Len(log) + 1
      <4>1. PICK q \in Point : q = IF i = 1 THEN Start ELSE log[i - 1]
        BY <1>4, <1>5, <1>6, <3>2
      <4>2. tip = Cut \/ tip = q
        BY <1>6, <1>8, <3>2, <4>1 DEF Tip
      <4>3. Joins(q, e)'
        <5>1. CASE tip = Cut
          <6>1. Joins(Cut, e)' 
            BY <1>8, <5>1
          <6> QED BY <6>1 DEF Joins, Cut, Start, Reset, Nth
        <5> QED BY <1>8, <4>2, <5>1
      <4>4. q = (IF i = 1 THEN Start ELSE log'[i - 1]) /\ e = log'[i]
        BY <1>6, <3>2, <4>1
      <4> QED BY <4>3, <4>4
    <3> QED BY <1>6, <3>1, <3>2
  <2>2. ASSUME floor \in 1..(Len(log') - 1) PROVE Joins(Cut, log[floor + 1])'
    <3>1. PICK f \in Event : f = log'[floor + 1] /\ Joins(Cut, f)'
      <4>1. CASE floor < Len(log)
        <5>1. PICK f \in Event : f = log[floor + 1]
          BY <1>4, <1>6, <4>1
        <5>2. Joins(Cut, f)
          BY <1>1, <1>6, <2>2, <4>1, <5>1 DEF LogInv
        <5>3. Joins(Cut, f)'
          BY <1>3, <1>5, <5>2
        <5> QED BY <1>6, <4>1, <5>1, <5>3
      <4>2. CASE floor = Len(log)
        <5>1. tip = Cut /\ log'[floor + 1] = e
          BY <1>6, <1>8, <2>2, <4>2 DEF Tip
        <5> QED BY <1>8, <5>1
      <4> QED BY <1>6, <4>1, <4>2
    <3>2. f = log'[floor' + 1] /\ Cut' = Cut
      BY <3>1 DEF Cut
    <3> QED BY <3>1, <3>2
  <2> QED BY <1>6, <2>1, <2>2 DEF LogInv
<1>10. AtCursor'
  <2>1. PICK p \in Point, f \in Event : f = log'[cursor + 1] /\ Shows(p) /\ Joins(p, f)'
    <3>1. CASE cursor < Len(log)
      <4>1. PICK p \in Point : Shows(p) /\ Joins(p, log[cursor + 1])
        BY <1>1, <3>1 DEF AtCursor
      <4>2. PICK f \in Event : f = log[cursor + 1]
        BY <1>4, <1>6, <3>1
      <4>3. Joins(p, f)'
        BY <1>3, <4>1, <4>2
      <4> QED BY <1>6, <3>1, <4>1, <4>2, <4>3
    <3>2. CASE cursor = Len(log)
      <4>1. Shows(tip)
        BY <1>1, <1>8, <3>2 DEF AtCursor
      <4> QED BY <1>6, <1>8, <3>2, <4>1
    <3> QED BY <1>6, <3>1, <3>2
  <2>2. Shows(p)' /\ f = log'[cursor' + 1] /\ cursor' < Len(log')
    BY <1>6, <2>1 DEF Shows, readerVars
  <2>3. \E q \in Point : Shows(q)' /\ Joins(q, log[cursor + 1])'
    BY <2>1, <2>2
  <2>4. cursor' # Len(log')
    BY <1>6, <2>2 DEF readerVars
  <2> QED BY <2>3, <2>4 DEF AtCursor
<1>11. Tip' = e
  BY <1>6 DEF Tip
<1> QED BY <1>2, <1>9, <1>10, <1>11 DEF Streamed

Queued == PhaseInv' /\ (claimed' # 0 => QueueInv(claimed)')

\* Types of what belongs to a run.
LEMMA RunFields ==
  ASSUME TypeOK, NEW r \in Run
  PROVE  /\ queue[r] \in Seq(Event) /\ Len(queue[r]) \in Nat /\ (queue[r] = <<>> <=> Len(queue[r]) = 0)
         /\ \A i \in 1..Len(queue[r]) : queue[r][i] \in Event
         /\ r \in 1..MaxRuns /\ made[r] \in 0..MaxTokens /\ stopped[r] \in BOOLEAN /\ phase[r] \in Phase
         /\ claimed \in 0..MaxRuns /\ MaxRuns \in Nat /\ MaxTokens \in Nat
<1>1. queue[r] \in Seq(Event)
  BY DEF TypeOK
<1>2. /\ Len(queue[r]) \in Nat /\ (queue[r] = <<>> <=> Len(queue[r]) = 0)
      /\ \A i \in 1..Len(queue[r]) : queue[r][i] \in Event
  BY <1>1, EmptySeq, ElementOfSeq
<1> QED BY <1>1, <1>2, ReplayAssumption DEF TypeOK, Run

\* So is what an event of a buffer joins.
LEMMA BeforeIsPoint ==
  ASSUME TypeOK, NEW r \in Run, NEW i \in 1..(Len(queue[r]) + 1)
  PROVE  Before(r, i) \in Point
<1>1. Tip \in Point /\ Event \subseteq Point
  BY TipIsPoint DEF Point
<1>2. Len(queue[r]) \in Nat /\ \A j \in 1..Len(queue[r]) : queue[r][j] \in Event
  BY RunFields
<1> QED BY <1>1, <1>2 DEF Before

\* A step that neither fills nor empties the newest run's buffer, nor moves the tip.
LEMMA QueueKept ==
  ASSUME TypeOK, PhaseInv, [Next]_vars, NEW c \in Run, QueueInv(c), queue'[c] = queue[c], Tip' = Tip,
         phase'[c] = "streaming" /\ ~stopped'[c]
           => phase[c] = "streaming" /\ ~stopped[c] /\ made'[c] = made[c]
  PROVE  QueueInv(c)'
<1>1. Len(queue[c]) \in Nat /\ \A i \in 1..Len(queue[c]) : queue[c][i] \in Event
  BY RunFields
<1>2. \A i \in 1..(Len(queue[c]) + 1) : Before(c, i)' = Before(c, i)
  BY DEF Before
<1>3. ASSUME NEW i \in 1..Len(queue[c])
      PROVE  queue[c][i].run = c /\ Joins(Before(c, i), queue[c][i])'
  <2>1. queue[c][i].run = c /\ Joins(Before(c, i), queue[c][i])
    BY DEF QueueInv
  <2>2. PICK p \in Point, e \in Event : p = Before(c, i) /\ e = queue[c][i]
    BY <1>1, BeforeIsPoint
  <2>3. Joins(p, e)'
    BY <2>1, <2>2, JoinsKept
  <2>4. p = Before(c, i)' /\ e = queue'[c][i]
    BY <1>1, <1>2, <2>2
  <2> QED BY <2>1, <2>3, <2>4
<1>4. Last(c)' = Last(c)
  BY <1>1, <1>2 DEF Last
<1> QED BY <1>3, <1>4 DEF QueueInv, Reset, Nth, Start

\* An event that joins the last one is put into the newest run's buffer.
LEMMA Enqueued ==
  ASSUME TypeOK, PhaseInv, [Next]_vars, NEW c \in Run, QueueInv(c), Tip' = Tip,
         NEW e \in Event, queue'[c] = Append(queue[c], e), e.run = c,
         \A p \in Point : p = Last(c) => Joins(p, e)',
         phase'[c] = "streaming" /\ ~stopped'[c] => made'[c] # 0 /\ e = Nth(c, made'[c])
  PROVE  QueueInv(c)'
<1>1. /\ Len(queue[c]) \in Nat /\ \A i \in 1..Len(queue[c]) : queue[c][i] \in Event
      /\ queue[c] \in Seq(Event)
  BY RunFields
<1>2. /\ Len(queue'[c]) = Len(queue[c]) + 1 /\ queue'[c][Len(queue[c]) + 1] = e
      /\ \A i \in 1..Len(queue[c]) : queue'[c][i] = queue[c][i]
  BY <1>1
<1>3. \A i \in 1..(Len(queue[c]) + 1) : Before(c, i)' = Before(c, i)
  BY <1>1, <1>2 DEF Before
<1>4. ASSUME NEW i \in 1..(Len(queue[c]) + 1)
      PROVE  queue'[c][i].run = c /\ Joins(Before(c, i), queue[c][i])'
  <2>1. CASE i \in 1..Len(queue[c])
    <3>1. queue[c][i].run = c /\ Joins(Before(c, i), queue[c][i])
      BY <2>1 DEF QueueInv
    <3>2. PICK p \in Point, f \in Event : p = Before(c, i) /\ f = queue[c][i]
      BY <1>1, <2>1, BeforeIsPoint
    <3>3. Joins(p, f)'
      BY <3>1, <3>2, JoinsKept
    <3>4. p = Before(c, i)' /\ f = queue'[c][i]
      BY <1>2, <1>3, <2>1, <3>2
    <3> QED BY <3>1, <3>2, <3>3, <3>4
  <2>2. CASE i = Len(queue[c]) + 1
    <3>1. PICK p \in Point : p = Last(c)
      BY <1>1, BeforeIsPoint DEF Last
    <3>2. Joins(p, e)' /\ p = Before(c, i)' /\ e = queue'[c][i]
      BY <1>2, <1>3, <2>2, <3>1 DEF Last
    <3> QED BY <2>2, <3>2
  <2> QED BY <1>1, <2>1, <2>2
<1>5. Last(c)' = e
  BY <1>1, <1>2 DEF Last, Before
<1> QED BY <1>2, <1>4, <1>5 DEF QueueInv, Nth

\* Runs that do not write to the stream.
LEMMA QuietSteps ==
  ASSUME IInv, Orderly, [Next]_vars, NEW r \in Run,
         Claim(r) \/ Produce(r) \/ (\E outcome \in Terminal : Settle(r, outcome)) \/ Requeue(r) \/ Lose(r)
  PROVE  Queued /\ Streamed
<1>0. TypeOK /\ PhaseInv /\ (claimed # 0 => QueueInv(claimed))
  BY DEF IInv, Orderly
<1>1. TypeOK /\ PhaseInv /\ (claimed # 0 => claimed \in Run /\ QueueInv(claimed))
  BY <1>0, ReplayAssumption DEF TypeOK, Run
<1>2. UNCHANGED <<log, floor, readerVars>> /\ Tip' = Tip
  BY DEF Claim, Produce, Settle, Requeue, Lose, streamVars, Tip
<1>3. Streamed
  BY <1>2, Unappended
<1>4. \A q \in Run : /\ q \in 1..MaxRuns /\ Len(queue[q]) \in Nat /\ (queue[q] = <<>> <=> Len(queue[q]) = 0)
                     /\ made[q] \in 0..MaxTokens /\ MaxTokens \in Nat /\ claimed \in 0..MaxRuns /\ MaxRuns \in Nat
  BY <1>1, RunFields
<1>5. CASE Claim(r)
  <2>1. /\ claimed' = r /\ r = claimed + 1 /\ phase[r] = "new" /\ UNCHANGED <<made, queue, stopped>>
        /\ phase' = [phase EXCEPT ![r] = IF r = 1 THEN "streaming" ELSE "opening"]
    BY <1>1, <1>4, <1>5 DEF Claim, PhaseInv
  <2>2. queue[r] = <<>> /\ made[r] = 0 /\ ~stopped[r] /\ Len(queue[r]) = 0
    BY <1>1, <1>4, <2>1 DEF PhaseInv
  <2>3. PhaseInv'
    <3>1. \A q \in Run \ {r} : phase'[q] = phase[q]
      BY <2>1
    <3>2. phase'[r] \in {"streaming", "opening"}
      BY <1>1, <2>1 DEF TypeOK
    <3> QED BY <1>1, <1>4, <2>1, <2>2, <3>1, <3>2 DEF PhaseInv
  <2>4. QueueInv(r)'
    <3>1. phase'[r] = "streaming" => r = 1
      BY <1>1, <2>1 DEF TypeOK
    <3>2. r = 1 => Tip = Start
      BY <1>1, <1>4, <2>1 DEF PhaseInv, Tip
    <3>3. Last(r)' = Tip'
      BY <2>1, <2>2 DEF Last, Before
    <3> QED BY <1>2, <2>1, <2>2, <3>1, <3>2, <3>3 DEF QueueInv
  <2> QED BY <1>3, <2>1, <2>3, <2>4 DEF Queued
<1>6. CASE Produce(r)
  <2>0. PICK e \in Event : e = Nth(r, made[r] + 1)
    <3>1. made[r] + 1 \in 1..MaxTokens
      BY <1>4, <1>6 DEF Produce
    <3> QED BY <3>1 DEF Event, Token, Nth
  <2>1. /\ phase[r] = "streaming" /\ made[r] < MaxTokens /\ made' = [made EXCEPT ![r] = @ + 1]
        /\ Enqueue(r, e) /\ UNCHANGED <<claimed, phase>>
    BY <1>6, <2>0 DEF Produce, Nth
  <2>2. PhaseInv'
    <3>1. \A q \in Run \ {r} : made'[q] = made[q] /\ queue'[q] = queue[q] /\ stopped'[q] = stopped[q]
      BY <1>1, <2>1 DEF Enqueue, TypeOK
    <3> QED BY <1>1, <1>2, <2>1, <3>1 DEF PhaseInv
  <2>3. ASSUME r = claimed PROVE QueueInv(r)'
    <3>1. QueueInv(r) /\ made'[r] = made[r] + 1 /\ made'[r] # 0 /\ made[r] + 1 \in 1..MaxTokens
      BY <1>1, <1>4, <2>1, <2>3 DEF TypeOK
    <3>2. CASE stopped'[r]
      <4>1. queue' = queue
        BY <1>1, <2>1, <3>2 DEF Enqueue, TypeOK
      <4> QED BY <1>1, <1>2, <3>1, <3>2, <4>1, QueueKept
    <3>3. CASE ~stopped'[r]
      <4>1. ~stopped[r] /\ queue'[r] = Append(queue[r], e)
        BY <1>1, <2>1, <3>3 DEF Enqueue, TypeOK
      <4>2. IF made[r] = 0 THEN Last(r) \in {Start, Reset(r)} ELSE Last(r) = Nth(r, made[r])
        BY <2>1, <3>1, <4>1 DEF QueueInv
      <4>3. e.run = r /\ e.kind = "token" /\ e.n = made[r] + 1
        BY <2>0 DEF Nth
      <4>4. \A p \in Point : p = Last(r) => Joins(p, e)'
        <5>1. SUFFICES ASSUME NEW p \in Point, p = Last(r) PROVE Joins(p, e)'
          OBVIOUS
        <5>2. e.n <= made'[e.run] /\ (IF e.n = 1 THEN p \in {Start, Reset(e.run)} ELSE p = Nth(e.run, e.n - 1))
          BY <1>4, <3>1, <4>2, <4>3, <5>1
        <5> QED BY <4>3, <5>2 DEF Joins
      <4>5. e = Nth(r, made'[r])
        BY <2>0, <3>1
      <4> QED BY <1>1, <1>2, <3>1, <4>1, <4>3, <4>4, <4>5, Enqueued
    <3> QED BY <3>2, <3>3
  <2>4. ASSUME r # claimed, claimed # 0 PROVE QueueInv(claimed)'
    <3>1. claimed \in Run /\ QueueInv(claimed) /\ queue'[claimed] = queue[claimed]
          /\ stopped'[claimed] = stopped[claimed] /\ made'[claimed] = made[claimed] /\ phase' = phase
      BY <1>1, <2>1, <2>4 DEF Enqueue, TypeOK
    <3>2. \A c \in Run : c = claimed => QueueInv(c)'
      BY <1>1, <1>2, <3>1, QueueKept
    <3> QED BY <2>1, <3>1, <3>2
  <2> QED BY <1>3, <2>1, <2>2, <2>3, <2>4 DEF Queued
<1>7. ASSUME NEW outcome \in Terminal, Settle(r, outcome) PROVE Queued
  <2> DEFINE e == [run |-> r, n |-> 0, kind |-> IF outcome = "failed" THEN "error" ELSE "done"]
  <2>1. /\ r = claimed /\ Live(r) /\ phase' = [phase EXCEPT ![r] = "over"] /\ Enqueue(r, e) /\ UNCHANGED <<claimed, made>>
    BY <1>7 DEF Settle, Owns
  <2>2. phase'[r] = "over" /\ \A q \in Run \ {r} : phase'[q] = phase[q] /\ queue'[q] = queue[q] /\ stopped'[q] = stopped[q]
    BY <1>1, <2>1 DEF Enqueue, TypeOK
  <2>3. PhaseInv'
    BY <1>1, <1>2, <1>4, <2>1, <2>2 DEF PhaseInv
  <2>4. QueueInv(r) /\ r # 0
    BY <1>1, <1>4, <2>1
  <2>5. QueueInv(r)'
    <3>1. CASE queue' = queue
      BY <1>1, <1>2, <2>2, <2>4, <3>1, QueueKept
    <3>2. CASE queue' # queue
      <4>1. ~stopped[r] /\ queue'[r] = Append(queue[r], e)
        BY <1>1, <2>1, <3>2 DEF Enqueue, TypeOK
      <4>2. e \in Event /\ e.run = r /\ e.kind \in {"done", "error"}
        BY DEF Event, Mark
      <4>3. made[r] = 0 \/ Last(r) = Nth(r, made[r])
        BY <1>1, <2>1, <2>4, <4>1 DEF QueueInv, PhaseInv, Live
      <4>4. \A p \in Point : p = Last(r) => Joins(p, e)'
        BY <2>1, <2>2, <4>2, <4>3 DEF Joins
      <4> QED BY <1>1, <1>2, <2>2, <2>4, <4>1, <4>2, <4>4, Enqueued
    <3> QED BY <3>1, <3>2
  <2> QED BY <2>1, <2>3, <2>5 DEF Queued
<1>8. CASE Requeue(r)
  <2>1. r = claimed /\ phase' = [phase EXCEPT ![r] = "over"] /\ UNCHANGED <<claimed, made, queue, stopped>>
    BY <1>8 DEF Requeue, Owns
  <2>2. phase'[r] = "over" /\ \A q \in Run \ {r} : phase'[q] = phase[q]
    BY <1>1, <2>1 DEF TypeOK
  <2>3. PhaseInv'
    BY <1>1, <1>2, <1>4, <2>1, <2>2 DEF PhaseInv
  <2>4. QueueInv(r)'
    BY <1>1, <1>2, <1>4, <2>1, <2>2, QueueKept
  <2> QED BY <1>3, <2>1, <2>3, <2>4 DEF Queued
<1>9. CASE Lose(r)
  <2> DEFINE kept == SubSeq(queue[r], 1, IF queue[r] = <<>> THEN 0 ELSE 1)
  <2>1. /\ Live(r) /\ phase' = [phase EXCEPT ![r] = "over"] /\ stopped' = [stopped EXCEPT ![r] = TRUE]
        /\ queue' = [queue EXCEPT ![r] = kept] /\ UNCHANGED <<claimed, made>>
    BY <1>9 DEF Lose, Discard
  <2> HIDE DEF kept
  <2>2. /\ phase'[r] = "over" /\ stopped'[r] = TRUE /\ queue'[r] = kept
        /\ \A q \in Run \ {r} : phase'[q] = phase[q] /\ queue'[q] = queue[q] /\ stopped'[q] = stopped[q]
    BY <1>1, <2>1 DEF TypeOK
  <2>3. PhaseInv'
    <3>1. phase[r] # "new"
      BY <2>1 DEF Live
    <3> QED BY <1>1, <1>2, <1>4, <2>1, <2>2, <3>1 DEF PhaseInv
  <2>4. ASSUME r = claimed PROVE QueueInv(r)'
    <3>1. QueueInv(r)
      BY <1>1, <1>4, <2>4
    <3>2. kept = <<>> \/ (Len(kept) = 1 /\ kept[1] = queue[r][1] /\ 1 \in 1..Len(queue[r]))
      <4>1. CASE queue[r] = <<>>
        BY <4>1, SubSeqEmpty DEF kept
      <4>2. CASE queue[r] # <<>>
        <5>1. Len(queue[r]) >= 1 /\ queue[r] \in Seq(Event)
          BY <1>1, <1>4, <4>2, RunFields
        <5>2. \A i \in 1..1 : queue[r][i] \in Event
          BY <5>1, ElementOfSeq
        <5>3. Len(SubSeq(queue[r], 1, 1)) = 1 /\ SubSeq(queue[r], 1, 1)[1] = queue[r][1]
          BY <5>2, SubSeqProperties
        <5> QED BY <1>4, <4>2, <5>1, <5>3 DEF kept
      <4> QED BY <4>1, <4>2
    <3>3. CASE kept = <<>>
      BY <2>2, <3>3 DEF QueueInv
    <3>4. CASE Len(kept) = 1 /\ kept[1] = queue[r][1] /\ 1 \in 1..Len(queue[r])
      <4>1. queue[r][1].run = r /\ Joins(Tip, queue[r][1])
        BY <3>1, <3>4 DEF QueueInv, Before
      <4>2. PICK p \in Point, f \in Event : p = Tip /\ f = queue[r][1]
        BY <1>1, <3>4, RunFields, TipIsPoint
      <4>3. Joins(p, f)'
        BY <1>1, <4>1, <4>2, JoinsKept
      <4>4. p = Before(r, 1)' /\ f = queue'[r][1]
        BY <1>2, <2>2, <3>4, <4>2 DEF Before
      <4>5. ASSUME NEW i \in 1..1 PROVE queue'[r][i].run = r /\ Joins(Before(r, i), queue[r][i])'
        BY <4>1, <4>2, <4>3, <4>4
      <4> QED BY <2>2, <3>4, <4>5 DEF QueueInv
    <3> QED BY <3>2, <3>3, <3>4
  <2>5. ASSUME r # claimed, claimed # 0 PROVE QueueInv(claimed)'
    <3>1. /\ claimed \in Run /\ QueueInv(claimed) /\ queue'[claimed] = queue[claimed]
          /\ stopped'[claimed] = stopped[claimed] /\ made' = made /\ phase'[claimed] = phase[claimed]
      BY <1>1, <2>1, <2>2, <2>5
    <3>2. \A c \in Run : c = claimed => QueueInv(c)'
      BY <1>1, <1>2, <3>1, QueueKept
    <3> QED BY <2>1, <3>1, <3>2
  <2> QED BY <1>3, <2>1, <2>3, <2>4, <2>5 DEF Queued
<1> QED BY <1>3, <1>5, <1>6, <1>7, <1>8, <1>9

\* The newest run writes to the stream.
LEMMA WriteSteps ==
  ASSUME IInv, Orderly, [Next]_vars, NEW r \in Run, ~late',
         ResetDeletes(r) \/ ResetAppends(r) \/ Stored(r) \/ AppendFails(r)
  PROVE  Queued /\ Streamed
<1>1. TypeOK /\ PhaseInv /\ r = claimed /\ r # 0 /\ QueueInv(r) /\ claimed' = claimed /\ UNCHANGED made
  <2>1. r = claimed /\ claimed' = claimed /\ UNCHANGED made
    BY DEF ResetDeletes, ResetAppends, Stored, AppendFails, Writes
  <2>2. r # 0
    BY DEF Run
  <2> QED BY <2>1, <2>2 DEF IInv, Orderly
<1>2. UNCHANGED readerVars
  BY DEF ResetDeletes, ResetAppends, Stored, AppendFails
<1>3. \A q \in Run : /\ q \in 1..MaxRuns /\ Len(queue[q]) \in Nat /\ (queue[q] = <<>> <=> Len(queue[q]) = 0)
                     /\ \A i \in 1..Len(queue[q]) : queue[q][i] \in Event
                     /\ queue[q] \in Seq(Event) /\ stopped[q] \in BOOLEAN
  BY <1>1, RunFields
<1>4. floor \in 0..Len(log) /\ Len(log) \in Nat
  BY <1>1 DEF TypeOK
<1>5. CASE ResetDeletes(r) \/ ResetAppends(r)
  <2>1. /\ phase[r] \in {"opening", "resetting"} /\ UNCHANGED <<queue, stopped>>
        /\ \A q \in Run \ {r} : phase'[q] = phase[q]
    BY <1>1, <1>5 DEF ResetDeletes, ResetAppends, TypeOK
  <2>2. queue[r] = <<>> /\ made[r] = 0 /\ ~stopped[r] /\ Len(queue[r]) = 0
    BY <1>1, <1>3, <2>1 DEF PhaseInv
  <2>3. PhaseInv'
    BY <1>1, <2>1, <2>2 DEF PhaseInv
  <2>4. CASE ResetDeletes(r)
    <3>1. floor' \in {floor, Len(log)} /\ log' = log /\ phase'[r] \in {"resetting", "failing"}
      BY <1>1, <2>4 DEF ResetDeletes, TypeOK
    <3>2. Streamed
      BY <1>2, <3>1, Unappended
    <3>3. QueueInv(r)'
      BY <2>1, <2>2, <3>1 DEF QueueInv
    <3> QED BY <1>1, <2>3, <3>2, <3>3 DEF Queued
  <2>5. CASE ResetAppends(r)
    <3>1. PICK e \in Event : e = Reset(r)
      BY DEF Event, Mark, Reset
    <3>2. /\ floor' = floor
          /\ \/ log' = Append(log, e) /\ phase'[r] = "streaming"
             \/ log' \in {log, Append(log, e)} /\ phase'[r] = "failing"
      BY <1>1, <2>5, <3>1 DEF ResetAppends, TypeOK, Reset
    <3>3. Joins(Tip, e)
      BY <3>1 DEF Joins, Reset
    <3>4. CASE log' = Append(log, e)
      <4>1. Streamed /\ Tip' = e
        BY <1>2, <3>2, <3>3, <3>4, Appended
      <4>2. Last(r)' = e
        BY <2>1, <2>2, <4>1 DEF Last, Before
      <4>3. QueueInv(r)'
        BY <1>1, <2>1, <2>2, <3>1, <4>2 DEF QueueInv, Reset
      <4> QED BY <1>1, <2>3, <4>1, <4>3 DEF Queued
    <3>5. CASE log' = log /\ phase'[r] = "failing"
      <4>1. Streamed
        BY <1>2, <3>2, <3>5, Unappended
      <4>2. QueueInv(r)'
        BY <2>1, <2>2, <3>5 DEF QueueInv
      <4> QED BY <1>1, <2>3, <4>1, <4>2 DEF Queued
    <3> QED BY <3>2, <3>4, <3>5
  <2> QED BY <1>5, <2>4, <2>5
<1>6. CASE Stored(r) \/ AppendFails(r)
  <2>1. queue[r] # <<>> /\ 1 \in 1..Len(queue[r]) /\ UNCHANGED <<phase, floor>>
    <3>1. queue[r] # <<>> /\ UNCHANGED <<phase, floor>>
      BY <1>6 DEF Stored, AppendFails
    <3> QED BY <1>3, <3>1
  <2>2. PICK e \in Event : e = queue[r][1]
    BY <1>3, <2>1
  <2>3. Joins(Tip, e) /\ Head(queue[r]) = e
    BY <1>1, <1>3, <2>1, <2>2 DEF QueueInv, Before
  <2>4. phase[r] \notin {"new", "opening", "resetting", "failing"}
    BY <1>1, <2>1 DEF PhaseInv
  <2>5. ASSUME NEW q \in Run, q # r PROVE queue'[q] = queue[q] /\ stopped'[q] = stopped[q]
    BY <1>1, <1>6, <2>5 DEF Stored, AppendFails, TypeOK
  <2>6. PhaseInv'
    BY <1>1, <2>1, <2>4, <2>5 DEF PhaseInv
  <2>7. CASE Stored(r)
    <3>1. log' = Append(log, e) /\ queue'[r] = Tail(queue[r]) /\ stopped' = stopped
      BY <1>1, <2>3, <2>7 DEF Stored, TypeOK
    <3>2. Streamed /\ Tip' = e
      BY <1>2, <2>1, <2>3, <3>1, Appended
    <3>3. /\ Len(queue'[r]) = Len(queue[r]) - 1
          /\ \A i \in 1..(Len(queue[r]) - 1) : queue'[r][i] = queue[r][i + 1]
      BY <1>3, <2>1, <3>1
    <3>4. \A i \in 1..Len(queue[r]) : Before(r, i)' = Before(r, i + 1)
      BY <1>3, <2>2, <3>2, <3>3 DEF Before
    <3>5. ASSUME NEW i \in 1..Len(queue'[r])
          PROVE  queue'[r][i].run = r /\ Joins(Before(r, i), queue[r][i])'
      <4>1. i + 1 \in 1..Len(queue[r]) /\ i \in 1..Len(queue[r]) /\ queue'[r][i] = queue[r][i + 1]
        BY <1>3, <3>3
      <4>2. queue[r][i + 1].run = r /\ Joins(Before(r, i + 1), queue[r][i + 1])
        BY <1>1, <4>1 DEF QueueInv
      <4>3. PICK p \in Point, f \in Event : p = Before(r, i + 1) /\ f = queue[r][i + 1]
        BY <1>1, <1>3, <4>1, BeforeIsPoint
      <4>4. Joins(p, f)'
        BY <1>1, <4>2, <4>3, JoinsKept
      <4>5. p = Before(r, i)' /\ f = queue'[r][i]
        BY <3>4, <4>1, <4>3
      <4> QED BY <4>2, <4>3, <4>4, <4>5
    <3>6. Last(r)' = Last(r)
      <4>1. Len(queue'[r]) + 1 = Len(queue[r]) /\ Len(queue[r]) \in 1..Len(queue[r])
        BY <1>3, <2>1, <3>3
      <4> QED BY <3>4, <4>1 DEF Last
    <3>7. QueueInv(r)'
      BY <1>1, <2>1, <3>1, <3>5, <3>6 DEF QueueInv, Start, Reset, Nth
    <3> QED BY <1>1, <2>6, <3>2, <3>7 DEF Queued
  <2>8. CASE AppendFails(r)
    <3>1. log' \in {log, Append(log, e)} /\ queue'[r] = <<>> /\ stopped'[r] = TRUE
      BY <1>1, <2>3, <2>8 DEF AppendFails, TypeOK
    <3>2. Streamed
      <4>1. CASE log' = log
        BY <1>2, <2>1, <4>1, Unappended
      <4>2. CASE log' = Append(log, e)
        BY <1>2, <2>1, <2>3, <4>2, Appended
      <4> QED BY <3>1, <4>1, <4>2
    <3>3. QueueInv(r)'
      BY <3>1 DEF QueueInv
    <3> QED BY <1>1, <2>6, <3>2, <3>3 DEF Queued
  <2> QED BY <1>6, <2>7, <2>8
<1> QED BY <1>5, <1>6

\* What is delivered is what the log holds behind the cursor.
LEMMA BatchSteps ==
  ASSUME IInv, BatchIs, [Next]_vars
  PROVE  BatchIs'
<1>1. TypeOK /\ BatchInv
  BY DEF IInv
<1>2. Len(log) \in Nat /\ cursor \in 0..Len(log) /\ floor \in 0..Len(log) /\ Len(batch) \in Nat /\ log \in Seq(Event)
  BY <1>1 DEF TypeOK
<1>3. ASSUME UNCHANGED readerVars PROVE BatchIs'
  <2> SUFFICES ASSUME pc = "delivering", NEW i \in 1..Len(batch) PROVE batch[i] = log'[cursor + i]
    BY <1>3 DEF BatchIs, readerVars
  <2>1. cursor + i \in 1..Len(log) /\ batch[i] = log[cursor + i]
    BY <1>1, <1>2 DEF BatchIs, BatchInv
  <2>2. \A e \in Event : \A j \in 1..Len(log) : Append(log, e)[j] = log[j]
    BY <1>2
  <2>3. log' = log \/ \E e \in Event : log' = Append(log, e)
    <3>1. CASE \E r \in Run : Stored(r) \/ AppendFails(r)
      <4>1. PICK r \in Run : Stored(r) \/ AppendFails(r)
        BY <3>1
      <4>2. queue[r] # <<>> /\ log' \in {log, Append(log, Head(queue[r]))}
        BY <4>1 DEF Stored, AppendFails
      <4>3. Head(queue[r]) \in Event
        BY <1>1, <4>2, HeadTailProperties DEF TypeOK
      <4> QED BY <4>2, <4>3
    <3>2. CASE \E r \in Run : ResetAppends(r)
      BY <3>2 DEF ResetAppends, Event, Mark
    <3>3. CASE \E r \in Run : Claim(r) \/ ResetDeletes(r) \/ Produce(r) \/ Requeue(r) \/ Lose(r)
                              \/ \E outcome \in Terminal : Settle(r, outcome)
      BY <3>3 DEF Claim, ResetDeletes, Produce, Requeue, Lose, Settle, streamVars
    <3>4. CASE SettleOutside \/ Reader \/ Drop \/ UNCHANGED vars
      BY <3>4 DEF SettleOutside, Reader, Read, ReadFails, Deliver, Load, Reconnect, Drop, vars, streamVars
    <3> QED BY <3>1, <3>2, <3>3, <3>4 DEF Next, RunStep
  <2> QED BY <2>1, <2>2, <2>3
<1>4. CASE Read
  <2> DEFINE from == IF cursor < floor THEN floor ELSE cursor
             upTo == IF Len(log) < from + ReadCount THEN Len(log) ELSE from + ReadCount
  <2>1. from \in Nat /\ upTo \in Nat /\ from <= upTo /\ upTo <= Len(log)
    BY <1>2, ReplayAssumption
  <2>2. batch' = SubSeq(log, from + 1, upTo) /\ cursor' = from /\ log' = log
    BY <1>4 DEF Read, streamVars
  <2> HIDE DEF from, upTo
  <2>3. \A i \in (from + 1)..upTo : log[i] \in Event
    BY <1>2, <2>1, ElementOfSeq
  <2>4. \A i \in 1..Len(batch') : batch'[i] = log[from + i]
    <3>1. /\ Len(batch') = IF from + 1 <= upTo THEN upTo - (from + 1) + 1 ELSE 0
          /\ \A i \in 1..(upTo - (from + 1) + 1) : batch'[i] = log[(from + 1) + i - 1]
      BY <2>1, <2>2, <2>3, SubSeqProperties
    <3> QED BY <2>1, <3>1
  <2> QED BY <2>2, <2>4 DEF BatchIs
<1>5. CASE Deliver
  <2>1. batch # <<>> /\ cursor + Len(batch) <= Len(log) /\ pc = "delivering"
    BY <1>1, <1>5 DEF Deliver, BatchInv
  <2>2. cursor' = cursor + 1 /\ log' = log /\ (batch' = <<>> \/ batch' = Tail(batch))
    BY <1>5 DEF Deliver, streamVars
  <2>3. Len(batch) >= 1 /\ Len(Tail(batch)) = Len(batch) - 1
        /\ \A i \in 1..(Len(batch) - 1) : Tail(batch)[i] = batch[i + 1]
    BY <1>1, <1>2, <2>1, EmptySeq DEF TypeOK
  <2>4. ASSUME NEW i \in 1..Len(batch'), batch' = Tail(batch) PROVE batch'[i] = log[cursor + 1 + i]
    <3>1. i + 1 \in 1..Len(batch) /\ batch'[i] = batch[i + 1]
      BY <1>2, <2>3, <2>4
    <3>2. batch[i + 1] = log[cursor + (i + 1)]
      BY <2>1, <3>1 DEF BatchIs
    <3> QED BY <1>2, <3>1, <3>2
  <2>5. batch' = <<>> => 1..Len(batch') = {}
    BY EmptySeq
  <2> QED BY <2>2, <2>4, <2>5 DEF BatchIs
<1>6. CASE ReadFails \/ Load \/ Reconnect \/ Drop
  <2>1. pc' # "delivering"
    BY <1>6 DEF ReadFails, Load, Reconnect, Drop
  <2> QED BY <2>1 DEF BatchIs
<1>7. CASE SettleOutside \/ UNCHANGED vars \/ \E r \in Run : RunStep(r)
  <2>1. UNCHANGED readerVars
    BY <1>7 DEF SettleOutside, vars, RunStep, Claim, ResetDeletes, ResetAppends, Produce, Settle, Requeue,
                Lose, Stored, AppendFails
  <2> QED BY <1>3, <2>1
<1> QED BY <1>4, <1>5, <1>6, <1>7 DEF Next, Reader

\* The route and its browser.
LEMMA BrowserSteps ==
  ASSUME IInv, Orderly, BatchIs, [Next]_vars, Reader \/ Drop \/ SettleOutside \/ UNCHANGED vars
  PROVE  Queued /\ Streamed
<1>1. TypeOK /\ BatchInv /\ PhaseInv /\ LogInv /\ InOrder /\ AtCursor /\ EndInv /\ (claimed # 0 => QueueInv(claimed))
  BY DEF IInv, Orderly
<1>2. UNCHANGED <<claimed, workerVars, streamVars>>
  BY DEF Reader, Read, ReadFails, Deliver, Load, Reconnect, Drop, SettleOutside, vars
<1>4. Queued
  <2>1. PhaseInv'
    BY <1>1, <1>2 DEF PhaseInv, workerVars, streamVars
  <2>2. claimed # 0 => QueueInv(claimed)'
    <3>1. claimed # 0 => claimed \in Run
      BY <1>1, ReplayAssumption DEF TypeOK, Run
    <3>2. Tip' = Tip
      BY <1>2 DEF Tip, streamVars
    <3>3. \A c \in Run : c = claimed /\ c # 0 => QueueInv(c)'
      BY <1>1, <1>2, <3>2, QueueKept DEF workerVars
    <3> QED BY <1>2, <3>1, <3>3
  <2> QED BY <1>2, <2>1, <2>2 DEF Queued
<1>5. LogInv' /\ Tip' = Tip
  BY <1>1, <1>2 DEF LogInv, Joins, Tip, workerVars, streamVars
<1>6. /\ Len(log) \in Nat /\ cursor \in 0..Len(log) /\ floor \in 0..Len(log) /\ Len(batch) \in Nat
      /\ (log = <<>> <=> Len(log) = 0) /\ view \in Seq(Token) /\ Len(view) \in Nat
      /\ \A i \in 1..Len(log) : log[i] \in Event
  BY <1>1, EmptySeq, ElementOfSeq DEF TypeOK
<1>7. \A p \in Point : \A f \in Event : Joins(p, f)' <=> Joins(p, f)
  BY <1>2 DEF Joins, workerVars
<1>8. ASSUME UNCHANGED <<cursor, view>> PROVE InOrder' /\ AtCursor'
  <2>1. InOrder'
    BY <1>1, <1>2, <1>8 DEF InOrder, workerVars
  <2>2. cursor' = Len(log') => Shows(Tip)'
    BY <1>1, <1>2, <1>5, <1>8 DEF AtCursor, Shows, streamVars
  <2>3. ASSUME cursor < Len(log) PROVE \E p \in Point : Shows(p)' /\ Joins(p, log[cursor + 1])'
    <3>1. PICK p \in Point : Shows(p) /\ Joins(p, log[cursor + 1])
      BY <1>1, <2>3 DEF AtCursor
    <3>2. PICK f \in Event : f = log[cursor + 1]
      BY <1>6, <2>3
    <3>3. Joins(p, f)' /\ f = log'[cursor' + 1] /\ Shows(p)'
      BY <1>2, <1>7, <1>8, <3>1, <3>2 DEF streamVars, Shows
    <3> QED BY <3>3
  <2> QED BY <1>2, <1>8, <2>1, <2>2, <2>3 DEF AtCursor, streamVars
<1>9. CASE SettleOutside \/ UNCHANGED vars
  <2>1. UNCHANGED readerVars
    BY <1>9 DEF SettleOutside, vars
  <2>2. EndInv'
    BY <1>1, <1>2, <2>1 DEF EndInv, Shows, readerVars, workerVars
  <2> QED BY <1>4, <1>5, <1>8, <2>1, <2>2 DEF Streamed, readerVars
<1>10. CASE ReadFails \/ Load \/ Reconnect \/ Drop
  <2>1. UNCHANGED <<cursor, view>> /\ end.run = 0 /\ end'.run = 0
    BY <1>1, <1>10 DEF ReadFails, Load, Reconnect, Drop, EndInv
  <2>2. EndInv'
    BY <2>1 DEF EndInv
  <2> QED BY <1>4, <1>5, <1>8, <2>1, <2>2 DEF Streamed
<1>11. CASE Read
  <2>1. /\ cursor' = IF cursor < floor THEN floor ELSE cursor
        /\ UNCHANGED <<view, end>> /\ end.run = 0
    BY <1>1, <1>11 DEF Read, EndInv
  <2>2. EndInv'
    BY <2>1 DEF EndInv
  <2>3. CASE cursor' = cursor
    BY <1>4, <1>5, <1>8, <2>1, <2>2, <2>3 DEF Streamed
  <2>4. CASE cursor' = floor /\ cursor < floor
    <3>1. InOrder'
      BY <1>1, <1>2, <2>1 DEF InOrder, workerVars
    <3>2. cursor' = Len(log') => Shows(Tip)'
      <4>1. floor = Len(log) => Tip = Cut
        BY <1>6, <2>4 DEF Tip
      <4> QED BY <1>2, <1>5, <2>4, <4>1 DEF Shows, Cut, streamVars
    <3>3. ASSUME floor < Len(log) PROVE \E p \in Point : Shows(p)' /\ Joins(p, log[cursor + 1])'
      <4>1. Joins(Cut, log[floor + 1]) /\ Cut \in Point
        BY <1>1, <1>6, <2>4, <3>3 DEF LogInv, Point
      <4>2. PICK p \in Point, f \in Event : p = Cut /\ f = log[floor + 1]
        BY <1>6, <3>3, <4>1
      <4>3. Joins(p, f)' /\ f = log'[cursor' + 1] /\ Shows(p)'
        BY <1>2, <1>7, <2>4, <4>1, <4>2 DEF streamVars, Shows, Cut
      <4> QED BY <4>3
    <3>4. AtCursor'
      BY <1>2, <2>4, <3>2, <3>3 DEF AtCursor, streamVars
    <3> QED BY <1>4, <1>5, <2>2, <3>1, <3>4 DEF Streamed
  <2> QED BY <2>1, <2>3, <2>4
<1>12. CASE Deliver
  <2>1. batch # <<>> /\ cursor + Len(batch) <= Len(log) /\ pc = "delivering" /\ Len(batch) >= 1
    BY <1>1, <1>6, <1>12, EmptySeq DEF Deliver, BatchInv, TypeOK
  <2>2. PICK e \in Event : e = log[cursor + 1] /\ e = Head(batch)
    <3>1. Head(batch) = batch[1] /\ batch[1] = log[cursor + 1]
      BY <1>1, <2>1 DEF BatchIs, TypeOK
    <3> QED BY <1>6, <2>1, <3>1
  <2> DEFINE last == e.kind \in {"done", "error"}
  <2>3. /\ cursor' = cursor + 1
        /\ view' = IF e.kind = "reset" THEN <<>> ELSE IF last THEN view ELSE Append(view, e)
        /\ end' = IF last THEN [kind |-> e.kind, run |-> e.run] ELSE end
        /\ last => pc' = "over"
    BY <1>12, <2>2 DEF Deliver
  <2> HIDE DEF last
  <2>4. PICK p \in Point : Shows(p) /\ Joins(p, e)
    BY <1>1, <1>6, <2>1, <2>2 DEF AtCursor
  <2>5. /\ e.run \in Run /\ e.n \in Nat /\ e.kind \in {"token", "reset", "done", "error"}
        /\ (e.kind = "token" <=> e \in Token)
    BY EventFields
  <2>6. ASSUME e.kind = "token" PROVE view' = Append(view, e) /\ e.n = Len(view) + 1 /\ e.n <= made[e.run]
                                      /\ (view # <<>> => view[Len(view)].run = e.run)
    <3>1. view' = Append(view, e) /\ e.n <= made[e.run]
      BY <2>3, <2>4, <2>6 DEF last, Joins
    <3>2. CASE e.n = 1
      <4>1. view = <<>>
        BY <2>4, <2>6, <3>2 DEF Joins, Shows, Start, Reset
      <4> QED BY <3>1, <3>2, <4>1, EmptySeq
    <3>3. CASE e.n # 1
      <4>1. view # <<>> /\ view[Len(view)] = Nth(e.run, e.n - 1)
        BY <2>4, <2>6, <3>3 DEF Joins, Shows, Nth
      <4>2. Len(view) \in 1..Len(view)
        BY <1>6, <4>1, EmptySeq
      <4>3. view[Len(view)].n = Len(view)
        BY <1>1, <4>2 DEF InOrder
      <4> QED BY <1>6, <2>5, <3>1, <4>1, <4>3 DEF Nth
    <3> QED BY <3>2, <3>3
  <2>7. InOrder'
    <3>1. CASE view' = view
      BY <1>1, <1>2, <3>1 DEF InOrder, workerVars
    <3>2. CASE view' = <<>>
      BY <3>2, EmptySeq DEF InOrder
    <3>3. CASE e.kind = "token"
      <4>1. Len(view') = Len(view) + 1 /\ view'[Len(view) + 1] = e /\ \A i \in 1..Len(view) : view'[i] = view[i]
        BY <1>6, <2>5, <2>6, <3>3
      <4>2. ASSUME NEW i \in 1..(Len(view) + 1)
            PROVE  view'[i].n = i /\ view'[i].run = view'[1].run /\ i <= made[view'[i].run]
        <5>1. CASE i \in 1..Len(view)
          <6>1. 1 \in 1..Len(view)
            BY <1>6, <5>1
          <6> QED BY <1>1, <4>1, <5>1, <6>1 DEF InOrder
        <5>2. CASE i = Len(view) + 1 /\ view = <<>>
          BY <2>6, <3>3, <4>1, <5>2, EmptySeq
        <5>3. CASE i = Len(view) + 1 /\ view # <<>>
          <6>1. Len(view) \in 1..Len(view) /\ 1 \in 1..Len(view)
            BY <1>6, <5>3, EmptySeq
          <6>2. view[Len(view)].run = view[1].run
            BY <1>1, <6>1 DEF InOrder
          <6> QED BY <2>6, <3>3, <4>1, <5>3, <6>1, <6>2
        <5> QED BY <1>6, <5>1, <5>2, <5>3
      <4> QED BY <1>2, <4>1, <4>2 DEF InOrder, workerVars
    <3> QED BY <2>3, <2>5, <3>1, <3>2, <3>3 DEF last
  <2>8. Shows(e)'
    <3>1. CASE e.kind = "token"
      <4>1. view' # <<>> /\ view'[Len(view')] = e
        BY <1>6, <2>5, <2>6, <3>1, EmptySeq
      <4> QED BY <3>1, <4>1 DEF Shows
    <3>2. CASE e.kind = "reset"
      BY <2>3, <3>2 DEF Shows
    <3>3. CASE last
      BY <3>3 DEF Shows, last
    <3> QED BY <2>5, <3>1, <3>2, <3>3 DEF last
  <2>9. AtCursor'
    <3>1. cursor' = Len(log') => Shows(Tip)'
      <4>1. ASSUME cursor + 1 = Len(log) PROVE Tip = Cut \/ Tip = e
        <5>1. log[Len(log)] = e
          BY <2>2, <4>1, Zenon
        <5>2. Len(log) # 0
          BY <1>6, <4>1
        <5> QED BY <1>6, <5>1, <5>2 DEF Tip
      <4>2. Tip' = Cut => Shows(Tip)'
        BY DEF Shows, Cut
      <4> QED BY <1>2, <1>5, <2>3, <2>8, <4>1, <4>2 DEF streamVars, Shows
    <3>2. ASSUME cursor + 1 < Len(log) PROVE \E q \in Point : Shows(q)' /\ Joins(q, log[cursor + 1])'
      <4>1. Joins(e, log[cursor + 2])
        <5>1. PICK i \in 1..Len(log) : i = cursor + 2
          BY <1>6, <3>2
        <5>2. Joins(IF i = 1 THEN Start ELSE log[i - 1], log[i])
          BY <1>1 DEF LogInv
        <5>3. i # 1 /\ i - 1 = cursor + 1
          BY <1>6, <5>1
        <5>4. (IF i = 1 THEN Start ELSE log[i - 1]) = e
          BY <2>2, <5>3
        <5> QED BY <5>1, <5>2, <5>4
      <4>2. PICK f \in Event : f = log[cursor + 2]
        BY <1>6, <3>2
      <4>3. e \in Point
        BY DEF Point
      <4>4. Joins(e, f)' /\ f = log'[cursor' + 1]
        BY <1>2, <1>6, <1>7, <2>3, <4>1, <4>2, <4>3 DEF streamVars
      <4> QED BY <2>8, <4>3, <4>4
    <3> QED BY <1>2, <2>3, <3>1, <3>2 DEF AtCursor, streamVars
  <2>10. EndInv'
    <3>1. CASE last
      <4>1. end'.run = e.run /\ pc' = "over" /\ view' = view
        BY <2>3, <3>1 DEF last
      <4>2. phase[e.run] = "over" /\ (made[e.run] = 0 \/ p = Nth(e.run, made[e.run]))
        BY <2>4, <3>1 DEF Joins, last
      <4>3. made[e.run] = 0 \/ Shows(Nth(e.run, made[e.run]))
        BY <2>4, <4>2
      <4>4. phase' = phase /\ made' = made
        BY <1>2 DEF workerVars
      <4> QED BY <4>1, <4>2, <4>3, <4>4 DEF EndInv, Shows
    <3>2. CASE ~last
      BY <1>1, <2>1, <2>3, <3>2 DEF EndInv
    <3> QED BY <3>1, <3>2
  <2> QED BY <1>4, <1>5, <2>7, <2>9, <2>10 DEF Streamed
<1> QED BY <1>9, <1>10, <1>11, <1>12 DEF Reader

\* A stream a superseded run has written to stays that.
LEMMA LateStays == ASSUME TypeOK, [Next]_vars PROVE late => late'
BY DEF Next, RunStep, Claim, ResetDeletes, ResetAppends, Produce, Settle, Requeue, Lose, Stored, AppendFails,
       Writes, SettleOutside, Reader, Read, ReadFails, Deliver, Load, Reconnect, Drop, vars, streamVars, TypeOK

\* Order holds initially.
LEMMA OrderInit == Init => OrderInv
<1> SUFFICES ASSUME Init PROVE OrderInv
  OBVIOUS
<1>1. Len(<<>>) = 0 /\ 1..0 = {}
  OBVIOUS
<1>2. LogInv /\ InOrder /\ EndInv
  BY <1>1 DEF Init, LogInv, InOrder, EndInv, NoEnd
<1>3. PhaseInv /\ (claimed # 0 => QueueInv(claimed))
  BY DEF Init, PhaseInv
<1>4. AtCursor /\ BatchIs
  <2>1. Tip = Start /\ cursor = Len(log) /\ view = <<>> /\ pc # "delivering"
    BY <1>1 DEF Init, Tip
  <2> QED BY <2>1 DEF AtCursor, Shows, Start, BatchIs
<1> QED BY <1>2, <1>3, <1>4 DEF OrderInv, Orderly

(***************************************************************************)
(* While no superseded run writes to the stream (claimChatGeneration takes *)
(* the row from it, and its appends are not fenced), log, buffer and view  *)
(* stay in order, for any runs, events, bounds and dropped connections.    *)
(***************************************************************************)
THEOREM OrderHolds == Spec => []OrderInv
<1>1. IInv /\ OrderInv /\ [Next]_vars => OrderInv'
  <2> SUFFICES ASSUME IInv, OrderInv, [Next]_vars PROVE OrderInv'
    OBVIOUS
  <2>1. BatchIs'
    BY BatchSteps DEF OrderInv
  <2>2. ASSUME ~late' PROVE Orderly'
    <3>1. Orderly /\ BatchIs
      BY <2>2, LateStays DEF OrderInv, IInv
    <3>2. Queued /\ Streamed
      <4>1. CASE Reader \/ Drop \/ SettleOutside \/ UNCHANGED vars
        BY <3>1, <4>1, BrowserSteps
      <4>2. ASSUME NEW r \in Run, RunStep(r) PROVE Queued /\ Streamed
        BY <2>2, <3>1, <4>2, QuietSteps, WriteSteps DEF RunStep
      <4> QED BY <4>1, <4>2 DEF Next
    <3> QED BY <3>2 DEF Orderly, Queued, Streamed
  <2> QED BY <2>1, <2>2 DEF OrderInv
<1> QED BY Inductive, OrderInit, <1>1, PTL DEF Spec

\* What is shown of a run is the whole view or nothing of it.
LEMMA ShownWhole ==
  ASSUME TypeOK, InOrder, NEW r
  PROVE  Shown(r) = {} \/ (Shown(r) = 1..Len(view) /\ view # <<>> /\ view[Len(view)].run = r)
<1>1. DOMAIN view = 1..Len(view) /\ Len(view) \in Nat
  BY DEF TypeOK
<1>2. CASE \E i \in 1..Len(view) : view[i].run = r
  <2>1. 1 \in 1..Len(view) /\ Len(view) \in 1..Len(view) /\ view[1].run = r
    BY <1>1, <1>2 DEF InOrder
  <2>2. \A i \in 1..Len(view) : view[i].run = r
    BY <2>1 DEF InOrder
  <2> QED BY <1>1, <2>1, <2>2, EmptySeq DEF Shown
<1>3. CASE ~\E i \in 1..Len(view) : view[i].run = r
  BY <1>1, <1>3 DEF Shown
<1> QED BY <1>2, <1>3

(***************************************************************************)
(* NoGaps: the browser shows the newest run from its first event on and    *)
(* skips none, whatever appends fail, however the buffer overflows         *)
(* (createBufferedSseWriter) and wherever the browser reconnects.          *)
(***************************************************************************)
THEOREM NoGapsCorrect == Spec => []NoGaps
<1>1. IInv /\ OrderInv => NoGaps
  <2> SUFFICES ASSUME IInv, InOrder, NEW i \in Shown(claimed)
               PROVE  view[i].n = Cardinality({j \in Shown(claimed) : j <= i})
    BY DEF NoGaps, OrderInv, Orderly
  <2>1. TypeOK /\ Len(view) \in Nat
    BY DEF IInv, TypeOK
  <2>2. Shown(claimed) = 1..Len(view)
    BY <2>1, ShownWhole
  <2>3. {j \in Shown(claimed) : j <= i} = 1..i /\ i \in Nat /\ view[i].n = i
    BY <2>1, <2>2 DEF InOrder
  <2>4. Cardinality(1..i) = i
    BY <2>3, FS_Interval
  <2> QED BY <2>3, <2>4
<1> QED BY Inductive, OrderHolds, <1>1, PTL

(***************************************************************************)
(* OneRunShown: the view never mixes two runs, because a rerun's reset     *)
(* (resetChatEventStream) reaches the browser before its first event.      *)
(***************************************************************************)
THEOREM OneRunShownCorrect == Spec => []OneRunShown
<1>1. IInv /\ OrderInv => OneRunShown
  <2>1. IInv => DOMAIN view = 1..Len(view)
    BY DEF IInv, TypeOK
  <2> QED BY <2>1 DEF OrderInv, Orderly, InOrder, OneRunShown
<1> QED BY Inductive, OrderHolds, <1>1, PTL

(***************************************************************************)
(* EndIsWhole: a run's own terminal event reaches the browser only behind  *)
(* all that the run produced; a run whose buffer lost something sends none.*)
(***************************************************************************)
THEOREM EndIsWholeCorrect == Spec => []EndIsWhole
<1>1. IInv /\ OrderInv => EndIsWhole
  <2> SUFFICES ASSUME IInv, InOrder, EndInv, end.run # 0
               PROVE  Cardinality(Shown(end.run)) = made[end.run]
    BY DEF EndIsWhole, OrderInv, Orderly
  <2>1. TypeOK /\ Len(view) \in Nat /\ end.run \in Run /\ made[end.run] \in Nat
    BY ReplayAssumption DEF IInv, TypeOK, Run
  <2>2. \A i \in 1..Len(view) : view[i].n = i /\ i <= made[view[i].run]
    BY DEF InOrder
  <2>3. Shown(end.run) = {} \/ (Shown(end.run) = 1..Len(view) /\ view # <<>> /\ view[Len(view)].run = end.run)
    BY <2>1, ShownWhole
  <2>4. view # <<>> => Len(view) \in 1..Len(view)
    BY <2>1, EmptySeq DEF TypeOK
  <2>5. CASE made[end.run] = 0
    <3>1. Shown(end.run) = {}
      BY <2>1, <2>2, <2>3, <2>4, <2>5
    <3> QED BY <2>5, <3>1, FS_EmptySet
  <2>6. CASE made[end.run] # 0
    <3>1. view # <<>> /\ view[Len(view)] = Nth(end.run, made[end.run])
      BY <2>6 DEF EndInv, Shows, Nth
    <3>2. Len(view) = made[end.run] /\ Len(view) \in DOMAIN view /\ view[Len(view)].run = end.run
      <4>1. view[Len(view)].n = Len(view) /\ Len(view) \in 1..Len(view)
        BY <2>2, <2>4, <3>1
      <4>2. view[Len(view)].n = made[end.run] /\ view[Len(view)].run = end.run
        BY <3>1 DEF Nth
      <4>3. DOMAIN view = 1..Len(view)
        BY <2>1 DEF TypeOK
      <4> QED BY <4>1, <4>2, <4>3
    <3>3. Shown(end.run) = 1..Len(view)
      BY <2>3, <3>2 DEF Shown
    <3>4. \A n \in Nat : Cardinality(1..n) = n
      BY FS_Interval
    <3> QED BY <2>1, <3>2, <3>3, <3>4
  <2> QED BY <2>5, <2>6
<1> QED BY Inductive, OrderHolds, <1>1, PTL

-----------------------------------------------------------------------------
(* ChatSession, for a client that lets one exchange run at a time.         *)

Busy(g) == gen[g] \in Active \/ stmt[g]["client"].kind = "create"
InlineBusy(i) == inline[i] \in InlineOpen \cup {"failing"}

OneAtATime ==
  /\ \A g, h \in Gen : Busy(g) /\ Busy(h) => g = h
  /\ \A i, j \in Inline : InlineBusy(i) /\ InlineBusy(j) => i = j
  /\ \A g \in Gen, i \in Inline : ~(Busy(g) /\ InlineBusy(i))

\* No statement has seen another generation that is active; clients create.
Alone ==
  /\ \A g \in Gen, actor \in Actor : ~stmt[g][actor].others
  /\ \A g \in Gen : stmt[g]["worker"].kind # "create"

\* What the session shows, in flight too.
StatusShows ==
  /\ Working => session = "generating"
  /\ ~Working /\ (\A i \in Inline : ~InlineBusy(i)) => session = due

SessionInv == SessionTypeOK /\ OneAtATime /\ Alone /\ StatusShows

\* What a statement of either actor is.
LEMMA StatementType ==
  ASSUME NEW s \in Statement
  PROVE  /\ s.kind \in Kind \cup {"none"} /\ s.others \in BOOLEAN
         /\ s # NoStatement => s.kind \in Kind
<1>1. CASE s = NoStatement
  BY <1>1 DEF NoStatement
<1>2. CASE s \in [kind : Kind, others : BOOLEAN]
  BY <1>2
<1> QED BY <1>1, <1>2 DEF Statement

\* The session's types are kept by every step, whatever runs at once.
LEMMA SessionTypeStep ==
  ASSUME SessionTypeOK, [SessionNext]_sessionVars
  PROVE  SessionTypeOK'
<1> USE DEF SessionTypeOK
<1>1. ASSUME NEW g \in Gen, NEW actor \in Actor, NEW kind \in Kind, Begin(g, actor, kind)
      PROVE  SessionTypeOK'
  <2>1. [kind |-> kind, others |-> \E h \in Gen \ {g} : gen[h] \in Active] \in Statement
    BY <1>1 DEF Statement
  <2> QED BY <1>1, <2>1 DEF Begin
<1>2. ASSUME NEW g \in Gen, NEW actor \in Actor, Commit(g, actor) PROVE SessionTypeOK'
  <2>1. stmt[g][actor] \in Statement /\ NoStatement \in Statement
    BY DEF Statement
  <2>2. stmt[g][actor].kind \in Kind
    BY <1>2, <2>1, StatementType DEF Commit
  <2>3. RowStatus(stmt[g][actor].kind) \in GenStatus
    BY <2>2 DEF Kind, RowStatus, GenStatus, Active, Ended
  <2>4. SessionStatus(stmt[g][actor].kind, stmt[g][actor].others)
          \in {"idle", "generating", "failed"}
    BY DEF SessionStatus, RestStatus
  <2>5. stmt' \in [Gen -> [Actor -> Statement]]
    BY <1>2, <2>1 DEF Commit
  <2> QED BY <1>2, <2>3, <2>4, <2>5 DEF Commit
<1>3. ASSUME NEW g \in Gen, Release(g) PROVE SessionTypeOK'
  BY <1>3 DEF Release, GenStatus, Active
<1>4. ASSUME NEW i \in Inline,
             InlineStarts(i) \/ InlineCalls(i) \/ InlineAnswers(i) \/ InlineFails(i)
               \/ InlineSetupFails(i) \/ InlineMarksFailed(i) \/ InlineDies(i)
      PROVE  SessionTypeOK'
  BY <1>4 DEF InlineStarts, InlineCalls, InlineAnswers, InlineFails, InlineSetupFails,
     InlineMarksFailed, InlineDies, InlineStep, InlineOpen
<1>5. CASE UNCHANGED sessionVars
  BY <1>5 DEF sessionVars
<1> QED BY <1>1, <1>2, <1>3, <1>4, <1>5 DEF SessionNext

\* A client that counts less than one exchange has none.
LEMMA NothingRuns ==
  ASSUME MaxActive = 1, OneAtATime, Exchanges < MaxActive
  PROVE  /\ \A g \in Gen : ~Busy(g)
         /\ \A i \in Inline : ~InlineBusy(i)
<1> DEFINE B == {g \in Gen : Busy(g)}
           I == {i \in Inline : InlineBusy(i)}
<1>1. B = {} \/ \E g \in Gen : B = {g}
  BY DEF OneAtATime
<1>2. I = {} \/ \E i \in Inline : I = {i}
  BY DEF OneAtATime
<1>3. Cardinality(B) + Cardinality(I) < 1
  BY DEF Exchanges, Busy, InlineBusy
<1> HIDE DEF B, I
<1>4. /\ Cardinality({}) = 0
      /\ \A g \in Gen : Cardinality({g}) = 1
      /\ \A i \in Inline : Cardinality({i}) = 1
  BY FS_EmptySet, FS_Singleton
<1>5. B = {} /\ I = {}
  BY <1>1, <1>2, <1>3, <1>4
<1> QED BY <1>5 DEF B, I

\* Statements other than an insertion touch the one generation that is active.
LEMMA SessionInvBegin ==
  ASSUME MaxActive = 1, SessionInv, SessionTypeOK',
         NEW g \in Gen, NEW actor \in Actor, NEW kind \in Kind, Begin(g, actor, kind)
  PROVE  SessionInv'
<1> USE DEF SessionInv
<1>1. stmt' = [stmt EXCEPT ![g][actor] =
                 [kind |-> kind, others |-> \E h \in Gen \ {g} : gen[h] \in Active]]
  BY DEF Begin
<1>2. gen' = gen /\ session' = session /\ inline' = inline /\ due' = due
  BY DEF Begin
<1>3. ~ \E h \in Gen \ {g} : gen[h] \in Active
  <2>1. CASE kind = "create"
    BY <2>1, NothingRuns DEF Begin, Busy
  <2>2. CASE kind # "create"
    <3>1. gen[g] \in Active
      BY <2>2 DEF Begin, Accepts, Active, Kind
    <3> QED BY <3>1 DEF OneAtATime, Busy
  <2> QED BY <2>1, <2>2
<1>4. \A h \in Gen, a \in Actor :
        stmt'[h][a] = IF h = g /\ a = actor THEN [kind |-> kind, others |-> FALSE]
                      ELSE stmt[h][a]
  BY <1>1, <1>3 DEF SessionTypeOK
<1>5. Alone'
  BY <1>4 DEF Alone, Begin, KindsOf, Actor
<1>6. OneAtATime'
  <2>1. CASE kind = "create"
    <3>1. \A h \in Gen : ~Busy(h)
      BY <2>1, NothingRuns DEF Begin
    <3>2. \A i \in Inline : ~InlineBusy(i)
      BY <2>1, NothingRuns DEF Begin
    <3>3. \A h \in Gen \ {g} : ~Busy(h)'
      BY <1>2, <1>4, <3>1 DEF Busy, Actor
    <3>4. \A i \in Inline : ~InlineBusy(i)'
      BY <1>2, <3>2 DEF InlineBusy
    <3> QED BY <3>3, <3>4 DEF OneAtATime
  <2>2. CASE kind # "create"
    <3>1. \A h \in Gen : Busy(h)' => Busy(h)
      BY <1>2, <1>4, <2>2 DEF Busy, Actor
    <3>2. \A i \in Inline : InlineBusy(i)' <=> InlineBusy(i)
      BY <1>2 DEF InlineBusy
    <3> QED BY <3>1, <3>2 DEF OneAtATime
  <2> QED BY <2>1, <2>2
<1>7. StatusShows'
  BY <1>2 DEF StatusShows, Working, InlineBusy
<1> QED BY <1>5, <1>6, <1>7

\* A statement that takes effect is of the one exchange there is.
LEMMA SessionInvCommit ==
  ASSUME SessionInv, SessionTypeOK', NEW g \in Gen, NEW actor \in Actor, Commit(g, actor)
  PROVE  SessionInv'
<1> USE DEF SessionInv
<1> DEFINE s == stmt[g][actor]
<1>1. s \in Statement /\ s # NoStatement /\ s.kind \in Kind /\ ~s.others
  <2>1. s \in Statement /\ ~s.others
    BY DEF SessionTypeOK, Alone
  <2> QED BY <2>1, StatementType DEF Commit
<1>2. \A h \in Gen, a \in Actor :
        stmt'[h][a] = IF h = g /\ a = actor THEN NoStatement ELSE stmt[h][a]
  BY DEF Commit, SessionTypeOK
<1>3. inline' = inline
  BY DEF Commit
<1>4. Alone'
  BY <1>2 DEF Alone, NoStatement, Actor
<1>5. CASE gen[g] \notin Accepts(actor, s.kind)
  <2>1. gen' = gen /\ session' = session /\ due' = due
    BY <1>5 DEF Commit
  <2>2. \A h \in Gen : Busy(h)' => Busy(h)
    BY <1>2, <2>1 DEF Busy, Actor, NoStatement
  <2>3. OneAtATime'
    BY <1>3, <2>2 DEF OneAtATime, InlineBusy
  <2>4. StatusShows'
    BY <1>3, <2>1 DEF StatusShows, Working, InlineBusy
  <2> QED BY <1>4, <2>3, <2>4
<1>6. CASE gen[g] \in Accepts(actor, s.kind)
  <2>1. /\ gen' = [gen EXCEPT ![g] = RowStatus(s.kind)]
        /\ session' = SessionStatus(s.kind, s.others)
        /\ due' = IF s.kind \in {"create", "claim"} THEN due
                   ELSE IF s.kind = "fail" THEN "failed" ELSE "idle"
    BY <1>6 DEF Commit
  <2>2. \A h \in Gen : gen'[h] = IF h = g THEN RowStatus(s.kind) ELSE gen[h]
    BY <2>1 DEF SessionTypeOK
  <2>3. Busy(g)
    <3>1. CASE s.kind = "create"
      <4>1. actor = "client"
        BY <3>1 DEF Actor, Alone
      <4> QED BY <3>1, <4>1 DEF Busy
    <3>2. CASE s.kind # "create"
      BY <1>1, <1>6, <3>2 DEF Busy, Accepts, Active, Kind
    <3> QED BY <3>1, <3>2
  <2>4. /\ \A h \in Gen \ {g} : ~Busy(h)
        /\ \A i \in Inline : ~InlineBusy(i)
    BY <2>3 DEF OneAtATime
  <2>5. \A h \in Gen \ {g} : ~Busy(h)'
    BY <1>2, <2>2, <2>4 DEF Busy, Actor, NoStatement
  <2>6. \A i \in Inline : ~InlineBusy(i)'
    BY <1>3, <2>4 DEF InlineBusy
  <2>7. OneAtATime'
    BY <2>5, <2>6 DEF OneAtATime
  <2>8. Working' <=> RowStatus(s.kind) \in Active
    BY <2>2, <2>5 DEF Working, Busy
  <2>9. StatusShows'
    <3>1. CASE s.kind \in {"create", "claim"}
      BY <2>1, <2>8, <3>1 DEF StatusShows, RowStatus, SessionStatus, Active
    <3>2. CASE s.kind \in {"complete", "fail", "cancel"}
      BY <1>1, <2>1, <2>8, <3>2 DEF StatusShows, RowStatus, SessionStatus, RestStatus, Active
    <3> QED BY <1>1, <3>1, <3>2 DEF Kind
  <2> QED BY <1>4, <2>7, <2>9
<1> QED BY <1>5, <1>6

\* A release leaves an active generation active.
LEMMA SessionInvRelease ==
  ASSUME SessionInv, SessionTypeOK', NEW g \in Gen, Release(g)
  PROVE  SessionInv'
<1> USE DEF SessionInv
<1>1. /\ \A h \in Gen : gen'[h] \in Active <=> gen[h] \in Active
      /\ UNCHANGED <<session, stmt, inline, due>>
  BY DEF Release, SessionTypeOK, Active
<1>2. \A h \in Gen : Busy(h)' <=> Busy(h)
  BY <1>1 DEF Busy
<1>3. OneAtATime' /\ Alone'
  BY <1>1, <1>2 DEF OneAtATime, Alone, InlineBusy
<1> QED BY <1>1, <1>3 DEF StatusShows, Working, InlineBusy

\* While an inline exchange is open nothing else is; it ends with what it shows.
LEMMA SessionInvInline ==
  ASSUME MaxActive = 1, SessionInv, SessionTypeOK', NEW i \in Inline,
         InlineStarts(i) \/ InlineCalls(i) \/ InlineAnswers(i) \/ InlineFails(i)
           \/ InlineSetupFails(i) \/ InlineMarksFailed(i) \/ InlineDies(i)
  PROVE  SessionInv'
<1> USE DEF SessionInv
<1>1. gen' = gen /\ stmt' = stmt
  BY DEF InlineStarts, InlineCalls, InlineAnswers, InlineFails, InlineSetupFails,
     InlineMarksFailed, InlineDies
<1>2. \A j \in Inline \ {i} : inline'[j] = inline[j]
  BY DEF InlineStarts, InlineCalls, InlineAnswers, InlineFails, InlineSetupFails,
     InlineMarksFailed, InlineDies, SessionTypeOK
<1>3. /\ \A g \in Gen : ~Busy(g)
      /\ \A j \in Inline \ {i} : ~InlineBusy(j)
  <2>1. CASE InlineStarts(i)
    BY <2>1, NothingRuns DEF InlineStarts
  <2>2. CASE InlineBusy(i)
    BY <2>2 DEF OneAtATime
  <2> QED BY <2>1, <2>2 DEF InlineCalls, InlineAnswers, InlineFails, InlineSetupFails,
     InlineMarksFailed, InlineDies, InlineBusy, InlineOpen
<1>4. /\ \A g \in Gen : ~Busy(g)'
      /\ \A j \in Inline \ {i} : ~InlineBusy(j)'
  BY <1>1, <1>2, <1>3 DEF Busy, InlineBusy
<1>5. OneAtATime' /\ Alone'
  BY <1>1, <1>4 DEF OneAtATime, Alone
<1>6. ~Working'
  BY <1>4 DEF Working, Busy
<1>7. InlineBusy(i)' \/ session' = due'
  BY DEF InlineStarts, InlineCalls, InlineAnswers, InlineFails, InlineSetupFails,
     InlineMarksFailed, InlineDies, InlineBusy, InlineOpen, SessionTypeOK
<1> QED BY <1>5, <1>6, <1>7 DEF StatusShows

\* The invariant, for any number of generations and inline exchanges.
LEMMA SessionInvHolds ==
  ASSUME MaxActive = 1
  PROVE  SessionSpec => []SessionInv
<1>1. SessionInit => SessionInv
  <2>1. SUFFICES ASSUME SessionInit PROVE SessionInv
    OBVIOUS
  <2>2. SessionTypeOK
    BY <2>1 DEF SessionInit, SessionTypeOK, GenStatus, Statement, InlineStep
  <2>3. /\ \A g \in Gen : ~Busy(g)
        /\ \A i \in Inline : ~InlineBusy(i)
    BY <2>1 DEF SessionInit, Busy, InlineBusy, InlineOpen, Active, NoStatement, Actor
  <2>4. Alone
    BY <2>1 DEF SessionInit, Alone, NoStatement, Actor
  <2>5. ~Working /\ session = due
    BY <2>1, <2>3 DEF SessionInit, Working, Busy
  <2> QED BY <2>2, <2>3, <2>4, <2>5 DEF SessionInv, OneAtATime, StatusShows
<1>2. SessionInv /\ [SessionNext]_sessionVars => SessionInv'
  <2>1. SUFFICES ASSUME SessionInv, [SessionNext]_sessionVars PROVE SessionInv'
    OBVIOUS
  <2>2. SessionTypeOK'
    BY <2>1, SessionTypeStep DEF SessionInv
  <2>3. ASSUME NEW g \in Gen, NEW actor \in Actor, NEW kind \in Kind, Begin(g, actor, kind)
        PROVE  SessionInv'
    BY <2>1, <2>2, <2>3, SessionInvBegin
  <2>4. ASSUME NEW g \in Gen, NEW actor \in Actor, Commit(g, actor) PROVE SessionInv'
    BY <2>1, <2>2, <2>4, SessionInvCommit
  <2>5. ASSUME NEW g \in Gen, Release(g) PROVE SessionInv'
    BY <2>1, <2>2, <2>5, SessionInvRelease
  <2>6. ASSUME NEW i \in Inline,
               InlineStarts(i) \/ InlineCalls(i) \/ InlineAnswers(i) \/ InlineFails(i)
                 \/ InlineSetupFails(i) \/ InlineMarksFailed(i) \/ InlineDies(i)
        PROVE  SessionInv'
    BY <2>1, <2>2, <2>6, SessionInvInline
  <2>7. CASE UNCHANGED sessionVars
    BY <2>1, <2>2, <2>7 DEF sessionVars, SessionInv, OneAtATime, Alone, StatusShows, Working, Busy,
       InlineBusy
  <2> QED BY <2>1, <2>3, <2>4, <2>5, <2>6, <2>7 DEF SessionNext
<1> QED BY <1>1, <1>2, PTL DEF SessionSpec

(* The session's state keeps its types whatever a client lets run at once. *)
THEOREM SessionTypeCorrect == SessionSpec => []SessionTypeOK
<1>1. SessionInit => SessionTypeOK
  BY DEF SessionInit, SessionTypeOK, GenStatus, Statement, InlineStep
<1>2. SessionTypeOK /\ [SessionNext]_sessionVars => SessionTypeOK'
  BY SessionTypeStep
<1> QED BY <1>1, <1>2, PTL DEF SessionSpec

(* A client that sends one message at a time and finds the session not     *)
(* generating has no generation left to wait for, however many statements, *)
(* of workers that lost their claim or of Stop requests, are late.         *)
THEOREM SessionShowsWorkCorrect ==
  ASSUME MaxActive = 1
  PROVE  SessionSpec => []SessionShowsWork
<1>1. SessionInv => SessionShowsWork
  BY DEF SessionInv, StatusShows, SessionShowsWork
<1> QED BY <1>1, SessionInvHolds, PTL

(* At rest the session shows how the last exchange of such a client ended. *)
THEOREM SessionShowsOutcomeCorrect ==
  ASSUME MaxActive = 1
  PROVE  SessionSpec => []SessionShowsOutcome
<1>1. SessionInv => SessionShowsOutcome
  BY DEF SessionInv, StatusShows, SessionShowsOutcome, Quiet, InlineBusy
<1> QED BY <1>1, SessionInvHolds, PTL

(* Without inline exchanges, a client that sends one message at a time     *)
(* never finds a settled session "generating": the configuration on file   *)
(* in which it does needs two generations at once.                         *)
THEOREM SettledOneAtATime ==
  ASSUME MaxActive = 1, Inline = {}
  PROVE  SessionSpec => []SettledWithSession
<1> DEFINE Rests == due # "generating"
<1>1. SessionInit => Rests
  BY DEF SessionInit
<1>2. Rests /\ [SessionNext]_sessionVars => Rests'
  BY DEF SessionNext, sessionVars, Begin, Commit, Release
<1>3. SessionInv /\ Rests => SettledWithSession
  <2>1. SUFFICES ASSUME SessionInv, Rests, \A g \in Gen : gen[g] \in Ended
                 PROVE  session # "generating"
    BY DEF SettledWithSession
  <2>2. ~Working
    BY <2>1 DEF Working, Ended, Active
  <2> QED BY <2>1, <2>2 DEF SessionInv, StatusShows
<1> QED BY <1>1, <1>2, <1>3, SessionInvHolds, PTL DEF SessionSpec
=============================================================================
