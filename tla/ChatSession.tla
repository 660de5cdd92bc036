----------------------------- MODULE ChatSession -----------------------------
(***************************************************************************)
(* app.chat_sessions.generation_status of one session, as the statements   *)
(* of generation-store.ts and the inline path of POST /api/chat write it.  *)
(*                                                                         *)
(* PostgreSQL runs these statements at READ COMMITTED.  A statement reads  *)
(* the rows of other generations in the snapshot it takes when it starts,  *)
(* then waits for the locks of its own generation row and of the session   *)
(* row, re-checks its WHERE clause on their newest versions, and commits.  *)
(* So it is two steps here: Begin takes the snapshot, Commit does the rest.*)
(* Leases are left out: what they exclude is in ChatGeneration, and here a *)
(* cancellation may find a generating row revocable at any time.           *)
(***************************************************************************)
EXTENDS Integers, FiniteSets

CONSTANTS
  Gen,        \* background generations of the session
  Inline,     \* inline exchanges (SSE or JSON in the request itself)
  MaxActive,  \* exchanges a client lets run at once
  MayDie      \* whether the API process can die during an inline exchange

ASSUME ActiveAssumption == MaxActive \in Nat
ASSUME DieAssumption == MayDie \in BOOLEAN

VARIABLES
  gen,      \* [Gen -> GenStatus]: chat_generations.status
  session,  \* chat_sessions.generation_status
  stmt,     \* [Gen -> [Actor -> Statement]]: the statement in flight on the row
  inline,   \* [Inline -> InlineStep]
  due       \* the status the last exchange to end should show (history)

sessionVars == <<gen, session, stmt, inline, due>>

Active == {"queued", "generating"}
Ended  == {"completed", "failed", "cancelled"}
GenStatus == {"absent"} \cup Active \cup Ended

\* An inline exchange whose user message is saved: streaming; a JSON reply still
\* being set up, outside the handler's try; the JSON provider call inside it.
InlineOpen == {"sse", "json", "call"}
InlineStep == InlineOpen \cup {"new", "failing", "over", "dead"}

\* The worker that runs the generation, and the route or Stop request.
Actor == {"worker", "client"}
Kind == {"create", "claim", "complete", "fail", "cancel"}
NoStatement == [kind |-> "none", others |-> FALSE]
Statement == {NoStatement} \cup [kind : Kind, others : BOOLEAN]

SessionTypeOK ==
  /\ gen \in [Gen -> GenStatus]
  /\ session \in {"idle", "generating", "failed"}
  /\ stmt \in [Gen -> [Actor -> Statement]]
  /\ inline \in [Inline -> InlineStep]
  /\ due \in {"idle", "generating", "failed"}

SessionInit ==
  /\ gen = [g \in Gen |-> "absent"]
  /\ session = "idle"
  /\ stmt = [g \in Gen |-> [actor \in Actor |-> NoStatement]]
  /\ inline = [i \in Inline |-> "new"]
  /\ due = "idle"

-----------------------------------------------------------------------------
(* The statements, by the rows their WHERE clause accepts and what they    *)
(* write: createChatGeneration, claimChatGeneration, finalize (completed,  *)
(* failed, cancelled), fail, cancel and revoke.                            *)

Accepts(actor, kind) ==
  CASE kind = "create" -> {"absent"}
    [] kind = "claim"  -> Active
    [] kind = "cancel" -> IF actor = "worker" THEN {"generating"} ELSE Active
    [] kind = "fail"   -> IF actor = "worker" THEN {"generating"} ELSE {"queued"}
    [] OTHER           -> {"generating"}

KindsOf(actor) ==
  IF actor = "worker" THEN {"claim", "complete", "fail", "cancel"}
                      ELSE {"create", "fail", "cancel"}

RowStatus(kind) ==
  CASE kind = "create"   -> "queued"
    [] kind = "claim"    -> "generating"
    [] kind = "complete" -> "completed"
    [] kind = "fail"     -> "failed"
    [] OTHER             -> "cancelled"

\* Mutant: a failed exchange leaves the session idle.
RestIdle(kind) == "idle"

\* What the session shows when no other generation is active.
RestStatus(kind) == IF kind = "fail" THEN "failed" ELSE "idle"

\* Mutant: accepting a generation leaves the session as the last one left it.
SessionStatusLate(kind, others) ==
  IF kind = "claim" \/ others THEN "generating" ELSE RestStatus(kind)

\* The CASE of the settling statements; create and claim set it outright.
SessionStatus(kind, others) ==
  IF kind \in {"create", "claim"} \/ others THEN "generating" ELSE RestStatus(kind)

Exchanges ==
  Cardinality({g \in Gen : gen[g] \in Active \/ stmt[g]["client"].kind = "create"})
    + Cardinality({i \in Inline : inline[i] \in InlineOpen \cup {"failing"}})

Begin(g, actor, kind) ==
  /\ kind \in KindsOf(actor)
  /\ stmt[g][actor] = NoStatement
  /\ gen[g] \in Accepts(actor, kind)
  /\ kind = "create" => Exchanges < MaxActive
  /\ stmt' = [stmt EXCEPT ![g][actor] =
       [kind |-> kind, others |-> \E h \in Gen \ {g} : gen[h] \in Active]]
  /\ UNCHANGED <<gen, session, inline, due>>

Commit(g, actor) ==
  LET s == stmt[g][actor]
  IN /\ s # NoStatement
     /\ stmt' = [stmt EXCEPT ![g][actor] = NoStatement]
     /\ IF gen[g] \in Accepts(actor, s.kind)
          THEN /\ gen' = [gen EXCEPT ![g] = RowStatus(s.kind)]
               /\ session' = SessionStatus(s.kind, s.others)
               /\ due' = IF s.kind \in {"create", "claim"} THEN due
                          ELSE IF s.kind = "fail" THEN "failed" ELSE "idle"
          ELSE UNCHANGED <<gen, session, due>>
     /\ UNCHANGED inline

\* requeueChatGeneration and recoverStaleChatGenerations do not write the session.
Release(g) ==
  /\ gen[g] = "generating"
  /\ gen' = [gen EXCEPT ![g] = "queued"]
  /\ UNCHANGED <<session, stmt, inline, due>>

-----------------------------------------------------------------------------
(* The inline path: the user message marks the session generating, the     *)
(* answer marks it idle, and a failure saves what there is and then marks  *)
(* it failed.                                                              *)

InlineStarts(i) ==
  /\ inline[i] = "new" /\ Exchanges < MaxActive
  /\ \E step \in {"sse", "json"} : inline' = [inline EXCEPT ![i] = step]
  /\ session' = "generating"
  /\ UNCHANGED <<gen, stmt, due>>

InlineCalls(i) ==
  /\ inline[i] = "json"
  /\ inline' = [inline EXCEPT ![i] = "call"]
  /\ UNCHANGED <<gen, session, stmt, due>>

\* The provider's answer, or the canned reply when no provider is configured.
InlineAnswers(i) ==
  /\ inline[i] \in InlineOpen
  /\ inline' = [inline EXCEPT ![i] = "over"]
  /\ session' = "idle" /\ due' = "idle"
  /\ UNCHANGED <<gen, stmt>>

\* A throw inside a try; a message may have been saved by then (partial output,
\* or the answer itself).
InlineFails(i) ==
  /\ inline[i] \in {"sse", "call"}
  /\ inline' = [inline EXCEPT ![i] = "failing"]
  /\ session' \in {session, "idle"}
  /\ UNCHANGED <<gen, stmt, due>>

\* A throw while the JSON reply is set up reaches only withErrorHandler: the
\* client gets a 500 and the session is not written.
InlineSetupFails(i) ==
  /\ inline[i] = "json"
  /\ inline' = [inline EXCEPT ![i] = "over"]
  /\ due' = session
  /\ UNCHANGED <<gen, session, stmt>>

InlineMarksFailed(i) ==
  /\ inline[i] = "failing"
  /\ inline' = [inline EXCEPT ![i] = "over"]
  /\ session' = "failed" /\ due' = "failed"
  /\ UNCHANGED <<gen, stmt>>

\* The API process dies, or its write of the failure does: the session keeps what
\* the exchange wrote so far.
InlineDies(i) ==
  /\ MayDie /\ inline[i] \in InlineOpen \cup {"failing"}
  /\ inline' = [inline EXCEPT ![i] = "dead"]
  /\ due' = session
  /\ UNCHANGED <<gen, session, stmt>>

SessionNext ==
  \/ \E g \in Gen, actor \in Actor :
       (\E kind \in Kind : Begin(g, actor, kind)) \/ Commit(g, actor)
  \/ \E g \in Gen : Release(g)
  \/ \E i \in Inline : InlineStarts(i) \/ InlineCalls(i) \/ InlineAnswers(i)
                         \/ InlineFails(i) \/ InlineSetupFails(i)
                         \/ InlineMarksFailed(i) \/ InlineDies(i)

SessionSpec == SessionInit /\ [][SessionNext]_sessionVars

-----------------------------------------------------------------------------

\* No statement is in flight and no process is in the middle of an exchange.
Quiet ==
  /\ \A g \in Gen, actor \in Actor : stmt[g][actor] = NoStatement
  /\ \A i \in Inline : inline[i] \notin InlineOpen \cup {"failing"}

Working == \E g \in Gen : gen[g] \in Active

\* While a generation is queued or generating and nothing is in flight, the session
\* shows "generating": restored and polling clients wait only if it does.
SessionShowsWork == Quiet /\ Working => session = "generating"

\* At rest the session shows how its last exchange ended, whatever a statement
\* that lost its row or an exchange that died before it wrote.
SessionShowsOutcome == Quiet /\ ~Working => session = due

\* The settling statement writes message, generation and session together, so a
\* session all of whose generations have settled is not left "generating".
SettledWithSession ==
  Quiet /\ (\A g \in Gen : gen[g] \in Ended) => session # "generating"

\* Inline API failures mark the session failed, so a session that stays generating
\* points at the background path: some generation was accepted and is not settled.
StuckPointsAtBackground ==
  Quiet /\ session = "generating" => Working
=============================================================================
