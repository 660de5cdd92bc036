----------------------------- MODULE ToolAction -----------------------------
(***************************************************************************)
(* Tools that write only propose: lib/chat/actions.ts stores the call in   *)
(* app.chat_tool_actions and the user decides it at                        *)
(* api/chat/actions/[id].  One account, one chat session that may be       *)
(* deleted, any number of concurrent proposals and decisions.              *)
(*                                                                         *)
(* A proposal runs one READ COMMITTED transaction under the account's row  *)
(* lock; a decision is a chain of statements without a transaction, each   *)
(* atomic, and its request may end between any two.  A Canvas connection   *)
(* stands for the domain and token its fingerprint is taken of.            *)
(***************************************************************************)
EXTENDS Integers, Sequences, FiniteSets

CONSTANTS
  Proposer,      \* concurrent calls of proposeToolAction
  Decider,       \* concurrent POST requests
  Connection,    \* Canvas connections the account may have
  None,          \* no proposer, no connection
  MaxActions,    \* rows an account may have, 30
  MaxProposals,  \* bound on rows ever stored
  MaxVersion     \* bound on session_version

ASSUME ActionAssumption ==
  /\ MaxActions \in Nat \ {0} /\ MaxProposals \in Nat /\ MaxVersion \in Nat
  /\ None \notin Proposer /\ None \notin Connection
  /\ "local" \notin Connection /\ None # "local"

VARIABLES
  account,   \* app.login: session_version, is_active, the Canvas connection
  lock,      \* the transaction holding the account's row lock
  session,   \* the chat session exists
  row,       \* [Action -> Row \cup {NoRow}]: app.chat_tool_actions
  stored,    \* rows ever stored
  prop,      \* [Proposer -> where proposeToolAction is]
  dec,       \* [Decider -> where the POST handler is]
  late,      \* writes that were sent and whose answer is no longer awaited
  written,   \* [Action -> Seq(Target)]: writes that took effect (history)
  shown      \* [Action -> the target the user was shown] (history)

worldVars == <<late, written, shown>>
rowVars == <<row, stored>>
vars == <<account, lock, session, rowVars, prop, dec, worldVars>>

Action == 1..MaxProposals
Target == Connection \cup {"local"}
Status == {"pending", "executing", "completed", "failed", "rejected"}
Row == [status : Status, version : 0..MaxVersion, target : Target, ofSession : BOOLEAN,
        expired : BOOLEAN]
NoRow == [status |-> "none"]
Proposal == [step : {"idle", "asked", "begun", "locked", "counted"},
             target : Target, ofSession : BOOLEAN, old : SUBSET Action,
             version : 0..MaxVersion]
Decision == [step : {"idle", "authed", "claimed", "ready", "written", "failing"},
             action : 0..MaxProposals, approve : BOOLEAN, version : 0..MaxVersion,
             target : Target]

TypeOK ==
  /\ account \in [version : 0..MaxVersion, active : BOOLEAN, canvas : Connection \cup {None}]
  /\ lock \in Proposer \cup {None} /\ session \in BOOLEAN
  /\ row \in [Action -> Row \cup {NoRow}]
  /\ stored \in 0..MaxProposals
  /\ prop \in [Proposer -> Proposal]
  /\ dec \in [Decider -> Decision]
  /\ late \subseteq Action \X Target
  /\ written \in [Action -> Seq(Target)]
  /\ shown \in [Action -> Target]

IdleProposal ==
  [step |-> "idle", target |-> "local", ofSession |-> FALSE, old |-> {}, version |-> 0]
IdleDecision ==
  [step |-> "idle", action |-> 0, approve |-> FALSE, version |-> 0, target |-> "local"]

Init ==
  /\ account \in [version : {0}, active : {TRUE}, canvas : Connection \cup {None}]
  /\ lock = None /\ session = TRUE
  /\ row = [a \in Action |-> NoRow] /\ stored = 0
  /\ prop = [p \in Proposer |-> IdleProposal]
  /\ dec = [d \in Decider |-> IdleDecision]
  /\ late = {} /\ written = [a \in Action |-> <<>>]
  /\ shown = [a \in Action |-> "local"]

Present == {a \in Action : row[a] # NoRow}
Pending == {a \in Present : row[a].status = "pending"}
Expired == {a \in Present : row[a].expired}

-----------------------------------------------------------------------------
(* proposeToolAction.                                                      *)

\* A local tool belongs to the chat session; a Canvas one is bound to the
\* connection read here and may come from the MCP endpoint, outside a session.
Ask(p) ==
  /\ prop[p].step = "idle"
  /\ \E target \in Target, ofSession \in BOOLEAN :
       /\ target = "local" => ofSession
       /\ target # "local" => account.active /\ target = account.canvas
       /\ ofSession => session
       /\ prop' = [prop EXCEPT ![p].step = "asked", ![p].target = target,
                               ![p].ofSession = ofSession]
  /\ UNCHANGED <<account, lock, session, rowVars, dec, worldVars>>

\* NOW() is the transaction's start, before any wait for the lock.
Begin(p) ==
  /\ prop[p].step = "asked"
  /\ prop' = [prop EXCEPT ![p].step = "begun", ![p].old = Expired]
  /\ UNCHANGED <<account, lock, session, rowVars, dec, worldVars>>

Lock(p) ==
  /\ prop[p].step = "begun" /\ lock = None
  /\ IF account.active
       THEN /\ lock' = p
            /\ prop' = [prop EXCEPT ![p].step = "locked", ![p].version = account.version]
       ELSE prop' = [prop EXCEPT ![p] = IdleProposal] /\ UNCHANGED lock
  /\ UNCHANGED <<account, session, rowVars, dec, worldVars>>

\* The rows left after the transaction's own DELETE, handled ones included.
Counted(p) == Present \ prop[p].old

Full(p) == Cardinality(Counted(p)) >= MaxActions

Refuse(p) ==
  /\ prop[p].step = "locked" /\ Full(p)
  /\ prop' = [prop EXCEPT ![p] = IdleProposal]
  /\ lock' = None
  /\ UNCHANGED <<account, session, rowVars, dec, worldVars>>

Accept(p) ==
  /\ prop[p].step = "locked" /\ ~Full(p)
  /\ prop' = [prop EXCEPT ![p].step = "counted"]
  /\ UNCHANGED <<account, lock, session, rowVars, dec, worldVars>>

\* The row is stored and the transaction commits, its DELETE with it.
Insert(p) ==
  LET new == stored + 1
  IN /\ prop[p].step = "counted" /\ stored < MaxProposals
     /\ prop[p].ofSession => session
     /\ row' = [a \in Action |->
                  IF a = new
                    THEN [status |-> "pending", version |-> prop[p].version,
                          target |-> prop[p].target, ofSession |-> prop[p].ofSession,
                          expired |-> FALSE]
                    ELSE IF a \in prop[p].old THEN NoRow ELSE row[a]]
     /\ stored' = new
     /\ shown' = [shown EXCEPT ![new] = prop[p].target]
     /\ prop' = [prop EXCEPT ![p] = IdleProposal]
     /\ lock' = None
     /\ UNCHANGED <<account, session, dec, late, written>>

\* A statement fails, the session is gone, or the process dies: rolled back.
Abort(p) ==
  /\ prop[p].step # "idle"
  /\ prop' = [prop EXCEPT ![p] = IdleProposal]
  /\ lock' = IF lock = p THEN None ELSE lock
  /\ UNCHANGED <<account, session, rowVars, dec, worldVars>>

-----------------------------------------------------------------------------
(* POST /api/chat/actions/[id].                                            *)

Authenticate(d) ==
  /\ dec[d].step = "idle" /\ account.active
  /\ \E a \in 1..stored, approve \in BOOLEAN :
       dec' = [dec EXCEPT ![d] = [IdleDecision EXCEPT
                 !.step = "authed", !.action = a, !.approve = approve,
                 !.version = account.version]]
  /\ UNCHANGED <<account, lock, session, rowVars, prop, worldVars>>

Current(a) == account.active /\ row[a].version = account.version

\* Mutant: the claim does not join the account again.
ClaimTrustsRequest(d) ==
  LET a == dec[d].action
      open == a \in Pending \ Expired /\ row[a].version = dec[d].version
  IN /\ dec[d].step = "authed"
     /\ row' = IF open THEN [row EXCEPT ![a].status = IF dec[d].approve THEN "executing" ELSE "rejected"]
               ELSE row
     /\ dec' = IF open /\ dec[d].approve
                 THEN [dec EXCEPT ![d].step = "claimed", ![d].target = row[a].target]
                 ELSE [dec EXCEPT ![d] = IdleDecision]
     /\ UNCHANGED <<account, lock, session, stored, prop, worldVars>>

\* Mutant: the claim does not ask for a pending row.
ClaimAgain(d) ==
  LET a == dec[d].action
      open == a \in Present \ Expired /\ row[a].version = dec[d].version /\ Current(a)
  IN /\ dec[d].step = "authed"
     /\ row' = IF open THEN [row EXCEPT ![a].status = IF dec[d].approve THEN "executing" ELSE "rejected"]
               ELSE row
     /\ dec' = IF open /\ dec[d].approve
                 THEN [dec EXCEPT ![d].step = "claimed", ![d].target = row[a].target]
                 ELSE [dec EXCEPT ![d] = IdleDecision]
     /\ UNCHANGED <<account, lock, session, stored, prop, worldVars>>

\* One UPDATE decides: a row that is no longer open answers 409.
Claim(d) ==
  LET a == dec[d].action
      open == a \in Pending \ Expired /\ row[a].version = dec[d].version /\ Current(a)
  IN /\ dec[d].step = "authed"
     /\ row' = IF open THEN [row EXCEPT ![a].status = IF dec[d].approve THEN "executing" ELSE "rejected"]
               ELSE row
     /\ dec' = IF open /\ dec[d].approve
                 THEN [dec EXCEPT ![d].step = "claimed", ![d].target = row[a].target]
                 ELSE [dec EXCEPT ![d] = IdleDecision]
     /\ UNCHANGED <<account, lock, session, stored, prop, worldVars>>

\* Mutant: whatever connection the account has now is used.
ResolveAny(d) ==
  /\ dec[d].step = "claimed"
  /\ \/ /\ dec[d].target # "local" => account.active /\ account.canvas # None
        /\ dec' = [dec EXCEPT ![d].step = "ready",
                     ![d].target = IF @ = "local" THEN @ ELSE account.canvas]
     \/ dec' = [dec EXCEPT ![d].step = "failing"]
  /\ UNCHANGED <<account, lock, session, rowVars, prop, worldVars>>

\* A Canvas call takes the connection anew and stops if its fingerprint changed;
\* any of the handler's own checks or reads may fail as well.
Resolve(d) ==
  /\ dec[d].step = "claimed"
  /\ \/ /\ dec[d].target # "local" => account.active /\ account.canvas = dec[d].target
        /\ dec' = [dec EXCEPT ![d].step = "ready"]
     \/ dec' = [dec EXCEPT ![d].step = "failing"]
  /\ UNCHANGED <<account, lock, session, rowVars, prop, worldVars>>

\* The tool: its answer may be an error, or be lost, after the write took effect; or the
\* request gives up waiting for it, and the write takes effect later or never.
Write(d) ==
  /\ dec[d].step = "ready"
  /\ \/ /\ written' = [written EXCEPT ![dec[d].action] = Append(@, dec[d].target)]
        /\ \E step \in {"written", "failing"} : dec' = [dec EXCEPT ![d].step = step]
        /\ UNCHANGED late
     \/ /\ late' \in {late, late \cup {<<dec[d].action, dec[d].target>>}}
        /\ dec' = [dec EXCEPT ![d].step = "failing"] /\ UNCHANGED written
  /\ UNCHANGED <<account, lock, session, rowVars, prop, shown>>

\* The destination carries out what it was sent.
Land ==
  /\ \E write \in late :
       /\ written' = [written EXCEPT ![write[1]] = Append(@, write[2])]
       /\ late' = late \ {write}
  /\ UNCHANGED <<account, lock, session, rowVars, prop, dec, shown>>

\* Mutant: the statements that settle do not ask for an executing row.
SettledAnyway(a, status) ==
  IF a \in Present THEN [row EXCEPT ![a].status = status] ELSE row

Settled(a, status) ==
  IF row[a].status = "executing" THEN [row EXCEPT ![a].status = status] ELSE row

\* The UPDATE may fail, and may have been applied when it does.
Complete(d) ==
  /\ dec[d].step = "written"
  /\ \/ row' = Settled(dec[d].action, "completed") /\ dec' = [dec EXCEPT ![d] = IdleDecision]
     \/ row' \in {row, Settled(dec[d].action, "completed")} /\ dec' = [dec EXCEPT ![d].step = "failing"]
  /\ UNCHANGED <<account, lock, session, stored, prop, worldVars>>

Fail(d) ==
  /\ dec[d].step = "failing"
  /\ row' \in {row, Settled(dec[d].action, "failed")}
  /\ dec' = [dec EXCEPT ![d] = IdleDecision]
  /\ UNCHANGED <<account, lock, session, stored, prop, worldVars>>

\* The server process dies with the request.
Die(d) ==
  /\ dec[d].step # "idle"
  /\ dec' = [dec EXCEPT ![d] = IdleDecision]
  /\ UNCHANGED <<account, lock, session, rowVars, prop, worldVars>>

-----------------------------------------------------------------------------
(* The account, the session, the clock and the daily maintenance.          *)

\* A password reset or a newly verified address revokes every login.
Revoke ==
  /\ lock = None /\ account.active /\ account.version < MaxVersion
  /\ account' = [account EXCEPT !.version = @ + 1]
  /\ UNCHANGED <<lock, session, rowVars, prop, dec, worldVars>>

DeleteAccount ==
  /\ lock = None /\ account.active /\ account.version < MaxVersion
  /\ account' = [version |-> account.version + 1, active |-> FALSE, canvas |-> None]
  /\ UNCHANGED <<lock, session, rowVars, prop, dec, worldVars>>

\* Connecting replaces the connection, disconnecting clears it.
Connect ==
  /\ lock = None /\ account.active
  /\ \E c \in (Connection \cup {None}) \ {account.canvas} :
       account' = [account EXCEPT !.canvas = c]
  /\ UNCHANGED <<lock, session, rowVars, prop, dec, worldVars>>

\* The session's actions go with it (ON DELETE CASCADE).
DeleteSession ==
  /\ session /\ session' = FALSE
  /\ row' = [a \in Action |-> IF a \in Present /\ row[a].ofSession THEN NoRow ELSE row[a]]
  /\ UNCHANGED <<account, lock, stored, prop, dec, worldVars>>

Expire(a) ==
  /\ a \in Present \ Expired
  /\ row' = [row EXCEPT ![a].expired = TRUE]
  /\ UNCHANGED <<account, lock, session, stored, prop, dec, worldVars>>

\* Mutant: only actions still waiting for a decision are cleared.
PrunePending ==
  /\ Expired \cap Pending # {}
  /\ row' = [a \in Action |-> IF a \in Expired \cap Pending THEN NoRow ELSE row[a]]
  /\ UNCHANGED <<account, lock, session, stored, prop, dec, worldVars>>

Prune ==
  /\ Expired # {}
  /\ row' = [a \in Action |-> IF a \in Expired THEN NoRow ELSE row[a]]
  /\ UNCHANGED <<account, lock, session, stored, prop, dec, worldVars>>

Propose(p) == Ask(p) \/ Begin(p) \/ Lock(p) \/ Refuse(p) \/ Accept(p) \/ Insert(p) \/ Abort(p)

Decide(d) ==
  \/ Authenticate(d) \/ Claim(d) \/ Resolve(d) \/ Write(d)
  \/ Complete(d) \/ Fail(d) \/ Die(d)

Next ==
  \/ \E p \in Proposer : Propose(p)
  \/ (\E d \in Decider : Decide(d)) \/ Land
  \/ Revoke \/ DeleteAccount \/ Connect \/ DeleteSession
  \/ (\E a \in Action : Expire(a)) \/ Prune

Spec == Init /\ [][Next]_vars

\* Time passes, and the worker's daily maintenance keeps running.  Nothing is
\* assumed of the requests: any of them may stop where it is.
FairSpec == Spec /\ (\A a \in Action : WF_vars(Expire(a))) /\ WF_vars(Prune)

-----------------------------------------------------------------------------

\* An approval is good for one write, whatever is retried, lost or interrupted.
AtMostOnce == \A a \in Action : Len(written[a]) <= 1

\* What the user rejected, or has not decided yet, was not carried out.
RejectedNotWritten ==
  \A a \in Present : row[a].status \in {"pending", "rejected"} => written[a] = <<>>

\* An action shown as completed did happen.
CompletedWasWritten ==
  \A a \in Present : row[a].status = "completed" => written[a] # <<>>

\* A write reaches the destination its reviewer was shown, even if the account was
\* connected elsewhere meanwhile.
WritesWhereShown ==
  \A a \in Action : \A i \in DOMAIN written[a] : written[a][i] = shown[a]

\* Concurrent proposals never push an account over its cap.
Capped == Cardinality(Present \ Expired) <= MaxActions

\* Once logins are revoked or the account is closed, no request that was already
\* authenticated can decide an action proposed before.
RevokedStaysUndecided ==
  [][\A a \in Pending :
       row'[a] # NoRow /\ row'[a].status # "pending" => Current(a)]_vars

\* A decided action keeps its outcome until its row is removed.
OutcomeStands ==
  [][\A a \in Present :
       row[a].status \in {"completed", "failed", "rejected"}
         => row'[a] = NoRow \/ row'[a].status = row[a].status]_vars

\* No action is left executing for ever, although its request may have died.
EventuallyCleared ==
  \A a \in Action : row[a].status = "executing" ~> row[a].status # "executing"

\* "Too many pending actions. Review them before requesting more.": a proposal is
\* refused only when the account has MaxActions pending ones.
RefusedForPending ==
  [][\A p \in Proposer : Refuse(p) => Cardinality(Counted(p) \cap Pending) >= MaxActions]_vars

-----------------------------------------------------------------------------
(* What the component promises, without transactions or requests.          *)

\* The write of an approved action has not been sent, or not arrived.
Permitted(a) ==
  \/ \E d \in Decider : dec[d].action = a /\ dec[d].step \in {"claimed", "ready"}
  \/ \E target \in Target : <<a, target>> \in late

Approved == INSTANCE Approval WITH
  phase <- [a \in Action |-> IF a \in Present THEN row[a].status
                             ELSE IF a <= stored THEN "gone" ELSE "unasked"],
  open <- {a \in Action : Permitted(a)}

\* Every interleaving of proposals, decisions, retries and deaths is one in which each
\* action is decided once, its approval is used once and for what was shown, and it is shown
\* as completed only after that.
ImplementsApproval == Approved!Spec
=============================================================================
