------------------------- MODULE ToolAction_proofs -------------------------
(***************************************************************************)
(* Theorems about ToolAction: type correctness, at most one write per      *)
(* approval and to the destination shown, and the outcomes that stand.     *)
(*                                                                         *)
(* The argument: the claim is one-way, so the request that made it is the  *)
(* only one that ever holds the action, and it has not written before it   *)
(* writes.                                                                 *)
(***************************************************************************)
EXTENDS ToolAction, FiniteSetTheorems, TLAPS

\* The request has claimed its action.
Holds(d) == dec[d].step \in {"claimed", "ready", "written", "failing"}

IdsInv == \A a \in Action : a > stored => row[a] = NoRow /\ written[a] = <<>>

RowInv ==
  \A a \in Present :
    /\ row[a].target = shown[a]
    /\ row[a].status \in {"pending", "rejected"} => written[a] = <<>>
    /\ row[a].status = "completed" => written[a] # <<>>

WriteInv == \A a \in Action : written[a] \in {<<>>, <<shown[a]>>}

DecInv ==
  /\ \A d \in Decider : dec[d].step # "idle" => dec[d].action \in 1..stored
  /\ \A d \in Decider : Holds(d) =>
       /\ row[dec[d].action].status \notin {"pending", "rejected"}
       /\ dec[d].target = shown[dec[d].action]
       /\ dec[d].step \in {"claimed", "ready"} => written[dec[d].action] = <<>>
       /\ dec[d].step = "written" => written[dec[d].action] # <<>>

\* No two requests hold one action.
SoleInv ==
  \A d, e \in Decider :
    Holds(d) /\ Holds(e) /\ dec[d].action = dec[e].action => d = e

\* What was sent and not awaited is on its way to where it was shown, for the first time, and
\* nobody else is about to send it.
LateInv ==
  \A a \in Action, target \in Target : <<a, target>> \in late =>
    /\ a \in 1..stored /\ target = shown[a] /\ written[a] = <<>>
    /\ row[a].status \notin {"pending", "rejected"}
    /\ \A d \in Decider : dec[d].action = a => dec[d].step \notin {"claimed", "ready", "written"}

LEMMA NoRowIsNone == NoRow \notin Row /\ \A x \in Row : x # NoRow /\ x.status # "none"
  BY DEF NoRow, Row, Status

\* The types of what a proposal changes.
LEMMA ProposeType ==
  ASSUME TypeOK, NEW p \in Proposer, Propose(p)
  PROVE  TypeOK'
<1>1. 0 \in 0..MaxVersion /\ {} \in SUBSET Action /\ "local" \in Target
  BY ActionAssumption DEF Target
<1>2. IdleProposal \in Proposal
  BY <1>1 DEF IdleProposal, Proposal
<1>3. ASSUME prop' \in [Proposer -> Proposal], lock' \in Proposer \cup {None},
             UNCHANGED <<account, session, rowVars, dec, worldVars>>
      PROVE  TypeOK'
  BY <1>3 DEF TypeOK, rowVars, worldVars
<1>4. CASE Ask(p) \/ Begin(p) \/ Lock(p) \/ Refuse(p) \/ Accept(p) \/ Abort(p)
  <2>1. prop[p] \in Proposal /\ account.version \in 0..MaxVersion
    BY DEF TypeOK
  <2>2. PICK x : prop' = [prop EXCEPT ![p] = x] /\ x \in Proposal
    <3>1. CASE Ask(p)
      <4>1. PICK target \in Target, ofSession \in BOOLEAN :
              prop' = [prop EXCEPT ![p].step = "asked", ![p].target = target,
                                   ![p].ofSession = ofSession]
        BY <3>1 DEF Ask
      <4>2. [prop[p] EXCEPT !.step = "asked", !.target = target, !.ofSession = ofSession] \in Proposal
        BY <2>1 DEF Proposal
      <4>3. prop' = [prop EXCEPT ![p] = [prop[p] EXCEPT !.step = "asked", !.target = target,
                                                        !.ofSession = ofSession]]
        BY <4>1 DEF TypeOK
      <4> QED BY <4>2, <4>3
    <3>2. CASE Begin(p)
      <4>1. [prop[p] EXCEPT !.step = "begun", !.old = Expired] \in Proposal
        BY <2>1 DEF Proposal, Expired, Present
      <4>2. prop' = [prop EXCEPT ![p] = [prop[p] EXCEPT !.step = "begun", !.old = Expired]]
        BY <3>2 DEF Begin, TypeOK
      <4> QED BY <4>1, <4>2
    <3>3. CASE Lock(p) /\ account.active
      <4>1. [prop[p] EXCEPT !.step = "locked", !.version = account.version] \in Proposal
        BY <2>1 DEF Proposal
      <4>2. prop' = [prop EXCEPT ![p] = [prop[p] EXCEPT !.step = "locked", !.version = account.version]]
        BY <3>3 DEF Lock, TypeOK
      <4> QED BY <4>1, <4>2
    <3>4. CASE Accept(p)
      <4>1. [prop[p] EXCEPT !.step = "counted"] \in Proposal
        BY <2>1 DEF Proposal
      <4> QED BY <3>4, <4>1 DEF Accept, TypeOK
    <3>5. CASE (Lock(p) /\ ~account.active) \/ Refuse(p) \/ Abort(p)
      BY <1>2, <3>5 DEF Lock, Refuse, Abort
    <3> QED BY <1>4, <3>1, <3>2, <3>3, <3>4, <3>5
  <2>3. prop' \in [Proposer -> Proposal]
    BY <2>2 DEF TypeOK
  <2>4. lock' \in Proposer \cup {None} /\ UNCHANGED <<account, session, rowVars, dec, worldVars>>
    BY <1>4 DEF Ask, Begin, Lock, Refuse, Accept, Abort, TypeOK
  <2> QED BY <1>3, <2>3, <2>4
<1>7. CASE Insert(p)
  <2>1. stored + 1 \in Action /\ stored + 1 \in 0..MaxProposals
    BY <1>7, ActionAssumption DEF Insert, TypeOK, Action
  <2>2. row' \in [Action -> Row \cup {NoRow}]
    BY <1>7 DEF Insert, TypeOK, Proposal, Row, Status
  <2>3. shown' \in [Action -> Target]
    BY <1>7, <2>1 DEF Insert, TypeOK, Proposal
  <2>4. prop' \in [Proposer -> Proposal]
    BY <1>2, <1>7 DEF Insert, TypeOK
  <2>5. lock' \in Proposer \cup {None} /\ stored' \in 0..MaxProposals /\ UNCHANGED <<account, session, dec, late, written>>
    BY <1>7, <2>1 DEF Insert
  <2> QED BY <2>2, <2>3, <2>4, <2>5 DEF TypeOK
<1> QED BY <1>4, <1>7 DEF Propose

\* The types of what a decision changes.
LEMMA DecideType ==
  ASSUME TypeOK, DecInv, NEW d \in Decider, Decide(d)
  PROVE  TypeOK'
<1> DEFINE a == dec[d].action
<1>1. IdleDecision \in Decision
  BY ActionAssumption DEF IdleDecision, Decision, Target
<1>2. stored \in 0..MaxProposals /\ 1..stored \subseteq Action /\ 1..stored \subseteq 0..MaxProposals
  BY ActionAssumption DEF TypeOK, Action
<1>3. dec[d].step # "idle" => a \in Action
  BY <1>2 DEF DecInv
<1>4. dec[d] \in Decision /\ row \in [Action -> Row \cup {NoRow}] /\ written \in [Action -> Seq(Target)]
  BY DEF TypeOK
<1> DEFINE At(step) == [dec[d] EXCEPT !.step = step]
<1>11. \A step \in {"ready", "written", "failing"} : [dec EXCEPT ![d] = At(step)] \in [Decider -> Decision]
  <2>1. \A step \in {"ready", "written", "failing"} : At(step) \in Decision
    BY <1>4 DEF Decision
  <2> QED BY <2>1 DEF TypeOK
<1>12. \A step : [dec EXCEPT ![d].step = step] = [dec EXCEPT ![d] = At(step)]
  OBVIOUS
<1>5. CASE Authenticate(d)
  <2>1. PICK b \in 1..stored, approve \in BOOLEAN :
          dec' = [dec EXCEPT ![d] = [IdleDecision EXCEPT !.step = "authed", !.action = b,
                    !.approve = approve, !.version = account.version]]
    BY <1>5 DEF Authenticate
  <2>2. [IdleDecision EXCEPT !.step = "authed", !.action = b, !.approve = approve,
                             !.version = account.version] \in Decision
    BY <1>1, <1>2 DEF TypeOK, Decision
  <2>3. dec' \in [Decider -> Decision]
    BY <2>1, <2>2 DEF TypeOK
  <2> QED BY <1>5, <2>3 DEF Authenticate, TypeOK, rowVars, worldVars
<1>6. CASE Claim(d)
  <2>1. a \in Action
    BY <1>3, <1>6 DEF Claim
  <2>2. a \in Present => row[a] \in Row
    BY <1>4 DEF Present
  <2>3. row' \in [Action -> Row \cup {NoRow}]
    BY <1>4, <1>6, <2>1, <2>2 DEF Claim, Pending, Row, Status
  <2>4. dec' \in [Decider -> Decision]
    BY <1>1, <1>4, <1>6, <2>1, <2>2 DEF Claim, TypeOK, Decision, Pending, Row
  <2> QED BY <1>6, <2>3, <2>4 DEF Claim, TypeOK, worldVars
<1>7. CASE Resolve(d)
  <2>1. dec' \in [Decider -> Decision]
    BY <1>7, <1>11, <1>12 DEF Resolve
  <2> QED BY <1>7, <2>1 DEF Resolve, TypeOK, rowVars, worldVars
<1>8. CASE Write(d)
  <2>1. a \in Action /\ dec[d].target \in Target
    BY <1>3, <1>4, <1>8 DEF Write, Decision
  <2>2. Append(written[a], dec[d].target) \in Seq(Target)
    BY <1>4, <2>1
  <2>3. written' \in [Action -> Seq(Target)]
    BY <1>4, <1>8, <2>1, <2>2 DEF Write
  <2>5. late' \subseteq Action \X Target
    BY <1>8, <2>1 DEF Write, TypeOK
  <2>4. dec' \in [Decider -> Decision]
    BY <1>8, <1>11, <1>12 DEF Write
  <2> QED BY <1>8, <2>3, <2>4, <2>5 DEF Write, TypeOK, rowVars
<1>9. CASE Complete(d) \/ Fail(d)
  <2>1. a \in Action
    BY <1>3, <1>9 DEF Complete, Fail
  <2>2. row[a].status = "executing" => row[a] \in Row
    BY <1>4, <2>1 DEF NoRow
  <2>3. \A s \in Status : Settled(a, s) \in [Action -> Row \cup {NoRow}]
    BY <1>4, <2>1, <2>2 DEF Settled, Row, Status
  <2>4. row' \in [Action -> Row \cup {NoRow}]
    BY <1>4, <1>9, <2>3 DEF Complete, Fail, Status
  <2>5. dec' \in [Decider -> Decision]
    <3>1. [dec EXCEPT ![d] = IdleDecision] \in [Decider -> Decision]
      BY <1>1 DEF TypeOK
    <3> QED BY <1>9, <1>11, <1>12, <3>1 DEF Complete, Fail
  <2> QED BY <1>9, <2>4, <2>5 DEF Complete, Fail, TypeOK, worldVars
<1>10. CASE Die(d)
  BY <1>1, <1>10 DEF Die, TypeOK, rowVars, worldVars
<1> QED BY <1>5, <1>6, <1>7, <1>8, <1>9, <1>10 DEF Decide

\* The types when a write arrives late.
LEMMA LandType ==
  ASSUME TypeOK, Land
  PROVE  TypeOK'
<1>1. PICK write \in late : /\ written' = [written EXCEPT ![write[1]] = Append(@, write[2])]
                            /\ late' = late \ {write}
  BY DEF Land
<1>2. write[1] \in Action /\ write[2] \in Target
  BY DEF TypeOK
<1>3. Append(written[write[1]], write[2]) \in Seq(Target)
  BY <1>2 DEF TypeOK
<1>4. written' \in [Action -> Seq(Target)] /\ late' \subseteq Action \X Target
  BY <1>1, <1>2, <1>3 DEF TypeOK
<1> QED BY <1>4 DEF Land, TypeOK, rowVars

\* The account, the session, the clock and the maintenance.
Around == Revoke \/ DeleteAccount \/ Connect \/ DeleteSession \/ (\E a \in Action : Expire(a)) \/ Prune

LEMMA AroundType ==
  ASSUME TypeOK, Around
  PROVE  TypeOK'
<1>1. CASE Revoke \/ DeleteAccount \/ Connect
  <2> DEFINE A == [version : 0..MaxVersion, active : BOOLEAN, canvas : Connection \cup {None}]
  <2>1. account \in A
    BY DEF TypeOK
  <2>2. account.version < MaxVersion => account.version + 1 \in 0..MaxVersion
    BY <2>1, ActionAssumption
  <2>3. CASE Revoke
    <3>1. account.version + 1 \in 0..MaxVersion
      BY <2>2, <2>3 DEF Revoke
    <3>2. account' \in A
      BY <2>1, <2>3, <3>1 DEF Revoke
    <3> QED BY <2>3, <3>2 DEF Revoke, TypeOK, rowVars, worldVars
  <2>4. CASE DeleteAccount
    <3>1. account.version + 1 \in 0..MaxVersion
      BY <2>2, <2>4 DEF DeleteAccount
    <3>2. account' \in A
      BY <2>4, <3>1 DEF DeleteAccount
    <3> QED BY <2>4, <3>2 DEF DeleteAccount, TypeOK, rowVars, worldVars
  <2>5. CASE Connect
    <3>1. account' \in A
      BY <2>1, <2>5 DEF Connect
    <3> QED BY <2>5, <3>1 DEF Connect, TypeOK, rowVars, worldVars
  <2> QED BY <1>1, <2>3, <2>4, <2>5
<1>2. CASE DeleteSession \/ Prune
  BY <1>2 DEF DeleteSession, Prune, TypeOK, worldVars
<1>3. ASSUME NEW a \in Action, Expire(a) PROVE TypeOK'
  <2>1. row[a] \in Row
    BY <1>3 DEF Expire, Present, TypeOK
  <2>2. row' \in [Action -> Row \cup {NoRow}]
    BY <1>3, <2>1 DEF Expire, TypeOK, Row
  <2> QED BY <1>3, <2>2 DEF Expire, TypeOK, worldVars
<1> QED BY <1>1, <1>2, <1>3 DEF Around

DataInv == IdsInv /\ RowInv /\ WriteInv /\ DecInv /\ SoleInv /\ LateInv

dataVars == <<row, stored, dec, late, written, shown>>

\* Steps that leave actions and decisions alone.
LEMMA DataUnchanged == DataInv /\ UNCHANGED dataVars => DataInv'
  BY DEF DataInv, dataVars, IdsInv, RowInv, WriteInv, DecInv, SoleInv, LateInv, Holds, Present

\* A stored proposal is a fresh row nobody holds.
LEMMA InsertData ==
  ASSUME TypeOK, DataInv, NEW p \in Proposer, Insert(p)
  PROVE  DataInv'
<1> DEFINE new == stored + 1
<1>1. stored \in Nat /\ new \in Action /\ stored' = new /\ new > stored
  BY ActionAssumption DEF Insert, TypeOK, Action
<1>2. row[new] = NoRow /\ written[new] = <<>>
  BY <1>1 DEF DataInv, IdsInv
<1>3. UNCHANGED <<dec, late, written>> /\ shown' = [shown EXCEPT ![new] = prop[p].target]
  BY DEF Insert
<1>4. /\ row' \in [Action -> Row \cup {NoRow}]
      /\ row'[new] = [status |-> "pending", version |-> prop[p].version, target |-> prop[p].target,
                      ofSession |-> prop[p].ofSession, expired |-> FALSE]
      /\ \A a \in Action \ {new} : row'[a] \in {row[a], NoRow} /\ shown'[a] = shown[a]
  <2>1. TypeOK'
    BY ProposeType DEF Propose
  <2> QED BY <1>1, <1>3, <2>1 DEF Insert, TypeOK
<1>5. shown'[new] = prop[p].target
  BY <1>1, <1>3 DEF TypeOK
<1>6. IdsInv'
  BY <1>1, <1>3, <1>4 DEF DataInv, IdsInv, Action
<1>7. RowInv'
  BY <1>2, <1>3, <1>4, <1>5 DEF DataInv, RowInv, Present
<1>8. WriteInv'
  BY <1>2, <1>3, <1>4 DEF DataInv, WriteInv
<1>9. DecInv'
  <2>1. \A d \in Decider : dec[d].step # "idle" => dec[d].action \in Action \ {new} /\ dec[d].action \in 1..stored'
    <3>1. 1..stored \subseteq Action \ {new} /\ 1..stored \subseteq 1..stored'
      BY <1>1, ActionAssumption DEF TypeOK, Action
    <3> QED BY <3>1 DEF DataInv, DecInv
  <2>2. NoRow.status \notin {"pending", "rejected"}
    BY DEF NoRow
  <2> QED BY <1>3, <1>4, <2>1, <2>2 DEF DataInv, DecInv, Holds
<1>10. SoleInv'
  BY <1>3 DEF DataInv, SoleInv, Holds
<1>11. LateInv'
  <2> SUFFICES ASSUME NEW a \in Action, NEW target \in Target, <<a, target>> \in late
               PROVE  /\ a \in 1..stored' /\ target = shown'[a] /\ written[a] = <<>>
                      /\ row'[a].status \notin {"pending", "rejected"}
                      /\ \A d \in Decider : dec[d].action = a =>
                           dec[d].step \notin {"claimed", "ready", "written"}
    BY <1>3 DEF LateInv
  <2>1. /\ a \in 1..stored /\ target = shown[a] /\ written[a] = <<>>
        /\ row[a].status \notin {"pending", "rejected"}
        /\ \A d \in Decider : dec[d].action = a =>
             dec[d].step \notin {"claimed", "ready", "written"}
    BY DEF DataInv, LateInv
  <2>2. a \in Action \ {new} /\ a \in 1..stored'
    BY <1>1, <2>1, ActionAssumption
  <2>3. NoRow.status = "none"
    BY DEF NoRow
  <2> QED BY <1>4, <2>1, <2>2, <2>3
<1> QED BY <1>6, <1>7, <1>8, <1>9, <1>10, <1>11 DEF DataInv

\* Removing or expiring rows.
LEMMA RemovalData ==
  ASSUME TypeOK, DataInv, DeleteSession \/ Prune \/ (\E a \in Action : Expire(a))
  PROVE  DataInv'
<1>1. UNCHANGED <<stored, dec, late, written, shown>>
  BY DEF DeleteSession, Prune, Expire, worldVars
<1>2. \A a \in Action : \/ row'[a] \in {row[a], NoRow}
                        \/ /\ row[a] # NoRow /\ row'[a].status = row[a].status
                           /\ row'[a].target = row[a].target
  BY DEF DeleteSession, Prune, Expire, TypeOK, Present, Row
<1>3. NoRow.status \notin {"pending", "rejected"}
  BY DEF NoRow
<1>4. IdsInv' /\ WriteInv' /\ SoleInv'
  BY <1>1, <1>2 DEF DataInv, IdsInv, WriteInv, SoleInv, Holds
<1>5. LateInv'
  BY <1>1, <1>2, <1>3 DEF DataInv, LateInv
<1>6. RowInv'
  BY <1>1, <1>2 DEF DataInv, RowInv, Present
<1>7. DecInv'
  <2>1. \A d \in Decider : dec[d].step # "idle" => dec[d].action \in Action
    BY ActionAssumption DEF DataInv, DecInv, TypeOK, Action
  <2> QED BY <1>1, <1>2, <1>3, <2>1 DEF DataInv, DecInv, Holds
<1> QED BY <1>4, <1>5, <1>6, <1>7 DEF DataInv

\* A write that arrives late.
LEMMA LandData ==
  ASSUME TypeOK, DataInv, Land
  PROVE  DataInv'
<1>1. PICK a \in Action, target \in Target :
        /\ <<a, target>> \in late /\ late' = late \ {<<a, target>>}
        /\ written' = [written EXCEPT ![a] = Append(@, target)]
  <2>1. PICK write \in late : /\ written' = [written EXCEPT ![write[1]] = Append(@, write[2])]
                              /\ late' = late \ {write}
    BY DEF Land
  <2>2. write = <<write[1], write[2]>> /\ write[1] \in Action /\ write[2] \in Target
    BY DEF TypeOK
  <2> QED BY <2>1, <2>2
<1>2. UNCHANGED <<row, stored, dec, shown>>
  BY DEF Land, rowVars
<1>3. /\ a \in 1..stored /\ target = shown[a] /\ written[a] = <<>>
      /\ row[a].status \notin {"pending", "rejected"}
      /\ \A d \in Decider : dec[d].action = a => dec[d].step \notin {"claimed", "ready", "written"}
  BY <1>1 DEF DataInv, LateInv
<1>4. Append(written[a], target) = <<shown[a]>> /\ <<shown[a]>> # <<>>
  BY <1>3
<1>5. written'[a] = <<shown[a]>> /\ \A b \in Action \ {a} : written'[b] = written[b]
  BY <1>1, <1>4 DEF TypeOK
<1>6. IdsInv' /\ WriteInv'
  <2>1. \A b \in Action : b > stored => b # a
    BY <1>3, ActionAssumption DEF TypeOK, Action
  <2> QED BY <1>2, <1>5, <2>1 DEF DataInv, IdsInv, WriteInv
<1>7. RowInv'
  BY <1>2, <1>3, <1>4, <1>5 DEF DataInv, RowInv, Present
<1>8. DecInv'
  <2>1. \A d \in Decider : Holds(d) => dec[d].action \in Action
    BY ActionAssumption DEF Holds, DataInv, DecInv, TypeOK, Action
  <2>2. \A d \in Decider : dec[d].step \in {"claimed", "ready", "written"} =>
          written'[dec[d].action] = written[dec[d].action]
    BY <1>3, <1>5, <2>1 DEF Holds
  <2> QED BY <1>2, <2>2 DEF DataInv, DecInv, Holds
<1>9. SoleInv'
  BY <1>2 DEF DataInv, SoleInv, Holds
<1>10. LateInv'
  BY <1>1, <1>2, <1>3, <1>5 DEF DataInv, LateInv
<1> QED BY <1>6, <1>7, <1>8, <1>9, <1>10 DEF DataInv

\* A request's own steps.
LEMMA DecideData ==
  ASSUME TypeOK, DataInv, NEW d \in Decider, Decide(d)
  PROVE  DataInv'
<1> DEFINE a == dec[d].action
<1>1. UNCHANGED <<stored, shown>> /\ \A e \in Decider \ {d} : dec'[e] = dec[e]
  BY DEF Decide, Authenticate, Claim, Resolve, Write, Complete, Fail, Die, rowVars, worldVars, TypeOK
<1>2. \A e \in Decider : dec[e].step # "idle" => dec[e].action \in Action /\ dec[e].action \in 1..stored
  BY ActionAssumption DEF DataInv, DecInv, TypeOK, Action
<1>3. IdleDecision.step = "idle" /\ NoRow.status = "none"
  BY DEF IdleDecision, NoRow
<1>4. CASE Authenticate(d) \/ Die(d)
  <2>1. UNCHANGED <<row, late, written>>
    BY <1>4 DEF Authenticate, Die, rowVars, worldVars
  <2>2. dec'[d].step \in {"idle", "authed"} /\ (dec'[d].step # "idle" => dec'[d].action \in 1..stored)
    <3>1. CASE Authenticate(d)
      <4>1. PICK b \in 1..stored, approve \in BOOLEAN :
              dec' = [dec EXCEPT ![d] = [IdleDecision EXCEPT !.step = "authed", !.action = b,
                        !.approve = approve, !.version = account.version]]
        BY <3>1 DEF Authenticate
      <4>2. dec'[d].step = "authed" /\ dec'[d].action = b
        BY <4>1 DEF TypeOK, IdleDecision
      <4> QED BY <4>2
    <3>2. CASE Die(d)
      BY <1>3, <3>2 DEF Die, TypeOK
    <3> QED BY <1>4, <3>1, <3>2
  <2>3. LateInv'
    BY <1>1, <2>1, <2>2 DEF DataInv, LateInv
  <2> QED BY <1>1, <2>1, <2>2, <2>3 DEF DataInv, IdsInv, RowInv, WriteInv, DecInv, SoleInv, Holds, Present
<1>5. CASE Claim(d)
  <2> DEFINE open == a \in Pending \ Expired /\ row[a].version = dec[d].version /\ Current(a)
  <2>1. a \in Action /\ a \in 1..stored /\ UNCHANGED <<late, written>>
    BY <1>2, <1>5 DEF Claim, worldVars
  <2>2. CASE open
    <3>1. row[a] \in Row /\ row[a].status = "pending" /\ row[a].target = shown[a] /\ written[a] = <<>>
      BY <2>2 DEF Pending, Present, TypeOK, DataInv, RowInv
    <3>2. \A e \in Decider : Holds(e) => dec[e].action # a
      BY <3>1 DEF DataInv, DecInv
    <3>3. /\ row'[a].status \in {"executing", "rejected"} /\ row'[a].target = row[a].target
          /\ \A b \in Action \ {a} : row'[b] = row[b]
          /\ row'[a] # NoRow
      BY <1>3, <1>5, <2>1, <2>2, <3>1 DEF Claim, TypeOK, Row
    <3>4. \/ dec'[d].step = "idle"
          \/ /\ dec'[d].step = "claimed" /\ dec'[d].action = a /\ dec'[d].target = shown[a]
             /\ row'[a].status = "executing"
      BY <1>3, <1>5, <2>1, <2>2, <3>1 DEF Claim, TypeOK, Row, Decision
    <3>5. IdsInv' /\ WriteInv'
      BY <1>1, <2>1, <3>1, <3>3, <1>3 DEF DataInv, IdsInv, WriteInv
    <3>6. RowInv'
      BY <1>1, <2>1, <3>1, <3>3 DEF DataInv, RowInv, Present
    <3>7. DecInv'
      BY <1>1, <1>2, <2>1, <3>1, <3>2, <3>3, <3>4 DEF DataInv, DecInv, Holds
    <3>8. SoleInv'
      BY <1>1, <3>2, <3>4 DEF DataInv, SoleInv, Holds
    <3>9. LateInv'
      <4>1. \A target \in Target : <<a, target>> \notin late
        BY <2>1, <3>1 DEF DataInv, LateInv
      <4> QED BY <1>1, <2>1, <3>3, <3>4, <4>1 DEF DataInv, LateInv
    <3> QED BY <3>5, <3>6, <3>7, <3>8, <3>9 DEF DataInv
  <2>3. CASE ~open
    <3>1. row' = row /\ dec'[d].step = "idle"
      BY <1>3, <1>5, <2>3 DEF Claim, TypeOK
    <3>2. LateInv'
      BY <1>1, <2>1, <3>1 DEF DataInv, LateInv
    <3> QED BY <1>1, <2>1, <3>1, <3>2 DEF DataInv, IdsInv, RowInv, WriteInv, DecInv, SoleInv, Holds, Present
  <2> QED BY <2>2, <2>3
<1>6. CASE Resolve(d)
  <2>1. UNCHANGED <<row, late, written>> /\ dec[d].step = "claimed"
    BY <1>6 DEF Resolve, rowVars, worldVars
  <2>2. /\ dec'[d].step \in {"ready", "failing"} /\ dec'[d].action = a
        /\ dec'[d].target = dec[d].target
    BY <1>6 DEF Resolve, TypeOK, Decision
  <2>3. LateInv'
    BY <1>1, <2>1, <2>2 DEF DataInv, LateInv
  <2> QED BY <1>1, <2>1, <2>2, <2>3 DEF DataInv, IdsInv, RowInv, WriteInv, DecInv, SoleInv, Holds, Present
<1>7. CASE Write(d)
  <2>1. row' = row /\ dec[d].step = "ready" /\ a \in Action /\ a \in 1..stored
    BY <1>2, <1>7 DEF Write, rowVars
  <2>2. written[a] = <<>> /\ dec[d].target = shown[a]
    BY <2>1 DEF DataInv, DecInv, Holds
  <2>3. Append(written[a], dec[d].target) = <<shown[a]>> /\ <<shown[a]>> # <<>>
    BY <2>2
  <2>4. /\ dec'[d].action = a /\ dec'[d].target = dec[d].target
        /\ \/ dec'[d].step \in {"written", "failing"} /\ written'[a] = <<shown[a]>> /\ late' = late
           \/ /\ dec'[d].step = "failing" /\ written'[a] = written[a]
              /\ late' \in {late, late \cup {<<a, shown[a]>>}}
        /\ \A b \in Action \ {a} : written'[b] = written[b]
    BY <1>7, <2>1, <2>2, <2>3 DEF Write, TypeOK, Decision
  <2>5. \A e \in Decider \ {d} : Holds(e) => dec[e].action # a
    BY <2>1 DEF DataInv, SoleInv, Holds
  <2>6. IdsInv' /\ WriteInv'
    <3>1. \A b \in Action : b > stored => b # a
      BY <2>1, ActionAssumption DEF TypeOK, Action
    <3> QED BY <1>1, <2>1, <2>4, <3>1 DEF DataInv, IdsInv, WriteInv
  <2>7. RowInv'
    <3>1. row[a].status \notin {"pending", "rejected"}
      BY <2>1 DEF DataInv, DecInv, Holds
    <3> QED BY <1>1, <2>1, <2>3, <2>4, <3>1 DEF DataInv, RowInv, Present
  <2>8. DecInv'
    <3>1. \A e \in Decider \ {d} : Holds(e) => written'[dec[e].action] = written[dec[e].action]
      BY <1>2, <2>4, <2>5 DEF Holds
    <3>2. /\ dec'[d].action \in 1..stored /\ dec'[d].target = shown[a]
          /\ row[a].status \notin {"pending", "rejected"}
          /\ dec'[d].step = "written" => written'[a] # <<>>
      BY <2>1, <2>2, <2>3, <2>4 DEF DataInv, DecInv, Holds
    <3> QED BY <1>1, <2>1, <2>4, <3>1, <3>2 DEF DataInv, DecInv, Holds
  <2>9. SoleInv'
    BY <1>1, <2>1, <2>4 DEF DataInv, SoleInv, Holds
  <2>10. LateInv'
    <3>1. \A target \in Target : <<a, target>> \notin late
      BY <2>1 DEF DataInv, LateInv
    <3>2. row[a].status \notin {"pending", "rejected"}
      BY <2>1 DEF DataInv, DecInv, Holds
    <3>3. \A b \in Action \ {a}, target \in Target : <<b, target>> \in late' => <<b, target>> \in late
      BY <2>4
    <3>4. \A target \in Target : <<a, target>> \in late' =>
            /\ target = shown[a] /\ written'[a] = <<>> /\ dec'[d].step = "failing"
      BY <2>2, <2>4, <3>1
    <3>5. \A e \in Decider : dec'[e].action = a /\ dec'[d].step = "failing" =>
            dec'[e].step \notin {"claimed", "ready", "written"}
      BY <1>1, <2>5 DEF Holds
    <3>6. ASSUME NEW b \in Action \ {a}, NEW target \in Target, <<b, target>> \in late'
          PROVE  /\ b \in 1..stored /\ target = shown[b] /\ written'[b] = <<>>
                 /\ row[b].status \notin {"pending", "rejected"}
                 /\ \A e \in Decider : dec'[e].action = b =>
                      dec'[e].step \notin {"claimed", "ready", "written"}
      BY <1>1, <2>4, <3>3, <3>6 DEF DataInv, LateInv
    <3> QED BY <1>1, <2>1, <3>2, <3>4, <3>5, <3>6 DEF LateInv
  <2> QED BY <2>6, <2>7, <2>8, <2>9, <2>10 DEF DataInv
<1>8. CASE Complete(d) \/ Fail(d)
  <2>1. UNCHANGED <<late, written>> /\ dec[d].step \in {"written", "failing"} /\ a \in Action /\ a \in 1..stored
    BY <1>2, <1>8 DEF Complete, Fail, worldVars
  <2>2. \/ row' = row
        \/ /\ row[a].status = "executing" /\ row[a] \in Row
           /\ \/ row' = [row EXCEPT ![a].status = "failed"]
              \/ row' = [row EXCEPT ![a].status = "completed"] /\ dec[d].step = "written"
    BY <1>3, <1>8, <2>1 DEF Complete, Fail, Settled, TypeOK
  <2>3. \/ dec'[d].step = "idle"
        \/ dec'[d].step = "failing" /\ dec'[d].action = a /\ dec'[d].target = dec[d].target
    BY <1>3, <1>8 DEF Complete, Fail, TypeOK, Decision
  <2>4. /\ \A b \in Action \ {a} : row'[b] = row[b]
        /\ \/ row'[a] = row[a]
           \/ /\ row'[a].target = row[a].target /\ row[a].status = "executing" /\ row[a] # NoRow
              /\ \/ row'[a].status = "failed"
                 \/ row'[a].status = "completed" /\ dec[d].step = "written"
    BY <1>3, <2>1, <2>2 DEF TypeOK, Row
  <2>5. dec[d].step = "written" => written[a] # <<>>
    BY DEF DataInv, DecInv, Holds
  <2>6. IdsInv' /\ WriteInv'
    BY <1>1, <1>3, <2>1, <2>4 DEF DataInv, IdsInv, WriteInv
  <2>7. RowInv'
    BY <1>1, <2>1, <2>4, <2>5 DEF DataInv, RowInv, Present
  <2>8. DecInv'
    BY <1>1, <1>2, <2>1, <2>3, <2>4 DEF DataInv, DecInv, Holds
  <2>9. SoleInv'
    BY <1>1, <2>1, <2>3 DEF DataInv, SoleInv, Holds
  <2>10. LateInv'
    BY <1>1, <2>1, <2>3, <2>4 DEF DataInv, LateInv
  <2> QED BY <2>6, <2>7, <2>8, <2>9, <2>10 DEF DataInv
<1> QED BY <1>4, <1>5, <1>6, <1>7, <1>8 DEF Decide

-----------------------------------------------------------------------------

\* A transaction past the lock holds it, what it deletes is expired or gone, and
\* what it counted has only become fewer.
CapInv ==
  /\ \A p \in Proposer : prop[p].step \in {"locked", "counted"} => lock = p
  /\ \A p \in Proposer : prop[p].old \subseteq 1..stored /\ prop[p].old \cap Present \subseteq Expired
  /\ \A p \in Proposer : prop[p].step = "counted" => Cardinality(Counted(p)) < MaxActions
  /\ Capped

IInv == TypeOK /\ DataInv /\ CapInv

\* Counting fewer rows.
LEMMA Fewer ==
  ASSUME NEW S \in SUBSET Action, NEW T \in SUBSET S
  PROVE  /\ IsFiniteSet(S) /\ Cardinality(S) \in Nat /\ Cardinality(T) \in Nat
         /\ Cardinality(T) <= Cardinality(S)
<1>1. IsFiniteSet(Action)
  BY FS_Interval, ActionAssumption DEF Action
<1>2. IsFiniteSet(S)
  BY <1>1, FS_Subset
<1>3. IsFiniteSet(T) /\ Cardinality(T) <= Cardinality(S)
  BY <1>2, FS_Subset
<1> QED BY <1>2, <1>3, FS_CardinalityType

\* While no proposal moves, rows only expire or go.
LEMMA CapKept ==
  ASSUME TypeOK, CapInv, UNCHANGED <<lock, prop, stored>>,
         Present' \subseteq Present, Expired \cap Present' \subseteq Expired'
  PROVE  CapInv'
<1>1. \A p \in Proposer : Counted(p)' \subseteq Counted(p) /\ Counted(p) \subseteq Action
  BY DEF Counted, Present
<1>2. \A p \in Proposer : prop[p].step = "counted" => Cardinality(Counted(p)') < MaxActions
  <2> SUFFICES ASSUME NEW p \in Proposer, prop[p].step = "counted"
               PROVE  Cardinality(Counted(p)') < MaxActions
    OBVIOUS
  <2>1. Cardinality(Counted(p)) < MaxActions
    BY DEF CapInv
  <2> QED BY <1>1, <2>1, Fewer, ActionAssumption
<1>3. Capped'
  <2> DEFINE S == Present \ Expired
             T == (Present \ Expired)'
  <2>1. S \in SUBSET Action /\ T \in SUBSET S /\ Cardinality(S) <= MaxActions
    BY DEF Present, CapInv, Capped
  <2>2. Cardinality(T) <= Cardinality(S) /\ Cardinality(S) \in Nat /\ Cardinality(T) \in Nat
    BY <2>1, Fewer
  <2>3. Cardinality(T) <= MaxActions
    BY <2>1, <2>2, ActionAssumption
  <2> QED BY <2>3 DEF Capped
<1> QED BY <1>2, <1>3 DEF CapInv

\* What decisions and the surroundings do to the rows.
LEMMA RowsKept ==
  ASSUME TypeOK, DataInv,
         Around \/ (\E d \in Decider : Decide(d)) \/ UNCHANGED vars
  PROVE  /\ UNCHANGED <<lock, prop, stored>>
         /\ Present' \subseteq Present /\ Expired \cap Present' \subseteq Expired'
<1>1. CASE UNCHANGED vars
  BY <1>1 DEF vars, rowVars, Present, Expired
<1>2. CASE Revoke \/ DeleteAccount \/ Connect
  BY <1>2 DEF Revoke, DeleteAccount, Connect, rowVars, Present, Expired
<1>3. CASE DeleteSession \/ Prune
  BY <1>3 DEF DeleteSession, Prune, Present, Expired
<1>4. ASSUME NEW a \in Action, Expire(a)
      PROVE  /\ UNCHANGED <<lock, prop, stored>>
             /\ Present' \subseteq Present /\ Expired \cap Present' \subseteq Expired'
  BY <1>4 DEF Expire, Present, Expired, TypeOK, Row
<1>5. ASSUME NEW d \in Decider, Decide(d)
      PROVE  /\ UNCHANGED <<lock, prop, stored>>
             /\ Present' \subseteq Present /\ Expired \cap Present' \subseteq Expired'
  <2>1. UNCHANGED <<lock, prop, stored>>
    BY <1>5 DEF Decide, Authenticate, Claim, Resolve, Write, Complete, Fail, Die, rowVars
  <2>2. CASE row' = row
    BY <2>1, <2>2 DEF Present, Expired
  <2>3. CASE row' # row
    <3> DEFINE a == dec[d].action
    <3>1. /\ a \in Action /\ row[a] \in Row
          /\ \E status \in Status : row' = [row EXCEPT ![a].status = status]
      <4>1. dec[d].step # "idle" => a \in Action
        BY ActionAssumption DEF DataInv, DecInv, TypeOK, Action
      <4>2. CASE Claim(d)
        BY <2>3, <4>1, <4>2 DEF Claim, Pending, Present, TypeOK, Status
      <4>3. CASE Complete(d) \/ Fail(d)
        BY <2>3, <4>1, <4>3 DEF Complete, Fail, Settled, TypeOK, Status, NoRow
      <4>4. Claim(d) \/ Complete(d) \/ Fail(d)
        BY <1>5, <2>3 DEF Decide, Authenticate, Resolve, Write, Die, rowVars
      <4> QED BY <4>2, <4>3, <4>4
    <3>2. /\ \A b \in Action \ {a} : row'[b] = row[b]
          /\ row'[a] \in Row /\ row'[a].expired = row[a].expired
      <4> PICK status \in Status : row' = [row EXCEPT ![a].status = status]
        BY <3>1
      <4>1. DOMAIN row = Action
        BY DEF TypeOK
      <4>2. row'[a] = [row[a] EXCEPT !.status = status]
        BY <3>1, <4>1
      <4>3. \A b \in Action \ {a} : row'[b] = row[b]
        BY <4>1
      <4>4. row'[a] \in Row /\ row'[a].expired = row[a].expired
        <5> HIDE DEF a
        <5> QED BY <3>1, <4>2 DEF Row
      <4> QED BY <4>3, <4>4
    <3>3. row[a] # NoRow /\ row'[a] # NoRow
      BY <3>1, <3>2, NoRowIsNone
    <3>4. Present' = Present
      BY <3>2, <3>3 DEF Present
    <3>5. Expired' = Expired
      <4>1. \A b \in Action : row'[b].expired = row[b].expired
        BY <3>2
      <4> QED BY <3>4, <4>1 DEF Expired, Present
    <3> QED BY <2>1, <3>4, <3>5
  <2> QED BY <2>1, <2>2, <2>3
<1> QED BY <1>1, <1>2, <1>3, <1>4, <1>5 DEF Around

\* What proposals do to the cap.
LEMMA ProposeCap ==
  ASSUME IInv, NEW p \in Proposer, Propose(p)
  PROVE  CapInv'
<1> USE DEF IInv
<1>1. Present \subseteq 1..stored /\ stored \in Nat
  BY ActionAssumption DEF DataInv, IdsInv, Present, TypeOK, Action
<1>2. \A q \in Proposer : prop[q] \in Proposal
  BY DEF TypeOK
<1>3. ASSUME UNCHANGED <<row, stored>>,
             \A q \in Proposer \ {p} : prop'[q] = prop[q],
             prop'[p].old \in {prop[p].old, {}, Expired},
             \/ prop'[p].step \notin {"locked", "counted"}
             \/ prop'[p].step = "locked" /\ lock' = p
             \/ prop'[p].step = "counted" /\ lock' = p /\ Cardinality(Present \ prop'[p].old) < MaxActions,
             \/ lock' = lock
             \/ \A q \in Proposer \ {p} : prop[q].step \notin {"locked", "counted"}
      PROVE  CapInv'
  <2>1. Present' = Present /\ Expired' = Expired /\ \A q \in Proposer \ {p} : Counted(q)' = Counted(q)
    BY <1>3 DEF Present, Expired, Counted
  <2>2. prop'[p].old \subseteq 1..stored /\ prop'[p].old \cap Present \subseteq Expired
    BY <1>1, <1>3 DEF CapInv, Expired
  <2>3. Counted(p)' = Present \ prop'[p].old
    BY <2>1 DEF Counted
  <2>4. Capped'
    BY <2>1 DEF CapInv, Capped
  <2> QED BY <1>3, <2>1, <2>2, <2>3, <2>4 DEF CapInv
<1>4. IdleProposal.step = "idle" /\ IdleProposal.old = {}
  BY DEF IdleProposal
<1>5. CASE Ask(p)
  <2>1. UNCHANGED <<row, stored, lock>> /\ \A q \in Proposer \ {p} : prop'[q] = prop[q]
    BY <1>5 DEF Ask, rowVars, TypeOK
  <2>2. prop'[p].step = "asked" /\ prop'[p].old = prop[p].old
    BY <1>2, <1>5 DEF Ask, TypeOK, Proposal
  <2> QED BY <1>3, <2>1, <2>2
<1>6. CASE Begin(p)
  <2>1. UNCHANGED <<row, stored, lock>> /\ \A q \in Proposer \ {p} : prop'[q] = prop[q]
    BY <1>6 DEF Begin, rowVars, TypeOK
  <2>2. prop'[p].step = "begun" /\ prop'[p].old = Expired
    BY <1>2, <1>6 DEF Begin, TypeOK, Proposal
  <2> QED BY <1>3, <2>1, <2>2
<1>7. CASE Lock(p)
  <2>1. UNCHANGED <<row, stored>> /\ lock = None /\ \A q \in Proposer \ {p} : prop'[q] = prop[q]
    BY <1>7 DEF Lock, rowVars, TypeOK
  <2>2. \/ prop'[p].step = "locked" /\ prop'[p].old = prop[p].old /\ lock' = p
        \/ prop'[p].step = "idle" /\ prop'[p].old = {}
    BY <1>2, <1>4, <1>7 DEF Lock, TypeOK, Proposal
  <2>3. \A q \in Proposer : prop[q].step \notin {"locked", "counted"}
    BY <2>1, ActionAssumption DEF CapInv
  <2> QED BY <1>3, <2>1, <2>2, <2>3
<1>8. CASE Refuse(p) \/ Abort(p)
  <2>1. UNCHANGED <<row, stored>> /\ \A q \in Proposer \ {p} : prop'[q] = prop[q]
    BY <1>8 DEF Refuse, Abort, rowVars, TypeOK
  <2>2. prop'[p].step = "idle" /\ prop'[p].old = {}
    BY <1>4, <1>8 DEF Refuse, Abort, TypeOK
  <2>3. lock' = lock \/ lock = p
    BY <1>8 DEF Refuse, Abort, CapInv
  <2>4. lock = p => \A q \in Proposer \ {p} : prop[q].step \notin {"locked", "counted"}
    BY DEF CapInv
  <2> QED BY <1>3, <2>1, <2>2, <2>3, <2>4
<1>9. CASE Accept(p)
  <2>1. UNCHANGED <<row, stored, lock>> /\ \A q \in Proposer \ {p} : prop'[q] = prop[q]
    BY <1>9 DEF Accept, rowVars, TypeOK
  <2>2. prop'[p].step = "counted" /\ prop'[p].old = prop[p].old /\ lock = p
    BY <1>2, <1>9 DEF Accept, TypeOK, Proposal, CapInv
  <2>3. Cardinality(Present \ prop[p].old) < MaxActions
    <3>1. Cardinality(Counted(p)) \in Nat
      BY Fewer DEF Counted, Present
    <3> QED BY <1>9, <3>1, ActionAssumption DEF Accept, Full, Counted
  <2> QED BY <1>3, <2>1, <2>2, <2>3
<1>10. CASE Insert(p)
  <2> DEFINE new == stored + 1
  <2>1. /\ stored' = new /\ new \in Action /\ new \notin Present
        /\ \A q \in Proposer \ {p} : prop'[q] = prop[q]
        /\ prop'[p].step = "idle" /\ prop'[p].old = {} /\ lock = p
    BY <1>1, <1>4, <1>10, ActionAssumption DEF Insert, TypeOK, Action, CapInv
  <2>2. /\ row'[new].expired = FALSE
        /\ \A a \in Action \ {new} : row'[a] = IF a \in prop[p].old THEN NoRow ELSE row[a]
    BY <1>10, <2>1 DEF Insert
  <2>3. Present' \subseteq Counted(p) \cup {new}
    BY <2>2 DEF Present, Counted
  <2>4. Present' \subseteq Present \cup {new} /\ Expired \cap Present' \subseteq Expired'
    BY <2>1, <2>2 DEF Present, Expired
  <2>5. Capped'
    <3>1. Counted(p) \in SUBSET Action /\ Cardinality(Counted(p)) < MaxActions
      BY <1>10 DEF Counted, Present, CapInv, Insert
    <3>2. IsFiniteSet(Counted(p)) /\ Cardinality(Counted(p)) \in Nat
      BY <3>1, Fewer
    <3>3. Cardinality(Counted(p) \cup {new}) <= Cardinality(Counted(p)) + 1
      BY <3>2, FS_AddElement
    <3>4. Counted(p) \cup {new} \in SUBSET Action
      BY <2>1, <3>1
    <3>5. (Present \ Expired)' \in SUBSET (Counted(p) \cup {new})
      BY <2>3
    <3>6. /\ Cardinality((Present \ Expired)') <= Cardinality(Counted(p) \cup {new})
          /\ Cardinality((Present \ Expired)') \in Nat /\ Cardinality(Counted(p) \cup {new}) \in Nat
      BY <3>4, <3>5, Fewer
    <3> QED BY <3>1, <3>2, <3>3, <3>6, ActionAssumption DEF Capped
  <2>6. \A q \in Proposer : prop'[q].step \notin {"locked", "counted"}
    BY <2>1 DEF CapInv
  <2>7. \A q \in Proposer : prop'[q].old \subseteq 1..stored' /\ prop'[q].old \cap Present' \subseteq Expired'
    <3>1. 1..stored \subseteq 1..stored' /\ new \notin 1..stored
      BY <1>1, <2>1
    <3>2. CapInv
      OBVIOUS
    <3>3. \A q \in Proposer : prop[q].old \subseteq 1..stored /\ prop[q].old \cap Present \subseteq Expired
      BY <3>2 DEF CapInv
    <3> QED BY <2>1, <2>4, <3>1, <3>3
  <2> QED BY <2>5, <2>6, <2>7 DEF CapInv
<1> QED BY <1>5, <1>6, <1>7, <1>8, <1>9, <1>10 DEF Propose

-----------------------------------------------------------------------------

LEMMA InitInv == Init => IInv
<1> SUFFICES ASSUME Init PROVE IInv
  OBVIOUS
<1>1. 0 \in 0..MaxVersion /\ 0 \in 0..MaxProposals /\ "local" \in Target /\ <<>> \in Seq(Target)
  BY ActionAssumption DEF Target
<1>2. IdleProposal \in Proposal /\ IdleDecision \in Decision
  BY <1>1 DEF IdleProposal, IdleDecision, Proposal, Decision
<1>3. TypeOK
  BY <1>1, <1>2 DEF Init, TypeOK
<1>4. Present = {} /\ \A a \in Action : row[a] = NoRow /\ written[a] = <<>>
  BY DEF Init, Present
<1>5. \A d \in Decider : dec[d].step = "idle"
  BY DEF Init, IdleDecision
<1>6. DataInv
  BY <1>4, <1>5 DEF Init, DataInv, IdsInv, RowInv, WriteInv, DecInv, SoleInv, LateInv, Holds
<1>7. \A p \in Proposer : prop[p].step = "idle" /\ prop[p].old = {}
  BY DEF Init, IdleProposal
<1>8. Capped
  <2>1. Present \ Expired = {}
    BY <1>4
  <2> QED BY <2>1, FS_EmptySet, ActionAssumption DEF Capped
<1>9. CapInv
  BY <1>7, <1>8 DEF CapInv
<1> QED BY <1>3, <1>6, <1>9 DEF IInv

LEMMA StepInv == IInv /\ [Next]_vars => IInv'
<1> SUFFICES ASSUME IInv, [Next]_vars PROVE IInv'
  OBVIOUS
<1> USE DEF IInv
<1>1. ASSUME NEW p \in Proposer, Propose(p) PROVE IInv'
  <2>1. TypeOK' /\ CapInv'
    BY <1>1, ProposeType, ProposeCap
  <2>2. CASE Insert(p)
    BY <2>1, <2>2, InsertData
  <2>3. CASE ~Insert(p)
    <3>1. UNCHANGED dataVars
      BY <1>1, <2>3 DEF Propose, Ask, Begin, Lock, Refuse, Accept, Abort, dataVars, rowVars, worldVars
    <3> QED BY <2>1, <3>1, DataUnchanged
  <2> QED BY <2>2, <2>3
<1>2. ASSUME NEW d \in Decider, Decide(d) PROVE IInv'
  BY <1>2, DecideType, DecideData, RowsKept, CapKept DEF DataInv
<1>3. CASE Around
  <2>1. TypeOK'
    BY <1>3, AroundType
  <2>2. DataInv'
    <3>1. CASE Revoke \/ DeleteAccount \/ Connect
      <4>1. UNCHANGED dataVars
        BY <3>1 DEF Revoke, DeleteAccount, Connect, dataVars, rowVars, worldVars
      <4> QED BY <4>1, DataUnchanged
    <3>2. CASE DeleteSession \/ Prune \/ (\E a \in Action : Expire(a))
      BY <3>2, RemovalData
    <3> QED BY <1>3, <3>1, <3>2 DEF Around
  <2>3. CapInv'
    BY <1>3, RowsKept, CapKept
  <2> QED BY <2>1, <2>2, <2>3
<1>4. CASE UNCHANGED vars
  <2>1. TypeOK'
    BY <1>4 DEF TypeOK, vars, rowVars, worldVars
  <2>2. DataInv'
    BY <1>4, DataUnchanged DEF vars, rowVars, worldVars, dataVars
  <2>3. CapInv'
    BY <1>4, RowsKept, CapKept
  <2> QED BY <2>1, <2>2, <2>3
<1>5. CASE Land
  <2>1. UNCHANGED <<lock, prop, stored, row>>
    BY <1>5 DEF Land, rowVars
  <2>2. Present' = Present /\ Expired' = Expired
    BY <2>1 DEF Present, Expired
  <2>3. CapInv'
    BY <2>1, <2>2, CapKept
  <2> QED BY <1>5, <2>3, LandType, LandData
<1> QED BY <1>1, <1>2, <1>3, <1>4, <1>5 DEF Next, Around

\* The invariant holds in every reachable state.
THEOREM Inductive == Spec => []IInv
  BY InitInv, StepInv, PTL DEF Spec

\* TypeOK: every reachable state is well typed.
THEOREM TypeCorrect == Spec => []TypeOK
<1>1. IInv => TypeOK
  BY DEF IInv
<1> QED BY Inductive, <1>1, PTL

\* AtMostOnce: however many requests decide, are sent again or die, an approval is
\* good for one write.
THEOREM AtMostOnceCorrect == Spec => []AtMostOnce
<1>1. \A a \in Action : Len(<<>>) <= 1 /\ Len(<<shown[a]>>) <= 1
  OBVIOUS
<1>2. IInv => \A a \in Action : written[a] \in {<<>>, <<shown[a]>>}
  BY DEF IInv, DataInv, WriteInv
<1>3. IInv => AtMostOnce
  BY <1>1, <1>2 DEF AtMostOnce
<1> QED BY Inductive, <1>3, PTL

\* WritesWhereShown: a write reaches the destination its reviewer was shown.
THEOREM WritesWhereShownCorrect == Spec => []WritesWhereShown
<1>1. IInv => WritesWhereShown
  BY DEF IInv, DataInv, WriteInv, WritesWhereShown
<1> QED BY Inductive, <1>1, PTL

\* RejectedNotWritten: a rejected or undecided action was not carried out.
THEOREM RejectedNotWrittenCorrect == Spec => []RejectedNotWritten
<1>1. IInv => RejectedNotWritten
  BY DEF IInv, DataInv, RowInv, RejectedNotWritten
<1> QED BY Inductive, <1>1, PTL

\* CompletedWasWritten: an action shown as completed did happen.
THEOREM CompletedWasWrittenCorrect == Spec => []CompletedWasWritten
<1>1. IInv => CompletedWasWritten
  BY DEF IInv, DataInv, RowInv, CompletedWasWritten
<1> QED BY Inductive, <1>1, PTL

\* Capped: any number of concurrent proposals keeps an account within its cap.
THEOREM CappedCorrect == Spec => []Capped
<1>1. IInv => Capped
  BY DEF IInv, CapInv
<1> QED BY Inductive, <1>1, PTL

\* What a step may do to the status of a stored action.
LEMMA StatusStep ==
  ASSUME TypeOK, DataInv, [Next]_vars, NEW a \in Present
  PROVE  \/ row'[a] = NoRow
         \/ row'[a].status = row[a].status
         \/ row[a].status = "pending" /\ Current(a)
         \/ row[a].status = "executing"
<1>0. a \in Action /\ row[a] # NoRow /\ DOMAIN row = Action
  BY DEF Present, TypeOK
<1>1. CASE row' = row
  BY <1>1
<1>2. ASSUME NEW p \in Proposer, Insert(p)
      PROVE  row'[a] \in {NoRow, row[a]}
  <2>1. a # stored + 1
    BY <1>0, ActionAssumption DEF DataInv, IdsInv, TypeOK, Action
  <2> QED BY <1>0, <1>2, <2>1 DEF Insert
<1>3. ASSUME NEW d \in Decider, Claim(d)
      PROVE  \/ row'[a] = row[a]
             \/ row[a].status = "pending" /\ Current(a)
  <2>1. CASE row' = row
    BY <2>1
  <2>2. CASE row' # row
    <3>1. dec[d].action \in Pending /\ Current(dec[d].action)
      BY <1>3, <2>2 DEF Claim
    <3>2. CASE a = dec[d].action
      BY <3>1, <3>2 DEF Pending
    <3>3. CASE a # dec[d].action
      BY <1>0, <1>3, <3>3 DEF Claim
    <3> QED BY <3>2, <3>3
  <2> QED BY <2>1, <2>2
<1>4. ASSUME NEW d \in Decider, Complete(d) \/ Fail(d)
      PROVE  row'[a] = row[a] \/ row[a].status = "executing"
  <2>1. CASE a = dec[d].action
    BY <1>4, <2>1 DEF Complete, Fail, Settled
  <2>2. CASE a # dec[d].action
    BY <1>0, <1>4, <2>2 DEF Complete, Fail, Settled
  <2> QED BY <2>1, <2>2
<1>5. CASE DeleteSession \/ Prune
  BY <1>0, <1>5 DEF DeleteSession, Prune
<1>6. ASSUME NEW b \in Action, Expire(b)
      PROVE  row'[a].status = row[a].status
  <2>1. row[a] \in Row
    BY <1>0 DEF TypeOK
  <2>2. CASE a = b
    <3>1. row'[a] = [row[a] EXCEPT !.expired = TRUE]
      BY <1>0, <1>6, <2>2 DEF Expire
    <3> QED BY <2>1, <3>1 DEF Row
  <2>3. CASE a # b
    BY <1>0, <1>6, <2>3 DEF Expire
  <2> QED BY <2>2, <2>3
<1>7. \/ row' = row
      \/ \E p \in Proposer : Insert(p)
      \/ \E d \in Decider : Claim(d) \/ Complete(d) \/ Fail(d)
      \/ DeleteSession \/ Prune
      \/ \E b \in Action : Expire(b)
  <2>1. CASE UNCHANGED vars
    BY <2>1 DEF vars, rowVars
  <2>2. ASSUME NEW p \in Proposer, Propose(p)
        PROVE  row' = row \/ Insert(p)
    BY <2>2 DEF Propose, Ask, Begin, Lock, Refuse, Accept, Abort, rowVars
  <2>3. ASSUME NEW d \in Decider, Decide(d)
        PROVE  row' = row \/ Claim(d) \/ Complete(d) \/ Fail(d)
    BY <2>3 DEF Decide, Authenticate, Resolve, Write, Die, rowVars
  <2>4. CASE Revoke \/ DeleteAccount \/ Connect \/ Land
    BY <2>4 DEF Revoke, DeleteAccount, Connect, Land, rowVars
  <2> QED BY <2>1, <2>2, <2>3, <2>4 DEF Next
<1> QED BY <1>1, <1>2, <1>3, <1>4, <1>5, <1>6, <1>7

\* RevokedStaysUndecided: an action proposed before a revocation is not decided
\* after it.
THEOREM RevokedStaysUndecidedCorrect == Spec => RevokedStaysUndecided
<1>1. TypeOK /\ DataInv /\ [Next]_vars =>
        \A a \in Pending : row'[a] # NoRow /\ row'[a].status # "pending" => Current(a)
  <2> SUFFICES ASSUME TypeOK, DataInv, [Next]_vars, NEW a \in Pending,
                      row'[a] # NoRow, row'[a].status # "pending"
               PROVE  Current(a)
    OBVIOUS
  <2>1. a \in Present /\ row[a].status = "pending"
    BY DEF Pending
  <2> QED BY <2>1, StatusStep
<1>2. IInv => TypeOK /\ DataInv
  BY DEF IInv
<1> QED BY Inductive, <1>1, <1>2, PTL DEF Spec, RevokedStaysUndecided

\* OutcomeStands: no step replaces the outcome of a decided action.
THEOREM OutcomeStandsCorrect == Spec => OutcomeStands
<1>1. TypeOK /\ DataInv /\ [Next]_vars =>
        \A a \in Present :
          row[a].status \in {"completed", "failed", "rejected"}
            => row'[a] = NoRow \/ row'[a].status = row[a].status
  <2> SUFFICES ASSUME TypeOK, DataInv, [Next]_vars, NEW a \in Present,
                      row[a].status \in {"completed", "failed", "rejected"}
               PROVE  row'[a] = NoRow \/ row'[a].status = row[a].status
    OBVIOUS
  <2> QED BY StatusStep
<1>2. IInv => TypeOK /\ DataInv
  BY DEF IInv
<1> QED BY Inductive, <1>1, <1>2, PTL DEF Spec, OutcomeStands

-----------------------------------------------------------------------------
(* The abstract approval.                                                  *)

\* What a reviewer sees of an action, and the approvals not used up.
Phase(a) ==
  IF a \in Present THEN row[a].status ELSE IF a <= stored THEN "gone" ELSE "unasked"
Open == {a \in Action : Permitted(a)}

\* A request that has claimed an action is the only one, and what it has not sent is not late.
LEMMA HolderPermits ==
  ASSUME TypeOK, DataInv, NEW d \in Decider, Holds(d)
  PROVE  /\ dec[d].action \in Action
         /\ \A e \in Decider \ {d} : Holds(e) => dec[e].action # dec[d].action
         /\ dec[d].step # "failing" => \A target \in Target : <<dec[d].action, target>> \notin late
<1>1. dec[d].action \in Action
  BY ActionAssumption DEF Holds, DataInv, DecInv, TypeOK, Action
<1>2. \A e \in Decider \ {d} : Holds(e) => dec[e].action # dec[d].action
  BY DEF DataInv, SoleInv
<1>3. ASSUME dec[d].step # "failing", NEW target \in Target
      PROVE  <<dec[d].action, target>> \notin late
  BY <1>1, <1>3 DEF DataInv, LateInv, Holds
<1> QED BY <1>1, <1>2, <1>3

\* Each stored row is seen as it is.
LEMMA PhaseOfRows ==
  ASSUME TypeOK
  PROVE  \A a \in Present : row[a] \in Row /\ Phase(a) = row[a].status /\ Phase(a) \in Status
BY DEF TypeOK, Present, Phase, Row

\* Steps the abstract approval does not see.
LEMMA Invisible ==
  ASSUME UNCHANGED <<shown, written>>, Open' = Open, \A a \in Action : Phase(a)' = Phase(a)
  PROVE  UNCHANGED Approved!vars
BY DEF Approved!vars, Open, Phase

\* The rows of a step that leaves them alone.
LEMMA SamePhase ==
  ASSUME UNCHANGED <<row, stored>>
  PROVE  \A a \in Action : Phase(a)' = Phase(a)
BY DEF Phase, Present

\* The abstract steps that change what is seen of an action.
LEMMA SeenAsAsk ==
  ASSUME NEW a \in Action, Phase(a) = "unasked", NEW cleared \in SUBSET Present, TypeOK,
         \A b \in Action : Phase(b)' = IF b = a THEN "pending"
                                       ELSE IF b \in cleared THEN "gone" ELSE Phase(b),
         NEW target \in Target, shown' = [shown EXCEPT ![a] = target],
         Open' = Open, written' = written
  PROVE  Approved!Next
<1>1. cleared \in SUBSET Approved!Stored
  BY PhaseOfRows DEF Approved!Stored, Present, Phase, Status
<1>2. Approved!Ask(a)
  BY <1>1 DEF Approved!Ask, Phase, Open
<1> QED BY <1>2 DEF Approved!Next

LEMMA SeenAsDecision ==
  ASSUME NEW a \in Action, Phase(a) = "pending", NEW approve \in BOOLEAN,
         \A b \in Action : Phase(b)' = IF b # a THEN Phase(b)
                                       ELSE IF approve THEN "executing" ELSE "rejected",
         Open' = IF approve THEN Open \cup {a} ELSE Open, UNCHANGED <<shown, written>>
  PROVE  Approved!Next
<1>1. CASE approve
  <2>1. Approved!Approve(a)
    BY <1>1 DEF Approved!Approve, Phase, Open
  <2> QED BY <2>1 DEF Approved!Next
<1>2. CASE ~approve
  <2>1. Approved!Reject(a)
    BY <1>2 DEF Approved!Reject, Phase, Open
  <2> QED BY <2>1 DEF Approved!Next
<1> QED BY <1>1, <1>2

LEMMA SeenAsAnswer ==
  ASSUME NEW a \in Action, Phase(a) = "executing", NEW status \in {"completed", "failed"},
         status = "completed" => written[a] # <<>>,
         \A b \in Action : Phase(b)' = IF b = a THEN status ELSE Phase(b),
         Open' = Open, UNCHANGED <<shown, written>>
  PROVE  Approved!Next
<1>1. CASE status = "completed"
  <2>1. Approved!Answer(a)
    BY <1>1 DEF Approved!Answer, Phase, Open
  <2> QED BY <2>1 DEF Approved!Next
<1>2. CASE status = "failed"
  <2>1. Approved!Answer(a)
    BY <1>2 DEF Approved!Answer, Phase, Open
  <2> QED BY <2>1 DEF Approved!Next
<1> QED BY <1>1, <1>2

\* A stored proposal.
LEMMA InsertAsks ==
  ASSUME TypeOK, DataInv, NEW p \in Proposer, Insert(p)
  PROVE  Approved!Next
<1> DEFINE new == stored + 1
           cleared == prop[p].old \cap Present
<1>1. stored \in Nat /\ new \in Action /\ stored' = new /\ new > stored
  BY ActionAssumption DEF Insert, TypeOK, Action
<1>2. new \notin Present /\ \A a \in Present : a <= stored
  BY <1>1, ActionAssumption DEF DataInv, IdsInv, Present, Action
<1>3. row'[new].status = "pending" /\ row'[new] # NoRow
  BY <1>1, NoRowIsNone DEF Insert, NoRow
<1>4. \A a \in Action \ {new} : row'[a] = IF a \in prop[p].old THEN NoRow ELSE row[a]
  BY DEF Insert
<1>5. Present' = (Present \ prop[p].old) \cup {new}
  BY <1>1, <1>2, <1>3, <1>4 DEF Present
<1>6. \A a \in Action : Phase(a)' = IF a = new THEN "pending"
                                    ELSE IF a \in cleared THEN "gone" ELSE Phase(a)
  <2> SUFFICES ASSUME NEW a \in Action
               PROVE  Phase(a)' = IF a = new THEN "pending"
                                  ELSE IF a \in cleared THEN "gone" ELSE Phase(a)
    OBVIOUS
  <2>1. CASE a = new
    BY <1>3, <1>5, <2>1 DEF Phase
  <2>2. CASE a # new /\ a \in Present \ prop[p].old
    BY <1>4, <1>5, <2>2 DEF Phase
  <2>3. CASE a # new /\ a \notin Present \ prop[p].old
    <3>1. a <= stored' <=> a <= stored
      BY <1>1, <2>3, ActionAssumption DEF Action
    <3> QED BY <1>2, <1>5, <2>3, <3>1 DEF Phase
  <2> QED BY <2>1, <2>2, <2>3
<1>7. Phase(new) = "unasked"
  BY <1>1, <1>2 DEF Phase
<1>8. prop[p].target \in Target /\ shown' = [shown EXCEPT ![new] = prop[p].target]
  BY DEF Insert, TypeOK, Proposal
<1>9. Open' = Open /\ written' = written
  BY DEF Insert, Open, Permitted
<1>10. cleared \in SUBSET Present
  OBVIOUS
<1> HIDE DEF new, cleared
<1> QED BY <1>1, <1>6, <1>7, <1>8, <1>9, <1>10, SeenAsAsk

\* A decision.
LEMMA ClaimDecides ==
  ASSUME TypeOK, DataInv, NEW d \in Decider, Claim(d)
  PROVE  [Approved!Next]_(Approved!vars)
<1> DEFINE a == dec[d].action
           undecided == a \in Pending \ Expired /\ row[a].version = dec[d].version /\ Current(a)
<1>1. UNCHANGED <<shown, written, late, stored>> /\ \A e \in Decider \ {d} : dec'[e] = dec[e]
  BY DEF Claim, worldVars, TypeOK
<1>2. /\ IdleDecision.step = "idle" /\ dec[d].step = "authed"
      /\ dec \in [Decider -> Decision] /\ row \in [Action -> Row \cup {NoRow}]
  BY DEF IdleDecision, Claim, TypeOK
<1>3. CASE ~undecided
  <2>1. row' = row /\ dec'[d].step = "idle"
    BY <1>2, <1>3 DEF Claim
  <2>2. Open' = Open
    BY <1>1, <1>2, <2>1 DEF Open, Permitted
  <2> QED BY <1>1, <2>1, <2>2, SamePhase, Invisible
<1>4. CASE undecided
  <2>1. a \in Action /\ a \in Present /\ row[a].status = "pending" /\ row[a] \in Row
    BY <1>4, PhaseOfRows DEF Pending, Present
  <2>2. row' = [row EXCEPT ![a].status = IF dec[d].approve THEN "executing" ELSE "rejected"]
    BY <1>4 DEF Claim
  <2>3. /\ row'[a].status = IF dec[d].approve THEN "executing" ELSE "rejected"
        /\ row'[a] # NoRow /\ \A b \in Action \ {a} : row'[b] = row[b]
    BY <1>2, <2>1, <2>2 DEF Row, NoRow
  <2>4. Present' = Present
    BY <2>1, <2>3 DEF Present
  <2>5. \A b \in Action : Phase(b)' = IF b # a THEN Phase(b)
                                      ELSE IF dec[d].approve THEN "executing" ELSE "rejected"
    BY <1>1, <2>1, <2>3, <2>4 DEF Phase
  <2>6. Phase(a) = "pending"
    BY <2>1 DEF Phase
  <2>7. Open' = IF dec[d].approve THEN Open \cup {a} ELSE Open
    <3>1. CASE dec[d].approve
      <4>1. dec'[d].step = "claimed" /\ dec'[d].action = a
        BY <1>2, <1>4, <3>1 DEF Claim, Decision
      <4> QED BY <1>1, <1>2, <2>1, <3>1, <4>1 DEF Open, Permitted
    <3>2. CASE ~dec[d].approve
      <4>1. dec'[d].step = "idle"
        BY <1>2, <1>4, <3>2 DEF Claim
      <4> QED BY <1>1, <1>2, <3>2, <4>1 DEF Open, Permitted
    <3> QED BY <3>1, <3>2
  <2>8. dec[d].approve \in BOOLEAN
    BY <1>2 DEF Decision
  <2>9. a \in Action
    BY <2>1
  <2> HIDE DEF a, undecided
  <2> QED BY <1>1, <2>5, <2>6, <2>7, <2>8, <2>9, SeenAsDecision
<1> QED BY <1>3, <1>4

\* A request that gives up its action before it wrote.
LEMMA HolderLapses ==
  ASSUME TypeOK, DataInv, NEW d \in Decider, dec[d].step \in {"claimed", "ready"},
         UNCHANGED <<row, stored, late, shown, written>>,
         \A e \in Decider \ {d} : dec'[e] = dec[e], dec'[d].step \notin {"claimed", "ready"}
  PROVE  Approved!Next
<1> DEFINE a == dec[d].action
<1>1. /\ a \in Action /\ \A e \in Decider \ {d} : Holds(e) => dec[e].action # a
      /\ \A target \in Target : <<a, target>> \notin late
  BY HolderPermits DEF Holds
<1>2. a \in Open
  BY <1>1 DEF Open, Permitted
<1>3. Open' = Open \ {a}
  BY <1>1 DEF Open, Permitted, Holds
<1>4. Approved!Lapse(a)
  BY <1>2, <1>3, SamePhase DEF Approved!Lapse, Phase, Open
<1> QED BY <1>1, <1>4 DEF Approved!Next

\* The write, sent and answered or arriving late.
LEMMA WriteCarriesOut ==
  ASSUME NEW a \in Action, a \in Open, Open' = Open \ {a},
         written' = [written EXCEPT ![a] = Append(@, shown[a])],
         UNCHANGED <<row, stored, shown>>
  PROVE  Approved!Next
<1>1. Approved!CarryOut(a)
  BY SamePhase DEF Approved!CarryOut, Phase, Open
<1> QED BY <1>1 DEF Approved!Next

\* A call of the tool.
LEMMA WriteImplements ==
  ASSUME TypeOK, DataInv, NEW d \in Decider, Write(d)
  PROVE  [Approved!Next]_(Approved!vars)
<1> DEFINE a == dec[d].action
<1>1. dec[d].step = "ready" /\ Holds(d)
  BY DEF Write, Holds
<1>2. /\ a \in Action /\ \A e \in Decider \ {d} : Holds(e) => dec[e].action # a
      /\ \A target \in Target : <<a, target>> \notin late
      /\ dec[d].target = shown[a] /\ shown[a] \in Target
  BY <1>1, HolderPermits DEF DataInv, DecInv, TypeOK
<1>3. UNCHANGED <<row, stored, shown>> /\ \A e \in Decider \ {d} : dec'[e] = dec[e]
  BY DEF Write, rowVars, TypeOK
<1>4. dec'[d].step \in {"written", "failing"}
  BY DEF Write, TypeOK, Decision
<1>5. a \in Open
  BY <1>1, <1>2 DEF Open, Permitted
<1>6. CASE late' = late
  <2>1. Open' = Open \ {a}
    BY <1>2, <1>3, <1>4, <1>6 DEF Open, Permitted, Holds
  <2>2. CASE written' = written
    BY <1>1, <1>3, <1>4, <1>6, <2>2, HolderLapses
  <2>3. CASE written' = [written EXCEPT ![a] = Append(@, shown[a])]
    BY <1>2, <1>3, <1>5, <2>1, <2>3, WriteCarriesOut
  <2> QED BY <1>2, <2>2, <2>3 DEF Write
<1>7. CASE late' = late \cup {<<a, shown[a]>>} /\ written' = written
  <2>1. Open' = Open
    BY <1>1, <1>2, <1>3, <1>4, <1>7 DEF Open, Permitted, Holds
  <2> QED BY <1>3, <1>7, <2>1, SamePhase, Invisible
<1> QED BY <1>2, <1>6, <1>7 DEF Write

LEMMA LandImplements ==
  ASSUME TypeOK, DataInv, Land
  PROVE  Approved!Next
<1>1. PICK a \in Action, target \in Target :
        /\ <<a, target>> \in late /\ late' = late \ {<<a, target>>}
        /\ written' = [written EXCEPT ![a] = Append(@, target)]
  <2>1. PICK write \in late : /\ written' = [written EXCEPT ![write[1]] = Append(@, write[2])]
                              /\ late' = late \ {write}
    BY DEF Land
  <2>2. write = <<write[1], write[2]>> /\ write[1] \in Action /\ write[2] \in Target
    BY DEF TypeOK
  <2> QED BY <2>1, <2>2
<1>2. UNCHANGED <<row, stored, dec, shown>>
  BY DEF Land, rowVars
<1>3. /\ target = shown[a] /\ \A other \in Target : <<a, other>> \in late => other = target
      /\ \A d \in Decider : dec[d].action = a => dec[d].step \notin {"claimed", "ready"}
  BY <1>1 DEF DataInv, LateInv
<1>4. a \in Open
  BY <1>1 DEF Open, Permitted
<1>5. Open' = Open \ {a}
  BY <1>1, <1>2, <1>3 DEF Open, Permitted
<1> QED BY <1>1, <1>2, <1>3, <1>4, <1>5, WriteCarriesOut

\* The settling statements.
LEMMA SettlingAnswers ==
  ASSUME TypeOK, DataInv, NEW d \in Decider, Complete(d) \/ Fail(d)
  PROVE  [Approved!Next]_(Approved!vars)
<1> DEFINE a == dec[d].action
<1>1. Holds(d) /\ dec[d].step \in {"written", "failing"}
  BY DEF Holds, Complete, Fail
<1>2. a \in Action
  BY <1>1, HolderPermits
<1>3. UNCHANGED <<stored, late, shown, written>> /\ \A e \in Decider \ {d} : dec'[e] = dec[e]
  BY DEF Complete, Fail, worldVars, TypeOK
<1>4. dec'[d].step \in {"idle", "failing"}
  BY DEF Complete, Fail, TypeOK, Decision, IdleDecision
<1>5. Open' = Open
  BY <1>1, <1>3, <1>4 DEF Open, Permitted
<1>6. CASE row' = row
  BY <1>3, <1>5, <1>6, SamePhase, Invisible
<1>7. ASSUME NEW status \in {"completed", "failed"}, row' = Settled(a, status), row' # row,
             status = "completed" => dec[d].step = "written"
      PROVE  Approved!Next
  <2>1. row[a].status = "executing" /\ row' = [row EXCEPT ![a].status = status]
    BY <1>7 DEF Settled
  <2>2. row[a] \in Row /\ a \in Present
    BY <1>2, <2>1, NoRowIsNone DEF TypeOK, NoRow, Present
  <2>3. /\ row'[a].status = status
        /\ row'[a] # NoRow /\ \A b \in Action \ {a} : row'[b] = row[b]
    BY <1>2, <2>1, <2>2 DEF Row, NoRow, TypeOK
  <2>4. Present' = Present
    BY <2>2, <2>3 DEF Present
  <2>5. \A b \in Action : Phase(b)' = IF b = a THEN status ELSE Phase(b)
    BY <1>3, <2>2, <2>3, <2>4 DEF Phase
  <2>6. Phase(a) = "executing"
    BY <2>1, <2>2 DEF Phase
  <2>7. status = "completed" => written[a] # <<>>
    BY <1>1, <1>7 DEF DataInv, DecInv
  <2> HIDE DEF a
  <2> QED BY <1>2, <1>3, <1>5, <1>7, <2>5, <2>6, <2>7, SeenAsAnswer
<1> QED BY <1>6, <1>7 DEF Complete, Fail

\* Rows that go.
LEMMA RemovalClears ==
  ASSUME TypeOK, DataInv, DeleteSession \/ Prune
  PROVE  [Approved!Next]_(Approved!vars)
<1>1. UNCHANGED <<stored, dec, late, shown, written>>
  BY DEF DeleteSession, Prune, worldVars
<1>2. PICK cleared \in SUBSET Present :
        row' = [a \in Action |-> IF a \in cleared THEN NoRow ELSE row[a]]
  <2>1. CASE DeleteSession
    <3> DEFINE gone == {a \in Present : row[a].ofSession}
    <3>1. row' = [a \in Action |-> IF a \in gone THEN NoRow ELSE row[a]]
      BY <2>1 DEF DeleteSession
    <3> QED BY <3>1
  <2>2. CASE Prune
    BY <2>2 DEF Prune, Expired
  <2> QED BY <2>1, <2>2
<1>3. Present' = Present \ cleared
  BY <1>2 DEF Present
<1>4. \A a \in Present : a <= stored
  BY ActionAssumption DEF DataInv, IdsInv, Present, Action, TypeOK
<1>5. \A a \in Action : Phase(a)' = IF a \in cleared THEN "gone" ELSE Phase(a)
  BY <1>1, <1>2, <1>3, <1>4 DEF Phase, Present
<1>6. cleared \in SUBSET Approved!Stored
  BY PhaseOfRows DEF Approved!Stored, Present, Phase, Status
<1>7. Open' = Open
  BY <1>1 DEF Open, Permitted
<1>8. CASE cleared = {}
  BY <1>1, <1>5, <1>7, <1>8, Invisible
<1>9. CASE cleared # {}
  <2>1. Approved!Clear
    BY <1>1, <1>5, <1>6, <1>7, <1>9 DEF Approved!Clear, Phase, Open
  <2> QED BY <2>1 DEF Approved!Next
<1> QED BY <1>8, <1>9

\* Rows that expire.
LEMMA ExpiryHides ==
  ASSUME TypeOK, NEW b \in Action, Expire(b)
  PROVE  UNCHANGED Approved!vars
<1>1. UNCHANGED <<stored, dec, late, shown, written>> /\ row' = [row EXCEPT ![b].expired = TRUE]
  BY DEF Expire, worldVars
<1>2. row[b] \in Row /\ b \in Present
  BY PhaseOfRows DEF Expire
<1>3. /\ row'[b].status = row[b].status /\ row'[b] # NoRow
      /\ \A a \in Action \ {b} : row'[a] = row[a]
  BY <1>1, <1>2, NoRowIsNone DEF TypeOK, Row, NoRow
<1>4. Present' = Present
  BY <1>2, <1>3 DEF Present
<1>5. \A a \in Action : Phase(a)' = Phase(a)
  BY <1>1, <1>3, <1>4 DEF Phase
<1>6. Open' = Open
  BY <1>1 DEF Open, Permitted
<1> QED BY <1>1, <1>5, <1>6, Invisible

\* A request's steps.
LEMMA DecideImplements ==
  ASSUME TypeOK, DataInv, NEW d \in Decider, Decide(d)
  PROVE  [Approved!Next]_(Approved!vars)
<1>1. CASE Authenticate(d) \/ Resolve(d) \/ Die(d)
  <2>1. UNCHANGED <<row, stored, late, shown, written>> /\ \A e \in Decider \ {d} : dec'[e] = dec[e]
    BY <1>1 DEF Authenticate, Resolve, Die, rowVars, worldVars, TypeOK
  <2>2. \/ dec'[d].step \notin {"claimed", "ready"}
        \/ /\ dec[d].step = "claimed" /\ dec'[d].step = "ready"
           /\ dec'[d].action = dec[d].action
    <3>1. CASE Authenticate(d)
      <4>1. PICK b \in 1..stored, approve \in BOOLEAN :
              dec' = [dec EXCEPT ![d] = [IdleDecision EXCEPT !.step = "authed", !.action = b,
                        !.approve = approve, !.version = account.version]]
        BY <3>1 DEF Authenticate
      <4>2. dec'[d].step = "authed"
        BY <4>1 DEF IdleDecision, TypeOK
      <4> QED BY <4>2
    <3>2. CASE Resolve(d)
      <4>1. dec[d] \in Decision /\ dec \in [Decider -> Decision] /\ dec[d].step = "claimed"
        BY <3>2 DEF Resolve, TypeOK
      <4>2. PICK step \in {"ready", "failing"} : dec' = [dec EXCEPT ![d].step = step]
        BY <3>2 DEF Resolve
      <4>3. dec'[d].step = step /\ dec'[d].action = dec[d].action
        BY <4>1, <4>2 DEF Decision
      <4> QED BY <4>1, <4>3
    <3>3. CASE Die(d)
      BY <3>3 DEF Die, IdleDecision, TypeOK
    <3> QED BY <1>1, <3>1, <3>2, <3>3
  <2>3. CASE dec[d].step \in {"claimed", "ready"} /\ dec'[d].step \notin {"claimed", "ready"}
    BY <2>1, <2>3, HolderLapses
  <2>4. CASE ~(dec[d].step \in {"claimed", "ready"} /\ dec'[d].step \notin {"claimed", "ready"})
    <3>1. Open' = Open
      BY <2>1, <2>2, <2>4 DEF Open, Permitted
    <3> QED BY <2>1, <3>1, SamePhase, Invisible
  <2> QED BY <2>3, <2>4
<1> QED BY <1>1, ClaimDecides, WriteImplements, SettlingAnswers DEF Decide

\* ImplementsApproval: every interleaving of proposals, decisions, late writes, retries and
\* deaths is one in which each action is decided once, its approval is used at most once and
\* for what was shown, and completed is said of what was written.
THEOREM RefinesApproval == Spec => ImplementsApproval
<1>1. Init => Approved!Init
  <2> SUFFICES ASSUME Init PROVE Approved!Init
    OBVIOUS
  <2>1. Present = {} /\ \A a \in Action : ~(a <= stored)
    BY ActionAssumption DEF Init, Present, Action
  <2>2. Open = {}
    BY DEF Init, Open, Permitted, IdleDecision
  <2>3. shown \in [Action -> Target]
    BY DEF Init, Target
  <2> QED BY <2>1, <2>2, <2>3 DEF Init, Approved!Init, Open
<1>2. IInv /\ [Next]_vars => [Approved!Next]_(Approved!vars)
  <2> SUFFICES ASSUME TypeOK, DataInv, [Next]_vars PROVE [Approved!Next]_(Approved!vars)
    BY DEF IInv
  <2>1. CASE UNCHANGED dataVars
    <3>1. Open' = Open
      BY <2>1 DEF dataVars, Open, Permitted
    <3> QED BY <2>1, <3>1, SamePhase, Invisible DEF dataVars
  <2>2. ASSUME NEW p \in Proposer, Propose(p) PROVE [Approved!Next]_(Approved!vars)
    <3>1. CASE Insert(p)
      BY <3>1, InsertAsks
    <3>2. CASE ~Insert(p)
      BY <2>1, <2>2, <3>2 DEF Propose, Ask, Begin, Lock, Refuse, Accept, Abort, dataVars, rowVars,
         worldVars
    <3> QED BY <3>1, <3>2
  <2>3. CASE Revoke \/ DeleteAccount \/ Connect \/ UNCHANGED vars
    BY <2>1, <2>3 DEF Revoke, DeleteAccount, Connect, vars, dataVars, rowVars, worldVars
  <2> QED BY <2>2, <2>3, DecideImplements, LandImplements, RemovalClears, ExpiryHides DEF Next
<1> QED BY <1>1, <1>2, Inductive, PTL DEF Spec, ImplementsApproval, Approved!Spec
=============================================================================
