---------------------- MODULE CampaignTransitionProofs ----------------------
(***************************************************************************)
(* For any number of executions, asks, runs and retries, in any overlap:   *)
(* the campaign row is the StageMachine, the audit trail's applied rows    *)
(* are moves, and the workflow goes on only after one.                     *)
(***************************************************************************)
EXTENDS CampaignTransition, TLAPS

\* The version an execution has seen is one the row has had; while it still is
\* the row's, so is the stage.
SeenIsPast ==
  \A t \in Tries :
    /\ try[t].pc \in {"EVALUATE", "SWAP"} =>
         /\ try[t].seenVersion <= version
         /\ try[t].seenVersion = version => try[t].seenStage = stage
    /\ try[t].pc # "IDLE" => try[t].key \in Keys

\* An execution about to swap has found its edge's fact, in this visit to the
\* stage if the version is still the one it saw.
SwapIsBacked ==
  \A t \in Tries : try[t].pc = "SWAP" =>
    \E e \in EdgesFor(try[t].seenStage, try[t].to) :
      try[t].seenVersion = version => e.fact \in since \cup {"none"}

\* An execution about to record a move has made it.
RecordsItsMove ==
  \A t \in Tries :
    /\ try[t].pc = "REREAD" => try[t].answer = "APPLIED"
    /\ try[t].pc \in {"REREAD", "AUDIT"} /\ try[t].answer = "APPLIED" =>
         \E m \in moved[try[t].key] : m[2] = try[t].seenStage /\ m[3] = try[t].to

\* An execution about to write its audit row has an outcome to write.
AuditsAnAnswer ==
  \A t \in Tries : try[t].pc = "AUDIT" => try[t].answer \in Refusals \cup {"APPLIED"}

\* An ask that is out has a key.
AskHasKey == wf.ask # NoAsk => wf.ask.key \in Keys

IInv ==
  /\ TypeOK /\ AskHasKey /\ facts \subseteq since
  /\ SeenIsPast /\ SwapIsBacked /\ RecordsItsMove /\ AuditsAnAnswer /\ AppliedRowsAreMoves

-----------------------------------------------------------------------------

LEMMA EdgesJoinStages ==
  \A e \in CampaignTransitions : e.from \in Stages /\ e.to \in Stages
BY DEF CampaignTransitions, Edge, Stages

LEMMA TargetsAreStages ==
  ASSUME NEW s
  PROVE  /\ ForwardTargets(s) \subseteq Stages /\ RevisionTargets(s) \subseteq Stages
         /\ \A g, d, r : DecisionTargets(s, g, d, r) \subseteq Stages
BY EdgesJoinStages DEF ForwardTargets, RevisionTargets, DecisionTargets

LEMMA Initially == Init => IInv
<1> SUFFICES ASSUME Init PROVE IInv
  OBVIOUS
<1>1. NoWork \in Try /\ NoWork.pc = "IDLE"
  BY DEF NoWork, Try, Answers, Refusals
<1>2. TypeOK
  BY <1>1, TransitionAssumption
  DEF Init, TypeOK, NoRow, Refusals, Statuses, Modes, NoAsk, Ask, Keys, AllFacts
<1>3. SeenIsPast /\ SwapIsBacked /\ RecordsItsMove /\ AuditsAnAnswer
  BY <1>1 DEF Init, SeenIsPast, SwapIsBacked, RecordsItsMove, AuditsAnAnswer
<1>5. AskHasKey
  BY DEF Init, AskHasKey
<1>4. AppliedRowsAreMoves
  BY DEF Init, AppliedRowsAreMoves, NoRow
<1> QED
  BY <1>2, <1>3, <1>4, <1>5 DEF Init, IInv

\* The workflow, the server and the end of an execution leave the campaign and
\* its audit trail alone, and only put new or cleared work in the slots.
Quiet ==
  /\ UNCHANGED <<stage, version, since, moved, facts, audit>>
  /\ \A t \in Tries : \/ try'[t] = try[t] \/ try'[t] = NoWork
                     \/ (try'[t].pc \in {"FIND", "READ", "ANSWER", "DONE"} /\ try'[t].key \in Keys)

LEMMA QuietSteps == IInv /\ Quiet /\ TypeOK' /\ AskHasKey' => IInv'
<1> SUFFICES ASSUME IInv, Quiet, TypeOK', AskHasKey' PROVE IInv'
  OBVIOUS
<1> USE DEF Quiet
<1> USE DEF IInv, campaignVars
<1>1. SeenIsPast'
  BY DEF SeenIsPast, NoWork
<1>2. SwapIsBacked'
  BY DEF SwapIsBacked, NoWork, EdgesFor
<1>3. RecordsItsMove'
  BY DEF RecordsItsMove, NoWork
<1>4. AuditsAnAnswer'
  BY DEF AuditsAnAnswer, NoWork
<1>5. AppliedRowsAreMoves' /\ (facts \subseteq since)'
  BY DEF AppliedRowsAreMoves
<1> QED
  BY <1>1, <1>2, <1>3, <1>4, <1>5

-----------------------------------------------------------------------------
(* Types.                                                                  *)

Pcs == {"IDLE", "FIND", "READ", "EVALUATE", "SWAP", "REREAD", "AUDIT", "ANSWER", "DONE"}

\* An execution moves on within its type.
LEMMA WorkGoesOn ==
  ASSUME NEW w \in Try
  PROVE  /\ \A p \in Pcs : [w EXCEPT !.pc = p] \in Try
         /\ \A p \in Pcs, a \in Answers : [w EXCEPT !.pc = p, !.answer = a] \in Try
         /\ \A p \in Pcs, s \in Stages : [w EXCEPT !.pc = p, !.at = s] \in Try
         /\ \A p \in Pcs, s \in Stages, v \in Nat :
              [w EXCEPT !.pc = p, !.seenStage = s, !.seenVersion = v] \in Try
<1>1. \A p \in Pcs : [w EXCEPT !.pc = p] \in Try
  BY DEF Try, Pcs
<1>2. \A p \in Pcs, a \in Answers : [w EXCEPT !.pc = p, !.answer = a] \in Try
  BY DEF Try, Pcs
<1>3. \A p \in Pcs, s \in Stages : [w EXCEPT !.pc = p, !.at = s] \in Try
  BY DEF Try, Pcs
<1>4. \A p \in Pcs, s \in Stages, v \in Nat :
        [w EXCEPT !.pc = p, !.seenStage = s, !.seenVersion = v] \in Try
  BY DEF Try, Pcs
<1> QED
  BY <1>1, <1>2, <1>3, <1>4

LEMMA TypeStep == IInv /\ [Next]_vars => TypeOK'
<1> SUFFICES ASSUME IInv, [Next]_vars PROVE TypeOK'
  OBVIOUS
<1> USE DEF IInv
<1>w. NoWork \in Try
  BY DEF NoWork, Try, Answers, Refusals
<1>n. NoAsk \in [key : Keys \cup {0}, mode : Modes \cup {"NONE"}, to : Stages \cup {NoStage}]
  BY DEF NoAsk, Ask, Modes
<1>1. ASSUME NEW f \in Learnable[stage], Learn(f) PROVE TypeOK'
  <2>1. f \in AllFacts
    BY TransitionAssumption, <1>1 DEF TypeOK
  <2> QED
    BY <1>1, <2>1 DEF Learn, TypeOK, serverVars, workflowVars
<1>2. CASE StartRun
  <2>1. Visited \subseteq Stages \cup {NoStage}
    BY DEF Visited, TypeOK
  <2> QED
    BY <1>2, <1>n, <2>1, TransitionAssumption
    DEF StartRun, TypeOK, serverVars, campaignVars, Statuses
<1>3. ASSUME NEW mode \in Modes, NEW to \in Stages, Put(mode, to) PROVE TypeOK'
  <2>1. asks' \in Keys /\ asks' \in 0 .. MaxAsks
    BY <1>3, TransitionAssumption DEF Put, TypeOK, Keys
  <2>2. wf'.ask = Ask(asks', mode, to) /\ wf'.status = wf.status /\ wf'.stage = wf.stage
        /\ wf' = [wf EXCEPT !.ask = Ask(asks', mode, to)]
    BY <1>3 DEF Put, TypeOK
  <2> QED
    BY <1>3, <2>1, <2>2, TransitionAssumption DEF Put, TypeOK, Ask, campaignVars
<1>4. CASE AskForward \/ AskRetry \/ AskForDecision
  BY <1>3, <1>4, TargetsAreStages DEF AskForward, AskRetry, AskForDecision, Modes
<1>5. CASE AskNothing
  BY <1>5 DEF AskNothing, TypeOK, serverVars, campaignVars, Statuses
<1>6. CASE GiveUp
  BY <1>6, <1>n DEF GiveUp, TypeOK, serverVars, campaignVars, Statuses
<1>7. ASSUME NEW t \in Tries, TakeAnswer(t) PROVE TypeOK'
  BY <1>7, <1>n, <1>w DEF TakeAnswer, TypeOK, Try, campaignVars, Statuses
<1>8. ASSUME NEW t \in Tries, TakeRepair(t) PROVE TypeOK'
  <2>1. asks + 1 \in Keys /\ asks + 1 \in 0 .. MaxAsks
    BY <1>8, TransitionAssumption DEF TakeRepair, TypeOK, Keys
  <2>2. PICK to \in RevisionTargets(wf.stage) :
           wf' = [wf EXCEPT !.ask = Ask(asks + 1, "AUTO_RETRY", to)]
    BY <1>8 DEF TakeRepair
  <2>3. to \in Stages
    BY <2>2, TargetsAreStages
  <2> QED
    BY <1>8, <1>w, <2>1, <2>2, <2>3, TransitionAssumption
    DEF TakeRepair, TypeOK, campaignVars, Ask, Modes
<1>9. ASSUME NEW t \in Tries, StartTry(t) PROVE TypeOK'
  <2>1. wf.ask.key \in Keys \cup {0} /\ wf.ask.to \in Stages \cup {NoStage}
    BY DEF TypeOK
  <2>2. [NoWork EXCEPT !.pc = "FIND", !.key = wf.ask.key, !.to = wf.ask.to] \in Try
    BY <1>w, <2>1 DEF Try
  <2> QED
    BY <1>9, <2>2 DEF StartTry, TypeOK, workflowVars, campaignVars
<1>10. CASE TimeOut
  BY <1>10 DEF TimeOut, TypeOK, workflowVars, campaignVars
<1>11. ASSUME NEW t \in Tries, Die(t) \/ AuditThrows(t) \/ Drop(t) PROVE TypeOK'
  BY <1>11, <1>w DEF Die, AuditThrows, Drop, Goes, TypeOK, workflowVars, serverVars, campaignVars
<1>12. ASSUME NEW t \in Tries, NEW r \in Try, Goes(t, r) PROVE try' \in [Tries -> Try]
  BY <1>12 DEF Goes, TypeOK
<1>13. ASSUME NEW t \in Tries, FindAudit(t) \/ ReadCampaign(t) \/ Evaluate(t) \/ Reread(t)
       PROVE TypeOK'
  <2>1. try[t] \in Try
    BY DEF TypeOK
  <2>2. stage \in Stages /\ version \in Nat
    BY DEF TypeOK
  <2>3. \E r \in Try : Goes(t, r)
    <3>1. CASE FindAudit(t)
      BY <3>1, <2>1, WorkGoesOn DEF FindAudit, Pcs, Answers
    <3>2. CASE ReadCampaign(t)
      <4>1. [try[t] EXCEPT !.pc = "EVALUATE", !.seenStage = stage, !.seenVersion = version] \in Try
        BY <2>1, <2>2, WorkGoesOn DEF Pcs
      <4> QED
        BY <3>2, <4>1 DEF ReadCampaign
    <3>3. CASE Evaluate(t)
      BY <3>3, <2>1, WorkGoesOn DEF Evaluate, Pcs, Answers, Refusals
    <3>4. CASE Reread(t)
      <4>1. \A p \in Pcs : [try[t] EXCEPT !.pc = p, !.at = stage] \in Try
        BY <2>1, <2>2, WorkGoesOn
      <4> QED
        BY <3>4, <4>1 DEF Reread, Pcs
    <3> QED
      BY <1>13, <3>1, <3>2, <3>3, <3>4
  <2>4. try' \in [Tries -> Try]
    BY <1>12, <2>3
  <2> QED
    BY <1>13, <2>4
    DEF FindAudit, ReadCampaign, Evaluate, Reread, TypeOK, workflowVars, serverVars, campaignVars
<1>14. ASSUME NEW t \in Tries, Swap(t) PROVE TypeOK'
  <2>1. try[t] \in Try
    BY DEF TypeOK
  <2>2. \E r \in Try : Goes(t, r)
    BY <1>14, <2>1, WorkGoesOn DEF Swap, Pcs, Answers, Refusals
  <2>3. try' \in [Tries -> Try]
    BY <1>12, <2>2
  <2>4. CASE ~Unchanged(t)
    BY <1>14, <2>3, <2>4 DEF Swap, TypeOK, workflowVars, serverVars, campaignVars
  <2>5. CASE Unchanged(t)
    <3>1. try[t].key \in Keys /\ try[t].to \in Stages
      <4>1. PICK e \in EdgesFor(try[t].seenStage, try[t].to) : TRUE
        BY <1>14 DEF SwapIsBacked, Swap, At
      <4> QED
        BY <4>1, <1>14, EdgesJoinStages DEF EdgesFor, SeenIsPast, Swap, At
    <3>2. moved' \in [Keys -> SUBSET (Nat \X Stages \X Stages)]
      BY <1>14, <2>5, <3>1 DEF Swap, TypeOK, workflowVars, serverVars
    <3> QED
      BY <1>14, <2>5, <2>3, <3>1, <3>2 DEF Swap, TypeOK, workflowVars, serverVars
  <2> QED
    BY <2>4, <2>5
<1>15. ASSUME NEW t \in Tries, WriteAudit(t) PROVE TypeOK'
  <2>1. try[t] \in Try /\ try[t].key \in Keys
    BY <1>15 DEF TypeOK, SeenIsPast, WriteAudit, At
  <2>2. try[t].answer \in Refusals \cup {"APPLIED"}
    BY <1>15 DEF AuditsAnAnswer, WriteAudit, At
  <2>3. [try[t] EXCEPT !.pc = "DONE"] \in Try
    BY <2>1 DEF Try
  <2> QED
    BY <1>15, <1>12, <2>1, <2>2, <2>3
    DEF WriteAudit, TypeOK, Try, workflowVars, serverVars, campaignVars
<1>16. CASE UNCHANGED vars
  BY <1>16 DEF vars, TypeOK, workflowVars, serverVars, campaignVars
<1> QED
  BY <1>1, <1>2, <1>4, <1>5, <1>6, <1>7, <1>8, <1>9, <1>10, <1>11, <1>13, <1>14, <1>15, <1>16
  DEF Next, Workflow, Execute

-----------------------------------------------------------------------------
(* The invariant.                                                          *)

LEMMA AskStep == IInv /\ [Next]_vars => AskHasKey'
<1> SUFFICES ASSUME IInv, [Next]_vars PROVE AskHasKey'
  OBVIOUS
<1> USE DEF IInv
<1>1. CASE wf' = wf
  BY <1>1 DEF AskHasKey
<1>2. CASE wf'.ask = NoAsk
  BY <1>2 DEF AskHasKey
<1>3. ASSUME NEW mode, NEW to, asks < MaxAsks, wf' = [wf EXCEPT !.ask = Ask(asks + 1, mode, to)]
      PROVE  AskHasKey'
  <2>1. asks + 1 \in Keys
    BY <1>3, TransitionAssumption DEF TypeOK, Keys
  <2>2. wf'.ask.key = asks + 1
    BY <1>3 DEF TypeOK, Ask
  <2> QED
    BY <2>1, <2>2 DEF AskHasKey
<1>4. CASE AskForward \/ AskRetry \/ AskForDecision
  BY <1>3, <1>4 DEF AskForward, AskRetry, AskForDecision, Put
<1>5. CASE StartRun \/ GiveUp \/ \E t \in Tries : TakeAnswer(t)
  <2>1. CASE StartRun
    BY <2>1, <1>2 DEF StartRun
  <2>2. CASE GiveUp
    BY <2>2, <1>2 DEF GiveUp, TypeOK
  <2>3. ASSUME NEW t \in Tries, TakeAnswer(t) PROVE AskHasKey'
    BY <2>3, <1>2 DEF TakeAnswer, TypeOK
  <2> QED
    BY <1>5, <2>1, <2>2, <2>3
<1>6. CASE AskNothing
  BY <1>6 DEF AskNothing, TypeOK, AskHasKey
<1>7. ASSUME NEW t \in Tries, TakeRepair(t) PROVE AskHasKey'
  BY <1>7, <1>3 DEF TakeRepair
<1> QED
  BY <1>1, <1>4, <1>5, <1>6, <1>7
  DEF Next, Workflow, Execute, vars, workflowVars, Learn, StartTry, TimeOut, Die, FindAudit,
      ReadCampaign, Evaluate, Swap, Reread, WriteAudit, AuditThrows, Drop

LEMMA InductiveStep == IInv /\ [Next]_vars => IInv'
<1> SUFFICES ASSUME IInv, [Next]_vars PROVE IInv'
  OBVIOUS
<1>0. TypeOK' /\ AskHasKey'
  BY TypeStep, AskStep
<1>q. Quiet => IInv'
  BY <1>0, QuietSteps
<1>k. \A t \in Tries : try[t].pc # "IDLE" => try[t].key \in Keys
  BY DEF IInv, SeenIsPast
<1>t. try \in [Tries -> Try]
  BY DEF IInv, TypeOK
<1>1. ASSUME NEW f \in Learnable[stage], Learn(f) PROVE IInv'
  <2>1. facts' \subseteq since' /\ since \subseteq since'
    BY <1>1 DEF Learn
  <2>2. SwapIsBacked'
    BY <1>1, <2>1 DEF Learn, IInv, SwapIsBacked, EdgesFor
  <2> QED
    BY <1>0, <1>1, <2>1, <2>2
    DEF Learn, IInv, SeenIsPast, RecordsItsMove, AuditsAnAnswer, AppliedRowsAreMoves
<1>2. CASE StartRun \/ AskForward \/ AskRetry \/ AskForDecision \/ AskNothing \/ GiveUp
            \/ TimeOut
  <2>1. UNCHANGED <<stage, version, since, moved, facts, audit, try>>
    BY <1>2 DEF StartRun, AskForward, AskRetry, AskForDecision, Put, AskNothing, GiveUp, TimeOut,
                campaignVars
  <2> QED
    BY <2>1, <1>q DEF Quiet
<1>3. ASSUME NEW t \in Tries, TakeAnswer(t) \/ TakeRepair(t) \/ Die(t) \/ AuditThrows(t) \/ Drop(t)
      PROVE  IInv'
  <2>1. /\ UNCHANGED <<stage, version, since, moved, facts, audit>>
        /\ try' = [try EXCEPT ![t] = NoWork]
    BY <1>3 DEF TakeAnswer, TakeRepair, Die, AuditThrows, Drop, Goes, campaignVars
  <2>2. \A u \in Tries : try'[u] = try[u] \/ try'[u] = NoWork
    BY <2>1, <1>t
  <2> QED
    BY <2>1, <2>2, <1>q DEF Quiet
<1>4. ASSUME NEW t \in Tries, StartTry(t) PROVE IInv'
  <2>1. wf.ask.key \in Keys
    BY <1>4 DEF StartTry, IInv, AskHasKey
  <2>2. /\ UNCHANGED <<stage, version, since, moved, facts, audit>>
        /\ try' = [try EXCEPT ![t] = [NoWork EXCEPT !.pc = "FIND", !.key = wf.ask.key,
                                                    !.to = wf.ask.to]]
    BY <1>4 DEF StartTry, campaignVars
  <2>3. /\ try'[t].pc = "FIND" /\ try'[t].key \in Keys
        /\ \A u \in Tries \ {t} : try'[u] = try[u]
    BY <1>t, <2>1, <2>2 DEF NoWork
  <2> QED
    BY <2>2, <2>3, <1>q DEF Quiet
<1>5. ASSUME NEW t \in Tries, FindAudit(t) PROVE IInv'
  <2>1. try[t] \in Try /\ try[t].key \in Keys
    BY <1>5, <1>k, <1>t DEF FindAudit, At
  <2>2. UNCHANGED <<stage, version, since, moved, facts, audit>>
    BY <1>5 DEF FindAudit, campaignVars
  <2>3. PICK r : Goes(t, r) /\ r.pc \in {"READ", "ANSWER", "DONE"} /\ r.key = try[t].key
    <3> DEFINE on(p) == [try[t] EXCEPT !.pc = p]
               found(p, a) == [try[t] EXCEPT !.pc = p, !.answer = a]
    <3>1. \A p, a : /\ on(p).pc = p /\ on(p).key = try[t].key
                    /\ found(p, a).pc = p /\ found(p, a).key = try[t].key
      BY <2>1 DEF Try
    <3>2. \/ Goes(t, on("READ")) \/ Goes(t, found("ANSWER", "APPLIED"))
          \/ Goes(t, found("DONE", "DUPLICATE_REQUEST"))
      BY <1>5 DEF FindAudit
    <3> HIDE DEF on, found
    <3> QED
      BY <3>1, <3>2
  <2>4. try'[t].pc \in {"READ", "ANSWER", "DONE"} /\ try'[t].key \in Keys
        /\ \A u \in Tries \ {t} : try'[u] = try[u]
    BY <1>t, <2>1, <2>3 DEF Goes, Try
  <2> QED
    BY <2>2, <2>4, <1>q DEF Quiet
<1>6. ASSUME NEW t \in Tries, ReadCampaign(t) PROVE IInv'
  <2>1. try[t] \in Try /\ try[t].key \in Keys
    BY <1>6, <1>k, <1>t DEF ReadCampaign, At
  <2>2. /\ try' = [try EXCEPT ![t] = [try[t] EXCEPT !.pc = "EVALUATE", !.seenStage = stage,
                                                    !.seenVersion = version]]
        /\ UNCHANGED <<campaignVars, facts, audit>>
    BY <1>6 DEF ReadCampaign, Goes
  <2>3. /\ try'[t].pc = "EVALUATE" /\ try'[t].seenStage = stage
        /\ try'[t].seenVersion = version /\ try'[t].key = try[t].key
    BY <1>t, <2>1, <2>2 DEF Try
  <2>4. \A u \in Tries \ {t} : try'[u] = try[u]
    BY <1>t, <2>2
  <2>5. SeenIsPast'
    BY <2>1, <2>2, <2>3, <2>4 DEF SeenIsPast, IInv, TypeOK, campaignVars
  <2> QED
    BY <1>0, <2>2, <2>3, <2>4, <2>5
    DEF IInv, SwapIsBacked, EdgesFor, RecordsItsMove, AuditsAnAnswer, AppliedRowsAreMoves,
        campaignVars
<1>7. ASSUME NEW t \in Tries, Evaluate(t) PROVE IInv'
  <2>1. try[t] \in Try /\ try[t].key \in Keys
    BY <1>7, <1>k, <1>t DEF Evaluate, At
  <2>2. PICK r : /\ Goes(t, r) /\ r.key = try[t].key
                 /\ r.seenStage = try[t].seenStage /\ r.seenVersion = try[t].seenVersion
                 /\ r.to = try[t].to
                 /\ \/ (r.pc = "AUDIT" /\ r.answer \in Refusals)
                    \/ /\ r.pc = "SWAP"
                       /\ \E e \in EdgesFor(try[t].seenStage, try[t].to) : Holds(e)
    <3> DEFINE refused(a) == [try[t] EXCEPT !.pc = "AUDIT", !.answer = a]
               going == [try[t] EXCEPT !.pc = "SWAP"]
    <3>1. ASSUME NEW a
          PROVE  /\ refused(a).key = try[t].key /\ refused(a).to = try[t].to
                 /\ refused(a).seenStage = try[t].seenStage
                 /\ refused(a).seenVersion = try[t].seenVersion
                 /\ refused(a).pc = "AUDIT" /\ refused(a).answer = a
      BY <2>1 DEF Try
    <3>2. /\ going.key = try[t].key /\ going.to = try[t].to /\ going.pc = "SWAP"
          /\ going.seenStage = try[t].seenStage /\ going.seenVersion = try[t].seenVersion
      BY <2>1 DEF Try
    <3>3. \/ Goes(t, refused("REJECTED_INVALID_TRANSITION"))
          \/ Goes(t, refused("REJECTED_MISSING_PREREQUISITE"))
          \/ (Goes(t, going) /\ \E e \in EdgesFor(try[t].seenStage, try[t].to) : Holds(e))
      BY <1>7 DEF Evaluate
    <3>4. {"REJECTED_INVALID_TRANSITION", "REJECTED_MISSING_PREREQUISITE"} \subseteq Refusals
      BY DEF Refusals
    <3> HIDE DEF refused, going
    <3> QED
      BY <3>1, <3>2, <3>3, <3>4
  <2>3. try'[t] = r /\ \A u \in Tries \ {t} : try'[u] = try[u]
    BY <1>t, <2>2 DEF Goes
  <2>4. UNCHANGED <<campaignVars, facts, audit>>
    BY <1>7 DEF Evaluate
  <2>5. SeenIsPast'
    BY <1>7, <2>1, <2>2, <2>3, <2>4 DEF SeenIsPast, IInv, campaignVars, Evaluate, At
  <2>6. SwapIsBacked'
    BY <2>2, <2>3, <2>4 DEF SwapIsBacked, IInv, campaignVars, Holds, EdgesFor
  <2>7. RecordsItsMove' /\ AuditsAnAnswer' /\ AppliedRowsAreMoves' /\ (facts \subseteq since)'
    BY <2>2, <2>3, <2>4
    DEF RecordsItsMove, AuditsAnAnswer, AppliedRowsAreMoves, IInv, campaignVars, Refusals
  <2> QED
    BY <1>0, <2>5, <2>6, <2>7 DEF IInv
<1>8. ASSUME NEW t \in Tries, Swap(t) PROVE IInv'
  <2>1. try[t] \in Try /\ try[t].key \in Keys
    BY <1>8, <1>k, <1>t DEF Swap, At
  <2>2. version \in Nat /\ moved \in [Keys -> SUBSET (Nat \X Stages \X Stages)]
    BY DEF IInv, TypeOK
  <2>3. CASE ~Unchanged(t)
    <3>1. /\ try' = [try EXCEPT ![t] = [try[t] EXCEPT !.pc = "AUDIT",
                                         !.answer = "REJECTED_CONCURRENT_MODIFICATION"]]
          /\ UNCHANGED <<campaignVars, facts, audit>>
      BY <1>8, <2>3 DEF Swap, Goes
    <3>2. /\ try'[t].pc = "AUDIT" /\ try'[t].answer = "REJECTED_CONCURRENT_MODIFICATION"
          /\ try'[t].key = try[t].key
          /\ \A u \in Tries \ {t} : try'[u] = try[u]
      BY <1>t, <2>1, <3>1 DEF Try
    <3> QED
      BY <1>0, <2>1, <3>1, <3>2
      DEF IInv, SeenIsPast, SwapIsBacked, EdgesFor, RecordsItsMove, AuditsAnAnswer, Refusals,
          AppliedRowsAreMoves, campaignVars
  <2>4. CASE Unchanged(t)
    <3>1. /\ try' = [try EXCEPT ![t] = [try[t] EXCEPT !.pc = "REREAD", !.answer = "APPLIED"]]
          /\ stage' = try[t].to /\ version' = version + 1 /\ since' = facts
          /\ moved' = [moved EXCEPT ![try[t].key] = @ \cup {<<version, stage, try[t].to>>}]
          /\ UNCHANGED <<facts, audit>>
      BY <1>8, <2>4 DEF Swap, Goes
    <3>2. /\ try'[t].pc = "REREAD" /\ try'[t].answer = "APPLIED" /\ try'[t].key = try[t].key
          /\ try'[t].to = try[t].to /\ try'[t].seenStage = stage
          /\ \A u \in Tries \ {t} : try'[u] = try[u]
      BY <1>t, <2>1, <2>4, <3>1 DEF Try, Unchanged
    <3>3. /\ \A k \in Keys : moved[k] \subseteq moved'[k]
          /\ <<version, stage, try[t].to>> \in moved'[try[t].key]
      BY <2>1, <2>2, <3>1
    <3>4. \A u \in Tries : try[u].pc \in {"EVALUATE", "SWAP"} => try[u].seenVersion < version'
      BY <2>2, <3>1, <1>t DEF IInv, SeenIsPast, Try
    <3>5. SeenIsPast'
      BY <2>1, <3>2, <3>4, <1>k, <1>t, <2>2, <3>1 DEF SeenIsPast, Try
    <3>6. SwapIsBacked'
      BY <2>2, <3>2, <3>4, <3>1, <1>t DEF SwapIsBacked, EdgesFor, Try, IInv
    <3>7. RecordsItsMove'
      <4>1. ASSUME NEW u \in Tries \ {t}, try[u].pc \in {"REREAD", "AUDIT"},
                   try[u].answer = "APPLIED"
            PROVE  \E m \in moved'[try[u].key] : m[2] = try[u].seenStage /\ m[3] = try[u].to
        BY <4>1, <1>k, <3>3 DEF IInv, RecordsItsMove
      <4>2. \E m \in moved'[try'[t].key] : m[2] = try'[t].seenStage /\ m[3] = try'[t].to
        BY <3>2, <3>3
      <4> QED
        BY <4>1, <4>2, <3>2 DEF RecordsItsMove, IInv
    <3>8. AuditsAnAnswer'
      BY <3>2 DEF AuditsAnAnswer, IInv
    <3>9. AppliedRowsAreMoves' /\ (facts \subseteq since)'
      BY <3>1, <3>3 DEF AppliedRowsAreMoves, IInv
    <3> QED
      BY <1>0, <3>5, <3>6, <3>7, <3>8, <3>9 DEF IInv
  <2> QED
    BY <2>3, <2>4
<1>9. ASSUME NEW t \in Tries, Reread(t) PROVE IInv'
  <2>1. try[t] \in Try /\ try[t].key \in Keys
    BY <1>9, <1>k, <1>t DEF Reread, At
  <2>2. PICK r : /\ Goes(t, r) /\ r.key = try[t].key /\ r.to = try[t].to
                 /\ r.seenStage = try[t].seenStage /\ r.answer = try[t].answer
                 /\ r.pc = "DONE" \/ (r.pc = "AUDIT" /\ try[t].pc = "REREAD")
    <3> DEFINE read(p) == [try[t] EXCEPT !.pc = p, !.at = stage]
    <3>1. ASSUME NEW p
          PROVE  /\ read(p).key = try[t].key /\ read(p).to = try[t].to /\ read(p).pc = p
                 /\ read(p).seenStage = try[t].seenStage /\ read(p).answer = try[t].answer
      BY <2>1 DEF Try
    <3>2. Goes(t, read("DONE")) \/ (Goes(t, read("AUDIT")) /\ try[t].pc = "REREAD")
      BY <1>9 DEF Reread, At
    <3> HIDE DEF read
    <3> QED
      BY <3>1, <3>2
  <2>3. try'[t] = r /\ \A u \in Tries \ {t} : try'[u] = try[u]
    BY <1>t, <2>2 DEF Goes
  <2>4. UNCHANGED <<campaignVars, facts, audit>>
    BY <1>9 DEF Reread
  <2>5. SeenIsPast' /\ SwapIsBacked'
    BY <2>1, <2>2, <2>3, <2>4 DEF IInv, SeenIsPast, SwapIsBacked, EdgesFor, campaignVars
  <2>6. RecordsItsMove' /\ AuditsAnAnswer'
    BY <2>2, <2>3, <2>4 DEF IInv, RecordsItsMove, AuditsAnAnswer, campaignVars
  <2> QED
    BY <1>0, <2>4, <2>5, <2>6 DEF IInv, AppliedRowsAreMoves, campaignVars
<1>10. ASSUME NEW t \in Tries, WriteAudit(t) PROVE IInv'
  <2>1. try[t] \in Try /\ try[t].key \in Keys
    BY <1>10, <1>k, <1>t DEF WriteAudit, At
  <2>2. /\ try' = [try EXCEPT ![t] = [try[t] EXCEPT !.pc = "DONE"]]
        /\ audit' = [audit EXCEPT ![try[t].key] =
                       [result |-> try[t].answer, from |-> try[t].seenStage, to |-> try[t].to]]
        /\ UNCHANGED <<campaignVars, facts>>
    BY <1>10 DEF WriteAudit, Goes
  <2>3. /\ try'[t].pc = "DONE" /\ try'[t].key = try[t].key
        /\ \A u \in Tries \ {t} : try'[u] = try[u]
    BY <1>t, <2>1, <2>2 DEF Try
  <2>4. AppliedRowsAreMoves'
    <3> SUFFICES ASSUME NEW k \in Keys, audit'[k].result = "APPLIED"
                 PROVE  \E m \in moved[k] : m[2] = audit'[k].from /\ m[3] = audit'[k].to
      BY <2>2 DEF AppliedRowsAreMoves, campaignVars
    <3>1. audit \in [Keys -> [result : Refusals \cup {"APPLIED", "NO_ROW"},
                             from : Stages \cup {NoStage}, to : Stages \cup {NoStage}]]
      BY DEF IInv, TypeOK
    <3>2. CASE k = try[t].key
      BY <1>10, <2>1, <2>2, <3>1, <3>2 DEF IInv, RecordsItsMove, WriteAudit, At
    <3>3. CASE k # try[t].key
      BY <2>2, <3>1, <3>3 DEF IInv, AppliedRowsAreMoves
    <3> QED
      BY <3>2, <3>3
  <2> QED
    BY <1>0, <2>1, <2>2, <2>3, <2>4
    DEF IInv, SeenIsPast, SwapIsBacked, EdgesFor, RecordsItsMove, AuditsAnAnswer, campaignVars
<1>11. CASE UNCHANGED vars
  BY <1>11, <1>q DEF vars, campaignVars, Quiet
<1> QED
  BY <1>1, <1>2, <1>3, <1>4, <1>5, <1>6, <1>7, <1>8, <1>9, <1>10, <1>11
  DEF Next, Workflow, Execute

THEOREM Inductive == Spec => []IInv
BY Initially, InductiveStep, PTL DEF Spec

\* Every variable keeps its type, whatever the bounds.
THEOREM TransitionTypes == Spec => []TypeOK
<1>1. IInv => TypeOK
  BY DEF IInv
<1> QED
  BY Inductive, <1>1, PTL

\* An APPLIED row of the audit trail stands for a move its key has made.
THEOREM AuditIsTrue == Spec => []AppliedRowsAreMoves
<1>1. IInv => AppliedRowsAreMoves
  BY DEF IInv
<1> QED
  BY Inductive, <1>1, PTL

-----------------------------------------------------------------------------
(* The refinement.                                                         *)

LEMMA SameTable == Machine!CampaignTransitions = CampaignTransitions
BY DEF CampaignTransitions, Machine!CampaignTransitions, Edge, Machine!Edge

LEMMA StepMaps == IInv /\ [Next]_vars => [Machine!Next]_<<stage, version, facts, since>>
<1> SUFFICES ASSUME IInv, [Next]_vars
             PROVE  [Machine!Next]_<<stage, version, facts, since>>
  OBVIOUS
<1>1. ASSUME NEW f, Learn(f) PROVE Machine!Next
  BY <1>1 DEF Learn, Machine!Next, Machine!Observe
<1>2. ASSUME NEW t \in Tries, Swap(t), Unchanged(t) PROVE Machine!Next
  <2>1. PICK e \in EdgesFor(stage, try[t].to) : e.fact \in since \cup {"none"}
    BY <1>2 DEF IInv, SwapIsBacked, Swap, At, Unchanged
  <2>2. e \in CampaignTransitions /\ e.from = stage /\ e.to = stage'
    BY <1>2, <2>1 DEF EdgesFor, Swap
  <2>3. version' = version + 1 /\ since' = facts /\ facts' = facts
    BY <1>2 DEF Swap
  <2>4. \E x \in CampaignTransitions :
          x.from = stage /\ x.to = stage' /\ x.fact \in since \cup {"none"}
    BY <2>1, <2>2
  <2> QED
    BY <2>3, <2>4, SameTable DEF Machine!Next, Machine!Move
<1>3. CASE UNCHANGED <<campaignVars, facts>>
  BY <1>3 DEF campaignVars
<1> QED
  BY <1>1, <1>2, <1>3
  DEF Next, Workflow, Execute, vars, StartRun, AskForward, AskRetry, AskForDecision, Put,
      AskNothing, GiveUp, TakeAnswer, TakeRepair, StartTry, TimeOut, Die, FindAudit, ReadCampaign,
      Evaluate, Swap, Reread, WriteAudit, AuditThrows, Drop

\* However executions of the advance activity overlap, die and are retried, the
\* campaign row behaves as the StageMachine: one edge of the table at a time,
\* on a fact that has held since the last move.
THEOREM RowIsAStageMachine == Spec => ImplementsStageMachine
<1>1. Init => Machine!Init
  BY DEF Init, Machine!Init
<1> QED
  BY <1>1, StepMaps, Inductive, PTL DEF Spec, ImplementsStageMachine, Machine!Spec

-----------------------------------------------------------------------------
(* The workflow goes on only when its ask has moved the campaign.          *)

\* An ask is out only while the run goes on.
AskedInARun == wf.ask # NoAsk => wf.status \in {"RUNNING", "AWAITING_APPROVAL"}

\* The execution the server waits for serves the ask that is out.
LiveServesTheAsk ==
  live # NoTry =>
    live \in Tries /\ wf.ask # NoAsk /\ try[live].pc # "IDLE" /\ try[live].key = wf.ask.key

\* An execution that answers APPLIED, or is about to, does so for a key that
\* has moved the campaign.
AnswersAMove ==
  \A t \in Tries : try[t].pc \in {"ANSWER", "DONE"} /\ try[t].answer = "APPLIED" =>
    moved[try[t].key] # {}

WInv == IInv /\ AskedInARun /\ LiveServesTheAsk /\ AnswersAMove

LEMMA FirstAsk == Init => WInv
<1> SUFFICES ASSUME Init PROVE WInv
  OBVIOUS
<1> QED
  BY Initially DEF Init, WInv, AskedInARun, LiveServesTheAsk, AnswersAMove, NoWork

\* The forms of the work an execution goes on to, all of its key.
On(w, p) == [w EXCEPT !.pc = p]
Found(w, p, a) == [w EXCEPT !.pc = p, !.answer = a]
Told(w, p, s) == [w EXCEPT !.pc = p, !.at = s]
Saw(w, p, s, v) == [w EXCEPT !.pc = p, !.seenStage = s, !.seenVersion = v]

LEMMA WorkKeepsItsKey ==
  ASSUME NEW w \in Try, NEW p, NEW a, NEW s, NEW v
  PROVE  /\ On(w, p).pc = p /\ On(w, p).key = w.key
         /\ Found(w, p, a).pc = p /\ Found(w, p, a).key = w.key
         /\ Told(w, p, s).pc = p /\ Told(w, p, s).key = w.key
         /\ Saw(w, p, s, v).pc = p /\ Saw(w, p, s, v).key = w.key
<1>1. On(w, p).pc = p /\ On(w, p).key = w.key
  BY DEF Try, On
<1>2. Found(w, p, a).pc = p /\ Found(w, p, a).key = w.key
  BY DEF Try, Found
<1>3. Told(w, p, s).pc = p /\ Told(w, p, s).key = w.key
  BY DEF Try, Told
<1>4. Saw(w, p, s, v).pc = p /\ Saw(w, p, s, v).key = w.key
  BY DEF Try, Saw
<1> QED
  BY <1>1, <1>2, <1>3, <1>4

\* Every answer that becomes APPLIED or is about to be given is of a key that has moved.
LEMMA AnswersStep == WInv /\ [Next]_vars => AnswersAMove'
<1> SUFFICES ASSUME WInv, [Next]_vars PROVE AnswersAMove'
  OBVIOUS
<1>t. try \in [Tries -> Try]
  BY DEF WInv, IInv, TypeOK
<1>m. ASSUME NEW t \in Tries, NEW k \in Keys, moved[k] # {} PROVE moved'[k] # {}
  <2>1. CASE UNCHANGED moved
    BY <2>1, <1>m
  <2>2. ASSUME NEW u \in Tries, Swap(u) PROVE moved[k] \subseteq moved'[k]
    <3>1. moved \in [Keys -> SUBSET (Nat \X Stages \X Stages)]
      BY DEF WInv, IInv, TypeOK
    <3> QED
      BY <2>2, <3>1 DEF Swap, campaignVars
  <2> QED
    BY <1>m, <2>1, <2>2
    DEF Next, Workflow, Execute, vars, campaignVars, Learn, StartRun, AskForward, AskRetry,
        AskForDecision, Put, AskNothing, GiveUp, TakeAnswer, TakeRepair, StartTry, TimeOut, Die,
        FindAudit, ReadCampaign, Evaluate, Reread, WriteAudit, AuditThrows, Drop
<1>k. \A t \in Tries : try[t].pc # "IDLE" => try[t].key \in Keys
  BY DEF WInv, IInv, SeenIsPast
\* A slot that is left as it was, or cleared, or whose new answer is backed.
<1>r. ASSUME NEW t \in Tries, NEW r, try' = [try EXCEPT ![t] = r],
             r.pc \in {"ANSWER", "DONE"} /\ r.answer = "APPLIED" => moved'[r.key] # {}
      PROVE  AnswersAMove'
  <2> SUFFICES ASSUME NEW u \in Tries, try'[u].pc \in {"ANSWER", "DONE"},
                      try'[u].answer = "APPLIED"
               PROVE  moved'[try'[u].key] # {}
    BY DEF AnswersAMove
  <2>1. CASE u = t
    BY <2>1, <1>r, <1>t
  <2>2. CASE u # t
    <3>1. try'[u] = try[u]
      BY <2>2, <1>r, <1>t
    <3>2. try[u].key \in Keys /\ moved[try[u].key] # {}
      BY <3>1, <1>k DEF WInv, AnswersAMove
    <3> QED
      BY <3>1, <3>2, <1>m
  <2> QED
    BY <2>1, <2>2
<1>1. CASE UNCHANGED try
  <2> SUFFICES ASSUME NEW u \in Tries, try[u].pc \in {"ANSWER", "DONE"},
                      try[u].answer = "APPLIED"
               PROVE  moved'[try[u].key] # {}
    BY <1>1 DEF AnswersAMove
  <2>1. try[u].key \in Keys /\ moved[try[u].key] # {}
    BY <1>k DEF WInv, AnswersAMove
  <2> QED
    BY <2>1, <1>m
<1>2. ASSUME NEW t \in Tries, try' = [try EXCEPT ![t] = NoWork] PROVE AnswersAMove'
  BY <1>2, <1>r DEF NoWork
<1>3. ASSUME NEW t \in Tries, StartTry(t) PROVE AnswersAMove'
  <2> DEFINE r == [NoWork EXCEPT !.pc = "FIND", !.key = wf.ask.key, !.to = wf.ask.to]
  <2>1. r.pc = "FIND"
    BY DEF NoWork
  <2>2. try' = [try EXCEPT ![t] = r]
    BY <1>3 DEF StartTry
  <2> HIDE DEF r
  <2> QED
    BY <2>1, <2>2, <1>r
<1>4. ASSUME NEW t \in Tries, FindAudit(t) PROVE AnswersAMove'
  <2> DEFINE row == audit[try[t].key]
  <2>1. try[t] \in Try /\ try[t].key \in Keys
    BY <1>4, <1>k, <1>t DEF FindAudit, At
  <2>2. CASE row = NoRow /\ Goes(t, [try[t] EXCEPT !.pc = "READ"])
    <3>1. [try[t] EXCEPT !.pc = "READ"].pc = "READ"
      BY <2>1 DEF Try
    <3> QED
      BY <2>2, <3>1, <1>r DEF Goes
  <2>3. CASE row.result = "APPLIED"
             /\ Goes(t, [try[t] EXCEPT !.pc = "ANSWER", !.answer = "APPLIED"])
    <3>1. [try[t] EXCEPT !.pc = "ANSWER", !.answer = "APPLIED"].key = try[t].key
      BY <2>1 DEF Try
    <3>2. moved[try[t].key] # {}
      BY <2>1, <2>3 DEF WInv, IInv, AppliedRowsAreMoves
    <3>3. moved'[try[t].key] # {}
      BY <2>1, <3>2, <1>m
    <3> QED
      BY <2>3, <3>1, <3>3, <1>r DEF Goes
  <2>4. CASE row.result \in Refusals
             /\ Goes(t, [try[t] EXCEPT !.pc = "DONE", !.answer = "DUPLICATE_REQUEST"])
    <3>1. [try[t] EXCEPT !.pc = "DONE", !.answer = "DUPLICATE_REQUEST"].answer
            = "DUPLICATE_REQUEST"
      BY <2>1 DEF Try
    <3> QED
      BY <2>4, <3>1, <1>r DEF Goes
  <2> QED
    BY <1>4, <2>2, <2>3, <2>4 DEF FindAudit
<1>5. ASSUME NEW t \in Tries, ReadCampaign(t) \/ Evaluate(t) \/ Swap(t) PROVE AnswersAMove'
  <2>1. try[t] \in Try
    BY <1>t
  <2>2. \E r : Goes(t, r) /\ r.pc \notin {"ANSWER", "DONE"}
    <3>1. CASE ReadCampaign(t)
      <4>1. Goes(t, Saw(try[t], "EVALUATE", stage, version))
        BY <3>1 DEF ReadCampaign, On, Found, Told, Saw
      <4> QED
        BY <2>1, <4>1, WorkKeepsItsKey
    <3>2. CASE Evaluate(t)
      <4>1. Goes(t, On(try[t], "SWAP"))
          \/ \E a : Goes(t, Found(try[t], "AUDIT", a))
        BY <3>2 DEF Evaluate, On, Found, Told, Saw
      <4> QED
        BY <2>1, <4>1, WorkKeepsItsKey
    <3>3. CASE Swap(t)
      <4>1. Goes(t, Found(try[t], "REREAD", "APPLIED"))
          \/ Goes(t, Found(try[t], "AUDIT", "REJECTED_CONCURRENT_MODIFICATION"))
        BY <3>3 DEF Swap, On, Found, Told, Saw
      <4> QED
        BY <2>1, <4>1, WorkKeepsItsKey
    <3> QED
      BY <1>5, <3>1, <3>2, <3>3
  <2> QED
    BY <2>2, <1>r DEF Goes
<1>6. ASSUME NEW t \in Tries, Reread(t) PROVE AnswersAMove'
  <2>1. try[t] \in Try /\ try[t].key \in Keys
    BY <1>6, <1>k, <1>t DEF Reread, At
  <2> DEFINE read(p) == [try[t] EXCEPT !.pc = p, !.at = stage]
  <2>2. ASSUME NEW p
        PROVE  read(p).pc = p /\ read(p).key = try[t].key /\ read(p).answer = try[t].answer
    BY <2>1 DEF Try
  <2>3. CASE try[t].pc = "ANSWER" /\ Goes(t, read("DONE"))
    <3>1. try[t].answer = "APPLIED" => moved'[try[t].key] # {}
      BY <2>1, <2>3, <1>m DEF WInv, AnswersAMove
    <3>2. try' = [try EXCEPT ![t] = read("DONE")]
      BY <2>3 DEF Goes
    <3> HIDE DEF read
    <3> QED
      BY <2>2, <3>1, <3>2, <1>r
  <2>4. CASE Goes(t, read("AUDIT"))
    <3>1. try' = [try EXCEPT ![t] = read("AUDIT")]
      BY <2>4 DEF Goes
    <3> HIDE DEF read
    <3> QED
      BY <2>2, <3>1, <1>r
  <2> QED
    BY <1>6, <2>3, <2>4 DEF Reread, At
<1>7. ASSUME NEW t \in Tries, WriteAudit(t) PROVE AnswersAMove'
  <2>1. try[t] \in Try /\ try[t].key \in Keys
    BY <1>7, <1>k, <1>t DEF WriteAudit, At
  <2> DEFINE r == [try[t] EXCEPT !.pc = "DONE"]
  <2>2. r.key = try[t].key /\ r.answer = try[t].answer
    BY <2>1 DEF Try
  <2>3. try[t].answer = "APPLIED" => moved[try[t].key] # {}
    BY <1>7 DEF WInv, IInv, RecordsItsMove, WriteAudit, At
  <2>4. try[t].answer = "APPLIED" => moved'[try[t].key] # {}
    BY <2>1, <2>3, <1>m
  <2>5. try' = [try EXCEPT ![t] = r]
    BY <1>7 DEF WriteAudit, Goes
  <2> HIDE DEF r
  <2> QED
    BY <2>2, <2>4, <2>5, <1>r
<1> QED
  BY <1>1, <1>2, <1>3, <1>4, <1>5, <1>6, <1>7
  DEF Next, Workflow, Execute, vars, workflowVars, Learn, StartRun, AskForward, AskRetry,
      AskForDecision, Put, AskNothing, GiveUp, TakeAnswer, TakeRepair, TimeOut, Die,
      AuditThrows, Drop, Goes

LEMMA ServesStep == WInv /\ [Next]_vars => AskedInARun' /\ LiveServesTheAsk'
<1> SUFFICES ASSUME WInv, [Next]_vars PROVE AskedInARun' /\ LiveServesTheAsk'
  OBVIOUS
<1>t. /\ try \in [Tries -> Try] /\ NoTry \notin Tries
      /\ wf \in [status : Statuses, stage : Stages \cup {NoStage},
                 ask : [key : Keys \cup {0}, mode : Modes \cup {"NONE"}, to : Stages \cup {NoStage}]]
  BY TransitionAssumption DEF WInv, IInv, TypeOK, NoTry
<1> USE DEF WInv, AskedInARun, LiveServesTheAsk
<1>1. CASE UNCHANGED <<wf, live, try>>
  BY <1>1
\* The run ends or starts, or its ask is answered, and nothing is waited for.
<1>2. CASE live' = NoTry /\ (wf'.ask = NoAsk \/ wf'.status \in {"RUNNING", "AWAITING_APPROVAL"})
  BY <1>2
<1>3. CASE StartRun
  <2>1. wf.ask = NoAsk /\ live = NoTry
    BY <1>3 DEF StartRun
  <2> QED
    BY <1>3, <1>2, <2>1 DEF StartRun, serverVars
<1>4. ASSUME NEW mode, NEW to, wf.status \in {"RUNNING", "AWAITING_APPROVAL"}, Put(mode, to)
      PROVE  AskedInARun' /\ LiveServesTheAsk'
  <2>1. live = NoTry /\ live' = live /\ wf'.status = wf.status
    BY <1>4, <1>t DEF Put
  <2> QED
    BY <1>4, <1>2, <2>1
<1>5. CASE AskForward \/ AskRetry \/ AskForDecision
  BY <1>4, <1>5 DEF AskForward, AskRetry, AskForDecision
<1>6. CASE AskNothing \/ GiveUp
  <2>1. live = NoTry /\ live' = live
    BY <1>6 DEF AskNothing, GiveUp, serverVars
  <2>2. wf'.ask = NoAsk
    BY <1>6, <1>t DEF AskNothing, GiveUp
  <2> QED
    BY <1>2, <2>1, <2>2
<1>7. ASSUME NEW t \in Tries, TakeAnswer(t) PROVE AskedInARun' /\ LiveServesTheAsk'
  <2>1. live' = NoTry /\ wf'.ask = NoAsk
    BY <1>7, <1>t DEF TakeAnswer
  <2> QED
    BY <1>2, <2>1
<1>8. ASSUME NEW t \in Tries, TakeRepair(t) PROVE AskedInARun' /\ LiveServesTheAsk'
  <2>1. wf.ask # NoAsk /\ live' = NoTry
    BY <1>8, <1>t DEF TakeRepair
  <2>2. wf'.status = wf.status
    BY <1>8, <1>t DEF TakeRepair
  <2> QED
    BY <1>2, <2>1, <2>2
<1>9. ASSUME NEW t \in Tries, StartTry(t) PROVE AskedInARun' /\ LiveServesTheAsk'
  <2> DEFINE r == [NoWork EXCEPT !.pc = "FIND", !.key = wf.ask.key, !.to = wf.ask.to]
  <2>1. r.pc = "FIND" /\ r.key = wf.ask.key
    BY DEF NoWork
  <2>2. try' = [try EXCEPT ![t] = r] /\ live' = t /\ wf' = wf /\ wf.ask # NoAsk
    BY <1>9 DEF StartTry, workflowVars
  <2> HIDE DEF r
  <2>3. try'[t] = r
    BY <2>2, <1>t
  <2> QED
    BY <2>1, <2>2, <2>3
<1>10. CASE TimeOut
  BY <1>10 DEF TimeOut, workflowVars
<1>11. ASSUME NEW t \in Tries, Die(t) \/ AuditThrows(t) \/ Drop(t)
       PROVE  AskedInARun' /\ LiveServesTheAsk'
  <2>1. /\ try' = [try EXCEPT ![t] = NoWork] /\ wf' = wf
        /\ live' = NoTry \/ (live' = live /\ live # t)
    BY <1>11 DEF Die, AuditThrows, Drop, Goes, workflowVars, serverVars
  <2> QED
    BY <2>1, <1>t
<1>12. ASSUME NEW t \in Tries, NEW r, Goes(t, r), r.pc # "IDLE", r.key = try[t].key,
              UNCHANGED <<wf, live>>
       PROVE  AskedInARun' /\ LiveServesTheAsk'
  BY <1>12, <1>t DEF Goes
<1>13. ASSUME NEW t \in Tries,
              FindAudit(t) \/ ReadCampaign(t) \/ Evaluate(t) \/ Swap(t) \/ Reread(t) \/ WriteAudit(t)
       PROVE  AskedInARun' /\ LiveServesTheAsk'
  <2>1. try[t] \in Try /\ UNCHANGED <<wf, live>>
    BY <1>13, <1>t
    DEF FindAudit, ReadCampaign, Evaluate, Swap, Reread, WriteAudit, serverVars, workflowVars
  <2>2. \E r : Goes(t, r) /\ r.pc # "IDLE" /\ r.key = try[t].key
    <3>1. CASE FindAudit(t)
      <4>1. Goes(t, On(try[t], "READ")) \/ Goes(t, Found(try[t], "ANSWER", "APPLIED"))
          \/ Goes(t, Found(try[t], "DONE", "DUPLICATE_REQUEST"))
        BY <3>1 DEF FindAudit, On, Found, Told, Saw
      <4> QED
        BY <2>1, <4>1, WorkKeepsItsKey
    <3>2. CASE ReadCampaign(t)
      <4>1. Goes(t, Saw(try[t], "EVALUATE", stage, version))
        BY <3>2 DEF ReadCampaign, On, Found, Told, Saw
      <4> QED
        BY <2>1, <4>1, WorkKeepsItsKey
    <3>3. CASE Evaluate(t)
      <4>1. Goes(t, On(try[t], "SWAP"))
          \/ \E a : Goes(t, Found(try[t], "AUDIT", a))
        BY <3>3 DEF Evaluate, On, Found, Told, Saw
      <4> QED
        BY <2>1, <4>1, WorkKeepsItsKey
    <3>4. CASE Swap(t)
      <4>1. Goes(t, Found(try[t], "REREAD", "APPLIED"))
          \/ Goes(t, Found(try[t], "AUDIT", "REJECTED_CONCURRENT_MODIFICATION"))
        BY <3>4 DEF Swap, On, Found, Told, Saw
      <4> QED
        BY <2>1, <4>1, WorkKeepsItsKey
    <3>5. CASE Reread(t)
      <4>1. \E p \in {"DONE", "AUDIT"} : Goes(t, Told(try[t], p, stage))
        BY <3>5 DEF Reread, On, Found, Told, Saw
      <4> QED
        BY <2>1, <4>1, WorkKeepsItsKey
    <3>6. CASE WriteAudit(t)
      BY <3>6, <2>1 DEF WriteAudit, Try
    <3> QED
      BY <1>13, <3>1, <3>2, <3>3, <3>4, <3>5, <3>6
  <2> QED
    BY <2>1, <2>2, <1>12
<1> QED
  BY <1>1, <1>3, <1>5, <1>6, <1>7, <1>8, <1>9, <1>10, <1>11, <1>13
  DEF Next, Workflow, Execute, vars, serverVars, workflowVars, Learn

LEMMA AnswerIsAMove ==
  WInv /\ [Next]_vars =>
    [wf.ask # NoAsk /\ wf'.ask = NoAsk /\ wf'.status = "RUNNING" => moved[wf.ask.key] # {}]_vars
<1> SUFFICES ASSUME WInv, Next, wf.ask # NoAsk, wf'.ask = NoAsk, wf'.status = "RUNNING"
             PROVE  moved[wf.ask.key] # {}
  OBVIOUS
<1>t. wf \in [status : Statuses, stage : Stages \cup {NoStage},
              ask : [key : Keys \cup {0}, mode : Modes \cup {"NONE"}, to : Stages \cup {NoStage}]]
  BY DEF WInv, IInv, TypeOK
<1>1. ASSUME NEW t \in Tries, TakeAnswer(t) PROVE moved[wf.ask.key] # {}
  <2>1. live = t /\ try[t].pc = "DONE" /\ NoTry # t
    BY <1>1, TransitionAssumption DEF TakeAnswer, NoTry
  <2>2. try[t].answer = "APPLIED"
    BY <1>1, <1>t DEF TakeAnswer
  <2> QED
    BY <2>1, <2>2 DEF WInv, LiveServesTheAsk, AnswersAMove
<1>2. ASSUME NEW t \in Tries, TakeRepair(t) PROVE FALSE
  <2>1. PICK to \in RevisionTargets(wf.stage) :
           wf' = [wf EXCEPT !.ask = Ask(asks + 1, "AUTO_RETRY", to)]
    BY <1>2 DEF TakeRepair
  <2>2. wf'.ask.mode = "AUTO_RETRY"
    BY <2>1, <1>t DEF Ask
  <2> QED
    BY <2>2 DEF NoAsk, Ask
<1>3. ~StartRun /\ ~AskNothing /\ ~AskForward /\ ~AskRetry /\ ~AskForDecision
  BY DEF WInv, AskedInARun, StartRun, AskNothing, AskForward, AskRetry, AskForDecision, Put
<1>4. ~GiveUp
  BY <1>t DEF GiveUp
<1> QED
  BY <1>1, <1>2, <1>3, <1>4
  DEF Next, Workflow, Execute, workflowVars, Learn, StartTry, TimeOut, Die, FindAudit,
      ReadCampaign, Evaluate, Swap, Reread, WriteAudit, AuditThrows, Drop

\* The workflow takes a stage for reached only when its ask has moved the campaign,
\* whichever execution answered it, on its own swap or on the audit row it found.
THEOREM GoesOnAfterAMove == Spec => GoesOnOnlyWhenMoved
<1>1. WInv /\ [Next]_vars => WInv'
  BY InductiveStep, AnswersStep, ServesStep DEF WInv
<1>2. Spec => []WInv
  BY <1>1, FirstAsk, PTL DEF Spec
<1> QED
  BY <1>2, AnswerIsAMove, PTL DEF Spec, GoesOnOnlyWhenMoved
=============================================================================
