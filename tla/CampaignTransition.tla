-------------------------- MODULE CampaignTransition --------------------------
(***************************************************************************)
(* The advance activity and attemptCampaignTransition below it, statement  *)
(* by statement: the executions of one ask and of the asks after it run    *)
(* side by side, since an execution the server timed out keeps running     *)
(* while its retry, and the rest of the workflow, go on.                   *)
(*                                                                         *)
(* CampaignProduction takes a transition as one step; this module is what  *)
(* that step is made of.  The facts are opaque here: agents, providers and *)
(* reviewers change them at any time.                                      *)
(***************************************************************************)
EXTENDS TransitionRules, Naturals, FiniteSets

CONSTANTS
  Tries,         \* the executions of the activity that can be under way
  StartStages,   \* the stages the campaign may be at when the story starts
  Learnable,     \* for each stage, the facts written while the campaign is there
  Rivals,        \* sets of facts of which at most one holds at a time
  MaxTries,      \* executions the server allows one ask (maximumAttempts)
  MaxAsks,       \* bound: asks in all
  MaxRuns        \* bound: workflow runs in all

VARIABLES
  stage, version,   \* the campaign row
  facts,            \* the facts computeTransitionFacts would find
  audit,            \* campaign_transition_audits, by idempotency key
  try,              \* the executions under way
  live,             \* the execution the server is waiting for
  left,             \* executions the server may still start for this ask
  wf,               \* the workflow: its status, its stage and its ask
  asks,             \* idempotency keys handed out
  runs,             \* workflow runs started
  \* History.
  since,            \* the facts that have held since the campaign last moved
  moved             \* the moves each key has made

campaignVars == <<stage, version, since, moved>>
serverVars == <<live, left>>
workflowVars == <<wf, asks, runs>>
vars == <<campaignVars, facts, audit, try, serverVars, workflowVars>>

AllFacts == {e.fact : e \in CampaignTransitions}

ASSUME TransitionAssumption ==
  /\ "NO_TRY" \notin Tries
  /\ StartStages \subseteq Stages
  /\ Learnable \in [Stages -> SUBSET AllFacts]
  /\ MaxTries \in Nat /\ MaxAsks \in Nat /\ MaxRuns \in Nat

Keys == 1 .. MaxAsks
NoTry == "NO_TRY"
Refusals == {"REJECTED_INVALID_TRANSITION", "REJECTED_MISSING_PREREQUISITE",
             "REJECTED_CONCURRENT_MODIFICATION"}
Answers == Refusals \cup {"APPLIED", "DUPLICATE_REQUEST"}
Statuses == {"RUNNING", "AWAITING_APPROVAL", "BLOCKED", "FAILED", "COMPLETED", "NOT_STARTED"}
Modes == {"AUTO_FORWARD", "AUTO_RETRY", "GATE_DECISION"}

NoRow == [result |-> "NO_ROW", from |-> NoStage, to |-> NoStage]

\* What an ask puts to the activity; an ask is made with a key never used before.
Ask(key, mode, to) == [key |-> key, mode |-> mode, to |-> to]
NoAsk == Ask(0, "NONE", NoStage)

\* An execution: the ask it serves, the campaign row it read, the answer it
\* is about to give and the stage it reports.
NoWork == [pc |-> "IDLE", key |-> 0, to |-> NoStage, seenStage |-> NoStage,
           seenVersion |-> 0, answer |-> "NONE", at |-> NoStage]

GateStages == {GateStage[g] : g \in Gates}

\* The stages whose revision edge an automated retry may take.
AutoRetryStages == {"VISUAL_QA", "CONTINUITY_QA", "FINAL_QA", "VARIANT_QA"}

EdgesFor(from, to) == {e \in CampaignTransitions : e.from = from /\ e.to = to}

Holds(e) == e.fact \in facts \cup {"none"}
-----------------------------------------------------------------------------

Init ==
  /\ stage \in StartStages
  /\ version = 1   \* one more than the row's, whose default is 0
  /\ facts = {} /\ since = {}
  /\ audit = [k \in Keys |-> NoRow]
  /\ moved = [k \in Keys |-> {}]
  /\ try = [t \in Tries |-> NoWork]
  /\ live = NoTry /\ left = 0
  /\ wf = [status |-> "NOT_STARTED", stage |-> NoStage, ask |-> NoAsk]
  /\ asks = 0 /\ runs = 0

\* An agent, a provider or a reviewer writes rows: one fact comes to hold, and
\* its rivals cease to (the latest decision at a gate is one decision).
Learn(f) ==
  LET rivals == UNION {r \in Rivals : f \in r}
  IN /\ facts' = (facts \ rivals) \cup {f}
     /\ since' = since \cup facts'
     /\ UNCHANGED <<stage, version, moved, audit, try, serverVars, workflowVars>>

-----------------------------------------------------------------------------
(* The workflow.                                                           *)

\* POST .../workflow/start starts a run from the stage it read, however long
\* ago, unless a run is open.
Visited == {stage} \cup {m[2] : m \in UNION {moved[k] : k \in Keys}}

StartRun ==
  /\ wf.status \notin {"RUNNING", "AWAITING_APPROVAL"} /\ runs < MaxRuns
  /\ runs' = runs + 1
  /\ \E s \in Visited : wf' = [status |-> "RUNNING", stage |-> s, ask |-> NoAsk]
  /\ UNCHANGED <<campaignVars, facts, audit, try, serverVars, asks>>

Put(mode, to) ==
  /\ wf.ask = NoAsk /\ asks < MaxAsks
  /\ asks' = asks + 1
  /\ wf' = [wf EXCEPT !.ask = Ask(asks + 1, mode, to)]
  /\ left' = MaxTries
  /\ UNCHANGED <<campaignVars, facts, audit, try, live, runs>>

\* The forward edge out of a stage without a gate.
AskForward ==
  /\ wf.status = "RUNNING" /\ wf.stage \notin GateStages
  /\ \E to \in ForwardTargets(wf.stage) : Put("AUTO_FORWARD", to)

\* A failed assessment: the revision edge, instead of the forward one at
\* VISUAL_QA, CONTINUITY_QA and FINAL_QA (VARIANT_QA asks for it only once the
\* forward edge was refused, see TakeAnswer).
AskRetry ==
  /\ wf.status = "RUNNING" /\ wf.stage \in AutoRetryStages \ {"VARIANT_QA"}
  /\ \E to \in RevisionTargets(wf.stage) : Put("AUTO_RETRY", to)

\* Without a database call: the activity answers TERMINAL, or GATE_REQUIRED.
AskNothing ==
  /\ wf.status = "RUNNING" /\ wf.ask = NoAsk
  /\ \/ /\ ForwardTargets(wf.stage) = {}
        /\ wf' = [wf EXCEPT !.status = "COMPLETED"]
     \/ /\ wf.stage \in GateStages
        /\ wf' = [wf EXCEPT !.status = "AWAITING_APPROVAL"]
  /\ UNCHANGED <<campaignVars, facts, audit, try, serverVars, asks, runs>>

\* A verified decision at the gate the workflow waits at; the approval it was
\* verified against is on record by then.
AskForDecision ==
  /\ wf.status = "AWAITING_APPROVAL"
  /\ \E g \in Gates, decision \in {"APPROVED", "REJECTED"}, target \in RepairTargets :
       /\ GateStage[g] = wf.stage
       /\ \E to \in DecisionTargets(wf.stage, g, decision, target) :
            /\ \E e \in EdgesFor(wf.stage, to) : Holds(e)
            /\ Put("GATE_DECISION", to)

\* The answer of the execution the server waits for reaches the workflow.
TakeAnswer(t) ==
  /\ live = t /\ try[t].pc = "DONE"
  /\ live' = NoTry /\ left' = 0
  /\ try' = [try EXCEPT ![t] = NoWork]
  /\ LET repair == /\ wf.stage = "VARIANT_QA" /\ wf.ask.mode = "AUTO_FORWARD"
                   /\ try[t].answer = "REJECTED_MISSING_PREREQUISITE"
     IN \/ /\ try[t].answer = "APPLIED"
           /\ wf' = [wf EXCEPT !.ask = NoAsk, !.stage = try[t].at, !.status = "RUNNING"]
           /\ UNCHANGED asks
        \/ /\ try[t].answer # "APPLIED"
           /\ ~repair \/ asks = MaxAsks     \* the repair bound is reached
           /\ wf' = [wf EXCEPT !.ask = NoAsk, !.status = "BLOCKED"]
           /\ UNCHANGED asks
  /\ UNCHANGED <<campaignVars, facts, audit, runs>>

\* VARIANT_QA: a refused forward edge sends the workflow to the repair edge.
TakeRepair(t) ==
  /\ live = t /\ try[t].pc = "DONE" /\ asks < MaxAsks
  /\ wf.stage = "VARIANT_QA" /\ wf.ask.mode = "AUTO_FORWARD"
  /\ try[t].answer = "REJECTED_MISSING_PREREQUISITE"
  /\ live' = NoTry /\ left' = MaxTries
  /\ try' = [try EXCEPT ![t] = NoWork]
  /\ asks' = asks + 1
  /\ \E to \in RevisionTargets(wf.stage) :
       wf' = [wf EXCEPT !.ask = Ask(asks + 1, "AUTO_RETRY", to)]
  /\ UNCHANGED <<campaignVars, facts, audit, runs>>

-----------------------------------------------------------------------------
(* The server: an ask is executed up to MaxTries times, one at a time, but *)
(* an execution it has timed out is not stopped.                           *)

\* Mutant of StartTry: a try started one too many times.
StartTryLate(t) ==
  /\ wf.ask # NoAsk /\ live = NoTry
  /\ try[t] = NoWork
  /\ try' = [try EXCEPT ![t] = [NoWork EXCEPT !.pc = "FIND", !.key = wf.ask.key,
                                              !.to = wf.ask.to]]
  /\ live' = t /\ left' = left - 1
  /\ UNCHANGED <<campaignVars, facts, audit, workflowVars>>

\* Mutant of StartTry: retried without a bound.
StartTryForever(t) ==
  /\ wf.ask # NoAsk /\ live = NoTry
  /\ try[t] = NoWork
  /\ try' = [try EXCEPT ![t] = [NoWork EXCEPT !.pc = "FIND", !.key = wf.ask.key,
                                              !.to = wf.ask.to]]
  /\ live' = t /\ left' = left
  /\ UNCHANGED <<campaignVars, facts, audit, workflowVars>>

StartTry(t) ==
  /\ wf.ask # NoAsk /\ live = NoTry /\ left > 0
  /\ try[t] = NoWork
  /\ try' = [try EXCEPT ![t] = [NoWork EXCEPT !.pc = "FIND", !.key = wf.ask.key,
                                              !.to = wf.ask.to]]
  /\ live' = t /\ left' = left - 1
  /\ UNCHANGED <<campaignVars, facts, audit, workflowVars>>

\* startToCloseTimeout: the server lets go, the execution runs on.
TimeOut ==
  /\ live # NoTry
  /\ live' = NoTry
  /\ UNCHANGED <<campaignVars, facts, audit, try, left, workflowVars>>

\* The execution ends, by a thrown query or the death of its worker.
Die(t) ==
  /\ try[t] # NoWork
  /\ try' = [try EXCEPT ![t] = NoWork]
  /\ live' = IF live = t THEN NoTry ELSE live
  /\ UNCHANGED <<campaignVars, facts, audit, left, workflowVars>>

\* No execution left: the ask fails, and the workflow with it.
GiveUp ==
  /\ wf.ask # NoAsk /\ live = NoTry /\ left = 0
  /\ wf' = [wf EXCEPT !.ask = NoAsk, !.status = "FAILED"]
  /\ UNCHANGED <<campaignVars, facts, audit, try, serverVars, asks, runs>>

-----------------------------------------------------------------------------
(* One execution.                                                          *)

At(t, pc) == try[t].pc = pc
Goes(t, r) == try' = [try EXCEPT ![t] = r]

\* Mutant of FindAudit: any recorded outcome answers as the applied one.
FindAnyAudit(t) ==
  /\ At(t, "FIND")
  /\ \/ /\ audit[try[t].key] = NoRow
        /\ Goes(t, [try[t] EXCEPT !.pc = "READ"])
     \/ /\ audit[try[t].key] # NoRow
        /\ Goes(t, [try[t] EXCEPT !.pc = "ANSWER", !.answer = "APPLIED"])
  /\ UNCHANGED <<campaignVars, facts, audit, serverVars, workflowVars>>

\* The duplicate check.  An applied row answers with the campaign as it is
\* now, not as the row left it.
FindAudit(t) ==
  /\ At(t, "FIND")
  /\ LET row == audit[try[t].key]
     IN \/ /\ row = NoRow
           /\ Goes(t, [try[t] EXCEPT !.pc = "READ"])
        \/ /\ row.result = "APPLIED"
           /\ Goes(t, [try[t] EXCEPT !.pc = "ANSWER", !.answer = "APPLIED"])
        \/ /\ row.result \in Refusals
           /\ Goes(t, [try[t] EXCEPT !.pc = "DONE", !.answer = "DUPLICATE_REQUEST"])
  /\ UNCHANGED <<campaignVars, facts, audit, serverVars, workflowVars>>

ReadCampaign(t) ==
  /\ At(t, "READ")
  /\ Goes(t, [try[t] EXCEPT !.pc = "EVALUATE", !.seenStage = stage,
                            !.seenVersion = version])
  /\ UNCHANGED <<campaignVars, facts, audit, serverVars, workflowVars>>

\* loadTransitionFactInputs and evaluateCampaignTransition, from the stage read.
Evaluate(t) ==
  /\ At(t, "EVALUATE")
  /\ LET edges == EdgesFor(try[t].seenStage, try[t].to)
     IN \/ /\ edges = {}
           /\ Goes(t, [try[t] EXCEPT !.pc = "AUDIT",
                                     !.answer = "REJECTED_INVALID_TRANSITION"])
        \/ /\ \E e \in edges : ~Holds(e)
           /\ Goes(t, [try[t] EXCEPT !.pc = "AUDIT",
                                     !.answer = "REJECTED_MISSING_PREREQUISITE"])
        \/ /\ \E e \in edges : Holds(e)
           /\ Goes(t, [try[t] EXCEPT !.pc = "SWAP"])
  /\ UNCHANGED <<campaignVars, facts, audit, serverVars, workflowVars>>

\* Mutant of Unchanged: a compare-and-swap on the stage alone.
SameStage(t) == stage = try[t].seenStage

\* updateMany where currentStage and version are as read.
Unchanged(t) == stage = try[t].seenStage /\ version = try[t].seenVersion

\* Mutant of Swap: the count of changed rows is not looked at.
SwapUnchecked(t) ==
  /\ At(t, "SWAP")
  /\ \/ /\ Unchanged(t)
        /\ stage' = try[t].to /\ version' = version + 1
        /\ since' = facts
        /\ moved' = [moved EXCEPT ![try[t].key] = @ \cup {<<version, stage, try[t].to>>}]
     \/ /\ ~Unchanged(t)
        /\ UNCHANGED campaignVars
  /\ Goes(t, [try[t] EXCEPT !.pc = "REREAD", !.answer = "APPLIED"])
  /\ UNCHANGED <<facts, audit, serverVars, workflowVars>>

Swap(t) ==
  /\ At(t, "SWAP")
  /\ \/ /\ Unchanged(t)
        /\ stage' = try[t].to /\ version' = version + 1
        /\ since' = facts
        /\ moved' = [moved EXCEPT ![try[t].key] = @ \cup {<<version, stage, try[t].to>>}]
        /\ Goes(t, [try[t] EXCEPT !.pc = "REREAD", !.answer = "APPLIED"])
     \/ /\ ~Unchanged(t)
        /\ Goes(t, [try[t] EXCEPT !.pc = "AUDIT",
                                  !.answer = "REJECTED_CONCURRENT_MODIFICATION"])
        /\ UNCHANGED campaignVars
  /\ UNCHANGED <<facts, audit, serverVars, workflowVars>>

\* The campaign is read again, after the audit row was found or before it is
\* written; the stage answered is the one read here.
Reread(t) ==
  /\ \/ At(t, "ANSWER") /\ Goes(t, [try[t] EXCEPT !.pc = "DONE", !.at = stage])
     \/ At(t, "REREAD") /\ Goes(t, [try[t] EXCEPT !.pc = "AUDIT", !.at = stage])
  /\ UNCHANGED <<campaignVars, facts, audit, serverVars, workflowVars>>

\* (campaignId, idempotencyKey) is unique.
WriteAudit(t) ==
  /\ At(t, "AUDIT") /\ audit[try[t].key] = NoRow
  /\ audit' = [audit EXCEPT ![try[t].key] =
                 [result |-> try[t].answer, from |-> try[t].seenStage, to |-> try[t].to]]
  /\ Goes(t, [try[t] EXCEPT !.pc = "DONE"])
  /\ UNCHANGED <<campaignVars, facts, serverVars, workflowVars>>

\* A second row throws: the server counts the execution as failed.
AuditThrows(t) ==
  /\ At(t, "AUDIT") /\ audit[try[t].key] # NoRow
  /\ Goes(t, NoWork)
  /\ live' = IF live = t THEN NoTry ELSE live
  /\ UNCHANGED <<campaignVars, facts, audit, left, workflowVars>>

\* A stray execution's answer goes nowhere.
Drop(t) ==
  /\ At(t, "DONE") /\ live # t
  /\ Goes(t, NoWork)
  /\ UNCHANGED <<campaignVars, facts, audit, serverVars, workflowVars>>

Execute(t) ==
  \/ FindAudit(t) \/ ReadCampaign(t) \/ Evaluate(t) \/ Swap(t) \/ Reread(t)
  \/ WriteAudit(t) \/ AuditThrows(t) \/ Drop(t)

Workflow ==
  \/ AskForward \/ AskRetry \/ AskNothing \/ AskForDecision
  \/ GiveUp
  \/ \E t \in Tries : TakeAnswer(t) \/ TakeRepair(t) \/ StartTry(t)

Next ==
  \/ \E f \in Learnable[stage] : Learn(f)
  \/ StartRun
  \/ Workflow \/ TimeOut
  \/ \E t \in Tries : Execute(t) \/ Die(t)

Spec == Init /\ [][Next]_vars

\* The worker takes up what the server hands it, the server times out what
\* does not answer, and a query returns or throws; nothing makes an agent, a
\* reviewer or a start request act.
FairSpec ==
  /\ Spec
  /\ WF_vars(GiveUp) /\ WF_vars(TimeOut)
  /\ WF_vars(\E t \in Tries : StartTry(t))
  /\ \A t \in Tries : WF_vars(Execute(t)) /\ WF_vars(TakeAnswer(t) \/ TakeRepair(t))

-----------------------------------------------------------------------------

Try == [pc : {"IDLE", "FIND", "READ", "EVALUATE", "SWAP", "REREAD", "AUDIT", "ANSWER", "DONE"},
        key : Keys \cup {0}, to : Stages \cup {NoStage},
        seenStage : Stages \cup {NoStage}, seenVersion : Nat,
        answer : Answers \cup {"NONE"}, at : Stages \cup {NoStage}]

\* Every variable stays within its type.
TypeOK ==
  /\ stage \in Stages /\ version \in Nat \ {0}
  /\ facts \subseteq AllFacts /\ since \subseteq AllFacts
  /\ audit \in [Keys -> [result : Refusals \cup {"APPLIED", "NO_ROW"},
                         from : Stages \cup {NoStage}, to : Stages \cup {NoStage}]]
  /\ try \in [Tries -> Try]
  /\ live \in Tries \cup {NoTry} /\ left \in Nat
  /\ wf \in [status : Statuses, stage : Stages \cup {NoStage},
             ask : [key : Keys \cup {0}, mode : Modes \cup {"NONE"}, to : Stages \cup {NoStage}]]
  /\ asks \in 0 .. MaxAsks /\ runs \in Nat
  /\ moved \in [Keys -> SUBSET (Nat \X Stages \X Stages)]

\* Whatever executions overlap, the campaign row moves along the table's edges
\* only, on facts that have held since it last moved: the version in the
\* compare-and-swap turns away facts read on an earlier visit to the stage.
Machine == INSTANCE StageMachine
ImplementsStageMachine == Machine!Spec

\* The audit trail records as APPLIED only moves the key has made, from and to
\* the stages the row names.
AppliedRowsAreMoves ==
  \A k \in Keys : audit[k].result = "APPLIED" =>
    \E m \in moved[k] : m[2] = audit[k].from /\ m[3] = audit[k].to

\* The workflow takes a stage for reached only when its ask has moved the
\* campaign.
GoesOnOnlyWhenMoved ==
  [][wf.ask # NoAsk /\ wf'.ask = NoAsk /\ wf'.status = "RUNNING" =>
       moved[wf.ask.key] # {}]_vars

\* An ask is answered or given up in the end: its executions run out.
AskEnds == \A k \in Keys : wf.ask.key = k ~> wf.ask.key # k
=============================================================================
