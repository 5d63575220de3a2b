------------------------- MODULE CampaignProduction -------------------------
(***************************************************************************)
(* One campaign's life: the database rows its stage transitions are judged *)
(* by, the Temporal workflow that drives the stages, the reviewers' HTTP   *)
(* requests that record decisions and signal the workflow, and the         *)
(* operator who starts it again when it has closed.                        *)
(*                                                                         *)
(* One action is one database-visible step: an activity of the workflow,   *)
(* or one await of a request handler.  The shots of the script are one     *)
(* aggregate shot.  An attempt to move the campaign is a look at the facts *)
(* and a compare-and-swap, and an execution the server has timed out goes  *)
(* on beside whatever comes after it (module CampaignTransition takes one  *)
(* execution apart further, down to its audit row).                        *)
(***************************************************************************)
EXTENDS Naturals, Sequences, FiniteSets, TransitionRules

CONSTANTS
  Users,                \* the reviewers
  Requests,             \* the approval requests that can be in flight at once
  UserOf,               \* the reviewer who sends each of them
  Decisions,            \* the decisions a reviewer may send to CONCEPT and FINAL
  MaxRevisionsPerGate,  \* DEFAULT_MAX_REVISIONS_PER_GATE
  MaxVariantRepairs,    \* DEFAULT_MAX_VARIANT_REPAIR_ATTEMPTS
  MaxAttempts,          \* MAX_SHOT_GENERATION_ATTEMPTS
  FindingSets,          \* the repair targets a failing master's findings route to
  Outcomes,             \* what the hooks may come to: "ok", "fail" (blocks)
  Verdicts,             \* what a fresh quality assessment may say: "PASS", "FAIL"
  MaxTries,             \* executions the server allows one ask (maximumAttempts)
  Elsewhere,            \* what the assessments of other campaigns' masters say:
                        \* "PASS", and the repair targets their findings route to
  \* Bounds of the model, none of them the code's:
  Horizon,              \* the stages the worker works in
  Late,                 \* the timed-out executions that can be under way at once
  LateFrom,             \* the stages whose asks may time out
  DecideAt,             \* which gate's decisions are sent during which stage
  MaxApprovals, MaxSignals, MaxRuns, MaxSets, MaxEdits

DecisionValues == {"APPROVED", "REJECTED", "CHANGES_REQUESTED"}

ASSUME ConstantsAssumption ==
  /\ UserOf \in [Requests -> Users]
  /\ Decisions \subseteq DecisionValues
  /\ FindingSets \subseteq SUBSET RepairTargets
  /\ Outcomes \subseteq {"ok", "fail"}
  /\ Verdicts \subseteq {"PASS", "FAIL"}
  /\ Elsewhere \subseteq {"PASS"} \cup RepairTargets
  /\ Horizon \subseteq Stages
  /\ LateFrom \subseteq Stages /\ DecideAt \subseteq Gates \X Stages
  /\ MaxTries \in Nat \ {0}
  /\ {MaxRevisionsPerGate, MaxVariantRepairs, MaxAttempts, MaxApprovals,
      MaxSignals, MaxRuns, MaxSets, MaxEdits} \subseteq Nat

VARIABLES
  \* The database.
  stage,        \* Campaign.currentStage
  brief,        \* an accepted CampaignBrief exists
  approvals,    \* the HumanApproval rows, by time; an index is an id
  concepts,     \* the latest version of strategy and concept; 0: none
  scripts,      \* the latest version of the script, written to that concept
  prompted,     \* the latest script's shots have a ShotSpecification
  attempts,     \* ShotGenerationJob.attemptCount
  candidates,   \* the SUCCEEDED GenerationCandidates and their two verdicts
  sets,         \* how many ShotSelectionSets have been frozen as APPROVED
  draft,        \* the latest set while it is a DRAFT: its one required shot
  chosen,       \* the candidate last selected for that shot; 0: none
  edits,        \* the RoughEditSpecifications, each with all that hangs on it
  variants,     \* the CreativeVariants of each re-cut
  \* The workflow execution.
  run,          \* how many executions were started
  status,       \* of the latest one
  wfStage,      \* its currentStage
  pendingGate, revisionCounts, processed, signals,
  repairs,      \* variantRepairAttempt
  step,         \* where in its loop it is
  target,       \* the stage it asks the advance activity to move the campaign to
  held,         \* the verified approval a GATE_DECISION applies
  left,         \* the executions the server may still start for this ask
  late,         \* the executions it has timed out
  astray,       \* history: one of them has moved the campaign for an ask long over
  \* The API.
  req,          \* the approval requests in flight
  starting      \* the stage a start request has read

copy == <<brief, concepts, scripts, prompted>>
shots == <<attempts, candidates>>
selection == <<sets, draft, chosen>>
film == <<edits, variants>>
dbVars == <<stage, approvals, copy, shots, selection, film>>
wfVars == <<run, status, wfStage, pendingGate, revisionCounts, processed, signals,
            repairs, step, target, held, left, late, astray>>
apiVars == <<req, starting>>
vars == <<dbVars, wfVars, apiVars>>

-----------------------------------------------------------------------------
(* Types.                                                                  *)

Ids == 1 .. MaxApprovals

Approval == [gate : Gates, decision : DecisionValues, stageAtDecision : Stages,
             decidedByUserId : Users, repairTarget : RepairTargets \cup {NoStage}]

Verdict == {"NONE", "PASS", "FAIL"}

Candidate == [run : 1 .. MaxRuns, visual : Verdict, continuity : Verdict]

\* A rough edit: rendered or not, scored (Timeline, SoundDesignPlan, cues) or
\* not, and the persisted verdict on the master mixed from it.
RoughEdit == [rendered : BOOLEAN, scored : BOOLEAN, verdict : Verdict,
              findings : SUBSET RepairTargets]

Request == [pc : {"IDLE", "READ", "FROZEN", "RECORD", "SIGNAL"},
            gate : Gates \cup {NoGate}, decision : DecisionValues \cup {"NONE"},
            repairTarget : RepairTargets \cup {NoStage},
            seenStage : Stages \cup {NoStage}, id : 0 .. MaxApprovals]

VariantStatus == {"RENDERING", "READY", "FAILED"}

\* The workflow waits for an answer: it has asked, the execution it waits for
\* has found the edge open, has moved the campaign, or has been overtaken.
Asking == {"ASK", "SWAP", "APPLIED", "LOST"}

\* An execution the server let go of: yet to look, about to swap, or done or
\* refused, with the audit row a retry of the same ask will find.
Try == [pc : {"NONE", "LATE", "LOOKED", "MOVED", "DENIED"}, to : Stages \cup {NoStage},
        by : 0 .. MaxApprovals, mine : BOOLEAN]

NoTry == [pc |-> "NONE", to |-> NoStage, by |-> 0, mine |-> FALSE]

NoRequest == [pc |-> "IDLE", gate |-> NoGate, decision |-> "NONE",
              repairTarget |-> NoStage, seenStage |-> NoStage, id |-> 0]

ApprovalsOK == approvals \in Seq(Approval) /\ Len(approvals) <= MaxApprovals

CopyOK == brief \in BOOLEAN /\ concepts \in Nat /\ scripts \in Nat /\ prompted \in BOOLEAN

ShotsOK == attempts \in Nat /\ candidates \in Seq(Candidate)

SelectionOK ==
  sets \in Nat /\ draft \in {"NONE", "PENDING", "SELECTED", "REJECTED"} /\ chosen \in Nat

FilmOK == edits \in Seq(RoughEdit) /\ variants \in Seq(VariantStatus)

\* Where the campaign is, for the database and for the workflow.
PlaceOK == stage \in Stages /\ wfStage \in Stages /\ pendingGate \in Gates \cup {NoGate}

LoopOK ==
  /\ status \in {"NONE", "RUNNING", "AWAITING_APPROVAL", "BLOCKED"}
  /\ signals \in Seq(Ids)
  /\ step \in {"TOP", "CHILD", "HELD"} \cup Asking
  /\ target \in Stages \cup {NoStage}
  /\ held \in 0 .. MaxApprovals
  /\ left \in Nat
  /\ late \in [Late -> Try]

RunOK ==
  /\ run \in 0 .. MaxRuns
  /\ astray \in BOOLEAN
  /\ revisionCounts \in [Gates -> Nat]
  /\ processed \subseteq Ids
  /\ repairs \in 0 .. MaxVariantRepairs

ApiOK == req \in [Requests -> Request] /\ starting \in Stages \cup {NoStage}

TypeOK ==
  /\ ApprovalsOK /\ CopyOK /\ ShotsOK /\ SelectionOK /\ FilmOK
  /\ PlaceOK /\ LoopOK /\ RunOK /\ ApiOK

-----------------------------------------------------------------------------
(* The facts: computeTransitionFacts over the rows.                        *)

\* Row i is the latest decision at its gate (latestApprovalForGate).
IsLatest(i) ==
  \A j \in DOMAIN approvals : approvals[j].gate = approvals[i].gate => j <= i

\* Mutant of LatestDecision: any decision the gate has ever had.
EverDecided(g, decisions) ==
  \E i \in DOMAIN approvals :
    approvals[i].gate = g /\ approvals[i].decision \in decisions

LatestDecision(g, decisions) ==
  \E i \in DOMAIN approvals :
    approvals[i].gate = g /\ IsLatest(i) /\ approvals[i].decision \in decisions

RevisionDecisions == {"REJECTED", "CHANGES_REQUESTED"}

LatestFinalTarget(to) ==
  \E i \in DOMAIN approvals :
    /\ approvals[i].gate = "FINAL" /\ IsLatest(i)
    /\ approvals[i].decision \in RevisionDecisions
    /\ approvals[i].repairTarget = to

Passed(check) == \E c \in DOMAIN candidates : candidates[c][check] = "PASS"

RetryAllowed(check) == ~Passed(check) /\ attempts < MaxAttempts

OwnMasterPassed == \E v \in DOMAIN edits : edits[v].verdict = "PASS"

\* Mutant of MasterPassed: a master that was judged at all.
MasterJudged == "PASS" \in Elsewhere \/ \E v \in DOMAIN edits : edits[v].verdict # "NONE"

\* The assessments of assets are read for every campaign of the database.
MasterPassed == "PASS" \in Elsewhere \/ OwnMasterPassed

MasterFailedTowards(to) ==
  \/ to \in Elsewhere
  \/ \E v \in DOMAIN edits : edits[v].verdict = "FAIL" /\ to \in edits[v].findings

\* The facts no code of the repository can make true yet (nothing writes an
\* EXPORT RenderJob, or an assessment of a COMPOSITING, ROUGH_CUT or
\* SOUND_DESIGN asset) have no disjunct.
Fact(f) ==
  \/ f = "none"
  \/ f = "briefAccepted" /\ brief
  \/ f = "conceptDrafted" /\ concepts > 0
  \/ f \in {"scriptDrafted", "allShotsHaveRequiredAssets"} /\ scripts > 0
  \/ f = "conceptApproved" /\ LatestDecision("CONCEPT", {"APPROVED"})
  \/ f = "conceptRevisionRequested" /\ LatestDecision("CONCEPT", RevisionDecisions)
  \/ f = "allShotsHavePrompts" /\ prompted
  \/ f = "allShotsHaveCandidate" /\ candidates # <<>>
  \/ f = "allShotsPassedVisualQA" /\ Passed("visual")
  \/ f = "allShotsPassedContinuityQA" /\ Passed("continuity")
  \/ f = "visualQARetryAllowed" /\ RetryAllowed("visual")
  \/ f = "continuityQARetryAllowed" /\ RetryAllowed("continuity")
  \/ f = "allShotsSelected" /\ LatestDecision("SHOT_SELECTION", {"APPROVED"})
  \/ /\ f = "shotSelectionRegenerateRequested"
     /\ LatestDecision("SHOT_SELECTION", RevisionDecisions)
  \/ f = "compositingComplete" /\ \E v \in DOMAIN edits : edits[v].rendered
  \/ f = "roughCutAssembled" /\ \E v \in DOMAIN edits : edits[v].rendered
  \/ f = "soundDesignComplete" /\ \E v \in DOMAIN edits : edits[v].scored
  \/ f = "finalQAPassed" /\ MasterPassed
  \/ f = "finalQARepairTargetIsCompositing" /\ MasterFailedTowards("COMPOSITING")
  \/ f = "finalQARepairTargetIsRoughCut" /\ MasterFailedTowards("ROUGH_CUT")
  \/ f = "finalQAAudioFailure" /\ MasterFailedTowards("SOUND_DESIGN")
  \/ f = "finalApproved" /\ LatestDecision("FINAL", {"APPROVED"})
  \/ f = "finalApprovalRepairTargetIsCompositing" /\ LatestFinalTarget("COMPOSITING")
  \/ f = "finalApprovalRepairTargetIsRoughCut" /\ LatestFinalTarget("ROUGH_CUT")
  \/ f = "finalApprovalRepairTargetIsSoundDesign" /\ LatestFinalTarget("SOUND_DESIGN")
  \/ f = "variantsGenerated" /\ variants # <<>>
  \/ /\ f = "variantQAPassed"
     /\ variants # <<>> /\ \A n \in DOMAIN variants : variants[n] = "READY"
  \/ f = "variantQAFailed" /\ \E n \in DOMAIN variants : variants[n] = "FAILED"

\* evaluateCampaignTransition: judged by the stage the DATABASE holds.
MayMove(to) ==
  \E e \in CampaignTransitions : e.from = stage /\ e.to = to /\ Fact(e.fact)

\* The edge is there and its fact is not: MISSING_PREREQUISITE.
Missing(to) ==
  ~MayMove(to) /\ \E e \in CampaignTransitions : e.from = stage /\ e.to = to

-----------------------------------------------------------------------------
(* The workflow.                                                           *)

Working(s) == status = "RUNNING" /\ wfStage = s /\ s \in Horizon

\* The ask is over: what is still under way works for an ask of the past.
Disowned ==
  [t \in Late |-> IF late[t].pc \in {"MOVED", "DENIED"} THEN NoTry
                  ELSE [late[t] EXCEPT !.mine = FALSE]]

\* Mutant of Block: the loop goes round again where it should return.
BlockAndGoRound ==
  /\ UNCHANGED status
  /\ signals' = <<>> /\ late' = Disowned
  /\ step' = "TOP" /\ target' = NoStage /\ held' = 0 /\ left' = 0

Close ==
  /\ status' = "BLOCKED"
  /\ signals' = <<>>
  /\ step' = "TOP" /\ target' = NoStage /\ held' = 0 /\ left' = 0

\* The execution closes: what was queued for it is gone.
Block == Close /\ late' = Disowned

Goto(s) == step' = s /\ UNCHANGED <<status, signals, target, held, left, late>>

\* The advance activity is scheduled, under a key never used before.
Ask(to) == step' = "ASK" /\ target' = to /\ left' = MaxTries - 1

\* AUTO_FORWARD, along the one forward edge out of the stage.
GoForward ==
  \E to \in ForwardTargets(wfStage) : Ask(to) /\ UNCHANGED <<status, signals, held, late>>

wfQuiet == <<run, wfStage, pendingGate, revisionCounts, processed, repairs, astray>>

HookStages == {"STRATEGY_REVIEW", "PROMPTING", "SHOT_GENERATION", "VISUAL_QA",
               "CONTINUITY_QA", "COMPOSITING", "SOUND_DESIGN", "FINAL_QA",
               "VARIANT_GENERATION"}

\* A stage without work of its own: the loop comes straight to its AUTO_FORWARD.
ReadyToForward == Working(wfStage) /\ step = "TOP" /\ wfStage \notin HookStages

\* Mutant of Ungated: no stage needs a gate's decision to be left.
NothingGated(s) == s \in Stages

Ungated(s) == \A g \in Gates : s # GateStage[g]

AutoForward ==
  /\ ReadyToForward /\ Ungated(wfStage)
  /\ GoForward
  /\ UNCHANGED <<dbVars, wfQuiet, apiVars>>

\* AUTO_FORWARD out of a gated stage is refused with GATE_REQUIRED.
AwaitApproval ==
  /\ ReadyToForward
  /\ \E g \in Gates : wfStage = GateStage[g] /\ pendingGate' = g
  /\ status' = "AWAITING_APPROVAL"
  /\ UNCHANGED <<dbVars, apiVars, run, wfStage, revisionCounts, processed, signals,
                 repairs, step, target, held, left, late, astray>>

\* An agent runs only in the stage the DATABASE says the campaign is in.
AtItsStage == stage = wfStage

Latest(version, written) == IF version > written THEN version ELSE written

\* runStrategyConceptScriptActivity: writes version revisionCounts.CONCEPT + 1
\* of strategy, concept and script, one after the other, and finds the rows
\* there when the version exists.
RunStrategyConceptScript ==
  /\ Working("STRATEGY_REVIEW") /\ step = "TOP"
  /\ LET version == revisionCounts["CONCEPT"] + 1 IN
       \/ /\ "ok" \in Outcomes /\ AtItsStage
          /\ concepts' = Latest(version, concepts) /\ scripts' = Latest(version, scripts)
          /\ GoForward
       \/ /\ "fail" \in Outcomes /\ AtItsStage /\ Block
          /\ concepts' \in {concepts, Latest(version, concepts)} /\ UNCHANGED scripts
       \/ ~AtItsStage /\ Block /\ UNCHANGED <<concepts, scripts>>
  /\ UNCHANGED <<stage, brief, approvals, prompted, shots, selection, film, wfQuiet,
                 apiVars>>

\* A script older than the latest concept is stale, and refused.
RunShotPromptEngineer ==
  /\ Working("PROMPTING") /\ step = "TOP"
  /\ \/ /\ "ok" \in Outcomes /\ AtItsStage /\ scripts = concepts
        /\ prompted' = TRUE /\ GoForward
     \/ /\ "fail" \in Outcomes \/ ~AtItsStage \/ scripts # concepts
        /\ Block /\ UNCHANGED prompted
  /\ UNCHANGED <<stage, brief, approvals, concepts, scripts, shots, selection, film,
                 wfQuiet, apiVars>>

Generated == \E c \in DOMAIN candidates : candidates[c].run = run

\* The shotGenerationWorkflow child.  Its attempts are keyed by the run, so a
\* second visit in the same run finds the candidate it already has.
RunShotGeneration ==
  /\ Working("SHOT_GENERATION") /\ step = "TOP"
  /\ \/ Generated /\ prompted /\ GoForward /\ UNCHANGED <<attempts, candidates>>
     \/ /\ "ok" \in Outcomes /\ prompted /\ ~Generated
        /\ \E k \in 1 .. MaxAttempts : attempts' = attempts + k
        /\ candidates' = Append(candidates, [run |-> run, visual |-> "NONE",
                                             continuity |-> "NONE"])
        /\ GoForward
     \/ /\ "fail" \in Outcomes \/ ~prompted
        /\ \E k \in 0 .. (IF Generated THEN 0 ELSE MaxAttempts) : attempts' = attempts + k
        /\ Block /\ UNCHANGED candidates
  /\ UNCHANGED <<stage, copy, approvals, selection, film, wfQuiet, apiVars>>

\* The first verdict on a candidate at a stage is the one that is kept.
Keep(old, new) == IF old = "NONE" THEN new ELSE old

\* AUTO_RETRY towards the stage a failed assessment routes to.
RetryTowards(back) ==
  /\ back \in RevisionTargets(wfStage)
  /\ Ask(back) /\ UNCHANGED <<status, signals, held, late>>

\* A fresh verdict sends the loop on, or back to SHOT_GENERATION.
Route(fresh) ==
  IF fresh = "PASS" THEN GoForward ELSE RetryTowards("SHOT_GENERATION")

RunVisualQualityAssessments ==
  /\ Working("VISUAL_QA") /\ step = "TOP"
  /\ \/ /\ candidates # <<>> /\ AtItsStage
        /\ \E fresh \in Verdicts :
             /\ candidates' = [candidates EXCEPT
                                 ![Len(candidates)].visual = Keep(@, fresh)]
             /\ Route(fresh)
     \/ /\ "fail" \in Outcomes \/ candidates = <<>> \/ ~AtItsStage
        /\ Block /\ UNCHANGED candidates
  /\ UNCHANGED <<stage, copy, approvals, attempts, selection, film, wfQuiet, apiVars>>

\* Continuity is assessed only over candidates with a persisted visual pass.
Assessable == candidates # <<>> /\ candidates[Len(candidates)].visual = "PASS"

RunContinuityAssessment ==
  /\ Working("CONTINUITY_QA") /\ step = "TOP"
  /\ \/ /\ Assessable /\ AtItsStage
        /\ \E fresh \in Verdicts :
             /\ candidates' = [candidates EXCEPT
                                 ![Len(candidates)].continuity = Keep(@, fresh)]
             /\ Route(fresh)
     \/ /\ "fail" \in Outcomes \/ ~Assessable \/ ~AtItsStage
        /\ Block /\ UNCHANGED candidates
  /\ UNCHANGED <<stage, copy, approvals, attempts, selection, film, wfQuiet, apiVars>>

\* verifyShotSelectionActivity: the latest set is frozen.
SelectionValid == draft = "NONE" /\ sets > 0

CheckCompositingSelection ==
  /\ Working("COMPOSITING") /\ step = "TOP"
  /\ IF SelectionValid THEN Goto("CHILD") ELSE Block
  /\ UNCHANGED <<dbVars, wfQuiet, apiVars>>

NewEdit(done) == [rendered |-> done, scored |-> FALSE, verdict |-> "NONE",
                  findings |-> {}]

\* The compositingWorkflow child: the edit director writes a new version on
\* every call, and the render of it succeeds or not.
RunCompositing ==
  /\ Working("COMPOSITING") /\ step = "CHILD" /\ Len(edits) < MaxEdits
  /\ \/ /\ "ok" \in Outcomes /\ AtItsStage
        /\ edits' = Append(edits, NewEdit(TRUE)) /\ GoForward
     \/ /\ "fail" \in Outcomes /\ AtItsStage
        /\ Block /\ edits' \in {edits, Append(edits, NewEdit(FALSE))}
     \/ ~AtItsStage /\ Block /\ UNCHANGED edits
  /\ UNCHANGED <<stage, copy, approvals, shots, selection, variants, wfQuiet, apiVars>>

\* runSoundDirectorActivity: the plan's version is the latest edit's version.
RunSoundDirector ==
  /\ Working("SOUND_DESIGN") /\ step = "TOP"
  /\ \/ /\ "ok" \in Outcomes /\ AtItsStage /\ edits # <<>>
        /\ edits' = [edits EXCEPT ![Len(edits)].scored = TRUE]
        /\ GoForward
     \/ /\ "fail" \in Outcomes \/ ~AtItsStage \/ edits = <<>>
        /\ Block /\ UNCHANGED edits
  /\ UNCHANGED <<stage, copy, approvals, shots, selection, variants, wfQuiet, apiVars>>

\* The edit the latest Timeline and SoundDesignPlan belong to.
LatestScored(v) ==
  /\ v \in DOMAIN edits /\ edits[v].scored
  /\ \A w \in DOMAIN edits : edits[w].scored => w <= v

\* The most upstream of the stages the findings route to.
MostUpstream(findings) ==
  IF "COMPOSITING" \in findings THEN "COMPOSITING"
  ELSE IF "ROUGH_CUT" \in findings THEN "ROUGH_CUT" ELSE "SOUND_DESIGN"

\* runFinalQaControllerActivity: the master's first verdict is kept, while the
\* loop is routed by the fresh one; findings that route nowhere block.
RunFinalQaController ==
  /\ Working("FINAL_QA") /\ step = "TOP"
  /\ \/ \E v \in DOMAIN edits :
          /\ LatestScored(v) /\ AtItsStage
          /\ \/ /\ "PASS" \in Verdicts /\ GoForward
                /\ edits' = [edits EXCEPT ![v].verdict = Keep(@, "PASS")]
             \/ /\ "FAIL" \in Verdicts
                /\ \E findings \in FindingSets :
                     /\ edits' = IF edits[v].verdict # "NONE" THEN edits
                                 ELSE [edits EXCEPT ![v].verdict = "FAIL",
                                                    ![v].findings = findings]
                     /\ IF findings = {} THEN Block
                        ELSE RetryTowards(MostUpstream(findings))
     \/ /\ \/ "fail" \in Outcomes \/ ~AtItsStage
           \/ \A v \in DOMAIN edits : ~edits[v].scored
        /\ Block /\ UNCHANGED edits
  /\ UNCHANGED <<stage, copy, approvals, shots, selection, variants, wfQuiet, apiVars>>

\* The variantWorkflow child cuts from one of the masters: the query that picks
\* it has no order.  A render that could not be dispatched leaves no row, one
\* that could not be assessed leaves it RENDERING; either way, and after a failed
\* assessment too, the parent goes on.
RunVariants ==
  /\ Working("VARIANT_GENERATION") /\ step = "TOP"
  /\ \/ /\ "ok" \in Outcomes /\ OwnMasterPassed /\ AtItsStage
        /\ \E result \in {"READY", "FAILED"} : variants' = Append(variants, result)
        /\ GoForward
     \/ /\ "fail" \in Outcomes /\ OwnMasterPassed /\ AtItsStage
        /\ variants' \in {variants, Append(variants, "RENDERING")}
        /\ GoForward
     \/ /\ \/ "fail" \in Outcomes \/ ~AtItsStage
           \/ \E v \in DOMAIN edits : edits[v].verdict = "FAIL"
        /\ Block /\ UNCHANGED variants
  /\ UNCHANGED <<stage, copy, approvals, shots, selection, edits, wfQuiet, apiVars>>

-----------------------------------------------------------------------------
(* The human gates.                                                        *)

\* Mutants of Stale: a signal that was applied is not recognised when it is sent
\* again; one decision is all a run listens to.
StaleUnlessReplayed(id) == approvals[id].gate # pendingGate
StaleAfterFirst(id) == approvals[id].gate # pendingGate \/ processed # {}

\* The signal names a decision for another gate, or one already applied.
Stale(id) == approvals[id].gate # pendingGate \/ id \in processed

\* Mutant of BoundExceeded: one revision too many.
BoundExceededLate(id) ==
  /\ approvals[id].decision # "APPROVED"
  /\ revisionCounts[pendingGate] > MaxRevisionsPerGate

BoundExceeded(id) ==
  /\ approvals[id].decision # "APPROVED"
  /\ revisionCounts[pendingGate] >= MaxRevisionsPerGate

\* GATE_DECISION: the edge a verified decision routes to.
AskForDecision(id) ==
  /\ \E to \in DecisionTargets(wfStage, pendingGate, approvals[id].decision,
                               approvals[id].repairTarget) : Ask(to)
  /\ held' = id

\* The next queued signal, decideGateSignal, then the activity that re-reads
\* the approval it names and decideVerifyResult: dropped, escalated, held until
\* the selection is checked, or applied.
ReceiveSignal ==
  /\ status = "AWAITING_APPROVAL" /\ step = "TOP" /\ signals # <<>>
  /\ LET id == Head(signals)
         chooses == pendingGate = "SHOT_SELECTION" /\ approvals[id].decision = "APPROVED"
     IN \/ /\ Stale(id)
           /\ signals' = Tail(signals) /\ UNCHANGED <<status, step, target, held, left, late>>
        \/ ~Stale(id) /\ BoundExceeded(id) /\ Block
        \/ /\ ~Stale(id) /\ ~BoundExceeded(id)
           /\ \/ chooses /\ step' = "HELD" /\ held' = id /\ UNCHANGED <<target, left>>
              \/ ~chooses /\ AskForDecision(id)
           /\ signals' = Tail(signals) /\ UNCHANGED <<status, late>>
  /\ UNCHANGED <<dbVars, wfQuiet, apiVars>>

\* A SHOT_SELECTION approval crosses only if the latest set is frozen; the
\* loop goes on waiting when it is not.
VerifyShotSelection ==
  /\ status = "AWAITING_APPROVAL" /\ step = "HELD"
  /\ \/ SelectionValid /\ AskForDecision(held)
     \/ ~SelectionValid /\ step' = "TOP" /\ held' = 0 /\ UNCHANGED <<target, left>>
  /\ UNCHANGED <<dbVars, wfQuiet, status, signals, late, apiVars>>

-----------------------------------------------------------------------------
(* The advance activity, for whichever ask: attemptCampaignTransition is   *)
(* no transaction, so other steps come between its look and its swap.      *)

\* An answer to a GATE_DECISION, of either kind, uses up its decision.
Consumed == processed \cup ({held} \ {0})

\* VARIANT_QA: not every variant is ready, so the bounded re-cut is asked for.
Repairable ==
  wfStage = "VARIANT_QA" /\ target = "EXPORTING" /\ Missing(target) /\ repairs < MaxVariantRepairs

RepairVariants ==
  /\ Repairable
  /\ repairs' = repairs + 1
  /\ \E back \in RevisionTargets(wfStage) : Ask(back)
  /\ late' = Disowned
  /\ UNCHANGED <<status, signals, held, processed>>

Refuse == Block /\ processed' = Consumed /\ UNCHANGED repairs

\* An earlier execution of this ask has moved the campaign, or was refused: a
\* retry finds its audit row.
Answered == \E t \in Late : late[t].pc = "MOVED" /\ late[t].mine
Denied == \E t \in Late : late[t].pc = "DENIED" /\ late[t].mine

\* The execution reads the campaign, the facts, and judges the edge from the
\* stage it read to the one asked for.
Look ==
  /\ step = "ASK" /\ ~Denied
  /\ \/ MayMove(target) /\ Goto("SWAP") /\ UNCHANGED <<processed, repairs>>
     \/ ~MayMove(target) /\ IF Repairable THEN RepairVariants ELSE Refuse
  /\ UNCHANGED <<dbVars, apiVars, run, wfStage, pendingGate, revisionCounts, astray>>

\* Mutant of Voided: a compare-and-swap that does not look at the version.
NothingVoided == late

\* A move raises the row's version: whoever has looked before it will not swap.
Voided == [t \in Late |-> IF late[t].pc = "LOOKED" THEN NoTry ELSE late[t]]

Swap ==
  /\ step = "SWAP"
  /\ stage' = target /\ step' = "APPLIED" /\ late' = Voided
  /\ UNCHANGED <<copy, approvals, shots, selection, film, wfQuiet, status, signals, target,
                 held, left, apiVars>>

\* Mutant of Reported: the stage the workflow asked from.
AskedFrom == wfStage

\* The campaign is read again for the answer.
Reported == stage

\* The move's own answer, or the one a retry finds in the audit row.
Answer ==
  /\ (step = "APPLIED" /\ ~Denied) \/ (step = "ASK" /\ Answered)
  /\ wfStage' = Reported /\ status' = "RUNNING" /\ pendingGate' = NoGate
  /\ step' = "TOP" /\ target' = NoStage /\ held' = 0 /\ left' = 0 /\ late' = Disowned
  /\ processed' = Consumed
  /\ revisionCounts' = IF held = 0 \/ approvals[held].decision = "APPROVED"
                        THEN revisionCounts
                        ELSE [revisionCounts EXCEPT ![pendingGate] = @ + 1]
  /\ UNCHANGED <<dbVars, apiVars, run, signals, repairs, astray>>

\* CONCURRENT_MODIFICATION or DUPLICATE_REQUEST; a second audit row under the
\* key throws, and has the ask tried again.
Lose ==
  /\ step = "LOST" \/ (Denied /\ step \in {"ASK", "APPLIED"})
  /\ \/ Refuse
     \/ /\ step = "LOST" /\ Answered /\ left > 0
        /\ step' = "ASK" /\ left' = left - 1
        /\ UNCHANGED <<status, signals, target, held, late, processed, repairs>>
  /\ UNCHANGED <<dbVars, apiVars, run, wfStage, pendingGate, revisionCounts, astray>>

\* The execution ends without an answer, and the server starts another.
Die ==
  /\ "fail" \in Outcomes /\ step \in {"SWAP", "APPLIED", "LOST"} /\ left > 0
  /\ step' = "ASK" /\ left' = left - 1
  /\ UNCHANGED <<dbVars, wfQuiet, status, signals, target, held, late, apiVars>>

TimedOutAt == [ASK |-> "LATE", SWAP |-> "LOOKED", APPLIED |-> "MOVED"]

\* The server lets an execution go and starts another, or fails the ask and the
\* workflow with it; the execution runs on.
TimeOut(t) ==
  /\ "fail" \in Outcomes /\ wfStage \in LateFrom
  /\ step \in DOMAIN TimedOutAt /\ late[t] = NoTry
  /\ \/ /\ left > 0
        /\ step' = "ASK" /\ left' = left - 1
        /\ late' = [late EXCEPT ![t] = [pc |-> TimedOutAt[step], to |-> target,
                                        by |-> held, mine |-> TRUE]]
        /\ UNCHANGED <<status, signals, target, held>>
     \/ /\ left = 0 /\ step # "APPLIED"
        /\ Close
        /\ late' = [Disowned EXCEPT ![t] = [pc |-> TimedOutAt[step], to |-> target,
                                            by |-> held, mine |-> FALSE]]
  /\ UNCHANGED <<dbVars, wfQuiet, apiVars>>

\* It looks, whenever it gets to it, from the stage it then finds ...
LookLate(t) ==
  /\ late[t].pc = "LATE"
  /\ late' = [late EXCEPT ![t] = IF MayMove(@.to) THEN [@ EXCEPT !.pc = "LOOKED"]
                                 ELSE IF @.mine THEN [@ EXCEPT !.pc = "DENIED"] ELSE NoTry]
  /\ UNCHANGED <<dbVars, wfQuiet, status, signals, step, target, held, left, apiVars>>

\* ... and moves the campaign, if nobody has since.
SwapLate(t) ==
  /\ late[t].pc = "LOOKED"
  /\ stage' = late[t].to
  /\ step' = IF step = "SWAP" THEN "LOST" ELSE step
  /\ late' = [Voided EXCEPT ![t] = IF late[t].mine THEN [late[t] EXCEPT !.pc = "MOVED"]
                                                   ELSE NoTry]
  /\ astray' = (astray \/ ~late[t].mine)
  /\ UNCHANGED <<copy, approvals, shots, selection, film, run, wfStage, pendingGate,
                 revisionCounts, processed, repairs, status, signals, target, held, left,
                 apiVars>>

-----------------------------------------------------------------------------

\* An activity uses up its attempts and the execution fails with it.
FailExecution ==
  /\ "fail" \in Outcomes
  /\ status = "RUNNING" \/ (status = "AWAITING_APPROVAL" /\ (signals # <<>> \/ step # "TOP"))
  /\ wfStage \in Horizon
  /\ Block
  /\ UNCHANGED <<dbVars, wfQuiet, apiVars>>

Worker ==
  \/ AutoForward \/ AwaitApproval
  \/ RunStrategyConceptScript \/ RunShotPromptEngineer \/ RunShotGeneration
  \/ RunVisualQualityAssessments \/ RunContinuityAssessment
  \/ CheckCompositingSelection \/ RunCompositing \/ RunSoundDirector
  \/ RunFinalQaController \/ RunVariants
  \/ ReceiveSignal \/ VerifyShotSelection
  \/ Look \/ Swap \/ Answer \/ Lose \/ FailExecution

Server == Die \/ \E t \in Late : TimeOut(t) \/ LookLate(t) \/ SwapLate(t)

-----------------------------------------------------------------------------
(* The API.                                                                *)

SubmitBrief ==
  /\ stage = "DRAFT" /\ ~brief
  /\ brief' = TRUE
  /\ UNCHANGED <<stage, approvals, concepts, scripts, prompted, shots, selection, film,
                 wfVars, apiVars>>

\* A start request reads the stage and the brief ...
ReadForStart ==
  /\ brief /\ starting = NoStage /\ run < MaxRuns
  /\ starting' = stage
  /\ UNCHANGED <<dbVars, wfVars, req>>

\* ... and asks Temporal to start the campaign's one workflow id, which is
\* refused while an execution is open.  A new execution begins at the stage read.
StartWorkflow ==
  /\ starting # NoStage
  /\ starting' = NoStage
  /\ \/ /\ status \in {"NONE", "BLOCKED"} /\ run < MaxRuns
        /\ run' = run + 1 /\ status' = "RUNNING" /\ wfStage' = starting
        /\ pendingGate' = NoGate
        /\ revisionCounts' = [g \in Gates |-> 0] /\ processed' = {} /\ signals' = <<>>
        /\ repairs' = 0 /\ step' = "TOP" /\ target' = NoStage /\ held' = 0
        /\ UNCHANGED <<left, late, astray>>
     \/ status \in {"RUNNING", "AWAITING_APPROVAL"} /\ UNCHANGED wfVars
  /\ UNCHANGED <<dbVars, req>>

\* A reviewer sends a decision; the handler reads the campaign.
SendDecision(r) ==
  /\ req[r].pc = "IDLE"
  /\ \E g \in Gates, d \in DecisionValues, t \in RepairTargets \cup {NoStage} :
       /\ <<g, stage>> \in DecideAt
       /\ IF g = "SHOT_SELECTION" THEN d \in {"APPROVED", "CHANGES_REQUESTED"}
                                  ELSE d \in Decisions
       /\ (t # NoStage) <=> (g = "FINAL" /\ d # "APPROVED")
       /\ req' = [req EXCEPT ![r] = [pc |-> "READ", gate |-> g, decision |-> d,
                                     repairTarget |-> t, seenStage |-> stage, id |-> 0]]
  /\ UNCHANGED <<dbVars, wfVars, starting>>

\* evaluateCandidateEligibility: the latest candidate, with both verdicts passed.
Eligible(c) ==
  /\ c \in DOMAIN candidates /\ c = Len(candidates)
  /\ candidates[c].visual = "PASS" /\ candidates[c].continuity = "PASS"

Approvable == draft = "SELECTED" /\ Eligible(chosen)

\* The shot-selection handler first freezes the set it approves, or finds a
\* rejected shot in the one it sends back; it answers 409 otherwise.
ReviewSelection(r) ==
  /\ req[r].pc = "READ" /\ req[r].gate = "SHOT_SELECTION"
  /\ \/ /\ req[r].decision = "APPROVED" /\ Approvable
        /\ sets' = sets + 1 /\ draft' = "NONE"
        /\ req' = [req EXCEPT ![r].pc = "FROZEN"]
     \/ /\ req[r].decision = "CHANGES_REQUESTED" /\ draft = "REJECTED"
        /\ req' = [req EXCEPT ![r].pc = "FROZEN"] /\ UNCHANGED <<sets, draft>>
     \/ /\ IF req[r].decision = "APPROVED" THEN ~Approvable ELSE draft # "REJECTED"
        /\ req' = [req EXCEPT ![r] = NoRequest] /\ UNCHANGED <<sets, draft>>
  /\ UNCHANGED <<stage, copy, approvals, shots, chosen, film, wfVars, starting>>

\* The latest approval at the gate is taken for a resend of this decision.
IsRetryOf(r, i) ==
  /\ approvals[i].gate = req[r].gate /\ IsLatest(i)
  /\ approvals[i].stageAtDecision = req[r].seenStage
  /\ approvals[i].decidedByUserId = UserOf[r]
  /\ approvals[i].decision = req[r].decision
  /\ approvals[i].repairTarget = req[r].repairTarget

ReadyToRecord(r) == req[r].pc = IF req[r].gate = "SHOT_SELECTION" THEN "FROZEN" ELSE "READ"

CheckForRetry(r) ==
  /\ ReadyToRecord(r)
  /\ \/ \E i \in DOMAIN approvals :
          /\ IsRetryOf(r, i)
          /\ req' = [req EXCEPT ![r].pc = "SIGNAL", ![r].id = i]
     \/ /\ \A i \in DOMAIN approvals : ~IsRetryOf(r, i)
        /\ req' = [req EXCEPT ![r].pc = "RECORD"]
  /\ UNCHANGED <<dbVars, wfVars, starting>>

\* Mutant of NewId: the row before the new one.
LastId == Len(approvals)

NewId == Len(approvals) + 1

RecordApproval(r) ==
  /\ req[r].pc = "RECORD" /\ Len(approvals) < MaxApprovals
  /\ approvals' = Append(approvals,
       [gate |-> req[r].gate, decision |-> req[r].decision,
        stageAtDecision |-> req[r].seenStage, decidedByUserId |-> UserOf[r],
        repairTarget |-> req[r].repairTarget])
  /\ req' = [req EXCEPT ![r].pc = "SIGNAL", ![r].id = NewId]
  /\ UNCHANGED <<stage, copy, shots, selection, film, wfVars, starting>>

\* The signal is queued by an open execution; a closed one answers 502.
SignalWorkflow(r) ==
  /\ req[r].pc = "SIGNAL"
  /\ \/ /\ status \in {"RUNNING", "AWAITING_APPROVAL"} /\ Len(signals) < MaxSignals
        /\ signals' = Append(signals, req[r].id)
     \/ status \in {"NONE", "BLOCKED"} /\ UNCHANGED signals
  /\ req' = [req EXCEPT ![r] = NoRequest]
  /\ UNCHANGED <<dbVars, run, status, wfStage, pendingGate, revisionCounts, processed,
                 repairs, step, target, held, left, late, astray, starting>>

\* The API process dies in the middle of a request that has already written
\* something (before its first write a lost request leaves no trace).
LoseRequest(r) ==
  /\ req[r].pc \in {"FROZEN", "SIGNAL"}
  /\ req' = [req EXCEPT ![r] = NoRequest]
  /\ UNCHANGED <<dbVars, wfVars, starting>>

\* The draft of a set, and the editing of its one shot.
CreateDraft ==
  /\ prompted /\ draft = "NONE" /\ sets < MaxSets
  /\ draft' = "PENDING" /\ chosen' = 0
  /\ UNCHANGED <<stage, copy, approvals, shots, sets, film, wfVars, apiVars>>

EditDraft ==
  /\ draft # "NONE"
  /\ \/ \E c \in DOMAIN candidates :
          Eligible(c) /\ draft' = "SELECTED" /\ chosen' = c
     \/ draft' = "REJECTED" /\ chosen' = 0
  /\ UNCHANGED <<stage, copy, approvals, shots, sets, film, wfVars, apiVars>>

Reviewer(r) ==
  \/ SendDecision(r) \/ ReviewSelection(r) \/ CheckForRetry(r) \/ RecordApproval(r)
  \/ SignalWorkflow(r) \/ LoseRequest(r)

Humans == SubmitBrief \/ ReadForStart \/ StartWorkflow \/ CreateDraft \/ EditDraft
          \/ \E r \in Requests : Reviewer(r)

-----------------------------------------------------------------------------

Init ==
  /\ stage = "DRAFT" /\ brief = FALSE /\ approvals = <<>> /\ concepts = 0 /\ scripts = 0
  /\ prompted = FALSE /\ attempts = 0 /\ candidates = <<>> /\ sets = 0
  /\ draft = "NONE" /\ chosen = 0 /\ edits = <<>>
  /\ variants = <<>>
  /\ run = 0 /\ status = "NONE" /\ wfStage = "DRAFT" /\ pendingGate = NoGate
  /\ revisionCounts = [g \in Gates |-> 0] /\ processed = {} /\ signals = <<>>
  /\ repairs = 0 /\ step = "TOP" /\ target = NoStage /\ held = 0
  /\ left = 0 /\ late = [t \in Late |-> NoTry] /\ astray = FALSE
  /\ req = [r \in Requests |-> NoRequest] /\ starting = NoStage

Next == Worker \/ Server \/ Humans

Spec == Init /\ [][Next]_vars

\* Temporal retries an activity until it answers and its worker polls for ever;
\* nothing obliges a human to act.
Fairness == WF_vars(Worker)

FairSpec == Spec /\ Fairness

-----------------------------------------------------------------------------
(* What the campaign promises.                                             *)

RevisionsApplied(g) ==
  {i \in processed : approvals[i].gate = g /\ approvals[i].decision # "APPROVED"}

\* A run grants each gate as many revisions as it applied distinct non-approving
\* decisions there, and no more than the bound, however often the signals that
\* name those decisions are sent again.
RevisionsBounded ==
  \A g \in Gates :
    /\ revisionCounts[g] <= MaxRevisionsPerGate
    /\ revisionCounts[g] <= Cardinality(RevisionsApplied(g))
    /\ status # "BLOCKED" => revisionCounts[g] = Cardinality(RevisionsApplied(g))

\* Every artefact a stage builds on is there when the stage is entered: a
\* candidate that itself passed both checks before the reviewers choose, a
\* frozen set before the edit, a rendered and scored edit before its master is
\* judged, a passed master before the final gate and behind it, though the
\* query that looks for it takes any campaign's.
StagesBuildOnArtefacts ==
  /\ stage \in {"HUMAN_SHOT_SELECTION"} \cup Behind["SHOT_SELECTION"] =>
       \E c \in DOMAIN candidates :
         candidates[c].visual = "PASS" /\ candidates[c].continuity = "PASS"
  /\ edits # <<>> => sets > 0
  /\ stage \in Behind["SHOT_SELECTION"] \ {"COMPOSITING"} =>
       \E v \in DOMAIN edits : edits[v].rendered
  /\ stage \in Behind["FINAL"] \cup {"FINAL_APPROVAL"} =>
       "PASS" \in Elsewhere \/ OwnMasterPassed
  /\ \A v \in DOMAIN edits : edits[v].verdict # "NONE" => edits[v].scored

\* Between two asks the first execution is at the stage the campaign is in, as
\* long as no execution of an ask long over has moved the campaign; a later one
\* may not be (a start request whose stage read has gone stale), but it always
\* waits at the gate of the stage it believes in.
WaitsAtItsGate ==
  /\ status = "AWAITING_APPROVAL" => pendingGate \in Gates /\ wfStage = GateStage[pendingGate]
  /\ /\ status \in {"RUNNING", "AWAITING_APPROVAL"} /\ run = 1
     /\ step \notin Asking /\ ~astray
     => wfStage = stage

\* The executions that have found their edge open and the campaign where it
\* still is, and the decision each of them is there for (0: none).
Looked ==
  (IF step = "SWAP" THEN {[to |-> target, by |-> held]} ELSE {})
  \cup {[to |-> late[t].to, by |-> late[t].by] : t \in {u \in Late : late[u].pc = "LOOKED"}}

\* A campaign passes a gate only by an execution of the GATE_DECISION of a
\* verified approval row of that gate, however late, never by an automatic step.
OnlyDecisionsCross ==
  [][\A g \in Gates :
       stage \notin Behind[g] /\ stage' \in Behind[g] =>
         \E a \in Looked :
           /\ a.to = stage' /\ a.by \in DOMAIN approvals
           /\ approvals[a.by].gate = g /\ approvals[a.by].decision = "APPROVED"]_vars

\* A queued decision for the gate the workflow waits at is taken up: the
\* workflow does not go on waiting at that gate for ever.
DecisionTakenUp ==
  ( /\ status = "AWAITING_APPROVAL" /\ pendingGate # "SHOT_SELECTION"
    /\ \E k \in DOMAIN signals : /\ approvals[signals[k]].gate = pendingGate
                               /\ signals[k] \notin processed )
  ~> status # "AWAITING_APPROVAL"

\* The two loops the code does not bound: shots that keep failing a check, and a
\* master whose repair fact stays true.
Loops == {"SHOT_GENERATION", "VISUAL_QA", "CONTINUITY_QA", "COMPOSITING", "ROUGH_CUT",
          "SOUND_DESIGN", "FINAL_QA"}

\* The automatic work of a run comes to an end: at a gate, blocked, at the edge
\* of the stages explored, or in one of those loops.
RunSettles == status = "RUNNING" ~> (status # "RUNNING" \/ wfStage \notin Horizon \ Loops)

\* The gates of GateProtocol, read off the rows and the executions under way:
\* each gate's latest decision, the gates an execution has found approved and
\* is about to cross, and the gates whose far side the campaign is on.
LatestAt(g) == {i \in DOMAIN approvals : approvals[i].gate = g /\ IsLatest(i)}

TheOneIn(S) == CHOOSE x \in S : TRUE

decided ==
  [g \in Gates |-> IF LatestAt(g) = {} THEN "NONE"
                   ELSE approvals[TheOneIn(LatestAt(g))].decision]

GateExit == [CONCEPT |-> "SCRIPT_REVIEW", SHOT_SELECTION |-> "COMPOSITING",
             FINAL |-> "VARIANT_GENERATION"]

opened == {g \in Gates : stage = GateStage[g] /\ \E a \in Looked : a.to = GateExit[g]}

crossed == {g \in Gates : stage \in Behind[g]}

EarlierGates == [CONCEPT |-> {}, SHOT_SELECTION |-> {"CONCEPT"},
                 FINAL |-> {"CONCEPT", "SHOT_SELECTION"}]

Protocol == INSTANCE GateProtocol WITH Gate <- Gates, Earlier <- EarlierGates,
                                       Reopened <- {"CONCEPT"}

\* Rows, workflow, executions however late and requests together keep what the
\* gates promise: each is crossed in its turn, on an approval that was the latest
\* decision at some moment since the campaign came to the gate, and only CONCEPT,
\* out of SCRIPT_REVIEW whose way back asks for no fact, is ever left again.
KeepsGateProtocol == Protocol!Spec
=============================================================================
