---------------------- MODULE CampaignProductionProofs ----------------------
(***************************************************************************)
(* CampaignProduction for every set of reviewers and requests, every bound *)
(* and any number of timed-out executions: the inductive invariant and the *)
(* types; nothing gets behind a gate without an approval, only a verified  *)
(* decision crosses one, and the campaign as a whole implements            *)
(* GateProtocol; its revisions are counted once each and within their      *)
(* bound; and no stage is entered before the artefacts it builds on are    *)
(* there.                                                                  *)
(***************************************************************************)
EXTENDS CampaignProduction, SequenceTheorems, FiniteSetTheorems, TLAPS

-----------------------------------------------------------------------------
(* The inductive invariant.                                                *)

\* A request about to signal names a recorded approval, and so does every
\* queued signal.
RequestsFilledIn ==
  \A r \in Requests : req[r].pc # "IDLE" =>
    req[r].gate \in Gates /\ req[r].decision \in DecisionValues /\ req[r].seenStage \in Stages

IdsName ==
  /\ \A r \in Requests : req[r].pc = "SIGNAL" => req[r].id \in DOMAIN approvals
  /\ \A k \in DOMAIN signals : signals[k] \in DOMAIN approvals

\* Between the verification of a decision and the answer to its ask.
HeldIsVerified ==
  /\ held # 0 =>
       /\ step \in {"HELD"} \cup Asking /\ status = "AWAITING_APPROVAL"
       /\ held \in DOMAIN approvals /\ held \notin processed
       /\ approvals[held].gate = pendingGate
  /\ step = "HELD" => held # 0

WaitsAtGateStage ==
  status = "AWAITING_APPROVAL" => pendingGate \in Gates /\ wfStage = GateStage[pendingGate]

\* Only an open execution is anywhere but at the top of its loop, and only an ask
\* that is not over has executions of its own under way.
AsksAreOpen ==
  /\ step # "TOP" => status \in {"RUNNING", "AWAITING_APPROVAL"}
  /\ \A t \in Late : late[t].mine => step \in Asking

\* A stale stage, read by a start request or held by a run, may lag behind the
\* database but is never ahead of it by one of the last two gates.
NeverAhead ==
  \A g \in {"SHOT_SELECTION", "FINAL"} :
    /\ wfStage \in Behind[g] => stage \in Behind[g]
    /\ starting \in Behind[g] => stage \in Behind[g]

\* Every move that was ever asked for and may still be made, by the execution
\* the workflow waits for or by one let go of.
Asks ==
  (IF step \in Asking THEN {[to |-> target, by |-> held]} ELSE {})
  \cup {[to |-> late[t].to, by |-> late[t].by] : t \in {u \in Late : late[u].pc # "NONE"}}

Approves(i, g) ==
  i \in DOMAIN approvals /\ approvals[i].gate = g /\ approvals[i].decision = "APPROVED"

\* The way out of a gate is asked for by an approval of it, or, of the last two
\* gates, as a way back from behind it.
AsksAreFounded ==
  \A a \in Asks, g \in Gates :
    a.to = GateExit[g] => Approves(a.by, g) \/ (g # "CONCEPT" /\ stage \in Behind[g])

\* Whoever has looked stands before an edge of the table, and found the gate on
\* it approved.
LookedIsOpen ==
  \A a \in Looked :
    /\ \E e \in CampaignTransitions :
         /\ e.from = stage /\ e.to = a.to
         /\ e.fact # "compositingRepairTargetIsShotSelection"
    /\ \A g \in Gates : stage \notin Behind[g] /\ a.to \in Behind[g] =>
         \E i \in DOMAIN approvals : Approves(i, g)

\* Nothing is under way before the first start.
Started ==
  /\ status # "NONE" => run > 0
  /\ run = 0 => \A t \in Late : late[t].pc = "NONE"

IInv ==
  /\ TypeOK /\ RequestsFilledIn /\ IdsName /\ HeldIsVerified /\ WaitsAtGateStage
  /\ AsksAreOpen /\ NeverAhead /\ AsksAreFounded /\ LookedIsOpen /\ Started

-----------------------------------------------------------------------------
(* The transition table.                                                   *)

\* The table joins stages of the enum.
LEMMA EdgesJoinStages ==
  \A e \in CampaignTransitions : e.from \in Stages /\ e.to \in Stages
BY DEF CampaignTransitions, Edge, Stages

GateFact == [CONCEPT |-> "conceptApproved", SHOT_SELECTION |-> "allShotsSelected",
             FINAL |-> "finalApproved"]

\* The only way behind a gate is its own edge, under its own fact.
LEMMA EdgesThroughGates ==
  \A e \in CampaignTransitions, g \in Gates :
    e.from \notin Behind[g] /\ e.to \in Behind[g] =>
      e.from = GateStage[g] /\ e.fact = GateFact[g]
<1>1. ASSUME NEW e \in CampaignTransitions
      PROVE  e.from \notin Behind["CONCEPT"] /\ e.to \in Behind["CONCEPT"] =>
               e.from = "CONCEPT_REVIEW" /\ e.fact = "conceptApproved"
  BY DEF CampaignTransitions, Edge, Stages, Behind
<1>2. ASSUME NEW e \in CampaignTransitions
      PROVE  e.from \notin Behind["SHOT_SELECTION"] /\ e.to \in Behind["SHOT_SELECTION"] =>
               e.from = "HUMAN_SHOT_SELECTION" /\ e.fact = "allShotsSelected"
  BY DEF CampaignTransitions, Edge, Stages, Behind
<1>3. ASSUME NEW e \in CampaignTransitions
      PROVE  e.from \notin Behind["FINAL"] /\ e.to \in Behind["FINAL"] =>
               e.from = "FINAL_APPROVAL" /\ e.fact = "finalApproved"
  BY DEF CampaignTransitions, Edge, Stages, Behind
<1>. QED
  BY <1>1, <1>2, <1>3 DEF Gates, GateStage, GateFact

\* The only ways back over a gate.
LEMMA EdgesBackOverGates ==
  \A e \in CampaignTransitions :
    /\ e.from \in Behind["CONCEPT"] /\ e.to \notin Behind["CONCEPT"] =>
         e.from = "SCRIPT_REVIEW" /\ e.to = "CONCEPT_REVIEW"
    /\ e.from \in Behind["SHOT_SELECTION"] /\ e.to \notin Behind["SHOT_SELECTION"] =>
         e.fact = "compositingRepairTargetIsShotSelection"
    /\ e.from \in Behind["FINAL"] => e.to \in Behind["FINAL"]
BY DEF CampaignTransitions, Edge, Stages, Behind

\* The table enters what lies behind a gate at the gate's exit only.
LEMMA EdgesThroughExits ==
  \A e \in CampaignTransitions, g \in Gates :
    e.from \notin Behind[g] /\ e.to \in Behind[g] => e.to = GateExit[g]
<1>1. ASSUME NEW e \in CampaignTransitions
      PROVE  e.from \notin Behind["CONCEPT"] /\ e.to \in Behind["CONCEPT"] =>
               e.to = "SCRIPT_REVIEW"
  BY DEF CampaignTransitions, Edge, Stages, Behind
<1>2. ASSUME NEW e \in CampaignTransitions
      PROVE  e.from \notin Behind["SHOT_SELECTION"] /\ e.to \in Behind["SHOT_SELECTION"] =>
               e.to = "COMPOSITING"
  BY DEF CampaignTransitions, Edge, Stages, Behind
<1>3. ASSUME NEW e \in CampaignTransitions
      PROVE  e.from \notin Behind["FINAL"] /\ e.to \in Behind["FINAL"] =>
               e.to = "VARIANT_GENERATION"
  BY DEF CampaignTransitions, Edge, Stages, Behind
<1>. QED
  BY <1>1, <1>2, <1>3 DEF Gates, GateExit

\* The only way forward into an exit is out of its gate's stage, and the only
\* way forward into CONCEPT_REVIEW out of STRATEGY_REVIEW.
LEMMA ForwardIntoExits ==
  \A from :
    /\ \A g \in Gates : GateExit[g] \in ForwardTargets(from) => from = GateStage[g]
    /\ "CONCEPT_REVIEW" \in ForwardTargets(from) => from = "STRATEGY_REVIEW"
BY DEF ForwardTargets, CampaignTransitions, Edge, Gates, GateExit, GateStage

\* What the revision edges out of the QA stages and the gated stages lead to.
LEMMA RevisionsOutOf ==
  /\ RevisionTargets("VISUAL_QA") \subseteq {"SHOT_GENERATION"}
  /\ RevisionTargets("CONTINUITY_QA") \subseteq {"SHOT_GENERATION"}
  /\ RevisionTargets("FINAL_QA") \subseteq {"COMPOSITING", "ROUGH_CUT", "SOUND_DESIGN"}
  /\ RevisionTargets("VARIANT_QA") \subseteq {"VARIANT_GENERATION"}
  /\ RevisionTargets("CONCEPT_REVIEW") \subseteq {"STRATEGY_REVIEW"}
  /\ RevisionTargets("HUMAN_SHOT_SELECTION") \subseteq {"SHOT_GENERATION"}
  /\ RevisionTargets("FINAL_APPROVAL") \subseteq {"COMPOSITING", "ROUGH_CUT", "SOUND_DESIGN"}
BY DEF RevisionTargets, CampaignTransitions, Edge

\* The stage of a gate is behind exactly the gates before it.
LEMMA GatesInTurn ==
  ASSUME NEW g \in Gates
  PROVE  /\ {h \in Gates : GateStage[g] \in Behind[h]} = EarlierGates[g]
         /\ {h \in Gates : GateExit[g] \in Behind[h]} = EarlierGates[g] \cup {g}
<1>1. CASE g = "CONCEPT"
  BY <1>1 DEF Gates, GateStage, GateExit, Behind, EarlierGates, Stages
<1>2. CASE g = "SHOT_SELECTION"
  BY <1>2 DEF Gates, GateStage, GateExit, Behind, EarlierGates, Stages
<1>3. CASE g = "FINAL"
  BY <1>3 DEF Gates, GateStage, GateExit, Behind, EarlierGates, Stages
<1>. QED
  BY <1>1, <1>2, <1>3 DEF Gates

\* What a look finds open, of the edge and of the gate on it.
LEMMA LookEffects ==
  ASSUME NEW to, MayMove(to)
  PROVE  /\ \E e \in CampaignTransitions :
              /\ e.from = stage /\ e.to = to
              /\ e.fact # "compositingRepairTargetIsShotSelection"
         /\ \A g \in Gates : stage \notin Behind[g] /\ to \in Behind[g] =>
              LatestDecision(g, {"APPROVED"})
<1>1. PICK e \in CampaignTransitions : e.from = stage /\ e.to = to /\ Fact(e.fact)
  BY DEF MayMove
<1>2. e.fact # "compositingRepairTargetIsShotSelection"
  BY <1>1 DEF Fact
<1>3. \A g \in Gates : Fact(GateFact[g]) => LatestDecision(g, {"APPROVED"})
  BY DEF Gates, GateFact, Fact
<1>. QED
  BY <1>1, <1>2, <1>3, EdgesThroughGates

\* Where a move that was looked for may lead.
LEMMA MoveEffects ==
  ASSUME LookedIsOpen, NEW a \in Looked
  PROVE  /\ a.to \in Stages
         /\ \A g \in Gates : stage \notin Behind[g] /\ a.to \in Behind[g] =>
              /\ stage = GateStage[g] /\ a.to = GateExit[g]
              /\ \E i \in DOMAIN approvals : Approves(i, g)
         /\ stage \in Behind["CONCEPT"] /\ a.to \notin Behind["CONCEPT"] =>
              stage = "SCRIPT_REVIEW" /\ a.to = "CONCEPT_REVIEW"
         /\ \A g \in {"SHOT_SELECTION", "FINAL"} : stage \in Behind[g] => a.to \in Behind[g]
<1>1. PICK e \in CampaignTransitions :
        /\ e.from = stage /\ e.to = a.to
        /\ e.fact # "compositingRepairTargetIsShotSelection"
  BY DEF LookedIsOpen
<1>. QED
  BY <1>1, EdgesJoinStages, EdgesThroughGates, EdgesThroughExits, EdgesBackOverGates
  DEF LookedIsOpen

-----------------------------------------------------------------------------
(* Types.                                                                  *)

\* Every stage the workflow may try next is a stage.
LEMMA TargetsAreStages ==
  \A from : ForwardTargets(from) \subseteq Stages /\ RevisionTargets(from) \subseteq Stages
BY EdgesJoinStages DEF ForwardTargets, RevisionTargets

\* The bounds are numbers.
LEMMA Bounds ==
  /\ MaxTries - 1 \in Nat
  /\ MaxRevisionsPerGate \in Nat /\ MaxVariantRepairs \in Nat /\ MaxAttempts \in Nat
  /\ MaxApprovals \in Nat /\ MaxSignals \in Nat /\ MaxRuns \in Nat /\ MaxSets \in Nat
  /\ MaxEdits \in Nat
BY ConstantsAssumption

\* An execution that is let go of, and one that never was.
LEMMA TriesAreTyped ==
  /\ NoTry \in Try
  /\ LoopOK => Disowned \in [Late -> Try] /\ Voided \in [Late -> Try]
<1>1. NoTry \in Try
  BY Bounds DEF NoTry, Try
<1>2. ASSUME LoopOK, NEW t \in Late PROVE late[t] \in Try /\ [late[t] EXCEPT !.mine = FALSE] \in Try
  BY <1>2 DEF LoopOK, Try
<1>. QED
  BY <1>1, <1>2 DEF Disowned, Voided

\* The initial state is well typed.
LEMMA TypeInit == Init => TypeOK
<1> SUFFICES ASSUME Init PROVE TypeOK
  OBVIOUS
<1>1. ApprovalsOK /\ FilmOK /\ ShotsOK
  BY Bounds DEF Init, ApprovalsOK, FilmOK, ShotsOK
<1>2. CopyOK /\ SelectionOK
  BY DEF Init, CopyOK, SelectionOK
<1>3. PlaceOK /\ RunOK
  <2>1. astray \in BOOLEAN
    BY DEF Init
  <2>. QED
    BY <2>1, Bounds DEF Init, PlaceOK, RunOK, Stages
<1>4. LoopOK
  BY Bounds, TriesAreTyped DEF Init, LoopOK
<1>5. ApiOK
  BY Bounds DEF Init, ApiOK, NoRequest, Request
<1>. QED
  BY <1>1, <1>2, <1>3, <1>4, <1>5 DEF TypeOK

\* A group of variables that no action writes to keeps its type.
LEMMA Kept ==
  /\ ApprovalsOK /\ UNCHANGED approvals => ApprovalsOK'
  /\ CopyOK /\ UNCHANGED copy => CopyOK'
  /\ ShotsOK /\ UNCHANGED shots => ShotsOK'
  /\ SelectionOK /\ UNCHANGED selection => SelectionOK'
  /\ FilmOK /\ UNCHANGED film => FilmOK'
  /\ PlaceOK /\ UNCHANGED <<stage, wfStage, pendingGate>> => PlaceOK'
  /\ LoopOK /\ UNCHANGED <<status, signals, step, target, held, left, late>> => LoopOK'
  /\ RunOK /\ UNCHANGED <<run, revisionCounts, processed, repairs, astray>> => RunOK'
  /\ ApiOK /\ UNCHANGED apiVars => ApiOK'
BY DEF ApprovalsOK, CopyOK, ShotsOK, SelectionOK, FilmOK, PlaceOK, LoopOK, RunOK, ApiOK,
       copy, shots, selection, film, apiVars

\* A blocked workflow stays well typed; as does one that changes its step,
LEMMA BlockKeepsTypes == LoopOK /\ Block => LoopOK'
<1>1. <<>> \in Seq(Ids) /\ 0 \in 0 .. MaxApprovals
  BY Bounds
<1>. QED
  BY <1>1, TriesAreTyped DEF LoopOK, Block, Close

\* goes on within its loop,
LEMMA GotoKeepsTypes ==
  ASSUME NEW s \in {"TOP", "CHILD"} \cup Asking, LoopOK, Goto(s)
  PROVE  LoopOK'
BY DEF LoopOK, Goto

\* or asks for a transition.
LEMMA AskKeepsTypes ==
  ASSUME NEW to \in Stages, LoopOK, Ask(to), UNCHANGED <<status, signals, held, late>>
  PROVE  LoopOK'
BY Bounds DEF LoopOK, Ask, Asking

LEMMA GoForwardKeepsTypes == LoopOK /\ GoForward => LoopOK'
BY AskKeepsTypes, TargetsAreStages DEF GoForward

LEMMA RetryKeepsTypes ==
  ASSUME NEW back, LoopOK, RetryTowards(back)
  PROVE  LoopOK'
BY AskKeepsTypes, TargetsAreStages DEF RetryTowards

\* What every action of the worker leaves alone, by name.
LEMMA QuietEffects ==
  /\ UNCHANGED wfQuiet =>
       UNCHANGED <<run, revisionCounts, processed, repairs, astray>> /\ UNCHANGED <<wfStage, pendingGate>>
  /\ UNCHANGED dbVars =>
       UNCHANGED <<stage, approvals, copy, shots, selection, film>>
  /\ UNCHANGED wfVars =>
       /\ UNCHANGED <<run, revisionCounts, processed, repairs, astray>>
       /\ UNCHANGED <<status, signals, step, target, held, left, late>>
       /\ UNCHANGED <<wfStage, pendingGate>>
BY DEF wfQuiet, dbVars, wfVars

\* A candidate keeps its first verdict, and its type.
LEMMA VerdictKept ==
  ASSUME NEW c \in DOMAIN candidates, ShotsOK, NEW fresh \in Verdicts
  PROVE  /\ [candidates EXCEPT ![c].visual = Keep(@, fresh)] \in Seq(Candidate)
         /\ [candidates EXCEPT ![c].continuity = Keep(@, fresh)] \in Seq(Candidate)
<1>1. candidates \in Seq(Candidate) /\ c \in 1 .. Len(candidates) /\ candidates[c] \in Candidate
  BY DEF ShotsOK
<1>2. fresh \in Verdict
  BY ConstantsAssumption DEF Verdict
<1>3. /\ [candidates[c] EXCEPT !.visual = Keep(@, fresh)] \in Candidate
      /\ [candidates[c] EXCEPT !.continuity = Keep(@, fresh)] \in Candidate
  BY <1>1, <1>2 DEF Candidate, Keep
<1>. QED
  BY <1>1, <1>3, ExceptSeq

\* Every step keeps the types.
LEMMA TypeStep == IInv /\ [Next]_vars => TypeOK'
<1> SUFFICES ASSUME IInv, [Next]_vars PROVE TypeOK'
  OBVIOUS
<1> USE Kept, QuietEffects DEF TypeOK, IInv
<1>1. CASE AutoForward
  BY <1>1, GoForwardKeepsTypes DEF AutoForward
<1>2. CASE AwaitApproval
  <2>1. PlaceOK' /\ LoopOK'
    BY <1>2 DEF AwaitApproval, PlaceOK, LoopOK, dbVars
  <2>. QED
    BY <1>2, <2>1 DEF AwaitApproval
<1>3. CASE Look
  <2>0. MaxVariantRepairs \in Nat /\ repairs \in 0 .. MaxVariantRepairs /\ held \in 0 .. MaxApprovals
    BY Bounds DEF RunOK, LoopOK
  <2>1. LoopOK'
    <3>1. CASE Goto("SWAP") \/ Block
      BY <3>1, GotoKeepsTypes, BlockKeepsTypes DEF Asking
    <3>2. CASE RepairVariants
      BY <3>2, Bounds, TriesAreTyped, TargetsAreStages DEF RepairVariants, LoopOK, Ask, Asking
    <3>. QED
      BY <1>3, <3>1, <3>2 DEF Look, Refuse
  <2>2. RunOK'
    <3>1. UNCHANGED <<run, revisionCounts, astray>> /\ processed' \in {processed, Consumed}
          /\ (UNCHANGED repairs \/ (repairs < MaxVariantRepairs /\ repairs' = repairs + 1))
      BY <1>3 DEF Look, Refuse, RepairVariants, Repairable
    <3>2. Consumed \subseteq Ids
      BY <2>0 DEF Consumed, RunOK, Ids
    <3>. QED
      BY <2>0, <3>1, <3>2 DEF RunOK
  <2>. QED
    BY <1>3, <2>1, <2>2 DEF Look
<1>4. CASE RunStrategyConceptScript
  <2>1. CopyOK'
    BY <1>4 DEF RunStrategyConceptScript, CopyOK, RunOK, Latest, Gates
  <2>2. LoopOK'
    BY <1>4, BlockKeepsTypes, GoForwardKeepsTypes DEF RunStrategyConceptScript
  <2>. QED
    BY <1>4, <2>1, <2>2 DEF RunStrategyConceptScript
<1>5. CASE RunShotPromptEngineer
  <2>1. CopyOK' /\ LoopOK'
    BY <1>5, BlockKeepsTypes, GoForwardKeepsTypes DEF RunShotPromptEngineer, CopyOK
  <2>. QED
    BY <1>5, <2>1 DEF RunShotPromptEngineer
<1>6. CASE RunShotGeneration
  <2>1. LoopOK'
    BY <1>6, BlockKeepsTypes, GoForwardKeepsTypes DEF RunShotGeneration
  <2>2. run \in 1 .. MaxRuns
    BY <1>6 DEF RunShotGeneration, Working, RunOK, Started
  <2>3. [run |-> run, visual |-> "NONE", continuity |-> "NONE"] \in Candidate
    BY <2>2 DEF Candidate, Verdict
  <2>4. candidates' \in Seq(Candidate)
    BY <1>6, <2>3 DEF RunShotGeneration, ShotsOK
  <2>5. attempts' \in Nat
    BY <1>6, Bounds DEF RunShotGeneration, ShotsOK
  <2>. QED
    BY <1>6, <2>1, <2>4, <2>5 DEF RunShotGeneration, ShotsOK
<1>7. CASE RunVisualQualityAssessments
  <2>1. LoopOK'
    BY <1>7, BlockKeepsTypes, GoForwardKeepsTypes, RetryKeepsTypes
    DEF RunVisualQualityAssessments, Route
  <2>2. ShotsOK'
    <3>1. candidates # <<>> => Len(candidates) \in DOMAIN candidates
      BY DEF ShotsOK
    <3>. QED
      BY <1>7, <3>1, VerdictKept DEF RunVisualQualityAssessments, ShotsOK
  <2>. QED
    BY <1>7, <2>1, <2>2 DEF RunVisualQualityAssessments
<1>8. CASE RunContinuityAssessment
  <2>1. LoopOK'
    BY <1>8, BlockKeepsTypes, GoForwardKeepsTypes, RetryKeepsTypes
    DEF RunContinuityAssessment, Route
  <2>2. ShotsOK'
    <3>1. Assessable => Len(candidates) \in DOMAIN candidates
      BY DEF ShotsOK, Assessable
    <3>. QED
      BY <1>8, <3>1, VerdictKept DEF RunContinuityAssessment, ShotsOK
  <2>. QED
    BY <1>8, <2>1, <2>2 DEF RunContinuityAssessment
<1>9. CASE CheckCompositingSelection
  BY <1>9, BlockKeepsTypes, GotoKeepsTypes DEF CheckCompositingSelection
<1>10. CASE RunCompositing
  <2>1. LoopOK'
    BY <1>10, BlockKeepsTypes, GoForwardKeepsTypes DEF RunCompositing
  <2>2. NewEdit(TRUE) \in RoughEdit /\ NewEdit(FALSE) \in RoughEdit
    BY DEF NewEdit, RoughEdit, Verdict
  <2>3. /\ Append(edits, NewEdit(TRUE)) \in Seq(RoughEdit)
        /\ Append(edits, NewEdit(FALSE)) \in Seq(RoughEdit)
    BY <2>2, AppendProperties DEF FilmOK
  <2>4. FilmOK'
    BY <1>10, <2>3 DEF RunCompositing, FilmOK
  <2>. QED
    BY <1>10, <2>1, <2>4 DEF RunCompositing
<1>11. CASE RunSoundDirector
  <2>1. LoopOK'
    BY <1>11, BlockKeepsTypes, GoForwardKeepsTypes DEF RunSoundDirector
  <2>2. edits # <<>> => Len(edits) \in DOMAIN edits
    BY DEF FilmOK
  <2>3. ASSUME edits # <<>>
        PROVE  [edits EXCEPT ![Len(edits)].scored = TRUE] \in Seq(RoughEdit)
    <3>0. edits[Len(edits)] \in RoughEdit
      BY <2>2, <2>3 DEF FilmOK
    <3>1. [edits[Len(edits)] EXCEPT !.scored = TRUE] \in RoughEdit
      BY <3>0 DEF RoughEdit
    <3>. QED
      BY <2>2, <2>3, <3>1, ExceptSeq DEF FilmOK
  <2>4. FilmOK'
    BY <1>11, <2>3 DEF RunSoundDirector, FilmOK
  <2>. QED
    BY <1>11, <2>1, <2>4 DEF RunSoundDirector
<1>12. CASE RunFinalQaController
  <2>1. LoopOK'
    BY <1>12, BlockKeepsTypes, GoForwardKeepsTypes, RetryKeepsTypes
    DEF RunFinalQaController
  <2>2. ASSUME NEW v \in DOMAIN edits
        PROVE  [edits EXCEPT ![v].verdict = Keep(@, "PASS")] \in Seq(RoughEdit)
    <3>1. edits[v] \in RoughEdit /\ v \in 1 .. Len(edits) /\ edits \in Seq(RoughEdit)
      BY DEF FilmOK
    <3>2. [edits[v] EXCEPT !.verdict = Keep(@, "PASS")] \in RoughEdit
      BY <3>1 DEF RoughEdit, Keep, Verdict
    <3>. QED
      BY <3>1, <3>2, ExceptSeq
  <2>3. ASSUME NEW v \in DOMAIN edits, NEW findings \in FindingSets
        PROVE  [edits EXCEPT ![v].verdict = "FAIL", ![v].findings = findings]
                 \in Seq(RoughEdit)
    <3>1. edits[v] \in RoughEdit /\ v \in 1 .. Len(edits) /\ edits \in Seq(RoughEdit)
      BY DEF FilmOK
    <3>2. findings \in SUBSET RepairTargets
      BY ConstantsAssumption
    <3>3. [edits[v] EXCEPT !.verdict = "FAIL", !.findings = findings] \in RoughEdit
      BY <3>1, <3>2 DEF RoughEdit, Verdict
    <3>4. [edits EXCEPT ![v].verdict = "FAIL", ![v].findings = findings]
            = [edits EXCEPT ![v] = [edits[v] EXCEPT !.verdict = "FAIL", !.findings = findings]]
      BY <3>1
    <3>. QED
      BY <3>1, <3>3, <3>4, ExceptSeq
  <2>4. FilmOK'
    <3>1. CASE UNCHANGED edits
      BY <1>12, <3>1 DEF RunFinalQaController, FilmOK
    <3>2. CASE ~UNCHANGED edits
      <4>1. PICK v \in DOMAIN edits :
              \/ edits' = [edits EXCEPT ![v].verdict = Keep(@, "PASS")]
              \/ \E findings \in FindingSets :
                   edits' = [edits EXCEPT ![v].verdict = "FAIL", ![v].findings = findings]
        BY <1>12, <3>2 DEF RunFinalQaController, LatestScored
      <4>2. edits' \in Seq(RoughEdit)
        BY <2>2, <2>3, <4>1
      <4>. QED
        BY <1>12, <4>2 DEF RunFinalQaController, FilmOK, film
    <3>. QED
      BY <3>1, <3>2
  <2>. QED
    BY <1>12, <2>1, <2>4 DEF RunFinalQaController
<1>13. CASE RunVariants
  <2>1. LoopOK'
    BY <1>13, BlockKeepsTypes, GoForwardKeepsTypes DEF RunVariants
  <2>2. edits' = edits
    BY <1>13 DEF RunVariants
  <2>3. /\ variants \in Seq(VariantStatus)
        /\ \/ variants' = variants
           \/ \E result \in VariantStatus : variants' = Append(variants, result)
    BY <1>13 DEF RunVariants, FilmOK, VariantStatus
  <2>4. FilmOK'
    BY <2>2, <2>3 DEF FilmOK
  <2>. QED
    BY <1>13, <2>1, <2>4 DEF RunVariants
<1>14. CASE Swap
  <2>1. stage' \in Stages
    <3>1. [to |-> target, by |-> held] \in Looked
      BY <1>14 DEF Swap, Looked
    <3>. QED
      BY <1>14, <3>1, MoveEffects DEF Swap
  <2>2. PlaceOK' /\ LoopOK'
    BY <1>14, <2>1, TriesAreTyped DEF Swap, PlaceOK, LoopOK, Asking, wfQuiet
  <2>. QED
    BY <1>14, <2>2 DEF Swap
<1>15. CASE ReceiveSignal
  <2>1. Head(signals) \in Ids /\ Tail(signals) \in Seq(Ids)
    BY <1>15 DEF ReceiveSignal, LoopOK
  <2>2. LoopOK'
    <3>1. CASE Block
      BY <3>1, BlockKeepsTypes
    <3>2. CASE ~Block
      <4>1. /\ signals' \in Seq(Ids) /\ status' = status /\ late' = late
            /\ held' \in {held, Head(signals)}
            /\ \/ UNCHANGED <<step, target, left>>
               \/ step' = "HELD" /\ UNCHANGED <<target, left>>
               \/ \E to \in Stages : Ask(to)
        BY <1>15, <2>1, <3>2, TargetsAreStages
        DEF ReceiveSignal, AskForDecision, DecisionTargets
      <4>. QED
        BY <2>1, <4>1, Bounds DEF LoopOK, Ids, Ask, Asking
    <3>. QED
      BY <3>1, <3>2
  <2>. QED
    BY <1>15, <2>2 DEF ReceiveSignal
<1>16. CASE VerifyShotSelection
  <2>1. LoopOK'
    <3>1. CASE AskForDecision(held)
      <4>1. PICK to \in Stages : Ask(to) /\ UNCHANGED <<status, signals, held, late>>
        BY <1>16, <3>1, TargetsAreStages
        DEF VerifyShotSelection, AskForDecision, DecisionTargets
      <4>. QED
        BY <4>1, AskKeepsTypes
    <3>2. CASE ~AskForDecision(held)
      BY <1>16, <3>2, Bounds DEF VerifyShotSelection, LoopOK
    <3>. QED
      BY <3>1, <3>2
  <2>. QED
    BY <1>16, <2>1 DEF VerifyShotSelection
<1>17. CASE Answer
  <2>0. held \in 0 .. MaxApprovals /\ 0 \in 0 .. MaxApprovals /\ revisionCounts \in [Gates -> Nat]
    BY Bounds DEF LoopOK, RunOK
  <2>1. PlaceOK'
    BY <1>17 DEF Answer, Reported, PlaceOK, dbVars
  <2>2. LoopOK'
    BY <1>17, <2>0, TriesAreTyped DEF Answer, LoopOK
  <2>3. RunOK'
    <3>1. processed' \subseteq Ids
      BY <1>17, <2>0 DEF Answer, Consumed, RunOK, Ids
    <3>2. \/ UNCHANGED revisionCounts
          \/ revisionCounts' = [revisionCounts EXCEPT ![pendingGate] = @ + 1]
      BY <1>17 DEF Answer
    <3>3. revisionCounts' \in [Gates -> Nat]
      BY <2>0, <3>2
    <3>. QED
      BY <1>17, <3>1, <3>3 DEF Answer, RunOK
  <2>. QED
    BY <1>17, <2>1, <2>2, <2>3 DEF Answer
<1>31. CASE Lose
  <2>0. held \in 0 .. MaxApprovals
    BY DEF LoopOK
  <2>1. LoopOK'
    <3>1. CASE Block
      BY <3>1, BlockKeepsTypes
    <3>2. CASE ~Block
      BY <1>31, <3>2 DEF Lose, Refuse, LoopOK, Asking
    <3>. QED
      BY <3>1, <3>2
  <2>2. processed' \subseteq Ids
    <3>1. processed' \in {processed, Consumed}
      BY <1>31 DEF Lose, Refuse
    <3>2. Consumed \subseteq Ids
      BY <2>0 DEF Consumed, RunOK, Ids
    <3>. QED
      BY <3>1, <3>2 DEF RunOK
  <2>. QED
    BY <1>31, <2>1, <2>2 DEF Lose, Refuse, RunOK
<1>32. CASE Die
  <2>1. LoopOK'
    BY <1>32 DEF Die, LoopOK, Asking
  <2>. QED
    BY <1>32, <2>1 DEF Die
<1>33. ASSUME NEW t \in Late, TimeOut(t) PROVE TypeOK'
  <2>1. /\ TimedOutAt[step] \in {"LATE", "LOOKED", "MOVED"}
        /\ target \in Stages \cup {NoStage} /\ held \in 0 .. MaxApprovals
    BY <1>33 DEF TimeOut, TimedOutAt, LoopOK
  <2>2. \A own \in BOOLEAN :
          [pc |-> TimedOutAt[step], to |-> target, by |-> held, mine |-> own] \in Try
    BY <2>1 DEF Try
  <2>3. late' \in [Late -> Try]
    BY <1>33, <2>2, TriesAreTyped DEF TimeOut, LoopOK
  <2>4. <<>> \in Seq(Ids) /\ 0 \in 0 .. MaxApprovals
    BY Bounds
  <2>5. LoopOK'
    <3>1. CASE left > 0
      BY <1>33, <2>3, <3>1 DEF TimeOut, LoopOK, Asking
    <3>2. CASE left = 0
      <4>1. Close
        BY <1>33, <3>2 DEF TimeOut
      <4>. QED
        BY <2>3, <2>4, <4>1 DEF LoopOK, Close
    <3>. QED
      BY <3>1, <3>2 DEF LoopOK
  <2>. QED
    BY <1>33, <2>5 DEF TimeOut
<1>34. ASSUME NEW t \in Late, LookLate(t) PROVE TypeOK'
  <2>1. late[t] \in Try
    BY DEF LoopOK
  <2>2. [late[t] EXCEPT !.pc = "LOOKED"] \in Try /\ [late[t] EXCEPT !.pc = "DENIED"] \in Try
    BY <2>1 DEF Try
  <2>3. late' \in [Late -> Try]
    BY <1>34, <2>1, <2>2, TriesAreTyped DEF LookLate, LoopOK
  <2>4. LoopOK'
    BY <1>34, <2>3 DEF LookLate, LoopOK
  <2>. QED
    BY <1>34, <2>4 DEF LookLate
<1>35. ASSUME NEW t \in Late, SwapLate(t) PROVE TypeOK'
  <2>1. stage' \in Stages
    <3>1. [to |-> late[t].to, by |-> late[t].by] \in Looked
      BY <1>35 DEF SwapLate, Looked
    <3>. QED
      BY <1>35, <3>1, MoveEffects DEF SwapLate
  <2>2. late[t] \in Try /\ [late[t] EXCEPT !.pc = "MOVED"] \in Try
    BY DEF LoopOK, Try
  <2>3. late' \in [Late -> Try]
    BY <1>35, <2>2, TriesAreTyped DEF SwapLate
  <2>4. PlaceOK' /\ LoopOK'
    BY <1>35, <2>1, <2>3 DEF SwapLate, PlaceOK, LoopOK, Asking
  <2>5. RunOK'
    BY <1>35, <2>2 DEF SwapLate, RunOK, Try
  <2>. QED
    BY <1>35, <2>4, <2>5 DEF SwapLate
<1>18. CASE FailExecution
  BY <1>18, BlockKeepsTypes DEF FailExecution
<1>19. CASE SubmitBrief
  <2>1. CopyOK'
    BY <1>19 DEF SubmitBrief, CopyOK
  <2>. QED
    BY <1>19, <2>1 DEF SubmitBrief
<1>20. CASE ReadForStart
  <2>1. ApiOK'
    BY <1>20 DEF ReadForStart, ApiOK, PlaceOK
  <2>. QED
    BY <1>20, <2>1 DEF ReadForStart
<1>21. CASE StartWorkflow
  <2>1. ApiOK'
    BY <1>21 DEF StartWorkflow, ApiOK
  <2>2. CASE UNCHANGED wfVars
    BY <1>21, <2>1, <2>2 DEF StartWorkflow
  <2>3. CASE ~UNCHANGED wfVars
    <3>1. <<>> \in Seq(Ids) /\ 0 \in 0 .. MaxApprovals
      BY Bounds
    <3>2. PlaceOK'
      BY <1>21, <2>3 DEF StartWorkflow, PlaceOK, ApiOK, dbVars
    <3>3. LoopOK'
      BY <1>21, <2>3, <3>1 DEF StartWorkflow, LoopOK, Asking
    <3>4. RunOK'
      BY <1>21, <2>3, Bounds DEF StartWorkflow, RunOK
    <3>. QED
      BY <1>21, <2>1, <3>2, <3>3, <3>4 DEF StartWorkflow
  <2>. QED
    BY <2>2, <2>3
<1>22. CASE CreateDraft
  <2>1. SelectionOK'
    BY <1>22 DEF CreateDraft, SelectionOK
  <2>. QED
    BY <1>22, <2>1 DEF CreateDraft
<1>23. CASE EditDraft
  <2>1. SelectionOK'
    BY <1>23 DEF EditDraft, SelectionOK, Eligible, ShotsOK
  <2>. QED
    BY <1>23, <2>1 DEF EditDraft
<1>24. ASSUME NEW r \in Requests, SendDecision(r) PROVE TypeOK'
  <2>1. ApiOK'
    BY <1>24, Bounds DEF SendDecision, ApiOK, Request, PlaceOK
  <2>. QED
    BY <1>24, <2>1 DEF SendDecision
<1>25. ASSUME NEW r \in Requests, ReviewSelection(r) PROVE TypeOK'
  <2>1. ApiOK' /\ SelectionOK'
    BY <1>25, Bounds DEF ReviewSelection, ApiOK, Request, NoRequest, SelectionOK
  <2>. QED
    BY <1>25, <2>1 DEF ReviewSelection
<1>26. ASSUME NEW r \in Requests, CheckForRetry(r) PROVE TypeOK'
  <2>1. \A i \in DOMAIN approvals : i \in Ids
    BY Bounds DEF ApprovalsOK, Ids
  <2>2. ApiOK'
    BY <1>26, <2>1 DEF CheckForRetry, ApiOK, Request, Ids
  <2>. QED
    BY <1>26, <2>2 DEF CheckForRetry
<1>27. ASSUME NEW r \in Requests, RecordApproval(r) PROVE TypeOK'
  <2>1. Len(approvals) + 1 \in Ids
    BY <1>27, Bounds DEF RecordApproval, ApprovalsOK, Ids
  <2>2. ApiOK'
    <3>1. req[r] \in Request /\ req \in [Requests -> Request]
      BY DEF ApiOK
    <3>2. [req[r] EXCEPT !.pc = "SIGNAL", !.id = Len(approvals) + 1] \in Request
      <4>1. Len(approvals) + 1 \in 0 .. MaxApprovals
        BY <2>1, Bounds DEF Ids
      <4>. QED
        BY <3>1, <4>1 DEF Request
    <3>3. req' = [req EXCEPT ![r] = [req[r] EXCEPT !.pc = "SIGNAL", !.id = Len(approvals) + 1]]
      BY <1>27, <3>1 DEF RecordApproval, NewId
    <3>. QED
      BY <1>27, <3>1, <3>2, <3>3 DEF RecordApproval, ApiOK
  <2>3. ApprovalsOK'
    <3>1. req[r].gate \in Gates /\ req[r].decision \in DecisionValues
          /\ req[r].seenStage \in Stages
      BY <1>27 DEF RecordApproval, RequestsFilledIn
    <3>2. [gate |-> req[r].gate, decision |-> req[r].decision,
           stageAtDecision |-> req[r].seenStage, decidedByUserId |-> UserOf[r],
           repairTarget |-> req[r].repairTarget] \in Approval
      BY <3>1, ConstantsAssumption DEF Approval, ApiOK, Request
    <3>. QED
      BY <1>27, <2>1, <3>2 DEF RecordApproval, ApprovalsOK, Ids
  <2>. QED
    BY <1>27, <2>2, <2>3 DEF RecordApproval
<1>28. ASSUME NEW r \in Requests, SignalWorkflow(r) PROVE TypeOK'
  <2>1. req[r].id \in Ids
    BY <1>28, Bounds DEF SignalWorkflow, IdsName, ApprovalsOK, Ids
  <2>2. LoopOK'
    <3>1. signals' \in Seq(Ids)
      BY <1>28, <2>1 DEF SignalWorkflow, LoopOK
    <3>. QED
      BY <1>28, <3>1 DEF SignalWorkflow, LoopOK
  <2>3. ApiOK'
    BY <1>28, Bounds DEF SignalWorkflow, ApiOK, Request, NoRequest
  <2>. QED
    BY <1>28, <2>2, <2>3 DEF SignalWorkflow
<1>29. ASSUME NEW r \in Requests, LoseRequest(r) PROVE TypeOK'
  <2>1. ApiOK'
    BY <1>29, Bounds DEF LoseRequest, ApiOK, Request, NoRequest
  <2>. QED
    BY <1>29, <2>1 DEF LoseRequest
<1>30. CASE UNCHANGED vars
  BY <1>30 DEF vars
<1>. QED
  BY <1>1, <1>2, <1>3, <1>4, <1>5, <1>6, <1>7, <1>8, <1>9, <1>10, <1>11, <1>12, <1>13,
     <1>14, <1>15, <1>16, <1>17, <1>18, <1>19, <1>20, <1>21, <1>22, <1>23, <1>24, <1>25,
     <1>26, <1>27, <1>28, <1>29, <1>30, <1>31, <1>32, <1>33, <1>34, <1>35
  DEF Next, Worker, Server, Humans, Reviewer

-----------------------------------------------------------------------------
(* The steps, by what they do to the loop of the workflow.                 *)

\* The stages' own work, of which some have none.
Hook ==
  \/ AutoForward
  \/ RunStrategyConceptScript \/ RunShotPromptEngineer \/ RunShotGeneration
  \/ RunVisualQualityAssessments \/ RunContinuityAssessment
  \/ CheckCompositingSelection \/ RunCompositing \/ RunSoundDirector
  \/ RunFinalQaController \/ RunVariants

\* No stage's work is done at a gate, and the only ways back that it asks for
\* lead out of QA stages.
LEMMA WorkAsks ==
  ASSUME Ungated(wfStage), NEW back
  PROVE  /\ GoForward =>
              \E to \in Stages :
                /\ Ask(to) /\ UNCHANGED <<status, signals, held, late>>
                /\ \A g \in Gates : to # GateExit[g]
         /\ RetryTowards(back) /\ wfStage \in {"VISUAL_QA", "CONTINUITY_QA", "FINAL_QA"} =>
              \E to \in Stages :
                /\ Ask(to) /\ UNCHANGED <<status, signals, held, late>>
                /\ \A g \in Gates : to = GateExit[g] => g # "CONCEPT" /\ wfStage \in Behind[g]
<1>1. ASSUME GoForward
      PROVE  \E to \in Stages :
               /\ Ask(to) /\ UNCHANGED <<status, signals, held, late>>
               /\ \A g \in Gates : to # GateExit[g]
  <2>1. PICK to \in ForwardTargets(wfStage) : Ask(to) /\ UNCHANGED <<status, signals, held, late>>
    BY <1>1 DEF GoForward
  <2>. QED
    BY <2>1, TargetsAreStages, ForwardIntoExits DEF Ungated
<1>2. ASSUME RetryTowards(back), wfStage \in {"VISUAL_QA", "CONTINUITY_QA", "FINAL_QA"}
      PROVE  \E to \in Stages :
               /\ Ask(to) /\ UNCHANGED <<status, signals, held, late>>
               /\ \A g \in Gates : to = GateExit[g] => g # "CONCEPT" /\ wfStage \in Behind[g]
  <2>1. back \in Stages /\ Ask(back) /\ UNCHANGED <<status, signals, held, late>>
    BY <1>2, TargetsAreStages DEF RetryTowards
  <2>2. ASSUME NEW g \in Gates, back = GateExit[g] PROVE g # "CONCEPT" /\ wfStage \in Behind[g]
    <3>1. back \in RevisionTargets(wfStage)
      BY <1>2 DEF RetryTowards
    <3>2. back \in {"SHOT_GENERATION"} \/ wfStage = "FINAL_QA"
      BY <1>2, <3>1, RevisionsOutOf
    <3>3. wfStage = "FINAL_QA" => back \in {"COMPOSITING", "ROUGH_CUT", "SOUND_DESIGN"}
      BY <3>1, RevisionsOutOf
    <3>4. wfStage = "FINAL_QA" /\ g = "SHOT_SELECTION"
      BY <2>2, <3>2, <3>3 DEF Gates, GateExit
    <3>. QED
      BY <3>4 DEF Behind
  <2>. QED
    BY <2>1, <2>2
<1>. QED
  BY <1>1, <1>2

\* What a stage's work may do to the workflow's place.
LEMMA HookEffects ==
  ASSUME Hook
  PROVE  /\ status = "RUNNING" /\ step \in {"TOP", "CHILD"}
         /\ UNCHANGED <<stage, approvals, wfQuiet, apiVars>>
         /\ \/ Block
            \/ Goto("CHILD") /\ CheckCompositingSelection
            \/ \E to \in Stages :
                 /\ Ask(to) /\ UNCHANGED <<status, signals, held, late>>
                 /\ \A g \in Gates : to = GateExit[g] => g # "CONCEPT" /\ wfStage \in Behind[g]
<1> DEFINE Asked ==
             \E to \in Stages :
               /\ Ask(to) /\ UNCHANGED <<status, signals, held, late>>
               /\ \A g \in Gates : to = GateExit[g] => g # "CONCEPT" /\ wfStage \in Behind[g]
<1>0. Ungated(wfStage)
  <2>1. AutoForward => Ungated(wfStage)
    BY DEF AutoForward
  <2>2. ~AutoForward => wfStage \in HookStages
    BY DEF Hook, RunStrategyConceptScript, RunShotPromptEngineer, RunShotGeneration,
       RunVisualQualityAssessments, RunContinuityAssessment, CheckCompositingSelection,
       RunCompositing, RunSoundDirector, RunFinalQaController, RunVariants, Working, HookStages
  <2>. QED
    BY <2>1, <2>2 DEF HookStages, Ungated, Gates, GateStage
<1>a. GoForward => Asked
  BY <1>0, WorkAsks
<1>b. ASSUME NEW back, RetryTowards(back), wfStage \in {"VISUAL_QA", "CONTINUITY_QA", "FINAL_QA"}
      PROVE  Asked
  BY <1>0, <1>b, WorkAsks
<1> HIDE DEF Asked
<1>c. ASSUME NEW fresh, Route(fresh), wfStage \in {"VISUAL_QA", "CONTINUITY_QA"} PROVE Asked
  BY <1>a, <1>b, <1>c DEF Route
<1> SUFFICES /\ status = "RUNNING" /\ step \in {"TOP", "CHILD"}
             /\ UNCHANGED <<stage, approvals, wfQuiet, apiVars>>
             /\ Block \/ (Goto("CHILD") /\ CheckCompositingSelection) \/ Asked
  BY DEF Asked
<1>1. CASE AutoForward
  BY <1>a, <1>1 DEF AutoForward, ReadyToForward, Working, dbVars
<1>2. CASE RunStrategyConceptScript \/ RunShotPromptEngineer
  BY <1>a, <1>2 DEF RunStrategyConceptScript, RunShotPromptEngineer, Working
<1>3. CASE RunShotGeneration
  BY <1>a, <1>3 DEF RunShotGeneration, Working
<1>4. CASE RunVisualQualityAssessments
  BY <1>c, <1>4 DEF RunVisualQualityAssessments, Working
<1>5. CASE RunContinuityAssessment
  BY <1>c, <1>5 DEF RunContinuityAssessment, Working
<1>6. CASE CheckCompositingSelection
  BY <1>6 DEF CheckCompositingSelection, Working, dbVars
<1>7. CASE RunCompositing
  BY <1>a, <1>7 DEF RunCompositing, Working
<1>8. CASE RunSoundDirector
  BY <1>a, <1>8 DEF RunSoundDirector, Working
<1>9. CASE RunFinalQaController
  <2>1. /\ status = "RUNNING" /\ wfStage = "FINAL_QA" /\ step = "TOP"
        /\ UNCHANGED <<stage, approvals, wfQuiet, apiVars>>
    BY <1>9 DEF RunFinalQaController, Working
  <2>2. Block \/ GoForward \/ \E back : RetryTowards(back)
    BY <1>9 DEF RunFinalQaController
  <2>. QED
    BY <1>a, <1>b, <2>1, <2>2
<1>10. CASE RunVariants
  BY <1>a, <1>10 DEF RunVariants, Working
<1>. QED
  BY <1>1, <1>2, <1>3, <1>4, <1>5, <1>6, <1>7, <1>8, <1>9, <1>10 DEF Hook

\* The steps of the ask that is under way, and those of the ones let go of.
Advance == Look \/ Swap \/ Answer \/ Lose \/ Die \/ \E t \in Late : TimeOut(t)
Stray == \E t \in Late : LookLate(t) \/ SwapLate(t)

AtTheGate == AwaitApproval \/ ReceiveSignal \/ VerifyShotSelection

\* None of them touches a row but the campaign's own, or a request.
LEMMA ExecutionEffects ==
  ASSUME Advance \/ Stray \/ AtTheGate \/ FailExecution
  PROVE  UNCHANGED <<approvals, copy, shots, selection, film>> /\ UNCHANGED apiVars
         /\ UNCHANGED run
<1>1. CASE Look \/ Answer \/ Lose
  BY <1>1 DEF Look, Answer, Lose, dbVars
<1>2. CASE Swap
  BY <1>2 DEF Swap, wfQuiet
<1>3. CASE Die \/ \E t \in Late : TimeOut(t) \/ LookLate(t)
  BY <1>3 DEF Die, TimeOut, LookLate, dbVars, wfQuiet
<1>4. CASE \E t \in Late : SwapLate(t)
  BY <1>4 DEF SwapLate
<1>5. CASE AtTheGate \/ FailExecution
  BY <1>5 DEF AtTheGate, AwaitApproval, ReceiveSignal, VerifyShotSelection, FailExecution, dbVars,
     wfQuiet
<1>. QED
  BY <1>1, <1>2, <1>3, <1>4, <1>5 DEF Advance, Stray

\* The steps of the API, but for the ones that record, signal and start.
QuietRequest ==
  \/ SubmitBrief \/ ReadForStart \/ CreateDraft \/ EditDraft
  \/ \E r \in Requests :
       SendDecision(r) \/ ReviewSelection(r) \/ CheckForRetry(r) \/ LoseRequest(r)

\* The requests that neither record a decision nor signal change neither.
LEMMA QuietRequestEffects ==
  ASSUME QuietRequest
  PROVE  UNCHANGED <<stage, approvals>> /\ UNCHANGED wfVars /\ (starting' \in {starting, stage})
<1>1. CASE SubmitBrief \/ ReadForStart
  BY <1>1 DEF SubmitBrief, ReadForStart, dbVars, apiVars
<1>2. CASE CreateDraft \/ EditDraft
  BY <1>2 DEF CreateDraft, EditDraft, apiVars
<1>3. ASSUME NEW r \in Requests,
             SendDecision(r) \/ ReviewSelection(r) \/ CheckForRetry(r) \/ LoseRequest(r)
      PROVE  UNCHANGED <<stage, approvals>> /\ UNCHANGED wfVars /\ UNCHANGED starting
  BY <1>3 DEF SendDecision, ReviewSelection, CheckForRetry, LoseRequest, dbVars
<1>. QED
  BY <1>1, <1>2, <1>3 DEF QuietRequest

\* The steps that leave the workflow, and the stage, as they are.
Bystander ==
  \/ QuietRequest \/ (\E r \in Requests : RecordApproval(r)) \/ UNCHANGED vars
  \/ StartWorkflow /\ UNCHANGED wfVars

\* An open execution takes no second start and queues a signal; nothing else of
\* the workflow is touched.
LEMMA BystanderEffects ==
  /\ Bystander => UNCHANGED stage /\ UNCHANGED wfVars /\ (starting' \in {starting, stage, NoStage})
  /\ \A r \in Requests : SignalWorkflow(r) =>
       /\ UNCHANGED <<stage, approvals, starting>>
       /\ UNCHANGED <<run, status, wfStage, pendingGate, revisionCounts, processed,
                      repairs, step, target, held, left, late, astray>>
<1>1. QuietRequest => UNCHANGED stage /\ UNCHANGED wfVars /\ (starting' \in {starting, stage})
  BY QuietRequestEffects
<1>2. ASSUME NEW r \in Requests, RecordApproval(r)
      PROVE  UNCHANGED stage /\ UNCHANGED wfVars /\ UNCHANGED starting
  BY <1>2 DEF RecordApproval
<1>3. UNCHANGED vars => UNCHANGED stage /\ UNCHANGED wfVars /\ UNCHANGED starting
  BY DEF vars, dbVars, apiVars
<1>4. StartWorkflow /\ UNCHANGED wfVars => UNCHANGED stage /\ starting' = NoStage
  BY DEF StartWorkflow, dbVars
<1>5. ASSUME NEW r \in Requests, SignalWorkflow(r)
      PROVE  /\ UNCHANGED <<stage, approvals, starting>>
             /\ UNCHANGED <<run, status, wfStage, pendingGate, revisionCounts, processed,
                            repairs, step, target, held, left, late, astray>>
  BY <1>5 DEF SignalWorkflow, dbVars
<1>. QED
  BY <1>1, <1>2, <1>3, <1>4, <1>5 DEF Bystander

\* A start that is taken up, and what it finds.
Start ==
  /\ StartWorkflow
  /\ starting # NoStage /\ starting' = NoStage
  /\ status \in {"NONE", "BLOCKED"}
  /\ run' = run + 1 /\ status' = "RUNNING" /\ wfStage' = starting
  /\ pendingGate' = NoGate /\ revisionCounts' = [g \in Gates |-> 0]
  /\ processed' = {} /\ signals' = <<>> /\ step' = "TOP" /\ held' = 0
  /\ UNCHANGED <<stage, approvals, late, astray>>

\* The kinds of steps the invariant distinguishes.
LEMMA StepCases ==
  ASSUME [Next]_vars
  PROVE  \/ Hook \/ Advance \/ Stray \/ AtTheGate \/ FailExecution
         \/ Bystander \/ Start \/ \E r \in Requests : SignalWorkflow(r)
<1>1. StartWorkflow => Bystander \/ Start
  BY DEF StartWorkflow, Bystander, Start, dbVars
<1>. QED
  BY <1>1
  DEF Next, Worker, Server, Humans, Reviewer, Hook, Advance, Stray, AtTheGate, Bystander,
      QuietRequest

-----------------------------------------------------------------------------
(* The rows and the requests.                                              *)

\* A row is added by the request that records a decision, and by nothing else.
LEMMA RowsAreRecorded ==
  ASSUME [Next]_vars
  PROVE  UNCHANGED approvals \/ \E r \in Requests : RecordApproval(r)
<1>1. CASE Hook
  BY <1>1, HookEffects
<1>2. CASE Advance \/ Stray \/ AtTheGate \/ FailExecution
  BY <1>2, ExecutionEffects
<1>3. CASE Bystander
  BY <1>3, QuietRequestEffects DEF Bystander, StartWorkflow, vars, dbVars
<1>4. CASE Start \/ \E r \in Requests : SignalWorkflow(r)
  BY <1>4, BystanderEffects DEF Start
<1>. QED
  BY <1>1, <1>2, <1>3, <1>4, StepCases

\* Approval rows are never changed or deleted.
LEMMA ApprovalsOnlyGrow ==
  ASSUME IInv, [Next]_vars
  PROVE  DOMAIN approvals \subseteq DOMAIN approvals'
         /\ \A i \in DOMAIN approvals : approvals'[i] = approvals[i]
<1>1. approvals \in Seq(Approval) /\ approvals' \in Seq(Approval)
  BY TypeStep DEF IInv, TypeOK, ApprovalsOK
<1>2. CASE UNCHANGED approvals
  BY <1>2
<1>3. ASSUME NEW row, approvals' = Append(approvals, row)
      PROVE  DOMAIN approvals \subseteq DOMAIN approvals'
             /\ \A i \in DOMAIN approvals : approvals'[i] = approvals[i]
  BY <1>1, <1>3
<1>. QED
  BY <1>2, <1>3, RowsAreRecorded DEF RecordApproval

\* A step of one request leaves the others alone, keeps what it was filled in
\* with, and turns to signalling only with the id of a recorded approval.
LEMMA RequestEffects ==
  ASSUME TypeOK, NEW r \in Requests, Reviewer(r)
  PROVE  /\ \A q \in Requests : q # r => req'[q] = req[q]
         /\ req'[r].pc # "IDLE" =>
              \/ SendDecision(r)
              \/ /\ req[r].pc # "IDLE" /\ req'[r].gate = req[r].gate
                 /\ req'[r].decision = req[r].decision /\ req'[r].seenStage = req[r].seenStage
         /\ req'[r].pc = "SIGNAL" =>
              CheckForRetry(r) \/ RecordApproval(r)
<1>0. req \in [Requests -> Request] /\ req[r] \in Request
  BY DEF TypeOK, ApiOK
<1>1. CASE SendDecision(r)
  <2>1. PICK g, d, t :
          req' = [req EXCEPT ![r] = [pc |-> "READ", gate |-> g, decision |-> d,
                                     repairTarget |-> t, seenStage |-> stage, id |-> 0]]
    BY <1>1 DEF SendDecision
  <2>2. req'[r].pc = "READ" /\ \A q \in Requests : q # r => req'[q] = req[q]
    BY <1>0, <2>1
  <2>. QED
    BY <1>1, <2>2
<1>2. CASE ReviewSelection(r)
  BY <1>0, <1>2 DEF ReviewSelection, NoRequest, Request
<1>3. CASE CheckForRetry(r)
  BY <1>0, <1>3 DEF CheckForRetry, ReadyToRecord, Request
<1>4. CASE RecordApproval(r)
  BY <1>0, <1>4 DEF RecordApproval, Request
<1>5. CASE SignalWorkflow(r) \/ LoseRequest(r)
  BY <1>0, <1>5 DEF SignalWorkflow, LoseRequest, NoRequest
<1>. QED
  BY <1>1, <1>2, <1>3, <1>4, <1>5 DEF Reviewer

\* A request moves by its own steps only.
LEMMA OthersLeaveRequests ==
  ASSUME [Next]_vars
  PROVE  UNCHANGED req \/ \E r \in Requests : Reviewer(r)
<1>1. CASE Hook
  BY <1>1, HookEffects DEF apiVars
<1>2. CASE Advance \/ Stray \/ AtTheGate \/ FailExecution
  BY <1>2, ExecutionEffects DEF apiVars
<1>3. CASE Bystander \/ Start
  BY <1>3 DEF Bystander, Start, QuietRequest, SubmitBrief, ReadForStart, CreateDraft, EditDraft,
     StartWorkflow, Reviewer, vars, apiVars
<1>. QED
  BY <1>1, <1>2, <1>3, StepCases DEF Reviewer

\* A request knows what its step needs.
LEMMA RequestsStayFilledIn == IInv /\ [Next]_vars => RequestsFilledIn'
<1> SUFFICES ASSUME IInv, [Next]_vars PROVE RequestsFilledIn'
  OBVIOUS
<1>0. RequestsFilledIn /\ TypeOK
  BY DEF IInv
<1>1. CASE UNCHANGED req
  BY <1>0, <1>1 DEF RequestsFilledIn
<1>2. ASSUME NEW r \in Requests, Reviewer(r) PROVE RequestsFilledIn'
  <2>1. SendDecision(r) =>
          req'[r].gate \in Gates /\ req'[r].decision \in DecisionValues
            /\ req'[r].seenStage \in Stages
    BY <1>0 DEF SendDecision, TypeOK, ApiOK, PlaceOK
  <2>. QED
    BY <1>0, <1>2, <2>1, RequestEffects DEF RequestsFilledIn
<1>. QED
  BY <1>1, <1>2, OthersLeaveRequests

\* The id of a decision names the row that records it.
LEMMA IdsStayNames == IInv /\ [Next]_vars => IdsName'
<1> SUFFICES ASSUME IInv, [Next]_vars PROVE IdsName'
  OBVIOUS
<1>0. TypeOK /\ IdsName /\ DOMAIN approvals \subseteq DOMAIN approvals'
  BY ApprovalsOnlyGrow DEF IInv
<1>1. \A r \in Requests : req'[r].pc = "SIGNAL" => req'[r].id \in DOMAIN approvals'
  <2>1. CASE UNCHANGED req
    BY <1>0, <2>1 DEF IdsName
  <2>2. ASSUME NEW r \in Requests, Reviewer(r), NEW q \in Requests, req'[q].pc = "SIGNAL"
        PROVE  req'[q].id \in DOMAIN approvals'
    <3>1. CASE q # r
      BY <1>0, <2>2, <3>1, RequestEffects DEF IdsName
    <3>2. CASE q = r /\ CheckForRetry(r)
      <4>1. PICK i \in DOMAIN approvals : req' = [req EXCEPT ![r].pc = "SIGNAL", ![r].id = i]
        BY <1>0, <2>2, <3>2 DEF CheckForRetry, TypeOK, ApiOK, Request
      <4>. QED
        BY <1>0, <3>2, <4>1 DEF TypeOK, ApiOK, Request
    <3>3. CASE q = r /\ RecordApproval(r)
      <4>1. req'[r].id = Len(approvals) + 1
        BY <1>0, <3>3 DEF RecordApproval, NewId, TypeOK, ApiOK, Request
      <4>2. Len(approvals) + 1 \in DOMAIN approvals'
        <5>1. approvals \in Seq(Approval) /\ approvals' \in Seq(Approval)
          BY <1>0, TypeStep DEF TypeOK, ApprovalsOK
        <5>. QED
          BY <3>3, <5>1 DEF RecordApproval
      <4>. QED
        BY <3>3, <4>1, <4>2
    <3>. QED
      BY <1>0, <2>2, <3>1, <3>2, <3>3, RequestEffects
  <2>. QED
    BY <2>1, <2>2, OthersLeaveRequests
<1>2. \A k \in DOMAIN signals' : signals'[k] \in DOMAIN approvals'
  <2>0. signals \in Seq(Ids) /\ signals' \in Seq(Ids)
    BY <1>0, TypeStep DEF TypeOK, LoopOK
  <2>1. CASE signals' \in {signals, <<>>}
    BY <1>0, <2>0, <2>1 DEF IdsName
  <2>2. CASE signals # <<>> /\ signals' = Tail(signals)
    <3>1. \A k \in 1 .. Len(Tail(signals)) :
            k + 1 \in DOMAIN signals /\ Tail(signals)[k] = signals[k + 1]
      BY <2>0, <2>2, HeadTailProperties
    <3>. QED
      BY <1>0, <2>0, <2>2, <3>1 DEF IdsName
  <2>3. ASSUME NEW r \in Requests, req[r].pc = "SIGNAL", signals' = Append(signals, req[r].id)
        PROVE  \A k \in DOMAIN signals' : signals'[k] \in DOMAIN approvals'
    <3>1. req[r].id \in DOMAIN approvals
      BY <1>0, <2>3 DEF IdsName
    <3>2. \A k \in DOMAIN signals' : k \in DOMAIN signals \/ k = Len(signals) + 1
      BY <2>0, <2>3
    <3>3. /\ \A k \in DOMAIN signals : signals'[k] = signals[k]
          /\ signals'[Len(signals) + 1] = req[r].id
      BY <2>0, <2>3
    <3>. QED
      BY <1>0, <3>1, <3>2, <3>3 DEF IdsName
  <2>4. \/ signals' \in {signals, <<>>}
        \/ signals # <<>> /\ signals' = Tail(signals)
        \/ \E r \in Requests : req[r].pc = "SIGNAL" /\ signals' = Append(signals, req[r].id)
    <3>1. CASE Hook
      BY <3>1, HookEffects DEF Block, Close, Goto
    <3>2. CASE Look \/ Swap \/ Answer \/ Lose \/ Die
      BY <3>2 DEF Look, Swap, Answer, Lose, Die, Refuse, RepairVariants, Goto, Block, Close
    <3>3. CASE Stray \/ \E t \in Late : TimeOut(t)
      BY <3>3 DEF Stray, TimeOut, LookLate, SwapLate, Close
    <3>4. CASE AtTheGate \/ FailExecution
      BY <3>4 DEF AtTheGate, AwaitApproval, ReceiveSignal, VerifyShotSelection, FailExecution,
         Block, Close
    <3>5. CASE Bystander \/ Start
      BY <3>5, BystanderEffects DEF Start, wfVars
    <3>6. ASSUME NEW r \in Requests, SignalWorkflow(r)
          PROVE  \/ UNCHANGED signals
                 \/ req[r].pc = "SIGNAL" /\ signals' = Append(signals, req[r].id)
      BY <3>6 DEF SignalWorkflow
    <3>. QED
      BY <3>1, <3>2, <3>3, <3>4, <3>5, <3>6, StepCases DEF Advance
  <2>. QED
    BY <2>1, <2>2, <2>3, <2>4
<1>. QED
  BY <1>1, <1>2 DEF IdsName

-----------------------------------------------------------------------------
(* The asks.                                                               *)

\* An ask is freshly made: for the way out of a gate, only by an approval of it,
\* or from behind it.
FreshAsk ==
  /\ step' = "ASK" /\ UNCHANGED stage /\ UNCHANGED approvals
  /\ \A g \in Gates : target' = GateExit[g] =>
       Approves(held', g) \/ (g # "CONCEPT" /\ stage \in Behind[g])

\* The executions let go of, after a step: each is what it was, further on or
\* gone, or is the execution the workflow waited for.
TriesGoOn ==
  \A t \in Late : late'[t].pc # "NONE" =>
    [to |-> late'[t].to, by |-> late'[t].by] \in Asks

\* Asks grow only by fresh ones.
LEMMA AsksMembers ==
  ASSUME NEW t \in Late, late[t].pc # "NONE"
  PROVE  [to |-> late[t].to, by |-> late[t].by] \in Asks
BY DEF Asks

\* Disowning or voiding executions starts none.
LEMMA TriesLetGo ==
  ASSUME TypeOK, NEW t \in Late
  PROVE  /\ Disowned[t].pc # "NONE" =>
              /\ Disowned[t].pc = late[t].pc /\ Disowned[t].pc \notin {"MOVED", "DENIED"}
              /\ Disowned[t].to = late[t].to /\ Disowned[t].by = late[t].by
         /\ ~Disowned[t].mine
         /\ Voided[t].pc # "LOOKED"
         /\ Voided[t].pc # "NONE" => Voided[t] = late[t]
         /\ Voided[t].mine => late[t].mine
         /\ NoTry.pc = "NONE" /\ ~NoTry.mine
<1>1. late[t] \in Try
  BY DEF TypeOK, LoopOK
<1>2. /\ [late[t] EXCEPT !.mine = FALSE].pc = late[t].pc
      /\ [late[t] EXCEPT !.mine = FALSE].to = late[t].to
      /\ [late[t] EXCEPT !.mine = FALSE].by = late[t].by
      /\ ~[late[t] EXCEPT !.mine = FALSE].mine
  BY <1>1 DEF Try
<1>3. NoTry.pc = "NONE" /\ ~NoTry.mine
  BY DEF NoTry
<1>4. /\ Disowned[t] = IF late[t].pc \in {"MOVED", "DENIED"} THEN NoTry
                       ELSE [late[t] EXCEPT !.mine = FALSE]
      /\ Voided[t] = IF late[t].pc = "LOOKED" THEN NoTry ELSE late[t]
  BY DEF Disowned, Voided
<1>5. CASE late[t].pc \in {"MOVED", "DENIED"}
  BY <1>3, <1>4, <1>5
<1>6. CASE late[t].pc \notin {"MOVED", "DENIED"}
  BY <1>2, <1>3, <1>4, <1>6
<1>. QED
  BY <1>5, <1>6

\* Where the workflow waits, and for what, after a step.
LEMMA AskSteps ==
  ASSUME IInv, [Next]_vars
  PROVE  /\ TriesGoOn
         /\ step' \in Asking =>
              FreshAsk \/ (step \in Asking /\ UNCHANGED <<target, held>>)
<1>0. TypeOK /\ late \in [Late -> Try]
  BY DEF IInv, TypeOK, LoopOK
<1>a. \A t \in Late : late'[t] = late[t] => (late'[t].pc # "NONE" =>
        [to |-> late'[t].to, by |-> late'[t].by] \in Asks)
  BY AsksMembers
<1>b. \A t \in Late : late'[t] = Disowned[t] => (late'[t].pc # "NONE" =>
        [to |-> late'[t].to, by |-> late'[t].by] \in Asks)
  BY <1>0, TriesLetGo, AsksMembers
<1>c. ASSUME Block PROVE TriesGoOn /\ step' = "TOP"
  BY <1>b, <1>c DEF Block, Close, TriesGoOn
<1>d. UNCHANGED late => TriesGoOn
  BY <1>a DEF TriesGoOn
<1>f. "TOP" \notin Asking /\ "CHILD" \notin Asking /\ "HELD" \notin Asking
      /\ {"ASK", "SWAP", "APPLIED", "LOST"} = Asking
  BY DEF Asking
<1>1. CASE Hook
  <2>1. CASE Block
    BY <1>c, <1>f, <2>1
  <2>2. CASE Goto("CHILD")
    BY <1>d, <1>f, <2>2 DEF Goto
  <2>3. ASSUME NEW to \in Stages, Ask(to), UNCHANGED <<status, signals, held, late>>,
               \A g \in Gates : to = GateExit[g] => g # "CONCEPT" /\ wfStage \in Behind[g]
        PROVE  TriesGoOn /\ FreshAsk
    <3>1. UNCHANGED <<stage, approvals>>
      BY <1>1, HookEffects
    <3>2. ASSUME NEW g \in Gates, to = GateExit[g] PROVE g # "CONCEPT" /\ stage \in Behind[g]
      BY <2>3, <3>2 DEF IInv, NeverAhead, Gates
    <3>. QED
      BY <1>d, <2>3, <3>1, <3>2 DEF Ask, FreshAsk
  <2>. QED
    BY <1>1, <2>1, <2>2, <2>3, HookEffects
<1>2. ASSUME NEW id, AskForDecision(id), id \in DOMAIN approvals,
             approvals[id].gate = pendingGate, pendingGate \in Gates,
             wfStage = GateStage[pendingGate], UNCHANGED <<late, stage, approvals>>
      PROVE  FreshAsk
  <2>1. PICK to \in DecisionTargets(wfStage, pendingGate, approvals[id].decision,
                                    approvals[id].repairTarget) : Ask(to)
    BY <1>2 DEF AskForDecision
  <2>2. ASSUME NEW g \in Gates, to = GateExit[g]
        PROVE  Approves(id, g) \/ (g # "CONCEPT" /\ stage \in Behind[g])
    <3>1. CASE approvals[id].decision = "APPROVED"
      <4>1. to \in ForwardTargets(wfStage)
        BY <2>1, <3>1 DEF DecisionTargets
      <4>2. GateStage[pendingGate] = GateStage[g]
        BY <1>2, <2>2, <4>1, ForwardIntoExits
      <4>3. pendingGate = g
        BY <1>2, <4>2 DEF Gates, GateStage
      <4>. QED
        BY <1>2, <3>1, <4>3 DEF Approves
    <3>2. CASE approvals[id].decision # "APPROVED"
      <4>1. to \in RevisionTargets(wfStage)
        BY <2>1, <3>2 DEF DecisionTargets
      <4>2. pendingGate = "FINAL" /\ g = "SHOT_SELECTION"
        <5>1. CASE pendingGate = "CONCEPT"
          BY <1>2, <2>2, <4>1, <5>1, RevisionsOutOf DEF Gates, GateStage, GateExit
        <5>2. CASE pendingGate = "SHOT_SELECTION"
          BY <1>2, <2>2, <4>1, <5>2, RevisionsOutOf DEF Gates, GateStage, GateExit
        <5>3. CASE pendingGate = "FINAL"
          BY <1>2, <2>2, <4>1, <5>3, RevisionsOutOf DEF Gates, GateStage, GateExit
        <5>. QED
          BY <1>2, <5>1, <5>2, <5>3 DEF Gates
      <4>3. wfStage \in Behind["SHOT_SELECTION"]
        BY <1>2, <4>2 DEF GateStage, Behind
      <4>. QED
        BY <4>2, <4>3 DEF IInv, NeverAhead
    <3>. QED
      BY <3>1, <3>2
  <2>. QED
    BY <1>2, <2>1, <2>2 DEF AskForDecision, Ask, FreshAsk
<1>3. CASE AtTheGate
  <2>1. CASE AwaitApproval
    BY <1>d, <1>f, <2>1 DEF AwaitApproval, ReadyToForward
  <2>2. CASE ReceiveSignal
    <3>1. /\ UNCHANGED <<stage, approvals>> /\ status = "AWAITING_APPROVAL" /\ step = "TOP"
      BY <2>2 DEF ReceiveSignal, dbVars
    <3>2. Head(signals) \in DOMAIN approvals
      BY <1>0, <2>2, HeadTailProperties DEF ReceiveSignal, IInv, IdsName, TypeOK, LoopOK
    <3>3. pendingGate \in Gates /\ wfStage = GateStage[pendingGate]
      BY <3>1 DEF IInv, WaitsAtGateStage
    <3>4. \/ Block
          \/ UNCHANGED <<late, step>>
          \/ UNCHANGED late /\ step' = "HELD"
          \/ /\ UNCHANGED late /\ AskForDecision(Head(signals))
             /\ approvals[Head(signals)].gate = pendingGate
      BY <2>2 DEF ReceiveSignal, Stale
    <3>. QED
      BY <1>2, <1>c, <1>d, <1>f, <3>1, <3>2, <3>3, <3>4
  <2>3. CASE VerifyShotSelection
    <3>1. /\ UNCHANGED <<stage, approvals, late>> /\ status = "AWAITING_APPROVAL"
      BY <2>3 DEF VerifyShotSelection, dbVars
    <3>2. held \in DOMAIN approvals /\ approvals[held].gate = pendingGate
      BY <2>3 DEF VerifyShotSelection, IInv, HeldIsVerified
    <3>3. pendingGate \in Gates /\ wfStage = GateStage[pendingGate]
      BY <3>1 DEF IInv, WaitsAtGateStage
    <3>4. step' = "TOP" \/ AskForDecision(held)
      BY <2>3 DEF VerifyShotSelection
    <3>. QED
      BY <1>2, <1>d, <1>f, <3>1, <3>2, <3>3, <3>4
  <2>. QED
    BY <1>3, <2>1, <2>2, <2>3 DEF AtTheGate
<1>4. CASE Look
  <2>1. CASE Goto("SWAP")
    BY <1>4, <1>d, <1>f, <2>1 DEF Look, Goto
  <2>2. CASE Block
    BY <1>c, <1>f, <2>2
  <2>3. CASE RepairVariants
    <3>1. PICK back \in RevisionTargets(wfStage) : Ask(back)
      BY <2>3 DEF RepairVariants
    <3>2. wfStage = "VARIANT_QA" /\ late' = Disowned /\ UNCHANGED <<stage, approvals>>
      BY <1>4, <2>3 DEF RepairVariants, Repairable, Look, dbVars
    <3>3. back = "VARIANT_GENERATION"
      BY <3>1, <3>2, RevisionsOutOf
    <3>4. ASSUME NEW g \in Gates, back = GateExit[g] PROVE g # "CONCEPT" /\ stage \in Behind[g]
      <4>1. g = "FINAL"
        BY <3>3, <3>4 DEF Gates, GateExit
      <4>. QED
        BY <3>2, <4>1 DEF IInv, NeverAhead, Behind
    <3>5. FreshAsk
      BY <3>1, <3>2, <3>4 DEF Ask, FreshAsk
    <3>6. TriesGoOn
      BY <1>b, <3>2 DEF TriesGoOn
    <3>. QED
      BY <3>5, <3>6
  <2>. QED
    BY <1>4, <2>1, <2>2, <2>3 DEF Look, Refuse
<1>5. CASE Swap
  <2>1. late' = Voided /\ UNCHANGED <<target, held>> /\ step \in Asking
    BY <1>5, <1>f DEF Swap
  <2>2. TriesGoOn
    BY <1>0, <2>1, TriesLetGo, AsksMembers DEF TriesGoOn
  <2>. QED
    BY <2>1, <2>2
<1>6. CASE Answer
  <2>1. late' = Disowned /\ step' = "TOP"
    BY <1>6 DEF Answer
  <2>. QED
    BY <1>b, <1>f, <2>1 DEF TriesGoOn
<1>7. CASE Lose
  <2>1. step \in Asking
    BY <1>7, <1>f DEF Lose
  <2>2. Block \/ UNCHANGED <<target, held, late>>
    BY <1>7 DEF Lose, Refuse
  <2>. QED
    BY <1>c, <1>d, <1>f, <2>1, <2>2
<1>8. CASE Die
  BY <1>8, <1>d, <1>f DEF Die
<1>9. ASSUME NEW t \in Late, TimeOut(t)
      PROVE  /\ TriesGoOn
             /\ step' \in Asking => (step \in Asking /\ UNCHANGED <<target, held>>)
  <2>1. step \in Asking
    BY <1>9, <1>f DEF TimeOut, TimedOutAt
  <2>2. [to |-> target, by |-> held] \in Asks
    BY <2>1 DEF Asks
  <2>3. PICK own :
          LET new == [pc |-> TimedOutAt[step], to |-> target, by |-> held, mine |-> own] IN
            late' \in {[late EXCEPT ![t] = new], [Disowned EXCEPT ![t] = new]}
    BY <1>9 DEF TimeOut
  <2>4. Disowned \in [Late -> Try]
    BY <1>0, TriesAreTyped DEF TypeOK
  <2>5. late'[t].to = target /\ late'[t].by = held
    BY <1>0, <2>3, <2>4
  <2>6. \A u \in Late : u # t => late'[u] \in {late[u], Disowned[u]}
    BY <1>0, <2>3, <2>4
  <2>7. TriesGoOn
    BY <1>a, <1>b, <2>2, <2>5, <2>6 DEF TriesGoOn
  <2>8. UNCHANGED <<target, held>> \/ step' = "TOP"
    BY <1>9 DEF TimeOut, Close
  <2>. QED
    BY <1>f, <2>1, <2>7, <2>8
<1>10. ASSUME NEW t \in Late, LookLate(t)
       PROVE  TriesGoOn /\ UNCHANGED <<step, target, held>>
  <2>1. late[t] \in Try /\ late[t].pc = "LATE"
    BY <1>0, <1>10 DEF LookLate
  <2>2. late'[t] \in {[late[t] EXCEPT !.pc = "LOOKED"], [late[t] EXCEPT !.pc = "DENIED"], NoTry}
    BY <1>0, <1>10 DEF LookLate
  <2>3. late'[t].pc # "NONE" => late'[t].to = late[t].to /\ late'[t].by = late[t].by
    BY <2>1, <2>2 DEF Try, NoTry
  <2>4. \A u \in Late : u # t => late'[u] = late[u]
    BY <1>0, <1>10 DEF LookLate
  <2>5. TriesGoOn
    BY <1>a, <2>1, <2>3, <2>4, AsksMembers DEF TriesGoOn
  <2>. QED
    BY <1>10, <2>5 DEF LookLate
<1>11. ASSUME NEW t \in Late, SwapLate(t)
       PROVE  /\ TriesGoOn /\ UNCHANGED <<target, held>>
              /\ step' \in Asking => step \in Asking
  <2>1. late[t] \in Try /\ late[t].pc = "LOOKED" /\ Voided \in [Late -> Try]
    BY <1>0, <1>11, TriesAreTyped DEF SwapLate, TypeOK
  <2>2. late'[t] \in {[late[t] EXCEPT !.pc = "MOVED"], NoTry}
    BY <1>11, <2>1 DEF SwapLate
  <2>3. late'[t].pc # "NONE" => late'[t].to = late[t].to /\ late'[t].by = late[t].by
    BY <2>1, <2>2 DEF Try, NoTry
  <2>4. \A u \in Late : u # t => late'[u] = Voided[u]
    BY <1>11, <2>1 DEF SwapLate
  <2>5. TriesGoOn
    BY <1>0, <1>a, <2>1, <2>3, <2>4, AsksMembers, TriesLetGo DEF TriesGoOn
  <2>6. UNCHANGED <<target, held>> /\ (step' \in Asking => step \in Asking)
    BY <1>11, <1>f DEF SwapLate
  <2>. QED
    BY <2>5, <2>6
<1>12. CASE FailExecution
  BY <1>12, <1>c, <1>f DEF FailExecution
<1>13. CASE Bystander
  BY <1>13, <1>d, BystanderEffects DEF wfVars
<1>14. CASE Start
  BY <1>14, <1>d, <1>f DEF Start
<1>15. CASE \E r \in Requests : SignalWorkflow(r)
  BY <1>15, <1>d, BystanderEffects
<1>. QED
  BY <1>1, <1>3, <1>4, <1>5, <1>6, <1>7, <1>8, <1>9, <1>10, <1>11, <1>12, <1>13, <1>14, <1>15,
     StepCases DEF Advance, Stray

\* What was asked for stays what it was, or is fresh.
LEMMA AsksOnlyFresh ==
  ASSUME IInv, [Next]_vars, NEW a, a \in Asks'
  PROVE  a \in Asks \/ (FreshAsk /\ a = [to |-> target', by |-> held'])
<1>1. CASE \E t \in Late : late'[t].pc # "NONE" /\ a = [to |-> late'[t].to, by |-> late'[t].by]
  BY <1>1, AskSteps DEF TriesGoOn
<1>2. CASE step' \in Asking /\ a = [to |-> target', by |-> held']
  BY <1>2, AskSteps DEF Asks
<1>. QED
  BY <1>1, <1>2 DEF Asks

-----------------------------------------------------------------------------
(* The moves.                                                              *)

\* The rows the facts are read from.
rows == <<approvals, copy, shots, selection, film>>

\* Whoever has looked has asked.
LEMMA LookedAsk == Looked \subseteq Asks
BY DEF Looked, Asks, Asking

\* One of those who have looked moves the campaign, and none of the others will;
\* one more has looked, and the rows are as it found them; or the campaign stays
\* and nobody has looked anew.
Moves(a) == a \in Looked /\ stage' = a.to /\ Looked' = {} /\ UNCHANGED rows

Looks(a) == a \in Asks /\ MayMove(a.to) /\ Looked' = Looked \cup {a} /\ UNCHANGED <<stage, rows>>

NobodyLooks == UNCHANGED stage /\ Looked' \subseteq Looked

\* Nothing but the executions of an ask looks, or moves the campaign.
LEMMA LookSteps ==
  ASSUME IInv, [Next]_vars
  PROVE  (\E a : Moves(a)) \/ (\E a : Looks(a)) \/ NobodyLooks
<1>0. TypeOK /\ late \in [Late -> Try]
  BY DEF IInv, TypeOK, LoopOK
<1>a. ASSUME UNCHANGED stage, step' = "SWAP" => step = "SWAP" /\ UNCHANGED <<target, held>>,
             \A t \in Late : late'[t].pc = "LOOKED" =>
               [to |-> late'[t].to, by |-> late'[t].by] \in Looked
      PROVE  NobodyLooks
  <2>1. ASSUME NEW a \in Looked' PROVE a \in Looked
    <3>1. CASE step' = "SWAP" /\ a = [to |-> target', by |-> held']
      BY <1>a, <3>1 DEF Looked
    <3>2. CASE \E t \in Late : late'[t].pc = "LOOKED"
                              /\ a = [to |-> late'[t].to, by |-> late'[t].by]
      BY <1>a, <3>2
    <3>. QED
      BY <2>1, <3>1, <3>2 DEF Looked
  <2>. QED
    BY <1>a, <2>1 DEF NobodyLooks
<1>b. ASSUME NEW t \in Late, late'[t] \in {late[t], Disowned[t]}, late'[t].pc = "LOOKED"
      PROVE  [to |-> late'[t].to, by |-> late'[t].by] \in Looked
  BY <1>0, <1>b, TriesLetGo DEF Looked
<1>c. UNCHANGED stage /\ late' \in {late, Disowned} /\ step' # "SWAP" => NobodyLooks
  BY <1>a, <1>b
<1>d. UNCHANGED <<stage, step, target, held, late>> => NobodyLooks
  BY <1>a, <1>b
<1>1. CASE Hook
  BY <1>1, <1>c, HookEffects DEF Block, Close, Goto, Ask
<1>2. CASE AtTheGate
  BY <1>2, <1>c
  DEF AtTheGate, AwaitApproval, ReadyToForward, ReceiveSignal, VerifyShotSelection, dbVars, Block,
      Close, AskForDecision, Ask
<1>3. CASE Look
  <2>1. UNCHANGED <<stage, rows>>
    BY <1>3 DEF Look, dbVars, rows
  <2>2. CASE MayMove(target) /\ Goto("SWAP")
    <3>1. [to |-> target, by |-> held] \in Asks
      BY <1>3 DEF Look, Asks, Asking
    <3>2. Looked' = Looked \cup {[to |-> target, by |-> held]}
      BY <1>3, <2>2 DEF Look, Goto, Looked
    <3>. QED
      BY <2>1, <2>2, <3>1, <3>2 DEF Looks
  <2>3. CASE RepairVariants \/ Refuse
    BY <1>c, <2>1, <2>3 DEF RepairVariants, Refuse, Ask, Block, Close
  <2>. QED
    BY <1>3, <2>2, <2>3 DEF Look
<1>4. CASE Swap
  <2>1. [to |-> target, by |-> held] \in Looked /\ stage' = target
    BY <1>4 DEF Swap, Looked
  <2>2. Looked' = {}
    <3>1. step' # "SWAP" /\ \A t \in Late : late'[t].pc # "LOOKED"
      BY <1>0, <1>4, TriesLetGo DEF Swap
    <3>. QED
      BY <3>1 DEF Looked
  <2>3. UNCHANGED rows
    BY <1>4 DEF Swap, rows
  <2>. QED
    BY <2>1, <2>2, <2>3 DEF Moves
<1>5. CASE Answer
  BY <1>5, <1>c DEF Answer, dbVars
<1>6. CASE Lose \/ Die
  BY <1>6, <1>c DEF Lose, Die, Refuse, Block, Close, dbVars
<1>7. ASSUME NEW t \in Late, TimeOut(t) PROVE NobodyLooks
  <2>1. UNCHANGED stage /\ step' # "SWAP"
    BY <1>7 DEF TimeOut, Close, dbVars
  <2>2. PICK own :
          LET new == [pc |-> TimedOutAt[step], to |-> target, by |-> held, mine |-> own] IN
            late' \in {[late EXCEPT ![t] = new], [Disowned EXCEPT ![t] = new]}
    BY <1>7 DEF TimeOut
  <2>3. Disowned \in [Late -> Try]
    BY <1>0, TriesAreTyped DEF TypeOK
  <2>4. late'[t].to = target /\ late'[t].by = held /\ late'[t].pc = TimedOutAt[step]
    BY <1>0, <2>2, <2>3
  <2>5. \A u \in Late : u # t => late'[u] \in {late[u], Disowned[u]}
    BY <1>0, <2>2, <2>3
  <2>6. late'[t].pc = "LOOKED" => step = "SWAP"
    BY <1>7, <2>4 DEF TimeOut, TimedOutAt
  <2>7. step = "SWAP" => [to |-> target, by |-> held] \in Looked
    BY DEF Looked
  <2>8. \A u \in Late : late'[u].pc = "LOOKED" =>
          [to |-> late'[u].to, by |-> late'[u].by] \in Looked
    BY <1>b, <2>4, <2>5, <2>6, <2>7
  <2>. QED
    BY <1>a, <2>1, <2>8
<1>8. ASSUME NEW t \in Late, LookLate(t)
      PROVE  NobodyLooks \/ \E a : Looks(a)
  <2>1. /\ late[t] \in Try /\ late[t].pc = "LATE"
        /\ UNCHANGED <<stage, step, target, held>> /\ UNCHANGED rows
    BY <1>0, <1>8 DEF LookLate, dbVars, rows
  <2>2. \A u \in Late : u # t => late'[u] = late[u]
    BY <1>0, <1>8 DEF LookLate
  <2>3. CASE MayMove(late[t].to)
    <3>1. late'[t] = [late[t] EXCEPT !.pc = "LOOKED"]
      BY <1>0, <1>8, <2>3 DEF LookLate
    <3>2. late'[t].pc = "LOOKED" /\ late'[t].to = late[t].to /\ late'[t].by = late[t].by
      BY <2>1, <3>1 DEF Try
    <3> DEFINE a == [to |-> late[t].to, by |-> late[t].by]
    <3>3. a \in Asks
      BY <2>1, AsksMembers
    <3>4. Looked' = Looked \cup {a}
      BY <2>1, <2>2, <3>2 DEF Looked
    <3>. QED
      BY <2>1, <2>3, <3>3, <3>4 DEF Looks
  <2>4. CASE ~MayMove(late[t].to)
    <3>1. late'[t] \in {[late[t] EXCEPT !.pc = "DENIED"], NoTry}
      BY <1>0, <1>8, <2>4 DEF LookLate
    <3>2. late'[t].pc # "LOOKED"
      BY <2>1, <3>1 DEF Try, NoTry
    <3>. QED
      BY <1>a, <1>b, <2>1, <2>2, <3>2
  <2>. QED
    BY <2>3, <2>4
<1>9. ASSUME NEW t \in Late, SwapLate(t)
      PROVE  \E a : Moves(a)
  <2>1. late[t] \in Try /\ late[t].pc = "LOOKED" /\ Voided \in [Late -> Try]
    BY <1>0, <1>9, TriesAreTyped DEF SwapLate, TypeOK
  <2>2. late'[t] \in {[late[t] EXCEPT !.pc = "MOVED"], NoTry}
    BY <1>9, <2>1 DEF SwapLate
  <2>3. late'[t].pc # "LOOKED"
    BY <2>1, <2>2 DEF Try, NoTry
  <2>4. \A u \in Late : u # t => late'[u] = Voided[u]
    BY <1>9, <2>1 DEF SwapLate
  <2>5. step' # "SWAP"
    BY <1>9 DEF SwapLate
  <2>6. Looked' = {}
    BY <1>0, <2>3, <2>4, <2>5, TriesLetGo DEF Looked
  <2>7. [to |-> late[t].to, by |-> late[t].by] \in Looked /\ stage' = late[t].to
    BY <1>9, <2>1 DEF Looked, SwapLate
  <2>8. UNCHANGED rows
    BY <1>9 DEF SwapLate, rows
  <2>. QED
    BY <2>6, <2>7, <2>8 DEF Moves
<1>10. CASE FailExecution
  BY <1>10, <1>c DEF FailExecution, Block, Close, dbVars
<1>11. CASE Bystander \/ \E r \in Requests : SignalWorkflow(r)
  BY <1>11, <1>d, BystanderEffects DEF wfVars
<1>12. CASE Start
  BY <1>12, <1>c DEF Start
<1>. QED
  BY <1>1, <1>2, <1>3, <1>4, <1>5, <1>6, <1>7, <1>8, <1>9, <1>10, <1>11, <1>12, StepCases
  DEF Advance, Stray

\* The campaign never goes back over one of the last two gates.
LEMMA NeverBack ==
  ASSUME IInv, [Next]_vars, NEW g \in {"SHOT_SELECTION", "FINAL"}, stage \in Behind[g]
  PROVE  stage' \in Behind[g]
<1>1. ASSUME NEW a, Moves(a) PROVE stage' \in Behind[g]
  BY <1>1, MoveEffects DEF Moves, IInv
<1>. QED
  BY <1>1, LookSteps DEF Looks, NobodyLooks

-----------------------------------------------------------------------------
(* Each part of the invariant is kept by every step.                       *)

LEMMA AsksStayFounded == IInv /\ [Next]_vars => AsksAreFounded'
<1> SUFFICES ASSUME IInv, [Next]_vars, NEW a \in Asks', NEW g \in Gates, a.to = GateExit[g]
             PROVE  Approves(a.by, g)' \/ (g # "CONCEPT" /\ stage' \in Behind[g])
  BY DEF AsksAreFounded
<1>1. \A i : Approves(i, g) => Approves(i, g)'
  BY ApprovalsOnlyGrow DEF Approves
<1>2. Approves(a.by, g) \/ (g # "CONCEPT" /\ stage \in Behind[g])
      \/ Approves(a.by, g)'
  <2>1. CASE a \in Asks
    BY <2>1 DEF IInv, AsksAreFounded
  <2>2. CASE FreshAsk /\ a = [to |-> target', by |-> held']
    BY <2>2 DEF FreshAsk, Approves
  <2>. QED
    BY <2>1, <2>2, AsksOnlyFresh
<1>3. CASE Approves(a.by, g) \/ Approves(a.by, g)'
  BY <1>1, <1>3
<1>4. CASE g # "CONCEPT" /\ stage \in Behind[g]
  BY <1>4, NeverBack DEF Gates
<1>. QED
  BY <1>2, <1>3, <1>4

LEMMA LookedStaysOpen == IInv /\ [Next]_vars => LookedIsOpen'
<1> SUFFICES ASSUME IInv, [Next]_vars PROVE LookedIsOpen'
  OBVIOUS
<1>0. LookedIsOpen
  BY DEF IInv
<1>1. \A i, g : Approves(i, g) => Approves(i, g)'
  BY ApprovalsOnlyGrow DEF Approves
<1>2. DOMAIN approvals \subseteq DOMAIN approvals'
  BY ApprovalsOnlyGrow
<1>a. ASSUME UNCHANGED stage, NEW b,
             \E e \in CampaignTransitions :
               /\ e.from = stage /\ e.to = b.to
               /\ e.fact # "compositingRepairTargetIsShotSelection",
             \A g \in Gates : stage \notin Behind[g] /\ b.to \in Behind[g] =>
               \E i \in DOMAIN approvals : Approves(i, g)
      PROVE  /\ \E e \in CampaignTransitions :
                  /\ e.from = stage' /\ e.to = b.to
                  /\ e.fact # "compositingRepairTargetIsShotSelection"
             /\ \A g \in Gates : stage' \notin Behind[g] /\ b.to \in Behind[g] =>
                  \E i \in DOMAIN approvals' : Approves(i, g)'
  BY <1>1, <1>2, <1>a
<1>3. ASSUME NEW a, Moves(a) PROVE LookedIsOpen'
  BY <1>3 DEF Moves, LookedIsOpen
<1>4. ASSUME NEW a, Looks(a) PROVE LookedIsOpen'
  <2>1. \A g \in Gates : stage \notin Behind[g] /\ a.to \in Behind[g] =>
          \E i \in DOMAIN approvals : Approves(i, g)
    BY <1>4, LookEffects DEF Looks, LatestDecision, Approves
  <2>2. \E e \in CampaignTransitions :
          /\ e.from = stage /\ e.to = a.to
          /\ e.fact # "compositingRepairTargetIsShotSelection"
    BY <1>4, LookEffects DEF Looks
  <2>3. UNCHANGED stage /\ Looked' = Looked \cup {a}
    BY <1>4 DEF Looks
  <2>. QED
    BY <1>0, <1>a, <2>1, <2>2, <2>3 DEF LookedIsOpen
<1>5. CASE NobodyLooks
  BY <1>0, <1>5, <1>a DEF NobodyLooks, LookedIsOpen
<1>. QED
  BY <1>3, <1>4, <1>5, LookSteps

\* The decision the workflow holds is one it has read as recorded.
LEMMA HeldStaysVerified == IInv /\ [Next]_vars => HeldIsVerified'
<1> SUFFICES ASSUME IInv, [Next]_vars PROVE HeldIsVerified'
  OBVIOUS
<1>0. /\ TypeOK /\ HeldIsVerified /\ IdsName /\ DOMAIN approvals \subseteq DOMAIN approvals'
      /\ \A i \in DOMAIN approvals : approvals'[i] = approvals[i]
      /\ "ASK" \in Asking /\ "LOST" \in Asking /\ "HELD" \notin Asking
      /\ "SWAP" \in Asking /\ "APPLIED" \in Asking /\ "TOP" \notin Asking
  BY ApprovalsOnlyGrow DEF IInv, Asking
<1>1. CASE held' = 0 /\ step' # "HELD"
  BY <1>1 DEF HeldIsVerified
<1>2. CASE UNCHANGED <<status, processed, pendingGate, held>>
           /\ (UNCHANGED step \/ step' \in Asking)
  BY <1>0, <1>2 DEF HeldIsVerified
<1>3. Block => HeldIsVerified'
  BY <1>1 DEF Block, Close
<1>4. CASE Hook
  <2>1. held = 0
    BY <1>0, <1>4, HookEffects DEF HeldIsVerified
  <2>. QED
    BY <1>1, <1>3, <1>4, <2>1, HookEffects DEF Goto, Ask
<1>5. CASE AwaitApproval
  <2>1. held = 0 /\ step = "TOP" /\ held' = held /\ step' = step
    BY <1>0, <1>5 DEF AwaitApproval, ReadyToForward, HeldIsVerified
  <2>. QED
    BY <1>1, <2>1
<1>6. CASE ReceiveSignal
  <2>1. /\ Head(signals) \in DOMAIN approvals /\ Head(signals) # 0
        /\ UNCHANGED <<approvals, processed, pendingGate>>
    BY <1>0, <1>6, HeadTailProperties
    DEF ReceiveSignal, IdsName, TypeOK, LoopOK, Ids, dbVars, wfQuiet
  <2>2. \/ Block
        \/ UNCHANGED <<status, step, held>>
        \/ /\ held' = Head(signals) /\ UNCHANGED status /\ step' \in {"HELD", "ASK"}
           /\ approvals[Head(signals)].gate = pendingGate /\ Head(signals) \notin processed
    BY <1>6 DEF ReceiveSignal, Stale, AskForDecision, Ask
  <2>3. status = "AWAITING_APPROVAL"
    BY <1>6 DEF ReceiveSignal
  <2>. QED
    BY <1>0, <1>2, <1>3, <2>1, <2>2, <2>3 DEF HeldIsVerified
<1>7. CASE VerifyShotSelection
  <2>1. UNCHANGED <<status, processed, pendingGate>> /\ (held' = held \/ held' = 0)
        /\ (step' = "ASK" \/ (step' = "TOP" /\ held' = 0)) /\ (step' = "ASK" => held' = held)
    BY <1>7 DEF VerifyShotSelection, AskForDecision, Ask, wfQuiet
  <2>. QED
    BY <1>0, <1>1, <1>2, <2>1
<1>8. CASE Look
  <2>1. CASE Goto("SWAP") /\ UNCHANGED processed
    BY <1>0, <1>2, <1>8, <2>1 DEF Look, Goto
  <2>2. CASE RepairVariants
    BY <1>0, <1>2, <1>8, <2>2 DEF Look, RepairVariants, Ask
  <2>. QED
    BY <1>3, <1>8, <2>1, <2>2 DEF Look, Refuse
<1>9. CASE Swap
  BY <1>0, <1>2, <1>9 DEF Swap, wfQuiet
<1>10. CASE Answer
  BY <1>1, <1>10 DEF Answer
<1>11. CASE Lose
  BY <1>0, <1>2, <1>3, <1>11 DEF Lose, Refuse
<1>12. CASE Die
  BY <1>0, <1>2, <1>12 DEF Die, wfQuiet
<1>13. ASSUME NEW t \in Late, TimeOut(t) PROVE HeldIsVerified'
  BY <1>0, <1>1, <1>2, <1>13 DEF TimeOut, Close, wfQuiet
<1>14. ASSUME NEW t \in Late, LookLate(t) \/ SwapLate(t) PROVE HeldIsVerified'
  BY <1>0, <1>2, <1>14 DEF LookLate, SwapLate, wfQuiet
<1>15. CASE FailExecution
  BY <1>3, <1>15 DEF FailExecution
<1>16. CASE Bystander \/ \E r \in Requests : SignalWorkflow(r)
  BY <1>2, <1>16, BystanderEffects DEF wfVars
<1>17. CASE Start
  BY <1>1, <1>17 DEF Start
<1>. QED
  BY <1>4, <1>5, <1>6, <1>7, <1>8, <1>9, <1>10, <1>11, <1>12, <1>13, <1>14, <1>15, <1>16, <1>17,
     StepCases DEF Advance, Stray, AtTheGate

\* Where the workflow is agrees with what it is doing.
LEMMA LoopStaysInStep ==
  IInv /\ [Next]_vars => WaitsAtGateStage' /\ AsksAreOpen' /\ Started' /\ NeverAhead'
<1> SUFFICES ASSUME IInv, [Next]_vars
             PROVE  WaitsAtGateStage' /\ AsksAreOpen' /\ Started' /\ NeverAhead'
  OBVIOUS
<1> DEFINE Open(s) == s \in {"RUNNING", "AWAITING_APPROVAL"}
<1>0. /\ WaitsAtGateStage /\ AsksAreOpen /\ Started /\ NeverAhead /\ run \in Nat
      /\ TypeOK /\ late \in [Late -> Try]
      /\ "ASK" \in Asking /\ "LOST" \in Asking /\ "SWAP" \in Asking /\ "APPLIED" \in Asking
      /\ "TOP" \notin Asking /\ "CHILD" \notin Asking /\ "HELD" \notin Asking
  BY DEF IInv, TypeOK, LoopOK, RunOK, Asking
<1>a. NoStage \notin Behind["SHOT_SELECTION"] /\ NoStage \notin Behind["FINAL"]
  BY DEF NoStage, Behind
<1>b. ASSUME UNCHANGED wfStage \/ wfStage' \in {stage, starting},
             starting' \in {starting, stage, NoStage}
      PROVE  NeverAhead'
  <2>1. \A g \in {"SHOT_SELECTION", "FINAL"} : stage \in Behind[g] => stage' \in Behind[g]
    BY NeverBack
  <2>. QED
    BY <1>0, <1>a, <1>b, <2>1 DEF NeverAhead
<1>c. ASSUME status # "NONE", run' = run, late' = late \/ late' = Disowned,
             status' # "AWAITING_APPROVAL" \/ UNCHANGED <<status, wfStage, pendingGate>>,
             step' # "TOP" => Open(status'),
             step' \in Asking \/ late' = Disowned \/ step \notin Asking
      PROVE  WaitsAtGateStage' /\ AsksAreOpen' /\ Started'
  <2>1. \A t \in Late : late'[t].mine => step' \in Asking
    BY <1>0, <1>c, TriesLetGo DEF AsksAreOpen
  <2>. QED
    BY <1>0, <1>c, <2>1 DEF WaitsAtGateStage, AsksAreOpen, Started
<1>d. ASSUME Block, status # "NONE", run' = run
      PROVE  WaitsAtGateStage' /\ AsksAreOpen' /\ Started'
  BY <1>c, <1>d DEF Block, Close
<1>e. ASSUME UNCHANGED <<run, status, wfStage, pendingGate, step, late>>
      PROVE  WaitsAtGateStage' /\ AsksAreOpen' /\ Started'
  BY <1>0, <1>e DEF WaitsAtGateStage, AsksAreOpen, Started
<1>f. ASSUME NEW t \in Late, LookLate(t) \/ SwapLate(t)
      PROVE  run > 0
  <2>1. late[t].pc # "NONE"
    BY <1>f DEF LookLate, SwapLate
  <2>. QED
    BY <1>0, <2>1 DEF Started
<1>1. CASE Hook
  <2>1. /\ status = "RUNNING" /\ step \in {"TOP", "CHILD"}
        /\ UNCHANGED <<run, wfStage, pendingGate, stage, starting>>
    BY <1>1, HookEffects DEF wfQuiet, apiVars
  <2>2. NeverAhead'
    BY <1>b, <2>1
  <2>3. Block \/ (UNCHANGED <<status, late>>)
    BY <1>1, HookEffects DEF Goto
  <2>. QED
    BY <1>0, <1>c, <1>d, <2>1, <2>2, <2>3
<1>2. CASE AtTheGate
  <2>1. UNCHANGED <<run, wfStage, stage, starting>>
    BY <1>2
    DEF AtTheGate, AwaitApproval, ReceiveSignal, VerifyShotSelection, wfQuiet, dbVars, apiVars
  <2>2. NeverAhead'
    BY <1>b, <2>1
  <2>3. CASE AwaitApproval
    <3>1. WaitsAtGateStage'
      BY <2>3 DEF AwaitApproval, WaitsAtGateStage
    <3>2. AsksAreOpen' /\ Started'
      BY <1>0, <2>3 DEF AwaitApproval, ReadyToForward, Working, AsksAreOpen, Started
    <3>. QED
      BY <2>2, <3>1, <3>2
  <2>4. CASE ReceiveSignal
    BY <1>0, <1>c, <1>d, <2>1, <2>2, <2>4 DEF ReceiveSignal, wfQuiet
  <2>5. CASE VerifyShotSelection
    BY <1>0, <1>c, <2>1, <2>2, <2>5 DEF VerifyShotSelection, wfQuiet
  <2>. QED
    BY <1>2, <2>3, <2>4, <2>5 DEF AtTheGate
<1>3. CASE Look
  <2>1. UNCHANGED <<run, wfStage, pendingGate, stage, starting>> /\ step = "ASK"
    BY <1>3 DEF Look, dbVars, apiVars
  <2>2. Open(status)
    BY <1>0, <2>1 DEF AsksAreOpen
  <2>3. Block \/ (/\ UNCHANGED status /\ late' \in {late, Disowned}
                  /\ step' \in {"SWAP", "ASK"})
    BY <1>3 DEF Look, Goto, RepairVariants, Refuse, Ask
  <2>. QED
    BY <1>0, <1>b, <1>c, <1>d, <2>1, <2>2, <2>3
<1>4. CASE Swap
  <2>1. /\ UNCHANGED <<run, wfStage, pendingGate, starting, status>>
        /\ step = "SWAP" /\ step' = "APPLIED" /\ late' = Voided
    BY <1>4 DEF Swap, wfQuiet, apiVars
  <2>2. Open(status)
    BY <1>0, <2>1 DEF AsksAreOpen
  <2>3. WaitsAtGateStage' /\ AsksAreOpen' /\ Started'
    BY <1>0, <2>1, <2>2 DEF WaitsAtGateStage, AsksAreOpen, Started
  <2>. QED
    BY <1>b, <2>1, <2>3
<1>5. CASE Answer
  <2>1. /\ UNCHANGED <<run, stage, starting>> /\ wfStage' = stage
        /\ step' = "TOP" /\ late' = Disowned /\ status' = "RUNNING" /\ step \in Asking
    BY <1>0, <1>5 DEF Answer, Reported, dbVars, apiVars
  <2>2. Open(status)
    BY <1>0, <2>1 DEF AsksAreOpen
  <2>. QED
    BY <1>b, <1>c, <2>1, <2>2
<1>6. CASE Lose
  <2>1. UNCHANGED <<run, wfStage, pendingGate, stage, starting>> /\ step \in Asking
    BY <1>0, <1>6 DEF Lose, dbVars, apiVars
  <2>2. Open(status)
    BY <1>0, <2>1 DEF AsksAreOpen
  <2>3. Block \/ (UNCHANGED <<status, late>> /\ step' = "ASK")
    BY <1>6 DEF Lose, Refuse
  <2>. QED
    BY <1>0, <1>b, <1>c, <1>d, <2>1, <2>2, <2>3
<1>7. CASE Die
  <2>1. /\ UNCHANGED <<run, wfStage, pendingGate, stage, starting, status, late>>
        /\ step \in Asking /\ step' = "ASK"
    BY <1>0, <1>7 DEF Die, dbVars, wfQuiet, apiVars
  <2>2. Open(status)
    BY <1>0, <2>1 DEF AsksAreOpen
  <2>. QED
    BY <1>0, <1>b, <1>c, <2>1, <2>2
<1>8. ASSUME NEW t \in Late, TimeOut(t)
      PROVE  WaitsAtGateStage' /\ AsksAreOpen' /\ Started' /\ NeverAhead'
  <2>1. /\ UNCHANGED <<run, wfStage, pendingGate, stage, starting>> /\ step \in Asking
    BY <1>0, <1>8 DEF TimeOut, TimedOutAt, dbVars, wfQuiet, apiVars
  <2>2. Open(status)
    BY <1>0, <2>1 DEF AsksAreOpen
  <2>3. Disowned \in [Late -> Try] /\ \A u \in Late : ~Disowned[u].mine
    BY <1>0, TriesAreTyped, TriesLetGo DEF TypeOK
  <2>4. \/ step' = "ASK" /\ UNCHANGED status
        \/ Close /\ \A u \in Late : ~late'[u].mine
    BY <1>8, <2>3 DEF TimeOut
  <2>5. WaitsAtGateStage' /\ AsksAreOpen' /\ Started'
    BY <1>0, <2>1, <2>2, <2>4 DEF Close, WaitsAtGateStage, AsksAreOpen, Started
  <2>. QED
    BY <1>b, <2>1, <2>5
<1>9. ASSUME NEW t \in Late, LookLate(t)
      PROVE  WaitsAtGateStage' /\ AsksAreOpen' /\ Started' /\ NeverAhead'
  <2>1. /\ UNCHANGED <<run, wfStage, pendingGate, stage, starting, status, step>>
    BY <1>9 DEF LookLate, dbVars, wfQuiet, apiVars
  <2>2. late'[t].mine => late[t].mine
    <3>1. late'[t] \in {[late[t] EXCEPT !.pc = "LOOKED"], [late[t] EXCEPT !.pc = "DENIED"], NoTry}
          /\ late[t] \in Try
      BY <1>0, <1>9 DEF LookLate
    <3>. QED
      BY <3>1, TriesLetGo DEF Try, NoTry
  <2>3. \A u \in Late : u # t => late'[u] = late[u]
    BY <1>0, <1>9 DEF LookLate
  <2>4. run > 0
    BY <1>9, <1>f
  <2>5. WaitsAtGateStage' /\ AsksAreOpen' /\ Started'
    BY <1>0, <2>1, <2>2, <2>3, <2>4 DEF WaitsAtGateStage, AsksAreOpen, Started
  <2>. QED
    BY <1>b, <2>1, <2>5
<1>10. ASSUME NEW t \in Late, SwapLate(t)
       PROVE  WaitsAtGateStage' /\ AsksAreOpen' /\ Started' /\ NeverAhead'
  <2>1. /\ UNCHANGED <<run, wfStage, pendingGate, starting, status>>
        /\ step' = step \/ (step = "SWAP" /\ step' = "LOST")
    BY <1>10 DEF SwapLate, apiVars
  <2>2. late'[t].mine => late[t].mine
    <3>1. late[t] \in Try /\ Voided \in [Late -> Try]
      BY <1>0, TriesAreTyped DEF TypeOK
    <3>2. late'[t] \in {[late[t] EXCEPT !.pc = "MOVED"], NoTry}
      BY <1>10, <3>1 DEF SwapLate
    <3>. QED
      BY <3>1, <3>2 DEF Try, NoTry
  <2>3. \A u \in Late : u # t => late'[u] = Voided[u]
    <3>1. Voided \in [Late -> Try]
      BY <1>0, TriesAreTyped DEF TypeOK
    <3>. QED
      BY <1>10, <3>1 DEF SwapLate
  <2>4. \A u \in Late : late'[u].mine => late[u].mine
    BY <1>0, <2>2, <2>3, TriesLetGo
  <2>5. run > 0
    BY <1>10, <1>f
  <2>6. WaitsAtGateStage' /\ AsksAreOpen' /\ Started'
    BY <1>0, <2>1, <2>4, <2>5 DEF WaitsAtGateStage, AsksAreOpen, Started
  <2>. QED
    BY <1>b, <2>1, <2>6
<1>11. CASE FailExecution
  BY <1>b, <1>d, <1>11 DEF FailExecution, dbVars, wfQuiet, apiVars
<1>12. CASE Bystander
  <2>1. /\ UNCHANGED <<run, status, wfStage, pendingGate, step, late>>
        /\ starting' \in {starting, stage, NoStage}
    BY <1>12, BystanderEffects DEF wfVars
  <2>. QED
    BY <1>b, <1>e, <2>1
<1>13. CASE Start
  <2>1. \A t \in Late : ~late[t].mine
    BY <1>0, <1>13 DEF Start, AsksAreOpen
  <2>2. WaitsAtGateStage' /\ AsksAreOpen' /\ Started'
    BY <1>0, <1>13, <2>1 DEF Start, WaitsAtGateStage, AsksAreOpen, Started
  <2>. QED
    BY <1>b, <1>13, <2>2 DEF Start
<1>14. CASE \E r \in Requests : SignalWorkflow(r)
  BY <1>b, <1>e, <1>14, BystanderEffects
<1>. QED
  BY <1>1, <1>2, <1>3, <1>4, <1>5, <1>6, <1>7, <1>8, <1>9, <1>10, <1>11, <1>12, <1>13, <1>14,
     StepCases DEF Advance, Stray

-----------------------------------------------------------------------------

\* The invariant is inductive.
THEOREM Inductive == Spec => []IInv
<1>1. Init => IInv
  <2> SUFFICES ASSUME Init PROVE IInv
    OBVIOUS
  <2>1. Looked = {} /\ Asks = {}
    BY DEF Init, Looked, Asks, Asking, NoTry
  <2>2. AsksAreFounded /\ LookedIsOpen
    BY <2>1 DEF AsksAreFounded, LookedIsOpen
  <2>3. RequestsFilledIn /\ IdsName /\ HeldIsVerified /\ WaitsAtGateStage
    BY DEF Init, RequestsFilledIn, IdsName, HeldIsVerified, WaitsAtGateStage, NoRequest
  <2>4. AsksAreOpen /\ NeverAhead /\ Started
    BY DEF Init, AsksAreOpen, NeverAhead, Started, NoTry, NoStage, Behind
  <2>. QED
    BY <2>2, <2>3, <2>4, TypeInit DEF IInv
<1>2. IInv /\ [Next]_vars => IInv'
  BY TypeStep, RequestsStayFilledIn, IdsStayNames, HeldStaysVerified, LoopStaysInStep,
     AsksStayFounded, LookedStaysOpen DEF IInv
<1>. QED
  BY <1>1, <1>2, PTL DEF Spec

\* Every variable keeps its type, whatever the reviewers, requests and bounds.
THEOREM TypeCorrect == Spec => []TypeOK
<1>1. IInv => TypeOK
  BY DEF IInv
<1>. QED
  BY <1>1, Inductive, PTL

-----------------------------------------------------------------------------
(* The gates hold.                                                         *)

\* A gate is crossed out of its stage, into its exit, by an execution that has
\* looked.
LEMMA CrossingEffects ==
  ASSUME IInv, [Next]_vars, NEW g \in Gates, stage \notin Behind[g], stage' \in Behind[g]
  PROVE  \E a \in Looked :
           /\ Moves(a) /\ stage' = a.to
           /\ stage = GateStage[g] /\ a.to = GateExit[g]
           /\ \E i \in DOMAIN approvals : Approves(i, g)
<1>1. PICK a : Moves(a)
  BY LookSteps DEF Looks, NobodyLooks
<1>. QED
  BY <1>1, MoveEffects DEF Moves, IInv

\* No path through the stages, automatic or human, through any run, leads
\* behind a gate that no persisted approval has ever opened.
GatesHold ==
  \A g \in Gates :
    stage \in Behind[g] =>
      \E i \in DOMAIN approvals :
        approvals[i].gate = g /\ approvals[i].decision = "APPROVED"

\* Whatever the runs, restarts, requests and executions let go of, the campaign
\* is behind a gate only with an approval of that gate on record.
THEOREM GatesAlwaysHold == Spec => []GatesHold
<1>1. Init => GatesHold
  BY DEF Init, GatesHold, Gates, Behind
<1>2. IInv /\ GatesHold /\ [Next]_vars => GatesHold'
  <2> SUFFICES ASSUME IInv, GatesHold, [Next]_vars, NEW g \in Gates, stage' \in Behind[g]
               PROVE  \E i \in DOMAIN approvals' :
                        approvals'[i].gate = g /\ approvals'[i].decision = "APPROVED"
    BY DEF GatesHold
  <2>1. \E i \in DOMAIN approvals :
          approvals[i].gate = g /\ approvals[i].decision = "APPROVED"
    BY CrossingEffects DEF GatesHold, Approves
  <2>. QED
    BY <2>1, ApprovalsOnlyGrow
<1>. QED
  BY <1>1, <1>2, Inductive, PTL DEF Spec

\* Whoever takes the campaign over a gate does so for a verified approval of that
\* gate: the work of a stage, an automatic step and a repair never do, in time or
\* late.
THEOREM DecisionsAloneCross == Spec => OnlyDecisionsCross
<1>1. ASSUME IInv, [Next]_vars
      PROVE  [\A g \in Gates :
               stage \notin Behind[g] /\ stage' \in Behind[g] =>
                 \E a \in Looked :
                   /\ a.to = stage' /\ a.by \in DOMAIN approvals
                   /\ approvals[a.by].gate = g /\ approvals[a.by].decision = "APPROVED"]_vars
  <2>1. ASSUME NEW g \in Gates, stage \notin Behind[g], stage' \in Behind[g]
        PROVE  \E a \in Looked :
                 /\ a.to = stage' /\ a.by \in DOMAIN approvals
                 /\ approvals[a.by].gate = g /\ approvals[a.by].decision = "APPROVED"
    <3>1. PICK a \in Looked : a.to = stage' /\ a.to = GateExit[g]
      BY <1>1, <2>1, CrossingEffects
    <3>2. Approves(a.by, g)
      BY <1>1, <2>1, <3>1, LookedAsk DEF IInv, AsksAreFounded
    <3>. QED
      BY <3>1, <3>2 DEF Approves
  <2>. QED
    BY <2>1
<1>. QED
  BY <1>1, Inductive, PTL DEF Spec, OnlyDecisionsCross

-----------------------------------------------------------------------------
(* The refinement.                                                         *)

\* The latest row of a gate is the one TheOneIn picks.
LEMMA LatestIsOne ==
  ASSUME TypeOK, NEW g, NEW i \in LatestAt(g)
  PROVE  TheOneIn(LatestAt(g)) = i
<1>1. TheOneIn(LatestAt(g)) \in LatestAt(g)
  BY DEF TheOneIn
<1>2. \A j \in LatestAt(g) : j \in Nat
  BY DEF LatestAt, TypeOK, ApprovalsOK
<1>3. \A j, k \in LatestAt(g) : j <= k
  BY DEF LatestAt, IsLatest
<1>. QED
  BY <1>1, <1>2, <1>3

\* The gates read an approval off the rows whenever the service does.
LEMMA ApprovedIsDecided ==
  ASSUME TypeOK, NEW g \in Gates, LatestDecision(g, {"APPROVED"})
  PROVE  decided[g] = "APPROVED"
<1>1. PICK i \in LatestAt(g) : approvals[i].decision = "APPROVED"
  BY DEF LatestDecision, LatestAt
<1>. QED
  BY <1>1, LatestIsOne DEF decided

\* A new row is the latest decision at its gate, and at no other.
LEMMA RecordingDecides ==
  ASSUME IInv, NEW r \in Requests, RecordApproval(r), [Next]_vars,
         NEW g, g = req[r].gate, NEW n, n = Len(approvals) + 1
  PROVE  g \in Gates /\ decided' = [decided EXCEPT ![g] = req[r].decision]
<1>0. /\ TypeOK /\ TypeOK' /\ g \in Gates
      /\ approvals \in Seq(Approval) /\ approvals' \in Seq(Approval)
      /\ n \in Nat /\ n \notin DOMAIN approvals /\ DOMAIN approvals' = DOMAIN approvals \cup {n}
      /\ approvals'[n].gate = g /\ approvals'[n].decision = req[r].decision
      /\ \A i \in DOMAIN approvals : approvals'[i] = approvals[i] /\ i \in Nat /\ i < n
  <2>1. TypeOK /\ TypeOK' /\ g \in Gates
    BY TypeStep DEF IInv, RequestsFilledIn, RecordApproval
  <2>2. approvals \in Seq(Approval) /\ approvals' \in Seq(Approval)
    BY <2>1 DEF TypeOK, ApprovalsOK
  <2>. QED
    BY <2>1, <2>2 DEF RecordApproval
<1>1. n \in LatestAt(g)'
  BY <1>0 DEF LatestAt, IsLatest
<1>2. decided'[g] = req[r].decision
  <2>1. TheOneIn(LatestAt(g)') = n
    <3>1. TheOneIn(LatestAt(g)') \in LatestAt(g)'
      BY <1>1 DEF TheOneIn
    <3>2. \A j \in LatestAt(g)' : j \in Nat /\ j <= n /\ n <= j
      BY <1>0, <1>1 DEF LatestAt, IsLatest
    <3>. QED
      BY <1>0, <3>1, <3>2
  <2>. QED
    BY <1>0, <1>1, <2>1 DEF decided
<1>3. ASSUME NEW h \in Gates, h # g PROVE decided'[h] = decided[h]
  <2>1. LatestAt(h)' = LatestAt(h)
    BY <1>0, <1>3 DEF LatestAt, IsLatest
  <2>2. LatestAt(h) # {} => approvals'[TheOneIn(LatestAt(h))] = approvals[TheOneIn(LatestAt(h))]
    BY <1>0 DEF TheOneIn, LatestAt
  <2>. QED
    BY <2>1, <2>2 DEF decided
<1>4. decided = [h \in Gates |-> decided[h]] /\ decided' = [h \in Gates |-> decided'[h]]
  BY DEF decided
<1>. QED
  BY <1>0, <1>2, <1>3, <1>4

\* The gates that may be crossed from where the campaign is.
LEMMA OneGateAtATime ==
  ASSUME NEW g \in Gates, NEW h \in Gates, GateStage[g] = GateStage[h]
  PROVE  g = h
BY DEF Gates, GateStage

\* A move crosses the gate it was asked for, goes back over CONCEPT, or stays on
\* the same side of every gate.
LEMMA MovesInTurn ==
  ASSUME IInv, [Next]_vars, NEW a, Moves(a)
  PROVE  Protocol!Next /\ UNCHANGED decided
<1>0. /\ UNCHANGED approvals /\ stage' = a.to /\ a \in Looked /\ LookedIsOpen
  BY DEF Moves, IInv, rows
<1>1. UNCHANGED decided
  BY <1>0 DEF decided, LatestAt, IsLatest
<1>2. opened' = {}
  BY DEF Moves, opened
<1>3. ASSUME NEW g \in Gates, stage \notin Behind[g], a.to \in Behind[g]
      PROVE  Protocol!Cross(g)
  <2>1. stage = GateStage[g] /\ a.to = GateExit[g]
    BY <1>0, <1>3, MoveEffects
  <2>2. g \in opened
    BY <1>0, <2>1 DEF opened
  <2>3. crossed = EarlierGates[g] /\ crossed' = crossed \cup {g}
    BY <1>0, <2>1, GatesInTurn DEF crossed
  <2>. QED
    BY <1>1, <1>2, <2>2, <2>3 DEF Protocol!Cross
<1>4. CASE stage \in Behind["CONCEPT"] /\ a.to \notin Behind["CONCEPT"]
  <2>1. stage = "SCRIPT_REVIEW" /\ a.to = "CONCEPT_REVIEW"
    BY <1>0, <1>4, MoveEffects
  <2>2. crossed = {"CONCEPT"} /\ crossed' = {}
    BY <1>0, <2>1 DEF crossed, Gates, Behind, Stages
  <2>3. Protocol!GoBack("CONCEPT")
    BY <1>1, <1>2, <2>2 DEF Protocol!GoBack, EarlierGates
  <2>. QED
    BY <1>1, <2>3 DEF Protocol!Next, Gates
<1>5. CASE \A g \in Gates : stage \in Behind[g] <=> a.to \in Behind[g]
  <2>1. UNCHANGED crossed
    BY <1>0, <1>5 DEF crossed
  <2>. QED
    BY <1>1, <1>2, <2>1 DEF Protocol!Next, Protocol!GiveUp
<1>6. \A g \in Gates \ {"CONCEPT"} : stage \in Behind[g] => a.to \in Behind[g]
  BY <1>0, MoveEffects DEF Gates
<1>. QED
  BY <1>1, <1>3, <1>4, <1>5, <1>6 DEF Protocol!Next

\* Whoever looks and finds the way out of a gate open opens the gate.
LEMMA LooksOpen ==
  ASSUME IInv, NEW a, Looks(a)
  PROVE  [Protocol!Next]_<<decided, opened, crossed>>
<1>0. UNCHANGED <<stage, approvals>> /\ Looked' = Looked \cup {a} /\ MayMove(a.to)
  BY DEF Looks, rows
<1>1. UNCHANGED decided /\ UNCHANGED crossed
  BY <1>0 DEF decided, LatestAt, IsLatest, crossed
<1>2. ASSUME NEW g \in Gates, stage = GateStage[g], a.to = GateExit[g]
      PROVE  Protocol!Next
  <2>1. opened' = opened \cup {g}
    BY <1>0, <1>2, OneGateAtATime DEF opened
  <2>2. crossed = EarlierGates[g] /\ stage \notin Behind[g] /\ a.to \in Behind[g]
    <3>1. {h \in Gates : stage \in Behind[h]} = EarlierGates[g]
          /\ {h \in Gates : a.to \in Behind[h]} = EarlierGates[g] \cup {g}
      BY <1>2, GatesInTurn
    <3>2. g \notin EarlierGates[g]
      BY DEF Gates, EarlierGates
    <3>. QED
      BY <3>1, <3>2 DEF crossed
  <2>3. decided[g] = "APPROVED"
    BY <1>0, <2>2, LookEffects, ApprovedIsDecided DEF IInv
  <2>4. Protocol!Open(g)
    BY <1>1, <2>1, <2>2, <2>3 DEF Protocol!Open
  <2>. QED
    BY <2>4 DEF Protocol!Next
<1>3. CASE \A g \in Gates : ~(stage = GateStage[g] /\ a.to = GateExit[g])
  <2>1. UNCHANGED opened
    BY <1>0, <1>3 DEF opened
  <2>. QED
    BY <1>1, <2>1
<1>. QED
  BY <1>2, <1>3

\* Rows, workflow, executions however late, requests and restarts together
\* implement the protocol of the gates.
THEOREM GatesAreKept == Spec => KeepsGateProtocol
<1>1. Init => Protocol!Init
  <2> SUFFICES ASSUME Init PROVE Protocol!Init
    OBVIOUS
  <2>1. decided = [g \in Gates |-> "NONE"] /\ crossed = {}
    BY DEF Init, decided, crossed, LatestAt, Gates, Behind
  <2>2. opened = {}
    BY DEF Init, opened, Gates, GateStage
  <2>. QED
    BY <2>1, <2>2 DEF Protocol!Init
<1>2. ASSUME IInv, [Next]_vars PROVE [Protocol!Next]_<<decided, opened, crossed>>
  <2>1. ASSUME NEW r \in Requests, RecordApproval(r)
        PROVE  Protocol!Next
    <3>1. UNCHANGED crossed
      BY <2>1 DEF RecordApproval, crossed
    <3>2. UNCHANGED opened
      <4>1. UNCHANGED <<stage, step, target, held, late>>
        BY <2>1 DEF RecordApproval, wfVars
      <4>. QED
        BY <4>1 DEF opened, Looked
    <3>3. req[r].gate \in Gates /\ req[r].decision \in DecisionValues
      BY <1>2, <2>1 DEF IInv, RequestsFilledIn, RecordApproval
    <3>4. decided' = [decided EXCEPT ![req[r].gate] = req[r].decision]
      BY <1>2, <2>1, RecordingDecides
    <3>. QED
      BY <3>1, <3>2, <3>3, <3>4
      DEF Protocol!Next, Protocol!Decide, DecisionValues
  <2>2. CASE UNCHANGED approvals /\ NobodyLooks
    <3>1. UNCHANGED <<decided, crossed>>
      BY <2>2 DEF decided, LatestAt, IsLatest, crossed, NobodyLooks
    <3>2. opened' \in SUBSET opened
      BY <2>2 DEF opened, NobodyLooks
    <3>. QED
      BY <3>1, <3>2 DEF Protocol!Next, Protocol!GiveUp
  <2>3. ASSUME NEW a, Moves(a) PROVE Protocol!Next
    BY <1>2, <2>3, MovesInTurn
  <2>4. ASSUME NEW a, Looks(a) PROVE [Protocol!Next]_<<decided, opened, crossed>>
    BY <1>2, <2>4, LooksOpen
  <2>. QED
    BY <1>2, <2>1, <2>2, <2>3, <2>4, LookSteps, RowsAreRecorded
<1>. QED
  BY <1>1, <1>2, Inductive, PTL DEF Spec, KeepsGateProtocol, Protocol!Spec

-----------------------------------------------------------------------------
(* The revisions.                                                          *)

\* What was applied is on record, and a revision that is about to be applied is
\* still within the bound.
AppliedIsRecorded ==
  /\ processed \subseteq DOMAIN approvals
  /\ held # 0 /\ approvals[held].decision # "APPROVED" =>
       revisionCounts[pendingGate] < MaxRevisionsPerGate

\* The first execution starts, and between two asks works, at the campaign's
\* stage.
FirstRunIsCurrent ==
  /\ run = 0 => starting \in {NoStage, stage}
  /\ /\ status \in {"RUNNING", "AWAITING_APPROVAL"} /\ run = 1
     /\ step \notin Asking /\ ~astray
     => wfStage = stage

RInv == AppliedIsRecorded /\ RevisionsBounded /\ FirstRunIsCurrent

-----------------------------------------------------------------------------
(* Counting.                                                               *)

\* The revisions applied at a gate can be counted.
LEMMA AppliedIsFinite ==
  ASSUME TypeOK, NEW g \in Gates
  PROVE  IsFiniteSet(RevisionsApplied(g)) /\ Cardinality(RevisionsApplied(g)) \in Nat
<1>1. IsFiniteSet(Ids)
  BY Bounds, FS_Interval DEF Ids
<1>2. RevisionsApplied(g) \subseteq Ids
  BY DEF RevisionsApplied, TypeOK, RunOK
<1>. QED
  BY <1>1, <1>2, FS_Subset, FS_CardinalityType

\* A step that applies nothing leaves what was applied as it is.
LEMMA AppliedIsKept ==
  ASSUME AppliedIsRecorded, UNCHANGED processed, NEW g \in Gates,
         DOMAIN approvals \subseteq DOMAIN approvals',
         \A i \in DOMAIN approvals : approvals'[i] = approvals[i]
  PROVE  RevisionsApplied(g)' = RevisionsApplied(g)
BY DEF AppliedIsRecorded, RevisionsApplied

\* Steps that apply no decision, and do not take a blocked workflow up again.
LEMMA CountsAreKept ==
  ASSUME IInv, RInv, [Next]_vars, UNCHANGED <<processed, revisionCounts>>,
         status = "BLOCKED" => status' = "BLOCKED"
  PROVE  RevisionsBounded' /\ processed' \subseteq DOMAIN approvals'
<1>1. /\ DOMAIN approvals \subseteq DOMAIN approvals'
      /\ \A i \in DOMAIN approvals : approvals'[i] = approvals[i]
  BY ApprovalsOnlyGrow
<1>2. \A g \in Gates : RevisionsApplied(g)' = RevisionsApplied(g)
  BY <1>1, AppliedIsKept DEF RInv
<1>3. RevisionsBounded'
  BY <1>2 DEF RInv, RevisionsBounded
<1>. QED
  BY <1>1, <1>3 DEF RInv, AppliedIsRecorded

\* Nothing but a start request takes a blocked workflow up again, and nothing but an
\* answer or a start touches the counts; a refusal uses its decision up, and closes.
LEMMA OthersCountNothing ==
  ASSUME IInv, [Next]_vars, ~Answer, ~Start
  PROVE  /\ UNCHANGED <<revisionCounts, run>>
         /\ status = "BLOCKED" => status' = "BLOCKED"
         /\ UNCHANGED processed
            \/ (processed' = Consumed /\ status' = "BLOCKED" /\ UNCHANGED approvals)
<1>0. AsksAreOpen /\ "BLOCKED" \notin {"RUNNING", "AWAITING_APPROVAL"}
  BY DEF IInv
<1>1. CASE Hook
  BY <1>1, HookEffects DEF wfQuiet
<1>2. CASE AtTheGate
  BY <1>2 DEF AtTheGate, AwaitApproval, ReadyToForward, Working, ReceiveSignal,
     VerifyShotSelection, wfQuiet
<1>3. CASE FailExecution
  BY <1>3 DEF FailExecution, wfQuiet
<1>4. CASE Look
  BY <1>0, <1>4 DEF Look, Refuse, Block, Close, RepairVariants, dbVars, AsksAreOpen
<1>5. CASE Swap
  BY <1>5 DEF Swap, wfQuiet
<1>6. CASE Lose
  BY <1>0, <1>6 DEF Lose, Refuse, Block, Close, dbVars, AsksAreOpen
<1>7. CASE Die \/ \E t \in Late : TimeOut(t)
  BY <1>0, <1>7 DEF Die, TimeOut, TimedOutAt, Close, wfQuiet, AsksAreOpen
<1>8. CASE Stray
  BY <1>8 DEF Stray, LookLate, SwapLate, wfQuiet
<1>9. CASE Bystander \/ \E r \in Requests : SignalWorkflow(r)
  BY <1>9, BystanderEffects DEF wfVars
<1>. QED
  BY <1>1, <1>2, <1>3, <1>4, <1>5, <1>6, <1>7, <1>8, <1>9, StepCases DEF Advance

\* The decision at hand, after it was used up.
LEMMA ConsumedAdds ==
  ASSUME IInv, RInv, UNCHANGED approvals, processed' = Consumed, NEW g \in Gates
  PROVE  /\ processed' \subseteq DOMAIN approvals'
         /\ RevisionsApplied(g)' =
              IF held # 0 /\ g = pendingGate /\ approvals[held].decision # "APPROVED"
              THEN RevisionsApplied(g) \cup {held} ELSE RevisionsApplied(g)
         /\ held \notin RevisionsApplied(g)
         /\ Cardinality(RevisionsApplied(g) \cup {held}) = Cardinality(RevisionsApplied(g)) + 1
         /\ Cardinality(RevisionsApplied(g)) \in Nat
<1>1. /\ held # 0 => held \in DOMAIN approvals /\ held \notin processed
                     /\ approvals[held].gate = pendingGate
      /\ processed \subseteq DOMAIN approvals /\ TypeOK
  BY DEF IInv, RInv, HeldIsVerified, AppliedIsRecorded
<1>2. 0 \notin processed
  BY <1>1 DEF TypeOK, RunOK, Ids
<1>3. held \notin RevisionsApplied(g)
  BY <1>1, <1>2 DEF RevisionsApplied
<1>4. Cardinality(RevisionsApplied(g) \cup {held}) = Cardinality(RevisionsApplied(g)) + 1
      /\ Cardinality(RevisionsApplied(g)) \in Nat
  BY <1>1, <1>3, AppliedIsFinite, FS_AddElement
<1>5. CASE held = 0
  BY <1>1, <1>3, <1>4, <1>5 DEF Consumed, RevisionsApplied
<1>6. CASE held # 0
  <2>1. processed' = processed \cup {held}
    BY <1>6 DEF Consumed
  <2>. QED
    BY <1>1, <1>3, <1>4, <1>6, <2>1 DEF RevisionsApplied
<1>. QED
  BY <1>5, <1>6

\* A refused decision counts no revision.
LEMMA RefusalCountsNothing ==
  ASSUME IInv, RInv, UNCHANGED <<approvals, revisionCounts>>, processed' = Consumed,
         status' = "BLOCKED"
  PROVE  RevisionsBounded' /\ processed' \subseteq DOMAIN approvals'
<1>1. revisionCounts \in [Gates -> Nat] /\ RevisionsBounded
  BY DEF IInv, RInv, TypeOK, RunOK
<1>2. ASSUME NEW g \in Gates
      PROVE  /\ Cardinality(RevisionsApplied(g)) \in Nat /\ Cardinality(RevisionsApplied(g)') \in Nat
             /\ Cardinality(RevisionsApplied(g)') >= Cardinality(RevisionsApplied(g))
  <2>1. /\ Cardinality(RevisionsApplied(g)) \in Nat
        /\ Cardinality(RevisionsApplied(g) \cup {held}) = Cardinality(RevisionsApplied(g)) + 1
        /\ RevisionsApplied(g)' \in {RevisionsApplied(g), RevisionsApplied(g) \cup {held}}
    BY ConsumedAdds
  <2>. QED
    BY <2>1
<1>4. RevisionsBounded'
  BY <1>1, <1>2, Bounds DEF RevisionsBounded
<1>. QED
  BY <1>4, ConsumedAdds DEF Gates

\* The answer to an ask counts its decision, once.
LEMMA DecisionIsCounted ==
  ASSUME IInv, RInv, [Next]_vars, Answer
  PROVE  RevisionsBounded' /\ processed' \subseteq DOMAIN approvals'
<1> DEFINE counts == held # 0 /\ approvals[held].decision # "APPROVED"
<1>0. /\ TypeOK /\ RevisionsBounded /\ AppliedIsRecorded /\ HeldIsVerified
      /\ revisionCounts \in [Gates -> Nat] /\ MaxRevisionsPerGate \in Nat
  BY Bounds DEF IInv, RInv, TypeOK, RunOK
<1>1. /\ UNCHANGED approvals /\ processed' = Consumed /\ step # "TOP"
      /\ revisionCounts' = IF counts THEN [revisionCounts EXCEPT ![pendingGate] = @ + 1]
                           ELSE revisionCounts
  BY DEF Answer, Answered, dbVars
<1>2. status # "BLOCKED"
  BY <1>1 DEF IInv, AsksAreOpen
<1>3. counts => pendingGate \in Gates /\ revisionCounts[pendingGate] < MaxRevisionsPerGate
  BY <1>0 DEF HeldIsVerified, AppliedIsRecorded, IInv, WaitsAtGateStage
<1>4. ASSUME NEW g \in Gates
      PROVE  /\ revisionCounts'[g] <= MaxRevisionsPerGate
             /\ revisionCounts'[g] = Cardinality(RevisionsApplied(g)')
  <2>0. /\ revisionCounts[g] \in Nat /\ revisionCounts[g] <= MaxRevisionsPerGate
        /\ revisionCounts[g] = Cardinality(RevisionsApplied(g))
    BY <1>0, <1>2 DEF RevisionsBounded
  <2>1. CASE g # pendingGate \/ ~counts
    <3>1. revisionCounts'[g] = revisionCounts[g]
      BY <1>0, <1>1, <1>3, <2>1
    <3>2. RevisionsApplied(g)' = RevisionsApplied(g)
      BY <1>1, <2>1, ConsumedAdds
    <3>. QED
      BY <2>0, <3>1, <3>2
  <2>2. CASE g = pendingGate /\ counts
    <3>1. revisionCounts'[g] = revisionCounts[g] + 1
      BY <1>0, <1>1, <2>2
    <3>2. Cardinality(RevisionsApplied(g)') = revisionCounts[g] + 1
      BY <1>1, <2>0, <2>2, ConsumedAdds
    <3>. QED
      BY <1>0, <1>3, <2>0, <2>2, <3>1, <3>2
  <2>. QED
    BY <2>1, <2>2
<1>5. RevisionsBounded'
  <2>1. \A g \in Gates : revisionCounts'[g] \in Nat
    BY <1>0, <1>1, <1>3
  <2>. QED
    BY <1>4, <2>1 DEF RevisionsBounded
<1>. QED
  BY <1>1, <1>5, ConsumedAdds DEF Gates

\* A start counts from nothing.
LEMMA StartCountsNothing ==
  ASSUME Start
  PROVE  RevisionsBounded' /\ processed' \subseteq DOMAIN approvals'
<1>1. processed' = {} /\ revisionCounts' = [g \in Gates |-> 0]
  BY DEF Start
<1>2. \A g \in Gates : RevisionsApplied(g)' = {}
  BY <1>1 DEF RevisionsApplied
<1>3. \A g \in Gates : Cardinality(RevisionsApplied(g)') = 0 /\ revisionCounts'[g] = 0
  BY <1>1, <1>2, FS_EmptySet
<1>. QED
  BY <1>1, <1>3, Bounds DEF RevisionsBounded

LEMMA CountsStayBounded ==
  IInv /\ RInv /\ [Next]_vars => RevisionsBounded' /\ processed' \subseteq DOMAIN approvals'
BY CountsAreKept, OthersCountNothing, RefusalCountsNothing, DecisionIsCounted,
   StartCountsNothing

\* A decision is held only after the bound has been looked at, and nothing counts
\* while it is held.
LEMMA HeldStaysBounded ==
  ASSUME IInv, RInv, [Next]_vars, held' # 0, approvals'[held'].decision # "APPROVED"
  PROVE  revisionCounts'[pendingGate'] < MaxRevisionsPerGate
<1>0. /\ TypeOK /\ AppliedIsRecorded /\ HeldIsVerified /\ IdsName /\ WaitsAtGateStage
      /\ \A i \in DOMAIN approvals : approvals'[i] = approvals[i]
      /\ revisionCounts \in [Gates -> Nat] /\ MaxRevisionsPerGate \in Nat
  BY ApprovalsOnlyGrow, Bounds DEF IInv, RInv, TypeOK, RunOK
<1>1. CASE UNCHANGED <<held, revisionCounts, pendingGate>>
  BY <1>0, <1>1 DEF AppliedIsRecorded, HeldIsVerified
<1>2. ~Block /\ ~Close
  BY DEF Block, Close
<1>3. CASE Hook
  BY <1>1, <1>2, <1>3, HookEffects DEF Goto, wfQuiet
<1>4. CASE AwaitApproval
  <2>1. held = 0 /\ held' = held
    BY <1>0, <1>4 DEF AwaitApproval, ReadyToForward, Working, HeldIsVerified
  <2>. QED
    BY <2>1
<1>5. CASE ReceiveSignal
  <2>1. UNCHANGED <<approvals, revisionCounts, pendingGate>> /\ status = "AWAITING_APPROVAL"
    BY <1>5 DEF ReceiveSignal, dbVars, wfQuiet
  <2>2. UNCHANGED held \/ (held' = Head(signals) /\ ~BoundExceeded(Head(signals)))
    BY <1>2, <1>5 DEF ReceiveSignal, AskForDecision
  <2>3. pendingGate \in Gates
    BY <1>0, <2>1 DEF WaitsAtGateStage
  <2>. QED
    BY <1>0, <1>1, <2>1, <2>2, <2>3 DEF BoundExceeded
<1>6. CASE VerifyShotSelection
  BY <1>1, <1>6 DEF VerifyShotSelection, AskForDecision, wfQuiet
<1>7. CASE Look \/ Lose
  BY <1>1, <1>2, <1>7 DEF Look, Lose, Refuse, Goto, RepairVariants
<1>8. CASE Swap \/ Die \/ \E t \in Late : TimeOut(t)
  BY <1>1, <1>2, <1>8 DEF Swap, Die, TimeOut, wfQuiet
<1>9. CASE Answer
  BY <1>9 DEF Answer
<1>10. CASE Stray
  BY <1>1, <1>10 DEF Stray, LookLate, SwapLate, wfQuiet
<1>11. CASE FailExecution
  BY <1>2, <1>11 DEF FailExecution
<1>12. CASE Bystander \/ \E r \in Requests : SignalWorkflow(r)
  BY <1>1, <1>12, BystanderEffects DEF wfVars
<1>13. CASE Start
  BY <1>13 DEF Start
<1>. QED
  BY <1>3, <1>4, <1>5, <1>6, <1>7, <1>8, <1>9, <1>10, <1>11, <1>12, <1>13, StepCases
  DEF Advance, AtTheGate

\* No worker is at work before the first start, and the first execution takes the
\* database's stage along with its own: it learns of the moves of its own asks by
\* their answers.
LEMMA FirstRunStaysCurrent == IInv /\ RInv /\ [Next]_vars => FirstRunIsCurrent'
<1> SUFFICES ASSUME IInv, RInv, [Next]_vars PROVE FirstRunIsCurrent'
  OBVIOUS
<1> USE DEF FirstRunIsCurrent
<1>0. /\ FirstRunIsCurrent /\ Started /\ AsksAreOpen /\ TypeOK /\ run \in Nat
      /\ "TOP" \notin Asking /\ "CHILD" \notin Asking /\ "HELD" \notin Asking
      /\ "ASK" \in Asking /\ "SWAP" \in Asking /\ "APPLIED" \in Asking /\ "LOST" \in Asking
  BY DEF IInv, RInv, TypeOK, RunOK, Asking
<1>1. CASE UNCHANGED <<stage, run, status, wfStage, step, astray>>
           /\ starting' \in {starting, stage, NoStage}
  BY <1>0, <1>1
<1>2. CASE status # "NONE" /\ UNCHANGED run
           /\ (status' = "BLOCKED" \/ step' \in Asking \/ wfStage' = stage' \/ astray')
  BY <1>0, <1>2 DEF Started
<1>3. step # "TOP" => status # "NONE"
  BY <1>0 DEF AsksAreOpen
<1>4. Block \/ Close => status' = "BLOCKED"
  BY DEF Block, Close
<1>5. CASE Hook
  <2>1. /\ status = "RUNNING" /\ step \in {"TOP", "CHILD"}
        /\ UNCHANGED <<stage, run, wfStage, astray, starting>>
    BY <1>5, HookEffects DEF wfQuiet, apiVars
  <2>2. Block \/ step' \in Asking \/ (Goto("CHILD") /\ CheckCompositingSelection)
    BY <1>0, <1>5, HookEffects DEF Ask
  <2>3. Goto("CHILD") => FirstRunIsCurrent'
    BY <1>0, <2>1 DEF Goto
  <2>. QED
    BY <1>2, <1>4, <2>1, <2>2, <2>3
<1>6. CASE AtTheGate
  <2>1. /\ status \in {"RUNNING", "AWAITING_APPROVAL"} /\ step \in {"TOP", "HELD"}
        /\ UNCHANGED <<stage, run, wfStage, astray, starting>>
    BY <1>6
    DEF AtTheGate, AwaitApproval, ReadyToForward, Working, ReceiveSignal, VerifyShotSelection,
        wfQuiet, dbVars, apiVars
  <2>. QED
    BY <1>0, <2>1
<1>7. CASE Look \/ Lose
  <2>1. step # "TOP" /\ UNCHANGED run
    BY <1>0, <1>7 DEF Look, Lose
  <2>2. status' = "BLOCKED" \/ step' \in Asking
    BY <1>0, <1>4, <1>7 DEF Look, Lose, Refuse, Goto, RepairVariants, Ask
  <2>. QED
    BY <1>2, <1>3, <2>1, <2>2
<1>8. CASE Swap \/ Die \/ \E t \in Late : TimeOut(t)
  <2>1. step # "TOP" /\ UNCHANGED run
    BY <1>0, <1>8 DEF Swap, Die, TimeOut, TimedOutAt, wfQuiet
  <2>2. status' = "BLOCKED" \/ step' \in Asking
    BY <1>0, <1>4, <1>8 DEF Swap, Die, TimeOut
  <2>. QED
    BY <1>2, <1>3, <2>1, <2>2
<1>9. CASE Answer
  <2>1. step # "TOP" /\ UNCHANGED run /\ wfStage' = stage'
    BY <1>9 DEF Answer, Reported, dbVars
  <2>. QED
    BY <1>2, <1>3, <2>1
<1>10. ASSUME NEW t \in Late, LookLate(t) PROVE FirstRunIsCurrent'
  BY <1>1, <1>10 DEF LookLate, dbVars, wfQuiet, apiVars
<1>11. ASSUME NEW t \in Late, SwapLate(t) PROVE FirstRunIsCurrent'
  <2>1. late[t].pc # "NONE" /\ UNCHANGED <<run, status, starting>>
    BY <1>11 DEF SwapLate, apiVars
  <2>2. run > 0
    BY <1>0, <2>1 DEF Started
  <2>3. CASE late[t].mine
    <3>1. step \in Asking /\ step' \in Asking
      BY <1>0, <1>11, <2>3 DEF AsksAreOpen, SwapLate
    <3>. QED
      BY <2>1, <2>2, <3>1
  <2>4. CASE ~late[t].mine
    <3>1. astray'
      BY <1>11, <2>4 DEF SwapLate
    <3>. QED
      BY <2>1, <2>2, <3>1
  <2>. QED
    BY <2>3, <2>4
<1>12. CASE FailExecution
  BY <1>2, <1>4, <1>12 DEF FailExecution, wfQuiet
<1>13. CASE Bystander
  BY <1>1, <1>13, BystanderEffects DEF wfVars
<1>14. CASE Start
  BY <1>0, <1>14 DEF Start
<1>15. CASE \E r \in Requests : SignalWorkflow(r)
  BY <1>1, <1>15, BystanderEffects
<1>. QED
  BY <1>5, <1>6, <1>7, <1>8, <1>9, <1>10, <1>11, <1>12, <1>13, <1>14, <1>15, StepCases
  DEF Advance, Stray

-----------------------------------------------------------------------------

\* The two invariants hold together.
THEOREM RevisionsStayInStep == Spec => [](IInv /\ RInv)
<1>1. Init => RInv
  <2> SUFFICES ASSUME Init PROVE RInv
    OBVIOUS
  <2>1. AppliedIsRecorded /\ FirstRunIsCurrent
    BY DEF Init, AppliedIsRecorded, FirstRunIsCurrent
  <2>2. \A g \in Gates : RevisionsApplied(g) = {} /\ revisionCounts[g] = 0
    BY DEF Init, RevisionsApplied
  <2>3. RevisionsBounded
    BY <2>2, FS_EmptySet, Bounds DEF RevisionsBounded
  <2>. QED
    BY <2>1, <2>3 DEF RInv
<1>2. IInv /\ RInv /\ [Next]_vars => RInv'
  BY CountsStayBounded, HeldStaysBounded, FirstRunStaysCurrent DEF RInv, AppliedIsRecorded
<1>. QED
  BY <1>1, <1>2, Inductive, PTL DEF Spec

\* A run grants a gate as many revisions as it applied distinct non-approving
\* decisions there, and at most the bound, whatever is resent, queued or raced.
THEOREM RevisionsAreBounded == Spec => []RevisionsBounded
<1>1. RInv => RevisionsBounded
  BY DEF RInv
<1>. QED
  BY <1>1, RevisionsStayInStep, PTL

\* A waiting workflow waits at the gate of its stage, which is the database's
\* during the first execution, until an execution of an ask long over has moved
\* the campaign.
THEOREM WaitsWhereItShould == Spec => []WaitsAtItsGate
<1>1. IInv /\ RInv => WaitsAtItsGate
  BY DEF IInv, RInv, WaitsAtGateStage, FirstRunIsCurrent, WaitsAtItsGate
<1>. QED
  BY <1>1, RevisionsStayInStep, PTL

-----------------------------------------------------------------------------
(* The artefacts the stages build on.                                      *)

\* Continuity is judged only where the visual check had passed,
ContinuityAfterVisual ==
  \A c \in DOMAIN candidates :
    candidates[c].continuity # "NONE" => candidates[c].visual = "PASS"

\* and a film is cut, or about to be, only from a frozen set of shots.
CutFromASelection == edits # <<>> \/ step = "CHILD" => sets > 0

Reviewed == {"HUMAN_SHOT_SELECTION"} \cup Behind["SHOT_SELECTION"]
Edited == Behind["SHOT_SELECTION"] \ {"COMPOSITING"}
Mastered == Behind["FINAL"] \cup {"FINAL_APPROVAL"}

\* What a move needs was there when it was looked for, and nothing takes it away.
LookedWithArtefacts ==
  \A a \in Looked :
    /\ stage \notin Reviewed /\ a.to \in Reviewed => Passed("continuity")
    /\ stage \notin Edited /\ a.to \in Edited => \E v \in DOMAIN edits : edits[v].rendered
    /\ stage \notin Mastered /\ a.to \in Mastered => MasterPassed

AInv ==
  StagesBuildOnArtefacts /\ ContinuityAfterVisual /\ CutFromASelection /\ LookedWithArtefacts

\* One candidate, and one edit, after a step: what was rendered, scored or
\* judged stays so.
CandidateGrows(c) ==
  /\ c \in DOMAIN candidates'
  /\ \A check \in {"visual", "continuity"} :
       candidates[c][check] # "NONE" => candidates'[c][check] = candidates[c][check]

EditGrows(v) ==
  /\ v \in DOMAIN edits'
  /\ edits[v].rendered => edits'[v].rendered
  /\ edits[v].scored => edits'[v].scored
  /\ edits[v].verdict # "NONE" => edits'[v].verdict = edits[v].verdict

\* The steps that write candidates, and the ones that write edits.
LEMMA OnlyTheirStages ==
  ASSUME [Next]_vars
  PROVE  /\ \/ UNCHANGED candidates
            \/ RunShotGeneration \/ RunVisualQualityAssessments \/ RunContinuityAssessment
         /\ UNCHANGED edits \/ RunCompositing \/ RunSoundDirector \/ RunFinalQaController
         /\ UNCHANGED sets \/ (\E r \in Requests : ReviewSelection(r))
<1>1. CASE Hook
  BY <1>1 DEF Hook, AutoForward, RunStrategyConceptScript, RunShotPromptEngineer,
     RunShotGeneration, RunVisualQualityAssessments, RunContinuityAssessment,
     CheckCompositingSelection, RunCompositing, RunSoundDirector, RunFinalQaController,
     RunVariants, shots, film, selection, dbVars
<1>2. CASE Advance \/ Stray \/ AtTheGate \/ FailExecution
  BY <1>2, ExecutionEffects DEF shots, film, selection
<1>3. CASE QuietRequest
  BY <1>3 DEF QuietRequest, SubmitBrief, ReadForStart, CreateDraft, EditDraft, SendDecision,
     ReviewSelection, CheckForRetry, LoseRequest, dbVars, shots, film, selection
<1>4. CASE StartWorkflow
  BY <1>4 DEF StartWorkflow, dbVars, shots, film, selection
<1>5. CASE \E r \in Requests : RecordApproval(r) \/ SignalWorkflow(r)
  BY <1>5 DEF RecordApproval, SignalWorkflow, dbVars, shots, film, selection
<1>6. CASE UNCHANGED vars
  BY <1>6 DEF vars, dbVars, shots, film, selection
<1>. QED
  BY <1>1, <1>2, <1>3, <1>4, <1>5, <1>6, StepCases DEF Bystander, Start

\* A candidate's verdicts are kept, and no step leaves one judged for continuity
\* that did not pass the visual check.
LEMMA CandidatesGrow ==
  ASSUME IInv, ContinuityAfterVisual, [Next]_vars
  PROVE  /\ \A c \in DOMAIN candidates : CandidateGrows(c)
         /\ ContinuityAfterVisual'
<1>0. candidates \in Seq(Candidate)
  BY DEF IInv, TypeOK, ShotsOK
<1>1. CASE UNCHANGED candidates
  BY <1>1 DEF ContinuityAfterVisual, CandidateGrows
<1>2. CASE RunShotGeneration /\ ~UNCHANGED candidates
  <2>1. PICK row : candidates' = Append(candidates, row) /\ row.continuity = "NONE"
    BY <1>2 DEF RunShotGeneration
  <2>2. /\ \A c \in DOMAIN candidates : candidates'[c] = candidates[c] /\ c \in DOMAIN candidates'
        /\ \A c \in DOMAIN candidates' : c \in DOMAIN candidates \/ candidates'[c] = row
    BY <1>0, <2>1
  <2>. QED
    BY <2>1, <2>2 DEF ContinuityAfterVisual, CandidateGrows
<1>3. ASSUME NEW l, l = Len(candidates), candidates # <<>>, NEW fresh,
             RunVisualQualityAssessments,
             candidates' = [candidates EXCEPT ![l].visual = Keep(@, fresh)]
      PROVE  (\A c \in DOMAIN candidates : CandidateGrows(c)) /\ ContinuityAfterVisual'
  <2>1. /\ l \in DOMAIN candidates /\ candidates[l] \in Candidate
        /\ DOMAIN candidates' = DOMAIN candidates
        /\ \A c \in DOMAIN candidates : c # l => candidates'[c] = candidates[c]
        /\ candidates'[l] = [candidates[l] EXCEPT !.visual = Keep(@, fresh)]
    BY <1>0, <1>3
  <2>2. /\ candidates'[l].visual = Keep(candidates[l].visual, fresh)
        /\ candidates'[l].continuity = candidates[l].continuity
    BY <2>1 DEF Candidate
  <2>. QED
    BY <2>1, <2>2 DEF ContinuityAfterVisual, CandidateGrows, Keep
<1>4. ASSUME NEW l, l = Len(candidates), Assessable, NEW fresh,
             RunContinuityAssessment,
             candidates' = [candidates EXCEPT ![l].continuity = Keep(@, fresh)]
      PROVE  (\A c \in DOMAIN candidates : CandidateGrows(c)) /\ ContinuityAfterVisual'
  <2>1. /\ l \in DOMAIN candidates /\ candidates[l] \in Candidate
        /\ DOMAIN candidates' = DOMAIN candidates
        /\ \A c \in DOMAIN candidates : c # l => candidates'[c] = candidates[c]
        /\ candidates'[l] = [candidates[l] EXCEPT !.continuity = Keep(@, fresh)]
        /\ candidates[l].visual = "PASS"
    BY <1>0, <1>4 DEF Assessable
  <2>2. /\ candidates'[l].continuity = Keep(candidates[l].continuity, fresh)
        /\ candidates'[l].visual = "PASS"
    BY <2>1 DEF Candidate
  <2>. QED
    BY <2>1, <2>2 DEF ContinuityAfterVisual, CandidateGrows, Keep
<1>5. CASE RunVisualQualityAssessments
  BY <1>1, <1>3, <1>5 DEF RunVisualQualityAssessments
<1>6. CASE RunContinuityAssessment
  BY <1>1, <1>4, <1>6 DEF RunContinuityAssessment
<1>. QED
  BY <1>1, <1>2, <1>5, <1>6, OnlyTheirStages

\* So are an edit's render, its score and its verdict; and no step judges an
\* edit that is not scored, or cuts one before a set is frozen.
LEMMA EditsGrow ==
  ASSUME IInv, AInv, [Next]_vars
  PROVE  /\ \A v \in DOMAIN edits : EditGrows(v)
         /\ \A v \in DOMAIN edits' : edits'[v].verdict # "NONE" => edits'[v].scored
         /\ edits' # <<>> => sets > 0
<1>0. edits \in Seq(RoughEdit)
  BY DEF IInv, TypeOK, FilmOK
<1>a. /\ \A v \in DOMAIN edits : edits[v].verdict # "NONE" => edits[v].scored
      /\ edits # <<>> \/ step = "CHILD" => sets > 0
  BY DEF AInv, StagesBuildOnArtefacts, CutFromASelection
<1>1. CASE UNCHANGED edits
  BY <1>1, <1>a DEF EditGrows
<1>2. CASE RunCompositing /\ ~UNCHANGED edits
  <2>1. PICK done : edits' = Append(edits, NewEdit(done)) /\ step = "CHILD"
    BY <1>2 DEF RunCompositing
  <2>2. /\ \A v \in DOMAIN edits : edits'[v] = edits[v] /\ v \in DOMAIN edits'
        /\ \A v \in DOMAIN edits' : v \in DOMAIN edits \/ edits'[v] = NewEdit(done)
    BY <1>0, <2>1
  <2>. QED
    BY <1>a, <2>1, <2>2 DEF EditGrows, NewEdit
<1>3. CASE RunSoundDirector /\ ~UNCHANGED edits
  <2> DEFINE l == Len(edits)
  <2>1. edits # <<>> /\ edits' = [edits EXCEPT ![l].scored = TRUE]
    BY <1>3 DEF RunSoundDirector
  <2>0. l \in DOMAIN edits
    BY <1>0, <2>1
  <2>2. /\ l \in DOMAIN edits /\ edits[l] \in RoughEdit
        /\ DOMAIN edits' = DOMAIN edits
        /\ \A v \in DOMAIN edits : v # l => edits'[v] = edits[v]
        /\ edits'[l] = [edits[l] EXCEPT !.scored = TRUE]
    <3> HIDE DEF l
    <3>. QED
      BY <1>0, <2>0, <2>1
  <2>3. /\ edits'[l].scored /\ edits'[l].rendered = edits[l].rendered
        /\ edits'[l].verdict = edits[l].verdict
    BY <2>2 DEF RoughEdit
  <2>. QED
    BY <1>a, <2>1, <2>2, <2>3 DEF EditGrows
<1>4. CASE RunFinalQaController /\ ~UNCHANGED edits
  <2>1. PICK v \in DOMAIN edits :
          /\ edits[v].scored
          /\ \/ edits' = [edits EXCEPT ![v].verdict = Keep(@, "PASS")]
             \/ /\ edits[v].verdict = "NONE"
                /\ \E findings \in FindingSets :
                     edits' = [edits EXCEPT ![v].verdict = "FAIL", ![v].findings = findings]
    BY <1>4 DEF RunFinalQaController, LatestScored
  <2>0. edits[v] \in RoughEdit /\ edits # <<>>
    BY <1>0
  <2>2. PICK row :
          /\ edits' = [edits EXCEPT ![v] = row]
          /\ row.scored /\ row.rendered = edits[v].rendered
          /\ edits[v].verdict # "NONE" => row.verdict = edits[v].verdict
    <3>1. CASE edits' = [edits EXCEPT ![v].verdict = Keep(@, "PASS")]
      <4> DEFINE row == [edits[v] EXCEPT !.verdict = Keep(@, "PASS")]
      <4>1. /\ row.scored /\ row.rendered = edits[v].rendered
            /\ edits[v].verdict # "NONE" => row.verdict = edits[v].verdict
        BY <2>0, <2>1 DEF RoughEdit, Keep
      <4>2. edits' = [edits EXCEPT ![v] = row]
        BY <3>1
      <4>. QED
        BY <4>1, <4>2
    <3>2. ASSUME edits[v].verdict = "NONE", NEW findings \in FindingSets,
                 edits' = [edits EXCEPT ![v].verdict = "FAIL", ![v].findings = findings]
          PROVE  \E row :
                   /\ edits' = [edits EXCEPT ![v] = row]
                   /\ row.scored /\ row.rendered = edits[v].rendered
                   /\ edits[v].verdict # "NONE" => row.verdict = edits[v].verdict
      <4> DEFINE row == [edits[v] EXCEPT !.verdict = "FAIL", !.findings = findings]
      <4>1. row.scored /\ row.rendered = edits[v].rendered
        BY <2>0, <2>1 DEF RoughEdit
      <4>2. edits' = [edits EXCEPT ![v] = row]
        BY <3>2
      <4>. QED
        BY <3>2, <4>1, <4>2
    <3>. QED
      BY <2>1, <3>1, <3>2
  <2>3. /\ DOMAIN edits' = DOMAIN edits /\ edits'[v] = row
        /\ \A w \in DOMAIN edits : w # v => edits'[w] = edits[w]
    BY <1>0, <2>2
  <2>. QED
    BY <1>a, <2>0, <2>1, <2>2, <2>3 DEF EditGrows
<1>. QED
  BY <1>1, <1>2, <1>3, <1>4, OnlyTheirStages

\* A set, once frozen, stays; and compositing begins only with one.
LEMMA SelectionsGrow ==
  ASSUME IInv, AInv, [Next]_vars
  PROVE  /\ sets' >= sets
         /\ step' = "CHILD" => sets' > 0
<1>0. sets \in Nat /\ sets' \in Nat
  BY TypeStep DEF IInv, TypeOK, SelectionOK
<1>1. sets' >= sets
  BY <1>0, OnlyTheirStages DEF ReviewSelection
<1>2. ASSUME step' = "CHILD", step # "CHILD"
      PROVE  CheckCompositingSelection
  <2>1. CASE Hook
    BY <1>2, <2>1, HookEffects DEF Block, Close, Ask
  <2>2. CASE Look \/ Swap \/ Answer \/ Lose \/ Die
    BY <1>2, <2>2 DEF Look, Swap, Answer, Lose, Die, Refuse, RepairVariants, Goto, Block, Close,
       Ask
  <2>3. CASE Stray \/ \E t \in Late : TimeOut(t)
    BY <1>2, <2>3 DEF Stray, TimeOut, LookLate, SwapLate, Close
  <2>4. CASE AtTheGate \/ FailExecution
    BY <1>2, <2>4 DEF AtTheGate, AwaitApproval, ReceiveSignal, VerifyShotSelection,
       AskForDecision, Ask, FailExecution, Block, Close
  <2>5. CASE Bystander \/ \E r \in Requests : SignalWorkflow(r)
    BY <1>2, <2>5, BystanderEffects DEF wfVars
  <2>6. CASE Start
    BY <1>2, <2>6 DEF Start
  <2>. QED
    BY <2>1, <2>2, <2>3, <2>4, <2>5, <2>6, StepCases DEF Advance
<1>3. CASE step = "CHILD"
  BY <1>0, <1>1, <1>3 DEF AInv, CutFromASelection
<1>4. CASE CheckCompositingSelection
  BY <1>0, <1>1, <1>4 DEF CheckCompositingSelection, SelectionValid, Goto, Block, Close
<1>. QED
  BY <1>1, <1>2, <1>3, <1>4

-----------------------------------------------------------------------------
(* The way in to each of the stages.                                       *)

\* The edges that lead in, from outside.
LEMMA EdgesIn ==
  \A e \in CampaignTransitions :
    /\ e.from \notin Reviewed /\ e.to \in Reviewed => e.fact = "allShotsPassedContinuityQA"
    /\ e.from \notin Edited /\ e.to \in Edited => e.fact = "compositingComplete"
    /\ e.from \notin Mastered /\ e.to \in Mastered => e.fact = "finalQAPassed"
<1>1. ASSUME NEW e \in CampaignTransitions
      PROVE  e.from \notin Reviewed /\ e.to \in Reviewed =>
               e.fact = "allShotsPassedContinuityQA"
  BY DEF CampaignTransitions, Edge, Behind, Reviewed
<1>2. ASSUME NEW e \in CampaignTransitions
      PROVE  e.from \notin Edited /\ e.to \in Edited => e.fact = "compositingComplete"
  BY DEF CampaignTransitions, Edge, Behind, Edited
<1>3. ASSUME NEW e \in CampaignTransitions
      PROVE  e.from \notin Mastered /\ e.to \in Mastered => e.fact = "finalQAPassed"
  BY DEF CampaignTransitions, Edge, Behind, Mastered
<1>. QED
  BY <1>1, <1>2, <1>3

\* A look finds the artefact there.
LEMMA EnteredWithArtefacts ==
  ASSUME NEW to, MayMove(to)
  PROVE  /\ stage \notin Reviewed /\ to \in Reviewed => Passed("continuity")
         /\ stage \notin Edited /\ to \in Edited => \E v \in DOMAIN edits : edits[v].rendered
         /\ stage \notin Mastered /\ to \in Mastered => MasterPassed
<1>1. PICK e \in CampaignTransitions : e.from = stage /\ e.to = to /\ Fact(e.fact)
  BY DEF MayMove
<1>2. /\ Fact("allShotsPassedContinuityQA") => Passed("continuity")
      /\ Fact("compositingComplete") => \E v \in DOMAIN edits : edits[v].rendered
      /\ Fact("finalQAPassed") => MasterPassed
  BY DEF Fact
<1>. QED
  BY <1>1, <1>2, EdgesIn

\* No step takes an artefact away.
LEMMA ArtefactsRemain ==
  ASSUME IInv, AInv, [Next]_vars
  PROVE  /\ Passed("continuity") => Passed("continuity")'
         /\ (\E v \in DOMAIN edits : edits[v].rendered) => \E v \in DOMAIN edits' : edits'[v].rendered
         /\ MasterPassed => MasterPassed'
<1>1. Passed("continuity") => Passed("continuity")'
  BY CandidatesGrow DEF AInv, CandidateGrows, Passed
<1>2. (\E v \in DOMAIN edits : edits[v].rendered) => \E v \in DOMAIN edits' : edits'[v].rendered
  BY EditsGrow DEF EditGrows
<1>3. MasterPassed => MasterPassed'
  BY EditsGrow DEF EditGrows, MasterPassed, OwnMasterPassed
<1>. QED
  BY <1>1, <1>2, <1>3

\* Whoever has looked finds it still there.
LEMMA LookedStaysFounded ==
  ASSUME IInv, AInv, [Next]_vars
  PROVE  LookedWithArtefacts'
<1>1. ASSUME NEW a, Moves(a) PROVE LookedWithArtefacts'
  BY <1>1 DEF Moves, LookedWithArtefacts
<1>2. ASSUME UNCHANGED stage, NEW b \in Looked',
             /\ stage \notin Reviewed /\ b.to \in Reviewed => Passed("continuity")
             /\ stage \notin Edited /\ b.to \in Edited => \E v \in DOMAIN edits : edits[v].rendered
             /\ stage \notin Mastered /\ b.to \in Mastered => MasterPassed
      PROVE  /\ stage' \notin Reviewed /\ b.to \in Reviewed => Passed("continuity")'
             /\ stage' \notin Edited /\ b.to \in Edited => \E v \in DOMAIN edits' : edits'[v].rendered
             /\ stage' \notin Mastered /\ b.to \in Mastered => MasterPassed'
  BY <1>2, ArtefactsRemain
<1>3. ASSUME NEW a, Looks(a) PROVE LookedWithArtefacts'
  BY <1>2, <1>3, EnteredWithArtefacts DEF Looks, AInv, LookedWithArtefacts
<1>4. CASE NobodyLooks
  BY <1>2, <1>4 DEF NobodyLooks, AInv, LookedWithArtefacts
<1>. QED
  BY <1>1, <1>3, <1>4, LookSteps

\* What a move needs is there before it, and stays.
LEMMA ArtefactsStay ==
  ASSUME IInv, AInv, [Next]_vars
  PROVE  AInv'
<1>0. UNCHANGED stage \/ \E a \in Looked : stage' = a.to
  BY LookSteps DEF Moves, Looks, NobodyLooks
<1>1. ContinuityAfterVisual'
  BY CandidatesGrow DEF AInv
<1>2. CutFromASelection' /\ (edits' # <<>> => sets' > 0)
  <2>1. sets \in Nat /\ sets' \in Nat
    BY TypeStep DEF IInv, TypeOK, SelectionOK
  <2>. QED
    BY <2>1, EditsGrow, SelectionsGrow DEF CutFromASelection
<1>3. ASSUME stage' \in Reviewed
      PROVE  \E c \in DOMAIN candidates' :
               candidates'[c].visual = "PASS" /\ candidates'[c].continuity = "PASS"
  <2>1. \E c \in DOMAIN candidates :
          candidates[c].visual = "PASS" /\ candidates[c].continuity = "PASS"
    <3>1. CASE stage \in Reviewed
      BY <3>1 DEF AInv, StagesBuildOnArtefacts, Reviewed
    <3>2. CASE stage \notin Reviewed
      <4>1. PICK c \in DOMAIN candidates : candidates[c]["continuity"] = "PASS"
        BY <1>0, <1>3, <3>2 DEF AInv, LookedWithArtefacts, Passed
      <4>2. candidates[c].visual = "PASS"
        BY <4>1 DEF AInv, ContinuityAfterVisual
      <4>. QED
        BY <4>1, <4>2
    <3>. QED
      BY <3>1, <3>2
  <2>. QED
    BY <2>1, CandidatesGrow DEF AInv, CandidateGrows
<1>4. ASSUME stage' \in Edited
      PROVE  \E v \in DOMAIN edits' : edits'[v].rendered
  <2>1. \E v \in DOMAIN edits : edits[v].rendered
    BY <1>0, <1>4 DEF AInv, StagesBuildOnArtefacts, LookedWithArtefacts, Edited
  <2>. QED
    BY <2>1, ArtefactsRemain
<1>5. ASSUME stage' \in Mastered
      PROVE  MasterPassed'
  <2>1. MasterPassed
    BY <1>0, <1>5
    DEF AInv, StagesBuildOnArtefacts, LookedWithArtefacts, Mastered, MasterPassed
  <2>. QED
    BY <2>1, ArtefactsRemain
<1>6. StagesBuildOnArtefacts'
  BY <1>2, <1>3, <1>4, <1>5, EditsGrow
  DEF StagesBuildOnArtefacts, Reviewed, Edited, Mastered, MasterPassed
<1>. QED
  BY <1>1, <1>2, <1>6, LookedStaysFounded DEF AInv

\* Every artefact a stage builds on is there when the stage is entered and for
\* as long as the campaign stays behind it, whatever the workers, the reviewers
\* and the operator do and in whatever order, and however late an execution
\* moves: a candidate that itself passed both checks, a frozen set, a rendered
\* edit, and a passed master, which the fact finalQAPassed looks for among the
\* masters of every campaign.
THEOREM StagesAreBuiltOn == Spec => []StagesBuildOnArtefacts
<1>1. Init => AInv
  <2> SUFFICES ASSUME Init PROVE AInv
    OBVIOUS
  <2>1. Looked = {}
    BY DEF Init, Looked, NoTry
  <2>. QED
    BY <2>1 DEF Init, AInv, StagesBuildOnArtefacts, ContinuityAfterVisual, CutFromASelection,
       LookedWithArtefacts, Behind
<1>2. IInv /\ AInv /\ [Next]_vars => AInv'
  BY ArtefactsStay
<1>3. AInv => StagesBuildOnArtefacts
  BY DEF AInv
<1>. QED
  BY <1>1, <1>2, <1>3, Inductive, PTL DEF Spec
=============================================================================
