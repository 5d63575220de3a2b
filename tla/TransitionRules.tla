-------------------------- MODULE TransitionRules --------------------------
(***************************************************************************)
(* The campaign transition table and the three ways the workflow's advance *)
(* activity picks an edge of it.  A constant-level module: the facts that  *)
(* guard an edge are names here; CampaignProduction says which of them the *)
(* database makes true.                                                    *)
(***************************************************************************)

\* The stages of a campaign, in the order of the forward path.
Stages == {"DRAFT", "STRATEGY_REVIEW", "CONCEPT_REVIEW", "SCRIPT_REVIEW",
           "ASSET_COLLECTION", "PROMPTING", "SHOT_GENERATION", "VISUAL_QA",
           "CONTINUITY_QA", "HUMAN_SHOT_SELECTION", "COMPOSITING", "ROUGH_CUT",
           "SOUND_DESIGN", "FINAL_QA", "FINAL_APPROVAL", "VARIANT_GENERATION",
           "VARIANT_QA", "EXPORTING", "READY_FOR_DISTRIBUTION", "DISTRIBUTED"}

Gates == {"CONCEPT", "SHOT_SELECTION", "FINAL"}

RepairTargets == {"COMPOSITING", "ROUGH_CUT", "SOUND_DESIGN"}

NoGate == "NONE"
NoStage == "NONE"

Edge(from, to, kind, fact) ==
  [from |-> from, to |-> to, kind |-> kind, fact |-> fact]

\* Every row of CAMPAIGN_TRANSITIONS; the table gives each row one fact, but
\* for the one revision edge that needs none.
CampaignTransitions ==
  { Edge("DRAFT", "STRATEGY_REVIEW", "FORWARD", "briefAccepted"),
    Edge("STRATEGY_REVIEW", "CONCEPT_REVIEW", "FORWARD", "conceptDrafted"),
    Edge("CONCEPT_REVIEW", "SCRIPT_REVIEW", "FORWARD", "conceptApproved"),
    Edge("SCRIPT_REVIEW", "ASSET_COLLECTION", "FORWARD", "scriptDrafted"),
    Edge("ASSET_COLLECTION", "PROMPTING", "FORWARD", "allShotsHaveRequiredAssets"),
    Edge("PROMPTING", "SHOT_GENERATION", "FORWARD", "allShotsHavePrompts"),
    Edge("SHOT_GENERATION", "VISUAL_QA", "FORWARD", "allShotsHaveCandidate"),
    Edge("VISUAL_QA", "CONTINUITY_QA", "FORWARD", "allShotsPassedVisualQA"),
    Edge("CONTINUITY_QA", "HUMAN_SHOT_SELECTION", "FORWARD", "allShotsPassedContinuityQA"),
    Edge("HUMAN_SHOT_SELECTION", "COMPOSITING", "FORWARD", "allShotsSelected"),
    Edge("COMPOSITING", "ROUGH_CUT", "FORWARD", "compositingComplete"),
    Edge("ROUGH_CUT", "SOUND_DESIGN", "FORWARD", "roughCutAssembled"),
    Edge("SOUND_DESIGN", "FINAL_QA", "FORWARD", "soundDesignComplete"),
    Edge("FINAL_QA", "FINAL_APPROVAL", "FORWARD", "finalQAPassed"),
    Edge("FINAL_APPROVAL", "VARIANT_GENERATION", "FORWARD", "finalApproved"),
    Edge("VARIANT_GENERATION", "VARIANT_QA", "FORWARD", "variantsGenerated"),
    Edge("VARIANT_QA", "EXPORTING", "FORWARD", "variantQAPassed"),
    Edge("EXPORTING", "READY_FOR_DISTRIBUTION", "FORWARD", "exportRenderComplete"),
    Edge("READY_FOR_DISTRIBUTION", "DISTRIBUTED", "FORWARD", "deliverySpecMet"),
    Edge("CONCEPT_REVIEW", "STRATEGY_REVIEW", "REVISION", "conceptRevisionRequested"),
    Edge("SCRIPT_REVIEW", "CONCEPT_REVIEW", "REVISION", "none"),
    Edge("VISUAL_QA", "SHOT_GENERATION", "REVISION", "visualQARetryAllowed"),
    Edge("CONTINUITY_QA", "SHOT_GENERATION", "REVISION", "continuityQARetryAllowed"),
    Edge("HUMAN_SHOT_SELECTION", "SHOT_GENERATION", "REVISION",
         "shotSelectionRegenerateRequested"),
    Edge("COMPOSITING", "HUMAN_SHOT_SELECTION", "REVISION",
         "compositingRepairTargetIsShotSelection"),
    Edge("COMPOSITING", "COMPOSITING", "REVISION",
         "compositingRepairTargetIsCompositingRetry"),
    Edge("ROUGH_CUT", "COMPOSITING", "REVISION", "roughCutFailureRequiresRecompositing"),
    Edge("SOUND_DESIGN", "ROUGH_CUT", "REVISION", "soundDesignRepairTargetIsRoughCut"),
    Edge("SOUND_DESIGN", "SOUND_DESIGN", "REVISION",
         "soundDesignRepairTargetIsSoundDesignRetry"),
    Edge("FINAL_QA", "COMPOSITING", "REVISION", "finalQARepairTargetIsCompositing"),
    Edge("FINAL_QA", "ROUGH_CUT", "REVISION", "finalQARepairTargetIsRoughCut"),
    Edge("FINAL_QA", "SOUND_DESIGN", "REVISION", "finalQAAudioFailure"),
    Edge("FINAL_APPROVAL", "COMPOSITING", "REVISION",
         "finalApprovalRepairTargetIsCompositing"),
    Edge("FINAL_APPROVAL", "ROUGH_CUT", "REVISION", "finalApprovalRepairTargetIsRoughCut"),
    Edge("FINAL_APPROVAL", "SOUND_DESIGN", "REVISION",
         "finalApprovalRepairTargetIsSoundDesign"),
    Edge("VARIANT_QA", "VARIANT_GENERATION", "REVISION", "variantQAFailed"),
    Edge("EXPORTING", "EXPORTING", "REVISION", "exportTechnicalFailureRetry"),
    Edge("DISTRIBUTED", "READY_FOR_DISTRIBUTION", "REVISION",
         "distributionFailureDetected") }

\* The stage each human gate guards the way out of (requiredApprovalGate).
GateStage == [CONCEPT |-> "CONCEPT_REVIEW",
              SHOT_SELECTION |-> "HUMAN_SHOT_SELECTION",
              FINAL |-> "FINAL_APPROVAL"]

ForwardTargets(from) == {e.to : e \in {x \in CampaignTransitions :
                                        x.from = from /\ x.kind = "FORWARD"}}

RevisionTargets(from) == {e.to : e \in {x \in CampaignTransitions :
                                         x.from = from /\ x.kind = "REVISION"}}

\* The stage a decision at gate g, applied from stage `from`, asks for: the
\* forward edge of an approval, the revision edge otherwise; FINAL alone has
\* several, told apart by the reviewer's repair target.
DecisionTargets(from, g, decision, repairTarget) ==
  IF decision = "APPROVED" THEN {to \in ForwardTargets(from) : from = GateStage[g]}
  ELSE IF g = "FINAL" THEN {to \in RevisionTargets(from) : to = repairTarget}
  ELSE RevisionTargets(from)

\* The stages behind each gate on the forward path: what a campaign may only
\* reach once the gate has been crossed.
Behind ==
  [CONCEPT |-> Stages \ {"DRAFT", "STRATEGY_REVIEW", "CONCEPT_REVIEW"},
   SHOT_SELECTION |->
     {"COMPOSITING", "ROUGH_CUT", "SOUND_DESIGN", "FINAL_QA", "FINAL_APPROVAL",
      "VARIANT_GENERATION", "VARIANT_QA", "EXPORTING", "READY_FOR_DISTRIBUTION",
      "DISTRIBUTED"},
   FINAL |->
     {"VARIANT_GENERATION", "VARIANT_QA", "EXPORTING", "READY_FOR_DISTRIBUTION",
      "DISTRIBUTED"}]
=============================================================================
