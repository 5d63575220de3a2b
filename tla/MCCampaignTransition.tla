------------------------- MODULE MCCampaignTransition -------------------------
(* CampaignTransition over the stages around one gate, one assessment, one   *)
(* repair and the end of the path.                                           *)
EXTENDS CampaignTransition, TLC

CONSTANTS t1, t2

\* The concept is drafted before the gate and decided on, and decided on anew,
\* at it.
AroundTheGate ==
  [s \in Stages |->
     CASE s = "STRATEGY_REVIEW" -> {"conceptDrafted"}
       [] s \in {"CONCEPT_REVIEW", "SCRIPT_REVIEW"} ->
            {"conceptApproved", "conceptRevisionRequested"}
       [] s = "VISUAL_QA" -> {"visualQARetryAllowed"}
       [] s = "VARIANT_QA" -> {"variantQAPassed", "variantQAFailed"}
       [] s = "READY_FOR_DISTRIBUTION" -> {"deliverySpecMet"}
       [] OTHER -> {}]

Exclusive == {{"conceptApproved", "conceptRevisionRequested"},
              {"variantQAPassed", "variantQAFailed"}}
=============================================================================
