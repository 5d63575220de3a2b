---------------------------- MODULE StageMachine ----------------------------
(***************************************************************************)
(* What attemptCampaignTransition promises of the campaign row, whoever    *)
(* races whom: the campaign moves along the edges of the transition table  *)
(* only, one at a time, and over an edge only when the fact that guards it *)
(* has held since the campaign last moved.                                 *)
(***************************************************************************)
EXTENDS TransitionRules, Naturals

CONSTANTS StartStages   \* the stages the campaign may start from

VARIABLES stage,        \* campaign.currentStage
          version,      \* campaign.version
          facts,        \* the facts that hold now
          since         \* the facts that have held since the last move

Init ==
  /\ stage \in StartStages
  /\ version = 1   \* one more than the row's, whose default is 0
  /\ since = facts

\* The rows behind the facts change.
Observe ==
  /\ UNCHANGED <<stage, version>>
  /\ since' = since \cup facts'

Move ==
  /\ \E e \in CampaignTransitions :
       /\ e.from = stage /\ e.to = stage'
       /\ e.fact \in since \cup {"none"}
  /\ version' = version + 1
  /\ facts' = facts
  /\ since' = facts

Next == Observe \/ Move

Spec == Init /\ [][Next]_<<stage, version, facts, since>>
=============================================================================
