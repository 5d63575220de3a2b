------------------------ MODULE MCCampaignProduction ------------------------
(* CampaignProduction with the values the .cfg files choose from.            *)
EXTENDS CampaignProduction, TLC

CONSTANTS u1, u2, r1, r2, l1

OneReviewer == [r \in Requests |-> u1]
TwoReviewers == [r \in Requests |-> IF r = r1 THEN u1 ELSE u2]

\* The two reviewers may change places, each with the request they send.
Reviewers == {f \in Permutations({u1, u2, r1, r2}) :
                {f[u1], f[u2]} = {u1, u2} /\ (f[u1] = u1 <=> f[r1] = r1)}

ConceptStages == {"DRAFT", "STRATEGY_REVIEW", "CONCEPT_REVIEW"}

\* Decisions sent while their gate is open, and ones sent before it is.
AtItsGate == {<<g, GateStage[g]>> : g \in Gates}
AtConcept == {<<"CONCEPT", "CONCEPT_REVIEW">>}
AroundGates == AtItsGate \cup {<<"CONCEPT", "STRATEGY_REVIEW">>}

AudioOrPicture == {{"SOUND_DESIGN"}, {"COMPOSITING", "SOUND_DESIGN"}, {}}
=============================================================================
