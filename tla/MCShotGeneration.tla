-------------------------- MODULE MCShotGeneration --------------------------
(* ShotGeneration with the values the .cfg files choose from.                *)
EXTENDS ShotGeneration, TLC

CONSTANTS s1, s2, campaign, own

OneBatch == [s \in Shots |-> 1]
SharedAndOwn == [s \in Shots |-> IF s = s1 THEN <<campaign, own>> ELSE <<campaign>>]

Ample == [p \in Policies |-> 20]
OneJob == [p \in Policies |-> IF p = campaign THEN 3 ELSE 2]
=============================================================================
