-------------------------- MODULE MCAgentInvocation --------------------------
(* AgentInvocation over two invocations of one campaign that share the       *)
(* workspace's policy; one has its model capped too.                        *)
EXTENDS AgentInvocation, TLC

CONSTANTS concept, vision

\* 1 is the workspace's policy, 2 that of the model the concept is drafted with.
ScopesOfTwo == concept :> {1, 2} @@ vision :> {1}

\* The activity of the concept is tried twice, that of the vision once.
TriesOfTwo == concept :> 2 @@ vision :> 1

RoomForOne == 1 :> 3 @@ 2 :> 2
=============================================================================
