-------------------------- MODULE MCFinishingRound --------------------------
(* FinishingRound with the values its .cfg file chooses from.                *)
EXTENDS FinishingRound, TLC

CONSTANTS t1, t2

TerminalSymmetry == Permutations(Terminals)
=============================================================================
