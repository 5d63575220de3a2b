-------------------------- MODULE MCStoryboardVideo --------------------------
(* StoryboardVideo over a generated scene and one animated by hand.          *)
EXTENDS StoryboardVideo, TLC

FirstEdited == 1 :> {"p", "q"} @@ 2 :> {"p"}

\* Bound: three decisions meet two runs, and two decisions three.
Few == Len(ledger) + runs <= 5
=============================================================================
