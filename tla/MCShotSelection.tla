--------------------------- MODULE MCShotSelection ---------------------------
(* ShotSelection with two reviewers, who are interchangeable.                *)
EXTENDS ShotSelection, TLC

CONSTANTS r1, r2

ReviewersAreAlike == Permutations(Reviewers)

\* The shot of the first script is generated twice, and the second time passes or
\* not; the second script's once.
TwiceAndOnce ==
  {<<<<1, 1>>, 1, TRUE>>, <<<<1, 1>>, 2, TRUE>>, <<<<1, 1>>, 2, FALSE>>, <<<<2, 1>>, 1, TRUE>>}
=============================================================================

