------------------------------ MODULE MCReview ------------------------------
(***************************************************************************)
(* Two branches off one commit, whose f (0) the reviewers dislike.  On a:  *)
(* a1 mends f, a2 on top of it brings the old f back and changes g, and a2x *)
(* amends a2 with another g.  On b: b1 changes f and makes g bad (3), and   *)
(* b2, on top of b1, changes f again.                                      *)
(***************************************************************************)
EXTENDS Review, TLC

CONSTANTS root, a1, a2, a2x, b1, b2, a, b, f, g, s1, s2

MCParent == [c \in Commits |->
    CASE c = root -> NoCommit [] c \in {a2, a2x} -> a1 [] c = b2 -> b1 [] OTHER -> root]
MCLine == [c \in Commits |-> IF c \in {b1, b2} THEN b ELSE a]
Files2(x, y) == f :> x @@ g :> y
MCTree == [c \in Commits |->
    CASE c = root -> Files2(0, 0)
      [] c = a1 -> Files2(1, 0) [] c = a2 -> Files2(0, 1) [] c = a2x -> Files2(0, 2)
      [] c = b1 -> Files2(2, 3) [] c = b2 -> Files2(1, 3)]
MCPrompt == [c \in Commits |-> "prompt"]
MCBad == {<<f, 0>>, <<g, 3>>}

\* The runs of stamp review are interchangeable.
Symmetry == Permutations(Sessions)
=============================================================================
