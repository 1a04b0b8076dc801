--------------------------- MODULE MCServerReview ---------------------------
(***************************************************************************)
(* One member, who asks twice; one diff, two texts of a prompt, two keys.  *)
(***************************************************************************)
EXTENDS ServerReview

CONSTANTS r1, r2, member, d1, pA, pB, k1, k2

MCFirstFiles == {<<pA, NoPrompt>>}
=============================================================================
