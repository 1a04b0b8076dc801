----------------------------- MODULE MCMembers -----------------------------
(***************************************************************************)
(* One or two admins of the first boot, keys to be invited and names to be  *)
(* taken.                                                                   *)
(***************************************************************************)
EXTENDS Members, TLC

CONSTANTS v1, v2, k1, k2, k3, n1, n2, n3, t1

OneAdmin == k1 :> n1
TwoAdmins == k1 :> n1 @@ k2 :> n2

\* The keys and names that OneAdmin leaves free are interchangeable.
Symmetry == Permutations(Keys \ {k1}) \cup Permutations(Names \ {n1})
=============================================================================
