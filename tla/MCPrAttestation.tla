--------------------------- MODULE MCPrAttestation ---------------------------
(***************************************************************************)
(* Two people, one the operator; a branch with a commit under a path rule  *)
(* (x), one beside it (y), both, the rebase of the first, and an activation *)
(* (z).  The target advances once, by an edit of its own.                   *)
(***************************************************************************)
EXTENDS PrAttestation

CONSTANTS op, adm, ra, k1, k2, hx, hy, hyx, hx1, hz, x, y, z, m

MCParent == [h \in Heads |-> CASE h = hyx -> hy [] h = hx1 -> 1 [] OTHER -> 0]
MCHeadEdit == [h \in Heads |-> CASE h = hy -> y [] h = hz -> z [] OTHER -> x]
MCMainEdit == [t \in 1 .. MaxMain |-> m]
MCNames == <<ra>>

At(required, min, bypass, servers, strict) ==
    [required |-> required, checks |-> {}, servers |-> servers, strict |-> strict,
     admins |-> {op, adm}, operators |-> {},
     rules |-> <<[covers |-> {x, z}, min |-> min, bypass |-> bypass]>>]

\* One reviewer and one signature, or no reviewer and two signatures.
MCConfigs ==
    {[t \in 0 .. MaxMain |-> At(<<ra>>, 1, FALSE, IF t = 0 THEN {k1} ELSE {k2}, FALSE)],
     [t \in 0 .. MaxMain |-> At(<<>>, 2, TRUE, {k1}, FALSE)],
     [t \in 0 .. MaxMain |-> At(<<>>, 1, TRUE, {k1}, TRUE)]}
=============================================================================
