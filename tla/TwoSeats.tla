------------------------------ MODULE TwoSeats ------------------------------
(***************************************************************************)
(* What the seat table of a peer-review patch promises: a set of at most   *)
(* Capacity reviewers, never the author of the change.  A reviewer enters  *)
(* on a grant and leaves on its own or because its lease has run out.      *)
(***************************************************************************)
EXTENDS Integers, FiniteSets

CONSTANTS
    Users,     \* stamp-key fingerprints
    Author,    \* requested_by_fp of the patch
    Capacity   \* primary seats per patch

VARIABLE holders

PromiseInit == holders = {}

Grant(u) ==
    /\ u \notin holders \cup {Author}
    /\ Cardinality(holders) < Capacity
    /\ holders' = holders \cup {u}

Leave(u) == u \in holders /\ holders' = holders \ {u}

Expire(S) == S # {} /\ holders' = holders \ S

PromiseNext ==
    \/ \E u \in Users : Grant(u) \/ Leave(u)
    \/ \E S \in SUBSET holders : Expire(S)

Promise == PromiseInit /\ [][PromiseNext]_holders
=============================================================================
