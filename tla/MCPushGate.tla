----------------------------- MODULE MCPushGate -----------------------------
(***************************************************************************)
(* A small repository for PushGate: c1 on main, which adds a rule for side *)
(* to the tree of c0; the feature commits f1, f2, f3; k, which rotates the *)
(* operator's key; the merges m1, m2 and m12, w (stamped by a v3 client),  *)
(* r (which merges k), x without a stamp and y on top of it; g and ai on   *)
(* the other branches.                                                     *)
(***************************************************************************)
EXTENDS PushGate, TLC

CommitSet == {"c0", "c1", "f1", "f2", "f3", "g", "ai", "k", "m1", "m2", "m12", "w", "x", "y", "r"}

ParentsDef ==
    [c \in CommitSet |->
        CASE c = "c0" -> <<>>
          [] c \in {"c1", "g", "ai"} -> <<"c0">>
          [] c \in {"f1", "f2", "f3", "k"} -> <<"c1">>
          [] c \in {"m1", "w"} -> <<"c1", "f1">>
          [] c = "m2" -> <<"c1", "f2">>
          [] c \in {"m12", "x"} -> <<"m1", "f2">>
          [] c = "y" -> <<"x", "f3">>
          [] c = "r" -> <<"c1", "k">>]

AncestorsDef ==
    LET anc[c \in CommitSet] ==
            {c} \cup UNION {anc[ParentsDef[c][i]] : i \in DOMAIN ParentsDef[c]}
    IN  anc

ChainDef ==
    LET chain[c \in CommitSet] ==
            IF ParentsDef[c] = <<>> THEN {c} ELSE {c} \cup chain[ParentsDef[c][1]]
    IN  chain

MergeBaseDef ==
    [p \in CommitSet \X CommitSet |->
        LET common == AncestorsDef[p[1]] \cap AncestorsDef[p[2]]
        IN  CHOOSE c \in common : \A d \in common : c \in AncestorsDef[d] => c = d]

Roles(op, op2) ==
    [srv |-> {"server"}, adm |-> {"admin"}, op |-> op, op2 |-> op2]

TreeDef ==
    [c \in CommitSet |->
        LET rotated == c \in {"k", "r"} IN
        [rules     |-> [b \in Branches |->
                            IF b = "main" \/ (b = "side" /\ c \notin {"c0", "g", "ai"})
                            THEN {"sec"} ELSE NoRule],
         pathRules |-> [signatures |-> 1, bypass |-> TRUE],
         repoId    |-> {"R"},
         keys      |-> {"srv", "adm", IF rotated THEN "op2" ELSE "op"},
         manifest  |-> IF rotated THEN Roles({}, {"operator"}) ELSE Roles({"operator"}, {}),
         forbidAI  |-> TRUE,
         mirrored  |-> {"main", "v1"}]]

Stamp(version, base, head, signers, touched) ==
    [schema |-> version, base |-> base, head |-> head, target |-> "main",
     signer |-> "op", genuine |-> TRUE,
     approvals |-> {[reviewer |-> "sec", key |-> "srv", repoId |-> {"R"}, fits |-> TRUE]},
     checks |-> TRUE, snapshot |-> Roles({"operator"}, {}),
     admins |-> signers, touches |-> touched]

TrailerDef ==
    [c \in CommitSet |->
        CASE c = "m1" -> Stamp(5, "c1", "f1", {}, FALSE)
          [] c = "w" -> Stamp(3, "c1", "f1", {}, FALSE)
          [] c \in {"m2", "m12"} -> Stamp(5, "c1", "f2", {}, FALSE)
          [] c = "y" -> Stamp(5, "c1", "f3", {}, FALSE)
          [] c = "r" -> Stamp(5, "c1", "k", {"adm"}, TRUE)
          [] OTHER -> NoTrailer]

InitialDef == [b \in Branches |-> IF b = "main" THEN "c1" ELSE "c0"]

Moved(r, c) == [ref |-> r, new |-> c]

MergePushes == {<<Moved("main", c)>> : c \in {"m1", "m2", "m12", "w", "y", "r"}}
PushesDef ==
    MergePushes
    \cup {<<Moved(r, NoCommit)>> : r \in {"main", "side", "v1"}}
    \cup {<<Moved("topic", NoCommit), Moved("main", "m1")>>,
          <<Moved("main", "m12"), Moved("v1", "m1")>>,
          <<Moved("v1", "g")>>, <<Moved("side", "g")>>, <<Moved("topic", "ai")>>}

ASSUME ProtectionAssumption == SteadyProtection

Symmetry == Permutations(Sessions)
=============================================================================
