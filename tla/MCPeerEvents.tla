---------------------------- MODULE MCPeerEvents ----------------------------
\* Instance of PeerEvents for TLC: an author, a reviewer and two repositories.
EXTENDS PeerEvents, TLC
CONSTANTS ann, bob, r1, r2, p1

MCUsers == {ann, bob}
MCCallers == {ann, bob}
MCRepos == {r1, r2}
MCPatches == {p1}
MCRepoOf == [p \in {p1} |-> r1]
MCNamed == {{}, {bob}}
MCBob == {bob}
MCNobody == {}
MCGrants == (ann :> {r1}) @@ (bob :> {r1, r2})
=============================================================================
