---------------------------- MODULE MCPeerReview ----------------------------
\* Instances of PeerReview for TLC: an author and up to three reviewers.
EXTENDS PeerReview
CONSTANTS ann, bob, cas, dan, none

MCThree == {ann, bob, cas, dan}
MCOnlyBob == {bob}
MCOnlyDan == {dan}
=============================================================================
