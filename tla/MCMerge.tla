------------------------------ MODULE MCMerge ------------------------------
\* Instances of Merge for TLC: two invocations and their branch.
EXTENDS Merge

CONSTANTS p1, p2, b1

SameHost    == [p \in Procs |-> "host-a"]
OneBranch   == [p \in Procs |-> b1]
Stricter    == [b \in Branches |-> {"product"}]
=============================================================================
