---------------------------- MODULE MCMergeLock ----------------------------
\* The instance of MergeLock for TLC: p3 works on the same checkout as the others,
\* from another host, through a shared file system.
EXTENDS MergeLock

CONSTANTS p1, p2, p3

TwoHosts == [p \in Procs |-> IF p = p3 THEN "host-b" ELSE "host-a"]
=============================================================================
