---------------------------- MODULE MCProvision ----------------------------
\* Instance of Provision for TLC: two keys, of which a mirror may know the older.
EXTENDS Provision
CONSTANTS k1, k2
MCKeys == {k1, k2}
=============================================================================
