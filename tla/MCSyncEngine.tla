---------------------------- MODULE MCSyncEngine ----------------------------
\* Instances of SyncEngine: few assets, one of each awkward kind.
EXTENDS SyncEngine

CONSTANTS c1, c2

Two == 1 .. 2
OwnContent == [a \in Two |-> IF a = 1 THEN c1 ELSE c2]
=============================================================================
