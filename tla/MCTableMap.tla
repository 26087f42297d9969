---------------------------- MODULE MCTableMap ----------------------------
EXTENDS TableMap, TLC
CONSTANTS s1, s2, origin
DisjointSpots == (1 :> {s1}) @@ (2 :> {s2})
SharedSpot == (1 :> {s1}) @@ (2 :> {s1})
AloneSpot == 1 :> {s1}
=============================================================================
