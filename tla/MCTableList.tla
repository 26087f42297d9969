---------------------------- MODULE MCTableList ----------------------------
EXTENDS TableList, TLC
CONSTANTS near, far
NearFar == (near :> 1) @@ (far :> 2)
=============================================================================
