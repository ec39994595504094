---------------------------- MODULE MCJobSwitch ----------------------------
(* JobSwitch for TLC: two pools, one of which hands out two extranonces;   *)
(* they leave two and three values of extranonce2.                         *)
EXTENDS JobSwitch

MCPairs == {[pool |-> "A", en1 |-> "a", max |-> 2], [pool |-> "A", en1 |-> "b", max |-> 3],
            [pool |-> "B", en1 |-> "a", max |-> 2]}
=============================================================================
