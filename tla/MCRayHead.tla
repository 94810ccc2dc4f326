------------------------------- MODULE MCRayHead -------------------------------
(* RayHead on small instances. *)
EXTENDS RayHead

CONSTANTS desk, rack

MCMachines == {desk, rack}
MCRank == [d \in MCMachines \cup {NoOne} |-> IF d = rack THEN 2 ELSE IF d = desk THEN 1 ELSE 0]
NoLegacy == {}
OneLegacy == {[gen |-> 0, stamp |-> 1, node |-> desk, on |-> TRUE]}
================================================================================
