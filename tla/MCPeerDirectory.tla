---------------------------- MODULE MCPeerDirectory ----------------------------
(* A small instance of PeerDirectory for TLC. *)
EXTENDS PeerDirectory
CONSTANTS laptop, tower, rack, l1, l2
ThreeMachines == {laptop, tower, rack}
OneLane == {l1}
TwoLanes == {l1, l2}
================================================================================
