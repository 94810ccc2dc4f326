------------------------------- MODULE MCProjects ------------------------------
(* A small instance of Projects for TLC. *)
EXTENDS Projects
CONSTANTS a, b, ann, bob, n1, n2, p1, p2, p3, w1, w2
TwoMachines == {a, b}
TwoAccounts == {ann, bob}
Linked == [m \in Machines |-> IF m = a THEN ann ELSE bob]
OneNetwork == {n1}
TwoNetworks == {n1, n2}
TwoIds == {p1, p2}
ThreeIds == {p1, p2, p3}
TwoWorkers == {w1, w2}
OneMachine == [w \in Workers |-> a]
AtThePeer == {<<b, p1, n1>>}
================================================================================
