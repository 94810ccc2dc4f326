-------------------------------- MODULE MCMembers ------------------------------
(* A small instance of Members for TLC. *)
EXTENDS Members
CONSTANTS ann, bob, w1, w2
OneMember == {ann, bob}
OneWorker == {w1}
TwoWorkers == {w1, w2}
SomeGrants == {{}, {"view"}, {"view", "run"}}
================================================================================
