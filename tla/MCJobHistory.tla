---------------------------- MODULE MCJobHistory ----------------------------
(* JobHistory for TLC: two devices, one identifier, at most two runs of it. *)
EXTENDS JobHistory

CONSTANTS laptop, tower, job

TwoDevices == {laptop, tower}
OneId      == {job}
=============================================================================
