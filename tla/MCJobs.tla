------------------------------- MODULE MCJobs -------------------------------
(* Jobs for TLC: one or two jobs on one worker, mirrored by one origin. *)
EXTENDS Jobs

CONSTANTS a, b

OneJob  == {a}
TwoJobs == {a, b}
=============================================================================
