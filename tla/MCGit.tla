---------------------------------- MODULE MCGit --------------------------------
(* A small instance of Git for TLC. *)
EXTENDS Git, TLC
CONSTANTS f, g, w1, w2
TwoPaths == {f, g}
OnePath == {f}
TwoWorkers == {w1, w2}
OneWorker == {w1}
\* No file and no handler differs from another.
Alike == Permutations(Paths) \cup Permutations(Workers)
================================================================================
