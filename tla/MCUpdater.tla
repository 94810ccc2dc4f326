------------------------------- MODULE MCUpdater -------------------------------
(* A small instance of Updater for TLC. *)
EXTENDS Updater, TLC
CONSTANTS loop, r1, r2
NoRequest == {}
OneRequest == {r1}
TwoRequests == {r1, r2}
\* 0.1.2-alpha.9, then 0.2.0, and then 0.1.2-alpha.10 for those who stay on the old line.
Number(n) == [word |-> FALSE, rank |-> n]
Word == [word |-> TRUE, rank |-> 1]
Alpha(n) == [core |-> <<Number(0), Number(1), Number(2)>>, pre |-> <<Word, Number(n)>>]
ThreeBuilds ==
  0 :> Alpha(9) @@ 1 :> [core |-> <<Number(0), Number(2), Number(0)>>, pre |-> <<>>] @@ 2 :> Alpha(10)
================================================================================
