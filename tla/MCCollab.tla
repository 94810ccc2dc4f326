------------------------------ MODULE MCCollab ------------------------------
(* Two clones, one browser each: small instances of Collab for TLC. *)
EXTENDS Collab
CONSTANTS A, B
TwoClones == {A, B}
TwoClients == {1, 2}
EachAtItsOwn == 1 :> A @@ 2 :> B
OneClone == {A}
BothAtOne == 1 :> A @@ 2 :> A
=============================================================================
