--------------------------- MODULE MCAccountService ---------------------------
(* A small instance of AccountService for TLC. *)
EXTENDS AccountService, TLC
CONSTANTS a, b, n, c
TwoAccounts == {a, b}
OneNetwork == {n}
OneController == {c}
AnyRole == {"admin", "member"}
\* Bound: offers, later logins and controller credentials together.
TwoChanges == offers + logins + controller[c].credential <= 2
Symmetry == Permutations(TwoAccounts)
================================================================================
