----------------------------- MODULE ListInduction -----------------------------
(***************************************************************************)
(* Induction for the definitions that work through a list one element      *)
(* after the other (QueuedAll and RecordedAll of JobHistory, Reconciled of *)
(* Collab).  The library's induction theorems take a predicate; here the   *)
(* predicate is a set, and the step a function.                            *)
(***************************************************************************)
EXTENDS Integers, Sequences, WellFoundedInduction, TLAPS

LEMMA NatMin ==
  ASSUME NEW T \in SUBSET Nat, T # {}
  PROVE  \E x \in T : \A y \in T : ~(y < x)
<1> DEFINE R == {ss \in Nat \X Nat : ss[1] < ss[2]}
<1>1. IsWellFoundedOn(R, Nat)
  BY NatLessThanWellFounded DEF OpToRel
<1>2. \A x, y \in Nat : y < x => <<y, x>> \in R
  OBVIOUS
<1> HIDE DEF R
<1>3. PICK x \in T : \A y \in T : ~ (<<y, x>> \in R)
  BY <1>1, WFMin
<1> QED BY <1>2, <1>3

\* Induction over the numbers up to n, for a set instead of a predicate.
LEMMA SetInduction ==
  ASSUME NEW n \in Nat, NEW S, 0 \in S, \A i \in 0 .. n - 1 : i \in S => i + 1 \in S
  PROVE  0 .. n \subseteq S
<1> SUFFICES ASSUME (0 .. n) \ S # {} PROVE FALSE
  OBVIOUS
<1>1. PICK x \in (0 .. n) \ S : \A y \in (0 .. n) \ S : ~(y < x)
  <2>1. (0 .. n) \ S \in SUBSET Nat
    OBVIOUS
  <2> QED BY <2>1, NatMin
<1>2. x # 0 /\ x - 1 \in 0 .. n - 1 /\ x - 1 < x /\ x - 1 + 1 = x
  BY <1>1
<1>3. x - 1 \in S
  BY <1>1, <1>2
<1> QED BY <1>1, <1>2, <1>3

--------------------------------------------------------------------------------
(* Lists worked through one element after the other *)

\* step takes a state and an element of R to a state of P ...
IsStep(step, P, R) == step \in [P \X R -> P]

\* ... and f[n] is what the first n elements of list make of first.
IsWalk(f, step, P, first, list) ==
  /\ f \in [0 .. Len(list) -> P]
  /\ f[0] = first
  /\ \A n \in 1 .. Len(list) : f[n] = step[<<f[n - 1], list[n]>>]

LEMMA WalkExists ==
  ASSUME NEW P, NEW R, NEW Step, NEW first \in P, NEW list \in Seq(R), IsStep(Step, P, R)
  PROVE  \E f : IsWalk(f, Step, P, first, list)
<1> DEFINE Upto(n, f) == \A i \in 0 .. n : f[i] = (IF i = 0 THEN first ELSE Step[<<f[i - 1], list[i]>>])
           S == {n \in 0 .. Len(list) : \E f \in [0 .. n -> P] : Upto(n, f)}
<1>0. Len(list) \in Nat /\ \A i \in 1 .. Len(list) : list[i] \in R
  OBVIOUS
<1>9. Step \in [P \X R -> P]
  BY DEF IsStep
<1>1. 0 \in S
  <2>1. [i \in 0 .. 0 |-> first] \in [0 .. 0 -> P] /\ Upto(0, [i \in 0 .. 0 |-> first])
    OBVIOUS
  <2> HIDE DEF Upto
  <2>2. 0 \in 0 .. Len(list)
    BY <1>0
  <2> QED BY <2>1, <2>2
<1>2. ASSUME NEW n \in 0 .. Len(list) - 1, n \in S PROVE n + 1 \in S
  <2>0. n \in Nat /\ n + 1 \in 1 .. Len(list) /\ n + 1 \in 0 .. Len(list)
    BY <1>0
  <2>1. PICK f \in [0 .. n -> P] : Upto(n, f)
    BY <1>2
  <2> DEFINE g == [i \in 0 .. n + 1 |-> IF i <= n THEN f[i] ELSE Step[<<f[n], list[n + 1]>>]]
  <2>2. f[n] \in P /\ list[n + 1] \in R /\ Step[<<f[n], list[n + 1]>>] \in P
    BY <1>0, <2>0, <2>1, <1>9
  <2>3. g \in [0 .. n + 1 -> P]
    BY <2>0, <2>2
  <2>4. Upto(n + 1, g)
    <3> SUFFICES ASSUME NEW i \in 0 .. n + 1
                 PROVE  g[i] = (IF i = 0 THEN first ELSE Step[<<g[i - 1], list[i]>>])
      OBVIOUS
    <3>1. CASE i = 0
      <4>1. 0 \in 0 .. n /\ 0 <= n
        BY <2>0
      <4>3. f[0] = first
        BY <4>1, <2>1
      <4>2. g[0] = f[0]
        BY <4>1, <2>0
      <4> QED BY <3>1, <4>2, <4>3
    <3>2. CASE i # 0 /\ i <= n
      <4>1. i \in 0 .. n /\ i - 1 \in 0 .. n
        BY <3>2, <2>0
      <4>2. g[i] = f[i] /\ g[i - 1] = f[i - 1]
        BY <4>1, <2>0
      <4> QED BY <3>2, <4>1, <4>2, <2>1
    <3>3. CASE i = n + 1
      <4>1. n \in 0 .. n + 1 /\ g[n] = f[n] /\ i - 1 = n /\ i # 0
        BY <3>3, <2>0
      <4>2. g[n + 1] = Step[<<f[n], list[n + 1]>>]
        BY <2>0
      <4> QED BY <3>3, <4>1, <4>2
    <3> QED BY <3>1, <3>2, <3>3, <2>0
  <2> HIDE DEF g, Upto
  <2> QED BY <2>0, <2>3, <2>4
<1>3. 0 .. Len(list) \subseteq S
  <2> HIDE DEF S
  <2> QED BY <1>0, <1>1, <1>2, SetInduction
<1>4. PICK f \in [0 .. Len(list) -> P] : Upto(Len(list), f)
  <2>1. Len(list) \in S
    BY <1>0, <1>3
  <2> QED BY <2>1
<1>5. f[0] = first /\ \A n \in 1 .. Len(list) : f[n] = Step[<<f[n - 1], list[n]>>]
  <2>1. 0 \in 0 .. Len(list) /\ \A n \in 1 .. Len(list) : n \in 0 .. Len(list) /\ n # 0
    BY <1>0
  <2> QED BY <2>1, <1>4
<1> QED BY <1>4, <1>5 DEF IsWalk

\* What a function is at 0 it stays up to n, if no step leaves it.
LEMMA StepsStay ==
  ASSUME NEW P, NEW n \in Nat, NEW f, f[0] \in P,
         \A i \in 0 .. n - 1 : f[i] \in P => f[i + 1] \in P
  PROVE  f[n] \in P
<1> DEFINE S == {i \in 0 .. n : f[i] \in P}
<1>1. 0 \in S
  OBVIOUS
<1>2. \A i \in 0 .. n - 1 : i \in S => i + 1 \in S
  OBVIOUS
<1>3. 0 .. n \subseteq S
  <2> HIDE DEF S
  <2> QED BY <1>1, <1>2, SetInduction
<1> QED BY <1>3
================================================================================
