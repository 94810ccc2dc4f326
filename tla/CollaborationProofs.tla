-------------------------- MODULE CollaborationProofs --------------------------
(***************************************************************************)
(* Theorems about what people share: the edits of Collab, for any clones,  *)
(* browsers, numbers of edits and troubles, and any limits on what is      *)
(* kept; and the rights of Members, for any people, requests and choices.  *)
(*                                                                         *)
(* Apply counts on the edits it keeps to be the document's latest ones     *)
(* without a gap (HistoryUnbroken), and refuses an edit it has seen by a   *)
(* number rebuilt from those (OwnEditsOnce).  Both rest on CollabInv: the  *)
(* edits in memory and in the database are the last of those applied since *)
(* the last reset (Retained), the numbers seen cover them, and an edit of  *)
(* one's own browser was based on a revision before the one it made, so    *)
(* that when it is kept no longer its repetition is too old (BasedBefore). *)
(*                                                                         *)
(* That insertions make the same text in any order (InsertionsConverge)    *)
(* rests on an order of all of them: those before the text, the text,      *)
(* those after it, and operationOrder among equals.  ConvergeInv says that *)
(* every text is in this order and that every edit kept was applied at its *)
(* rank among the earlier ones; transform moves an edit from its rank      *)
(* among some to its rank among one more (TransformPlaces).                *)
(*                                                                         *)
(* Two machines' worth of requests and syncs cross in Members.  ChoiceInv  *)
(* says why a sync cannot undo what a person was given (ChoiceStands): the *)
(* request that gave it ran alone, so GitHub has the role it pushed, the   *)
(* row remembers that role, and whatever a sync has read is either that or *)
(* nothing that it acts on.  CalmInv follows one sync that nobody disturbs *)
(* through its three passes, person by person, to where the next one has   *)
(* nothing to do (NoThrash).                                               *)
(***************************************************************************)
EXTENDS Collab, Members, ListInduction, SequenceTheorems, FiniteSetTheorems

--------------------------------------------------------------------------------
(* The text operations *)

LEMMA Limits ==
  /\ Clients \subseteq Nat \ {0} /\ Workplaces \subseteq Clones
  /\ \A k \in Clients : Home[k] \in Workplaces
  /\ HistoryLimit \in Nat \ {0} /\ TrimEvery \in Nat \ {0}
  /\ Deletions \in Nat /\ MaxOps \in Nat /\ MaxTroubles \in Nat
BY CollabAssumption

LEMMA MovedTyped ==
  ASSUME NEW op \in Ops, NEW from \in Int, NEW to \in Int
  PROVE  [op EXCEPT !.from = from, !.to = to] \in Ops
BY DEF Ops

LEMMA PastTyped ==
  ASSUME NEW op \in Ops, NEW other \in Entries
  PROVE  Past(op, other) \in Ops
<1>1. /\ op.from \in Int /\ op.to \in Int /\ other.from \in Int /\ other.to \in Int
      /\ Inserted(other) \in Int /\ Delta(other) \in Int
  BY DEF Ops, Entries, Inserted, Delta
<1>2. \/ Past(op, other) = op
      \/ Past(op, other) = [op EXCEPT !.from = op.from + Inserted(other), !.to = op.to + Inserted(other)]
      \/ Past(op, other) = [op EXCEPT !.from = op.from + Delta(other), !.to = op.to + Delta(other)]
      \/ \E start \in Int, end \in Int : Past(op, other) = [op EXCEPT !.from = start, !.to = end]
  <2> DEFINE pure == other.from = other.to /\ op.from = op.to /\ other.from = op.from
             start == IF other.from < op.from THEN other.from + Inserted(other) ELSE op.from
             end   == IF op.to + Delta(other) < start THEN start ELSE op.to + Delta(other)
  <2>1. start \in Int /\ end \in Int
    BY <1>1
  <2> HIDE DEF start, end
  <2>2. \/ transform(op, other) = op
        \/ transform(op, other) = [op EXCEPT !.from = op.from + Inserted(other), !.to = op.to + Inserted(other)]
        \/ transform(op, other) = [op EXCEPT !.from = op.from + Delta(other), !.to = op.to + Delta(other)]
        \/ transform(op, other) = [op EXCEPT !.from = start, !.to = end]
    BY DEF transform, start, end
  <2> QED BY <2>1, <2>2 DEF Past
<1>3. /\ op.from + Inserted(other) \in Int /\ op.to + Inserted(other) \in Int
      /\ op.from + Delta(other) \in Int /\ op.to + Delta(other) \in Int
  BY <1>1
<1>4. \A from \in Int, to \in Int : [op EXCEPT !.from = from, !.to = to] \in Ops
  BY MovedTyped
<1> QED BY <1>2, <1>3, <1>4

\* Reconciled works through the edits kept, one after the other.
LEMMA ReconciledSteps ==
  ASSUME NEW op \in Ops, NEW doc, doc.history \in Seq(Entries)
  PROVE  \E upto : /\ upto[0] = op /\ Reconciled(op, doc) = upto[Len(doc.history)]
                   /\ \A n \in 1 .. Len(doc.history) : upto[n] = Past(upto[n - 1], doc.history[n])
<1> DEFINE list == doc.history
           D == 0 .. Len(list)
           upto[n \in D] == IF n = 0 THEN op ELSE Past(upto[n - 1], list[n])
           OneStep == [z \in Ops \X Entries |-> Past(z[1], z[2])]
<1>0. Len(list) \in Nat /\ \A i \in 1 .. Len(list) : list[i] \in Entries
  OBVIOUS
<1>1. OneStep \in [Ops \X Entries -> Ops]
  <2>1. \A z \in Ops \X Entries : Past(z[1], z[2]) \in Ops
    BY PastTyped
  <2> QED BY <2>1
<1>2. \A o \in Ops, e \in Entries : OneStep[<<o, e>>] = Past(o, e)
  OBVIOUS
<1>3. PICK f : IsWalk(f, OneStep, Ops, op, list)
  <2> HIDE DEF OneStep, upto, list
  <2>1. IsStep(OneStep, Ops, Entries)
    BY <1>1 DEF IsStep
  <2>2. list \in Seq(Entries)
    BY DEF list
  <2> QED BY <2>1, <2>2, WalkExists
<1>4. f = [n \in D |-> IF n = 0 THEN op ELSE Past(f[n - 1], list[n])]
  <2> HIDE DEF OneStep
  <2>1. ASSUME NEW n \in D, n # 0
        PROVE  OneStep[<<f[n - 1], list[n]>>] = Past(f[n - 1], list[n])
    <3>1. n - 1 \in D /\ n \in 1 .. Len(list)
      BY <2>1, <1>0
    <3>2. f[n - 1] \in Ops /\ list[n] \in Entries
      BY <3>1, <1>0, <1>3 DEF IsWalk
    <3> QED BY <3>2, <1>2
  <2>2. \A n \in D : f[n] = (IF n = 0 THEN op ELSE Past(f[n - 1], list[n]))
    <3>1. \A n \in D : n # 0 => n \in 1 .. Len(list)
      BY <1>0
    <3> QED BY <2>1, <3>1, <1>3 DEF IsWalk
  <2> QED BY <2>2, <1>3 DEF IsWalk
<1>5. upto = [n \in D |-> IF n = 0 THEN op ELSE Past(upto[n - 1], list[n])]
  <2>1. upto = CHOOSE g : g = [n \in D |-> IF n = 0 THEN op ELSE Past(g[n - 1], list[n])]
    BY DEF upto
  <2> HIDE DEF upto
  <2> QED BY <2>1, <1>4
<1>6. Reconciled(op, doc) = upto[Len(list)]
  BY DEF Reconciled
<1> HIDE DEF upto, OneStep
<1>7. upto[0] = op
  BY <1>0, <1>5
<1>8. ASSUME NEW n \in 1 .. Len(list) PROVE upto[n] = Past(upto[n - 1], list[n])
  <2>1. n \in D /\ n # 0
    BY <1>0
  <2> QED BY <2>1, <1>5
<1> QED BY <1>6, <1>7, <1>8

LEMMA ReconciledTyped ==
  ASSUME NEW op \in Ops, NEW doc, doc.history \in Seq(Entries)
  PROVE  Reconciled(op, doc) \in Ops
<1>0. Len(doc.history) \in Nat /\ \A i \in 1 .. Len(doc.history) : doc.history[i] \in Entries
  OBVIOUS
<1>1. PICK upto : /\ upto[0] = op /\ Reconciled(op, doc) = upto[Len(doc.history)]
                  /\ \A n \in 1 .. Len(doc.history) : upto[n] = Past(upto[n - 1], doc.history[n])
  BY ReconciledSteps
<1>2. ASSUME NEW i \in 0 .. Len(doc.history) - 1, upto[i] \in Ops PROVE upto[i + 1] \in Ops
  <2>1. i + 1 \in 1 .. Len(doc.history) /\ i + 1 - 1 = i
    BY <1>0
  <2>2. upto[i + 1] = Past(upto[i], doc.history[i + 1])
    BY <1>1, <2>1
  <2> QED BY <1>0, <1>2, <2>1, <2>2, PastTyped
<1> QED BY <1>0, <1>1, <1>2, StepsStay

LEMMA SplicedTyped ==
  ASSUME NEW text \in Texts, NEW op \in Ops, 0 <= op.from, op.from <= op.to, op.to <= Len(text)
  PROVE  Spliced(text, op) \in Texts
<1> USE DEF Texts
<1>1. op.client \in Nat /\ op.seq \in Nat /\ op.from \in Int /\ op.to \in Int
  <2>1. op.client \in Clients /\ op.seq \in 1 .. MaxOps /\ op.from \in Int /\ op.to \in Int
    BY DEF Ops
  <2>2. op.client \in Nat
    BY <2>1, Limits
  <2>3. \A n \in 1 .. MaxOps : n \in Nat
    BY Limits
  <2> QED BY <2>1, <2>2, <2>3
<1>2. SubSeq(text, 1, op.from) \in Texts /\ SubSeq(text, op.to + 1, Len(text)) \in Texts
  BY <1>1, SubSeqProperties
<1>3. (IF op.insert THEN <<<<op.client, op.seq>>>> ELSE <<>>) \in Texts
  <2>1. <<op.client, op.seq>> \in Nat \X Nat
    BY <1>1
  <2>2. \A mark \in Nat \X Nat : <<mark>> \in Texts
    OBVIOUS
  <2>3. <<>> \in Texts
    OBVIOUS
  <2> QED BY <2>1, <2>2, <2>3
<1> QED BY <1>2, <1>3, ConcatProperties DEF Spliced

--------------------------------------------------------------------------------
(* The edits that are kept *)

\* entries are the last of the edits ops names, without a gap and enough of them.
Retained(entries, ops) ==
  /\ Len(entries) <= Len(ops)
  /\ Len(entries) >= AtLeast(Len(ops), HistoryLimit)
  /\ \A i \in 1 .. Len(entries) :
       /\ entries[i].revision = Len(ops) - Len(entries) + i
       /\ ops[entries[i].revision] = [client |-> entries[i].client, seq |-> entries[i].seq]

Edits == [client : Clients, seq : 1 .. MaxOps]

LEMMA NewestIsSubSeq ==
  ASSUME NEW entries \in Seq(Entries)
  PROVE  \E first \in 1 .. Len(entries) + 1 :
           /\ Newest(entries, HistoryLimit) = SubSeq(entries, first, Len(entries))
           /\ first = 1 \/ Len(entries) - first + 1 = HistoryLimit
<1>1. CASE Len(entries) > HistoryLimit
  <2> DEFINE first == Len(entries) - HistoryLimit + 1
  <2>1. Len(entries) \in Nat /\ HistoryLimit \in Nat
    BY Limits
  <2>2. first \in 1 .. Len(entries) + 1 /\ Len(entries) - first + 1 = HistoryLimit
    BY <1>1, <2>1
  <2>3. Newest(entries, HistoryLimit) = SubSeq(entries, first, Len(entries))
    BY <1>1 DEF Newest
  <2> HIDE DEF first
  <2> QED BY <2>2, <2>3
<1>2. CASE ~(Len(entries) > HistoryLimit)
  <2>1. SubSeq(entries, 1, Len(entries)) = entries
    BY SubSeqFull
  <2> QED BY <1>2, <2>1 DEF Newest
<1> QED BY <1>1, <1>2

LEMMA SubSeqRetained ==
  ASSUME NEW entries \in Seq(Entries), NEW ops \in Seq(Edits), Retained(entries, ops),
         NEW first \in 1 .. Len(entries) + 1, first = 1 \/ Len(entries) - first + 1 >= HistoryLimit
  PROVE  /\ SubSeq(entries, first, Len(entries)) \in Seq(Entries)
         /\ Retained(SubSeq(entries, first, Len(entries)), ops)
<1> DEFINE rest == SubSeq(entries, first, Len(entries))
<1>1. /\ rest \in Seq(Entries) /\ Len(rest) = Len(entries) - first + 1
      /\ \A i \in 1 .. Len(rest) : rest[i] = entries[first + i - 1]
  BY SubSeqProperties
<1>2. \A i \in 1 .. Len(rest) : first + i - 1 \in 1 .. Len(entries)
  BY <1>1
<1>3. Len(entries) \in Nat /\ Len(ops) \in Nat /\ HistoryLimit \in Nat
  BY Limits
<1>4. Len(rest) <= Len(ops) /\ Len(rest) >= AtLeast(Len(ops), HistoryLimit)
  BY <1>1, <1>3 DEF Retained, AtLeast
<1> HIDE DEF rest
<1>5. ASSUME NEW i \in 1 .. Len(rest)
      PROVE  /\ rest[i].revision = Len(ops) - Len(rest) + i
             /\ ops[rest[i].revision] = [client |-> rest[i].client, seq |-> rest[i].seq]
  <2>1. entries[first + i - 1].revision = Len(ops) - Len(entries) + (first + i - 1)
    BY <1>2 DEF Retained
  <2>2. Len(ops) - Len(entries) + (first + i - 1) = Len(ops) - Len(rest) + i
    BY <1>1, <1>3
  <2> QED BY <1>1, <1>2, <2>1, <2>2 DEF Retained
<1>6. Retained(rest, ops)
  BY <1>4, <1>5 DEF Retained
<1> QED BY <1>1, <1>6 DEF rest

LEMMA NewestRetained ==
  ASSUME NEW entries \in Seq(Entries), NEW ops \in Seq(Edits), Retained(entries, ops)
  PROVE  /\ Newest(entries, HistoryLimit) \in Seq(Entries)
         /\ Retained(Newest(entries, HistoryLimit), ops)
<1>1. PICK first \in 1 .. Len(entries) + 1 :
        /\ Newest(entries, HistoryLimit) = SubSeq(entries, first, Len(entries))
        /\ first = 1 \/ Len(entries) - first + 1 = HistoryLimit
  BY NewestIsSubSeq
<1>2. first = 1 \/ Len(entries) - first + 1 >= HistoryLimit
  BY <1>1, Limits
<1> QED BY <1>1, <1>2, SubSeqRetained

\* A sweep drops what is older than the last HistoryLimit revisions.
LEMMA TrimmedIsSubSeq ==
  ASSUME NEW entries \in Seq(Entries), NEW ops \in Seq(Edits), Retained(entries, ops),
         NEW doc, doc.revision = Len(ops)
  PROVE  \E first \in 1 .. Len(entries) + 1 :
           /\ Trimmed(entries, doc) = SubSeq(entries, first, Len(entries))
           /\ first = 1 \/ Len(entries) - first + 1 >= HistoryLimit
<1> DEFINE keepFrom == doc.revision - HistoryLimit
           gap == keepFrom - (Len(ops) - Len(entries)) - 1
           older == IF gap < 0 THEN 0 ELSE IF gap > Len(entries) THEN Len(entries) ELSE gap
           Fits(n) == \A i \in DOMAIN entries : i <= n <=> entries[i].revision < keepFrom
<1>0. Len(entries) \in Nat /\ Len(ops) \in Nat /\ HistoryLimit \in Nat \ {0} /\ keepFrom \in Int /\ gap \in Int
      /\ DOMAIN entries = 1 .. Len(entries) /\ Len(entries) <= Len(ops)
  BY Limits DEF Retained
<1>1. older \in 0 .. Len(entries) /\ Fits(older)
  <2>1. older \in 0 .. Len(entries)
    BY <1>0
  <2>2. ASSUME NEW i \in 1 .. Len(entries)
        PROVE  i <= older <=> entries[i].revision < keepFrom
    <3>1. entries[i].revision = Len(ops) - Len(entries) + i
      BY DEF Retained
    <3>2. entries[i].revision < keepFrom <=> i <= gap
      BY <3>1, <1>0
    <3> HIDE DEF gap
    <3>3. i <= older <=> i <= gap
      BY <1>0
    <3> QED BY <3>2, <3>3
  <2> QED BY <2>1, <2>2, <1>0
<1> DEFINE n == CHOOSE m \in 0 .. Len(entries) : Fits(m)
<1>2. n \in 0 .. Len(entries) /\ Fits(n)
  <2> HIDE DEF Fits, older
  <2> QED BY <1>1
<1>3. From(entries, keepFrom) = SubSeq(entries, n + 1, Len(entries))
  BY DEF From
<1>4. n + 1 \in 1 .. Len(entries) + 1 /\ (n + 1 = 1 \/ Len(entries) - (n + 1) + 1 >= HistoryLimit)
  <2>1. n + 1 \in 1 .. Len(entries) + 1
    <3> HIDE DEF n
    <3> QED BY <1>0, <1>2
  <2>2. CASE n = 0
    <3> HIDE DEF n
    <3> QED BY <2>1, <2>2
  <2>3. CASE n # 0
    <3> HIDE DEF n
    <3>1. n \in 1 .. Len(entries) /\ n <= n
      BY <2>3, <1>0, <1>2
    <3>2. entries[n].revision < keepFrom
      BY <3>1, <1>0, <1>2
    <3>3. entries[n].revision = Len(ops) - Len(entries) + n
      BY <3>1 DEF Retained
    <3> QED BY <3>1, <3>2, <3>3, <1>0
  <2> QED BY <2>1, <2>2, <2>3
<1>5. CASE doc.sinceTrim + 1 < TrimEvery
  <2>1. Trimmed(entries, doc) = SubSeq(entries, 1, Len(entries)) /\ 1 \in 1 .. Len(entries) + 1
    BY <1>0, <1>5, SubSeqFull DEF Trimmed
  <2> QED BY <2>1
<1>6. CASE ~(doc.sinceTrim + 1 < TrimEvery)
  <2>1. Trimmed(entries, doc) = From(entries, keepFrom)
    BY <1>6 DEF Trimmed
  <2> HIDE DEF n
  <2> QED BY <1>3, <1>4, <2>1
<1> QED BY <1>5, <1>6

LEMMA TrimmedRetained ==
  ASSUME NEW entries \in Seq(Entries), NEW ops \in Seq(Edits), Retained(entries, ops),
         NEW doc, doc.revision = Len(ops)
  PROVE  Trimmed(entries, doc) \in Seq(Entries) /\ Retained(Trimmed(entries, doc), ops)
BY TrimmedIsSubSeq, SubSeqRetained

LEMMA AppendRetained ==
  ASSUME NEW entries \in Seq(Entries), NEW ops \in Seq(Edits), Retained(entries, ops),
         NEW e \in Entries, e.revision = Len(ops) + 1, NEW edit \in Edits,
         edit = [client |-> e.client, seq |-> e.seq]
  PROVE  /\ Append(entries, e) \in Seq(Entries) /\ Append(ops, edit) \in Seq(Edits)
         /\ Retained(Append(entries, e), Append(ops, edit))
<1> DEFINE es == Append(entries, e)
           os == Append(ops, edit)
<1>1. /\ es \in Seq(Entries) /\ Len(es) = Len(entries) + 1
      /\ \A i \in 1 .. Len(entries) : es[i] = entries[i]
      /\ es[Len(entries) + 1] = e
  BY AppendProperties
<1>2. /\ os \in Seq(Edits) /\ Len(os) = Len(ops) + 1
      /\ \A i \in 1 .. Len(ops) : os[i] = ops[i]
      /\ os[Len(ops) + 1] = edit
  BY AppendProperties
<1>3. Len(entries) \in Nat /\ Len(ops) \in Nat /\ HistoryLimit \in Nat
  BY Limits
<1> HIDE DEF es, os
<1>4. Len(es) <= Len(os) /\ Len(es) >= AtLeast(Len(os), HistoryLimit)
  BY <1>1, <1>2, <1>3 DEF Retained, AtLeast
<1>5. ASSUME NEW i \in 1 .. Len(es)
      PROVE  /\ es[i].revision = Len(os) - Len(es) + i
             /\ os[es[i].revision] = [client |-> es[i].client, seq |-> es[i].seq]
  <2>1. CASE i \in 1 .. Len(entries)
    <3>1. es[i] = entries[i] /\ entries[i].revision = Len(ops) - Len(entries) + i
      BY <2>1, <1>1 DEF Retained
    <3>2. Len(ops) - Len(entries) + i \in 1 .. Len(ops)
      BY <2>1, <1>3 DEF Retained
    <3>3. Len(os) - Len(es) + i = Len(ops) - Len(entries) + i
      BY <1>1, <1>2, <1>3
    <3> QED BY <2>1, <3>1, <3>2, <3>3, <1>2 DEF Retained
  <2>2. CASE i = Len(entries) + 1
    <3>1. Len(os) - Len(es) + i = Len(ops) + 1
      BY <2>2, <1>1, <1>2, <1>3
    <3> QED BY <2>2, <3>1, <1>1, <1>2
  <2> QED BY <2>1, <2>2, <1>1, <1>3
<1>6. Retained(es, os)
  BY <1>4, <1>5 DEF Retained
<1> QED BY <1>1, <1>2, <1>6 DEF es, os

--------------------------------------------------------------------------------
(* The numbers seen *)

LEMMA MaxExists ==
  ASSUME NEW m \in Nat, NEW S \in SUBSET (0 .. m), S # {}
  PROVE  \E n \in S : \A o \in S : o <= n
<1> DEFINE T == {m - x : x \in S}
<1>1. T \in SUBSET Nat /\ T # {}
  <2>1. \A x \in S : m - x \in Nat
    OBVIOUS
  <2>2. \E x \in S : m - x \in T
    OBVIOUS
  <2> QED BY <2>1, <2>2
<1>2. PICK y \in T : \A z \in T : ~(z < y)
  <2> HIDE DEF T
  <2> QED BY <1>1, NatMin
<1>3. PICK n \in S : y = m - n
  BY <1>2
<1>4. ASSUME NEW o \in S PROVE o <= n
  <2>1. ~(m - o < m - n)
    BY <1>2, <1>3
  <2>2. m \in Int /\ n \in Int /\ o \in Int
    OBVIOUS
  <2> QED BY ONLY <2>1, <2>2
<1> QED BY <1>4

\* No edit that is kept has a number that was not seen.
Covers(entries, seen) == \A i \in 1 .. Len(entries) : entries[i].seq <= seen[entries[i].client]

LEMMA SeenCovers ==
  ASSUME NEW entries \in Seq(Entries)
  PROVE  SeenIn(entries) \in [Clients -> 0 .. MaxOps] /\ Covers(entries, SeenIn(entries))
<1> DEFINE Mine(k) == {entries[i].seq : i \in {j \in DOMAIN entries : entries[j].client = k}}
           Newest1(k) == IF Mine(k) = {} THEN 0 ELSE CHOOSE n \in Mine(k) : \A o \in Mine(k) : o <= n
<1>0. MaxOps \in Nat /\ DOMAIN entries = 1 .. Len(entries)
      /\ \A i \in 1 .. Len(entries) : entries[i].client \in Clients /\ entries[i].seq \in 1 .. MaxOps
  <2>1. \A i \in 1 .. Len(entries) : entries[i] \in Entries
    OBVIOUS
  <2>2. \A e \in Entries : e.client \in Clients /\ e.seq \in 1 .. MaxOps
    BY DEF Entries
  <2>3. DOMAIN entries = 1 .. Len(entries)
    OBVIOUS
  <2> QED BY <2>1, <2>2, <2>3, Limits
<1>1. SeenIn(entries) = [k \in Clients |-> Newest1(k)]
  BY DEF SeenIn
<1>2. ASSUME NEW k \in Clients
      PROVE  Newest1(k) \in 0 .. MaxOps /\ \A o \in Mine(k) : o <= Newest1(k)
  <2>1. Mine(k) \in SUBSET (0 .. MaxOps)
    BY <1>0
  <2>2. CASE Mine(k) = {}
    <3>1. Newest1(k) = 0
      BY <2>2
    <3> HIDE DEF Newest1, Mine
    <3> QED BY <2>2, <3>1, <1>0
  <2>3. CASE Mine(k) # {}
    <3> HIDE DEF Mine
    <3>1. \E n \in Mine(k) : \A o \in Mine(k) : o <= n
      BY <2>1, <2>3, <1>0, MaxExists
    <3>2. Newest1(k) = CHOOSE n \in Mine(k) : \A o \in Mine(k) : o <= n
      BY <2>3
    <3> HIDE DEF Newest1
    <3>3. Newest1(k) \in Mine(k) /\ \A o \in Mine(k) : o <= Newest1(k)
      BY <3>1, <3>2
    <3> QED BY <2>1, <3>3
  <2> QED BY <2>2, <2>3
<1>3. \A i \in 1 .. Len(entries) : entries[i].seq \in Mine(entries[i].client)
  BY <1>0
<1> HIDE DEF Mine, Newest1
<1>4. SeenIn(entries) \in [Clients -> 0 .. MaxOps]
  BY <1>1, <1>2
<1>5. Covers(entries, SeenIn(entries))
  BY <1>0, <1>1, <1>2, <1>3 DEF Covers
<1> QED BY <1>4, <1>5

LEMMA NewestCovered ==
  ASSUME NEW entries \in Seq(Entries), NEW seen, Covers(entries, seen)
  PROVE  Covers(Newest(entries, HistoryLimit), seen)
<1>1. PICK first \in 1 .. Len(entries) + 1 :
        Newest(entries, HistoryLimit) = SubSeq(entries, first, Len(entries))
  BY NewestIsSubSeq
<1>2. /\ Len(SubSeq(entries, first, Len(entries))) = Len(entries) - first + 1
      /\ \A i \in 1 .. Len(entries) - first + 1 :
           SubSeq(entries, first, Len(entries))[i] = entries[first + i - 1]
  BY SubSeqProperties
<1>3. \A i \in 1 .. Len(entries) - first + 1 : first + i - 1 \in 1 .. Len(entries)
  OBVIOUS
<1> QED BY <1>1, <1>2, <1>3 DEF Covers

--------------------------------------------------------------------------------
(* The invariant *)

\* The rows of a clone: none before the first edit, and the edits last applied.
RowsKept(c) ==
  /\ row[c] = NoRow => applied[c] = <<>>
  /\ row[c] # NoRow => row[c].revision = Len(applied[c])
  /\ Retained(log[c], applied[c])

\* Its document in memory is at the same revision, and has as much of them.
DocKept(c) ==
  mem[c] # NoDoc =>
    /\ mem[c].revision = Len(applied[c])
    /\ Retained(mem[c].history, applied[c])
    /\ Covers(mem[c].history, mem[c].seen)

\* A browser's edits have numbers of their own.
SentInOrder ==
  /\ IsFiniteSet(sent)
  /\ \A o \in sent : o.seq <= Cardinality(Own(o.client))
  /\ \A o, p \in sent : o.client = p.client /\ o.seq = p.seq => o = p

HandledSent == \A c \in Clones : handling[c].busy => handling[c].op \in sent

\* An edit of the machine's own browser was based on an earlier revision than its own.
BasedBefore(c) ==
  \A i \in 1 .. Len(applied[c]) : Home[applied[c][i].client] = c =>
     \E o \in sent : o.client = applied[c][i].client /\ o.seq = applied[c][i].seq /\ o.base < i

OnceHere(c) ==
  \A i, j \in 1 .. Len(applied[c]) :
     applied[c][i] = applied[c][j] /\ Home[applied[c][i].client] = c => i = j

CloneInv(c) == RowsKept(c) /\ DocKept(c) /\ BasedBefore(c) /\ OnceHere(c)
CollabInv == TypeOK /\ SentInOrder /\ HandledSent /\ \A c \in Clones : CloneInv(c)

LEMMA NothingRetained == Retained(<<>>, <<>>)
BY Limits DEF Retained, AtLeast

LEMMA FirstDoc ==
  ASSUME NEW disk \in Texts
  PROVE  /\ [NoDoc EXCEPT !.content = disk, !.revision = 0] \in Docs
         /\ [NoDoc EXCEPT !.content = disk, !.revision = 0].revision = 0
         /\ [NoDoc EXCEPT !.content = disk, !.revision = 0].history = <<>>
         /\ NoDoc \in Docs
<1>1. Nobody \in [Clients -> 0 .. MaxOps] /\ 0 \in 0 .. TrimEvery - 1 /\ <<>> \in Seq(Entries) /\ <<>> \in Texts
  BY Limits DEF Nobody, Texts
<1> QED BY <1>1 DEF NoDoc, Docs

LEMMA NoDocTyped == NoDoc \in Docs
<1>1. <<>> \in Texts
  BY DEF Texts
<1> QED BY <1>1, FirstDoc

\* What the lock is taken with: the document at the revision of the last edit.
LEMMA Loaded ==
  ASSUME CollabInv, NEW c \in Clones, NEW disk \in Texts
  PROVE  /\ load(c, disk) \in Docs
         /\ load(c, disk).revision = Len(applied[c])
         /\ Retained(load(c, disk).history, applied[c])
         /\ Covers(load(c, disk).history, load(c, disk).seen)
<1> DEFINE kept == replayHistory(c)
           replayed == [content |-> row[c].content, revision |-> row[c].revision,
                        history |-> kept, seen |-> SeenIn(kept), sinceTrim |-> 0]
<1>1. CloneInv(c) /\ TypeOK
  BY DEF CollabInv
<1>2. /\ mem[c] \in Docs /\ log[c] \in Seq(Entries) /\ applied[c] \in Seq(Edits)
      /\ row[c].content \in Texts /\ row[c].revision \in Nat \cup {-1}
  BY <1>1 DEF TypeOK, Edits
<1>3. CASE mem[c] # NoDoc
  BY <1>1, <1>2, <1>3 DEF load, CloneInv, DocKept
<1>4. CASE mem[c] = NoDoc /\ row[c] # NoRow
  <2>1. kept \in Seq(Entries) /\ Retained(kept, applied[c])
    BY <1>1, <1>2, NewestRetained DEF CloneInv, RowsKept, replayHistory
  <2>2. SeenIn(kept) \in [Clients -> 0 .. MaxOps] /\ Covers(kept, SeenIn(kept))
    BY <2>1, SeenCovers
  <2>3. load(c, disk) = replayed
    BY <1>4 DEF load
  <2> HIDE DEF kept
  <2>4. 0 \in 0 .. TrimEvery - 1
    BY Limits
  <2>5. replayed \in Docs
    BY <2>1, <2>2, <2>4, <1>2 DEF Docs
  <2>6. row[c].revision = Len(applied[c])
    BY <1>1, <1>4 DEF CloneInv, RowsKept
  <2> QED BY <2>1, <2>2, <2>3, <2>5, <2>6
<1>5. CASE mem[c] = NoDoc /\ row[c] = NoRow
  <2>1. applied[c] = <<>>
    BY <1>1, <1>5 DEF CloneInv, RowsKept
  <2>2. load(c, disk) = [NoDoc EXCEPT !.content = disk, !.revision = 0]
    BY <1>5 DEF load
  <2>3. \A seen : Covers(<<>>, seen)
    BY DEF Covers
  <2>4. load(c, disk) \in Docs /\ load(c, disk).revision = 0 /\ load(c, disk).history = <<>>
    BY <2>2, FirstDoc
  <2>5. Len(applied[c]) = 0
    BY <2>1
  <2> QED BY <2>1, <2>3, <2>4, <2>5, NothingRetained
<1> QED BY <1>3, <1>4, <1>5

--------------------------------------------------------------------------------
(* An edit that is applied *)

LEMMA MappedKeepsName ==
  ASSUME CollabInv, NEW c \in Clones, handling[c].busy
  PROVE  /\ handling[c].op \in Ops /\ handling[c].op \in sent /\ handling[c].disk \in Texts
         /\ Mapped(c, handling[c].op) \in Ops
         /\ Mapped(c, handling[c].op).client = handling[c].op.client
         /\ Mapped(c, handling[c].op).seq = handling[c].op.seq
         /\ Home[handling[c].op.client] = c => Mapped(c, handling[c].op) = handling[c].op
<1> DEFINE op == handling[c].op
           mine == load(c, handling[c].disk).revision
<1>1. op \in Ops /\ op \in sent /\ handling[c].disk \in Texts
  <2>1. handling[c] \in {Free} \cup [busy : {TRUE}, op : Ops, disk : Texts]
    BY DEF CollabInv, TypeOK
  <2>2. handling[c] # Free
    BY DEF Free
  <2> QED BY <2>1, <2>2 DEF CollabInv, HandledSent
<1>2. mine \in Nat
  <2>1. mine = Len(applied[c]) /\ applied[c] \in Seq(Edits)
    BY <1>1, Loaded DEF CollabInv, TypeOK, Edits
  <2> HIDE DEF mine
  <2> QED BY <2>1
<1>3. Mapped(c, op) = IF Home[op.client] # c /\ op.base > mine THEN [op EXCEPT !.base = mine] ELSE op
  BY DEF Mapped
<1> HIDE DEF op, mine
<1>4. /\ [op EXCEPT !.base = mine] \in Ops
      /\ [op EXCEPT !.base = mine].client = op.client /\ [op EXCEPT !.base = mine].seq = op.seq
  BY <1>1, <1>2 DEF Ops
<1>5. /\ Mapped(c, op) \in Ops /\ Mapped(c, op).client = op.client /\ Mapped(c, op).seq = op.seq
      /\ Home[op.client] = c => Mapped(c, op) = op
  BY <1>1, <1>3, <1>4
<1> QED BY <1>1, <1>5 DEF op

EditOf(op) == [client |-> op.client, seq |-> op.seq]

\* The document after an edit, field by field.
LEMMA AfterIs ==
  ASSUME NEW doc \in Docs, NEW op \in Ops
  PROVE  After(doc, op) =
           LET o == Reconciled(op, doc)
           IN  [content |-> Spliced(doc.content, o), revision |-> doc.revision + 1,
                history |-> Append(doc.history,
                              [client |-> op.client, seq |-> op.seq, base |-> op.base, from |-> o.from,
                               to |-> o.to, insert |-> op.insert, revision |-> doc.revision + 1]),
                seen |-> [doc.seen EXCEPT ![op.client] = op.seq], sinceTrim |-> doc.sinceTrim]
<1> DEFINE o == Reconciled(op, doc)
           done == [client |-> op.client, seq |-> op.seq, base |-> op.base, from |-> o.from, to |-> o.to,
                    insert |-> op.insert, revision |-> doc.revision + 1]
           kept == Append(doc.history, done)
           seen == [doc.seen EXCEPT ![op.client] = op.seq]
<1>1. doc = [content |-> doc.content, revision |-> doc.revision, history |-> doc.history,
             seen |-> doc.seen, sinceTrim |-> doc.sinceTrim]
  BY DEF Docs
<1>2. After(doc, op) = [doc EXCEPT !.content = Spliced(doc.content, o), !.revision = doc.revision + 1,
                                   !.history = kept, !.seen = seen]
  BY DEF After
<1>3. After(doc, op) = [content |-> Spliced(doc.content, o), revision |-> doc.revision + 1, history |-> kept,
                        seen |-> seen, sinceTrim |-> doc.sinceTrim]
  <2> HIDE DEF o, kept, seen
  <2> QED BY <1>1, <1>2
<1> QED BY <1>3

\* The document after an edit, at the next revision and with the edit kept.
LEMMA AfterKept ==
  ASSUME CollabInv, NEW c \in Clones, NEW doc \in Docs, NEW op \in Ops, ~Refused(doc, op),
         doc.revision = Len(applied[c]), Retained(doc.history, applied[c]), Covers(doc.history, doc.seen)
  PROVE  /\ After(doc, op) \in Docs
         /\ After(doc, op).revision = Len(applied[c]) + 1
         /\ EditOf(op) \in Edits /\ Append(applied[c], EditOf(op)) \in Seq(Edits)
         /\ Last(After(doc, op).history) \in Entries
         /\ Last(After(doc, op).history).revision = Len(applied[c]) + 1
         /\ Last(After(doc, op).history).client = op.client
         /\ Last(After(doc, op).history).seq = op.seq
         /\ Retained(After(doc, op).history, Append(applied[c], EditOf(op)))
         /\ Covers(After(doc, op).history, After(doc, op).seen)
<1> DEFINE o == Reconciled(op, doc)
           done == [client |-> op.client, seq |-> op.seq, base |-> op.base, from |-> o.from, to |-> o.to,
                    insert |-> op.insert, revision |-> doc.revision + 1]
           kept == Append(doc.history, done)
           seen == [doc.seen EXCEPT ![op.client] = op.seq]
           next == [content |-> Spliced(doc.content, o), revision |-> doc.revision + 1, history |-> kept,
                    seen |-> seen, sinceTrim |-> doc.sinceTrim]
<1>0. /\ doc.content \in Texts /\ doc.revision \in Nat /\ doc.history \in Seq(Entries)
      /\ doc.seen \in [Clients -> 0 .. MaxOps] /\ doc.sinceTrim \in 0 .. TrimEvery - 1
      /\ applied[c] \in Seq(Edits)
  <2>1. applied[c] \in Seq(Edits)
    BY DEF CollabInv, TypeOK, Edits
  <2>2. Len(applied[c]) \in Nat
    BY <2>1
  <2> QED BY <2>1, <2>2 DEF Docs
<1>1. o \in Ops
  BY <1>0, ReconciledTyped
<1>2. 0 <= o.from /\ o.from <= o.to /\ o.to <= Len(doc.content)
  <2>1. ~(o.from < 0 \/ o.to < o.from \/ o.to > Len(doc.content))
    BY DEF Refused
  <2>2. o.from \in Int /\ o.to \in Int /\ Len(doc.content) \in Int
    BY <1>0, <1>1 DEF Ops, Texts
  <2> HIDE DEF o
  <2> QED BY <2>1, <2>2
<1>3. Spliced(doc.content, o) \in Texts
  BY <1>0, <1>1, <1>2, SplicedTyped
<1>4. After(doc, op) = next
  BY AfterIs
<1>5. op.client \in Clients /\ op.seq \in 1 .. MaxOps /\ done \in Entries
  BY <1>0, <1>1 DEF Ops, Entries
<1> HIDE DEF o
<1>6. EditOf(op) \in Edits /\ EditOf(op) = [client |-> done.client, seq |-> done.seq]
      /\ done.revision = Len(applied[c]) + 1
  BY <1>5 DEF EditOf, Edits
<1>7. done.client = op.client /\ done.seq = op.seq
  OBVIOUS
<1> HIDE DEF done
<1>8. /\ kept \in Seq(Entries) /\ Append(applied[c], EditOf(op)) \in Seq(Edits)
      /\ Retained(kept, Append(applied[c], EditOf(op)))
  BY <1>0, <1>5, <1>6, AppendRetained
<1>9. /\ Len(kept) = Len(doc.history) + 1 /\ kept[Len(doc.history) + 1] = done
      /\ \A i \in 1 .. Len(doc.history) : kept[i] = doc.history[i]
  BY <1>0, <1>5, AppendProperties
<1>10. Last(kept) = done
  BY <1>9 DEF Last
<1>11. seen \in [Clients -> 0 .. MaxOps] /\ seen[op.client] = op.seq
       /\ \A k \in Clients : doc.seen[k] <= seen[k]
  <2>1. ~(op.seq <= doc.seen[op.client])
    BY DEF Refused
  <2>2. \A k \in Clients : doc.seen[k] \in Int
    BY <1>0
  <2>3. doc.seen \in [Clients -> 0 .. MaxOps] /\ op.seq \in 0 .. MaxOps /\ op.seq \in Int
    BY <1>0, <1>5, Limits
  <2>4. seen \in [Clients -> 0 .. MaxOps] /\ seen[op.client] = op.seq
    BY <1>5, <2>3
  <2>5. ASSUME NEW k \in Clients PROVE doc.seen[k] <= seen[k]
    <3>1. CASE k = op.client
      <4>1. seen[k] = op.seq /\ ~(op.seq <= doc.seen[k]) BY <2>1, <2>4, <3>1
      <4>2. doc.seen[k] \in Int BY <2>2
      <4> HIDE DEF seen
      <4> QED BY ONLY <2>3, <4>1, <4>2
    <3>2. CASE k # op.client
      <4>1. seen[k] = doc.seen[k] BY <2>3, <3>2
      <4> QED BY <2>2, <4>1
    <3> QED BY <3>1, <3>2
  <2> QED BY <2>4, <2>5
<1>12. Covers(kept, seen)
  <2> SUFFICES ASSUME NEW i \in 1 .. Len(kept) PROVE kept[i].seq <= seen[kept[i].client]
    BY DEF Covers
  <2>0. Len(doc.history) \in Nat /\ \A j \in 1 .. Len(doc.history) : doc.history[j] \in Entries
    BY <1>0
  <2>1. CASE i \in 1 .. Len(doc.history)
    <3>1. /\ kept[i] = doc.history[i] /\ doc.history[i].client \in Clients /\ doc.history[i].seq \in Int
      BY <2>0, <2>1, <1>9 DEF Entries
    <3>2. doc.history[i].seq <= doc.seen[doc.history[i].client]
      BY <2>1 DEF Covers
    <3>3. doc.seen[doc.history[i].client] \in Int /\ seen[doc.history[i].client] \in Int
      BY <3>1, <1>0, <1>11
    <3> HIDE DEF kept, seen
    <3> QED BY <3>1, <3>2, <3>3, <1>11
  <2>2. CASE i = Len(doc.history) + 1
    <3> HIDE DEF kept, seen
    <3> QED BY <2>2, <1>5, <1>7, <1>9, <1>11
  <2> QED BY <2>0, <2>1, <2>2, <1>9
<1> HIDE DEF kept, seen
<1>13. next \in Docs
  BY <1>0, <1>3, <1>8, <1>11 DEF Docs
<1> QED BY <1>0, <1>4, <1>5, <1>6, <1>7, <1>8, <1>10, <1>12, <1>13

\* An edit of the machine's own browser that was applied before is refused: it is
\* kept, and its number seen, or it is too old.
LEMMA RepetitionRefused ==
  ASSUME CollabInv, NEW c \in Clones, NEW doc \in Docs, NEW op \in sent, Home[op.client] = c,
         doc.revision = Len(applied[c]), Retained(doc.history, applied[c]), Covers(doc.history, doc.seen),
         NEW i \in 1 .. Len(applied[c]), applied[c][i] = EditOf(op)
  PROVE  Refused(doc, op)
<1>0. /\ doc.revision \in Nat /\ doc.history \in Seq(Entries)
      /\ doc.seen \in [Clients -> 0 .. MaxOps] /\ applied[c] \in Seq(Edits)
      /\ op.base \in Nat /\ op.client \in Clients /\ op.seq \in 1 .. MaxOps
  <2>1. applied[c] \in Seq(Edits) /\ op \in Ops
    BY DEF CollabInv, TypeOK, Edits
  <2>2. Len(applied[c]) \in Nat
    BY <2>1
  <2> QED BY <2>1, <2>2 DEF Docs, Ops
<1>1. op.base < i
  <2>1. applied[c][i].client = op.client /\ applied[c][i].seq = op.seq
    BY DEF EditOf
  <2>2. PICK p \in sent : p.client = op.client /\ p.seq = op.seq /\ p.base < i
    BY <2>1 DEF CollabInv, CloneInv, BasedBefore
  <2> QED BY <2>2 DEF CollabInv, SentInOrder
<1>2. Len(doc.history) \in Nat /\ Len(applied[c]) \in Nat /\ Len(doc.history) <= Len(applied[c])
  BY <1>0 DEF Retained
<1>3. CASE i <= Len(applied[c]) - Len(doc.history)
  <2>0. i \in Int
    BY <1>2
  <2>2. \A b, j, k \in Int : b < j /\ j <= k => b < k
    OBVIOUS
  <2>3. Len(applied[c]) - Len(doc.history) \in Int
    BY <1>2
  <2>4. op.base \in Int
    BY <1>0
  <2>5. op.base < Len(applied[c]) - Len(doc.history)
    BY <2>0, <2>2, <2>3, <2>4, <1>1, <1>3
  <2>6. Oldest(doc) = Len(applied[c]) - Len(doc.history)
    BY DEF Oldest
  <2>1. op.base < Oldest(doc)
    BY <2>5, <2>6
  <2> QED BY <2>1 DEF Refused
<1>4. CASE ~(i <= Len(applied[c]) - Len(doc.history))
  <2> DEFINE n == i - (Len(applied[c]) - Len(doc.history))
  <2>1. n \in 1 .. Len(doc.history) /\ Len(applied[c]) - Len(doc.history) + n = i
    <3>1. i \in Int /\ 1 <= i /\ i <= Len(applied[c])
      BY <1>2
    <3>2. \A l, h, j \in Int : j <= l /\ ~(j <= l - h) =>
            j - (l - h) \in 1 .. h /\ l - h + (j - (l - h)) = j
      OBVIOUS
    <3>3. Len(applied[c]) \in Int /\ Len(doc.history) \in Int
      BY <1>2
    <3>4. /\ i - (Len(applied[c]) - Len(doc.history)) \in 1 .. Len(doc.history)
          /\ Len(applied[c]) - Len(doc.history) + (i - (Len(applied[c]) - Len(doc.history))) = i
      BY ONLY <3>1, <3>2, <3>3, <1>4
    <3> QED BY ONLY <3>4
  <2> HIDE DEF n
  <2>2. doc.history[n].revision = i
    BY <2>1 DEF Retained
  <2>3. applied[c][i] = [client |-> doc.history[n].client, seq |-> doc.history[n].seq]
    BY <2>1, <2>2 DEF Retained
  <2>4. doc.history[n].client = op.client /\ doc.history[n].seq = op.seq
    BY <2>3 DEF EditOf
  <2>5. op.seq <= doc.seen[op.client]
    BY <2>1, <2>4 DEF Covers
  <2> QED BY <2>5 DEF Refused
<1> QED BY <1>3, <1>4

--------------------------------------------------------------------------------
(* Steps *)

DocOf(c)  == load(c, handling[c].disk)
OpOf(c)   == Mapped(c, handling[c].op)
NextOf(c) == After(DocOf(c), OpOf(c))

\* d is the document of clone c after the edits ops.
DocAt(d, ops) ==
  /\ d \in Docs /\ d.revision = Len(ops)
  /\ Retained(d.history, ops) /\ Covers(d.history, d.seen)

LEMMA Frame ==
  ASSUME NEW e \in Clones, CloneInv(e), sent \subseteq sent',
         mem'[e] = mem[e], row'[e] = row[e], log'[e] = log[e], applied'[e] = applied[e]
  PROVE  CloneInv(e)'
<1>1. RowsKept(e)'
  BY DEF CloneInv, RowsKept
<1>2. DocKept(e)'
  BY DEF CloneInv, DocKept
<1>3. BasedBefore(e)'
  BY DEF CloneInv, BasedBefore
<1>4. OnceHere(e)'
  BY DEF CloneInv, OnceHere
<1> QED BY <1>1, <1>2, <1>3, <1>4 DEF CloneInv

\* The document is loaded, or forgotten, and nothing else of the clone changes.
LEMMA MemChanges ==
  ASSUME CollabInv, NEW c \in Clones, NEW d, d = NoDoc \/ DocAt(d, applied[c]),
         mem' = [mem EXCEPT ![c] = d], sent' = sent, row' = row, log' = log, applied' = applied
  PROVE  mem' \in [Clones -> Docs] /\ \A e \in Clones : CloneInv(e)'
<1>1. d \in Docs
  BY NoDocTyped DEF DocAt
<1>2. mem \in [Clones -> Docs] /\ \A e \in Clones : CloneInv(e)
  BY DEF CollabInv, TypeOK
<1>3. mem'[c] = d /\ \A e \in Clones \ {c} : mem'[e] = mem[e]
  BY <1>2
<1>4. ASSUME NEW e \in Clones, e # c PROVE CloneInv(e)'
  BY <1>2, <1>3, <1>4, Frame
<1>5. CloneInv(c)'
  <2>1. RowsKept(c)'
    BY <1>2 DEF CloneInv, RowsKept
  <2>2. DocKept(c)'
    BY <1>3 DEF DocKept, DocAt
  <2>3. BasedBefore(c)'
    BY <1>2 DEF CloneInv, BasedBefore
  <2>4. OnceHere(c)'
    BY <1>2 DEF CloneInv, OnceHere
  <2> QED BY <2>1, <2>2, <2>3, <2>4 DEF CloneInv
<1> QED BY <1>1, <1>2, <1>4, <1>5

\* What is known of the document and the rows once an edit is committed.
LEMMA NextKept ==
  ASSUME CollabInv, NEW c \in Clones, handling[c].busy, ~Refused(DocOf(c), OpOf(c))
  PROVE  LET edit == EditOf(handling[c].op)
             done == Last(NextOf(c).history)
             ops  == Append(applied[c], edit)
         IN  /\ edit \in Edits /\ ops \in Seq(Edits) /\ DocAt(NextOf(c), ops)
             /\ [client |-> done.client, seq |-> done.seq] = edit
             /\ Append(log[c], done) \in Seq(Entries) /\ Retained(Append(log[c], done), ops)
             /\ Home[handling[c].op.client] = c =>
                  /\ \A i \in 1 .. Len(applied[c]) : applied[c][i] # edit
                  /\ handling[c].op.base < Len(applied[c]) + 1
<1> DEFINE op == handling[c].op
           edit == EditOf(op)
           done == Last(NextOf(c).history)
           ops == Append(applied[c], edit)
<1>1. /\ op \in Ops /\ op \in sent /\ OpOf(c) \in Ops /\ OpOf(c).client = op.client /\ OpOf(c).seq = op.seq
      /\ Home[op.client] = c => OpOf(c) = op
      /\ handling[c].disk \in Texts
  BY MappedKeepsName DEF OpOf
<1>2. DocAt(DocOf(c), applied[c])
  BY <1>1, Loaded DEF DocAt, DocOf
<1>3. EditOf(OpOf(c)) = edit
  BY <1>1 DEF EditOf
<1> HIDE DEF edit, op
<1>4. /\ NextOf(c) \in Docs /\ NextOf(c).revision = Len(applied[c]) + 1
      /\ edit \in Edits /\ ops \in Seq(Edits)
      /\ done \in Entries /\ done.revision = Len(applied[c]) + 1
      /\ done.client = OpOf(c).client /\ done.seq = OpOf(c).seq
      /\ Retained(NextOf(c).history, ops) /\ Covers(NextOf(c).history, NextOf(c).seen)
  BY <1>1, <1>2, <1>3, AfterKept DEF DocAt, NextOf
<1>5. applied[c] \in Seq(Edits) /\ log[c] \in Seq(Entries) /\ Retained(log[c], applied[c])
  BY DEF CollabInv, TypeOK, CloneInv, RowsKept, Edits
<1>6. Len(ops) = Len(applied[c]) + 1
  BY <1>4, <1>5, AppendProperties
<1>7. [client |-> done.client, seq |-> done.seq] = edit
  BY <1>3, <1>4 DEF EditOf
<1> HIDE DEF done
<1>8. Append(log[c], done) \in Seq(Entries) /\ Retained(Append(log[c], done), ops)
  BY <1>4, <1>5, <1>7, AppendRetained
<1>9. ASSUME Home[op.client] = c
      PROVE  /\ \A i \in 1 .. Len(applied[c]) : applied[c][i] # edit
             /\ op.base < Len(applied[c]) + 1
  <2>1. ~Refused(DocOf(c), op) /\ edit = EditOf(op)
    BY <1>1, <1>9 DEF edit
  <2>2. \A i \in 1 .. Len(applied[c]) : applied[c][i] # edit
    BY <2>1, <1>1, <1>2, <1>9, RepetitionRefused DEF DocAt
  <2>3. ~(op.base > DocOf(c).revision)
    BY <2>1 DEF Refused
  <2>4. op.base \in Int /\ Len(applied[c]) \in Int /\ DocOf(c).revision = Len(applied[c])
    BY <1>1, <1>2, <1>5 DEF Ops, DocAt
  <2>5. op.base < Len(applied[c]) + 1
    BY <2>3, <2>4
  <2> QED BY <2>2, <2>5
<1> QED BY <1>4, <1>6, <1>7, <1>8, <1>9 DEF DocAt, done, edit, op

\* The edit is in the rows, and the document in memory is what it makes, or none.
LEMMA Committed ==
  ASSUME CollabInv, NEW c \in Clones, handling[c].busy, ~Refused(DocOf(c), OpOf(c)),
         SaveCollabEdit(c, NextOf(c)), sent' = sent,
         NEW rows \in Seq(Entries), Retained(rows, Append(applied[c], EditOf(handling[c].op))),
         log' = [log EXCEPT ![c] = rows],
         NEW d, d = NoDoc \/ DocAt(d, Append(applied[c], EditOf(handling[c].op))),
         mem' = [mem EXCEPT ![c] = d]
  PROVE  /\ mem' \in [Clones -> Docs]
         /\ row' \in [Clones -> [content : Texts, revision : Nat \cup {-1}]]
         /\ log' \in [Clones -> Seq(Entries)]
         /\ applied' \in [Clones -> Seq(Edits)]
         /\ \A e \in Clones : CloneInv(e)'
<1> DEFINE edit == EditOf(handling[c].op)
           ops == Append(applied[c], edit)
           last == Last(NextOf(c).history)
<1>0. /\ mem \in [Clones -> Docs] /\ log \in [Clones -> Seq(Entries)]
      /\ row \in [Clones -> [content : Texts, revision : Nat \cup {-1}]]
      /\ applied \in [Clones -> Seq(Edits)]
      /\ \A e \in Clones : CloneInv(e)
  BY DEF CollabInv, TypeOK, Edits
<1>1. /\ edit \in Edits /\ ops \in Seq(Edits) /\ DocAt(NextOf(c), ops)
      /\ [client |-> last.client, seq |-> last.seq] = edit
      /\ Home[handling[c].op.client] = c =>
           /\ \A i \in 1 .. Len(applied[c]) : applied[c][i] # edit
           /\ handling[c].op.base < Len(applied[c]) + 1
  BY NextKept
<1>2. handling[c].op \in sent
  BY MappedKeepsName
<1>3. /\ row' = [row EXCEPT ![c] = [content |-> NextOf(c).content, revision |-> NextOf(c).revision]]
      /\ applied' = [applied EXCEPT ![c] = ops]
  <2>1. applied' = [applied EXCEPT ![c] = Append(applied[c], [client |-> last.client, seq |-> last.seq])]
    BY DEF SaveCollabEdit
  <2> QED BY <2>1, <1>1 DEF SaveCollabEdit
<1> HIDE DEF edit, ops, last
<1>4. d \in Docs
  BY NoDocTyped DEF DocAt
<1>5. NextOf(c).content \in Texts /\ NextOf(c).revision \in Nat /\ NextOf(c).revision = Len(ops)
  <2>1. Len(ops) \in Nat
    BY <1>1
  <2> QED BY <2>1, <1>1 DEF DocAt, Docs
<1>6. /\ mem' \in [Clones -> Docs]
      /\ row' \in [Clones -> [content : Texts, revision : Nat \cup {-1}]]
      /\ log' \in [Clones -> Seq(Entries)]
      /\ applied' \in [Clones -> Seq(Edits)]
  BY <1>0, <1>1, <1>3, <1>4, <1>5
<1>7. /\ mem'[c] = d /\ log'[c] = rows /\ applied'[c] = ops
      /\ row'[c] = [content |-> NextOf(c).content, revision |-> NextOf(c).revision]
  BY <1>0, <1>3
<1>8. ASSUME NEW e \in Clones, e # c PROVE CloneInv(e)'
  <2>1. mem'[e] = mem[e] /\ row'[e] = row[e] /\ log'[e] = log[e] /\ applied'[e] = applied[e]
    BY <1>0, <1>3, <1>8
  <2> QED BY <2>1, <1>0, Frame
<1>9. CloneInv(c)'
  <2>1. RowsKept(c)'
    <3>1. row'[c].revision = Len(ops)
      BY <1>5, <1>7
    <3>2. row'[c] # NoRow
      BY <3>1, <1>5, <1>7 DEF NoRow
    <3>3. Retained(rows, ops)
      BY DEF ops, edit
    <3> QED BY <3>1, <3>2, <3>3, <1>7 DEF RowsKept
  <2>2. DocKept(c)'
    BY <1>7 DEF DocKept, DocAt, ops, edit
  <2>3. /\ Len(applied[c]) \in Nat /\ Len(ops) = Len(applied[c]) + 1 /\ ops[Len(applied[c]) + 1] = edit
        /\ \A i \in 1 .. Len(applied[c]) : ops[i] = applied[c][i]
    BY <1>0, <1>1, AppendProperties DEF ops
  <2>4. edit.client = handling[c].op.client /\ edit.seq = handling[c].op.seq
    BY DEF edit, EditOf
  <2>5. BasedBefore(c)'
    <3> SUFFICES ASSUME NEW i \in 1 .. Len(ops), Home[ops[i].client] = c
                 PROVE  \E o \in sent : o.client = ops[i].client /\ o.seq = ops[i].seq /\ o.base < i
      BY <1>7 DEF BasedBefore
    <3>1. CASE i \in 1 .. Len(applied[c])
      BY <3>1, <2>3, <1>0 DEF CloneInv, BasedBefore
    <3>2. CASE i = Len(applied[c]) + 1
      BY <3>2, <2>3, <2>4, <1>1, <1>2
    <3> QED BY <3>1, <3>2, <2>3
  <2>6. OnceHere(c)'
    <3> SUFFICES ASSUME NEW i \in 1 .. Len(ops), NEW j \in 1 .. Len(ops),
                        ops[i] = ops[j], Home[ops[i].client] = c
                 PROVE  i = j
      BY <1>7 DEF OnceHere
    <3>1. CASE i \in 1 .. Len(applied[c]) /\ j \in 1 .. Len(applied[c])
      <4>1. applied[c][i] = applied[c][j] /\ Home[applied[c][i].client] = c
        BY <3>1, <2>3
      <4> QED BY <3>1, <4>1, <1>0 DEF CloneInv, OnceHere
    <3>2. CASE i = Len(applied[c]) + 1 /\ j \in 1 .. Len(applied[c])
      BY <3>2, <2>3, <2>4, <1>1
    <3>3. CASE i \in 1 .. Len(applied[c]) /\ j = Len(applied[c]) + 1
      BY <3>3, <2>3, <2>4, <1>1
    <3>4. CASE i = Len(applied[c]) + 1 /\ j = Len(applied[c]) + 1
      BY <3>4
    <3> QED BY <3>1, <3>2, <3>3, <3>4, <2>3
  <2> QED BY <2>1, <2>2, <2>5, <2>6 DEF CloneInv
<1> QED BY <1>6, <1>8, <1>9

\* The document in memory after the sweep of its history.
LEMMA SweptKept ==
  ASSUME NEW d, NEW ops \in Seq(Edits), DocAt(d, ops)
  PROVE  DocAt(Swept(d), ops)
<1>1. d \in Docs /\ d.history \in Seq(Entries) /\ d.sinceTrim \in 0 .. TrimEvery - 1
  BY DEF DocAt, Docs
<1>2. Newest(d.history, HistoryLimit) \in Seq(Entries) /\ Retained(Newest(d.history, HistoryLimit), ops)
  BY <1>1, NewestRetained DEF DocAt
<1>3. Covers(Newest(d.history, HistoryLimit), d.seen)
  BY <1>1, NewestCovered DEF DocAt
<1>4. (d.sinceTrim + 1) % TrimEvery \in 0 .. TrimEvery - 1
  BY <1>1, Limits
<1>5. Swept(d) = [content |-> d.content, revision |-> d.revision,
                  history |-> Newest(d.history, HistoryLimit), seen |-> d.seen,
                  sinceTrim |-> (d.sinceTrim + 1) % TrimEvery]
  <2> DEFINE h == Newest(d.history, HistoryLimit)
             s == (d.sinceTrim + 1) % TrimEvery
  <2>1. d = [content |-> d.content, revision |-> d.revision, history |-> d.history,
             seen |-> d.seen, sinceTrim |-> d.sinceTrim]
    BY <1>1 DEF Docs
  <2>2. Swept(d) = [d EXCEPT !.history = h, !.sinceTrim = s]
    BY DEF Swept
  <2> HIDE DEF h, s
  <2>3. Swept(d) = [content |-> d.content, revision |-> d.revision, history |-> h,
                    seen |-> d.seen, sinceTrim |-> s]
    BY <2>1, <2>2
  <2> QED BY <2>3 DEF h, s
<1>6. Swept(d) \in Docs
  BY <1>1, <1>2, <1>4, <1>5 DEF Docs
<1> QED BY <1>2, <1>3, <1>5, <1>6 DEF DocAt

--------------------------------------------------------------------------------
(* An edit that is sent *)

LEMMA FiniteMax ==
  ASSUME NEW T \in SUBSET Nat, IsFiniteSet(T), T # {}
  PROVE  \E n \in T : \A o \in T : o <= n
<1>1. PICK seq \in Seq(T) : \A s \in T : \E i \in 1 .. Len(seq) : seq[i] = s
  BY DEF IsFiniteSet
<1>2. Len(seq) \in Nat /\ \A i \in 1 .. Len(seq) : seq[i] \in T /\ seq[i] \in Nat
  <2>1. Len(seq) \in Nat /\ \A i \in 1 .. Len(seq) : seq[i] \in T
    OBVIOUS
  <2>2. \A x \in T : x \in Nat
    OBVIOUS
  <2> QED BY <2>1, <2>2
<1> DEFINE S == {n \in 0 .. Len(seq) : n = 0 \/ \E m \in 1 .. Len(seq) : \A j \in 1 .. n : seq[j] <= seq[m]}
<1>3. 0 \in S
  BY <1>2
<1>4. ASSUME NEW n \in 0 .. Len(seq) - 1, n \in S PROVE n + 1 \in S
  <2>0. n \in Nat /\ n + 1 \in 1 .. Len(seq) /\ n + 1 \in 0 .. Len(seq)
        /\ \A j \in 1 .. n + 1 : j \in 1 .. n \/ j = n + 1
    BY <1>2
  <2> SUFFICES \E m \in 1 .. Len(seq) : \A j \in 1 .. n + 1 : seq[j] <= seq[m]
    BY <2>0
  <2>1. CASE n = 0
    BY <2>0, <2>1, <1>2
  <2>2. CASE n # 0
    <3>1. PICK m \in 1 .. Len(seq) : \A j \in 1 .. n : seq[j] <= seq[m]
      BY <1>4, <2>2
    <3>2. CASE seq[n + 1] <= seq[m]
      BY <3>1, <3>2, <2>0
    <3>3. CASE ~(seq[n + 1] <= seq[m])
      <4>1. \A j \in 1 .. n + 1 : seq[j] <= seq[n + 1]
        <5> SUFFICES ASSUME NEW j \in 1 .. n + 1 PROVE seq[j] <= seq[n + 1]
          OBVIOUS
        <5>1. CASE j \in 1 .. n
          <6>1. seq[j] <= seq[m] /\ j \in 1 .. Len(seq)
            BY <5>1, <3>1, <2>0, <1>2
          <6>2. seq[j] \in Nat /\ seq[m] \in Nat /\ seq[n + 1] \in Nat
            BY <6>1, <2>0, <1>2
          <6> QED BY <6>1, <6>2, <3>3
        <5>2. CASE j = n + 1
          BY <5>2, <2>0, <1>2
        <5> QED BY <5>1, <5>2, <2>0
      <4> QED BY <4>1, <2>0
    <3> QED BY <3>2, <3>3
  <2> QED BY <2>1, <2>2
<1>5. 0 .. Len(seq) \subseteq S
  <2> HIDE DEF S
  <2> QED BY <1>2, <1>3, <1>4, SetInduction
<1>6. Len(seq) # 0
  <2>1. PICK s \in T : TRUE
    OBVIOUS
  <2>2. PICK i \in 1 .. Len(seq) : seq[i] = s
    BY <1>1
  <2> QED BY <2>2, <1>2
<1>7. PICK m \in 1 .. Len(seq) : \A j \in 1 .. Len(seq) : seq[j] <= seq[m]
  <2>1. Len(seq) \in 0 .. Len(seq)
    BY <1>2
  <2>2. Len(seq) \in S
    <3> HIDE DEF S
    <3> QED BY <2>1, <1>5
  <2> QED BY <2>2, <1>6
<1>8. seq[m] \in T /\ \A o \in T : o <= seq[m]
  BY <1>1, <1>2, <1>7
<1> QED BY <1>8

LEMMA NextBaseTyped ==
  ASSUME CollabInv, NEW k \in Clients
  PROVE  NextBase(k) \in Nat /\ IsFiniteSet(Own(k)) /\ Cardinality(Own(k)) \in Nat
<1> DEFINE bases == {o.base : o \in Own(k)}
<1>1. IsFiniteSet(Own(k)) /\ Own(k) \subseteq Ops
  <2>1. Own(k) \subseteq sent
    BY DEF Own
  <2> QED BY <2>1, FS_Subset DEF CollabInv, SentInOrder, TypeOK
<1>2. bases \in SUBSET Nat
  BY <1>1 DEF Ops
<1>3. IsFiniteSet(bases)
  <2> DEFINE f == [o \in Own(k) |-> o.base]
  <2>1. f \in Surjection(Own(k), bases)
    BY DEF Surjection
  <2> HIDE DEF f, bases
  <2> QED BY <2>1, <1>1, FS_Surjection
<1>4. ASSUME Own(k) = {} PROVE NextBase(k) \in Nat
  BY <1>4 DEF NextBase
<1>5. ASSUME Own(k) # {} PROVE NextBase(k) \in Nat
  <2>1. bases # {}
    BY <1>5
  <2>2. \A o \in Own(k) : o.base \in bases
    OBVIOUS
  <2>3. NextBase(k) = (CHOOSE n \in bases : \A o \in Own(k) : o.base <= n) + 1
    BY <1>5 DEF NextBase
  <2> HIDE DEF bases
  <2>4. PICK n \in bases : \A o \in bases : o <= n
    BY <1>2, <1>3, <2>1, FiniteMax
  <2> DEFINE top == CHOOSE m \in bases : \A o \in Own(k) : o.base <= m
  <2>5. top \in bases
    BY <2>2, <2>4
  <2>6. NextBase(k) = top + 1
    BY <2>3
  <2> HIDE DEF top
  <2>7. top \in Nat
    BY <2>5, <1>2
  <2> QED BY <2>6, <2>7
<1> QED BY <1>1, <1>4, <1>5, FS_CardinalityType

LEMMA EditStep ==
  ASSUME CollabInv, NEW k \in Clients, Edit(k)
  PROVE  CollabInv'
<1>1. PICK base \in NextBase(k) .. (IF Known(k) > NextBase(k) THEN Known(k) ELSE NextBase(k)),
           from \in 0 .. 1, dropped \in 0 .. Deletions, insert \in BOOLEAN :
        sent' = sent \cup {[client |-> k, seq |-> Cardinality(Own(k)) + 1, base |-> base,
                            from |-> from, to |-> from + dropped, insert |-> insert]}
  BY DEF Edit
<1>2. /\ Cardinality(Own(k)) < MaxOps
      /\ UNCHANGED <<mem, row, log, file, delivered, handling, opening, saving, applied, saved,
                     saves, downs, fails>>
  BY DEF Edit
<1> DEFINE n == Cardinality(Own(k))
           new == [client |-> k, seq |-> n + 1, base |-> base, from |-> from, to |-> from + dropped,
                   insert |-> insert]
<1>3. NextBase(k) \in Nat /\ IsFiniteSet(Own(k)) /\ n \in Nat
  BY NextBaseTyped
<1>4. base \in Nat
  BY <1>3
<1>5. new \in Ops
  <2>1. n + 1 \in 1 .. MaxOps /\ from \in Int /\ from + dropped \in Int
    <3> HIDE DEF n
    <3> QED BY <1>2, <1>3, Limits DEF n
  <2> HIDE DEF n
  <2> QED BY <2>1, <1>4 DEF Ops
<1>6. new.client = k /\ new.seq = n + 1 /\ sent' = sent \cup {new}
  BY <1>1
<1>7. TypeOK'
  <2> HIDE DEF new
  <2> QED BY <1>2, <1>5, <1>6 DEF CollabInv, TypeOK
<1> HIDE DEF new
<1>8. /\ \A o \in sent : o.seq <= Cardinality(Own(o.client))
      /\ \A o, p \in sent : o.client = p.client /\ o.seq = p.seq => o = p
      /\ \A o \in sent : o.seq \in Nat /\ o.client \in Clients
      /\ IsFiniteSet(sent)
  <2>1. \A o \in Ops : o.seq \in Nat /\ o.client \in Clients
    BY Limits DEF Ops
  <2> QED BY <2>1 DEF CollabInv, TypeOK, SentInOrder
<1>9. \A o \in sent : o.client = k => o.seq <= n
  BY <1>8
<1> HIDE DEF n
<1>10. new \notin sent
  BY <1>3, <1>6, <1>9
<1>11. Own(k)' = Own(k) \cup {new} /\ \A c \in Clients \ {k} : Own(c)' = Own(c)
  BY <1>6 DEF Own
<1>12. Cardinality(Own(k)') = n + 1
  <2>1. new \notin Own(k)
    BY <1>10 DEF Own
  <2> QED BY <2>1, <1>3, <1>11, FS_AddElement DEF n
<1>13. SentInOrder'
  <2>1. IsFiniteSet(sent')
    BY <1>6, <1>8, FS_AddElement
  <2>2. \A o \in sent' : o.seq <= Cardinality(Own(o.client)')
    <3> SUFFICES ASSUME NEW o \in sent' PROVE o.seq <= Cardinality(Own(o.client)')
      OBVIOUS
    <3>1. CASE o.client = k
      BY <3>1, <1>3, <1>6, <1>8, <1>9, <1>12
    <3>2. CASE o.client # k
      BY <3>2, <1>6, <1>8, <1>11
    <3> QED BY <3>1, <3>2
  <2>3. \A o, p \in sent' : o.client = p.client /\ o.seq = p.seq => o = p
    BY <1>3, <1>6, <1>8, <1>9
  <2> QED BY <2>1, <2>2, <2>3 DEF SentInOrder, Own
<1>14. HandledSent'
  BY <1>2, <1>6 DEF CollabInv, HandledSent
<1>15. \A c \in Clones : CloneInv(c)'
  BY <1>2, <1>6, Frame DEF CollabInv
<1> QED BY <1>7, <1>13, <1>14, <1>15 DEF CollabInv

--------------------------------------------------------------------------------
(* The other steps *)

\* The document, the rows and what was sent stay.
LEMMA NothingOfThese ==
  ASSUME CollabInv, UNCHANGED <<mem, row, log, applied, sent>>
  PROVE  SentInOrder' /\ \A c \in Clones : CloneInv(c)'
<1>1. SentInOrder'
  BY DEF CollabInv, SentInOrder, Own
<1> QED BY <1>1, Frame DEF CollabInv

LEMMA HandleStep ==
  ASSUME CollabInv, NEW c \in Clones, HandleOp(c)
  PROVE  CollabInv'
<1>1. PICK op \in sent :
        /\ handling' = [handling EXCEPT ![c] = [busy |-> TRUE, op |-> op, disk |-> file[c].text]]
        /\ delivered' = [delivered EXCEPT ![c][op.client] =
                           IF op.seq > delivered[c][op.client] THEN op.seq ELSE delivered[c][op.client]]
  BY DEF HandleOp
<1>2. UNCHANGED <<mem, row, log, file, sent, opening, saving, applied, saved, saves, downs, fails>>
  BY DEF HandleOp
<1>3. op \in Ops /\ op.client \in Clients /\ op.seq \in 0 .. MaxOps /\ file[c].text \in Texts
  <2>1. \A o \in Ops : o.client \in Clients /\ o.seq \in 0 .. MaxOps
    BY Limits DEF Ops
  <2> QED BY <2>1 DEF CollabInv, TypeOK
<1>4. TypeOK'
  <2>1. handling' \in [Clones -> {Free} \cup [busy : {TRUE}, op : Ops, disk : Texts]]
    BY <1>1, <1>3 DEF CollabInv, TypeOK
  <2>2. delivered' \in [Clones -> [Clients -> 0 .. MaxOps]]
    BY <1>1, <1>3 DEF CollabInv, TypeOK
  <2> QED BY <1>2, <2>1, <2>2 DEF CollabInv, TypeOK
<1>5. HandledSent'
  BY <1>1, <1>2 DEF CollabInv, HandledSent, TypeOK
<1> QED BY <1>2, <1>4, <1>5, NothingOfThese DEF CollabInv

LEMMA RejectStep ==
  ASSUME CollabInv, NEW c \in Clones, RejectOp(c)
  PROVE  CollabInv'
<1>1. /\ handling[c].busy /\ mem' = [mem EXCEPT ![c] = DocOf(c)]
      /\ handling' = [handling EXCEPT ![c] = Free]
      /\ UNCHANGED <<row, log, file, sent, delivered, opening, saving, applied, saved,
                     saves, downs, fails>>
  BY DEF RejectOp, Handled, DocOf
<1>2. DocAt(DocOf(c), applied[c])
  BY <1>1, MappedKeepsName, Loaded DEF DocAt, DocOf
<1>3. mem' \in [Clones -> Docs] /\ \A e \in Clones : CloneInv(e)'
  BY <1>1, <1>2, MemChanges
<1>4. TypeOK'
  BY <1>1, <1>3 DEF CollabInv, TypeOK
<1>5. HandledSent' /\ SentInOrder'
  BY <1>1 DEF CollabInv, HandledSent, SentInOrder, Own, TypeOK, Free
<1> QED BY <1>3, <1>4, <1>5 DEF CollabInv

LEMMA ApplyStep ==
  ASSUME CollabInv, NEW c \in Clones, ApplyOp(c) \/ WriteFails(c) \/ EndsAfterCommit(c)
  PROVE  CollabInv'
<1> DEFINE ops == Append(applied[c], EditOf(handling[c].op))
           rows == Append(log[c], Last(NextOf(c).history))
<1>1. /\ handling[c].busy /\ ~Refused(DocOf(c), OpOf(c)) /\ SaveCollabEdit(c, NextOf(c))
      /\ handling' = [handling EXCEPT ![c] = Free] /\ UNCHANGED <<sent, delivered, saved, saves>>
  BY DEF ApplyOp, WriteFails, EndsAfterCommit, EndsWith, Handled, DocOf, OpOf, NextOf
<1>2. /\ ops \in Seq(Edits) /\ DocAt(NextOf(c), ops)
      /\ rows \in Seq(Entries) /\ Retained(rows, ops)
  BY <1>1, NextKept
<1>3. /\ Trimmed(rows, NextOf(c)) \in Seq(Entries)
      /\ Retained(Trimmed(rows, NextOf(c)), ops)
  BY <1>2, TrimmedRetained DEF DocAt
<1>4. DocAt(Swept(NextOf(c)), ops)
  BY <1>2, SweptKept
<1>5. /\ mem' \in [Clones -> Docs]
      /\ row' \in [Clones -> [content : Texts, revision : Nat \cup {-1}]]
      /\ log' \in [Clones -> Seq(Entries)]
      /\ applied' \in [Clones -> Seq(Edits)]
      /\ \A e \in Clones : CloneInv(e)'
  <2>1. CASE ApplyOp(c)
    <3>1. /\ log' = [log EXCEPT ![c] = Trimmed(rows, NextOf(c))]
          /\ mem' = [mem EXCEPT ![c] = Swept(NextOf(c))]
      BY <2>1 DEF ApplyOp, DocOf, OpOf, NextOf
    <3> HIDE DEF rows
    <3> QED BY <3>1, <1>1, <1>3, <1>4, Committed
  <2>2. CASE WriteFails(c)
    <3>1. log' = [log EXCEPT ![c] = rows] /\ mem' = [mem EXCEPT ![c] = NextOf(c)]
      BY <2>2 DEF WriteFails, DocOf, OpOf, NextOf
    <3> HIDE DEF rows
    <3> QED BY <3>1, <1>1, <1>2, Committed
  <2>3. CASE EndsAfterCommit(c)
    <3>1. log' = [log EXCEPT ![c] = rows] /\ mem' = [mem EXCEPT ![c] = NoDoc]
      BY <2>3 DEF EndsAfterCommit, EndsWith, DocOf, OpOf, NextOf
    <3> HIDE DEF rows
    <3> QED BY <3>1, <1>1, <1>2, Committed
  <2> QED BY <2>1, <2>2, <2>3
<1>6. /\ file' \in [Clones -> [there : BOOLEAN, text : Texts]]
      /\ opening' \in [Clones -> {Free} \cup [busy : {TRUE}, disk : Texts, loaded : BOOLEAN]]
      /\ saving' \in [Clones -> BOOLEAN]
      /\ {downs', fails'} \subseteq 0 .. MaxTroubles
  <2>0. /\ NextOf(c).content \in Texts
        /\ saves \in 0 .. MaxTroubles /\ downs \in 0 .. MaxTroubles /\ fails \in 0 .. MaxTroubles
        /\ MaxTroubles \in Nat
    BY <1>2, Limits DEF DocAt, Docs, CollabInv, TypeOK
  <2>1. CASE ApplyOp(c)
    BY <2>0, <2>1 DEF ApplyOp, DocOf, OpOf, NextOf, Text, CollabInv, TypeOK
  <2>2. CASE WriteFails(c)
    <3>1. saves + downs + fails < MaxTroubles /\ fails' = fails + 1 /\ UNCHANGED <<file, opening, saving, downs>>
      BY <2>2 DEF WriteFails, Troubled
    <3>2. fails' \in 0 .. MaxTroubles
      BY <3>1, <2>0
    <3> QED BY <3>1, <3>2 DEF CollabInv, TypeOK
  <2>3. CASE EndsAfterCommit(c)
    <3>1. saves + downs + fails < MaxTroubles /\ downs' = downs + 1 /\ UNCHANGED <<file, fails>>
      BY <2>3 DEF EndsAfterCommit, EndsWith, Troubled
    <3>2. downs' \in 0 .. MaxTroubles
      BY <3>1, <2>0
    <3>3. opening' = [opening EXCEPT ![c] = Free] /\ saving' = [saving EXCEPT ![c] = FALSE]
      BY <2>3 DEF EndsAfterCommit, EndsWith
    <3> QED BY <3>1, <3>2, <3>3 DEF CollabInv, TypeOK
  <2> QED BY <2>1, <2>2, <2>3
<1>7. TypeOK'
  <2>1. handling' \in [Clones -> {Free} \cup [busy : {TRUE}, op : Ops, disk : Texts]]
    BY <1>1 DEF CollabInv, TypeOK
  <2> QED BY <1>1, <1>5, <1>6, <2>1 DEF CollabInv, TypeOK, Edits
<1>8. HandledSent' /\ SentInOrder'
  BY <1>1 DEF CollabInv, HandledSent, SentInOrder, Own, TypeOK, Free
<1> QED BY <1>5, <1>7, <1>8 DEF CollabInv

LEMMA FileStep ==
  ASSUME CollabInv, NEW c \in Clones,
         OpenRead(c) \/ Open(c) \/ RepairFile(c) \/ ReplaceFile(c) \/ RemoveFile(c) \/ Reset(c)
         \/ ResetFails(c) \/ DaemonEnds(c)
  PROVE  CollabInv'
<1> USE DEF CollabInv
<1>0. /\ saves \in 0 .. MaxTroubles /\ downs \in 0 .. MaxTroubles /\ fails \in 0 .. MaxTroubles
      /\ MaxTroubles \in Nat /\ opening[c] \in {Free} \cup [busy : {TRUE}, disk : Texts, loaded : BOOLEAN]
      /\ file[c].text \in Texts
  BY Limits DEF TypeOK
<1>1. ASSUME OpenRead(c) \/ RepairFile(c) \/ ReplaceFile(c) \/ RemoveFile(c) \/ ResetFails(c)
      PROVE  CollabInv'
  <2>1. UNCHANGED <<mem, row, log, applied, sent, handling, delivered>>
    BY <1>1 DEF OpenRead, RepairFile, ReplaceFile, RemoveFile, ResetFails
  <2>2. HandledSent'
    BY <2>1 DEF HandledSent
  <2>3. opening[c].busy => opening[c].disk \in Texts
    <3>1. opening[c].busy => opening[c] # Free
      BY DEF Free
    <3> QED BY <3>1, <1>0
  <2>4. TypeOK'
    <3>1. CASE OpenRead(c)
      BY <3>1, <1>0 DEF OpenRead, TypeOK
    <3>2. CASE RepairFile(c)
      BY <3>2, <2>3 DEF RepairFile, TypeOK, Text
    <3>3. CASE ReplaceFile(c)
      <4>1. saves' = saves + 1 /\ saves' \in Nat /\ saves' \in 0 .. MaxTroubles
        BY <3>3, <1>0 DEF ReplaceFile, Troubled
      <4>2. <<SaveMark(saves')>> \in Texts
        <5>1. <<0, saves'>> \in Nat \X Nat
          BY <4>1
        <5>2. \A mark \in Nat \X Nat : <<mark>> \in Seq(Nat \X Nat)
          OBVIOUS
        <5> QED BY <5>1, <5>2 DEF Texts, SaveMark
      <4>3. Text(<<SaveMark(saves')>>) \in [there : BOOLEAN, text : Texts]
        BY <4>2 DEF Text
      <4>4. file' = [file EXCEPT ![c] = Text(<<SaveMark(saves')>>)]
        BY <3>3 DEF ReplaceFile
      <4> HIDE DEF CollabInv
      <4>5. TypeOK
        BY DEF CollabInv
      <4>6. file' \in [Clones -> [there : BOOLEAN, text : Texts]]
        BY <4>3, <4>4, <4>5 DEF TypeOK
      <4>7. saving' \in [Clones -> BOOLEAN] /\ UNCHANGED <<opening, saved, downs, fails>>
        BY <3>3, <4>5 DEF ReplaceFile, TypeOK
      <4> QED BY <2>1, <4>1, <4>5, <4>6, <4>7 DEF TypeOK
    <3>4. CASE RemoveFile(c)
      <4>1. NoText \in [there : BOOLEAN, text : Texts]
        BY DEF NoText, Texts
      <4>2. saves' \in 0 .. MaxTroubles
        BY <3>4, <1>0 DEF RemoveFile, Troubled
      <4> QED BY <3>4, <4>1, <4>2 DEF RemoveFile, TypeOK
    <3>5. CASE ResetFails(c)
      BY <3>5 DEF ResetFails, TypeOK
    <3> QED BY <1>1, <3>1, <3>2, <3>3, <3>4, <3>5
  <2> QED BY <2>1, <2>2, <2>4, NothingOfThese
<1>2. ASSUME Open(c) PROVE CollabInv'
  <2> DEFINE doc == load(c, opening[c].disk)
  <2>1. /\ opening[c].busy /\ mem' = [mem EXCEPT ![c] = doc]
        /\ opening' = [opening EXCEPT ![c] = IF doc.content = opening[c].disk THEN Free
                                             ELSE [busy |-> TRUE, disk |-> doc.content, loaded |-> TRUE]]
        /\ UNCHANGED <<row, log, file, sent, delivered, handling, saving, applied, saved,
                       saves, downs, fails>>
    BY <1>2 DEF Open
  <2>2. opening[c].disk \in Texts
    <3>1. opening[c] # Free
      BY <2>1 DEF Free
    <3> QED BY <3>1, <1>0
  <2>3. DocAt(doc, applied[c])
    BY <2>2, Loaded DEF DocAt
  <2> HIDE DEF doc
  <2>4. mem' \in [Clones -> Docs] /\ \A e \in Clones : CloneInv(e)'
    BY <2>1, <2>3, MemChanges
  <2>5. doc.content \in Texts
    BY <2>3 DEF DocAt, Docs
  <2>6. opening' \in [Clones -> {Free} \cup [busy : {TRUE}, disk : Texts, loaded : BOOLEAN]]
    BY <2>1, <2>5 DEF TypeOK
  <2>7. TypeOK'
    BY <2>1, <2>4, <2>6 DEF TypeOK
  <2>8. HandledSent' /\ SentInOrder'
    BY <2>1 DEF HandledSent, SentInOrder, Own
  <2> QED BY <2>4, <2>7, <2>8
<1>3. ASSUME DaemonEnds(c) PROVE CollabInv'
  <2>1. /\ mem' = [mem EXCEPT ![c] = NoDoc] /\ handling' = [handling EXCEPT ![c] = Free]
        /\ opening' = [opening EXCEPT ![c] = Free] /\ saving' = [saving EXCEPT ![c] = FALSE]
        /\ downs' \in 0 .. MaxTroubles
        /\ UNCHANGED <<row, log, file, sent, delivered, applied, saved, saves, fails>>
    BY <1>0, <1>3 DEF DaemonEnds, EndsWith, Troubled
  <2>2. mem' \in [Clones -> Docs] /\ \A e \in Clones : CloneInv(e)'
    BY <2>1, MemChanges
  <2>3. TypeOK'
    BY <2>1, <2>2 DEF TypeOK
  <2>4. HandledSent' /\ SentInOrder'
    BY <2>1 DEF HandledSent, SentInOrder, Own, TypeOK, Free
  <2> QED BY <2>2, <2>3, <2>4
<1>4. ASSUME Reset(c) PROVE CollabInv'
  <2>1. /\ row' = [row EXCEPT ![c] = NoRow] /\ log' = [log EXCEPT ![c] = <<>>]
        /\ mem' = [mem EXCEPT ![c] = NoDoc] /\ applied' = [applied EXCEPT ![c] = <<>>]
        /\ saving' = [saving EXCEPT ![c] = FALSE] /\ saved' = [saved EXCEPT ![c] = SaveMark(saves)]
        /\ UNCHANGED <<file, sent, delivered, handling, opening, saves, downs, fails>>
    BY <1>4 DEF Reset
  <2>2. <<>> \in Texts /\ <<>> \in Seq(Entries) /\ <<>> \in Seq(Edits)
    BY DEF Texts
  <2>3. NoDoc \in Docs /\ NoRow \in [content : Texts, revision : Nat \cup {-1}] /\ SaveMark(saves) \in Nat \X Nat
    BY <1>0, <2>2, NoDocTyped DEF NoRow, SaveMark
  <2>4. TypeOK'
    BY <2>1, <2>2, <2>3 DEF TypeOK, Edits
  <2>5. \A e \in Clones \ {c} : CloneInv(e)'
    BY <2>1, Frame DEF TypeOK
  <2>6. row'[c] = NoRow /\ log'[c] = <<>> /\ mem'[c] = NoDoc /\ applied'[c] = <<>>
    BY <2>1 DEF TypeOK
  <2>7. CloneInv(c)'
    BY <2>6, NothingRetained DEF CloneInv, RowsKept, DocKept, BasedBefore, OnceHere
  <2>8. HandledSent' /\ SentInOrder'
    BY <2>1 DEF HandledSent, SentInOrder, Own
  <2> QED BY <2>4, <2>5, <2>7, <2>8
<1> QED BY <1>1, <1>2, <1>3, <1>4

LEMMA CollabStep == CollabInv /\ [Next]_vars => CollabInv'
<1> SUFFICES ASSUME CollabInv, [Next]_vars PROVE CollabInv'
  OBVIOUS
<1>1. CASE UNCHANGED vars
  <2>1. TypeOK' /\ HandledSent'
    BY <1>1 DEF vars, CollabInv, TypeOK, HandledSent
  <2>2. UNCHANGED <<mem, row, log, applied, sent>>
    BY <1>1 DEF vars
  <2> QED BY <2>1, <2>2, NothingOfThese DEF CollabInv
<1> QED BY <1>1, Limits, EditStep, HandleStep, RejectStep, ApplyStep, FileStep DEF Next

LEMMA CollabStarts == Init => CollabInv
<1> SUFFICES ASSUME Init PROVE CollabInv
  OBVIOUS
<1> USE DEF Init
<1>1. <<>> \in Texts /\ <<>> \in Seq(Entries) /\ <<>> \in Seq(Edits) /\ <<Original>> \in Texts
  <2>1. <<0, 0>> \in Nat \X Nat
    OBVIOUS
  <2>2. \A mark \in Nat \X Nat : <<mark>> \in Seq(Nat \X Nat)
    OBVIOUS
  <2> QED BY <2>1, <2>2 DEF Texts, Original
<1>2. NoDoc \in Docs /\ NoRow \in [content : Texts, revision : Nat \cup {-1}]
      /\ Text(<<Original>>) \in [there : BOOLEAN, text : Texts] /\ Original \in Nat \X Nat
      /\ Nobody \in [Clients -> 0 .. MaxOps]
  <2>1. 0 \in 0 .. MaxOps
    BY Limits
  <2>2. <<0, 0>> \in Nat \X Nat
    OBVIOUS
  <2> QED BY <1>1, <2>1, <2>2, NoDocTyped DEF NoRow, Text, Original, Nobody
<1>3. TypeOK
  BY <1>1, <1>2, Limits DEF TypeOK, Edits
<1>4. SentInOrder /\ HandledSent
  BY FS_EmptySet DEF SentInOrder, HandledSent, Free
<1>5. ASSUME NEW c \in Clones PROVE CloneInv(c)
  <2>1. row[c] = NoRow /\ log[c] = <<>> /\ mem[c] = NoDoc /\ applied[c] = <<>>
    OBVIOUS
  <2> HIDE DEF Init
  <2> QED BY <2>1, NothingRetained DEF CloneInv, RowsKept, DocKept, BasedBefore, OnceHere
<1> QED BY <1>3, <1>4, <1>5 DEF CollabInv

LEMMA CollabAlways == Spec => []CollabInv
BY CollabStarts, CollabStep, PTL DEF Spec

--------------------------------------------------------------------------------
(* The theorems *)

\* Type correctness: the range of an edit stays inside the text it is applied to,
\* whatever it is carried through (collab.go, transform and apply).
THEOREM CollabTypeCorrect == Spec => []TypeOK
<1>1. CollabInv => TypeOK
  BY DEF CollabInv
<1> QED BY <1>1, CollabAlways, PTL

\* An edit of a machine's own browser is applied at most once to a document
\* (collab.go, Apply: ErrDuplicate and the refusal of what is too old).
THEOREM OwnEditsOnceHolds == Spec => []OwnEditsOnce
<1>1. CollabInv => OwnEditsOnce
  <2> SUFFICES ASSUME CollabInv, NEW c \in Clones, NEW i \in DOMAIN applied[c], NEW j \in DOMAIN applied[c],
                      applied[c][i] = applied[c][j], Home[applied[c][i].client] = c
               PROVE  i = j
    BY DEF OwnEditsOnce
  <2>1. DOMAIN applied[c] = 1 .. Len(applied[c])
    BY DEF CollabInv, TypeOK
  <2> QED BY <2>1 DEF CollabInv, CloneInv, OnceHere
<1> QED BY <1>1, CollabAlways, PTL

\* The edits kept, in memory and in the database, are the latest, without a gap and
\* enough of them (collab.go, Apply's count of the oldest; store/collab_ops.go).
THEOREM HistoryUnbrokenHolds == Spec => []HistoryUnbroken
<1>1. CollabInv => HistoryUnbroken
  <2> SUFFICES ASSUME CollabInv, NEW c \in Clones
               PROVE  /\ Consecutive(mem[c].history, mem[c].revision)
                      /\ row[c] # NoRow =>
                           /\ Consecutive(log[c], row[c].revision)
                           /\ Len(log[c]) >= AtLeast(row[c].revision, HistoryLimit)
                      /\ mem[c] # NoDoc => Len(mem[c].history) >= AtLeast(mem[c].revision, HistoryLimit)
    BY DEF HistoryUnbroken
  <2>1. \A entries \in Seq(Entries) : \A ops : Retained(entries, ops) => Consecutive(entries, Len(ops))
    <3>1. \A entries \in Seq(Entries) : DOMAIN entries = 1 .. Len(entries)
      OBVIOUS
    <3> QED BY <3>1 DEF Retained, Consecutive
  <2>2. log[c] \in Seq(Entries) /\ mem[c].history \in Seq(Entries) /\ CloneInv(c)
    BY DEF CollabInv, TypeOK, Docs
  <2>3. row[c] # NoRow =>
          /\ Consecutive(log[c], row[c].revision)
          /\ Len(log[c]) >= AtLeast(row[c].revision, HistoryLimit)
    BY <2>1, <2>2 DEF CloneInv, RowsKept, Retained
  <2>4. CASE mem[c] = NoDoc
    <3>1. Consecutive(mem[c].history, mem[c].revision)
      BY <2>4 DEF NoDoc, Consecutive
    <3> QED BY <2>3, <2>4, <3>1
  <2>5. CASE mem[c] # NoDoc
    <3>1. /\ mem[c].revision = Len(applied[c]) /\ Consecutive(mem[c].history, Len(applied[c]))
          /\ Len(mem[c].history) >= AtLeast(Len(applied[c]), HistoryLimit)
      BY <2>1, <2>2, <2>5 DEF CloneInv, DocKept, Retained
    <3> QED BY <2>3, <3>1
  <2> QED BY <2>4, <2>5
<1> QED BY <1>1, CollabAlways, PTL

--------------------------------------------------------------------------------
(* Marks in an order *)

\* Pairs of a strict total order of the marks.
Marks == Nat \X Nat
IsOrder(R) ==
  /\ \A x, y \in Marks : ~(<<x, y>> \in R /\ <<y, x>> \in R)
  /\ \A x, y \in Marks : x # y => <<x, y>> \in R \/ <<y, x>> \in R
  /\ \A x, y, z \in Marks : <<x, y>> \in R /\ <<y, z>> \in R => <<x, z>> \in R

\* How many of the marks S come before m.
Earlier(R, S, m) == {x \in S : <<x, m>> \in R}
Rank(R, S, m) == Cardinality(Earlier(R, S, m))

LEMMA RankTyped ==
  ASSUME NEW R, NEW S, IsFiniteSet(S), NEW m
  PROVE  /\ IsFiniteSet(Earlier(R, S, m)) /\ Rank(R, S, m) \in Nat
         /\ Cardinality(S) \in Nat /\ Rank(R, S, m) <= Cardinality(S)
<1>1. Earlier(R, S, m) \in SUBSET S
  BY DEF Earlier
<1>2. IsFiniteSet(Earlier(R, S, m)) /\ Cardinality(Earlier(R, S, m)) <= Cardinality(S)
  BY <1>1, FS_Subset
<1> QED BY <1>2, FS_CardinalityType DEF Rank

\* Ranks follow the order; equal ranks have the same marks before them.
LEMMA RankGrows ==
  ASSUME NEW R, IsOrder(R), NEW S \in SUBSET Marks, IsFiniteSet(S),
         NEW x \in Marks, NEW y \in Marks, <<x, y>> \in R
  PROVE  /\ Rank(R, S, x) <= Rank(R, S, y)
         /\ Rank(R, S, x) = Rank(R, S, y) => Earlier(R, S, x) = Earlier(R, S, y)
         /\ x \in S => Rank(R, S, x) < Rank(R, S, y)
<1>1. Earlier(R, S, x) \in SUBSET Earlier(R, S, y)
  BY DEF Earlier, IsOrder
<1>2. /\ IsFiniteSet(Earlier(R, S, x)) /\ IsFiniteSet(Earlier(R, S, y))
      /\ Rank(R, S, x) \in Nat /\ Rank(R, S, y) \in Nat
  BY RankTyped
<1>3. /\ Rank(R, S, x) <= Rank(R, S, y)
      /\ Rank(R, S, y) = Rank(R, S, x) => Earlier(R, S, y) = Earlier(R, S, x)
  BY <1>1, <1>2, FS_Subset DEF Rank
<1>4. x \in S => Earlier(R, S, x) # Earlier(R, S, y)
  <2>1. ~(<<x, x>> \in R)
    BY DEF IsOrder
  <2> QED BY <2>1 DEF Earlier
<1> QED BY <1>2, <1>3, <1>4

LEMMA RankOrders ==
  ASSUME NEW R, IsOrder(R), NEW S \in SUBSET Marks, IsFiniteSet(S), NEW x \in S, NEW y \in Marks, x # y
  PROVE  <<x, y>> \in R <=> Rank(R, S, x) < Rank(R, S, y)
<1>1. Rank(R, S, x) \in Nat /\ Rank(R, S, y) \in Nat
  BY RankTyped
<1>2. <<x, y>> \in R => Rank(R, S, x) < Rank(R, S, y)
  BY RankGrows
<1>3. ~(<<x, y>> \in R) => Rank(R, S, y) <= Rank(R, S, x)
  <2>1. ~(<<x, y>> \in R) => <<y, x>> \in R
    BY DEF IsOrder
  <2> QED BY <2>1, RankGrows
<1> QED BY <1>1, <1>2, <1>3

\* One more mark moves those after it.
LEMMA RankAdds ==
  ASSUME NEW R, IsOrder(R), NEW S \in SUBSET Marks, IsFiniteSet(S), NEW e \in Marks, e \notin S, NEW m \in Marks
  PROVE  Rank(R, S \cup {e}, m) = IF <<e, m>> \in R THEN Rank(R, S, m) + 1 ELSE Rank(R, S, m)
<1>1. IsFiniteSet(Earlier(R, S, m))
  BY RankTyped
<1>2. CASE <<e, m>> \in R
  <2>1. Earlier(R, S \cup {e}, m) = Earlier(R, S, m) \cup {e} /\ e \notin Earlier(R, S, m)
    BY <1>2 DEF Earlier
  <2> QED BY <1>1, <1>2, <2>1, FS_AddElement DEF Rank
<1>3. CASE ~(<<e, m>> \in R)
  <2>1. Earlier(R, S \cup {e}, m) = Earlier(R, S, m)
    BY <1>3 DEF Earlier
  <2> QED BY <1>3, <2>1 DEF Rank
<1> QED BY <1>2, <1>3

\* text has the marks S in order.
InOrder(R, S, text) ==
  /\ Len(text) = Cardinality(S)
  /\ \A i \in 1 .. Len(text) : text[i] \in S /\ Rank(R, S, text[i]) = i - 1

LEMMA InOrderUnique ==
  ASSUME NEW R, IsOrder(R), NEW S \in SUBSET Marks, IsFiniteSet(S),
         NEW s \in Texts, NEW t \in Texts, InOrder(R, S, s), InOrder(R, S, t)
  PROVE  s = t
<1>1. Len(s) = Len(t)
  BY DEF InOrder
<1>2. ASSUME NEW i \in 1 .. Len(s) PROVE s[i] = t[i]
  <2>1. s[i] \in S /\ t[i] \in S /\ Rank(R, S, s[i]) = Rank(R, S, t[i])
    BY <1>1 DEF InOrder
  <2>2. Rank(R, S, s[i]) \in Nat /\ Rank(R, S, t[i]) \in Nat
    BY RankTyped
  <2>3. ~(Rank(R, S, s[i]) < Rank(R, S, t[i])) /\ ~(Rank(R, S, t[i]) < Rank(R, S, s[i]))
    BY <2>1, <2>2
  <2>4. ~(<<s[i], t[i]>> \in R) /\ ~(<<t[i], s[i]>> \in R)
    BY <2>1, <2>3, RankGrows
  <2> QED BY <2>1, <2>4 DEF IsOrder
<1>3. s \in Seq(Marks) /\ t \in Seq(Marks)
  BY DEF Texts, Marks
<1> QED BY <1>1, <1>2, <1>3, SeqEqual

\* A mark put at its rank leaves the text in order.
Put(text, p, m) == SubSeq(text, 1, p) \o <<m>> \o SubSeq(text, p + 1, Len(text))

LEMMA PutIs ==
  ASSUME NEW text \in Texts, NEW p \in 0 .. Len(text), NEW m \in Marks
  PROVE  /\ Put(text, p, m) \in Texts /\ Len(Put(text, p, m)) = Len(text) + 1
         /\ \A i \in 1 .. Len(text) + 1 :
              Put(text, p, m)[i] = IF i <= p THEN text[i] ELSE IF i = p + 1 THEN m ELSE text[i - 1]
<1> DEFINE l == SubSeq(text, 1, p)
           r == SubSeq(text, p + 1, Len(text))
           one == <<m>>
           lm == l \o one
<1>0. Len(text) \in Nat /\ text \in Seq(Marks)
  BY DEF Texts, Marks
<1>1. l \in Seq(Marks) /\ Len(l) = p /\ \A i \in 1 .. p : l[i] = text[i]
  <2>1. 1 \in 1 .. Len(text) + 1 /\ p \in 1 - 1 .. Len(text)
    BY <1>0
  <2>2. /\ l \in Seq(Marks) /\ Len(l) = p - 1 + 1
        /\ \A i \in 1 .. p - 1 + 1 : l[i] = text[1 + i - 1]
    BY <1>0, <2>1, SubSeqProperties
  <2> HIDE DEF l
  <2>3. p - 1 + 1 = p /\ \A i \in 1 .. p : 1 + i - 1 = i
    BY <1>0
  <2> QED BY <2>2, <2>3
<1>2. r \in Seq(Marks) /\ Len(r) = Len(text) - p /\ \A i \in 1 .. Len(text) - p : r[i] = text[p + i]
  <2>1. p + 1 \in 1 .. Len(text) + 1 /\ Len(text) \in (p + 1) - 1 .. Len(text)
    BY <1>0
  <2>2. /\ r \in Seq(Marks) /\ Len(r) = Len(text) - (p + 1) + 1
        /\ \A i \in 1 .. Len(text) - (p + 1) + 1 : r[i] = text[(p + 1) + i - 1]
    BY <1>0, <2>1, SubSeqProperties
  <2> HIDE DEF r
  <2>3. Len(text) - (p + 1) + 1 = Len(text) - p /\ \A i \in 1 .. Len(text) - p : (p + 1) + i - 1 = p + i
    BY <1>0
  <2> QED BY <2>2, <2>3
<1>3. one \in Seq(Marks) /\ Len(one) = 1 /\ one[1] = m
  OBVIOUS
<1> HIDE DEF l, r, one
<1>4. /\ lm \in Seq(Marks) /\ Len(lm) = p + 1
      /\ \A i \in 1 .. p + 1 : lm[i] = IF i <= p THEN l[i] ELSE one[i - p]
  <2>1. /\ lm \in Seq(Marks) /\ Len(lm) = Len(l) + Len(one)
        /\ \A i \in 1 .. Len(l) + Len(one) : lm[i] = IF i <= Len(l) THEN l[i] ELSE one[i - Len(l)]
    BY <1>1, <1>3, ConcatProperties
  <2> HIDE DEF lm
  <2> QED BY <2>1, <1>1, <1>3
<1> HIDE DEF lm
<1>5. /\ lm \o r \in Seq(Marks) /\ Len(lm \o r) = Len(text) + 1
      /\ \A i \in 1 .. Len(text) + 1 : (lm \o r)[i] = IF i <= p + 1 THEN lm[i] ELSE r[i - (p + 1)]
  <2>1. /\ lm \o r \in Seq(Marks) /\ Len(lm \o r) = Len(lm) + Len(r)
        /\ \A i \in 1 .. Len(lm) + Len(r) : (lm \o r)[i] = IF i <= Len(lm) THEN lm[i] ELSE r[i - Len(lm)]
    BY <1>2, <1>4, ConcatProperties
  <2>2. Len(lm) + Len(r) = Len(text) + 1
    BY <1>0, <1>2, <1>4
  <2> QED BY <2>1, <2>2, <1>4
<1>6. Put(text, p, m) = lm \o r
  BY DEF Put, lm, l, r, one
<1> DEFINE t == lm \o r
<1>7. ASSUME NEW i \in 1 .. Len(text) + 1
      PROVE  t[i] = IF i <= p THEN text[i] ELSE IF i = p + 1 THEN m ELSE text[i - 1]
  <2> HIDE DEF t
  <2>0. t[i] = IF i <= p + 1 THEN lm[i] ELSE r[i - (p + 1)]
    BY <1>5 DEF t
  <2>1. CASE i <= p
    <3>1. i \in 1 .. p + 1 /\ i \in 1 .. p
      BY <1>0, <2>1
    <3> QED BY <1>1, <1>4, <2>0, <2>1, <3>1
  <2>2. CASE i = p + 1
    <3>1. i \in 1 .. p + 1 /\ ~(i <= p) /\ i - p = 1
      BY <1>0, <2>2
    <3> QED BY <1>3, <1>4, <2>0, <2>2, <3>1
  <2>3. CASE p + 1 < i
    <3>1. i - (p + 1) \in 1 .. Len(text) - p /\ p + (i - (p + 1)) = i - 1 /\ ~(i <= p + 1) /\ ~(i <= p) /\ i # p + 1
      BY <1>0, <2>3
    <3>2. r[i - (p + 1)] = text[p + (i - (p + 1))]
      BY <1>2, <3>1
    <3> QED BY <2>0, <3>1, <3>2
  <2> QED BY <1>0, <2>1, <2>2, <2>3
<1>8. t \in Texts /\ Len(t) = Len(text) + 1
  BY <1>5 DEF Texts, Marks
<1> HIDE DEF t
<1>9. Put(text, p, m) = t
  BY <1>6 DEF t
<1> QED BY <1>7, <1>8, <1>9

LEMMA PutInOrder ==
  ASSUME NEW R, IsOrder(R), NEW S \in SUBSET Marks, IsFiniteSet(S), NEW text \in Texts, InOrder(R, S, text),
         NEW m \in Marks, m \notin S
  PROVE  /\ Rank(R, S, m) \in 0 .. Len(text)
         /\ InOrder(R, S \cup {m}, Put(text, Rank(R, S, m), m))
<1> DEFINE p == Rank(R, S, m)
           T == S \cup {m}
           t == Put(text, p, m)
<1>0. Len(text) \in Nat
  BY DEF Texts
<1>1. p \in 0 .. Len(text) /\ Cardinality(T) = Len(text) + 1
  <2>1. p \in Nat /\ p <= Cardinality(S) /\ Cardinality(S) = Len(text)
    BY RankTyped DEF InOrder
  <2>2. Cardinality(T) = Cardinality(S) + 1
    BY FS_AddElement
  <2> HIDE DEF p, T
  <2> QED BY <1>0, <2>1, <2>2
<1>2. ~(<<m, m>> \in R) /\ Rank(R, T, m) = p
  BY RankAdds DEF IsOrder
<1>3. ASSUME NEW j \in 1 .. Len(text)
      PROVE  /\ text[j] \in S /\ j <= p => Rank(R, T, text[j]) = j - 1
             /\ j > p => Rank(R, T, text[j]) = j
  <2>1. text[j] \in S /\ Rank(R, S, text[j]) = j - 1 /\ text[j] # m /\ text[j] \in Marks
    BY DEF InOrder
  <2>2. <<text[j], m>> \in R <=> j - 1 < p
    BY <2>1, RankOrders
  <2>3. <<m, text[j]>> \in R <=> ~(<<text[j], m>> \in R)
    BY <2>1 DEF IsOrder
  <2>4. Rank(R, T, text[j]) = IF <<m, text[j]>> \in R THEN j - 1 + 1 ELSE j - 1
    BY <2>1, RankAdds
  <2> HIDE DEF p
  <2> QED BY <1>0, <1>1, <2>1, <2>2, <2>3, <2>4
<1>4. \A j \in 1 .. Len(text) : text[j] \in S
  BY DEF InOrder
<1> HIDE DEF p
<1>5. /\ Len(t) = Len(text) + 1
      /\ \A i \in 1 .. Len(text) + 1 : t[i] = IF i <= p THEN text[i] ELSE IF i = p + 1 THEN m ELSE text[i - 1]
  BY <1>1, PutIs
<1> HIDE DEF T, t
<1>6. ASSUME NEW i \in 1 .. Len(t) PROVE t[i] \in T /\ Rank(R, T, t[i]) = i - 1
  <2>0. i \in 1 .. Len(text) + 1
    BY <1>5
  <2>1. CASE i <= p
    <3>1. i \in 1 .. Len(text)
      BY <1>0, <1>1, <2>0, <2>1
    <3> QED BY <1>3, <1>4, <1>5, <2>0, <2>1, <3>1 DEF T
  <2>2. CASE i = p + 1
    <3>1. ~(i <= p) /\ i - 1 = p
      BY <1>1, <2>2
    <3> QED BY <1>2, <1>5, <2>0, <2>2, <3>1 DEF T
  <2>3. CASE i > p + 1
    <3>1. i - 1 \in 1 .. Len(text) /\ i - 1 > p /\ ~(i <= p) /\ i # p + 1
      BY <1>0, <1>1, <2>0, <2>3
    <3>2. t[i] = text[i - 1]
      BY <1>5, <2>0, <3>1
    <3> QED BY <1>3, <1>4, <3>1, <3>2 DEF T
  <2> QED BY <1>1, <2>0, <2>1, <2>2, <2>3
<1> QED BY <1>1, <1>5, <1>6 DEF InOrder, T, t, p

--------------------------------------------------------------------------------
(* The order of insertions *)

Mark(e) == <<e.client, e.seq>>

\* Insertions at the start of the text come first, by operationOrder; then the text,
\* then the insertions after it.
Side(m) ==
  IF m = Original THEN 1 ELSE IF \E o \in sent : Mark(o) = m /\ o.from = 0 THEN 0 ELSE 2
Comes(x, y) ==
  \/ Side(x) < Side(y)
  \/ Side(x) = Side(y) /\ (x[1] < y[1] \/ (x[1] = y[1] /\ x[2] < y[2]))
Order == {z \in Marks \X Marks : Comes(z[1], z[2])}

LEMMA OrderIs ==
  ASSUME NEW x \in Marks, NEW y \in Marks
  PROVE  /\ <<x, y>> \in Order <=> Comes(x, y)
         /\ x[1] \in Nat /\ x[2] \in Nat /\ Side(x) \in 0 .. 2
         /\ x = y <=> x[1] = y[1] /\ x[2] = y[2]
<1>1. <<x, y>> \in Marks \X Marks /\ <<x, y>>[1] = x /\ <<x, y>>[2] = y
  OBVIOUS
<1>2. <<x, y>> \in Order <=> Comes(x, y)
  BY <1>1 DEF Order
<1>3. x[1] \in Nat /\ x[2] \in Nat /\ (x = y <=> x[1] = y[1] /\ x[2] = y[2])
  BY DEF Marks
<1>4. Side(x) \in 0 .. 2
  BY DEF Side
<1> QED BY <1>2, <1>3, <1>4

LEMMA OrderIsOrder == IsOrder(Order)
<1>1. ASSUME NEW x \in Marks, NEW y \in Marks PROVE ~(<<x, y>> \in Order /\ <<y, x>> \in Order)
  BY OrderIs DEF Comes
<1>2. ASSUME NEW x \in Marks, NEW y \in Marks, x # y PROVE <<x, y>> \in Order \/ <<y, x>> \in Order
  <2>1. /\ x[1] \in Nat /\ x[2] \in Nat /\ y[1] \in Nat /\ y[2] \in Nat /\ Side(x) \in 0 .. 2 /\ Side(y) \in 0 .. 2
        /\ ~(x[1] = y[1] /\ x[2] = y[2])
    BY <1>2, OrderIs
  <2>2. Comes(x, y) \/ Comes(y, x)
    BY <2>1 DEF Comes
  <2> QED BY <2>2, OrderIs
<1>3. ASSUME NEW x \in Marks, NEW y \in Marks, NEW z \in Marks, <<x, y>> \in Order, <<y, z>> \in Order
      PROVE  <<x, z>> \in Order
  <2>1. /\ x[1] \in Nat /\ x[2] \in Nat /\ y[1] \in Nat /\ y[2] \in Nat /\ z[1] \in Nat /\ z[2] \in Nat
        /\ Side(x) \in 0 .. 2 /\ Side(y) \in 0 .. 2 /\ Side(z) \in 0 .. 2
    BY OrderIs
  <2>2. Comes(x, y) /\ Comes(y, z)
    BY <1>3, OrderIs
  <2>3. Comes(x, z)
    BY <2>1, <2>2 DEF Comes
  <2> QED BY <2>3, OrderIs
<1> QED BY <1>1, <1>2, <1>3 DEF IsOrder

LEMMA MarkTyped ==
  ASSUME NEW e, e \in Ops \/ e \in Entries \/ e \in Edits
  PROVE  Mark(e) \in Marks /\ Mark(e) # Original /\ e.client \in Nat \ {0} /\ e.seq \in Nat
<1>1. e.client \in Clients /\ e.seq \in 1 .. MaxOps
  BY DEF Ops, Entries, Edits
<1>2. e.client \in Nat \ {0} /\ e.seq \in Nat
  <2>1. \A n \in 1 .. MaxOps : n \in Nat
    BY Limits
  <2> QED BY <1>1, <2>1, Limits
<1> QED BY <1>2 DEF Mark, Marks, Original

\* Two insertions with the same marks before them are ordered as transform orders them.
LEMMA Ties ==
  ASSUME NEW S \in SUBSET Marks, Original \in S, NEW e \in Entries, NEW op \in Ops,
         Earlier(Order, S, Mark(e)) = Earlier(Order, S, Mark(op))
  PROVE  Before(e, op) <=> <<Mark(e), Mark(op)>> \in Order
<1>1. /\ Mark(e) \in Marks /\ Mark(op) \in Marks /\ Mark(e) # Original /\ Mark(op) # Original /\ Original \in Marks
      /\ Mark(e)[1] = e.client /\ Mark(e)[2] = e.seq /\ Mark(op)[1] = op.client /\ Mark(op)[2] = op.seq
  BY MarkTyped DEF Mark
<1>2. ASSUME NEW m \in Marks, m # Original
      PROVE  Side(m) \in {0, 2} /\ (Original \in Earlier(Order, S, m) <=> Side(m) = 2)
  <2>1. Side(m) \in {0, 2} /\ Side(Original) = 1
    BY <1>2 DEF Side
  <2>2. Comes(Original, m) <=> Side(m) = 2
    BY <2>1 DEF Comes
  <2> QED BY <2>1, <2>2, <1>1, OrderIs DEF Earlier
<1>3. Side(Mark(e)) = Side(Mark(op)) /\ Side(Mark(e)) \in Int
  BY <1>1, <1>2
<1>4. Comes(Mark(e), Mark(op)) <=> Before(e, op)
  BY <1>1, <1>3 DEF Comes, Before
<1> QED BY <1>1, <1>4, OrderIs

--------------------------------------------------------------------------------
(* An insertion carried through insertions *)

Moved(op, n) == [op EXCEPT !.from = n, !.to = n]

LEMMA MovedIs ==
  ASSUME NEW op \in Ops, NEW n \in Int
  PROVE  /\ Moved(op, n) \in Ops /\ Moved(op, n).from = n /\ Moved(op, n).to = n /\ Mark(Moved(op, n)) = Mark(op)
         /\ Moved(op, n).client = op.client /\ Moved(op, n).seq = op.seq
         /\ Moved(op, n).base = op.base /\ Moved(op, n).insert = op.insert
         /\ \A k \in Int : Moved(Moved(op, n), k) = Moved(op, k)
         /\ op.from = n /\ op.to = n => Moved(op, n) = op
BY DEF Moved, Ops, Mark

LEMMA TransformPlaces ==
  ASSUME NEW S \in SUBSET Marks, IsFiniteSet(S), Original \in S,
         NEW e \in Entries, e.insert, e.from = Rank(Order, S, Mark(e)), e.to = e.from, Mark(e) \notin S,
         NEW op \in Ops, op.from = Rank(Order, S, Mark(op)), op.to = op.from, Mark(op) # Mark(e)
  PROVE  transform(op, e) = Moved(op, Rank(Order, S \cup {Mark(e)}, Mark(op)))
<1> DEFINE before == <<Mark(e), Mark(op)>> \in Order
<1>1. Mark(e) \in Marks /\ Mark(op) \in Marks
  BY MarkTyped
<1>2. e.from \in Nat /\ op.from \in Nat
  BY RankTyped
<1>3. Rank(Order, S \cup {Mark(e)}, Mark(op)) = IF before THEN op.from + 1 ELSE op.from
  BY <1>1, OrderIsOrder, RankAdds
<1>4. before => e.from <= op.from
  BY <1>1, OrderIsOrder, RankGrows
<1>5. ~before => op.from <= e.from
  <2>1. ~before => <<Mark(op), Mark(e)>> \in Order
    BY <1>1, OrderIsOrder DEF IsOrder
  <2> QED BY <2>1, <1>1, OrderIsOrder, RankGrows
<1>6. e.from = op.from => (Before(e, op) <=> before)
  <2>1. ASSUME e.from = op.from PROVE Earlier(Order, S, Mark(e)) = Earlier(Order, S, Mark(op))
    <3>0. Rank(Order, S, Mark(e)) = Rank(Order, S, Mark(op))
      BY <2>1
    <3>1. CASE before
      BY ONLY <1>1, <3>0, <3>1, OrderIsOrder, RankGrows, IsFiniteSet(S), S \in SUBSET Marks
    <3>2. CASE ~before
      <4>1. <<Mark(op), Mark(e)>> \in Order
        BY <1>1, <3>2, OrderIsOrder DEF IsOrder
      <4> QED BY ONLY <1>1, <3>0, <4>1, OrderIsOrder, RankGrows, IsFiniteSet(S), S \in SUBSET Marks
    <3> QED BY <3>1, <3>2
  <2> QED BY <2>1, Ties
<1> HIDE DEF before
<1>7. Inserted(e) = 1 /\ Delta(e) = 1
  BY <1>2 DEF Inserted, Delta
<1>8. transform(op, e) = IF before THEN Moved(op, op.from + 1) ELSE op
  <2>1. CASE e.from = op.from
    <3>1. transform(op, e) = IF Before(e, op) THEN [op EXCEPT !.from = op.from + 1, !.to = op.to + 1] ELSE op
      BY <2>1, <1>7 DEF transform
    <3> QED BY <3>1, <2>1, <1>6 DEF Moved
  <2>2. CASE e.from < op.from
    <3>1. before /\ e.from # op.from /\ e.to <= op.from /\ ~(e.to > op.from)
      BY <1>2, <1>5, <2>2
    <3>2. transform(op, e) = [op EXCEPT !.from = op.from + 1, !.to = op.to + 1]
      <4>1. ~(e.from = e.to /\ op.from = op.to /\ e.from = op.from)
        BY <3>1
      <4>2. ~(e.from = e.to /\ op.from = op.to /\ e.from = op.from /\ Before(e, op))
            /\ ~(e.from = e.to /\ op.from = op.to /\ e.from = op.from /\ ~Before(e, op))
        BY <4>1
      <4>3. transform(op, e) = [op EXCEPT !.from = op.from + Delta(e), !.to = op.to + Delta(e)]
        BY ONLY <3>1, <4>1, <4>2 DEF transform
      <4> QED BY <4>3, <1>7
    <3> QED BY <3>1, <3>2 DEF Moved
  <2>3. CASE op.from < e.from
    <3>1. ~before /\ e.from # op.from /\ ~(e.to <= op.from) /\ e.to > op.from /\ e.from >= op.to
      BY <1>2, <1>4, <2>3
    <3>2. transform(op, e) = op
      BY <3>1, <1>7 DEF transform
    <3> QED BY <3>1, <3>2
  <2> QED BY <1>2, <2>1, <2>2, <2>3
<1>9. Moved(op, op.from) = op
  BY <1>2, MovedIs
<1> QED BY <1>3, <1>8, <1>9

\* The text, and the first n edits of a list.
UpTo(list, n) == {Original} \cup {Mark(list[j]) : j \in 1 .. n}

\* The edits are insertions, each where the order puts it among those before it.
Placed(R, list) ==
  \A i \in 1 .. Len(list) :
     /\ list[i].insert /\ list[i].to = list[i].from
     /\ list[i].from = Rank(R, UpTo(list, i - 1), Mark(list[i]))
Distinct(list) == \A i, j \in 1 .. Len(list) : Mark(list[i]) = Mark(list[j]) => i = j

LEMMA UpToTyped ==
  ASSUME NEW list, list \in Seq(Entries) \/ list \in Seq(Edits), NEW n \in 0 .. Len(list)
  PROVE  /\ UpTo(list, n) \in SUBSET Marks /\ IsFiniteSet(UpTo(list, n)) /\ Original \in UpTo(list, n)
         /\ n # 0 => UpTo(list, n) = UpTo(list, n - 1) \cup {Mark(list[n])}
         /\ UpTo(list, 0) = {Original}
<1>0. Len(list) \in Nat /\ \A i \in 1 .. Len(list) : list[i] \in Entries \/ list[i] \in Edits
  OBVIOUS
<1>1. \A i \in 1 .. Len(list) : Mark(list[i]) \in Marks
  BY <1>0, MarkTyped
<1>2. Original \in Marks /\ Original \in UpTo(list, n)
  BY DEF Original, Marks, UpTo
<1>3. UpTo(list, n) \in SUBSET Marks
  <2>1. \A j \in 1 .. n : j \in 1 .. Len(list)
    BY <1>0
  <2> QED BY <1>1, <1>2, <2>1 DEF UpTo
<1>4. IsFiniteSet(UpTo(list, n))
  <2> DEFINE f == [j \in 1 .. n |-> Mark(list[j])]
             T == {Mark(list[j]) : j \in 1 .. n}
  <2>1. f \in Surjection(1 .. n, T)
    BY DEF Surjection
  <2>2. IsFiniteSet(1 .. n)
    BY FS_Interval
  <2> HIDE DEF f
  <2>3. IsFiniteSet(T)
    BY <2>1, <2>2, FS_Surjection
  <2>4. UpTo(list, n) = T \cup {Original}
    BY DEF UpTo
  <2> QED BY <2>3, <2>4, FS_AddElement
<1>5. n # 0 => UpTo(list, n) = UpTo(list, n - 1) \cup {Mark(list[n])}
  <2>1. n # 0 => 1 .. n = (1 .. n - 1) \cup {n}
    BY <1>0
  <2> QED BY <2>1 DEF UpTo
<1>6. UpTo(list, 0) = {Original}
  BY DEF UpTo
<1> QED BY <1>2, <1>3, <1>4, <1>5, <1>6

\* Carried through all of them, an insertion based on the text is at its place among them.
LEMMA ReconciledPlaces ==
  ASSUME NEW doc, doc.history \in Seq(Entries), Placed(Order, doc.history), Distinct(doc.history),
         \A i \in 1 .. Len(doc.history) : doc.history[i].revision > 0,
         NEW op \in Ops, op.base = 0, op.to = op.from, op.from = Rank(Order, {Original}, Mark(op)),
         \A i \in 1 .. Len(doc.history) : Mark(doc.history[i]) # Mark(op)
  PROVE  Reconciled(op, doc) = Moved(op, Rank(Order, UpTo(doc.history, Len(doc.history)), Mark(op)))
<1> DEFINE list == doc.history
           place(n) == Rank(Order, UpTo(list, n), Mark(op))
<1>0. Len(list) \in Nat /\ \A i \in 1 .. Len(list) : list[i] \in Entries
  OBVIOUS
<1>1. PICK upto : /\ upto[0] = op /\ Reconciled(op, doc) = upto[Len(list)]
                  /\ \A n \in 1 .. Len(list) : upto[n] = Past(upto[n - 1], list[n])
  BY ReconciledSteps
<1> HIDE DEF list
<1>t. list \in Seq(Entries) /\ Placed(Order, list) /\ Distinct(list)
  BY DEF list
<1>2. \A n \in 0 .. Len(list) : place(n) \in Nat
  BY <1>t, UpToTyped, RankTyped
<1> DEFINE S == {n \in 0 .. Len(list) : upto[n] = Moved(op, place(n))}
<1>3. 0 \in S
  <2>1. 0 \in 0 .. Len(list)
    BY <1>0
  <2>2. place(0) = op.from
    BY <1>t, <2>1, UpToTyped
  <2>3. Moved(op, place(0)) = op
    BY <1>2, <2>1, <2>2, MovedIs
  <2> QED BY <1>1, <2>1, <2>3
<1>4. ASSUME NEW i \in 0 .. Len(list) - 1, i \in S PROVE i + 1 \in S
  <2> DEFINE e == list[i + 1]
             U == UpTo(list, i)
             o == Moved(op, place(i))
  <2>0. i \in 0 .. Len(list) /\ i + 1 \in 0 .. Len(list) /\ i + 1 \in 1 .. Len(list) /\ i + 1 # 0 /\ i + 1 - 1 = i
    BY <1>0
  <2>1. upto[i + 1] = Past(o, e)
    BY <1>1, <1>4, <2>0
  <2>2. U \in SUBSET Marks /\ IsFiniteSet(U) /\ Original \in U /\ UpTo(list, i + 1) = U \cup {Mark(e)}
    BY <1>t, <2>0, UpToTyped
  <2>3. e \in Entries /\ e.insert /\ e.to = e.from /\ e.from = Rank(Order, U, Mark(e)) /\ e.revision > 0
    BY <1>0, <1>t, <2>0 DEF Placed, list
  <2>4. Mark(e) \notin U /\ Mark(e) # Mark(op)
    <3>1. Mark(e) # Original
      BY <2>3, MarkTyped
    <3>2. \A j \in 1 .. i : j \in 1 .. Len(list) /\ j # i + 1
      BY <1>0
    <3>3. \A j \in 1 .. i : Mark(list[j]) # Mark(e)
      BY <1>t, <2>0, <3>2 DEF Distinct
    <3> QED BY <2>0, <3>1, <3>3 DEF UpTo, list
  <2> HIDE DEF e, U
  <2>5. /\ o \in Ops /\ o.from = Rank(Order, U, Mark(o)) /\ o.to = o.from /\ Mark(o) = Mark(op) /\ o.base = 0
        /\ \A k \in Int : Moved(o, k) = Moved(op, k)
    BY <1>2, <2>0, MovedIs DEF U
  <2> HIDE DEF o
  <2>6. transform(o, e) = Moved(o, Rank(Order, U \cup {Mark(e)}, Mark(o)))
    BY <2>2, <2>3, <2>4, <2>5, TransformPlaces
  <2>7. Past(o, e) = transform(o, e)
    <3>1. ~(e.revision <= o.base)
      BY <2>3, <2>5 DEF Entries
    <3> QED BY <3>1 DEF Past
  <2>8. Rank(Order, U \cup {Mark(e)}, Mark(o)) = place(i + 1) /\ place(i + 1) \in Nat
    BY <1>2, <2>0, <2>2, <2>5
  <2>9. upto[i + 1] = Moved(op, place(i + 1))
    BY <2>1, <2>5, <2>6, <2>7, <2>8
  <2> QED BY <2>0, <2>9
<1>5. 0 .. Len(list) \subseteq S
  <2> HIDE DEF S
  <2> QED BY <1>0, <1>3, <1>4, SetInduction
<1>6. Len(list) \in S
  BY <1>0, <1>5
<1> QED BY <1>1, <1>6 DEF list

\* Edits that only insert, each once and based on the text.
Plain(ops) ==
  /\ Distinct(ops)
  /\ \A o \in sent, i \in 1 .. Len(ops) : Mark(o) = Mark(ops[i]) => o.from = o.to /\ o.base = 0
MarksOf(ops) == UpTo(ops, Len(ops))

LEMMA FirstPlace ==
  ASSUME CollabInv, NEW op \in sent, op.from \in 0 .. 1
  PROVE  op.from = Rank(Order, {Original}, Mark(op))
<1>1. op \in Ops /\ \A o \in sent : o \in Ops
  BY DEF CollabInv, TypeOK
<1>2. Mark(op) \in Marks /\ Mark(op) # Original /\ Original \in Marks
  BY <1>1, MarkTyped DEF Original, Marks
<1>3. \A o \in sent : Mark(o) = Mark(op) => o = op
  BY DEF CollabInv, SentInOrder, Mark
<1>4. Side(Original) = 1 /\ Side(Mark(op)) = IF op.from = 0 THEN 0 ELSE 2
  BY <1>2, <1>3 DEF Side
<1>5. <<Original, Mark(op)>> \in Order <=> op.from = 1
  <2>1. Comes(Original, Mark(op)) <=> op.from = 1
    BY <1>4 DEF Comes
  <2> QED BY <1>2, <2>1, OrderIs
<1>6. CASE op.from = 1
  <2>1. Earlier(Order, {Original}, Mark(op)) = {Original}
    BY <1>5, <1>6 DEF Earlier
  <2> QED BY <1>6, <2>1, FS_Singleton DEF Rank
<1>7. CASE op.from = 0
  <2>1. Earlier(Order, {Original}, Mark(op)) = {}
    BY <1>5, <1>7 DEF Earlier
  <2> QED BY <1>7, <2>1, FS_EmptySet DEF Rank
<1> QED BY <1>6, <1>7

\* When all edits are kept, they are kept in the order in which they were applied.
LEMMA AllKept ==
  ASSUME NEW list \in Seq(Entries), NEW ops \in Seq(Edits), Retained(list, ops), Len(list) = Len(ops)
  PROVE  /\ \A i \in 1 .. Len(list) : Mark(list[i]) = Mark(ops[i]) /\ list[i].revision = i
         /\ \A n \in 0 .. Len(list) : UpTo(list, n) = UpTo(ops, n)
         /\ Distinct(list) <=> Distinct(ops)
<1>0. Len(list) \in Nat
  OBVIOUS
<1>1. ASSUME NEW i \in 1 .. Len(list) PROVE Mark(list[i]) = Mark(ops[i]) /\ list[i].revision = i
  <2>1. list[i].revision = i
    <3>1. list[i].revision = Len(ops) - Len(list) + i
      BY DEF Retained
    <3> QED BY ONLY <1>0, <3>1, Len(list) = Len(ops), i \in 1 .. Len(list)
  <2>2. ops[i] = [client |-> list[i].client, seq |-> list[i].seq]
    BY <2>1 DEF Retained
  <2> QED BY <2>1, <2>2 DEF Mark
<1>2. ASSUME NEW n \in 0 .. Len(list) PROVE UpTo(list, n) = UpTo(ops, n)
  <2>1. \A j \in 1 .. n : j \in 1 .. Len(list)
    BY <1>0
  <2> QED BY <1>1, <2>1 DEF UpTo
<1> QED BY <1>1, <1>2 DEF Distinct

LEMMA SubSeqWhole ==
  ASSUME NEW entries \in Seq(Entries), NEW first \in 1 .. Len(entries) + 1,
         Len(SubSeq(entries, first, Len(entries))) >= Len(entries)
  PROVE  SubSeq(entries, first, Len(entries)) = entries
<1>1. Len(SubSeq(entries, first, Len(entries))) = Len(entries) - first + 1 /\ Len(entries) \in Nat
  BY SubSeqProperties
<1>2. first = 1
  BY <1>1
<1> QED BY <1>2, SubSeqFull

LEMMA PlacedAppended ==
  ASSUME NEW list \in Seq(Entries), Placed(Order, list), NEW e \in Entries, e.insert, e.to = e.from,
         e.from = Rank(Order, UpTo(list, Len(list)), Mark(e))
  PROVE  Placed(Order, Append(list, e))
<1> DEFINE more == Append(list, e)
<1>1. /\ Len(more) = Len(list) + 1 /\ Len(list) \in Nat /\ more[Len(list) + 1] = e
      /\ \A i \in 1 .. Len(list) : more[i] = list[i]
  BY AppendProperties
<1> HIDE DEF more
<1>2. ASSUME NEW n \in 0 .. Len(list) PROVE UpTo(more, n) = UpTo(list, n)
  <2>1. \A j \in 1 .. n : j \in 1 .. Len(list)
    BY <1>1
  <2> QED BY <1>1, <2>1 DEF UpTo
<1>3. ASSUME NEW i \in 1 .. Len(more)
      PROVE  /\ more[i].insert /\ more[i].to = more[i].from
             /\ more[i].from = Rank(Order, UpTo(more, i - 1), Mark(more[i]))
  <2>1. i - 1 \in 0 .. Len(list)
    BY <1>1
  <2>2. UpTo(more, i - 1) = UpTo(list, i - 1)
    BY <1>2, <2>1
  <2>3. CASE i \in 1 .. Len(list)
    BY <1>1, <2>2, <2>3 DEF Placed
  <2>4. CASE i = Len(list) + 1
    <3>1. i - 1 = Len(list)
      BY <1>1, <2>4
    <3> QED BY <1>1, <2>2, <2>4, <3>1
  <2> QED BY <1>1, <2>3, <2>4
<1> QED BY <1>3 DEF Placed, more

LEMMA PlainBefore ==
  ASSUME NEW ops \in Seq(Edits), NEW edit \in Edits, Plain(Append(ops, edit))
  PROVE  /\ Plain(ops) /\ \A i \in 1 .. Len(ops) : Mark(ops[i]) # Mark(edit)
         /\ \A o \in sent : Mark(o) = Mark(edit) => o.from = o.to /\ o.base = 0
         /\ MarksOf(Append(ops, edit)) = MarksOf(ops) \cup {Mark(edit)}
         /\ Mark(edit) \notin MarksOf(ops)
<1> DEFINE more == Append(ops, edit)
<1>1. /\ more \in Seq(Edits) /\ Len(more) = Len(ops) + 1 /\ Len(ops) \in Nat /\ more[Len(ops) + 1] = edit
      /\ \A i \in 1 .. Len(ops) : more[i] = ops[i]
  BY AppendProperties
<1> HIDE DEF more
<1>2. Plain(more)
  BY DEF more
<1>3. \A i \in 1 .. Len(ops) : i \in 1 .. Len(more) /\ i # Len(ops) + 1
  BY <1>1
<1>4. Len(ops) + 1 \in 1 .. Len(more)
  BY <1>1
<1>5. Distinct(ops) /\ \A i \in 1 .. Len(ops) : Mark(ops[i]) # Mark(edit)
  BY <1>1, <1>2, <1>3, <1>4 DEF Plain, Distinct
<1>6. /\ \A o \in sent, i \in 1 .. Len(ops) : Mark(o) = Mark(ops[i]) => o.from = o.to /\ o.base = 0
      /\ \A o \in sent : Mark(o) = Mark(edit) => o.from = o.to /\ o.base = 0
  BY <1>1, <1>2, <1>3, <1>4 DEF Plain
<1>7. UpTo(more, Len(ops)) = UpTo(ops, Len(ops))
  BY <1>1 DEF UpTo
<1>8. MarksOf(more) = MarksOf(ops) \cup {Mark(edit)}
  <2>1. /\ Len(more) \in 0 .. Len(more) /\ Len(more) # 0 /\ Len(more) - 1 = Len(ops)
    BY <1>1
  <2>2. UpTo(more, Len(more)) = UpTo(more, Len(more) - 1) \cup {Mark(more[Len(more)])}
    BY <1>1, <2>1, UpToTyped
  <2> QED BY <1>1, <1>7, <2>1, <2>2 DEF MarksOf
<1>9. Mark(edit) \notin MarksOf(ops)
  BY <1>5, MarkTyped DEF MarksOf, UpTo
<1> QED BY <1>5, <1>6, <1>8, <1>9 DEF Plain, more

--------------------------------------------------------------------------------
(* The invariant *)

\* An edit starts before or after the text, and removes something or inserts.
Shape == \A o \in sent : o.from \in 0 .. 1 /\ (o.from = o.to => o.insert)
AppliedSent == \A c \in Clones : \A i \in 1 .. Len(applied[c]) : \E o \in sent : Mark(o) = Mark(applied[c][i])

\* What was read of the file of a clone without rows.
FirstText(c) ==
  row[c] = NoRow =>
    /\ file[c] = Text(<<Original>>)
    /\ handling[c].busy => handling[c].disk = <<Original>>
    /\ opening[c].busy => opening[c].disk = <<Original>>
DocStored(c) == mem[c] # NoDoc => mem[c].content = Stored(c)

AllPlaced(list, ops) == Len(list) = Len(ops) => Placed(Order, list)
Ordered(c) ==
  Plain(applied[c]) =>
    /\ InOrder(Order, MarksOf(applied[c]), Stored(c))
    /\ AllPlaced(log[c], applied[c])
    /\ mem[c] # NoDoc => AllPlaced(mem[c].history, applied[c])

Converging(c) == ~saving[c] /\ FirstText(c) /\ DocStored(c) /\ Ordered(c)
ConvergeInv == Shape /\ AppliedSent /\ (saves = 0 => \A c \in Clones : Converging(c))

\* The document the lock is taken with.
LEMMA LoadedOrdered ==
  ASSUME CollabInv, NEW c \in Clones, Converging(c), NEW disk \in Texts, row[c] = NoRow => disk = <<Original>>
  PROVE  /\ load(c, disk).content = Stored(c)
         /\ Plain(applied[c]) => AllPlaced(load(c, disk).history, applied[c])
<1>1. CASE mem[c] # NoDoc
  <2>1. load(c, disk) = mem[c]
    BY <1>1 DEF load
  <2> QED BY <1>1, <2>1 DEF Converging, DocStored, Ordered
<1>2. CASE mem[c] = NoDoc /\ row[c] # NoRow
  <2>1. load(c, disk).content = row[c].content /\ load(c, disk).history = Newest(log[c], HistoryLimit)
    BY <1>2 DEF load, replayHistory
  <2>2. log[c] \in Seq(Entries) /\ Retained(log[c], applied[c]) /\ applied[c] \in Seq(Edits)
    BY DEF CollabInv, TypeOK, CloneInv, RowsKept, Edits
  <2>3. PICK first \in 1 .. Len(log[c]) + 1 :
          Newest(log[c], HistoryLimit) = SubSeq(log[c], first, Len(log[c]))
    BY <2>2, NewestIsSubSeq
  <2>4. ASSUME Plain(applied[c]), Len(Newest(log[c], HistoryLimit)) = Len(applied[c])
        PROVE  Placed(Order, Newest(log[c], HistoryLimit))
    <3>1. Len(log[c]) <= Len(applied[c]) /\ Len(log[c]) \in Nat /\ Len(applied[c]) \in Nat
      BY <2>2 DEF Retained
    <3>2. Newest(log[c], HistoryLimit) = log[c]
      BY <2>2, <2>3, <2>4, <3>1, SubSeqWhole
    <3> QED BY <2>4, <3>2 DEF Converging, Ordered, AllPlaced
  <2> QED BY <1>2, <2>1, <2>4 DEF Stored, AllPlaced
<1>3. CASE mem[c] = NoDoc /\ row[c] = NoRow
  <2>1. load(c, disk) = [NoDoc EXCEPT !.content = disk, !.revision = 0]
    BY <1>3 DEF load
  <2>2. load(c, disk).content = disk /\ load(c, disk).history = <<>>
    BY <2>1 DEF NoDoc
  <2>3. Placed(Order, <<>>)
    BY DEF Placed
  <2> QED BY <1>3, <2>2, <2>3 DEF Stored, AllPlaced
<1> QED BY <1>1, <1>2, <1>3

\* An edit is applied where the order puts it.
LEMMA NextOrdered ==
  ASSUME CollabInv, Shape, NEW c \in Clones, Converging(c), handling[c].busy, ~Refused(DocOf(c), OpOf(c)),
         Plain(Append(applied[c], EditOf(handling[c].op)))
  PROVE  LET ops  == Append(applied[c], EditOf(handling[c].op))
             next == NextOf(c)
         IN  /\ InOrder(Order, MarksOf(ops), next.content)
             /\ Placed(Order, next.history)
             /\ AllPlaced(Append(log[c], Last(next.history)), ops)
<1> DEFINE op == handling[c].op
           doc == DocOf(c)
           before == applied[c]
           edit == EditOf(op)
           ops == Append(before, edit)
           place == Rank(Order, MarksOf(before), Mark(op))
           o == Reconciled(op, doc)
           done == [client |-> op.client, seq |-> op.seq, base |-> op.base, from |-> o.from, to |-> o.to,
                    insert |-> op.insert, revision |-> doc.revision + 1]
<1>0. before \in Seq(Edits) /\ log[c] \in Seq(Entries) /\ Retained(log[c], before) /\ sent \subseteq Ops
  BY DEF CollabInv, TypeOK, CloneInv, RowsKept, Edits
<1>1. /\ op \in Ops /\ op \in sent /\ handling[c].disk \in Texts
      /\ OpOf(c) = IF Home[op.client] # c /\ op.base > doc.revision THEN [op EXCEPT !.base = doc.revision] ELSE op
  BY MappedKeepsName DEF OpOf, Mapped, DocOf
<1>2. DocAt(doc, before)
  BY <1>1, Loaded DEF DocAt, DocOf
<1>3. doc.content = Stored(c) /\ (Plain(before) => AllPlaced(doc.history, before))
  <2>1. row[c] = NoRow => handling[c].disk = <<Original>>
    BY DEF Converging, FirstText
  <2> QED BY <1>1, <2>1, LoadedOrdered DEF DocOf
<1>4. /\ doc \in Docs /\ doc.history \in Seq(Entries) /\ doc.content \in Texts /\ doc.revision = Len(before)
      /\ Retained(doc.history, before) /\ Len(before) \in Nat /\ Len(doc.history) \in Nat
  BY <1>0, <1>2 DEF DocAt, Docs
<1>5. edit \in Edits /\ Mark(edit) = Mark(op)
  BY <1>1 DEF EditOf, Edits, Mark, Ops
<1>6. ~Refused(doc, OpOf(c)) /\ NextOf(c) = After(doc, OpOf(c)) /\ Plain(ops)
  BY DEF NextOf
<1> HIDE DEF op, doc, before, edit, place
<1>7. /\ Plain(before) /\ \A i \in 1 .. Len(before) : Mark(before[i]) # Mark(op)
      /\ MarksOf(ops) = MarksOf(before) \cup {Mark(op)} /\ Mark(op) \notin MarksOf(before)
      /\ op.from = op.to /\ op.base = 0
  BY <1>0, <1>1, <1>5, <1>6, PlainBefore
<1>8. OpOf(c) = op
  BY <1>1, <1>4, <1>7
<1>9. op.insert /\ op.from \in 0 .. 1
  BY <1>1, <1>7 DEF Shape
<1>10. Len(doc.history) = Len(before)
  <2>1. ~(op.base < doc.revision - Len(doc.history))
    BY <1>6, <1>8 DEF Refused, Oldest
  <2>2. Len(doc.history) <= Len(before)
    BY <1>4 DEF Retained
  <2> QED BY <1>4, <1>7, <2>1, <2>2
<1>11. /\ Placed(Order, doc.history) /\ Distinct(doc.history)
       /\ \A i \in 1 .. Len(doc.history) : Mark(doc.history[i]) # Mark(op) /\ doc.history[i].revision > 0
       /\ UpTo(doc.history, Len(doc.history)) = MarksOf(before)
  <2>1. Placed(Order, doc.history)
    BY <1>3, <1>7, <1>10 DEF AllPlaced
  <2>2. /\ \A i \in 1 .. Len(doc.history) : Mark(doc.history[i]) = Mark(before[i]) /\ doc.history[i].revision = i
        /\ UpTo(doc.history, Len(doc.history)) = MarksOf(before)
        /\ Distinct(doc.history)
    BY <1>0, <1>4, <1>7, <1>10, AllKept DEF Plain, MarksOf
  <2> QED BY <1>4, <1>7, <1>10, <2>1, <2>2
<1>12. op.from = Rank(Order, {Original}, Mark(op))
  BY <1>1, <1>9, FirstPlace
<1>13. o = Moved(op, place)
  BY <1>1, <1>4, <1>7, <1>11, <1>12, ReconciledPlaces DEF place
<1>14. MarksOf(before) \in SUBSET Marks /\ IsFiniteSet(MarksOf(before)) /\ Mark(op) \in Marks
  BY <1>0, <1>1, <1>4, UpToTyped, MarkTyped DEF MarksOf
<1>15. InOrder(Order, MarksOf(before), doc.content)
  BY <1>3, <1>7 DEF Converging, Ordered, before
<1>16. place \in 0 .. Len(doc.content) /\ InOrder(Order, MarksOf(ops), Put(doc.content, place, Mark(op)))
  BY <1>4, <1>7, <1>14, <1>15, OrderIsOrder, PutInOrder DEF place
<1>17. /\ o \in Ops /\ o.from = place /\ o.to = place /\ o.insert /\ o.client = op.client /\ o.seq = op.seq
  BY <1>1, <1>9, <1>13, <1>16, MovedIs
<1> HIDE DEF o
<1>18. Spliced(doc.content, o) = Put(doc.content, place, Mark(op))
  BY <1>17 DEF Spliced, Put, Mark
<1>19. done \in Entries /\ Mark(done) = Mark(op) /\ done.insert /\ done.to = done.from /\ done.from = place
  <2>1. doc.revision + 1 \in Int
    BY <1>4
  <2> QED BY <1>1, <1>9, <1>17, <2>1 DEF Ops, Entries, Mark
<1>20. NextOf(c).content = Spliced(doc.content, o) /\ NextOf(c).history = Append(doc.history, done)
  BY <1>1, <1>4, <1>6, <1>8, AfterIs DEF o
<1> HIDE DEF done
<1>21. Placed(Order, NextOf(c).history) /\ Last(NextOf(c).history) = done
  <2>1. Placed(Order, Append(doc.history, done))
    BY <1>4, <1>11, <1>19, PlacedAppended DEF place
  <2>2. Last(Append(doc.history, done)) = done
    <3>1. Len(Append(doc.history, done)) = Len(doc.history) + 1 /\ Append(doc.history, done)[Len(doc.history) + 1] = done
      BY <1>4, <1>19, AppendProperties
    <3> QED BY <3>1 DEF Last
  <2> QED BY <1>20, <2>1, <2>2
<1>22. AllPlaced(Append(log[c], done), ops)
  <2> DEFINE more == Append(log[c], done)
  <2>1. Len(more) = Len(log[c]) + 1 /\ Len(ops) = Len(before) + 1 /\ Len(log[c]) \in Nat
    BY <1>0, <1>5, <1>19, AppendProperties
  <2> HIDE DEF more, ops
  <2>2. ASSUME Len(more) = Len(ops) PROVE Placed(Order, more)
    <3>1. Len(log[c]) = Len(before)
      BY <1>4, <2>1, <2>2
    <3>2. Placed(Order, log[c])
      BY <1>7, <3>1 DEF Converging, Ordered, AllPlaced, before
    <3>3. UpTo(log[c], Len(log[c])) = MarksOf(before)
      BY <1>0, <1>4, <3>1, AllKept DEF MarksOf
    <3> QED BY <1>0, <1>19, <3>2, <3>3, PlacedAppended DEF place, more
  <2> QED BY <2>2 DEF AllPlaced, more
<1> QED BY <1>16, <1>18, <1>20, <1>21, <1>22 DEF ops, edit, before, op

--------------------------------------------------------------------------------
(* Every step keeps it *)

LEMMA RankSame ==
  ASSUME NEW R, NEW Q, NEW S, NEW m, \A x \in S : <<x, m>> \in R <=> <<x, m>> \in Q
  PROVE  Rank(R, S, m) = Rank(Q, S, m)
<1>1. Earlier(R, S, m) = Earlier(Q, S, m)
  BY DEF Earlier
<1> QED BY <1>1 DEF Rank

\* What is sent later does not change the order of what was sent.
KnownMarks == {Original} \cup {Mark(o) : o \in sent}

LEMMA OrderStays ==
  ASSUME CollabInv, CollabInv', sent \subseteq sent'
  PROVE  \A x, y \in KnownMarks : <<x, y>> \in Order <=> <<x, y>> \in Order'
<1>1. \A o \in sent' : o \in Ops
  BY DEF CollabInv, TypeOK
<1>2. \A o, p \in sent' : Mark(o) = Mark(p) => o = p
  BY DEF CollabInv, SentInOrder, Mark
<1>3. ASSUME NEW m \in KnownMarks PROVE m \in Marks /\ Side(m)' = Side(m)
  <2>1. CASE m = Original
    BY <2>1 DEF Side, Marks, Original
  <2>2. CASE m # Original
    <3>1. PICK o1 \in sent : m = Mark(o1)
      BY <2>2 DEF KnownMarks
    <3>2. (\E o \in sent : Mark(o) = m /\ o.from = 0) <=> (\E o \in sent' : Mark(o) = m /\ o.from = 0)
      BY <1>2, <3>1
    <3>3. m \in Marks
      BY <1>1, <3>1, MarkTyped
    <3> QED BY <2>2, <3>2, <3>3 DEF Side
  <2> QED BY <2>1, <2>2
<1>4. ASSUME NEW x \in KnownMarks, NEW y \in KnownMarks PROVE Comes(x, y)' <=> Comes(x, y)
  BY <1>3 DEF Comes
<1>5. ASSUME NEW x \in KnownMarks, NEW y \in KnownMarks
      PROVE  (<<x, y>> \in Order <=> Comes(x, y)) /\ (<<x, y>> \in Order' <=> Comes(x, y)')
  <2>1. <<x, y>> \in Marks \X Marks /\ <<x, y>>[1] = x /\ <<x, y>>[2] = y
    BY <1>3
  <2> QED BY <2>1 DEF Order
<1> QED BY <1>4, <1>5

LEMMA KnownApplied ==
  ASSUME CollabInv, AppliedSent, NEW c \in Clones, NEW n \in 0 .. Len(applied[c])
  PROVE  /\ UpTo(applied[c], n) \subseteq KnownMarks
         /\ \A i \in 1 .. Len(applied[c]) : Mark(applied[c][i]) \in KnownMarks
<1>1. \A i \in 1 .. Len(applied[c]) : Mark(applied[c][i]) \in KnownMarks
  BY DEF AppliedSent, KnownMarks
<1>2. Len(applied[c]) \in Nat
  BY DEF CollabInv, TypeOK
<1>3. \A j \in 1 .. n : j \in 1 .. Len(applied[c])
  BY <1>2
<1> QED BY <1>1, <1>3 DEF UpTo, KnownMarks

LEMMA PlacedStays ==
  ASSUME CollabInv, CollabInv', AppliedSent, sent \subseteq sent', NEW c \in Clones,
         NEW list \in Seq(Entries), Retained(list, applied[c]), AllPlaced(list, applied[c])
  PROVE  Len(list) = Len(applied[c]) => Placed(Order', list)
<1> SUFFICES ASSUME Len(list) = Len(applied[c]) PROVE Placed(Order', list)
  OBVIOUS
<1>0. Len(list) \in Nat /\ applied[c] \in Seq(Edits)
  <2>1. Len(list) \in Nat
    OBVIOUS
  <2> QED BY <2>1 DEF CollabInv, TypeOK, Edits
<1>1. Placed(Order, list)
  BY DEF AllPlaced
<1>2. /\ \A i \in 1 .. Len(list) : Mark(list[i]) = Mark(applied[c][i])
      /\ \A n \in 0 .. Len(list) : UpTo(list, n) = UpTo(applied[c], n)
  BY <1>0, AllKept
<1>3. ASSUME NEW i \in 1 .. Len(list)
      PROVE  Rank(Order, UpTo(list, i - 1), Mark(list[i])) = Rank(Order', UpTo(list, i - 1), Mark(list[i]))
  <2>1. i - 1 \in 0 .. Len(list)
    BY <1>0
  <2>2. UpTo(list, i - 1) \subseteq KnownMarks /\ Mark(list[i]) \in KnownMarks
    BY <1>2, <2>1, KnownApplied
  <2> QED BY <2>2, OrderStays, RankSame
<1> QED BY <1>1, <1>3 DEF Placed

LEMMA InOrderStays ==
  ASSUME CollabInv, CollabInv', AppliedSent, sent \subseteq sent', NEW c \in Clones, NEW text,
         InOrder(Order, MarksOf(applied[c]), text)
  PROVE  InOrder(Order', MarksOf(applied[c]), text)
<1>1. Len(applied[c]) \in 0 .. Len(applied[c])
  BY DEF CollabInv, TypeOK
<1>2. MarksOf(applied[c]) \subseteq KnownMarks
  BY <1>1, KnownApplied DEF MarksOf
<1>3. \A m \in MarksOf(applied[c]) : Rank(Order, MarksOf(applied[c]), m) = Rank(Order', MarksOf(applied[c]), m)
  BY <1>2, OrderStays, RankSame
<1> QED BY <1>3 DEF InOrder

\* A document of clone c as it is loaded.
GoodDoc(d, c) ==
  DocAt(d, applied[c]) /\ d.content = Stored(c) /\ (Plain(applied[c]) => AllPlaced(d.history, applied[c]))

LEMMA ConvergingStays ==
  ASSUME CollabInv, CollabInv', AppliedSent, sent \subseteq sent', NEW c \in Clones, Converging(c),
         row'[c] = row[c], log'[c] = log[c], applied'[c] = applied[c],
         mem'[c] = NoDoc \/ mem'[c] = mem[c] \/ GoodDoc(mem'[c], c),
         ~saving'[c], FirstText(c)'
  PROVE  Converging(c)'
<1>1. mem[c] # NoDoc => GoodDoc(mem[c], c)
  <2>1. mem[c] # NoDoc => DocAt(mem[c], applied[c])
    BY DEF CollabInv, CloneInv, DocKept, DocAt, TypeOK
  <2> QED BY <2>1 DEF GoodDoc, Converging, DocStored, Ordered
<1>2. mem'[c] # NoDoc => GoodDoc(mem'[c], c)
  BY <1>1
<1>3. Stored(c)' = Stored(c)
  BY DEF Stored
<1>4. DocStored(c)'
  BY <1>2, <1>3 DEF DocStored, GoodDoc
<1>5. Plain(applied[c])' => Plain(applied[c])
  BY DEF Plain
<1>6. Ordered(c)'
  <2>1. SUFFICES ASSUME Plain(applied[c])'
        PROVE  /\ InOrder(Order', MarksOf(applied[c]), Stored(c))
               /\ Len(log[c]) = Len(applied[c]) => Placed(Order', log[c])
               /\ mem'[c] # NoDoc => (Len(mem'[c].history) = Len(applied[c]) => Placed(Order', mem'[c].history))
    BY <1>3 DEF Ordered, AllPlaced, Plain
  <2>2. Plain(applied[c])
    BY <1>5, <2>1
  <2>3. InOrder(Order', MarksOf(applied[c]), Stored(c))
    BY <2>2, InOrderStays DEF Converging, Ordered
  <2>4. Len(log[c]) = Len(applied[c]) => Placed(Order', log[c])
    <3>1. log[c] \in Seq(Entries) /\ Retained(log[c], applied[c])
      BY DEF CollabInv, TypeOK, CloneInv, RowsKept
    <3> QED BY <2>2, <3>1, PlacedStays DEF Converging, Ordered
  <2>5. ASSUME mem'[c] # NoDoc
        PROVE  Len(mem'[c].history) = Len(applied[c]) => Placed(Order', mem'[c].history)
    <3>1. mem'[c].history \in Seq(Entries) /\ Retained(mem'[c].history, applied[c])
      BY <1>2, <2>5 DEF GoodDoc, DocAt, Docs
    <3>2. AllPlaced(mem'[c].history, applied[c])
      BY <1>2, <2>2, <2>5 DEF GoodDoc
    <3> HIDE DEF AllPlaced
    <3> DEFINE list == mem'[c].history
    <3>3. list \in Seq(Entries) /\ Retained(list, applied[c]) /\ AllPlaced(list, applied[c])
      BY <3>1, <3>2
    <3> HIDE DEF list
    <3>4. Len(list) = Len(applied[c]) => Placed(Order', list)
      BY <3>3, PlacedStays
    <3> QED BY <3>4 DEF list
  <2> QED BY <2>3, <2>4, <2>5
<1> QED BY <1>4, <1>6 DEF Converging

LEMMA CommitConverges ==
  ASSUME CollabInv, Shape, NEW c \in Clones, Converging(c),
         ApplyOp(c) \/ WriteFails(c) \/ EndsAfterCommit(c)
  PROVE  Converging(c)'
<1> DEFINE edit == EditOf(handling[c].op)
           ops  == Append(applied[c], edit)
           next == NextOf(c)
           last == Last(next.history)
           rows == Append(log[c], last)
<1>0. /\ mem \in [Clones -> Docs] /\ log \in [Clones -> Seq(Entries)] /\ saving \in [Clones -> BOOLEAN]
      /\ row \in [Clones -> [content : Texts, revision : Nat \cup {-1}]]
      /\ applied \in [Clones -> Seq(Edits)]
  BY DEF CollabInv, TypeOK, Edits
<1>1. /\ handling[c].busy /\ ~Refused(DocOf(c), OpOf(c)) /\ SaveCollabEdit(c, next) /\ sent' = sent
      /\ saving' = saving \/ saving' = [saving EXCEPT ![c] = FALSE]
      /\ log' = [log EXCEPT ![c] = rows] \/ log' = [log EXCEPT ![c] = Trimmed(rows, next)]
      /\ \/ mem' = [mem EXCEPT ![c] = NoDoc]
         \/ mem' = [mem EXCEPT ![c] = next]
         \/ mem' = [mem EXCEPT ![c] = Swept(next)]
  BY DEF ApplyOp, WriteFails, EndsAfterCommit, EndsWith, Handled, DocOf, OpOf, NextOf
<1>2. /\ edit \in Edits /\ ops \in Seq(Edits) /\ DocAt(next, ops)
      /\ [client |-> last.client, seq |-> last.seq] = edit
      /\ rows \in Seq(Entries) /\ Retained(rows, ops)
  BY <1>1, NextKept
<1>3. /\ row' = [row EXCEPT ![c] = [content |-> next.content, revision |-> next.revision]]
      /\ applied' = [applied EXCEPT ![c] = ops]
  <2>1. applied' = [applied EXCEPT ![c] = Append(applied[c], [client |-> last.client, seq |-> last.seq])]
    BY <1>1 DEF SaveCollabEdit
  <2> QED BY <1>1, <1>2, <2>1 DEF SaveCollabEdit
<1>4. Plain(ops) =>
        /\ InOrder(Order, MarksOf(ops), next.content)
        /\ Placed(Order, next.history)
        /\ AllPlaced(rows, ops)
  BY <1>1, NextOrdered
<1> HIDE DEF edit, ops, last, rows, next
<1>5. /\ next \in Docs /\ next.history \in Seq(Entries) /\ next.revision = Len(ops) /\ Retained(next.history, ops)
      /\ Len(ops) \in Nat /\ Len(rows) \in Nat /\ Len(rows) <= Len(ops)
      /\ Len(next.history) \in Nat /\ Len(next.history) <= Len(ops)
  <2>1. next \in Docs /\ next.history \in Seq(Entries) /\ next.revision = Len(ops) /\ Retained(next.history, ops)
    BY <1>2 DEF DocAt, Docs
  <2>2. Len(rows) <= Len(ops) /\ Len(next.history) <= Len(ops)
    BY <1>2, <2>1 DEF Retained
  <2>3. Len(rows) \in Nat /\ Len(ops) \in Nat
    BY <1>2
  <2>4. Len(next.history) \in Nat
    BY <2>1
  <2> QED BY <2>1, <2>2, <2>3, <2>4
<1>6. AllPlaced(rows, ops) => AllPlaced(Trimmed(rows, next), ops)
  <2>1. PICK first \in 1 .. Len(rows) + 1 : Trimmed(rows, next) = SubSeq(rows, first, Len(rows))
    BY <1>2, <1>5, TrimmedIsSubSeq
  <2>2. Len(Trimmed(rows, next)) = Len(ops) => Trimmed(rows, next) = rows
    BY <1>2, <1>5, <2>1, SubSeqWhole
  <2> QED BY <2>2 DEF AllPlaced
<1>7. Placed(Order, next.history) => AllPlaced(Newest(next.history, HistoryLimit), ops)
  <2>1. PICK first \in 1 .. Len(next.history) + 1 :
          Newest(next.history, HistoryLimit) = SubSeq(next.history, first, Len(next.history))
    BY <1>5, NewestIsSubSeq
  <2>2. Len(Newest(next.history, HistoryLimit)) = Len(ops) => Newest(next.history, HistoryLimit) = next.history
    BY <1>5, <2>1, SubSeqWhole
  <2> QED BY <2>2 DEF AllPlaced
<1>8. Swept(next).history = Newest(next.history, HistoryLimit) /\ Swept(next).content = next.content
  BY <1>5 DEF Swept, Docs
<1>9. /\ applied'[c] = ops /\ row'[c] = [content |-> next.content, revision |-> next.revision] /\ ~saving'[c]
      /\ log'[c] = rows \/ log'[c] = Trimmed(rows, next)
      /\ mem'[c] = NoDoc \/ mem'[c] = next \/ mem'[c] = Swept(next)
  BY <1>0, <1>1, <1>3 DEF Converging
<1>10. row'[c] # NoRow /\ Stored(c)' = next.content
  <2>1. row'[c] # NoRow
    BY <1>5, <1>9 DEF NoRow
  <2> QED BY <1>9, <2>1 DEF Stored
<1>11. FirstText(c)'
  BY <1>10 DEF FirstText
<1>12. DocStored(c)'
  BY <1>8, <1>9, <1>10 DEF DocStored
<1>13. Order' = Order
  <2>1. ASSUME NEW m PROVE Side(m)' = Side(m)
    BY <1>1 DEF Side
  <2>2. \A x, y : Comes(x, y)' <=> Comes(x, y)
    BY <2>1 DEF Comes
  <2> QED BY <2>2 DEF Order
<1>14. Ordered(c)'
  <2> SUFFICES ASSUME Plain(applied[c])'
               PROVE  /\ InOrder(Order, MarksOf(ops), next.content)
                      /\ Len(log'[c]) = Len(ops) => Placed(Order, log'[c])
                      /\ mem'[c] # NoDoc => (Len(mem'[c].history) = Len(ops) => Placed(Order, mem'[c].history))
    BY <1>9, <1>10, <1>13 DEF Ordered, AllPlaced
  <2>1. Plain(ops)
    BY <1>1, <1>9 DEF Plain
  <2> QED BY <1>4, <1>6, <1>7, <1>8, <1>9, <2>1 DEF AllPlaced
<1> QED BY <1>9, <1>11, <1>12, <1>14 DEF Converging

\* Steps that leave a clone alone.
LEMMA UntouchedConverges ==
  ASSUME CollabInv, CollabInv', AppliedSent, sent \subseteq sent', NEW e \in Clones, Converging(e),
         row'[e] = row[e], log'[e] = log[e], applied'[e] = applied[e], mem'[e] = mem[e],
         file'[e] = file[e], handling'[e] = handling[e], opening'[e] = opening[e], saving'[e] = saving[e]
  PROVE  Converging(e)'
<1>1. FirstText(e)'
  BY DEF Converging, FirstText
<1>2. ~saving'[e]
  BY DEF Converging
<1> QED BY <1>1, <1>2, ConvergingStays

LEMMA EditConverges ==
  ASSUME CollabInv, CollabInv', ConvergeInv, NEW k \in Clients, Edit(k)
  PROVE  ConvergeInv'
<1>1. PICK base \in NextBase(k) .. (IF Known(k) > NextBase(k) THEN Known(k) ELSE NextBase(k)),
           from \in 0 .. 1, dropped \in 0 .. Deletions, insert \in BOOLEAN :
        /\ insert \/ dropped > 0
        /\ sent' = sent \cup {[client |-> k, seq |-> Cardinality(Own(k)) + 1, base |-> base,
                               from |-> from, to |-> from + dropped, insert |-> insert]}
  BY DEF Edit
<1>2. UNCHANGED <<mem, row, log, file, delivered, handling, opening, saving, applied, saved,
                  saves, downs, fails>>
  BY DEF Edit
<1>3. Shape'
  <2> DEFINE new == [client |-> k, seq |-> Cardinality(Own(k)) + 1, base |-> base,
                     from |-> from, to |-> from + dropped, insert |-> insert]
  <2>1. new.from \in 0 .. 1 /\ (new.from = new.to => new.insert)
    <3>1. dropped \in Nat /\ from \in Nat
      BY Limits
    <3>2. from = from + dropped => ~(dropped > 0)
      BY <3>1
    <3> QED BY <1>1, <3>2
  <2> HIDE DEF new
  <2>2. sent' = sent \cup {new}
    BY <1>1 DEF new
  <2> QED BY <2>1, <2>2 DEF ConvergeInv, Shape
<1>4. AppliedSent'
  BY <1>1, <1>2 DEF ConvergeInv, AppliedSent
<1>5. ASSUME saves' = 0, NEW e \in Clones PROVE Converging(e)'
  <2>1. Converging(e)
    BY <1>2, <1>5 DEF ConvergeInv
  <2> QED BY <1>1, <1>2, <2>1, UntouchedConverges DEF ConvergeInv
<1> QED BY <1>3, <1>4, <1>5 DEF ConvergeInv

LEMMA CommitStepConverges ==
  ASSUME CollabInv, CollabInv', ConvergeInv, NEW c \in Clones, ApplyOp(c) \/ WriteFails(c) \/ EndsAfterCommit(c)
  PROVE  ConvergeInv'
<1>1. /\ handling[c].busy /\ ~Refused(DocOf(c), OpOf(c)) /\ SaveCollabEdit(c, NextOf(c))
      /\ handling' = [handling EXCEPT ![c] = Free] /\ UNCHANGED <<sent, delivered, saved, saves>>
  BY DEF ApplyOp, WriteFails, EndsAfterCommit, EndsWith, Handled, DocOf, OpOf, NextOf
<1>2. /\ \A e \in Clones \ {c} : /\ mem'[e] = mem[e] /\ row'[e] = row[e] /\ log'[e] = log[e]
                                 /\ applied'[e] = applied[e] /\ file'[e] = file[e] /\ handling'[e] = handling[e]
                                 /\ opening'[e] = opening[e] /\ saving'[e] = saving[e]
  <2>1. /\ mem \in [Clones -> Docs] /\ log \in [Clones -> Seq(Entries)] /\ saving \in [Clones -> BOOLEAN]
        /\ row \in [Clones -> [content : Texts, revision : Nat \cup {-1}]]
        /\ applied \in [Clones -> Seq(Edits)] /\ file \in [Clones -> [there : BOOLEAN, text : Texts]]
        /\ handling \in [Clones -> {Free} \cup [busy : {TRUE}, op : Ops, disk : Texts]]
        /\ opening \in [Clones -> {Free} \cup [busy : {TRUE}, disk : Texts, loaded : BOOLEAN]]
    BY DEF CollabInv, TypeOK, Edits
  <2>2. /\ \E d : mem' = [mem EXCEPT ![c] = d]
        /\ \E rows : log' = [log EXCEPT ![c] = rows]
        /\ file' = file \/ \E text : file' = [file EXCEPT ![c] = text]
        /\ opening' = opening \/ opening' = [opening EXCEPT ![c] = Free]
        /\ saving' = saving \/ saving' = [saving EXCEPT ![c] = FALSE]
    <3>1. CASE ApplyOp(c)
      BY <3>1 DEF ApplyOp
    <3>2. CASE WriteFails(c)
      BY <3>2 DEF WriteFails
    <3>3. CASE EndsAfterCommit(c)
      BY <3>3 DEF EndsAfterCommit, EndsWith
    <3> QED BY <3>1, <3>2, <3>3
  <2>3. /\ \E kept : row' = [row EXCEPT ![c] = kept]
        /\ \E ops : applied' = [applied EXCEPT ![c] = ops]
    BY <1>1 DEF SaveCollabEdit
  <2>4. \A e \in Clones \ {c} : mem'[e] = mem[e] /\ log'[e] = log[e]
    BY <2>1, <2>2
  <2>5. \A e \in Clones \ {c} : row'[e] = row[e] /\ applied'[e] = applied[e]
    BY <2>1, <2>3
  <2>6. \A e \in Clones \ {c} : /\ file'[e] = file[e] /\ handling'[e] = handling[e]
                                /\ opening'[e] = opening[e] /\ saving'[e] = saving[e]
    BY <1>1, <2>1, <2>2
  <2> QED BY <2>4, <2>5, <2>6
<1>3. Shape'
  BY <1>1 DEF ConvergeInv, Shape
<1>4. AppliedSent'
  <2> DEFINE edit == EditOf(handling[c].op)
             last == Last(NextOf(c).history)
  <2>1. handling[c].op \in sent /\ edit \in Edits /\ [client |-> last.client, seq |-> last.seq] = edit
    BY <1>1, MappedKeepsName, NextKept
  <2>2. applied'[c] = Append(applied[c], edit)
    <3>1. applied' = [applied EXCEPT ![c] = Append(applied[c], [client |-> last.client, seq |-> last.seq])]
      BY <1>1 DEF SaveCollabEdit
    <3> QED BY <2>1, <3>1 DEF CollabInv, TypeOK
  <2>3. Mark(edit) = Mark(handling[c].op)
    BY DEF EditOf, Mark
  <2> HIDE DEF edit
  <2>4. applied[c] \in Seq(Edits)
    BY DEF CollabInv, TypeOK, Edits
  <2>5. /\ Len(applied'[c]) = Len(applied[c]) + 1 /\ Len(applied[c]) \in Nat /\ applied'[c][Len(applied[c]) + 1] = edit
        /\ \A i \in 1 .. Len(applied[c]) : applied'[c][i] = applied[c][i]
    BY <2>1, <2>2, <2>4, AppendProperties
  <2>6. ASSUME NEW i \in 1 .. Len(applied'[c]) PROVE \E o \in sent : Mark(o) = Mark(applied'[c][i])
    <3>1. CASE i \in 1 .. Len(applied[c])
      BY <2>5, <3>1 DEF ConvergeInv, AppliedSent
    <3>2. CASE i = Len(applied[c]) + 1
      BY <2>1, <2>3, <2>5, <3>2
    <3> QED BY <2>5, <3>1, <3>2
  <2> QED BY <1>1, <1>2, <2>6 DEF ConvergeInv, AppliedSent
<1>5. ASSUME saves' = 0, NEW e \in Clones PROVE Converging(e)'
  <2>1. Converging(e) /\ Converging(c) /\ Shape /\ AppliedSent
    BY <1>1, <1>5 DEF ConvergeInv
  <2>2. CASE e = c
    BY <2>1, <2>2, CommitConverges
  <2>3. CASE e # c
    BY <1>1, <1>2, <2>1, <2>3, UntouchedConverges
  <2> QED BY <2>2, <2>3
<1> QED BY <1>3, <1>4, <1>5 DEF ConvergeInv

LEMMA OtherStepConverges ==
  ASSUME CollabInv, CollabInv', ConvergeInv, NEW c \in Clones,
         HandleOp(c) \/ RejectOp(c) \/ DaemonEnds(c) \/ OpenRead(c) \/ Open(c) \/ RepairFile(c)
         \/ ReplaceFile(c) \/ RemoveFile(c) \/ Reset(c) \/ ResetFails(c)
  PROVE  ConvergeInv'
<1>t. /\ mem \in [Clones -> Docs] /\ log \in [Clones -> Seq(Entries)] /\ saving \in [Clones -> BOOLEAN]
      /\ row \in [Clones -> [content : Texts, revision : Nat \cup {-1}]]
      /\ applied \in [Clones -> Seq(Edits)] /\ file \in [Clones -> [there : BOOLEAN, text : Texts]]
      /\ handling \in [Clones -> {Free} \cup [busy : {TRUE}, op : Ops, disk : Texts]]
      /\ opening \in [Clones -> {Free} \cup [busy : {TRUE}, disk : Texts, loaded : BOOLEAN]]
      /\ saves \in Nat
  <2>1. saves \in 0 .. MaxTroubles /\ MaxTroubles \in Nat
    BY Limits DEF CollabInv, TypeOK
  <2>2. saves \in Nat
    BY <2>1
  <2> QED BY <2>2 DEF CollabInv, TypeOK, Edits
<1>1. sent' = sent /\ Shape'
  BY DEF ConvergeInv, Shape, HandleOp, RejectOp, DaemonEnds, OpenRead, Open, RepairFile, ReplaceFile,
         RemoveFile, Reset, ResetFails
<1>2. AppliedSent'
  <2>1. CASE applied' = applied
    BY <1>1, <2>1 DEF ConvergeInv, AppliedSent
  <2>2. CASE applied' = [applied EXCEPT ![c] = <<>>]
    <3>1. \A e \in Clones \ {c} : applied'[e] = applied[e]
      BY <1>t, <2>2
    <3>2. applied'[c] = <<>>
      BY <1>t, <2>2
    <3>3. \A i \in 1 .. Len(applied'[c]) : FALSE
      BY <3>2
    <3> QED BY <1>1, <3>1, <3>3 DEF ConvergeInv, AppliedSent
  <2> QED BY <2>1, <2>2 DEF HandleOp, RejectOp, DaemonEnds, OpenRead, Open, RepairFile, ReplaceFile,
                            RemoveFile, Reset, ResetFails
<1>3. ASSUME saves' = 0, NEW e \in Clones PROVE Converging(e)'
  <2>0. saves = 0
    BY <1>t, <1>3 DEF HandleOp, RejectOp, DaemonEnds, OpenRead, Open, RepairFile, ReplaceFile,
                      RemoveFile, Reset, ResetFails
  <2>1. Converging(e) /\ Converging(c) /\ AppliedSent /\ ~saving[c]
    BY <2>0 DEF ConvergeInv, Converging
  <2>2. HandleOp(c) \/ RejectOp(c) \/ DaemonEnds(c) \/ OpenRead(c) \/ Open(c) \/ RepairFile(c)
    BY <1>t, <1>3, <2>0, <2>1 DEF ReplaceFile, RemoveFile, Reset, ResetFails
  <2>3. UNCHANGED <<row, log, applied>>
    BY <2>2 DEF HandleOp, RejectOp, DaemonEnds, OpenRead, Open, RepairFile
  <2>4. CASE e # c
    <3>1. /\ mem'[e] = mem[e] /\ file'[e] = file[e] /\ handling'[e] = handling[e]
          /\ opening'[e] = opening[e] /\ saving'[e] = saving[e]
      BY <1>t, <2>2, <2>4 DEF HandleOp, RejectOp, DaemonEnds, EndsWith, OpenRead, Open, RepairFile, Handled
    <3> QED BY <1>1, <2>1, <2>3, <3>1, UntouchedConverges
  <2>5. CASE e = c
    <3> DEFINE given == handling[c].disk
               read == opening[c].disk
    <3>0. /\ row[c] = NoRow => /\ file[c] = Text(<<Original>>)
                               /\ handling[c].busy => given = <<Original>>
                               /\ opening[c].busy => read = <<Original>>
          /\ handling[c].busy => given \in Texts
          /\ opening[c].busy => read \in Texts
          /\ ~Free.busy
      <4>1. ~Free.busy
        BY DEF Free
      <4>2. (handling[c].busy => handling[c] # Free) /\ (opening[c].busy => opening[c] # Free)
        BY <4>1
      <4> QED BY <1>t, <2>1, <4>1, <4>2 DEF Converging, FirstText
    <3>1. ASSUME NEW disk \in Texts, row[c] = NoRow => disk = <<Original>>
          PROVE  GoodDoc(load(c, disk), c)
      BY <2>1, <3>1, Loaded, LoadedOrdered DEF GoodDoc, DocAt
    <3>2. mem'[c] = NoDoc \/ mem'[c] = mem[c] \/ GoodDoc(mem'[c], c)
      <4>1. CASE RejectOp(c)
        <5>1. mem'[c] = load(c, given) /\ handling[c].busy
          BY <1>t, <4>1 DEF RejectOp
        <5> QED BY <3>0, <3>1, <5>1
      <4>2. CASE Open(c)
        <5>1. mem'[c] = load(c, read) /\ opening[c].busy
          BY <1>t, <4>2 DEF Open
        <5> QED BY <3>0, <3>1, <5>1
      <4>3. CASE HandleOp(c) \/ OpenRead(c) \/ RepairFile(c) \/ DaemonEnds(c)
        BY <1>t, <4>3 DEF HandleOp, OpenRead, RepairFile, DaemonEnds, EndsWith
      <4> QED BY <2>2, <4>1, <4>2, <4>3
    <3>3. ~saving'[c]
      BY <1>t, <2>1, <2>2 DEF HandleOp, RejectOp, DaemonEnds, EndsWith, OpenRead, Open, RepairFile
    <3>4. FirstText(c)'
      <4> SUFFICES ASSUME row[c] = NoRow
                   PROVE  /\ file'[c] = Text(<<Original>>)
                          /\ handling'[c].busy => handling'[c].disk = <<Original>>
                          /\ opening'[c].busy => opening'[c].disk = <<Original>>
        BY <2>3 DEF FirstText
      <4>1. CASE HandleOp(c)
        <5>1. UNCHANGED <<file, opening>> /\ handling'[c].disk = file[c].text
          BY <1>t, <4>1 DEF HandleOp
        <5> QED BY <3>0, <5>1 DEF Text
      <4>2. CASE RejectOp(c)
        <5>1. UNCHANGED <<file, opening>> /\ handling'[c] = Free
          BY <1>t, <4>2 DEF RejectOp, Handled
        <5> QED BY <3>0, <5>1
      <4>3. CASE DaemonEnds(c)
        <5>1. UNCHANGED file /\ handling'[c] = Free /\ opening'[c] = Free
          BY <1>t, <4>3 DEF DaemonEnds, EndsWith
        <5> QED BY <3>0, <5>1
      <4>4. CASE OpenRead(c)
        <5>1. UNCHANGED <<file, handling>> /\ opening'[c].disk = file[c].text
          BY <1>t, <4>4 DEF OpenRead
        <5> QED BY <3>0, <5>1 DEF Text
      <4>5. CASE Open(c)
        <5>1. /\ UNCHANGED <<file, handling>> /\ opening[c].busy
              /\ opening'[c] = IF load(c, read).content = read THEN Free
                               ELSE [busy |-> TRUE, disk |-> load(c, read).content, loaded |-> TRUE]
          BY <1>t, <4>5 DEF Open
        <5>2. load(c, read).content = <<Original>>
          BY <3>0, <3>1, <5>1 DEF GoodDoc, Stored
        <5> HIDE DEF read
        <5>3. opening'[c].busy => opening'[c].disk = <<Original>>
          BY <3>0, <5>1, <5>2
        <5> QED BY <3>0, <5>1, <5>3
      <4>6. CASE RepairFile(c)
        <5>1. UNCHANGED handling /\ file'[c] = Text(read) /\ opening'[c] = Free /\ opening[c].busy
          BY <1>t, <4>6 DEF RepairFile
        <5> QED BY <3>0, <5>1
      <4> QED BY <2>2, <4>1, <4>2, <4>3, <4>4, <4>5, <4>6
    <3> QED BY <1>1, <2>1, <2>3, <2>5, <3>2, <3>3, <3>4, ConvergingStays
  <2> QED BY <2>4, <2>5
<1> QED BY <1>1, <1>2, <1>3 DEF ConvergeInv

LEMMA ConvergeStep == CollabInv /\ CollabInv' /\ ConvergeInv /\ [Next]_vars => ConvergeInv'
<1> SUFFICES ASSUME CollabInv, CollabInv', ConvergeInv, [Next]_vars PROVE ConvergeInv'
  OBVIOUS
<1>1. CASE UNCHANGED vars
  <2>1. Shape' /\ AppliedSent'
    BY <1>1 DEF vars, ConvergeInv, Shape, AppliedSent
  <2>2. ASSUME saves' = 0, NEW e \in Clones PROVE Converging(e)'
    <3>1. Converging(e) /\ AppliedSent
      BY <1>1, <2>2 DEF vars, ConvergeInv
    <3>2. UNCHANGED <<mem, row, log, file, sent, handling, opening, saving, applied>>
      BY <1>1 DEF vars
    <3> QED BY <3>1, <3>2, UntouchedConverges
  <2> QED BY <2>1, <2>2 DEF ConvergeInv
<1> QED BY <1>1, Limits, EditConverges, CommitStepConverges, OtherStepConverges DEF Next

LEMMA ConvergeStarts == Init => ConvergeInv
<1> SUFFICES ASSUME Init PROVE ConvergeInv
  OBVIOUS
<1>1. Shape /\ AppliedSent
  BY DEF Init, Shape, AppliedSent
<1>2. ASSUME NEW c \in Clones PROVE Converging(c)
  <2>1. /\ mem[c] = NoDoc /\ row[c] = NoRow /\ log[c] = <<>> /\ applied[c] = <<>> /\ ~saving[c]
        /\ file[c] = Text(<<Original>>) /\ handling[c] = Free /\ opening[c] = Free
    BY <1>2 DEF Init
  <2>2. FirstText(c) /\ DocStored(c) /\ Stored(c) = <<Original>>
    BY <2>1 DEF FirstText, DocStored, Stored, Free
  <2>3. MarksOf(<<>>) = {Original} /\ Original \in Marks
    BY DEF MarksOf, UpTo, Original, Marks
  <2>4. ~(<<Original, Original>> \in Order)
    BY <2>3, OrderIsOrder DEF IsOrder
  <2>5. Rank(Order, {Original}, Original) = 0
    <3>1. Earlier(Order, {Original}, Original) = {}
      BY <2>4 DEF Earlier
    <3> QED BY <3>1, FS_EmptySet DEF Rank
  <2>6. InOrder(Order, {Original}, <<Original>>)
    <3>1. Cardinality({Original}) = 1
      BY FS_Singleton
    <3>2. Len(<<Original>>) = 1 /\ <<Original>>[1] = Original
      OBVIOUS
    <3>3. \A i \in 1 .. 1 : i = 1
      OBVIOUS
    <3> QED BY <2>5, <3>1, <3>2, <3>3 DEF InOrder
  <2>7. AllPlaced(<<>>, <<>>)
    BY DEF AllPlaced, Placed
  <2>8. Ordered(c)
    BY <2>1, <2>2, <2>3, <2>6, <2>7 DEF Ordered
  <2> QED BY <2>1, <2>2, <2>8 DEF Converging
<1> QED BY <1>1, <1>2 DEF ConvergeInv

LEMMA ConvergeAlways == Spec => []ConvergeInv
BY ConvergeStarts, ConvergeStep, CollabAlways, PTL DEF Spec

\* The same insertions, all based on the same text, make the same text in whatever
\* order they arrive (collab.go, transform: the tie break by operationOrder).
THEOREM InsertionsConvergeHolds == Spec => []InsertionsConverge
<1>1. CollabInv /\ ConvergeInv => InsertionsConverge
  <2> SUFFICES ASSUME CollabInv, ConvergeInv, NEW c \in Clones, NEW d \in Clones,
                      saves = 0, Ids(c) = Ids(d), OnlyInsertions(c),
                      Len(applied[c]) = Len(applied[d]), Len(applied[c]) = Cardinality(Ids(c))
               PROVE  Stored(c) = Stored(d)
    BY DEF InsertionsConverge
  <2>1. ASSUME NEW e \in Clones, Ids(e) = Ids(c), Len(applied[e]) = Len(applied[c])
        PROVE  /\ MarksOf(applied[e]) = {Original} \cup {Mark(x) : x \in Ids(c)}
               /\ InOrder(Order, MarksOf(applied[e]), Stored(e))
               /\ MarksOf(applied[e]) \in SUBSET Marks /\ IsFiniteSet(MarksOf(applied[e]))
               /\ Stored(e) \in Texts
    <3> DEFINE ops == applied[e]
    <3>0. /\ ops \in Seq(Edits) /\ Len(ops) \in Nat /\ DOMAIN ops = 1 .. Len(ops)
          /\ \A i \in 1 .. Len(ops) : ops[i] \in Edits
          /\ row[e].content \in Texts
      <4>1. ops \in Seq(Edits) /\ row[e].content \in Texts
        BY DEF CollabInv, TypeOK, Edits
      <4> HIDE DEF ops
      <4> QED BY <4>1
    <3>1. Ids(e) = {ops[i] : i \in 1 .. Len(ops)}
      BY <3>0 DEF Ids
    <3> HIDE DEF ops
    <3>2. MarksOf(ops) = {Original} \cup {Mark(x) : x \in Ids(c)}
      BY <2>1, <3>1 DEF MarksOf, UpTo
    <3>3. \A i, j \in 1 .. Len(ops) : ops[i] = ops[j] => i = j
      <4>1. ops \in Surjection(1 .. Len(ops), Ids(e))
        BY <3>0, <3>1 DEF Surjection
      <4>2. IsFiniteSet(1 .. Len(ops)) /\ Cardinality(1 .. Len(ops)) = Len(ops)
        <5>1. 1 \in Int /\ Len(ops) \in Int
          BY <3>0
        <5>2. IsFiniteSet(1 .. Len(ops)) /\ Cardinality(1 .. Len(ops)) = IF 1 > Len(ops) THEN 0 ELSE Len(ops) - 1 + 1
          BY <5>1, FS_Interval
        <5> QED BY <3>0, <5>2
      <4>3. Cardinality(Ids(e)) = Len(ops)
        BY <2>1 DEF ops
      <4>4. ops \in Injection(1 .. Len(ops), Ids(e))
        BY <4>1, <4>2, <4>3, FS_Surjection
      <4> QED BY <4>4 DEF Injection, IsInjective
    <3>4. \A i \in 1 .. Len(ops) : ops[i] = [client |-> Mark(ops[i])[1], seq |-> Mark(ops[i])[2]]
      BY <3>0 DEF Edits, Mark
    <3>5. Plain(ops)
      <4>1. Distinct(ops)
        <5>1. ASSUME NEW i \in 1 .. Len(ops), NEW j \in 1 .. Len(ops), Mark(ops[i]) = Mark(ops[j])
              PROVE  i = j
          <6>1. ops[i] = ops[j]
            BY <3>4, <5>1
          <6> QED BY <3>3, <6>1
        <5> QED BY <5>1 DEF Distinct
      <4>2. ASSUME NEW o \in sent, NEW i \in 1 .. Len(ops), Mark(o) = Mark(ops[i])
            PROVE  o.from = o.to /\ o.base = 0
        <5>1. [client |-> o.client, seq |-> o.seq] = ops[i]
          BY <3>4, <4>2 DEF Mark
        <5> QED BY <2>1, <3>1, <5>1 DEF OnlyInsertions
      <4> QED BY <4>1, <4>2 DEF Plain
    <3>6. InOrder(Order, MarksOf(ops), Stored(e))
      BY <3>5 DEF ConvergeInv, Converging, Ordered, ops
    <3>7. Stored(e) \in Texts
      <4>1. <<Original>> \in Texts
        <5>1. Original \in Nat \X Nat
          BY DEF Original
        <5>2. \A mark \in Nat \X Nat : <<mark>> \in Seq(Nat \X Nat)
          OBVIOUS
        <5> QED BY <5>1, <5>2 DEF Texts
      <4> QED BY <3>0, <4>1 DEF Stored
    <3>8. MarksOf(ops) \in SUBSET Marks /\ IsFiniteSet(MarksOf(ops))
      BY <3>0, UpToTyped DEF MarksOf
    <3> QED BY <3>2, <3>6, <3>7, <3>8 DEF ops
  <2>2. /\ MarksOf(applied[c]) = MarksOf(applied[d])
        /\ InOrder(Order, MarksOf(applied[c]), Stored(c)) /\ InOrder(Order, MarksOf(applied[c]), Stored(d))
        /\ MarksOf(applied[c]) \in SUBSET Marks /\ IsFiniteSet(MarksOf(applied[c]))
        /\ Stored(c) \in Texts /\ Stored(d) \in Texts
    BY <2>1
  <2> QED BY <2>2, OrderIsOrder, InOrderUnique
<1> QED BY <1>1, CollabAlways, ConvergeAlways, PTL

--------------------------------------------------------------------------------
(* Members: types *)

LEMMA RolesTyped ==
  /\ \A role \in Roles \cup {None} : CapabilitiesForRole(role) \in SUBSET OwnerCapabilities
  /\ \A caps \in SUBSET OwnerCapabilities :
       /\ RoleForCapabilities(caps) \in Roles
       /\ RoleForCapabilities(caps) # None
  /\ SupportedRoles \subseteq Roles
  /\ None \notin Roles
<1>1. SupportedRoles \subseteq Roles
  BY DEF SupportedRoles, Roles
<1>2. None \notin Roles
  BY DEF Roles, None
<1>3. ASSUME NEW role \in Roles \cup {None} PROVE CapabilitiesForRole(role) \in SUBSET OwnerCapabilities
  BY DEF CapabilitiesForRole, OwnerCapabilities, DefaultCapabilities
<1>4. ASSUME NEW caps \in SUBSET OwnerCapabilities PROVE RoleForCapabilities(caps) \in Roles
  BY DEF RoleForCapabilities, Roles
<1> QED BY <1>1, <1>2, <1>3, <1>4

\* What is given with view, and the role a set of capabilities maps to while the
\* repository's owner stays.
LEMMA ViewTyped ==
  ASSUME NEW caps \in SUBSET OwnerCapabilities
  PROVE  /\ WithView(caps) \in SUBSET OwnerCapabilities
         /\ WithView(caps) = {} \/ "view" \in WithView(caps)
BY DEF WithView, OwnerCapabilities

LEMMA RoleStays ==
  ASSUME organisation' = organisation, NEW caps
  PROVE  RoleForCapabilities(caps)' = RoleForCapabilities(caps)
BY DEF RoleForCapabilities, SupportedRoles

LEMMA RowsTyped ==
  /\ NoMember \in Rows /\ Owner \in Rows
  /\ \A caps \in SUBSET OwnerCapabilities, memo \in Roles \cup {None}, linked \in BOOLEAN :
       Member(caps, memo, linked) \in Rows
BY DEF Rows, NoMember, Owner, Member, OwnerCapabilities, None

LEMMA RowChanged ==
  ASSUME NEW m \in Rows
  PROVE  /\ m.caps \in SUBSET OwnerCapabilities /\ m.memo \in Roles \cup {None}
         /\ m.linked \in BOOLEAN /\ m.owner \in BOOLEAN /\ m.row \in BOOLEAN
         /\ \A memo \in Roles \cup {None} :
              /\ [m EXCEPT !.memo = memo] \in Rows
              /\ [m EXCEPT !.memo = memo].memo = memo
              /\ [m EXCEPT !.memo = memo].caps = m.caps
              /\ [m EXCEPT !.memo = memo].linked = m.linked
              /\ [m EXCEPT !.memo = memo].owner = m.owner
              /\ [m EXCEPT !.memo = memo].row = m.row
              /\ m.memo = memo => [m EXCEPT !.memo = memo] = m
         /\ \A caps \in SUBSET OwnerCapabilities :
              /\ [m EXCEPT !.caps = caps] \in Rows
              /\ [m EXCEPT !.caps = caps].caps = caps
              /\ [m EXCEPT !.caps = caps].linked = m.linked
              /\ [m EXCEPT !.caps = caps].owner = m.owner
              /\ [m EXCEPT !.caps = caps].row = m.row
         /\ \A caps \in SUBSET OwnerCapabilities, memo \in Roles \cup {None} :
              /\ [m EXCEPT !.caps = caps, !.memo = memo] \in Rows
              /\ [m EXCEPT !.caps = caps, !.memo = memo].memo = memo
              /\ [m EXCEPT !.caps = caps, !.memo = memo].linked = m.linked
              /\ [m EXCEPT !.caps = caps, !.memo = memo].row = m.row
<1>1. /\ m.caps \in SUBSET OwnerCapabilities /\ m.memo \in Roles \cup {None}
      /\ m.linked \in BOOLEAN /\ m.owner \in BOOLEAN /\ m.row \in BOOLEAN
      /\ m = [caps |-> m.caps, memo |-> m.memo, linked |-> m.linked, owner |-> m.owner, row |-> m.row]
  BY DEF Rows
<1>2. ASSUME NEW memo \in Roles \cup {None}
      PROVE  /\ [m EXCEPT !.memo = memo] \in Rows
             /\ m.memo = memo => [m EXCEPT !.memo = memo] = m
  BY <1>1 DEF Rows
<1>3. ASSUME NEW caps \in SUBSET OwnerCapabilities PROVE [m EXCEPT !.caps = caps] \in Rows
  BY <1>1 DEF Rows
<1>4. ASSUME NEW caps \in SUBSET OwnerCapabilities, NEW memo \in Roles \cup {None}
      PROVE  [m EXCEPT !.caps = caps, !.memo = memo] \in Rows
  BY <1>1 DEF Rows
<1> QED BY <1>1, <1>2, <1>3, <1>4 DEF Rows

\* What a handler carries at each of its steps.
LEMMA DutyShape ==
  ASSUME NEW h \in Duties
  PROVE  /\ h.at \in {"idle", "collaborators", "withdraw", "push", "memo", "invitations", "members", "apply"}
         /\ h.at = "idle" <=> h = Idle
         /\ h.at \in {"push", "memo"} => h \in Pushes
         /\ h.at = "withdraw" => h.who \in People
         /\ h.at = "invitations" => h.remote \in Listings
         /\ h.at = "members" => h.remote \in Listings /\ h.readable \in BOOLEAN /\ h.pending \in SUBSET People
         /\ h.at = "apply" => h \in Passes
<1>1. CASE h \in [at : {"idle", "collaborators"}] BY <1>1 DEF Idle
<1>2. CASE h \in [at : {"withdraw"}, who : People] BY <1>2 DEF Idle
<1>3. CASE h \in Pushes BY <1>3 DEF Idle, Pushes
<1>4. CASE h \in Syncs BY <1>4 DEF Idle, Syncs
<1>5. CASE h \in Passes BY <1>5 DEF Idle, Passes
<1> QED BY <1>1, <1>2, <1>3, <1>4, <1>5 DEF Duties

LEMMA DutiesTyped ==
  /\ Idle \in Duties /\ [at |-> "collaborators"] \in Duties
  /\ \A x \in People : [at |-> "withdraw", who |-> x] \in Duties
  /\ \A x \in People, m \in Rows, alone \in BOOLEAN :
       [at |-> "push", who |-> x, m |-> m, alone |-> alone] \in Duties
  /\ \A remote \in Listings : [at |-> "invitations", remote |-> remote] \in Duties
  /\ \A remote \in Listings, readable \in BOOLEAN, pending \in SUBSET People :
       [at |-> "members", remote |-> remote, readable |-> readable, pending |-> pending] \in Duties
BY DEF Duties, Idle, Pushes, Syncs

LEMMA PushShape ==
  ASSUME NEW h \in Pushes
  PROVE  /\ h \in Duties
         /\ h.at \in {"push", "memo"} /\ h.who \in People /\ h.m \in Rows /\ h.alone \in BOOLEAN
         /\ [h EXCEPT !.at = "memo"] \in Pushes /\ [h EXCEPT !.at = "memo"] \in Duties
         /\ [h EXCEPT !.at = "memo"].at = "memo" /\ [h EXCEPT !.at = "memo"].who = h.who
         /\ [h EXCEPT !.at = "memo"].m = h.m /\ [h EXCEPT !.at = "memo"].alone = h.alone
         /\ [h EXCEPT !.alone = FALSE] \in Pushes
         /\ [h EXCEPT !.alone = FALSE].alone = FALSE /\ [h EXCEPT !.alone = FALSE].who = h.who
         /\ [h EXCEPT !.alone = FALSE].m = h.m /\ [h EXCEPT !.alone = FALSE].at = h.at
BY DEF Pushes, Duties

\* Who crosses another request is where it was, and carries what it carried.
LEMMA CrossedShape ==
  ASSUME NEW h \in Duties
  PROVE  /\ Crossed(h) \in Duties /\ Crossed(h).at = h.at
         /\ h.at \notin {"push", "memo"} => Crossed(h) = h
         /\ h.at \in {"push", "memo"} => /\ Crossed(h).who = h.who /\ Crossed(h).m = h.m
                                         /\ Crossed(h).alone = FALSE
BY DutyShape, PushShape DEF Crossed, Duties

LEMMA PassShape ==
  ASSUME NEW h \in Passes
  PROVE  /\ h \in Duties /\ h.at = "apply" /\ h.pass \in {"match", "tell", "prune"}
         /\ h.todo \in SUBSET People /\ h.remote \in Listings /\ h.pending \in SUBSET People
         /\ h.readable \in BOOLEAN /\ h.local \in [People -> Rows]
BY DEF Passes, Duties

\* A pass that goes on looks at the same listings.
SameReading(h, g) ==
  /\ g.at = "apply" /\ g.remote = h.remote /\ g.pending = h.pending
  /\ g.readable = h.readable /\ g.local = h.local

LEMMA PassMoves ==
  ASSUME NEW h \in Passes, NEW todo \in SUBSET People
  PROVE  /\ [h EXCEPT !.todo = todo] \in Passes
         /\ SameReading(h, [h EXCEPT !.todo = todo])
         /\ [h EXCEPT !.todo = todo].todo = todo /\ [h EXCEPT !.todo = todo].pass = h.pass
         /\ \A pass \in {"match", "tell", "prune"} :
              /\ [h EXCEPT !.pass = pass, !.todo = todo] \in Passes
              /\ SameReading(h, [h EXCEPT !.pass = pass, !.todo = todo])
              /\ [h EXCEPT !.pass = pass, !.todo = todo].todo = todo
              /\ [h EXCEPT !.pass = pass, !.todo = todo].pass = pass
<1>1. /\ [h EXCEPT !.todo = todo] \in Passes
      /\ [h EXCEPT !.todo = todo].todo = todo /\ [h EXCEPT !.todo = todo].pass = h.pass
  BY DEF Passes
<1>2. SameReading(h, [h EXCEPT !.todo = todo])
  BY DEF Passes, SameReading
<1>3. ASSUME NEW pass \in {"match", "tell", "prune"}
      PROVE  /\ [h EXCEPT !.pass = pass, !.todo = todo] \in Passes
             /\ [h EXCEPT !.pass = pass, !.todo = todo].todo = todo
             /\ [h EXCEPT !.pass = pass, !.todo = todo].pass = pass
             /\ SameReading(h, [h EXCEPT !.pass = pass, !.todo = todo])
  BY DEF Passes, SameReading
<1> QED BY <1>1, <1>2, <1>3

--------------------------------------------------------------------------------
(* Moves of the handlers and of GitHub *)

LEMMA HandlersTyped ==
  ASSUME MembersTypeOK, NEW w \in Workers
  PROVE  /\ handler[w] \in Duties
         /\ \A step \in Duties : Goes(w, step) => handler' \in [Workers -> Duties]
         /\ \A step \in Duties : Begins(w, step) => handler' \in [Workers -> Duties]
         /\ Ends(w) => handler' \in [Workers -> Duties]
<1>1. \A u \in Workers : handler[u] \in Duties /\ Crossed(handler[u]) \in Duties
  BY CrossedShape DEF MembersTypeOK
<1>2. handler \in [Workers -> Duties] /\ Idle \in Duties
  BY DutiesTyped DEF MembersTypeOK
<1>3. ASSUME NEW step \in Duties, Goes(w, step) PROVE handler' \in [Workers -> Duties]
  BY <1>2, <1>3 DEF Goes
<1>4. ASSUME NEW step \in Duties, Begins(w, step) PROVE handler' \in [Workers -> Duties]
  BY <1>1, <1>4 DEF Begins
<1> QED BY <1>1, <1>2, <1>3, <1>4 DEF Ends

\* What a handler's own step makes of the handlers.
LEMMA GoesOnly ==
  ASSUME MembersTypeOK, NEW w \in Workers, NEW step, Goes(w, step)
  PROVE  handler'[w] = step /\ \A u \in Workers : u # w => handler'[u] = handler[u]
BY DEF MembersTypeOK, Goes

LEMMA BeginsOnly ==
  ASSUME NEW w \in Workers, NEW step, Begins(w, step)
  PROVE  /\ handler'[w] = step /\ \A u \in Workers : u # w => handler'[u] = Crossed(handler[u])
         /\ At(w, "idle") /\ requests < MaxRequests /\ requests' = requests + 1
BY DEF Begins, Asked

LEMMA GitHubTyped ==
  ASSUME MembersTypeOK, NEW x \in People
  PROVE  /\ \A m \in Rows : PushMember(x, m) => collaborator' \in Listings /\ invited' \in Listings
         /\ RemoveCollaborator(x) => collaborator' \in Listings /\ invited' \in Listings
<1> USE DEF Listings
<1>1. collaborator \in Listings /\ invited \in Listings
  BY DEF MembersTypeOK
<1>2. RemoveCollaborator(x) => collaborator' \in Listings /\ invited' \in Listings
  BY <1>1 DEF RemoveCollaborator
<1>3. ASSUME NEW m \in Rows, PushMember(x, m)
      PROVE  collaborator' \in Listings /\ invited' \in Listings
  <2>1. RoleForCapabilities(m.caps) \in Roles
    BY RolesTyped, RowChanged
  <2>2. CASE ~m.linked
    BY <1>1, <1>3, <2>2 DEF PushMember
  <2>3. CASE m.linked /\ "view" \in m.caps
    BY <1>1, <1>3, <2>1, <2>3 DEF PushMember, AddCollaborator
  <2>4. CASE m.linked /\ "view" \notin m.caps
    BY <1>2, <1>3, <2>4 DEF PushMember
  <2> QED BY <2>2, <2>3, <2>4
<1> QED BY <1>2, <1>3

\* A pass that has dealt with somebody goes on, or ends.
LEMMA OnwardsTyped ==
  ASSUME MembersTypeOK, NEW w \in Workers, At(w, "apply"), NEW x, Onwards(w, x)
  PROVE  handler' \in [Workers -> Duties]
<1>1. handler[w] \in Passes
  BY HandlersTyped, DutyShape DEF At
<1> DEFINE rest == handler[w].todo \ {x}
<1>2. rest \in SUBSET People /\ People \in SUBSET People /\ handler[w].pass \in {"match", "tell", "prune"}
  BY <1>1, PassShape
<1>3. [handler[w] EXCEPT !.todo = rest] \in Duties
  BY <1>1, <1>2, PassMoves, PassShape
<1>4. NextPass(handler[w].pass) \in {"match", "tell", "prune"}
  BY DEF NextPass
<1>5. [handler[w] EXCEPT !.pass = NextPass(handler[w].pass), !.todo = People] \in Duties
  BY <1>1, <1>2, <1>4, PassMoves, PassShape
<1>6. CASE rest # {}
  <2>1. Goes(w, [handler[w] EXCEPT !.todo = rest])
    BY <1>6 DEF Onwards
  <2> QED BY <1>3, <2>1, HandlersTyped
<1>7. CASE rest = {} /\ handler[w].pass = "prune"
  BY <1>7, HandlersTyped DEF Onwards
<1>8. CASE rest = {} /\ handler[w].pass # "prune"
  <2>1. Goes(w, [handler[w] EXCEPT !.pass = NextPass(handler[w].pass), !.todo = People])
    BY <1>8 DEF Onwards
  <2> QED BY <1>5, <2>1, HandlersTyped
<1> QED BY <1>6, <1>7, <1>8

\* The parts of a step's types.
HandlersOK == handler' \in [Workers -> Duties] /\ requests' \in 0 .. MaxRequests
GitHubOK == /\ repository' \in BOOLEAN /\ organisation' \in BOOLEAN
            /\ collaborator' \in Listings /\ invited' \in Listings
HistoryOK == /\ chosen' \in [People -> (SUBSET OwnerCapabilities) \cup {NoChoice}]
             /\ removed' \subseteq People /\ calm' \in {"no", "running", "yes"}
MembersOK == members' \in [People -> Rows]

LEMMA PartsTyped ==
  ASSUME HandlersOK, GitHubOK, HistoryOK, MembersOK PROVE MembersTypeOK'
BY DEF HandlersOK, GitHubOK, HistoryOK, MembersOK, MembersTypeOK

LEMMA Unmoved ==
  ASSUME MembersTypeOK
  PROVE  /\ UNCHANGED github => GitHubOK
         /\ UNCHANGED history /\ Disturbed => HistoryOK
         /\ UNCHANGED history /\ UNCHANGED calm => HistoryOK
         /\ UNCHANGED members => MembersOK
         /\ UNCHANGED <<handler, requests>> => HandlersOK
         /\ \A x \in People : Forget(x) /\ Disturbed /\ removed' \in SUBSET People => HistoryOK
         /\ \A w \in Workers, x \in People : Settles(w, x) /\ UNCHANGED history => HistoryOK
         /\ requests < MaxRequests /\ requests' = requests + 1 => requests' \in 0 .. MaxRequests
         /\ requests' = requests => requests' \in 0 .. MaxRequests
         /\ \A x \in People, m \in Rows : members' = [members EXCEPT ![x] = m] => MembersOK
         /\ \A w \in Workers, step \in Duties : Begins(w, step) => HandlersOK
         /\ \A w \in Workers, step \in Duties : Goes(w, step) /\ UNCHANGED requests => HandlersOK
         /\ Idle \in Duties
<1> USE MembersAssumption DEF MembersTypeOK
<1>1. UNCHANGED github => GitHubOK BY DEF github, GitHubOK
<1>2. UNCHANGED history /\ Disturbed => HistoryOK BY DEF history, HistoryOK, Disturbed
<1>3. UNCHANGED history /\ UNCHANGED calm => HistoryOK BY DEF history, HistoryOK
<1>4. UNCHANGED members => MembersOK BY DEF MembersOK
<1>5. UNCHANGED <<handler, requests>> => HandlersOK BY DEF HandlersOK
<1>6. ASSUME NEW x \in People, Forget(x), Disturbed, removed' \in SUBSET People PROVE HistoryOK
  <2>1. chosen' \in [People -> (SUBSET OwnerCapabilities) \cup {NoChoice}]
    BY <1>6 DEF Forget
  <2> QED BY <1>6, <2>1 DEF HistoryOK, Disturbed
<1>7. \A w \in Workers, x \in People : Settles(w, x) /\ UNCHANGED history => HistoryOK
  BY DEF Settles, history, HistoryOK
<1>8. requests < MaxRequests /\ requests' = requests + 1 => requests' \in 0 .. MaxRequests
  OBVIOUS
<1>9. \A x \in People, m \in Rows : members' = [members EXCEPT ![x] = m] => MembersOK
  BY DEF MembersOK
<1>10. requests' = requests => requests' \in 0 .. MaxRequests
  OBVIOUS
<1>11. ASSUME NEW w \in Workers, NEW step \in Duties, Begins(w, step) PROVE HandlersOK
  BY <1>8, <1>11, BeginsOnly, HandlersTyped DEF HandlersOK
<1>12. ASSUME NEW w \in Workers, NEW step \in Duties, Goes(w, step), UNCHANGED requests PROVE HandlersOK
  BY <1>10, <1>12, HandlersTyped DEF HandlersOK
<1>13. Idle \in Duties BY DutiesTyped
<1> QED BY <1>1, <1>2, <1>3, <1>4, <1>5, <1>6, <1>7, <1>8, <1>9, <1>10, <1>11, <1>12, <1>13

LEMMA GitHubStepTyped ==
  ASSUME MembersTypeOK, GitHubStep PROVE MembersTypeOK'
<1> USE DEF Listings
<1>0. /\ collaborator \in Listings /\ invited \in Listings /\ repository \in BOOLEAN
      /\ organisation \in BOOLEAN /\ removed \in SUBSET People
  BY DEF MembersTypeOK
<1>1. PICK x \in People : \/ \E role \in Roles : ChangeRole(x, role) \/ AddAtGitHub(x, role)
                          \/ RemoveAtGitHub(x) \/ Accept(x)
  BY DEF GitHubStep
<1>2. None \in Roles \cup {None} /\ SupportedRoles \subseteq Roles
  BY RolesTyped
<1>3. AtGitHub(x) => HandlersOK /\ MembersOK
  <2>1. \A u \in Workers : Crossed(handler[u]) \in Duties
    BY CrossedShape DEF MembersTypeOK
  <2> QED BY <2>1, Unmoved DEF AtGitHub, Asked, HandlersOK
<1>4. AtGitHub(x) /\ removed' \in SUBSET People => HistoryOK
  BY Unmoved DEF AtGitHub
<1>5. CASE \E role \in Roles : ChangeRole(x, role)
  <2>1. AtGitHub(x) /\ removed' = removed /\ GitHubOK
    BY <1>0, <1>2, <1>5 DEF ChangeRole, AtGitHub, GitHubOK
  <2> QED BY <2>1, <1>0, <1>3, <1>4, PartsTyped
<1>6. CASE \E role \in Roles : AddAtGitHub(x, role)
  <2>1. AtGitHub(x) /\ removed' \in SUBSET People /\ GitHubOK
    BY <1>0, <1>2, <1>6 DEF AddAtGitHub, AtGitHub, GitHubOK
  <2> QED BY <2>1, <1>3, <1>4, PartsTyped
<1>7. CASE RemoveAtGitHub(x)
  <2>1. AtGitHub(x) /\ removed' \in SUBSET People /\ GitHubOK
    BY <1>0, <1>2, <1>7, GitHubTyped DEF RemoveAtGitHub, AtGitHub, GitHubOK
  <2> QED BY <2>1, <1>3, <1>4, PartsTyped
<1>8. CASE Accept(x)
  <2>1. GitHubOK
    BY <1>0, <1>2, <1>8 DEF Accept, GitHubOK
  <2>2. HandlersOK /\ MembersOK
    BY <1>8, Unmoved DEF Accept
  <2>3. HistoryOK
    BY <1>8, <1>0, Unmoved DEF Accept, history
  <2> QED BY <2>1, <2>2, <2>3, PartsTyped
<1> QED BY <1>1, <1>5, <1>6, <1>7, <1>8

LEMMA RequestTyped ==
  ASSUME MembersTypeOK, NEW w \in Workers, Request(w) PROVE MembersTypeOK'
<1>0. /\ members \in [People -> Rows] /\ repository \in BOOLEAN /\ Resting \in BOOLEAN
      /\ \A x \in People : removed \ {x} \in SUBSET People
      /\ DefaultCapabilities \in SUBSET OwnerCapabilities /\ Boss \in People
      /\ Grants \subseteq SUBSET OwnerCapabilities
  BY MembersAssumption DEF MembersTypeOK, Resting, DefaultCapabilities, OwnerCapabilities
<1>1. ASSUME NEW x \in People, NEW caps \in Grants, updateMember(w, x, caps) PROVE MembersTypeOK'
  <2> DEFINE m == [members[x] EXCEPT !.caps = WithView(caps)]
             step == IF repository THEN [at |-> "push", who |-> x, m |-> m, alone |-> Resting] ELSE Idle
  <2>1. m \in Rows
    BY <1>0, ViewTyped, RowChanged
  <2>2. step \in Duties
    BY <1>0, <2>1, DutiesTyped
  <2>3. /\ Begins(w, step) /\ members' = [members EXCEPT ![x] = m]
        /\ Forget(x) /\ removed' = removed \ {x} /\ Disturbed /\ UNCHANGED github
    BY <1>1 DEF updateMember
  <2> HIDE DEF m, step
  <2> QED BY <1>0, <2>1, <2>2, <2>3, Unmoved, PartsTyped
<1>2. ASSUME NEW x \in People, NEW caps \in Grants, NEW linked \in BOOLEAN, addMember(w, x, caps, linked)
      PROVE  MembersTypeOK'
  <2> DEFINE m == Member(IF caps = {} THEN DefaultCapabilities ELSE WithView(caps), None, linked)
             step == IF repository /\ linked
                     THEN [at |-> "push", who |-> x, m |-> m, alone |-> Resting] ELSE Idle
  <2>1. m \in Rows
    BY <1>0, ViewTyped, RowsTyped
  <2>2. step \in Duties
    BY <1>0, <2>1, DutiesTyped
  <2>3. /\ Begins(w, step) /\ members' = [members EXCEPT ![x] = m]
        /\ Forget(x) /\ removed' = removed \ {x} /\ Disturbed /\ UNCHANGED github
    BY <1>2 DEF addMember
  <2> HIDE DEF m, step
  <2> QED BY <1>0, <2>1, <2>2, <2>3, Unmoved, PartsTyped
<1>3. ASSUME NEW x \in People, removeMember(w, x) PROVE MembersTypeOK'
  <2> DEFINE step == IF repository /\ members[x].linked THEN [at |-> "withdraw", who |-> x] ELSE Idle
  <2>1. step \in Duties
    BY DutiesTyped
  <2>2. /\ Begins(w, step) /\ members' = [members EXCEPT ![x] = NoMember]
        /\ Forget(x) /\ removed' = removed \ {x} /\ Disturbed /\ UNCHANGED github
    BY <1>3 DEF removeMember
  <2> HIDE DEF step
  <2> QED BY <1>0, <2>1, <2>2, RowsTyped, Unmoved, PartsTyped
<1>4. ASSUME listMembers(w) PROVE MembersTypeOK'
  <2>1. /\ Begins(w, Idle) /\ members' = [members EXCEPT ![Boss] = Owner]
        /\ Forget(Boss) /\ removed' = removed /\ Disturbed /\ UNCHANGED github
    BY <1>4 DEF listMembers
  <2>2. removed' \in SUBSET People
    BY <2>1 DEF MembersTypeOK
  <2> QED BY <1>0, <2>1, <2>2, RowsTyped, Unmoved, PartsTyped
<1>5. ASSUME syncMembers(w) PROVE MembersTypeOK'
  <2>1. /\ Begins(w, [at |-> "collaborators"]) /\ calm' \in {"no", "running", calm}
        /\ UNCHANGED github /\ UNCHANGED history /\ UNCHANGED members
    BY <1>5 DEF syncMembers
  <2>2. HistoryOK
    BY <2>1 DEF HistoryOK, MembersTypeOK, history
  <2> QED BY <2>1, <2>2, DutiesTyped, Unmoved, PartsTyped
<1> QED BY <1>1, <1>2, <1>3, <1>4, <1>5 DEF Request

LEMMA StepTyped ==
  ASSUME MembersTypeOK, NEW w \in Workers, Step(w) PROVE MembersTypeOK'
<1>0. /\ handler[w] \in Duties /\ Idle \in Duties /\ members \in [People -> Rows]
      /\ collaborator \in Listings /\ invited \in Listings
  BY HandlersTyped, Unmoved DEF MembersTypeOK
<1>1. CASE TellGitHub(w)
  <2>1. handler[w] \in Pushes
    BY <1>0, <1>1, DutyShape DEF TellGitHub, At
  <2>2. handler[w].who \in People /\ handler[w].m \in Rows /\ [handler[w] EXCEPT !.at = "memo"] \in Duties
    BY <2>1, PushShape
  <2>3. HandlersOK
    BY <1>0, <1>1, <2>2, Unmoved DEF TellGitHub, Ends
  <2>4. GitHubOK
    <3>1. CASE UNCHANGED github BY <3>1, Unmoved
    <3>2. CASE PushMember(handler[w].who, handler[w].m)
      <4>1. repository' = repository /\ organisation' = organisation
        BY <3>2 DEF PushMember
      <4>2. collaborator' \in Listings /\ invited' \in Listings
        BY <2>2, <3>2, GitHubTyped
      <4> QED BY <4>1, <4>2 DEF GitHubOK, MembersTypeOK
    <3> QED BY <1>1, <3>1, <3>2 DEF TellGitHub
  <2> QED BY <1>1, <2>3, <2>4, Unmoved, PartsTyped DEF TellGitHub
<1>2. CASE RememberRole(w)
  <2>1. handler[w] \in Pushes
    BY <1>0, <1>2, DutyShape DEF RememberRole, At
  <2> DEFINE x == handler[w].who
             m == handler[w].m
             entry == [m EXCEPT !.memo = RoleForCapabilities(m.caps)]
  <2>2. x \in People /\ m \in Rows
    BY <2>1, PushShape
  <2>3. m.caps \in SUBSET OwnerCapabilities /\ RoleForCapabilities(m.caps) \in Roles \cup {None}
    BY <2>2, RowChanged, RolesTyped
  <2>4. entry \in Rows
    BY <2>2, <2>3, RowChanged
  <2>5. /\ members' = [members EXCEPT ![x] = entry] /\ Ends(w) /\ Disturbed
        /\ chosen' = [chosen EXCEPT ![x] = IF handler[w].alone /\ m.linked THEN m.caps ELSE @]
        /\ UNCHANGED github /\ requests' = requests /\ removed' = removed
    BY <1>2 DEF RememberRole
  <2> HIDE DEF entry, m, x
  <2>6. HistoryOK
    BY <2>2, <2>3, <2>5 DEF HistoryOK, Disturbed, MembersTypeOK
  <2> QED BY <1>0, <2>2, <2>4, <2>5, <2>6, Unmoved, PartsTyped DEF Ends
<1>3. CASE WithdrawAtGitHub(w)
  <2>1. handler[w].who \in People
    BY <1>0, <1>3, DutyShape DEF WithdrawAtGitHub, At
  <2>2. GitHubOK
    <3>1. CASE UNCHANGED github BY <3>1, Unmoved
    <3>2. CASE RemoveCollaborator(handler[w].who) /\ UNCHANGED <<repository, organisation>>
      BY <3>2, <2>1, GitHubTyped DEF GitHubOK, MembersTypeOK
    <3> QED BY <1>3, <3>1, <3>2 DEF WithdrawAtGitHub
  <2> QED BY <1>0, <1>3, <2>2, Unmoved, PartsTyped DEF WithdrawAtGitHub, Ends
<1>4. CASE Collaborators(w)
  <2>1. [at |-> "invitations", remote |-> collaborator] \in Duties
    BY <1>0, DutiesTyped
  <2>2. HandlersOK
    BY <1>0, <1>4, <2>1, Unmoved DEF Collaborators, Ends
  <2> QED BY <1>4, <2>2, Unmoved, PartsTyped DEF Collaborators
<1>5. CASE RepositoryInvitations(w)
  <2>1. handler[w].remote \in Listings
    BY <1>0, <1>5, DutyShape DEF RepositoryInvitations, At
  <2> DEFINE read == [at |-> "members", remote |-> handler[w].remote, readable |-> TRUE,
                      pending |-> {x \in People : invited[x] # None}]
             unread == [at |-> "members", remote |-> handler[w].remote, readable |-> FALSE, pending |-> {}]
  <2>2. read \in Duties /\ unread \in Duties
    <3>1. {x \in People : invited[x] # None} \in SUBSET People /\ {} \in SUBSET People
      OBVIOUS
    <3> QED BY <2>1, <3>1, DutiesTyped
  <2>3. (Goes(w, read) \/ Goes(w, unread)) /\ UNCHANGED requests
    BY <1>5 DEF RepositoryInvitations
  <2>4. HandlersOK
    <3> HIDE DEF read, unread
    <3> QED BY <2>2, <2>3, Unmoved
  <2>5. UNCHANGED github /\ UNCHANGED members /\ UNCHANGED history /\ (UNCHANGED calm \/ Disturbed)
    BY <1>5 DEF RepositoryInvitations
  <2> QED BY <2>4, <2>5, Unmoved, PartsTyped
<1>6. CASE ReadMembers(w)
  <2> DEFINE step == [at |-> "apply", pass |-> "match", todo |-> People, remote |-> handler[w].remote,
              pending |-> handler[w].pending, readable |-> handler[w].readable, local |-> members]
  <2>1. /\ handler[w].remote \in Listings /\ handler[w].readable \in BOOLEAN
        /\ handler[w].pending \in SUBSET People
    BY <1>0, <1>6, DutyShape DEF ReadMembers, At
  <2>2. step \in Duties
    BY <1>0, <2>1 DEF Duties, Passes
  <2>3. Goes(w, step) /\ UNCHANGED github /\ UNCHANGED members /\ UNCHANGED history /\ UNCHANGED requests
        /\ UNCHANGED calm
    BY <1>6 DEF ReadMembers
  <2> HIDE DEF step
  <2> QED BY <2>2, <2>3, Unmoved, PartsTyped
<1>7. ASSUME NEW x \in People, MatchRole(w, x) PROVE MembersTypeOK'
  <2> DEFINE role == handler[w].remote[x]
             m == handler[w].local[x]
  <2>1. handler[w] \in Passes
    BY <1>0, <1>7, DutyShape DEF MatchRole, Pass, At
  <2>2. role \in Roles \cup {None} /\ m \in Rows
    BY <2>1, PassShape DEF Listings
  <2>3. CapabilitiesForRole(role) \in SUBSET OwnerCapabilities /\ DefaultCapabilities \in SUBSET OwnerCapabilities
    BY <2>2, RolesTyped DEF DefaultCapabilities
  <2>4. /\ Member(IF organisation THEN CapabilitiesForRole(role) ELSE DefaultCapabilities, role, TRUE) \in Rows
        /\ [m EXCEPT !.caps = CapabilitiesForRole(role), !.memo = role] \in Rows
        /\ [m EXCEPT !.memo = role] \in Rows
    BY <2>2, <2>3, RowsTyped, RowChanged
  <2>5. \/ UNCHANGED members
        \/ members' = [members EXCEPT ![x] = Member(IF organisation THEN CapabilitiesForRole(role)
                                                    ELSE DefaultCapabilities, role, TRUE)]
        \/ members' = [members EXCEPT ![x] = [m EXCEPT !.caps = CapabilitiesForRole(role), !.memo = role]]
        \/ members' = [members EXCEPT ![x] = [m EXCEPT !.memo = role]]
    BY <1>7 DEF MatchRole, Match
  <2>6. MembersOK
    BY <2>4, <2>5, Unmoved
  <2>7. HandlersOK
    BY <1>7, OnwardsTyped, Unmoved DEF MatchRole, Pass, HandlersOK
  <2> QED BY <1>7, <2>6, <2>7, Unmoved, PartsTyped DEF MatchRole
<1>8. ASSUME NEW x \in People, InviteMember(w, x) PROVE MembersTypeOK'
  <2> DEFINE m == handler[w].local[x]
  <2>1. handler[w] \in Passes
    BY <1>0, <1>8, DutyShape DEF InviteMember, Pass, At
  <2>2. m \in Rows
    BY <2>1, PassShape
  <2>3. [m EXCEPT !.memo = RoleForCapabilities(m.caps)] \in Rows
    BY <2>2, RolesTyped, RowChanged
  <2>4. /\ UNCHANGED github \/ PushMember(x, m)
        /\ UNCHANGED members \/ members' = [members EXCEPT ![x] = [m EXCEPT !.memo = RoleForCapabilities(m.caps)]]
        /\ Settles(w, x) \/ Disturbed
        /\ Onwards(w, x) /\ UNCHANGED requests /\ UNCHANGED history /\ At(w, "apply")
    BY <1>8 DEF InviteMember, Pass
  <2> HIDE DEF m
  <2>5. GitHubOK
    <3>1. CASE PushMember(x, m)
      <4>1. repository' = repository /\ organisation' = organisation
        BY <3>1 DEF PushMember
      <4> QED BY <2>2, <3>1, <4>1, GitHubTyped DEF GitHubOK, MembersTypeOK
    <3> QED BY <2>4, <3>1, Unmoved
  <2>6. HandlersOK
    BY <2>4, OnwardsTyped, Unmoved DEF HandlersOK
  <2> QED BY <2>3, <2>4, <2>5, <2>6, Unmoved, PartsTyped
<1>9. ASSUME NEW x \in People, Prune(w, x) PROVE MembersTypeOK'
  <2>1. /\ UNCHANGED members \/ members' = [members EXCEPT ![x] = NoMember]
        /\ Settles(w, x) \/ Disturbed
        /\ Onwards(w, x) \/ Ends(w)
        /\ UNCHANGED github /\ UNCHANGED requests /\ UNCHANGED history /\ At(w, "apply")
    BY <1>9 DEF Prune, Pass
  <2>2. HandlersOK
    BY <2>1, OnwardsTyped, HandlersTyped, Unmoved DEF HandlersOK
  <2> QED BY <2>1, <2>2, RowsTyped, Unmoved, PartsTyped
<1> QED BY <1>1, <1>2, <1>3, <1>4, <1>5, <1>6, <1>7, <1>8, <1>9 DEF Step

LEMMA MembersNextTyped ==
  ASSUME MembersTypeOK, [MembersNext]_membersVars PROVE MembersTypeOK'
<1>0. /\ [x \in People |-> NoChoice] \in [People -> (SUBSET OwnerCapabilities) \cup {NoChoice}]
      /\ collaborator \in Listings /\ invited \in Listings /\ organisation \in BOOLEAN
      /\ [w \in Workers |-> Idle] \in [Workers -> Duties] /\ removed \in SUBSET People
  <2>1. [x \in People |-> NoChoice] \in [People -> (SUBSET OwnerCapabilities) \cup {NoChoice}]
    BY ONLY TRUE
  <2>2. [w \in Workers |-> Idle] \in [Workers -> Duties]
    BY DutiesTyped
  <2> QED BY <2>1, <2>2 DEF MembersTypeOK
<1>1. CASE linkRepository \/ unlinkRepository
  <2>1. GitHubOK
    BY <1>0, <1>1 DEF linkRepository, unlinkRepository, Relink, GitHubOK
  <2>2. HistoryOK
    BY <1>0, <1>1 DEF linkRepository, unlinkRepository, Relink, HistoryOK, Disturbed
  <2>3. MembersOK
    BY <1>1, Unmoved DEF linkRepository, unlinkRepository
  <2>4. HandlersOK
    BY <1>1, Unmoved DEF linkRepository, unlinkRepository, Asked, HandlersOK, MembersTypeOK
  <2> QED BY <2>1, <2>2, <2>3, <2>4, PartsTyped
<1>2. CASE LinkAnother
  <2>1. GitHubOK
    <3>1. collaborator' \in Listings /\ invited' \in Listings
      BY <1>2 DEF LinkAnother, Listings, Roles, None
    <3> QED BY <1>2, <3>1 DEF LinkAnother, Relink, GitHubOK
  <2>2. HistoryOK
    BY <1>0, <1>2 DEF LinkAnother, Relink, HistoryOK, Disturbed
  <2>3. MembersOK
    BY <1>2, Unmoved DEF LinkAnother
  <2>4. HandlersOK
    BY <1>2, Unmoved DEF LinkAnother, Asked, HandlersOK, MembersTypeOK
  <2> QED BY <2>1, <2>2, <2>3, <2>4, PartsTyped
<1>3. CASE Restart
  <2>1. HandlersOK
    BY <1>0, <1>3, Unmoved DEF Restart, Asked, HandlersOK
  <2> QED BY <1>3, <2>1, Unmoved, PartsTyped DEF Restart
<1>4. CASE UNCHANGED membersVars
  <2>1. UNCHANGED github /\ UNCHANGED history /\ UNCHANGED calm /\ UNCHANGED members /\ UNCHANGED <<handler, requests>>
    BY <1>4 DEF membersVars
  <2> QED BY <2>1, Unmoved, PartsTyped
<1> QED BY <1>1, <1>2, <1>3, <1>4, GitHubStepTyped, RequestTyped, StepTyped DEF MembersNext

LEMMA MembersInitTyped == MembersInit => MembersTypeOK
<1> SUFFICES ASSUME MembersInit PROVE MembersTypeOK
  OBVIOUS
<1>1. members \in [People -> Rows]
  BY RowsTyped DEF MembersInit
<1>2. collaborator \in Listings /\ invited \in Listings
  BY DEF MembersInit, Listings, Roles, None
<1>3. handler \in [Workers -> Duties] /\ requests \in 0 .. MaxRequests
  BY DutiesTyped, MembersAssumption DEF MembersInit
<1>4. chosen \in [People -> (SUBSET OwnerCapabilities) \cup {NoChoice}]
  BY DEF MembersInit
<1> QED BY <1>1, <1>2, <1>3, <1>4 DEF MembersInit, MembersTypeOK

\* Rows, listings, histories and what every handler carries keep their types.
THEOREM MembersTypeCorrect == MembersSpec => []MembersTypeOK
BY MembersInitTyped, MembersNextTyped, PTL DEF MembersSpec

--------------------------------------------------------------------------------
(* Members: a choice stands *)

Pushing(h) == h.at \in {"push", "memo"}
\* What is pushed: a row that is not the owner's, with nothing or at least view.
Sensible(m) == m.row /\ ~m.owner /\ (m.caps = {} \/ "view" \in m.caps)
PushesSensible == \A w \in Workers : Pushing(handler[w]) => Sensible(handler[w].m)

\* A request that still runs alone has nobody beside it.
AloneTrue ==
  \A w, u \in Workers : Pushing(handler[w]) /\ handler[w].alone /\ u # w => handler[u] = Idle

OnlyOnce == \A x \in People : collaborator[x] = None \/ invited[x] = None

\* GitHub has the role of these capabilities, granted or offered, or nobody.
Says(x, caps) ==
  IF caps = {} THEN collaborator[x] = None /\ invited[x] = None
  ELSE \/ collaborator[x] = RoleForCapabilities(caps) /\ invited[x] = None
       \/ invited[x] = RoleForCapabilities(caps) /\ collaborator[x] = None
SaysThen(x, caps) ==
  IF caps = {} THEN collaborator'[x] = None /\ invited'[x] = None
  ELSE \/ collaborator'[x] = RoleForCapabilities(caps) /\ invited'[x] = None
       \/ invited'[x] = RoleForCapabilities(caps) /\ collaborator'[x] = None

\* What was told by a request that runs alone is what GitHub says.
ToldAlone ==
  \A w \in Workers : At(w, "memo") /\ handler[w].alone /\ handler[w].m.linked
                        => Says(handler[w].who, handler[w].m.caps)

\* A handler that will not take back what x was given: it is about somebody else, or
\* a sync that has read of x what is true.
Clear(h, x) ==
  /\ h.at \in {"push", "memo", "withdraw"} => h.who # x
  /\ h.at \in {"invitations", "members", "apply"} =>
       h.remote[x] = None \/ (chosen[x] # {} /\ h.remote[x] = RoleForCapabilities(chosen[x]))
  /\ chosen[x] # {} /\ h.at = "invitations" => h.remote[x] # None \/ invited[x] # None
  /\ chosen[x] # {} /\ h.at \in {"members", "apply"} /\ h.readable => h.remote[x] # None \/ x \in h.pending
  /\ h.at = "apply" => IF chosen[x] = {} THEN h.local[x].caps = {} ELSE h.local[x] = members[x]

Stands(x) ==
  /\ members[x].caps = chosen[x]
  /\ chosen[x] # {} => /\ "view" \in chosen[x] /\ members[x].row /\ members[x].linked /\ ~members[x].owner
                       /\ members[x].memo = RoleForCapabilities(chosen[x])
  /\ Says(x, chosen[x])
  /\ \A w \in Workers : Clear(handler[w], x)

ChoicesStand == \A x \in People : chosen[x] # NoChoice => Stands(x)
ChoiceInv == PushesSensible /\ AloneTrue /\ OnlyOnce /\ ToldAlone /\ ChoicesStand

\* The ways in which a step moves the handlers.
Started(w, step) ==
  Begins(w, step) /\ (Pushing(step) => step.at = "push" /\ step.alone = Resting /\ Sensible(step.m))
Took(w, step) ==
  /\ ~At(w, "idle") /\ Goes(w, step)
  /\ Pushing(step) => /\ Pushing(handler[w]) /\ step.alone = handler[w].alone
                      /\ step.who = handler[w].who /\ step.m = handler[w].m
AllCrossed == \A u \in Workers : handler'[u] = Crossed(handler[u])
AllIdle == \A u \in Workers : handler'[u] = Idle

LEMMA GitHubStepMoves ==
  ASSUME GitHubStep PROVE AllCrossed \/ UNCHANGED handler
BY DEF GitHubStep, ChangeRole, AddAtGitHub, RemoveAtGitHub, Accept, AtGitHub, AllCrossed

LEMMA RequestMoves ==
  ASSUME MembersTypeOK, NEW w \in Workers, Request(w)
  PROVE  \E step \in Duties : Started(w, step)
<1>0. /\ members \in [People -> Rows] /\ repository \in BOOLEAN /\ Resting \in BOOLEAN
      /\ DefaultCapabilities \in SUBSET OwnerCapabilities /\ "view" \in DefaultCapabilities
      /\ Grants \subseteq SUBSET OwnerCapabilities /\ ~Pushing(Idle) /\ Idle \in Duties
  BY MembersAssumption, DutiesTyped DEF MembersTypeOK, Resting, DefaultCapabilities, OwnerCapabilities, Pushing, Idle
<1>1. ASSUME NEW x \in People, NEW m \in Rows, Sensible(m)
      PROVE  LET step == [at |-> "push", who |-> x, m |-> m, alone |-> Resting]
             IN  step \in Duties /\ (Begins(w, step) => Started(w, step))
  BY <1>0, <1>1, DutiesTyped DEF Started
<1>2. Begins(w, Idle) => Started(w, Idle)
  BY <1>0 DEF Started
<1>3. ASSUME NEW x \in People, NEW caps \in Grants, updateMember(w, x, caps)
      PROVE  \E step \in Duties : Started(w, step)
  <2> DEFINE m == [members[x] EXCEPT !.caps = WithView(caps)]
  <2>1. WithView(caps) \in SUBSET OwnerCapabilities /\ (WithView(caps) = {} \/ "view" \in WithView(caps))
    BY <1>0, ViewTyped
  <2>2. m \in Rows /\ m.row = members[x].row /\ m.owner = members[x].owner /\ m.caps = WithView(caps)
    <3>1. members[x] \in Rows
      BY <1>0
    <3> QED BY <2>1, <3>1, RowChanged
  <2>3. Sensible(m)
    BY <1>3, <2>1, <2>2 DEF updateMember, Sensible
  <2>4. Begins(w, [at |-> "push", who |-> x, m |-> m, alone |-> Resting]) \/ Begins(w, Idle)
    BY <1>3 DEF updateMember
  <2> HIDE DEF m
  <2> QED BY <1>0, <1>1, <1>2, <2>2, <2>3, <2>4
<1>4. ASSUME NEW x \in People, NEW caps \in Grants, NEW linked \in BOOLEAN, addMember(w, x, caps, linked)
      PROVE  \E step \in Duties : Started(w, step)
  <2> DEFINE given == IF caps = {} THEN DefaultCapabilities ELSE WithView(caps)
             m == Member(given, None, linked)
  <2>1. given \in SUBSET OwnerCapabilities /\ (given = {} \/ "view" \in given)
    BY <1>0, ViewTyped
  <2>2. m \in Rows
    BY <2>1, RowsTyped
  <2>3. Sensible(m)
    BY <2>1 DEF Member, Sensible
  <2>4. Begins(w, [at |-> "push", who |-> x, m |-> m, alone |-> Resting]) \/ Begins(w, Idle)
    BY <1>4 DEF addMember
  <2> HIDE DEF m
  <2> QED BY <1>0, <1>1, <1>2, <2>2, <2>3, <2>4
<1>5. ASSUME NEW x \in People, removeMember(w, x)
      PROVE  \E step \in Duties : Started(w, step)
  <2>1. [at |-> "withdraw", who |-> x] \in Duties /\ ~Pushing([at |-> "withdraw", who |-> x])
    BY DutiesTyped DEF Pushing
  <2>2. Begins(w, [at |-> "withdraw", who |-> x]) \/ Begins(w, Idle)
    BY <1>5 DEF removeMember
  <2> QED BY <1>0, <1>2, <2>1, <2>2 DEF Started
<1>6. ASSUME listMembers(w) PROVE \E step \in Duties : Started(w, step)
  BY <1>0, <1>2, <1>6 DEF listMembers
<1>7. ASSUME syncMembers(w) PROVE \E step \in Duties : Started(w, step)
  <2>1. [at |-> "collaborators"] \in Duties /\ ~Pushing([at |-> "collaborators"])
    BY DutiesTyped DEF Pushing
  <2> QED BY <1>7, <2>1 DEF syncMembers, Started
<1> QED BY <1>3, <1>4, <1>5, <1>6, <1>7 DEF Request

LEMMA StepMoves ==
  ASSUME MembersTypeOK, NEW w \in Workers, Step(w)
  PROVE  \E step \in Duties : Took(w, step)
<1>0. handler[w] \in Duties /\ Idle \in Duties /\ ~Pushing(Idle)
  BY DutiesTyped DEF MembersTypeOK, Pushing, Idle
<1>1. ~At(w, "idle") /\ Ends(w) => Took(w, Idle)
  BY <1>0 DEF Took, Ends
<1>2. CASE TellGitHub(w)
  <2>1. handler[w] \in Pushes /\ ~At(w, "idle") /\ Pushing(handler[w])
    BY <1>0, <1>2, DutyShape DEF TellGitHub, At, Pushing
  <2>2. Ends(w) \/ Goes(w, [handler[w] EXCEPT !.at = "memo"])
    BY <1>2 DEF TellGitHub
  <2>3. Goes(w, [handler[w] EXCEPT !.at = "memo"]) => Took(w, [handler[w] EXCEPT !.at = "memo"])
    BY <2>1, PushShape DEF Took
  <2> QED BY <1>0, <1>1, <2>1, <2>2, <2>3, PushShape
<1>3. CASE RememberRole(w)
  BY <1>0, <1>1, <1>3 DEF RememberRole, At
<1>4. CASE WithdrawAtGitHub(w)
  BY <1>0, <1>1, <1>4 DEF WithdrawAtGitHub, At
<1>5. ASSUME NEW step \in Duties, ~Pushing(step), ~At(w, "idle"), Goes(w, step)
      PROVE  \E s \in Duties : Took(w, s)
  BY <1>5 DEF Took
<1>6. CASE Collaborators(w)
  <2>1. [at |-> "invitations", remote |-> collaborator] \in Duties
    BY DutiesTyped DEF MembersTypeOK
  <2>2. ~Pushing([at |-> "invitations", remote |-> collaborator])
    BY DEF Pushing
  <2> QED BY <1>0, <1>1, <1>5, <1>6, <2>1, <2>2 DEF Collaborators, At
<1>7. CASE RepositoryInvitations(w)
  <2>1. handler[w].remote \in Listings
    BY <1>0, <1>7, DutyShape DEF RepositoryInvitations, At
  <2> DEFINE read(r, p) == [at |-> "members", remote |-> handler[w].remote, readable |-> r, pending |-> p]
  <2>2. {x \in People : invited[x] # None} \in SUBSET People /\ {} \in SUBSET People
    OBVIOUS
  <2>3. \A r \in BOOLEAN, p \in SUBSET People : read(r, p) \in Duties /\ ~Pushing(read(r, p))
    BY <2>1, DutiesTyped DEF Pushing
  <2>4. Goes(w, read(TRUE, {x \in People : invited[x] # None})) \/ Goes(w, read(FALSE, {}))
    BY <1>7 DEF RepositoryInvitations
  <2>5. ~At(w, "idle")
    BY <1>7 DEF RepositoryInvitations, At
  <2> HIDE DEF read
  <2>6. ASSUME NEW r \in BOOLEAN, NEW p \in SUBSET People, Goes(w, read(r, p))
        PROVE  \E s \in Duties : Took(w, s)
    BY <1>5, <2>3, <2>5, <2>6
  <2> QED BY <2>2, <2>4, <2>6
<1>8. CASE ReadMembers(w)
  <2> DEFINE step == [at |-> "apply", pass |-> "match", todo |-> People, remote |-> handler[w].remote,
              pending |-> handler[w].pending, readable |-> handler[w].readable, local |-> members]
  <2>1. /\ handler[w].remote \in Listings /\ handler[w].readable \in BOOLEAN
        /\ handler[w].pending \in SUBSET People
    BY <1>0, <1>8, DutyShape DEF ReadMembers, At
  <2>2. step \in Duties /\ ~Pushing(step)
    BY <2>1 DEF Duties, Passes, Pushing, MembersTypeOK
  <2>3. Goes(w, step) /\ ~At(w, "idle")
    BY <1>8 DEF ReadMembers, At
  <2> HIDE DEF step
  <2> QED BY <1>5, <2>2, <2>3
<1>9. ASSUME NEW x \in People, MatchRole(w, x) \/ InviteMember(w, x) \/ Prune(w, x)
      PROVE  \E s \in Duties : Took(w, s)
  <2>1. At(w, "apply") /\ (Onwards(w, x) \/ Ends(w))
    BY <1>9 DEF MatchRole, InviteMember, Prune, Pass
  <2>2. handler[w] \in Passes /\ ~At(w, "idle")
    BY <1>0, <2>1, DutyShape DEF At
  <2>3. handler[w].todo \ {x} \in SUBSET People /\ People \in SUBSET People
        /\ NextPass(handler[w].pass) \in {"match", "tell", "prune"}
    BY <2>2, PassShape DEF NextPass
  <2>4. [handler[w] EXCEPT !.todo = handler[w].todo \ {x}] \in Passes
    BY <2>2, <2>3, PassMoves
  <2>5. [handler[w] EXCEPT !.pass = NextPass(handler[w].pass), !.todo = People] \in Passes
    BY <2>2, <2>3, PassMoves
  <2>6. \A s \in Passes : s \in Duties /\ ~Pushing(s)
    BY PassShape DEF Pushing
  <2>7. \/ Goes(w, [handler[w] EXCEPT !.todo = handler[w].todo \ {x}])
        \/ Goes(w, [handler[w] EXCEPT !.pass = NextPass(handler[w].pass), !.todo = People])
        \/ Ends(w)
    BY <2>1 DEF Onwards
  <2> QED BY <1>0, <1>1, <1>5, <2>2, <2>4, <2>5, <2>6, <2>7
<1> QED BY <1>2, <1>3, <1>4, <1>6, <1>7, <1>8, <1>9 DEF Step

LEMMA HandlerMoves ==
  ASSUME MembersTypeOK, [MembersNext]_membersVars
  PROVE  \/ UNCHANGED handler \/ AllIdle \/ AllCrossed
         \/ \E w \in Workers, step \in Duties : Started(w, step) \/ Took(w, step)
<1>1. CASE GitHubStep BY <1>1, GitHubStepMoves
<1>2. CASE linkRepository \/ LinkAnother \/ unlinkRepository
  BY <1>2 DEF linkRepository, LinkAnother, unlinkRepository
<1>3. CASE Restart BY <1>3 DEF Restart, AllIdle
<1>4. ASSUME NEW w \in Workers, Request(w)
      PROVE  \E u \in Workers, step \in Duties : Started(u, step)
  BY <1>4, RequestMoves
<1>5. ASSUME NEW w \in Workers, Step(w)
      PROVE  \E u \in Workers, step \in Duties : Took(u, step)
  BY <1>5, StepMoves
<1>6. CASE UNCHANGED membersVars BY <1>6 DEF membersVars
<1> QED BY <1>1, <1>2, <1>3, <1>4, <1>5, <1>6 DEF MembersNext

LEMMA PushesKept ==
  ASSUME MembersTypeOK, PushesSensible, AloneTrue, [MembersNext]_membersVars
  PROVE  PushesSensible' /\ AloneTrue'
<1>0. \A u \in Workers : handler[u] \in Duties /\ (Pushing(handler[u]) => handler[u] \in Pushes)
  BY DutyShape DEF MembersTypeOK, Pushing
<1>1. ~Pushing(Idle) /\ Crossed(Idle) = Idle /\ Idle.at = "idle"
  BY DEF Pushing, Idle, Crossed
<1>2. \A u \in Workers : LET h == Crossed(handler[u]) IN
        /\ Pushing(h) => Pushing(handler[u]) /\ ~h.alone /\ h.m = handler[u].m
        /\ handler[u] = Idle => h = Idle
  BY <1>0, <1>1, CrossedShape DEF Pushing
<1>3. CASE UNCHANGED handler BY <1>3 DEF PushesSensible, AloneTrue
<1>4. CASE AllIdle BY <1>1, <1>4 DEF PushesSensible, AloneTrue, AllIdle
<1>5. CASE AllCrossed BY <1>2, <1>5 DEF PushesSensible, AloneTrue, AllCrossed
<1>6. ASSUME NEW w \in Workers, NEW step \in Duties, Started(w, step)
      PROVE  PushesSensible' /\ AloneTrue'
  <2>1. handler'[w] = step /\ \A u \in Workers : u # w => handler'[u] = Crossed(handler[u])
    BY <1>6, BeginsOnly DEF Started
  <2>2. Pushing(step) => step.alone = Resting /\ Sensible(step.m)
    BY <1>6 DEF Started
  <2>3. Resting => \A u \in Workers : handler[u] = Idle
    BY DEF Resting
  <2>4. PushesSensible'
    BY <1>2, <2>1, <2>2 DEF PushesSensible
  <2>5. AloneTrue'
    <3> SUFFICES ASSUME NEW v \in Workers, NEW u \in Workers, Pushing(handler'[v]), handler'[v].alone, u # v
                 PROVE  handler'[u] = Idle
      BY DEF AloneTrue
    <3>1. v = w BY <1>2, <2>1
    <3>2. Resting BY <3>1, <2>1, <2>2
    <3> QED BY <3>1, <3>2, <2>1, <2>3, <1>1
  <2> QED BY <2>4, <2>5
<1>7. ASSUME NEW w \in Workers, NEW step \in Duties, Took(w, step)
      PROVE  PushesSensible' /\ AloneTrue'
  <2>1. handler'[w] = step /\ \A u \in Workers : u # w => handler'[u] = handler[u]
    BY <1>7, GoesOnly DEF Took
  <2>2. Pushing(step) => Pushing(handler[w]) /\ step.alone = handler[w].alone /\ step.m = handler[w].m
    BY <1>7 DEF Took
  <2>3. handler[w] # Idle
    BY <1>1, <1>7 DEF Took, At
  <2>4. PushesSensible'
    BY <2>1, <2>2 DEF PushesSensible
  <2>5. AloneTrue'
    <3> SUFFICES ASSUME NEW v \in Workers, NEW u \in Workers, Pushing(handler'[v]), handler'[v].alone, u # v
                 PROVE  handler'[u] = Idle
      BY DEF AloneTrue
    <3>1. CASE v = w
      BY <3>1, <2>1, <2>2 DEF AloneTrue
    <3>2. CASE v # w
      BY <3>2, <2>1, <2>3 DEF AloneTrue
    <3> QED BY <3>1, <3>2
  <2> QED BY <2>4, <2>5
<1> QED BY <1>3, <1>4, <1>5, <1>6, <1>7, HandlerMoves

\* What a call of GitHub makes of one person, and of the others.
LEMMA PushEffect ==
  ASSUME MembersTypeOK, OnlyOnce, NEW x \in People, NEW m \in Rows, PushMember(x, m)
  PROVE  /\ organisation' = organisation
         /\ \A y \in People \ {x} : collaborator'[y] = collaborator[y] /\ invited'[y] = invited[y]
         /\ collaborator'[x] = None \/ invited'[x] = None
         /\ m.linked /\ (m.caps = {} \/ "view" \in m.caps) => SaysThen(x, m.caps)
         /\ ~m.linked => collaborator'[x] = collaborator[x] /\ invited'[x] = invited[x]
<1>0. /\ collaborator \in Listings /\ invited \in Listings
      /\ RoleForCapabilities(m.caps) # None /\ organisation' = organisation
      /\ collaborator[x] = None \/ invited[x] = None
  BY RolesTyped, RowChanged DEF MembersTypeOK, PushMember, OnlyOnce
<1>1. CASE ~m.linked
  BY <1>0, <1>1 DEF PushMember
<1>2. CASE m.linked /\ "view" \in m.caps
  <2>1. AddCollaborator(x, RoleForCapabilities(m.caps)) BY <1>2 DEF PushMember
  <2>2. m.caps # {} BY <1>2
  <2>3. CASE collaborator[x] # None
    BY <1>0, <1>2, <2>1, <2>2, <2>3 DEF AddCollaborator, SaysThen, Listings
  <2>4. CASE collaborator[x] = None
    BY <1>0, <1>2, <2>1, <2>2, <2>4 DEF AddCollaborator, SaysThen, Listings
  <2> QED BY <2>3, <2>4
<1>3. CASE m.linked /\ "view" \notin m.caps
  BY <1>0, <1>3 DEF PushMember, RemoveCollaborator, SaysThen, Listings
<1> QED BY <1>1, <1>2, <1>3

LEMMA RemoveEffect ==
  ASSUME MembersTypeOK, NEW x \in People, RemoveCollaborator(x)
  PROVE  /\ \A y \in People \ {x} : collaborator'[y] = collaborator[y] /\ invited'[y] = invited[y]
         /\ collaborator'[x] = None /\ invited'[x] = None
BY DEF MembersTypeOK, Listings, RemoveCollaborator

\* A step of a handler that touches GitHub does so for one person.
LEMMA HandlerAtGitHub ==
  ASSUME MembersTypeOK, OnlyOnce, NEW w \in Workers, Step(w)
  PROVE  \/ UNCHANGED github
         \/ \E x \in People :
              /\ \A y \in People \ {x} : collaborator'[y] = collaborator[y] /\ invited'[y] = invited[y]
              /\ collaborator'[x] = None \/ invited'[x] = None
<1>0. handler[w] \in Duties BY DEF MembersTypeOK
<1>1. CASE TellGitHub(w)
  <2>1. handler[w].who \in People /\ handler[w].m \in Rows
    BY <1>0, <1>1, DutyShape, PushShape DEF TellGitHub, At
  <2> QED BY <1>1, <2>1, PushEffect DEF TellGitHub
<1>2. CASE WithdrawAtGitHub(w)
  <2>1. handler[w].who \in People
    BY <1>0, <1>2, DutyShape DEF WithdrawAtGitHub, At
  <2> QED BY <1>2, <2>1, RemoveEffect DEF WithdrawAtGitHub
<1>3. ASSUME NEW x \in People, InviteMember(w, x) PROVE UNCHANGED github \/ PushMember(x, handler[w].local[x])
  BY <1>3 DEF InviteMember
<1>4. ASSUME NEW x \in People, InviteMember(w, x) PROVE handler[w].local[x] \in Rows
  BY <1>0, <1>4, DutyShape, PassShape DEF InviteMember, Pass, At
<1>5. CASE RememberRole(w) \/ Collaborators(w) \/ RepositoryInvitations(w) \/ ReadMembers(w)
  BY <1>5 DEF RememberRole, Collaborators, RepositoryInvitations, ReadMembers
<1>6. ASSUME NEW x \in People, MatchRole(w, x) \/ Prune(w, x) PROVE UNCHANGED github
  BY <1>6 DEF MatchRole, Prune
<1> QED BY <1>1, <1>2, <1>3, <1>4, <1>5, <1>6, PushEffect DEF Step

LEMMA OnlyOnceKept ==
  ASSUME MembersTypeOK, OnlyOnce, [MembersNext]_membersVars PROVE OnlyOnce'
<1>0. collaborator \in Listings /\ invited \in Listings BY DEF MembersTypeOK
<1>1. CASE UNCHANGED github BY <1>1 DEF github, OnlyOnce
<1>2. CASE GitHubStep
  <2>1. PICK x \in People : \/ \E role \in Roles : ChangeRole(x, role) \/ AddAtGitHub(x, role)
                            \/ RemoveAtGitHub(x) \/ Accept(x)
    BY <1>2 DEF GitHubStep
  <2>2. CASE \E role \in Roles : ChangeRole(x, role)
    BY <1>0, <2>2 DEF ChangeRole, OnlyOnce, Listings
  <2>3. CASE \E role \in Roles : AddAtGitHub(x, role)
    BY <1>0, <2>3 DEF AddAtGitHub, OnlyOnce, Listings
  <2>4. CASE RemoveAtGitHub(x)
    BY <2>4, RemoveEffect DEF RemoveAtGitHub, OnlyOnce
  <2>5. CASE Accept(x)
    BY <1>0, <2>5 DEF Accept, OnlyOnce, Listings
  <2> QED BY <2>1, <2>2, <2>3, <2>4, <2>5
<1>3. CASE linkRepository \/ unlinkRepository
  BY <1>3 DEF linkRepository, unlinkRepository, OnlyOnce
<1>4. CASE LinkAnother
  BY <1>4 DEF LinkAnother, OnlyOnce
<1>5. CASE Restart BY <1>1, <1>5 DEF Restart
<1>6. ASSUME NEW w \in Workers, Request(w) PROVE OnlyOnce'
  <2>1. UNCHANGED github
    BY <1>6 DEF Request, updateMember, addMember, removeMember, listMembers, syncMembers
  <2> QED BY <1>1, <2>1
<1>7. ASSUME NEW w \in Workers, Step(w) PROVE OnlyOnce'
  BY <1>1, <1>7, HandlerAtGitHub DEF OnlyOnce
<1>8. CASE UNCHANGED membersVars BY <1>1, <1>8 DEF membersVars
<1> QED BY <1>2, <1>3, <1>4, <1>5, <1>6, <1>7, <1>8 DEF MembersNext

\* A pass reads on what it has read, or the sync ends.
LEMMA OnwardsReads ==
  ASSUME MembersTypeOK, NEW w \in Workers, At(w, "apply"), NEW x, Onwards(w, x)
  PROVE  /\ handler'[w] = Idle \/ SameReading(handler[w], handler'[w])
         /\ \A u \in Workers : u # w => handler'[u] = handler[u]
<1>1. handler[w] \in Passes
  BY HandlersTyped, DutyShape DEF At
<1>2. /\ handler[w].todo \ {x} \in SUBSET People /\ People \in SUBSET People
      /\ NextPass(handler[w].pass) \in {"match", "tell", "prune"}
  BY <1>1, PassShape DEF NextPass
<1>3. \/ Goes(w, [handler[w] EXCEPT !.todo = handler[w].todo \ {x}])
      \/ Goes(w, [handler[w] EXCEPT !.pass = NextPass(handler[w].pass), !.todo = People])
      \/ Goes(w, Idle)
  BY DEF Onwards, Ends
<1>4. ASSUME NEW step, Goes(w, step)
      PROVE  handler'[w] = step /\ \A u \in Workers : u # w => handler'[u] = handler[u]
  BY <1>4, GoesOnly
<1>5. /\ SameReading(handler[w], [handler[w] EXCEPT !.todo = handler[w].todo \ {x}])
      /\ SameReading(handler[w], [handler[w] EXCEPT !.pass = NextPass(handler[w].pass), !.todo = People])
  BY <1>1, <1>2, PassMoves
<1> QED BY <1>3, <1>4, <1>5

\* Only a call of GitHub leads a request to remembering what it told.
LEMMA StepAt ==
  ASSUME MembersTypeOK, NEW w \in Workers, Step(w), ~TellGitHub(w)
  PROVE  handler'[w].at \notin {"push", "memo", "withdraw"}
<1>1. Idle.at = "idle" BY DEF Idle
<1>2. CASE RememberRole(w) \/ WithdrawAtGitHub(w)
  BY <1>1, <1>2, GoesOnly DEF RememberRole, WithdrawAtGitHub, Ends
<1>3. CASE Collaborators(w)
  BY <1>1, <1>3, GoesOnly DEF Collaborators, Ends
<1>4. CASE RepositoryInvitations(w)
  <2>1. \E s : Goes(w, s) /\ s.at = "members"
    BY <1>4 DEF RepositoryInvitations
  <2> QED BY <2>1, GoesOnly
<1>5. CASE ReadMembers(w)
  <2>1. \E s : Goes(w, s) /\ s.at = "apply"
    BY <1>5 DEF ReadMembers
  <2> QED BY <2>1, GoesOnly
<1>6. ASSUME NEW x \in People, MatchRole(w, x) \/ InviteMember(w, x) \/ Prune(w, x)
      PROVE  handler'[w].at \notin {"push", "memo", "withdraw"}
  <2>1. At(w, "apply") /\ (Onwards(w, x) \/ Ends(w))
    BY <1>6 DEF MatchRole, InviteMember, Prune, Pass
  <2> QED BY <1>1, <2>1, OnwardsReads, GoesOnly DEF Ends, SameReading
<1> QED BY <1>2, <1>3, <1>4, <1>5, <1>6 DEF Step

LEMMA SaysCarried ==
  ASSUME organisation' = organisation, NEW x, NEW caps
  PROVE  /\ SaysThen(x, caps) => Says(x, caps)'
         /\ Says(x, caps) /\ collaborator'[x] = collaborator[x] /\ invited'[x] = invited[x] => SaysThen(x, caps)
BY RoleStays DEF Says, SaysThen

\* An invitation accepted changes nothing of what GitHub was told.
LEMMA AcceptSays ==
  ASSUME MembersTypeOK, NEW y \in People, Accept(y), NEW x \in People, NEW caps, Says(x, caps)
  PROVE  SaysThen(x, caps)
BY DEF MembersTypeOK, Listings, Accept, Says, SaysThen

LEMMA ToldKept ==
  ASSUME MembersTypeOK, PushesSensible, AloneTrue, OnlyOnce, ToldAlone, [MembersNext]_membersVars
  PROVE  ToldAlone'
<1> SUFFICES ASSUME NEW v \in Workers, handler'[v].at = "memo", handler'[v].alone, handler'[v].m.linked
             PROVE  Says(handler[v].who, handler[v].m.caps)'
  BY DEF ToldAlone, At
<1>0. \A u \in Workers : handler[u] \in Duties BY DEF MembersTypeOK
<1>1. Idle.at = "idle" BY DEF Idle
<1>2. CASE handler'[v] = handler[v]
  <2>1. handler[v].at = "memo" /\ handler[v].alone /\ handler[v].m.linked
        /\ handler[v].who \in People /\ Says(handler[v].who, handler[v].m.caps) /\ handler[v] # Idle
    BY <1>0, <1>1, <1>2, DutyShape, PushShape DEF ToldAlone, At
  <2>2. CASE organisation' = organisation /\ collaborator' = collaborator /\ invited' = invited
    BY <1>2, <2>1, <2>2, SaysCarried
  <2>3. \A u \in Workers : u # v => handler[u] = Idle
    BY <2>1 DEF AloneTrue, Pushing
  <2>4. CASE GitHubStep
    <3>1. PICK y \in People : \/ \E role \in Roles : ChangeRole(y, role) \/ AddAtGitHub(y, role)
                              \/ RemoveAtGitHub(y) \/ Accept(y)
      BY <2>4 DEF GitHubStep
    <3>2. CASE Accept(y)
      <4>1. organisation' = organisation BY <3>2 DEF Accept
      <4> QED BY <1>2, <2>1, <3>2, <4>1, AcceptSays, SaysCarried
    <3>3. ASSUME AtGitHub(y) PROVE FALSE
      <4>1. handler'[v] = Crossed(handler[v]) BY <3>3 DEF AtGitHub
      <4> QED BY <1>0, <2>1, <4>1, <1>2, CrossedShape
    <3> QED BY <3>1, <3>2, <3>3 DEF ChangeRole, AddAtGitHub, RemoveAtGitHub
  <2>5. CASE linkRepository \/ unlinkRepository
    BY <2>2, <2>5 DEF linkRepository, unlinkRepository
  <2>6. CASE LinkAnother BY <2>1, <2>6 DEF LinkAnother
  <2>7. CASE Restart BY <2>2, <2>7 DEF Restart, github
  <2>8. ASSUME NEW w \in Workers, Request(w) PROVE UNCHANGED github
    BY <2>8 DEF Request, updateMember, addMember, removeMember, listMembers, syncMembers
  <2>9. ASSUME NEW w \in Workers, Step(w)
        PROVE  Says(handler[v].who, handler[v].m.caps)'
    <3>1. PICK step \in Duties : Took(w, step) BY <2>9, StepMoves
    <3>2. w = v BY <1>1, <2>3, <3>1 DEF Took, At
    <3>3. handler[v].at = "memo" /\ RememberRole(v)
      BY <2>1, <2>9, <3>2 DEF Step, TellGitHub, WithdrawAtGitHub, Collaborators, RepositoryInvitations,
           ReadMembers, MatchRole, InviteMember, Prune, Pass, At
    <3>4. handler'[v] = Idle BY <3>3, GoesOnly DEF RememberRole, Ends
    <3> QED BY <1>1, <3>4
  <2>10. CASE UNCHANGED membersVars BY <2>2, <2>10 DEF membersVars, github
  <2> QED BY <2>2, <2>4, <2>5, <2>6, <2>7, <2>8, <2>9, <2>10 DEF MembersNext, github
<1>3. CASE handler'[v] # handler[v]
  <2>0. \A h \in Duties : Crossed(h).at = "memo" => ~Crossed(h).alone
    BY CrossedShape
  <2>1. ASSUME AllIdle PROVE FALSE BY <1>1, <2>1 DEF AllIdle
  <2>2. ASSUME AllCrossed PROVE FALSE
    <3>1. handler'[v] = Crossed(handler[v]) BY <2>2 DEF AllCrossed
    <3> QED BY <1>0, <2>0, <3>1
  <2>3. ASSUME NEW w \in Workers, NEW step \in Duties, Started(w, step) PROVE FALSE
    <3>1. handler'[w] = step /\ \A u \in Workers : u # w => handler'[u] = Crossed(handler[u])
      BY <2>3, BeginsOnly DEF Started
    <3>2. v # w BY <2>3, <3>1 DEF Started, Pushing
    <3> QED BY <1>0, <2>0, <3>1, <3>2
  <2>4. ASSUME NEW w \in Workers, NEW step \in Duties, Took(w, step)
        PROVE  Says(handler[v].who, handler[v].m.caps)'
    <3>1. handler'[w] = step /\ \A u \in Workers : u # w => handler'[u] = handler[u]
      BY <2>4, GoesOnly DEF Took
    <3>2. v = w BY <1>3, <3>1
    <3>3. Pushing(handler[v]) /\ handler'[v].who = handler[v].who /\ handler'[v].m = handler[v].m
      BY <2>4, <3>1, <3>2 DEF Took, Pushing
    <3>4. ~At(v, "idle") BY <2>4, <3>2 DEF Took
    <3>5. handler[v].who \in People /\ handler[v].m \in Rows /\ Sensible(handler[v].m)
      BY <1>0, <3>3, DutyShape, PushShape DEF PushesSensible, Pushing
    <3>6. TellGitHub(v)
      <4>1. CASE \E u \in Workers : Step(u)
        <5>1. PICK u \in Workers : Step(u) BY <4>1
        <5>2. PICK s \in Duties : Took(u, s) BY <5>1, StepMoves
        <5>3. u = v BY <1>3, <5>2, GoesOnly DEF Took
        <5> QED BY <5>1, <5>3, StepAt
      <4>2. CASE \E u \in Workers : Request(u)
        <5>1. PICK u \in Workers : Request(u) BY <4>2
        <5>2. PICK s \in Duties : Started(u, s) BY <5>1, RequestMoves
        <5> QED BY <2>3, <5>2
      <4>3. CASE GitHubStep BY <1>3, <2>2, <4>3, GitHubStepMoves
      <4>4. CASE linkRepository \/ LinkAnother \/ unlinkRepository
        BY <1>3, <4>4 DEF linkRepository, LinkAnother, unlinkRepository
      <4>5. CASE Restart BY <2>1, <4>5 DEF Restart, AllIdle
      <4>6. CASE UNCHANGED membersVars BY <1>3, <4>6 DEF membersVars
      <4> QED BY <4>1, <4>2, <4>3, <4>4, <4>5, <4>6 DEF MembersNext
    <3>7. PushMember(handler[v].who, handler[v].m)
      <4>1. Ends(v) => handler'[v] = Idle BY GoesOnly DEF Ends
      <4> QED BY <1>1, <3>6, <4>1 DEF TellGitHub
    <3>8. organisation' = organisation /\ SaysThen(handler[v].who, handler[v].m.caps)
      <4>1. handler[v].m.linked BY <3>3
      <4> QED BY <3>5, <3>7, <4>1, PushEffect DEF Sensible
    <3> QED BY <3>3, <3>8, SaysCarried
  <2> QED BY <1>3, <2>1, <2>2, <2>3, <2>4, HandlerMoves
<1> QED BY <1>2, <1>3

\* A handler stays clear of x while nothing changes for x, whatever else it does.
Keeps(w, x) ==
  \/ handler'[w] = handler[w] \/ handler'[w] = Crossed(handler[w])
  \/ handler'[w].at \in {"idle", "collaborators"}
  \/ handler'[w].at \in {"push", "memo", "withdraw"} /\ handler'[w].who # x
  \/ At(w, "apply") /\ SameReading(handler[w], handler'[w])

LEMMA ClearKept ==
  ASSUME MembersTypeOK, NEW x \in People, NEW w \in Workers, Clear(handler[w], x), Keeps(w, x),
         chosen'[x] = chosen[x], organisation' = organisation,
         chosen[x] # {} => members'[x] = members[x], invited[x] # None => invited'[x] # None
  PROVE  Clear(handler[w], x)'
<1>0. handler[w] \in Duties /\ RoleForCapabilities(chosen[x])' = RoleForCapabilities(chosen[x])
  <2>1. RoleForCapabilities(chosen[x])' = RoleForCapabilities(chosen[x])
    BY DEF RoleForCapabilities, SupportedRoles
  <2> QED BY <2>1 DEF MembersTypeOK
<1>1. CASE handler'[w] = handler[w]
  BY <1>0, <1>1 DEF Clear
<1>2. CASE handler'[w] = Crossed(handler[w])
  <2>1. CASE Pushing(handler[w])
    <3>1. handler'[w].at = handler[w].at /\ handler'[w].who = handler[w].who
      BY <1>0, <1>2, <2>1, CrossedShape DEF Pushing
    <3> QED BY <2>1, <3>1 DEF Clear, Pushing
  <2>2. CASE ~Pushing(handler[w])
    <3>1. handler'[w] = handler[w] BY <1>0, <1>2, <2>2, CrossedShape DEF Pushing
    <3> QED BY <1>1, <3>1
  <2> QED BY <2>1, <2>2
<1>3. CASE handler'[w].at \in {"idle", "collaborators"} BY <1>3 DEF Clear
<1>4. CASE handler'[w].at \in {"push", "memo", "withdraw"} /\ handler'[w].who # x BY <1>4 DEF Clear
<1>5. CASE At(w, "apply") /\ SameReading(handler[w], handler'[w])
  BY <1>0, <1>5 DEF Clear, At, SameReading
<1> QED BY <1>1, <1>2, <1>3, <1>4, <1>5 DEF Keeps

LEMMA StandsNext ==
  ASSUME MembersTypeOK, NEW x \in People, Stands(x), chosen'[x] = chosen[x], organisation' = organisation,
         members'[x] = members[x] \/ (chosen[x] = {} /\ members'[x].caps = {}),
         SaysThen(x, chosen[x]), \A w \in Workers : Clear(handler[w], x)'
  PROVE  Stands(x)'
<1>1. RoleForCapabilities(chosen[x])' = RoleForCapabilities(chosen[x])
  BY DEF RoleForCapabilities, SupportedRoles
<1>2. Says(x, chosen[x])'
  BY <1>1 DEF Says, SaysThen
<1> QED BY <1>1, <1>2 DEF Stands

\* Nothing changes for x.
Same(x) ==
  /\ chosen'[x] = chosen[x] /\ members'[x] = members[x] /\ collaborator'[x] = collaborator[x]
  /\ invited'[x] = invited[x] /\ organisation' = organisation

LEMMA StandsSame ==
  ASSUME MembersTypeOK, NEW x \in People, Stands(x), Same(x),
         \A w \in Workers : Keeps(w, x) \/ Clear(handler[w], x)'
  PROVE  Stands(x)'
<1>1. \A w \in Workers : Clear(handler[w], x)' BY ClearKept DEF Same, Stands
<1>2. SaysThen(x, chosen[x]) BY SaysCarried DEF Same, Stands
<1> QED BY <1>1, <1>2, StandsNext DEF Same

LEMMA StandsGitHub ==
  ASSUME MembersTypeOK, GitHubStep, NEW x \in People, chosen'[x] # NoChoice, chosen[x] # NoChoice => Stands(x)
  PROVE  Stands(x)'
<1>0. /\ collaborator \in Listings /\ invited \in Listings
      /\ chosen \in [People -> (SUBSET OwnerCapabilities) \cup {NoChoice}]
      /\ \A w \in Workers : handler[w] \in Duties
  BY DEF MembersTypeOK
<1>1. PICK y \in People : \/ \E role \in Roles : ChangeRole(y, role) \/ AddAtGitHub(y, role)
                          \/ RemoveAtGitHub(y) \/ Accept(y)
  BY DEF GitHubStep
<1>2. CASE AtGitHub(y)
  <2>1. x # y /\ chosen'[x] = chosen[x] BY <1>0, <1>2 DEF AtGitHub, Forget
  <2>2. collaborator'[x] = collaborator[x] /\ invited'[x] = invited[x]
    <3>1. CASE \E role \in Roles : ChangeRole(y, role) BY <1>0, <2>1, <3>1 DEF ChangeRole, Listings
    <3>2. CASE \E role \in Roles : AddAtGitHub(y, role) BY <1>0, <2>1, <3>2 DEF AddAtGitHub, Listings
    <3>3. CASE RemoveAtGitHub(y) BY <2>1, <3>3, RemoveEffect DEF RemoveAtGitHub
    <3>4. CASE Accept(y) BY <1>0, <2>1, <3>4 DEF Accept, Listings
    <3> QED BY <1>1, <3>1, <3>2, <3>3, <3>4
  <2>3. Same(x) BY <1>2, <2>1, <2>2 DEF Same, AtGitHub
  <2>4. \A w \in Workers : Keeps(w, x) BY <1>2 DEF AtGitHub, Keeps
  <2> QED BY <2>1, <2>3, <2>4, StandsSame
<1>3. CASE Accept(y)
  <2>1. chosen'[x] = chosen[x] /\ organisation' = organisation /\ members' = members /\ handler' = handler
    BY <1>0, <1>3 DEF Accept, Forget
  <2>2. Stands(x) BY <2>1
  <2>3. SaysThen(x, chosen[x]) BY <1>3, <2>2, AcceptSays DEF Stands
  <2>4. \A w \in Workers : Clear(handler[w], x)'
    <3>1. CASE x # y
      <4>1. invited'[x] = invited[x] BY <1>0, <1>3, <3>1 DEF Accept, Listings
      <4> QED BY <2>1, <2>2, <4>1, ClearKept DEF Stands, Keeps
    <3>2. CASE x = y
      <4>1. ~Syncing BY <1>0, <1>3, <3>2 DEF Accept, Forget
      <4> QED BY <2>1, <2>2, <4>1 DEF Syncing, Stands, Clear
    <3> QED BY <3>1, <3>2
  <2> QED BY <2>1, <2>2, <2>3, <2>4, StandsNext
<1> QED BY <1>1, <1>2, <1>3 DEF ChangeRole, AddAtGitHub, RemoveAtGitHub

LEMMA StandsRequest ==
  ASSUME MembersTypeOK, NEW w \in Workers, Request(w), NEW x \in People, chosen'[x] # NoChoice,
         chosen[x] # NoChoice => Stands(x)
  PROVE  Stands(x)'
<1>0. /\ chosen \in [People -> (SUBSET OwnerCapabilities) \cup {NoChoice}]
      /\ members \in [People -> Rows] /\ Boss \in People /\ Idle.at = "idle"
  BY MembersAssumption DEF MembersTypeOK, Idle
<1>1. UNCHANGED github
  BY DEF Request, updateMember, addMember, removeMember, listMembers, syncMembers
<1>2. ASSUME NEW y \in People, Forget(y), NEW m, members' = [members EXCEPT ![y] = m],
             NEW step, Begins(w, step), step.at = "idle" \/ (step.at \in {"push", "withdraw"} /\ step.who = y)
      PROVE  Stands(x)'
  <2>1. x # y /\ chosen'[x] = chosen[x] /\ members'[x] = members[x]
    BY <1>0, <1>2 DEF Forget
  <2>2. Same(x) BY <1>1, <2>1 DEF Same, github
  <2>3. ASSUME NEW u \in Workers PROVE Keeps(u, x)
    BY <1>2, <2>1, BeginsOnly DEF Keeps
  <2> QED BY <2>1, <2>2, <2>3, StandsSame
<1>3. ASSUME NEW y \in People, NEW caps \in Grants, updateMember(w, y, caps) PROVE Stands(x)'
  <2> DEFINE m == [members[y] EXCEPT !.caps = WithView(caps)]
             step == IF repository THEN [at |-> "push", who |-> y, m |-> m, alone |-> Resting] ELSE Idle
  <2>1. Forget(y) /\ members' = [members EXCEPT ![y] = m] /\ Begins(w, step)
    BY <1>3 DEF updateMember
  <2>2. step.at = "idle" \/ (step.at \in {"push", "withdraw"} /\ step.who = y) BY <1>0
  <2> HIDE DEF m, step
  <2> QED BY <1>2, <2>1, <2>2
<1>4. ASSUME NEW y \in People, NEW caps \in Grants, NEW linked \in BOOLEAN, addMember(w, y, caps, linked)
      PROVE  Stands(x)'
  <2> DEFINE m == Member(IF caps = {} THEN DefaultCapabilities ELSE WithView(caps), None, linked)
             step == IF repository /\ linked
                     THEN [at |-> "push", who |-> y, m |-> m, alone |-> Resting] ELSE Idle
  <2>1. Forget(y) /\ members' = [members EXCEPT ![y] = m] /\ Begins(w, step)
    BY <1>4 DEF addMember
  <2>2. step.at = "idle" \/ (step.at \in {"push", "withdraw"} /\ step.who = y) BY <1>0
  <2> HIDE DEF m, step
  <2> QED BY <1>2, <2>1, <2>2
<1>5. ASSUME NEW y \in People, removeMember(w, y) PROVE Stands(x)'
  <2> DEFINE step == IF repository /\ members[y].linked THEN [at |-> "withdraw", who |-> y] ELSE Idle
  <2>1. Forget(y) /\ members' = [members EXCEPT ![y] = NoMember] /\ Begins(w, step)
    BY <1>5 DEF removeMember
  <2>2. step.at = "idle" \/ (step.at \in {"push", "withdraw"} /\ step.who = y) BY <1>0
  <2> HIDE DEF step
  <2> QED BY <1>2, <2>1, <2>2
<1>6. CASE listMembers(w)
  BY <1>0, <1>2, <1>6 DEF listMembers
<1>7. CASE syncMembers(w)
  <2>1. Same(x) BY <1>1, <1>7 DEF Same, github, syncMembers, history
  <2>2. \A u \in Workers : Keeps(u, x)
    BY <1>7, BeginsOnly DEF syncMembers, Keeps
  <2> QED BY <2>1, <2>2, StandsSame DEF Same
<1> QED BY <1>3, <1>4, <1>5, <1>6, <1>7 DEF Request

\* A finished request that ran alone: what it gave is what GitHub says and the row holds.
LEMMA ChoiceMade ==
  ASSUME MembersTypeOK, PushesSensible, AloneTrue, ToldAlone,
         NEW w \in Workers, RememberRole(w), handler[w].alone, handler[w].m.linked,
         NEW x \in People, x = handler[w].who
  PROVE  Stands(x)'
<1> DEFINE m == handler[w].m
           role == RoleForCapabilities(m.caps)
<1>0. handler[w] \in Pushes /\ Pushing(handler[w]) /\ At(w, "memo")
  BY DutyShape DEF MembersTypeOK, RememberRole, At, Pushing
<1>1. m \in Rows /\ Sensible(m)
  BY <1>0, PushShape DEF PushesSensible
<1>2. m.caps \in SUBSET OwnerCapabilities /\ role \in Roles \cup {None}
  BY <1>1, RowChanged, RolesTyped
<1>3. /\ members' = [members EXCEPT ![x] = [m EXCEPT !.memo = role]]
      /\ chosen' = [chosen EXCEPT ![x] = m.caps]
      /\ UNCHANGED github /\ Ends(w)
  BY DEF RememberRole
<1>4. /\ members'[x] = [m EXCEPT !.memo = role] /\ chosen'[x] = m.caps
      /\ organisation' = organisation /\ collaborator' = collaborator /\ invited' = invited
  BY <1>1, <1>3 DEF MembersTypeOK, github
<1>5. /\ members'[x].caps = m.caps /\ members'[x].linked = m.linked /\ members'[x].memo = role
      /\ members'[x].owner = m.owner /\ members'[x].row = m.row
  <2> HIDE DEF m, role
  <2>1. /\ [m EXCEPT !.memo = role].caps = m.caps /\ [m EXCEPT !.memo = role].linked = m.linked
        /\ [m EXCEPT !.memo = role].memo = role /\ [m EXCEPT !.memo = role].owner = m.owner
        /\ [m EXCEPT !.memo = role].row = m.row
    BY ONLY <1>1, <1>2, RowChanged
  <2> QED BY <1>4, <2>1
<1>6. \A u \in Workers : handler'[u].at = "idle"
  <2>1. Idle.at = "idle" BY DEF Idle
  <2>2. \A u \in Workers : u # w => handler[u] = Idle BY <1>0 DEF AloneTrue
  <2>3. handler'[w] = Idle /\ \A u \in Workers : u # w => handler'[u] = handler[u]
    BY <1>3, GoesOnly DEF Ends
  <2> QED BY <2>1, <2>2, <2>3
<1>7. Says(x, m.caps)
  BY <1>0 DEF ToldAlone
<1> HIDE DEF m, role
<1>8. RoleForCapabilities(chosen[x])' = role
  BY <1>4, RoleStays DEF role
<1>9. Says(x, chosen[x])'
  BY <1>4, <1>7, <1>8 DEF Says, role
<1>10. \A u \in Workers : Clear(handler[u], x)' BY <1>6 DEF Clear
<1>11. m.linked BY DEF m
<1> QED BY <1>1, <1>4, <1>5, <1>8, <1>9, <1>10, <1>11 DEF Stands, Sensible

LEMMA StandsStep ==
  ASSUME MembersTypeOK, PushesSensible, AloneTrue, OnlyOnce, ToldAlone,
         NEW w \in Workers, Step(w), NEW x \in People, chosen'[x] # NoChoice,
         chosen[x] # NoChoice => Stands(x)
  PROVE  Stands(x)'
<1>0. /\ handler[w] \in Duties /\ Idle.at = "idle"
      /\ members \in [People -> Rows] /\ collaborator \in Listings /\ invited \in Listings
  BY DEF MembersTypeOK, Idle
<1>1. CASE RememberRole(w) /\ handler[w].who = x
  <2>1. CASE handler[w].alone /\ handler[w].m.linked
    BY <1>1, <2>1, ChoiceMade
  <2>2. CASE ~(handler[w].alone /\ handler[w].m.linked)
    <3>1. chosen'[x] = chosen[x] BY <1>1, <2>2 DEF RememberRole, MembersTypeOK
    <3>2. Clear(handler[w], x) BY <3>1 DEF Stands
    <3> QED BY <1>1, <3>2 DEF RememberRole, At, Clear
  <2> QED BY <2>1, <2>2
<1>2. ASSUME ~(RememberRole(w) /\ handler[w].who = x) PROVE chosen'[x] = chosen[x] /\ Stands(x)
  <2>1. chosen'[x] = chosen[x]
    <3>1. CASE RememberRole(w)
      BY <1>2, <3>1 DEF RememberRole, MembersTypeOK
    <3>2. CASE ~RememberRole(w)
      BY <3>2 DEF Step, TellGitHub, WithdrawAtGitHub, Collaborators, RepositoryInvitations, ReadMembers,
         MatchRole, InviteMember, Prune, history
    <3> QED BY <3>1, <3>2
  <2> QED BY <2>1
<1>3. ASSUME NEW step, Goes(w, step), Same(x), Stands(x), Keeps(w, x) \/ Clear(handler[w], x)' PROVE Stands(x)'
  <2>1. \A u \in Workers : u # w => Keeps(u, x) BY <1>3, GoesOnly DEF Keeps
  <2> QED BY <1>3, <2>1, StandsSame
<1>4. CASE RememberRole(w) /\ handler[w].who # x
  <2>1. Stands(x) /\ chosen'[x] = chosen[x] BY <1>2, <1>4
  <2>2. members'[x] = members[x] /\ UNCHANGED github /\ Goes(w, Idle)
    BY <1>0, <1>4 DEF RememberRole, Ends
  <2>3. Same(x) BY <2>1, <2>2 DEF Same, github
  <2>4. Keeps(w, x) BY <1>0, <2>2, GoesOnly DEF Keeps
  <2> QED BY <1>3, <2>1, <2>2, <2>3, <2>4
<1>5. CASE TellGitHub(w)
  <2>1. handler[w].who \in People /\ handler[w].m \in Rows /\ handler[w].at = "push" /\ handler[w] \in Pushes
    BY <1>0, <1>5, DutyShape, PushShape DEF TellGitHub, At
  <2>2. Stands(x) /\ chosen'[x] = chosen[x] BY <1>2, <1>5, <2>1 DEF RememberRole, At
  <2>3. handler[w].who # x BY <2>1, <2>2 DEF Stands, Clear
  <2>4. Same(x)
    BY <1>5, <2>1, <2>2, <2>3, PushEffect DEF TellGitHub, Same, github
  <2>5. \E step : Goes(w, step) /\ (step.at = "idle" \/ (step.at = "memo" /\ step.who = handler[w].who))
    BY <1>0, <1>5, <2>1, PushShape DEF TellGitHub, Ends
  <2>6. Keeps(w, x) BY <2>3, <2>5, GoesOnly DEF Keeps
  <2> QED BY <1>3, <2>2, <2>4, <2>5, <2>6
<1>6. CASE WithdrawAtGitHub(w)
  <2>1. handler[w].who \in People /\ handler[w].at = "withdraw"
    BY <1>0, <1>6, DutyShape DEF WithdrawAtGitHub, At
  <2>2. Stands(x) /\ chosen'[x] = chosen[x] BY <1>2, <2>1 DEF RememberRole, At
  <2>3. handler[w].who # x BY <2>1, <2>2 DEF Stands, Clear
  <2>4. Same(x) /\ Goes(w, Idle)
    BY <1>6, <2>1, <2>2, <2>3, RemoveEffect DEF WithdrawAtGitHub, Same, github, Ends
  <2>5. Keeps(w, x) BY <1>0, <2>4, GoesOnly DEF Keeps
  <2> QED BY <1>3, <2>2, <2>4, <2>5
<1>7. CASE Collaborators(w)
  <2>1. Stands(x) /\ chosen'[x] = chosen[x] BY <1>2, <1>7 DEF RememberRole, Collaborators, At
  <2>2. Same(x) BY <1>7, <2>1 DEF Collaborators, Same, github
  <2>3. CASE Goes(w, Idle)
    <3>1. Keeps(w, x) BY <1>0, <2>3, GoesOnly DEF Keeps
    <3> QED BY <1>3, <2>1, <2>2, <2>3, <3>1
  <2>4. CASE Goes(w, [at |-> "invitations", remote |-> collaborator])
    <3>1. handler'[w].at = "invitations" /\ handler'[w].remote = collaborator
      BY <2>4, GoesOnly
    <3>2. RoleForCapabilities(chosen[x])' = RoleForCapabilities(chosen[x]) /\ invited'[x] = invited[x]
      BY <2>2 DEF Same, RoleForCapabilities, SupportedRoles
    <3>3. /\ collaborator[x] = None \/ (chosen[x] # {} /\ collaborator[x] = RoleForCapabilities(chosen[x]))
          /\ chosen[x] # {} => collaborator[x] # None \/ invited[x] # None
      <4>1. chosen[x] \in SUBSET OwnerCapabilities BY <2>1 DEF MembersTypeOK
      <4>2. RoleForCapabilities(chosen[x]) # None BY <4>1, RolesTyped
      <4> QED BY <2>1, <4>2 DEF Stands, Says
    <3>4. Clear(handler[w], x)' BY <2>1, <3>1, <3>2, <3>3 DEF Clear
    <3> QED BY <1>3, <2>1, <2>2, <2>4, <3>4
  <2> QED BY <1>7, <2>3, <2>4 DEF Collaborators, Ends
<1>8. CASE RepositoryInvitations(w)
  <2>1. Stands(x) /\ chosen'[x] = chosen[x] /\ handler[w].at = "invitations"
    BY <1>2, <1>8 DEF RememberRole, RepositoryInvitations, At
  <2>2. Same(x) BY <1>8, <2>1 DEF RepositoryInvitations, Same, github
  <2>3. PICK step : /\ Goes(w, step) /\ step.at = "members" /\ step.remote = handler[w].remote
                    /\ step.readable => step.pending = {y \in People : invited[y] # None}
    BY <1>8 DEF RepositoryInvitations
  <2>4. handler'[w] = step BY <2>3, GoesOnly
  <2>5. RoleForCapabilities(chosen[x])' = RoleForCapabilities(chosen[x])
    BY <2>2 DEF Same, RoleForCapabilities, SupportedRoles
  <2>6. Clear(handler[w], x) BY <2>1 DEF Stands
  <2>7. chosen[x] # {} /\ step.readable => step.remote[x] # None \/ x \in step.pending
    BY <2>1, <2>3, <2>6 DEF Clear
  <2>8. Clear(handler[w], x)' BY <2>1, <2>3, <2>4, <2>5, <2>6, <2>7 DEF Clear
  <2> QED BY <1>3, <2>1, <2>2, <2>3, <2>8
<1>9. CASE ReadMembers(w)
  <2>1. Stands(x) /\ chosen'[x] = chosen[x] /\ handler[w].at = "members"
    BY <1>2, <1>9 DEF RememberRole, ReadMembers, At
  <2>2. Same(x) BY <1>9, <2>1 DEF ReadMembers, Same, github
  <2>3. PICK step : /\ Goes(w, step) /\ step.at = "apply" /\ step.remote = handler[w].remote
                    /\ step.readable = handler[w].readable /\ step.pending = handler[w].pending
                    /\ step.local = members
    BY <1>9 DEF ReadMembers
  <2>4. handler'[w] = step BY <2>3, GoesOnly
  <2>5. RoleForCapabilities(chosen[x])' = RoleForCapabilities(chosen[x]) /\ members'[x] = members[x]
    BY <2>2 DEF Same, RoleForCapabilities, SupportedRoles
  <2>6. Clear(handler[w], x) BY <2>1 DEF Stands
  <2>7. Clear(handler[w], x)' BY <2>1, <2>3, <2>4, <2>5, <2>6 DEF Clear, Stands
  <2> QED BY <1>3, <2>1, <2>2, <2>3, <2>7
<1>10. ASSUME NEW y \in People, MatchRole(w, y) \/ InviteMember(w, y) \/ Prune(w, y)
       PROVE  Stands(x)'
  <2>1. At(w, "apply") /\ (Onwards(w, y) \/ Ends(w)) /\ handler[w] \in Passes
    BY <1>0, <1>10, DutyShape DEF MatchRole, InviteMember, Prune, Pass, At
  <2>2. Stands(x) /\ chosen'[x] = chosen[x] BY <1>2, <2>1 DEF RememberRole, At
  <2>3. \A u \in Workers : Keeps(u, x)
    BY <1>0, <2>1, OnwardsReads, GoesOnly DEF Keeps, Ends
  <2>4. Clear(handler[w], x) /\ handler[w].local[x] \in Rows /\ chosen[x] \in SUBSET OwnerCapabilities
        /\ members[x] \in Rows /\ handler[w].at = "apply"
    BY <1>0, <2>1, <2>2, PassShape DEF Stands, MembersTypeOK, At
  <2>5. RoleForCapabilities(chosen[x]) \in Roles /\ RoleForCapabilities(chosen[x]) # None
    BY <2>4, RolesTyped
  <2>6. CASE Same(x)
    BY <2>2, <2>3, <2>6, StandsSame
  <2>7. ASSUME chosen[x] = {}, organisation' = organisation, members'[x].caps = {},
               collaborator'[x] = None, invited'[x] = None
        PROVE  Stands(x)'
    <3>1. \A u \in Workers : Clear(handler[u], x)'
      <4>1. \A u \in Workers : Clear(handler[u], x) BY <2>2 DEF Stands
      <4>2. invited[x] = None BY <2>2, <2>7 DEF Stands, Says
      <4> QED BY <2>2, <2>3, <2>7, <4>1, <4>2, ClearKept
    <3> QED BY <2>2, <2>7, <3>1, StandsNext DEF SaysThen
  <2>8. CASE MatchRole(w, y)
    <3>1. UNCHANGED github BY <2>8 DEF MatchRole
    <3>2. members'[x] = members[x]
      <4>1. CASE x # y
        <5>1. UNCHANGED members \/ \E m : members' = [members EXCEPT ![y] = m]
          BY <2>8 DEF MatchRole, Match
        <5> QED BY <1>0, <4>1, <5>1
      <4>2. CASE x = y
        <5>1. CASE handler[w].remote[x] = None
          BY <2>8, <4>2, <5>1 DEF MatchRole, Match
        <5>2. CASE handler[w].remote[x] # None
          <6>1. chosen[x] # {} /\ handler[w].remote[x] = RoleForCapabilities(chosen[x])
                /\ handler[w].local[x] = members[x]
            BY <2>4, <5>2 DEF Clear
          <6>2. handler[w].local[x].row /\ handler[w].local[x].linked
                /\ handler[w].local[x].memo = handler[w].remote[x]
            BY <2>2, <6>1 DEF Stands
          <6>3. UNCHANGED members BY <2>8, <4>2, <6>2 DEF MatchRole, Match
          <6> QED BY <6>3
        <5> QED BY <5>1, <5>2
      <4> QED BY <4>1, <4>2
    <3> QED BY <2>2, <2>6, <3>1, <3>2 DEF Same, github
  <2>9. CASE Prune(w, y)
    <3>1. UNCHANGED github BY <2>9 DEF Prune
    <3>2. members'[x] = members[x] \/ (members'[x] = NoMember /\ x = y)
      BY <1>0, <2>9 DEF Prune
    <3>3. CASE members'[x] = members[x]
      BY <2>2, <2>6, <3>1, <3>3 DEF Same, github
    <3>4. CASE members'[x] # members[x]
      <4>1. /\ handler[w].readable /\ ~Seen(w, x) /\ members'[x] = NoMember
        BY <2>9, <3>2, <3>4 DEF Prune
      <4>2. chosen[x] = {} BY <2>4, <4>1 DEF Clear, Seen
      <4>3. collaborator'[x] = None /\ invited'[x] = None /\ organisation' = organisation
        BY <2>2, <3>1, <4>2 DEF Stands, Says, github
      <4> QED BY <2>7, <4>1, <4>2, <4>3 DEF NoMember
    <3> QED BY <3>3, <3>4
  <2>10. CASE InviteMember(w, y)
    <3> DEFINE m == handler[w].local[y]
               entry == [m EXCEPT !.memo = RoleForCapabilities(m.caps)]
    <3>1. m \in Rows BY <2>1, PassShape
    <3>2. RoleForCapabilities(m.caps) \in Roles \cup {None} BY <3>1, RowChanged, RolesTyped
    <3>3. /\ UNCHANGED github \/ PushMember(y, m)
          /\ UNCHANGED members \/ members' = [members EXCEPT ![y] = entry]
          /\ (UNCHANGED github /\ UNCHANGED members) \/ (m.linked /\ m.row)
      BY <2>10 DEF InviteMember
    <3>4. organisation' = organisation
      BY <3>3 DEF github, PushMember
    <3>5. /\ entry.caps = m.caps /\ (m.memo = RoleForCapabilities(m.caps) => entry = m)
      <4> HIDE DEF m
      <4> QED BY <3>1, <3>2, RowChanged
    <3>6. CASE x # y
      <4>1. members'[x] = members[x]
        <5> HIDE DEF entry
        <5> QED BY <1>0, <3>3, <3>6
      <4>2. collaborator'[x] = collaborator[x] /\ invited'[x] = invited[x]
        BY <3>1, <3>3, <3>6, PushEffect DEF github
      <4> QED BY <2>2, <2>6, <3>4, <4>1, <4>2 DEF Same
    <3>7. CASE x = y /\ UNCHANGED github /\ UNCHANGED members
      BY <2>2, <2>6, <3>7 DEF Same, github
    <3>8. CASE x = y /\ m.linked /\ m.row /\ chosen[x] = {}
      <4>1. m.caps = {} BY <2>4, <3>8 DEF Clear
      <4>2. collaborator'[x] = None /\ invited'[x] = None
        <5>1. CASE UNCHANGED github BY <2>2, <3>8, <5>1 DEF Stands, Says, github
        <5>2. CASE PushMember(y, m)
          BY <3>1, <3>8, <4>1, <5>2, PushEffect DEF SaysThen
        <5> QED BY <3>3, <5>1, <5>2
      <4>3. members'[x].caps = {}
        <5>1. members[x].caps = {} BY <2>2, <3>8 DEF Stands
        <5>2. entry.caps = {} BY <3>5, <4>1
        <5> HIDE DEF entry
        <5> QED BY <1>0, <3>3, <3>8, <5>1, <5>2
      <4> QED BY <2>7, <3>4, <3>8, <4>2, <4>3
    <3>9. CASE x = y /\ m.linked /\ m.row /\ chosen[x] # {}
      <4>1. m = members[x] /\ m.caps = chosen[x] /\ "view" \in m.caps /\ m.memo = RoleForCapabilities(m.caps)
        BY <2>2, <2>4, <3>9 DEF Clear, Stands
      <4>2. members'[x] = members[x]
        <5>1. entry = members[x] BY <3>5, <4>1
        <5> HIDE DEF entry, m
        <5> QED BY <1>0, <3>3, <3>9, <5>1
      <4>3. SaysThen(x, chosen[x])
        <5>1. CASE UNCHANGED github
          BY <2>2, <3>4, <5>1, SaysCarried DEF Stands, github
        <5>2. CASE PushMember(y, m)
          BY <3>1, <3>9, <4>1, <5>2, PushEffect
        <5> QED BY <3>3, <5>1, <5>2
      <4>4. \A u \in Workers : Clear(handler[u], x)'
        <5> SUFFICES ASSUME NEW u \in Workers PROVE Clear(handler[u], x)'
          OBVIOUS
        <5>1. Clear(handler[u], x) /\ Keeps(u, x) BY <2>2, <2>3 DEF Stands
        <5>2. CASE invited[x] # None => invited'[x] # None
          BY <2>2, <3>4, <4>2, <5>1, <5>2, ClearKept
        <5>3. CASE invited[x] # None /\ invited'[x] = None
          <6>1. collaborator[x] = None BY <2>2, <5>3 DEF Stands, Says
          <6>2. PushMember(y, m) BY <3>3, <5>3 DEF github
          <6>3. AddCollaborator(x, RoleForCapabilities(m.caps)) BY <3>9, <4>1, <6>2 DEF PushMember
          <6>4. invited'[x] = RoleForCapabilities(m.caps)
            BY <1>0, <6>1, <6>3 DEF AddCollaborator, Listings
          <6> QED BY <2>5, <4>1, <5>3, <6>4
        <5> QED BY <5>2, <5>3
      <4> QED BY <2>2, <3>4, <4>2, <4>3, <4>4, StandsNext
    <3> QED BY <3>3, <3>6, <3>7, <3>8, <3>9
  <2> QED BY <1>10, <2>8, <2>9, <2>10
<1> QED BY <1>1, <1>4, <1>5, <1>6, <1>7, <1>8, <1>9, <1>10 DEF Step

LEMMA ChoiceKept ==
  ASSUME MembersTypeOK, ChoiceInv, [MembersNext]_membersVars PROVE ChoiceInv'
<1>1. PushesSensible' /\ AloneTrue' BY PushesKept DEF ChoiceInv
<1>2. OnlyOnce' BY OnlyOnceKept DEF ChoiceInv
<1>3. ToldAlone' BY ToldKept DEF ChoiceInv
<1>4. ASSUME NEW x \in People, chosen'[x] # NoChoice PROVE Stands(x)'
  <2>0. chosen[x] # NoChoice => Stands(x) BY DEF ChoiceInv, ChoicesStand
  <2>1. CASE GitHubStep BY <1>4, <2>0, <2>1, StandsGitHub
  <2>2. CASE linkRepository \/ LinkAnother \/ unlinkRepository
    BY <1>4, <2>2 DEF linkRepository, LinkAnother, unlinkRepository, Relink
  <2>3. CASE Restart
    <3>1. Same(x) BY <2>3 DEF Restart, Same, github, history
    <3>2. \A u \in Workers : Keeps(u, x) BY <2>3 DEF Restart, Keeps, Idle
    <3> QED BY <1>4, <2>0, <3>1, <3>2, StandsSame DEF Same
  <2>4. ASSUME NEW w \in Workers, Request(w) PROVE Stands(x)'
    BY <1>4, <2>0, <2>4, StandsRequest
  <2>5. ASSUME NEW w \in Workers, Step(w) PROVE Stands(x)'
    BY <1>4, <2>0, <2>5, StandsStep DEF ChoiceInv
  <2>6. CASE UNCHANGED membersVars
    <3>1. Same(x) BY <2>6 DEF membersVars, Same, github, history
    <3>2. \A u \in Workers : Keeps(u, x) BY <2>6 DEF membersVars, Keeps
    <3> QED BY <1>4, <2>0, <3>1, <3>2, StandsSame DEF Same
  <2> QED BY <2>1, <2>2, <2>3, <2>4, <2>5, <2>6 DEF MembersNext
<1> QED BY <1>1, <1>2, <1>3, <1>4 DEF ChoiceInv, ChoicesStand

LEMMA ChoiceStarts == MembersInit => ChoiceInv
<1> SUFFICES ASSUME MembersInit PROVE ChoiceInv
  OBVIOUS
<1>1. \A w \in Workers : handler[w] = Idle /\ Idle.at = "idle"
  BY DEF MembersInit, Idle
<1>2. \A x \in People : chosen[x] = NoChoice /\ invited[x] = None
  BY DEF MembersInit
<1> QED BY <1>1, <1>2 DEF ChoiceInv, PushesSensible, AloneTrue, OnlyOnce, ToldAlone, ChoicesStand, Pushing, At

\* What a person was given here stands until somebody gives them something else or
\* changes them at GitHub, whatever requests and syncs cross.
THEOREM ChoiceStandsHolds == MembersSpec => []ChoiceStands
<1>1. MembersInit => MembersTypeOK /\ ChoiceInv
  BY MembersInitTyped, ChoiceStarts
<1>2. MembersTypeOK /\ ChoiceInv /\ [MembersNext]_membersVars => MembersTypeOK' /\ ChoiceInv'
  BY MembersNextTyped, ChoiceKept
<1>3. ChoiceInv => ChoiceStands
  BY DEF ChoiceInv, ChoicesStand, Stands, ChoiceStands
<1> QED BY <1>1, <1>2, <1>3, PTL DEF MembersSpec

--------------------------------------------------------------------------------
(* Members: syncs do not fight *)

SyncStages == {"collaborators", "invitations", "members", "apply"}
ToInvite(entry) == entry.row /\ ~entry.owner /\ entry.linked
SeenBy(h, x) == h.remote[x] # None \/ x \in h.pending

\* What is true of a person's row and invitation after each pass of a sync that nothing
\* disturbs: the row was matched, the person was told, or removed.
Offered(h, x, invitation) == x \in h.pending <=> invitation # None
Matched(h, x, entry) ==
  IF h.remote[x] = None THEN entry = h.local[x]
  ELSE entry.owner \/ (entry.row /\ entry.linked /\ entry.memo = h.remote[x])
Told(h, x, entry, invitation) ==
  IF SeenBy(h, x) THEN Matched(h, x, entry) /\ (x \in h.pending => invitation # None)
  ELSE IF ToInvite(h.local[x])
  THEN entry.row /\ entry.caps = h.local[x].caps /\ (invitation # None <=> "view" \in entry.caps)
  ELSE ~ToInvite(entry)
Pruned(h, x, entry, invitation) ==
  Told(h, x, entry, invitation) \/ (~SeenBy(h, x) /\ ToInvite(h.local[x]) /\ entry = NoMember)

\* Before a pass has come to a person, and after.
Ready(h, x, entry, invitation) ==
  /\ h.pass = "match" => Offered(h, x, invitation) /\ entry = h.local[x]
  /\ h.pass = "tell" => Offered(h, x, invitation) /\ Matched(h, x, entry)
  /\ h.pass = "prune" => Told(h, x, entry, invitation)
Ended(h, x, entry, invitation) ==
  /\ h.pass = "match" => Offered(h, x, invitation) /\ Matched(h, x, entry)
  /\ h.pass = "tell" => Told(h, x, entry, invitation)
  /\ h.pass = "prune" => Pruned(h, x, entry, invitation)

Progress(h) ==
  /\ h.at \in {"invitations", "members", "apply"} => \A x \in People : h.remote[x] = collaborator[x]
  /\ h.at = "members" => h.readable /\ \A x \in People : Offered(h, x, invited[x])
  /\ h.at = "apply" => /\ h.readable
                       /\ \A x \in People : IF x \in h.todo THEN Ready(h, x, members[x], invited[x])
                                            ELSE Ended(h, x, members[x], invited[x])

\* A sync has nothing to do about a person: a collaborator is remembered with the role
\* GitHub gives, and whoever GitHub does not know is nobody to be invited, or may not view.
Quiet(entry, role, invitation) ==
  IF role # None THEN entry.owner \/ (entry.row /\ entry.linked /\ entry.memo = role)
  ELSE invitation = None => ~ToInvite(entry) \/ "view" \notin entry.caps

AllQuiet ==
  \A x \in People :
    /\ Quiet(members[x], collaborator[x], invited[x])
    /\ \A w \in Workers : handler[w].at \in {"members", "apply"} => Offered(handler[w], x, invited[x])
OneSync ==
  \A w \in Workers : handler[w] # Idle =>
    handler[w].at \in SyncStages /\ \A u \in Workers : u # w => handler[u] = Idle
AllProgress == \A w \in Workers : Progress(handler[w])

CalmInv == /\ calm # "no" => OneSync /\ AllProgress
           /\ calm = "yes" => AllQuiet

LEMMA SameReadingSame ==
  ASSUME NEW h, NEW g, SameReading(h, g), NEW x, NEW entry, NEW invitation
  PROVE  /\ Offered(g, x, invitation) <=> Offered(h, x, invitation)
         /\ Matched(g, x, entry) <=> Matched(h, x, entry)
         /\ Told(g, x, entry, invitation) <=> Told(h, x, entry, invitation)
         /\ Pruned(g, x, entry, invitation) <=> Pruned(h, x, entry, invitation)
BY DEF SameReading, Offered, Matched, Told, Pruned, SeenBy

\* A pass that has dealt with y goes on; the last one leaves everybody pruned.
LEMMA PassProgress ==
  ASSUME MembersTypeOK, NEW w \in Workers, At(w, "apply"), NEW y \in handler[w].todo, Onwards(w, y),
         Progress(handler[w]), collaborator' = collaborator,
         \A x \in People : x # y => members'[x] = members[x] /\ invited'[x] = invited[x],
         Ended(handler[w], y, members'[y], invited'[y])
  PROVE  /\ Progress(handler[w])'
         /\ Done(w, y) => \A x \in People : Pruned(handler[w], x, members'[x], invited'[x])
<1> DEFINE h == handler[w]
           rest == h.todo \ {y}
<1>0. h \in Passes /\ h.at = "apply" /\ Idle.at = "idle"
  BY HandlersTyped, DutyShape DEF At, Idle
<1>1. /\ rest \in SUBSET People /\ People \in SUBSET People /\ y \in People
      /\ NextPass(h.pass) \in {"match", "tell", "prune"} /\ h.pass \in {"match", "tell", "prune"}
  BY <1>0, PassShape DEF NextPass
<1>2. /\ h.readable
      /\ \A x \in People : h.remote[x] = collaborator'[x]
      /\ \A x \in People : x \notin rest => Ended(h, x, members'[x], invited'[x])
      /\ \A x \in rest : Ready(h, x, members'[x], invited'[x])
  BY <1>0, <1>1 DEF Progress
<1>3. CASE rest # {}
  <2> DEFINE g == [h EXCEPT !.todo = rest]
  <2>1. Goes(w, g) BY <1>3 DEF Onwards
  <2>2. SameReading(h, g) /\ g.todo = rest /\ g.pass = h.pass
    <3> HIDE DEF h, rest
    <3> QED BY <1>0, <1>1, PassMoves
  <2> HIDE DEF g
  <2>a. handler'[w] = g BY <2>1, GoesOnly
  <2> HIDE DEF h, rest
  <2>b. /\ g.at = "apply" /\ g.readable = h.readable /\ g.remote = h.remote /\ g.local = h.local
    BY <2>2 DEF SameReading
  <2>3. ASSUME NEW x \in People
        PROVE  IF x \in g.todo THEN Ready(g, x, members'[x], invited'[x]) ELSE Ended(g, x, members'[x], invited'[x])
    <3>1. /\ Offered(g, x, invited'[x]) <=> Offered(h, x, invited'[x])
          /\ Matched(g, x, members'[x]) <=> Matched(h, x, members'[x])
          /\ Told(g, x, members'[x], invited'[x]) <=> Told(h, x, members'[x], invited'[x])
          /\ Pruned(g, x, members'[x], invited'[x]) <=> Pruned(h, x, members'[x], invited'[x])
      BY <2>2, SameReadingSame
    <3>2. CASE x \in rest
      <4>1. Ready(h, x, members'[x], invited'[x]) BY <1>2, <3>2
      <4>2. Ready(g, x, members'[x], invited'[x]) BY ONLY <2>2, <2>b, <3>1, <4>1 DEF Ready
      <4> QED BY <2>2, <3>2, <4>2
    <3>3. CASE x \notin rest
      <4>1. Ended(h, x, members'[x], invited'[x]) BY <1>2, <3>3
      <4>2. Ended(g, x, members'[x], invited'[x]) BY ONLY <2>2, <3>1, <4>1 DEF Ended
      <4> QED BY <2>2, <3>3, <4>2
    <3> QED BY <3>2, <3>3
  <2>4. Progress(handler[w])' BY <1>2, <2>a, <2>b, <2>3 DEF Progress
  <2>5. ~Done(w, y) BY <1>3 DEF Done, h, rest
  <2> QED BY <2>4, <2>5
<1>4. CASE rest = {} /\ h.pass = "prune"
  <2>1. handler'[w] = Idle BY <1>4, GoesOnly DEF Onwards, Ends
  <2>2. Progress(handler[w])' BY <1>0, <2>1 DEF Progress
  <2> HIDE DEF h, rest
  <2>3. \A x \in People : Pruned(h, x, members'[x], invited'[x])
    BY <1>2, <1>4 DEF Ended
  <2> QED BY <2>2, <2>3 DEF h
<1>5. CASE rest = {} /\ h.pass # "prune"
  <2> DEFINE g == [h EXCEPT !.pass = NextPass(h.pass), !.todo = People]
  <2>1. Goes(w, g) BY <1>5 DEF Onwards
  <2>2. SameReading(h, g) /\ g.todo = People /\ g.pass = NextPass(h.pass)
    <3> DEFINE next == NextPass(h.pass)
    <3>1. h \in Passes /\ next \in {"match", "tell", "prune"} /\ People \in SUBSET People
      BY <1>0, <1>1
    <3> HIDE DEF h, next
    <3>2. /\ SameReading(h, [h EXCEPT !.pass = next, !.todo = People])
          /\ [h EXCEPT !.pass = next, !.todo = People].todo = People
          /\ [h EXCEPT !.pass = next, !.todo = People].pass = next
      BY ONLY <3>1 DEF Passes, SameReading
    <3> QED BY <3>2 DEF next
  <2> HIDE DEF g
  <2>a. handler'[w] = g BY <2>1, GoesOnly
  <2> HIDE DEF h, rest
  <2>b. /\ g.at = "apply" /\ g.readable = h.readable /\ g.remote = h.remote
    BY <2>2 DEF SameReading
  <2>3. ASSUME NEW x \in People PROVE Ready(g, x, members'[x], invited'[x])
    <3>1. /\ Offered(g, x, invited'[x]) <=> Offered(h, x, invited'[x])
          /\ Matched(g, x, members'[x]) <=> Matched(h, x, members'[x])
          /\ Told(g, x, members'[x], invited'[x]) <=> Told(h, x, members'[x], invited'[x])
      BY <2>2, SameReadingSame
    <3>2. Ended(h, x, members'[x], invited'[x]) BY <1>2, <1>5
    <3>3. \/ h.pass = "match" /\ g.pass = "tell"
          \/ h.pass = "tell" /\ g.pass = "prune"
      BY <1>1, <1>5, <2>2 DEF NextPass
    <3> QED BY ONLY <3>1, <3>2, <3>3 DEF Ready, Ended
  <2>4. Progress(handler[w])' BY <1>2, <2>2, <2>a, <2>b, <2>3 DEF Progress
  <2>5. ~Done(w, y) BY <1>5 DEF Done, h
  <2> QED BY <2>4, <2>5
<1> QED BY <1>3, <1>4, <1>5

\* One person's turn in a pass of a sync that nothing disturbs.  Once everything was
\* quiet, all it may do is to somebody who has a row and may not view.
LEMMA TurnTaken ==
  ASSUME MembersTypeOK, NEW w \in Workers, NEW y \in People, Progress(handler[w]), calm' # "no",
         MatchRole(w, y) \/ InviteMember(w, y) \/ Prune(w, y)
  PROVE  /\ At(w, "apply") /\ y \in handler[w].todo /\ Onwards(w, y) /\ Settles(w, y)
         /\ UNCHANGED <<requests, history>>
         /\ \A x \in People : x # y => members'[x] = members[x] /\ invited'[x] = invited[x]
         /\ collaborator' = collaborator
         /\ Ended(handler[w], y, members'[y], invited'[y])
         /\ Quiet(members[y], collaborator[y], invited[y]) /\ Offered(handler[w], y, invited[y]) =>
              /\ Quiet(members'[y], collaborator'[y], invited'[y])
              /\ invited'[y] = invited[y]
              /\ UNCHANGED <<members, collaborator, invited>>
                   \/ (members[y].row /\ "view" \notin members[y].caps)
<1> DEFINE h == handler[w]
           m == handler[w].local[y]
<1>0. /\ h \in Passes /\ h.at = "apply" /\ At(w, "apply") /\ y \in h.todo
      /\ members \in [People -> Rows] /\ collaborator \in Listings /\ invited \in Listings
  BY HandlersTyped, DutyShape DEF MatchRole, InviteMember, Prune, Pass, At, MembersTypeOK
<1>1. /\ m \in Rows /\ h.remote[y] = collaborator[y] /\ h.readable
      /\ Ready(h, y, members[y], invited[y]) /\ members[y] \in Rows
  BY <1>0, PassShape DEF Progress
<1>2. CASE MatchRole(w, y)
  <2>1. /\ h.pass = "match" /\ Onwards(w, y) /\ Settles(w, y) /\ UNCHANGED github
        /\ UNCHANGED <<requests, history>>
    BY <1>2 DEF MatchRole, Pass
  <2>2. members[y] = m /\ Offered(h, y, invited[y])
    BY <1>1, <2>1 DEF Ready
  <2> DEFINE role == h.remote[y]
             known == m.row /\ m.linked
  <2>3. CASE role = None \/ m.owner \/ (known /\ m.memo = role)
    <3>1. members' = members BY <1>2, <2>3 DEF MatchRole, Match
    <3>2. Matched(h, y, members[y]) BY <2>2, <2>3 DEF Matched
    <3>3. Ended(h, y, members'[y], invited'[y])
      BY <2>1, <2>2, <3>1, <3>2 DEF Ended, github
    <3> QED BY <1>0, <2>1, <3>1, <3>3 DEF github
  <2>4. CASE ~(role = None \/ m.owner \/ (known /\ m.memo = role))
    <3>1. ~Quiet(members[y], collaborator[y], invited[y])
      BY <1>1, <2>2, <2>4 DEF Quiet
    <3>2. PICK entry : /\ members' = [members EXCEPT ![y] = entry]
                     /\ entry.row /\ entry.linked /\ entry.memo = role
      <4>1. \/ members' = [members EXCEPT ![y] = Member(IF organisation THEN CapabilitiesForRole(role)
                                                        ELSE DefaultCapabilities, role, TRUE)]
            \/ /\ known
               /\ \/ members' = [members EXCEPT ![y] = [m EXCEPT !.caps = CapabilitiesForRole(role), !.memo = role]]
                  \/ members' = [members EXCEPT ![y] = [m EXCEPT !.memo = role]]
        BY <1>2, <2>4 DEF MatchRole, Match
      <4>2. \A caps : Member(caps, role, TRUE).row /\ Member(caps, role, TRUE).linked
                      /\ Member(caps, role, TRUE).memo = role
        BY DEF Member
      <4>3. role \in Roles \cup {None} /\ CapabilitiesForRole(role) \in SUBSET OwnerCapabilities
        BY <1>0, <1>1, RolesTyped DEF Listings
      <4>4. /\ [m EXCEPT !.caps = CapabilitiesForRole(role), !.memo = role].memo = role
            /\ [m EXCEPT !.caps = CapabilitiesForRole(role), !.memo = role].row = m.row
            /\ [m EXCEPT !.caps = CapabilitiesForRole(role), !.memo = role].linked = m.linked
            /\ [m EXCEPT !.memo = role].memo = role
            /\ [m EXCEPT !.memo = role].row = m.row
            /\ [m EXCEPT !.memo = role].linked = m.linked
        <5> DEFINE caps == CapabilitiesForRole(role)
        <5>1. m \in Rows /\ role \in Roles \cup {None} /\ caps \in SUBSET OwnerCapabilities
          BY <1>1, <4>3
        <5> HIDE DEF m, role, caps
        <5>2. /\ [m EXCEPT !.caps = caps, !.memo = role].memo = role
              /\ [m EXCEPT !.caps = caps, !.memo = role].row = m.row
              /\ [m EXCEPT !.caps = caps, !.memo = role].linked = m.linked
          BY ONLY <5>1 DEF Rows
        <5>3. /\ [m EXCEPT !.memo = role].memo = role
              /\ [m EXCEPT !.memo = role].row = m.row
              /\ [m EXCEPT !.memo = role].linked = m.linked
          BY ONLY <5>1, RowChanged
        <5> QED BY <5>2, <5>3 DEF caps
      <4>5. CASE \E caps : members' = [members EXCEPT ![y] = Member(caps, role, TRUE)]
        BY <4>2, <4>5
      <4>6. CASE known /\ members' = [members EXCEPT ![y] = [m EXCEPT !.caps = CapabilitiesForRole(role), !.memo = role]]
        BY <4>4, <4>6
      <4>7. CASE known /\ members' = [members EXCEPT ![y] = [m EXCEPT !.memo = role]]
        BY <4>4, <4>7
      <4> QED BY <4>1, <4>5, <4>6, <4>7
    <3>3. /\ members'[y] = entry
          /\ \A x \in People : x # y => members'[x] = members[x]
      BY <1>0, <3>2
    <3>4. Matched(h, y, members'[y]) BY <2>4, <3>2, <3>3 DEF Matched
    <3>5. Ended(h, y, members'[y], invited'[y])
      BY <2>1, <2>2, <3>4 DEF Ended, github
    <3> QED BY <1>0, <2>1, <3>1, <3>3, <3>5 DEF github
  <2> QED BY <2>3, <2>4
<1>3. CASE InviteMember(w, y)
  <2>1. /\ h.pass = "tell" /\ Onwards(w, y) /\ UNCHANGED <<requests, history>>
    BY <1>3 DEF InviteMember, Pass
  <2>2. Offered(h, y, invited[y]) /\ Matched(h, y, members[y])
    BY <1>1, <2>1 DEF Ready
  <2>3. CASE ~ToInvite(m) \/ SeenBy(h, y)
    <3>1. UNCHANGED github /\ UNCHANGED members /\ Settles(w, y)
      BY <1>3, <2>3 DEF InviteMember, ToInvite, SeenBy, Seen
    <3>2. Told(h, y, members[y], invited[y])
      BY <2>2, <2>3 DEF Told, Matched, Offered, SeenBy
    <3>3. Ended(h, y, members'[y], invited'[y]) BY <2>1, <3>1, <3>2 DEF Ended, github
    <3> QED BY <1>0, <2>1, <3>1, <3>3 DEF github
  <2>4. CASE ToInvite(m) /\ ~SeenBy(h, y)
    <3> DEFINE entry == [m EXCEPT !.memo = RoleForCapabilities(m.caps)]
    <3>1. /\ PushMember(y, m) /\ Settles(w, y)
          /\ members' = [members EXCEPT ![y] = entry]
      BY <1>3, <2>4 DEF InviteMember, ToInvite, SeenBy, Seen, Disturbed
    <3>2. collaborator[y] = None /\ invited[y] = None /\ members[y] = m /\ y \notin h.pending
      BY <1>1, <2>2, <2>4 DEF SeenBy, Offered, Matched
    <3>3. /\ entry.caps = m.caps /\ entry.row = m.row /\ entry.owner = m.owner /\ entry.linked = m.linked
          /\ RoleForCapabilities(m.caps) # None
      <4>1. RoleForCapabilities(m.caps) \in Roles \cup {None} /\ RoleForCapabilities(m.caps) # None
        BY <1>1, RowChanged, RolesTyped
      <4>2. m \in Rows BY <1>1
      <4> HIDE DEF m
      <4> QED BY ONLY <4>1, <4>2, RowChanged
    <3>4. members'[y] = entry /\ \A x \in People : x # y => members'[x] = members[x]
      <4> HIDE DEF entry
      <4> QED BY <1>0, <3>1
    <3>5. /\ collaborator' = collaborator
          /\ \A x \in People : x # y => invited'[x] = invited[x]
          /\ IF "view" \in m.caps THEN invited'[y] # None ELSE invited'[y] = None
      <4>1. CASE "view" \in m.caps
        BY <1>0, <2>4, <3>1, <3>2, <3>3, <4>1 DEF PushMember, AddCollaborator, ToInvite, Listings
      <4>2. CASE "view" \notin m.caps
        <5>1. collaborator' = [collaborator EXCEPT ![y] = None] /\ invited' = [invited EXCEPT ![y] = None]
          BY <2>4, <3>1, <4>2 DEF PushMember, RemoveCollaborator, ToInvite
        <5>2. collaborator' = collaborator
          BY <1>0, <3>2, <5>1 DEF Listings
        <5> QED BY <1>0, <4>2, <5>1, <5>2 DEF Listings
      <4> QED BY <4>1, <4>2
    <3> HIDE DEF entry
    <3>6. Told(h, y, members'[y], invited'[y])
      BY <2>4, <3>3, <3>4, <3>5 DEF Told, ToInvite
    <3>7. Ended(h, y, members'[y], invited'[y]) BY <2>1, <3>6 DEF Ended
    <3>8. ASSUME Quiet(members[y], collaborator[y], invited[y])
          PROVE  /\ Quiet(members'[y], collaborator'[y], invited'[y]) /\ invited'[y] = invited[y]
                 /\ members[y].row /\ "view" \notin members[y].caps
      BY <2>4, <3>2, <3>3, <3>4, <3>5, <3>8 DEF Quiet, ToInvite
    <3> QED BY <1>0, <2>1, <3>1, <3>4, <3>5, <3>7, <3>8
  <2> QED BY <2>3, <2>4
<1>4. CASE Prune(w, y)
  <2> DEFINE gone == h.readable /\ m.row /\ ~m.owner /\ m.linked /\ ~Seen(w, y) /\ m.memo # None
  <2>1. /\ h.pass = "prune" /\ UNCHANGED <<requests, history>> /\ UNCHANGED github
    BY <1>4 DEF Prune, Pass
  <2>2. Told(h, y, members[y], invited[y]) BY <1>1, <2>1 DEF Ready
  <2>3. CASE ~gone
    <3>1. UNCHANGED members /\ Onwards(w, y) /\ Settles(w, y)
      BY <1>4, <2>3 DEF Prune
    <3>2. Ended(h, y, members'[y], invited'[y]) BY <2>1, <2>2, <3>1 DEF Ended, Pruned, github
    <3> QED BY <1>0, <2>1, <3>1, <3>2 DEF github
  <2>4. CASE gone
    <3>1. members' = [members EXCEPT ![y] = NoMember] /\ Onwards(w, y) /\ Settles(w, y)
      BY <1>4, <2>4 DEF Prune, Disturbed
    <3>2. members'[y] = NoMember /\ \A x \in People : x # y => members'[x] = members[x]
      BY <1>0, <3>1
    <3>3. ~SeenBy(h, y) /\ ToInvite(m) BY <2>4 DEF Seen, SeenBy, ToInvite
    <3>4. Ended(h, y, members'[y], invited'[y]) BY <2>1, <3>2, <3>3 DEF Ended, Pruned
    <3>5. collaborator[y] = None BY <1>1, <3>3 DEF SeenBy
    <3>6. Quiet(members'[y], collaborator'[y], invited'[y])
      BY <2>1, <3>2, <3>5 DEF github, Quiet, NoMember, ToInvite
    <3>7. Offered(h, y, invited[y]) => members[y].row /\ "view" \notin members[y].caps
      BY <2>2, <3>3 DEF Told, Offered, SeenBy
    <3> QED BY <1>0, <2>1, <3>1, <3>2, <3>4, <3>6, <3>7 DEF github
  <2> QED BY <2>3, <2>4
<1> QED BY <1>2, <1>3, <1>4

\* What can happen while nothing disturbs the syncs: a sync begins alone, or goes on.
LEMMA Undisturbed ==
  ASSUME [MembersNext]_membersVars, calm' # "no"
  PROVE  \/ UNCHANGED membersVars
         \/ \E w \in Workers :
              \/ syncMembers(w) /\ Resting
              \/ Collaborators(w) \/ RepositoryInvitations(w) \/ ReadMembers(w)
              \/ \E x \in People : MatchRole(w, x) \/ InviteMember(w, x) \/ Prune(w, x)
<1>1. ~GitHubStep
  BY DEF GitHubStep, ChangeRole, AddAtGitHub, RemoveAtGitHub, Accept, AtGitHub, Disturbed
<1>2. ~linkRepository /\ ~LinkAnother /\ ~unlinkRepository /\ ~Restart
  BY DEF linkRepository, LinkAnother, unlinkRepository, Restart, Relink, Disturbed
<1>3. \A w \in Workers : Request(w) => syncMembers(w) /\ Resting
  BY DEF Request, updateMember, addMember, removeMember, listMembers, syncMembers, Disturbed
<1>4. \A w \in Workers : ~TellGitHub(w) /\ ~RememberRole(w) /\ ~WithdrawAtGitHub(w)
  BY DEF TellGitHub, RememberRole, WithdrawAtGitHub, Disturbed
<1> QED BY <1>1, <1>2, <1>3, <1>4 DEF MembersNext, Step

\* It is enough to look at the one handler that is not idle.
LEMMA LoneSync ==
  ASSUME NEW w \in Workers, \A u \in Workers : u # w => handler'[u] = Idle,
         handler'[w] # Idle => handler'[w].at \in SyncStages,
         Progress(handler[w])',
         calm' = "yes" => \A x \in People :
           /\ Quiet(members'[x], collaborator'[x], invited'[x])
           /\ handler'[w].at \in {"members", "apply"} => Offered(handler'[w], x, invited'[x])
  PROVE  CalmInv'
<1>0. Idle.at = "idle" BY DEF Idle
<1>1. OneSync'
  BY DEF OneSync
<1>2. \A u \in Workers : u # w => handler'[u].at = "idle"
  BY <1>0
<1>3. AllProgress'
  <2>1. ASSUME NEW u \in Workers, u # w PROVE Progress(handler[u])'
    BY <1>2, <2>1 DEF Progress
  <2> QED BY <2>1 DEF AllProgress
<1>4. calm' = "yes" => AllQuiet'
  BY <1>2 DEF AllQuiet
<1> QED BY <1>1, <1>3, <1>4 DEF CalmInv

\* A sync that has pruned everybody leaves nothing to do.
LEMMA PrunedQuiet ==
  ASSUME NEW h, NEW x, NEW entry, NEW invitation, Pruned(h, x, entry, invitation)
  PROVE  Quiet(entry, h.remote[x], invitation)
BY DEF Pruned, Told, Matched, Quiet, SeenBy, ToInvite, NoMember

LEMMA CalmKept ==
  ASSUME MembersTypeOK, CalmInv, [MembersNext]_membersVars PROVE CalmInv'
<1> SUFFICES ASSUME calm' # "no" PROVE CalmInv'
  BY DEF CalmInv
<1>0. Idle.at = "idle" BY DEF Idle
<1>1. CASE UNCHANGED membersVars
  BY <1>1 DEF membersVars, github, CalmInv, OneSync, AllProgress, Progress, AllQuiet
<1>2. ASSUME NEW w \in Workers, syncMembers(w), Resting PROVE CalmInv'
  <2>1. /\ handler'[w] = [at |-> "collaborators"] /\ handler'[w].at = "collaborators"
        /\ \A u \in Workers : u # w => handler'[u] = Idle
    <3>1. Begins(w, [at |-> "collaborators"]) BY <1>2 DEF syncMembers
    <3>2. Crossed(Idle) = Idle BY <1>0 DEF Crossed
    <3> QED BY <1>2, <3>1, <3>2, BeginsOnly DEF Resting
  <2>2. calm' = "yes" => \A x \in People : Quiet(members'[x], collaborator'[x], invited'[x])
    BY <1>2 DEF syncMembers, github, CalmInv, AllQuiet
  <2>3. Progress(handler[w])' BY <2>1 DEF Progress
  <2> QED BY <2>1, <2>2, <2>3, LoneSync DEF SyncStages
\* Before it, the sync was alone, and what it had read was so.
<1>3. ASSUME NEW w \in Workers, ~At(w, "idle"), calm # "no"
      PROVE  /\ \A u \in Workers : u # w => handler[u] = Idle
             /\ Progress(handler[w])
             /\ calm = "yes" => \A x \in People :
                  /\ Quiet(members[x], collaborator[x], invited[x])
                  /\ handler[w].at \in {"members", "apply"} => Offered(handler[w], x, invited[x])
  BY <1>0, <1>3 DEF CalmInv, OneSync, AllProgress, AllQuiet, At
<1>4. ASSUME NEW w \in Workers, Collaborators(w) PROVE CalmInv'
  <2>1. /\ ~At(w, "idle") /\ calm' = calm
        /\ UNCHANGED <<members, collaborator, invited>>
        /\ Goes(w, [at |-> "invitations", remote |-> collaborator])
    BY <1>4 DEF Collaborators, At, Disturbed, github
  <2>2. /\ handler'[w].at = "invitations" /\ handler'[w].remote = collaborator
        /\ \A u \in Workers : u # w => handler'[u] = Idle
    BY <1>3, <2>1, GoesOnly
  <2>3. Progress(handler[w])' BY <2>1, <2>2 DEF Progress
  <2> QED BY <1>3, <2>1, <2>2, <2>3, LoneSync DEF SyncStages
<1>5. ASSUME NEW w \in Workers, RepositoryInvitations(w) PROVE CalmInv'
  <2> DEFINE read == [at |-> "members", remote |-> handler[w].remote, readable |-> TRUE,
                      pending |-> {x \in People : invited[x] # None}]
  <2>1. /\ ~At(w, "idle") /\ At(w, "invitations") /\ calm' = calm
        /\ UNCHANGED <<members, collaborator, invited>> /\ Goes(w, read)
    BY <1>5 DEF RepositoryInvitations, At, Disturbed, github
  <2>2. /\ handler'[w] = read /\ \A u \in Workers : u # w => handler'[u] = Idle
    <3> HIDE DEF read
    <3> QED BY <1>3, <2>1, GoesOnly
  <2>3. /\ read.at = "members" /\ read.remote = handler[w].remote /\ read.readable
        /\ \A x \in People : Offered(read, x, invited[x])
    BY DEF Offered
  <2> HIDE DEF read
  <2>4. \A x \in People : handler[w].remote[x] = collaborator[x]
    BY <1>3, <2>1 DEF Progress, At
  <2>5. Progress(handler[w])' BY <2>1, <2>2, <2>3, <2>4 DEF Progress
  <2> QED BY <1>3, <2>1, <2>2, <2>3, <2>5, LoneSync DEF SyncStages
<1>6. ASSUME NEW w \in Workers, ReadMembers(w) PROVE CalmInv'
  <2> DEFINE read == [at |-> "apply", pass |-> "match", todo |-> People, remote |-> handler[w].remote,
                      pending |-> handler[w].pending, readable |-> handler[w].readable, local |-> members]
  <2>1. /\ ~At(w, "idle") /\ At(w, "members") /\ calm' = calm
        /\ UNCHANGED <<members, collaborator, invited>> /\ Goes(w, read)
    BY <1>6 DEF ReadMembers, At, github
  <2>2. /\ handler'[w] = read /\ \A u \in Workers : u # w => handler'[u] = Idle
    <3> HIDE DEF read
    <3> QED BY <1>3, <2>1, GoesOnly
  <2>3. /\ read.at = "apply" /\ read.pass = "match" /\ read.todo = People /\ read.local = members
        /\ read.remote = handler[w].remote /\ read.readable = handler[w].readable
        /\ read.pending = handler[w].pending
    OBVIOUS
  <2> HIDE DEF read
  <2>4. /\ handler[w].readable
        /\ \A x \in People : /\ handler[w].remote[x] = collaborator[x]
                             /\ Offered(handler[w], x, invited[x])
    BY <1>3, <2>1 DEF Progress, At
  <2>5. \A x \in People : Offered(read, x, invited[x]) /\ Ready(read, x, members[x], invited[x])
    BY <2>3, <2>4 DEF Offered, Ready
  <2>6. Progress(handler[w])' BY <2>1, <2>2, <2>3, <2>4, <2>5 DEF Progress
  <2> QED BY <1>3, <2>1, <2>2, <2>3, <2>5, <2>6, LoneSync DEF SyncStages
<1>7. ASSUME NEW w \in Workers, NEW x \in People, MatchRole(w, x) \/ InviteMember(w, x) \/ Prune(w, x)
      PROVE  CalmInv'
  <2>1. ~At(w, "idle") /\ At(w, "apply")
    BY <1>7 DEF MatchRole, InviteMember, Prune, Pass, At
  <2>2. calm # "no"
    BY <1>7 DEF MatchRole, InviteMember, Prune, Settles, Disturbed
  <2>3. /\ \A u \in Workers : u # w => handler[u] = Idle
        /\ Progress(handler[w])
        /\ calm = "yes" => \A y \in People : /\ Quiet(members[y], collaborator[y], invited[y])
                                             /\ Offered(handler[w], y, invited[y])
    BY <1>3, <2>1, <2>2 DEF At
  <2>4. /\ x \in handler[w].todo /\ Onwards(w, x) /\ Settles(w, x)
        /\ \A y \in People : y # x => members'[y] = members[y] /\ invited'[y] = invited[y]
        /\ collaborator' = collaborator
        /\ Ended(handler[w], x, members'[x], invited'[x])
    BY <1>7, <2>3, TurnTaken
  <2>5. calm = "yes" => Quiet(members'[x], collaborator'[x], invited'[x]) /\ invited'[x] = invited[x]
    BY <1>7, <2>3, TurnTaken
  <2>6. /\ handler'[w] = Idle \/ SameReading(handler[w], handler'[w])
        /\ \A u \in Workers : u # w => handler'[u] = Idle
    BY <2>1, <2>3, <2>4, OnwardsReads
  <2>7. /\ Progress(handler[w])'
        /\ Done(w, x) => \A y \in People : Pruned(handler[w], y, members'[y], invited'[y])
    BY <2>1, <2>3, <2>4, PassProgress
  <2>8. handler'[w] # Idle => handler'[w].at \in SyncStages
    BY <2>6 DEF SameReading, SyncStages
  <2>9. ASSUME calm' = "yes", NEW y \in People
        PROVE  /\ Quiet(members'[y], collaborator'[y], invited'[y])
               /\ handler'[w].at \in {"members", "apply"} => Offered(handler'[w], y, invited'[y])
    <3>1. CASE calm = "yes"
      <4>1. Quiet(members'[y], collaborator'[y], invited'[y]) /\ invited'[y] = invited[y]
        BY <2>3, <2>4, <2>5, <3>1
      <4>2. SameReading(handler[w], handler'[w]) => Offered(handler'[w], y, invited'[y])
        BY <2>3, <3>1, <4>1 DEF SameReading, Offered
      <4> QED BY <1>0, <2>6, <4>1, <4>2
    <3>2. CASE calm # "yes"
      <4>1. Done(w, x) BY <2>4, <2>9, <3>2 DEF Settles
      <4>2. Quiet(members'[y], handler[w].remote[y], invited'[y]) BY <2>7, <4>1, PrunedQuiet
      <4>3. handler[w].remote[y] = collaborator'[y] BY <2>1, <2>3, <2>4 DEF Progress, At
      <4>4. handler'[w] = Idle
        BY <2>4, <4>1, GoesOnly DEF Onwards, Ends, Done
      <4> QED BY <1>0, <4>2, <4>3, <4>4
    <3> QED BY <3>1, <3>2
  <2> QED BY <2>6, <2>7, <2>8, <2>9, LoneSync
<1> QED BY <1>1, <1>2, <1>4, <1>5, <1>6, <1>7, Undisturbed

\* A sync right after one that nothing disturbed has nothing to do, as long as every
\* member may view: it changes no row and calls nothing at GitHub.
THEOREM NoThrashHolds == MembersSpec => NoThrash
<1>1. MembersInit => MembersTypeOK /\ CalmInv
  BY MembersInitTyped DEF MembersInit, CalmInv
<1>2. MembersTypeOK /\ CalmInv /\ [MembersNext]_membersVars => MembersTypeOK' /\ CalmInv'
  BY MembersNextTyped, CalmKept
<1>3. MembersTypeOK /\ CalmInv /\ [MembersNext]_membersVars =>
        [calm = "yes" /\ calm' = "yes" /\ (\A x \in People : members[x].row => "view" \in members[x].caps)
           => UNCHANGED <<members, collaborator, invited>>]_membersVars
  <2> SUFFICES ASSUME MembersTypeOK, CalmInv, [MembersNext]_membersVars, calm = "yes", calm' = "yes",
                      \A x \in People : members[x].row => "view" \in members[x].caps
               PROVE  UNCHANGED <<members, collaborator, invited>>
    OBVIOUS
  <2>1. CASE UNCHANGED membersVars BY <2>1 DEF membersVars, github
  <2>2. ASSUME NEW w \in Workers,
               syncMembers(w) \/ Collaborators(w) \/ RepositoryInvitations(w) \/ ReadMembers(w)
        PROVE  UNCHANGED <<members, collaborator, invited>>
    BY <2>2 DEF syncMembers, Collaborators, RepositoryInvitations, ReadMembers, github
  <2>3. ASSUME NEW w \in Workers, NEW x \in People, MatchRole(w, x) \/ InviteMember(w, x) \/ Prune(w, x)
        PROVE  UNCHANGED <<members, collaborator, invited>>
    <3>1. handler[w].at = "apply"
      BY <2>3 DEF MatchRole, InviteMember, Prune, Pass, At
    <3>2. /\ Progress(handler[w]) /\ Quiet(members[x], collaborator[x], invited[x])
          /\ Offered(handler[w], x, invited[x])
      BY <3>1 DEF CalmInv, AllProgress, AllQuiet
    <3> QED BY <2>3, <3>2, TurnTaken
  <2> QED BY <2>1, <2>2, <2>3, Undisturbed
<1> QED BY <1>1, <1>2, <1>3, PTL DEF MembersSpec, NoThrash
================================================================================
