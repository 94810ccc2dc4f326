------------------------------ MODULE MeshProofs -------------------------------
(***************************************************************************)
(* Theorems about what the machines of a network do among themselves: the  *)
(* head of its Ray cluster (RayHead), for any machines, order of node ids  *)
(* and legacy announcements, and the use of a join code (PeerDirectory),   *)
(* for any peers, requests and uses.                                       *)
(*                                                                         *)
(* RecordHonest is not inductive alone: the record is written several      *)
(* steps after the process is started, so the proof needs StartsClean (a   *)
(* start under way has removed the record, and what runs is what it        *)
(* started).                                                               *)
(***************************************************************************)
EXTENDS RayHead, PeerDirectory, FiniteSetTheorems, TLAPS

--------------------------------------------------------------------------------
(* The order of announcements.                                                *)

\* Announcements as releases write them: a generation, or a clock without one.
Wellformed == {a \in Announcements : a.gen > 0 => a.stamp = 0 /\ a.node # NoOne}

\* Of two announcements neither of which replaces the other, nothing differs.
LEMMA NewerIsTotal ==
  ASSUME NEW a \in Wellformed, NEW b \in Wellformed,
         ~rayAnnouncementNewer(a, b), ~rayAnnouncementNewer(b, a)
  PROVE  a = b
<1>1. a.gen = b.gen /\ a.stamp = b.stamp
  BY DEF Wellformed, Announcements, rayAnnouncementNewer
<1>2. Rank[a.node] = Rank[b.node]
  BY <1>1, RayAssumption DEF Wellformed, Announcements, rayAnnouncementNewer, TieBreak
<1>3. a.node = b.node
  BY <1>2, RayAssumption DEF Wellformed, Announcements
<1>4. a.on = b.on
  BY <1>1, <1>3 DEF Wellformed, Announcements, rayAnnouncementNewer, TieBreak
<1>5. QED BY <1>1, <1>3, <1>4 DEF Wellformed, Announcements

\* A tie is broken one way only.
LEMMA TieBreakOrders ==
  ASSUME NEW a \in Wellformed, NEW b \in Wellformed, NEW c \in Wellformed
  PROVE  /\ ~(TieBreak(a, b) /\ TieBreak(b, a))
         /\ TieBreak(a, b) /\ TieBreak(b, c) => TieBreak(a, c)
  BY RayAssumption DEF Wellformed, Announcements, TieBreak

\* No announcement is newer than one that is newer than itself.
LEMMA NewerIsAsymmetric ==
  ASSUME NEW a \in Wellformed, NEW b \in Wellformed, rayAnnouncementNewer(a, b)
  PROVE  ~rayAnnouncementNewer(b, a)
  BY TieBreakOrders DEF Wellformed, Announcements, rayAnnouncementNewer

\* Newer announcements of newer ones are newer.
LEMMA NewerIsTransitive ==
  ASSUME NEW a \in Wellformed, NEW b \in Wellformed, NEW c \in Wellformed,
         rayAnnouncementNewer(a, b), rayAnnouncementNewer(b, c)
  PROVE  rayAnnouncementNewer(a, c)
  BY TieBreakOrders DEF Wellformed, Announcements, rayAnnouncementNewer

\* storeRayAnnouncement: two announcements leave a machine with the same result in
\* whichever order check-ins and sockets deliver them.
THEOREM ArrivalOrderIrrelevant ==
  ASSUME NEW a \in Wellformed, NEW b \in Wellformed, NEW c \in Wellformed
  PROVE  Stored(a, Stored(b, c)) = Stored(b, Stored(a, c))
<1> DEFINE N(x, y) == rayAnnouncementNewer(x, y)
<1>1. CASE N(a, c) /\ N(b, c)
  BY <1>1, NewerIsTotal, NewerIsAsymmetric DEF Stored
<1>2. CASE N(a, c) /\ ~N(b, c)
  BY <1>2, NewerIsTransitive DEF Stored
<1>3. CASE ~N(a, c) /\ N(b, c)
  BY <1>3, NewerIsTransitive DEF Stored
<1>4. CASE ~N(a, c) /\ ~N(b, c)
  BY <1>4 DEF Stored
<1>5. QED BY <1>1, <1>2, <1>3, <1>4

\* storeRayAnnouncement: an announcement that arrives again, after any other one,
\* changes nothing.
THEOREM RepetitionIrrelevant ==
  ASSUME NEW a \in Wellformed, NEW b \in Wellformed, NEW c \in Wellformed
  PROVE  Stored(a, Stored(b, Stored(a, c))) = Stored(b, Stored(a, c))
<1> DEFINE kept == Stored(a, c)
<1>1. kept \in Wellformed /\ ~rayAnnouncementNewer(a, kept)
  BY NewerIsAsymmetric DEF Stored
<1>2. CASE rayAnnouncementNewer(b, kept)
  <2>1. ~rayAnnouncementNewer(a, b)
    BY <1>1, <1>2, NewerIsTransitive
  <2>2. QED BY <1>2, <2>1 DEF Stored
<1>3. CASE ~rayAnnouncementNewer(b, kept)
  BY <1>1, <1>3 DEF Stored
<1>4. QED BY <1>2, <1>3

--------------------------------------------------------------------------------
(* The record and the process.                                                *)

\* A handler that is starting Ray, from the removal of the old record to the new one.
Starting(r) == \/ r.pc \in {"launch", "wait", "note"}
               \/ r.pc \in {"read", "store"} /\ r.kind = "start"

\* A start under way has removed the record, and what runs is what it started.
StartsClean == \A d \in Machines :
  /\ Starting(act[d]) => file[d] = NoOne /\ act[d].goal \in Machines
  /\ Starting(act[d]) /\ act[d].pc # "launch" => raylet[d] \in {NoOne, act[d].goal}
  /\ act[d].pc = "halt" => act[d].kind # "start"

RecordInv == RayTypeOK /\ RecordHonest /\ StartsClean

\* No machine has started anything yet.
LEMMA RayInitInv == RayInit => RecordInv
<1> SUFFICES ASSUME RayInit PROVE RecordInv
  OBVIOUS
<1>1. Silence \in Announcements /\ Legacy \subseteq Announcements
  BY RayAssumption DEF Silence, Announcements
<1>2. \A d \in Machines : act[d] = Resting /\ act[d] \in Acts /\ act[d].pc = "rest"
  BY DEF RayInit, Resting, Acts
<1>3. RayTypeOK
  <2>1. ann \in [Machines -> Announcements]
    BY <1>1 DEF RayInit
  <2>2. act \in [Machines -> Acts]
    BY <1>2 DEF RayInit
  <2>3. /\ raylet \in [Machines -> Machines \cup {NoOne}]
        /\ file \in [Machines -> Machines \cup {NoOne}]
        /\ copied \in [Machines -> SUBSET Announcements]
    BY DEF RayInit
  <2>4. \A d \in Machines : act[d].pc \in Underway => act[d].goal \in Machines
    BY <1>2 DEF Underway
  <2>5. QED BY <2>1, <2>2, <2>3, <2>4 DEF RayInit, RayTypeOK
<1>4. RecordHonest /\ StartsClean
  BY <1>2 DEF RayInit, RecordHonest, StartsClean, Starting
<1>5. QED BY <1>3, <1>4 DEF RecordInv

\* Gossip and adoption touch the announcements only.
LEMMA GossipInv ==
  ASSUME RecordInv, NEW d \in Machines,
         \/ SendAnnouncement(d) \/ \E a \in sent : mergeRayAnnouncement(d, a)
         \/ CopyMemberships(d) /\ moves' \in Nat
         \/ ReplaceMemberships(d)
  PROVE  RecordInv'
<1>1. ann' \in [Machines -> Announcements] /\ sent' \subseteq Announcements
      /\ copied' \in [Machines -> SUBSET Announcements]
  BY DEF RecordInv, RayTypeOK, SendAnnouncement, mergeRayAnnouncement, Stored,
         CopyMemberships, ReplaceMemberships
<1>2. UNCHANGED <<raylet, file, act, selected, eligible, up>> /\ moves' \in Nat
  BY DEF RecordInv, RayTypeOK, SendAnnouncement, mergeRayAnnouncement,
         CopyMemberships, ReplaceMemberships
<1>3. RayTypeOK'
  BY <1>1, <1>2 DEF RecordInv, RayTypeOK
<1>4. QED
  BY <1>2, <1>3 DEF RecordInv, RecordHonest, StartsClean, Starting

\* Taking rayActionMu begins no start that has not still to remove the record.
LEMMA BeginInv ==
  ASSUME RecordInv, NEW d \in Machines,
         NEW pc \in {"stop", "halt", "read"},
         NEW kind \in {"reconcile", "start", "stop", "repair", "quit"},
         NEW goal \in Machines \cup {NoOne}, NEW retract \in BOOLEAN,
         Begin(d, pc, kind, goal, retract),
         pc = "stop" => goal \in Machines, pc # "stop" => kind # "start",
         selected' \subseteq Machines, moves' \in Nat,
         UNCHANGED <<ann, sent, raylet, file, copied, eligible, up>>
  PROVE  RecordInv'
<1>1. act' = [act EXCEPT ![d] = [pc |-> pc, kind |-> kind, goal |-> goal, gen |-> 0,
                                 retract |-> retract]]
  BY DEF Begin
<1>2. /\ act' \in [Machines -> Acts]
      /\ \A e \in Machines : act'[e].pc \in Underway => act'[e].goal \in Machines
  BY <1>1 DEF RecordInv, RayTypeOK, Acts, Underway
<1>3. RayTypeOK'
  BY <1>2 DEF RecordInv, RayTypeOK
<1>4. RecordHonest'
  BY DEF RecordInv, RecordHonest
<1>5. StartsClean'
  BY <1>1 DEF RecordInv, RayTypeOK, StartsClean, Starting
<1>6. QED BY <1>3, <1>4, <1>5 DEF RecordInv

\* A person or the reconciler takes rayActionMu.
LEMMA TakenInv ==
  ASSUME RecordInv, NEW d \in Machines, moves' \in Nat,
         \/ Reconcile(d) \/ startRay(d, TRUE) \/ startRay(d, FALSE)
         \/ stopRay(d) \/ repairRay(d) \/ stopEverything(d)
  PROVE  RecordInv'
<1> USE DEF Untouched
<1>0. ann[d] \in Announcements /\ selected \subseteq Machines
  BY DEF RecordInv, RayTypeOK
<1>1. CASE SwitchOff(d)
  <2>1. PICK pc \in {"halt", "read"}, retract \in BOOLEAN :
          Begin(d, pc, "reconcile", NoOne, retract)
    BY <1>1 DEF SwitchOff
  <2>2. UNCHANGED <<ann, sent, raylet, file, copied, selected, eligible, up>>
    BY <1>1 DEF SwitchOff
  <2>3. QED BY <1>0, <2>1, <2>2, BeginInv
<1>2. CASE SwitchOn(d)
  <2>1. ann[d].node \in Machines
    BY <1>0, <1>2 DEF Announcements, SwitchOn, Serving
  <2>2. QED BY <1>0, <1>2, <2>1, BeginInv DEF SwitchOn
<1>3. ASSUME NEW asHead \in BOOLEAN, startRay(d, asHead)
      PROVE  RecordInv'
  <2>1. PICK goal \in Machines : Begin(d, "stop", "start", goal, FALSE)
    BY <1>0, <1>3 DEF startRay, Announcements
  <2>2. /\ UNCHANGED <<ann, sent, raylet, file, copied, eligible, up>>
        /\ selected' \subseteq Machines
    BY <1>0, <1>3 DEF startRay
  <2>3. QED BY <2>1, <2>2, BeginInv
<1>4. CASE stopRay(d)
  BY <1>0, <1>4, BeginInv DEF stopRay
<1>5. CASE repairRay(d)
  BY <1>0, <1>5, BeginInv DEF repairRay
<1>6. CASE stopEverything(d)
  BY <1>0, <1>6, BeginInv DEF stopEverything
<1>7. QED BY <1>1, <1>2, <1>3, <1>4, <1>5, <1>6 DEF Reconcile
\* A step of the handler that holds rayActionMu on machine d: it goes on as r says,
\* leaves process p and record f, and p and f fit each other and r.
OwnStep(d, r, p, f) ==
  /\ r \in Acts /\ p \in Machines \cup {NoOne} /\ f \in Machines \cup {NoOne}
  /\ act' = [act EXCEPT ![d] = r]
  /\ raylet' = [raylet EXCEPT ![d] = p]
  /\ file' = [file EXCEPT ![d] = f]
  /\ ann' \in [Machines -> Announcements]
  /\ copied' \in [Machines -> SUBSET Announcements]
  /\ (selected \cup eligible \cup up)' \subseteq Machines
  /\ sent' = sent /\ moves' \in Nat
  /\ r.pc \in Underway => r.goal \in Machines
  /\ f # NoOne => p \in {NoOne, f}
  /\ Starting(r) => f = NoOne /\ r.goal \in Machines
  /\ Starting(r) /\ r.pc # "launch" => p \in {NoOne, r.goal}
  /\ r.pc = "halt" => r.kind # "start"

\* Such a step preserves the invariant.
LEMMA OwnStepInv ==
  ASSUME RecordInv, NEW d \in Machines, NEW r, NEW p, NEW f, OwnStep(d, r, p, f)
  PROVE  RecordInv'
<1> USE DEF OwnStep
<1>1. RayTypeOK'
  BY DEF RecordInv, RayTypeOK
<1>2. RecordHonest'
  BY DEF RecordInv, RayTypeOK, RecordHonest
<1>3. StartsClean'
  <2>1. \A e \in Machines : act'[e] = IF e = d THEN r ELSE act[e]
    BY DEF RecordInv, RayTypeOK
  <2>2. \A e \in Machines : /\ raylet'[e] = IF e = d THEN p ELSE raylet[e]
                            /\ file'[e] = IF e = d THEN f ELSE file[e]
    BY DEF RecordInv, RayTypeOK
  <2>3. QED BY <2>1, <2>2 DEF RecordInv, StartsClean
<1>4. QED BY <1>1, <1>2, <1>3 DEF RecordInv

\* The steps of a handler preserve the invariant.
LEMMA HandlerInv ==
  ASSUME RecordInv, NEW d \in Machines, HandlerStep(d)
  PROVE  RecordInv'
<1> DEFINE my == act[d]
<1> USE DEF Untouched, At, Goto
<1>0. /\ my \in Acts /\ Resting \in Acts /\ (my.pc \in Underway => my.goal \in Machines)
      /\ raylet[d] \in Machines \cup {NoOne} /\ file[d] \in Machines \cup {NoOne}
      /\ raylet = [raylet EXCEPT ![d] = raylet[d]] /\ file = [file EXCEPT ![d] = file[d]]
      /\ ann \in [Machines -> Announcements] /\ copied \in [Machines -> SUBSET Announcements]
      /\ (selected \cup eligible \cup up) \subseteq Machines /\ moves \in Nat
      /\ file[d] # NoOne => raylet[d] \in {NoOne, file[d]}
      /\ Starting(my) => file[d] = NoOne /\ my.goal \in Machines
      /\ Starting(my) /\ my.pc # "launch" => raylet[d] \in {NoOne, my.goal}
  BY DEF RecordInv, RayTypeOK, RecordHonest, StartsClean, Acts, Resting
<1>1. CASE Reconcile(d)
  BY <1>0, <1>1, TakenInv DEF Reconcile, SwitchOff, SwitchOn
<1>2. CASE StopLocalRay(d)
  <2> DEFINE r == IF my.kind = "repair" THEN Resting ELSE [my EXCEPT !.pc = "launch"]
  <2>1. r \in Acts /\ (r.pc \in Underway => r.goal \in Machines) /\ r.pc # "halt"
    BY <1>0, <1>2 DEF StopLocalRay, Acts, Underway, Resting
  <2>2. Starting(r) => r.pc = "launch" /\ r.goal \in Machines
    BY <1>0, <1>2 DEF StopLocalRay, Starting, Resting, Underway
  <2>3. act' = [act EXCEPT ![d] = r]
    BY <1>2 DEF StopLocalRay
  <2> HIDE DEF r
  <2>4. OwnStep(d, r, NoOne, NoOne)
    BY <1>0, <1>2, <2>1, <2>2, <2>3 DEF OwnStep, StopLocalRay
  <2>5. QED BY <2>4, OwnStepInv
<1>3. CASE StopFails(d)
  <2>1. PICK p \in {raylet[d], NoOne} : raylet' = [raylet EXCEPT ![d] = p]
    BY <1>0, <1>3 DEF StopFails
  <2>2. act' = [act EXCEPT ![d] = Resting] /\ file' = [file EXCEPT ![d] = file[d]]
    BY <1>0, <1>3 DEF StopFails
  <2>3. ~Starting(Resting) /\ Resting.pc \notin Underway /\ Resting.pc # "halt"
    BY DEF Starting, Resting, Underway
  <2>4. OwnStep(d, Resting, p, file[d])
    BY <1>0, <1>3, <2>1, <2>2, <2>3 DEF OwnStep, StopFails
  <2>5. QED BY <2>4, OwnStepInv
<1>4. CASE Halt(d)
  <2> DEFINE r == IF AfterHalt(d) = "rest" THEN Resting ELSE [my EXCEPT !.pc = AfterHalt(d)]
  <2>1. r \in Acts /\ r.pc \notin Underway /\ r.pc # "halt"
    BY <1>0 DEF AfterHalt, Acts, Underway, Resting
  <2>2. my.kind # "start"
    BY <1>4 DEF Halt, RecordInv, StartsClean
  <2>3. ~Starting(r)
    BY <1>0, <2>2 DEF Starting, AfterHalt, Acts, Resting
  <2>4. act' = [act EXCEPT ![d] = r]
    BY <1>4 DEF Halt
  <2> HIDE DEF r
  <2>5. OwnStep(d, r, NoOne, NoOne)
    BY <1>0, <1>4, <2>1, <2>3, <2>4 DEF OwnStep, Halt
  <2>6. QED BY <2>5, OwnStepInv
<1>5. CASE HaltFails(d)
  <2> DEFINE pc == IF my.kind = "stop" THEN "rest" ELSE AfterHalt(d)
             r == IF pc = "rest" THEN Resting ELSE [my EXCEPT !.pc = pc]
             f == IF my.kind = "stop" THEN file[d] ELSE NoOne
  <2>1. r \in Acts /\ r.pc \notin Underway /\ r.pc # "halt"
    BY <1>0 DEF AfterHalt, Acts, Underway, Resting
  <2>2. my.kind # "start"
    BY <1>5 DEF HaltFails, RecordInv, StartsClean
  <2>3. ~Starting(r)
    BY <1>0, <2>2 DEF Starting, AfterHalt, Acts, Resting
  <2>4. act' = [act EXCEPT ![d] = r] /\ file' = [file EXCEPT ![d] = f]
    BY <1>0, <1>5 DEF HaltFails
  <2>5. f \in Machines \cup {NoOne} /\ (f # NoOne => raylet[d] \in {NoOne, f})
    BY <1>0
  <2> HIDE DEF r, f
  <2>6. OwnStep(d, r, raylet[d], f)
    BY <1>0, <1>5, <2>1, <2>3, <2>4, <2>5 DEF OwnStep, HaltFails
  <2>7. QED BY <2>6, OwnStepInv
<1>6. CASE Launch(d)
  <2> DEFINE r == [my EXCEPT !.pc = "wait"]
  <2>1. r \in Acts /\ r.goal \in Machines /\ r.goal = my.goal /\ r.pc = "wait"
    BY <1>0, <1>6 DEF Launch, Acts, Underway
  <2>2. act' = [act EXCEPT ![d] = r] /\ file[d] = NoOne
    BY <1>0, <1>6 DEF Launch, Starting
  <2> HIDE DEF r
  <2>3. OwnStep(d, r, my.goal, NoOne)
    BY <1>0, <1>6, <2>1, <2>2 DEF OwnStep, Launch
  <2>4. QED BY <2>3, OwnStepInv
<1>7. CASE WaitForNode(d)
  <2> DEFINE r == [my EXCEPT !.pc = IF my.kind = "start" /\ my.goal = d THEN "read" ELSE "note"]
  <2>1. r \in Acts /\ r.goal \in Machines /\ r.goal = my.goal /\ r.pc \in {"read", "note"}
    BY <1>0, <1>7 DEF WaitForNode, Acts, Underway
  <2>2. act' = [act EXCEPT ![d] = r] /\ file[d] = NoOne /\ raylet[d] \in {NoOne, my.goal}
    BY <1>0, <1>7 DEF WaitForNode, Starting
  <2> HIDE DEF r
  <2>3. OwnStep(d, r, raylet[d], NoOne)
    BY <1>0, <1>7, <2>1, <2>2 DEF OwnStep, WaitForNode
  <2>4. QED BY <2>3, OwnStepInv
<1>8. CASE StartFails(d)
  <2>1. file[d] = NoOne /\ my.goal \in Machines
    BY <1>0, <1>8 DEF StartFails, Starting, Underway
  <2>2. PICK p \in {NoOne, my.goal} : raylet' = [raylet EXCEPT ![d] = p]
    BY <1>8 DEF StartFails
  <2>3. act' = [act EXCEPT ![d] = Resting] /\ file' = [file EXCEPT ![d] = file[d]]
    BY <1>0, <1>8 DEF StartFails
  <2>4. ~Starting(Resting) /\ Resting.pc \notin Underway /\ Resting.pc # "halt"
    BY DEF Starting, Resting, Underway
  <2>5. OwnStep(d, Resting, p, NoOne)
    BY <1>0, <1>8, <2>1, <2>2, <2>3, <2>4 DEF OwnStep, StartFails
  <2>6. QED BY <2>5, OwnStepInv
<1>9. CASE ReadGeneration(d)
  <2> DEFINE q == [my EXCEPT !.pc = "store"]
             r == [q EXCEPT !.gen = ann[d].gen + 1]
  <2>1. ann[d].gen + 1 \in Nat
    BY <1>0 DEF Announcements
  <2>2. q \in Acts /\ q.goal = my.goal /\ q.kind = my.kind /\ q.pc = "store"
    BY <1>0 DEF Acts
  <2>3. act' = [act EXCEPT ![d] = r]
    BY <1>0, <1>9 DEF ReadGeneration, RecordInv, RayTypeOK, Acts
  <2> HIDE DEF q
  <2>4. r \in Acts /\ r.goal = my.goal /\ r.kind = my.kind /\ r.pc = "store"
    BY <2>1, <2>2 DEF Acts
  <2>5. Starting(r) => Starting(my) /\ my.pc # "launch"
    BY <1>9, <2>4 DEF ReadGeneration, Starting
  <2>6. r.pc \notin Underway
    BY <2>4 DEF Underway
  <2> HIDE DEF r
  <2>7. OwnStep(d, r, raylet[d], file[d])
    BY <1>0, <1>9, <2>3, <2>4, <2>5, <2>6 DEF OwnStep, ReadGeneration
  <2>8. QED BY <2>7, OwnStepInv
<1>10. CASE announceRayHead(d)
  <2> DEFINE next == [gen |-> my.gen, stamp |-> 0, node |-> d, on |-> my.kind = "start"]
             pc == CASE my.kind = "start" -> "note" [] my.kind = "quit" -> "exit"
                     [] OTHER -> "rest"
             r == IF pc = "rest" THEN Resting ELSE [my EXCEPT !.pc = pc]
  <2>1. ann' = [ann EXCEPT ![d] = Stored(next, @)] /\ act' = [act EXCEPT ![d] = r]
    BY <1>10 DEF announceRayHead
  <2>2. next \in Announcements
    BY <1>0 DEF Acts, Announcements
  <2>3. ann' \in [Machines -> Announcements]
    BY <1>0, <2>1, <2>2 DEF Stored
  <2>4. /\ r \in Acts /\ r.pc # "halt"
        /\ Starting(r) \/ r.pc \in Underway =>
             r.goal = my.goal /\ my.kind = "start"
    BY <1>0 DEF Acts, Resting, Starting, Underway
  <2>5. my.kind = "start" => Starting(my) /\ my.pc # "launch"
    BY <1>10 DEF announceRayHead, Starting
  <2>6. Starting(r) \/ r.pc \in Underway => r.goal \in Machines
    BY <1>0, <2>4, <2>5
  <2> HIDE DEF r
  <2>7. OwnStep(d, r, raylet[d], file[d])
    BY <1>0, <1>10, <2>1, <2>3, <2>4, <2>5, <2>6 DEF OwnStep, announceRayHead
  <2>8. QED BY <2>7, OwnStepInv
<1>11. CASE writeLocalRayState(d)
  <2>1. my.goal \in Machines /\ raylet[d] \in {NoOne, my.goal}
    BY <1>0, <1>11 DEF writeLocalRayState, Starting, Underway
  <2>2. act' = [act EXCEPT ![d] = Resting]
    BY <1>11 DEF writeLocalRayState
  <2>3. ~Starting(Resting) /\ Resting.pc \notin Underway /\ Resting.pc # "halt"
    BY DEF Starting, Resting, Underway
  <2>4. OwnStep(d, Resting, raylet[d], my.goal)
    BY <1>0, <1>11, <2>1, <2>2, <2>3 DEF OwnStep, writeLocalRayState
  <2>5. QED BY <2>4, OwnStepInv
<1>12. CASE Exit(d)
  <2>1. act' = [act EXCEPT ![d] = Resting]
    BY <1>12 DEF Exit
  <2>2. ~Starting(Resting) /\ Resting.pc \notin Underway /\ Resting.pc # "halt"
    BY DEF Starting, Resting, Underway
  <2>3. OwnStep(d, Resting, raylet[d], file[d])
    BY <1>0, <1>12, <2>1, <2>2 DEF OwnStep, Exit
  <2>4. QED BY <2>3, OwnStepInv
<1>13. QED
  BY <1>1, <1>2, <1>3, <1>4, <1>5, <1>6, <1>7, <1>8, <1>9, <1>10, <1>11, <1>12
  DEF HandlerStep
\* What people do to a machine, and what happens to it, preserves the invariant.
LEMMA PersonInv ==
  ASSUME RecordInv, NEW d \in Machines, PersonStep(d)
  PROVE  RecordInv'
<1>0. /\ moves \in Nat /\ moves' = moves + 1 /\ moves' \in Nat
      /\ raylet = [raylet EXCEPT ![d] = raylet[d]] /\ file = [file EXCEPT ![d] = file[d]]
      /\ raylet[d] \in Machines \cup {NoOne} /\ file[d] \in Machines \cup {NoOne}
      /\ file[d] # NoOne => raylet[d] \in {NoOne, file[d]}
      /\ (selected \cup eligible \cup up) \subseteq Machines
      /\ ann \in [Machines -> Announcements] /\ copied \in [Machines -> SUBSET Announcements]
  BY DEF RecordInv, RayTypeOK, RecordHonest, PersonStep, Move
<1>1. CASE \/ startRay(d, TRUE) \/ startRay(d, FALSE)
           \/ stopRay(d) \/ repairRay(d) \/ stopEverything(d)
  BY <1>0, <1>1, TakenInv
<1>2. CASE ChangePolicy(d) \/ SelectNetwork(d)
  <2>1. RayTypeOK'
    BY <1>0, <1>2 DEF RecordInv, RayTypeOK, ChangePolicy, SelectNetwork
  <2>2. UNCHANGED <<raylet, file, act>>
    BY <1>2 DEF ChangePolicy, SelectNetwork
  <2>3. QED BY <2>1, <2>2 DEF RecordInv, RecordHonest, StartsClean
<1>3. CASE RestartDaemon(d) \/ RestartMachine(d)
  <2>1. PICK p \in {NoOne, raylet[d]} : raylet' = [raylet EXCEPT ![d] = p]
    BY <1>0, <1>3 DEF RestartDaemon, RestartMachine
  <2>2. Resting \in Acts /\ ~Starting(Resting) /\ Resting.pc \notin Underway
        /\ Resting.pc # "halt"
    BY DEF Starting, Resting, Underway, Acts
  <2>3. /\ act' = [act EXCEPT ![d] = Resting] /\ file' = file /\ ann' = ann /\ sent' = sent
        /\ copied' \in [Machines -> SUBSET Announcements]
        /\ (selected \cup eligible \cup up)' \subseteq Machines
    BY <1>0, <1>3 DEF RestartDaemon, RestartMachine, Restart
  <2>4. OwnStep(d, Resting, p, file[d])
    BY <1>0, <2>1, <2>2, <2>3 DEF OwnStep
  <2>5. QED BY <2>4, OwnStepInv
<1>4. CASE CopyMemberships(d)
  BY <1>0, <1>4, GossipInv
<1>5. QED BY <1>1, <1>2, <1>3, <1>4 DEF PersonStep

\* The invariant holds of every step.
LEMMA NextInv == RecordInv /\ [RayNext]_rayVars => RecordInv'
<1> SUFFICES ASSUME RecordInv, [RayNext]_rayVars PROVE RecordInv'
  OBVIOUS
<1>1. CASE UNCHANGED rayVars
  BY <1>1 DEF RecordInv, RayTypeOK, RecordHonest, StartsClean, rayVars
<1>2. ASSUME NEW d \in Machines,
             SendAnnouncement(d) \/ (\E a \in sent : mergeRayAnnouncement(d, a))
               \/ ReplaceMemberships(d)
      PROVE  RecordInv'
  BY <1>2, GossipInv
<1>3. ASSUME NEW d \in Machines, HandlerStep(d) PROVE RecordInv'
  BY <1>3, HandlerInv
<1>4. ASSUME NEW d \in Machines, PersonStep(d) PROVE RecordInv'
  BY <1>4, PersonInv
<1>5. QED BY <1>1, <1>2, <1>3, <1>4 DEF RayNext

\* The invariant holds throughout.
THEOREM RecordInvHolds == RaySpec => []RecordInv
  BY RayInitInv, NextInv, PTL DEF RaySpec

\* ray.go: every variable keeps its type, and a handler that starts Ray has a
\* machine as its goal.
THEOREM RayTypeCorrect == RaySpec => []RayTypeOK
<1>1. RecordInv => RayTypeOK
  BY DEF RecordInv
<1>2. QED BY <1>1, RecordInvHolds, PTL

\* writeLocalRayState, clearLocalRayState: the record never names another head than
\* the one the local process serves, whatever failed or restarted on the way.
THEOREM RecordHonestHolds == RaySpec => []RecordHonest
<1>1. RecordInv => RecordHonest
  BY DEF RecordInv
<1>2. QED BY <1>1, RecordInvHolds, PTL

--------------------------------------------------------------------------------
(* A join code is spent at most as often as it may be.  The count in the      *)
(* database is the number of requests let in, and a request that has still to *)
(* spend the code is not among them; the rest follows from the comparison in  *)
(* SpendUse.                                                                  *)

Waiting == {"idle", "asked", "read"}

CodeInv ==
  /\ request = [r \in Requests |-> request[r]]
  /\ admitted \subseteq Requests /\ IsFiniteSet(admitted)
  /\ uses = Cardinality(admitted) /\ uses <= MaxUses
  /\ \A r \in Requests : request[r].at \in Waiting => r \notin admitted

codeVars == <<uses, request, admitted>>

\* Requests, the table of requests and the count alone decide what CodeInv says.
LEMMA CodeInvUntouched ==
  ASSUME CodeInv, UNCHANGED codeVars
  PROVE  CodeInv'
BY DEF CodeInv, codeVars

\* A request moves on without the code being spent: to a place where nothing is
\* asked of it any more, or from one to another before the code is spent.
LEMMA RequestMovesOn ==
  ASSUME CodeInv, NEW r \in Requests, NEW step,
         request' = [request EXCEPT ![r] = step], UNCHANGED <<uses, admitted>>,
         step.at \in Waiting => request[r].at \in Waiting
  PROVE  CodeInv'
<1>1. request' = [q \in Requests |-> request'[q]]
  BY DEF CodeInv
<1>2. \A q \in Requests : request'[q] = IF q = r THEN step ELSE request[q]
  BY DEF CodeInv
<1>3. \A q \in Requests : request'[q].at \in Waiting => q \notin admitted'
  BY <1>2 DEF CodeInv
<1> QED BY <1>1, <1>3 DEF CodeInv

\* No request is let in by a join code after its last use (store/network.go,
\* ConsumeInvitation): the count only moves together with the request let in.
LEMMA SpendUseKeepsCodeInv ==
  ASSUME PeerAssumption, CodeInv, NEW r \in Requests, SpendUse(r)
  PROVE  CodeInv'
<1> DEFINE step == [at |-> "spent", setting |-> request[r].setting]
<1>1. r \notin admitted
  BY DEF SpendUse, CodeInv, Waiting
<1>2. /\ admitted' = admitted \cup {r} /\ uses' = uses + 1 /\ uses < MaxUses
      /\ request' = [request EXCEPT ![r] = step]
  BY DEF SpendUse
<1>3. IsFiniteSet(admitted') /\ Cardinality(admitted') = Cardinality(admitted) + 1
  BY <1>1, <1>2, FS_AddElement DEF CodeInv
<1>4. Cardinality(admitted) \in Nat
  BY FS_CardinalityType DEF CodeInv
<1>5. uses' = Cardinality(admitted') /\ uses' <= MaxUses
  BY <1>2, <1>3, <1>4 DEF CodeInv, PeerAssumption
<1>6. request' = [q \in Requests |-> request'[q]]
  BY <1>2 DEF CodeInv
<1>7. ASSUME NEW q \in Requests, request'[q].at \in Waiting
      PROVE  q \notin admitted'
  <2>1. q # r
    BY <1>2, <1>7 DEF CodeInv, Waiting
  <2>2. request'[q] = request[q]
    BY <1>2, <2>1 DEF CodeInv
  <2> QED BY <1>2, <1>7, <2>1, <2>2 DEF CodeInv
<1> QED BY <1>2, <1>3, <1>5, <1>6, <1>7 DEF CodeInv

LEMMA CodeInvInitially ==
  ASSUME PeerAssumption, PeerInit
  PROVE  CodeInv
<1>1. IsFiniteSet({}) /\ Cardinality({}) = 0
  BY FS_EmptySet
<1> QED BY <1>1 DEF PeerInit, CodeInv, PeerAssumption

LEMMA NextKeepsCodeInv ==
  ASSUME PeerAssumption, CodeInv, [Next]_vars
  PROVE  CodeInv'
<1>1. CASE UNCHANGED vars
  BY <1>1, CodeInvUntouched DEF vars, codeVars
<1>2. CASE Tick
  BY <1>2, CodeInvUntouched DEF Tick, codeVars
<1>3. CASE updateNetworkPolicy
  BY <1>3, CodeInvUntouched DEF updateNetworkPolicy, codeVars
<1>4. CASE recordLocalMembership
  BY <1>4, CodeInvUntouched DEF recordLocalMembership, codeVars
<1>5. CASE CheckIn
  BY <1>5, CodeInvUntouched DEF CheckIn, codeVars
<1>6. CASE \E d \in Peers : UpsertNetworkBootstrap(d)
  BY <1>6, CodeInvUntouched DEF UpsertNetworkBootstrap, codeVars
<1>7. ASSUME NEW r \in Requests, Join(r)
      PROVE  CodeInv'
  <2>1. CASE joinNetwork(r)
    <3>1. request[r].at = "idle"
      BY <2>1 DEF joinNetwork, Idle
    <3> QED BY <2>1, <3>1, RequestMovesOn DEF joinNetwork, Waiting
  <2>2. CASE ReadInvitation(r)
    BY <2>2, RequestMovesOn DEF ReadInvitation, Waiting
  <2>3. CASE SpendUse(r)
    BY <2>3, SpendUseKeepsCodeInv
  <2>4. CASE Refused(r)
    BY <2>4, RequestMovesOn DEF Refused, Waiting
  <2>5. CASE acceptJoin(r)
    BY <2>5, RequestMovesOn DEF acceptJoin, Waiting
  <2>6. CASE Enrolled(r)
    BY <2>6, RequestMovesOn DEF Enrolled, Waiting
  <2>7. CASE AnswerLost(r)
    BY <2>7, RequestMovesOn DEF AnswerLost, Waiting
  <2> QED BY <1>7, <2>1, <2>2, <2>3, <2>4, <2>5, <2>6, <2>7 DEF Join
<1>8. CASE \E l \in Lanes : Lose(l)
  BY <1>8, CodeInvUntouched DEF Lose, codeVars
<1>9. ASSUME NEW l \in Lanes, NEW d \in Peers, NEW f \in Peers, Exchange(l, d, f)
      PROVE  UNCHANGED codeVars
  BY <1>9 DEF Exchange, Probe, SendFresh, Send, peerEvents, acceptPeerCheckIn,
     UpsertNetworkNode, refreshLocalNodeSnapshot, Answer, MergeAnswer, UpsertAnswer, codeVars
<1> QED BY <1>1, <1>2, <1>3, <1>4, <1>5, <1>6, <1>7, <1>8, <1>9, CodeInvUntouched DEF Next

\* ConsumeInvitation (store/network.go): whatever join requests cross, a code
\* lets in no more of them than it has uses.
THEOREM CodeIsSpentOnce == Spec => []CodeSpentOnce
<1> USE PeerAssumption
<1>1. PeerInit => CodeInv
  BY CodeInvInitially
<1>2. CodeInv /\ [Next]_vars => CodeInv'
  BY NextKeepsCodeInv
<1>3. CodeInv => CodeSpentOnce
  BY DEF CodeInv, CodeSpentOnce
<1> QED BY <1>1, <1>2, <1>3, PTL DEF Spec
================================================================================
