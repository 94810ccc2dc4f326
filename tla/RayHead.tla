--------------------------------- MODULE RayHead ---------------------------------
(***************************************************************************)
(* How the machines of one network agree on its Ray head, and how each     *)
(* keeps its one local Ray process in line with that agreement             *)
(* (src/internal/api/ray.go, with the gossip of mesh.go and peerwatch.go). *)
(*                                                                         *)
(* Each machine holds the newest announcement it has seen.  Announcements  *)
(* travel by peer check-ins and peer sockets, arbitrarily late and more    *)
(* than once.  The handlers that start, stop and reconcile the process     *)
(* exclude each other (rayActionMu); merging announcements and adopting    *)
(* memberships go on beside them.                                          *)
(*                                                                         *)
(* Abstractions: one network, selected or not; a head's address is its     *)
(* machine; the resource policy is whether the machine is eligible; Ray    *)
(* itself is a process that serves one head, and is alive if that head's   *)
(* process is; disk writes succeed.                                        *)
(***************************************************************************)
EXTENDS Naturals

CONSTANTS Machines,
          NoOne,      \* no machine
          Rank,       \* the order of node ids, as strings compare
          Legacy,     \* announcements a machine may hold from older releases
          MaxIdle,    \* bound: generation up to which a tombstone is repeated
          MaxMoves    \* bound: what people ask for, restarts and adoptions

\* As validRayAnnouncement lets them through: a head has a machine.  Nothing stored
\* yet looks like a tombstone of nobody.
Announcements ==
  {a \in [gen : Nat, stamp : Nat, node : Machines \cup {NoOne}, on : BOOLEAN] :
     a.on => a.node \in Machines}
Silence == [gen |-> 0, stamp |-> 0, node |-> NoOne, on |-> FALSE]

ASSUME RayAssumption ==
  /\ NoOne \notin Machines
  /\ Rank \in [Machines \cup {NoOne} -> Nat]
  /\ \A d, e \in Machines \cup {NoOne} : Rank[d] = Rank[e] => d = e
  /\ Legacy \subseteq {a \in Announcements : a.gen = 0}
  /\ MaxIdle \in Nat /\ MaxMoves \in Nat

VARIABLES ann,       \* the membership's RayHead fields
          sent,      \* every announcement ever put on the wire
          raylet,    \* the head the local Ray process serves
          file,      \* the head in ray-state.json
          act,       \* the handler that holds rayActionMu
          copied,    \* the announcement an adoption has copied and not yet put back
          selected,  \* machines whose ActiveNetwork is this network
          eligible,  \* machines whose presence and policy accept Ray work
          up,        \* machines whose daemon runs
          moves

rayVars == <<ann, sent, raylet, file, act, copied, selected, eligible, up, moves>>

Resting == [pc |-> "rest", kind |-> "none", goal |-> NoOne, gen |-> 0, retract |-> FALSE]

RayInit ==
  /\ ann \in [Machines -> Legacy \cup {Silence}]
  /\ sent = {}
  /\ raylet = [d \in Machines |-> NoOne]
  /\ file = [d \in Machines |-> NoOne]
  /\ act = [d \in Machines |-> Resting]
  /\ copied = [d \in Machines |-> {}]
  /\ selected \in SUBSET Machines /\ eligible = Machines /\ up = Machines
  /\ moves = 0

--------------------------------------------------------------------------------
(* Announcements and their order.                                             *)

TieBreak(a, b) ==
  \/ Rank[a.node] > Rank[b.node]
  \/ a.node = b.node /\ a.on /\ ~b.on

\* Mutation: simultaneous starts are not told apart.
NewerWithoutTieBreak(a, b) ==
  IF a.gen > 0 \/ b.gen > 0 THEN a.gen > b.gen ELSE a.stamp > b.stamp

\* Generations first; without any, the older releases' clocks.
rayAnnouncementNewer(a, b) ==
  IF a.gen > 0 \/ b.gen > 0
    THEN a.gen > b.gen \/ (a.gen = b.gen /\ TieBreak(a, b))
    ELSE a.stamp > b.stamp \/ (a.stamp = b.stamp /\ TieBreak(a, b))

\* storeRayAnnouncement: an older one is dropped without an error.
Stored(a, current) == IF rayAnnouncementNewer(a, current) THEN a ELSE current

--------------------------------------------------------------------------------
(* Gossip.                                                                    *)

SendAnnouncement(d) ==
  /\ d \in up /\ ann[d].node # NoOne
  /\ sent' = sent \cup {ann[d]}
  /\ UNCHANGED <<ann, raylet, file, act, copied, selected, eligible, up, moves>>

mergeRayAnnouncement(d, a) ==
  /\ d \in up /\ a \in sent
  /\ ann' = [ann EXCEPT ![d] = Stored(a, @)]
  /\ UNCHANGED <<sent, raylet, file, act, copied, selected, eligible, up, moves>>

\* AdoptAccountNetworks copies the memberships it keeps and then puts the copies
\* in place, under membershipMu and not rayMu.
CopyMemberships(d) ==
  /\ d \in up /\ copied[d] = {}
  /\ copied' = [copied EXCEPT ![d] = {ann[d]}]
  /\ UNCHANGED <<ann, sent, raylet, file, act, selected, eligible, up>>

ReplaceMemberships(d) == \E a \in copied[d] :
  /\ ann' = [ann EXCEPT ![d] = a]
  /\ copied' = [copied EXCEPT ![d] = {}]
  /\ UNCHANGED <<sent, raylet, file, act, selected, eligible, up, moves>>

--------------------------------------------------------------------------------
(* The handlers that hold rayActionMu.                                        *)

Begin(d, pc, kind, goal, retract) ==
  /\ d \in up /\ act[d].pc = "rest"
  /\ act' = [act EXCEPT ![d] = [pc |-> pc, kind |-> kind, goal |-> goal, gen |-> 0,
                                retract |-> retract]]
At(d, pc) == act[d].pc = pc
Goto(d, pc) == act' = [act EXCEPT ![d] = IF pc = "rest" THEN Resting ELSE [@ EXCEPT !.pc = pc]]
Untouched == UNCHANGED <<sent, copied, eligible>>

\* What reconcileRay works towards.
Serving(d) == d \in selected /\ d \in eligible /\ ann[d].on
NodeAlive(d, h) == raylet[d] = h /\ raylet[h] = h

\* Mutation: a machine that takes no work goes on being announced as the head.
SwitchOffQuietly(d) ==
  /\ ~Serving(d) /\ file[d] # NoOne
  /\ Begin(d, "halt", "reconcile", NoOne, FALSE)
  /\ Untouched /\ UNCHANGED <<ann, raylet, file, selected, up, moves>>

\* reconcileRay with nothing to serve: the recorded process goes, and a machine
\* that takes no work withdraws what it announced last, be it a head or not.
SwitchOff(d) ==
  LET retract == /\ d \in selected \ eligible /\ ann[d].node = d
                 /\ ann[d].on \/ ann[d].gen < MaxIdle
  IN  /\ ~Serving(d)
      /\ file[d] # NoOne \/ retract
      /\ Begin(d, IF file[d] # NoOne THEN "halt" ELSE "read", "reconcile", NoOne, retract)
      /\ Untouched /\ UNCHANGED <<ann, raylet, file, selected, up, moves>>

\* Mutation: the record alone decides, and a dead process is not restarted.
SwitchOnOnce(d) ==
  /\ Serving(d)
  /\ file[d] # ann[d].node
  /\ Begin(d, "stop", "reconcile", ann[d].node, FALSE)
  /\ Untouched /\ UNCHANGED <<ann, raylet, file, selected, up, moves>>

\* reconcileRay with a head to serve, unless it is recorded and seen alive.
SwitchOn(d) ==
  LET h == ann[d].node
  IN  /\ Serving(d)
      /\ ~(file[d] = h /\ NodeAlive(d, h))
      /\ Begin(d, "stop", "reconcile", h, FALSE)
      /\ Untouched /\ UNCHANGED <<ann, raylet, file, selected, up, moves>>

\* startRay becomes the head when asked to, or when there is none but itself.
startRay(d, asHead) ==
  LET h == IF asHead \/ ~ann[d].on THEN d ELSE ann[d].node
  IN  /\ d \in eligible
      /\ selected' = selected \cup {d}
      /\ Begin(d, "stop", "start", h, FALSE)
      /\ Untouched /\ UNCHANGED <<ann, raylet, file, up>>

stopRay(d) ==
  /\ file[d] # NoOne \/ ann[d].on
  /\ Begin(d, IF file[d] # NoOne THEN "halt" ELSE "read", "stop", NoOne, FALSE)
  /\ Untouched /\ UNCHANGED <<ann, raylet, file, selected, up>>

\* runRayRepair: the old process goes, the runtime is reinstalled, and the reconciler
\* takes over.
repairRay(d) ==
  /\ ann[d].on /\ d \in eligible
  /\ Begin(d, "stop", "repair", d, FALSE)
  /\ Untouched /\ UNCHANGED <<ann, raylet, file, selected, up>>

\* stopEverything: the machine is taken out of the cluster and the daemon ends.
stopEverything(d) ==
  /\ Begin(d, "halt", "quit", NoOne, FALSE)
  /\ Untouched /\ UNCHANGED <<ann, raylet, file, selected, up>>

\* Before a start the old process must go; a stop that fails keeps the record,
\* whether or not it took the process with it.
StopLocalRay(d) ==
  /\ At(d, "stop") /\ Goto(d, IF act[d].kind = "repair" THEN "rest" ELSE "launch")
  /\ raylet' = [raylet EXCEPT ![d] = NoOne]
  /\ file' = [file EXCEPT ![d] = NoOne]
  /\ Untouched /\ UNCHANGED <<ann, selected, up, moves>>

StopFails(d) ==
  /\ At(d, "stop") /\ Goto(d, "rest")
  /\ raylet' \in {raylet, [raylet EXCEPT ![d] = NoOne]}
  /\ Untouched /\ UNCHANGED <<ann, file, selected, up, moves>>

\* Whether a tombstone follows: a person stops a head that is announced, a daemon
\* that ends takes back its own, the reconciler decided before.
AfterHalt(d) ==
  LET kind == act[d].kind
      withdraws == \/ kind = "stop" /\ ann[d].on
                   \/ kind = "quit" /\ d \in selected /\ ann[d].node = d
                   \/ act[d].retract
  IN  IF withdraws THEN "read" ELSE IF kind = "quit" THEN "exit" ELSE "rest"

Halt(d) ==
  /\ At(d, "halt") /\ Goto(d, AfterHalt(d))
  /\ raylet' = [raylet EXCEPT ![d] = NoOne]
  /\ file' = [file EXCEPT ![d] = NoOne]
  /\ Untouched /\ UNCHANGED <<ann, selected, up, moves>>

\* Only stopRay reports a failed stop; the others forget the process.
HaltFails(d) ==
  /\ At(d, "halt") /\ Goto(d, IF act[d].kind = "stop" THEN "rest" ELSE AfterHalt(d))
  /\ file' = [file EXCEPT ![d] = IF act[d].kind = "stop" THEN @ ELSE NoOne]
  /\ Untouched /\ UNCHANGED <<ann, raylet, selected, up, moves>>

Launch(d) ==
  /\ At(d, "launch") /\ Goto(d, "wait")
  /\ raylet' = [raylet EXCEPT ![d] = act[d].goal]
  /\ Untouched /\ UNCHANGED <<ann, file, selected, up, moves>>

\* WaitForNode; a new head is announced before it is recorded.
WaitForNode(d) ==
  LET my == act[d]
  IN  /\ At(d, "wait") /\ NodeAlive(d, my.goal)
      /\ Goto(d, IF my.kind = "start" /\ my.goal = d THEN "read" ELSE "note")
      /\ Untouched /\ UNCHANGED <<ann, raylet, file, selected, up, moves>>

\* A start that fails or does not show up may leave a process behind.
StartFails(d) ==
  /\ At(d, "launch") \/ At(d, "wait")
  /\ Goto(d, "rest")
  /\ \E left \in {NoOne, act[d].goal} : raylet' = [raylet EXCEPT ![d] = left]
  /\ Untouched /\ UNCHANGED <<ann, file, selected, up, moves>>

\* announceRayHead reads the generation and stores the next one in two steps.
ReadGeneration(d) ==
  /\ At(d, "read")
  /\ act' = [act EXCEPT ![d].pc = "store", ![d].gen = ann[d].gen + 1]
  /\ Untouched /\ UNCHANGED <<ann, raylet, file, selected, up, moves>>

announceRayHead(d) ==
  LET my == act[d]
      next == [gen |-> my.gen, stamp |-> 0, node |-> d, on |-> my.kind = "start"]
  IN  /\ At(d, "store")
      /\ ann' = [ann EXCEPT ![d] = Stored(next, @)]
      /\ Goto(d, CASE my.kind = "start" -> "note" [] my.kind = "quit" -> "exit"
                   [] OTHER -> "rest")
      /\ Untouched /\ UNCHANGED <<raylet, file, selected, up, moves>>

\* Mutation: the record is written whether or not the start is still in force.
NoteWhatIsAnnounced(d) ==
  /\ At(d, "note") /\ Goto(d, "rest")
  /\ file' = [file EXCEPT ![d] = ann[d].node]
  /\ Untouched /\ UNCHANGED <<ann, raylet, selected, up, moves>>

writeLocalRayState(d) ==
  /\ At(d, "note") /\ Goto(d, "rest")
  /\ file' = [file EXCEPT ![d] = act[d].goal]
  /\ Untouched /\ UNCHANGED <<ann, raylet, selected, up, moves>>

Exit(d) ==
  /\ At(d, "exit") /\ Goto(d, "rest")
  /\ up' = up \ {d} /\ copied' = [copied EXCEPT ![d] = {}]
  /\ UNCHANGED <<ann, sent, raylet, file, selected, eligible, moves>>

--------------------------------------------------------------------------------
(* What happens to a machine.                                                 *)

\* Presence and policy change without rayActionMu.
ChangePolicy(d) ==
  /\ d \in up
  /\ eligible' = IF d \in eligible THEN eligible \ {d} ELSE eligible \cup {d}
  /\ UNCHANGED <<ann, sent, raylet, file, act, copied, selected, up>>

\* Another network is selected, or this one again: by a person with the mutex, by
\* an adoption or a wish from the account without it.
SelectNetwork(d) ==
  /\ d \in up
  /\ selected' = IF d \in selected THEN selected \ {d} ELSE selected \cup {d}
  /\ UNCHANGED <<ann, sent, raylet, file, act, copied, eligible, up>>

\* What was under way is gone, and the quick presence switch is back on.
Restart(d) ==
  /\ up' = up \cup {d}
  /\ act' = [act EXCEPT ![d] = Resting] /\ copied' = [copied EXCEPT ![d] = {}]
  /\ eligible' \in {eligible, eligible \cup {d}}
  /\ UNCHANGED <<ann, sent, file, selected>>

\* A Ray process outlives the daemon (an update replaces the daemon's image in
\* place), and not the machine.
RestartDaemon(d) == Restart(d) /\ UNCHANGED raylet
RestartMachine(d) == Restart(d) /\ raylet' = [raylet EXCEPT ![d] = NoOne]

Reconcile(d) == SwitchOff(d) \/ SwitchOn(d)

HandlerStep(d) ==
  \/ Reconcile(d)
  \/ StopLocalRay(d) \/ StopFails(d) \/ Halt(d) \/ HaltFails(d)
  \/ Launch(d) \/ WaitForNode(d) \/ StartFails(d)
  \/ ReadGeneration(d) \/ announceRayHead(d) \/ writeLocalRayState(d) \/ Exit(d)

Move == moves < MaxMoves /\ moves' = moves + 1

PersonStep(d) == Move /\
  \/ startRay(d, TRUE) \/ startRay(d, FALSE) \/ stopRay(d) \/ repairRay(d)
  \/ stopEverything(d)
  \/ ChangePolicy(d) \/ SelectNetwork(d) \/ RestartDaemon(d) \/ RestartMachine(d)
  \/ CopyMemberships(d)

RayNext == \E d \in Machines :
  \/ SendAnnouncement(d) \/ \E a \in sent : mergeRayAnnouncement(d, a)
  \/ ReplaceMemberships(d) \/ HandlerStep(d) \/ PersonStep(d)

RaySpec == RayInit /\ [][RayNext]_rayVars

(* Fairness.  The peer sockets and the reconciler run on tickers; what a daemon *)
(* has begun goes on, every external call having a timeout; and Ray, stopped or *)
(* started again and again, stops or starts some time.  Nothing is assumed of   *)
(* people, restarts or adoptions.                                               *)
RayFairness == \A d \in Machines :
  /\ WF_rayVars(SendAnnouncement(d))
  /\ WF_rayVars(\E a \in sent : mergeRayAnnouncement(d, a))
  /\ WF_rayVars(ReplaceMemberships(d))
  /\ WF_rayVars(HandlerStep(d))
  /\ SF_rayVars(StopLocalRay(d)) /\ SF_rayVars(Launch(d)) /\ SF_rayVars(WaitForNode(d))

FairRaySpec == RaySpec /\ RayFairness

--------------------------------------------------------------------------------
(* Properties *)

Underway == {"stop", "launch", "wait", "note"}
Acts == [pc : Underway \cup {"rest", "halt", "read", "store", "exit"},
         kind : {"none", "reconcile", "start", "stop", "repair", "quit"},
         goal : Machines \cup {NoOne}, gen : Nat, retract : BOOLEAN]

RayTypeOK ==
  /\ ann \in [Machines -> Announcements] /\ sent \subseteq Announcements
  /\ raylet \in [Machines -> Machines \cup {NoOne}]
  /\ file \in [Machines -> Machines \cup {NoOne}]
  /\ act \in [Machines -> Acts]
  /\ \A d \in Machines : act[d].pc \in Underway => act[d].goal \in Machines
  /\ copied \in [Machines -> SUBSET Announcements]
  /\ selected \cup eligible \cup up \subseteq Machines
  /\ moves \in Nat

\* The record a reconciler trusts never speaks of another process than the one
\* that runs, whatever failed or restarted on the way.
RecordHonest == \A d \in Machines : file[d] # NoOne => raylet[d] \in {NoOne, file[d]}

Head(d) == IF ann[d].on THEN ann[d].node ELSE NoOne

\* Machines that stay on end up with the same head, although starts cross on the
\* wire and adoptions put back old announcements.
HeadsAgree == <>[](\A d, e \in up : Head(d) = Head(e))

\* A machine that takes work ends up in the announced head's cluster, and there is
\* one head, if the head's machine takes work itself.
ClusterForms == <>[](\A d \in up :
  LET h == ann[d].node IN Serving(d) /\ h \in up /\ Serving(h) => NodeAlive(d, h))

\* A machine that takes no work does not stay the network's head.
HeadWithdrawn == <>[](\A d \in (up \cap selected) \ eligible : ~(ann[d].on /\ ann[d].node = d))
================================================================================
