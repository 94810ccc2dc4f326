------------------------------- MODULE DeviceSync -------------------------------
(***************************************************************************)
(* How the account service's registry reaches the machines, and how a      *)
(* request made from another machine is carried out: the check-in of       *)
(* src/internal/api/accountcheckin.go against the node table of            *)
(* src/internal/accountserver, interleaved with the handlers that create,  *)
(* join, select and delete networks on the machine itself.                 *)
(*                                                                         *)
(* Several check-ins of one machine run at once (the heartbeat, the event  *)
(* watch, the one each handler starts), and every call to the service may  *)
(* fail before it is committed or lose its answer afterwards.              *)
(*                                                                         *)
(* Abstractions: a machine is linked to one account for good (a different  *)
(* sign-in is refused); the membership list is, for each network, the keys *)
(* of its memberships in their order (the list may name a network twice);  *)
(* disk writes succeed; one network handler runs at a time on a machine    *)
(* (op); what an administrator's or another member's client does to the    *)
(* registry is a step of the registry.  MaxMoves bounds what people do, so *)
(* liveness reads "once nobody asks for anything more".                    *)
(***************************************************************************)
EXTENDS NetworkRegistry, Sequences

CONSTANTS Devices, Threads,
          Heartbeat,   \* the check-in thread that never stops being started
          AccountOf,   \* the account each device is linked to
          NoNetwork,   \* the empty active / desired column
          MaxMoves     \* bound: what people ask for

ASSUME DeviceAssumption ==
  /\ Heartbeat \in Threads
  /\ AccountOf \in [Devices -> Accounts]
  /\ NoNetwork \notin Networks
  /\ MaxMoves \in Nat

VARIABLES row,      \* table node with node_network, one row per device
          wishing,  \* a SetDeviceNetwork that has checked and not yet written
          session,  \* devices whose bearer token the service accepts
          token,    \* devices with the account token on disk
          cfg,      \* cfg.Memberships: the keys held for each network
          active,   \* cfg.ActiveNetwork
          op,       \* the network handler in flight on a device
          thread,   \* the check-ins in flight on a device
          moves,    \* how much people have asked for
          asked, served, \* history: sign-outs recorded, and carried out
          owed,     \* history: devices whose sign-out is not carried out yet
          entitled  \* history: a network, an account and a key the network had
                    \* while the account was its member, or that was given to it

serverVars == <<row, wishing, session>>
configVars == <<cfg, active>>
signOutVars == <<asked, served, owed>>
historyVars == <<signOutVars, entitled>>
deviceVars == <<serverVars, token, configVars, op, thread, moves, historyVars>>
vars == <<registryVars, deviceVars>>

Places == Networks \cup {NoNetwork}
NoRow == [known |-> FALSE, active |-> NoNetwork, desired |-> NoNetwork,
          signOut |-> FALSE, enrolled |-> {}]
Nothing == [n \in Networks |-> 0]
NoMembership == [n \in Networks |-> <<>>]
Idle == [pc |-> "idle", nets |-> Nothing, gone |-> {}, kept |-> NoMembership,
         dirty |-> FALSE, todo |-> {}, refs |-> {}, at |-> NoNetwork, out |-> FALSE]
NoOp == [kind |-> "none"]

Ids(list) == {n \in Networks : list[n] # <<>>}
hasMembership(d, n) == n \in Ids(cfg[d])

\* Who is a member after a step of the registry, and under which key.
Remember == entitled' = entitled \cup
  {m \in Networks \X Accounts \X Keys : role'[m[1]][m[2]] # "none" /\ m[3] = key'[m[1]]}

\* What the service answers about a device's account.
MemberNetworks(d) == {n \in live : role[n][AccountOf[d]] # "none"}
Mourned(d) == {n \in Networks : <<n, AccountOf[d]>> \in mourner}

\* config.Save normalises the selection to one of the memberships.
Save(list, selected) == IF selected \in Ids(list) THEN selected ELSE NoNetwork

\* membershipMu, held while adopting and for the whole of a deletion.
Locked(d) == op[d].kind = "delete" \/ \E t \in Threads : thread[d][t].pc = "adopting"

DeviceInit ==
  /\ RegistryInit
  /\ row = [d \in Devices |-> NoRow]
  /\ wishing = [d \in Devices |-> "no"]
  /\ session = {} /\ token = {}
  /\ cfg = [d \in Devices |-> NoMembership]
  /\ active = [d \in Devices |-> NoNetwork]
  /\ op = [d \in Devices |-> NoOp]
  /\ thread = [d \in Devices |-> [t \in Threads |-> Idle]]
  /\ moves = 0
  /\ asked = [d \in Devices |-> 0] /\ served = [d \in Devices |-> 0]
  /\ owed = {} /\ entitled = {}

--------------------------------------------------------------------------------
(* The check-in of one machine, one action per exchange with the service.     *)

Step(d, t, pc, r) == thread[d][t].pc = pc /\ thread' = [thread EXCEPT ![d][t] = r]

\* checkInAccountServer: nothing happens without an account credential.
StartCheckIn(d, t) ==
  /\ d \in token
  /\ Step(d, t, "idle", [Idle EXCEPT !.pc = "networks"])
  /\ UNCHANGED <<registryVars, serverVars, token, configVars, op, moves, historyVars>>

\* MyNetworkState is answered from two queries: the networks, then the deletions.
FetchNetworks(d, t) ==
  /\ d \in session
  /\ Step(d, t, "networks", [Idle EXCEPT !.pc = "deletions",
       !.nets = [n \in Networks |-> IF n \in MemberNetworks(d) THEN key[n] ELSE 0]])
  /\ UNCHANGED <<registryVars, serverVars, token, configVars, op, moves, historyVars>>

FetchDeletions(d, t) ==
  /\ Step(d, t, "deletions", [thread[d][t] EXCEPT !.pc = "adopt", !.gone = Mourned(d)])
  /\ UNCHANGED <<registryVars, serverVars, token, configVars, op, moves, historyVars>>

\* The references and the memberships to register are read after adoption.
ReadyToSync(list) == [Idle EXCEPT !.pc = "sync", !.refs = Ids(list),
  !.todo = {[id |-> n, key |-> list[n][1]] : n \in Ids(list)}]

\* A pull that fails is ignored: the check-in goes on with what the machine has.
FetchFails(d, t) ==
  /\ \/ Step(d, t, "networks", ReadyToSync(cfg[d]))
     \/ Step(d, t, "deletions", ReadyToSync(cfg[d]))
  /\ UNCHANGED <<registryVars, serverVars, token, configVars, op, moves, historyVars>>

\* The list with the answer's unknown networks appended, and without a set.
Adopted(list, nets) == [n \in Networks |->
  IF list[n] = <<>> /\ nets[n] # 0 THEN <<nets[n]>> ELSE list[n]]
Without(list, gone) == [n \in Networks |-> IF n \in gone THEN <<>> ELSE list[n]]

\* Mutation: what is kept is worked out from the list before the appends.
AdoptThenForget(d, t) ==
  LET answer == thread[d][t]
      all == Adopted(cfg[d], answer.nets)
      kept == Without(cfg[d], answer.gone)
  IN  /\ ~Locked(d)
      /\ Step(d, t, "adopt", [Idle EXCEPT !.pc = "adopting", !.gone = answer.gone,
           !.kept = kept, !.dirty = all # cfg[d] \/ kept # all])
      /\ cfg' = [cfg EXCEPT ![d] = all]
      /\ UNCHANGED <<registryVars, serverVars, token, active, op, moves, historyVars>>

\* AdoptAccountNetworks, under membershipMu: append what is unknown, work out
\* what is kept ...
AdoptNetworks(d, t) ==
  LET answer == thread[d][t]
      all == Adopted(cfg[d], answer.nets)
      kept == Without(all, answer.gone)
  IN  /\ ~Locked(d)
      /\ Step(d, t, "adopt", [Idle EXCEPT !.pc = "adopting", !.gone = answer.gone,
           !.kept = kept, !.dirty = all # cfg[d] \/ kept # all])
      /\ cfg' = [cfg EXCEPT ![d] = all]
      /\ UNCHANGED <<registryVars, serverVars, token, active, op, moves, historyVars>>

\* Mutation: deletions are not taken out of the configuration.
KeepEverything(d, t) ==
  LET my == thread[d][t]
  IN  /\ Step(d, t, "adopting", ReadyToSync(cfg[d]))
      /\ active' = [active EXCEPT ![d] = IF @ \in my.gone THEN NoNetwork ELSE @]
      /\ UNCHANGED <<registryVars, serverVars, token, cfg, op, moves, historyVars>>

\* ... and put it in place, whatever the handlers that do not take the lock
\* have appended meanwhile.  The selection is never moved to another network.
FinishAdoption(d, t) ==
  LET my == thread[d][t]
      left == IF active[d] \in my.gone THEN NoNetwork ELSE active[d]
  IN  /\ Step(d, t, "adopting", ReadyToSync(my.kept))
      /\ cfg' = [cfg EXCEPT ![d] = my.kept]
      /\ active' = [active EXCEPT ![d] = IF my.dirty THEN Save(my.kept, left) ELSE left]
      /\ UNCHANGED <<registryVars, serverVars, token, op, moves, historyVars>>

\* SyncNetwork for each membership; a refusal, a failure and a lost answer all
\* leave the machine to go on with the next one.
SyncNetwork(d, t) == \E m \in thread[d][t].todo :
  /\ Step(d, t, "sync", [thread[d][t] EXCEPT !.todo = @ \ {m}])
  /\ \/ d \in session /\ RegisterNetwork(AccountOf[d], m.id, m.key) /\ Remember
     \/ UNCHANGED <<registryVars, entitled>>
  /\ UNCHANGED <<serverVars, token, configVars, op, moves, signOutVars>>

\* The report carries the selection as it is when the report is put together.
PrepareReport(d, t) ==
  /\ thread[d][t].todo = {}
  /\ Step(d, t, "sync", [thread[d][t] EXCEPT !.pc = "report", !.at = active[d]])
  /\ UNCHANGED <<registryVars, serverVars, token, configVars, op, moves, historyVars>>

(* Store.CheckIn, one transaction: the report is recorded, a wish that the    *)
(* report fulfils is spent, and a sign-out is handed over by clearing it.     *)

\* Mutation: an order to sign out is handed over without being cleared.
RecordedKeepingSignOut(d, t) ==
  LET my == thread[d][t]
      before == row[d]
  IN  [before EXCEPT !.known = TRUE, !.active = my.at,
         !.desired = IF @ = my.at THEN NoNetwork ELSE @,
         !.enrolled = my.refs \cap MemberNetworks(d)]

\* Mutation: the machine's own list is believed.
RecordedAsReported(d, t) ==
  LET my == thread[d][t]
  IN  [known |-> TRUE, active |-> my.at,
       desired |-> IF row[d].desired = my.at THEN NoNetwork ELSE row[d].desired,
       signOut |-> FALSE, enrolled |-> my.refs]

\* Mutation: a wish that is fulfilled stays on record.
RecordedKeepingWish(d, t) ==
  LET my == thread[d][t]
  IN  [known |-> TRUE, active |-> my.at, desired |-> row[d].desired, signOut |-> FALSE,
       enrolled |-> my.refs \cap MemberNetworks(d)]

\* Mutation: a known row keeps the selection of its first report.
RecordedOnce(d, t) ==
  LET my == thread[d][t]
      before == row[d]
  IN  [known |-> TRUE, active |-> IF before.known THEN before.active ELSE my.at,
       desired |-> IF before.desired = my.at THEN NoNetwork ELSE before.desired,
       signOut |-> FALSE, enrolled |-> my.refs \cap MemberNetworks(d)]

Recorded(d, t) ==
  LET my == thread[d][t]
      before == row[d]
  IN  [known |-> TRUE, active |-> my.at,
       desired |-> IF before.desired = my.at THEN NoNetwork ELSE before.desired,
       signOut |-> FALSE, enrolled |-> my.refs \cap MemberNetworks(d)]

CheckInCommits(d) == d \in session /\ UNCHANGED <<registryVars, wishing, session>>

CheckIn(d, t) ==
  LET recorded == Recorded(d, t)
  IN  /\ CheckInCommits(d)
      /\ row' = [row EXCEPT ![d] = recorded]
      /\ Step(d, t, "report", [Idle EXCEPT !.pc = "apply", !.at = recorded.desired,
                                           !.out = row[d].signOut])
      /\ UNCHANGED <<token, configVars, op, moves, historyVars>>

\* The transaction commits and the machine never sees the answer.
CheckInUnanswered(d, t) ==
  /\ CheckInCommits(d)
  /\ row' = [row EXCEPT ![d] = Recorded(d, t)]
  /\ Step(d, t, "report", Idle)
  /\ UNCHANGED <<token, configVars, op, moves, historyVars>>

CheckInFails(d, t) ==
  /\ Step(d, t, "report", Idle)
  /\ UNCHANGED <<registryVars, serverVars, token, configVars, op, moves, historyVars>>

(* applyInstructions: a sign-out comes first and ends it; a move waits for    *)
(* the membership to be adopted.                                              *)
signOutThisMachine(d, t) ==
  /\ thread[d][t].out
  /\ Step(d, t, "apply", Idle)
  /\ token' = token \ {d}
  /\ served' = [served EXCEPT ![d] = @ + 1]
  /\ owed' = owed \ {d}
  /\ UNCHANGED <<registryVars, serverVars, configVars, op, moves, asked, entitled>>

MoveThisMachine(d, t) ==
  LET to == thread[d][t].at
  IN  /\ ~thread[d][t].out
      /\ Step(d, t, "apply", Idle)
      /\ active' = [active EXCEPT ![d] = IF hasMembership(d, to) THEN to ELSE @]
      /\ UNCHANGED <<registryVars, serverVars, token, cfg, op, moves, historyVars>>

CheckInStep(d, t) ==
  \/ StartCheckIn(d, t) \/ FetchNetworks(d, t) \/ FetchDeletions(d, t) \/ FetchFails(d, t)
  \/ AdoptNetworks(d, t) \/ FinishAdoption(d, t)
  \/ SyncNetwork(d, t) \/ PrepareReport(d, t)
  \/ CheckIn(d, t) \/ CheckInUnanswered(d, t) \/ CheckInFails(d, t)
  \/ signOutThisMachine(d, t) \/ MoveThisMachine(d, t)

--------------------------------------------------------------------------------
(* The network handlers of the machine's own interface.  Each first commits a *)
(* change at the service and then changes the configuration, if it still has  *)
(* an answer to act on.                                                       *)

Begin(d, o) == op[d] = NoOp /\ op' = [op EXCEPT ![d] = o]
End(d, kinds) == op[d].kind \in kinds /\ op' = [op EXCEPT ![d] = NoOp]

\* A fresh random id, held by no machine and unknown to the service.
Fresh(n) == n \notin live \cup tombstone

createNetwork(d, n) ==
  /\ d \in token /\ d \in session
  /\ Fresh(n)
  /\ RegisterNetwork(AccountOf[d], n, 1) /\ Remember
  /\ Begin(d, [kind |-> "append", id |-> n, key |-> 1])
  /\ UNCHANGED <<serverVars, token, configVars, thread, signOutVars>>

\* joinNetwork asks a machine of the network, which registers itself first ...
joinNetwork(d, host, n) ==
  LET k == cfg[host][n][1]
  IN  /\ d # host
      /\ hasMembership(host, n) /\ ~hasMembership(d, n)
      /\ {d, host} \subseteq token \cap session
      /\ RegisterNetwork(AccountOf[host], n, k) /\ Remember
      /\ Begin(d, [kind |-> "admit", id |-> n, key |-> k, host |-> host])
      /\ UNCHANGED <<serverVars, token, configVars, thread, signOutVars>>

\* Mutation: the key is answered although the grant was refused.
AdmitUngranted(d, r) ==
  LET o == op[d]
      a == AccountOf[d]
  IN  /\ o.kind = "admit" /\ o.host \in session
      /\ \/ GrantNetworkMember(AccountOf[o.host], o.id, o.key, a, r) /\ Remember
         \/ UNCHANGED <<registryVars, entitled>>
      /\ op' = [op EXCEPT ![d] = [kind |-> "append", id |-> o.id, key |-> o.key]]
      /\ UNCHANGED <<serverVars, token, configVars, thread, moves, signOutVars>>

\* ... and then grants the joining account its role, unless it has one.
acceptJoin(d, r) ==
  LET o == op[d]
      a == AccountOf[d]
  IN  /\ o.kind = "admit" /\ o.host \in session
      /\ \/ GrantNetworkMember(AccountOf[o.host], o.id, o.key, a, r) /\ Remember
         \/ /\ MayManage(AccountOf[o.host], o.id, o.key)
            /\ a \notin disabled /\ role[o.id][a] # "none"
            /\ UNCHANGED <<registryVars, entitled>>
      /\ op' = [op EXCEPT ![d] = [kind |-> "append", id |-> o.id, key |-> o.key]]
      /\ UNCHANGED <<serverVars, token, configVars, thread, moves, signOutVars>>

\* The membership is appended without membershipMu, and selected if none was.
appendMembership(d) ==
  LET list == [cfg[d] EXCEPT ![op[d].id] = Append(@, op[d].key)]
  IN  /\ End(d, {"append"})
      /\ cfg' = [cfg EXCEPT ![d] = list]
      /\ active' = [active EXCEPT ![d] = IF @ = NoNetwork THEN op[d].id ELSE Save(list, @)]
      /\ UNCHANGED <<registryVars, serverVars, token, thread, moves, historyVars>>

\* A node row that worked in, or was to work in, a deleted network; node_network
\* rows follow the network's.
WithoutNetwork(r, n) ==
  LET touched == n \in {r.active, r.desired}
  IN  [r EXCEPT !.active = IF touched THEN NoNetwork ELSE @,
                !.desired = IF touched THEN NoNetwork ELSE @,
                !.enrolled = @ \ {n}]

deleteNetwork(d, n) ==
  /\ ~Locked(d)
  /\ hasMembership(d, n)
  /\ d \in token /\ d \in session
  /\ DeleteNetwork(AccountOf[d], n, cfg[d][n][1])
  /\ row' = [e \in Devices |-> WithoutNetwork(row[e], n)]
  /\ Begin(d, [kind |-> "delete", id |-> n])
  /\ UNCHANGED <<wishing, session, token, configVars, thread, historyVars>>

\* The first membership of that network goes, and the selection with it.
deleteLocally(d) ==
  LET n == op[d].id
      list == [cfg[d] EXCEPT ![n] = IF @ = <<>> THEN @ ELSE Tail(@)]
  IN  /\ End(d, {"delete"})
      /\ cfg' = [cfg EXCEPT ![d] = list]
      /\ active' = [active EXCEPT ![d] = IF @ = n THEN NoNetwork ELSE Save(list, @)]
      /\ UNCHANGED <<registryVars, serverVars, token, thread, moves, historyVars>>

\* The service refused, or its answer was lost: nothing changes here.
abandonOperation(d) ==
  /\ End(d, {"append", "admit", "delete"})
  /\ UNCHANGED <<registryVars, serverVars, token, configVars, thread, moves, historyVars>>

activateNetwork(d, n) ==
  /\ hasMembership(d, n) /\ active[d] # n
  /\ active' = [active EXCEPT ![d] = n]
  /\ UNCHANGED <<registryVars, serverVars, token, cfg, op, thread, historyVars>>

\* An operator copies the rotated key; the first membership of the network takes it.
updateNetworkManagementKey(d, n) ==
  /\ hasMembership(d, n) /\ key[n] \in Keys
  /\ cfg' = [cfg EXCEPT ![d][n][1] = key[n]]
  /\ cfg' # cfg
  /\ entitled' = entitled \cup {<<n, AccountOf[d], key[n]>>}
  /\ UNCHANGED <<registryVars, serverVars, token, active, op, thread, signOutVars>>

\* finishCentralAuth: a new session and its token on disk.
signIn(d) ==
  /\ d \notin token \cap session
  /\ SignedIn(AccountOf[d])
  /\ session' = session \cup {d} /\ token' = token \cup {d}
  /\ owed' = owed \ {d}
  /\ UNCHANGED <<registryVars, row, wishing, configVars, op, thread, moves, asked, served, entitled>>

\* authLogout: the credential goes, its session at the service stays.
authLogout(d) ==
  /\ d \in token
  /\ token' = token \ {d}
  /\ owed' = owed \ {d}
  /\ UNCHANGED <<registryVars, serverVars, configVars, op, thread, asked, served, entitled>>

--------------------------------------------------------------------------------
(* Requests about a device, made by its account from anywhere else.           *)

\* SetDeviceNetwork checks the membership (an empty network withdraws the wish) ...
checkDeviceNetwork(d, n) ==
  /\ SignedIn(AccountOf[d])
  /\ wishing[d] = "no"
  /\ n # NoNetwork => role[n][AccountOf[d]] # "none"
  /\ wishing' = [wishing EXCEPT ![d] = n]
  /\ UNCHANGED <<registryVars, row, session, token, configVars, op, thread, historyVars>>

\* ... and writes the wish in a statement of its own, if the device has a row.
SetDeviceNetwork(d) ==
  /\ wishing[d] # "no"
  /\ wishing' = [wishing EXCEPT ![d] = "no"]
  /\ row' = [row EXCEPT ![d].desired = IF row[d].known THEN wishing[d] ELSE @]
  /\ UNCHANGED <<registryVars, session, token, configVars, op, thread, moves, historyVars>>

RequestDeviceSignOut(d) ==
  /\ SignedIn(AccountOf[d])
  /\ row[d].known
  /\ row' = [row EXCEPT ![d].signOut = TRUE]
  /\ asked' = [asked EXCEPT ![d] = @ + 1]
  /\ owed' = IF d \in token THEN owed \cup {d} ELSE owed
  /\ UNCHANGED <<registryVars, wishing, session, token, configVars, op, thread, served,
                 entitled>>

RemoveDevice(d) ==
  /\ SignedIn(AccountOf[d])
  /\ row[d].known
  /\ row' = [row EXCEPT ![d] = NoRow]
  /\ owed' = owed \ {d}
  /\ UNCHANGED <<registryVars, wishing, session, token, configVars, op, thread, asked, served,
                 entitled>>

\* The rest of the registry's life: other members' clients and administrators.
\* Disabling an account drops the sessions of its devices.
Elsewhere ==
  /\ \/ \E a \in Accounts, n \in Networks, k \in Keys : MemberChange(a, n, k)
     \/ \E n \in Networks : RotateNetworkKey(n)
     \/ \E a \in Accounts, off \in BOOLEAN : SetAccountDisabled(a, off)
  /\ Remember
  /\ session' = {d \in session : AccountOf[d] \notin disabled'}
  /\ UNCHANGED <<row, wishing, token, configVars, op, thread, signOutVars>>

Move == moves < MaxMoves /\ moves' = moves + 1

PersonStep(d) == Move /\
  \/ \E n \in Networks :
       \/ createNetwork(d, n) \/ deleteNetwork(d, n) \/ activateNetwork(d, n)
       \/ updateNetworkManagementKey(d, n)
       \/ \E host \in Devices : joinNetwork(d, host, n)
  \/ authLogout(d)
  \/ \E n \in Places : checkDeviceNetwork(d, n)
  \/ RequestDeviceSignOut(d) \/ RemoveDevice(d)

HandlerStep(d) ==
  \/ \E r \in OfferedRoles : acceptJoin(d, r)
  \/ appendMembership(d) \/ deleteLocally(d) \/ abandonOperation(d)
  \/ SetDeviceNetwork(d)

DeviceNext ==
  \/ \E d \in Devices : \/ PersonStep(d) \/ HandlerStep(d) \/ signIn(d)
                        \/ \E t \in Threads : CheckInStep(d, t)
  \/ Move /\ Elsewhere

DeviceSpec == DeviceInit /\ [][DeviceNext]_vars

(* Fairness.  The heartbeat's ticker keeps starting check-ins; a handler and a *)
(* check-in that have begun run to their end, every request having a timeout;  *)
(* the mutex is not starved; and a service that is asked for ever is reached   *)
(* again and again.                                                            *)
RunsToItsEnd(d, t) ==
  /\ WF_vars(FetchNetworks(d, t) \/ FetchFails(d, t))
  /\ WF_vars(FetchDeletions(d, t) \/ FetchFails(d, t))
  /\ WF_vars(FinishAdoption(d, t)) /\ SF_vars(AdoptNetworks(d, t))
  /\ WF_vars(SyncNetwork(d, t)) /\ WF_vars(PrepareReport(d, t))
  /\ WF_vars(CheckIn(d, t) \/ CheckInFails(d, t))
  /\ WF_vars(signOutThisMachine(d, t)) /\ WF_vars(MoveThisMachine(d, t))

DeviceFairness == \A d \in Devices :
  /\ WF_vars(HandlerStep(d))
  /\ WF_vars(StartCheckIn(d, Heartbeat))
  /\ \A t \in Threads : RunsToItsEnd(d, t)
  /\ SF_vars(FetchNetworks(d, Heartbeat)) /\ SF_vars(FetchDeletions(d, Heartbeat))
  /\ SF_vars(CheckIn(d, Heartbeat))

FairDeviceSpec == DeviceSpec /\ DeviceFairness

--------------------------------------------------------------------------------
(* Properties *)

CheckIns == [pc : {"idle", "networks", "deletions", "adopt", "adopting", "sync",
                  "report", "apply"},
             nets : [Networks -> 0 .. MaxKey], gone : SUBSET Networks,
             kept : [Networks -> Seq(Keys)], dirty : BOOLEAN,
             todo : SUBSET [id : Networks, key : Keys], refs : SUBSET Networks,
             at : Places, out : BOOLEAN]
Rows == [known : BOOLEAN, active : Places, desired : Places, signOut : BOOLEAN,
         enrolled : SUBSET Networks]
Operations == [kind : {"none"}] \cup [kind : {"delete"}, id : Networks]
  \cup [kind : {"append"}, id : Networks, key : Keys]
  \cup [kind : {"admit"}, id : Networks, key : Keys, host : Devices]

DeviceTypeOK ==
  /\ RegistryTypeOK
  /\ row \in [Devices -> Rows]
  /\ wishing \in [Devices -> Places \cup {"no"}]
  /\ cfg \in [Devices -> [Networks -> Seq(Keys)]]
  /\ active \in [Devices -> Places]
  /\ op \in [Devices -> Operations]
  /\ thread \in [Devices -> [Threads -> CheckIns]]
  /\ session \cup token \cup owed \subseteq Devices
  /\ asked \in [Devices -> Nat] /\ served \in [Devices -> Nat] /\ moves \in Nat
  /\ entitled \subseteq Networks \X Accounts \X Keys

\* A machine has a network's key, in its list, in an answer it is adopting or in
\* an admission it is about to finish, only if its account was a member while
\* that was the key, or its operator was given it: an admission that registered
\* and was then refused the grant, a stale answer or a rotation hands out nothing.
Entitled(d, n, k) == <<n, AccountOf[d], k>> \in entitled
KeysOfMembers == \A d \in Devices :
  /\ \A n \in Networks : \A i \in DOMAIN cfg[d][n] : Entitled(d, n, cfg[d][n][i])
  /\ op[d].kind = "append" => Entitled(d, op[d].id, op[d].key)
  /\ \A t \in Threads, n \in Networks :
       /\ thread[d][t].nets[n] # 0 => Entitled(d, n, thread[d][t].nets[n])
       /\ \A i \in DOMAIN thread[d][t].kept[n] : Entitled(d, n, thread[d][t].kept[n][i])

\* One request to sign a machine out never signs it out twice, however many
\* check-ins are in flight: a machine signed in again stays signed in.
SignOutOnce == \A d \in Devices : served[d] <= asked[d]

\* The service lists a machine under no network that is gone.
DirectoryOfLiveNetworks == \A d \in Devices : row[d].enrolled \subseteq live

StaysSignedIn(d) == <>[](d \in token \cap session)

\* Every network of the account reaches every machine that stays signed in,
\* although an adoption can overwrite the handler that created it.
NetworksArrive == \A d \in Devices :
  StaysSignedIn(d) => <>[](MemberNetworks(d) \subseteq Ids(cfg[d]))

\* A deletion the account is told of reaches every machine that stays signed
\* in, although an older answer can bring the network back for a while.
DeletionsArrive == \A d \in Devices :
  StaysSignedIn(d) => <>[](Ids(cfg[d]) \cap Mourned(d) = {})

\* A wish to move is carried out and spent: one that stays is for a network the
\* account does not belong to.
WishesSpent == \A d \in Devices :
  StaysSignedIn(d) =>
    <>[](row[d].desired # NoNetwork => row[d].desired \notin MemberNetworks(d))

\* The service ends up listing exactly what the machine works in and belongs to,
\* and the machine ends up selecting only a membership it has.
DirectoryCatchesUp == \A d \in Devices :
  StaysSignedIn(d) =>
    <>[](/\ row[d].active = active[d]
         /\ row[d].enrolled = Ids(cfg[d]) \cap MemberNetworks(d)
         /\ active[d] \in Ids(cfg[d]) \cup {NoNetwork})

--------------------------------------------------------------------------------
(* What the repository says and the code does not do *)

\* PLAN.md: "a sign-out is delivered exactly once".  A request that is not yet
\* carried out is recorded at the service or in the machine's hands.
SignOutNotLost == \A d \in owed :
  row[d].signOut \/ \E t \in Threads : thread[d][t].out
================================================================================
