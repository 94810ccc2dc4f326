------------------------------ MODULE PeerDirectory ----------------------------
(***************************************************************************)
(* How a machine enters a network by a join code and how the others come   *)
(* to know it: the join handler, the exchange of the peer directory, the   *)
(* event streams, the machine's own snapshots and the bootstrap records of *)
(* the account service (src/internal/api/mesh.go, peerwatch.go,            *)
(* networks.go, src/internal/store/network.go, src/internal/mesh).         *)
(*                                                                         *)
(* A directory has a row for each machine and a merge treats every row on  *)
(* its own, so the model follows the rows of one machine, Subject, in the  *)
(* directories of all.  The other machines know each other.  A merge reads *)
(* the directory when it starts and writes later.                          *)
(*                                                                         *)
(* Abstractions.  What a row says of the machine is its setting, numbered  *)
(* in the order the machine had them; 0 is what a bootstrap record leaves  *)
(* open.  Clocks agree, and count seconds, like last_seen.  Only the order *)
(* of the seconds matters, so those that a row, a message or the service's *)
(* record is dated by are numbered from 1, anew at every step: time goes   *)
(* on for ever, and so do the check-ins.  Account, member rows and keys of *)
(* a join are DeviceSync's.                                                *)
(***************************************************************************)
EXTENDS Naturals, FiniteSets

CONSTANTS Peers, Subject, Host,   \* Host made the code
          Lanes,        \* bound: exchanges under way at a time
          MaxRequests,  \* bound: join requests, retries included
          MaxUses,      \* of the code
          MaxSetting,   \* bound: settings of the machine
          Clock, Service  \* who has a date beside rows and messages

Requests == 1 .. MaxRequests   \* in the order they begin

ASSUME PeerAssumption ==
  /\ {Subject, Host} \subseteq Peers /\ Subject # Host
  /\ MaxRequests \in Nat /\ MaxUses \in Nat /\ MaxSetting \in Nat \ {0}
  /\ Peers \cap Lanes = {} /\ (Peers \cup Lanes) \cap Requests = {}
  /\ Clock # Service /\ {Clock, Service} \cap (Peers \cup Lanes \cup Requests) = {}

VARIABLES date,         \* the present second, and those that others have; 0 is none
          setting,      \* what Subject's configuration says now
          joined,       \* whether Subject has the membership
          row,          \* row[d]: what d's directory says of Subject
          writing,      \* settings Subject has read and not yet written to its row
          uses,         \* of the code
          request,      \* request[r]: a join request
          lane,         \* lane[l]: an exchange
          admitted      \* history: the requests the code was spent on

vars == <<date, setting, joined, row, writing, uses, request, lane, admitted>>

\* Of Subject's own row the date is asked for only while an answer is read from it; it is
\* with the exchange then.
Holders == (Peers \ {Subject}) \cup Lanes \cup Requests \cup {Clock, Service}

Now == date[Clock]
Dates(seconds) == date' = [h \in Holders |->
  Cardinality({seconds[g] : g \in Holders} \cap (1 .. seconds[h]))]

\* Subject writes its row.
Answers == {l \in Lanes : lane[l].at = "answer" /\ lane[l].to = Subject}
OwnRow(s, t, seconds) ==
  /\ row' = [row EXCEPT ![Subject] = s]
  /\ Dates([h \in Holders |-> IF h \in Answers THEN t ELSE seconds[h]])

Idle == [at |-> "idle"]

PeerInit ==
  /\ date = [h \in Holders |-> IF h = Clock THEN 1 ELSE 0]
  /\ setting = 1 /\ joined = FALSE /\ row = [d \in Peers |-> 0]
  /\ writing = {} /\ uses = 0
  /\ request = [r \in Requests |-> Idle]
  /\ lane = [l \in Lanes |-> Idle]
  /\ admitted = {}

\* A second later than all others begins.
Tick ==
  /\ Dates([date EXCEPT ![Clock] = Now + 1])
  /\ UNCHANGED <<setting, joined, row, writing, uses, request, lane, admitted>>

--------------------------------------------------------------------------------
(* Joining *)

\* joinNetwork sends the code with what the machine is.
joinNetwork(r) ==
  /\ ~joined /\ request[r] = Idle /\ \A q \in 1 .. r - 1 : request[q] # Idle
  /\ request' = [request EXCEPT ![r] = [at |-> "asked", setting |-> setting]]
  /\ UNCHANGED <<date, setting, joined, row, writing, uses, lane, admitted>>

\* ConsumeInvitation: the row is read ...
ReadInvitation(r) ==
  /\ request[r].at = "asked"
  /\ request' = [request EXCEPT ![r] = [at |-> "read", setting |-> @.setting, uses |-> uses]]
  /\ UNCHANGED <<date, setting, joined, row, writing, uses, lane, admitted>>

\* Plausible slip: the update trusts what was read.
SpendUnguarded(r) ==
  /\ request[r].at = "read" /\ request[r].uses < MaxUses
  /\ uses' = request[r].uses + 1 /\ admitted' = admitted \cup {r}
  /\ request' = [request EXCEPT ![r] = [at |-> "spent", setting |-> @.setting]]
  /\ UNCHANGED <<date, setting, joined, row, writing, lane>>

\* ... and updated, if it is still as read.
SpendUse(r) ==
  /\ request[r].at = "read" /\ request[r].uses < MaxUses /\ uses = request[r].uses
  /\ uses' = uses + 1 /\ admitted' = admitted \cup {r}
  /\ request' = [request EXCEPT ![r] = [at |-> "spent", setting |-> @.setting]]
  /\ UNCHANGED <<date, setting, joined, row, writing, lane>>

\* Expired, used up, used at the same time, or anything acceptJoin requires later.
Refused(r) ==
  /\ request[r].at \in {"asked", "read", "spent"}
  /\ request' = [request EXCEPT ![r] = [at |-> "over"]]
  /\ UNCHANGED <<date, setting, joined, row, writing, uses, lane, admitted>>

\* acceptJoin writes the machine's row, dated here, and answers with the directory.
acceptJoin(r) ==
  /\ request[r].at = "spent"
  /\ row' = [row EXCEPT ![Host] = request[r].setting]
  /\ Dates([date EXCEPT ![Host] = Now, ![r] = Now])
  /\ request' = [request EXCEPT ![r] = [at |-> "enrolled", setting |-> @.setting]]
  /\ UNCHANGED <<setting, joined, writing, uses, lane, admitted>>

\* The answer arrives: the membership, the rows as they come, then the machine's own.
Enrolled(r) ==
  /\ request[r].at = "enrolled"
  /\ joined' = TRUE
  /\ OwnRow(request[r].setting, date[r], [date EXCEPT ![r] = 0])
  /\ writing' = writing \cup {setting}
  /\ request' = [request EXCEPT ![r] = [at |-> "over"]]
  /\ UNCHANGED <<setting, uses, lane, admitted>>

AnswerLost(r) ==
  /\ request[r].at = "enrolled"
  /\ request' = [request EXCEPT ![r] = [at |-> "over"]]
  /\ Dates([date EXCEPT ![r] = 0])
  /\ UNCHANGED <<setting, joined, row, writing, uses, lane, admitted>>

--------------------------------------------------------------------------------
(* What Subject and the account service write *)

\* updateNetworkPolicy saves, and then records the membership it saved.
updateNetworkPolicy ==
  /\ joined /\ setting < MaxSetting
  /\ setting' = setting + 1
  /\ writing' = writing \cup {setting'}
  /\ UNCHANGED <<date, joined, row, uses, request, lane, admitted>>

\* The row is dated when it is written.
recordLocalMembership == \E s \in writing :
  /\ OwnRow(s, Now, date)
  /\ writing' = writing \ {s}
  /\ UNCHANGED <<setting, joined, uses, request, lane, admitted>>

\* The heartbeat: the account service dates the check-in; it knows the address, not the
\* setting.
CheckIn ==
  /\ joined
  /\ Dates([date EXCEPT ![Service] = Now])
  /\ UNCHANGED <<setting, joined, row, writing, uses, request, lane, admitted>>

\* A machine adopts what the service answers.
UpsertNetworkBootstrap(d) ==
  /\ d # Subject /\ date[Service] > date[d]
  /\ Dates([date EXCEPT ![d] = date[Service]])
  /\ UNCHANGED <<setting, joined, row, writing, uses, request, lane, admitted>>

--------------------------------------------------------------------------------
(* Exchanges: the client's directory travels, is merged, and the server's     *)
(* comes back.  An event stream sends one way.                                *)

Step(at, d, f) == [at |-> at, from |-> d, to |-> f]
With(at, d, f, s) == [at |-> at, from |-> d, to |-> f, setting |-> s]
InLane(l, d, f, at) == lane[l].at = at /\ lane[l].from = d /\ lane[l].to = f

Goes(l, step) == lane' = [lane EXCEPT ![l] = step]
GoesDated(l, step, t) == Goes(l, step) /\ Dates([date EXCEPT ![l] = t])

\* d can call f: it has a row for it.
Knows(d, f) ==
  /\ d # f
  /\ d = Subject => joined
  /\ f = Subject => date[d] > 0

\* refreshLocalNodeSnapshot reads what Subject is ...
Probe(l, d, f) ==
  /\ lane[l] = Idle /\ d = Subject /\ Knows(d, f)
  /\ Goes(l, With("probed", d, f, setting))
  /\ UNCHANGED <<date, setting, joined, row, writing, uses, request, admitted>>

\* ... and writes its row; the directory is sent.
SendFresh(l, d, f) ==
  /\ InLane(l, d, f, "probed")
  /\ OwnRow(lane[l].setting, Now, [date EXCEPT ![l] = Now])
  /\ Goes(l, With("sent", d, f, lane[l].setting))
  /\ UNCHANGED <<setting, joined, writing, uses, request, admitted>>

\* The other machines send what they have of Subject, who takes nothing of itself.
Send(l, d, f) ==
  /\ lane[l] = Idle /\ d # Subject /\ Knows(d, f)
  /\ IF f = Subject THEN GoesDated(l, With("sent", d, f, 0), 0)
     ELSE GoesDated(l, With("sent", d, f, row[d]), date[d])
  /\ UNCHANGED <<setting, joined, row, writing, uses, request, admitted>>

\* peerEvents: f pushes to d, which watches it; a machine dates its own row anew.  What
\* is pushed to Subject changes nothing.
peerEvents(l, d, f) ==
  /\ lane[l] = Idle /\ d # Subject /\ Knows(d, f)
  /\ f = Subject => joined
  /\ GoesDated(l, With("reply", d, f, row[f]), IF f = Subject THEN Now ELSE date[f])
  /\ UNCHANGED <<setting, joined, row, writing, uses, request, admitted>>


\* Of the dates of two rows.
nodeRecordNewer(candidate, current) == candidate > current

\* mergePeerNodes: d's directory is read, and a newer row is written later; a
\* machine's own row is never taken from others.
Merges(l, d, wait, done) ==
  IF d # Subject /\ nodeRecordNewer(date[l], date[d]) THEN GoesDated(l, wait, date[l])
  ELSE GoesDated(l, done, 0)

\* What the server does after the merge: Subject refreshes its row first.
Answering(d, f) ==
  IF f = Subject THEN With("reprobed", d, f, setting) ELSE Step("answer", d, f)

\* The server has the membership and the client's key.
Authenticate(d, f) == (f = Subject => joined) /\ (d = Subject => date[f] > 0)

acceptPeerCheckIn(l, d, f) ==
  /\ InLane(l, d, f, "sent")
  /\ Authenticate(d, f)
  /\ Merges(l, f, With("merging", d, f, lane[l].setting), Answering(d, f))
  /\ UNCHANGED <<setting, joined, row, writing, uses, request, admitted>>

\* What was read of d's directory is old by now; the row is replaced all the same.
Replaces(l, d) ==
  /\ row' = [row EXCEPT ![d] = lane[l].setting]
  /\ Dates([date EXCEPT ![d] = date[l], ![l] = 0])

UpsertNetworkNode(l, d, f) ==
  /\ InLane(l, d, f, "merging")
  /\ Replaces(l, f)
  /\ Goes(l, Answering(d, f))
  /\ UNCHANGED <<setting, joined, writing, uses, request, admitted>>

refreshLocalNodeSnapshot(l, d, f) ==
  /\ InLane(l, d, f, "reprobed")
  /\ OwnRow(lane[l].setting, Now, [date EXCEPT ![l] = Now])
  /\ Goes(l, Step("answer", d, f))
  /\ UNCHANGED <<setting, joined, writing, uses, request, admitted>>

Answer(l, d, f) ==
  /\ InLane(l, d, f, "answer")
  /\ IF d = Subject THEN GoesDated(l, Idle, 0)
     ELSE GoesDated(l, With("reply", d, f, row[f]), IF f = Subject THEN date[l] ELSE date[f])
  /\ UNCHANGED <<setting, joined, row, writing, uses, request, admitted>>

\* The client merges the answer the same way, but Subject, whom it says nothing new.
MergeAnswer(l, d, f) ==
  /\ InLane(l, d, f, "reply")
  /\ Merges(l, d, With("remerging", d, d, lane[l].setting), Idle)
  /\ UNCHANGED <<setting, joined, row, writing, uses, request, admitted>>

UpsertAnswer(l, d) ==
  /\ InLane(l, d, d, "remerging")
  /\ Replaces(l, d)
  /\ Goes(l, Idle)
  /\ UNCHANGED <<setting, joined, writing, uses, request, admitted>>

\* A message is lost, or its receiver refuses it.
Lose(l) ==
  /\ lane[l].at \in {"sent", "reply"}
  /\ GoesDated(l, Idle, 0)
  /\ UNCHANGED <<setting, joined, row, writing, uses, request, admitted>>

--------------------------------------------------------------------------------

Exchange(l, d, f) ==
  \/ Probe(l, d, f) \/ SendFresh(l, d, f) \/ Send(l, d, f) \/ peerEvents(l, d, f)
  \/ acceptPeerCheckIn(l, d, f) \/ UpsertNetworkNode(l, d, f)
  \/ refreshLocalNodeSnapshot(l, d, f) \/ Answer(l, d, f)
  \/ MergeAnswer(l, d, f) \/ UpsertAnswer(l, d)

Join(r) ==
  \/ joinNetwork(r) \/ ReadInvitation(r) \/ SpendUse(r) \/ Refused(r)
  \/ acceptJoin(r) \/ Enrolled(r) \/ AnswerLost(r)

Next ==
  \/ Tick \/ updateNetworkPolicy \/ recordLocalMembership \/ CheckIn
  \/ \E d \in Peers : UpsertNetworkBootstrap(d)
  \/ \E r \in Requests : Join(r)
  \/ \E l \in Lanes : Lose(l) \/ \E d, f \in Peers : Exchange(l, d, f)

Spec == PeerInit /\ [][Next]_vars

\* Time goes on, handlers run to their end, messages arrive or are lost, and the machine
\* calls another, its own row fresh, again and again.
PeerFairness ==
  /\ []<>(\A h \in Holders \ {Clock} : date[h] < Now)
  /\ []<>(writing = {})
  /\ []<>(joined => \E l \in Lanes : lane[l].at = "probed")
  /\ \A r \in Requests : []<>(request[r].at \in {"idle", "over"})
  /\ \A l \in Lanes : []<>(lane[l] = Idle)

\* A row that d has, dated after the latest check-in, reaches f: by a call or a stream.
GetsThrough(d, f) == \E l \in Lanes :
  /\ date[l] > date[Service]
  /\ acceptPeerCheckIn(l, d, f) \/ MergeAnswer(l, f, d)

\* Streams send every three seconds and machines check in every minute: between two
\* check-ins a machine that joined is heard of by the one that let it in, and through
\* that one by each other, not always but again and again.
Timely(d, f) == []<>(~joined) \/ []<><<GetsThrough(d, f)>>_vars
PeerTiming == Timely(Subject, Host) /\ \A f \in Peers \ {Subject, Host} : Timely(Host, f)

FairSpec == Spec /\ PeerFairness /\ PeerTiming

--------------------------------------------------------------------------------
(* Properties *)

Settings == 0 .. MaxSetting
TypeOK ==
  /\ date \in [Holders -> Nat] /\ Now > 0
  /\ setting \in 1 .. MaxSetting /\ joined \in BOOLEAN
  /\ row \in [Peers -> Settings] /\ writing \subseteq 1 .. MaxSetting
  /\ uses \in 0 .. MaxUses /\ admitted \subseteq Requests

\* A join code lets no more requests in than it has uses, however they cross.
CodeSpentOnce == Cardinality(admitted) <= MaxUses


--------------------------------------------------------------------------------
(* What the code says and does not do *)

\* mesh.go, mergePeerNodes: "accepts only complete, newer records".  What a merge has
\* still to write is newer than what it replaces.
NeverBackwards == \A l \in Lanes :
  lane[l].at \in {"merging", "remerging"} => date[l] > date[lane[l].to]
================================================================================
