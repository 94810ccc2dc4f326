-------------------------------- MODULE Projects --------------------------------
(***************************************************************************)
(* Projects across machines: the rows of a machine's database, the folders *)
(* on its disk and the account service's catalogue, and the handlers that  *)
(* change them one after the other (src/internal/api/server.go,            *)
(* projectsync.go, projectsync_account.go, download.go, orphans.go,        *)
(* src/internal/accountserver/projects.go).                                *)
(*                                                                         *)
(* Abstractions.  Every project has the same display name, which is also   *)
(* its repository's and its folder's: only the scope (a network, or none)  *)
(* and the id tell projects apart.  A folder's content is the project it   *)
(* was made for.  Descriptions, branches, sizes and policies are left out; *)
(* a call of the service is carried out or not, answered or not, but never *)
(* later than its caller waits.                                            *)
(***************************************************************************)
EXTENDS FiniteSets, Naturals

CONSTANTS Machines, Accounts, AccountOf,   \* the account each machine is linked to
          Networks,      \* networks every machine belongs to
          Alone,         \* the scope of a project without a network
          Ids,           \* project ids
          Workers, On,   \* request handlers and the machine of each
          Listed,        \* accounts in every project's member list
          Nobody,
          Held0,         \* projects there from the start: machine, id and scope
          MaxRequests    \* bound: requests of people, and restarts

Scopes == Networks \cup {Alone}
Absent == "absent"
Nothing == "nothing"    \* no folder
Empty == "empty"        \* a folder without files
Half == "half"          \* a clone that is not complete
Contents == Ids \cup {Nothing, Empty, Half}

ASSUME ProjectsAssumption ==
  /\ AccountOf \in [Machines -> Accounts] /\ On \in [Workers -> Machines]
  /\ Listed \subseteq Accounts /\ Nobody \notin Accounts \cup Ids \cup Workers
  /\ Held0 \subseteq Machines \X Ids \X (Networks \cup {Alone})
  /\ Alone \notin Networks /\ MaxRequests \in Nat
  /\ Absent \notin Scopes /\ Ids \cap {Nothing, Empty, Half} = {}

VARIABLES rows,       \* rows[m][p]: scope of the row of project p, or Absent
          folder,     \* folder[m][s]: what projects/<s>/<name> holds
          stage,      \* stage[m][s]: the clone in <folder>.downloading
          leftovers,  \* leftovers[m]: files under a name nothing looks for
          downloading,\* machines whose downloads map has the name
          sync,       \* sync[m]: what holds projectSyncMu
          work,       \* work[w]: a request handler
          catalogue,  \* catalogue[p]: the service's row and members
          used,       \* ids given out
          requests    \* bound counter

localVars == <<rows, folder, stage, leftovers, downloading>>
vars == <<localVars, sync, work, catalogue, used, requests>>

NoEntry == [owner |-> Nobody, members |-> {}]
Idle == [pc |-> "idle"]
NoClone == [by |-> Nobody, whole |-> FALSE]

ProjectsInit ==
  /\ rows = [m \in Machines |-> [p \in Ids |->
               IF \E h \in Held0 : h[1] = m /\ h[2] = p
               THEN (CHOOSE h \in Held0 : h[1] = m /\ h[2] = p)[3] ELSE Absent]]
  /\ folder = [m \in Machines |-> [s \in Scopes |->
               IF \E h \in Held0 : h[1] = m /\ h[3] = s
               THEN (CHOOSE h \in Held0 : h[1] = m /\ h[3] = s)[2] ELSE Nothing]]
  /\ stage = [m \in Machines |-> [s \in Scopes |-> NoClone]]
  /\ leftovers = [m \in Machines |-> {}]
  /\ downloading = {}
  /\ sync = [m \in Machines |-> Idle]
  /\ work = [w \in Workers |-> Idle]
  /\ catalogue = [p \in Ids |-> NoEntry]
  /\ used = {h[2] : h \in Held0} /\ requests = 0

--------------------------------------------------------------------------------
(* Rows and folders *)

Rows(m) == {p \in Ids : rows[m][p] # Absent}
InScope(m, s) == {p \in Ids : rows[m][p] = s}

\* legacyProjectDir: the unscoped folder stands in for a scoped one, unless a
\* project without a network may own it.
legacyProjectDir(m, p, s) ==
  s = Alone \/ InScope(m, Alone) \ {p} = {}

\* projectDir: where the files of a project of scope s are, or would be.
projectDir(m, p, s) ==
  IF folder[m][s] # Nothing \/ ~legacyProjectDir(m, p, s) \/ folder[m][Alone] = Nothing
  THEN s ELSE Alone

HasFiles(m, p, s) == folder[m][projectDir(m, p, s)] # Nothing

\* CreateProject: ids and names within a scope are unique.
CanCreate(m, s) == InScope(m, s) = {}
CreateProject(m, p, s) == rows' = [rows EXCEPT ![m][p] = s]

Fill(m, s, what) == folder' = [folder EXCEPT ![m][s] = what]

\* A rename onto a folder succeeds only where there is none, or an empty one.
Free(m, s) == folder[m][s] \in {Nothing, Empty}

Asked == requests < MaxRequests /\ requests' = requests + 1

--------------------------------------------------------------------------------
(* The account service: RegisterProject and ForgetProject *)

RegisterProject(a, p) ==
  catalogue' = [catalogue EXCEPT ![p] =
    CASE @.owner = Nobody -> [owner |-> a, members |-> {a} \cup Listed]
      [] @.owner = a      -> [owner |-> a, members |-> @.members \cup Listed]
      [] OTHER            -> @]

ForgetProject(a, p) ==
  catalogue' = [catalogue EXCEPT ![p] =
    IF @.owner = a THEN NoEntry ELSE [owner |-> @.owner, members |-> @.members \ {a}]]

ProjectsForAccount(a) == {p \in Ids : a \in catalogue[p].members}

--------------------------------------------------------------------------------
(* Under projectSyncMu: publish, adopt, delete.  A goroutine that waits for   *)
(* the mutex has read nothing yet.                                            *)

Locked(m, s) == sync' = [sync EXCEPT ![m] = s]
Unlocked(m) == Locked(m, Idle)

\* publishProjects: the rows are read ...
publishProjects(m) ==
  /\ sync[m] = Idle
  /\ Locked(m, [pc |-> "publish", todo |-> {[id |-> p, scope |-> rows[m][p]] : p \in Rows(m)}])
  /\ UNCHANGED <<localVars, work, catalogue, used, requests>>

\* ... and those whose folder is there are reported, one call each ...
SyncProject(m, p) ==
  /\ sync[m].pc = "publish"
  /\ \E todo \in sync[m].todo :
       /\ todo.id = p
       /\ Locked(m, [sync[m] EXCEPT !.todo = @ \ {todo}])
       /\ HasFiles(m, p, todo.scope) /\ RegisterProject(AccountOf[m], p)
  /\ UNCHANGED <<localVars, work, used, requests>>

\* ... the others passed over; so is one whose report fails.
PassOver(m, p) ==
  /\ sync[m].pc = "publish"
  /\ \E todo \in sync[m].todo :
       todo.id = p /\ Locked(m, [sync[m] EXCEPT !.todo = @ \ {todo}])
  /\ UNCHANGED <<localVars, work, catalogue, used, requests>>

\* adoptAccountProjects: the account's projects are fetched ...
adoptAccountProjects(m) ==
  /\ sync[m].pc = "publish" /\ sync[m].todo = {}
  /\ Locked(m, [pc |-> "adopt", todo |-> ProjectsForAccount(AccountOf[m])])
  /\ UNCHANGED <<localVars, work, catalogue, used, requests>>

ServiceSilent(m) ==
  /\ sync[m].pc = "publish" /\ sync[m].todo = {}
  /\ Unlocked(m)
  /\ UNCHANGED <<localVars, work, catalogue, used, requests>>

\* ... and each unknown one gets a row.  ProjectByName answers with an error
\* when there is no project of the name, and also when there are two.
AdoptProject(m) ==
  /\ sync[m].pc = "adopt"
  /\ \E p \in sync[m].todo :
       /\ Locked(m, [sync[m] EXCEPT !.todo = @ \ {p}])
       /\ IF p \notin Rows(m) /\ Cardinality(Rows(m)) # 1 /\ CanCreate(m, Alone)
          THEN CreateProject(m, p, Alone) ELSE UNCHANGED rows
  /\ UNCHANGED <<folder, stage, leftovers, downloading, work, catalogue, used, requests>>

EndAdoption(m) ==
  /\ sync[m].pc = "adopt" /\ sync[m].todo = {}
  /\ Unlocked(m)
  /\ UNCHANGED <<localVars, work, catalogue, used, requests>>

\* Plausible slip: deletion does not wait for a publication under way.
DeleteMeanwhile(m, p) ==
  /\ Asked
  /\ p \in Rows(m)
  /\ ForgetProject(AccountOf[m], p)
  /\ Fill(m, projectDir(m, p, rows[m][p]), Nothing)
  /\ rows' = [rows EXCEPT ![m][p] = Absent]
  /\ UNCHANGED <<stage, leftovers, downloading, sync, work, used>>

\* deleteProject, which reads the row once ...
deleteProject(m, p) ==
  /\ Asked
  /\ sync[m] = Idle /\ p \in Rows(m)
  /\ Locked(m, [pc |-> "forget", id |-> p, scope |-> rows[m][p]])
  /\ UNCHANGED <<localVars, work, catalogue, used>>

\* ... takes the project out of the account (the call can fail, or its answer
\* be lost, and then nothing more is done) ...
forgetAccountProject(m) ==
  /\ sync[m].pc = "forget"
  /\ LET gone == ForgetProject(AccountOf[m], sync[m].id)
         on == Locked(m, [sync[m] EXCEPT !.pc = "remove"])
     IN  \/ gone /\ on
         \/ gone /\ Unlocked(m)
         \/ UNCHANGED catalogue /\ Unlocked(m)
  /\ UNCHANGED <<localVars, work, used, requests>>

\* ... then the files, without which nothing more is done ...
RemoveFiles(m) ==
  /\ sync[m].pc = "remove"
  /\ \/ /\ Fill(m, projectDir(m, sync[m].id, sync[m].scope), Nothing)
        /\ Locked(m, [sync[m] EXCEPT !.pc = "unrecord"])
     \/ UNCHANGED folder /\ Unlocked(m)
  /\ UNCHANGED <<rows, stage, leftovers, downloading, work, catalogue, used, requests>>

\* ... and the row.
DeleteProjectID(m) ==
  /\ sync[m].pc = "unrecord"
  /\ rows' = [rows EXCEPT ![m][sync[m].id] = Absent]
  /\ Unlocked(m)
  /\ UNCHANGED <<folder, stage, leftovers, downloading, work, catalogue, used, requests>>

SyncStep(m) ==
  \/ publishProjects(m) \/ \E p \in Ids : SyncProject(m, p) \/ PassOver(m, p)
  \/ adoptAccountProjects(m) \/ ServiceSilent(m) \/ AdoptProject(m) \/ EndAdoption(m)
  \/ forgetAccountProject(m) \/ RemoveFiles(m) \/ DeleteProjectID(m)

--------------------------------------------------------------------------------
(* Request handlers *)

Goes(w, next) == work' = [work EXCEPT ![w] = next]
Ends(w) == Goes(w, Idle)
At(w, pc) == work[w].pc = pc
Mine(w) == On[w]

\* createProject: no such row and no such folder ...
createProject(w, p, s) ==
  LET m == Mine(w)
  IN  /\ Asked /\ At(w, "idle") /\ p \notin used
      /\ InScope(m, s) = {} /\ ~HasFiles(m, p, s)
      /\ used' = used \cup {p}
      /\ Goes(w, [pc |-> "mkdir", id |-> p, scope |-> s])
      /\ UNCHANGED <<localVars, sync, catalogue>>

\* ... so both are made, the folder first ...
MkdirOwned(w) ==
  LET m == Mine(w)
  IN  /\ At(w, "mkdir")
      /\ Fill(m, work[w].scope, IF folder[m][work[w].scope] = Nothing THEN Empty
                                ELSE folder[m][work[w].scope])
      /\ Goes(w, [work[w] EXCEPT !.pc = "record"])
      /\ UNCHANGED <<rows, stage, leftovers, downloading, sync, catalogue, used, requests>>

RecordProject(w) ==
  LET m == Mine(w)
  IN  /\ At(w, "record")
      /\ IF CanCreate(m, work[w].scope)
         THEN /\ CreateProject(m, work[w].id, work[w].scope)
              /\ Goes(w, [work[w] EXCEPT !.pc = "starter"])
         ELSE UNCHANGED rows /\ Ends(w)
      /\ UNCHANGED <<folder, stage, leftovers, downloading, sync, catalogue, used, requests>>

\* ... and the starter files are written.
WriteStarter(w) ==
  LET m == Mine(w)
      s == work[w].scope
  IN  /\ At(w, "starter")
      /\ Fill(m, s, IF Free(m, s) THEN work[w].id ELSE folder[m][s])
      /\ Ends(w)
      /\ UNCHANGED <<rows, stage, leftovers, downloading, sync, catalogue, used, requests>>

\* moveProjectNetwork: after its checks the files are renamed (or there are
\* none), then the row, which can be gone or find its name taken meanwhile ...
moveProjectNetwork(w, p, to) ==
  LET m == Mine(w)
  IN  /\ Asked /\ At(w, "idle")
      /\ p \in Rows(m) /\ to \in Networks \ {rows[m][p]}
      /\ InScope(m, to) = {} /\ folder[m][to] = Nothing
      /\ Goes(w, [pc |-> "rename", id |-> p, from |-> projectDir(m, p, rows[m][p]), to |-> to])
      /\ UNCHANGED <<localVars, sync, catalogue, used>>

RenameFolder(w) ==
  LET m == Mine(w)
      my == work[w]
  IN  /\ At(w, "rename")
      /\ IF folder[m][my.from] # Nothing /\ ~Free(m, my.to)
         THEN UNCHANGED folder /\ Ends(w)
         ELSE /\ folder' = IF folder[m][my.from] = Nothing THEN folder
                           ELSE [folder EXCEPT ![m][my.to] = folder[m][my.from],
                                               ![m][my.from] = Nothing]
              /\ Goes(w, [my EXCEPT !.pc = "rescope"])
      /\ UNCHANGED <<rows, stage, leftovers, downloading, sync, catalogue, used, requests>>

\* ... and then the files go back where the row says they are.
MoveProjectToNetwork(w) ==
  LET m == Mine(w)
      my == work[w]
  IN  /\ At(w, "rescope")
      /\ IF my.id \in Rows(m) /\ CanCreate(m, my.to)
         THEN rows' = [rows EXCEPT ![m][my.id] = my.to] /\ UNCHANGED folder
         ELSE /\ UNCHANGED rows
              /\ folder' = IF folder[m][my.to] = Nothing \/ ~Free(m, my.from) THEN folder
                           ELSE [folder EXCEPT ![m][my.from] = folder[m][my.to],
                                               ![m][my.to] = Nothing]
      /\ Ends(w)
      /\ UNCHANGED <<stage, leftovers, downloading, sync, catalogue, used, requests>>

(* acceptProject and fetchProject: another machine's copy replaces this one's. *)

\* serveProject, sendProject: the peer has a project of the network with files.
PeerHolds(m, n) ==
  \E q \in Machines \ {m} : \E p \in InScope(q, n) : HasFiles(q, p, n)

\* materialiseProject finds the row of the network, or makes one with a new id.
materialiseProject(w, n, p) ==
  LET m == Mine(w)
  IN  /\ Asked /\ At(w, "idle") /\ PeerHolds(m, n)
      /\ IF InScope(m, n) # {}
         THEN p \in InScope(m, n) /\ UNCHANGED <<rows, used>>
         ELSE /\ p \notin used /\ used' = used \cup {p}
              /\ CreateProject(m, p, n)
      /\ Goes(w, [pc |-> "extract", id |-> p, scope |-> n])
      /\ UNCHANGED <<folder, stage, leftovers, downloading, sync, catalogue>>

\* The archive is unpacked beside the folder.
ExtractArchive(w) ==
  LET m == Mine(w)
      my == work[w]
  IN  /\ At(w, "extract")
      /\ \/ Goes(w, [pc |-> "aside", id |-> my.id, dir |-> projectDir(m, my.id, my.scope),
                     staged |-> TRUE, backup |-> Nothing])
         \/ Ends(w)
      /\ UNCHANGED <<localVars, sync, catalogue, used, requests>>

\* What is there is renamed to <staging>.previous ...
SetAside(w) ==
  LET m == Mine(w)
      my == work[w]
  IN  /\ At(w, "aside")
      /\ Fill(m, my.dir, Nothing)
      /\ Goes(w, [my EXCEPT !.pc = "install", !.backup = folder[m][my.dir]])
      /\ UNCHANGED <<rows, stage, leftovers, downloading, sync, catalogue, used, requests>>

\* Plausible slip: what was set aside is removed before the new files are in.
InstallOrLose(w) ==
  LET m == Mine(w)
      my == work[w]
  IN  /\ At(w, "install")
      /\ IF my.staged /\ Free(m, my.dir) THEN Fill(m, my.dir, my.id) ELSE UNCHANGED folder
      /\ Ends(w)
      /\ UNCHANGED <<rows, stage, leftovers, downloading, sync, catalogue, used, requests>>

\* ... and the unpacked files take its place, or it is put back; where even
\* that fails it stays under its other name.
Install(w) ==
  LET m == Mine(w)
      my == work[w]
  IN  /\ At(w, "install")
      /\ IF my.staged /\ Free(m, my.dir)
         THEN Fill(m, my.dir, my.id) /\ UNCHANGED leftovers
         ELSE IF my.backup # Nothing /\ Free(m, my.dir)
         THEN Fill(m, my.dir, my.backup) /\ UNCHANGED leftovers
         ELSE /\ UNCHANGED folder
              /\ leftovers' = [leftovers EXCEPT ![m] = @ \cup ({my.backup} \ {Nothing})]
      /\ Ends(w)
      /\ UNCHANGED <<rows, stage, downloading, sync, catalogue, used, requests>>

(* startDownload and runDownload: a clone from the project's repository.      *)

\* Nothing is there and no download of the name runs ...
startDownload(w, p) ==
  LET m == Mine(w)
  IN  /\ Asked /\ At(w, "idle") /\ p \in Rows(m)
      /\ ~HasFiles(m, p, rows[m][p]) /\ m \notin downloading
      /\ Goes(w, [pc |-> "begin", id |-> p, dir |-> rows[m][p]])
      /\ UNCHANGED <<localVars, sync, catalogue, used>>

\* ... which is noted once the token has been read; an old clone is removed.
BeginDownload(w) ==
  LET m == Mine(w)
  IN  /\ At(w, "begin")
      /\ \/ /\ downloading' = downloading \cup {m}
            /\ stage' = [stage EXCEPT ![m][work[w].dir] = NoClone]
            /\ Goes(w, [work[w] EXCEPT !.pc = "clone"])
         \/ Ends(w) /\ UNCHANGED <<stage, downloading>>
      /\ UNCHANGED <<rows, folder, leftovers, sync, catalogue, used, requests>>

\* Plausible slip: only the way on clears the note.
failKeepingNote(w) ==
  /\ stage' = [stage EXCEPT ![Mine(w)][work[w].dir] = NoClone]
  /\ downloading' = IF At(w, "place") THEN downloading \ {Mine(w)} ELSE downloading
  /\ Ends(w)

\* A failure removes the clone, whoever made it, and the note.
failDownload(w) ==
  /\ stage' = [stage EXCEPT ![Mine(w)][work[w].dir] = NoClone]
  /\ downloading' = downloading \ {Mine(w)}
  /\ Ends(w)

CloneWithProgress(w) ==
  LET at == stage[Mine(w)][work[w].dir]
  IN  /\ \/ /\ At(w, "clone") /\ at = NoClone
            /\ stage' = [stage EXCEPT ![Mine(w)][work[w].dir] = [by |-> w, whole |-> FALSE]]
            /\ Goes(w, [work[w] EXCEPT !.pc = "cloning"]) /\ UNCHANGED downloading
         \/ /\ At(w, "cloning") /\ at.by = w
            /\ stage' = [stage EXCEPT ![Mine(w)][work[w].dir].whole = TRUE]
            /\ Goes(w, [work[w] EXCEPT !.pc = "place"]) /\ UNCHANGED downloading
         \/ work[w].pc \in {"clone", "cloning"} /\ failDownload(w)
      /\ UNCHANGED <<rows, folder, leftovers, sync, catalogue, used, requests>>

\* The clone is renamed to the folder the download was started for.
PlaceClone(w) ==
  LET m == Mine(w)
      dir == work[w].dir
      at == stage[m][dir]
  IN  /\ At(w, "place")
      /\ failDownload(w)
      /\ IF at # NoClone /\ Free(m, dir)
         THEN Fill(m, dir, IF at.whole THEN work[w].id ELSE Half)
         ELSE UNCHANGED folder
      /\ UNCHANGED <<rows, leftovers, sync, catalogue, used, requests>>

(* deleteOrphans: folders no row claims.  Rows, disk and removal are looked   *)
(* at one after the other.                                                    *)

findOrphans(w) ==
  LET m == Mine(w)
  IN  /\ Asked /\ At(w, "idle")
      /\ Goes(w, [pc |-> "walk",
                  claimed |-> {projectDir(m, p, rows[m][p]) : p \in Rows(m)}])
      /\ UNCHANGED <<localVars, sync, catalogue, used>>

\* A folder without files at the top is taken for a network's; unpacked archives
\* and files set aside are found, a clone under way is not.
WalkFolders(w) ==
  LET m == Mine(w)
      Orphan(s) == s \notin work[w].claimed /\ folder[m][s] # Nothing
                   /\ (s = Alone => folder[m][s] # Empty)
  IN  /\ At(w, "walk")
      /\ Goes(w, [pc |-> "sweep", found |-> {s \in Scopes : Orphan(s)},
                  inwork |-> {x \in Workers : On[x] = m /\ work[x].pc \in {"aside", "install"}}])
      /\ UNCHANGED <<localVars, sync, catalogue, used, requests>>

deleteOrphans(w) ==
  LET m == Mine(w)
      Swept(x) == x \in work[w].inwork /\ work[x].pc \in {"aside", "install"}
  IN  /\ At(w, "sweep")
      /\ folder' = [folder EXCEPT ![m] = [s \in Scopes |->
                      IF s \in work[w].found THEN Nothing ELSE @[s]]]
      /\ leftovers' = [leftovers EXCEPT ![m] = {}]
      /\ work' = [x \in Workers |->
           IF x = w THEN Idle
           ELSE IF Swept(x) THEN [work[x] EXCEPT !.staged = FALSE, !.backup = Nothing]
           ELSE work[x]]
      /\ UNCHANGED <<rows, stage, downloading, sync, catalogue, used, requests>>

WorkStep(w) ==
  \/ MkdirOwned(w) \/ RecordProject(w) \/ WriteStarter(w)
  \/ RenameFolder(w) \/ MoveProjectToNetwork(w)
  \/ ExtractArchive(w) \/ SetAside(w) \/ Install(w)
  \/ BeginDownload(w) \/ CloneWithProgress(w) \/ PlaceClone(w)
  \/ WalkFolders(w) \/ deleteOrphans(w)

\* The daemon restarts: what its goroutines held is gone, what is on disk stays.
Restart(m) ==
  /\ Asked
  /\ sync' = [sync EXCEPT ![m] = Idle]
  /\ downloading' = downloading \ {m}
  /\ leftovers' = [leftovers EXCEPT ![m] = @ \cup
       ({work[w].backup : w \in {x \in Workers : On[x] = m /\ At(x, "install")}} \ {Nothing})]
  /\ work' = [w \in Workers |-> IF On[w] = m THEN Idle ELSE work[w]]
  /\ UNCHANGED <<rows, folder, stage, catalogue, used>>

Request ==
  \/ \E w \in Workers, p \in Ids :
       \/ \E s \in Scopes : createProject(w, p, s)
       \/ \E n \in Networks : moveProjectNetwork(w, p, n) \/ materialiseProject(w, n, p)
       \/ startDownload(w, p)
  \/ \E w \in Workers : findOrphans(w)
  \/ \E m \in Machines, p \in Ids : deleteProject(m, p)
  \/ \E m \in Machines : Restart(m)

Next == \/ Request \/ \E m \in Machines : SyncStep(m) \/ \E w \in Workers : WorkStep(w)

Spec == ProjectsInit /\ [][Next]_vars

--------------------------------------------------------------------------------
(* Properties *)

\* What a machine does under projectSyncMu.
Syncs ==
  {Idle}
  \cup [pc : {"publish"}, todo : SUBSET [id : Ids, scope : Scopes]]
  \cup [pc : {"adopt"}, todo : SUBSET Ids]
  \cup [pc : {"forget", "remove", "unrecord"}, id : Ids, scope : Scopes]

\* What a request handler does.
Creations == [pc : {"mkdir", "record", "starter"}, id : Ids, scope : Scopes]
Moves == [pc : {"rename", "rescope"}, id : Ids, from : Scopes, to : Networks]
Fetches == [pc : {"extract"}, id : Ids, scope : Scopes]
Replacements == [pc : {"aside", "install"}, id : Ids, dir : Scopes, staged : BOOLEAN, backup : Contents]
Downloads == [pc : {"begin", "clone", "cloning", "place"}, id : Ids, dir : Scopes]
Walks == [pc : {"walk"}, claimed : SUBSET Scopes]
Sweeps == [pc : {"sweep"}, found : SUBSET Scopes, inwork : SUBSET Workers]
Works == {Idle} \cup Creations \cup Moves \cup Fetches \cup Replacements \cup Downloads
         \cup Walks \cup Sweeps

TypeOK ==
  /\ rows \in [Machines -> [Ids -> Scopes \cup {Absent}]]
  /\ folder \in [Machines -> [Scopes -> Contents]]
  /\ stage \in [Machines -> [Scopes -> [by : Workers \cup {Nobody}, whole : BOOLEAN]]]
  /\ leftovers \in [Machines -> SUBSET (Ids \cup {Empty, Half})]
  /\ sync \in [Machines -> Syncs] /\ work \in [Workers -> Works]
  /\ catalogue \in [Ids -> [owner : Accounts \cup {Nobody}, members : SUBSET Accounts]]
  /\ downloading \subseteq Machines /\ used \subseteq Ids /\ requests \in 0 .. MaxRequests

\* The service lists a project only as long as some machine knows it: a deletion
\* and a publication of the same machine never cross so that a card comes back
\* for a project that is nowhere.
CatalogueBacked ==
  \A p \in Ids : catalogue[p].owner # Nobody => \E m \in Machines : p \in Rows(m)

Held(m, p) ==
  \/ \E s \in Scopes : folder[m][s] = p
  \/ p \in leftovers[m]
  \/ \E w \in Workers : On[w] = m /\ At(w, "install") /\ work[w].backup = p

\* The only project of its name on m, and no request for another under way.
OnlyOne(m, p) ==
  /\ Rows(m) = {p}
  /\ \A w \in Workers : On[w] = m /\ "id" \in DOMAIN work[w] => work[w].id = p

\* The files of such a project leave the disk only while it is deleted or somebody
\* removes leftover folders: not by a transfer, a move or a download that fails
\* half-way, crosses another, or dies with the daemon.
FilesSurvive ==
  [][\A m \in Machines, p \in Ids :
       OnlyOne(m, p) /\ Held(m, p) /\ ~Held(m, p)' =>
         \/ sync[m].pc = "remove"
         \/ \E w \in Workers : On[w] = m /\ At(w, "sweep")]_vars

\* As long as a project counts as downloading, somebody downloads it: no failure
\* and no second click leaves the note behind, which would refuse every later
\* attempt until the daemon restarts.
DownloadNeverStuck ==
  \A m \in downloading : \E w \in Workers :
    On[w] = m /\ work[w].pc \in {"clone", "cloning", "place"}

--------------------------------------------------------------------------------
(* What the repository says and the code does not do *)

\* projectfolders.go: "A newly independent project may own a flat directory that an
\* old scoped project once used as a migration fallback. Never resolve/share its
\* files as the old project merely because both have the same display name."
FlatFolderOwned ==
  \A m \in Machines, q \in Ids : \A p \in InScope(m, Alone) \ {q} :
    rows[m][q] \in Networks => folder[m][Alone] # q
================================================================================
