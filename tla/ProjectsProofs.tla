---------------------------- MODULE ProjectsProofs ----------------------------
(***************************************************************************)
(* Proofs about Projects, for any number of machines, accounts, networks,  *)
(* projects, request handlers and requests.                                *)
(*                                                                         *)
(* ProjectsInv adds to the types: a project the service lists is known to  *)
(* a machine of its owner that is not about to forget it (CatalogueInv), a *)
(* name that counts as downloading has a handler that downloads it         *)
(* (DownloadNeverStuck), and a move has two different folders, a removal   *)
(* of leftovers only its own machine's (WorkInv), without which a rename   *)
(* or another machine's handler could lose files.                          *)
(***************************************************************************)
EXTENDS Projects, TLAPS

--------------------------------------------------------------------------------
(* Shapes *)

\* The step a handler is at tells which fields its record has.
LEMMA WorkShapes ==
  ASSUME NEW x \in Works
  PROVE  /\ x.pc \in {"mkdir", "record", "starter"} => x \in Creations
         /\ x.pc \in {"rename", "rescope"} => x \in Moves
         /\ x.pc = "extract" => x \in Fetches
         /\ x.pc \in {"aside", "install"} => x \in Replacements
         /\ x.pc \in {"begin", "clone", "cloning", "place"} => x \in Downloads
         /\ x.pc = "walk" => x \in Walks
         /\ x.pc = "sweep" => x \in Sweeps
         /\ x.pc = "idle" => x = Idle
BY DEF Works, Creations, Moves, Fetches, Replacements, Downloads, Walks, Sweeps, Idle

LEMMA SyncShapes ==
  ASSUME NEW x \in Syncs
  PROVE  /\ x.pc = "publish" => x \in [pc : {"publish"}, todo : SUBSET [id : Ids, scope : Scopes]]
         /\ x.pc = "adopt" => x \in [pc : {"adopt"}, todo : SUBSET Ids]
         /\ x.pc \in {"forget", "remove", "unrecord"} =>
              x \in [pc : {"forget", "remove", "unrecord"}, id : Ids, scope : Scopes]
         /\ x.pc = "idle" => x = Idle
BY DEF Syncs, Idle

LEMMA DirType ==
  ASSUME NEW m \in Machines, NEW p \in Ids, NEW s \in Scopes
  PROVE  projectDir(m, p, s) \in {s, Alone} /\ projectDir(m, p, s) \in Scopes /\ Alone \in Scopes
BY DEF projectDir, Scopes

\* One entry, and two entries of the same row, of a table of tables.
LEMMA PutType ==
  ASSUME NEW X, NEW Y, NEW Z, NEW f \in [X -> [Y -> Z]], NEW x \in X, NEW y \in Y, NEW z \in Z
  PROVE  /\ [f EXCEPT ![x][y] = z] \in [X -> [Y -> Z]]
         /\ [f EXCEPT ![x][y] = z][x][y] = z
         /\ \A t \in Y \ {y} : [f EXCEPT ![x][y] = z][x][t] = f[x][t]
         /\ \A q \in X \ {x} : [f EXCEPT ![x][y] = z][q] = f[q]
OBVIOUS

LEMMA MoveType ==
  ASSUME NEW X, NEW Y, NEW Z, NEW f \in [X -> [Y -> Z]], NEW x \in X, NEW y \in Y, NEW t \in Y,
         NEW z \in Z, NEW none \in Z,
         NEW g, g = [f EXCEPT ![x][y] = z, ![x][t] = none]
  PROVE  /\ g \in [X -> [Y -> Z]] /\ g[x][t] = none /\ (y # t => g[x][y] = z)
         /\ \A u \in Y \ {y, t} : g[x][u] = f[x][u]
         /\ \A q \in X \ {x} : g[q] = f[q]
<1> DEFINE h == [f EXCEPT ![x][y] = z]
<1>1. /\ h \in [X -> [Y -> Z]] /\ h[x][y] = z /\ \A u \in Y \ {y} : h[x][u] = f[x][u]
      /\ \A q \in X \ {x} : h[q] = f[q]
  BY PutType
<1>2. g = [h EXCEPT ![x][t] = none]
  OBVIOUS
<1> HIDE DEF h
<1> QED BY <1>1, <1>2, PutType

LEMMA GoesType ==
  ASSUME TypeOK, NEW w \in Workers, NEW next \in Works, Goes(w, next)
  PROVE  /\ work' \in [Workers -> Works] /\ work'[w] = next
         /\ \A x \in Workers \ {w} : work'[x] = work[x]
BY DEF TypeOK, Goes

LEMMA EndsType ==
  ASSUME TypeOK, NEW w \in Workers, Ends(w)
  PROVE  /\ work' \in [Workers -> Works] /\ work'[w] = Idle
         /\ \A x \in Workers \ {w} : work'[x] = work[x]
BY GoesType DEF Ends, Works

LEMMA LockedType ==
  ASSUME TypeOK, NEW m \in Machines, NEW s \in Syncs, Locked(m, s)
  PROVE  /\ sync' \in [Machines -> Syncs] /\ sync'[m] = s
         /\ \A q \in Machines \ {m} : sync'[q] = sync[q]
BY DEF TypeOK, Locked

LEMMA UnlockedType ==
  ASSUME TypeOK, NEW m \in Machines, Unlocked(m)
  PROVE  /\ sync' \in [Machines -> Syncs] /\ sync'[m] = Idle
         /\ \A q \in Machines \ {m} : sync'[q] = sync[q]
BY LockedType DEF Unlocked, Syncs

LEMMA FillType ==
  ASSUME TypeOK, NEW m \in Machines, NEW s \in Scopes, NEW what \in Contents, Fill(m, s, what)
  PROVE  /\ folder' \in [Machines -> [Scopes -> Contents]]
         /\ folder'[m][s] = what /\ \A t \in Scopes \ {s} : folder'[m][t] = folder[m][t]
         /\ \A q \in Machines \ {m} : folder'[q] = folder[q]
BY DEF TypeOK, Fill

LEMMA CreateType ==
  ASSUME ProjectsAssumption, TypeOK, NEW m \in Machines, NEW p \in Ids, NEW s \in Scopes,
         CreateProject(m, p, s)
  PROVE  /\ rows' \in [Machines -> [Ids -> Scopes \cup {Absent}]]
         /\ Rows(m)' = Rows(m) \cup {p} /\ \A q \in Machines \ {m} : Rows(q)' = Rows(q)
<1>1. rows' \in [Machines -> [Ids -> Scopes \cup {Absent}]]
  BY DEF TypeOK, CreateProject
<1>2. /\ rows'[m][p] = s /\ \A r \in Ids \ {p} : rows'[m][r] = rows[m][r]
      /\ \A q \in Machines \ {m} : rows'[q] = rows[q]
  BY DEF TypeOK, CreateProject
<1> QED BY <1>1, <1>2 DEF Rows, ProjectsAssumption

LEMMA RegisterType ==
  ASSUME ProjectsAssumption, TypeOK, NEW a \in Accounts, NEW p \in Ids, RegisterProject(a, p)
  PROVE  /\ catalogue' \in [Ids -> [owner : Accounts \cup {Nobody}, members : SUBSET Accounts]]
         /\ catalogue'[p].owner = IF catalogue[p].owner = Nobody THEN a ELSE catalogue[p].owner
         /\ \A q \in Ids \ {p} : catalogue'[q] = catalogue[q]
<1> DEFINE Entry == [owner : Accounts \cup {Nobody}, members : SUBSET Accounts]
           now == CASE catalogue[p].owner = Nobody -> [owner |-> a, members |-> {a} \cup Listed]
                    [] catalogue[p].owner = a ->
                         [owner |-> a, members |-> catalogue[p].members \cup Listed]
                    [] OTHER -> catalogue[p]
<1>1. catalogue' = [catalogue EXCEPT ![p] = now] /\ catalogue \in [Ids -> Entry]
  BY DEF RegisterProject, TypeOK
<1>2. /\ now \in Entry
      /\ now.owner = IF catalogue[p].owner = Nobody THEN a ELSE catalogue[p].owner
  <2>1. CASE catalogue[p].owner = Nobody
    BY <1>1, <2>1 DEF ProjectsAssumption
  <2>2. CASE catalogue[p].owner = a /\ catalogue[p].owner # Nobody
    BY <1>1, <2>2 DEF ProjectsAssumption
  <2>3. CASE catalogue[p].owner # a /\ catalogue[p].owner # Nobody
    BY <1>1, <2>3
  <2> QED BY <2>1, <2>2, <2>3
<1> HIDE DEF now
<1> QED BY <1>1, <1>2

LEMMA ForgetType ==
  ASSUME TypeOK, NEW a \in Accounts, NEW p \in Ids, ForgetProject(a, p)
  PROVE  /\ catalogue' \in [Ids -> [owner : Accounts \cup {Nobody}, members : SUBSET Accounts]]
         /\ catalogue'[p].owner = IF catalogue[p].owner = a THEN Nobody ELSE catalogue[p].owner
         /\ \A q \in Ids \ {p} : catalogue'[q] = catalogue[q]
<1> DEFINE Entry == [owner : Accounts \cup {Nobody}, members : SUBSET Accounts]
           now == IF catalogue[p].owner = a THEN NoEntry
                  ELSE [owner |-> catalogue[p].owner, members |-> catalogue[p].members \ {a}]
<1>1. catalogue' = [catalogue EXCEPT ![p] = now] /\ catalogue \in [Ids -> Entry]
  <2>1. catalogue \in [Ids -> Entry]
    BY DEF TypeOK
  <2>2. catalogue' = [catalogue EXCEPT ![p] = now]
    BY DEF ForgetProject
  <2> QED BY <2>1, <2>2
<1>2. /\ now \in Entry
      /\ now.owner = IF catalogue[p].owner = a THEN Nobody ELSE catalogue[p].owner
  BY <1>1 DEF NoEntry
<1> HIDE DEF now
<1> QED BY <1>1, <1>2

--------------------------------------------------------------------------------
(* The inductive invariant *)

\* The machine has the project and is not past taking it out of the account.
Backs(m, p) ==
  p \in Rows(m) /\ ~(sync[m].pc \in {"remove", "unrecord"} /\ sync[m].id = p)

\* What is about to be published stays known as long as projectSyncMu is held; the owner of
\* an entry has a machine that backs it.
CatalogueInv ==
  /\ \A m \in Machines : sync[m].pc = "publish" => \A t \in sync[m].todo : t.id \in Rows(m)
  /\ \A p \in Ids : catalogue[p].owner # Nobody =>
       \E m \in Machines : AccountOf[m] = catalogue[p].owner /\ Backs(m, p)

\* Folders are moved elsewhere; a removal of leftovers looks at its own machine only.
WorkInv ==
  \A w \in Workers :
    /\ work[w].pc \in {"rename", "rescope"} => work[w].from # work[w].to
    /\ work[w].pc = "sweep" => \A x \in work[w].inwork : On[x] = On[w]

ProjectsInv == TypeOK /\ CatalogueInv /\ WorkInv /\ DownloadNeverStuck

--------------------------------------------------------------------------------
(* Types *)

LEMMA SyncKeepsTypes ==
  ASSUME ProjectsAssumption, TypeOK, NEW m \in Machines, SyncStep(m)
  PROVE  TypeOK'
<1> sync[m] \in Syncs /\ AccountOf[m] \in Accounts /\ Idle \in Syncs
  BY DEF TypeOK, ProjectsAssumption, Syncs
<1>l. sync' \in [Machines -> Syncs] /\ UNCHANGED <<localVars, work, catalogue, used, requests>> => TypeOK'
  BY DEF TypeOK, localVars
<1>c. /\ sync' \in [Machines -> Syncs] /\ UNCHANGED <<localVars, work, used, requests>>
      /\ catalogue' \in [Ids -> [owner : Accounts \cup {Nobody}, members : SUBSET Accounts]]
      => TypeOK'
  BY DEF TypeOK, localVars
<1>1. CASE publishProjects(m)
  <2>1. {[id |-> p, scope |-> rows[m][p]] : p \in Rows(m)} \in SUBSET [id : Ids, scope : Scopes]
    BY DEF Rows, TypeOK
  <2>2. [pc |-> "publish", todo |-> {[id |-> p, scope |-> rows[m][p]] : p \in Rows(m)}] \in Syncs
    BY <2>1 DEF Syncs
  <2> QED BY <1>l, <1>1, <2>2, LockedType DEF publishProjects
<1>2. ASSUME NEW todo \in sync[m].todo, sync[m].pc \in {"publish", "adopt"}
      PROVE  [sync[m] EXCEPT !.todo = @ \ {todo}] \in Syncs
  <2>1. CASE sync[m].pc = "publish"
    BY <2>1, SyncShapes DEF Syncs
  <2>2. CASE sync[m].pc = "adopt"
    BY <2>2, SyncShapes DEF Syncs
  <2> QED BY <1>2, <2>1, <2>2
<1>3. ASSUME NEW p \in Ids, SyncProject(m, p)
      PROVE  TypeOK'
  <2>1. PICK todo \in sync[m].todo :
          /\ Locked(m, [sync[m] EXCEPT !.todo = @ \ {todo}])
          /\ RegisterProject(AccountOf[m], p)
    BY <1>3 DEF SyncProject
  <2>2. [sync[m] EXCEPT !.todo = @ \ {todo}] \in Syncs
    BY <1>2, <1>3 DEF SyncProject
  <2> QED BY <1>c, <1>3, <2>1, <2>2, LockedType, RegisterType DEF SyncProject
<1>4. ASSUME NEW p \in Ids, PassOver(m, p)
      PROVE  TypeOK'
  <2>1. PICK todo \in sync[m].todo : Locked(m, [sync[m] EXCEPT !.todo = @ \ {todo}])
    BY <1>4 DEF PassOver
  <2>2. [sync[m] EXCEPT !.todo = @ \ {todo}] \in Syncs
    BY <1>2, <1>4 DEF PassOver
  <2> QED BY <1>l, <1>4, <2>1, <2>2, LockedType DEF PassOver
<1>5. CASE adoptAccountProjects(m)
  <2>1. [pc |-> "adopt", todo |-> ProjectsForAccount(AccountOf[m])] \in Syncs
    BY DEF Syncs, ProjectsForAccount
  <2> QED BY <1>l, <1>5, <2>1, LockedType DEF adoptAccountProjects
<1>6. CASE ServiceSilent(m) \/ EndAdoption(m)
  BY <1>l, <1>6, UnlockedType DEF ServiceSilent, EndAdoption
<1>7. CASE AdoptProject(m)
  <2>1. PICK p \in sync[m].todo :
          /\ Locked(m, [sync[m] EXCEPT !.todo = @ \ {p}])
          /\ CreateProject(m, p, Alone) \/ UNCHANGED rows
    BY <1>7 DEF AdoptProject
  <2>2. sync[m].pc = "adopt"
    BY <1>7 DEF AdoptProject
  <2>3. p \in Ids /\ [sync[m] EXCEPT !.todo = @ \ {p}] \in Syncs /\ Alone \in Scopes
    BY <1>2, <2>2, SyncShapes DEF Scopes
  <2>4. rows' \in [Machines -> [Ids -> Scopes \cup {Absent}]]
    BY <2>1, <2>3, CreateType DEF TypeOK
  <2>5. sync' \in [Machines -> Syncs]
    BY <2>1, <2>3, LockedType
  <2> QED BY <1>7, <2>4, <2>5 DEF AdoptProject, TypeOK
<1>8. ASSUME NEW pc \in {"forget", "remove", "unrecord"}, sync[m].pc \in {"forget", "remove", "unrecord"}
      PROVE  [sync[m] EXCEPT !.pc = pc] \in Syncs /\ sync[m].id \in Ids /\ sync[m].scope \in Scopes
  BY <1>8, SyncShapes DEF Syncs
<1>9. CASE forgetAccountProject(m)
  <2>1. sync[m].pc = "forget" /\ [sync[m] EXCEPT !.pc = "remove"] \in Syncs /\ sync[m].id \in Ids
    BY <1>8, <1>9 DEF forgetAccountProject
  <2>2. /\ Locked(m, [sync[m] EXCEPT !.pc = "remove"]) \/ Unlocked(m)
        /\ ForgetProject(AccountOf[m], sync[m].id) \/ UNCHANGED catalogue
    BY <1>9 DEF forgetAccountProject
  <2>3. sync' \in [Machines -> Syncs]
    BY <2>1, <2>2, LockedType, UnlockedType
  <2>4. catalogue' \in [Ids -> [owner : Accounts \cup {Nobody}, members : SUBSET Accounts]]
    BY <2>1, <2>2, ForgetType DEF TypeOK
  <2> QED BY <1>c, <1>9, <2>3, <2>4 DEF forgetAccountProject
<1>10. CASE RemoveFiles(m)
  <2>1. /\ sync[m].pc = "remove" /\ [sync[m] EXCEPT !.pc = "unrecord"] \in Syncs
        /\ sync[m].id \in Ids /\ sync[m].scope \in Scopes
    BY <1>8, <1>10 DEF RemoveFiles
  <2>2. /\ Fill(m, projectDir(m, sync[m].id, sync[m].scope), Nothing) \/ UNCHANGED folder
        /\ Locked(m, [sync[m] EXCEPT !.pc = "unrecord"]) \/ Unlocked(m)
    BY <1>10 DEF RemoveFiles
  <2>3. sync' \in [Machines -> Syncs]
    BY <2>1, <2>2, LockedType, UnlockedType
  <2>4. folder' \in [Machines -> [Scopes -> Contents]]
    BY <2>1, <2>2, DirType, FillType DEF TypeOK, Contents
  <2> QED BY <1>10, <2>3, <2>4 DEF RemoveFiles, TypeOK
<1>11. CASE DeleteProjectID(m)
  <2>1. sync[m].id \in Ids
    BY <1>8, <1>11 DEF DeleteProjectID
  <2>2. rows' \in [Machines -> [Ids -> Scopes \cup {Absent}]]
    BY <1>11, <2>1 DEF DeleteProjectID, TypeOK
  <2>3. sync' \in [Machines -> Syncs]
    BY <1>11, UnlockedType DEF DeleteProjectID
  <2> QED BY <1>11, <2>2, <2>3 DEF DeleteProjectID, TypeOK
<1> QED BY <1>1, <1>3, <1>4, <1>5, <1>6, <1>7, <1>9, <1>10, <1>11 DEF SyncStep

LEMMA WorkKeepsTypes ==
  ASSUME ProjectsAssumption, TypeOK, NEW w \in Workers, WorkStep(w)
  PROVE  TypeOK'
<1> work[w] \in Works /\ On[w] \in Machines
  BY DEF TypeOK, ProjectsAssumption
<1> USE DEF Mine, At
<1>1. CASE MkdirOwned(w)
  <2>1. work[w] \in Creations
    BY <1>1, WorkShapes DEF MkdirOwned
  <2>2. work[w].scope \in Scopes /\ [work[w] EXCEPT !.pc = "record"] \in Works
    BY <2>1 DEF Creations, Works
  <2>3. folder' \in [Machines -> [Scopes -> Contents]]
    <3>1. PICK what \in Contents : Fill(On[w], work[w].scope, what)
      BY <1>1, <2>2 DEF MkdirOwned, TypeOK, Contents
    <3> QED BY <2>2, <3>1, FillType
  <2>4. work' \in [Workers -> Works]
    BY <1>1, <2>2, GoesType DEF MkdirOwned
  <2> QED BY <1>1, <2>3, <2>4 DEF MkdirOwned, TypeOK
<1>2. CASE RecordProject(w)
  <2>1. work[w] \in Creations
    BY <1>2, WorkShapes DEF RecordProject
  <2>2. work[w].id \in Ids /\ work[w].scope \in Scopes /\ [work[w] EXCEPT !.pc = "starter"] \in Works
    BY <2>1 DEF Creations, Works
  <2>3. /\ Goes(w, [work[w] EXCEPT !.pc = "starter"]) \/ Ends(w)
        /\ CreateProject(On[w], work[w].id, work[w].scope) \/ UNCHANGED rows
    BY <1>2 DEF RecordProject
  <2>4. work' \in [Workers -> Works]
    BY <2>2, <2>3, GoesType, EndsType
  <2>5. rows' \in [Machines -> [Ids -> Scopes \cup {Absent}]]
    BY <2>2, <2>3, CreateType DEF TypeOK
  <2> QED BY <1>2, <2>4, <2>5 DEF RecordProject, TypeOK
<1>3. CASE WriteStarter(w)
  <2>1. work[w] \in Creations
    BY <1>3, WorkShapes DEF WriteStarter
  <2>2. work[w].id \in Ids /\ work[w].scope \in Scopes
    BY <2>1 DEF Creations
  <2>3. folder' \in [Machines -> [Scopes -> Contents]]
    <3>1. PICK what \in Contents : Fill(On[w], work[w].scope, what)
      BY <1>3, <2>2 DEF WriteStarter, TypeOK, Contents
    <3> QED BY <2>2, <3>1, FillType
  <2>4. work' \in [Workers -> Works]
    BY <1>3, EndsType DEF WriteStarter
  <2> QED BY <1>3, <2>3, <2>4 DEF WriteStarter, TypeOK
<1>m. ASSUME NEW from \in Scopes, NEW to \in Scopes,
             folder' = [folder EXCEPT ![On[w]][to] = folder[On[w]][from], ![On[w]][from] = Nothing]
      PROVE  folder' \in [Machines -> [Scopes -> Contents]]
  <2>1. folder \in [Machines -> [Scopes -> Contents]] /\ Nothing \in Contents
    BY DEF TypeOK, Contents
  <2>2. folder[On[w]][from] \in Contents
    BY <2>1
  <2> QED BY ONLY <1>m, <2>1, <2>2, On[w] \in Machines, MoveType
<1>4. CASE RenameFolder(w)
  <2>1. work[w] \in Moves
    BY <1>4, WorkShapes DEF RenameFolder
  <2>2. /\ work[w].from \in Scopes /\ work[w].to \in Scopes
        /\ [work[w] EXCEPT !.pc = "rescope"] \in Works
    BY <2>1 DEF Moves, Works, Scopes
  <2>3. folder' \in [Machines -> [Scopes -> Contents]]
    <3>1. \/ folder' = folder
          \/ folder' = [folder EXCEPT ![On[w]][work[w].to] = folder[On[w]][work[w].from],
                                      ![On[w]][work[w].from] = Nothing]
      BY <1>4 DEF RenameFolder
    <3> QED BY <1>m, <2>2, <3>1 DEF TypeOK
  <2>4. work' \in [Workers -> Works]
    BY <1>4, <2>2, GoesType, EndsType DEF RenameFolder
  <2> QED BY <1>4, <2>3, <2>4 DEF RenameFolder, TypeOK
<1>5. CASE MoveProjectToNetwork(w)
  <2>1. work[w] \in Moves
    BY <1>5, WorkShapes DEF MoveProjectToNetwork
  <2>2. work[w].id \in Ids /\ work[w].from \in Scopes /\ work[w].to \in Scopes
    BY <2>1 DEF Moves, Scopes
  <2>3. folder' \in [Machines -> [Scopes -> Contents]]
    <3>1. \/ folder' = folder
          \/ folder' = [folder EXCEPT ![On[w]][work[w].from] = folder[On[w]][work[w].to],
                                      ![On[w]][work[w].to] = Nothing]
      BY <1>5 DEF MoveProjectToNetwork
    <3> QED BY <1>m, <2>2, <3>1 DEF TypeOK
  <2>4. rows' \in [Machines -> [Ids -> Scopes \cup {Absent}]]
    <3>1. rows' = rows \/ rows' = [rows EXCEPT ![On[w]][work[w].id] = work[w].to]
      BY <1>5 DEF MoveProjectToNetwork
    <3>2. rows \in [Machines -> [Ids -> Scopes \cup {Absent}]]
      BY DEF TypeOK
    <3>3. work[w].to \in Scopes \cup {Absent}
      BY <2>2
    <3> QED BY ONLY <2>2, <3>1, <3>2, <3>3, On[w] \in Machines, PutType
  <2>5. work' \in [Workers -> Works]
    BY <1>5, EndsType DEF MoveProjectToNetwork
  <2> QED BY <1>5, <2>3, <2>4, <2>5 DEF MoveProjectToNetwork, TypeOK
<1>6. CASE ExtractArchive(w)
  <2>1. work[w] \in Fetches
    BY <1>6, WorkShapes DEF ExtractArchive
  <2>2. work[w].id \in Ids /\ work[w].scope \in Scopes
    BY <2>1 DEF Fetches
  <2>3. [pc |-> "aside", id |-> work[w].id, dir |-> projectDir(On[w], work[w].id, work[w].scope),
         staged |-> TRUE, backup |-> Nothing] \in Works
    BY <2>2, DirType DEF Works, Replacements, Contents
  <2>4. work' \in [Workers -> Works]
    BY <1>6, <2>3, GoesType, EndsType DEF ExtractArchive
  <2> QED BY <1>6, <2>4 DEF ExtractArchive, TypeOK, localVars
<1>7. CASE SetAside(w)
  <2>1. work[w] \in Replacements
    BY <1>7, WorkShapes DEF SetAside
  <2>2. work[w].dir \in Scopes
    BY <2>1 DEF Replacements
  <2>3. [work[w] EXCEPT !.pc = "install", !.backup = folder[On[w]][work[w].dir]] \in Works
    <3>1. folder[On[w]][work[w].dir] \in Contents
      BY <2>2 DEF TypeOK
    <3> QED BY <2>1, <3>1 DEF Replacements, Works
  <2>4. work' \in [Workers -> Works]
    BY <1>7, <2>3, GoesType DEF SetAside
  <2>5. folder' \in [Machines -> [Scopes -> Contents]]
    BY <1>7, <2>2, FillType DEF SetAside, Contents
  <2> QED BY <1>7, <2>4, <2>5 DEF SetAside, TypeOK
<1>8. CASE Install(w)
  <2>1. work[w] \in Replacements
    BY <1>8, WorkShapes DEF Install
  <2>2. work[w].id \in Contents /\ work[w].dir \in Scopes /\ work[w].backup \in Contents
    BY <2>1 DEF Replacements, Contents
  <2>3. folder' \in [Machines -> [Scopes -> Contents]]
    <3>1. \/ Fill(On[w], work[w].dir, work[w].id) \/ Fill(On[w], work[w].dir, work[w].backup)
          \/ UNCHANGED folder
      BY <1>8 DEF Install
    <3> QED BY <2>2, <3>1, FillType DEF TypeOK
  <2>4. leftovers' \in [Machines -> SUBSET (Ids \cup {Empty, Half})]
    <3>1. \/ leftovers' = leftovers
          \/ leftovers' = [leftovers EXCEPT ![On[w]] = @ \cup ({work[w].backup} \ {Nothing})]
      BY <1>8 DEF Install
    <3>2. {work[w].backup} \ {Nothing} \subseteq Ids \cup {Empty, Half}
      BY <2>2 DEF Contents
    <3>3. leftovers \in [Machines -> SUBSET (Ids \cup {Empty, Half})]
      BY DEF TypeOK
    <3> QED BY ONLY <3>1, <3>2, <3>3, On[w] \in Machines
  <2>5. work' \in [Workers -> Works]
    BY <1>8, EndsType DEF Install
  <2> QED BY <1>8, <2>3, <2>4, <2>5 DEF Install, TypeOK
<1>s. /\ stage \in [Machines -> [Scopes -> [by : Workers \cup {Nobody}, whole : BOOLEAN]]]
      /\ NoClone \in [by : Workers \cup {Nobody}, whole : BOOLEAN]
  BY DEF TypeOK, NoClone
<1>t. ASSUME NEW dir \in Scopes, NEW z \in [by : Workers \cup {Nobody}, whole : BOOLEAN],
             stage' = [stage EXCEPT ![On[w]][dir] = z]
      PROVE  stage' \in [Machines -> [Scopes -> [by : Workers \cup {Nobody}, whole : BOOLEAN]]]
  BY ONLY <1>s, <1>t, On[w] \in Machines, PutType
<1>d. ASSUME failDownload(w), NEW dir \in Scopes, dir = work[w].dir
      PROVE  /\ stage' \in [Machines -> [Scopes -> [by : Workers \cup {Nobody}, whole : BOOLEAN]]]
             /\ downloading' \subseteq Machines /\ work' \in [Workers -> Works]
  <2>1. stage' = [stage EXCEPT ![On[w]][dir] = NoClone]
    BY <1>d DEF failDownload
  <2>2. stage' \in [Machines -> [Scopes -> [by : Workers \cup {Nobody}, whole : BOOLEAN]]]
    BY <1>s, <1>t, <1>d, <2>1
  <2> QED BY <1>d, <2>2, EndsType DEF failDownload, TypeOK
<1>9. CASE BeginDownload(w)
  <2>1. work[w] \in Downloads
    BY <1>9, WorkShapes DEF BeginDownload
  <2>2. work[w].dir \in Scopes /\ [work[w] EXCEPT !.pc = "clone"] \in Works
    BY <2>1 DEF Downloads, Works
  <2>3. work' \in [Workers -> Works]
    BY <1>9, <2>2, GoesType, EndsType DEF BeginDownload
  <2>4. stage' \in [Machines -> [Scopes -> [by : Workers \cup {Nobody}, whole : BOOLEAN]]]
    <3>1. PICK dir \in Scopes : dir = work[w].dir
      BY <2>2
    <3>2. stage' = stage \/ stage' = [stage EXCEPT ![On[w]][dir] = NoClone]
      BY <1>9, <3>1 DEF BeginDownload
    <3>3. CASE stage' = [stage EXCEPT ![On[w]][dir] = NoClone]
      BY <1>s, <1>t, <3>3
    <3> QED BY <1>s, <3>2, <3>3
  <2>5. downloading' \subseteq Machines
    BY <1>9 DEF BeginDownload, TypeOK
  <2> QED BY <1>9, <2>3, <2>4, <2>5 DEF BeginDownload, TypeOK
<1>10. CASE CloneWithProgress(w)
  <2>1. work[w] \in Downloads
    BY <1>10, WorkShapes DEF CloneWithProgress
  <2>2. /\ work[w].dir \in Scopes /\ [work[w] EXCEPT !.pc = "cloning"] \in Works
        /\ [work[w] EXCEPT !.pc = "place"] \in Works
    BY <2>1 DEF Downloads, Works
  <2>3. CASE failDownload(w)
    BY <1>d, <1>10, <2>2, <2>3 DEF CloneWithProgress, TypeOK
  <2>4. CASE ~failDownload(w)
    <3>d. PICK dir \in Scopes : dir = work[w].dir
      BY <2>2
    <3>1. /\ Goes(w, [work[w] EXCEPT !.pc = "cloning"]) \/ Goes(w, [work[w] EXCEPT !.pc = "place"])
          /\ downloading' = downloading
          /\ \/ stage' = [stage EXCEPT ![On[w]][dir] = [by |-> w, whole |-> FALSE]]
             \/ stage' = [stage EXCEPT ![On[w]][dir] = [stage[On[w]][dir] EXCEPT !.whole = TRUE]]
      BY <1>10, <2>4, <3>d DEF CloneWithProgress
    <3>2. work' \in [Workers -> Works]
      BY <2>2, <3>1, GoesType
    <3>3. stage' \in [Machines -> [Scopes -> [by : Workers \cup {Nobody}, whole : BOOLEAN]]]
      <4>1. [by |-> w, whole |-> FALSE] \in [by : Workers \cup {Nobody}, whole : BOOLEAN]
        OBVIOUS
      <4>2. stage[On[w]][dir] \in [by : Workers \cup {Nobody}, whole : BOOLEAN]
        BY ONLY <1>s, On[w] \in Machines, dir \in Scopes
      <4>3. [stage[On[w]][dir] EXCEPT !.whole = TRUE] \in [by : Workers \cup {Nobody}, whole : BOOLEAN]
        BY ONLY <4>2
      <4>4. CASE stage' = [stage EXCEPT ![On[w]][dir] = [by |-> w, whole |-> FALSE]]
        BY <1>t, <4>1, <4>4
      <4>5. CASE stage' = [stage EXCEPT ![On[w]][dir] = [stage[On[w]][dir] EXCEPT !.whole = TRUE]]
        BY <1>t, <4>3, <4>5
      <4> QED BY <3>1, <4>4, <4>5
    <3> QED BY <1>10, <3>1, <3>2, <3>3 DEF CloneWithProgress, TypeOK
  <2> QED BY <2>3, <2>4
<1>11. CASE PlaceClone(w)
  <2>1. work[w] \in Downloads
    BY <1>11, WorkShapes DEF PlaceClone
  <2>2. work[w].dir \in Scopes /\ work[w].id \in Contents /\ Half \in Contents
    BY <2>1 DEF Downloads, Contents
  <2>3. folder' \in [Machines -> [Scopes -> Contents]]
    <3>1. \/ Fill(On[w], work[w].dir, work[w].id) \/ Fill(On[w], work[w].dir, Half)
          \/ UNCHANGED folder
      BY <1>11 DEF PlaceClone
    <3> QED BY <2>2, <3>1, FillType DEF TypeOK
  <2> QED BY <1>d, <1>11, <2>2, <2>3 DEF PlaceClone, TypeOK
<1>12. CASE WalkFolders(w)
  <2>1. PICK found \in SUBSET Scopes, inwork \in SUBSET Workers :
          Goes(w, [pc |-> "sweep", found |-> found, inwork |-> inwork])
    BY <1>12 DEF WalkFolders
  <2>2. [pc |-> "sweep", found |-> found, inwork |-> inwork] \in Works
    BY DEF Works, Sweeps
  <2> QED BY <1>12, <2>1, <2>2, GoesType DEF WalkFolders, TypeOK, localVars
<1>13. CASE deleteOrphans(w)
  <2>1. folder' \in [Machines -> [Scopes -> Contents]]
    <3> DEFINE left == [s \in Scopes |-> IF s \in work[w].found THEN Nothing ELSE folder[On[w]][s]]
    <3>1. folder \in [Machines -> [Scopes -> Contents]] /\ Nothing \in Contents
      BY DEF TypeOK, Contents
    <3>2. left \in [Scopes -> Contents]
      BY <3>1
    <3>3. folder' = [folder EXCEPT ![On[w]] = left]
      BY <1>13 DEF deleteOrphans
    <3> HIDE DEF left
    <3> QED BY <3>1, <3>2, <3>3
  <2>2. leftovers' \in [Machines -> SUBSET (Ids \cup {Empty, Half})]
    BY <1>13 DEF deleteOrphans, TypeOK
  <2>3. work' \in [Workers -> Works]
    <3>1. ASSUME NEW x \in Workers, work[x].pc \in {"aside", "install"}
          PROVE  [work[x] EXCEPT !.staged = FALSE, !.backup = Nothing] \in Works
      <4>1. work[x] \in Replacements
        BY <3>1, WorkShapes DEF TypeOK
      <4> QED BY <4>1 DEF Replacements, Works, Contents
    <3>2. Idle \in Works /\ \A x \in Workers : work[x] \in Works
      BY DEF Works, TypeOK
    <3> QED BY <1>13, <3>1, <3>2 DEF deleteOrphans
  <2> QED BY <1>13, <2>1, <2>2, <2>3 DEF deleteOrphans, TypeOK
<1> QED BY <1>1, <1>2, <1>3, <1>4, <1>5, <1>6, <1>7, <1>8, <1>9, <1>10, <1>11, <1>12, <1>13 DEF WorkStep

LEMMA RequestKeepsTypes ==
  ASSUME ProjectsAssumption, TypeOK, Request
  PROVE  TypeOK'
<1>a. Asked => requests' \in 0 .. MaxRequests
  BY DEF Asked, TypeOK, ProjectsAssumption
<1>w. ASSUME NEW w \in Workers, NEW next \in Works, Goes(w, next), Asked,
             UNCHANGED <<folder, stage, leftovers, downloading, sync, catalogue>>,
             rows' \in [Machines -> [Ids -> Scopes \cup {Absent}]], used' \subseteq Ids
      PROVE  TypeOK'
  <2>1. work' \in [Workers -> Works]
    BY <1>w, GoesType
  <2> QED BY <1>a, <1>w, <2>1 DEF TypeOK
<1>1. ASSUME NEW w \in Workers, NEW p \in Ids, NEW s \in Scopes, createProject(w, p, s)
      PROVE  TypeOK'
  <2>1. [pc |-> "mkdir", id |-> p, scope |-> s] \in Works
    BY DEF Works, Creations
  <2> QED BY <1>1, <1>w, <2>1 DEF createProject, localVars, TypeOK
<1>2. ASSUME NEW w \in Workers, NEW p \in Ids, NEW n \in Networks, moveProjectNetwork(w, p, n)
      PROVE  TypeOK'
  <2>1. rows[On[w]][p] \in Scopes /\ On[w] \in Machines
    BY <1>2 DEF moveProjectNetwork, Rows, Mine, TypeOK, ProjectsAssumption
  <2>2. [pc |-> "rename", id |-> p, from |-> projectDir(On[w], p, rows[On[w]][p]), to |-> n] \in Works
    BY <2>1, DirType DEF Works, Moves
  <2> QED BY <1>2, <1>w, <2>2 DEF moveProjectNetwork, localVars, TypeOK, Mine
<1>3. ASSUME NEW w \in Workers, NEW n \in Networks, NEW p \in Ids, materialiseProject(w, n, p)
      PROVE  TypeOK'
  <2>1. [pc |-> "extract", id |-> p, scope |-> n] \in Works /\ n \in Scopes /\ On[w] \in Machines
    BY DEF Works, Fetches, Scopes, ProjectsAssumption
  <2>2. \/ rows' = rows /\ used' = used
        \/ CreateProject(On[w], p, n) /\ used' = used \cup {p}
    BY <1>3 DEF materialiseProject, Mine
  <2>3. rows' \in [Machines -> [Ids -> Scopes \cup {Absent}]] /\ used' \subseteq Ids
    BY <2>1, <2>2, CreateType DEF TypeOK
  <2> QED BY <1>3, <1>w, <2>1, <2>3 DEF materialiseProject
<1>4. ASSUME NEW w \in Workers, NEW p \in Ids, startDownload(w, p)
      PROVE  TypeOK'
  <2>1. rows[On[w]][p] \in Scopes
    BY <1>4 DEF startDownload, Rows, Mine, TypeOK, ProjectsAssumption
  <2>2. [pc |-> "begin", id |-> p, dir |-> rows[On[w]][p]] \in Works
    BY <2>1 DEF Works, Downloads
  <2> QED BY <1>4, <1>w, <2>2 DEF startDownload, localVars, TypeOK, Mine
<1>5. ASSUME NEW w \in Workers, findOrphans(w)
      PROVE  TypeOK'
  <2>1. \A p \in Rows(On[w]) : projectDir(On[w], p, rows[On[w]][p]) \in Scopes
    BY DirType DEF Rows, TypeOK, ProjectsAssumption
  <2> DEFINE claimed == {projectDir(On[w], p, rows[On[w]][p]) : p \in Rows(On[w])}
  <2>2. claimed \in SUBSET Scopes
    BY <2>1
  <2>3. Goes(w, [pc |-> "walk", claimed |-> claimed])
    BY <1>5 DEF findOrphans, Mine
  <2> HIDE DEF claimed
  <2>4. [pc |-> "walk", claimed |-> claimed] \in Works
    BY <2>2 DEF Works, Walks
  <2> QED BY <1>5, <1>w, <2>3, <2>4 DEF findOrphans, localVars, TypeOK
<1>6. ASSUME NEW m \in Machines, NEW p \in Ids, deleteProject(m, p)
      PROVE  TypeOK'
  <2>1. [pc |-> "forget", id |-> p, scope |-> rows[m][p]] \in Syncs
    BY <1>6 DEF deleteProject, Rows, TypeOK, Syncs
  <2>2. sync' \in [Machines -> Syncs]
    BY <1>6, <2>1, LockedType DEF deleteProject
  <2> QED BY <1>a, <1>6, <2>2 DEF deleteProject, localVars, TypeOK
<1>7. ASSUME NEW m \in Machines, Restart(m)
      PROVE  TypeOK'
  <2>1. sync' \in [Machines -> Syncs] /\ work' \in [Workers -> Works] /\ downloading' \subseteq Machines
    BY <1>7 DEF Restart, TypeOK, Syncs, Works
  <2> DEFINE held == {work[w].backup : w \in {x \in Workers : On[x] = m /\ At(x, "install")}} \ {Nothing}
  <2>2. held \subseteq Ids \cup {Empty, Half}
    <3>1. ASSUME NEW x \in Workers, At(x, "install")
          PROVE  work[x].backup \in Contents
      BY <3>1, WorkShapes DEF At, TypeOK, Replacements
    <3> QED BY <3>1 DEF Contents
  <2>3. leftovers' = [leftovers EXCEPT ![m] = leftovers[m] \cup held]
    BY <1>7 DEF Restart
  <2> HIDE DEF held
  <2>4. leftovers' \in [Machines -> SUBSET (Ids \cup {Empty, Half})]
    BY <2>2, <2>3 DEF TypeOK
  <2> QED BY <1>a, <1>7, <2>1, <2>4 DEF Restart, TypeOK
<1> QED BY <1>1, <1>2, <1>3, <1>4, <1>5, <1>6, <1>7 DEF Request

LEMMA InitTypes ==
  ASSUME ProjectsAssumption, ProjectsInit
  PROVE  TypeOK
<1>1. /\ rows \in [Machines -> [Ids -> Scopes \cup {Absent}]]
      /\ folder \in [Machines -> [Scopes -> Contents]] /\ used \subseteq Ids
  <2>1. \A h \in Held0 : h[2] \in Ids /\ h[3] \in Scopes
    BY DEF ProjectsAssumption, Scopes
  <2>2. ASSUME NEW m \in Machines, NEW p \in Ids, \E h \in Held0 : h[1] = m /\ h[2] = p
        PROVE  (CHOOSE h \in Held0 : h[1] = m /\ h[2] = p)[3] \in Scopes
    BY <2>1, <2>2
  <2>3. ASSUME NEW m \in Machines, NEW s \in Scopes, \E h \in Held0 : h[1] = m /\ h[3] = s
        PROVE  (CHOOSE h \in Held0 : h[1] = m /\ h[3] = s)[2] \in Contents
    BY <2>1, <2>3 DEF Contents
  <2>4. rows \in [Machines -> [Ids -> Scopes \cup {Absent}]]
    BY <2>2 DEF ProjectsInit
  <2>5. folder \in [Machines -> [Scopes -> Contents]]
    BY <2>3 DEF ProjectsInit, Contents
  <2>6. used = {h[2] : h \in Held0}
    BY DEF ProjectsInit
  <2> QED BY ONLY <2>1, <2>4, <2>5, <2>6
<1>2. /\ stage \in [Machines -> [Scopes -> [by : Workers \cup {Nobody}, whole : BOOLEAN]]]
      /\ leftovers \in [Machines -> SUBSET (Ids \cup {Empty, Half})]
      /\ sync \in [Machines -> Syncs] /\ work \in [Workers -> Works]
      /\ catalogue \in [Ids -> [owner : Accounts \cup {Nobody}, members : SUBSET Accounts]]
  BY DEF ProjectsInit, NoClone, NoEntry, Syncs, Works
<1>3. downloading \subseteq Machines /\ requests \in 0 .. MaxRequests
  <2>1. downloading = {} /\ requests = 0 /\ MaxRequests \in Nat
    BY DEF ProjectsInit, ProjectsAssumption
  <2> QED BY ONLY <2>1
<1> QED BY ONLY <1>1, <1>2, <1>3 DEF TypeOK

--------------------------------------------------------------------------------
(* The catalogue *)

\* A step after which every machine backs what it backed, and knows what it publishes.
LEMMA StillBacked ==
  ASSUME CatalogueInv, UNCHANGED catalogue, NEW m \in Machines,
         \A q \in Machines \ {m} : sync'[q] = sync[q] /\ Rows(q)' = Rows(q),
         \A p \in Ids : Backs(m, p) => Backs(m, p)',
         sync'[m].pc = "publish" => \A t \in sync'[m].todo : t.id \in Rows(m)'
  PROVE  CatalogueInv'
<1>1. \A q \in Machines, p \in Ids : Backs(q, p) => Backs(q, p)'
  BY DEF Backs
<1> QED BY <1>1 DEF CatalogueInv

\* Rows that are added or change their scope leave everything backed.
LEMMA MoreRows ==
  ASSUME CatalogueInv, UNCHANGED <<sync, catalogue>>,
         \A q \in Machines : Rows(q) \subseteq Rows(q)'
  PROVE  CatalogueInv'
<1>1. \A q \in Machines, p \in Ids : Backs(q, p) => Backs(q, p)'
  BY DEF Backs
<1>2. \A q \in Machines : sync[q].pc = "publish" => \A t \in sync[q].todo : t.id \in Rows(q)'
  BY DEF CatalogueInv
<1> QED BY <1>1, <1>2 DEF CatalogueInv

LEMMA SyncKeepsCatalogue ==
  ASSUME ProjectsAssumption, TypeOK, CatalogueInv, NEW m \in Machines, SyncStep(m)
  PROVE  CatalogueInv'
<1> sync[m] \in Syncs /\ AccountOf[m] \in Accounts /\ Idle \in Syncs /\ Idle.pc = "idle"
  BY DEF TypeOK, ProjectsAssumption, Syncs, Idle
<1>r. UNCHANGED rows => \A q \in Machines : Rows(q)' = Rows(q)
  BY DEF Rows
<1>1. CASE publishProjects(m)
  <2> DEFINE todo == {[id |-> p, scope |-> rows[m][p]] : p \in Rows(m)}
  <2>1. todo \in SUBSET [id : Ids, scope : Scopes] /\ \A t \in todo : t.id \in Rows(m)
    BY DEF Rows, TypeOK
  <2>2. Locked(m, [pc |-> "publish", todo |-> todo]) /\ UNCHANGED <<rows, catalogue>>
    BY <1>1 DEF publishProjects, localVars
  <2> HIDE DEF todo
  <2>3. [pc |-> "publish", todo |-> todo] \in Syncs
    BY <2>1 DEF Syncs
  <2>4. /\ sync'[m] = [pc |-> "publish", todo |-> todo]
        /\ \A q \in Machines \ {m} : sync'[q] = sync[q]
    BY <2>2, <2>3, LockedType
  <2>5. \A p \in Ids : Backs(m, p) => Backs(m, p)'
    BY <1>r, <2>2, <2>4 DEF Backs
  <2> QED BY <1>r, <2>1, <2>2, <2>4, <2>5, StillBacked
<1>2. ASSUME NEW todo \in sync[m].todo, sync[m].pc \in {"publish", "adopt"},
             Locked(m, [sync[m] EXCEPT !.todo = @ \ {todo}])
      PROVE  /\ sync'[m].pc = sync[m].pc /\ sync'[m].todo \subseteq sync[m].todo
             /\ \A q \in Machines \ {m} : sync'[q] = sync[q]
  <2>1. /\ [sync[m] EXCEPT !.todo = @ \ {todo}].pc = sync[m].pc
        /\ [sync[m] EXCEPT !.todo = @ \ {todo}].todo = sync[m].todo \ {todo}
        /\ [sync[m] EXCEPT !.todo = @ \ {todo}] \in Syncs
    <3>1. CASE sync[m].pc = "publish"
      BY <3>1, SyncShapes DEF Syncs
    <3>2. CASE sync[m].pc = "adopt"
      BY <3>2, SyncShapes DEF Syncs
    <3> QED BY <1>2, <3>1, <3>2
  <2> QED BY <1>2, <2>1, LockedType
<1>3. ASSUME NEW p \in Ids, SyncProject(m, p)
      PROVE  CatalogueInv'
  <2>1. PICK todo \in sync[m].todo :
          /\ todo.id = p /\ Locked(m, [sync[m] EXCEPT !.todo = @ \ {todo}])
          /\ RegisterProject(AccountOf[m], p)
    BY <1>3 DEF SyncProject
  <2>2. sync[m].pc = "publish" /\ UNCHANGED rows
    BY <1>3 DEF SyncProject, localVars
  <2>3. /\ sync'[m].pc = "publish" /\ sync'[m].todo \subseteq sync[m].todo
        /\ \A q \in Machines \ {m} : sync'[q] = sync[q]
    BY <1>2, <2>1, <2>2
  <2>4. /\ catalogue'[p].owner = IF catalogue[p].owner = Nobody THEN AccountOf[m] ELSE catalogue[p].owner
        /\ \A q \in Ids \ {p} : catalogue'[q] = catalogue[q]
    BY <2>1, RegisterType
  <2>5. \A q \in Machines, r \in Ids : Backs(q, r) => Backs(q, r)'
    BY <1>r, <2>2, <2>3 DEF Backs
  <2>6. Backs(m, p)'
    BY <1>r, <2>1, <2>2, <2>3 DEF Backs, CatalogueInv
  <2>7. \A q \in Machines : sync'[q].pc = "publish" => \A t \in sync'[q].todo : t.id \in Rows(q)'
    BY <1>r, <2>2, <2>3 DEF CatalogueInv
  <2>8. ASSUME NEW r \in Ids, catalogue'[r].owner # Nobody
        PROVE  \E q \in Machines : AccountOf[q] = catalogue'[r].owner /\ Backs(q, r)'
    <3>1. CASE r = p /\ catalogue[p].owner = Nobody
      BY <2>4, <2>6, <3>1
    <3>2. CASE ~(r = p /\ catalogue[p].owner = Nobody)
      <4>1. catalogue'[r].owner = catalogue[r].owner
        BY <2>4, <3>2
      <4> QED BY <2>5, <2>8, <4>1 DEF CatalogueInv
    <3> QED BY <3>1, <3>2
  <2> QED BY <2>7, <2>8 DEF CatalogueInv
<1>4. ASSUME NEW p \in Ids, PassOver(m, p)
      PROVE  CatalogueInv'
  <2>1. PICK todo \in sync[m].todo : Locked(m, [sync[m] EXCEPT !.todo = @ \ {todo}])
    BY <1>4 DEF PassOver
  <2>2. sync[m].pc = "publish" /\ UNCHANGED <<rows, catalogue>>
    BY <1>4 DEF PassOver, localVars
  <2>3. /\ sync'[m].pc = "publish" /\ sync'[m].todo \subseteq sync[m].todo
        /\ \A q \in Machines \ {m} : sync'[q] = sync[q]
    BY <1>2, <2>1, <2>2
  <2>4. \A r \in Ids : Backs(m, r) => Backs(m, r)'
    BY <1>r, <2>2, <2>3 DEF Backs
  <2>5. \A t \in sync'[m].todo : t.id \in Rows(m)'
    BY <1>r, <2>2, <2>3 DEF CatalogueInv
  <2> QED BY <1>r, <2>2, <2>3, <2>4, <2>5, StillBacked
<1>5. CASE adoptAccountProjects(m)
  <2>1. [pc |-> "adopt", todo |-> ProjectsForAccount(AccountOf[m])] \in Syncs
    BY DEF Syncs, ProjectsForAccount
  <2>2. sync'[m].pc = "adopt" /\ \A q \in Machines \ {m} : sync'[q] = sync[q]
    BY <1>5, <2>1, LockedType DEF adoptAccountProjects
  <2>3. UNCHANGED <<rows, catalogue>>
    BY <1>5 DEF adoptAccountProjects, localVars
  <2>4. \A r \in Ids : Backs(m, r) => Backs(m, r)'
    BY <1>r, <2>2, <2>3 DEF Backs
  <2> QED BY <1>r, <2>2, <2>3, <2>4, StillBacked
<1>6. CASE ServiceSilent(m) \/ EndAdoption(m)
  <2>1. Unlocked(m) /\ UNCHANGED <<rows, catalogue>>
    BY <1>6 DEF ServiceSilent, EndAdoption, localVars
  <2>2. sync'[m].pc = "idle" /\ \A q \in Machines \ {m} : sync'[q] = sync[q]
    BY <2>1, UnlockedType
  <2>3. \A r \in Ids : Backs(m, r) => Backs(m, r)'
    BY <1>r, <2>1, <2>2 DEF Backs
  <2> QED BY <1>r, <2>1, <2>2, <2>3, StillBacked
<1>7. CASE AdoptProject(m)
  <2>1. PICK p \in sync[m].todo :
          /\ Locked(m, [sync[m] EXCEPT !.todo = @ \ {p}])
          /\ CreateProject(m, p, Alone) \/ UNCHANGED rows
    BY <1>7 DEF AdoptProject
  <2>2. sync[m].pc = "adopt" /\ UNCHANGED catalogue
    BY <1>7 DEF AdoptProject
  <2>3. p \in Ids /\ Alone \in Scopes
    BY <2>2, SyncShapes DEF Scopes
  <2>4. sync'[m].pc = "adopt" /\ \A q \in Machines \ {m} : sync'[q] = sync[q]
    BY <1>2, <2>1, <2>2
  <2>5. Rows(m) \subseteq Rows(m)' /\ \A q \in Machines \ {m} : Rows(q)' = Rows(q)
    BY <1>r, <2>1, <2>3, CreateType
  <2>6. \A r \in Ids : Backs(m, r) => Backs(m, r)'
    BY <2>4, <2>5 DEF Backs
  <2> QED BY <2>2, <2>4, <2>5, <2>6, StillBacked
<1>8. ASSUME NEW pc \in {"remove", "unrecord"}, sync[m].pc \in {"forget", "remove", "unrecord"},
             Locked(m, [sync[m] EXCEPT !.pc = pc]) \/ Unlocked(m)
      PROVE  /\ (sync'[m].pc = pc /\ sync'[m].id = sync[m].id) \/ sync'[m].pc = "idle"
             /\ \A q \in Machines \ {m} : sync'[q] = sync[q]
  <2>1. /\ [sync[m] EXCEPT !.pc = pc] \in Syncs /\ [sync[m] EXCEPT !.pc = pc].pc = pc
        /\ [sync[m] EXCEPT !.pc = pc].id = sync[m].id
    BY <1>8, SyncShapes DEF Syncs
  <2> QED BY <1>8, <2>1, LockedType, UnlockedType
<1>9. CASE forgetAccountProject(m)
  <2> DEFINE p == sync[m].id
  <2>1. sync[m].pc = "forget" /\ p \in Ids /\ UNCHANGED rows
    BY <1>9, SyncShapes DEF forgetAccountProject, localVars
  <2>2. /\ (sync'[m].pc = "remove" /\ sync'[m].id = p) \/ sync'[m].pc = "idle"
        /\ \A q \in Machines \ {m} : sync'[q] = sync[q]
    BY <1>8, <1>9 DEF forgetAccountProject
  <2>3. CASE ForgetProject(AccountOf[m], p)
    <3>1. /\ catalogue'[p].owner = IF catalogue[p].owner = AccountOf[m] THEN Nobody ELSE catalogue[p].owner
          /\ \A q \in Ids \ {p} : catalogue'[q] = catalogue[q]
      BY <2>1, <2>3, ForgetType
    <3>2. \A q \in Machines : sync'[q].pc = "publish" => \A t \in sync'[q].todo : t.id \in Rows(q)'
      BY <1>r, <2>1, <2>2 DEF CatalogueInv
    <3>3. ASSUME NEW r \in Ids, catalogue'[r].owner # Nobody
          PROVE  \E q \in Machines : AccountOf[q] = catalogue'[r].owner /\ Backs(q, r)'
      <4>1. catalogue'[r].owner = catalogue[r].owner
        BY <3>1, <3>3
      <4>2. PICK q \in Machines : AccountOf[q] = catalogue[r].owner /\ Backs(q, r)
        BY <3>3, <4>1 DEF CatalogueInv
      <4>3. Backs(q, r)'
        BY <1>r, <2>1, <2>2, <3>1, <3>3, <4>2 DEF Backs
      <4> QED BY <4>1, <4>2, <4>3
    <3> QED BY <3>2, <3>3 DEF CatalogueInv
  <2>4. CASE ~ForgetProject(AccountOf[m], p)
    <3>1. UNCHANGED catalogue /\ Unlocked(m)
      BY <1>9, <2>4 DEF forgetAccountProject
    <3>2. sync'[m].pc = "idle"
      BY <3>1, UnlockedType
    <3>3. \A r \in Ids : Backs(m, r) => Backs(m, r)'
      BY <1>r, <2>1, <3>2 DEF Backs
    <3> QED BY <1>r, <2>1, <2>2, <3>1, <3>2, <3>3, StillBacked
  <2> QED BY <2>3, <2>4
<1>10. CASE RemoveFiles(m)
  <2>1. sync[m].pc = "remove" /\ UNCHANGED <<rows, catalogue>>
    BY <1>10 DEF RemoveFiles
  <2>2. /\ (sync'[m].pc = "unrecord" /\ sync'[m].id = sync[m].id) \/ sync'[m].pc = "idle"
        /\ \A q \in Machines \ {m} : sync'[q] = sync[q]
    BY <1>8, <1>10 DEF RemoveFiles
  <2>3. \A r \in Ids : Backs(m, r) => Backs(m, r)'
    BY <1>r, <2>1, <2>2 DEF Backs
  <2> QED BY <1>r, <2>1, <2>2, <2>3, StillBacked
<1>11. CASE DeleteProjectID(m)
  <2>1. /\ sync[m].pc = "unrecord" /\ sync[m].id \in Ids
        /\ rows' = [rows EXCEPT ![m][sync[m].id] = Absent] /\ UNCHANGED catalogue
    BY <1>11, SyncShapes DEF DeleteProjectID
  <2>2. sync'[m].pc = "idle" /\ \A q \in Machines \ {m} : sync'[q] = sync[q]
    BY <1>11, UnlockedType DEF DeleteProjectID
  <2>3. rows \in [Machines -> [Ids -> Scopes \cup {Absent}]]
    BY DEF TypeOK
  <2>4. \A q \in Machines \ {m} : rows'[q] = rows[q]
    BY <2>1, <2>3
  <2>5. \A r \in Ids \ {sync[m].id} : rows'[m][r] = rows[m][r]
    BY <2>1, <2>3
  <2>6. \A r \in Ids : Backs(m, r) => Backs(m, r)'
    BY <2>1, <2>2, <2>5 DEF Backs, Rows
  <2>7. \A q \in Machines \ {m} : Rows(q)' = Rows(q)
    BY <2>4 DEF Rows
  <2> QED BY <2>1, <2>2, <2>6, <2>7, StillBacked
<1> QED BY <1>1, <1>3, <1>4, <1>5, <1>6, <1>7, <1>9, <1>10, <1>11 DEF SyncStep

LEMMA WorkKeepsCatalogue ==
  ASSUME ProjectsAssumption, TypeOK, CatalogueInv, NEW w \in Workers, WorkStep(w)
  PROVE  CatalogueInv'
<1> work[w] \in Works /\ On[w] \in Machines
  BY DEF TypeOK, ProjectsAssumption
<1> USE DEF Mine, At
<1>1. UNCHANGED <<sync, catalogue>>
  BY DEF WorkStep, MkdirOwned, RecordProject, WriteStarter, RenameFolder, MoveProjectToNetwork,
         ExtractArchive, SetAside, Install, BeginDownload, CloneWithProgress, PlaceClone,
         WalkFolders, deleteOrphans
<1>2. CASE UNCHANGED rows
  <2>1. \A q \in Machines : Rows(q)' = Rows(q)
    BY <1>2 DEF Rows
  <2> QED BY <1>1, <2>1, MoreRows
<1>3. CASE RecordProject(w)
  <2>1. work[w].id \in Ids /\ work[w].scope \in Scopes
    BY <1>3, WorkShapes DEF RecordProject, Creations
  <2>2. CreateProject(On[w], work[w].id, work[w].scope) \/ UNCHANGED rows
    BY <1>3 DEF RecordProject
  <2>3. CASE CreateProject(On[w], work[w].id, work[w].scope)
    BY <1>1, <2>1, <2>3, CreateType, MoreRows
  <2> QED BY <1>2, <2>2, <2>3
<1>4. CASE MoveProjectToNetwork(w)
  <2>1. work[w].id \in Ids /\ work[w].to \in Scopes
    BY <1>4, WorkShapes DEF MoveProjectToNetwork, Moves, Scopes
  <2>2. CreateProject(On[w], work[w].id, work[w].to) \/ UNCHANGED rows
    BY <1>4 DEF MoveProjectToNetwork, CreateProject
  <2>3. CASE CreateProject(On[w], work[w].id, work[w].to)
    BY <1>1, <2>1, <2>3, CreateType, MoreRows
  <2> QED BY <1>2, <2>2, <2>3
<1>5. UNCHANGED rows \/ RecordProject(w) \/ MoveProjectToNetwork(w)
  BY DEF WorkStep, MkdirOwned, WriteStarter, RenameFolder,
         ExtractArchive, SetAside, Install, BeginDownload, CloneWithProgress, PlaceClone,
         WalkFolders, deleteOrphans, localVars
<1> QED BY <1>2, <1>3, <1>4, <1>5

LEMMA RequestKeepsCatalogue ==
  ASSUME ProjectsAssumption, TypeOK, CatalogueInv, Request
  PROVE  CatalogueInv'
<1>r. UNCHANGED rows => \A q \in Machines : Rows(q)' = Rows(q)
  BY DEF Rows
<1>1. CASE UNCHANGED <<rows, sync, catalogue>>
  BY <1>1, <1>r, MoreRows
<1>2. ASSUME NEW w \in Workers, NEW n \in Networks, NEW p \in Ids, materialiseProject(w, n, p)
      PROVE  CatalogueInv'
  <2>1. n \in Scopes /\ On[w] \in Machines /\ UNCHANGED <<sync, catalogue>>
    BY <1>2 DEF Scopes, ProjectsAssumption, materialiseProject
  <2>2. CreateProject(On[w], p, n) \/ UNCHANGED rows
    BY <1>2 DEF materialiseProject, Mine
  <2>3. CASE CreateProject(On[w], p, n)
    BY <2>1, <2>3, CreateType, MoreRows
  <2> QED BY <1>1, <2>1, <2>2, <2>3
<1>3. ASSUME NEW m \in Machines, NEW p \in Ids, deleteProject(m, p)
      PROVE  CatalogueInv'
  <2>1. [pc |-> "forget", id |-> p, scope |-> rows[m][p]] \in Syncs
    BY <1>3 DEF deleteProject, Rows, TypeOK, Syncs
  <2>2. sync'[m].pc = "forget" /\ \A q \in Machines \ {m} : sync'[q] = sync[q]
    BY <1>3, <2>1, LockedType DEF deleteProject
  <2>3. UNCHANGED <<rows, catalogue>>
    BY <1>3 DEF deleteProject, localVars
  <2>4. \A r \in Ids : Backs(m, r) => Backs(m, r)'
    BY <1>r, <2>2, <2>3 DEF Backs
  <2> QED BY <1>r, <2>2, <2>3, <2>4, StillBacked
<1>4. ASSUME NEW m \in Machines, Restart(m)
      PROVE  CatalogueInv'
  <2>1. Unlocked(m) /\ UNCHANGED <<rows, catalogue>>
    BY <1>4 DEF Restart, Unlocked, Locked
  <2>2. sync'[m].pc = "idle" /\ \A q \in Machines \ {m} : sync'[q] = sync[q]
    BY <2>1, UnlockedType DEF Idle
  <2>3. \A r \in Ids : Backs(m, r) => Backs(m, r)'
    BY <1>r, <2>1, <2>2 DEF Backs
  <2> QED BY <1>r, <2>1, <2>2, <2>3, StillBacked
<1>5. ASSUME NEW w \in Workers, NEW p \in Ids, NEW s,
             \/ createProject(w, p, s) \/ moveProjectNetwork(w, p, s)
             \/ startDownload(w, p)
      PROVE  CatalogueInv'
  BY <1>1, <1>5 DEF createProject, moveProjectNetwork, startDownload, localVars
<1>6. ASSUME NEW w \in Workers, findOrphans(w)
      PROVE  CatalogueInv'
  BY <1>1, <1>6 DEF findOrphans, localVars
<1> QED BY <1>2, <1>3, <1>4, <1>5, <1>6 DEF Request

--------------------------------------------------------------------------------
(* Handlers: moves, removals of leftovers and downloads *)

Downloading == {"clone", "cloning", "place"}

\* A step of handler w, after which the others are where they were (a removal of leftovers
\* takes from under other handlers what they have in work, but does not move them).
LEMMA HandlersKept ==
  ASSUME WorkInv, DownloadNeverStuck, NEW w \in Workers,
         \A x \in Workers \ {w} :
           work'[x] = work[x] \/ {work'[x].pc, work[x].pc} \subseteq {"aside", "install"},
         work'[w].pc \in {"rename", "rescope"} => work'[w].from # work'[w].to,
         work'[w].pc = "sweep" => \A x \in work'[w].inwork : On[x] = On[w],
         downloading' \subseteq downloading \cup {On[w]},
         On[w] \in downloading' /\ (On[w] \notin downloading \/ work[w].pc \in Downloading) =>
           work'[w].pc \in Downloading
  PROVE  WorkInv' /\ DownloadNeverStuck'
<1>1. WorkInv'
  BY DEF WorkInv
<1>2. ASSUME NEW m \in downloading'
      PROVE  \E x \in Workers : On[x] = m /\ work'[x].pc \in Downloading
  <2>1. CASE m \in downloading
    <3>1. PICK x \in Workers : On[x] = m /\ work[x].pc \in Downloading
      BY <2>1 DEF DownloadNeverStuck, Downloading
    <3>2. work'[x].pc \in Downloading
      BY <1>2, <3>1 DEF Downloading
    <3> QED BY <3>1, <3>2
  <2>2. CASE m \notin downloading
    BY <1>2, <2>2
  <2> QED BY <2>1, <2>2
<1> QED BY <1>1, <1>2 DEF DownloadNeverStuck, Downloading

LEMMA WorkKeepsHandlers ==
  ASSUME ProjectsAssumption, TypeOK, WorkInv, DownloadNeverStuck, NEW w \in Workers, WorkStep(w)
  PROVE  WorkInv' /\ DownloadNeverStuck'
<1> work[w] \in Works /\ On[w] \in Machines /\ Idle.pc = "idle" /\ Idle \in Works
  BY DEF TypeOK, ProjectsAssumption, Idle, Works
<1> USE DEF Mine, At
\* Neither before nor after such a step is w at a move, a removal or a download.
<1>n. ASSUME NEW next \in Works, Goes(w, next), UNCHANGED downloading, work[w].pc \notin Downloading,
             next.pc \notin {"rename", "rescope", "sweep"}
      PROVE  WorkInv' /\ DownloadNeverStuck'
  <2>1. work'[w] = next /\ \A x \in Workers \ {w} : work'[x] = work[x]
    BY <1>n, GoesType
  <2>2. On[w] \in downloading' => On[w] \in downloading
    BY <1>n
  <2> QED BY <1>n, <2>1, <2>2, HandlersKept
<1>e. ASSUME Ends(w), UNCHANGED downloading, work[w].pc \notin Downloading
      PROVE  WorkInv' /\ DownloadNeverStuck'
  BY <1>e, <1>n DEF Ends
<1>f. ASSUME failDownload(w)
      PROVE  WorkInv' /\ DownloadNeverStuck'
  <2>1. work'[w].pc = "idle" /\ \A x \in Workers \ {w} : work'[x] = work[x]
    BY <1>f, EndsType DEF failDownload
  <2>2. downloading' \subseteq downloading /\ On[w] \notin downloading'
    BY <1>f DEF failDownload
  <2> QED BY <2>1, <2>2, HandlersKept
<1>1. CASE MkdirOwned(w)
  <2>1. work[w] \in Creations /\ Goes(w, [work[w] EXCEPT !.pc = "record"]) /\ UNCHANGED downloading
    BY <1>1, WorkShapes DEF MkdirOwned
  <2>2. [work[w] EXCEPT !.pc = "record"] \in Works /\ [work[w] EXCEPT !.pc = "record"].pc = "record"
    BY <2>1 DEF Creations, Works
  <2> QED BY <1>1, <1>n, <2>1, <2>2 DEF MkdirOwned, Downloading
<1>2. CASE RecordProject(w)
  <2>1. work[w] \in Creations /\ work[w].pc = "record" /\ UNCHANGED downloading
    BY <1>2, WorkShapes DEF RecordProject
  <2>2. [work[w] EXCEPT !.pc = "starter"] \in Works /\ [work[w] EXCEPT !.pc = "starter"].pc = "starter"
    BY <2>1 DEF Creations, Works
  <2>3. Goes(w, [work[w] EXCEPT !.pc = "starter"]) \/ Ends(w)
    BY <1>2 DEF RecordProject
  <2> QED BY <1>n, <1>e, <2>1, <2>2, <2>3 DEF Downloading
<1>3. CASE WriteStarter(w)
  BY <1>e, <1>3 DEF WriteStarter, Downloading
<1>4. CASE RenameFolder(w)
  <2>1. work[w] \in Moves /\ work[w].pc = "rename" /\ UNCHANGED downloading
    BY <1>4, WorkShapes DEF RenameFolder
  <2> DEFINE next == [work[w] EXCEPT !.pc = "rescope"]
  <2>2. next \in Works /\ next.pc = "rescope" /\ next.from = work[w].from /\ next.to = work[w].to
    BY <2>1 DEF Moves, Works
  <2>3. Goes(w, next) \/ Ends(w)
    BY <1>4 DEF RenameFolder
  <2> HIDE DEF next
  <2>4. CASE Goes(w, next)
    <3>1. work'[w] = next /\ \A x \in Workers \ {w} : work'[x] = work[x]
      BY <2>2, <2>4, GoesType
    <3>2. next.from # next.to
      BY <2>1, <2>2 DEF WorkInv
    <3> QED BY <2>1, <2>2, <3>1, <3>2, HandlersKept DEF Downloading
  <2> QED BY <1>e, <2>1, <2>3, <2>4 DEF Downloading
<1>5. CASE MoveProjectToNetwork(w)
  BY <1>e, <1>5 DEF MoveProjectToNetwork, Downloading
<1>6. CASE ExtractArchive(w)
  <2>1. work[w] \in Fetches /\ work[w].pc = "extract" /\ UNCHANGED downloading
    BY <1>6, WorkShapes DEF ExtractArchive, localVars
  <2> DEFINE next == [pc |-> "aside", id |-> work[w].id, dir |-> projectDir(On[w], work[w].id, work[w].scope),
                      staged |-> TRUE, backup |-> Nothing]
  <2>2. next \in Works /\ next.pc = "aside"
    BY <2>1, DirType DEF Works, Replacements, Contents, Fetches
  <2>3. Goes(w, next) \/ Ends(w)
    BY <1>6 DEF ExtractArchive
  <2> HIDE DEF next
  <2> QED BY <1>n, <1>e, <2>1, <2>2, <2>3 DEF Downloading
<1>7. CASE SetAside(w)
  <2>1. work[w] \in Replacements /\ work[w].pc = "aside" /\ UNCHANGED downloading
    BY <1>7, WorkShapes DEF SetAside
  <2>2. PICK c \in Contents : Goes(w, [work[w] EXCEPT !.pc = "install", !.backup = c])
    <3>1. work[w].dir \in Scopes
      BY <2>1 DEF Replacements
    <3>2. folder[On[w]][work[w].dir] \in Contents
      BY <3>1 DEF TypeOK
    <3> QED BY <1>7, <3>2 DEF SetAside
  <2> DEFINE next == [work[w] EXCEPT !.pc = "install", !.backup = c]
  <2>3. next \in Works /\ next.pc = "install"
    BY <2>1 DEF Works, Replacements
  <2> HIDE DEF next
  <2> QED BY <1>n, <2>1, <2>2, <2>3 DEF Downloading, next
<1>8. CASE Install(w)
  BY <1>e, <1>8 DEF Install, Downloading
<1>9. CASE BeginDownload(w)
  <2>1. work[w] \in Downloads /\ work[w].pc = "begin"
    BY <1>9, WorkShapes DEF BeginDownload
  <2>2. [work[w] EXCEPT !.pc = "clone"] \in Works /\ [work[w] EXCEPT !.pc = "clone"].pc = "clone"
    BY <2>1 DEF Downloads, Works
  <2>3. \/ downloading' = downloading \cup {On[w]} /\ Goes(w, [work[w] EXCEPT !.pc = "clone"])
        \/ Ends(w) /\ UNCHANGED downloading
    BY <1>9 DEF BeginDownload
  <2>4. CASE downloading' = downloading \cup {On[w]} /\ Goes(w, [work[w] EXCEPT !.pc = "clone"])
    <3>1. work'[w].pc = "clone" /\ \A x \in Workers \ {w} : work'[x] = work[x]
      BY <2>2, <2>4, GoesType
    <3> QED BY <2>4, <3>1, HandlersKept DEF Downloading
  <2> QED BY <1>e, <2>1, <2>3, <2>4 DEF Downloading
<1>10. CASE CloneWithProgress(w)
  <2>1. work[w] \in Downloads
    BY <1>10, WorkShapes DEF CloneWithProgress
  <2>2. ASSUME NEW pc \in {"cloning", "place"}, Goes(w, [work[w] EXCEPT !.pc = pc]), UNCHANGED downloading
        PROVE  WorkInv' /\ DownloadNeverStuck'
    <3>1. [work[w] EXCEPT !.pc = pc] \in Works /\ [work[w] EXCEPT !.pc = pc].pc = pc
      BY <2>1 DEF Downloads, Works
    <3>2. work'[w].pc = pc /\ \A x \in Workers \ {w} : work'[x] = work[x]
      BY <2>2, <3>1, GoesType
    <3> QED BY <2>2, <3>2, HandlersKept DEF Downloading
  <2> QED BY <1>f, <1>10, <2>2 DEF CloneWithProgress
<1>11. CASE PlaceClone(w)
  BY <1>f, <1>11 DEF PlaceClone
<1>12. CASE WalkFolders(w)
  <2>1. PICK found \in SUBSET Scopes, inwork \in SUBSET {x \in Workers : On[x] = On[w]} :
          Goes(w, [pc |-> "sweep", found |-> found, inwork |-> inwork])
    BY <1>12 DEF WalkFolders
  <2>2. [pc |-> "sweep", found |-> found, inwork |-> inwork] \in Works
    BY DEF Works, Sweeps
  <2>3. /\ work'[w] = [pc |-> "sweep", found |-> found, inwork |-> inwork]
        /\ \A x \in Workers \ {w} : work'[x] = work[x]
    BY <2>1, <2>2, GoesType
  <2>4. work[w].pc = "walk" /\ UNCHANGED downloading
    BY <1>12 DEF WalkFolders, localVars
  <2> QED BY <2>3, <2>4, HandlersKept DEF Downloading
<1>13. CASE deleteOrphans(w)
  <2>1. work[w].pc = "sweep" /\ UNCHANGED downloading /\ work'[w] = Idle
    BY <1>13 DEF deleteOrphans
  <2>2. ASSUME NEW x \in Workers \ {w}
        PROVE  work'[x] = work[x] \/ {work'[x].pc, work[x].pc} \subseteq {"aside", "install"}
    <3>1. CASE work[x].pc \in {"aside", "install"}
      <4>1. work[x] \in Replacements
        BY <3>1, WorkShapes DEF TypeOK
      <4>2. [work[x] EXCEPT !.staged = FALSE, !.backup = Nothing].pc = work[x].pc
        BY <4>1 DEF Replacements
      <4>3. \/ work'[x] = work[x]
            \/ work'[x] = [work[x] EXCEPT !.staged = FALSE, !.backup = Nothing]
        BY <1>13 DEF deleteOrphans
      <4> QED BY <3>1, <4>2, <4>3
    <3>2. CASE work[x].pc \notin {"aside", "install"}
      BY <1>13, <3>2 DEF deleteOrphans
    <3> QED BY <3>1, <3>2
  <2> QED BY <2>1, <2>2, HandlersKept DEF Downloading
<1> QED BY <1>1, <1>2, <1>3, <1>4, <1>5, <1>6, <1>7, <1>8, <1>9, <1>10, <1>11, <1>12, <1>13 DEF WorkStep

LEMMA RequestKeepsHandlers ==
  ASSUME ProjectsAssumption, TypeOK, WorkInv, DownloadNeverStuck, Request
  PROVE  WorkInv' /\ DownloadNeverStuck'
<1>n. ASSUME NEW w \in Workers, NEW next \in Works, Goes(w, next), At(w, "idle"), UNCHANGED downloading,
             next.pc \in {"rename", "rescope"} => next.from # next.to, next.pc # "sweep"
      PROVE  WorkInv' /\ DownloadNeverStuck'
  <2>1. work'[w] = next /\ \A x \in Workers \ {w} : work'[x] = work[x]
    BY <1>n, GoesType
  <2> QED BY <1>n, <2>1, HandlersKept DEF At, Downloading
<1>1. ASSUME NEW w \in Workers, NEW p \in Ids, NEW s \in Scopes, createProject(w, p, s)
      PROVE  WorkInv' /\ DownloadNeverStuck'
  <2>1. [pc |-> "mkdir", id |-> p, scope |-> s] \in Works
    BY DEF Works, Creations
  <2> QED BY <1>1, <1>n, <2>1 DEF createProject, localVars
<1>2. ASSUME NEW w \in Workers, NEW p \in Ids, NEW n \in Networks, moveProjectNetwork(w, p, n)
      PROVE  WorkInv' /\ DownloadNeverStuck'
  <2>1. rows[On[w]][p] \in Scopes /\ On[w] \in Machines /\ n # rows[On[w]][p] /\ n # Alone
    BY <1>2 DEF moveProjectNetwork, Rows, Mine, TypeOK, ProjectsAssumption
  <2> DEFINE from == projectDir(On[w], p, rows[On[w]][p])
  <2>2. from \in Scopes /\ from # n
    BY <2>1, DirType
  <2>3. Goes(w, [pc |-> "rename", id |-> p, from |-> from, to |-> n]) /\ At(w, "idle") /\ UNCHANGED downloading
    BY <1>2 DEF moveProjectNetwork, localVars, Mine
  <2> HIDE DEF from
  <2>4. [pc |-> "rename", id |-> p, from |-> from, to |-> n] \in Works
    BY <2>2 DEF Works, Moves
  <2> QED BY <1>n, <2>2, <2>3, <2>4
<1>3. ASSUME NEW w \in Workers, NEW n \in Networks, NEW p \in Ids, materialiseProject(w, n, p)
      PROVE  WorkInv' /\ DownloadNeverStuck'
  <2>1. [pc |-> "extract", id |-> p, scope |-> n] \in Works
    BY DEF Works, Fetches, Scopes
  <2> QED BY <1>3, <1>n, <2>1 DEF materialiseProject
<1>4. ASSUME NEW w \in Workers, NEW p \in Ids, startDownload(w, p)
      PROVE  WorkInv' /\ DownloadNeverStuck'
  <2>1. rows[On[w]][p] \in Scopes
    BY <1>4 DEF startDownload, Rows, Mine, TypeOK, ProjectsAssumption
  <2>2. [pc |-> "begin", id |-> p, dir |-> rows[On[w]][p]] \in Works
    BY <2>1 DEF Works, Downloads
  <2> QED BY <1>4, <1>n, <2>2 DEF startDownload, localVars, Mine
<1>5. ASSUME NEW w \in Workers, findOrphans(w)
      PROVE  WorkInv' /\ DownloadNeverStuck'
  <2>1. \A p \in Rows(On[w]) : projectDir(On[w], p, rows[On[w]][p]) \in Scopes
    BY DirType DEF Rows, TypeOK, ProjectsAssumption
  <2> DEFINE claimed == {projectDir(On[w], p, rows[On[w]][p]) : p \in Rows(On[w])}
  <2>2. claimed \in SUBSET Scopes
    BY <2>1
  <2>3. Goes(w, [pc |-> "walk", claimed |-> claimed]) /\ At(w, "idle") /\ UNCHANGED downloading
    BY <1>5 DEF findOrphans, Mine, localVars
  <2> HIDE DEF claimed
  <2>4. [pc |-> "walk", claimed |-> claimed] \in Works
    BY <2>2 DEF Works, Walks
  <2> QED BY <1>n, <2>3, <2>4
<1>6. ASSUME NEW m \in Machines, NEW p \in Ids, deleteProject(m, p)
      PROVE  WorkInv' /\ DownloadNeverStuck'
  BY <1>6 DEF deleteProject, localVars, WorkInv, DownloadNeverStuck
<1>7. ASSUME NEW m \in Machines, Restart(m)
      PROVE  WorkInv' /\ DownloadNeverStuck'
  <2>1. \A x \in Workers : work'[x] = IF On[x] = m THEN Idle ELSE work[x]
    BY <1>7 DEF Restart
  <2>2. downloading' = downloading \ {m}
    BY <1>7 DEF Restart
  <2> QED BY <2>1, <2>2 DEF WorkInv, DownloadNeverStuck, Idle
<1> QED BY <1>1, <1>2, <1>3, <1>4, <1>5, <1>6, <1>7 DEF Request

--------------------------------------------------------------------------------
(* Files *)

\* Steps that leave the folders alone, lose nothing left over, and no file set aside.
LEMMA HeldKept ==
  ASSUME NEW m \in Machines, NEW p \in Ids, Held(m, p),
         folder'[m] = folder[m], leftovers[m] \subseteq leftovers'[m],
         \A x \in Workers : On[x] = m /\ At(x, "install") => work'[x] = work[x]
  PROVE  Held(m, p)'
BY DEF Held, At

\* What is put where no files are loses none.
LEMMA HeldFilled ==
  ASSUME TypeOK, ProjectsAssumption, NEW m \in Machines, NEW p \in Ids, Held(m, p),
         NEW s \in Scopes, NEW what \in Contents, Free(m, s), Fill(m, s, what),
         leftovers[m] \subseteq leftovers'[m],
         \A x \in Workers : On[x] = m /\ At(x, "install") =>
           work'[x] = work[x] \/ work[x].backup = what
  PROVE  Held(m, p)'
<1>1. folder'[m][s] = what /\ \A t \in Scopes \ {s} : folder'[m][t] = folder[m][t]
  BY FillType
<1>2. folder[m][s] # p
  BY DEF Free, ProjectsAssumption
<1> QED BY <1>1, <1>2 DEF Held, At

\* What is renamed to where no files are stays.
LEMMA HeldMoved ==
  ASSUME TypeOK, ProjectsAssumption, NEW m \in Machines, NEW p \in Ids, Held(m, p),
         NEW from \in Scopes, NEW to \in Scopes, from # to, Free(m, to),
         folder' = [folder EXCEPT ![m][to] = folder[m][from], ![m][from] = Nothing],
         leftovers' = leftovers,
         \A x \in Workers : On[x] = m /\ At(x, "install") => work'[x] = work[x]
  PROVE  Held(m, p)'
<1>1. folder \in [Machines -> [Scopes -> Contents]] /\ Nothing \in Contents
  BY DEF TypeOK, Contents
<1>2. folder[m][from] \in Contents
  BY <1>1
<1>3. folder'[m][to] = folder[m][from] /\ \A t \in Scopes \ {from, to} : folder'[m][t] = folder[m][t]
  BY ONLY <1>1, <1>2, m \in Machines, from \in Scopes, to \in Scopes, from # to, MoveType,
          folder' = [folder EXCEPT ![m][to] = folder[m][from], ![m][from] = Nothing]
<1>4. folder[m][to] # p
  BY DEF Free, ProjectsAssumption
<1> QED BY <1>3, <1>4 DEF Held, At

\* A handler's step on the machine of the files.
LEMMA WorkKeepsFiles ==
  ASSUME ProjectsAssumption, TypeOK, WorkInv, NEW w \in Workers, WorkStep(w),
         NEW p \in Ids, OnlyOne(On[w], p), Held(On[w], p), ~At(w, "sweep")
  PROVE  Held(On[w], p)'
<1> work[w] \in Works /\ On[w] \in Machines /\ Idle \in Works
  BY DEF TypeOK, ProjectsAssumption, Works
<1> USE DEF Mine
\* No files are set aside by w, and no folder is touched.
<1>n. ASSUME NEW next \in Works, Goes(w, next), ~At(w, "install"), UNCHANGED <<folder, leftovers>>
      PROVE  Held(On[w], p)'
  <2>1. \A x \in Workers \ {w} : work'[x] = work[x]
    BY <1>n, GoesType
  <2> QED BY <1>n, <2>1, HeldKept
<1>f. ASSUME NEW next \in Works, Goes(w, next), ~At(w, "install"), UNCHANGED leftovers,
             NEW s \in Scopes, NEW what \in Contents, Free(On[w], s), Fill(On[w], s, what)
      PROVE  Held(On[w], p)'
  <2>1. \A x \in Workers \ {w} : work'[x] = work[x]
    BY <1>f, GoesType
  <2> QED BY <1>f, <2>1, HeldFilled
<1>1. CASE MkdirOwned(w)
  <2>1. /\ work[w] \in Creations /\ ~At(w, "install") /\ UNCHANGED leftovers
        /\ Goes(w, [work[w] EXCEPT !.pc = "record"])
    BY <1>1, WorkShapes DEF MkdirOwned, At
  <2>2. work[w].scope \in Scopes /\ [work[w] EXCEPT !.pc = "record"] \in Works
    BY <2>1 DEF Creations, Works
  <2>3. folder \in [Machines -> [Scopes -> Contents]] /\ Empty \in Contents
    BY DEF TypeOK, Contents
  <2>4. CASE folder[On[w]][work[w].scope] = Nothing
    BY <1>1, <1>f, <2>1, <2>2, <2>3, <2>4 DEF MkdirOwned, Free
  <2>5. CASE folder[On[w]][work[w].scope] # Nothing
    <3>1. folder' = folder
      BY <1>1, <2>2, <2>3, <2>5 DEF MkdirOwned, Fill
    <3> QED BY <1>n, <2>1, <2>2, <3>1
  <2> QED BY <2>4, <2>5
<1>2. CASE RecordProject(w)
  <2>1. work[w] \in Creations /\ ~At(w, "install") /\ UNCHANGED <<folder, leftovers>>
    BY <1>2, WorkShapes DEF RecordProject, At
  <2>2. [work[w] EXCEPT !.pc = "starter"] \in Works
    BY <2>1 DEF Creations, Works
  <2>3. Goes(w, [work[w] EXCEPT !.pc = "starter"]) \/ Goes(w, Idle)
    BY <1>2 DEF RecordProject, Ends
  <2> QED BY <1>n, <2>1, <2>2, <2>3
<1>3. CASE WriteStarter(w)
  <2>1. work[w] \in Creations /\ ~At(w, "install") /\ UNCHANGED leftovers /\ Goes(w, Idle)
    BY <1>3, WorkShapes DEF WriteStarter, At, Ends
  <2>2. work[w].scope \in Scopes /\ work[w].id \in Contents
    BY <2>1 DEF Creations, Contents
  <2>3. folder \in [Machines -> [Scopes -> Contents]]
    BY DEF TypeOK
  <2>4. CASE Free(On[w], work[w].scope)
    BY <1>3, <1>f, <2>1, <2>2, <2>4 DEF WriteStarter
  <2>5. CASE ~Free(On[w], work[w].scope)
    <3>1. folder' = folder
      BY <1>3, <2>2, <2>3, <2>5 DEF WriteStarter, Fill
    <3> QED BY <1>n, <2>1, <3>1
  <2> QED BY <2>4, <2>5
<1>m. ASSUME NEW next \in Works, Goes(w, next), ~At(w, "install"), UNCHANGED leftovers,
             NEW from \in Scopes, NEW to \in Scopes, from # to,
             \/ folder' = folder
             \/ /\ Free(On[w], to)
                /\ folder' = [folder EXCEPT ![On[w]][to] = folder[On[w]][from], ![On[w]][from] = Nothing]
      PROVE  Held(On[w], p)'
  <2>1. \A x \in Workers \ {w} : work'[x] = work[x]
    BY <1>m, GoesType
  <2>2. CASE folder' = folder
    BY <1>m, <1>n, <2>2
  <2>3. CASE folder' # folder
    BY <1>m, <2>1, <2>3, HeldMoved
  <2> QED BY <2>2, <2>3
<1>4. CASE RenameFolder(w)
  <2>1. work[w] \in Moves /\ ~At(w, "install") /\ UNCHANGED leftovers
    BY <1>4, WorkShapes DEF RenameFolder, At
  <2>2. work[w].from \in Scopes /\ work[w].to \in Scopes /\ work[w].from # work[w].to
    BY <1>4, <2>1 DEF Moves, Scopes, WorkInv, RenameFolder, At
  <2>3. [work[w] EXCEPT !.pc = "rescope"] \in Works
    BY <2>1 DEF Moves, Works
  <2>4. Goes(w, [work[w] EXCEPT !.pc = "rescope"]) \/ Goes(w, Idle)
    BY <1>4 DEF RenameFolder, Ends
  <2>5. \/ folder' = folder
        \/ /\ Free(On[w], work[w].to)
           /\ folder' = [folder EXCEPT ![On[w]][work[w].to] = folder[On[w]][work[w].from],
                                       ![On[w]][work[w].from] = Nothing]
    BY <1>4 DEF RenameFolder
  <2> QED BY <1>m, <2>1, <2>2, <2>3, <2>4, <2>5
<1>5. CASE MoveProjectToNetwork(w)
  <2>1. work[w] \in Moves /\ ~At(w, "install") /\ UNCHANGED leftovers /\ Goes(w, Idle)
    BY <1>5, WorkShapes DEF MoveProjectToNetwork, At, Ends
  <2>2. work[w].from \in Scopes /\ work[w].to \in Scopes /\ work[w].from # work[w].to
    BY <1>5, <2>1 DEF Moves, Scopes, WorkInv, MoveProjectToNetwork, At
  <2>3. \/ folder' = folder
        \/ /\ Free(On[w], work[w].from)
           /\ folder' = [folder EXCEPT ![On[w]][work[w].from] = folder[On[w]][work[w].to],
                                       ![On[w]][work[w].to] = Nothing]
    BY <1>5 DEF MoveProjectToNetwork
  <2> QED BY <1>m, <2>1, <2>2, <2>3
<1>6. CASE ExtractArchive(w)
  <2>1. work[w] \in Fetches /\ ~At(w, "install") /\ UNCHANGED <<folder, leftovers>>
    BY <1>6, WorkShapes DEF ExtractArchive, localVars, At
  <2> DEFINE next == [pc |-> "aside", id |-> work[w].id, dir |-> projectDir(On[w], work[w].id, work[w].scope),
                      staged |-> TRUE, backup |-> Nothing]
  <2>2. next \in Works
    BY <2>1, DirType DEF Works, Replacements, Contents, Fetches
  <2>3. Goes(w, next) \/ Goes(w, Idle)
    BY <1>6 DEF ExtractArchive, Ends
  <2> HIDE DEF next
  <2> QED BY <1>n, <2>1, <2>2, <2>3
<1>7. CASE SetAside(w)
  <2>1. work[w] \in Replacements /\ ~At(w, "install") /\ UNCHANGED leftovers
    BY <1>7, WorkShapes DEF SetAside, At
  <2>2. work[w].dir \in Scopes /\ Nothing \in Contents /\ Fill(On[w], work[w].dir, Nothing)
    BY <1>7, <2>1 DEF Replacements, Contents, SetAside
  <2> DEFINE aside == folder[On[w]][work[w].dir]
             next == [work[w] EXCEPT !.pc = "install", !.backup = aside]
  <2>3. aside \in Contents
    BY <2>2 DEF TypeOK
  <2>4. Goes(w, next)
    BY <1>7 DEF SetAside
  <2> HIDE DEF aside
  <2>5. next \in Works /\ next.pc = "install" /\ next.backup = aside
    BY <2>1, <2>3 DEF Works, Replacements
  <2> HIDE DEF next
  <2>6. work'[w] = next /\ \A x \in Workers \ {w} : work'[x] = work[x]
    BY <2>4, <2>5, GoesType
  <2>7. \A t \in Scopes \ {work[w].dir} : folder'[On[w]][t] = folder[On[w]][t]
    BY <2>2, FillType
  <2>8. CASE folder[On[w]][work[w].dir] = p
    BY <2>5, <2>6, <2>8 DEF Held, At, aside
  <2>9. CASE folder[On[w]][work[w].dir] # p
    <3>1. CASE \E t \in Scopes : folder[On[w]][t] = p
      BY <2>7, <2>9, <3>1 DEF Held
    <3>2. CASE p \in leftovers[On[w]] \/ \E x \in Workers : On[x] = On[w] /\ At(x, "install") /\ work[x].backup = p
      BY <2>1, <2>6, <3>2 DEF Held, At
    <3> QED BY <3>1, <3>2 DEF Held
  <2> QED BY <2>8, <2>9
<1>8. CASE Install(w)
  <2>1. work[w] \in Replacements /\ At(w, "install") /\ Goes(w, Idle)
    BY <1>8, WorkShapes DEF Install, At, Ends
  <2>2. /\ work[w].id \in Contents /\ work[w].dir \in Scopes /\ work[w].backup \in Contents
        /\ "id" \in DOMAIN work[w]
    BY <2>1 DEF Replacements, Contents
  <2>3. work[w].id = p
    BY <2>2 DEF OnlyOne
  <2>4. \A x \in Workers \ {w} : work'[x] = work[x]
    BY <2>1, GoesType
  <2>5. CASE Fill(On[w], work[w].dir, work[w].id) /\ Free(On[w], work[w].dir) /\ UNCHANGED leftovers
    BY <2>2, <2>3, <2>5, FillType DEF Held
  <2>6. CASE Fill(On[w], work[w].dir, work[w].backup) /\ Free(On[w], work[w].dir) /\ UNCHANGED leftovers
    BY <2>2, <2>4, <2>6, HeldFilled
  <2>7. CASE /\ UNCHANGED folder
             /\ leftovers' = [leftovers EXCEPT ![On[w]] = @ \cup ({work[w].backup} \ {Nothing})]
    <3>1. leftovers'[On[w]] = leftovers[On[w]] \cup ({work[w].backup} \ {Nothing})
      BY <2>7 DEF TypeOK
    <3>2. CASE work[w].backup = p
      <4>1. p # Nothing
        BY DEF ProjectsAssumption
      <4> QED BY <3>1, <3>2, <4>1 DEF Held
    <3>3. CASE work[w].backup # p
      BY <2>4, <2>7, <3>1, <3>3 DEF Held, At
    <3> QED BY <3>2, <3>3
  <2> QED BY <1>8, <2>5, <2>6, <2>7 DEF Install
<1>9. CASE BeginDownload(w)
  <2>1. work[w] \in Downloads /\ ~At(w, "install") /\ UNCHANGED <<folder, leftovers>>
    BY <1>9, WorkShapes DEF BeginDownload, At
  <2>2. [work[w] EXCEPT !.pc = "clone"] \in Works
    BY <2>1 DEF Downloads, Works
  <2>3. Goes(w, [work[w] EXCEPT !.pc = "clone"]) \/ Goes(w, Idle)
    BY <1>9 DEF BeginDownload, Ends
  <2> QED BY <1>n, <2>1, <2>2, <2>3
<1>10. CASE CloneWithProgress(w)
  <2>1. work[w] \in Downloads /\ ~At(w, "install") /\ UNCHANGED <<folder, leftovers>>
    BY <1>10, WorkShapes DEF CloneWithProgress, At
  <2>2. [work[w] EXCEPT !.pc = "cloning"] \in Works /\ [work[w] EXCEPT !.pc = "place"] \in Works
    BY <2>1 DEF Downloads, Works
  <2>3. \/ Goes(w, [work[w] EXCEPT !.pc = "cloning"]) \/ Goes(w, [work[w] EXCEPT !.pc = "place"])
        \/ Goes(w, Idle)
    BY <1>10 DEF CloneWithProgress, failDownload, Ends
  <2> QED BY <1>n, <2>1, <2>2, <2>3
<1>11. CASE PlaceClone(w)
  <2>1. work[w] \in Downloads /\ ~At(w, "install") /\ UNCHANGED leftovers /\ Goes(w, Idle)
    BY <1>11, WorkShapes DEF PlaceClone, failDownload, Ends, At
  <2>2. work[w].dir \in Scopes /\ work[w].id \in Contents /\ Half \in Contents
    BY <2>1 DEF Downloads, Contents
  <2>3. \/ UNCHANGED folder
        \/ /\ Free(On[w], work[w].dir)
           /\ Fill(On[w], work[w].dir, work[w].id) \/ Fill(On[w], work[w].dir, Half)
    BY <1>11 DEF PlaceClone
  <2> QED BY <1>f, <1>n, <2>1, <2>2, <2>3
<1>12. CASE WalkFolders(w)
  <2>1. PICK found \in SUBSET Scopes, inwork \in SUBSET Workers :
          Goes(w, [pc |-> "sweep", found |-> found, inwork |-> inwork])
    BY <1>12 DEF WalkFolders
  <2>2. [pc |-> "sweep", found |-> found, inwork |-> inwork] \in Works
    BY DEF Works, Sweeps
  <2>3. ~At(w, "install") /\ UNCHANGED <<folder, leftovers>>
    BY <1>12 DEF WalkFolders, localVars, At
  <2> QED BY <1>n, <2>1, <2>2, <2>3
<1>13. ~deleteOrphans(w)
  BY DEF deleteOrphans
<1> QED BY <1>1, <1>2, <1>3, <1>4, <1>5, <1>6, <1>7, <1>8, <1>9, <1>10, <1>11, <1>12, <1>13 DEF WorkStep

\* A handler's step on another machine, whose removal of leftovers looks at its own handlers.
LEMMA OthersKeepFiles ==
  ASSUME ProjectsAssumption, TypeOK, WorkInv, NEW w \in Workers, WorkStep(w),
         NEW m \in Machines \ {On[w]}, NEW p \in Ids, Held(m, p)
  PROVE  Held(m, p)'
<1> work[w] \in Works /\ On[w] \in Machines
  BY DEF TypeOK, ProjectsAssumption
<1> USE DEF Mine
<1>1. folder \in [Machines -> [Scopes -> Contents]] /\ leftovers \in [Machines -> SUBSET (Ids \cup {Empty, Half})]
  BY DEF TypeOK
<1>2. ASSUME NEW s, NEW what, Fill(On[w], s, what)
      PROVE  folder'[m] = folder[m]
  BY <1>1, <1>2 DEF Fill
<1>3. folder'[m] = folder[m]
  <2>1. CASE RenameFolder(w) \/ MoveProjectToNetwork(w)
    <3>1. PICK from, to : \/ folder' = folder
                          \/ folder' = [folder EXCEPT ![On[w]][to] = folder[On[w]][from], ![On[w]][from] = Nothing]
      BY <2>1 DEF RenameFolder, MoveProjectToNetwork
    <3> QED BY <1>1, <3>1
  <2>2. CASE deleteOrphans(w)
    BY <1>1, <2>2 DEF deleteOrphans
  <2>3. CASE MkdirOwned(w) \/ WriteStarter(w) \/ SetAside(w) \/ Install(w) \/ PlaceClone(w)
    BY <1>2, <2>3 DEF MkdirOwned, WriteStarter, SetAside, Install, PlaceClone
  <2>4. CASE UNCHANGED folder
    BY <2>4
  <2>5. CASE RecordProject(w) \/ ExtractArchive(w) \/ BeginDownload(w) \/ CloneWithProgress(w) \/ WalkFolders(w)
    BY <2>4, <2>5 DEF RecordProject, ExtractArchive, BeginDownload, CloneWithProgress, WalkFolders, localVars
  <2> QED BY <2>1, <2>2, <2>3, <2>5 DEF WorkStep
<1>4. leftovers'[m] = leftovers[m]
  <2>1. CASE Install(w)
    BY <1>1, <2>1 DEF Install
  <2>2. CASE deleteOrphans(w)
    BY <1>1, <2>2 DEF deleteOrphans
  <2>3. CASE UNCHANGED leftovers
    BY <2>3
  <2>4. \/ Install(w) \/ deleteOrphans(w) \/ UNCHANGED leftovers
    BY DEF WorkStep, MkdirOwned, RecordProject, WriteStarter, RenameFolder, MoveProjectToNetwork,
           ExtractArchive, SetAside, BeginDownload, CloneWithProgress, PlaceClone, WalkFolders, localVars
  <2> QED BY <2>1, <2>2, <2>3, <2>4
<1>5. ASSUME NEW x \in Workers, On[x] = m
      PROVE  work'[x] = work[x]
  <2>1. x # w
    BY <1>5
  <2>2. CASE deleteOrphans(w)
    <3>1. x \notin work[w].inwork
      BY <1>5, <2>2 DEF WorkInv, deleteOrphans, At
    <3> QED BY <2>1, <2>2, <3>1 DEF deleteOrphans
  <2>3. ASSUME NEW next, Goes(w, next)
        PROVE  work'[x] = work[x]
    BY <2>1, <2>3 DEF Goes, TypeOK
  <2>4. ASSUME Ends(w)
        PROVE  work'[x] = work[x]
    BY <2>3, <2>4 DEF Ends
  <2>5. CASE MkdirOwned(w) \/ RecordProject(w) \/ WriteStarter(w) \/ RenameFolder(w)
             \/ MoveProjectToNetwork(w)
    BY <2>3, <2>4, <2>5 DEF MkdirOwned, RecordProject, WriteStarter, RenameFolder, MoveProjectToNetwork
  <2>6. CASE ExtractArchive(w) \/ SetAside(w) \/ Install(w)
    BY <2>3, <2>4, <2>6 DEF ExtractArchive, SetAside, Install
  <2>7. CASE BeginDownload(w) \/ CloneWithProgress(w) \/ PlaceClone(w)
    BY <2>3, <2>4, <2>7 DEF BeginDownload, CloneWithProgress, PlaceClone, failDownload
  <2>8. CASE WalkFolders(w)
    BY <2>3, <2>8 DEF WalkFolders
  <2> QED BY <2>2, <2>5, <2>6, <2>7, <2>8 DEF WorkStep
<1> QED BY <1>3, <1>4, <1>5, HeldKept

LEMMA SyncKeepsFiles ==
  ASSUME ProjectsAssumption, TypeOK, NEW q \in Machines, SyncStep(q),
         NEW m \in Machines, NEW p \in Ids, Held(m, p), sync[m].pc # "remove"
  PROVE  Held(m, p)'
<1>1. UNCHANGED <<leftovers, work>>
  BY DEF SyncStep, publishProjects, SyncProject, PassOver, adoptAccountProjects, ServiceSilent,
         AdoptProject, EndAdoption, forgetAccountProject, RemoveFiles, DeleteProjectID, localVars
<1>2. folder'[m] = folder[m]
  <2>1. CASE RemoveFiles(q)
    <3>1. q # m
      BY <2>1 DEF RemoveFiles
    <3> QED BY <2>1, <3>1 DEF RemoveFiles, Fill, TypeOK
  <2>2. RemoveFiles(q) \/ UNCHANGED folder
    BY DEF SyncStep, publishProjects, SyncProject, PassOver, adoptAccountProjects, ServiceSilent,
           AdoptProject, EndAdoption, forgetAccountProject, DeleteProjectID, localVars
  <2> QED BY <2>1, <2>2
<1> QED BY <1>1, <1>2, HeldKept

LEMMA RequestKeepsFiles ==
  ASSUME ProjectsAssumption, TypeOK, Request, NEW m \in Machines, NEW p \in Ids, Held(m, p)
  PROVE  Held(m, p)'
<1>1. ASSUME NEW w \in Workers, At(w, "idle"), NEW next, Goes(w, next), UNCHANGED <<folder, leftovers>>
      PROVE  Held(m, p)'
  <2>1. \A x \in Workers \ {w} : work'[x] = work[x]
    BY <1>1 DEF Goes, TypeOK
  <2> QED BY <1>1, <2>1, HeldKept DEF At
<1>2. ASSUME NEW w \in Workers, NEW q \in Ids, NEW s,
             \/ createProject(w, q, s) \/ moveProjectNetwork(w, q, s) \/ materialiseProject(w, s, q)
             \/ startDownload(w, q)
      PROVE  Held(m, p)'
  BY <1>1, <1>2 DEF createProject, moveProjectNetwork, materialiseProject, startDownload, localVars
<1>3. ASSUME NEW w \in Workers, findOrphans(w)
      PROVE  Held(m, p)'
  BY <1>1, <1>3 DEF findOrphans, localVars
<1>4. ASSUME NEW q \in Machines, NEW r \in Ids, deleteProject(q, r)
      PROVE  Held(m, p)'
  BY <1>4, HeldKept DEF deleteProject, localVars
<1>5. ASSUME NEW q \in Machines, Restart(q)
      PROVE  Held(m, p)'
  <2> DEFINE held == {work[w].backup : w \in {x \in Workers : On[x] = q /\ At(x, "install")}} \ {Nothing}
  <2>1. leftovers' = [leftovers EXCEPT ![q] = leftovers[q] \cup held] /\ UNCHANGED folder
    BY <1>5 DEF Restart
  <2>2. \A x \in Workers : On[x] = q /\ At(x, "install") /\ work[x].backup = p => p \in held
    BY DEF ProjectsAssumption
  <2> HIDE DEF held
  <2>3. /\ leftovers'[q] = leftovers[q] \cup held
        /\ \A r \in Machines \ {q} : leftovers'[r] = leftovers[r]
    BY <2>1 DEF TypeOK
  <2>4. \A x \in Workers : work'[x] = IF On[x] = q THEN Idle ELSE work[x]
    BY <1>5 DEF Restart
  <2>5. CASE m = q
    BY <2>1, <2>2, <2>3, <2>5 DEF Held
  <2>6. CASE m # q
    BY <2>1, <2>3, <2>4, <2>6, HeldKept
  <2> QED BY <2>5, <2>6
<1> QED BY <1>2, <1>3, <1>4, <1>5 DEF Request

--------------------------------------------------------------------------------
(* Theorems *)

\* The invariant: the types, the machines behind the catalogue's entries, the handlers.
THEOREM ProjectsInvariant == Spec => []ProjectsInv
<1> USE ProjectsAssumption
<1>1. ProjectsInit => ProjectsInv
  <2> SUFFICES ASSUME ProjectsInit PROVE ProjectsInv
    OBVIOUS
  <2>1. TypeOK
    BY InitTypes
  <2>2. CatalogueInv
    BY DEF ProjectsInit, CatalogueInv, Idle, NoEntry
  <2>3. WorkInv /\ DownloadNeverStuck
    BY DEF ProjectsInit, WorkInv, DownloadNeverStuck, Idle
  <2> QED BY <2>1, <2>2, <2>3 DEF ProjectsInv
<1>2. ProjectsInv /\ [Next]_vars => ProjectsInv'
  <2> SUFFICES ASSUME ProjectsInv, [Next]_vars PROVE ProjectsInv'
    OBVIOUS
  <2> USE DEF ProjectsInv
  <2>1. CASE Request
    BY <2>1, RequestKeepsTypes, RequestKeepsCatalogue, RequestKeepsHandlers
  <2>2. ASSUME NEW m \in Machines, SyncStep(m)
        PROVE  ProjectsInv'
    <3>1. UNCHANGED <<work, downloading>>
      BY <2>2 DEF SyncStep, publishProjects, SyncProject, PassOver, adoptAccountProjects, ServiceSilent,
                  AdoptProject, EndAdoption, forgetAccountProject, RemoveFiles, DeleteProjectID, localVars
    <3>2. WorkInv' /\ DownloadNeverStuck'
      BY <3>1 DEF WorkInv, DownloadNeverStuck
    <3> QED BY <2>2, <3>2, SyncKeepsTypes, SyncKeepsCatalogue
  <2>3. ASSUME NEW w \in Workers, WorkStep(w)
        PROVE  ProjectsInv'
    BY <2>3, WorkKeepsTypes, WorkKeepsCatalogue, WorkKeepsHandlers
  <2>4. CASE UNCHANGED vars
    BY <2>4 DEF vars, localVars, TypeOK, CatalogueInv, Backs, Rows, WorkInv, DownloadNeverStuck
  <2> QED BY <2>1, <2>2, <2>3, <2>4 DEF Next
<1> QED BY <1>1, <1>2, PTL DEF Spec

\* Every variable keeps its type; requests and restarts stay within their bound.
THEOREM ProjectsTypeCorrect == Spec => []TypeOK
<1>1. ProjectsInv => TypeOK
  BY DEF ProjectsInv
<1> QED BY <1>1, ProjectsInvariant, PTL

\* What the service lists is known to some machine: publication and deletion of a machine
\* exclude each other, and another machine's account cannot take the entry away or keep it.
THEOREM CatalogueBackedHolds == Spec => []CatalogueBacked
<1>1. ProjectsInv => CatalogueBacked
  BY DEF ProjectsInv, CatalogueInv, Backs, CatalogueBacked
<1> QED BY <1>1, ProjectsInvariant, PTL

\* A name that counts as downloading has a handler that is downloading it, which every way
\* out of the download, and a restart, clears.
THEOREM DownloadNeverStuckHolds == Spec => []DownloadNeverStuck
<1>1. ProjectsInv => DownloadNeverStuck
  BY DEF ProjectsInv
<1> QED BY <1>1, ProjectsInvariant, PTL

\* The files of the only project of its name are never lost by a transfer, a move, a
\* download or a restart, whatever the other machines do.
THEOREM FilesSurviveHolds == Spec => FilesSurvive
<1> USE ProjectsAssumption
<1> DEFINE Kept == \A m \in Machines, p \in Ids :
                     OnlyOne(m, p) /\ Held(m, p) /\ ~Held(m, p)' =>
                       \/ sync[m].pc = "remove"
                       \/ \E w \in Workers : On[w] = m /\ At(w, "sweep")
<1>1. ProjectsInv /\ [Next]_vars => [Kept]_vars
  <2> SUFFICES ASSUME ProjectsInv, Next PROVE Kept
    BY DEF ProjectsInv
  <2> SUFFICES ASSUME NEW m \in Machines, NEW p \in Ids, OnlyOne(m, p), Held(m, p),
                      sync[m].pc # "remove", \A w \in Workers : ~(On[w] = m /\ At(w, "sweep"))
               PROVE  Held(m, p)'
    OBVIOUS
  <2> TypeOK /\ WorkInv
    BY DEF ProjectsInv
  <2>1. CASE Request
    BY <2>1, RequestKeepsFiles
  <2>2. ASSUME NEW q \in Machines, SyncStep(q)
        PROVE  Held(m, p)'
    BY <2>2, SyncKeepsFiles
  <2>3. ASSUME NEW w \in Workers, WorkStep(w)
        PROVE  Held(m, p)'
    <3>1. CASE On[w] = m
      BY <2>3, <3>1, WorkKeepsFiles
    <3>2. CASE On[w] # m
      BY <2>3, <3>2, OthersKeepFiles
    <3> QED BY <3>1, <3>2
  <2> QED BY <2>1, <2>2, <2>3 DEF Next
<1> QED BY <1>1, ProjectsInvariant, PTL DEF Spec, FilesSurvive
================================================================================
