------------------------------- MODULE GitProofs -------------------------------
(***************************************************************************)
(* Theorems about Git, for any paths, handlers, edits and requests.        *)
(*                                                                         *)
(* What a push may replace at the remote is decided long before it: by the *)
(* merge that made the remote's commits part of the branch, and by every   *)
(* edit, resolution and commit since.  ContentKept says where the other    *)
(* side's version of a path is at each of these moments, or that somebody  *)
(* replaced it here; CommitsTold and BaseTrue say that the base of the     *)
(* merge, which is not written anywhere, is what the commits make it.      *)
(***************************************************************************)
EXTENDS Git, TLAPS

\* Of a set of commits: two made of the same commits are the same, and each is known
\* by one of its own, so that whoever has that one has all of it.
Told(held) ==
  /\ \A c, d \in held : c.made = d.made => c.files = d.files
  /\ \A c \in held : c # NoCommit =>
       \E t \in c.made : \A d \in held : t \in d.made => c.made \subseteq d.made

Held == {head, mergeHead, tracking, remote}

\* The commits the machine and the remote hold.
CommitsTold ==
  /\ Told(Held)
  /\ tracking.made \subseteq remote.made /\ mergeHead.made \subseteq remote.made
  /\ InMerge => ~(mergeHead.made \subseteq head.made)

\* The last common commit holds what the side that is behind holds.
BaseTrue ==
  /\ remote # NoCommit /\ remote.made \subseteq head.made => base = remote.files
  /\ head.made \subseteq remote.made => base = head.files

\* What something was written over on this machine.
Written(p) == replaced[p] \cup undone[p]

\* Where a path's version is, unless something was written over it here: what is staged is
\* on disk, the common version in the branch, the branch's staged, and while a merge is
\* under way the other side's on disk and, once resolved, staged.
Kept(p) ==
  /\ index[p] # Unmerged => index[p] \subseteq work[p] \cup Written(p)
  /\ base[p] \subseteq head.files[p] \cup Written(p)
  /\ ~InMerge => index[p] # Unmerged /\ head.files[p] \subseteq index[p] \cup Written(p)
  /\ InMerge => /\ mergeHead.files[p] \subseteq work[p] \cup Written(p)
                /\ index[p] # Unmerged => mergeHead.files[p] \subseteq index[p] \cup Written(p)

ContentKept == \A p \in Paths : Kept(p)

\* Whoever is about to record the branch's project has made the folder, alone.
FolderMade ==
  /\ branchRow # {} => folder = "cloned"
  /\ \A w \in Workers : At(w, "record") =>
       /\ folder = "cloned" /\ branchRow = {}
       /\ \A u \in Workers : At(u, "record") => u = w

GitInv == TypeOK /\ CommitsTold /\ BaseTrue /\ ContentKept /\ FolderMade
--------------------------------------------------------------------------------
(* Types                                                                      *)

\* What a handler carries at each of its steps.
LEMMA StepShape ==
  ASSUME TypeOK, NEW w \in Workers
  PROVE  /\ handler[w] \in Steps
         /\ handler[w].at \in {"status", "add", "commit"} =>
              /\ handler[w].then \in {"idle", "push", "fetch"}
              /\ handler[w] = [at |-> handler[w].at, then |-> handler[w].then]
         /\ handler[w].at \in {"take", "stage", "write", "reset"} => handler[w].path \in Paths
         /\ At(w, "take") => handler[w].choice \in {"mine", "theirs", "drop"}
<1>1. handler[w] \in Steps BY DEF TypeOK
<1>2. QED BY <1>1 DEF Steps, At

\* A handler that goes on keeps the table of handlers typed.
LEMMA GoesTyped ==
  ASSUME TypeOK, NEW w \in Workers, NEW step \in Steps, Goes(w, step)
  PROVE  handler' \in [Workers -> Steps]
BY DEF TypeOK, Goes

\* The places a handler goes to.
LEMMA PlacesTyped ==
  /\ \A a \in {"idle", "push", "fetch", "merge", "conclude", "abort", "pushto", "lookup",
               "clone", "record"} : [at |-> a] \in Steps
  /\ \A a \in {"status", "add", "commit"}, then \in {"idle", "push", "fetch"} :
       [at |-> a, then |-> then] \in Steps
  /\ \A p \in Paths, c \in {"mine", "theirs", "drop"} :
       [at |-> "take", path |-> p, choice |-> c] \in Steps
  /\ \A a \in {"stage", "write", "reset"}, p \in Paths : [at |-> a, path |-> p] \in Steps
  /\ Idle \in Steps
BY DEF Steps, Idle

\* A commit stays one when more are made, and a new one is one.
LEMMA CommitsGrow ==
  ASSUME TypeOK, commits' \in {commits, commits + 1}
  PROVE  /\ Commits \subseteq Commits'
         /\ commits' \in Nat
BY DEF TypeOK, Commits

LEMMA NewCommitTyped ==
  ASSUME TypeOK, NEW made \in SUBSET (0 .. commits), NEW files \in [Paths -> Contents],
         commits' = commits + 1
  PROVE  NewCommit(made, files) \in Commits'
BY DEF TypeOK, Commits, NewCommit

LEMMA NoCommitTyped == ASSUME TypeOK PROVE NoCommit \in Commits
BY DEF TypeOK, NoCommit, Commits, Contents, Gone

\* What is staged can be recorded once nothing is unmerged.
LEMMA StagedTyped ==
  ASSUME TypeOK, Conflicts = {}
  PROVE  index \in [Paths -> Contents]
BY DEF TypeOK, Conflicts

LEMMA RecordTyped ==
  ASSUME TypeOK, CanRecord, Record
  PROVE  /\ head' \in Commits' /\ mergeHead' \in Commits' /\ base' \in [Paths -> Contents]
         /\ commits' \in Nat /\ Commits \subseteq Commits'
<1>1. commits' = commits + 1 BY DEF Record
<1>2. head.made \cup mergeHead.made \in SUBSET (0 .. commits) /\ mergeHead.files \in [Paths -> Contents]
  BY DEF TypeOK, Commits
<1>3. index \in [Paths -> Contents] BY StagedTyped DEF CanRecord
<1>4. head' \in Commits' BY <1>1, <1>2, <1>3, NewCommitTyped DEF Record
<1>5. NoCommit \in Commits' BY NoCommitTyped, CommitsGrow, <1>1
<1>6. base' \in [Paths -> Contents] BY <1>2 DEF Record, TypeOK
<1>7. QED BY <1>1, <1>4, <1>5, <1>6, CommitsGrow DEF Record

\* A merge leaves each path with one version or unmerged, and one on disk.
LEMMA MergedTyped ==
  ASSUME TypeOK, NEW p \in Paths
  PROVE  /\ Merged(p) \in Contents \cup {Unmerged} /\ OnDisk(p) \in Contents
         /\ Unmerged \notin Contents
<1>1. head.files[p] \in Contents /\ tracking.files[p] \in Contents /\ base[p] \in Contents
  BY DEF TypeOK, Commits
<1>2. Merged(p) \in Contents \cup {Unmerged} BY <1>1 DEF Merged
<1>3. head.files[p] \cup tracking.files[p] \in Contents BY <1>1 DEF Contents
<1>4. Unmerged \notin Contents BY GitAssumption DEF Unmerged, Contents
<1>5. QED BY <1>2, <1>3, <1>4 DEF OnDisk

LEMMA PullTyped ==
  ASSUME TypeOK, NEW w \in Workers, Pull(w)
  PROVE  TypeOK'
<1>1. handler' \in [Workers -> Steps] BY GoesTyped, PlacesTyped DEF Pull, Ends
<1>2. CASE UNCHANGED <<treeVars, commits>>
  BY <1>1, <1>2 DEF Pull, TypeOK, treeVars, branchVars, docVars, written, Untouched, Commits
<1>3. CASE ~UNCHANGED <<treeVars, commits>>
  <2>1. /\ index' = [p \in Paths |-> IF p \in Changed THEN Merged(p) ELSE index[p]]
        /\ work' = [p \in Paths |-> IF p \in Changed THEN OnDisk(p) ELSE work[p]]
    BY <1>3 DEF Pull
  <2>2. index' \in [Paths -> Contents \cup {Unmerged}] /\ work' \in [Paths -> Contents]
    BY <2>1, MergedTyped DEF TypeOK
  <2>3. /\ tracking \in Commits /\ head \in Commits /\ tracking.files \in [Paths -> Contents]
        /\ head.made \cup tracking.made \in SUBSET (0 .. commits)
    BY DEF TypeOK, Commits
  <2>4. commits' \in {commits, commits + 1} BY <1>3 DEF Pull
  <2>5. CASE FastForward \/ ~(\A p \in Paths : Merged(p) # Unmerged)
    <3>1. {head', mergeHead'} \subseteq {head, mergeHead, tracking} /\ base' \in {base, tracking.files}
          /\ commits' = commits
      BY <1>3, <2>5 DEF Pull
    <3>2. QED
      BY <1>1, <2>2, <2>3, <3>1
      DEF Pull, TypeOK, branchVars, docVars, written, Untouched, Commits
  <2>6. CASE ~FastForward /\ \A p \in Paths : Merged(p) # Unmerged
    <3>1. /\ head' = NewCommit(head.made \cup tracking.made, [p \in Paths |-> Merged(p)])
          /\ commits' = commits + 1 /\ base' = tracking.files /\ mergeHead' = mergeHead
      BY <1>3, <2>6 DEF Pull
    <3>2. [p \in Paths |-> Merged(p)] \in [Paths -> Contents] BY <2>6, MergedTyped
    <3>3. head' \in Commits' BY <3>1, <3>2, <2>3, NewCommitTyped
    <3>4. Commits \subseteq Commits' /\ commits' \in Nat BY <2>4, CommitsGrow
    <3>5. QED
      BY <1>1, <2>2, <2>3, <3>1, <3>3, <3>4
      DEF Pull, TypeOK, branchVars, docVars, written, Untouched
  <2>7. QED BY <2>5, <2>6
<1>4. QED BY <1>2, <1>3

\* What a replaced content adds to the history.
LEMMA ReplacesTyped ==
  ASSUME TypeOK, NEW p \in Paths, NEW seen, Replaces(p, seen)
  PROVE  {replaced', undone'} \subseteq [Paths -> Contents]
<1>1. \A c \in Contents : c \cup (work[p] \cap seen) \in Contents /\ c \cup (work[p] \ seen) \in Contents
  BY DEF TypeOK, Contents
<1>2. replaced \in [Paths -> Contents] /\ undone \in [Paths -> Contents] BY DEF TypeOK
<1>3. /\ replaced' = [replaced EXCEPT ![p] = @ \cup (work[p] \cap seen)]
      /\ undone' = [undone EXCEPT ![p] = @ \cup (work[p] \ seen)]
  BY DEF Replaces
<1>4. replaced' \in [Paths -> Contents] BY <1>1, <1>2, <1>3
<1>5. undone' \in [Paths -> Contents] BY <1>1, <1>2, <1>3
<1>6. QED BY <1>4, <1>5

\* What people and requests leave typed.
LEMMA PersonTyped ==
  ASSUME TypeOK, Person
  PROVE  TypeOK'
<1>1. PICK p \in Paths :
        \/ openCollabDocument(p) \/ handleClientEvent(p) \/ Contribute(p)
        \/ \E w \in Workers : writeFile(w, p) \/ deleteEntry(w, p)
  BY DEF Person
<1>2. ASSUME Edited PROVE edits' \in 0 .. MaxEdits /\ {edits'} \in Contents
  BY <1>2, GitAssumption DEF TypeOK, Edited, Contents
<1>3. CASE openCollabDocument(p)
  <2>1. doc' \in [Paths -> Contents \cup {NoDoc}] /\ work' \in [Paths -> Contents]
    BY <1>3 DEF TypeOK, openCollabDocument
  <2>2. {replaced', undone'} \subseteq [Paths -> Contents]
    BY <1>3, ReplacesTyped DEF TypeOK, openCollabDocument, written
  <2>3. QED BY <1>3, <2>1, <2>2 DEF TypeOK, openCollabDocument, branchVars, Commits
<1>4. CASE handleClientEvent(p)
  <2>1. Edited BY <1>4 DEF handleClientEvent
  <2>2. doc' \in [Paths -> Contents \cup {NoDoc}] /\ work' \in [Paths -> Contents]
        /\ saved' \subseteq Paths
    BY <1>2, <1>4, <2>1 DEF TypeOK, handleClientEvent
  <2>3. {replaced', undone'} \subseteq [Paths -> Contents]
    BY <1>4, ReplacesTyped DEF handleClientEvent
  <2>4. QED BY <1>2, <1>4, <2>1, <2>2, <2>3 DEF TypeOK, handleClientEvent, branchVars, Commits
<1>5. ASSUME NEW w \in Workers, writeFile(w, p) \/ deleteEntry(w, p) PROVE TypeOK'
  <2>1. Edited BY <1>5 DEF writeFile, deleteEntry
  <2>2. Gone \in Contents BY DEF Contents, Gone
  <2>3. work' \in [Paths -> Contents]
    BY <1>2, <1>5, <2>1, <2>2
    DEF TypeOK, writeFile, deleteEntry
  <2>4. {replaced', undone'} \subseteq [Paths -> Contents]
    BY <1>5, ReplacesTyped DEF writeFile, deleteEntry, OnPurpose
  <2>5. handler' \in [Workers -> Steps]
    BY <1>5, GoesTyped, PlacesTyped DEF writeFile, deleteEntry
  <2>6. QED
    BY <1>2, <1>5, <2>1, <2>3, <2>4, <2>5
    DEF TypeOK, writeFile, deleteEntry, docVars, branchVars, Commits
<1>6. CASE Contribute(p)
  <2>0. edits' \in 0 .. MaxEdits /\ {edits'} \in Contents BY <1>2, <1>6 DEF Contribute
  <2>1. remote.made \in SUBSET (0 .. commits)
        /\ [remote.files EXCEPT ![p] = {edits'}] \in [Paths -> Contents]
    BY <2>0 DEF TypeOK, Commits
  <2>2. commits' = commits + 1 BY <1>6 DEF Contribute
  <2>3. remote' \in Commits' BY <1>6, <2>1, <2>2, NewCommitTyped DEF Contribute
  <2>4. Commits \subseteq Commits' /\ commits' \in Nat BY <2>2, CommitsGrow
  <2>5. QED
    BY <2>0, <1>6, <2>3, <2>4
    DEF TypeOK, Contribute, treeVars, docVars, branchVars, written
<1>7. QED BY <1>1, <1>3, <1>4, <1>5, <1>6

LEMMA RequestTyped ==
  ASSUME TypeOK, NEW w \in Workers, Request(w)
  PROVE  TypeOK'
<1>1. \E step \in Steps : Begins(w, step)
  BY PlacesTyped DEF Request, gitCommit, gitPush, gitPull, finishMerge, gitAbortMerge,
     pushToBranch, markResolved, resolveConflict
<1>2. handler' \in [Workers -> Steps] BY <1>1, GoesTyped DEF Begins
<1>3. requests' \in 0 .. MaxRequests BY <1>1, GitAssumption DEF Begins, TypeOK
<1>4. QED BY <1>2, <1>3 DEF Request, TypeOK, treeVars, branchVars, docVars, written, Commits

LEMMA RestartTyped ==
  ASSUME TypeOK, Restart
  PROVE  TypeOK'
<1>1. handler' \in [Workers -> Steps] BY PlacesTyped DEF Restart
<1>2. requests' \in 0 .. MaxRequests BY GitAssumption DEF Restart, TypeOK
<1>3. doc' \in [Paths -> Contents \cup {NoDoc}] BY DEF Restart, TypeOK
<1>4. QED
  BY <1>1, <1>2, <1>3
  DEF Restart, TypeOK, treeVars, branchVars, docVars, written, Commits

\* On from one step of a commit to the next.
LEMMA NextTyped ==
  ASSUME TypeOK, NEW w \in Workers, handler[w].at \in {"status", "add", "commit"},
         NEW place \in {"add", "commit"}
  PROVE  [handler[w] EXCEPT !.at = place] \in Steps /\ [handler[w] EXCEPT !.at = place].at = place
<1> DEFINE a == handler[w].at
           then == handler[w].then
<1>1. handler[w] = [at |-> a, then |-> then] /\ then \in {"idle", "push", "fetch"} BY StepShape
<1> HIDE DEF a, then
<1>2. [handler[w] EXCEPT !.at = place] = [at |-> place, then |-> then] BY <1>1
<1>3. QED BY <1>1, <1>2, PlacesTyped

\* Wherever a handler goes.
LEMMA CommandGoesTyped ==
  ASSUME TypeOK, NEW w \in Workers, Command(w)
  PROVE  handler' \in [Workers -> Steps]
<1>1. \E step \in Steps : Goes(w, step)
  <2>1. CASE Commit(w)
    <3>1. At(w, "status") BY <2>1 DEF Commit
    <3>2. [at |-> handler[w].then] \in Steps BY <3>1, StepShape, PlacesTyped DEF At
    <3>3. [handler[w] EXCEPT !.at = "add"] \in Steps BY <3>1, NextTyped DEF At
    <3>4. QED BY <2>1, <3>2, <3>3 DEF Commit
  <2>2. CASE AddAll(w)
    <3>1. [handler[w] EXCEPT !.at = "commit"] \in Steps
      BY <2>2, NextTyped DEF At, AddAll
    <3>2. QED BY <2>2, <3>1 DEF AddAll
  <2>3. CASE CommitIndex(w)
    <3>1. [at |-> handler[w].then] \in Steps BY <2>3, StepShape, PlacesTyped DEF At, CommitIndex
    <3>2. QED BY <2>3, <3>1, PlacesTyped DEF CommitIndex, Ends
  <2>4. CASE TakeSide(w)
    BY <2>4, StepShape, PlacesTyped DEF At, TakeSide, Ends
  <2>5. CASE MarkResolved(w)
    BY <2>5, StepShape, PlacesTyped DEF At, MarkResolved, Ends
  <2>6. CASE DropFile(w) \/ Stage(w) \/ Reset(w)
    BY <2>6, StepShape, PlacesTyped DEF At, DropFile, Stage, Reset, Ends
  <2>7. QED
    BY <2>1, <2>2, <2>3, <2>4, <2>5, <2>6, PlacesTyped
    DEF Command, Push, Fetch, Pull, FinishMerge, AbortMerge, PushTo, ProjectOnBranch,
        CloneLocal,
        createBranchProject, Ends
<1>2. QED BY <1>1, GoesTyped

\* A file resolved: one side of it, none, or a new one.
LEMMA ResolutionTyped ==
  ASSUME TypeOK, NEW w \in Workers,
         TakeSide(w) \/ DropFile(w) \/ Stage(w) \/ MarkResolved(w)
  PROVE  TypeOK'
<1>1. handler' \in [Workers -> Steps] BY CommandGoesTyped DEF Command
<1>2. handler[w].path \in Paths
  BY StepShape DEF At, TakeSide, DropFile, Stage, MarkResolved
<1>3. {replaced', undone'} \subseteq [Paths -> Contents]
  <2>1. CASE UNCHANGED written BY <2>1 DEF TypeOK, written
  <2>2. CASE OnPurpose(handler[w].path) BY <1>2, <2>2, ReplacesTyped DEF OnPurpose
  <2>3. QED BY <2>1, <2>2 DEF TakeSide, DropFile, Stage, MarkResolved
<1>4. CASE TakeSide(w)
  <2> DEFINE p == handler[w].path
             side == CASE p \notin Conflicts             -> index[p]
                       [] handler[w].choice = "mine"   -> head.files[p]
                       [] handler[w].choice = "theirs" -> mergeHead.files[p]
  <2>1. handler[w].choice \in {"mine", "theirs"} BY <1>4, StepShape DEF TakeSide
  <2>2. side \in Contents BY <1>2, <2>1 DEF TypeOK, Commits, Conflicts
  <2>3. work' \in [Paths -> Contents] BY <1>2, <1>4, <2>2 DEF TakeSide, TypeOK
  <2>4. QED
    BY <1>1, <1>3, <1>4, <2>3
    DEF TakeSide, TypeOK, branchVars, docVars, written, Untouched, Commits
<1>5. CASE DropFile(w) \/ Stage(w)
  <2>1. index' \in [Paths -> Contents \cup {Unmerged}] /\ work' \in [Paths -> Contents]
    BY <1>2, <1>5 DEF DropFile, Stage, TypeOK, Contents, Gone
  <2>2. QED
    BY <1>1, <1>3, <1>5, <2>1
    DEF DropFile, Stage, TypeOK, branchVars, docVars, written, Untouched, Commits
<1>6. CASE MarkResolved(w)
  <2>1. edits' \in 0 .. MaxEdits /\ work' \in [Paths -> Contents]
    BY <1>2, <1>6, GitAssumption DEF MarkResolved, Edited, TypeOK, Contents
  <2>2. QED
    BY <1>1, <1>3, <1>6, <2>1
    DEF MarkResolved, TypeOK, branchVars, docVars, written, Commits
<1>7. QED BY <1>4, <1>5, <1>6

\* Every state keeps its type.
LEMMA GitTypeStep ==
  ASSUME TypeOK, [Next]_vars
  PROVE  TypeOK'
<1>1. CASE UNCHANGED vars
  BY <1>1 DEF vars, treeVars, branchVars, docVars, written, TypeOK, Commits
<1>2. ASSUME NEW w \in Workers, Command(w) PROVE TypeOK'
  <2>1. handler' \in [Workers -> Steps] BY <1>2, CommandGoesTyped
  <2>2. CASE \/ Commit(w) \/ AddAll(w) \/ Fetch(w) \/ Push(w) \/ PushTo(w) \/ ProjectOnBranch(w)
             \/ CloneLocal(w) \/ createBranchProject(w)
    <3>1. /\ index' \in [Paths -> Contents \cup {Unmerged}] /\ base' \in [Paths -> Contents]
          /\ {tracking', remote'} \subseteq Commits
          /\ commits' = commits /\ folder' \in {"none", "cloned"} /\ branchRow' \subseteq Workers
      BY <2>2 DEF TypeOK, Commit, AddAll, Fetch, Push, PushTo, ProjectOnBranch, CloneLocal,
         createBranchProject, treeVars, branchVars, docVars, written, Untouched, Commits
    <3>2. UNCHANGED <<head, work, mergeHead, docVars, written, edits, requests>>
      BY <2>2 DEF Commit, AddAll, Fetch, Push, PushTo, ProjectOnBranch, CloneLocal,
         createBranchProject, treeVars, branchVars, docVars, written, Untouched
    <3>3. QED BY <2>1, <3>1, <3>2 DEF TypeOK, docVars, written, Commits
  <2>3. CASE CommitIndex(w) \/ FinishMerge(w)
    <3>1. /\ {head', mergeHead'} \subseteq Commits' /\ base' \in [Paths -> Contents]
          /\ commits' \in Nat /\ Commits \subseteq Commits'
      BY <2>3, RecordTyped DEF CommitIndex, FinishMerge, TypeOK, Commits
    <3>2. QED
      BY <2>1, <2>3, <3>1
      DEF CommitIndex, FinishMerge, TypeOK, branchVars, docVars, written, Untouched
  <2>4. CASE Pull(w) BY <2>4, PullTyped
  <2>5. CASE AbortMerge(w)
    <3>1. NoCommit \in Commits /\ head.files \in [Paths -> Contents]
      BY NoCommitTyped DEF TypeOK, Commits
    <3>2. /\ index' \in [Paths -> Contents \cup {Unmerged}] /\ work' \in [Paths -> Contents]
          /\ mergeHead' \in Commits
      BY <2>5, <3>1 DEF AbortMerge, TypeOK
    <3>3. QED
      BY <2>1, <2>5, <3>2
      DEF AbortMerge, TypeOK, branchVars, docVars, written, Untouched, Commits
  <2>6. CASE Reset(w)
    <3>1. handler[w].path \in Paths BY <2>6, StepShape DEF Reset, At
    <3>2. doc' \in [Paths -> Contents \cup {NoDoc}] /\ saved' \subseteq Paths
      BY <2>6, <3>1 DEF Reset, TypeOK
    <3>3. QED BY <2>1, <2>6, <3>2 DEF Reset, TypeOK, treeVars, branchVars, written, Commits
  <2>7. QED BY <1>2, <2>2, <2>3, <2>4, <2>5, <2>6, ResolutionTyped DEF Command
<1>3. QED BY <1>1, <1>2, PersonTyped, RequestTyped, RestartTyped DEF Next

--------------------------------------------------------------------------------
(* Commits                                                                    *)

\* Nothing is lost when some are no longer held, or none is.
LEMMA ToldOfFewer ==
  ASSUME NEW held, NEW kept, Told(held), kept \subseteq held \cup {NoCommit}
  PROVE  Told(kept)
<1>1. \A c, d \in kept : c.made = d.made => c.files = d.files
  <2> SUFFICES ASSUME NEW c \in kept, NEW d \in kept, c.made = d.made PROVE c.files = d.files
    OBVIOUS
  <2>1. NoCommit.made = {} BY DEF NoCommit
  <2>2. ASSUME NEW a \in held, a.made = {} PROVE a = NoCommit
    BY <2>2 DEF Told
  <2>3. CASE c \in held /\ d \in held BY <2>3 DEF Told
  <2>4. CASE c = NoCommit \/ d = NoCommit BY <2>1, <2>2, <2>4
  <2>5. QED BY <2>3, <2>4
<1>2. ASSUME NEW c \in kept, c # NoCommit
      PROVE  \E t \in c.made : \A d \in kept : t \in d.made => c.made \subseteq d.made
  <2>1. c \in held BY <1>2
  <2>2. PICK t \in c.made : \A d \in held : t \in d.made => c.made \subseteq d.made
    BY <1>2, <2>1 DEF Told
  <2>3. t \notin NoCommit.made BY DEF NoCommit
  <2>4. QED BY <2>2, <2>3
<1>3. QED BY <1>1, <1>2 DEF Told

\* A commit made on top of two that are held is told from them.
LEMMA ToldOfNew ==
  ASSUME NEW held, NEW n \in Nat, Told(held), \A c \in held : c.made \in SUBSET (0 .. n),
         NEW a \in held, NEW b \in held, NEW new, new.made = a.made \cup b.made \cup {n + 1}
  PROVE  Told(held \cup {new})
<1>1. \A c \in held : n + 1 \notin c.made OBVIOUS
<1>2. \A c, d \in held \cup {new} : c.made = d.made => c.files = d.files
  BY <1>1 DEF Told
<1>3. ASSUME NEW c \in held \cup {new}, c # NoCommit
      PROVE  \E t \in c.made : \A d \in held \cup {new} : t \in d.made => c.made \subseteq d.made
  <2>1. CASE c = new
    <3>1. \A d \in held \cup {new} : n + 1 \in d.made => c.made \subseteq d.made BY <1>1, <2>1
    <3>2. n + 1 \in c.made BY <2>1
    <3>3. QED BY <3>1, <3>2
  <2>2. CASE c \in held
    <3>1. PICK t \in c.made : \A d \in held : t \in d.made => c.made \subseteq d.made
      BY <1>3, <2>2 DEF Told
    <3>2. t # n + 1 BY <1>1, <2>2
    <3>3. t \in new.made => c.made \subseteq new.made BY <3>1, <3>2
    <3>4. QED BY <3>1, <3>3
  <2>3. QED BY <2>1, <2>2
<1>4. QED BY <1>2, <1>3 DEF Told

\* Who has the commits of two has those of one of the two, if one of the two is told
\* by its own.
LEMMA WholeOrNot ==
  ASSUME NEW held, Told(held), NEW c \in held, c # NoCommit, NEW a \in held, NEW b \in held,
         c.made \subseteq a.made \cup b.made
  PROVE  c.made \subseteq a.made \/ c.made \subseteq b.made
BY DEF Told

LEMMA HeldMade ==
  ASSUME TypeOK
  PROVE  \A c \in Held : c.made \in SUBSET (0 .. commits)
BY DEF TypeOK, Held, Commits

LEMMA ContributeTold ==
  ASSUME TypeOK, CommitsTold, NEW p \in Paths, Contribute(p)
  PROVE  CommitsTold'
<1>1. /\ remote'.made = remote.made \cup remote.made \cup {commits + 1}
      /\ UNCHANGED <<head, mergeHead, tracking>>
  BY DEF Contribute, NewCommit, treeVars
<1>2. Told(Held \cup {remote'})
  BY <1>1, HeldMade, ToldOfNew DEF CommitsTold, TypeOK, Held
<1>3. Told(Held') BY <1>1, <1>2, ToldOfFewer DEF Held
<1>4. QED BY <1>1, <1>3 DEF CommitsTold, InMerge

LEMMA RecordTold ==
  ASSUME TypeOK, CommitsTold, Record, UNCHANGED <<tracking, remote>>
  PROVE  CommitsTold'
<1>1. head'.made = head.made \cup mergeHead.made \cup {commits + 1} /\ mergeHead' = NoCommit
  BY DEF Record, NewCommit
<1>2. Told(Held \cup {head'})
  BY <1>1, HeldMade, ToldOfNew DEF CommitsTold, TypeOK, Held
<1>3. Told(Held') BY <1>1, <1>2, ToldOfFewer DEF Held
<1>4. QED BY <1>1, <1>3 DEF CommitsTold, InMerge, NoCommit

LEMMA PushTold ==
  ASSUME CommitsTold, NEW w \in Workers, Push(w)
  PROVE  CommitsTold'
<1>1. UNCHANGED <<head, mergeHead>> BY DEF Push
<1>2. Held' \subseteq Held BY <1>1 DEF Push, Held
<1>3. Told(Held') BY <1>2, ToldOfFewer DEF CommitsTold
<1>4. tracking'.made \subseteq remote'.made /\ mergeHead'.made \subseteq remote'.made
  BY <1>1 DEF CommitsTold, Push
<1>5. QED BY <1>1, <1>3, <1>4 DEF CommitsTold, InMerge

LEMMA FetchTold ==
  ASSUME CommitsTold, NEW w \in Workers, Fetch(w)
  PROVE  CommitsTold'
<1>1. UNCHANGED <<head, mergeHead, remote>> /\ tracking' \in {tracking, remote}
  BY DEF Fetch, treeVars
<1>2. Told(Held') BY <1>1, ToldOfFewer DEF CommitsTold, Held
<1>3. QED BY <1>1, <1>2 DEF CommitsTold, InMerge

LEMMA PullTold ==
  ASSUME TypeOK, CommitsTold, NEW w \in Workers, Pull(w)
  PROVE  CommitsTold'
<1>1. UNCHANGED <<tracking, remote>> BY DEF Pull
<1>2. CASE UNCHANGED <<head, mergeHead>>
  BY <1>1, <1>2 DEF CommitsTold, InMerge, Held
<1>3. CASE ~UNCHANGED <<head, mergeHead>>
  <2>1. ~UpToDate /\ CanMerge BY <1>3 DEF Pull, treeVars
  <2>2. mergeHead = NoCommit BY <2>1 DEF CanMerge, InMerge
  <2>3. CASE FastForward
    <3>1. head' = tracking /\ mergeHead' = mergeHead BY <2>1, <2>3 DEF Pull
    <3>2. Told(Held') BY <1>1, <3>1, ToldOfFewer DEF CommitsTold, Held
    <3>3. QED BY <1>1, <2>2, <3>1, <3>2 DEF CommitsTold, InMerge
  <2>4. CASE ~FastForward /\ \A p \in Paths : Merged(p) # Unmerged
    <3>1. head'.made = head.made \cup tracking.made \cup {commits + 1} /\ mergeHead' = mergeHead
      BY <2>1, <2>4 DEF Pull, NewCommit
    <3>2. Told(Held \cup {head'})
      BY <3>1, HeldMade, ToldOfNew DEF CommitsTold, TypeOK, Held
    <3>3. Told(Held') BY <1>1, <3>1, <3>2, ToldOfFewer DEF Held
    <3>4. QED BY <1>1, <2>2, <3>1, <3>3 DEF CommitsTold, InMerge
  <2>5. CASE ~FastForward /\ ~\A p \in Paths : Merged(p) # Unmerged
    <3>1. mergeHead' = tracking /\ head' = head BY <2>1, <2>5 DEF Pull
    <3>2. Told(Held') BY <1>1, <3>1, ToldOfFewer DEF CommitsTold, Held
    <3>3. QED BY <1>1, <2>1, <3>1, <3>2 DEF CommitsTold, UpToDate
  <2>6. QED BY <2>3, <2>4, <2>5
<1>4. QED BY <1>2, <1>3

LEMMA AbortTold ==
  ASSUME CommitsTold, NEW w \in Workers, AbortMerge(w)
  PROVE  CommitsTold'
<1>1. UNCHANGED <<head, tracking, remote>> /\ mergeHead' \in {mergeHead, NoCommit}
  BY DEF AbortMerge
<1>2. Told(Held') BY <1>1, ToldOfFewer DEF CommitsTold, Held
<1>3. NoCommit.made = {} BY DEF NoCommit
<1>4. QED BY <1>1, <1>2, <1>3 DEF CommitsTold, InMerge

\* Every step keeps the commits told apart.
LEMMA CommitsToldStep ==
  ASSUME TypeOK, CommitsTold, [Next]_vars
  PROVE  CommitsTold'
<1>1. CASE UNCHANGED <<head, mergeHead, tracking, remote>>
  BY <1>1 DEF CommitsTold, InMerge, Held
<1>2. CASE Person
  BY <1>1, <1>2, ContributeTold
  DEF Person, openCollabDocument, handleClientEvent, writeFile, deleteEntry
<1>3. ASSUME NEW w \in Workers, Command(w) PROVE CommitsTold'
  <2>1. CASE CommitIndex(w) \/ FinishMerge(w)
    BY <1>1, <2>1, RecordTold DEF CommitIndex, FinishMerge
  <2>2. CASE Push(w) \/ Fetch(w) \/ Pull(w) \/ AbortMerge(w)
    BY <2>2, PushTold, FetchTold, PullTold, AbortTold
  <2>3. QED
    BY <1>1, <1>3, <2>1, <2>2
    DEF Command, Commit, AddAll, TakeSide, DropFile, Stage, MarkResolved, Reset, PushTo,
        ProjectOnBranch, CloneLocal, createBranchProject, treeVars
<1>4. QED
  BY <1>1, <1>2, <1>3 DEF Next, Request, Restart, vars, treeVars

--------------------------------------------------------------------------------
(* The last common commit                                                     *)

LEMMA ContributeBase ==
  ASSUME TypeOK, CommitsTold, BaseTrue, NEW p \in Paths, Contribute(p)
  PROVE  BaseTrue'
<1>1. /\ remote'.made = remote.made \cup {commits + 1} /\ UNCHANGED <<head, base>>
  BY DEF Contribute, NewCommit, treeVars
<1>2. commits + 1 \notin head.made BY DEF TypeOK, Commits
<1>3. QED BY <1>1, <1>2 DEF BaseTrue

\* A commit that joins two has the remote's commits only if one of the two has.
LEMMA JoinBase ==
  ASSUME TypeOK, CommitsTold, NEW c \in {mergeHead, tracking},
         remote # NoCommit, ~(c.made \subseteq head.made),
         remote.made \subseteq head.made \cup c.made \cup {commits + 1}
  PROVE  remote.files = c.files
<1>1. Told(Held) /\ c.made \subseteq remote.made BY DEF CommitsTold
<1>2. remote.made \subseteq head.made \cup c.made BY DEF TypeOK, Commits
<1>3. remote.made \subseteq head.made \/ remote.made \subseteq c.made
  BY <1>1, <1>2, WholeOrNot DEF Held
<1>4. remote.made = c.made BY <1>1, <1>3
<1>5. QED BY <1>1, <1>4 DEF Told, Held

LEMMA RecordBase ==
  ASSUME TypeOK, CommitsTold, BaseTrue, Record, UNCHANGED remote
  PROVE  BaseTrue'
<1>1. head'.made = head.made \cup mergeHead.made \cup {commits + 1}
      /\ base' = IF InMerge THEN mergeHead.files ELSE base
  BY DEF Record, NewCommit
<1>2. ~(head'.made \subseteq remote.made)
  <2>1. commits + 1 \notin remote.made BY DEF TypeOK, Commits
  <2>2. QED BY <1>1, <2>1
<1>3. ASSUME remote # NoCommit, remote.made \subseteq head'.made PROVE base' = remote.files
  <2>1. CASE InMerge BY <1>1, <1>3, <2>1, JoinBase DEF CommitsTold
  <2>2. CASE ~InMerge
    <3>1. mergeHead.made = {} BY <2>2 DEF InMerge, NoCommit
    <3>2. remote.made \subseteq head.made BY <1>1, <1>3, <3>1 DEF TypeOK, Commits
    <3>3. QED BY <1>1, <1>3, <2>2, <3>2 DEF BaseTrue
  <2>3. QED BY <2>1, <2>2
<1>4. QED BY <1>2, <1>3 DEF BaseTrue

LEMMA PushBase ==
  ASSUME BaseTrue, NEW w \in Workers, Push(w)
  PROVE  BaseTrue'
BY DEF BaseTrue, Push

LEMMA PullBase ==
  ASSUME TypeOK, CommitsTold, BaseTrue, NEW w \in Workers, Pull(w)
  PROVE  BaseTrue'
<1>1. UNCHANGED <<tracking, remote>> BY DEF Pull
<1>2. CASE UNCHANGED <<head, base>> BY <1>1, <1>2 DEF BaseTrue
<1>3. CASE ~UNCHANGED <<head, base>>
  <2>1. ~UpToDate /\ base' = tracking.files BY <1>3 DEF Pull, treeVars
  <2>2. CASE FastForward
    <3>1. head' = tracking BY <1>3, <2>2 DEF Pull, treeVars
    <3>2. remote.made \subseteq tracking.made => remote.files = tracking.files
      BY DEF CommitsTold, Told, Held
    <3>3. QED BY <1>1, <2>1, <3>1, <3>2 DEF BaseTrue
  <2>3. CASE ~FastForward
    <3>1. head'.made = head.made \cup tracking.made \cup {commits + 1}
      BY <1>3, <2>3 DEF Pull, NewCommit, treeVars
    <3>2. ~(head'.made \subseteq remote.made)
      <4>1. commits + 1 \notin remote.made BY DEF TypeOK, Commits
      <4>2. QED BY <3>1, <4>1
    <3>3. remote # NoCommit /\ remote.made \subseteq head'.made => remote.files = tracking.files
      BY <2>1, <3>1, JoinBase DEF UpToDate
    <3>4. QED BY <1>1, <2>1, <3>2, <3>3 DEF BaseTrue
  <2>4. QED BY <2>2, <2>3
<1>4. QED BY <1>2, <1>3

\* Every step keeps the base what the commits make it.
LEMMA BaseTrueStep ==
  ASSUME TypeOK, CommitsTold, BaseTrue, [Next]_vars
  PROVE  BaseTrue'
<1>1. CASE UNCHANGED <<head, base, remote>> BY <1>1 DEF BaseTrue
<1>2. CASE Person
  BY <1>1, <1>2, ContributeBase
  DEF Person, openCollabDocument, handleClientEvent, writeFile, deleteEntry
<1>3. ASSUME NEW w \in Workers, Command(w) PROVE BaseTrue'
  <2>1. CASE CommitIndex(w) \/ FinishMerge(w)
    BY <1>1, <2>1, RecordBase DEF CommitIndex, FinishMerge
  <2>2. CASE Push(w) \/ Pull(w) BY <2>2, PushBase, PullBase
  <2>3. QED
    BY <1>1, <1>3, <2>1, <2>2
    DEF Command, Commit, AddAll, Fetch, AbortMerge, TakeSide, DropFile, Stage, MarkResolved,
        Reset, PushTo, ProjectOnBranch, CloneLocal, createBranchProject, treeVars
<1>4. QED BY <1>1, <1>2, <1>3 DEF Next, Request, Restart, vars, treeVars

--------------------------------------------------------------------------------
(* The branch's folder                                                        *)

\* Every step keeps the folder with what is recorded for it.
LEMMA FolderMadeStep ==
  ASSUME TypeOK, FolderMade, [Next]_vars
  PROVE  FolderMade'
<1>1. ASSUME UNCHANGED branchVars,
             \A w \in Workers : At(w, "record")' => At(w, "record")
      PROVE  FolderMade'
  BY <1>1 DEF FolderMade, branchVars
<1>2. ASSUME NEW w \in Workers, \A u \in Workers \ {w} : handler'[u] = handler[u],
             handler'[w].at # "record"
      PROVE  \A u \in Workers : At(u, "record")' => At(u, "record") /\ u # w
  BY <1>2 DEF At
<1> DEFINE MovesElsewhere(w) == /\ \A u \in Workers \ {w} : handler'[u] = handler[u]
                               /\ handler'[w].at # "record"
<1>3. ASSUME NEW w \in Workers, Command(w) PROVE FolderMade'
  <2>1. CASE CloneLocal(w)
    <3>1. CASE folder = "none"
      <4>1. folder' = "cloned" /\ Goes(w, [at |-> "record"]) /\ branchRow' = branchRow
        BY <2>1, <3>1 DEF CloneLocal
      <4>2. branchRow = {} /\ \A u \in Workers : ~At(u, "record") BY <3>1 DEF FolderMade
      <4>3. \A u \in Workers : At(u, "record")' => u = w
        BY <4>1, <4>2 DEF Goes, At, TypeOK
      <4>4. QED BY <4>1, <4>2, <4>3 DEF FolderMade
    <3>2. CASE folder # "none"
      <4>1. MovesElsewhere(w) BY <2>1, <3>2 DEF CloneLocal, Ends, Goes, Idle, TypeOK
      <4>2. QED BY <1>1, <1>2, <2>1, <3>2, <4>1 DEF CloneLocal, branchVars
    <3>3. QED BY <3>1, <3>2
  <2>2. CASE createBranchProject(w)
    <3>1. At(w, "record") /\ branchRow = {} /\ folder = "cloned"
      BY <2>2 DEF createBranchProject, FolderMade
    <3>2. folder' = "cloned" BY <2>2, <3>1 DEF createBranchProject
    <3>3. MovesElsewhere(w) BY <2>2 DEF createBranchProject, Ends, Goes, Idle, TypeOK
    <3>4. \A u \in Workers : ~At(u, "record")' BY <1>2, <3>1, <3>3 DEF FolderMade
    <3>5. QED BY <3>2, <3>4 DEF FolderMade
  <2>3. CASE ~CloneLocal(w) /\ ~createBranchProject(w)
    <3>1. UNCHANGED branchVars
      BY <1>3, <2>3 DEF Command, Commit, AddAll, CommitIndex, Push, Fetch, Pull, TakeSide,
         DropFile, Stage, MarkResolved, Reset, FinishMerge, AbortMerge, PushTo, ProjectOnBranch
    <3>2. MovesElsewhere(w)
      <4>1. handler[w].at \in {"status", "add", "commit"} => handler[w].then # "record"
        BY StepShape
      <4>2. CASE Commit(w) \/ AddAll(w) \/ CommitIndex(w)
        <5>1. CASE Commit(w)
          <6>1. [handler[w] EXCEPT !.at = "add"].at = "add" BY <5>1, NextTyped DEF Commit, At
          <6>2. CASE Status = {} BY <4>1, <5>1, <6>2 DEF Commit, Goes, At, TypeOK
          <6>3. CASE Status # {}
            <7>1. Goes(w, [handler[w] EXCEPT !.at = "add"]) BY <5>1, <6>3 DEF Commit
            <7>2. QED BY <6>1, <7>1 DEF Goes, TypeOK
          <6>4. QED BY <6>2, <6>3
        <5>2. CASE AddAll(w)
          <6>1. [handler[w] EXCEPT !.at = "commit"].at = "commit"
            BY <5>2, NextTyped DEF AddAll, At
          <6>2. QED BY <5>2, <6>1 DEF AddAll, Goes, TypeOK
        <5>3. CASE CommitIndex(w)
          BY <4>1, <5>3 DEF CommitIndex, Goes, Ends, Idle, At, TypeOK
        <5>4. QED BY <4>2, <5>1, <5>2, <5>3
      <4>3. CASE ~(Commit(w) \/ AddAll(w) \/ CommitIndex(w))
        BY <1>3, <2>3, <4>3
        DEF Command, Push, Fetch, Pull, TakeSide, DropFile, Stage, MarkResolved, Reset,
            FinishMerge,
            AbortMerge, PushTo, ProjectOnBranch, Goes, Ends, Idle, TypeOK
      <4>4. QED BY <4>2, <4>3
    <3>3. QED BY <1>1, <1>2, <3>1, <3>2
  <2>4. QED BY <2>1, <2>2, <2>3
<1>4. ASSUME NEW w \in Workers, Request(w) PROVE FolderMade'
  <2>1. MovesElsewhere(w)
    BY <1>4 DEF Request, gitCommit, gitPush, gitPull, finishMerge, gitAbortMerge, pushToBranch,
       markResolved, resolveConflict, Begins, Goes, TypeOK
  <2>2. QED BY <1>1, <1>2, <1>4, <2>1 DEF Request
<1>5. CASE Person \/ UNCHANGED vars
  <2>1. UNCHANGED branchVars
    BY <1>5
    DEF Person, openCollabDocument, handleClientEvent, writeFile, deleteEntry, Contribute,
       vars
  <2>2. CASE UNCHANGED handler BY <1>1, <2>1, <2>2 DEF At
  <2>3. ASSUME NEW w \in Workers, NEW p \in Paths, writeFile(w, p) \/ deleteEntry(w, p)
        PROVE  FolderMade'
    <3>1. MovesElsewhere(w) BY <2>3 DEF writeFile, deleteEntry, Goes, TypeOK
    <3>2. QED BY <1>1, <1>2, <2>1, <3>1
  <2>4. QED
    BY <1>5, <2>2, <2>3 DEF Person, openCollabDocument, handleClientEvent, Contribute, vars
<1>6. CASE Restart
  BY <1>1, <1>6 DEF Restart, At, Idle
<1>7. QED BY <1>3, <1>4, <1>5, <1>6 DEF Next

--------------------------------------------------------------------------------
(* Versions of a path                                                         *)

\* Contents are told from an entry with two sides.
LEMMA ContentsMerged ==
  ASSUME TypeOK, NEW p \in Paths
  PROVE  /\ head.files[p] \in Contents /\ tracking.files[p] \in Contents /\ work[p] \in Contents
         /\ Unmerged \notin Contents
<1>1. Unmerged \notin Contents BY GitAssumption DEF Unmerged, Contents
<1>2. QED BY <1>1 DEF TypeOK, Commits

\* What a path held is on record when somebody replaces it.
LEMMA ReplacedKept ==
  ASSUME TypeOK, ContentKept, NEW p \in Paths, NEW content,
         work' = [work EXCEPT ![p] = content], NEW seen, Replaces(p, seen),
         UNCHANGED <<head, index, mergeHead, base>>
  PROVE  ContentKept'
<1>1. /\ replaced' = [replaced EXCEPT ![p] = @ \cup (work[p] \cap seen)]
      /\ undone' = [undone EXCEPT ![p] = @ \cup (work[p] \ seen)]
  BY DEF Replaces
<1>2. ASSUME NEW q \in Paths PROVE Kept(q)'
  <2>1. work[q] \cup Written(q) \subseteq work'[q] \cup Written(q)'
        /\ Written(q) \subseteq Written(q)'
    BY <1>1 DEF TypeOK, Written
  <2>2. Kept(q) BY DEF ContentKept
  <2>3. QED BY <2>1, <2>2 DEF Kept, Written, written, InMerge
<1>3. QED BY <1>2 DEF ContentKept

\* Staging what is on disk, one path or all.
LEMMA StagedKept ==
  ASSUME TypeOK, ContentKept, NEW staged \in SUBSET Paths,
         index' = [p \in Paths |-> IF p \in staged THEN work[p] ELSE index[p]],
         UNCHANGED <<head, work, mergeHead, base, written>>
  PROVE  ContentKept'
<1>1. ASSUME NEW q \in Paths PROVE Kept(q)'
  <2>1. Kept(q) BY DEF ContentKept
  <2>2. CASE q \in staged
    <3>1. index'[q] = work[q] /\ work[q] # Unmerged BY <2>2, ContentsMerged
    <3>2. QED BY <2>1, <3>1 DEF Kept, Written, written, InMerge
  <2>3. CASE q \notin staged
    <3>1. index'[q] = index[q] BY <2>3
    <3>2. QED BY <2>1, <3>1 DEF Kept, Written, written, InMerge
  <2>4. QED BY <2>2, <2>3
<1>2. QED BY <1>1 DEF ContentKept

LEMMA DroppedKept ==
  ASSUME TypeOK, ContentKept, NEW p \in Paths,
         index' = [index EXCEPT ![p] = Gone], work' = [work EXCEPT ![p] = Gone], OnPurpose(p),
         UNCHANGED <<head, mergeHead, base>>
  PROVE  ContentKept'
<1>1. /\ replaced' = [replaced EXCEPT ![p] = @ \cup (work[p] \cap work[p])]
      /\ undone' = [undone EXCEPT ![p] = @ \cup (work[p] \ work[p])]
  BY DEF OnPurpose, Replaces
<1>2. ASSUME NEW q \in Paths PROVE Kept(q)'
  <2>1. Kept(q) BY DEF ContentKept
  <2>2. CASE q = p
    <3>1. index'[q] = {} /\ work'[q] = {} /\ Written(q)' = Written(q) \cup work[q]
      BY <1>1, <2>2 DEF TypeOK, Gone, Written
    <3>2. {} # Unmerged BY DEF Unmerged
    <3>3. QED BY <2>1, <3>1, <3>2 DEF Kept, Written, written, InMerge
  <2>3. CASE q # p
    <3>1. index'[q] = index[q] /\ work'[q] = work[q] /\ Written(q)' = Written(q)
      BY <1>1, <2>3 DEF TypeOK, Written
    <3>2. QED BY <2>1, <3>1 DEF Kept, Written, written, InMerge
  <2>4. QED BY <2>2, <2>3
<1>3. QED BY <1>2 DEF ContentKept

LEMMA RecordKept ==
  ASSUME TypeOK, ContentKept, CanRecord, Record, UNCHANGED <<index, work, written>>
  PROVE  ContentKept'
<1>1. /\ head'.files = index /\ mergeHead' = NoCommit
      /\ base' = IF InMerge THEN mergeHead.files ELSE base
  BY DEF Record, NewCommit
<1>2. \A p \in Paths : index[p] # Unmerged BY DEF CanRecord, Conflicts
<1>3. ASSUME NEW p \in Paths PROVE Kept(p)'
  <2>1. Kept(p) /\ index[p] # Unmerged BY <1>2 DEF ContentKept
  <2>2. QED BY <1>1, <2>1 DEF Kept, Written, written, InMerge
<1>4. QED BY <1>3 DEF ContentKept

LEMMA PushKept ==
  ASSUME ContentKept, NEW w \in Workers, Push(w)
  PROVE  ContentKept'
<1>1. ASSUME NEW p \in Paths PROVE Kept(p)'
  <2>1. Kept(p) BY DEF ContentKept
  <2>2. QED BY <2>1 DEF Kept, Written, written, InMerge, Push
<1>2. QED BY <1>1 DEF ContentKept

LEMMA AbortKept ==
  ASSUME TypeOK, ContentKept, NEW w \in Workers, AbortMerge(w)
  PROVE  ContentKept'
<1>1. UNCHANGED <<head, base, written>> BY DEF AbortMerge
<1>2. CASE UNCHANGED <<index, work, mergeHead>>
  BY <1>1, <1>2 DEF ContentKept, Kept, Written, written, InMerge
<1>3. CASE ~UNCHANGED <<index, work, mergeHead>>
  <2>1. /\ index' = head.files /\ mergeHead' = NoCommit
        /\ work' = [p \in Paths |-> IF index[p] # head.files[p] THEN head.files[p] ELSE work[p]]
    BY <1>3 DEF AbortMerge
  <2>2. ASSUME NEW p \in Paths PROVE Kept(p)'
    <3>1. Kept(p) BY DEF ContentKept
    <3>2. index'[p] = head.files[p] /\ head.files[p] # Unmerged BY <2>1, ContentsMerged
    <3>3. work'[p] = IF index[p] # head.files[p] THEN head.files[p] ELSE work[p] BY <2>1
    <3>4. QED BY <1>1, <2>1, <3>1, <3>2, <3>3 DEF Kept, Written, written, InMerge
  <2>3. QED BY <2>2 DEF ContentKept
<1>4. QED BY <1>2, <1>3

\* A merge takes a version away only where it is the common one.
LEMMA PullKept ==
  ASSUME TypeOK, CommitsTold, BaseTrue, ContentKept, NEW w \in Workers, Pull(w)
  PROVE  ContentKept'
<1>1. UNCHANGED <<tracking, written>> BY DEF Pull
<1>2. CASE UNCHANGED treeVars
  BY <1>1, <1>2
  DEF ContentKept, Kept, Written, written, InMerge, treeVars
<1>3. CASE ~UNCHANGED treeVars
  <2>1. /\ CanMerge /\ ~UpToDate
        /\ index' = [p \in Paths |-> IF p \in Changed THEN Merged(p) ELSE index[p]]
        /\ work' = [p \in Paths |-> IF p \in Changed THEN OnDisk(p) ELSE work[p]]
    BY <1>3 DEF Pull
  <2>2. ~InMerge BY <2>1 DEF CanMerge
  <2>3. ASSUME NEW p \in Paths
        PROVE  /\ Kept(p) /\ head.files[p] # Unmerged /\ tracking.files[p] # Unmerged
               /\ index[p] # Unmerged
               /\ index'[p] = IF Merged(p) # head.files[p] THEN Merged(p) ELSE index[p]
               /\ work'[p] = IF Merged(p) # head.files[p] THEN OnDisk(p) ELSE work[p]
    BY <2>1, <2>2, ContentsMerged DEF ContentKept, Kept, Changed
  <2>4. CASE FastForward
    <3>1. base = head.files BY <2>4 DEF FastForward, BaseTrue, CommitsTold
    <3>2. head' = tracking /\ base' = tracking.files /\ mergeHead' = mergeHead
      BY <1>3, <2>4 DEF Pull
    <3>3. ASSUME NEW p \in Paths PROVE Kept(p)'
      <4>1. Merged(p) = tracking.files[p] BY <3>1 DEF Merged
      <4>2. OnDisk(p) = tracking.files[p] BY <2>3, <4>1 DEF OnDisk
      <4>3. QED BY <1>1, <2>2, <2>3, <3>2, <4>1, <4>2 DEF Kept, Written, written, InMerge
    <3>4. QED BY <3>3 DEF ContentKept
  <2>5. CASE ~FastForward
    <3>1. \A p \in Paths : index[p] = head.files[p] BY <2>1, <2>5 DEF CanMerge
    <3>2. ASSUME NEW p \in Paths
          PROVE  /\ tracking.files[p] \subseteq work'[p] \cup Written(p)
                 /\ index'[p] = Merged(p)
                 /\ Merged(p) # Unmerged => /\ tracking.files[p] \subseteq Merged(p) \cup Written(p)
                                            /\ Merged(p) \subseteq work'[p] \cup Written(p)
      <4>1. index'[p] = Merged(p) BY <2>3, <3>1
      <4>2. base[p] \subseteq head.files[p] \cup Written(p)
            /\ head.files[p] \subseteq work[p] \cup Written(p)
        BY <2>3, <3>1 DEF Kept, Written, written
      <4>3. Merged(p) # Unmerged => tracking.files[p] \subseteq Merged(p) \cup Written(p)
        BY <4>2 DEF Merged
      <4>4. Merged(p) # Unmerged => Merged(p) \subseteq work'[p] \cup Written(p)
        BY <2>3, <4>2 DEF OnDisk
      <4>5. Merged(p) = Unmerged => tracking.files[p] \subseteq work'[p]
        BY <2>3 DEF OnDisk
      <4>6. QED BY <4>1, <4>3, <4>4, <4>5
    <3>3. CASE \A p \in Paths : Merged(p) # Unmerged
      <4>1. /\ head'.files = [p \in Paths |-> Merged(p)] /\ base' = tracking.files
            /\ mergeHead' = mergeHead
        BY <1>3, <2>5, <3>3 DEF Pull, NewCommit
      <4>2. ASSUME NEW p \in Paths PROVE Kept(p)'
        <5>1. head'.files[p] = Merged(p) /\ base'[p] = tracking.files[p] BY <4>1
        <5>2. /\ index'[p] = Merged(p) /\ Merged(p) # Unmerged
              /\ tracking.files[p] \subseteq Merged(p) \cup Written(p)
              /\ Merged(p) \subseteq work'[p] \cup Written(p)
          BY <3>2, <3>3
        <5>3. ~InMerge' BY <2>2, <4>1 DEF InMerge
        <5>4. QED BY <1>1, <5>1, <5>2, <5>3 DEF Kept, Written, written
      <4>3. QED BY <4>2 DEF ContentKept
    <3>4. CASE ~\A p \in Paths : Merged(p) # Unmerged
      <4>1. mergeHead' = tracking /\ UNCHANGED <<head, base>>
        BY <1>3, <2>5, <3>4 DEF Pull
      <4>2. tracking # NoCommit BY <2>1 DEF UpToDate, NoCommit
      <4>3. ASSUME NEW p \in Paths PROVE Kept(p)'
        <5>1. /\ index'[p] = Merged(p)
              /\ tracking.files[p] \subseteq work'[p] \cup Written(p)
              /\ Merged(p) # Unmerged => /\ tracking.files[p] \subseteq Merged(p) \cup Written(p)
                                         /\ Merged(p) \subseteq work'[p] \cup Written(p)
          BY <3>2
        <5>2. base[p] \subseteq head.files[p] \cup Written(p) BY <2>3 DEF Kept, Written, written
        <5>3. InMerge' BY <4>1, <4>2 DEF InMerge
        <5>4. QED BY <1>1, <4>1, <5>1, <5>2, <5>3 DEF Kept, Written, written
      <4>4. QED BY <4>3 DEF ContentKept
    <3>5. QED BY <3>3, <3>4
  <2>6. QED BY <2>4, <2>5
<1>4. QED BY <1>2, <1>3

\* Every step keeps every path's version.
LEMMA ContentKeptStep ==
  ASSUME TypeOK, CommitsTold, BaseTrue, ContentKept, [Next]_vars
  PROVE  ContentKept'
<1>1. CASE UNCHANGED <<treeVars, written>>
  BY <1>1 DEF ContentKept, Kept, Written, written, InMerge, treeVars
<1>2. CASE Person
  <2>1. PICK p \in Paths :
          \/ openCollabDocument(p) \/ handleClientEvent(p) \/ Contribute(p)
          \/ \E w \in Workers : writeFile(w, p) \/ deleteEntry(w, p)
    BY <1>2 DEF Person
  <2>2. CASE openCollabDocument(p)
    <3>1. CASE UNCHANGED <<work, written>>
      BY <1>1, <2>2, <3>1 DEF openCollabDocument, treeVars
    <3>2. CASE ~UNCHANGED <<work, written>>
      BY <2>2, <3>2, ReplacedKept DEF openCollabDocument
    <3>3. QED BY <3>1, <3>2
  <2>3. CASE handleClientEvent(p) BY <2>3, ReplacedKept DEF handleClientEvent
  <2>4. CASE \E w \in Workers : writeFile(w, p) \/ deleteEntry(w, p)
    BY <2>4, ReplacedKept DEF writeFile, deleteEntry, OnPurpose
  <2>5. CASE Contribute(p) BY <1>1, <2>5 DEF Contribute
  <2>6. QED BY <2>1, <2>2, <2>3, <2>4, <2>5
<1>3. ASSUME NEW w \in Workers, Command(w) PROVE ContentKept'
  <2>1. At(w, "take") \/ At(w, "stage") \/ At(w, "write") => handler[w].path \in Paths
    BY StepShape DEF At
  <2>2. CASE CommitIndex(w) \/ FinishMerge(w)
    BY <1>1, <2>2, RecordKept DEF CommitIndex, FinishMerge, treeVars
  <2>3. CASE Push(w) \/ Pull(w) \/ AbortMerge(w) BY <2>3, PushKept, PullKept, AbortKept
  <2>4. CASE AddAll(w)
    <3>1. index' = [p \in Paths |-> IF p \in Paths THEN work[p] ELSE index[p]]
      BY <2>4 DEF AddAll, TypeOK
    <3>2. QED BY <2>4, <3>1, StagedKept DEF AddAll
  <2>5. CASE Stage(w)
    <3>1. index' = [p \in Paths |-> IF p \in {handler[w].path} THEN work[p] ELSE index[p]]
      BY <2>5 DEF Stage, TypeOK
    <3>2. {handler[w].path} \in SUBSET Paths BY <2>1, <2>5 DEF Stage
    <3>3. QED BY <2>5, <3>1, <3>2, StagedKept DEF Stage
  <2>6. CASE DropFile(w) BY <1>1, <2>1, <2>6, DroppedKept DEF DropFile, treeVars
  <2>7. CASE TakeSide(w) BY <1>1, <2>1, <2>7, ReplacedKept DEF TakeSide, OnPurpose, treeVars
  <2>8. CASE MarkResolved(w)
    BY <1>1, <2>1, <2>8, ReplacedKept
    DEF MarkResolved, OnPurpose, treeVars
  <2>9. QED
    BY <1>1, <1>3, <2>2, <2>3, <2>4, <2>5, <2>6, <2>7, <2>8
    DEF Command, Commit, Fetch, Reset, PushTo, ProjectOnBranch, CloneLocal, createBranchProject
<1>4. QED BY <1>1, <1>2, <1>3 DEF Next, Request, Restart, vars

--------------------------------------------------------------------------------

\* The first commit, here and at the remote if it has one.
LEMMA InitGitInv == GitInit => GitInv
<1> SUFFICES ASSUME GitInit PROVE GitInv OBVIOUS
<1>1. TypeOK
  <2>1. First \in Commits BY GitAssumption DEF GitInit, First, Commits, Contents
  <2>2. NoCommit \in Commits BY DEF GitInit, NoCommit, Commits, Contents, Gone
  <2>3. First.files \in [Paths -> Contents] BY GitAssumption DEF First, Contents
  <2>4. QED
    BY <2>1, <2>2, <2>3, PlacesTyped, GitAssumption DEF GitInit, TypeOK, Contents
<1>2. First.made = {0} /\ NoCommit.made = {} BY DEF First, NoCommit
<1>3. CommitsTold
  <2>1. Held \subseteq {First, NoCommit} BY DEF GitInit, Held
  <2>2. Told(Held) BY <1>2, <2>1 DEF Told
  <2>3. QED BY <1>2, <2>2 DEF GitInit, CommitsTold, InMerge
<1>4. BaseTrue BY DEF GitInit, BaseTrue
<1>5. ContentKept
  <2>1. ASSUME NEW p \in Paths PROVE Kept(p)
    <3>1. First.files[p] = {0} /\ {0} # Unmerged
      BY GitAssumption DEF First, Unmerged
    <3>2. QED BY <3>1 DEF GitInit, Kept, InMerge
  <2>2. QED BY <2>1 DEF ContentKept
<1>6. FolderMade BY DEF GitInit, FolderMade, At, Idle
<1>7. QED BY <1>1, <1>3, <1>4, <1>5, <1>6 DEF GitInv

\* The inductive invariant: what the repository holds is told apart, its common base is
\* what it should be, no version is gone unless something was written over it here, and
\* a recorded branch has its folder.
THEOREM GitInvariant == Spec => []GitInv
<1>1. GitInv /\ [Next]_vars => GitInv'
  BY GitTypeStep, CommitsToldStep, BaseTrueStep, ContentKeptStep, FolderMadeStep DEF GitInv
<1>2. QED BY InitGitInv, <1>1, PTL DEF Spec

\* Type correctness, for any paths, handlers, edits and requests.
THEOREM GitTypeCorrect == Spec => []TypeOK
<1>1. GitInv => TypeOK BY DEF GitInv
<1>2. QED BY GitInvariant, <1>1, PTL

\* A recorded branch has its folder (createBranchProject).
THEOREM BranchHasFolderHolds == Spec => []BranchHasFolder
<1>1. GitInv => BranchHasFolder BY DEF GitInv, FolderMade, BranchHasFolder
<1>2. QED BY GitInvariant, <1>1, PTL

\* A push takes away only what something was written over here (gitPush, gitPull, the
\* conflict handlers, the editor).
THEOREM OnlyWritesReplaceHolds == Spec => OnlyWritesReplace
<1>1. ASSUME GitInv, [Next]_vars, remote' = head, NEW p \in Paths
      PROVE  remote.files[p] \subseteq remote'.files[p] \cup Written(p)
  <2>1. CASE remote' = remote BY <2>1
  <2>2. CASE \E q \in Paths : Contribute(q)
    <3>1. commits + 1 \in remote'.made BY <2>2 DEF Contribute, NewCommit
    <3>2. commits + 1 \notin head.made BY <1>1 DEF GitInv, TypeOK, Commits
    <3>3. QED BY <1>1, <3>1, <3>2
  <2>3. CASE \E w \in Workers : Push(w)
    <3>1. CASE remote.made \subseteq head.made /\ remote # NoCommit
      BY <1>1, <3>1 DEF GitInv, BaseTrue, ContentKept, Kept
    <3>2. CASE remote = NoCommit BY <3>2 DEF NoCommit, Gone
    <3>3. QED BY <2>1, <2>3, <3>1, <3>2 DEF Push
  <2>4. QED
    BY <1>1, <2>1, <2>2, <2>3
    DEF Next, Person, openCollabDocument, handleClientEvent, writeFile, deleteEntry,
        Request, Restart, Command, Commit, AddAll,
        CommitIndex, Fetch, Pull, TakeSide, DropFile, Stage, MarkResolved, Reset, FinishMerge,
        AbortMerge, PushTo, ProjectOnBranch, CloneLocal, createBranchProject, vars
<1>2. GitInv /\ [Next]_vars =>
        [remote' = head =>
           \A p \in Paths :
             remote.files[p] \subseteq remote'.files[p] \cup replaced[p] \cup undone[p]]_vars
  BY <1>1 DEF Written
<1>3. QED BY GitInvariant, <1>2, PTL DEF Spec, OnlyWritesReplace
================================================================================
