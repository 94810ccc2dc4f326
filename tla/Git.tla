----------------------------------- MODULE Git ---------------------------------
(***************************************************************************)
(* A project's repository: its working tree, index and history, the branch *)
(* at the remote, the live documents of the editor, and the handlers that  *)
(* run git commands on them (src/internal/gitrepo/gitrepo.go,              *)
(* src/internal/api/github.go, branches.go, conflicts.go, collab.go,       *)
(* server.go, src/internal/collab/collab.go).                              *)
(*                                                                         *)
(* A handler is a sequence of git commands and file writes, and no lock of *)
(* the program keeps two handlers apart.  Every git command is one step:   *)
(* git's own lock keeps two commands apart, but not a command and a write  *)
(* of the daemon, which is modelled before or after a command and never    *)
(* while one runs.  Writes to the disk succeed.                            *)
(*                                                                         *)
(* Abstractions.  A file's content is the set of edits it shows: the one   *)
(* it was given by; none when there is no file; several, with conflict     *)
(* markers between them.  A commit is the set of commits it is made of,    *)
(* and its files.  Other people's commits are made on top of what is at    *)
(* the remote, so the last commit both sides have is the one last pushed   *)
(* or merged: `base' holds its files.  Of a branch's own folder only its   *)
(* existence is kept.  A live document is its text: an edit in the editor  *)
(* makes the text, and the file, that edit.                                *)
(***************************************************************************)
EXTENDS Naturals, FiniteSets

CONSTANTS Paths, Workers,
          MaxEdits,      \* bound: edits, here or elsewhere
          MaxRequests    \* bound: requests to handlers, and restarts

ASSUME GitAssumption == MaxEdits \in Nat /\ MaxRequests \in Nat

Gone == {}                \* no such file
Marked(content) == Cardinality(content) > 1     \* conflict markers
Unmerged == {MaxEdits + 1}   \* an index entry with two sides
NoDoc == {MaxEdits + 2}      \* no live document

VARIABLES head,      \* the checked out branch's last commit
          index, work,   \* what is staged, and what is on disk
          mergeHead, \* the commit being merged, or NoCommit
          tracking,  \* origin/<branch>: the remote branch as last fetched
          remote,    \* the branch at the remote
          base,
          doc,       \* doc[p]: the text of the live document of path p
          saved,     \* the live documents that are in the database, having been edited
          folder, branchRow,  \* the branch's own folder, and the projects recorded for it
          handler,   \* handler[w]: what request handler w does next
          edits, commits, requests,   \* counters
          replaced,  \* history: replaced[p], what a write, a deletion or a choice made
                     \* here for path p put something else in the place of
          undone     \* history: undone[p], what an older live text was written over

treeVars == <<head, index, work, mergeHead, base>>
branchVars == <<folder, branchRow>>
docVars == <<doc, saved>>
written == <<replaced, undone>>
vars == <<treeVars, tracking, remote, docVars, branchVars, handler, edits, commits, requests, written>>

NoCommit == [made |-> {}, files |-> [p \in Paths |-> Gone]]
First == [made |-> {0}, files |-> [p \in Paths |-> {0}]]
Idle == [at |-> "idle"]

\* The project is linked to a repository, which has its first commit or nothing.
GitInit ==
  /\ head = First /\ index = First.files /\ work = First.files
  /\ mergeHead = NoCommit /\ base = First.files
  /\ remote \in {First, NoCommit} /\ tracking = remote
  /\ doc = [p \in Paths |-> NoDoc] /\ saved = {}
  /\ folder = "none" /\ branchRow = {}
  /\ handler = [w \in Workers |-> Idle]
  /\ edits = 0 /\ commits = 0 /\ requests = 0
  /\ replaced = [p \in Paths |-> {}] /\ undone = replaced

--------------------------------------------------------------------------------
(* Git's view of the tree *)

Status == {p \in Paths : index[p] # head.files[p] \/ work[p] # index[p]}
Conflicts == {p \in Paths : index[p] = Unmerged}
InMerge == mergeHead # NoCommit

\* What path p holds is replaced: as `seen' it has been seen, the rest has not.
Replaces(p, seen) ==
  /\ replaced' = [replaced EXCEPT ![p] = @ \cup (work[p] \cap seen)]
  /\ undone' = [undone EXCEPT ![p] = @ \cup (work[p] \ seen)]

\* Replaced on purpose.  It need not be what the person last looked at: an abort and
\* another pull may have made a new merge since.
OnPurpose(p) == Replaces(p, work[p])

NewCommit(made, files) == [made |-> made \cup {commits + 1}, files |-> files]

--------------------------------------------------------------------------------
(* Handlers, and a commit by a collaborator elsewhere.                          *)

At(w, step) == handler[w].at = step
Goes(w, step) == handler' = [handler EXCEPT ![w] = step]
Ends(w) == Goes(w, Idle)
Begins(w, step) == At(w, "idle") /\ requests < MaxRequests /\ requests' = requests + 1 /\ Goes(w, step)

Untouched == <<docVars, edits, requests>>

Edited == edits < MaxEdits /\ edits' = edits + 1

Contribute(p) ==
  /\ Edited /\ remote # NoCommit
  /\ remote' = NewCommit(remote.made, [remote.files EXCEPT ![p] = {edits'}])
  /\ commits' = commits + 1
  /\ UNCHANGED <<treeVars, tracking, docVars, branchVars, handler, requests, written>>

(* The editor and the file handlers *)

\* A document is opened: as it is on disk if there is none yet, and otherwise the
\* disk is given the text the document has.
openCollabDocument(p) ==
  /\ work[p] # Gone
  /\ \/ doc[p] = NoDoc /\ doc' = [doc EXCEPT ![p] = work[p]] /\ UNCHANGED <<work, written>>
     \/ /\ doc[p] \notin {NoDoc, work[p]} /\ work' = [work EXCEPT ![p] = doc[p]]
        /\ Replaces(p, doc[p]) /\ UNCHANGED doc
  /\ UNCHANGED <<head, index, mergeHead, base, tracking, remote, saved, branchVars, handler,
                 edits, commits, requests>>

\* An edit in the editor is made to the document's text, and that is written to disk.
handleClientEvent(p) ==
  /\ work[p] # Gone /\ Edited
  /\ doc' = [doc EXCEPT ![p] = {edits'}] /\ saved' = saved \cup {p}
  /\ work' = [work EXCEPT ![p] = {edits'}]
  /\ Replaces(p, IF doc[p] = NoDoc THEN work[p] ELSE doc[p])
  /\ UNCHANGED <<head, index, mergeHead, base, tracking, remote, branchVars, handler,
                 commits, requests>>

\* A file is written whole or deleted ...
writeFile(w, p) ==
  /\ At(w, "idle") /\ Edited
  /\ work' = [work EXCEPT ![p] = {edits'}] /\ OnPurpose(p)
  /\ Goes(w, [at |-> "reset", path |-> p])
  /\ UNCHANGED <<head, index, mergeHead, base, tracking, remote, docVars, branchVars,
                 commits, requests>>

deleteEntry(w, p) ==
  /\ At(w, "idle") /\ Edited
  /\ work[p] # Gone /\ work' = [work EXCEPT ![p] = Gone] /\ OnPurpose(p)
  /\ Goes(w, [at |-> "reset", path |-> p])
  /\ UNCHANGED <<head, index, mergeHead, base, tracking, remote, docVars, branchVars,
                 commits, requests>>

\* ... and its document forgotten (Reset, ResetTree).
Reset(w) ==
  /\ At(w, "reset")
  /\ doc' = [doc EXCEPT ![handler[w].path] = NoDoc] /\ saved' = saved \ {handler[w].path}
  /\ Ends(w)
  /\ UNCHANGED <<treeVars, tracking, remote, branchVars, edits, commits, requests, written>>

(* Commit, push and pull *)

\* gitCommit, gitPush and gitPull all commit what is outstanding first.
gitCommit(w) == Begins(w, [at |-> "status", then |-> "idle"])
gitPush(w) == Begins(w, [at |-> "status", then |-> "push"])
gitPull(w) == Begins(w, [at |-> "status", then |-> "fetch"])

\* Commit: nothing has changed, or everything is staged ...
Commit(w) ==
  /\ At(w, "status")
  /\ Goes(w, IF Status = {} THEN [at |-> handler[w].then] ELSE [handler[w] EXCEPT !.at = "add"])
  /\ UNCHANGED <<treeVars, tracking, remote, branchVars, commits, written, Untouched>>

AddAll(w) ==
  /\ At(w, "add")
  /\ index' = work
  /\ Goes(w, [handler[w] EXCEPT !.at = "commit"])
  /\ UNCHANGED <<head, work, mergeHead, base, tracking, remote, branchVars, commits, written, Untouched>>

\* git commit records the index, and concludes a merge; it fails when an entry is
\* unmerged or there is nothing to record.
CanRecord == Conflicts = {} /\ (InMerge \/ index # head.files)
Record ==
  /\ head' = NewCommit(head.made \cup mergeHead.made, index)
  /\ commits' = commits + 1
  /\ base' = IF InMerge THEN mergeHead.files ELSE base
  /\ mergeHead' = NoCommit

\* ... and recorded.
CommitIndex(w) ==
  /\ At(w, "commit")
  /\ IF CanRecord
     THEN Record /\ Goes(w, [at |-> handler[w].then])
     ELSE UNCHANGED <<head, mergeHead, base, commits>> /\ Ends(w)
  /\ UNCHANGED <<index, work, tracking, remote, branchVars, written, Untouched>>

\* Plausible slip: the push insists.
PushForced(w) ==
  /\ At(w, "push")
  /\ \/ /\ remote' = head /\ base' = head.files
        /\ tracking' \in {head, tracking}
     \/ UNCHANGED <<remote, tracking, base>>
  /\ Ends(w)
  /\ UNCHANGED <<head, index, work, mergeHead, branchVars, commits, written, Untouched>>

\* Push: the remote takes only what contains its branch.  The answer can be lost.
Push(w) ==
  /\ At(w, "push")
  /\ \/ /\ remote.made \subseteq head.made
        /\ remote' = head /\ base' = head.files
        /\ tracking' \in {head, tracking}
     \/ UNCHANGED <<remote, tracking, base>>
  /\ Ends(w)
  /\ UNCHANGED <<head, index, work, mergeHead, branchVars, commits, written, Untouched>>

\* Pull: fetch, then merge the remote branch if there is one.
Fetch(w) ==
  /\ At(w, "fetch")
  /\ \/ tracking' = remote
        /\ IF remote = NoCommit THEN Ends(w) ELSE Goes(w, [at |-> "merge"])
     \/ UNCHANGED tracking /\ Ends(w)
  /\ UNCHANGED <<treeVars, remote, branchVars, commits, written, Untouched>>

UpToDate == tracking.made \subseteq head.made
FastForward == ~UpToDate /\ head.made \subseteq tracking.made

\* Plausible slip: merge -X ours, so that a pull never stops at a conflict.
MineWins(p) ==
  IF head.files[p] = base[p] THEN tracking.files[p] ELSE head.files[p]

\* The three-way merge of one path.
Merged(p) ==
  LET mine == head.files[p]
      theirs == tracking.files[p]
  IN  CASE mine = base[p]                      -> theirs
        [] theirs = base[p] \/ theirs = mine   -> mine
        [] OTHER                               -> Unmerged

\* What git leaves on disk: both versions with markers, or the one that is left.
OnDisk(p) == IF Merged(p) = Unmerged THEN head.files[p] \cup tracking.files[p] ELSE Merged(p)

Changed == {p \in Paths : Merged(p) # head.files[p]}

\* Git refuses to touch a path with changes of its own, or to merge on a
\* staged change.
CanMerge ==
  /\ ~InMerge /\ Conflicts = {}
  /\ \A p \in Changed : work[p] = head.files[p] /\ index[p] = head.files[p]
  /\ FastForward \/ index = head.files

Pull(w) ==
  /\ At(w, "merge")
  /\ IF UpToDate \/ ~CanMerge
     THEN UNCHANGED <<treeVars, commits>>
     ELSE /\ index' = [p \in Paths |-> IF p \in Changed THEN Merged(p) ELSE index[p]]
          /\ work' = [p \in Paths |-> IF p \in Changed THEN OnDisk(p) ELSE work[p]]
          /\ IF FastForward
             THEN /\ head' = tracking /\ base' = tracking.files
                  /\ UNCHANGED <<mergeHead, commits>>
             ELSE IF \A p \in Paths : Merged(p) # Unmerged
             THEN /\ head' = NewCommit(head.made \cup tracking.made, [p \in Paths |-> Merged(p)])
                  /\ commits' = commits + 1 /\ base' = tracking.files
                  /\ UNCHANGED mergeHead
             ELSE /\ mergeHead' = tracking
                  /\ UNCHANGED <<head, base, commits>>
  /\ Ends(w)
  /\ UNCHANGED <<tracking, remote, branchVars, written, Untouched>>

(* Resolving a merge *)

resolveConflict(w, p, choice) ==
  InMerge /\ Begins(w, [at |-> "take", path |-> p, choice |-> choice])

\* git checkout --ours/--theirs: that side of an unmerged path, or else what is
\* staged; there must be such a file.
TakeSide(w) ==
  LET p == handler[w].path
      side == CASE p \notin Conflicts             -> index[p]
                [] handler[w].choice = "mine"   -> head.files[p]
                [] handler[w].choice = "theirs" -> mergeHead.files[p]
  IN  /\ At(w, "take") /\ handler[w].choice # "drop"
      /\ IF side = Gone THEN UNCHANGED <<work, written>> /\ Ends(w)
         ELSE /\ work' = [work EXCEPT ![p] = side] /\ OnPurpose(p)
              /\ Goes(w, [at |-> "stage", path |-> p])
      /\ UNCHANGED <<head, index, mergeHead, base, tracking, remote, branchVars, commits, Untouched>>

\* git rm -f
DropFile(w) ==
  LET p == handler[w].path
  IN  /\ At(w, "take") /\ handler[w].choice = "drop"
      /\ IF index[p] = Gone THEN UNCHANGED <<index, work, written>> /\ Ends(w)
         ELSE /\ index' = [index EXCEPT ![p] = Gone] /\ work' = [work EXCEPT ![p] = Gone]
              /\ OnPurpose(p) /\ Goes(w, [at |-> "reset", path |-> p])
      /\ UNCHANGED <<head, mergeHead, base, tracking, remote, branchVars, commits, Untouched>>

\* git add; then the document is forgotten (afterResolve).
Stage(w) ==
  LET p == handler[w].path
  IN  /\ At(w, "stage")
      /\ index' = [index EXCEPT ![p] = work[p]]
      /\ Goes(w, [at |-> "reset", path |-> p])
      /\ UNCHANGED <<head, work, mergeHead, base, tracking, remote, branchVars, commits, written, Untouched>>

\* markResolved: the file as somebody edited it is written, and refused if it
\* still has markers.
markResolved(w, p) == InMerge /\ Begins(w, [at |-> "write", path |-> p])

MarkResolved(w) ==
  LET p == handler[w].path
  IN  /\ At(w, "write")
      /\ \/ /\ Edited /\ work' = [work EXCEPT ![p] = {edits'}] /\ OnPurpose(p)
            /\ Goes(w, [at |-> "stage", path |-> p])
         \/ Marked(work[p]) /\ Ends(w) /\ UNCHANGED <<work, edits, written>>
      /\ UNCHANGED <<head, index, mergeHead, base, tracking, remote, docVars, branchVars,
                     commits, requests>>

finishMerge(w) == InMerge /\ Conflicts = {} /\ Begins(w, [at |-> "conclude"])

FinishMerge(w) ==
  /\ At(w, "conclude")
  /\ IF InMerge /\ CanRecord THEN Record ELSE UNCHANGED <<head, mergeHead, base, commits>>
  /\ Ends(w)
  /\ UNCHANGED <<index, work, tracking, remote, branchVars, written, Untouched>>

gitAbortMerge(w) == InMerge /\ Begins(w, [at |-> "abort"])

\* git merge --abort: what the merge changed goes back to what it was, what only
\* the disk has stays; it refuses when a path has both.
AbortMerge(w) ==
  LET touched == {p \in Paths : index[p] # head.files[p]}
      refused == \E p \in touched \ Conflicts : work[p] # index[p]
  IN  /\ At(w, "abort")
      /\ IF ~InMerge \/ refused THEN UNCHANGED <<index, work, mergeHead>>
         ELSE /\ index' = head.files /\ mergeHead' = NoCommit
              /\ work' = [p \in Paths |-> IF p \in touched THEN head.files[p] ELSE work[p]]
      /\ Ends(w)
      /\ UNCHANGED <<head, base, tracking, remote, branchVars, commits, written, Untouched>>

(* A branch and its own folder *)

\* pushToBranch: the push, and then the branch's project is looked for ...
pushToBranch(w) == Begins(w, [at |-> "pushto"])

PushTo(w) ==
  /\ At(w, "pushto")
  /\ Goes(w, [at |-> "lookup"]) \/ Ends(w)
  /\ UNCHANGED <<treeVars, tracking, remote, branchVars, commits, written, Untouched>>

\* ... and, when there is neither a project nor a folder, made ...
ProjectOnBranch(w) ==
  /\ At(w, "lookup")
  /\ IF branchRow = {} /\ folder = "none" THEN Goes(w, [at |-> "clone"]) ELSE Ends(w)
  /\ UNCHANGED <<treeVars, tracking, remote, branchVars, commits, written, Untouched>>

\* Plausible slip: what a failed clone leaves is cleared away.
CloneOrClear(w) ==
  /\ At(w, "clone")
  /\ IF folder = "none"
     THEN folder' = "cloned" /\ Goes(w, [at |-> "record"])
     ELSE folder' = "none" /\ Ends(w)
  /\ UNCHANGED <<treeVars, tracking, remote, branchRow, commits, written, Untouched>>

\* ... by a clone of this folder, which git refuses onto a folder with files ...
CloneLocal(w) ==
  /\ At(w, "clone")
  /\ IF folder = "none"
     THEN folder' = "cloned" /\ Goes(w, [at |-> "record"])
     ELSE UNCHANGED folder /\ Ends(w)
  /\ UNCHANGED <<treeVars, tracking, remote, branchRow, commits, written, Untouched>>

\* ... and a row of its name, or the folder goes again.
createBranchProject(w) ==
  /\ At(w, "record")
  /\ IF branchRow = {} THEN branchRow' = {w} /\ UNCHANGED folder
     ELSE folder' = "none" /\ UNCHANGED branchRow
  /\ Ends(w)
  /\ UNCHANGED <<treeVars, tracking, remote, commits, written, Untouched>>

--------------------------------------------------------------------------------

Request(w) ==
  /\ \/ gitCommit(w) \/ gitPush(w) \/ gitPull(w) \/ finishMerge(w) \/ gitAbortMerge(w)
     \/ pushToBranch(w)
     \/ \E p \in Paths : markResolved(w, p)
                         \/ \E c \in {"mine", "theirs", "drop"} : resolveConflict(w, p, c)
  /\ UNCHANGED <<treeVars, tracking, remote, docVars, branchVars, edits, commits, written>>

\* The daemon dies between two commands; what git has written stays, and the documents
\* that are in the database.
Restart ==
  /\ requests < MaxRequests /\ requests' = requests + 1
  /\ handler' = [w \in Workers |-> Idle]
  /\ doc' = [p \in Paths |-> IF p \in saved THEN doc[p] ELSE NoDoc]
  /\ UNCHANGED <<treeVars, tracking, remote, saved, branchVars, edits, commits, written>>

Command(w) ==
  \/ Commit(w) \/ AddAll(w) \/ CommitIndex(w) \/ Push(w) \/ Fetch(w) \/ Pull(w)
  \/ TakeSide(w) \/ DropFile(w) \/ Stage(w) \/ MarkResolved(w) \/ Reset(w)
  \/ FinishMerge(w) \/ AbortMerge(w)
  \/ PushTo(w) \/ ProjectOnBranch(w) \/ CloneLocal(w) \/ createBranchProject(w)

Person ==
  \E p \in Paths :
    \/ openCollabDocument(p) \/ handleClientEvent(p) \/ Contribute(p)
    \/ \E w \in Workers : writeFile(w, p) \/ deleteEntry(w, p)

Next == Person \/ Restart \/ \E w \in Workers : Request(w) \/ Command(w)

Spec == GitInit /\ [][Next]_vars

--------------------------------------------------------------------------------
(* Properties *)

Contents == SUBSET (0 .. MaxEdits)
Commits == [made : SUBSET (0 .. commits), files : [Paths -> Contents]]

Steps ==
  [at : {"idle", "push", "fetch", "merge", "conclude", "abort", "pushto", "lookup", "clone", "record"}]
  \cup [at : {"status", "add", "commit"}, then : {"idle", "push", "fetch"}]
  \cup [at : {"take"}, path : Paths, choice : {"mine", "theirs", "drop"}]
  \cup [at : {"stage", "write", "reset"}, path : Paths]

TypeOK ==
  /\ {head, mergeHead, tracking, remote} \subseteq Commits
  /\ index \in [Paths -> Contents \cup {Unmerged}] /\ work \in [Paths -> Contents]
  /\ base \in [Paths -> Contents] /\ {replaced, undone} \subseteq [Paths -> Contents]
  /\ doc \in [Paths -> Contents \cup {NoDoc}] /\ saved \subseteq Paths
  /\ folder \in {"none", "cloned"} /\ branchRow \subseteq Workers
  /\ handler \in [Workers -> Steps]
  /\ edits \in 0 .. MaxEdits /\ commits \in Nat /\ requests \in 0 .. MaxRequests

\* A push takes a version of a file away from the remote only if, on this machine, a
\* write, a deletion, a choice of a side or the editor put something else in its place:
\* no crossing of commits, merges, resolutions and aborts, no restart and no lost
\* answer does.
OnlyWritesReplace ==
  [][remote' = head =>
       \A p \in Paths :
         remote.files[p] \subseteq remote'.files[p] \cup replaced[p] \cup undone[p]]_vars

\* The project recorded for a branch has its folder, however many pushes to the
\* branch are made at once: the one that comes too late takes nothing away.
BranchHasFolder == branchRow # {} => folder = "cloned"

--------------------------------------------------------------------------------
(* What the repository says and the code does not do *)

\* gitrepo.go on conflict markers: "Committing those produces a file that looks
\* merged, builds, and is wrong -- the exact failure this whole screen exists to
\* prevent."
MarkersNeverCommitted == \A p \in Paths : ~Marked(head.files[p])

\* conflicts.go: "a browser holding the old text would otherwise save it back over the
\* resolution", for which Reset forgets the document of a file "replaced outside the
\* editor".  A pull replaces files too and forgets no document: the next to open the
\* file, or to edit it, writes the text from before the pull over what the pull
\* brought, and the next push takes a version away that nobody here has seen.
NothingOverwrittenUnseen ==
  [][remote' = head =>
       \A p \in Paths : remote.files[p] \subseteq remote'.files[p] \cup replaced[p]]_vars
================================================================================
