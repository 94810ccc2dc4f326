-------------------------------- MODULE Updater --------------------------------
(***************************************************************************)
(* The updater of one node (src/internal/updater, src/internal/api/        *)
(* updates.go): checks for a release, the download into target.new, the    *)
(* swap of target, target.new and target.previous, and the restart, by the *)
(* periodic loop and by requests of the interface, which nothing keeps     *)
(* from working at the same time on the same three files.                  *)
(*                                                                         *)
(* Abstractions.  Build n is the n-th one published, whatever its version, *)
(* 0 is the one installed first, and none is a development build.  A file  *)
(* has the bytes of one build or it does not run, and what a checksum says *)
(* of the stream is part of the download's success.  A file that is open   *)
(* for writing cannot be executed, and a renamed file keeps its writers.   *)
(* Channels, tokens and the settings are left out: the loop is enabled and *)
(* automatic.                                                              *)
(***************************************************************************)
EXTENDS Naturals, Sequences

CONSTANTS Loop,        \* the loop started by Run
          Requests,    \* bound: requests of the interface under way at a time
          Version,     \* Version[n]: what build n calls itself
          MaxVersion,  \* bound: releases
          MaxFaults    \* bound: failures and ends of the process

\* A dot-separated part of a version: a number, or a word by its rank among the words.
Identifiers == [word : BOOLEAN, rank : Nat]

ASSUME UpdaterAssumption ==
  /\ Loop \notin Requests
  /\ MaxVersion \in Nat /\ MaxFaults \in Nat
  /\ Version \in [0 .. MaxVersion -> [core : Seq(Identifiers), pre : Seq(Identifiers)]]

VARIABLES published,   \* the release published last
          running,     \* the build that runs, or Down
          status,      \* Updater.status: the release found, and Available
          disk,        \* disk[name]: the three files
          act,         \* act[a]: what the loop or a request is doing
          faults,
          crossed      \* history: whether two installations were under way at a time

vars == <<published, running, status, disk, act, faults, crossed>>

Appliers == Requests \cup {Loop}
Names == {"target", "new", "previous"}
Down == MaxVersion + 1

\* A file: whose bytes, and who of the appliers truncated it and still writes.
Nobody == "nobody"
Spoiled == "spoiled"
Absent == [build |-> Down, writer |-> Nobody]
File(v, w) == [build |-> v, writer |-> w]
Runs(f) == f.build # Down /\ f.writer = Nobody

NoUpdate == [release |-> 0, available |-> FALSE]
\* fd: the name under which the file an applier writes can be found, if any.
Idle == [at |-> "idle", release |-> 0, fd |-> "closed", had |-> FALSE]

UpdaterInit ==
  /\ published = 0 /\ running = 0 /\ status = NoUpdate
  /\ disk = [n \in Names |-> IF n = "target" THEN File(0, Nobody) ELSE Absent]
  /\ act = [a \in Appliers |-> Idle]
  /\ faults = 0 /\ crossed = FALSE

Installing == {"download", "verify", "verified", "aside", "installed"}
Up == running # Down
At(a, step) == Up /\ act[a].at = step
Fault == faults < MaxFaults /\ faults' = faults + 1

Goes(a, step) == act' = [act EXCEPT ![a].at = step]
Ends(a) == act' = [act EXCEPT ![a] = Idle]

\* The descriptors follow the file that is renamed; a file that is replaced or
\* removed has no name left.
Follow(fd, from, to) == IF fd = from THEN to ELSE IF fd = to THEN "gone" ELSE fd
Moved(table, from, to) == [a \in Appliers |-> [table[a] EXCEPT !.fd = Follow(@, from, to)]]
Renamed(from, to) == [disk EXCEPT ![to] = disk[from], ![from] = Absent]
Removed(table) == Moved(table, "new", "gone")
Open(name) == \E a \in Appliers : act[a].fd = name

\* Plausible slip: the loop does not survive an update that fails.
GivesUpForGood(a) ==
  /\ disk' = [disk EXCEPT !["new"] = Absent]
  /\ act' = Removed([act EXCEPT ![a] = [Idle EXCEPT !.at = IF a = Loop THEN "over" ELSE "idle"]])

\* An installation ends with an error after os.Remove(staged), whoever wrote it.
GivesUp(a) ==
  /\ disk' = [disk EXCEPT !["new"] = Absent]
  /\ act' = Removed([act EXCEPT ![a] = Idle])

--------------------------------------------------------------------------------
(* Checks *)

Publish ==
  /\ published < MaxVersion /\ published' = published + 1
  /\ UNCHANGED <<running, status, disk, act, faults, crossed>>

\* The order of identifiers: numbers by value and before words.
Precedes(x, y) == IF x.word = y.word THEN x.rank < y.rank ELSE y.word

\* s comes before t: at the first place that differs, or as its beginning.
Before(s, t) ==
  \/ \E i \in DOMAIN s \cap DOMAIN t :
       Precedes(s[i], t[i]) /\ \A j \in 1 .. i - 1 : s[j] = t[j]
  \/ Len(s) < Len(t) /\ SubSeq(t, 1, Len(s)) = s

\* A release comes after its prereleases.
compareSemanticVersions(a, b) ==
  \/ Before(b.core, a.core)
  \/ /\ a.core = b.core /\ b.pre # <<>>
     /\ a.pre = <<>> \/ Before(b.pre, a.pre)

\* Plausible slip: any other release is an update.
IsAnother(candidate, current) == candidate # current

IsNewer(candidate, current) == compareSemanticVersions(Version[candidate], Version[current])

\* The release published last is asked for ...
latestRelease(a) ==
  /\ At(a, "idle")
  /\ act' = [act EXCEPT ![a] = [Idle EXCEPT !.at = "asked", !.release = published]]
  /\ UNCHANGED <<published, running, status, disk, faults, crossed>>

\* ... and the answer recorded; the loop goes on with it.
Check(a) ==
  LET found == [release |-> act[a].release, available |-> IsNewer(act[a].release, running)]
  IN  /\ At(a, "asked")
      /\ status' = found
      /\ IF a = Loop /\ found.available THEN Goes(a, "begin") ELSE Ends(a)
      /\ UNCHANGED <<published, running, disk, faults, crossed>>

\* GitHub does not answer, or the release has no checksum.
CheckFails(a) ==
  /\ At(a, "asked") \/ At(a, "begin")
  /\ Fault /\ Ends(a)
  /\ UNCHANGED <<published, running, status, disk, crossed>>

--------------------------------------------------------------------------------
(* Apply *)

\* A request installs what the last check found.
updateApply(a) ==
  /\ a # Loop /\ At(a, "idle") /\ status.available
  /\ act' = [act EXCEPT ![a] = [Idle EXCEPT !.at = "begin", !.release = status.release]]
  /\ UNCHANGED <<published, running, status, disk, faults, crossed>>

\* The file is created, or truncated for everybody who writes it.
OpenStaged(a) ==
  /\ At(a, "begin")
  /\ disk' = [disk EXCEPT !["new"] = File(act[a].release, a)]
  /\ act' = [act EXCEPT ![a].at = "download", ![a].fd = "new"]
  /\ crossed' = (crossed \/ \E b \in Appliers : act[b].at \in Installing)
  /\ UNCHANGED <<published, running, status, faults>>

\* The last who truncated a file completes it; another writer adds nothing, or
\* the bytes of another release.
Written(a) ==
  LET n == act[a].fd
      f == disk[n]
  IN  IF n \notin Names THEN {disk}
      ELSE IF f.writer = a THEN {[disk EXCEPT ![n].writer = Nobody]}
      ELSE IF f.build = act[a].release THEN {disk}
      ELSE {disk, [disk EXCEPT ![n].writer = Spoiled]}

download(a) ==
  /\ At(a, "download")
  /\ disk' \in Written(a)
  /\ act' = [act EXCEPT ![a].at = "verify", ![a].fd = "closed"]
  /\ UNCHANGED <<published, running, status, faults, crossed>>

\* The connection breaks, or the sum is not the published one.
DownloadFails(a) ==
  /\ At(a, "begin") \/ At(a, "download") \/ At(a, "verify")
  /\ Fault /\ GivesUp(a)
  /\ UNCHANGED <<published, running, status, crossed>>

verifyRuns(a) ==
  /\ At(a, "verify")
  /\ IF Runs(disk["new"]) /\ ~Open("new") THEN Goes(a, "verified") /\ UNCHANGED disk
                                             ELSE GivesUp(a)
  /\ UNCHANGED <<published, running, status, faults, crossed>>

\* Plausible slip: the new binary takes the place of the old one at once.
ClearAway(a) ==
  /\ At(a, "verified")
  /\ disk' = [disk EXCEPT !["target"] = Absent]
  /\ act' = Moved([act EXCEPT ![a].at = "aside"], "target", "gone")
  /\ UNCHANGED <<published, running, status, faults, crossed>>

\* The outgoing binary is kept, if there is one.
SetAside(a) ==
  /\ At(a, "verified")
  /\ IF disk["target"] = Absent
     THEN /\ act' = [act EXCEPT ![a].at = "aside"]
          /\ UNCHANGED disk
     ELSE /\ disk' = Renamed("target", "previous")
          /\ act' = Moved([act EXCEPT ![a].at = "aside", ![a].had = TRUE], "target", "previous")
  /\ UNCHANGED <<published, running, status, faults, crossed>>

SetAsideFails(a) ==
  /\ At(a, "verified") /\ Fault /\ Ends(a)
  /\ UNCHANGED <<published, running, status, disk, crossed>>

\* The second rename; the status no longer offers the release.
Install(a) ==
  /\ At(a, "aside") /\ disk["new"] # Absent
  /\ disk' = Renamed("new", "target")
  /\ act' = Moved([act EXCEPT ![a].at = "installed"], "new", "target")
  /\ status' = [status EXCEPT !.available = FALSE]
  /\ UNCHANGED <<published, running, faults, crossed>>

\* The second rename fails and the outgoing binary is put back.
PutBack(a) ==
  /\ At(a, "aside")
  /\ \/ disk["new"] = Absent /\ UNCHANGED faults
     \/ Fault
  /\ IF act[a].had /\ disk["previous"] # Absent
     THEN /\ disk' = Renamed("previous", "target")
          /\ act' = Moved([act EXCEPT ![a] = Idle], "previous", "target")
     ELSE Ends(a) /\ UNCHANGED disk
  /\ UNCHANGED <<published, running, status, crossed>>

--------------------------------------------------------------------------------
(* The process *)

\* Everything the process was doing is gone, what it wrote stays as it is.
Replaced(version) ==
  /\ running' = version
  /\ status' = NoUpdate
  /\ act' = [a \in Appliers |-> Idle]
  /\ disk' = [n \in Names |-> IF disk[n].writer = Nobody THEN disk[n] ELSE [disk[n] EXCEPT !.writer = Spoiled]]

\* exec of the target: a file that cannot run may take the process with it.
Restart(a) ==
  /\ At(a, "installed")
  /\ disk["target"] # Absent /\ ~Open("target")
  /\ Replaced(IF Runs(disk["target"]) THEN disk["target"].build ELSE Down)
  /\ UNCHANGED <<published, faults, crossed>>

\* No target, a target somebody writes, or one exec refuses: the loop has ended all the same.
RestartFails(a) ==
  /\ At(a, "installed")
  /\ ~Runs(disk["target"]) \/ Open("target")
  /\ IF a = Loop THEN Goes(a, "over") ELSE Ends(a)
  /\ UNCHANGED <<published, running, status, disk, faults, crossed>>

\* The process ends at any time ...
Crash ==
  /\ Up /\ Fault /\ Replaced(Down)
  /\ UNCHANGED <<published, crossed>>

\* ... and is started from the target by the service manager.
Boot ==
  /\ ~Up /\ Runs(disk["target"])
  /\ running' = disk["target"].build
  /\ UNCHANGED <<published, status, disk, act, faults, crossed>>

\* A person puts the outgoing binary back.
RollBack ==
  /\ ~Up /\ ~Runs(disk["target"]) /\ disk["previous"] # Absent
  /\ disk' = Renamed("previous", "target")
  /\ UNCHANGED <<published, running, status, act, faults, crossed>>

Apply(a) ==
  \/ OpenStaged(a) \/ download(a) \/ DownloadFails(a) \/ verifyRuns(a)
  \/ SetAside(a) \/ SetAsideFails(a) \/ Install(a) \/ PutBack(a)
  \/ Restart(a) \/ RestartFails(a)

Next ==
  \/ Publish \/ Crash \/ Boot \/ RollBack
  \/ \E a \in Appliers : latestRelease(a) \/ Check(a) \/ CheckFails(a) \/ updateApply(a) \/ Apply(a)

Spec == UpdaterInit /\ [][Next]_vars

\* The loop checks again and again, what is begun ends, and the service manager
\* starts the process again as long as its binary runs.
UpdaterFairness ==
  /\ WF_vars(Publish) /\ WF_vars(Boot) /\ WF_vars(latestRelease(Loop))
  /\ \A a \in Appliers : WF_vars(Check(a)) /\ WF_vars(Apply(a))

FairSpec == Spec /\ UpdaterFairness

--------------------------------------------------------------------------------
(* Properties *)

Steps == Installing \cup {"idle", "asked", "begin", "over"}
TypeOK ==
  /\ published \in 0 .. MaxVersion /\ running \in 0 .. Down
  /\ status \in [release : 0 .. MaxVersion, available : BOOLEAN]
  /\ disk \in [Names -> [build : 0 .. Down, writer : Appliers \cup {Nobody, Spoiled}]]
  /\ act \in [Appliers -> [at : Steps, release : 0 .. MaxVersion,
                           fd : Names \cup {"closed", "gone"}, had : BOOLEAN]]
  /\ faults \in 0 .. MaxFaults /\ crossed \in BOOLEAN

\* While installations do not overlap, a binary that runs is in place or set aside at
\* every moment: a failed step, a lost connection and the end of the process between
\* any two steps leave the machine something to go back to.
Recoverable == ~crossed => \E n \in {"target", "previous"} : Runs(disk[n])

Older(m, n) == compareSemanticVersions(Version[n], Version[m])

\* The process never replaces itself by a build of an older version, although releases of
\* an older line are published later, answers of two checks and the renames of two
\* installations cross, and a failed one puts a file back.
NeverDowngraded == [][Up /\ running' # Down => ~Older(running', running)]_vars

\* In the end the machine runs nothing older than the release published last, whatever
\* failed or was interrupted before, unless two installations overlapped or the process
\* ended between the two renames.
UpdatesArrive ==
  <>[](\/ Up /\ ~Older(running, MaxVersion)
       \/ crossed \/ disk["target"] = Absent)

--------------------------------------------------------------------------------
(* What the code says and does not do *)

\* updater.go, Apply: "an interrupted update leaves the old binary intact rather than a
\* half-written one".  Between the two renames there is no binary; and a second
\* installation truncates the file the first has verified and is about to install.
OldBinaryIntact == Runs(disk["target"])

\* updater.go, Apply: "Keep the outgoing binary so a bad release can be rolled back by
\* hand."  A release installed a second time before the restart takes its place.
RollBackKept == \A a \in Appliers : At(a, "installed") => disk["previous"].build = running
================================================================================
