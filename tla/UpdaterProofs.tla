----------------------------- MODULE UpdaterProofs -----------------------------
(***************************************************************************)
(* Proofs about Updater, for any number of requests, releases and faults   *)
(* and any assignment of versions to the releases.                         *)
(*                                                                         *)
(* UpdaterInv has two parts that do not need each other: Freshness follows *)
(* the bytes: every file an installation may move onto the target, or back *)
(* to it, is of no older build than the running one, whoever wrote it, so  *)
(* that crossed installations do no harm to it.  Uncrossed follows the     *)
(* files of a single installation between its steps.  What the order of    *)
(* versions has to give for this is asymmetry, which is proved first.      *)
(***************************************************************************)
EXTENDS Updater, TLAPS

--------------------------------------------------------------------------------
(* The order of versions *)

\* Of two identifiers at most one comes before the other.
LEMMA PrecedesAsymmetric ==
  ASSUME NEW x \in Identifiers, NEW y \in Identifiers, Precedes(x, y)
  PROVE  ~Precedes(y, x)
BY DEF Precedes, Identifiers

\* Of two sequences of identifiers at most one comes before the other: where
\* they differ first, or else where the shorter one ends, decides for both.
LEMMA BeforeAsymmetric ==
  ASSUME NEW s \in Seq(Identifiers), NEW t \in Seq(Identifiers), Before(s, t), Before(t, s)
  PROVE  FALSE
<1> DEFINE Differ(u, v, i) == Precedes(u[i], v[i]) /\ \A j \in 1 .. i - 1 : u[j] = v[j]
           Begins(u, v) == Len(u) < Len(v) /\ SubSeq(v, 1, Len(u)) = u
<1>1. \A i \in DOMAIN s \cap DOMAIN t :
         i \in Nat \ {0} /\ s[i] \in Identifiers /\ t[i] \in Identifiers
  OBVIOUS
<1>2. ASSUME NEW u \in Seq(Identifiers), NEW v \in Seq(Identifiers), Begins(u, v),
             NEW i \in DOMAIN u
      PROVE  v[i] = u[i] /\ ~Precedes(v[i], u[i])
  <2>1. i \in 1 .. Len(u) /\ Len(u) \in Nat /\ u[i] \in Identifiers
    OBVIOUS
  <2>2. SubSeq(v, 1, Len(u))[i] = v[i]
    BY <1>2, <2>1
  <2>3. v[i] = u[i]
    BY <1>2, <2>2
  <2> QED BY <2>1, <2>3, PrecedesAsymmetric
<1>3. CASE \E i \in DOMAIN s \cap DOMAIN t : Differ(s, t, i)
  <2>1. PICK i \in DOMAIN s \cap DOMAIN t : Differ(s, t, i)
    BY <1>3
  <2>2. ~Begins(t, s)
    <3>1. s[i] \in Identifiers /\ t[i] \in Identifiers
      BY <1>1
    <3> QED BY <1>2, <2>1, <3>1, PrecedesAsymmetric
  <2>3. PICK j \in DOMAIN s \cap DOMAIN t : Differ(t, s, j)
    BY <2>2 DEF Before
  <2>4. i \in Nat /\ j \in Nat /\ i >= 1 /\ j >= 1 /\ s[i] \in Identifiers /\ t[i] \in Identifiers
        /\ s[j] \in Identifiers /\ t[j] \in Identifiers
    BY <1>1
  <2>5. CASE i = j
    BY <2>1, <2>3, <2>4, <2>5, PrecedesAsymmetric
  <2>6. CASE i < j
    <3>1. t[i] = s[i]
      BY <2>3, <2>4, <2>6
    <3> QED BY <2>1, <2>4, <3>1, PrecedesAsymmetric
  <2>7. CASE j < i
    <3>1. t[j] = s[j]
      BY <2>1, <2>4, <2>7
    <3> QED BY <2>3, <2>4, <3>1, PrecedesAsymmetric
  <2> QED BY <2>4, <2>5, <2>6, <2>7
<1>4. CASE Begins(s, t)
  <2>1. ~Begins(t, s)
    BY <1>4
  <2>2. PICK j \in DOMAIN s \cap DOMAIN t : Differ(t, s, j)
    BY <2>1 DEF Before
  <2> QED BY <1>2, <1>4, <2>2
<1> QED BY <1>3, <1>4 DEF Before

\* A build is not newer than one that is newer than it, nor than itself.
LEMMA OlderAsymmetric ==
  ASSUME UpdaterAssumption, NEW m \in 0 .. MaxVersion, NEW n \in 0 .. MaxVersion, Older(m, n)
  PROVE  ~Older(n, m)
<1> DEFINE a == Version[m]
           b == Version[n]
<1>1. /\ a.core \in Seq(Identifiers) /\ b.core \in Seq(Identifiers)
      /\ a.pre \in Seq(Identifiers) /\ b.pre \in Seq(Identifiers)
  BY DEF UpdaterAssumption
<1>2. compareSemanticVersions(b, a)
  BY DEF Older
<1>3. ~Before(a.core, a.core)
  BY <1>1, BeforeAsymmetric
<1>4. ASSUME compareSemanticVersions(a, b)
      PROVE  FALSE
  <2>1. CASE Before(a.core, b.core)
    BY <1>1, <1>3, <1>4, <2>1, BeforeAsymmetric DEF compareSemanticVersions
  <2>2. CASE ~Before(a.core, b.core)
    BY <1>1, <1>2, <1>3, <1>4, <2>2, BeforeAsymmetric DEF compareSemanticVersions
  <2> QED BY <2>1, <2>2
<1> QED BY <1>4 DEF Older

--------------------------------------------------------------------------------
(* Types *)

Files == [build : 0 .. Down, writer : Appliers \cup {Nobody, Spoiled}]
Doings == [at : Steps, release : 0 .. MaxVersion, fd : Names \cup {"closed", "gone"}, had : BOOLEAN]

\* A rename changes no more of what an applier does than the name of its file.
LEMMA MovedType ==
  ASSUME NEW table \in [Appliers -> Doings], NEW from \in Names, NEW to \in Names \cup {"gone"}
  PROVE  /\ Moved(table, from, to) \in [Appliers -> Doings]
         /\ \A a \in Appliers :
              /\ Moved(table, from, to)[a] = [table[a] EXCEPT !.fd = Follow(@, from, to)]
              /\ Moved(table, from, to)[a].at = table[a].at
              /\ Moved(table, from, to)[a].release = table[a].release
              /\ Moved(table, from, to)[a].had = table[a].had
              /\ Moved(table, from, to)[a].fd = Follow(table[a].fd, from, to)
BY DEF Moved, Follow, Doings, Names

LEMMA MovedEffect ==
  ASSUME NEW table \in [Appliers -> Doings], NEW from \in Names, NEW to \in Names \cup {"gone"},
         act' = Moved(table, from, to)
  PROVE  \A a \in Appliers : /\ act'[a].at = table[a].at /\ act'[a].release = table[a].release
                             /\ act'[a].had = table[a].had
                             /\ act'[a].fd = Follow(table[a].fd, from, to)
<1> SUFFICES ASSUME NEW a \in Appliers
             PROVE  /\ act'[a].at = table[a].at /\ act'[a].release = table[a].release
                    /\ act'[a].had = table[a].had
                    /\ act'[a].fd = Follow(table[a].fd, from, to)
  OBVIOUS
<1> DEFINE moved == Moved(table, from, to)
<1>1. /\ moved[a].at = table[a].at /\ moved[a].release = table[a].release
      /\ moved[a].had = table[a].had /\ moved[a].fd = Follow(table[a].fd, from, to)
  <2>1. table[a] \in Doings /\ moved[a] = [table[a] EXCEPT !.fd = Follow(@, from, to)]
    BY DEF Moved
  <2> HIDE DEF moved
  <2> QED BY <2>1 DEF Doings
<1>2. act' = moved
  OBVIOUS
<1> HIDE DEF moved
<1> QED BY <1>1, <1>2

LEMMA AbsentType ==
  ASSUME UpdaterAssumption
  PROVE  Down \in Nat /\ Down \notin 0 .. MaxVersion /\ Absent \in Files /\ ~Runs(Absent)
BY DEF Absent, Files, Runs, Down, UpdaterAssumption

LEMMA RenamedType ==
  ASSUME UpdaterAssumption, disk \in [Names -> Files], NEW from \in Names, NEW to \in Names,
         from # to
  PROVE  /\ Renamed(from, to) \in [Names -> Files]
         /\ Renamed(from, to)[to] = disk[from] /\ Renamed(from, to)[from] = Absent
         /\ \A n \in Names \ {from, to} : Renamed(from, to)[n] = disk[n]
BY AbsentType DEF Renamed

LEMMA WrittenType ==
  ASSUME disk \in [Names -> Files], NEW a \in Appliers, NEW table \in Written(a)
  PROVE  /\ table \in [Names -> Files]
         /\ \A n \in Names : table[n].build = disk[n].build
         /\ \A n \in Names \ {act[a].fd} : table[n] = disk[n]
BY DEF Written, Files

\* The process ends: nobody does anything, and what is written stays unfinished.
LEMMA ReplacedType ==
  ASSUME UpdaterAssumption, TypeOK, NEW version \in 0 .. Down, Replaced(version)
  PROVE  /\ running' \in 0 .. Down /\ status' \in [release : 0 .. MaxVersion, available : BOOLEAN]
         /\ disk' \in [Names -> Files] /\ act' \in [Appliers -> Doings]
         /\ \A n \in Names : /\ disk'[n].build = disk[n].build
                             /\ disk[n].writer = Nobody => disk'[n] = disk[n]
<1>1. disk \in [Names -> Files]
  BY DEF TypeOK, Files
<1>2. ASSUME NEW f \in Files
      PROVE  [f EXCEPT !.writer = Spoiled] \in Files /\ [f EXCEPT !.writer = Spoiled].build = f.build
  BY DEF Files
<1>3. disk' \in [Names -> Files]
  BY <1>1, <1>2 DEF Replaced
<1>4. ASSUME NEW n \in Names
      PROVE  disk'[n].build = disk[n].build /\ (disk[n].writer = Nobody => disk'[n] = disk[n])
  BY <1>1, <1>2 DEF Replaced
<1>5. Idle \in Doings
  BY DEF Idle, Doings, Steps, Installing, UpdaterAssumption
<1>6. act' \in [Appliers -> Doings]
  BY <1>5 DEF Replaced
<1>7. status' \in [release : 0 .. MaxVersion, available : BOOLEAN]
  BY DEF Replaced, NoUpdate, UpdaterAssumption
<1>8. running' \in 0 .. Down
  BY DEF Replaced
<1> QED BY <1>3, <1>4, <1>6, <1>7, <1>8

LEMMA StepKeepsTypes ==
  ASSUME UpdaterAssumption, TypeOK, [Next]_vars
  PROVE  TypeOK'
<1> disk \in [Names -> Files] /\ act \in [Appliers -> Doings]
  BY DEF TypeOK, Files, Doings
<1> Idle \in Doings /\ Absent \in Files
  BY AbsentType DEF Idle, Doings, Steps, Installing, UpdaterAssumption
<1>a. ASSUME NEW a \in Appliers, NEW s \in Steps, Goes(a, s)
      PROVE  act' \in [Appliers -> Doings]
  BY <1>a DEF Goes, Doings
<1>b. ASSUME NEW a \in Appliers, Ends(a)
      PROVE  act' \in [Appliers -> Doings]
  BY <1>b DEF Ends
<1>c. Steps = {"download", "verify", "verified", "aside", "installed", "idle", "asked", "begin", "over"}
  BY DEF Steps, Installing
<1> DEFINE Typed == disk' \in [Names -> Files] /\ act' \in [Appliers -> Doings]
<1>t. Typed /\ UNCHANGED <<published, running, status, crossed>> /\ faults' \in 0 .. MaxFaults => TypeOK'
  BY DEF TypeOK, Files, Doings
<1>f. Fault => faults' \in 0 .. MaxFaults
  BY DEF Fault, TypeOK, UpdaterAssumption
<1>g. faults' = faults => faults' \in 0 .. MaxFaults
  BY DEF TypeOK
<1>1. CASE UNCHANGED vars
  BY <1>1 DEF vars, TypeOK
<1>2. CASE Publish
  BY <1>2 DEF Publish, TypeOK, UpdaterAssumption
<1>3. CASE Crash
  <2>1. Replaced(Down) /\ Down \in 0 .. Down /\ UNCHANGED <<published, crossed>>
    BY <1>3, AbsentType DEF Crash
  <2> QED BY <1>3, <1>f, <2>1, ReplacedType DEF Crash, TypeOK, Files, Doings
<1>4. CASE Boot
  <2>1. running' \in 0 .. Down
    BY <1>4 DEF Boot, Files, Names
  <2> QED BY <1>4, <2>1 DEF Boot, TypeOK
<1>5. CASE RollBack
  BY <1>5, <1>t, <1>g, RenamedType DEF RollBack, Names
<1>6. ASSUME NEW a \in Appliers, latestRelease(a)
      PROVE  TypeOK'
  <2>1. [Idle EXCEPT !.at = "asked", !.release = published] \in Doings
    BY DEF Idle, Doings, Steps, Names, TypeOK
  <2> QED BY <1>6, <1>t, <1>g, <2>1 DEF latestRelease
<1>7. ASSUME NEW a \in Appliers, Check(a)
      PROVE  TypeOK'
  <2>1. status' \in [release : 0 .. MaxVersion, available : BOOLEAN]
    BY <1>7 DEF Check, IsNewer, Doings, compareSemanticVersions, Before
  <2>2. act' \in [Appliers -> Doings]
    BY <1>7, <1>a, <1>b, <1>c DEF Check
  <2> QED BY <1>7, <2>1, <2>2 DEF Check, TypeOK, Files, Doings
<1>8. ASSUME NEW a \in Appliers, CheckFails(a)
      PROVE  TypeOK'
  BY <1>8, <1>t, <1>f, <1>b DEF CheckFails
<1>9. ASSUME NEW a \in Appliers, updateApply(a)
      PROVE  TypeOK'
  <2>1. [Idle EXCEPT !.at = "begin", !.release = status.release] \in Doings
    BY DEF Idle, Doings, Steps, Names, TypeOK
  <2> QED BY <1>9, <1>t, <1>g, <2>1 DEF updateApply
<1>10. ASSUME NEW a \in Appliers, OpenStaged(a)
       PROVE  TypeOK'
  <2>1. File(act[a].release, a) \in Files
    BY DEF File, Files, Doings, Down, UpdaterAssumption
  <2>2. \A d \in Doings : [d EXCEPT !.at = "download", !.fd = "new"] \in Doings
    BY DEF Doings, Steps, Installing, Names
  <2>3. crossed' \in BOOLEAN
    BY <1>10 DEF OpenStaged, TypeOK
  <2>4. Typed
    BY <1>10, <2>1, <2>2 DEF OpenStaged, Names
  <2> QED BY <1>10, <2>3, <2>4 DEF OpenStaged, TypeOK, Files, Doings
<1>11. ASSUME NEW a \in Appliers, download(a)
       PROVE  TypeOK'
  <2>1. \A d \in Doings : [d EXCEPT !.at = "verify", !.fd = "closed"] \in Doings
    BY DEF Doings, Steps, Installing
  <2> QED BY <1>11, <1>t, <1>g, <2>1, WrittenType DEF download
<1>12. ASSUME NEW a \in Appliers, GivesUp(a)
       PROVE  Typed
  <2>1. [act EXCEPT ![a] = Idle] \in [Appliers -> Doings]
    OBVIOUS
  <2> QED BY <1>12, <2>1, MovedType DEF GivesUp, Removed, Names
<1>13. ASSUME NEW a \in Appliers, DownloadFails(a)
       PROVE  TypeOK'
  BY <1>12, <1>13, <1>t, <1>f DEF DownloadFails
<1>14. ASSUME NEW a \in Appliers, verifyRuns(a)
       PROVE  TypeOK'
  <2>1. Typed
    BY <1>12, <1>14, <1>a, <1>c DEF verifyRuns
  <2> QED BY <1>14, <1>t, <1>g, <2>1 DEF verifyRuns
<1>15. ASSUME NEW a \in Appliers, SetAside(a)
       PROVE  TypeOK'
  <2>1. /\ [act EXCEPT ![a].at = "aside"] \in [Appliers -> Doings]
        /\ [act EXCEPT ![a].at = "aside", ![a].had = TRUE] \in [Appliers -> Doings]
    BY DEF Doings, Steps, Installing
  <2>2. "target" \in Names /\ "previous" \in Names
    BY DEF Names
  <2>3. ASSUME disk["target"] = Absent
        PROVE  Typed
    BY <1>15, <2>1, <2>3 DEF SetAside
  <2>4. ASSUME disk["target"] # Absent
        PROVE  Typed
    <3>1. /\ disk' = Renamed("target", "previous")
          /\ act' = Moved([act EXCEPT ![a].at = "aside", ![a].had = TRUE], "target", "previous")
      BY <1>15, <2>4 DEF SetAside
    <3> QED BY <2>1, <2>2, <3>1, MovedType, RenamedType
  <2> QED BY <1>15, <1>t, <1>g, <2>3, <2>4 DEF SetAside
<1>16. ASSUME NEW a \in Appliers, SetAsideFails(a)
       PROVE  TypeOK'
  BY <1>16, <1>t, <1>f, <1>b DEF SetAsideFails
<1>17. ASSUME NEW a \in Appliers, Install(a)
       PROVE  TypeOK'
  <2>1. [act EXCEPT ![a].at = "installed"] \in [Appliers -> Doings]
    BY <1>c DEF Doings
  <2>2. Typed
    BY <1>17, <2>1, MovedType, RenamedType DEF Install, Names
  <2>3. status' \in [release : 0 .. MaxVersion, available : BOOLEAN]
    BY <1>17 DEF Install, TypeOK
  <2> QED BY <1>17, <2>2, <2>3 DEF Install, TypeOK, Files, Doings
<1>18. ASSUME NEW a \in Appliers, PutBack(a)
       PROVE  TypeOK'
  <2>1. "target" \in Names /\ "previous" \in Names
    BY DEF Names
  <2>2. ASSUME act[a].had, disk["previous"] # Absent
        PROVE  Typed
    <3>1. [act EXCEPT ![a] = Idle] \in [Appliers -> Doings]
      OBVIOUS
    <3>2. /\ disk' = Renamed("previous", "target")
          /\ act' = Moved([act EXCEPT ![a] = Idle], "previous", "target")
      BY <1>18, <2>2 DEF PutBack
    <3> QED BY <2>1, <3>1, <3>2, MovedType, RenamedType
  <2>3. ASSUME ~(act[a].had /\ disk["previous"] # Absent)
        PROVE  Typed
    BY <1>18, <1>b, <2>3 DEF PutBack
  <2> QED BY <1>18, <1>t, <1>f, <1>g, <2>2, <2>3 DEF PutBack
<1>19. ASSUME NEW a \in Appliers, Restart(a)
       PROVE  TypeOK'
  <2>1. PICK version \in 0 .. Down : Replaced(version)
    BY <1>19, AbsentType DEF Restart, Files, Names
  <2> QED BY <1>19, <2>1, ReplacedType DEF Restart, TypeOK, Files, Doings
<1>20. ASSUME NEW a \in Appliers, RestartFails(a)
       PROVE  TypeOK'
  <2>1. Typed
    BY <1>20, <1>a, <1>b, <1>c DEF RestartFails
  <2> QED BY <1>20, <1>t, <1>g, <2>1 DEF RestartFails
<1> QED BY <1>1, <1>2, <1>3, <1>4, <1>5, <1>6, <1>7, <1>8, <1>9, <1>10, <1>11, <1>13, <1>14,
           <1>15, <1>16, <1>17, <1>18, <1>19, <1>20 DEF Next, Apply
--------------------------------------------------------------------------------
(* The inductive invariant *)

\* A process that has ended found no release and does nothing.
DownIdle == ~Up => ~status.available /\ \A a \in Appliers : act[a] = Idle

\* A file, if it is there, is of no older build than the one that runs.
Fresh(n) == disk[n].build # Down => ~Older(disk[n].build, running)

\* What an installation moves into place, or puts back, is no step backwards: the target
\* since the process was started from it, the new file since a newer release was asked
\* for, the outgoing one since it was the target.
Freshness ==
  Up => /\ Fresh("target")
        /\ (\E a \in Appliers : act[a].at \in Installing) => Fresh("new")
        /\ (\E a \in Appliers : act[a].had) => Fresh("previous")
        /\ status.available => IsNewer(status.release, running)
        /\ \A a \in Appliers : act[a].at = "begin" => IsNewer(act[a].release, running)

\* A single installation finds the files as it left them, except that another one that
\* fails before its download removes the new file.
Uncrossed ==
  /\ \A a, b \in Appliers : act[a].at \in Installing /\ act[b].at \in Installing => a = b
  /\ \A a \in Appliers :
       /\ act[a].at = "download" => act[a].fd \in {"new", "gone"}
       /\ act[a].at \in {"verified", "aside"} => disk["new"] = Absent \/ Runs(disk["new"])
       /\ act[a].at = "aside" => act[a].had /\ Runs(disk["previous"])
  /\ \/ Runs(disk["target"])
     \/ \E a \in Appliers : act[a].at = "aside"
     \/ ~Up /\ Runs(disk["previous"])

UpdaterInv == TypeOK /\ DownIdle /\ Freshness /\ (~crossed => Uncrossed)

LEMMA InitHolds ==
  ASSUME UpdaterAssumption, UpdaterInit
  PROVE  UpdaterInv
<1>1. TypeOK
  <2>1. /\ 0 \in 0 .. MaxVersion /\ 0 \in 0 .. Down /\ 0 \in 0 .. MaxFaults
        /\ Idle \in Doings /\ Absent \in Files /\ File(0, Nobody) \in Files
    BY AbsentType DEF UpdaterAssumption, Idle, Doings, Steps, Installing, File, Files, Down
  <2> QED BY <2>1 DEF UpdaterInit, TypeOK, NoUpdate, Files, Doings
<1>2. DownIdle
  BY DEF DownIdle, UpdaterInit, NoUpdate
<1>3. Freshness
  <2>1. 0 \in 0 .. MaxVersion /\ disk["target"].build = 0 /\ running = 0
    BY DEF UpdaterInit, UpdaterAssumption, Names, File
  <2>2. Fresh("target")
    BY <2>1, OlderAsymmetric DEF Fresh
  <2> QED BY <2>2 DEF Freshness, UpdaterInit, Idle, NoUpdate, Installing
<1>4. Uncrossed
  BY DEF Uncrossed, UpdaterInit, Idle, Installing, Runs, File, Names, Down, UpdaterAssumption
<1> QED BY <1>1, <1>2, <1>3, <1>4 DEF UpdaterInv

--------------------------------------------------------------------------------
(* Nothing older *)

\* A file that has what a fresh file had under its name or another, nothing, or a newer build.
Kept(n) ==
  \/ disk'[n].build = Down
  \/ \E m \in Names : disk'[n].build = disk[m].build /\ Fresh(m)
  \/ disk'[n].build \in 0 .. MaxVersion /\ IsNewer(disk'[n].build, running)

LEMMA FreshnessKept ==
  ASSUME UpdaterAssumption, UpdaterInv, Up, running' = running,
         Kept("target"),
         (\E a \in Appliers : act'[a].at \in Installing) => Kept("new"),
         (\E a \in Appliers : act'[a].had) => Kept("previous"),
         status'.available => IsNewer(status'.release, running),
         \A a \in Appliers : act'[a].at = "begin" => IsNewer(act'[a].release, running)
  PROVE  Freshness'
<1>1. running \in 0 .. MaxVersion
  BY DEF UpdaterInv, TypeOK, Up, Down, UpdaterAssumption
<1>2. \A v \in 0 .. MaxVersion : IsNewer(v, running) => ~Older(v, running)
  BY <1>1, OlderAsymmetric DEF IsNewer, Older
<1>3. \A n \in Names : Kept(n) => Fresh(n)'
  BY <1>2 DEF Fresh, Kept
<1> QED BY <1>3 DEF Freshness, IsNewer, Names

\* Nothing of the files changes, nobody begins to install and nobody sets a file aside.
LEMMA FreshnessUntouched ==
  ASSUME UpdaterAssumption, UpdaterInv, Up, running' = running, disk' = disk,
         \A a \in Appliers : /\ act'[a].at \in Installing => act[a].at \in Installing
                             /\ act'[a].had => act[a].had
                             /\ act'[a].at = "begin" => IsNewer(act'[a].release, running),
         status'.available => IsNewer(status'.release, running)
  PROVE  Freshness'
<1>1. \A n \in Names : Fresh(n) => Kept(n)
  BY DEF Kept
<1> QED BY <1>1, FreshnessKept DEF UpdaterInv, Freshness, Names

LEMMA IdleDoesNothing ==
  /\ Idle.at \notin Installing /\ Idle.at # "begin" /\ Idle.at # "download"
  /\ Idle.fd = "closed" /\ ~Idle.had
BY DEF Idle, Installing

\* A process that has just been started from the target.
LEMMA FreshnessStarted ==
  ASSUME UpdaterAssumption, TypeOK', Up' => running' = disk'["target"].build,
         ~status'.available, \A a \in Appliers : act'[a] = Idle
  PROVE  Freshness'
<1>1. CASE Up'
  <2>1. running' \in 0 .. MaxVersion
    BY <1>1 DEF TypeOK, Up, Down, UpdaterAssumption
  <2>2. Fresh("target")'
    BY <1>1, <2>1, OlderAsymmetric DEF Fresh, Older
  <2> QED BY <2>2, IdleDoesNothing DEF Freshness
<1> QED BY <1>1 DEF Freshness

\* An installation that fails leaves the others what they had, but for the new file.
LEMMA GivesUpEffect ==
  ASSUME UpdaterAssumption, TypeOK, NEW a \in Appliers, GivesUp(a)
  PROVE  /\ act'[a] = Idle /\ disk' = [disk EXCEPT !["new"] = Absent]
         /\ \A b \in Appliers \ {a} :
              /\ act'[b].at = act[b].at /\ act'[b].had = act[b].had
              /\ act'[b].release = act[b].release
              /\ act'[b].fd = Follow(act[b].fd, "new", "gone")
<1>1. act \in [Appliers -> Doings]
  BY DEF TypeOK, Doings
<1>2. Idle \in Doings /\ Follow(Idle.fd, "new", "gone") = "closed"
  BY DEF Idle, Doings, Steps, Names, Follow, UpdaterAssumption
<1>3. [act EXCEPT ![a] = Idle] \in [Appliers -> Doings]
  BY <1>1, <1>2
<1>4. \A b \in Appliers : act'[b] = [[act EXCEPT ![a] = Idle][b] EXCEPT !.fd = Follow(@, "new", "gone")]
  BY DEF GivesUp, Removed, Moved
<1>5. act'[a] = Idle
  BY <1>1, <1>2, <1>4 DEF Idle
<1>6. ASSUME NEW b \in Appliers, b # a
      PROVE  /\ act'[b].at = act[b].at /\ act'[b].had = act[b].had
             /\ act'[b].release = act[b].release
             /\ act'[b].fd = Follow(act[b].fd, "new", "gone")
  <2>1. act'[b] = [act[b] EXCEPT !.fd = Follow(@, "new", "gone")] /\ act[b] \in Doings
    BY <1>1, <1>4, <1>6
  <2> QED BY <2>1 DEF Doings
<1> QED BY <1>5, <1>6 DEF GivesUp

LEMMA FreshnessStep ==
  ASSUME UpdaterAssumption, UpdaterInv, TypeOK', [Next]_vars
  PROVE  Freshness'
<1> disk \in [Names -> Files] /\ act \in [Appliers -> Doings]
  BY DEF UpdaterInv, TypeOK, Files, Doings
<1> TypeOK /\ DownIdle /\ Freshness
  BY DEF UpdaterInv
<1>i. ASSUME NEW a \in Appliers, Ends(a)
      PROVE  act'[a] = Idle /\ \A b \in Appliers \ {a} : act'[b] = act[b]
  BY <1>i DEF Ends
<1>g. ASSUME NEW a \in Appliers, NEW s \in Steps, Goes(a, s)
      PROVE  /\ act'[a].at = s /\ act'[a].had = act[a].had /\ act'[a].release = act[a].release
             /\ \A b \in Appliers \ {a} : act'[b] = act[b]
  BY <1>g DEF Goes, Doings
<1>s. "begin" \in Steps /\ "verified" \in Steps /\ "over" \in Steps
  BY DEF Steps, Installing
<1>k. \A n \in Names : Fresh(n) /\ disk'[n] = disk[n] => Kept(n)
  BY DEF Kept
<1>0. CASE UNCHANGED vars
  BY <1>0 DEF vars, Freshness, Fresh, Up
<1>1. CASE Publish
  BY <1>1 DEF Publish, Freshness, Fresh, Up
<1>2. CASE Crash
  BY <1>2 DEF Crash, Replaced, Freshness, Up
<1>3. CASE Boot
  <2>1. Up' => running' = disk'["target"].build
    BY <1>3 DEF Boot
  <2> QED BY <1>3, <2>1, FreshnessStarted DEF Boot, DownIdle
<1>4. CASE RollBack
  BY <1>4 DEF RollBack, Freshness, Up
<1>5. ASSUME NEW a \in Appliers, latestRelease(a)
      PROVE  Freshness'
  <2>1. act'[a].at = "asked" /\ ~act'[a].had /\ \A b \in Appliers \ {a} : act'[b] = act[b]
    BY <1>5 DEF latestRelease, Idle
  <2>2. Up /\ running' = running /\ disk' = disk /\ status' = status
    BY <1>5 DEF latestRelease, At
  <2> QED BY <2>1, <2>2, FreshnessUntouched DEF Freshness, Installing
<1>6. ASSUME NEW a \in Appliers, Check(a)
      PROVE  Freshness'
  <2>1. /\ Up /\ running' = running /\ disk' = disk /\ act[a].at = "asked"
        /\ status'.available = IsNewer(act[a].release, running)
        /\ status'.release = act[a].release
    BY <1>6 DEF Check, At
  <2>t. IF a = Loop /\ IsNewer(act[a].release, running) THEN Goes(a, "begin") ELSE Ends(a)
    BY <1>6 DEF Check
  <2>2. CASE a = Loop /\ IsNewer(act[a].release, running)
    <3>1. /\ act'[a].at = "begin" /\ act'[a].had = act[a].had /\ act'[a].release = act[a].release
          /\ \A b \in Appliers \ {a} : act'[b] = act[b]
      BY <1>g, <1>s, <2>t, <2>2
    <3> QED BY <2>1, <2>2, <3>1, FreshnessUntouched DEF Freshness, Installing
  <2>3. CASE ~(a = Loop /\ IsNewer(act[a].release, running))
    <3>1. Ends(a)
      BY <2>t, <2>3
    <3> QED BY <1>i, <2>1, <3>1, IdleDoesNothing, FreshnessUntouched DEF Freshness
  <2> QED BY <2>2, <2>3
<1>7. ASSUME NEW a \in Appliers, CheckFails(a)
      PROVE  Freshness'
  <2>1. Up /\ running' = running /\ disk' = disk /\ status' = status /\ Ends(a)
    BY <1>7 DEF CheckFails, At
  <2> QED BY <1>i, <2>1, IdleDoesNothing, FreshnessUntouched DEF Freshness
<1>8. ASSUME NEW a \in Appliers, updateApply(a)
      PROVE  Freshness'
  <2>1. /\ act'[a].at = "begin" /\ ~act'[a].had /\ act'[a].release = status.release
        /\ \A b \in Appliers \ {a} : act'[b] = act[b]
    BY <1>8 DEF updateApply, Idle
  <2>2. Up /\ running' = running /\ disk' = disk /\ status' = status /\ status.available
    BY <1>8 DEF updateApply, At
  <2> QED BY <2>1, <2>2, FreshnessUntouched DEF Freshness, Installing
<1>9. ASSUME NEW a \in Appliers, OpenStaged(a)
      PROVE  Freshness'
  <2>1. /\ act'[a].at = "download" /\ act'[a].had = act[a].had
        /\ \A b \in Appliers \ {a} : act'[b] = act[b]
    BY <1>9 DEF OpenStaged, Doings
  <2>2. /\ Up /\ running' = running /\ status' = status /\ act[a].at = "begin"
        /\ disk'["new"].build = act[a].release
        /\ \A n \in Names \ {"new"} : disk'[n] = disk[n]
    BY <1>9 DEF OpenStaged, At, Names, File
  <2>3. act[a].release \in 0 .. MaxVersion /\ IsNewer(act[a].release, running)
    BY <2>2 DEF Doings, Freshness
  <2>4. Kept("new")
    BY <2>2, <2>3 DEF Kept
  <2> QED BY <1>k, <2>1, <2>2, <2>4, FreshnessKept DEF Freshness, Names
<1>10. ASSUME NEW a \in Appliers, download(a)
       PROVE  Freshness'
  <2>1. /\ act'[a].at = "verify" /\ act'[a].had = act[a].had /\ act[a].at = "download"
        /\ \A b \in Appliers \ {a} : act'[b] = act[b]
    BY <1>10 DEF download, At, Doings
  <2>2. Up /\ running' = running /\ status' = status
    BY <1>10 DEF download, At
  <2>3. \A n \in Names : disk'[n].build = disk[n].build
    BY <1>10, WrittenType DEF download
  <2>4. \A n \in Names : Fresh(n) => Kept(n)
    BY <2>3 DEF Kept
  <2> QED BY <2>1, <2>2, <2>4, FreshnessKept DEF Freshness, Installing, Names
<1>11. ASSUME NEW a \in Appliers, GivesUp(a), Up, running' = running, status' = status
       PROVE  Freshness'
  <2>1. /\ disk'["new"] = Absent /\ disk'["target"] = disk["target"]
        /\ disk'["previous"] = disk["previous"]
    BY <1>11, GivesUpEffect DEF Names
  <2>2. Kept("new")
    BY <2>1 DEF Kept, Absent
  <2>3. \A b \in Appliers : /\ act'[b].had => act[b].had
                            /\ act'[b].at = "begin" => act[b].at = "begin" /\ act'[b].release = act[b].release
    BY <1>11, GivesUpEffect, IdleDoesNothing
  <2> QED BY <1>k, <1>11, <2>1, <2>2, <2>3, FreshnessKept DEF Freshness, Names
<1>12. ASSUME NEW a \in Appliers, DownloadFails(a)
       PROVE  Freshness'
  BY <1>11, <1>12 DEF DownloadFails, At
<1>13. ASSUME NEW a \in Appliers, verifyRuns(a)
       PROVE  Freshness'
  <2>1. Up /\ running' = running /\ status' = status /\ act[a].at = "verify"
    BY <1>13 DEF verifyRuns, At
  <2>2. CASE Goes(a, "verified") /\ UNCHANGED disk
    <3>1. /\ act'[a].at = "verified" /\ act'[a].had = act[a].had
          /\ \A b \in Appliers \ {a} : act'[b] = act[b]
      BY <1>g, <1>s, <2>2
    <3> QED BY <2>1, <2>2, <3>1, FreshnessUntouched DEF Freshness, Installing
  <2> QED BY <1>11, <1>13, <2>1, <2>2 DEF verifyRuns
<1>14. ASSUME NEW a \in Appliers, SetAside(a)
       PROVE  Freshness'
  <2>1. Up /\ running' = running /\ status' = status /\ act[a].at = "verified"
    BY <1>14 DEF SetAside, At
  <2>2. ASSUME disk["target"] = Absent
        PROVE  Freshness'
    <3>1. /\ act'[a].at = "aside" /\ act'[a].had = act[a].had
          /\ \A b \in Appliers \ {a} : act'[b] = act[b]
          /\ disk' = disk
      BY <1>14, <2>2 DEF SetAside, Doings
    <3> QED BY <2>1, <3>1, FreshnessUntouched DEF Freshness, Installing
  <2>3. ASSUME disk["target"] # Absent
        PROVE  Freshness'
    <3>1. /\ disk' = Renamed("target", "previous")
          /\ act' = Moved([act EXCEPT ![a].at = "aside", ![a].had = TRUE], "target", "previous")
      BY <1>14, <2>3 DEF SetAside
    <3>2. /\ disk'["previous"] = disk["target"] /\ disk'["target"] = Absent
          /\ disk'["new"] = disk["new"]
      BY <3>1, RenamedType DEF Names
    <3>3. /\ [act EXCEPT ![a].at = "aside", ![a].had = TRUE] \in [Appliers -> Doings]
          /\ [act EXCEPT ![a].at = "aside", ![a].had = TRUE][a].at = "aside"
          /\ \A b \in Appliers \ {a} : [act EXCEPT ![a].at = "aside", ![a].had = TRUE][b] = act[b]
      BY DEF Doings, Steps, Installing
    <3>m. /\ act'[a].at = "aside"
          /\ \A b \in Appliers \ {a} : act'[b].at = act[b].at /\ act'[b].release = act[b].release
      <4> DEFINE table == [act EXCEPT ![a].at = "aside", ![a].had = TRUE]
      <4>1. /\ table \in [Appliers -> Doings] /\ table[a].at = "aside"
            /\ \A b \in Appliers \ {a} : table[b] = act[b]
            /\ act' = Moved(table, "target", "previous")
        BY <3>1, <3>3
      <4> HIDE DEF table
      <4>2. \A b \in Appliers : act'[b].at = table[b].at /\ act'[b].release = table[b].release
        BY <4>1, MovedEffect DEF Names
      <4> QED BY <4>1, <4>2
    <3>4. \A b \in Appliers : /\ act'[b].at \in Installing => act[b].at \in Installing
                              /\ act'[b].at = "begin" => act[b].at = "begin" /\ act'[b].release = act[b].release
      BY <2>1, <3>m DEF Installing
    <3>5. Kept("target") /\ Kept("previous")
      BY <2>1, <3>2 DEF Kept, Absent, Freshness, Names
    <3> QED BY <1>k, <2>1, <3>2, <3>4, <3>5, FreshnessKept DEF Freshness, Names
  <2> QED BY <2>2, <2>3
<1>15. ASSUME NEW a \in Appliers, SetAsideFails(a)
       PROVE  Freshness'
  <2>1. Up /\ running' = running /\ disk' = disk /\ status' = status /\ Ends(a)
    BY <1>15 DEF SetAsideFails, At
  <2> QED BY <1>i, <2>1, IdleDoesNothing, FreshnessUntouched DEF Freshness
<1>16. ASSUME NEW a \in Appliers, Install(a)
       PROVE  Freshness'
  <2>1. /\ Up /\ running' = running /\ ~status'.available /\ act[a].at = "aside"
        /\ disk' = Renamed("new", "target")
        /\ act' = Moved([act EXCEPT ![a].at = "installed"], "new", "target")
    BY <1>16 DEF Install, At, TypeOK
  <2>2. /\ disk'["target"] = disk["new"] /\ disk'["new"] = Absent
        /\ disk'["previous"] = disk["previous"]
    BY <2>1, RenamedType DEF Names
  <2>3. /\ [act EXCEPT ![a].at = "installed"] \in [Appliers -> Doings]
        /\ [act EXCEPT ![a].at = "installed"][a].at = "installed"
        /\ [act EXCEPT ![a].at = "installed"][a].had = act[a].had
        /\ \A b \in Appliers \ {a} : [act EXCEPT ![a].at = "installed"][b] = act[b]
    BY DEF Doings, Steps, Installing
  <2>m. /\ act'[a].at = "installed" /\ act'[a].had = act[a].had
        /\ \A b \in Appliers \ {a} : /\ act'[b].at = act[b].at /\ act'[b].had = act[b].had
                                     /\ act'[b].release = act[b].release
    <3> DEFINE table == [act EXCEPT ![a].at = "installed"]
    <3>1. /\ table \in [Appliers -> Doings] /\ table[a].at = "installed" /\ table[a].had = act[a].had
          /\ \A b \in Appliers \ {a} : table[b] = act[b]
          /\ act' = Moved(table, "new", "target")
      BY <2>1, <2>3
    <3> HIDE DEF table
    <3> QED BY <3>1, MovedEffect DEF Names
  <2>4. \A b \in Appliers : /\ act'[b].had => act[b].had
                            /\ act'[b].at = "begin" => act[b].at = "begin" /\ act'[b].release = act[b].release
    BY <2>m
  <2>5. Kept("target") /\ Kept("new")
    BY <2>1, <2>2 DEF Kept, Absent, Freshness, Names, Installing
  <2> QED BY <1>k, <2>1, <2>2, <2>4, <2>5, FreshnessKept DEF Freshness, Names
<1>17. ASSUME NEW a \in Appliers, PutBack(a)
       PROVE  Freshness'
  <2>1. Up /\ running' = running /\ status' = status
    BY <1>17 DEF PutBack, At
  <2>2. ASSUME act[a].had, disk["previous"] # Absent
        PROVE  Freshness'
    <3>1. /\ disk' = Renamed("previous", "target")
          /\ act' = Moved([act EXCEPT ![a] = Idle], "previous", "target")
      BY <1>17, <2>2 DEF PutBack
    <3>2. /\ disk'["target"] = disk["previous"] /\ disk'["previous"] = Absent
          /\ disk'["new"] = disk["new"]
      BY <3>1, RenamedType DEF Names
    <3>3. /\ [act EXCEPT ![a] = Idle] \in [Appliers -> Doings]
          /\ [act EXCEPT ![a] = Idle][a] = Idle
          /\ \A b \in Appliers \ {a} : [act EXCEPT ![a] = Idle][b] = act[b]
      BY DEF Idle, Doings, Steps, TypeOK, UpdaterAssumption
    <3>m. /\ act'[a].at = Idle.at
          /\ \A b \in Appliers \ {a} : act'[b].at = act[b].at /\ act'[b].release = act[b].release
      <4> DEFINE table == [act EXCEPT ![a] = Idle]
      <4>1. /\ table \in [Appliers -> Doings] /\ table[a] = Idle
            /\ \A b \in Appliers \ {a} : table[b] = act[b]
            /\ act' = Moved(table, "previous", "target")
        BY <3>1, <3>3
      <4> HIDE DEF table
      <4>2. \A b \in Appliers : act'[b].at = table[b].at /\ act'[b].release = table[b].release
        BY <4>1, MovedEffect DEF Names
      <4> QED BY <4>1, <4>2
    <3>4. \A b \in Appliers : /\ act'[b].at \in Installing => act[b].at \in Installing
                              /\ act'[b].at = "begin" => act[b].at = "begin" /\ act'[b].release = act[b].release
      BY <3>m, IdleDoesNothing
    <3>5. Kept("target") /\ Kept("previous")
      BY <2>1, <2>2, <3>2 DEF Kept, Absent, Freshness, Names
    <3> QED BY <1>k, <2>1, <3>2, <3>4, <3>5, FreshnessKept DEF Freshness, Names
  <2>3. ASSUME ~(act[a].had /\ disk["previous"] # Absent)
        PROVE  Freshness'
    <3>1. Ends(a) /\ disk' = disk
      BY <1>17, <2>3 DEF PutBack
    <3> QED BY <1>i, <2>1, <3>1, IdleDoesNothing, FreshnessUntouched DEF Freshness
  <2> QED BY <2>2, <2>3
<1>18. ASSUME NEW a \in Appliers, Restart(a)
       PROVE  Freshness'
  <2>1. PICK version \in 0 .. Down : Replaced(version) /\ version \in {disk["target"].build, Down}
    BY <1>18, AbsentType DEF Restart, Files, Names
  <2>2. Up' => running' = disk'["target"].build
    BY <2>1, ReplacedType DEF Replaced, Up, Names
  <2>3. ~status'.available /\ \A b \in Appliers : act'[b] = Idle
    BY <2>1 DEF Replaced, NoUpdate
  <2> QED BY <2>2, <2>3, FreshnessStarted
<1>19. ASSUME NEW a \in Appliers, RestartFails(a)
       PROVE  Freshness'
  <2>1. /\ Up /\ running' = running /\ disk' = disk /\ status' = status
        /\ Goes(a, "over") \/ Ends(a)
    BY <1>19 DEF RestartFails, At
  <2>2. CASE Goes(a, "over")
    <3>1. /\ act'[a].at = "over" /\ act'[a].had = act[a].had
          /\ \A b \in Appliers \ {a} : act'[b] = act[b]
      BY <1>g, <1>s, <2>2
    <3> QED BY <2>1, <3>1, FreshnessUntouched DEF Freshness, Installing
  <2>3. CASE Ends(a)
    BY <1>i, <2>1, <2>3, IdleDoesNothing, FreshnessUntouched DEF Freshness
  <2> QED BY <2>1, <2>2, <2>3
<1> QED BY <1>0, <1>1, <1>2, <1>3, <1>4, <1>5, <1>6, <1>7, <1>8, <1>9, <1>10, <1>12, <1>13, <1>14,
           <1>15, <1>16, <1>17, <1>18, <1>19 DEF Next, Apply

--------------------------------------------------------------------------------
(* Something to go back to *)

\* The files are as they were, and an applier not between the renames is, or goes, elsewhere.
LEMMA UncrossedElsewhere ==
  ASSUME Uncrossed, NEW a \in Appliers, act[a].at # "aside", act'[a].at \notin Installing,
         \A b \in Appliers \ {a} : act'[b] = act[b], disk' = disk, running' = running
  PROVE  Uncrossed'
BY DEF Uncrossed, Installing, Up, Runs

\* Nobody else installs while an installation is under way.
LEMMA UncrossedAlone ==
  ASSUME Uncrossed, NEW a \in Appliers, act[a].at \in Installing
  PROVE  /\ \A b \in Appliers \ {a} : act[b].at \notin Installing
         /\ act[a].at # "aside" /\ Up => Runs(disk["target"])
BY DEF Uncrossed, Installing

\* One installs, nobody else, and what it counts on is there.
LEMMA UncrossedInstalls ==
  ASSUME NEW a \in Appliers, \A b \in Appliers \ {a} : act'[b].at \notin Installing,
         act'[a].at = "download" => act'[a].fd \in {"new", "gone"},
         act'[a].at \in {"verified", "aside"} => disk'["new"] = Absent \/ Runs(disk["new"])',
         act'[a].at = "aside" => act'[a].had /\ Runs(disk["previous"])',
         Runs(disk["target"])' \/ act'[a].at = "aside"
  PROVE  Uncrossed'
BY DEF Uncrossed, Installing

LEMMA UncrossedStep ==
  ASSUME UpdaterAssumption, UpdaterInv, [Next]_vars, ~crossed'
  PROVE  Uncrossed'
<1> disk \in [Names -> Files] /\ act \in [Appliers -> Doings]
  BY DEF UpdaterInv, TypeOK, Files, Doings
<1> TypeOK /\ DownIdle
  BY DEF UpdaterInv
<1>u. Uncrossed
  <2>1. ~crossed
    BY DEF Next, Apply, vars, Publish, Crash, Boot, RollBack, latestRelease, Check, CheckFails,
           updateApply, OpenStaged, download, DownloadFails, verifyRuns, SetAside, SetAsideFails,
           Install, PutBack, Restart, RestartFails
  <2> QED BY <2>1 DEF UpdaterInv
<1>i. ASSUME NEW a \in Appliers, Ends(a)
      PROVE  act'[a] = Idle /\ \A b \in Appliers \ {a} : act'[b] = act[b]
  BY <1>i DEF Ends
<1>g. ASSUME NEW a \in Appliers, NEW s \in Steps, Goes(a, s)
      PROVE  act'[a].at = s /\ \A b \in Appliers \ {a} : act'[b] = act[b]
  BY <1>g DEF Goes, Doings
<1>s. "begin" \in Steps /\ "verified" \in Steps /\ "over" \in Steps
  BY DEF Steps, Installing
<1>n. "target" \in Names /\ "new" \in Names /\ "previous" \in Names
  BY DEF Names
<1>0. CASE UNCHANGED vars
  BY <1>u, <1>0 DEF vars, Uncrossed, Runs, Up
<1>1. CASE Publish
  BY <1>u, <1>1 DEF Publish, Uncrossed, Runs, Up
<1>r. ASSUME NEW version \in 0 .. Down, Replaced(version)
      PROVE  /\ \A a \in Appliers : act'[a] = Idle
             /\ \A n \in Names : Runs(disk[n]) => Runs(disk[n])'
  BY <1>r, ReplacedType DEF Replaced, Runs
<1>2. CASE Crash
  <2>1. Up /\ Replaced(Down) /\ Down \in 0 .. Down
    BY <1>2, AbsentType DEF Crash
  <2>2. Runs(disk["target"]) \/ Runs(disk["previous"])
    BY <1>u, <2>1 DEF Uncrossed
  <2>3. ~Up'
    BY <2>1 DEF Replaced, Up
  <2> QED BY <1>n, <1>r, <2>1, <2>2, <2>3, IdleDoesNothing DEF Uncrossed, Installing
<1>3. CASE Boot
  <2>1. (\A a \in Appliers : act'[a] = Idle) /\ Runs(disk["target"])'
    BY <1>3 DEF Boot, DownIdle, Runs
  <2> QED BY <2>1, IdleDoesNothing DEF Uncrossed, Installing
<1>4. CASE RollBack
  <2>1. \A a \in Appliers : act'[a] = Idle /\ act[a] = Idle
    BY <1>4 DEF RollBack, DownIdle
  <2>2. Runs(disk["previous"])
    BY <1>u, <1>4, <2>1, IdleDoesNothing DEF RollBack, Uncrossed, Installing
  <2>3. disk'["target"] = disk["previous"]
    BY <1>4, <1>n, RenamedType DEF RollBack
  <2> QED BY <2>1, <2>2, <2>3, IdleDoesNothing DEF Uncrossed, Installing, Runs
<1>5. ASSUME NEW a \in Appliers, latestRelease(a)
      PROVE  Uncrossed'
  <2>1. /\ act[a].at = "idle" /\ act'[a].at = "asked" /\ \A b \in Appliers \ {a} : act'[b] = act[b]
        /\ running' = running /\ disk' = disk
    BY <1>5 DEF latestRelease, At, Idle
  <2> QED BY <1>u, <2>1, UncrossedElsewhere DEF Installing
<1>6. ASSUME NEW a \in Appliers, Check(a)
      PROVE  Uncrossed'
  <2>1. act[a].at = "asked" /\ running' = running /\ disk' = disk /\ (Goes(a, "begin") \/ Ends(a))
    BY <1>6 DEF Check, At
  <2>2. act'[a].at \in {"begin", Idle.at} /\ \A b \in Appliers \ {a} : act'[b] = act[b]
    BY <1>g, <1>i, <1>s, <2>1
  <2> QED BY <1>u, <2>1, <2>2, IdleDoesNothing, UncrossedElsewhere DEF Installing
<1>7. ASSUME NEW a \in Appliers, Ends(a), act[a].at # "aside", running' = running, disk' = disk
      PROVE  Uncrossed'
  BY <1>u, <1>i, <1>7, IdleDoesNothing, UncrossedElsewhere
<1>8. ASSUME NEW a \in Appliers, CheckFails(a)
      PROVE  Uncrossed'
  BY <1>7, <1>8 DEF CheckFails, At
<1>9. ASSUME NEW a \in Appliers, updateApply(a)
      PROVE  Uncrossed'
  <2>1. /\ act[a].at = "idle" /\ act'[a].at = "begin" /\ \A b \in Appliers \ {a} : act'[b] = act[b]
        /\ running' = running /\ disk' = disk
    BY <1>9 DEF updateApply, At, Idle
  <2> QED BY <1>u, <2>1, UncrossedElsewhere DEF Installing
<1>10. ASSUME NEW a \in Appliers, OpenStaged(a)
       PROVE  Uncrossed'
  <2>1. Up /\ \A b \in Appliers : act[b].at \notin Installing
    BY <1>10 DEF OpenStaged, At
  <2>2. Runs(disk["target"]) /\ disk'["target"] = disk["target"]
    BY <1>u, <1>n, <1>10, <2>1 DEF OpenStaged, Uncrossed, Installing
  <2>3. /\ act'[a].at = "download" /\ act'[a].fd = "new"
        /\ \A b \in Appliers \ {a} : act'[b] = act[b]
    BY <1>10 DEF OpenStaged, Doings
  <2> QED BY <2>1, <2>2, <2>3, UncrossedInstalls DEF Runs
<1>11. ASSUME NEW a \in Appliers, download(a)
       PROVE  Uncrossed'
  <2>1. /\ Up /\ act[a].at = "download" /\ act'[a].at = "verify"
        /\ \A b \in Appliers \ {a} : act'[b] = act[b]
    BY <1>11 DEF download, At, Doings
  <2>2. Runs(disk["target"]) /\ \A b \in Appliers \ {a} : act[b].at \notin Installing
    BY <1>u, <2>1, UncrossedAlone DEF Installing
  <2>3. act[a].fd # "target"
    BY <1>u, <2>1 DEF Uncrossed
  <2>4. disk'["target"] = disk["target"]
    BY <1>n, <1>11, <2>3, WrittenType DEF download
  <2> QED BY <2>1, <2>2, <2>4, UncrossedInstalls DEF Runs
<1>12. ASSUME NEW a \in Appliers, GivesUp(a), act[a].at # "aside", running' = running
       PROVE  Uncrossed'
  <2>1. /\ disk'["new"] = Absent /\ disk'["target"] = disk["target"]
        /\ disk'["previous"] = disk["previous"]
    BY <1>n, <1>12, GivesUpEffect
  <2>2. act'[a].at \notin Installing
    BY <1>12, GivesUpEffect, IdleDoesNothing
  <2>3. \A b \in Appliers \ {a} :
          /\ act'[b].at = act[b].at /\ act'[b].had = act[b].had
          /\ act[b].fd \in {"new", "gone"} => act'[b].fd \in {"new", "gone"}
    BY <1>12, GivesUpEffect DEF Follow
  <2>4. Runs(disk["target"])' = Runs(disk["target"]) /\ Runs(disk["previous"])' = Runs(disk["previous"])
    BY <2>1 DEF Runs
  <2>5. ASSUME NEW b \in Appliers, act'[b].at \in Installing
        PROVE  b # a /\ act[b].at \in Installing
    BY <2>2, <2>3, <2>5
  <2>6. \A b, c \in Appliers : act'[b].at \in Installing /\ act'[c].at \in Installing => b = c
    BY <1>u, <2>5 DEF Uncrossed
  <2>7. ASSUME NEW b \in Appliers
        PROVE  /\ act'[b].at = "download" => act'[b].fd \in {"new", "gone"}
               /\ act'[b].at = "aside" => act'[b].had /\ Runs(disk["previous"])'
    BY <1>u, <2>2, <2>3, <2>4 DEF Uncrossed, Installing
  <2>8. \/ Runs(disk["target"])'
        \/ \E b \in Appliers : act'[b].at = "aside"
        \/ ~Up' /\ Runs(disk["previous"])'
    BY <1>u, <1>12, <2>3, <2>4 DEF Uncrossed, Up
  <2> QED BY <2>1, <2>6, <2>7, <2>8 DEF Uncrossed
<1>13. ASSUME NEW a \in Appliers, DownloadFails(a)
       PROVE  Uncrossed'
  BY <1>12, <1>13 DEF DownloadFails, At
<1>14. ASSUME NEW a \in Appliers, verifyRuns(a)
       PROVE  Uncrossed'
  <2>1. Up /\ act[a].at = "verify" /\ running' = running
    BY <1>14 DEF verifyRuns, At
  <2>2. CASE Runs(disk["new"]) /\ Goes(a, "verified") /\ UNCHANGED disk
    <3>1. act'[a].at = "verified" /\ \A b \in Appliers \ {a} : act'[b] = act[b]
      BY <1>g, <1>s, <2>2
    <3>2. Runs(disk["target"]) /\ \A b \in Appliers \ {a} : act[b].at \notin Installing
      BY <1>u, <2>1, UncrossedAlone DEF Installing
    <3> QED BY <2>2, <3>1, <3>2, UncrossedInstalls DEF Runs
  <2>3. CASE GivesUp(a)
    BY <1>12, <2>1, <2>3
  <2> QED BY <1>14, <2>2, <2>3 DEF verifyRuns
<1>15. ASSUME NEW a \in Appliers, SetAside(a)
       PROVE  Uncrossed'
  <2>1. Up /\ act[a].at = "verified"
    BY <1>15 DEF SetAside, At
  <2>2. Runs(disk["target"]) /\ \A b \in Appliers \ {a} : act[b].at \notin Installing
    BY <1>u, <2>1, UncrossedAlone DEF Installing
  <2>3. disk["target"] # Absent
    BY <2>2, AbsentType
  <2>4. /\ disk' = Renamed("target", "previous")
        /\ act' = Moved([act EXCEPT ![a].at = "aside", ![a].had = TRUE], "target", "previous")
    BY <1>15, <2>3 DEF SetAside
  <2>5. disk'["previous"] = disk["target"] /\ disk'["new"] = disk["new"]
    BY <2>4, RenamedType DEF Names
  <2>6. /\ act'[a].at = "aside" /\ act'[a].had
        /\ \A b \in Appliers \ {a} : act'[b].at = act[b].at
    <3> DEFINE table == [act EXCEPT ![a].at = "aside", ![a].had = TRUE]
    <3>1. /\ table \in [Appliers -> Doings] /\ table[a].at = "aside" /\ table[a].had
          /\ \A b \in Appliers \ {a} : table[b] = act[b]
      BY DEF Doings, Steps, Installing
    <3>2. act' = Moved(table, "target", "previous")
      BY <2>4
    <3> HIDE DEF table
    <3>3. \A b \in Appliers : act'[b].at = table[b].at /\ act'[b].had = table[b].had
      BY <1>n, <3>1, <3>2, MovedEffect
    <3> QED BY <3>1, <3>3
  <2>7. disk["new"] = Absent \/ Runs(disk["new"])
    BY <1>u, <2>1 DEF Uncrossed
  <2> QED BY <2>2, <2>5, <2>6, <2>7, UncrossedInstalls DEF Runs
<1>16. ASSUME NEW a \in Appliers, SetAsideFails(a)
       PROVE  Uncrossed'
  BY <1>7, <1>16 DEF SetAsideFails, At
<1>17. ASSUME NEW a \in Appliers, Install(a)
       PROVE  Uncrossed'
  <2>1. /\ act[a].at = "aside" /\ disk["new"] # Absent /\ disk' = Renamed("new", "target")
        /\ act' = Moved([act EXCEPT ![a].at = "installed"], "new", "target")
    BY <1>17 DEF Install, At
  <2>2. Runs(disk["new"]) /\ disk'["target"] = disk["new"]
    BY <1>u, <1>n, <2>1, RenamedType DEF Uncrossed
  <2>3. \A b \in Appliers \ {a} : act[b].at \notin Installing
    BY <1>u, <2>1, UncrossedAlone DEF Installing
  <2>4. act'[a].at = "installed" /\ \A b \in Appliers \ {a} : act'[b].at = act[b].at
    <3> DEFINE table == [act EXCEPT ![a].at = "installed"]
    <3>1. /\ table \in [Appliers -> Doings] /\ table[a].at = "installed"
          /\ \A b \in Appliers \ {a} : table[b] = act[b]
      BY DEF Doings, Steps, Installing
    <3>2. act' = Moved(table, "new", "target")
      BY <2>1
    <3> HIDE DEF table
    <3>3. \A b \in Appliers : act'[b].at = table[b].at
      BY <1>n, <3>1, <3>2, MovedEffect
    <3> QED BY <3>1, <3>3
  <2> QED BY <2>2, <2>3, <2>4, UncrossedInstalls DEF Runs
<1>18. ASSUME NEW a \in Appliers, PutBack(a)
       PROVE  Uncrossed'
  <2>1. act[a].at = "aside"
    BY <1>18 DEF PutBack, At
  <2>2. /\ act[a].had /\ Runs(disk["previous"])
        /\ \A b \in Appliers \ {a} : act[b].at \notin Installing
    BY <1>u, <2>1, UncrossedAlone DEF Uncrossed, Installing
  <2>3. disk["previous"] # Absent
    BY <2>2, AbsentType
  <2>4. /\ disk' = Renamed("previous", "target")
        /\ act' = Moved([act EXCEPT ![a] = Idle], "previous", "target")
    BY <1>18, <2>2, <2>3 DEF PutBack
  <2>5. disk'["target"] = disk["previous"]
    BY <1>n, <2>4, RenamedType
  <2>6. act'[a].at = Idle.at /\ \A b \in Appliers \ {a} : act'[b].at = act[b].at
    <3> DEFINE table == [act EXCEPT ![a] = Idle]
    <3>1. /\ table \in [Appliers -> Doings] /\ table[a] = Idle
          /\ \A b \in Appliers \ {a} : table[b] = act[b]
      BY DEF Idle, Doings, Steps, UpdaterAssumption
    <3>2. act' = Moved(table, "previous", "target")
      BY <2>4
    <3> HIDE DEF table
    <3>3. \A b \in Appliers : act'[b].at = table[b].at
      BY <1>n, <3>1, <3>2, MovedEffect
    <3> QED BY <3>1, <3>3
  <2> QED BY <2>2, <2>5, <2>6, IdleDoesNothing DEF Uncrossed, Installing, Runs
<1>19. ASSUME NEW a \in Appliers, Restart(a)
       PROVE  Uncrossed'
  <2>1. Up /\ act[a].at = "installed"
    BY <1>19 DEF Restart, At
  <2>2. Runs(disk["target"])
    BY <1>u, <2>1, UncrossedAlone DEF Installing
  <2>3. PICK version \in 0 .. Down : Replaced(version)
    BY <1>19, <1>n, AbsentType DEF Restart, Files
  <2> QED BY <1>n, <1>r, <2>2, <2>3, IdleDoesNothing DEF Uncrossed, Installing
<1>20. ASSUME NEW a \in Appliers, RestartFails(a)
       PROVE  Uncrossed'
  <2>1. /\ act[a].at = "installed" /\ running' = running /\ disk' = disk
        /\ Goes(a, "over") \/ Ends(a)
    BY <1>20 DEF RestartFails, At
  <2>2. act'[a].at \in {"over", Idle.at} /\ \A b \in Appliers \ {a} : act'[b] = act[b]
    BY <1>g, <1>i, <1>s, <2>1
  <2> QED BY <1>u, <2>1, <2>2, IdleDoesNothing, UncrossedElsewhere DEF Installing
<1> QED BY <1>0, <1>1, <1>2, <1>3, <1>4, <1>5, <1>6, <1>8, <1>9, <1>10, <1>11, <1>13, <1>14,
           <1>15, <1>16, <1>17, <1>18, <1>19, <1>20 DEF Next, Apply

--------------------------------------------------------------------------------
(* Theorems *)

LEMMA DownIdleStep ==
  ASSUME DownIdle, [Next]_vars
  PROVE  DownIdle'
<1>1. CASE \E version : Replaced(version)
  BY <1>1 DEF DownIdle, Replaced, NoUpdate
<1>2. CASE Publish \/ Boot \/ RollBack \/ UNCHANGED vars
  BY <1>2 DEF DownIdle, Publish, Boot, RollBack, vars, Up
<1>3. CASE Up /\ running' = running
  BY <1>3 DEF DownIdle, Up
<1>4. ASSUME Crash \/ \E a \in Appliers : Restart(a)
      PROVE  \E version : Replaced(version)
  BY <1>4 DEF Crash, Restart
<1>5. ASSUME NEW a \in Appliers,
             \/ latestRelease(a) \/ Check(a) \/ CheckFails(a) \/ updateApply(a)
             \/ Apply(a) /\ ~Restart(a)
      PROVE  Up /\ running' = running
  BY <1>5 DEF Apply, latestRelease, Check, CheckFails, updateApply, OpenStaged, download,
              DownloadFails, verifyRuns, SetAside, SetAsideFails, Install, PutBack, RestartFails, At
<1> QED BY <1>1, <1>2, <1>3, <1>4, <1>5 DEF Next

THEOREM UpdaterInvariant == Spec => []UpdaterInv
<1>1. UpdaterInit => UpdaterInv
  BY UpdaterAssumption, InitHolds
<1>2. UpdaterInv /\ [Next]_vars => UpdaterInv'
  <2> SUFFICES ASSUME UpdaterInv, [Next]_vars
               PROVE  UpdaterInv'
    OBVIOUS
  <2>1. TypeOK'
    BY UpdaterAssumption, StepKeepsTypes DEF UpdaterInv
  <2>2. DownIdle'
    BY DownIdleStep DEF UpdaterInv
  <2>3. Freshness'
    BY UpdaterAssumption, <2>1, FreshnessStep
  <2>4. ~crossed' => Uncrossed'
    BY UpdaterAssumption, UncrossedStep
  <2> QED BY <2>1, <2>2, <2>3, <2>4 DEF UpdaterInv
<1> QED BY <1>1, <1>2, PTL DEF Spec

\* Every variable of the updater keeps its type.
THEOREM UpdaterTypeCorrect == Spec => []TypeOK
<1>1. UpdaterInv => TypeOK
  BY DEF UpdaterInv
<1> QED BY <1>1, UpdaterInvariant, PTL

\* Whatever fails, and wherever between two steps of Apply the process ends, the target or
\* the binary set aside runs, unless two installations were under way at a time.
THEOREM RecoverableHolds == Spec => []Recoverable
<1>1. UpdaterInv => Recoverable
  BY DEF UpdaterInv, Recoverable, Uncrossed
<1> QED BY <1>1, UpdaterInvariant, PTL

\* No exec replaces the process by a build of an older version, for any number of requests
\* and any order of versions among the releases, crossed installations included.
THEOREM NeverDowngradedHolds == Spec => NeverDowngraded
<1>1. ASSUME UpdaterInv, UpdaterInv', [Next]_vars
      PROVE  [Up /\ running' # Down => ~Older(running', running)]_vars
  <2> SUFFICES ASSUME Next, Up, running' # Down
               PROVE  ~Older(running', running)
    BY <1>1
  <2>1. running \in 0 .. MaxVersion
    BY UpdaterAssumption, <1>1 DEF UpdaterInv, TypeOK, Up, Down, UpdaterAssumption
  <2>2. CASE running' = running
    BY UpdaterAssumption, <2>1, <2>2, OlderAsymmetric
  <2>3. CASE running' # running
    <3>1. PICK a \in Appliers : Restart(a)
      BY <2>3 DEF Next, Apply, Publish, Crash, Replaced, Boot, RollBack, latestRelease, Check,
                  CheckFails, updateApply, OpenStaged, download, DownloadFails, verifyRuns, SetAside,
                  SetAsideFails, Install, PutBack, RestartFails
    <3>2. running' = disk["target"].build
      BY <3>1 DEF Restart, Replaced
    <3> QED BY <1>1, <3>2 DEF UpdaterInv, Freshness, Fresh
  <2> QED BY <2>2, <2>3
<1> QED BY <1>1, UpdaterInvariant, PTL DEF Spec, NeverDowngraded
================================================================================
