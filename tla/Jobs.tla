------------------------------- MODULE Jobs -------------------------------
(***************************************************************************)
(* The job supervisor of one machine (the worker: internal/jobs) and the   *)
(* mirror another machine (the origin) keeps of the jobs it sent there     *)
(* (internal/api/mesh.go).  A job is a process group with a leader, the    *)
(* shell, and perhaps descendants that keep its output pipes open; a       *)
(* goroutine runs it and waits for it; a row of the database records it.   *)
(* Either daemon may end and be started again at any moment: its           *)
(* goroutines and maps go with it, processes need not.                     *)
(*                                                                         *)
(* A command's output is numbered line by line.  A terminal's is numbered  *)
(* chunk by chunk, as it is read, while the terminal is open, and by the   *)
(* lines of its file from then on.                                         *)
(*                                                                         *)
(* Simplifications: descendants keep the pipes they inherit; an output     *)
(* line or chunk is its number; commands, titles and folders are left out. *)
(***************************************************************************)
EXTENDS Naturals, Sequences

CONSTANTS Jobs,        \* identifiers of jobs, as NewID hands them out
          MaxLines,    \* bound: lines, or chunks, of output of one job
          MaxNewlines, \* bound: newlines in one chunk of a terminal
          TailLimit,   \* maxTailLines: lines a reader is given, and the origin keeps, at most
          MaxDowns     \* bound: ends of each daemon

ASSUME JobsAssumption ==
    MaxLines \in Nat /\ MaxNewlines \in Nat /\ TailLimit \in Nat \ {0} /\ MaxDowns \in Nat

VARIABLES
    row,       \* the worker's database: state of each job
    task,      \* how far Supervisor.exec is with it
    proc,      \* its process group
    exit,      \* how the leader ended
    stopping,  \* running.stopping
    stopper,   \* how far a call of Supervisor.Stop is
    timer,     \* is the goroutine that sends KILL still to come?
    kind,      \* Job.Kind, as far as exec looks at it
    lines,     \* running.seq: lines, or chunks, given to the tail
    file,      \* the log file: newlines in it, and does a line begin after the last?
    worker,    \* is the worker's daemon up?
    mirror,    \* the origin's database: state of each remote job
    reply,     \* an answer to the request that created the job, on its way
    monitor,   \* how far monitorRemoteJob is with it
    polled,    \* the row it was answered
    copied,    \* remoteLogs: the numbers of the lines the origin keeps
    origin,    \* is the origin's daemon up?
    downs      \* how often each daemon ended (bound)

workerVars == <<row, task, proc, exit, stopping, stopper, timer, kind, lines, file>>
output == <<kind, lines, file>>
originVars == <<mirror, reply, monitor, polled, copied>>
vars == <<workerVars, originVars, worker, origin, downs>>

\* "interrupted" is the state stopped with the error "interrupted by node restart".
Terminal  == {"succeeded", "failed", "stopped", "interrupted"}
Active    == {"queued", "running"}
Rows      == {"none"} \cup Active \cup Terminal
Alive     == {"up", "leftover"}

TypeOK ==
    /\ row \in [Jobs -> Rows] /\ mirror \in [Jobs -> Rows] /\ polled \in [Jobs -> Rows]
    /\ task \in [Jobs -> {"none", "queued", "spawned", "live", "waiting", "reaped", "ended"}]
    /\ proc \in [Jobs -> {"none", "up", "leftover", "down"}]
    /\ exit \in [Jobs -> {"none", "ok", "bad", "signal"}]
    /\ stopping \in [Jobs -> BOOLEAN] /\ timer \in [Jobs -> BOOLEAN]
    /\ stopper \in [Jobs -> {"idle", "found", "marked", "termed"}]
    /\ kind \in [Jobs -> {"none", "command", "terminal"}]
    /\ lines \in [Jobs -> 0..MaxLines]
    /\ file \in [Jobs -> [ended : Nat, open : BOOLEAN]]
    /\ reply \in [Jobs -> BOOLEAN]
    /\ monitor \in [Jobs -> {"none", "polling", "answered", "synced", "whole", "cut"}]
    /\ copied \in [Jobs -> Seq(Nat)]
    /\ worker \in BOOLEAN /\ origin \in BOOLEAN
    /\ downs \in [{"worker", "origin"} -> 0..MaxDowns]

Init ==
    /\ row = [j \in Jobs |-> "none"] /\ mirror = [j \in Jobs |-> "none"]
    /\ polled = [j \in Jobs |-> "none"]
    /\ task = [j \in Jobs |-> "none"]
    /\ proc = [j \in Jobs |-> "none"]
    /\ exit = [j \in Jobs |-> "none"]
    /\ stopping = [j \in Jobs |-> FALSE] /\ timer = [j \in Jobs |-> FALSE]
    /\ stopper = [j \in Jobs |-> "idle"]
    /\ kind = [j \in Jobs |-> "none"]
    /\ lines = [j \in Jobs |-> 0] /\ file = [j \in Jobs |-> [ended |-> 0, open |-> FALSE]]
    /\ reply = [j \in Jobs |-> FALSE]
    /\ monitor = [j \in Jobs |-> "none"]
    /\ copied = [j \in Jobs |-> <<>>]
    /\ worker = TRUE /\ origin = TRUE
    /\ downs = [d \in {"worker", "origin"} |-> 0]

live(j) == task[j] \in {"live", "waiting"}   \* is the job in Supervisor.live?

---------------------------------------------------------------------------
(* The worker: one job from its request to its record *)

CreateJob(j) ==
    /\ worker /\ row[j] = "none"
    /\ kind' \in {[kind EXCEPT ![j] = k] : k \in {"command", "terminal"}}
    /\ row' = [row EXCEPT ![j] = "queued"]
    /\ task' = [task EXCEPT ![j] = "queued"]
    /\ UNCHANGED <<proc, exit, stopping, stopper, timer, lines, file>>

\* A request of this machine's own user, or one admitted for the origin.
StartLocal(j)  == CreateJob(j) /\ UNCHANGED <<originVars, worker, origin, downs>>
StartRemote(j) ==
    /\ origin /\ CreateJob(j)
    /\ reply' = [reply EXCEPT ![j] = TRUE]
    /\ UNCHANGED <<mirror, monitor, polled, copied, worker, origin, downs>>

\* Plausible slip.
GiveUpQuietly(j) ==
    /\ worker /\ task[j] = "queued"
    /\ task' = [task EXCEPT ![j] = "ended"]
    /\ UNCHANGED <<row, proc, exit, stopping, stopper, timer, output, originVars, worker, origin, downs>>

\* exec gives up before there is a process.
CannotStart(j) ==
    /\ worker /\ task[j] = "queued"
    /\ row' = [row EXCEPT ![j] = "failed"]
    /\ task' = [task EXCEPT ![j] = "ended"]
    /\ UNCHANGED <<proc, exit, stopping, stopper, timer, output, originVars, worker, origin, downs>>

Spawn(j) ==
    /\ worker /\ task[j] = "queued"
    /\ proc' = [proc EXCEPT ![j] = "up"]
    /\ task' = [task EXCEPT ![j] = "spawned"]
    /\ UNCHANGED <<row, exit, stopping, stopper, timer, output, originVars, worker, origin, downs>>

Register(j) ==
    /\ worker /\ task[j] = "spawned"
    /\ task' = [task EXCEPT ![j] = "live"]
    /\ UNCHANGED <<row, proc, exit, stopping, stopper, timer, output, originVars, worker, origin, downs>>

StartJob(j) ==
    /\ worker /\ task[j] = "live"
    /\ row' = [row EXCEPT ![j] = "running"]
    /\ task' = [task EXCEPT ![j] = "waiting"]
    /\ UNCHANGED <<proc, exit, stopping, stopper, timer, output, originVars, worker, origin, downs>>

WriteOutput(j) == /\ worker /\ task[j] = "waiting" /\ proc[j] \in Alive /\ lines[j] < MaxLines
                  /\ lines' = [lines EXCEPT ![j] = @ + 1]
                  /\ UNCHANGED <<row, task, proc, exit, stopping, stopper, timer, kind,
                                 originVars, worker, origin, downs>>

\* A line, which ends in the file even when the program left it unended.
pump(j) ==
    /\ kind[j] = "command" /\ WriteOutput(j)
    /\ file' = [file EXCEPT ![j] = [ended |-> @.ended + 1, open |-> FALSE]]

\* What one Read returned, with any newlines in it, and perhaps the beginning of a line
\* after them; or a line of the terminal's stderr, which goes the way of a command's.
pumpChunks(j) ==
    /\ kind[j] = "terminal" /\ WriteOutput(j)
    /\ \E n \in 0..MaxNewlines, open \in BOOLEAN :
          /\ n = 0 => open
          /\ file' = [file EXCEPT ![j] = [ended |-> @.ended + n, open |-> open]]

\* Both pipes are at their end and Wait has returned.
Reap(j) ==
    /\ worker /\ task[j] = "waiting" /\ proc[j] = "down"
    /\ task' = [task EXCEPT ![j] = "reaped"]
    /\ UNCHANGED <<row, proc, exit, stopping, stopper, timer, output, originVars, worker, origin, downs>>

\* cancel is called by Stop and after stopping is set, so the flag covers it.
classify(j) == IF stopping[j] THEN "stopped"
               ELSE IF exit[j] = "ok" THEN "succeeded" ELSE "failed"

FinishJob(j) ==
    /\ worker /\ task[j] = "reaped"
    /\ row' = [row EXCEPT ![j] = classify(j)]
    /\ task' = [task EXCEPT ![j] = "ended"]
    /\ UNCHANGED <<proc, exit, stopping, stopper, timer, output, originVars, worker, origin, downs>>

---------------------------------------------------------------------------
(* Supervisor.Stop: of the user, of the origin, or of a shutdown *)

StopFind(j) ==
    /\ worker /\ live(j) /\ stopper[j] = "idle"
    /\ stopper' = [stopper EXCEPT ![j] = "found"]
    /\ UNCHANGED <<row, task, proc, exit, stopping, timer, output, originVars, worker, origin, downs>>

StopAll ==
    /\ worker
    /\ \E j \in Jobs : live(j) /\ stopper[j] = "idle"
    /\ stopper' = [j \in Jobs |-> IF live(j) /\ stopper[j] = "idle" THEN "found" ELSE stopper[j]]
    /\ UNCHANGED <<row, task, proc, exit, stopping, timer, output, originVars, worker, origin, downs>>

\* Plausible slip.
StopUnmarked(j) ==
    /\ worker /\ stopper[j] = "found"
    /\ stopper' = [stopper EXCEPT ![j] = "marked"]
    /\ UNCHANGED <<row, task, proc, exit, stopping, timer, output, originVars, worker, origin, downs>>

StopMark(j) ==
    /\ worker /\ stopper[j] = "found"
    /\ stopping' = [stopping EXCEPT ![j] = TRUE]
    /\ stopper' = [stopper EXCEPT ![j] = "marked"]
    /\ UNCHANGED <<row, task, proc, exit, timer, output, originVars, worker, origin, downs>>

\* What a signal may leave of a process group: all of it, when it is ignored,
\* the descendants that ignore it, or nothing.
After(signal, p) ==
    IF p \notin Alive THEN {p}
    ELSE CASE signal = "term" -> {p, "leftover", "down"}   \* to the whole group
           [] signal = "leader" ->                         \* CommandContext's KILL
                IF p = "up" THEN {"leftover", "down"} ELSE {p}
           [] OTHER -> {"down"}                            \* KILL to the group

Signal(signal, j) ==
    /\ proc' \in {[proc EXCEPT ![j] = p] : p \in After(signal, proc[j])}
    /\ exit' = [exit EXCEPT ![j] = IF proc[j] = "up" /\ proc'[j] # "up" THEN "signal" ELSE @]

StopTerm(j) ==
    /\ worker /\ stopper[j] = "marked"
    /\ Signal("term", j)
    /\ timer' = [timer EXCEPT ![j] = @ \/ proc[j] \in Alive]
    /\ stopper' = [stopper EXCEPT ![j] = "termed"]
    /\ UNCHANGED <<row, task, stopping, output, originVars, worker, origin, downs>>

\* Wait has returned once the job is reaped: then nothing watches the context.
StopCancel(j) ==
    /\ worker /\ stopper[j] = "termed"
    /\ IF task[j] \in {"reaped", "ended"} THEN UNCHANGED <<proc, exit>> ELSE Signal("leader", j)
    /\ stopper' = [stopper EXCEPT ![j] = "idle"]
    /\ UNCHANGED <<row, task, stopping, timer, output, originVars, worker, origin, downs>>

Escalate(j) ==
    /\ worker /\ timer[j]
    /\ Signal("kill", j)
    /\ timer' = [timer EXCEPT ![j] = FALSE]
    /\ UNCHANGED <<row, task, stopping, stopper, output, originVars, worker, origin, downs>>

---------------------------------------------------------------------------
(* The process itself (external) *)

ProcessEnds(j) ==
    /\ \/ /\ proc[j] = "up"
          /\ proc' \in {[proc EXCEPT ![j] = p] : p \in {"leftover", "down"}}
          /\ exit' \in {[exit EXCEPT ![j] = e] : e \in {"ok", "bad"}}
       \/ /\ proc[j] = "leftover"
          /\ proc' = [proc EXCEPT ![j] = "down"]
          /\ UNCHANGED exit
    /\ UNCHANGED <<row, task, stopping, stopper, timer, output, originVars, worker, origin, downs>>

---------------------------------------------------------------------------
(* The worker's daemon ends - a crash, the exec of an update, the end of a  *)
(* shutdown that began with StopAll - and starts again.                     *)

WorkerEnds ==
    /\ worker /\ downs["worker"] < MaxDowns
    /\ downs' = [downs EXCEPT !["worker"] = @ + 1]
    /\ worker' = FALSE
    /\ task' = [j \in Jobs |-> IF task[j] = "none" THEN "none" ELSE "ended"]
    /\ stopping' = [j \in Jobs |-> FALSE] /\ timer' = [j \in Jobs |-> FALSE]
    /\ stopper' = [j \in Jobs |-> "idle"]
    \* A service manager may end the unit's processes with it; exec and a kill do not.
    /\ \/ UNCHANGED <<proc, exit>>
       \/ /\ proc' = [j \in Jobs |-> IF proc[j] \in Alive THEN "down" ELSE proc[j]]
          /\ exit' = [j \in Jobs |-> IF proc[j] = "up" THEN "signal" ELSE exit[j]]
    /\ UNCHANGED <<row, output, originVars, origin>>

RecoverRunningJobs(r) == [j \in Jobs |-> IF r[j] \in Active THEN "interrupted" ELSE r[j]]

WorkerStarts ==
    /\ ~worker /\ worker' = TRUE
    /\ row' = RecoverRunningJobs(row)
    /\ UNCHANGED <<task, proc, exit, stopping, stopper, timer, output, originVars, origin, downs>>

---------------------------------------------------------------------------
(* The origin: the answer, the mirror, and its monitor *)

CreateRemoteJob(j) ==
    /\ origin /\ reply[j]
    /\ reply' = [reply EXCEPT ![j] = FALSE]
    /\ mirror' = [mirror EXCEPT ![j] = "queued"]
    /\ monitor' = [monitor EXCEPT ![j] = "polling"]
    /\ UNCHANGED <<polled, copied, workerVars, worker, origin, downs>>

\* The connection breaks first: the user is told the worker refused the job.
AnswerLost(j) ==
    /\ reply[j]
    /\ reply' = [reply EXCEPT ![j] = FALSE]
    /\ UNCHANGED <<mirror, monitor, polled, copied, workerVars, worker, origin, downs>>

\* Plausible slip.
UnreachableMeansFailed(j) ==
    \/ /\ origin /\ worker /\ monitor[j] = "polling"
       /\ polled' = [polled EXCEPT ![j] = row[j]]
       /\ monitor' = [monitor EXCEPT ![j] = "answered"]
       /\ UNCHANGED <<mirror, reply, copied, workerVars, worker, origin, downs>>
    \/ /\ origin /\ ~worker /\ monitor[j] = "polling"
       /\ mirror' = [mirror EXCEPT ![j] = "failed"]
       /\ monitor' = [monitor EXCEPT ![j] = "cut"]
       /\ UNCHANGED <<reply, polled, copied, workerVars, worker, origin, downs>>

Poll(j) ==
    /\ origin /\ worker /\ monitor[j] = "polling"
    /\ polled' = [polled EXCEPT ![j] = row[j]]
    /\ monitor' = [monitor EXCEPT ![j] = "answered"]
    /\ UNCHANGED <<mirror, reply, copied, workerVars, worker, origin, downs>>

\* Plausible slip.
LeaveWithTheResult(j) ==
    /\ origin /\ monitor[j] = "answered"
    /\ mirror' = [mirror EXCEPT ![j] = polled[j]]
    /\ monitor' = [monitor EXCEPT ![j] = IF polled[j] \in Terminal THEN "whole" ELSE "synced"]
    /\ UNCHANGED <<reply, polled, copied, workerVars, worker, origin, downs>>

SyncRemoteJob(j) ==
    /\ origin /\ monitor[j] = "answered"
    /\ mirror' = [mirror EXCEPT ![j] = polled[j]]
    /\ monitor' = [monitor EXCEPT ![j] = "synced"]
    /\ UNCHANGED <<reply, polled, copied, workerVars, worker, origin, downs>>

lastSeq(log) == IF log = <<>> THEN 0 ELSE log[Len(log)]

\* The number of the newest line a reader is given: of the tail in memory, or, once exec
\* has taken the job out of Supervisor.live, of the file.
newestSeq(j) == IF live(j) THEN lines[j] ELSE file[j].ended + (IF file[j].open THEN 1 ELSE 0)

\* The numbers after n, and the last TailLimit of some.
Since(j, n) == [i \in 1..newestSeq(j) - n |-> n + i]
Newest(log) ==
    IF Len(log) > TailLimit THEN SubSeq(log, Len(log) - TailLimit + 1, Len(log)) ELSE log

\* Supervisor.Tail.
TailOf(j) == Newest(Since(j, 0))

\* What is new of the tail is what comes after lastSeq and is in the tail.
CopyLog(j) ==
    /\ origin /\ monitor[j] = "synced" /\ worker
    /\ copied' = [copied EXCEPT ![j] = Newest(@ \o Newest(Since(j, lastSeq(@))))]
    /\ monitor' = [monitor EXCEPT ![j] = IF polled[j] \in Terminal THEN "whole" ELSE "polling"]
    /\ UNCHANGED <<mirror, reply, polled, workerVars, worker, origin, downs>>

\* Plausible slip.
StopMonitorOnError(j) ==
    /\ origin /\ monitor[j] = "synced"
    /\ monitor' = [monitor EXCEPT ![j] = "cut"]
    /\ UNCHANGED <<mirror, reply, polled, copied, workerVars, worker, origin, downs>>

\* The request for the lines fails: the round goes on without them.
CopyFails(j) ==
    /\ origin /\ monitor[j] = "synced"
    /\ monitor' = [monitor EXCEPT ![j] = IF polled[j] \in Terminal THEN "cut" ELSE "polling"]
    /\ UNCHANGED <<mirror, reply, polled, copied, workerVars, worker, origin, downs>>

OriginEnds ==
    /\ origin /\ downs["origin"] < MaxDowns
    /\ downs' = [downs EXCEPT !["origin"] = @ + 1]
    /\ origin' = FALSE
    /\ reply' = [j \in Jobs |-> FALSE]
    /\ monitor' = [j \in Jobs |-> "none"]
    /\ copied' = [j \in Jobs |-> <<>>]
    /\ polled' = [j \in Jobs |-> "none"]
    /\ UNCHANGED <<mirror, workerVars, worker>>

OriginStarts ==
    /\ ~origin /\ origin' = TRUE
    /\ mirror' = RecoverRunningJobs(mirror)
    /\ UNCHANGED <<reply, monitor, polled, copied, workerVars, worker, downs>>

---------------------------------------------------------------------------

Exec(j)      == CannotStart(j) \/ Spawn(j) \/ Register(j) \/ StartJob(j) \/ Reap(j) \/ FinishJob(j)
Stop(j)      == StopMark(j) \/ StopTerm(j) \/ StopCancel(j)
Monitor(j)   == Poll(j) \/ SyncRemoteJob(j) \/ CopyLog(j)

Next ==
    \/ \E j \in Jobs :
          \/ StartLocal(j) \/ StartRemote(j)
          \/ Exec(j) \/ pump(j) \/ pumpChunks(j) \/ ProcessEnds(j)
          \/ StopFind(j) \/ Stop(j) \/ Escalate(j)
          \/ CreateRemoteJob(j) \/ AnswerLost(j) \/ Monitor(j) \/ CopyFails(j)
    \/ StopAll
    \/ WorkerEnds \/ WorkerStarts \/ OriginEnds \/ OriginStarts

Spec == Init /\ [][Next]_vars

(***************************************************************************)
(* Goroutines are scheduled, the monitor's ticker ticks, and a daemon that *)
(* ended is started again some time.  A process owes nobody its end, a     *)
(* request may fail as often as it likes.                                  *)
(***************************************************************************)
FairSpec ==
    /\ Spec
    /\ \A j \in Jobs :
          /\ WF_vars(Exec(j)) /\ WF_vars(Stop(j)) /\ WF_vars(Escalate(j))
          /\ WF_vars(CreateRemoteJob(j)) /\ WF_vars(Monitor(j) \/ CopyFails(j))
    /\ WF_vars(WorkerStarts) /\ WF_vars(OriginStarts)

---------------------------------------------------------------------------
(* Properties *)

\* A job that a stop brought down is never recorded as one that failed by itself,
\* however the exit of its processes and the call of Stop interleave (jobs.go:48-50).
KilledMeansStopped ==
    \A j \in Jobs : exit[j] = "signal" /\ row[j] \in Terminal => row[j] \in {"stopped", "interrupted"}

\* The origin shows a job as succeeded, failed or stopped only when the worker recorded that.
MirrorHonest ==
    \A j \in Jobs : mirror[j] \in {"succeeded", "failed", "stopped"} => row[j] = mirror[j]

\* The origin's lines of a command are in order, none missing between two and none there
\* twice; when the monitor has seen the job's end and got the lines once more, they are the
\* tail the worker itself would show.
LogWhole ==
    \A j \in Jobs : kind[j] # "terminal" =>
        /\ \A i \in 1..Len(copied[j]) - 1 : copied[j][i + 1] = copied[j][i] + 1
        /\ monitor[j] = "whole" => copied[j] = TailOf(j)

\* exec always reaches a terminal state, whatever goes wrong (jobs.go:152-153): a job
\* without a living process gets one or gets its result, restarts included.
AlwaysRecorded ==
    \A j \in Jobs : (row[j] \in Active /\ proc[j] \notin Alive) ~> (proc[j] \in Alive \/ row[j] \in Terminal)

\* What the worker recorded reaches the machine that asked for the job, unless the daemon
\* there ends first: nothing resumes its monitors.
MirrorArrives ==
    \A j \in Jobs : (monitor[j] # "none" /\ row[j] \in Terminal) ~> (mirror[j] = row[j] \/ ~origin)

(* Statements the code does not keep *)

\* jobs.go:325-330: everything downstream of the pump agrees on one order, and who reads the
\* file sees what who watched live saw.  Of a terminal the origin keeps chunks under the numbers
\* of lines: once it closes, the monitor takes what has a higher number than the last chunk.
OneOrder == \A j \in Jobs : monitor[j] = "whole" => copied[j] = TailOf(j)

\* store.go:675-677: a job recorded as interrupted cannot still be running.
InterruptedIsOver ==
    \A j \in Jobs : row[j] = "interrupted" \/ mirror[j] = "interrupted" => proc[j] \notin Alive
===========================================================================
