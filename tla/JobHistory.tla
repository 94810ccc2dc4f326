----------------------------- MODULE JobHistory -----------------------------
(***************************************************************************)
(* The history of Ray jobs an account service keeps for one network.       *)
(* Every device of the network reads the head's job list                   *)
(* (startJobHistorySync), puts what it saw in an outbox of its own         *)
(* database (QueueRayJobs), reports the outbox (RecordNetworkJobs on the   *)
(* service) and deletes what was acknowledged (AckRayJobs).  Devices work  *)
(* at different speeds, so the service receives old observations after     *)
(* newer ones; an answer may be lost, and a daemon may end between any two *)
(* steps.  A reader combines a live list with the history (getRayJobs).    *)
(*                                                                         *)
(* A record is [id, status, started]; started = 0 means Ray has not given  *)
(* the run a start yet.  The three final states are one, "ENDED", texts    *)
(* and end times are left out, and the batches of 100 are one batch.       *)
(***************************************************************************)
EXTENDS Naturals, SequencesExt

CONSTANTS Devices,   \* enrolled devices of the network
          Ids,       \* submission identifiers
          MaxStart,  \* bound: start times Ray gives out
          MaxEnds,   \* bound: how often a daemon ends
          MaxHeads   \* bound: how many heads take over from the first

ASSUME HistoryAssumption ==
    /\ MaxStart \in Nat /\ MaxEnds \in Nat /\ MaxHeads \in Nat

VARIABLES
    ray,       \* the head's own list: at most one record of an identifier
    heads,     \* heads that took over (bound)
    clock,     \* the last start time given out
    reported,  \* every record some head's list ever held
    phase,     \* how far the device's loop is in its cycle
    seen,      \* the list it read
    previous,  \* the list it queued last, as a set; none after a start
    outbox,    \* ray_job_outbox
    mayReport, \* is the devices' account a contributor of the network?
    history,   \* the service's ray_job_history
    ends       \* how often a daemon ended (bound)

historyVars == <<ray, heads, clock, reported, phase, seen, previous, outbox, mayReport,
          history, ends>>
deviceVars == <<phase, seen, previous, outbox>>
rayVars    == <<ray, heads, clock, reported>>

Statuses == {"PENDING", "RUNNING", "ENDED"}
Records  == [id : Ids, status : Statuses, started : 0..MaxStart]
Running(r) == r.status \in {"PENDING", "RUNNING"}
SameRun(r, s) == r.id = s.id /\ r.started = s.started     \* rayHistoryKey and the tables' keys

HistoryTypeOK ==
    /\ ray \subseteq Records /\ reported \subseteq Records /\ clock \in 0..MaxStart
    /\ heads \in 0..MaxHeads /\ ends \in 0..MaxEnds
    /\ phase \in [Devices -> {"idle", "read", "queued", "sent", "answered"}]
    /\ seen \in [Devices -> SUBSET Records]
    /\ previous \in [Devices -> SUBSET SUBSET Records]
    /\ outbox \in [Devices -> SUBSET Records]
    /\ mayReport \in BOOLEAN
    /\ history \subseteq Records

HistoryInit ==
    /\ ray = {} /\ reported = {} /\ clock = 0 /\ heads = 0 /\ ends = 0
    /\ phase = [d \in Devices |-> "idle"]
    /\ seen = [d \in Devices |-> {}]
    /\ previous = [d \in Devices |-> {}]
    /\ outbox = [d \in Devices |-> {}]
    /\ mayReport = TRUE
    /\ history = {}

---------------------------------------------------------------------------
(* Ray (external): a run is submitted, started and ended; a new head knows  *)
(* nothing of the old one's runs and may be given the same identifier.      *)

Lists(new) == ray' = new /\ reported' = reported \cup new /\ UNCHANGED heads

submitRayJob(i) ==
    /\ \A r \in ray : r.id # i
    /\ Lists(ray \cup {[id |-> i, status |-> "PENDING", started |-> 0]})
    /\ UNCHANGED <<clock, deviceVars, mayReport, history, ends>>

RayStarts(r) ==
    /\ r.status = "PENDING" /\ clock < MaxStart /\ clock' = clock + 1
    /\ Lists((ray \ {r}) \cup {[r EXCEPT !.status = "RUNNING", !.started = clock']})
    /\ UNCHANGED <<deviceVars, mayReport, history, ends>>

\* A run that never started may end as well: it was stopped, or it failed early.
RayEnds(r) ==
    /\ Running(r)
    /\ Lists((ray \ {r}) \cup {[r EXCEPT !.status = "ENDED"]})
    /\ UNCHANGED <<clock, deviceVars, mayReport, history, ends>>

NewHead ==
    /\ heads < MaxHeads /\ heads' = heads + 1
    /\ ray' = {}
    /\ UNCHANGED <<clock, reported, deviceVars, mayReport, history, ends>>

---------------------------------------------------------------------------
(* A device's loop *)

\* No head, or no answer from it: the cycle queues nothing.
ReadFails(d) ==
    /\ phase[d] = "idle"
    /\ phase' = [phase EXCEPT ![d] = "queued"]
    /\ UNCHANGED <<seen, previous, outbox, rayVars, mayReport, history, ends>>

ReadJobs(d) ==
    /\ phase[d] = "idle"
    /\ seen' = [seen EXCEPT ![d] = ray]
    /\ phase' = [phase EXCEPT ![d] = "read"]
    /\ UNCHANGED <<previous, outbox, rayVars, mayReport, history, ends>>

\* The outbox after one record of the list: an entry without a start gives way
\* to the dated run, and an entry is never set back.
Queued(box, r) ==
    LET kept == IF r.started > 0 THEN {o \in box : o.id # r.id \/ o.started # 0} ELSE box
        old  == {o \in kept : SameRun(o, r)}
    IN IF \E o \in old : ~Running(o) \/ (o.status = "RUNNING" /\ r.status = "PENDING")
       THEN kept ELSE (kept \ old) \cup {r}

\* The outbox after a list, one record after the other.
QueuedAll(box, list) ==
    LET upto[n \in 0..Len(list)] == IF n = 0 THEN box ELSE Queued(upto[n - 1], list[n])
    IN upto[Len(list)]

QueueRayJobs(d) ==
    /\ phase[d] = "read"
    /\ IF previous[d] = {seen[d]} THEN UNCHANGED <<outbox, previous>>
       ELSE /\ \E list \in SetToSeqs(seen[d]) : outbox' = [outbox EXCEPT ![d] = QueuedAll(@, list)]
            /\ previous' = [previous EXCEPT ![d] = {seen[d]}]
    /\ phase' = [phase EXCEPT ![d] = "queued"]
    /\ seen' = [seen EXCEPT ![d] = {}]
    /\ UNCHANGED <<rayVars, mayReport, history, ends>>

\* Nothing else writes the outbox, so what is sent, acknowledged and deleted is all of it.
PendingRayJobs(d) ==
    /\ phase[d] = "queued"
    /\ phase' = [phase EXCEPT ![d] = IF outbox[d] = {} THEN "idle" ELSE "sent"]
    /\ UNCHANGED <<seen, previous, outbox, rayVars, mayReport, history, ends>>

AckRayJobs(d) ==
    /\ phase[d] = "answered"
    /\ outbox' = [outbox EXCEPT ![d] = {}]
    /\ phase' = [phase EXCEPT ![d] = "idle"]
    /\ UNCHANGED <<seen, previous, rayVars, mayReport, history, ends>>

\* The daemon ends and starts again; its outbox is on disk.
Restart(d) ==
    /\ ends < MaxEnds /\ ends' = ends + 1
    /\ phase' = [phase EXCEPT ![d] = "idle"]
    /\ previous' = [previous EXCEPT ![d] = {}]
    /\ seen' = [seen EXCEPT ![d] = {}]
    /\ UNCHANGED <<outbox, rayVars, mayReport, history>>

---------------------------------------------------------------------------
(* The service *)

\* Plausible slip: an observation without a start is not compared with the dated ones.
RecordUndated(past, r) ==
    LET kept  == IF r.started > 0
                 THEN {o \in past : o.id # r.id \/ o.started # 0 \/ o.status # "PENDING"} ELSE past
        old   == {o \in kept : SameRun(o, r)}
    IN IF \E o \in old : ~Running(o) \/ (o.status = "RUNNING" /\ r.status = "PENDING")
       THEN kept ELSE (kept \ old) \cup {r}

\* The history after one record of a report.
Recorded(past, r) ==
    LET dated == \E o \in past : o.id = r.id /\ o.started > 0
        kept  == IF r.started > 0
                 THEN {o \in past : o.id # r.id \/ o.started # 0 \/ o.status # "PENDING"} ELSE past
        old   == {o \in kept : SameRun(o, r)}
    IN IF r.started = 0 /\ dated THEN past
       ELSE IF \E o \in old : ~Running(o) \/ (o.status = "RUNNING" /\ r.status = "PENDING")
       THEN kept ELSE (kept \ old) \cup {r}

\* The history after a report, one record after the other.
RecordedAll(past, report) ==
    LET upto[n \in 0..Len(report)] == IF n = 0 THEN past ELSE Recorded(upto[n - 1], report[n])
    IN upto[Len(report)]

RecordNetworkJobs(d) ==
    /\ phase[d] = "sent" /\ mayReport
    /\ \E report \in SetToSeqs(outbox[d]) : history' = RecordedAll(history, report)
    \* The answer arrives, or the device gives the cycle up and reports again.
    /\ \/ phase' = [phase EXCEPT ![d] = "answered"]
       \/ phase' = [phase EXCEPT ![d] = "idle"]
    /\ UNCHANGED <<seen, previous, outbox, rayVars, mayReport, ends>>

\* Refused or unreachable: the outbox keeps what was sent.
ReportFails(d) ==
    /\ phase[d] = "sent"
    /\ phase' = [phase EXCEPT ![d] = "idle"]
    /\ UNCHANGED <<seen, previous, outbox, rayVars, mayReport, history, ends>>

ChangeRole ==
    /\ mayReport' = ~mayReport
    /\ UNCHANGED <<deviceVars, rayVars, history, ends>>

---------------------------------------------------------------------------
(* getRayJobs: the live list and the history are read concurrently *)

\* Plausible slip: the live list hides what the history knows of the same run.
mergeLiveFirst(live, saved) == live \cup {s \in saved : \A r \in live : ~SameRun(r, s)}

mergeJobHistory(live, saved) ==
    {IF Running(r) /\ \E s \in saved : SameRun(r, s) /\ ~Running(s)
     THEN CHOOSE s \in saved : SameRun(r, s) ELSE r : r \in live}
    \cup {s \in saved : \A r \in live : ~SameRun(r, s)}

\* Ended runs follow the page of the history, once there is one.
Listed(live, saved) ==
    IF saved = {} THEN live
    ELSE {r \in live : Running(r) \/ \E s \in saved : SameRun(r, s)}

getRayJobs(live, saved) == mergeJobHistory(Listed(live, saved), saved)

---------------------------------------------------------------------------

Cycle(d) ==
    \/ ReadJobs(d) \/ ReadFails(d) \/ QueueRayJobs(d) \/ PendingRayJobs(d)
    \/ RecordNetworkJobs(d) \/ ReportFails(d) \/ AckRayJobs(d)

HistoryNext ==
    \/ \E i \in Ids : submitRayJob(i)
    \/ \E r \in ray : RayEnds(r) \/ RayStarts(r)
    \/ NewHead
    \/ \E d \in Devices : Cycle(d) \/ Restart(d)
    \/ ChangeRole

HistorySpec == HistoryInit /\ [][HistoryNext]_historyVars

---------------------------------------------------------------------------
(* Properties *)

\* A run is listed once: an entry without a start never stays beside the dated run
\* it became, in whatever order devices report the two (accountserver/jobs.go:57-72).
NoGhosts ==
    /\ \A r, s \in history : SameRun(r, s) => r = s
    /\ \A r, s \in history : r.id = s.id /\ r.status = "PENDING" /\ r.started = 0 => s.started = 0

\* A live read that was delayed does not make a run that the history knows as ended
\* run again, and no run is shown twice (jobhistory.go:106).
NoRevival ==
    \A live \in SUBSET reported :
        (\A r, s \in live : r.id = s.id => r = s) =>
            LET shown == getRayJobs(live, history)
            IN \A r \in shown : /\ \A s \in shown : SameRun(r, s) => r = s
                               /\ \A s \in history : SameRun(r, s) /\ ~Running(s) => ~Running(r)
============================================================================
