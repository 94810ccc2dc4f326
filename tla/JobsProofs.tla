------------------------------ MODULE JobsProofs ------------------------------
(***************************************************************************)
(* Proofs about Jobs, for any number of jobs, lines and ends of the two    *)
(* daemons, and about JobHistory, for any devices, identifiers and runs.   *)
(*                                                                         *)
(* JobsInv says of every job what its row, its task and its processes may  *)
(* be together (ExecInv), who is behind a signal (StopInv), that what the  *)
(* origin was told or shows of an end is what the worker recorded          *)
(* (MirrorInv), and that the lines the origin has are the tail of the      *)
(* worker's log as it was at some moment (LogInv).                         *)
(*                                                                         *)
(* The outbox and the history follow lists one record after the other, as  *)
(* recursive functions; that no list leads out of a set no record leads    *)
(* out of is shown by induction (module ListInduction).                    *)
(* HistoryInv adds to NoGhosts that lists and outboxes are finite.         *)
(***************************************************************************)
EXTENDS Jobs, JobHistory, ListInduction, SequenceTheorems, FiniteSetTheorems, TLAPS

--------------------------------------------------------------------------------
(* Lines *)

\* The lines numbered first + 1 .. last.
Numbers(log, first, last) ==
  /\ log \in Seq(Nat) /\ Len(log) = last - first
  /\ \A i \in 1 .. Len(log) : log[i] = first + i

\* Before the last TailLimit of n lines.
Gone(n) == IF n > TailLimit THEN n - TailLimit ELSE 0

LEMMA NumbersEqual ==
  ASSUME NEW s, NEW t, NEW first, NEW last, Numbers(s, first, last), Numbers(t, first, last)
  PROVE  s = t
BY SeqEqual DEF Numbers

LEMMA NumbersLast ==
  ASSUME NEW log, NEW first \in Nat, NEW last \in Nat, first < last \/ last = 0, first <= last,
         Numbers(log, first, last)
  PROVE  lastSeq(log) = last
<1>1. CASE last = 0
  <2>1. log = <<>>
    BY <1>1, EmptySeq DEF Numbers
  <2> QED BY <1>1, <2>1 DEF lastSeq
<1>2. CASE first < last
  <2>1. Len(log) \in 1 .. Len(log) /\ log # <<>>
    BY <1>2 DEF Numbers
  <2> QED BY <1>2, <2>1 DEF Numbers, lastSeq
<1> QED BY <1>1, <1>2

LEMMA NumbersSince ==
  ASSUME NEW j \in Jobs, newestSeq(j) \in Nat, NEW n \in 0 .. newestSeq(j)
  PROVE  Numbers(Since(j, n), n, newestSeq(j))
<1>1. newestSeq(j) - n \in Nat /\ \A i \in 1 .. newestSeq(j) - n : n + i \in Nat
  OBVIOUS
<1>2. Since(j, n) \in Seq(Nat) /\ Len(Since(j, n)) = newestSeq(j) - n
  BY <1>1 DEF Since
<1> QED BY <1>1, <1>2 DEF Since, Numbers

LEMMA NumbersNewest ==
  ASSUME JobsAssumption, NEW log, NEW first \in Nat, NEW last \in Nat, first <= last,
         Numbers(log, first, last)
  PROVE  Numbers(Newest(log), IF last - first > TailLimit THEN last - TailLimit ELSE first, last)
<1>1. CASE last - first > TailLimit
  <2> DEFINE from == Len(log) - TailLimit + 1
  <2>1. /\ Len(log) \in Nat /\ from \in Int /\ from >= 1 /\ from <= Len(log)
        /\ \A i \in from .. Len(log) : log[i] \in Nat
    BY <1>1 DEF Numbers, JobsAssumption
  <2>2. /\ SubSeq(log, from, Len(log)) \in Seq(Nat)
        /\ Len(SubSeq(log, from, Len(log))) = Len(log) - from + 1
        /\ \A i \in 1 .. Len(log) - from + 1 : SubSeq(log, from, Len(log))[i] = log[from + i - 1]
    <3> HIDE DEF from
    <3>1. from \in Int /\ Len(log) \in Int
      BY <2>1
    <3> QED BY ONLY <2>1, <3>1, SubSeqProperties
  <2>3. Newest(log) = SubSeq(log, from, Len(log)) /\ Len(log) - from + 1 = TailLimit
    BY <1>1, <2>1 DEF Newest, Numbers, JobsAssumption
  <2>4. \A i \in 1 .. TailLimit : Newest(log)[i] = last - TailLimit + i
    BY <1>1, <2>1, <2>2, <2>3 DEF Numbers, JobsAssumption
  <2> QED BY <1>1, <2>2, <2>3, <2>4 DEF Numbers, JobsAssumption
<1>2. CASE ~(last - first > TailLimit)
  BY <1>2 DEF Newest, Numbers
<1> QED BY <1>1, <1>2

LEMMA NumbersConcat ==
  ASSUME NEW s, NEW t, NEW first \in Nat, NEW middle \in Nat, NEW last \in Nat,
         first <= middle, middle <= last, Numbers(s, first, middle), Numbers(t, middle, last)
  PROVE  Numbers(s \o t, first, last)
<1>1. /\ s \in Seq(Nat) /\ t \in Seq(Nat)
      /\ Len(s) = middle - first /\ Len(t) = last - middle
      /\ \A i \in 1 .. Len(s) : s[i] = first + i
      /\ \A i \in 1 .. Len(t) : t[i] = middle + i
  BY DEF Numbers
<1>2. /\ s \o t \in Seq(Nat) /\ Len(s \o t) = Len(s) + Len(t)
      /\ \A i \in 1 .. Len(s) + Len(t) : (s \o t)[i] = IF i <= Len(s) THEN s[i] ELSE t[i - Len(s)]
  BY <1>1, ConcatProperties
<1>3. ASSUME NEW i \in 1 .. Len(s) + Len(t)
      PROVE  (s \o t)[i] = first + i
  <2>1. CASE i <= Len(s)
    BY <1>1, <1>2, <2>1
  <2>2. CASE ~(i <= Len(s))
    <3>1. i - Len(s) \in 1 .. Len(t)
      BY <1>1, <2>2
    <3>2. t[i - Len(s)] = middle + (i - Len(s))
      BY <1>1, <3>1
    <3> QED BY <1>1, <1>2, <2>2, <3>2
  <2> QED BY <2>1, <2>2
<1> QED BY <1>1, <1>2, <1>3 DEF Numbers

\* What SubSeq leaves of a concatenation whose second part is a whole tail.
LEMMA NewestOfConcat ==
  ASSUME JobsAssumption, NEW s \in Seq(Nat), NEW t \in Seq(Nat), Len(t) = TailLimit
  PROVE  Newest(s \o t) = t
<1>1. /\ s \o t \in Seq(Nat) /\ Len(s \o t) = Len(s) + TailLimit
      /\ \A i \in 1 .. Len(s) + TailLimit : (s \o t)[i] = IF i <= Len(s) THEN s[i] ELSE t[i - Len(s)]
  BY ConcatProperties
<1>2. CASE Len(s) = 0
  BY <1>1, <1>2, ConcatEmptySeq, EmptySeq DEF Newest, JobsAssumption
<1>3. CASE Len(s) # 0
  <2> DEFINE from == Len(s) + 1
  <2>1. Len(s) \in Nat /\ Len(s) > 0 /\ TailLimit \in Nat /\ TailLimit > 0
    BY <1>3 DEF JobsAssumption
  <2>2. Newest(s \o t) = SubSeq(s \o t, from, Len(s) + TailLimit)
    <3>1. Len(s \o t) > TailLimit /\ Len(s \o t) - TailLimit + 1 = from
      BY <1>1, <2>1
    <3> QED BY ONLY <3>1, <1>1 DEF Newest
  <2>3. \A i \in from .. Len(s) + TailLimit : (s \o t)[i] \in Nat
    BY <1>1, <2>1
  <2>4. /\ SubSeq(s \o t, from, Len(s) + TailLimit) \in Seq(Nat)
        /\ Len(SubSeq(s \o t, from, Len(s) + TailLimit)) = TailLimit
        /\ \A i \in 1 .. TailLimit :
             SubSeq(s \o t, from, Len(s) + TailLimit)[i] = (s \o t)[from + i - 1]
    BY <2>1, <2>3, SubSeqProperties
  <2>5. \A i \in 1 .. TailLimit : (s \o t)[from + i - 1] = t[i]
    BY <1>1, <2>1
  <2> QED BY <2>2, <2>4, <2>5, SeqEqual
<1> QED BY <1>2, <1>3

\* What CopyLog leaves of a tail is the tail of the log as it is now, whether lines
\* fell out of the worker's tail in between or not.
LEMMA CopyIsTail ==
  ASSUME JobsAssumption, NEW j \in Jobs, newestSeq(j) \in Nat, NEW log, NEW n \in 0 .. newestSeq(j),
         Numbers(log, Gone(n), n)
  PROVE  Numbers(Newest(log \o Newest(Since(j, lastSeq(log)))), Gone(newestSeq(j)), newestSeq(j))
<1> DEFINE new == Newest(Since(j, n))
<1>1. Gone(n) \in Nat /\ Gone(n) <= n /\ (Gone(n) < n \/ n = 0) /\ n \in Nat
      /\ TailLimit \in Nat \ {0}
  BY DEF Gone, JobsAssumption
<1>2. lastSeq(log) = n
  BY <1>1, NumbersLast
<1>3. Numbers(new, IF newestSeq(j) - n > TailLimit THEN newestSeq(j) - TailLimit ELSE n, newestSeq(j))
  BY <1>1, NumbersSince, NumbersNewest
<1>4. CASE newestSeq(j) - n > TailLimit
  <2>1. new \in Seq(Nat) /\ Len(new) = TailLimit /\ log \in Seq(Nat)
    BY <1>1, <1>3, <1>4 DEF Numbers
  <2>2. Newest(log \o new) = new
    BY <2>1, NewestOfConcat
  <2>3. Gone(newestSeq(j)) = newestSeq(j) - TailLimit
    BY <1>1, <1>4 DEF Gone
  <2> QED BY <1>2, <1>3, <1>4, <2>2, <2>3
<1>5. CASE ~(newestSeq(j) - n > TailLimit)
  <2>1. Numbers(log \o new, Gone(n), newestSeq(j))
    BY <1>1, <1>3, <1>5, NumbersConcat
  <2>2. Numbers(Newest(log \o new),
                IF newestSeq(j) - Gone(n) > TailLimit THEN newestSeq(j) - TailLimit ELSE Gone(n), newestSeq(j))
    BY <1>1, <2>1, NumbersNewest
  <2>3. (IF newestSeq(j) - Gone(n) > TailLimit THEN newestSeq(j) - TailLimit ELSE Gone(n)) = Gone(newestSeq(j))
    BY <1>1, <1>5 DEF Gone
  <2> QED BY <1>2, <2>2, <2>3
<1> QED BY <1>4, <1>5

LEMMA NewestTyped ==
  ASSUME JobsAssumption, NEW log \in Seq(Nat)
  PROVE  Newest(log) \in Seq(Nat)
<1> DEFINE from == Len(log) - TailLimit + 1
<1>1. CASE Len(log) > TailLimit
  <2>1. /\ Len(log) \in Int /\ from \in Int /\ from >= 1 /\ from <= Len(log)
        /\ \A i \in from .. Len(log) : log[i] \in Nat
    BY <1>1 DEF JobsAssumption
  <2>2. SubSeq(log, from, Len(log)) \in Seq(Nat)
    <3> HIDE DEF from
    <3> QED BY ONLY <2>1, SubSeqProperties
  <2> QED BY <1>1, <2>2 DEF Newest
<1>2. CASE ~(Len(log) > TailLimit)
  BY <1>2 DEF Newest
<1> QED BY <1>1, <1>2

LEMMA LastSeqTyped ==
  ASSUME NEW log \in Seq(Nat)
  PROVE  lastSeq(log) \in Nat
<1>1. CASE log = <<>>
  BY <1>1 DEF lastSeq
<1>2. CASE log # <<>>
  <2>1. Len(log) \in 1 .. Len(log)
    BY <1>2, EmptySeq
  <2> QED BY <1>2, <2>1 DEF lastSeq
<1> QED BY <1>1, <1>2

LEMMA SinceTyped ==
  ASSUME NEW j \in Jobs, newestSeq(j) \in Nat, NEW n \in Nat
  PROVE  Since(j, n) \in Seq(Nat)
<1>1. CASE n <= newestSeq(j)
  <2>1. newestSeq(j) - n \in Nat /\ \A i \in 1 .. newestSeq(j) - n : n + i \in Nat
    BY <1>1
  <2> QED BY <2>1 DEF Since
<1>2. CASE ~(n <= newestSeq(j))
  <2>1. 1 .. newestSeq(j) - n = 1 .. 0
    BY <1>2
  <2>2. [i \in 1 .. 0 |-> n + i] \in Seq(Nat)
    OBVIOUS
  <2> QED BY <2>1, <2>2 DEF Since
<1> QED BY <1>1, <1>2

\* The numbers a reader may be given.
LEMMA NewestSeqTyped ==
  ASSUME JobsAssumption, TypeOK, NEW j \in Jobs
  PROVE  newestSeq(j) \in Nat /\ lines[j] \in Nat
BY DEF newestSeq, TypeOK, JobsAssumption

LEMMA TailOfNumbers ==
  ASSUME JobsAssumption, NEW j \in Jobs, newestSeq(j) \in Nat
  PROVE  Numbers(TailOf(j), Gone(newestSeq(j)), newestSeq(j))
<1>1. Numbers(Since(j, 0), 0, newestSeq(j))
  BY NumbersSince
<1>2. Gone(newestSeq(j)) = IF newestSeq(j) - 0 > TailLimit THEN newestSeq(j) - TailLimit ELSE 0
  BY DEF Gone, JobsAssumption
<1> QED BY <1>1, <1>2, NumbersNewest DEF TailOf

--------------------------------------------------------------------------------
(* The inductive invariant *)

\* exec is somewhere between the request and the record.
Begun == {"queued", "spawned", "live", "waiting", "reaped"}

\* The row is active while exec is on the way, and the processes are gone once the job
\* has a result; only a row that a restart closed may have processes left.
ExecInv(j) ==
  /\ task[j] \in Begun => worker /\ row[j] \in Active
  /\ task[j] = "none" <=> row[j] = "none"
  /\ task[j] \in {"none", "queued"} => proc[j] = "none" /\ exit[j] = "none"
  /\ proc[j] \in Alive => row[j] \in Active \cup {"interrupted"}
  /\ task[j] = "reaped" => proc[j] = "down"

\* Who sends a signal has marked the job before; the mark is there when the result is
\* classified, or the daemon has ended since and the row is closed as interrupted.
StopInv(j) ==
  /\ stopper[j] \in {"marked", "termed"} \/ timer[j] => stopping[j]
  /\ exit[j] = "signal" =>
       \/ stopping[j] \/ row[j] \in {"stopped", "interrupted"} \/ (~worker /\ row[j] \in Active)
  /\ exit[j] = "signal" /\ row[j] \in Terminal => row[j] \in {"stopped", "interrupted"}

\* An end the worker has told of, or the origin shows, stays what the worker recorded.
MirrorInv(j) ==
  /\ polled[j] \in Terminal => row[j] = polled[j]
  /\ mirror[j] \in {"succeeded", "failed", "stopped"} => row[j] = mirror[j]

\* A command's lines have one numbering, in memory and in the file; those the origin has
\* were the tail of the worker's log when it had n lines, and are the tail of all of it
\* once the monitor is through.
LogInv(j) ==
  /\ row[j] = "none" => kind[j] = "none"
  /\ kind[j] # "terminal" =>
       /\ file[j] = [ended |-> lines[j], open |-> FALSE]
       /\ \E n \in 0 .. lines[j] : Numbers(copied[j], Gone(n), n)
       /\ monitor[j] = "whole" =>
            polled[j] \in Terminal /\ Numbers(copied[j], Gone(lines[j]), lines[j])

JobsInv ==
  /\ TypeOK
  /\ \A j \in Jobs : ExecInv(j) /\ StopInv(j) /\ MirrorInv(j) /\ LogInv(j)

--------------------------------------------------------------------------------
(* Types *)

LEMMA SignalTypes ==
  ASSUME TypeOK, NEW j \in Jobs, NEW signal, Signal(signal, j)
  PROVE  /\ proc' \in [Jobs -> {"none", "up", "leftover", "down"}]
         /\ exit' \in [Jobs -> {"none", "ok", "bad", "signal"}]
         /\ \A i \in Jobs \ {j} : proc'[i] = proc[i] /\ exit'[i] = exit[i]
         /\ proc[j] \notin Alive => proc'[j] = proc[j] /\ exit'[j] = exit[j]
         /\ proc[j] \in Alive => proc'[j] \in Alive \cup {"down"}
         /\ exit'[j] # exit[j] => proc[j] = "up"
<1>1. PICK p \in After(signal, proc[j]) : proc' = [proc EXCEPT ![j] = p]
  BY DEF Signal
<1>2. proc \in [Jobs -> {"none", "up", "leftover", "down"}]
  BY DEF TypeOK
<1>3. /\ proc[j] \notin Alive => p = proc[j]
      /\ proc[j] \in Alive => p \in Alive \cup {"down"}
  BY <1>1, <1>2 DEF After, Alive
<1>4. /\ exit' \in [Jobs -> {"none", "ok", "bad", "signal"}]
      /\ \A i \in Jobs \ {j} : exit'[i] = exit[i]
      /\ exit'[j] # exit[j] => proc[j] = "up" /\ proc'[j] # "up"
  BY DEF Signal, TypeOK
<1> QED BY <1>1, <1>2, <1>3, <1>4 DEF Alive

LEMMA StepKeepsTypes ==
  ASSUME JobsAssumption, JobsInv, [Next]_vars
  PROVE  TypeOK'
<1> TypeOK
  BY DEF JobsInv
<1>w. ASSUME UNCHANGED <<originVars, worker, origin, downs>>,
             row' \in [Jobs -> Rows], UNCHANGED output,
             task' \in [Jobs -> {"none", "queued", "spawned", "live", "waiting", "reaped", "ended"}],
             proc' \in [Jobs -> {"none", "up", "leftover", "down"}],
             exit' \in [Jobs -> {"none", "ok", "bad", "signal"}],
             stopping' \in [Jobs -> BOOLEAN], timer' \in [Jobs -> BOOLEAN],
             stopper' \in [Jobs -> {"idle", "found", "marked", "termed"}]
      PROVE  TypeOK'
  BY <1>w DEF TypeOK, originVars, output
<1>o. ASSUME UNCHANGED <<workerVars, worker, origin, downs>>, mirror' \in [Jobs -> Rows],
             polled' \in [Jobs -> Rows], reply' \in [Jobs -> BOOLEAN],
             monitor' \in [Jobs -> {"none", "polling", "answered", "synced", "whole", "cut"}],
             copied' \in [Jobs -> Seq(Nat)]
      PROVE  TypeOK'
  BY <1>o DEF TypeOK, workerVars
<1>r. "queued" \in Rows /\ "running" \in Rows /\ "none" \in Rows /\ Terminal \subseteq Rows
  BY DEF Rows, Active, Terminal
<1>0. CASE UNCHANGED vars
  BY <1>0 DEF vars, TypeOK, workerVars, originVars
<1>1. ASSUME NEW j \in Jobs, CreateJob(j), UNCHANGED <<worker, origin, downs>>,
             UNCHANGED <<mirror, monitor, polled, copied>>, reply' \in [Jobs -> BOOLEAN]
      PROVE  TypeOK'
  <2>1. kind' \in [Jobs -> {"none", "command", "terminal"}]
    <3>1. PICK k \in {"command", "terminal"} : kind' = [kind EXCEPT ![j] = k]
      BY <1>1 DEF CreateJob
    <3> QED BY <3>1 DEF TypeOK
  <2> QED BY <1>1, <1>r, <2>1 DEF CreateJob, TypeOK
<1>1a. ASSUME NEW j \in Jobs, StartLocal(j) \/ StartRemote(j)
       PROVE  TypeOK'
  BY <1>1, <1>1a DEF StartLocal, StartRemote, TypeOK, originVars
<1>2. ASSUME NEW j \in Jobs, CannotStart(j)
      PROVE  TypeOK'
  BY <1>2, <1>w, <1>r DEF CannotStart, TypeOK, Terminal
<1>2a. ASSUME NEW j \in Jobs, Spawn(j) \/ Register(j) \/ Reap(j)
      PROVE  TypeOK'
  BY <1>2a, <1>w DEF Spawn, Register, Reap, TypeOK
<1>2b. ASSUME NEW j \in Jobs, StartJob(j)
      PROVE  TypeOK'
  BY <1>2b, <1>w, <1>r DEF StartJob, TypeOK
<1>3. ASSUME NEW j \in Jobs, FinishJob(j)
      PROVE  TypeOK'
  <2>1. classify(j) \in Rows
    BY <1>r DEF classify, Terminal
  <2> QED BY <1>3, <1>w, <2>1 DEF FinishJob, TypeOK
<1>4. ASSUME NEW j \in Jobs, pump(j) \/ pumpChunks(j)
      PROVE  TypeOK'
  <2>1. WriteOutput(j)
    BY <1>4 DEF pump, pumpChunks
  <2>2. lines' \in [Jobs -> 0..MaxLines]
    BY <2>1 DEF WriteOutput, TypeOK, JobsAssumption
  <2>3. PICK f \in [ended : Nat, open : BOOLEAN] : file' = [file EXCEPT ![j] = f]
    <3>1. file[j] \in [ended : Nat, open : BOOLEAN]
      BY DEF TypeOK
    <3>2. CASE pump(j)
      <4>1. [ended |-> file[j].ended + 1, open |-> FALSE] \in [ended : Nat, open : BOOLEAN]
        BY <3>1
      <4>2. file' = [file EXCEPT ![j] = [ended |-> file[j].ended + 1, open |-> FALSE]]
        BY <3>2 DEF pump
      <4> QED BY <4>1, <4>2
    <3>3. CASE pumpChunks(j)
      <4>1. PICK n \in 0..MaxNewlines, open \in BOOLEAN :
               file' = [file EXCEPT ![j] = [ended |-> file[j].ended + n, open |-> open]]
        BY <3>3 DEF pumpChunks
      <4>2. [ended |-> file[j].ended + n, open |-> open] \in [ended : Nat, open : BOOLEAN]
        BY <3>1 DEF JobsAssumption
      <4> QED BY <4>1, <4>2
    <3> QED BY <1>4, <3>2, <3>3
  <2>4. file' \in [Jobs -> [ended : Nat, open : BOOLEAN]]
    BY <2>3 DEF TypeOK
  <2> QED BY <2>1, <2>2, <2>4 DEF WriteOutput, TypeOK, originVars
<1>5. ASSUME NEW j \in Jobs, ProcessEnds(j)
      PROVE  TypeOK'
  <2>1. PICK p \in {"leftover", "down"} : proc' = [proc EXCEPT ![j] = p]
    BY <1>5 DEF ProcessEnds
  <2>2. exit' = exit \/ \E e \in {"ok", "bad"} : exit' = [exit EXCEPT ![j] = e]
    BY <1>5 DEF ProcessEnds
  <2>3. exit' \in [Jobs -> {"none", "ok", "bad", "signal"}]
    BY <2>2 DEF TypeOK
  <2> QED BY <1>5, <1>w, <2>1, <2>3 DEF ProcessEnds, TypeOK
<1>6. ASSUME NEW j \in Jobs, StopFind(j) \/ StopMark(j)
      PROVE  TypeOK'
  BY <1>6, <1>w DEF StopFind, StopMark, TypeOK
<1>7. ASSUME NEW j \in Jobs, StopTerm(j)
      PROVE  TypeOK'
  <2>1. timer' \in [Jobs -> BOOLEAN] /\ stopper' \in [Jobs -> {"idle", "found", "marked", "termed"}]
    BY <1>7 DEF StopTerm, TypeOK
  <2> QED BY <1>7, <2>1, <1>w, SignalTypes DEF StopTerm, TypeOK
<1>8. ASSUME NEW j \in Jobs, StopCancel(j)
      PROVE  TypeOK'
  <2>1. stopper' \in [Jobs -> {"idle", "found", "marked", "termed"}]
    BY <1>8 DEF StopCancel, TypeOK
  <2> QED BY <1>8, <2>1, <1>w, SignalTypes DEF StopCancel, TypeOK
<1>9. ASSUME NEW j \in Jobs, Escalate(j)
      PROVE  TypeOK'
  <2>1. timer' \in [Jobs -> BOOLEAN]
    BY <1>9 DEF Escalate, TypeOK
  <2> QED BY <1>9, <2>1, <1>w, SignalTypes DEF Escalate, TypeOK
<1>10. ASSUME NEW j \in Jobs, CreateRemoteJob(j)
       PROVE  TypeOK'
  BY <1>10, <1>o, <1>r DEF CreateRemoteJob, TypeOK
<1>10a. ASSUME NEW j \in Jobs, AnswerLost(j)
        PROVE  TypeOK'
  BY <1>10a, <1>o DEF AnswerLost, TypeOK
<1>10b. ASSUME NEW j \in Jobs, Poll(j)
        PROVE  TypeOK'
  BY <1>10b, <1>o DEF Poll, TypeOK
<1>10c. ASSUME NEW j \in Jobs, SyncRemoteJob(j)
        PROVE  TypeOK'
  BY <1>10c, <1>o DEF SyncRemoteJob, TypeOK
<1>11. ASSUME NEW j \in Jobs, CopyLog(j)
       PROVE  TypeOK'
  <2>1. newestSeq(j) \in Nat /\ copied[j] \in Seq(Nat)
    BY NewestSeqTyped DEF TypeOK
  <2>2. PICK n \in Nat : copied'[j] = Newest(copied[j] \o Newest(Since(j, n)))
    <3>1. copied'[j] = Newest(copied[j] \o Newest(Since(j, lastSeq(copied[j]))))
      BY <1>11 DEF CopyLog, TypeOK
    <3>2. lastSeq(copied[j]) \in Nat
      BY LastSeqTyped, <2>1
    <3> QED BY <3>1, <3>2
  <2>3. Since(j, n) \in Seq(Nat)
    BY SinceTyped, <2>1, <2>2
  <2>4. copied[j] \o Newest(Since(j, n)) \in Seq(Nat)
    BY <2>1, <2>3, NewestTyped, ConcatProperties
  <2>5. copied'[j] \in Seq(Nat)
    BY <2>2, <2>4, NewestTyped
  <2>6. copied' \in [Jobs -> Seq(Nat)]
    BY <1>11, <2>5 DEF CopyLog, TypeOK
  <2>7. monitor' \in [Jobs -> {"none", "polling", "answered", "synced", "whole", "cut"}]
    BY <1>11 DEF CopyLog, TypeOK
  <2> QED BY <1>11, <1>o, <2>6, <2>7 DEF CopyLog, TypeOK
<1>12. ASSUME NEW j \in Jobs, CopyFails(j)
       PROVE  TypeOK'
  BY <1>12, <1>o DEF CopyFails, TypeOK
<1>13. CASE StopAll
  BY <1>13, <1>w DEF StopAll, TypeOK
<1>14. CASE WorkerEnds
  <2>1. /\ proc' \in [Jobs -> {"none", "up", "leftover", "down"}]
        /\ exit' \in [Jobs -> {"none", "ok", "bad", "signal"}]
    BY <1>14 DEF WorkerEnds, TypeOK
  <2>2. /\ task' \in [Jobs -> {"none", "queued", "spawned", "live", "waiting", "reaped", "ended"}]
        /\ stopping' \in [Jobs -> BOOLEAN] /\ timer' \in [Jobs -> BOOLEAN]
        /\ stopper' \in [Jobs -> {"idle", "found", "marked", "termed"}]
    BY <1>14 DEF WorkerEnds
  <2>3. downs' \in [{"worker", "origin"} -> 0..MaxDowns]
    <3>1. downs["worker"] + 1 \in 0..MaxDowns
      BY <1>14 DEF WorkerEnds, TypeOK, JobsAssumption
    <3> QED BY <1>14, <3>1 DEF WorkerEnds, TypeOK
  <2> QED BY <1>14, <2>1, <2>2, <2>3 DEF WorkerEnds, TypeOK, originVars, output
<1>s. ASSUME NEW r \in [Jobs -> Rows]
      PROVE  RecoverRunningJobs(r) \in [Jobs -> Rows]
  BY <1>r DEF RecoverRunningJobs, Terminal
<1>15. CASE WorkerStarts
  <2>1. row' \in [Jobs -> Rows]
    BY <1>15, <1>s DEF WorkerStarts, TypeOK
  <2> QED BY <1>15, <2>1 DEF WorkerStarts, TypeOK, originVars, output
<1>16. CASE OriginStarts
  <2>1. mirror' \in [Jobs -> Rows]
    BY <1>16, <1>s DEF OriginStarts, TypeOK
  <2> QED BY <1>16, <2>1 DEF OriginStarts, TypeOK, workerVars
<1>17. CASE OriginEnds
  <2>1. <<>> \in Seq(Nat)
    BY EmptySeq
  <2>2. /\ copied' \in [Jobs -> Seq(Nat)] /\ polled' \in [Jobs -> Rows]
        /\ reply' \in [Jobs -> BOOLEAN]
        /\ monitor' \in [Jobs -> {"none", "polling", "answered", "synced", "whole", "cut"}]
    BY <1>17, <1>r, <2>1 DEF OriginEnds
  <2>3. downs' \in [{"worker", "origin"} -> 0..MaxDowns]
    <3>1. downs["origin"] + 1 \in 0..MaxDowns
      BY <1>17 DEF OriginEnds, TypeOK, JobsAssumption
    <3> QED BY <1>17, <3>1 DEF OriginEnds, TypeOK
  <2> QED BY <1>17, <2>2, <2>3 DEF OriginEnds, TypeOK, workerVars
<1> QED BY <1>0, <1>1a, <1>2, <1>2a, <1>2b, <1>3, <1>4, <1>5, <1>6, <1>7, <1>8, <1>9, <1>10, <1>10a, <1>10b, <1>10c,
           <1>11, <1>12, <1>13, <1>14, <1>15, <1>16, <1>17 DEF Next, Exec, Stop, Monitor

--------------------------------------------------------------------------------
(* What was brought down, and what was told *)

\* The worker's variables of job i are as they were.
Same(i) ==
  /\ row'[i] = row[i] /\ task'[i] = task[i] /\ proc'[i] = proc[i] /\ exit'[i] = exit[i]
  /\ stopping'[i] = stopping[i] /\ stopper'[i] = stopper[i] /\ timer'[i] = timer[i]

\* What every step on one job has to show of that job.
LEMMA OneJobStep ==
  ASSUME JobsInv, NEW j \in Jobs, \A i \in Jobs \ {j} : Same(i), worker' = worker,
         ExecInv(j)', StopInv(j)'
  PROVE  \A i \in Jobs : ExecInv(i)' /\ StopInv(i)'
<1> SUFFICES ASSUME NEW i \in Jobs, i # j
             PROVE  ExecInv(i)' /\ StopInv(i)'
  OBVIOUS
<1>1. ExecInv(i) /\ StopInv(i) /\ Same(i)
  BY DEF JobsInv
<1> QED BY <1>1 DEF ExecInv, StopInv, Same

LEMMA UntouchedStep ==
  ASSUME JobsInv, UNCHANGED <<workerVars, worker>>
  PROVE  \A i \in Jobs : ExecInv(i)' /\ StopInv(i)'
BY DEF JobsInv, ExecInv, StopInv, workerVars

\* A signal is sent by a call that has marked the job, or by the timer of one.
LEMMA SignalStep ==
  ASSUME JobsInv, NEW j \in Jobs, NEW signal, Signal(signal, j), stopping[j],
         row' = row, task' = task, stopping' = stopping, worker' = worker
  PROVE  /\ ExecInv(j)' /\ \A i \in Jobs \ {j} : proc'[i] = proc[i] /\ exit'[i] = exit[i]
         /\ exit'[j] = "signal" => stopping'[j]
         /\ exit'[j] = "signal" /\ row'[j] \in Terminal => row'[j] \in {"stopped", "interrupted"}
<1>1. ExecInv(j) /\ StopInv(j) /\ TypeOK
  BY DEF JobsInv
<1>2. /\ \A i \in Jobs \ {j} : proc'[i] = proc[i] /\ exit'[i] = exit[i]
      /\ proc[j] \notin Alive => proc'[j] = proc[j] /\ exit'[j] = exit[j]
      /\ proc[j] \in Alive => proc'[j] \in Alive \cup {"down"}
      /\ exit'[j] # exit[j] => proc[j] = "up"
  BY <1>1, SignalTypes
<1>3. ExecInv(j)'
  BY <1>1, <1>2 DEF ExecInv, Alive, Active
<1>4. exit'[j] = "signal" /\ row'[j] \in Terminal => row'[j] \in {"stopped", "interrupted"}
  BY <1>1, <1>2 DEF ExecInv, StopInv, Alive, Active, Terminal
<1> QED BY <1>2, <1>3, <1>4

LEMMA WorkerStep ==
  ASSUME JobsInv, [Next]_vars
  PROVE  \A i \in Jobs : ExecInv(i)' /\ StopInv(i)'
<1> TypeOK /\ \A i \in Jobs : ExecInv(i) /\ StopInv(i)
  BY DEF JobsInv
<1>0. CASE UNCHANGED vars
  BY <1>0, UntouchedStep DEF vars
<1>1. ASSUME NEW j \in Jobs, CreateJob(j), worker' = worker
      PROVE  \A i \in Jobs : ExecInv(i)' /\ StopInv(i)'
  <2>1. worker' = worker /\ \A i \in Jobs \ {j} : Same(i)
    BY <1>1 DEF CreateJob, TypeOK, Same
  <2>2. ExecInv(j)'
    BY <1>1 DEF CreateJob, TypeOK, ExecInv, Active, Terminal, Begun, Alive
  <2>3. StopInv(j)'
    BY <1>1 DEF CreateJob, TypeOK, ExecInv, StopInv, Active, Terminal, Begun, Alive
  <2> QED BY <2>1, <2>2, <2>3, OneJobStep
<1>2. ASSUME NEW j \in Jobs, CannotStart(j)
      PROVE  \A i \in Jobs : ExecInv(i)' /\ StopInv(i)'
  <2>1. worker' = worker /\ \A i \in Jobs \ {j} : Same(i)
    BY <1>2 DEF CannotStart, TypeOK, Same
  <2>2. ExecInv(j)'
    BY <1>2 DEF CannotStart, TypeOK, ExecInv, Active, Terminal, Begun, Alive
  <2>3. StopInv(j)'
    BY <1>2 DEF CannotStart, TypeOK, ExecInv, StopInv, Active, Terminal, Begun, Alive
  <2> QED BY <2>1, <2>2, <2>3, OneJobStep
<1>3. ASSUME NEW j \in Jobs, Spawn(j)
      PROVE  \A i \in Jobs : ExecInv(i)' /\ StopInv(i)'
  <2>1. worker' = worker /\ \A i \in Jobs \ {j} : Same(i)
    BY <1>3 DEF Spawn, TypeOK, Same
  <2>2. ExecInv(j)'
    BY <1>3 DEF Spawn, TypeOK, ExecInv, Active, Terminal, Begun, Alive
  <2>3. StopInv(j)'
    BY <1>3 DEF Spawn, TypeOK, ExecInv, StopInv, Active, Terminal, Begun, Alive
  <2> QED BY <2>1, <2>2, <2>3, OneJobStep
<1>4. ASSUME NEW j \in Jobs, Register(j)
      PROVE  \A i \in Jobs : ExecInv(i)' /\ StopInv(i)'
  <2>1. worker' = worker /\ \A i \in Jobs \ {j} : Same(i)
    BY <1>4 DEF Register, TypeOK, Same
  <2>2. ExecInv(j)'
    BY <1>4 DEF Register, TypeOK, ExecInv, Active, Terminal, Begun, Alive
  <2>3. StopInv(j)'
    BY <1>4 DEF Register, TypeOK, ExecInv, StopInv, Active, Terminal, Begun, Alive
  <2> QED BY <2>1, <2>2, <2>3, OneJobStep
<1>5. ASSUME NEW j \in Jobs, StartJob(j)
      PROVE  \A i \in Jobs : ExecInv(i)' /\ StopInv(i)'
  <2>1. worker' = worker /\ \A i \in Jobs \ {j} : Same(i)
    BY <1>5 DEF StartJob, TypeOK, Same
  <2>2. ExecInv(j)'
    BY <1>5 DEF StartJob, TypeOK, ExecInv, Active, Terminal, Begun, Alive
  <2>3. StopInv(j)'
    BY <1>5 DEF StartJob, TypeOK, ExecInv, StopInv, Active, Terminal, Begun, Alive
  <2> QED BY <2>1, <2>2, <2>3, OneJobStep
<1>6. ASSUME NEW j \in Jobs, Reap(j)
      PROVE  \A i \in Jobs : ExecInv(i)' /\ StopInv(i)'
  <2>1. worker' = worker /\ \A i \in Jobs \ {j} : Same(i)
    BY <1>6 DEF Reap, TypeOK, Same
  <2>2. ExecInv(j)'
    BY <1>6 DEF Reap, TypeOK, ExecInv, Active, Terminal, Begun, Alive
  <2>3. StopInv(j)'
    BY <1>6 DEF Reap, TypeOK, ExecInv, StopInv, Active, Terminal, Begun, Alive
  <2> QED BY <2>1, <2>2, <2>3, OneJobStep
<1>7. ASSUME NEW j \in Jobs, FinishJob(j)
      PROVE  \A i \in Jobs : ExecInv(i)' /\ StopInv(i)'
  <2>1. worker' = worker /\ \A i \in Jobs \ {j} : Same(i)
    BY <1>7 DEF FinishJob, TypeOK, Same
  <2>2. ExecInv(j)'
    BY <1>7 DEF FinishJob, classify, TypeOK, ExecInv, Active, Terminal, Begun, Alive
  <2>3. StopInv(j)'
    BY <1>7 DEF FinishJob, classify, TypeOK, ExecInv, StopInv, Active, Terminal, Begun, Alive
  <2> QED BY <2>1, <2>2, <2>3, OneJobStep
<1>8. ASSUME NEW j \in Jobs, StopFind(j)
      PROVE  \A i \in Jobs : ExecInv(i)' /\ StopInv(i)'
  <2>1. worker' = worker /\ \A i \in Jobs \ {j} : Same(i)
    BY <1>8 DEF StopFind, TypeOK, Same
  <2>2. ExecInv(j)'
    BY <1>8 DEF StopFind, TypeOK, ExecInv, Active, Terminal, Begun, Alive
  <2>3. StopInv(j)'
    BY <1>8 DEF StopFind, TypeOK, ExecInv, StopInv, Active, Terminal, Begun, Alive
  <2> QED BY <2>1, <2>2, <2>3, OneJobStep
<1>9. ASSUME NEW j \in Jobs, StopMark(j)
      PROVE  \A i \in Jobs : ExecInv(i)' /\ StopInv(i)'
  <2>1. worker' = worker /\ \A i \in Jobs \ {j} : Same(i)
    BY <1>9 DEF StopMark, TypeOK, Same
  <2>2. ExecInv(j)'
    BY <1>9 DEF StopMark, TypeOK, ExecInv, Active, Terminal, Begun, Alive
  <2>3. StopInv(j)'
    BY <1>9 DEF StopMark, TypeOK, ExecInv, StopInv, Active, Terminal, Begun, Alive
  <2> QED BY <2>1, <2>2, <2>3, OneJobStep
<1>10. ASSUME NEW j \in Jobs, StartLocal(j) \/ StartRemote(j)
      PROVE  \A i \in Jobs : ExecInv(i)' /\ StopInv(i)'
  BY <1>1, <1>10 DEF StartLocal, StartRemote
<1>11. ASSUME NEW j \in Jobs, pump(j) \/ pumpChunks(j)
      PROVE  \A i \in Jobs : ExecInv(i)' /\ StopInv(i)'
  BY <1>11 DEF pump, pumpChunks, WriteOutput, ExecInv, StopInv
<1>12. ASSUME NEW j \in Jobs, ProcessEnds(j)
      PROVE  \A i \in Jobs : ExecInv(i)' /\ StopInv(i)'
  <2>1. \E p \in {"leftover", "down"} : proc' = [proc EXCEPT ![j] = p]
    BY <1>12 DEF ProcessEnds
  <2>2. exit' = exit \/ \E e \in {"ok", "bad"} : exit' = [exit EXCEPT ![j] = e]
    BY <1>12 DEF ProcessEnds
  <2>3. /\ \A i \in Jobs \ {j} : proc'[i] = proc[i] /\ exit'[i] = exit[i]
        /\ proc'[j] \in {"leftover", "down"} /\ exit'[j] \in {exit[j], "ok", "bad"}
    BY <2>1, <2>2 DEF TypeOK
  <2>4. /\ proc[j] \in Alive
        /\ proc[j] = "leftover" => proc'[j] = "down"
        /\ UNCHANGED <<row, task, stopping, stopper, timer, worker>>
    BY <1>12 DEF ProcessEnds, TypeOK, Alive
  <2>5. StopInv(j)'
    BY <2>3, <2>4 DEF StopInv
  <2>6. task[j] \notin {"none", "queued", "reaped"} /\ row[j] \in Active \cup {"interrupted"}
    <3>1. ExecInv(j) /\ proc[j] \in Alive
      BY <2>4
    <3> QED BY <3>1 DEF ExecInv, Alive
  <2>7. ExecInv(j)'
    BY <2>3, <2>4, <2>6 DEF ExecInv
  <2> QED BY <2>3, <2>4, <2>5, <2>7, OneJobStep DEF Same
<1>13. ASSUME NEW j \in Jobs, StopTerm(j)
      PROVE  \A i \in Jobs : ExecInv(i)' /\ StopInv(i)'
  <2>1. PICK signal \in {"term", "kill"} : Signal(signal, j)
    BY <1>13 DEF StopTerm
  <2>2. /\ stopping[j] /\ UNCHANGED <<row, task, stopping, worker>>
        /\ \A i \in Jobs \ {j} : stopper'[i] = stopper[i] /\ timer'[i] = timer[i]
    BY <1>13 DEF StopTerm, StopInv, TypeOK
  <2>3. /\ ExecInv(j)' /\ \A i \in Jobs \ {j} : proc'[i] = proc[i] /\ exit'[i] = exit[i]
        /\ exit'[j] = "signal" /\ row'[j] \in Terminal => row'[j] \in {"stopped", "interrupted"}
    BY <2>1, <2>2, SignalStep
  <2>4. StopInv(j)'
    BY <2>2, <2>3 DEF StopInv
  <2> QED BY <2>2, <2>3, <2>4, OneJobStep DEF Same
<1>14. ASSUME NEW j \in Jobs, Escalate(j)
      PROVE  \A i \in Jobs : ExecInv(i)' /\ StopInv(i)'
  <2>1. PICK signal \in {"term", "kill"} : Signal(signal, j)
    BY <1>14 DEF Escalate
  <2>2. /\ stopping[j] /\ UNCHANGED <<row, task, stopping, worker>>
        /\ \A i \in Jobs \ {j} : stopper'[i] = stopper[i] /\ timer'[i] = timer[i]
    BY <1>14 DEF Escalate, StopInv, TypeOK
  <2>3. /\ ExecInv(j)' /\ \A i \in Jobs \ {j} : proc'[i] = proc[i] /\ exit'[i] = exit[i]
        /\ exit'[j] = "signal" /\ row'[j] \in Terminal => row'[j] \in {"stopped", "interrupted"}
    BY <2>1, <2>2, SignalStep
  <2>4. StopInv(j)'
    BY <2>2, <2>3 DEF StopInv
  <2> QED BY <2>2, <2>3, <2>4, OneJobStep DEF Same
<1>15. ASSUME NEW j \in Jobs, StopCancel(j)
      PROVE  \A i \in Jobs : ExecInv(i)' /\ StopInv(i)'
  <2>1. /\ stopping[j] /\ UNCHANGED <<row, task, stopping, timer, worker>>
        /\ \A i \in Jobs \ {j} : stopper'[i] = stopper[i]
        /\ UNCHANGED <<proc, exit>> \/ Signal("leader", j)
    BY <1>15 DEF StopCancel, StopInv, TypeOK
  <2>2. /\ ExecInv(j)' /\ \A i \in Jobs \ {j} : proc'[i] = proc[i] /\ exit'[i] = exit[i]
        /\ exit'[j] = "signal" /\ row'[j] \in Terminal => row'[j] \in {"stopped", "interrupted"}
    <3>1. CASE UNCHANGED <<proc, exit>>
      BY <2>1, <3>1 DEF ExecInv, StopInv
    <3>2. CASE Signal("leader", j)
      BY <2>1, <3>2, SignalStep
    <3> QED BY <2>1, <3>1, <3>2
  <2>3. StopInv(j)'
    BY <2>1, <2>2 DEF StopInv
  <2> QED BY <2>1, <2>2, <2>3, OneJobStep DEF Same
<1>16. ASSUME NEW j \in Jobs,
             \/ CreateRemoteJob(j) \/ AnswerLost(j) \/ Poll(j) \/ SyncRemoteJob(j)
             \/ CopyLog(j) \/ CopyFails(j)
       PROVE  UNCHANGED <<workerVars, worker>>
  BY <1>16 DEF CreateRemoteJob, AnswerLost, Poll, SyncRemoteJob, CopyLog, CopyFails
<1>17. CASE OriginEnds \/ OriginStarts
  BY <1>17, UntouchedStep DEF OriginEnds, OriginStarts
<1>18. CASE StopAll
  <2>1. /\ UNCHANGED <<row, task, proc, exit, stopping, timer, worker>>
        /\ \A i \in Jobs : stopper'[i] = "found" \/ stopper'[i] = stopper[i]
    BY <1>18 DEF StopAll
  <2> QED BY <2>1 DEF ExecInv, StopInv
<1>19. CASE WorkerEnds
  <2> SUFFICES ASSUME NEW i \in Jobs
               PROVE  ExecInv(i)' /\ StopInv(i)'
    OBVIOUS
  <2>1. /\ worker' = FALSE /\ row' = row /\ ~timer'[i] /\ stopper'[i] = "idle"
        /\ task'[i] = IF task[i] = "none" THEN "none" ELSE "ended"
    BY <1>19 DEF WorkerEnds
  <2>2. \/ proc'[i] = proc[i] /\ exit'[i] = exit[i]
        \/ /\ proc'[i] = IF proc[i] \in Alive THEN "down" ELSE proc[i]
           /\ exit'[i] = IF proc[i] = "up" THEN "signal" ELSE exit[i]
    BY <1>19 DEF WorkerEnds
  <2>3. ExecInv(i)'
    BY <2>1, <2>2 DEF ExecInv, Begun, Alive, Active
  <2>4. row[i] \in Rows /\ (row[i] = "none" => exit'[i] = "none")
    BY <2>2 DEF ExecInv, Alive, TypeOK
  <2>5. exit'[i] = "signal" /\ row[i] \in Terminal => row[i] \in {"stopped", "interrupted"}
    BY <2>2 DEF ExecInv, StopInv, Alive, Active, Terminal
  <2>6. StopInv(i)'
    BY <2>1, <2>4, <2>5 DEF StopInv, Rows
  <2> QED BY <2>3, <2>6
<1>20. CASE WorkerStarts
  <2> SUFFICES ASSUME NEW i \in Jobs
               PROVE  ExecInv(i)' /\ StopInv(i)'
    OBVIOUS
  <2>1. /\ ~worker /\ worker' /\ UNCHANGED <<task, proc, exit, stopping, stopper, timer>>
        /\ row'[i] = IF row[i] \in Active THEN "interrupted" ELSE row[i]
    BY <1>20 DEF WorkerStarts, RecoverRunningJobs
  <2>2. ExecInv(i)'
    BY <2>1 DEF ExecInv, Active
  <2>3. StopInv(i)'
    BY <2>1 DEF StopInv, Active, Terminal
  <2> QED BY <2>2, <2>3
<1> QED
  <2>1. ASSUME NEW j \in Jobs, CreateRemoteJob(j) \/ AnswerLost(j) \/ Monitor(j) \/ CopyFails(j)
        PROVE  \A i \in Jobs : ExecInv(i)' /\ StopInv(i)'
    BY <2>1, <1>16, UntouchedStep DEF Monitor
  <2> QED BY <2>1, <1>0, <1>2, <1>3, <1>4, <1>5, <1>6, <1>7, <1>8, <1>9, <1>10, <1>11, <1>12, <1>13, <1>14, <1>15, <1>17, <1>18, <1>19, <1>20 DEF Next, Exec, Stop

\* A result is final: the row of a job that is over never changes.
LEMMA ResultFinal ==
  ASSUME JobsInv, [Next]_vars, NEW i \in Jobs, row[i] \in Terminal
  PROVE  row'[i] = row[i]
<1> TypeOK /\ ExecInv(i) /\ row[i] \notin Active /\ row[i] # "none" /\ task[i] \notin Begun
  BY DEF JobsInv, ExecInv, Active, Terminal
<1>1. CASE row' = row
  BY <1>1
<1>2. ASSUME NEW j \in Jobs, CreateJob(j) \/ CannotStart(j) \/ StartJob(j) \/ FinishJob(j)
      PROVE  row'[i] = row[i]
  <2>1. i # j
    BY <1>2 DEF CreateJob, CannotStart, StartJob, FinishJob, Begun
  <2> QED BY <1>2, <2>1 DEF CreateJob, CannotStart, StartJob, FinishJob, TypeOK
<1>3. CASE WorkerStarts
  BY <1>3 DEF WorkerStarts, RecoverRunningJobs
<1> QED BY <1>1, <1>2, <1>3
        DEF Next, Exec, Stop, Monitor, vars, workerVars, StartLocal, StartRemote, Spawn, Register,
            pump, pumpChunks, WriteOutput, Reap, StopFind, StopAll, StopMark, StopTerm, StopCancel, Escalate, ProcessEnds,
            WorkerEnds, CreateRemoteJob, AnswerLost, Poll, SyncRemoteJob, CopyLog, CopyFails,
            OriginEnds, OriginStarts

\* How a step may change what the origin was told, and what it shows.
LEMMA MirrorStep ==
  ASSUME JobsInv, [Next]_vars, NEW i \in Jobs
  PROVE  MirrorInv(i)'
<1> TypeOK /\ MirrorInv(i)
  BY DEF JobsInv
<1>1. ASSUME polled'[i] \in {polled[i], "none"} \/ (row' = row /\ polled'[i] = row[i]),
             mirror'[i] \in {mirror[i], polled[i], "queued", "interrupted"}
      PROVE  MirrorInv(i)'
  BY <1>1, ResultFinal DEF MirrorInv, Terminal
<1>2. CASE UNCHANGED <<mirror, polled>>
  BY <1>1, <1>2
<1>3. ASSUME NEW j \in Jobs, CreateRemoteJob(j)
      PROVE  MirrorInv(i)'
  BY <1>1, <1>3 DEF CreateRemoteJob, TypeOK
<1>4. ASSUME NEW j \in Jobs, Poll(j)
      PROVE  MirrorInv(i)'
  <2>1. row' = row /\ mirror' = mirror /\ polled' = [polled EXCEPT ![j] = row[j]]
    BY <1>4 DEF Poll, workerVars
  <2> QED BY <1>1, <2>1 DEF TypeOK
<1>5. ASSUME NEW j \in Jobs, SyncRemoteJob(j)
      PROVE  MirrorInv(i)'
  BY <1>1, <1>5 DEF SyncRemoteJob, TypeOK
<1>6. CASE OriginEnds
  BY <1>1, <1>6 DEF OriginEnds
<1>7. CASE OriginStarts
  BY <1>1, <1>7 DEF OriginStarts, RecoverRunningJobs
<1> QED BY <1>2, <1>3, <1>4, <1>5, <1>6, <1>7
        DEF Next, Exec, Stop, Monitor, vars, originVars, StartLocal, StartRemote, CannotStart,
            StartJob, FinishJob, Spawn, Register, pump, pumpChunks, WriteOutput, Reap, StopFind, StopAll, StopMark, StopTerm,
            StopCancel, Escalate, ProcessEnds, WorkerEnds, WorkerStarts, AnswerLost, CopyLog, CopyFails

--------------------------------------------------------------------------------
(* What was copied *)

LEMMA OneNumbering ==
  ASSUME JobsInv, JobsAssumption, NEW i \in Jobs, kind[i] # "terminal"
  PROVE  newestSeq(i) = lines[i]
<1>1. lines[i] \in Nat /\ file[i] = [ended |-> lines[i], open |-> FALSE]
  BY DEF JobsInv, TypeOK, JobsAssumption, LogInv
<1> QED BY <1>1 DEF newestSeq

LEMMA LogStep ==
  ASSUME JobsAssumption, JobsInv, [Next]_vars, NEW i \in Jobs
  PROVE  LogInv(i)'
<1> TypeOK /\ LogInv(i) /\ ExecInv(i) /\ MirrorInv(i)
  BY DEF JobsInv
<1> lines[i] \in Nat
  BY DEF TypeOK, JobsAssumption
<1>1. ASSUME kind'[i] = kind[i], lines'[i] = lines[i], file'[i] = file[i], copied'[i] = copied[i],
             monitor'[i] = "whole" => monitor[i] = "whole" /\ polled'[i] = polled[i],
             row'[i] = "none" => row[i] = "none"
      PROVE  LogInv(i)'
  BY <1>1 DEF LogInv
<1>2. ASSUME UNCHANGED <<output, originVars>>, row'[i] = "none" => row[i] = "none"
      PROVE  LogInv(i)'
  BY <1>1, <1>2 DEF output, originVars
<1>3. ASSUME NEW j \in Jobs, WriteOutput(j), j # i, file'[i] = file[i]
      PROVE  LogInv(i)'
  BY <1>1, <1>3 DEF WriteOutput, TypeOK, originVars
<1>4. ASSUME WriteOutput(i), kind[i] = "terminal"
      PROVE  LogInv(i)'
  BY <1>4 DEF WriteOutput, LogInv
<1>5. ASSUME pump(i)
      PROVE  LogInv(i)'
  <2>1. /\ UNCHANGED <<copied, monitor, kind, row>> /\ lines'[i] = lines[i] + 1
        /\ row[i] \in Active /\ kind[i] = "command"
    BY <1>5 DEF pump, WriteOutput, originVars, ExecInv, Begun, TypeOK
  <2>2. file'[i] = [ended |-> lines'[i], open |-> FALSE]
    <3>1. file[i] = [ended |-> lines[i], open |-> FALSE] /\ file \in [Jobs -> [ended : Nat, open : BOOLEAN]]
      BY <2>1 DEF LogInv, TypeOK
    <3>2. file'[i] = [ended |-> file[i].ended + 1, open |-> FALSE]
      BY <1>5, <3>1 DEF pump
    <3>3. file[i].ended = lines[i]
      BY <3>1
    <3>4. lines'[i] = lines[i] + 1
      BY <2>1
    <3> QED BY <3>2, <3>3, <3>4
  <2>3. monitor[i] # "whole"
    BY <2>1 DEF LogInv, MirrorInv, Active, Terminal
  <2>4. PICK n \in 0 .. lines[i] : Numbers(copied[i], Gone(n), n)
    BY <2>1 DEF LogInv
  <2>5. n \in 0 .. lines'[i]
    BY <2>1
  <2> QED BY <2>1, <2>2, <2>3, <2>4, <2>5 DEF LogInv
<1>6. ASSUME NEW j \in Jobs, pump(j) \/ pumpChunks(j)
      PROVE  LogInv(i)'
  <2>1. CASE j = i
    BY <1>4, <1>5, <1>6, <2>1 DEF pumpChunks
  <2>2. CASE j # i
    <3>1. WriteOutput(j)
      BY <1>6 DEF pump, pumpChunks
    <3>2. file'[i] = file[i]
      BY <1>6, <2>2 DEF pump, pumpChunks, TypeOK
    <3> QED BY <1>3, <2>2, <3>1, <3>2
  <2> QED BY <2>1, <2>2
<1>7. ASSUME NEW j \in Jobs, CreateJob(j), UNCHANGED <<mirror, monitor, polled, copied>>
      PROVE  LogInv(i)'
  <2>1. PICK k \in {"command", "terminal"} : kind' = [kind EXCEPT ![j] = k]
    BY <1>7 DEF CreateJob
  <2>2. CASE i = j
    <3>1. row[i] = "none" /\ row'[i] = "queued" /\ UNCHANGED <<lines, file>>
      BY <1>7, <2>2 DEF CreateJob, TypeOK
    <3> QED BY <1>7, <3>1 DEF LogInv
  <2>3. CASE i # j
    BY <1>1, <1>7, <2>1, <2>3 DEF CreateJob, TypeOK
  <2> QED BY <2>2, <2>3
<1>8. ASSUME NEW j \in Jobs, CreateRemoteJob(j) \/ Poll(j) \/ SyncRemoteJob(j) \/ CopyFails(j) \/ AnswerLost(j)
      PROVE  LogInv(i)'
  <2>1. UNCHANGED <<kind, lines, file, row, copied>>
    BY <1>8 DEF CreateRemoteJob, Poll, SyncRemoteJob, CopyFails, AnswerLost, workerVars
  <2>2. CASE i # j
    BY <1>1, <1>8, <2>1, <2>2 DEF CreateRemoteJob, Poll, SyncRemoteJob, CopyFails, AnswerLost, TypeOK
  <2>3. CASE i = j
    <3>1. monitor'[i] # "whole" \/ UNCHANGED <<monitor, polled>>
      BY <1>8, <2>3 DEF CreateRemoteJob, Poll, SyncRemoteJob, CopyFails, AnswerLost, TypeOK
    <3> QED BY <1>1, <2>1, <3>1
  <2> QED BY <2>2, <2>3
<1>9. ASSUME NEW j \in Jobs, CopyLog(j)
      PROVE  LogInv(i)'
  <2>1. UNCHANGED <<kind, lines, file, row, polled>>
    BY <1>9 DEF CopyLog, workerVars
  <2>2. CASE i # j
    BY <1>1, <1>9, <2>1, <2>2 DEF CopyLog, TypeOK
  <2>3. CASE i = j /\ kind[i] = "terminal"
    BY <2>1, <2>3 DEF LogInv
  <2>4. CASE i = j /\ kind[i] # "terminal"
    <3>1. PICK n \in 0 .. lines[i] : Numbers(copied[i], Gone(n), n)
      BY <2>4 DEF LogInv
    <3>2. copied'[i] = Newest(copied[i] \o Newest(Since(i, lastSeq(copied[i]))))
      BY <1>9, <2>4 DEF CopyLog, TypeOK
    <3>3. newestSeq(i) = lines[i]
      BY <2>4, OneNumbering
    <3>4. Numbers(copied'[i], Gone(lines[i]), lines[i])
      BY <3>1, <3>2, <3>3, CopyIsTail
    <3>5. monitor'[i] = "whole" => polled[i] \in Terminal
      BY <1>9, <2>4 DEF CopyLog, TypeOK
    <3>6. lines[i] \in 0 .. lines'[i]
      BY <2>1
    <3> QED BY <2>1, <3>4, <3>5, <3>6 DEF LogInv
  <2> QED BY <2>2, <2>3, <2>4
<1>10. CASE OriginEnds
  <2>1. UNCHANGED <<kind, lines, file, row>> /\ copied'[i] = <<>> /\ monitor'[i] = "none"
    BY <1>10 DEF OriginEnds, workerVars
  <2>2. Numbers(<<>>, Gone(0), 0) /\ 0 \in 0 .. lines'[i]
    BY <2>1, EmptySeq DEF Numbers, Gone, JobsAssumption
  <2> QED BY <2>1, <2>2 DEF LogInv
<1>11. CASE OriginStarts
  BY <1>1, <1>11 DEF OriginStarts, workerVars
<1>12. ASSUME NEW j \in Jobs, StartLocal(j) \/ StartRemote(j)
       PROVE  LogInv(i)'
  BY <1>7, <1>12 DEF StartLocal, StartRemote, originVars
<1>13. ASSUME NEW j \in Jobs, CannotStart(j) \/ StartJob(j) \/ FinishJob(j)
       PROVE  LogInv(i)'
  <2>1. row'[i] = "none" => row[i] = "none"
    BY <1>13 DEF CannotStart, StartJob, FinishJob, classify, TypeOK
  <2>2. UNCHANGED <<output, originVars>>
    BY <1>13 DEF CannotStart, StartJob, FinishJob
  <2> QED BY <1>2, <2>1, <2>2
<1>14. ASSUME NEW j \in Jobs,
              \/ Spawn(j) \/ Register(j) \/ Reap(j) \/ StopFind(j) \/ StopMark(j) \/ StopTerm(j)
              \/ StopCancel(j) \/ Escalate(j) \/ ProcessEnds(j)
       PROVE  LogInv(i)'
  BY <1>2, <1>14 DEF Spawn, Register, Reap, StopFind, StopMark, StopTerm, StopCancel, Escalate, ProcessEnds
<1>15. CASE StopAll \/ UNCHANGED vars
  BY <1>2, <1>15 DEF StopAll, vars, workerVars, output
<1>16. CASE WorkerEnds
  BY <1>2, <1>16 DEF WorkerEnds, output
<1>17. CASE WorkerStarts
  BY <1>2, <1>17 DEF WorkerStarts, RecoverRunningJobs, output
<1> QED BY <1>6, <1>8, <1>9, <1>10, <1>11, <1>12, <1>13, <1>14, <1>15, <1>16, <1>17
        DEF Next, Exec, Stop, Monitor


--------------------------------------------------------------------------------
(* Theorems *)

LEMMA InitHolds ==
  ASSUME JobsAssumption, Init
  PROVE  JobsInv
<1>1. TypeOK
  BY EmptySeq DEF Init, TypeOK, JobsAssumption, Rows
<1>2. ASSUME NEW i \in Jobs
      PROVE  ExecInv(i) /\ StopInv(i) /\ MirrorInv(i) /\ LogInv(i)
  <2>1. ExecInv(i) /\ StopInv(i) /\ MirrorInv(i)
    BY DEF Init, ExecInv, StopInv, MirrorInv, Begun, Alive, Terminal
  <2>2. Numbers(<<>>, Gone(0), 0) /\ copied[i] = <<>> /\ 0 \in 0 .. lines[i] /\ monitor[i] = "none"
        /\ kind[i] = "none" /\ file[i] = [ended |-> lines[i], open |-> FALSE]
    <3>1. /\ copied[i] = <<>> /\ lines[i] = 0 /\ monitor[i] = "none" /\ kind[i] = "none"
          /\ file[i] = [ended |-> 0, open |-> FALSE] /\ Gone(0) = 0 /\ <<>> \in Seq(Nat) /\ Len(<<>>) = 0
      BY EmptySeq DEF Gone, JobsAssumption, Init
    <3> QED BY <3>1 DEF Numbers
  <2> QED BY <2>1, <2>2 DEF LogInv
<1> QED BY <1>1, <1>2 DEF JobsInv

THEOREM JobsInvariant == Spec => []JobsInv
<1>1. Init => JobsInv
  BY JobsAssumption, InitHolds
<1>2. JobsInv /\ [Next]_vars => JobsInv'
  <2> SUFFICES ASSUME JobsInv, [Next]_vars
               PROVE  JobsInv'
    OBVIOUS
  <2>1. TypeOK'
    BY JobsAssumption, StepKeepsTypes
  <2>2. \A i \in Jobs : ExecInv(i)' /\ StopInv(i)'
    BY WorkerStep
  <2>3. \A i \in Jobs : MirrorInv(i)' /\ LogInv(i)'
    BY JobsAssumption, MirrorStep, LogStep
  <2> QED BY <2>1, <2>2, <2>3 DEF JobsInv
<1> QED BY <1>1, <1>2, PTL DEF Spec

\* Every variable of the supervisor, the monitor and the processes keeps its type.
THEOREM JobsTypeCorrect == Spec => []TypeOK
<1>1. JobsInv => TypeOK
  BY DEF JobsInv
<1> QED BY <1>1, JobsInvariant, PTL

\* A job brought down by a signal of Stop or of its timer is recorded as stopped, or as
\* interrupted, in every interleaving of its exit, the calls and the ends of the daemon.
THEOREM KilledMeansStoppedHolds == Spec => []KilledMeansStopped
<1>1. JobsInv => KilledMeansStopped
  BY DEF JobsInv, StopInv, KilledMeansStopped
<1> QED BY <1>1, JobsInvariant, PTL

\* The origin shows only results the worker recorded, and they are final there.
THEOREM MirrorHonestHolds == Spec => []MirrorHonest
<1>1. JobsInv => MirrorHonest
  BY DEF JobsInv, MirrorInv, MirrorHonest
<1> QED BY <1>1, JobsInvariant, PTL

\* The origin's copy of a command's output has no gap at any moment, and is the worker's tail when
\* the monitor is through, however many lines fell out of the tail between two polls.
THEOREM LogWholeHolds == Spec => []LogWhole
<1>1. JobsInv => LogWhole
  <2> SUFFICES ASSUME JobsInv, NEW j \in Jobs, kind[j] # "terminal"
               PROVE  /\ \A i \in 1..Len(copied[j]) - 1 : copied[j][i + 1] = copied[j][i] + 1
                      /\ monitor[j] = "whole" => copied[j] = TailOf(j)
    BY DEF LogWhole
  <2>1. PICK n \in 0 .. lines[j] : Numbers(copied[j], Gone(n), n)
    BY DEF JobsInv, LogInv
  <2>2. Gone(n) \in Nat /\ n \in Nat /\ lines[j] \in Nat
    BY JobsAssumption DEF JobsInv, TypeOK, Gone, JobsAssumption
  <2>3. \A i \in 1..Len(copied[j]) - 1 : copied[j][i + 1] = copied[j][i] + 1
    <3> SUFFICES ASSUME NEW i \in 1..Len(copied[j]) - 1
                 PROVE  copied[j][i + 1] = copied[j][i] + 1
      OBVIOUS
    <3>1. Len(copied[j]) \in Nat /\ i \in 1..Len(copied[j]) /\ i + 1 \in 1..Len(copied[j])
      BY <2>1, <2>2 DEF Numbers
    <3>2. \A k \in 1..Len(copied[j]) : copied[j][k] = Gone(n) + k
      BY <2>1 DEF Numbers
    <3>3. copied[j][i] = Gone(n) + i /\ copied[j][i + 1] = Gone(n) + (i + 1)
      BY <3>1, <3>2
    <3> QED BY <2>2, <3>3
  <2>4. ASSUME monitor[j] = "whole"
        PROVE  copied[j] = TailOf(j)
    <3>1. newestSeq(j) = lines[j]
      BY JobsAssumption, OneNumbering
    <3>2. Numbers(copied[j], Gone(lines[j]), lines[j])
      BY <2>4 DEF JobsInv, LogInv
    <3> QED BY <2>2, <3>1, <3>2, JobsAssumption, TailOfNumbers, NumbersEqual
  <2> QED BY <2>3, <2>4
<1> QED BY <1>1, JobsInvariant, PTL

--------------------------------------------------------------------------------
(* JobHistory: the outbox and the history after a list *)

Boxes == {box \in SUBSET Records : IsFiniteSet(box)}

OnePerRun(past) == \A r, s \in past : SameRun(r, s) => r = s
NoUndatedGhost(past) ==
  \A r, s \in past : r.id = s.id /\ r.status = "PENDING" /\ r.started = 0 => s.started = 0
Histories == {past \in SUBSET Records : OnePerRun(past) /\ NoUndatedGhost(past)}

LEMMA QueuedIsABox ==
  ASSUME NEW box \in Boxes, NEW r \in Records
  PROVE  Queued(box, r) \in Boxes
<1> DEFINE kept == IF r.started > 0 THEN {o \in box : o.id # r.id \/ o.started # 0} ELSE box
           old  == {o \in kept : SameRun(o, r)}
<1>1. IsFiniteSet(box) /\ box \subseteq Records
  BY DEF Boxes
<1>2. kept \subseteq box
  OBVIOUS
<1>3. IsFiniteSet(kept)
  <2> HIDE DEF kept
  <2> QED BY <1>1, <1>2, FS_Subset
<1>4. IsFiniteSet(kept \ old)
  <2>1. kept \ old \subseteq kept
    OBVIOUS
  <2> HIDE DEF kept, old
  <2> QED BY <1>3, <2>1, FS_Subset
<1>5. IsFiniteSet((kept \ old) \cup {r})
  <2> HIDE DEF kept, old
  <2> QED BY <1>4, FS_AddElement
<1>6. Queued(box, r) = kept \/ Queued(box, r) = (kept \ old) \cup {r}
  BY DEF Queued
<1>7. kept \subseteq Records /\ (kept \ old) \cup {r} \subseteq Records
  BY <1>1, <1>2
<1> HIDE DEF kept, old
<1> QED BY <1>3, <1>5, <1>6, <1>7 DEF Boxes

\* A record of an outbox never makes two entries of a run, or a ghost of one.
LEMMA RecordedKeepsOrder ==
  ASSUME NEW past \in Histories, NEW r \in Records
  PROVE  Recorded(past, r) \in Histories
<1> DEFINE dated == \E o \in past : o.id = r.id /\ o.started > 0
           kept  == IF r.started > 0
                    THEN {o \in past : o.id # r.id \/ o.started # 0 \/ o.status # "PENDING"}
                    ELSE past
           old   == {o \in kept : SameRun(o, r)}
           new   == (kept \ old) \cup {r}
<1>1. past \subseteq Records /\ OnePerRun(past) /\ NoUndatedGhost(past)
  BY DEF Histories
<1>2. kept \subseteq past
  OBVIOUS
<1>3. kept \in Histories
  BY <1>1, <1>2 DEF Histories, OnePerRun, NoUndatedGhost
<1>4. ASSUME ~(r.started = 0 /\ dated) PROVE new \in Histories
  <2>1. new \subseteq Records
    BY <1>1, <1>2
  <2>2. OnePerRun(new)
    BY <1>1, <1>2 DEF OnePerRun, SameRun
  <2>3. \A s \in past : r.id = s.id /\ r.started = 0 => s.started = 0
    <3> SUFFICES ASSUME NEW s \in past, r.id = s.id, r.started = 0, s.started # 0 PROVE FALSE
      OBVIOUS
    <3>1. s.started \in Nat
      BY <1>1, HistoryAssumption DEF Records
    <3> QED BY <3>1, <1>4
  <2>4. \A s \in kept : s.id = r.id /\ s.status = "PENDING" /\ s.started = 0 => r.started = 0
    <3>1. r.started \in Nat
      BY HistoryAssumption DEF Records
    <3> QED BY <3>1
  <2>5. NoUndatedGhost(new)
    <3> SUFFICES ASSUME NEW p \in new, NEW q \in new, p.id = q.id, p.status = "PENDING", p.started = 0
                 PROVE  q.started = 0
      BY DEF NoUndatedGhost
    <3>1. CASE p = r /\ q = r
      BY <3>1
    <3>2. CASE p = r /\ q # r
      BY <3>2, <2>3, <1>2
    <3>3. CASE p # r /\ q = r
      BY <3>3, <2>4
    <3>4. CASE p # r /\ q # r
      BY <3>4, <1>1, <1>2 DEF NoUndatedGhost
    <3> QED BY <3>1, <3>2, <3>3, <3>4
  <2> QED BY <2>1, <2>2, <2>5 DEF Histories
<1>5. \/ Recorded(past, r) = past
      \/ Recorded(past, r) = kept
      \/ Recorded(past, r) = new /\ ~(r.started = 0 /\ dated)
  BY DEF Recorded
<1> QED BY <1>3, <1>4, <1>5

LEMMA QueuedAllIsABox ==
  ASSUME NEW box \in Boxes, NEW list \in Seq(Records)
  PROVE  QueuedAll(box, list) \in Boxes
<1> DEFINE D == 0 .. Len(list)
           upto[n \in D] == IF n = 0 THEN box ELSE Queued(upto[n - 1], list[n])
           Step == [z \in Boxes \X Records |-> Queued(z[1], z[2])]
<1>0. Len(list) \in Nat /\ \A i \in 1 .. Len(list) : list[i] \in Records
  OBVIOUS
<1>1. Step \in [Boxes \X Records -> Boxes]
  <2>1. \A z \in Boxes \X Records : Queued(z[1], z[2]) \in Boxes
    BY QueuedIsABox
  <2> QED BY <2>1
<1>2. \A b \in Boxes, r \in Records : Step[<<b, r>>] = Queued(b, r)
  OBVIOUS
<1>3. PICK f : IsWalk(f, Step, Boxes, box, list)
  <2> HIDE DEF Step, upto
  <2>1. IsStep(Step, Boxes, Records)
    BY <1>1 DEF IsStep
  <2> QED BY <2>1, WalkExists
<1>4. f = [n \in D |-> IF n = 0 THEN box ELSE Queued(f[n - 1], list[n])]
  <2> HIDE DEF Step
  <2>1. ASSUME NEW n \in D, n # 0
        PROVE  Step[<<f[n - 1], list[n]>>] = Queued(f[n - 1], list[n])
    <3>1. n - 1 \in D /\ n \in 1 .. Len(list)
      BY <2>1, <1>0
    <3>2. f[n - 1] \in Boxes /\ list[n] \in Records
      BY <3>1, <1>0, <1>3 DEF IsWalk
    <3> QED BY <3>2, <1>2
  <2>2. \A n \in D : f[n] = (IF n = 0 THEN box ELSE Queued(f[n - 1], list[n]))
    <3>1. \A n \in D : n # 0 => n \in 1 .. Len(list)
      BY <1>0
    <3> QED BY <2>1, <3>1, <1>3 DEF IsWalk
  <2> QED BY <2>2, <1>3 DEF IsWalk
<1>5. upto = [n \in D |-> IF n = 0 THEN box ELSE Queued(upto[n - 1], list[n])]
  <2>1. upto = CHOOSE g : g = [n \in D |-> IF n = 0 THEN box ELSE Queued(g[n - 1], list[n])]
    BY DEF upto
  <2> HIDE DEF upto
  <2> QED BY <2>1, <1>4
<1>6. QueuedAll(box, list) = upto[Len(list)]
  BY DEF QueuedAll
<1> HIDE DEF upto, Step
<1>7. upto[0] = box
  BY <1>0, <1>5
<1>8. ASSUME NEW i \in 0 .. Len(list) - 1, upto[i] \in Boxes PROVE upto[i + 1] \in Boxes
  <2>1. i + 1 \in D /\ i + 1 \in 1 .. Len(list) /\ i + 1 # 0 /\ i + 1 - 1 = i
    BY <1>0
  <2>2. upto[i + 1] = Queued(upto[i], list[i + 1])
    BY <2>1, <1>5
  <2> QED BY <2>1, <2>2, <1>0, <1>8, QueuedIsABox
<1> QED BY <1>0, <1>6, <1>7, <1>8, StepsStay

LEMMA RecordedAllKeepsOrder ==
  ASSUME NEW past \in Histories, NEW list \in Seq(Records)
  PROVE  RecordedAll(past, list) \in Histories
<1> DEFINE D == 0 .. Len(list)
           upto[n \in D] == IF n = 0 THEN past ELSE Recorded(upto[n - 1], list[n])
           Step == [z \in Histories \X Records |-> Recorded(z[1], z[2])]
<1>0. Len(list) \in Nat /\ \A i \in 1 .. Len(list) : list[i] \in Records
  OBVIOUS
<1>1. Step \in [Histories \X Records -> Histories]
  <2>1. \A z \in Histories \X Records : Recorded(z[1], z[2]) \in Histories
    BY RecordedKeepsOrder
  <2> QED BY <2>1
<1>2. \A b \in Histories, r \in Records : Step[<<b, r>>] = Recorded(b, r)
  OBVIOUS
<1>3. PICK f : IsWalk(f, Step, Histories, past, list)
  <2> HIDE DEF Step, upto
  <2>1. IsStep(Step, Histories, Records)
    BY <1>1 DEF IsStep
  <2> QED BY <2>1, WalkExists
<1>4. f = [n \in D |-> IF n = 0 THEN past ELSE Recorded(f[n - 1], list[n])]
  <2> HIDE DEF Step
  <2>1. ASSUME NEW n \in D, n # 0
        PROVE  Step[<<f[n - 1], list[n]>>] = Recorded(f[n - 1], list[n])
    <3>1. n - 1 \in D /\ n \in 1 .. Len(list)
      BY <2>1, <1>0
    <3>2. f[n - 1] \in Histories /\ list[n] \in Records
      BY <3>1, <1>0, <1>3 DEF IsWalk
    <3> QED BY <3>2, <1>2
  <2>2. \A n \in D : f[n] = (IF n = 0 THEN past ELSE Recorded(f[n - 1], list[n]))
    <3>1. \A n \in D : n # 0 => n \in 1 .. Len(list)
      BY <1>0
    <3> QED BY <2>1, <3>1, <1>3 DEF IsWalk
  <2> QED BY <2>2, <1>3 DEF IsWalk
<1>5. upto = [n \in D |-> IF n = 0 THEN past ELSE Recorded(upto[n - 1], list[n])]
  <2>1. upto = CHOOSE g : g = [n \in D |-> IF n = 0 THEN past ELSE Recorded(g[n - 1], list[n])]
    BY DEF upto
  <2> HIDE DEF upto
  <2> QED BY <2>1, <1>4
<1>6. RecordedAll(past, list) = upto[Len(list)]
  BY DEF RecordedAll
<1> HIDE DEF upto, Step
<1>7. upto[0] = past
  BY <1>0, <1>5
<1>8. ASSUME NEW i \in 0 .. Len(list) - 1, upto[i] \in Histories PROVE upto[i + 1] \in Histories
  <2>1. i + 1 \in D /\ i + 1 \in 1 .. Len(list) /\ i + 1 # 0 /\ i + 1 - 1 = i
    BY <1>0
  <2>2. upto[i + 1] = Recorded(upto[i], list[i + 1])
    BY <2>1, <1>5
  <2> QED BY <2>1, <2>2, <1>0, <1>8, RecordedKeepsOrder
<1> QED BY <1>0, <1>6, <1>7, <1>8, StepsStay

\* The order in which the records of a set are sent is a sequence of them.
LEMMA ListedRecords ==
  ASSUME NEW R \in SUBSET Records, IsFiniteSet(R), NEW list \in SetToSeqs(R)
  PROVE  list \in Seq(Records)
<1>1. Cardinality(R) \in Nat
  BY FS_CardinalityType
<1>2. list \in [1 .. Cardinality(R) -> R]
  BY DEF SetToSeqs
<1> QED BY <1>1, <1>2

--------------------------------------------------------------------------------
(* The invariant *)

HistoryInv ==
  /\ HistoryTypeOK
  /\ IsFiniteSet(ray)
  /\ \A d \in Devices : IsFiniteSet(seen[d]) /\ IsFiniteSet(outbox[d])
  /\ NoGhosts

LEMMA NoGhostsIsOfHistories ==
  HistoryTypeOK => (NoGhosts <=> history \in Histories)
BY DEF HistoryTypeOK, NoGhosts, Histories, OnePerRun, NoUndatedGhost

LEMMA HistoryStarts == HistoryInit => HistoryInv
<1> SUFFICES ASSUME HistoryInit PROVE HistoryInv
  OBVIOUS
<1>1. HistoryTypeOK
  BY HistoryAssumption DEF HistoryInit, HistoryTypeOK
<1>2. IsFiniteSet({})
  BY FS_EmptySet
<1> QED BY <1>1, <1>2 DEF HistoryInit, HistoryInv, NoGhosts

LEMMA RecordStarts ==
  ASSUME NEW r \in Records, NEW n \in 0 .. MaxStart
  PROVE  [r EXCEPT !.status = "RUNNING", !.started = n] \in Records
BY DEF Records, Statuses

\* What Ray does leaves devices and the service alone.
LEMMA RayStep ==
  ASSUME HistoryInv,
         \/ \E i \in Ids : submitRayJob(i)
         \/ \E r \in ray : RayEnds(r) \/ RayStarts(r)
         \/ NewHead
  PROVE  HistoryInv'
<1> USE HistoryAssumption DEF HistoryInv, deviceVars
<1>0. IsFiniteSet({}) /\ \A r \in Records : IsFiniteSet(ray \ {r})
  <2>1. \A r : ray \ {r} \subseteq ray
    OBVIOUS
  <2> QED BY <2>1, FS_EmptySet, FS_Subset
<1>1. ASSUME NEW i \in Ids, submitRayJob(i) PROVE HistoryInv'
  <2> DEFINE r == [id |-> i, status |-> "PENDING", started |-> 0]
  <2>1. r \in Records
    BY DEF Records, Statuses
  <2>2. ray' = ray \cup {r} /\ reported' = reported \cup ray' /\ UNCHANGED heads
    BY <1>1 DEF submitRayJob, Lists
  <2>3. IsFiniteSet(ray')
    <3> HIDE DEF r
    <3> QED BY <2>2, FS_AddElement
  <2>4. HistoryTypeOK'
    <3> HIDE DEF r
    <3> QED BY <1>1, <2>1, <2>2 DEF HistoryTypeOK, submitRayJob
  <2> QED BY <1>1, <2>3, <2>4 DEF submitRayJob, NoGhosts
<1>2. ASSUME NEW r \in ray, NEW q \in Records, ray' = (ray \ {r}) \cup {q},
             reported' = reported \cup ray', heads' = heads, clock' \in 0 .. MaxStart,
             UNCHANGED <<phase, seen, previous, outbox, mayReport, history, ends>>
      PROVE  HistoryInv'
  <2>1. r \in Records
    BY DEF HistoryTypeOK
  <2>2. IsFiniteSet(ray')
    BY <1>0, <1>2, <2>1, FS_AddElement
  <2>3. HistoryTypeOK'
    BY <1>2 DEF HistoryTypeOK
  <2> QED BY <1>2, <2>2, <2>3 DEF NoGhosts
<1>3. ASSUME NEW r \in ray, RayEnds(r) PROVE HistoryInv'
  <2>1. [r EXCEPT !.status = "ENDED"] \in Records
    BY DEF HistoryTypeOK, Records, Statuses
  <2> QED BY <1>2, <1>3, <2>1 DEF RayEnds, Lists, HistoryTypeOK
<1>4. ASSUME NEW r \in ray, RayStarts(r) PROVE HistoryInv'
  <2>1. clock' \in 0 .. MaxStart
    <3>1. clock' = clock + 1 /\ clock < MaxStart /\ clock \in 0 .. MaxStart /\ MaxStart \in Nat
      BY <1>4 DEF RayStarts, HistoryTypeOK
    <3> QED BY <3>1
  <2>2. ASSUME NEW n \in 0 .. MaxStart
        PROVE  [r EXCEPT !.status = "RUNNING", !.started = n] \in Records
    BY RecordStarts DEF HistoryTypeOK
  <2> QED BY <1>2, <1>4, <2>1, <2>2 DEF RayStarts, Lists
<1>5. ASSUME NewHead PROVE HistoryInv'
  <2>1. HistoryTypeOK'
    BY <1>5 DEF NewHead, HistoryTypeOK
  <2> QED BY <1>0, <1>5, <2>1 DEF NewHead, NoGhosts
<1> QED BY <1>1, <1>3, <1>4, <1>5

\* What a device does but report leaves the history alone.
LEMMA DeviceStep ==
  ASSUME HistoryInv, NEW d \in Devices,
         \/ ReadJobs(d) \/ ReadFails(d) \/ QueueRayJobs(d) \/ PendingRayJobs(d)
         \/ ReportFails(d) \/ AckRayJobs(d) \/ Restart(d)
  PROVE  HistoryInv'
<1> USE HistoryAssumption DEF HistoryInv, rayVars
<1>0. IsFiniteSet({})
  BY FS_EmptySet
<1>1. ASSUME ReadJobs(d) \/ ReadFails(d) \/ PendingRayJobs(d) \/ ReportFails(d) PROVE HistoryInv'
  BY <1>1 DEF HistoryTypeOK, NoGhosts, ReadJobs, ReadFails, PendingRayJobs, ReportFails
<1>2. ASSUME AckRayJobs(d) \/ Restart(d) PROVE HistoryInv'
  <2>1. HistoryTypeOK'
    BY <1>2 DEF HistoryTypeOK, AckRayJobs, Restart
  <2>2. \A e \in Devices : IsFiniteSet(seen'[e]) /\ IsFiniteSet(outbox'[e])
    BY <1>0, <1>2 DEF HistoryTypeOK, AckRayJobs, Restart
  <2> QED BY <1>2, <2>1, <2>2 DEF NoGhosts, AckRayJobs, Restart
<1>3. ASSUME QueueRayJobs(d) PROVE HistoryInv'
  <2>1. /\ phase' = [phase EXCEPT ![d] = "queued"]
        /\ seen' = [seen EXCEPT ![d] = {}]
        /\ UNCHANGED <<ray, heads, clock, reported, mayReport, history, ends>>
    BY <1>3 DEF QueueRayJobs
  <2>2. seen[d] \in SUBSET Records /\ outbox[d] \in Boxes
    BY DEF HistoryTypeOK, Boxes
  <2>3. /\ outbox' \in [Devices -> SUBSET Records]
        /\ \A e \in Devices : IsFiniteSet(outbox'[e])
        /\ previous' \in [Devices -> SUBSET SUBSET Records]
    <3>1. CASE UNCHANGED <<outbox, previous>>
      BY <3>1 DEF HistoryTypeOK
    <3>2. CASE ~UNCHANGED <<outbox, previous>>
      <4>1. PICK list \in SetToSeqs(seen[d]) : outbox' = [outbox EXCEPT ![d] = QueuedAll(outbox[d], list)]
        BY <1>3, <3>2 DEF QueueRayJobs
      <4>2. previous' = [previous EXCEPT ![d] = {seen[d]}]
        BY <1>3, <3>2 DEF QueueRayJobs
      <4>3. QueuedAll(outbox[d], list) \in Boxes
        BY <2>2, ListedRecords, QueuedAllIsABox
      <4>4. QueuedAll(outbox[d], list) \in SUBSET Records /\ IsFiniteSet(QueuedAll(outbox[d], list))
        BY <4>3 DEF Boxes
      <4> QED BY <2>2, <4>1, <4>2, <4>4 DEF HistoryTypeOK
    <3> QED BY <3>1, <3>2
  <2>4. HistoryTypeOK'
    BY <2>1, <2>3 DEF HistoryTypeOK
  <2>5. \A e \in Devices : IsFiniteSet(seen'[e])
    BY <1>0, <2>1 DEF HistoryTypeOK
  <2>6. NoGhosts'
    BY <2>1 DEF NoGhosts
  <2> QED BY <2>1, <2>3, <2>4, <2>5, <2>6
<1> QED BY <1>1, <1>2, <1>3

LEMMA HistoryStep == HistoryInv /\ [HistoryNext]_historyVars => HistoryInv'
<1> SUFFICES ASSUME HistoryInv, [HistoryNext]_historyVars PROVE HistoryInv'
  OBVIOUS
<1> USE DEF HistoryInv
<1>1. ASSUME NEW d \in Devices, RecordNetworkJobs(d) PROVE HistoryInv'
  <2>1. outbox[d] \in SUBSET Records /\ history \in Histories
    BY NoGhostsIsOfHistories DEF HistoryTypeOK
  <2>2. PICK report \in SetToSeqs(outbox[d]) : history' = RecordedAll(history, report)
    BY <1>1 DEF RecordNetworkJobs
  <2>3. history' \in Histories
    BY <2>1, <2>2, ListedRecords, RecordedAllKeepsOrder
  <2>4. HistoryTypeOK'
    BY <1>1, <2>3 DEF RecordNetworkJobs, HistoryTypeOK, Histories, rayVars
  <2>5. NoGhosts'
    BY <2>3 DEF NoGhosts, Histories, OnePerRun, NoUndatedGhost
  <2> QED BY <1>1, <2>4, <2>5 DEF RecordNetworkJobs, rayVars
<1>2. CASE ChangeRole
  BY <1>2 DEF ChangeRole, deviceVars, rayVars, HistoryTypeOK, NoGhosts
<1>3. CASE UNCHANGED historyVars
  BY <1>3 DEF historyVars, HistoryTypeOK, NoGhosts
<1> QED BY <1>1, <1>2, <1>3, RayStep, DeviceStep DEF HistoryNext, Cycle

LEMMA HistoryAlways == HistorySpec => []HistoryInv
BY HistoryStarts, HistoryStep, PTL DEF HistorySpec

--------------------------------------------------------------------------------
(* The theorems *)

\* Type correctness, for any devices, identifiers and number of runs.
THEOREM HistoryTypeCorrect == HistorySpec => []HistoryTypeOK
<1>1. HistoryInv => HistoryTypeOK
  BY DEF HistoryInv
<1> QED BY <1>1, HistoryAlways, PTL

\* A run is listed once, in whatever order and however often devices report what
\* they saw of it (accountserver/jobs.go, RecordNetworkJobs).
THEOREM NoGhostsHolds == HistorySpec => []NoGhosts
<1>1. HistoryInv => NoGhosts
  BY DEF HistoryInv
<1> QED BY <1>1, HistoryAlways, PTL

\* What getRayJobs makes of a list and a history without ghosts.
LEMMA Merged ==
  ASSUME NEW answer \in SUBSET Records, \A r, s \in answer : r.id = s.id => r = s,
         HistoryTypeOK, NoGhosts
  PROVE  \A r \in getRayJobs(answer, history) :
           /\ \A s \in getRayJobs(answer, history) : SameRun(r, s) => r = s
           /\ \A s \in history : SameRun(r, s) /\ ~Running(s) => ~Running(r)
<1> DEFINE listed == Listed(answer, history)
           Over(r) == IF Running(r) /\ \E s \in history : SameRun(r, s) /\ ~Running(s)
                      THEN CHOOSE s \in history : SameRun(r, s) ELSE r
           rest == {s \in history : \A r \in listed : ~SameRun(r, s)}
<1>1. getRayJobs(answer, history) = {Over(r) : r \in listed} \cup rest
  BY DEF getRayJobs, mergeJobHistory
<1>2. listed \subseteq answer
  BY DEF Listed
<1>3. \A r \in listed : SameRun(r, Over(r))
  <2> SUFFICES ASSUME NEW r \in listed PROVE SameRun(r, Over(r))
    OBVIOUS
  <2>1. CASE \E s \in history : SameRun(r, s)
    <3>1. SameRun(r, CHOOSE s \in history : SameRun(r, s))
      BY <2>1
    <3> QED BY <3>1 DEF SameRun
  <2>2. CASE ~ \E s \in history : SameRun(r, s)
    BY <2>2 DEF SameRun
  <2> QED BY <2>1, <2>2
<1>4. \A r \in listed, s \in history : SameRun(r, s) /\ ~Running(s) => ~Running(Over(r))
  <2> SUFFICES ASSUME NEW r \in listed, NEW s \in history, SameRun(r, s), ~Running(s)
               PROVE  ~Running(Over(r))
    OBVIOUS
  <2>1. CASE Running(r)
    <3>1. Over(r) = CHOOSE o \in history : SameRun(r, o)
      BY <2>1
    <3>2. (CHOOSE o \in history : SameRun(r, o)) \in history
          /\ SameRun(r, CHOOSE o \in history : SameRun(r, o))
      OBVIOUS
    <3> HIDE DEF Over
    <3>3. Over(r) \in history /\ SameRun(r, Over(r))
      BY <3>1, <3>2
    <3>4. SameRun(Over(r), s)
      BY <3>3 DEF SameRun
    <3>5. Over(r) = s
      BY <3>3, <3>4 DEF NoGhosts
    <3> QED BY <3>5
  <2>2. CASE ~Running(r)
    BY <2>2
  <2> QED BY <2>1, <2>2
<1> HIDE DEF Over, listed
<1>5. \A p, q \in listed : SameRun(p, q) => p = q
  BY <1>2 DEF SameRun
<1>6. SUFFICES ASSUME NEW r \in {Over(p) : p \in listed} \cup rest
               PROVE  /\ \A s \in {Over(p) : p \in listed} \cup rest : SameRun(r, s) => r = s
                      /\ \A s \in history : SameRun(r, s) /\ ~Running(s) => ~Running(r)
  BY <1>1
<1>7. CASE r \in rest
  <2>1. r \in history /\ \A p \in listed : ~SameRun(p, r)
    BY <1>7
  <2>2. \A s \in history : SameRun(r, s) => r = s
    BY <2>1 DEF NoGhosts
  <2>3. \A p \in listed : ~SameRun(r, Over(p))
    BY <2>1, <1>3 DEF SameRun
  <2> QED BY <2>1, <2>2, <2>3
<1>8. CASE r \in {Over(p) : p \in listed}
  <2>1. PICK p \in listed : r = Over(p)
    BY <1>8
  <2>2. SameRun(p, r)
    BY <2>1, <1>3
  <2>3. \A q \in listed : SameRun(r, Over(q)) => r = Over(q)
    <3> SUFFICES ASSUME NEW q \in listed, SameRun(r, Over(q)) PROVE p = q
      BY <2>1
    <3>1. SameRun(q, Over(q))
      BY <1>3
    <3>2. SameRun(p, q)
      BY <3>1, <2>2 DEF SameRun
    <3> QED BY <3>2, <1>5
  <2>4. \A s \in rest : ~SameRun(r, s)
    BY <2>2 DEF SameRun
  <2>5. \A s \in history : SameRun(r, s) => SameRun(p, s)
    BY <2>2 DEF SameRun
  <2> QED BY <2>1, <2>3, <2>4, <2>5, <1>4
<1> QED BY <1>7, <1>8

\* No delayed list makes an ended run run again, and nothing is shown twice
\* (api/jobhistory.go, mergeJobHistory).
THEOREM NoRevivalHolds == HistorySpec => []NoRevival
<1>1. HistoryInv => NoRevival
  <2> SUFFICES ASSUME HistoryInv PROVE NoRevival
    OBVIOUS
  <2>1. \A answer \in SUBSET reported : answer \in SUBSET Records
    BY DEF HistoryInv, HistoryTypeOK
  <2> QED BY <2>1, Merged DEF HistoryInv, NoRevival
<1> QED BY <1>1, HistoryAlways, PTL
================================================================================
