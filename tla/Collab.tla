------------------------------- MODULE Collab -------------------------------
(***************************************************************************)
(* Collaborative editing of one file of a project that several machines     *)
(* have cloned (internal/collab, internal/store/collab*.go and the          *)
(* handlers of internal/api that touch the file).                           *)
(*                                                                          *)
(* A browser sends one splice per edit, based on the revision of the        *)
(* document it saw on its own machine.  Every clone that receives the       *)
(* splice transforms it through the edits it applied since, commits         *)
(* document and splice to its database, then writes the file.  A save, an   *)
(* upload or a resolved conflict replaces the file beside all this and only *)
(* then makes the clone forget the document.                                *)
(*                                                                          *)
(* Text is a sequence of marks: every edit inserts at most one mark that    *)
(* names it, every replacement leaves one mark of its own.                  *)
(***************************************************************************)
EXTENDS Integers, Sequences, FiniteSets, SequencesExt

CONSTANTS Clones,        \* machines that hold a clone of the project
          Clients,       \* browsers that edit the file, ordered as numbers
          Home,          \* the machine each browser is connected to
          Workplaces,    \* the machines at which somebody opens and saves the file
          HistoryLimit,  \* historyLimit: edits kept for reconciliation
          TrimEvery,     \* trimEvery: edits between two sweeps of the log
          Deletions,     \* how many characters an edit may replace
          \* bounds of the model
          MaxOps,        \* edits of one browser
          MaxTroubles    \* replacements of the file, ends of a daemon, failed writes

ASSUME CollabAssumption ==
    /\ Clients \subseteq Nat \ {0}
    /\ Workplaces \subseteq Clones /\ Home \in [Clients -> Workplaces]
    /\ HistoryLimit \in Nat \ {0} /\ TrimEvery \in Nat \ {0}
    /\ {Deletions, MaxOps, MaxTroubles} \subseteq Nat

VARIABLES mem,        \* Manager.docs: the document in memory
          row,        \* the collab_document row
          log,        \* the collab_operation rows, oldest first
          file,       \* the file in the project folder
          sent,       \* edits the browsers have sent, the relay may repeat them
          delivered,  \* the last edit of each browser each clone was handed
          handling,   \* the edit a clone's event handler has read the file for
          opening,    \* the snapshot openCollabDocument is about to write
          saving,     \* a handler replaced the file and has not reset yet
          applied,    \* the edits applied since the last reset (history variable)
          saved,      \* the mark of the last finished replacement (history variable)
          saves, downs, fails
vars == <<mem, row, log, file, sent, delivered, handling, opening, saving,
          applied, saved, saves, downs, fails>>

Troubled == saves + downs + fails < MaxTroubles
Original == <<0, 0>>
SaveMark(n) == <<0, n>>
NoText == [there |-> FALSE, text |-> <<>>]
Text(t) == [there |-> TRUE, text |-> t]
Nobody == [k \in Clients |-> 0]
NoDoc == [content |-> <<>>, revision |-> -1, history |-> <<>>, seen |-> Nobody, sinceTrim |-> 0]
NoRow == [content |-> <<>>, revision |-> -1]
Free == [busy |-> FALSE]

Init ==
    /\ mem = [c \in Clones |-> NoDoc]
    /\ row = [c \in Clones |-> NoRow]
    /\ log = [c \in Clones |-> <<>>]
    /\ file = [c \in Clones |-> Text(<<Original>>)]
    /\ sent = {}
    /\ delivered = [c \in Clones |-> Nobody]
    /\ handling = [c \in Clones |-> Free]
    /\ opening = [c \in Clones |-> Free]
    /\ saving = [c \in Clones |-> FALSE]
    /\ applied = [c \in Clones |-> <<>>]
    /\ saved = [c \in Clones |-> Original]
    /\ saves = 0 /\ downs = 0 /\ fails = 0

-----------------------------------------------------------------------------
\* The text operations.

\* operationOrder: client first, sequence second.
Before(p, q) == p.client < q.client \/ (p.client = q.client /\ p.seq < q.seq)
Inserted(op) == IF op.insert THEN 1 ELSE 0
Delta(op) == Inserted(op) - (op.to - op.from)

\* transform without the order of simultaneous insertions.
FirstComeFirst(op, other) ==
    IF other.to <= op.from THEN [op EXCEPT !.from = @ + Delta(other), !.to = @ + Delta(other)]
    ELSE op

\* The range of op once other, which op did not know of, has been applied.
transform(op, other) ==
    LET pureInserts == other.from = other.to /\ op.from = op.to /\ other.from = op.from
        start == IF other.from < op.from THEN other.from + Inserted(other) ELSE op.from
        end   == IF op.to + Delta(other) < start THEN start ELSE op.to + Delta(other)
    IN  CASE pureInserts /\ Before(other, op) ->
                 [op EXCEPT !.from = @ + Inserted(other), !.to = @ + Inserted(other)]
          [] pureInserts /\ ~Before(other, op) -> op
          [] ~pureInserts /\ other.to <= op.from ->
                 [op EXCEPT !.from = @ + Delta(other), !.to = @ + Delta(other)]
          [] ~pureInserts /\ other.to > op.from /\ other.from >= op.to -> op
          [] OTHER -> [op EXCEPT !.from = start, !.to = end]

\* op carried through the edits of the document it was not based on.
Past(op, other) == IF other.revision <= op.base THEN op ELSE transform(op, other)
Reconciled(op, doc) ==
    LET upto[n \in 0 .. Len(doc.history)] ==
            IF n = 0 THEN op ELSE Past(upto[n - 1], doc.history[n])
    IN  upto[Len(doc.history)]

Spliced(text, op) ==
    SubSeq(text, 1, op.from)
        \o (IF op.insert THEN <<<<op.client, op.seq>>>> ELSE <<>>)
        \o SubSeq(text, op.to + 1, Len(text))

\* What a restart makes of the retained edits.
SeenIn(history) ==
    [k \in Clients |-> LET own == {history[i].seq : i \in {j \in DOMAIN history : history[j].client = k}}
                       IN  IF own = {} THEN 0 ELSE CHOOSE n \in own : \A o \in own : o <= n]
Newest(s, n) == IF Len(s) > n THEN SubSeq(s, Len(s) - n + 1, Len(s)) ELSE s
replayHistory(c) == Newest(log[c], HistoryLimit)

\* The cached document, else the database's, else the text the caller read.
LoadForgetsWhoSent(c, disk) ==
    IF mem[c] # NoDoc THEN mem[c]
    ELSE IF row[c] # NoRow
         THEN [content |-> row[c].content, revision |-> row[c].revision,
               history |-> replayHistory(c), seen |-> Nobody, sinceTrim |-> 0]
         ELSE [NoDoc EXCEPT !.content = disk, !.revision = 0]
load(c, disk) ==
    IF mem[c] # NoDoc THEN mem[c]
    ELSE IF row[c] # NoRow
         THEN [content |-> row[c].content, revision |-> row[c].revision,
               history |-> replayHistory(c), seen |-> SeenIn(replayHistory(c)), sinceTrim |-> 0]
         ELSE [NoDoc EXCEPT !.content = disk, !.revision = 0]

-----------------------------------------------------------------------------
\* Browsers.  A browser numbers its edits and takes each for a revision.

Own(k) == {o \in sent : o.client = k}
Known(k) == IF mem[Home[k]] = NoDoc THEN 0 ELSE mem[Home[k]].revision
NextBase(k) == IF Own(k) = {} THEN 0
               ELSE (CHOOSE n \in {o.base : o \in Own(k)} : \A o \in Own(k) : o.base <= n) + 1

Edit(k) ==
    /\ Cardinality(Own(k)) < MaxOps
    /\ \E base \in NextBase(k) .. (IF Known(k) > NextBase(k) THEN Known(k) ELSE NextBase(k)),
          from \in 0 .. 1, removed \in 0 .. Deletions, insert \in BOOLEAN :
        /\ insert \/ removed > 0
        /\ sent' = sent \cup {[client |-> k, seq |-> Cardinality(Own(k)) + 1, base |-> base,
                               from |-> from, to |-> from + removed, insert |-> insert]}
    /\ UNCHANGED <<mem, row, log, file, delivered, handling, opening, saving, applied, saved,
                   saves, downs, fails>>

\* handleClientEvent reads the file before Apply takes the lock.  Each
\* connection is in order; what another tab relays may come again.
HandleOp(c) ==
    /\ ~handling[c].busy /\ file[c].there
    /\ \E op \in sent :
        /\ op.seq <= delivered[c][op.client] + 1
        /\ handling' = [handling EXCEPT ![c] = [busy |-> TRUE, op |-> op, disk |-> file[c].text]]
        /\ delivered' = [delivered EXCEPT ![c][op.client] = IF op.seq > @ THEN op.seq ELSE @]
    /\ UNCHANGED <<mem, row, log, file, sent, opening, saving, applied, saved, saves, downs, fails>>

-----------------------------------------------------------------------------
\* Manager.Apply, under the manager's lock.

\* The operation as this clone sees it: another clone's revision clock is
\* capped to the clone's own.
Mapped(c, op) ==
    LET mine == load(c, handling[c].disk).revision
    IN  IF Home[op.client] # c /\ op.base > mine THEN [op EXCEPT !.base = mine] ELSE op

Oldest(doc) == doc.revision - Len(doc.history)
Refused(doc, op) ==
    \/ op.base > doc.revision
    \/ op.seq <= doc.seen[op.client]
    \/ op.base < Oldest(doc)
    \/ LET o == Reconciled(op, doc)
       IN  o.from < 0 \/ o.to < o.from \/ o.to > Len(doc.content)

\* The document after op.
After(doc, op) ==
    LET o == Reconciled(op, doc)
        done == [client |-> op.client, seq |-> op.seq, base |-> op.base, from |-> o.from, to |-> o.to,
                 insert |-> op.insert, revision |-> doc.revision + 1]
    IN  [doc EXCEPT !.content = Spliced(@, o), !.revision = @ + 1, !.history = Append(@, done),
                    !.seen[op.client] = op.seq]

Handled(c) == handling' = [handling EXCEPT ![c] = Free]

\* SaveCollabEdit: the edit and the document it makes, in one transaction.
SaveCollabEdit(c, doc) ==
    /\ row' = [row EXCEPT ![c] = [content |-> doc.content, revision |-> doc.revision]]
    /\ applied' = [applied EXCEPT ![c] = Append(@, [client |-> Last(doc.history).client,
                                                    seq |-> Last(doc.history).seq])]

\* An edit that cannot be applied loads the document and changes nothing else.
RejectOp(c) ==
    /\ handling[c].busy
    /\ LET doc == load(c, handling[c].disk)
           op == Mapped(c, handling[c].op)
       IN  Refused(doc, op) /\ mem' = [mem EXCEPT ![c] = doc]
    /\ Handled(c)
    /\ UNCHANGED <<row, log, file, sent, delivered, opening, saving, applied, saved,
                   saves, downs, fails>>

\* The rows are in the order of their revisions: those before one come first.
From(entries, revision) ==
    LET older == CHOOSE n \in 0 .. Len(entries) :
                     \A i \in DOMAIN entries : i <= n <=> entries[i].revision < revision
    IN  SubSeq(entries, older + 1, Len(entries))

\* Plausible slip.
TrimmedToTheLatest(entries, doc) ==
    IF doc.sinceTrim + 1 < TrimEvery THEN entries
    ELSE From(entries, doc.revision - HistoryLimit + 2)

\* TrimCollabOperations, after every TrimEvery edits.
Trimmed(entries, doc) ==
    IF doc.sinceTrim + 1 < TrimEvery THEN entries
    ELSE From(entries, doc.revision - HistoryLimit)

\* Apply's bookkeeping once the edit is committed and written.
Swept(doc) == [doc EXCEPT !.history = Newest(@, HistoryLimit), !.sinceTrim = (@ + 1) % TrimEvery]

\* An edit is applied: memory, database and file follow.
ApplyOp(c) ==
    /\ handling[c].busy
    /\ LET doc == load(c, handling[c].disk)
           op == Mapped(c, handling[c].op)
           next == After(doc, op)
       IN  /\ ~Refused(doc, op)
           /\ SaveCollabEdit(c, next)
           /\ file' = [file EXCEPT ![c] = Text(next.content)]
           /\ log' = [log EXCEPT ![c] = Trimmed(Append(@, Last(next.history)), next)]
           /\ mem' = [mem EXCEPT ![c] = Swept(next)]
    /\ Handled(c)
    /\ UNCHANGED <<sent, delivered, opening, saving, saved, saves, downs, fails>>

\* The file cannot be written: the edit is refused to its browser, yet it is
\* in the database, so memory keeps it.
WriteFails(c) ==
    /\ handling[c].busy /\ Troubled
    /\ LET doc == load(c, handling[c].disk)
           op == Mapped(c, handling[c].op)
           next == After(doc, op)
       IN  /\ ~Refused(doc, op)
           /\ SaveCollabEdit(c, next)
           /\ log' = [log EXCEPT ![c] = Append(@, Last(next.history))]
           /\ mem' = [mem EXCEPT ![c] = next]
    /\ Handled(c)
    /\ fails' = fails + 1
    /\ UNCHANGED <<file, sent, delivered, opening, saving, saved, saves, downs>>

-----------------------------------------------------------------------------
\* openCollabDocument reads the file, opens the document and, when they
\* differ, writes the document to the file: three steps.

OpenRead(c) ==
    /\ ~opening[c].busy /\ file[c].there
    /\ opening' = [opening EXCEPT ![c] = [busy |-> TRUE, disk |-> file[c].text, loaded |-> FALSE]]
    /\ UNCHANGED <<mem, row, log, file, sent, delivered, handling, saving, applied, saved,
                   saves, downs, fails>>

Open(c) ==
    /\ opening[c].busy /\ ~opening[c].loaded
    /\ LET doc == load(c, opening[c].disk)
       IN  /\ mem' = [mem EXCEPT ![c] = doc]
           /\ opening' = [opening EXCEPT ![c] =
                  IF doc.content = @.disk THEN Free
                  ELSE [busy |-> TRUE, disk |-> doc.content, loaded |-> TRUE]]
    /\ UNCHANGED <<row, log, file, sent, delivered, handling, saving, applied, saved,
                   saves, downs, fails>>

RepairFile(c) ==
    /\ opening[c].busy /\ opening[c].loaded
    /\ file' = [file EXCEPT ![c] = Text(opening[c].disk)]
    /\ opening' = [opening EXCEPT ![c] = Free]
    /\ UNCHANGED <<mem, row, log, sent, delivered, handling, saving, applied, saved,
                   saves, downs, fails>>

-----------------------------------------------------------------------------
\* Handlers that change the file beside the editor.

\* writeFile, uploadFile, resolveConflict, markResolved: the file first.
ReplaceFile(c) ==
    /\ ~saving[c] /\ Troubled
    /\ saves' = saves + 1
    /\ file' = [file EXCEPT ![c] = Text(<<SaveMark(saves')>>)]
    /\ saving' = [saving EXCEPT ![c] = TRUE]
    /\ UNCHANGED <<mem, row, log, sent, delivered, handling, opening, applied, saved, downs, fails>>

\* deleteEntry, renameEntry: likewise.
RemoveFile(c) ==
    /\ ~saving[c] /\ Troubled /\ file[c].there
    /\ saves' = saves + 1
    /\ file' = [file EXCEPT ![c] = NoText]
    /\ saving' = [saving EXCEPT ![c] = TRUE]
    /\ UNCHANGED <<mem, row, log, sent, delivered, handling, opening, applied, saved, downs, fails>>

\* Reset, ResetTree: the rows in one transaction, then the cached document.
Reset(c) ==
    /\ saving[c]
    /\ row' = [row EXCEPT ![c] = NoRow]
    /\ log' = [log EXCEPT ![c] = <<>>]
    /\ mem' = [mem EXCEPT ![c] = NoDoc]
    /\ applied' = [applied EXCEPT ![c] = <<>>]
    /\ saving' = [saving EXCEPT ![c] = FALSE]
    /\ saved' = [saved EXCEPT ![c] = SaveMark(saves)]
    /\ UNCHANGED <<file, sent, delivered, handling, opening, saves, downs, fails>>

\* The person is told to retry.
ResetFails(c) ==
    /\ saving[c]
    /\ saving' = [saving EXCEPT ![c] = FALSE]
    /\ UNCHANGED <<mem, row, log, file, sent, delivered, handling, opening, applied, saved,
                   saves, downs, fails>>

-----------------------------------------------------------------------------
\* The daemon ends: what is in memory is lost, handlers stop where they are.
EndsWith(c) ==
    /\ Troubled
    /\ downs' = downs + 1
    /\ mem' = [mem EXCEPT ![c] = NoDoc]
    /\ handling' = [handling EXCEPT ![c] = Free]
    /\ opening' = [opening EXCEPT ![c] = Free]
    /\ saving' = [saving EXCEPT ![c] = FALSE]

DaemonEnds(c) ==
    /\ EndsWith(c)
    /\ UNCHANGED <<row, log, file, sent, delivered, applied, saved, saves, fails>>

\* It ends between the commit of an edit and the write of the file.
EndsAfterCommit(c) ==
    /\ handling[c].busy
    /\ LET doc == load(c, handling[c].disk)
           op == Mapped(c, handling[c].op)
           next == After(doc, op)
       IN  /\ ~Refused(doc, op)
           /\ SaveCollabEdit(c, next)
           /\ log' = [log EXCEPT ![c] = Append(@, Last(next.history))]
    /\ EndsWith(c)
    /\ UNCHANGED <<file, sent, delivered, saved, saves, fails>>

Next ==
    \/ \E k \in Clients : Edit(k)
    \/ \E c \in Clones :
        \/ HandleOp(c) \/ RejectOp(c) \/ ApplyOp(c) \/ WriteFails(c)
        \/ DaemonEnds(c) \/ EndsAfterCommit(c)
    \/ \E c \in Workplaces :
        \/ OpenRead(c) \/ Open(c) \/ RepairFile(c)
        \/ ReplaceFile(c) \/ RemoveFile(c) \/ Reset(c) \/ ResetFails(c)

Spec == Init /\ [][Next]_vars

-----------------------------------------------------------------------------
Ops     == [client : Clients, seq : 1 .. MaxOps, base : Nat, from : Int, to : Int, insert : BOOLEAN]
Entries == [client : Clients, seq : 1 .. MaxOps, base : Nat, from : Int, to : Int, insert : BOOLEAN,
            revision : Int]
Texts   == Seq(Nat \X Nat)
Docs    == [content : Texts, revision : Nat \cup {-1}, history : Seq(Entries),
            seen : [Clients -> 0 .. MaxOps], sinceTrim : 0 .. TrimEvery - 1]

TypeOK ==
    /\ mem \in [Clones -> Docs]
    /\ row \in [Clones -> [content : Texts, revision : Nat \cup {-1}]]
    /\ log \in [Clones -> Seq(Entries)]
    /\ file \in [Clones -> [there : BOOLEAN, text : Texts]]
    /\ sent \subseteq Ops
    /\ delivered \in [Clones -> [Clients -> 0 .. MaxOps]]
    /\ handling \in [Clones -> {Free} \cup [busy : {TRUE}, op : Ops, disk : Texts]]
    /\ opening \in [Clones -> {Free} \cup [busy : {TRUE}, disk : Texts, loaded : BOOLEAN]]
    /\ saving \in [Clones -> BOOLEAN]
    /\ applied \in [Clones -> Seq([client : Clients, seq : 1 .. MaxOps])]
    /\ saved \in [Clones -> Nat \X Nat]
    /\ {saves, downs, fails} \subseteq 0 .. MaxTroubles

\* An edit of one of the machine's own browsers is applied at most once to a
\* document, whatever is sent again, however little history is kept and across
\* ends of the daemon: ErrDuplicate and the "too old" refusal between them,
\* although the sequence numbers seen are only rebuilt from the edits kept.
OwnEditsOnce ==
    \A c \in Clones : \A i, j \in DOMAIN applied[c] :
        (applied[c][i] = applied[c][j] /\ Home[applied[c][i].client] = c) => i = j

Consecutive(entries, last) ==
    \A i \in DOMAIN entries : entries[i].revision = last - Len(entries) + i
AtLeast(n, limit) == IF n < limit THEN n ELSE limit
\* The edits kept, in memory and in the database, are the document's latest
\* ones without a gap and enough of them: what Apply's count of the oldest
\* edit takes for granted, through sweeps, failed writes and restarts.
HistoryUnbroken ==
    \A c \in Clones :
        /\ Consecutive(mem[c].history, mem[c].revision)
        /\ row[c] # NoRow =>
              /\ Consecutive(log[c], row[c].revision)
              /\ Len(log[c]) >= AtLeast(row[c].revision, HistoryLimit)
        /\ mem[c] # NoDoc => Len(mem[c].history) >= AtLeast(mem[c].revision, HistoryLimit)

Ids(c) == {applied[c][i] : i \in DOMAIN applied[c]}
Stored(c) == IF row[c] # NoRow THEN row[c].content ELSE <<Original>>
OnlyInsertions(c) ==
    \A o \in sent : [client |-> o.client, seq |-> o.seq] \in Ids(c) => o.from = o.to /\ o.base = 0
\* Two clones that applied the same insertions, all based on the same text and
\* in whatever order, hold the same text (the tie break of transform).
InsertionsConverge ==
    \A c, d \in Clones :
        (/\ saves = 0
         /\ Ids(c) = Ids(d) /\ OnlyInsertions(c)
         /\ Len(applied[c]) = Len(applied[d]) /\ Len(applied[c]) = Cardinality(Ids(c)))
            => Stored(c) = Stored(d)

\* "Overlapping concurrent replacements converge" (collab.go:230).
ReplacementsConverge ==
    \A c, d \in Clones :
        (/\ saves = 0
         /\ Ids(c) = Ids(d)
         /\ \A o \in sent : o.base = 0 /\ o.insert
         /\ Len(applied[c]) = Len(applied[d]) /\ Len(applied[c]) = Cardinality(Ids(c)))
            => Stored(c) = Stored(d)

\* Reset makes "the next open use the new disk content instead of a stale
\* cache" (collab.go:77): a document first loaded after it holds the file.
NextOpenFresh ==
    [][\A c \in Clones :
          (mem[c] = NoDoc /\ mem'[c] # NoDoc /\ row[c] = NoRow /\ mem'[c].revision = 0 /\ ~saving[c])
             => mem'[c].content = file[c].text]_vars
=============================================================================
