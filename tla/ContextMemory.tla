---------------------------- MODULE ContextMemory ----------------------------
(***************************************************************************)
(* Durable context memory: a conversation kept in one store, its summary   *)
(* in another, written with compare-and-swap.  Runs in several processes   *)
(* load the summary and the messages after it page by page, check that     *)
(* nothing moved meanwhile, and compact older messages into the next       *)
(* summary.  The conversation may be cleared at any time.                  *)
(***************************************************************************)
EXTENDS Integers, Sequences, SequencesExt

CONSTANTS
    Readers,     \* runs that load the history, in any process
    Texts,       \* what a message says
    Nothing,     \* no summary
    PageSize,    \* page_size of the loader
    MaxTail,     \* max_tail_messages
    MaxIds,      \* MAX_SUMMARY_SOURCE_MESSAGE_IDS
    Stored,      \* conversations and 0.5 snapshots stored before the readers begin
    MaxLog,      \* bound: messages in the conversation
    MaxClears    \* bound: clears that begin

VARIABLES
    log,       \* the conversation: message i of the session is log[i]
    summary,   \* the stored snapshot, or Nothing
    legacy,    \* the prefix a 0.5 snapshot covers, or Nothing
    clearing,  \* clear_history has cleared the state, not yet the conversation
    epoch,     \* history: clears of the state or the conversation
    at,        \* where each reader is
    view       \* what it read so far

memVars == <<log, summary, legacy, clearing, epoch, at, view>>

(* A digest of a prefix is that prefix.  The source ids kept with a summary *)
(* are functions of it: the first message and the newest ones.              *)
Snapshot(digest, version, by, marker) ==
    [digest |-> digest, version |-> version, by |-> by, marker |-> marker]

Cover(s) == IF s = Nothing THEN 0 ELSE Len(s.digest)
Digest(s) == IF s = Nothing THEN <<>> ELSE s.digest
Version(s) == IF s = Nothing THEN 0 ELSE s.version

(* The windows of messages whose ids a loader compares. *)
Windows(s) ==
    IF s = Nothing THEN <<>>
    ELSE IF Cover(s) <= MaxIds THEN <<1..Cover(s)>>
    ELSE <<{1}, (Cover(s) - MaxIds + 2)..Cover(s)>>

Blank == [snap |-> Nothing, tail |-> <<>>, i |-> 0, old |-> <<>>, next |-> Nothing,
          epoch |-> 0, len |-> 0]

Init ==
    /\ log \in Stored
    /\ \/ summary = Nothing /\ legacy \in (Stored \ {<<>>}) \cup {Nothing}
       \/ legacy = Nothing /\ summary \in {Snapshot(p, 1, "legacy", TRUE) : p \in Stored \ {<<>>}}
    /\ clearing = FALSE /\ epoch = 0
    /\ at = [r \in Readers |-> "idle"]
    /\ view = [r \in Readers |-> Blank]

-----------------------------------------------------------------------------
Goto(r, where) == at' = [at EXCEPT ![r] = where]
Set(r, v) == view' = [view EXCEPT ![r] = v]
Fail(r) == Goto(r, "failed") /\ Set(r, Blank)

Least(a, b) == IF a < b THEN a ELSE b

(* load_tail: at most n messages after a cursor, and whether there are more. *)
Page(cursor, n) == SubSeq(log, cursor + 1, Least(cursor + n, Len(log)))
More(cursor, rows) == cursor + Len(rows) < Len(log)

(* A cursor beyond the conversation is an error of most stores and an empty *)
(* page of others.                                                          *)
CursorError(cursor) == cursor > Len(log)

Stay == UNCHANGED <<log, summary, legacy, clearing, epoch>>

(* _validate_source_windows: one page for each window, then on. *)
After(where) == IF where = "check1" THEN "tail" ELSE IF where = "check2" THEN "again" ELSE "final"

Check(r, where, m) ==
    IF m.snap = Nothing THEN Goto(r, After(where)) /\ Set(r, [m EXCEPT !.i = 0])
    ELSE Goto(r, where) /\ Set(r, [m EXCEPT !.i = 1])

(* load_history: the summary, then a 0.5 snapshot if there is no other. *)
Load(r) ==
    /\ at[r] = "idle"
    /\ LET old == IF summary # Nothing THEN IF summary.marker THEN summary.digest ELSE Nothing
                  ELSE legacy
       IN IF old = Nothing THEN Check(r, "check1", [Blank EXCEPT !.snap = summary])
          ELSE Goto(r, "scan1") /\ Set(r, [Blank EXCEPT !.snap = summary, !.old = old])
    /\ Stay

(* _scan_legacy_prefix, twice, page by page. *)
ScanPage(r) ==
    LET m == view[r]
        rows == Page(Len(m.tail), Least(PageSize, Len(m.old) - Len(m.tail)))
        scan == m.tail \o rows
    IN IF rows = <<>> THEN Fail(r)
       ELSE IF Len(scan) < Len(m.old) THEN Set(r, [m EXCEPT !.tail = scan]) /\ UNCHANGED at
       ELSE IF scan # m.old THEN Fail(r)
       ELSE /\ Goto(r, IF at[r] = "scan1" THEN "scan2" ELSE "adopt")
            /\ Set(r, [m EXCEPT !.tail = <<>>])

Scan(r) == at[r] \in {"scan1", "scan2"} /\ ScanPage(r) /\ Stay

(* save_if_version: only over the version it expects, never to a shorter    *)
(* prefix.                                                                  *)
CompareAndSwap(expected, next, won, lost, error) ==
    IF Version(summary) # expected THEN lost /\ UNCHANGED summary
    ELSE IF Cover(next) < Cover(summary) THEN error /\ UNCHANGED summary
    ELSE won /\ summary' = next

(* The verified prefix becomes a snapshot; another writer's is as good. *)
Adopt(r) ==
    /\ at[r] = "adopt"
    /\ LET next == Snapshot(view[r].old, Version(view[r].snap) + 1, "legacy", FALSE)
       IN CompareAndSwap(next.version - 1, next,
             Check(r, "check1", [Blank EXCEPT !.snap = next]),
             Goto(r, "adopted") /\ UNCHANGED view,
             Fail(r))
    /\ UNCHANGED <<log, legacy, clearing, epoch>>

Adopted(r) ==
    /\ at[r] = "adopted"
    /\ IF summary = Nothing THEN Fail(r)
       ELSE IF summary.marker THEN Fail(r)
       ELSE Check(r, "check1", [Blank EXCEPT !.snap = summary])
    /\ Stay

WindowHolds(s, w) == \A p \in w : p <= Len(log) /\ log[p] = s.digest[p]

CheckSource(r) ==
    /\ at[r] \in {"check1", "check2", "check3"}
    /\ LET m == view[r] w == Windows(m.snap)
       IN IF ~WindowHolds(m.snap, w[m.i]) THEN Fail(r)
          ELSE IF m.i = Len(w) THEN Goto(r, After(at[r])) /\ Set(r, [m EXCEPT !.i = 0])
          ELSE Set(r, [m EXCEPT !.i = @ + 1]) /\ UNCHANGED at
    /\ Stay

(* The messages after the summary, at most MaxTail of them. *)
Tail1(r) ==
    /\ at[r] = "tail"
    /\ LET m == view[r]
           cursor == Cover(m.snap) + Len(m.tail)
           rows == Page(cursor, Least(PageSize, MaxTail - Len(m.tail)))
           tail == m.tail \o rows
       IN \/ CursorError(cursor) /\ Fail(r)
          \/ More(cursor, rows) /\ Len(tail) >= MaxTail /\ Fail(r)
          \/ /\ More(cursor, rows) /\ Len(tail) < MaxTail
             /\ Set(r, [m EXCEPT !.tail = tail]) /\ UNCHANGED at
          \/ /\ ~More(cursor, rows)
             /\ Goto(r, "recheck") /\ Set(r, [m EXCEPT !.tail = tail])
    /\ Stay

(* The state again, the windows, every page of the tail, the windows and    *)
(* the state once more.                                                     *)
Recheck(r) ==
    /\ at[r] = "recheck"
    /\ IF summary # view[r].snap THEN Fail(r)
       ELSE Check(r, "check2", [view[r] EXCEPT !.epoch = epoch, !.len = Len(log)])
    /\ Stay

PageMatches(m, cursor, rows, n) ==
    /\ rows = SubSeq(m.tail, m.i + 1, m.i + n)
    /\ More(cursor, rows) <=> m.i + n < Len(m.tail)

Revalidate(r) ==
    /\ at[r] = "again"
    /\ LET m == view[r]
           cursor == Cover(m.snap) + m.i
           n == Least(PageSize, Len(m.tail) - m.i)
           rows == Page(cursor, IF n = 0 THEN 1 ELSE n)
       IN \/ CursorError(cursor) /\ Fail(r)
          \/ ~PageMatches(m, cursor, rows, n) /\ Fail(r)
          \/ /\ PageMatches(m, cursor, rows, n)
             /\ IF m.i + n = Len(m.tail) THEN Check(r, "check3", m)
                ELSE Set(r, [m EXCEPT !.i = @ + n]) /\ UNCHANGED at
    /\ Stay

Deliver(r) ==
    /\ at[r] = "final"
    /\ IF summary = view[r].snap THEN Goto(r, "loaded") /\ UNCHANGED view ELSE Fail(r)
    /\ Stay

-----------------------------------------------------------------------------
(* What the view says up to n messages of its tail. *)
Upto(m, n) == Digest(m.snap) \o SubSeq(m.tail, 1, n)

Show(r, s) == Goto(r, "shown") /\ Set(r, [view[r] EXCEPT !.next = s])

(* _require_matching_prefix *)
SamePrefix(s, prefix) == ~s.marker /\ s.digest = prefix

(* _summary_candidate for the boundary and the n oldest messages after it:  *)
(* the stored summary may have moved, within what this view holds.          *)
Summarize(r, n) ==
    LET m == view[r]
        target == Upto(m, n)
        current == summary
    IN IF current = Nothing
       THEN IF m.snap # Nothing THEN Fail(r)
            ELSE /\ Goto(r, "summarizing")
                 /\ Set(r, [m EXCEPT !.next = Snapshot(target, 1, r, FALSE), !.i = n])
       ELSE IF Cover(current) < Cover(m.snap) \/ Cover(current) > Len(target)
               \/ ~SamePrefix(current, SubSeq(target, 1, Cover(current)))
       THEN Fail(r)
       ELSE IF Cover(current) = Len(target) THEN Show(r, current)
       ELSE /\ Goto(r, "summarizing")
            /\ Set(r, [m EXCEPT !.i = n, !.next =
                 Snapshot(current.digest \o SubSeq(target, Cover(current) + 1, Len(target)),
                          current.version + 1, r, FALSE)])

(* prepare: everything fits, or the oldest messages are compacted. *)
Prepare(r) ==
    /\ at[r] = "loaded"
    /\ \/ Goto(r, "done") /\ Set(r, Blank)
       \/ \E n \in 0..Len(view[r].tail) :
             (n > 0 \/ view[r].snap # Nothing) /\ Summarize(r, n)
    /\ Stay

(* The summarizer failed or its summary was not selected: recent turns only. *)
Discard(r) ==
    /\ at[r] = "summarizing"
    /\ Goto(r, "done") /\ Set(r, Blank)
    /\ Stay

(* _commit_summary_candidate *)
Commit(r) ==
    /\ at[r] = "summarizing"
    /\ LET next == view[r].next
       IN CompareAndSwap(next.version - 1, next,
             Goto(r, "shown") /\ UNCHANGED view,
             Goto(r, "lost") /\ UNCHANGED view,
             Fail(r))
    /\ UNCHANGED <<log, legacy, clearing, epoch>>

Winner(r) ==
    /\ at[r] = "lost"
    /\ IF summary = Nothing THEN Fail(r)
       ELSE IF SamePrefix(summary, view[r].next.digest) THEN Show(r, summary)
       ELSE Fail(r)
    /\ Stay

-----------------------------------------------------------------------------
(* A run appends its turn. *)
Append1 ==
    /\ Len(log) < MaxLog
    /\ \E t \in Texts : log' = Append(log, t)
    /\ UNCHANGED <<summary, legacy, clearing, epoch, at, view>>

(* clear_history: the state first, then the conversation, unless it fails   *)
(* in between.                                                              *)
ClearState ==
    /\ ~clearing /\ epoch < MaxClears
    /\ summary' = Nothing /\ legacy' = Nothing
    /\ clearing' \in BOOLEAN /\ epoch' = epoch + 1
    /\ UNCHANGED <<log, at, view>>

ClearLog ==
    /\ clearing \/ epoch < MaxClears
    /\ log' = <<>> /\ epoch' = epoch + 1 /\ clearing' = FALSE
    /\ UNCHANGED <<summary, legacy, at, view>>

Read(r) ==
    \/ Scan(r) \/ Adopt(r) \/ Adopted(r) \/ CheckSource(r) \/ Tail1(r) \/ Recheck(r)
    \/ Revalidate(r) \/ Deliver(r)

Compact(r) == Prepare(r) \/ Discard(r) \/ Commit(r) \/ Winner(r)

Next ==
    \/ Append1 \/ ClearState \/ ClearLog
    \/ \E r \in Readers : Load(r) \/ Read(r) \/ Compact(r)

Spec == Init /\ [][Next]_memVars

(* Every await of a reader answers. *)
Fairness == \A r \in Readers : WF_memVars(Read(r)) /\ WF_memVars(Compact(r))
FairSpec == Spec /\ Fairness

-----------------------------------------------------------------------------
Places == {"idle", "scan1", "scan2", "adopt", "adopted", "check1", "tail", "recheck", "check2",
           "again", "check3", "final", "loaded", "summarizing", "lost", "shown", "done", "failed"}

TypeOK ==
    /\ log \in Seq(Texts) /\ Len(log) <= MaxLog
    /\ clearing \in BOOLEAN /\ epoch \in 0..(MaxClears + 1)
    /\ at \in [Readers -> Places]

(* A view that was delivered is the history: unless the conversation was    *)
(* cleared while the view was checked, its tail is what follows its         *)
(* summary, nothing that was stored when the check began is missing, and    *)
(* the source ids the summary kept are those of the conversation.  If the   *)
(* conversation never was cleared, the summary stands for exactly its       *)
(* beginning.                                                               *)
ViewIsTheHistory ==
    \A r \in Readers :
        LET m == view[r] through == Cover(m.snap) + Len(m.tail)
        IN at[r] = "loaded" /\ m.epoch = epoch =>
            /\ SubSeq(log, Cover(m.snap) + 1, through) = m.tail
            /\ through >= m.len
            /\ \A i \in DOMAIN Windows(m.snap) : WindowHolds(m.snap, Windows(m.snap)[i])
            /\ epoch = 0 => IsPrefix(Digest(m.snap) \o m.tail, log)

(* Whatever the writers of the summary do, until something is cleared it    *)
(* stands for the beginning of the conversation, and for no less than any   *)
(* summary that a model was shown.                                          *)
SummariesChain ==
    epoch = 0 /\ summary # Nothing =>
        \/ summary.marker
        \/ /\ IsPrefix(summary.digest, log)
           /\ \A r \in Readers :
                 at[r] = "shown" => Version(view[r].next) <= summary.version

(* The summary a model is shown covers what this view left out, not more    *)
(* and not less.                                                            *)
ShownFitsTheView ==
    \A r \in Readers :
        at[r] = "shown" => \E n \in 0..Len(view[r].tail) : view[r].next.digest = Upto(view[r], n)

ContextSound == TypeOK /\ ViewIsTheHistory /\ SummariesChain /\ ShownFitsTheView

(* A load ends, however fast the conversation grows. *)
LoadsEnd == \A r \in Readers : (at[r] = "tail") ~> (at[r] \in {"loaded", "failed"})
=============================================================================
