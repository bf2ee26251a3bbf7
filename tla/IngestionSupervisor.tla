------------------------- MODULE IngestionSupervisor -------------------------
(* The continuous ingestion of examples/14_rag_index_manager: a watcher polls *)
(* a directory, waits until what it sees has settled, hands the settled part  *)
(* to the index manager and keeps its timers, retries and quarantine in a     *)
(* state file, from process to process.  A snapshot's digest is the snapshot. *)
EXTENDS Integers, FiniteSets

CONSTANTS Sources,       \* documents of the directory
          Revisions,     \* contents a document may have; 0 is absent
          InitialContents,
          Window,        \* stability_window_seconds
          MaxAttempts, FirstDelay, MaxDelay,
          FullReconcile, \* full_reconcile_interval_seconds
          Nothing,
          MaxTime,       \* bound of the clock
          MaxEdits,      \* bound: changes of a document
          MaxUpgrades,   \* bound: changes of the pipeline, at a restart
          MaxManual,     \* bound: manual synchronizations
          MaxScanErrors  \* bound: failing scans

VARIABLES disc,        \* document -> its content on disk
          shelf,       \* document -> what the manifest holds: content and pipeline
          pipeline,    \* fingerprint of the pipeline the process runs
          state,       \* the state file, Nothing before the first save
          watch,       \* the watcher: "off", "idle" or "syncing"
          snapshot,    \* what it reconciles with
          now,
          watched,     \* document -> content of the last saved polls, and since when
          tried,       \* what was ready at the last poll, and its failures since
          disturbed,   \* documents a manual operation has published
          edits, upgrades, manual, scanErrors

superVars == <<disc, shelf, pipeline, state, watch, snapshot, now, watched, tried, disturbed,
               edits, upgrades, manual, scanErrors>>

Empty == [s \in Sources |-> 0]
Absent == [rev |-> 0, pipe |-> 0]
Unseen == [rev |-> -1, at |-> 0]
Fresh == [pipe |-> pipeline, seen |-> [s \in Sources |-> Unseen],
          success |-> Nothing, reconciled |-> 0, attempts |-> 0, retry |-> Nothing,
          retryAt |-> Nothing, quarantined |-> Nothing, scanFailed |-> FALSE]

(* load: a state of another pipeline is not used. *)
Loaded == IF state = Nothing THEN Fresh
          ELSE IF state.pipe # pipeline THEN Fresh ELSE state

Init == /\ disc \in [Sources -> InitialContents]
        /\ shelf = [s \in Sources |-> Absent]
        /\ pipeline = 1 /\ state = Nothing /\ watch = "off" /\ snapshot = Empty /\ now = 0
        /\ watched = [s \in Sources |-> Unseen]
        /\ tried = [what |-> Empty, times |-> 0] /\ disturbed = {}
        /\ edits = 0 /\ upgrades = 0 /\ manual = 0 /\ scanErrors = 0

-----------------------------------------------------------------------------
(* _stable_reconciliation_snapshot *)
Known == {s \in Sources : disc[s] # 0 \/ shelf[s] # Absent}
Observed(old, s) == IF s \notin Known THEN Unseen
                    ELSE IF old.seen[s].rev = disc[s] THEN old.seen[s]
                    ELSE [rev |-> disc[s], at |-> now]
Observations(old) == [s \in Sources |-> Observed(old, s)]
Settled(seen) == {s \in Known : now - seen[s].at >= Window}
Ready(seen) == [s \in Sources |-> IF s \in Settled(seen) THEN disc[s] ELSE shelf[s].rev]
Blocked(seen) == \E s \in Sources \ Settled(seen) :
                     disc[s] # 0 /\ shelf[s] # Absent /\ shelf[s].pipe # pipeline

(* The state a scan leaves: another ready snapshot starts without failures.   *)
Scanned(old) ==
    LET seen == Observations(old)
        ready == Ready(seen)
        changed == ready # old.retry
    IN [old EXCEPT !.seen = seen,
                   !.attempts = IF changed THEN 0 ELSE @,
                   !.retry = IF changed THEN Nothing ELSE @,
                   !.retryAt = IF changed THEN Nothing ELSE @,
                   !.quarantined = IF @ # ready THEN Nothing ELSE @,
                   !.scanFailed = IF changed THEN FALSE ELSE @]

Delayed(attempts) == LET delay == FirstDelay * 2 ^ (attempts - 1)
                     IN IF delay < MaxDelay THEN delay ELSE MaxDelay
AttemptsAfter(st) == IF st.attempts + 1 < MaxAttempts THEN st.attempts + 1 ELSE MaxAttempts

Due(st, ready) == \/ st.success # ready
                  \/ now - st.reconciled >= FullReconcile
Attempts(st, ready) == /\ ready # Empty /\ ~Blocked(st.seen)
                       /\ st.quarantined # ready
                       /\ st.retryAt # Nothing => now >= st.retryAt
                       /\ Due(st, ready)

Waiting(st) == st.scanFailed /\ st.retryAt # Nothing /\ now < st.retryAt

(* Every poll the watcher saved, whatever process took it. *)
Follow(seen) == watched' = [s \in Sources |-> IF watched[s].rev = seen[s].rev THEN watched[s]
                                              ELSE [rev |-> seen[s].rev, at |-> now]]

(* tick, up to the reconciliation it may start. *)
Poll ==
    /\ watch = "idle" /\ ~Waiting(Loaded)
    /\ LET st == Scanned(Loaded)
           ready == Ready(st.seen)
       IN /\ state' = st
          /\ Follow(st.seen)
          /\ IF Attempts(st, ready) THEN watch' = "syncing" /\ snapshot' = ready
             ELSE UNCHANGED <<watch, snapshot>>
          /\ tried' = IF tried.what = ready THEN tried ELSE [what |-> ready, times |-> 0]
    /\ UNCHANGED <<disc, shelf, pipeline, now, disturbed, edits, upgrades, manual, scanErrors>>

(* _record_scan_failure *)
ScanFails ==
    /\ watch = "idle" /\ ~Waiting(Loaded) /\ scanErrors < MaxScanErrors
    /\ scanErrors' = scanErrors + 1
    /\ state' = LET n == AttemptsAfter(Loaded)
                IN [Loaded EXCEPT !.attempts = n, !.retry = Nothing,
                                  !.retryAt = now + Delayed(n), !.scanFailed = TRUE]
    /\ UNCHANGED <<disc, shelf, pipeline, watch, snapshot, now, watched, tried, disturbed,
                   edits, upgrades, manual>>

(* sync_snapshot: a document whose content is not the published one is read   *)
(* again, and must still be the one that was scanned.                         *)
Readable(ready) == \A s \in Sources : ready[s] \notin {0, shelf[s].rev} => disc[s] = ready[s]
Published(content) == [s \in Sources |-> IF content[s] = 0 THEN Absent
                                         ELSE [rev |-> content[s], pipe |-> pipeline]]
Reconciling == watch = "syncing"

Synced ==
    /\ Reconciling /\ Readable(snapshot)
    /\ shelf' = Published(snapshot)
    /\ state' = [state EXCEPT !.success = snapshot, !.reconciled = now, !.attempts = 0,
                              !.retry = Nothing, !.retryAt = Nothing,
                              !.quarantined = Nothing, !.scanFailed = FALSE]
    /\ watch' = "idle" /\ tried' = [tried EXCEPT !.times = 0]
    /\ disturbed' = {s \in disturbed : snapshot[s] = shelf[s].rev}
    /\ UNCHANGED <<disc, pipeline, snapshot, now, watched, edits, upgrades, manual, scanErrors>>

(* _record_sync_failure *)
SyncFails ==
    /\ Reconciling
    /\ LET n == AttemptsAfter(state)
           quarantined == n >= MaxAttempts
       IN state' = [state EXCEPT !.attempts = n, !.retry = snapshot,
                                 !.retryAt = IF quarantined THEN Nothing ELSE now + Delayed(n),
                                 !.quarantined = IF quarantined THEN snapshot ELSE Nothing,
                                 !.scanFailed = FALSE]
    /\ watch' = "idle" /\ tried' = [tried EXCEPT !.times = @ + 1]
    /\ UNCHANGED <<disc, shelf, pipeline, snapshot, now, watched, disturbed,
                   edits, upgrades, manual, scanErrors>>

(* A write lease held by a manual operation: nothing is recorded. *)
Busy == /\ Reconciling /\ watch' = "idle"
        /\ UNCHANGED <<disc, shelf, pipeline, state, snapshot, now, watched, tried, disturbed,
                       edits, upgrades, manual, scanErrors>>

-----------------------------------------------------------------------------
(* The process and what happens around it. *)
Start == /\ watch = "off" /\ watch' = "idle"
         /\ \/ UNCHANGED <<pipeline, upgrades, tried>>
            \/ /\ upgrades < MaxUpgrades
               /\ pipeline' = pipeline + 1 /\ upgrades' = upgrades + 1
               /\ tried' = [tried EXCEPT !.times = 0]
         /\ UNCHANGED <<disc, shelf, state, snapshot, now, watched, disturbed,
                        edits, manual, scanErrors>>

(* The process dies, perhaps between publishing and saving its state. *)
Stop == /\ watch # "off" /\ watch' = "off"
        /\ shelf' \in IF Reconciling /\ Readable(snapshot) THEN {shelf, Published(snapshot)}
                      ELSE {shelf}
        /\ UNCHANGED <<disc, pipeline, state, snapshot, now, watched, tried, disturbed,
                       edits, upgrades, manual, scanErrors>>

Edit == /\ edits < MaxEdits
        /\ edits' = edits + 1
        /\ \E s \in Sources, r \in {0} \cup Revisions :
              r # disc[s] /\ disc' = [disc EXCEPT ![s] = r]
        /\ UNCHANGED <<shelf, pipeline, state, watch, snapshot, now, watched, tried, disturbed,
                       upgrades, manual, scanErrors>>

(* The management Agent synchronizes what is on disk, settled or not, while   *)
(* the watcher does not hold the write lease.                                 *)
Manual == /\ manual < MaxManual /\ disc # Empty
          /\ manual' = manual + 1
          /\ shelf' = Published(disc)
          /\ disturbed' = disturbed \cup {s \in Sources : disc[s] # shelf[s].rev}
          /\ UNCHANGED <<disc, pipeline, state, watch, snapshot, now, watched, tried,
                         edits, upgrades, scanErrors>>

Tick == /\ now < MaxTime /\ now' = now + 1
        /\ UNCHANGED <<disc, shelf, pipeline, state, watch, snapshot, watched, tried, disturbed,
                       edits, upgrades, manual, scanErrors>>

Next == \/ Poll \/ ScanFails \/ Synced \/ SyncFails \/ Busy
        \/ Start \/ Stop \/ Edit \/ Manual \/ Tick

Spec == Init /\ [][Next]_superVars

-----------------------------------------------------------------------------
(* What the watcher is about to publish in place of the manifest's content    *)
(* (a new content, or a deletion) is what every saved poll of the last window *)
(* saw, even when a restart, a failure or a manual operation came between;    *)
(* the rest keeps the content that is published.                              *)
OnlySettled ==
    Reconciling =>
        \A s \in Sources \ disturbed :
            \/ snapshot[s] = shelf[s].rev
            \/ watched[s].rev = snapshot[s] /\ now - watched[s].at >= Window

(* A snapshot that keeps failing is given up: while no scan fails between its *)
(* attempts, it is tried at most MaxAttempts times.                           *)
GivenUp == scanErrors = 0 => tried.times <= MaxAttempts

(* The watcher never publishes an empty knowledge base, nor over a document   *)
(* that is still settling while its pipeline is another one.                  *)
NeverEmptied == Reconciling => /\ snapshot # Empty
                               /\ state.quarantined # snapshot

SupervisorSound == OnlySettled /\ GivenUp /\ NeverEmptied
=============================================================================
