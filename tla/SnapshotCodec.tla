---------------------------- MODULE SnapshotCodec ----------------------------
(* Reading, migrating and rewriting the checkpoint of one run: a payload of    *)
(* versions 1 to 3 becomes a snapshot (persistence/migration.py), the snapshot *)
(* is opened as a checkpoint and resumed as a run context                      *)
(* (persistence/checkpoint.py), and the context is saved again, with or        *)
(* without the state the Engine wrote.  Only what decides whether and how a    *)
(* run may be resumed is kept of a payload: its phase, the Tool calls that may *)
(* have run, the recorded failures and the finalization markers.               *)
EXTENDS Naturals

CONSTANTS Calls,        \* Tool call ids a payload may name
          Documents,    \* the legacy payloads the store may hold
          Nothing,      \* Python's None
          MaxSaves      \* bound: rewrites of the snapshot

VARIABLES origin,       \* the legacy payload the run started from
          stage,        \* legacy, snapshot, checkpoint, context or refused
          held,         \* the value at that stage
          reached,      \* the furthest finalization markers a reader was shown
          saves         \* rewrites so far

codecVars == <<origin, stage, held, reached, saves>>

Markers == [started : BOOLEAN, response : BOOLEAN, persisted : BOOLEAN, emitted : BOOLEAN]

\* The constructor of FinalizationMarkers raises on every other combination.
MarkersOK(m) == /\ m.persisted \/ m.emitted => m.response
                /\ m.response => m.started

NoMarks == [started |-> FALSE, response |-> FALSE, persisted |-> FALSE, emitted |-> FALSE]

----------------------------------------------------------------------------
(* migrate_checkpoint_payload *)

PlanMarkers(d) == [started   |-> d.phase \in {"finalize", "done"} \/ d.count > 0 \/ d.response,
                   response  |-> d.response,
                   persisted |-> d.persisted,
                   emitted   |-> d.emitted]

StandardMarkers(d) == [NoMarks EXCEPT !.started = d.mark # "none" \/ d.response,
                                      !.response = d.response]

\* Payloads before version 3 carry no Plan; two copies of one must agree.
HasPlan(d) == d.version = 3 /\ d.twin # "absent"

V3Valid(d) == /\ d.twin # "other"
              /\ d.active \subseteq d.seen
              /\ d.pending # Nothing => d.pending.call \in d.seen /\ d.active = {}

ToV4(d) == [phase    |-> IF d.phase = "act" /\ d.pending # Nothing THEN "tool_recovery" ELSE d.phase,
            active   |-> d.active,
            seen     |-> d.seen,
            pending  |-> d.pending,
            failure  |-> d.failure,
            count    |-> d.count,
            markers  |-> PlanMarkers(d)]

SucceededBefore(f) == f # Nothing /\ f.successes > 0

PlanSafety(d) == IF d.phase \in {"done", "failed"} THEN "terminal"
                 ELSE IF \/ d.active # {}
                         \/ SucceededBefore(d.pending)
                         \/ SucceededBefore(d.failure)
                      THEN "manual_required"
                      ELSE "resumable"

StandardState(d) ==
    LET m == StandardMarkers(d)
    IN [phase |-> IF m.emitted THEN "done" ELSE IF m.started THEN "finalize" ELSE "act",
        markers |-> m]

Migrated(d) ==
    IF HasPlan(d)
    THEN IF V3Valid(d) /\ MarkersOK(PlanMarkers(d))
         THEN [engine |-> "plan", state |-> ToV4(d), markers |-> PlanMarkers(d),
               safety |-> PlanSafety(d)]
         ELSE Nothing
    ELSE [engine |-> "standard", state |-> StandardState(d), markers |-> StandardMarkers(d),
          safety |-> IF d.status = "completed" THEN "terminal" ELSE "resumable"]

----------------------------------------------------------------------------
(* RunCheckpoint: the older interface over a snapshot *)

\* flatten_plan_engine_state: the mirror inside the Plan state must agree.
Flattened(s, m) == [phase     |-> IF s.phase = "tool_recovery" THEN "act" ELSE s.phase,
                    active    |-> s.active,
                    seen      |-> s.seen,
                    pending   |-> s.pending,
                    failure   |-> s.failure,
                    count     |-> s.count,
                    response  |-> m.response,
                    persisted |-> m.persisted,
                    emitted   |-> m.emitted]

MarkOf(m, before) == IF m.response THEN "completed" ELSE IF m.started THEN "pending" ELSE before

FromSnapshot(s) ==
    IF s.state.markers # s.markers
    THEN Nothing
    ELSE [engine  |-> s.engine,
          exec    |-> IF s.engine = "plan" THEN Flattened(s.state, s.markers) ELSE Nothing,
          mark    |-> IF s.engine = "plan" THEN "none" ELSE MarkOf(s.markers, "none"),
          output  |-> s.engine = "standard" /\ s.markers.response,
          state   |-> s.state,
          markers |-> s.markers,
          safety  |-> s.safety]

\* The context the checkpoint resumes as: the Engine's state is not put back.
ToContext(c) == [engine |-> c.engine, exec |-> c.exec, mark |-> c.mark,
                 output |-> c.output, state |-> Nothing, safety |-> c.safety]

\* _compatibility_markers: the Engine's state, else the Plan's, else the policy's.
CompatibleMarkers(x) ==
    IF x.state # Nothing THEN x.state.markers
    ELSE IF x.exec # Nothing THEN PlanMarkers(x.exec)
    ELSE StandardMarkers([mark |-> x.mark, response |-> x.output])

FromContext(x) == [engine |-> x.engine, exec |-> x.exec, mark |-> x.mark, output |-> x.output,
                   state |-> x.state, markers |-> CompatibleMarkers(x), safety |-> x.safety]

\* The version 3 payload a checkpoint is written through.
ToLegacy(c) ==
    LET plain == [version |-> 3, status |-> "running",
                  twin |-> IF c.exec = Nothing THEN "absent" ELSE "same",
                  mark |-> IF c.exec = Nothing THEN MarkOf(c.markers, c.mark) ELSE "none"]
        plan  == IF c.exec = Nothing
                 THEN [phase |-> "plan", active |-> {}, seen |-> {}, pending |-> Nothing,
                       failure |-> Nothing, count |-> 0]
                 ELSE [f \in {"phase", "active", "seen", "pending", "failure", "count"} |-> c.exec[f]]
        final == [response  |-> c.markers.response \/ (c.exec = Nothing /\ c.output),
                  persisted |-> c.markers.persisted,
                  emitted   |-> c.markers.emitted]
    IN [f \in DOMAIN plain \cup DOMAIN plan \cup DOMAIN final |->
          IF f \in DOMAIN plain THEN plain[f] ELSE IF f \in DOMAIN plan THEN plan[f] ELSE final[f]]

ToSnapshot(c) ==
    LET migrated == Migrated(ToLegacy(c))
        state    == IF c.state = Nothing THEN migrated.state ELSE c.state
    IN IF migrated = Nothing
       THEN Nothing
       ELSE [engine  |-> IF c.state = Nothing THEN migrated.engine ELSE c.engine,
             state   |-> IF c.engine = "plan" THEN [state EXCEPT !.markers = c.markers] ELSE state,
             markers |-> c.markers,
             safety  |-> c.safety]

\* _build_run_snapshot: what the runtime saves next to an Engine's own state.
BuildSnapshot(x) == [engine |-> x.engine, state |-> x.state, markers |-> x.state.markers,
                     safety |-> x.safety]

----------------------------------------------------------------------------
Init == /\ origin \in Documents
        /\ stage = "legacy"
        /\ held = origin
        /\ reached = NoMarks
        /\ saves = 0

Further(m, n) == [f \in DOMAIN m |-> m[f] \/ n[f]]

\* A conversion either yields a value or raises, which ends the run's story.
Becomes(next, value, shown) ==
    /\ IF value = Nothing
       THEN stage' = "refused" /\ UNCHANGED <<held, reached>>
       ELSE stage' = next /\ held' = value /\ reached' = Further(reached, shown)
    /\ UNCHANGED origin

Migrate == /\ stage = "legacy"
           /\ Becomes("snapshot", Migrated(held), NoMarks)
           /\ UNCHANGED saves

Open == /\ stage = "snapshot"
        /\ Becomes("checkpoint", FromSnapshot(held), held.markers)
        /\ UNCHANGED saves

Resume == /\ stage = "checkpoint"
          /\ Becomes("context", ToContext(held), NoMarks)
          /\ UNCHANGED saves

\* The Engine takes the run one finalization step further and leaves its state.
NextMarkers(m) ==
    {n \in Markers : MarkersOK(n) /\ n # m /\ \A f \in DOMAIN m : m[f] => n[f]}

EngineSteps ==
    /\ stage = "context"
    /\ held.state = Nothing
    /\ held.safety = "resumable"
    /\ \E n \in NextMarkers(CompatibleMarkers(held)) :
         held' = [held EXCEPT !.state =
                    IF held.engine = "plan"
                    THEN [ToV4(held.exec) EXCEPT !.phase = "finalize", !.markers = n]
                    ELSE [phase |-> "finalize", markers |-> n]]
    /\ UNCHANGED <<origin, stage, reached, saves>>

SaveCheckpoint == /\ stage = "checkpoint"
                  /\ saves < MaxSaves
                  /\ saves' = saves + 1
                  /\ Becomes("snapshot", ToSnapshot(held), NoMarks)

SaveContext == /\ stage = "context"
               /\ saves < MaxSaves
               /\ saves' = saves + 1
               /\ Becomes("snapshot", ToSnapshot(FromContext(held)), NoMarks)

SaveEngineState == /\ stage = "context"
                   /\ held.state # Nothing
                   /\ saves < MaxSaves
                   /\ saves' = saves + 1
                   /\ Becomes("snapshot", BuildSnapshot(held), NoMarks)

Next == \/ Migrate \/ Open \/ Resume \/ EngineSteps
        \/ SaveCheckpoint \/ SaveContext \/ SaveEngineState

Spec == Init /\ [][Next]_codecVars

----------------------------------------------------------------------------
\* Only a payload is ever refused: what was migrated can be opened, saved and
\* opened again (the conversions check each other's redundant copies).
OnlyPayloadsAreRefused == stage = "refused" => saves = 0 /\ Migrated(origin) = Nothing

\* A run is offered for resumption only if no Tool call of it can have taken
\* effect without its result being recorded, and it has not ended.
SafeToResume ==
    stage \in {"snapshot", "checkpoint", "context"} /\ held.safety = "resumable" =>
      IF HasPlan(origin)
      THEN /\ origin.active = {} /\ origin.phase \notin {"done", "failed"}
           /\ ~SucceededBefore(origin.pending) /\ ~SucceededBefore(origin.failure)
      ELSE origin.status # "completed"

\* No rewrite forgets how far the final answer had come, so that it is neither
\* generated, stored nor shown again.  A standard run saved without its
\* Engine's state only remembers that there is an answer.
AnswerIsRemembered ==
    stage = "snapshot" =>
      /\ reached.started => held.markers.started
      /\ reached.response => held.markers.response
      /\ held.engine = "plan" =>
           \A f \in DOMAIN reached : reached[f] => held.markers[f]

\* Tool calls and failures a run recorded are still there after any rewrite.
CallsAreRemembered ==
    stage = "snapshot" /\ HasPlan(origin) =>
      /\ held.engine = "plan"
      /\ held.state.active = origin.active /\ held.state.seen = origin.seen
      /\ held.state.pending = origin.pending /\ held.state.failure = origin.failure

\* The promise of persistence/migration.py and persistence/checkpoint.py.
CodecSound == /\ OnlyPayloadsAreRefused
              /\ SafeToResume
              /\ AnswerIsRemembered
              /\ CallsAreRemembered
=============================================================================
