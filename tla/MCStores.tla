------------------------------- MODULE MCStores -------------------------------
(***************************************************************************)
(* What the framework and its example index keep from one process to the   *)
(* next: a run as its requests find it again, checkpoints and their        *)
(* payloads, conversations, and the generations of the document index.     *)
(* These stores share nothing, so a behaviour exercises the one that       *)
(* `part` names and the others rest.                                       *)
(***************************************************************************)
EXTENDS RunBinding, CheckpointStores, IndexPublication

VARIABLES
    part,
    backend, talkRows, keys, dies, keysDie, talkRecent, total, sweepAt, time, lock, users, talkJob,
    talkClearing, kept, raced,
    origin, stage, held, reached, saves,
    disc, shelf, pipeline, state, watch, snapshot, now, watched, tried, disturbed,
    watchEdits, upgrades, manual, scanErrors,
    config, manifest, files, work, runs, rollbacks,
    doc, allow, docStage, order, raw, patches, blocks, chunks,
    backendWork, backendStep, attempt, backendNow, started, backendTask, tasks,
    backendAnswer, vectors, calls

CONSTANTS w1, w2, call1, d1, d2, k1, k2, k3,
          v1, v2, onPlan, onStandard, s1, s2, t1, l1, l2

MCWorkers == {w1, w2}

(* Where a run may go on: two sessions, two versions of the agent, two     *)
(* engines and two settings of the limits to resume it with.               *)
MCSessions == {s1, s2}
MCTenants == {t1}
MCLeases == {l1, l2}
MCConfig(s, d, e, l) == [spec |-> s, def |-> d, engine |-> e, limits |-> l]
MCConfigs == {MCConfig(v1, v1, onPlan, 1), MCConfig(v1, v1, onPlan, 2),
              MCConfig(v2, v2, onPlan, 1), MCConfig(v1, Nothing, onStandard, 1)}

(* Legacy checkpoint payloads. *)
MCPayload ==
    [version |-> 3, status |-> "running", mark |-> "none", twin |-> "absent", phase |-> "plan",
     active |-> {}, seen |-> {}, pending |-> Nothing, failure |-> Nothing, count |-> 0,
     response |-> FALSE, persisted |-> FALSE, emitted |-> FALSE]
MCFailures == {Nothing} \cup [call : {call1}, successes : 0..1]
MCPayloads ==
    {[MCPayload EXCEPT !.version = v, !.status = s, !.mark = m, !.response = r] :
        v \in {1, 3}, s \in {"completed", "failed"}, m \in {"none", "pending", "completed"},
        r \in BOOLEAN}
    \cup
    {[MCPayload EXCEPT !.version = v, !.twin = t, !.phase = p, !.active = a, !.seen = s,
                       !.pending = f, !.failure = g, !.response = r, !.persisted = q, !.emitted = e] :
        v \in {2, 3}, t \in {"same", "other"}, p \in {"act", "finalize", "failed"},
        a \in SUBSET {call1}, s \in SUBSET {call1}, f \in MCFailures,
        g \in {Nothing, [call |-> call1, successes |-> 1]},
        r \in BOOLEAN, q \in BOOLEAN, e \in BOOLEAN}

MCFiles == {d1, d2}
MCContents == {1}

(* Batches of two sizes. *)
MCBytes == [b \in {"b1", "b2"} |-> IF b = "b1" THEN 2 ELSE 1]

(* Pipelines: the revision of each stage's settings; layout 0 is off. *)
MCPipe(p, r, l, e, c, m, i) ==
    [parser |-> p, restructuring |-> r, layout |-> l, enrichment |-> e, chunking |-> c,
     embedding |-> m, indexing |-> i]
MCPipelines == {MCPipe(1, 1, 0, 1, 1, 1, 1), MCPipe(2, 1, 0, 1, 1, 1, 1),
                MCPipe(1, 1, 0, 1, 1, 2, 1), MCPipe(1, 1, 1, 1, 1, 1, 1),
                MCPipe(1, 2, 1, 2, 1, 1, 2), MCPipe(1, 1, 1, 1, 2, 1, 1)}

(* Parsed documents and what a layout model may say of a page. *)
MCBlock(k, l, p, b, t) == [kind |-> k, level |-> l, page |-> p, box |-> b, text |-> t]
MCDocument(i, b, l) == [items |-> i, body |-> b, links |-> l]
Word(n) == [k \in 1..n |-> "w"]
MCText == {<<"w", "w", "s", "w", "w", "w", "n", "w">>, <<"s", "w", "s", "s", "s", "s", "s", "w">>}
MCDocuments ==
    {MCDocument(<<MCBlock(k, 1, 1, 1, Word(1)), MCBlock(l, 2, 1, b, Word(3)),
                  MCBlock("text", 1, p, 3, Word(1))>>, body, <<<<2, 3>>, <<1>>, <<>>>>) :
        k \in {"heading", "text"}, l \in {"heading", "table"}, b \in {1, 2}, p \in {1, 2},
        body \in {<<1>>, <<3, 2>>}}
    \cup
    {MCDocument(<<MCBlock("group", 1, 1, 0, <<>>), MCBlock("heading", m, 1, 0, Word(1)),
                  MCBlock("heading", n, 1, 0, t)>>, <<1>>, <<<<2, 3>>, <<1>>, <<>>>>) :
        m \in 1..3, n \in 1..3, t \in {Word(1), <<>>}}
    \cup
    {MCDocument(<<MCBlock("text", 1, 1, 0, t), MCBlock(k, 1, 2, 0, u), MCBlock("text", 1, 3, 0, Word(1))>>,
                <<1, 2, 3>>, <<<<>>, <<>>, <<>>>>) :
        t \in {Word(1), Word(6)}, k \in {"text", "table"}, u \in MCText}
Turned(n, d) == [k \in 1..n |-> ((k + d) % n) + 1]
MCHintsOf(n) ==
    LET none == [k \in 1..n |-> 0]
        no == [k \in 1..n |-> FALSE]
        plain == [k \in 1..n |-> <<>>]
        Hint(o, p, g, h, t, e) ==
            [order |-> o, parent |-> p, group |-> g, heads |-> h, title |-> t, excluded |-> e]
    IN  {Hint(o, p, none, h, t, e) :
            o \in {Turned(n, -1), Turned(n, 0)}, p \in {none, [none EXCEPT ![1] = n]},
            h \in {plain, [plain EXCEPT ![n] = <<2, 1>>], [k \in 1..n |-> <<1>>]},
            t \in {no, [no EXCEPT ![1] = TRUE]}, e \in {no, [no EXCEPT ![n] = TRUE]}}
        \cup {Hint([k \in 1..n |-> 1], none, none, plain, no, no),
              Hint(Turned(n, -1), Turned(n, 0), none, plain, no, no),
              Hint(Turned(n, -1), [none EXCEPT ![1] = 9], none, plain, no, no),
              Hint(Turned(n, -1), none, [none EXCEPT ![1] = n], plain, no, no)}
MCHints == UNION {MCHintsOf(n) : n \in 1..3}

Talk == INSTANCE ConversationStores WITH
    Conversations <- {"c1", "c2"}, Batches <- {"b1", "b2"}, Bytes <- MCBytes,
    MaxSessions <- 1, MaxTotal <- 3, Ttl <- 2, SweepEvery <- 2, MaxRows <- 2, MaxTime <- 3,
    job <- talkJob, clearing <- talkClearing, rows <- talkRows, recent <- talkRecent

Codec == INSTANCE SnapshotCodec WITH
    Calls <- {call1}, Documents <- MCPayloads, MaxSaves <- 2

Watch == INSTANCE IngestionSupervisor WITH
    Sources <- MCFiles, Revisions <- {1, 2}, InitialContents <- {1}, Window <- 1,
    MaxAttempts <- 2, FirstDelay <- 1, MaxDelay <- 2, FullReconcile <- 1, MaxTime <- 2,
    MaxEdits <- 2, MaxUpgrades <- 1, MaxManual <- 1, MaxScanErrors <- 1,
    edits <- watchEdits

Cache == INSTANCE StageCache WITH
    Pipelines <- MCPipelines, Missing <- Nothing, MaxRuns <- 3, MaxRollbacks <- 1

Doc == INSTANCE DocumentStructure WITH
    Documents <- MCDocuments, Hints <- MCHints, MaxChars <- 4, Overlap <- 2,
    stage <- docStage

Backend == INSTANCE DocumentBackends WITH
    MaxAttempts <- 3, RequestTimeout <- 2, Deadline <- 6, Texts <- 3, BatchSize <- 2,
    BlockIds <- {k1, k2, k3}, MaxConcurrency <- 2, work <- backendWork, step <- backendStep,
    now <- backendNow, task <- backendTask, answer <- backendAnswer

talkVars == <<backend, talkRows, keys, dies, keysDie, talkRecent, total, sweepAt, time, lock,
              users, talkJob, talkClearing, kept, raced>>
codecVars == <<origin, stage, held, reached, saves>>
watchVars == <<disc, shelf, pipeline, state, watch, snapshot, now, watched, tried,
               disturbed, watchEdits, upgrades, manual, scanErrors>>
cacheVars == <<config, manifest, files, work, runs, rollbacks>>
docVars == <<doc, allow, docStage, order, raw, patches, blocks, chunks>>
backendVars == <<backendWork, backendStep, attempt, backendNow, started, backendTask, tasks,
                 backendAnswer, vectors, calls>>
allVars == <<part, bindVars, storeVars, talkVars, codecVars, watchVars, indexVars, cacheVars,
             docVars, backendVars>>

(* The parts that a behaviour does not exercise rest, the run before it    *)
(* has been asked for, the store of checkpoints and the index empty.       *)
MainRests == Init /\ kind = "parent" /\ ~world.durable
CheckpointsRest == StoresInit /\ engine = "memory" /\ alone /\ Found = Missing
TalkRests ==
    /\ backend = 0 /\ talkRows = 0 /\ keys = 0 /\ dies = 0 /\ keysDie = 0 /\ talkRecent = 0
    /\ total = 0 /\ sweepAt = 0 /\ time = 0 /\ lock = 0 /\ users = 0 /\ talkJob = 0
    /\ talkClearing = 0 /\ kept = 0 /\ raced = 0
CodecRests ==
    /\ origin = 0 /\ stage = 0 /\ held = 0 /\ reached = 0 /\ saves = 0
WatchRests ==
    /\ disc = 0 /\ shelf = 0 /\ pipeline = 0 /\ state = 0 /\ watch = 0 /\ snapshot = 0
    /\ now = 0 /\ watched = 0 /\ tried = 0 /\ disturbed = 0 /\ watchEdits = 0
    /\ upgrades = 0 /\ manual = 0 /\ scanErrors = 0
CacheRests ==
    /\ config = 0 /\ manifest = 0 /\ files = 0 /\ work = 0 /\ runs = 0 /\ rollbacks = 0
DocRests ==
    /\ doc = 0 /\ allow = 0 /\ docStage = 0 /\ order = 0 /\ raw = 0 /\ patches = 0
    /\ blocks = 0 /\ chunks = 0
BackendRests ==
    /\ backendWork = 0 /\ backendStep = 0 /\ attempt = 0 /\ backendNow = 0 /\ started = 0
    /\ backendTask = 0 /\ tasks = 0 /\ backendAnswer = 0 /\ vectors = 0 /\ calls = 0

MCInit ==
    /\ part \in {"binding", "checkpoints", "conversations", "payloads",
                 "supervisor", "publication", "stages", "document", "services"}
    /\ IF part = "binding" THEN Init ELSE MainRests
    /\ IF part = "checkpoints" THEN StoresInit ELSE CheckpointsRest
    /\ IndexInit
    /\ IF part = "conversations" THEN Talk!Init ELSE TalkRests
    /\ IF part = "payloads" THEN Codec!Init ELSE CodecRests
    /\ IF part = "supervisor" THEN Watch!Init ELSE WatchRests
    /\ IF part = "stages" THEN Cache!Init ELSE CacheRests
    /\ IF part = "document" THEN Doc!Init ELSE DocRests
    /\ IF part = "services" THEN Backend!Init ELSE BackendRests

MCNext ==
    /\ UNCHANGED part
    /\ \/ part = "binding" /\ Next
          /\ UNCHANGED <<storeVars, talkVars, codecVars, watchVars, indexVars, cacheVars,
                          docVars, backendVars>>
       \/ part = "checkpoints" /\ StoresNext
          /\ UNCHANGED <<bindVars, talkVars, codecVars, watchVars, indexVars, cacheVars,
                          docVars, backendVars>>
       \/ part = "conversations" /\ Talk!Next
          /\ UNCHANGED <<bindVars, storeVars, codecVars, watchVars, indexVars, cacheVars,
                          docVars, backendVars>>
       \/ part = "payloads" /\ Codec!Next
          /\ UNCHANGED <<bindVars, storeVars, talkVars, watchVars, indexVars, cacheVars,
                          docVars, backendVars>>
       \/ part = "supervisor" /\ Watch!Next
          /\ UNCHANGED <<bindVars, storeVars, talkVars, codecVars, indexVars, cacheVars,
                          docVars, backendVars>>
       \/ part = "publication" /\ IndexNext
          /\ UNCHANGED <<bindVars, storeVars, talkVars, codecVars, watchVars, cacheVars,
                          docVars, backendVars>>
       \/ part = "stages" /\ Cache!Next
          /\ UNCHANGED <<bindVars, storeVars, talkVars, codecVars, watchVars, indexVars,
                          docVars, backendVars>>
       \/ part = "document" /\ Doc!Next
          /\ UNCHANGED <<bindVars, storeVars, talkVars, codecVars, watchVars, indexVars,
                          cacheVars, backendVars>>
       \/ part = "services" /\ Backend!Next
          /\ UNCHANGED <<bindVars, storeVars, talkVars, codecVars, watchVars, indexVars,
                          cacheVars, docVars>>

MCSpec == MCInit /\ [][MCNext]_allVars

(* A batch of messages is stored once and kept; a payload that survives    *)
(* migration means what the payload it came from meant; and the index is   *)
(* built of settled documents, each made of the stages its pipeline asked  *)
(* for.                                                                    *)
KeptSound ==
    /\ part = "conversations" => Talk!ConversationsSound
    /\ part = "payloads" => Codec!CodecSound
    /\ part = "supervisor" => Watch!SupervisorSound
    /\ part = "stages" => Cache!CacheSound
    /\ part = "document" => Doc!DocumentSound
    /\ part = "services" => Backend!BackendsSound
====
