---------------------------- MODULE EventDelivery ----------------------------
(***************************************************************************)
(* How the events of a run get from those who publish them (the engine,    *)
(* delegation callbacks beside it, the coordinator itself) to the public   *)
(* stream and to the event sink: runtime/coordinator.py, the event queues  *)
(* of runtime/services.py and EventPublisher in runtime/events.py.         *)
(* An event is its sequence number; `epoch` tells apart the processes in   *)
(* which a run was started and resumed.                                    *)
(***************************************************************************)
EXTENDS Integers, Sequences, FiniteSets, SequencesExt

CONSTANTS
    PendMax,      \* _MAX_PENDING_SERVICE_EVENTS
    SinkMax,      \* _EVENT_SINK_QUEUE_MAX_SIZE
    Callbacks,    \* delegations that report while a tool batch runs
    MaxEvents,    \* bound: sequence numbers of one process
    InitEvents,   \* bound: events that initialize() defers
    MaxResumes,   \* bound
    HasSink       \* whether the event sink is not a no-op

ASSUME DeliveryAssumption ==
    /\ {PendMax, SinkMax, MaxEvents, InitEvents, MaxResumes} \subseteq Nat
    /\ {"engine", "coordinator"} \cap Callbacks = {}
    /\ HasSink \in BOOLEAN

VARIABLES
    coord,      \* where RunCoordinator._run is
    out,        \* drained events it has still to yield
    eng,        \* where the engine is
    task,       \* what the engine does with the event it publishes
    emission,   \* the event the engine has yielded, or 0
    num,        \* EventPublisher._sequence
    pub,        \* each publisher: idle, reserved or sent, with its number
    pending,    \* _pending_events
    after,      \* _pending_after_events
    sinkq,      \* the sink queue
    worker,     \* the event the sink worker has handed over, or 0
    circuit,    \* timed_out
    disk,       \* event_sequence of the checkpoint, 0 without one
    epoch,
    stream,     \* history: what the consumer got in this process
    given,      \* history: what the sink got in this process
    lost,       \* history: numbers reserved for a checkpoint that failed
    public      \* history: <<epoch, number, whether it reports a checkpoint>>

coordVars == <<coord, out>>
engVars == <<eng, task, emission>>
queueVars == <<pending, after>>
sinkVars == <<sinkq, worker, circuit, given>>
vars == <<coordVars, engVars, num, pub, queueVars, sinkVars, disk, epoch, stream, lost, public>>

Publishers == {"engine", "coordinator"} \cup Callbacks
Free == [at |-> "idle", n |-> 0]

Init ==
    /\ coord = "new" /\ out = <<>>
    /\ eng = "none" /\ task = "none" /\ emission = 0
    /\ num = 0 /\ pub = [p \in Publishers |-> Free]
    /\ pending = <<>> /\ after = <<>>
    /\ sinkq = <<>> /\ worker = 0 /\ circuit = FALSE /\ given = <<>>
    /\ disk = 0 /\ epoch = 0
    /\ stream = <<>> /\ lost = {} /\ public = {}

-----------------------------------------------------------------------------
(* _reserve_event: stamp the next number. *)
Reserve(p) ==
    /\ pub[p].at = "idle" /\ num < MaxEvents
    /\ num' = num + 1
    /\ pub' = [pub EXCEPT ![p] = [at |-> "reserved", n |-> num + 1]]

(* _dispatch_reserved_event: wait for room in the sink queue. *)
Dispatch(p) ==
    /\ pub[p].at = "reserved" /\ ~(p = "engine" /\ task = "save")
    /\ Len(sinkq) < SinkMax
    /\ sinkq' = IF HasSink THEN Append(sinkq, pub[p].n) ELSE sinkq
    /\ pub' = [pub EXCEPT ![p].at = "sent"]
    /\ public' = public \cup {<<epoch, pub[p].n, p = "engine" /\ task = "saved">>}
    /\ UNCHANGED <<coordVars, engVars, num, queueVars, worker, circuit, given, disk, epoch,
                   stream, lost>>

Sent(p) == pub[p].at = "sent" /\ pub' = [pub EXCEPT ![p] = Free]

(* _enqueue_event: wait for room among the pending events. *)
Enqueue(p) ==
    /\ Sent(p)
    /\ p = "engine" => task \in {"defer", "saved"}
    /\ p # "coordinator"
    /\ Len(pending) < PendMax
    /\ pending' = Append(pending, pub[p].n)
    /\ task' = IF p = "engine" THEN "none" ELSE task
    /\ UNCHANGED <<coordVars, eng, emission, num, after, sinkVars, disk, epoch, stream, lost,
                   public>>

-----------------------------------------------------------------------------
(* The engine.  It publishes an event and yields it, or has the services   *)
(* queue it; it saves checkpoints; it runs tools beside which callbacks    *)
(* publish; it ends with an outcome or an error.                           *)
Engine(t, where) ==
    /\ eng \in where /\ task = "none"
    /\ Reserve("engine")
    /\ task' = t
    /\ UNCHANGED <<coordVars, eng, emission, queueVars, sinkVars, disk, epoch, stream, lost,
                   public>>

(* Room for later events: MaxEvents is a bound of the model. *)
Roomy == num < MaxEvents - 1
ToolsRoomy == num < MaxEvents - 2

Deferred == Roomy /\ (eng = "init" => num <= InitEvents) /\ Engine("defer", {"init", "run"})
Emitted == Roomy /\ Engine("emit", {"run"})
Saving == Roomy /\ (eng = "init" => num <= InitEvents) /\ Engine("save", {"init", "run"})

Yield ==
    /\ task = "emit" /\ Sent("engine")
    /\ emission' = pub["engine"].n
    /\ eng' = "yielded" /\ task' = "none"
    /\ UNCHANGED <<coordVars, num, queueVars, sinkVars, disk, epoch, stream, lost, public>>

(* publish_event of the completion of a skill resource: the event that      *)
(* describes the resource is published next and follows it in the stream.   *)
Describe ==
    /\ task = "emit" /\ pub["engine"].at = "sent" /\ Roomy
    /\ num' = num + 1
    /\ Len(sinkq) < SinkMax
    /\ sinkq' = IF HasSink THEN Append(sinkq, num + 1) ELSE sinkq
    /\ after' = Append(after, num + 1)
    /\ public' = public \cup {<<epoch, num + 1, FALSE>>}
    /\ \E t \in {"defer", "emit"} : task' = t
    /\ UNCHANGED <<coordVars, eng, emission, pub, pending, worker, circuit, given, disk, epoch,
                   stream, lost>>

(* Mutant: the number is written before it is reserved for its event. *)
SaveStale ==
    /\ task = "save"
    /\ disk' = num - 1
    /\ task' = "saved"
    /\ UNCHANGED <<coordVars, eng, emission, num, pub, queueVars, sinkVars, epoch, stream,
                   lost, public>>

(* checkpoint: the number of CHECKPOINT_SAVED is part of what is saved. *)
Save ==
    /\ task = "save"
    /\ disk' = num
    /\ task' = "saved"
    /\ UNCHANGED <<coordVars, eng, emission, num, pub, queueVars, sinkVars, epoch, stream,
                   lost, public>>

(* A failed save gives the reservation up and raises. *)
SaveFails ==
    /\ task = "save"
    /\ pub' = [pub EXCEPT !["engine"] = Free]
    /\ lost' = lost \cup {pub["engine"].n}
    /\ eng' = "failed" /\ task' = "none"
    /\ UNCHANGED <<coordVars, emission, num, queueVars, sinkVars, disk, epoch, stream, public>>

Quiet == \A c \in Callbacks : pub[c] = Free

Tools ==
    /\ eng = "run" /\ task = "none" /\ Callbacks # {} /\ ToolsRoomy
    /\ eng' = "tools"
    /\ UNCHANGED <<coordVars, task, emission, num, pub, queueVars, sinkVars, disk, epoch, stream,
                   lost, public>>

Report(c) ==
    /\ eng = "tools" /\ ToolsRoomy
    /\ Reserve(c)
    /\ UNCHANGED <<coordVars, engVars, queueVars, sinkVars, disk, epoch, stream, lost, public>>

EngineMoves(from, to) ==
    /\ eng = from /\ task = "none"
    /\ eng' = to
    /\ UNCHANGED <<coordVars, task, emission, num, pub, queueVars, sinkVars, disk, epoch, stream,
                   lost, public>>

(* When the batch is done the engine emits its results. *)
ToolsDone ==
    /\ eng = "tools" /\ Quiet
    /\ Reserve("engine")
    /\ eng' = "run" /\ task' = "emit"
    /\ UNCHANGED <<coordVars, emission, queueVars, sinkVars, disk, epoch, stream, lost, public>>

Initialized == coord = "init" /\ EngineMoves("init", "ready")
Ends == EngineMoves("run", "outcome") \/ EngineMoves("run", "failed")
        \/ EngineMoves("init", "failed")

-----------------------------------------------------------------------------
(* drain_events: the pending events with those that follow directly on one *)
(* of them, by number.                                                      *)
Related == {n \in ToSet(after) : Contains(pending, n - 1)}

Ascending(S) ==
    CHOOSE q \in [1..Cardinality(S) -> S] :
        ToSet(q) = S /\ \A i, j \in 1..Cardinality(S) : i < j => q[i] < q[j]

(* The rest of `after` keeps its order, which is that of the numbers. *)
Drain ==
    /\ out' = Ascending(ToSet(pending) \cup Related)
    /\ pending' = <<>>
    /\ after' = Ascending(ToSet(after) \ Related)

(* drain_after_events *)
DrainAfter ==
    /\ out' = after
    /\ after' = <<>>
    /\ UNCHANGED pending

At(from, to) == coord = from /\ out = <<>> /\ coord' = to

(* The consumer takes the next event of the stream; until then the          *)
(* generator is suspended and other tasks run.                              *)
Deliver ==
    /\ out # <<>>
    /\ stream' = Append(stream, Head(out))
    /\ out' = Tail(out)
    /\ UNCHANGED <<coord, engVars, num, pub, queueVars, sinkVars, disk, epoch, lost, public>>

(* RUN_STARTED, and then what precedes the engine's loop in one task, which *)
(* drains nothing meanwhile.                                                *)
Open ==
    /\ At("new", "opening")
    /\ Reserve("coordinator")
    /\ UNCHANGED <<out, engVars, queueVars, sinkVars, disk, epoch, stream, lost, public>>

Opened ==
    /\ At("opening", "init")
    /\ Sent("coordinator")
    /\ out' = <<pub["coordinator"].n>>
    /\ eng' = "init"
    /\ UNCHANGED <<task, emission, num, queueVars, sinkVars, disk, epoch, stream, lost, public>>

Launch ==
    /\ At("init", "loop") /\ eng = "ready"
    /\ Drain
    /\ eng' = "run"
    /\ UNCHANGED <<task, emission, num, pub, sinkVars, disk, epoch, stream, lost, public>>

Ready == eng \in {"yielded", "outcome", "failed"}

(* The loop: drain; wait for the engine or for a pending event; drain; look *)
(* whether the engine has come to something.                                *)
Step(from, to) ==
    /\ At(from, to)
    /\ UNCHANGED <<engVars, num, pub, sinkVars, disk, epoch, stream, lost, public>>

LoopTop == Step("loop", "wait") /\ Drain
LoopWait == (Ready \/ pending # <<>>) /\ Step("wait", "check") /\ Drain
LoopCheck == ~Ready /\ Step("check", "loop") /\ UNCHANGED <<out, queueVars>>

TakeEvent ==
    /\ At("check", "emitted") /\ eng = "yielded"
    /\ out' = <<emission>> /\ emission' = 0
    /\ UNCHANGED <<eng, task, num, pub, queueVars, sinkVars, disk, epoch, stream, lost, public>>

TakeAfter == Step("emitted", "restart") /\ DrainAfter

Restart ==
    /\ At("restart", "loop")
    /\ eng' = "run"
    /\ UNCHANGED <<out, task, emission, num, pub, queueVars, sinkVars, disk, epoch, stream, lost,
                   public>>

(* Mutant: what is still pending when the engine ends is not yielded. *)
TakeOutcomeAtOnce ==
    eng = "outcome" /\ Step("check", "terminal") /\ UNCHANGED <<out, queueVars>>

(* The engine ended: what is left is yielded before the terminal event.  An *)
(* error of the engine first lets go of what was to follow its event.       *)
TakeOutcome == eng = "outcome" /\ Step("check", "last") /\ UNCHANGED <<out, queueVars>>
TakeError == eng = "failed" /\ Step("check", "last") /\ DrainAfter
InitFails == eng = "failed" /\ Step("init", "last") /\ UNCHANGED <<out, queueVars>>
DrainRest == Step("last", "lastafter") /\ Drain
DrainRestAfter == Step("lastafter", "terminal") /\ DrainAfter

PublishTerminal ==
    /\ At("terminal", "joining")
    /\ Reserve("coordinator")
    /\ UNCHANGED <<out, engVars, queueVars, sinkVars, disk, epoch, stream, lost, public>>

(* The terminal event waits for the sink, with a limit.  A failed run saves *)
(* once more, without failing itself; a completed one keeps no checkpoint,  *)
(* or saves likewise.                                                       *)
Terminal ==
    /\ At("joining", "closing")
    /\ Sent("coordinator")
    /\ out' = <<pub["coordinator"].n>>
    /\ disk' \in IF eng = "failed" THEN {disk, num} ELSE {0, num}
    /\ UNCHANGED <<engVars, num, queueVars, sinkVars, epoch, stream, lost, public>>

Reset ==
    /\ out' = <<>> /\ eng' = "none" /\ task' = "none" /\ emission' = 0
    /\ pub' = [p \in Publishers |-> Free]
    /\ pending' = <<>> /\ after' = <<>>
    /\ sinkq' = <<>> /\ worker' = 0 /\ circuit' = FALSE

(* The finally clause: the sink worker is cancelled with what it holds. *)
Close ==
    /\ At("closing", "closed")
    /\ sinkq' = <<>> /\ worker' = 0
    /\ UNCHANGED <<out, engVars, num, pub, queueVars, circuit, given, disk, epoch, stream, lost,
                   public>>

Alive == coord \notin {"new", "closed", "gone"}

(* Cancelled, or the stream closed: a best-effort save, and no terminal     *)
(* event.  A crash does not save.                                           *)
Interrupt ==
    /\ Alive
    /\ coord' = "gone"
    /\ disk' \in {disk, num}
    /\ Reset
    /\ UNCHANGED <<num, given, epoch, stream, lost, public>>

(* A new process publishes from the number of the checkpoint on. *)
Resume ==
    /\ coord \in {"closed", "gone"} /\ disk > 0
    /\ epoch < MaxResumes /\ disk <= MaxEvents - 2
    /\ coord' = "new"
    /\ num' = disk
    /\ epoch' = epoch + 1
    /\ stream' = <<>> /\ given' = <<>> /\ lost' = {}
    /\ Reset
    /\ UNCHANGED <<disk, public>>

-----------------------------------------------------------------------------
(* _sink_worker: hands events to the sink one by one until one of them      *)
(* takes too long, and then only drops them.                                *)
SinkTakes ==
    /\ sinkq # <<>> /\ worker = 0
    /\ sinkq' = Tail(sinkq)
    /\ IF circuit THEN UNCHANGED <<worker, given>>
       ELSE worker' = Head(sinkq) /\ given' = Append(given, Head(sinkq))
    /\ UNCHANGED <<coordVars, engVars, num, pub, queueVars, circuit, disk, epoch, stream, lost,
                   public>>

SinkReturns ==
    /\ worker # 0
    /\ worker' = 0
    /\ UNCHANGED <<coordVars, engVars, num, pub, queueVars, sinkq, circuit, given, disk, epoch,
                   stream, lost, public>>

(* Mutant: the worker waits on for a sink that does not answer. *)
SinkHangs == worker # 0 /\ circuit /\ UNCHANGED vars

(* Mutant: the circuit opens while the worker still waits. *)
SinkTimesOutOnce ==
    /\ worker # 0
    /\ circuit' = TRUE
    /\ UNCHANGED <<coordVars, engVars, num, pub, queueVars, sinkq, worker, given, disk, epoch,
                   stream, lost, public>>

SinkTimesOut ==
    /\ worker # 0
    /\ worker' = 0 /\ circuit' = TRUE
    /\ UNCHANGED <<coordVars, engVars, num, pub, queueVars, sinkq, given, disk, epoch, stream,
                   lost, public>>

Publication == \E p \in Publishers : Dispatch(p) \/ Enqueue(p)

EngineStep == Deferred \/ Emitted \/ Saving \/ Tools \/ ToolsDone \/ Initialized \/ Ends
EngineGoesOn == Yield \/ Save \/ SaveFails

Coordinator ==
    \/ Deliver \/ Open \/ Opened \/ Launch \/ LoopTop \/ LoopWait \/ LoopCheck
    \/ TakeEvent \/ TakeAfter \/ Restart \/ TakeOutcome \/ TakeError \/ InitFails
    \/ DrainRest \/ DrainRestAfter
    \/ PublishTerminal \/ Terminal \/ Close

Next ==
    \/ Publication \/ EngineStep \/ EngineGoesOn \/ Describe
    \/ \E c \in Callbacks : Report(c)
    \/ Coordinator
    \/ SinkTakes \/ SinkReturns \/ SinkTimesOut
    \/ Interrupt \/ Resume

Spec == Init /\ [][Next]_vars

(* Tasks that are ready run, saves and engine steps have timeouts, the      *)
(* consumer goes on reading.  The sink need not ever answer: only the       *)
(* worker's own timeout is fair.                                            *)
Fairness ==
    /\ \A p \in Publishers : WF_vars(Dispatch(p)) /\ WF_vars(Enqueue(p))
    /\ WF_vars(EngineGoesOn) /\ WF_vars(EngineStep)
    /\ WF_vars(Coordinator)
    /\ WF_vars(SinkTakes) /\ WF_vars(SinkTimesOut)

FairSpec == Spec /\ Fairness

-----------------------------------------------------------------------------
Numbers == 0..MaxEvents

TypeOK ==
    /\ coord \in {"new", "opening", "init", "loop", "wait", "check", "emitted", "restart",
                  "last", "lastafter", "terminal", "joining", "closing", "closed", "gone"}
    /\ eng \in {"none", "init", "ready", "run", "tools", "yielded", "outcome", "failed"}
    /\ task \in {"none", "defer", "emit", "save", "saved"}
    /\ emission \in Numbers /\ num \in Numbers /\ disk \in Numbers
    /\ pub \in [Publishers -> [at : {"idle", "reserved", "sent"}, n : Numbers]]
    /\ \A q \in {out, pending, after, sinkq, stream, given} : q \in Seq(Numbers)
    /\ Len(pending) <= PendMax /\ Len(sinkq) <= SinkMax
    /\ worker \in Numbers /\ circuit \in BOOLEAN /\ epoch \in 0..MaxResumes
    /\ public \subseteq (0..MaxResumes) \X Numbers \X BOOLEAN /\ lost \subseteq Numbers

Own == {e[2] : e \in {x \in public : x[1] = epoch}}

(* The stream of a run that ends has every event published by its process, *)
(* once, and the terminal event last, which has the highest number.        *)
StreamIsComplete ==
    coord = "closed" =>
        /\ ToSet(stream) = Own /\ IsInjective(stream)
        /\ Last(stream) = num

(* The sink gets events that were published, none of them twice and none   *)
(* once it has kept the worker waiting.                                     *)
SinkIsIsolated ==
    /\ ToSet(given) \subseteq Own /\ IsInjective(given)
    /\ worker # 0 => ~circuit

(* The number of CHECKPOINT_SAVED is durable with the checkpoint itself:    *)
(* no event of a later process gets it.                                     *)
CheckpointNumbersLast ==
    \A d, e \in public : d[1] < e[1] /\ d[3] => d[2] < e[2]

(* The numbers of a stream ascend (tests/test_coordinator_v04.py:118). *)
StreamInOrder == \A i \in 1..Len(stream) - 1 : stream[i] < stream[i + 1]

(* Consumers may tell duplicates by run id and number                      *)
(* (docs/operations.md:211): a number stands for one event.                *)
NumbersIdentify == \A d, e \in public : d[2] = e[2] => d = e

(* A run ends, whatever the sink does and however much is queued. *)
RunsEnd == (coord = "opening") ~> (coord \in {"closed", "gone"})
=============================================================================
