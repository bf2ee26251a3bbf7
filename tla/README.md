# TLA+ models of moduagent

moduagent is a Python framework for running language-model agents: a run alternates model calls
and tool calls under limits, is checkpointed so that another process can resume it, stores its
messages in a conversation store, and may delegate work to other agents under a shared budget.
This directory holds TLA+ models of the parts that carry this behaviour and of the largest
example, an ingestion pipeline for a document index, TLC runs that check them, and TLAPS proofs.
Paths below are relative to `src/moduagent/`, and those that start with `rag/` to
`src/examples/14_rag_index_manager/`.

## 1. The system and its parts

| Part | State | Operations | What is hard |
|---|---|---|---|
| Budget ledger `delegation/budget.py` | one record per execution group in a compare-and-swap store: counters, leases, limits, deadline, cancelled | ensure_group, reserve_delegation, reserve_model_turn, reserve_tool_call, complete_lease, release_lease, cancel_group | processes race on one record; answers get lost; waiting for a slot |
| Delegation coordinator `delegation/coordinator.py`, `receipts.py` | one durable receipt per delegation id, one lease per attempt, the child's checkpoint; in a process: lock, owned lease, child task, settled and retained leases | delegate (claim, reserve, start, finish, settle; replay, reconcile, resume), release after failure | crashes between durable steps; a child that ignores cancellation; two processes with the same delegation |
| Delegation access `delegation/guards.py`, `registry.py`, `sessions.py`, `definitions/registry.py` | registered definitions and their status, the tree of runs, sessions | promote, retire, rebind, resolve, authorize, invoke | a registry that changes under a delegation; sessions that wait in a circle |
| Synchronous tool scheduler `tools/scheduler.py` | counter of outstanding items under a lock, bounded queue, daemon threads, per-item events, statistics | run, abandon, worker loop | abandonment against workers; order of freeing a slot and waking the caller |
| Tool runtime `tools/runtime.py` | attempts of a call, outcomes of a batch | validate, authorize, execute, classify, retry, repair | retry after a timeout while the first attempt runs; partial batches |
| Run coordinator `runtime/coordinator.py` | run context, cleanup permission, event publisher, sink worker | run, resume, bind, finish, except clauses for cancellation, timeout, errors | interruption at every await; what a terminal event may claim |
| Runtime services `runtime/services.py`, `model_guard.py` | last engine snapshot, model guard, pending events | model attempt with write-ahead reservation, tool batch with saved intent, checkpoint, finalization | the order of saving and acting |
| Standard engine `execution/standard.py` | phase, turn, tool count, final answer and its marks | initialize, validate_resume, execute, finalize | which checkpoints may be resumed, and from where |
| Plan engine `execution/planning/`, policy `decision/planning.py` | plan, steps, recovery state, finalization marks | prepare, act, verify, commit, recover, replan, finalize | as above, with recovery of tool batches |
| Agent runtime `runtime/runtime.py` | lock and user count per session; run context, guard, batches | execute and stream, directly or under the coordinator | removal of a lock against late waiters; guard and markers across resumptions |
| Model clients `models/` | parts of an answer that is being streamed | complete, stream, classify | output shown before a failure; fragments in any order |
| Stores and snapshots `persistence/` | messages by session with idempotency keys; one snapshot per run under a key per version | append_once, load, clear; save, load, delete, import, migrate | keys across resumptions; capacity and expiry; copy-forward against writers |
| Memory `memory/` | summaries | select, summarize, commit, assemble | concurrent commits; budgets |
| Skills `skills/` | catalog, pinned revisions, resource budgets | select, activate, restore, read, search | files edited under a run |
| Observability `observability/` | event queues, daemon pool, pollers, reporter | emit, record, capture, flush | bounded queues; work that outlives its caller |
| Index manager example `rag/` | directory snapshots, manifest, collections and aliases, stage artifacts | watch, synchronize, publish, roll back, convert, chunk, embed | two stores without a common transaction; stale artifacts; lost answers |
| Definitions, codecs, configuration, facade | immutable records | validate, parse | sequential |

How they interact: `RunCoordinator` creates a `RuntimeServices` per run and hands it to the
engine; the engine calls it for every model call, tool batch and checkpoint. Services write to
the checkpoint and conversation stores. A tool may be a delegation tool: it calls the delegation
coordinator, which reserves a lease in the ledger and runs the child agent, whose own services
reserve model turns and tool calls in the same ledger. Synchronous tools run on the scheduler's
threads. Events go through services' pending queue to the coordinator's generator, and from
there to the stream and to the sink worker. Several processes share only the stores.

`PROJECT.json` lists every component with its status, and under `hazards` what is hard to test,
at its line.

## 2. Modules

### BudgetState, BudgetLedger, AtomicBudget (delegation/budget.py)

`BudgetState` has the stored group record and, for every operation, its verdict on a record and
the record it produces. `BudgetLedger` has clients that load the record, judge it, and
compare-and-swap with its revision (`EnsureLoad`, `EnsureCreate`, `EnsureReload`, `Load`,
`CasWins`, `CasLoses`), reservations that poll for a slot (`Poll`), a swap whose answer is lost
(`CasLandsUnseen`), a caller that gives up (`Abandon`) and a clock (`Tick`). `AtomicBudget` is
the abstract specification: the record changes only by whole operations applied to the current
record. `AtomicSpec` is the refinement.

### Delegation (delegation/coordinator.py, receipts.py)

One delegation id. Durable state: receipt, lease per attempt, group cancelled, the child's
terminal checkpoint. Per process: where its `delegate` call is, the receipt it read, whether it
owns a lease, the child task. Receipt transitions and ledger operations are single steps, which
the budget models justify for compare-and-swap loops. The cleanup after a failed call runs
outside the per-id lock and so beside later calls.

### StandardRun (runtime/coordinator.py, services.py, model_guard.py, execution/standard.py, parts of runtime/runtime.py and persistence/)

One run, started once and resumed. `run` is what a checkpoint keeps of the run context, `eng`
the engine state, `last` the services' last engine snapshot, `disk` the checkpoint, `log` the
batches in the conversation store. Every label of `pc` is an await or a yield. `Checkpoint` is
one action for all checkpoint boundaries; labels `save_reserve` and `save_intent` save `last`,
the others the engine's state. `Cancel`, `Raise` and `Crash` may strike at any label, and then
the call in progress (`InFlight`) may or may not have been carried out. Tool outcomes are
ephemeral messages, counted by `seen`, which no checkpoint keeps. Answers are numbered by
provider call, so answers of different calls count as different.

Abstractions: should_stop is false (as in StandardDecisionPolicy); the no-progress digest is a
nondeterministic trip after the first turn; execution-group reservations (the ledger's business)
and identity checks of a checkpoint are left out; a streamed call retries like a plain one,
which allows more than the code does once a delta was sent; keys of the conversation store do
not expire. A second cancellation that cuts an except clause short has the effect of `Crash`.

### PlanRun (execution/planning/, decision/planning.py, runtime/services.py, runtime/coordinator.py)

One run with the plan engine and `PlanAndExecutePolicy`. `eng` is the engine's state (phase,
plan, committed steps, attempts, repairs, replans, finalization marks), `run` the part of the
run context that decides control, `last` the last engine snapshot, `disk` the checkpoint. The
policy works on a copy of the engine's state that the engine pulls back when the call returns,
so a policy call changes `eng` only in its last step, and a call that is cancelled or raises
leaves `eng` alone: `Revise` is the return of a revision, `RevisionFails` its failure. `Ruling`
and `Recovered` are `ToolRecoveryController.decide`; `PolicyReplans` is where the policy,
without a recovery configuration, differs from it, and `Reconciled` is what the engine then
does. `Checkpoint` is one action for all boundaries: labels `reserve` and `save_intent` save
`last`, `save_outcome` the engine's state with the controller's recovery state, the others the
engine's state. `Interrupt` (cancellation, timeout, error of the code awaited) ends with the
best-effort save of an except clause; `Crash` does not.

Abstractions: a plan is a sequence of step ids without dependencies, and no step is skipped; a
batch counts as one tool call; identities and argument fingerprints of calls are left out, so an
unusable repair is an input; a model guard may trip at any model call; two successive saves of
the same state are one; storing the answer is idempotent (append_once is the business of
StandardRun); provider retries are part of `provider`. A run interrupted before its
initialization was complete plans anew, because the engine-owned keys of the policy state
(`runtime/services.py:69`) are not saved for it.

### Calls, threads and locks

**SyncToolScheduler** (tools/scheduler.py). Callers and worker threads at the grain of the lock,
the queue, the per-item events and the counter. `SchedulerSound`: the count of outstanding items
is exact and within capacity, a result was computed, an abandoned item that was still queued
never runs, the slot is free before the caller wakes.

**BackgroundPool** (observability/_background.py). Coroutines `Submit` calls to daemon threads
(`Work`); one poller per event loop (`Scan`, `Wait`, `Wake`) settles their futures and ends when
idle; callers `Cancel`. Between two awaits the loop is one action, threads interleave with all
of it. `PoolSound`: whoever waits is watched by a living poller, answers are outcomes of the own
call, an abandoned call costs no thread.

**SessionLocks** (runtime/runtime.py). The lock table of sessions: `Arrive`, `Acquire`,
`LeaveSession`, `GiveUp`, with asyncio's hand-over to the first waiter. One run of a session at a time; the
table is exact and empty for an idle session.

**ToolRuntime** (tools/runtime.py, failure.py, base.py). One batch of `execute_many`: `stage` of
each call, its attempts, and the invocations that execute, in time or not (`live`).
`RetriesAreDeclared`: nothing is repeated unless the tool's profile says so; `RepairsAreNew`;
`OutcomeIsTrue`. Arguments are values with an effective form, formatting of results is left out.

**DelegationAccess** (delegation/coordinator.py, guards.py, registry.py, sessions.py, tool.py,
definitions/). Trees of runs: `Delegate`, `Resolve`, `Describe`, `AuthorizeEdge`,
`InvokeEndpoint`, while operators `Transition` and `RebindEndpoint`. A run holds its session's lock while its children
run. `AccessSound`: a child was fit to run at some moment since its call, reached by allowed
edges without cycle or excess depth and for its parent's tenant, and sessions of different trees
stay apart. Session keys are the tuples they hash.

### Around the engines

**RunBinding** (runtime/coordinator.py). What ties a request to its run: identity, store scope,
`LoadResume` with every check of a checkpoint (`Accepts`), the execution group's budget or the
child's lease, bootstrap, and what a failure may write. Requests come from other tenants,
sessions, definitions or leases, across restarts with or without a durable ledger.
`BindingSound`: `Bound`, `RefusedLeavesNothing`, `Bootstrapped`, `BudgetKept`, `ClaimAccepted`.
What the engine does in between is one `Step`. A run that completes has its checkpoint deleted,
or overwritten best effort where terminal checkpoints are retained, as those of children are.

**StepPolicy** (decision/planning.py). `PlanAndExecutePolicy` by itself: plan acceptance with
dependencies, `Prepare`, the four decisions, `Observe`, `Revise`, and `Reload` from the
serialized state wherever it awaits; the deprecated policy is the mode "implicit". Responses,
call lists and plans are any of small sets. `StepPolicySound`: the state reloads as it was,
results follow the plan, call ids are fresh, a repair differs from what failed, steps' messages
stay apart.

**DirectRun**, **StrictRun** (runtime/runtime.py). `AgentRuntime` used without the coordinator:
the loop of turns, decisions, tools and finalization with the guard kept in the checkpoint, and
the strict plan loop with its markers. `Crash` and `Cancel` may strike at every await, and the
caller may resume, rightly or with a request that is refused, which the same error handlers then
meet. `DirectSound`: turns stay spent, tools stay within their limit, a batch is stored once, a
final answer is kept. `StrictSound`: one answer is shown and committed steps stay done.
StrictRun leaves guard and batches to DirectRun.

**ModelCalls** (runtime/services.py, models/, memory/context/policies.py). The engine's model
call, and before it possibly the memory's summary, down to the streamed answer. `Reserve` takes
the turn of the group and of the guard, `Save` is its checkpoint and `Begin` the started event;
what fails or is cancelled there precedes the handlers that abandon the attempt and leaves it
pending (`held`). Then `Delta`, `Fragment` of a tool call, `Marker`, `Break` anywhere, retries,
`Close` by the consumer; `Proceed` is the memory that does without its summary. `ModelCallSound`:
output is shown once, tool calls are assembled as sent, the reported failure is honest, and
turns, started and ended attempts agree: but for a stream that was closed, only a reservation
whose attempt never began stays pending, and after it no provider is asked (`AttemptsSettled`).

### Events and diagnostics

**EventDelivery** (runtime/coordinator.py, services.py, events.py). Publishers (engine,
delegation callbacks, coordinator) reserve a number, dispatch to the sink queue and to a pending
queue, which the coordinator drains to the consumer; the sink worker opens its circuit when a
sink is slow; a checkpoint carries the number of its own event. `Interrupt` and `Resume` change
the process (`epoch`). Properties: `StreamIsComplete`, `SinkIsIsolated`,
`CheckpointNumbersLast`, `RunsEnd`.

**EventSinks** (observability/sinks.py and the sink worker). A composite hands each event to
custom, metrics and writer sinks at once; a blocking call that was abandoned may still `Land`.
Event data is the set of its fields. `EventSinksSound`: no sink changes what others see or
records a field that must be redacted; records are in order; a start is measured once and for
its own run; nobody is skipped.

**Diagnostics** (observability/diagnostics.py and its callers). Delivery tasks with timers,
flush and clear of a run, and the choice of the failure that explains a result.
`DiagnosticsSound`: no record vanishes uncounted, a sink that never returns holds up nothing,
the reported cause ended the run.

### Stores, memory and skills

**CheckpointStores** (persistence/checkpoint.py, _sync.py). The in-memory store under its lock,
and the Redis store command by command over its three keys with expiry, import, copy-forward and
deaths. `StoresSound`: a load that answers with a checkpoint answers with the one stored at that
moment, whatever the other workers do; while operations take turns, an answer of none is right
too and no older key comes back in place of a newer one. What concurrent writers can do beyond
that is in section 6.

**SnapshotCodec** (persistence/snapshot.py, migration.py, checkpoint.py). A payload of version 1
to 3 is migrated, opened, resumed and rewritten. `CodecSound`: only a payload is ever refused,
what was migrated can be opened and saved again, what is resumable is safe to resume, markers of
a final answer and calls that may have run are remembered.

**ConversationStores** (persistence/conversation.py). Memory store with expiry, capacity and
eviction; Redis lists with a key hash; the Redis blob fallback that reads, extends and writes.
`ConversationsSound`: a batch is stored once and stays until it is cleared, expires or is
evicted; bytes and sessions are counted and bounded.

**ContextMemory** (memory/context/). Readers page through a conversation and its summary,
revalidate, adopt an older summary, compact with compare-and-swap, while messages are appended
and the conversation cleared. `ContextSound`: `ViewIsTheHistory`, `SummariesChain`,
`ShownFitsTheView`.

**MemorySelection** (memory/policies.py, memory/context/assembler.py, runtime_assembly.py).
Which summary and how many turns enter a request, for any token counter, compared with a
reference definition: the request fits, nothing more would, priorities are kept.

**Skills** (skills/). Files edited at any time, catalog, activation, restoration, paged reads
and searches. `SkillsSound`: a run sees one pinned revision, pages of one revision, within its
budgets, and gets the tools its skills ask for and no others.

### The index manager example

**IngestionSupervisor** (rag/supervisor.py, scanner.py): polls, the settling window, retries
with delays, quarantine, state file, lease, restarts and manual operations. `SupervisorSound`:
only settled content is published, a failing snapshot is given up, the index is never emptied.

**IndexPublication** (rag/catalog.py, pipeline.py, stores.py): a generation is built beside the
one that is served, the alias moves, the manifest commits; calls fail before or after they took
effect, and the process dies anywhere. `PublicationSound`: what an alias serves is whole, the
manifest is whole, reports were true, a rollback has a target.

**StageCache** (rag/artifacts.py, planner.py, pipeline.py): `CacheSound`: chunks about to be
indexed were refined, enriched and split by the pipeline that the manifest will name, over
changes of configuration, failures and rollbacks. Enrichments are compared by fingerprint and
block ids, which the blocks of another pipeline may share.

**DocumentStructure** (rag/restructure.py, chunking.py, backends.py): the pure functions from
items to chunks, as operators over small documents, some of them RECURSIVE; no module with
theorems uses it. `DocumentSound`: each item is read once, an accepted layout applies, layouts
only rearrange, chunks cover the text within their size.

**DocumentBackends** (rag/backends.py): the retrying transport with its deadline, conversion
tasks that may be submitted twice, batched embedding, concurrent enrichment. `BackendsSound`.

MC modules hold the values of constants. `MCDelegationModes`, `MCStandardModes`, `MCPrimitives`,
`MCObservability` and `MCStores` also join several instances in one run: a variable `part` (or
`mode`) is chosen in the initial state, the part it names behaves as its own specification, and
the others rest in their initial states. This is a way to run instances together and claims no
interaction between them.

## 3. Runs

| Run | Instance | Shows |
|---|---|---|
| budget_ledger | two clients, two leases, four calls, limits of one to three, fair | invariants and refinement at every interleaving of loads and swaps, with lost answers; every call is answered |
| delegation | race: two processes, three calls, no resume and so one attempt, fair; resuming: one process, three attempts, four calls, second cancellations | one child executes, answers are the receipt's, settlement follows the receipt, closed receipts stay or are reopened by a resumption, late calls fail closed; every call of the race ends |
| primitives | scheduler: three callers, two threads, no queue room beyond them; pool: three callers, one thread, one queued call; locks: four runs, two sessions; batch: two calls, two attempts; tree: three agents, four runs, depth two; all fair | the properties of the five modules above, and everyone who waits is answered |
| standard_run | faults: 3 steps, 4 model turns, 2 tool batches, 2 attempts per call, 3 resumptions, all faults, with and without staged finalization and retained checkpoint; graceful: 2 steps, 1 batch, all decisions and auxiliary calls, cancellation and timeouts only; direct and strict: 2 crashes, 2 resumptions; model: 3 attempts, 3 turns; steps: plans of up to 2 steps, 2 attempts, a replan, a repair, a reload; skills: two skills, two edits, one restart; memory: two readers, pages of one, three messages, one clear; selection: three turns | limits across resumptions, no tool replay, resumable checkpoints are accepted, input and answer recorded once, an answer shown once and after it was stored; the same for the other engines; a skill is what was activated, a summary is the history it covers |
| plan_run | every recovery configuration, three plans over three steps, two with tools; 2 attempts, 2 replans, 1 repair, 2 batches, 2 resumptions; fair | tools of a step succeed once, a partial batch ends the run, progress is never lost, one answer and only for a complete plan; every start ends |
| event_delivery | delivery: queues of one, six numbers, a callback, one resumption, fair; sinks: two attempts, two faults; diagnostics: two runs, two captures, one timer, one kept record | complete streams, isolated sinks, durable numbers, honest diagnostics; every run ends although the sink may hang |
| stores | nine parts: binding: 2 requests, two sessions, a tenant or none, four configurations, two leases; conversations with two sessions and two batches; checkpoints with two workers and three saves; payloads with two rewrites; supervisor (two sources, two edits, two attempts, a clock of two steps), publication (three generations, two faults, one death), stages, document, services | a run stays bound, a checkpoint that is loaded is the one that was saved, the index serves whole generations (`PublicationSound`); conversations, payloads and the other parts of the index keep what they promise (`KeptSound`) |
| delegation_fence, standard_conflict, plan_revision, stream_order, binding_claim | smallest instance that shows it | disagreements with the code's own documentation, section 6 |

In `standard_run`, no policy finishes on a response with tool calls, "faults" leaves out
CONTINUE decisions and memory summaries, and "graceful" crashes and failing writes: with them
`AnswersAreHonest`, `SafeResumes`, `NoConflict` and `ClaimHolds` fail, for the reasons of section
6. `NoConflict` and `ClaimHolds` speak of "graceful" only.

The bounds are the smallest for which every limit is reached before the run ends and each
situation can happen again after a resumption or a retry: two racing clients suffice for a
compare-and-swap conflict, a third attempt for a stale owner, three resumptions for a batch key
that is reused after a key was skipped, queues of one for a queue that is full, three
generations for a rollback target that is replaced, two edits for a file that changes between
selection and activation and again between pages. Passing runs take every action of every
module; what they never reach are defensive branches of the code (a full queue after a
successful admission, a plan with steps left in verification, an alias that lost its
generation), bounds of the models, and the poller that a `StopIteration` ends, which these
instances leave out (section 6). `CHECK_DEADLOCK FALSE` is set where a finished system has
nothing left to do.

Fairness. Budget ledger: each client's next step is weakly fair and the clock advances, since a
coroutine that is ready is scheduled and the polling loop sleeps with a deadline; a
compare-and-swap loop ends because a swap fails only if another succeeded and calls are finite.
Delegation: steps of live calls and the deadline are weakly fair; a child need not ever stop.
Scheduler and pool: daemon threads, the poller and callers that do not give up are weakly fair;
a function that has started returns. Session locks: the first waiter is woken, and a run ends by
its deadline. Tool batch: every await of a call has a timeout. Delegation trees: every run's
next step, which includes the expiry of its deadline: it is what ends runs that wait in a
circle. Plan run: the engine's next step is weakly fair, since every await of the code has a
timeout; interruptions, crashes and resumptions are not, and their number is bounded by
`MaxResumes`. Event delivery: ready tasks run, the consumer reads on, and the sink worker's
timeout strikes; the sink need not ever return. `MCPrimitives` states the fairness of its parts
again, each guarded by `part`.

## 4. Proofs

Eight modules hold theorems, all of them about modules without RECURSIVE operators. Each proves its
component for any values of the constants that the named ASSUMEs of the component's module
allow; TLC evaluates these on its instances. Each has an inductive invariant (`IInv`, or one
named after the component where a module proves several) and one lemma per action. No property
below is inductive by itself; the invariants were checked by TLC before they were proved.

**BudgetLedgerProofs**, for any set of clients, leases and agents and any limits:
`LedgerConsistent`, which includes the types, `AnswersAreRecorded`, `OneContract`, `LeasesSettleOnce` and the refinement
`AtomicSpec`. A client's snapshot is an earlier version of the record: the same revision as the
stored one implies the same record (`SnapshotsAreVersions`). With it a successful swap is the
operation applied to the current record, and every verdict made on the snapshot is a verdict on
the record; the invariants then follow from lemmas on the operations of `BudgetState` alone, and
a step of the ledger is a step of `AtomicBudget` or leaves the record alone. Cardinality lemmas
on the lease table relate the counters to the leases.

**PrimitivesProofs**, where calls wait for each other or for threads, for any finite sets of
workers, calls, runs and threads and any capacities.
`SchedulerIsSound`: a call is in one place at a time, with its caller, in the queue once, held by
one worker, or completed (`EachOnce`, `CallsAreOpen`), and a worker knows of its call what it
has looked at (`WorkersKnow`). The count of outstanding calls is exact because each action moves
one call from one of these places to the next.
`PoolIsSound`, under the hypothesis that no function raises StopIteration, without which it is
false (section 6): a call has no outcome before a thread has called it and one that stays
afterwards; what a future was told is that outcome (`ToldIsFinal`); whoever waits is in the list
of the poller that is alive.
`SessionsAreSerialized`: who is present holds on to one lock (`Attached`), two sessions never
share one (`LocksApart`), and who runs has locked it (`RunnersHold`). That the table counts its
users exactly is what keeps a lock from being removed while somebody still uses it.
`BatchesAreSound`: for any calls, profiles of tools, attempts and width of a batch, nothing is
repeated unless the tool's profile says so and a repair leaves a call of its own. A call carries
what its profile allowed at each attempt (`CallRepeats`), what it knows of its invocations at
each stage (`CallKnown`), and its answer once it has one (`CallAnswered`).

**DelegationAccessProofs**, for any agents, edges, sessions, tenants, depth and number of runs:
`TreesAreSound`. What a run is (its agent, session, tenant, parent and depth) never changes once
it has started, so what was checked of it stays true (`RunKnown`); a delegation under way remembers that
its callee was fit at some moment since the call, however the registry changes (`DelegationKnown`);
no two runs that run hold one lock (`LocksHeldOnce`). That a tenant cannot reach another's session
follows because the tenant can be read off the session's key.

**StoresProofs**, what a run finds again of itself, and what the example's index serves.
`RunIsBound`, for any sessions, tenants, compositions, leases and number of requests: the
invariant follows what a request brought (`Requested`), through what was accepted of the
checkpoint (`Admitted`, `Kept`), to what a handler may write (`Recorded`, `Spent`, `ClaimKept`).
The checkpoint always carries the identity of the run's first owner, and a process executes only
after it compared the two.
`StoresAreSound`, for any workers, lifetime, number of saves and clock, over the in-memory and
the Redis store with deaths between commands: a payload older than the one under the newest
version expires no later (`NewestLasts`), so while the workers take turns, what is older than the
checkpoint that was read lies under one that is not (`ReadIsCovered`); what a load knows of the
keys that it has passed (`LoadKnows`) closes the induction.
`IndexIsSound`, for any documents, contents and number of generations, changes, failing calls and
deaths: aliases, and the switches that may still take effect, name sealed collections only, and
none names the generation in the making (`AliasesAreSealed`); how far that generation is follows
from where the operation stands (`Stands`), so a generation that is staged holds its snapshot.
The generation before the current one is always second in the order of publication
(`OrderIsKept`), which makes it the candidate of a rollback; while nothing failed the previous
alias names it (`InStep`).

**EventDeliveryProofs**, for any delegations beside the engine, any queue lengths and any number
of resumptions: `StreamIsComplete`, `SinkIsIsolated`, `CheckpointNumbersLast`. Every event that
was published is in exactly one place on its way: with its publisher, in the emission, in one of
the queues, or in the stream (`InOnePlace`); the queues that must be empty when the run ends are
(`RestIsTaken`), so all are in the stream. A number belongs to one publisher and is new until it
is dispatched, and what a checkpoint covers is below the numbers of later processes
(`NumbersAreNew`, `CheckpointsCover`).

**PlanRunProofs**, for any plans, tools, recovery configuration and limits and any number of
resumptions: `ToolsSucceedOnce`, `PartialBatchEndsRun`, `AnswerFollowsPlan`, `ProgressIsKept`.
The engine's state, the last snapshot and the checkpoint hold plans whose committed steps come
first, in a phase that fits what is left of them (`Formed`). The checkpoint has the progress of
the last snapshot, and the last snapshot that of the engine but for one call of the policy that
is about to be saved (`Tracked`): so whatever an except clause, a crash or the next checkpoint
writes, it writes a later state. Calls that succeeded are of committed steps or older versions
of the plan unless a step's result is awaited (`WorkedOnce`), and the answer is on record, in
memory and on disk, before it is stored (`OneAnswer`). `Durable` is what a checkpoint promises to
the process that resumes it. The lemmas on `Those`, which select steps of a plan in order, show
that a revision keeps the committed steps as a prefix and adds each open step once.

**StandardRunProofs**, for any limits, decisions, auxiliary model calls, faults and number of
resumptions: `TurnsReservedAhead` and `GuardTripIsFinal`; for a policy that finishes only on responses
without tool calls `AnswersAreHonest`; without CONTINUE decisions `ToolsBlockResume` and
`ModelSeesToolOutcomes`; without memory summaries `ResumableIsAccepted`.
The three hypotheses are those without which the properties are false (section 6). The proof is
made in layers, each inductive given those before. `Base` says where the process can be with
which state, and that the checkpoint, the run in memory and the calls made agree on the turns
reserved. `Effect` lists what a step can do to the stores, at its label, so that a call that is
interrupted, with or without effect, is one case for all actions. `Tripped`: a tripped guard is
only met in an except clause, and once a checkpoint has one, so has the process that wrote it,
and no other follows. `ToolsGuarded`: no tool has had effect as long as the checkpoint, or what
the process would save next, could be resumed without an answer. `Acceptable`: the common state
and the engine state are of the same turn in each pair that a save can join. `Recordings` is
about where the input and the answer are, and holds of the process and of every checkpoint:
`Queued` says what the batch to be stored carries, the input until it is stored and the answer
once it is published; `Settled`, that once the answer is in the conversation a batch that would
carry it again has the key and the contents of the batch that did, so the store takes it as a
repetition. That needs `Coupled`: when the answer is about to be stored, the checkpoint already
has it and the same batch number, so a process that resumes from it cannot find another answer.
`Showing`, that the mark in the checkpoint precedes what is shown, follows from it.

**DelegationProofs**, for any set of processes and of results and any number of attempts and
calls: `AnswersAreTheReceipt` and `ReceiptIsFinal`; without resume `OneChildExecutes` and
`LateCallsFailClosed`; with neither resume nor a second cancellation `LedgerFollowsReceipt`. The
hypotheses are those without which the properties are false: a resume lets two children execute
(run delegation_fence), a second cancellation takes the lease from a child that executes (section
6), and a late call that loses the race for a resume to a call begun before the deadline is told
"in progress" while the receipt is open again. Three layers, each inductive given those before. `Known`: a call that has read a
closed receipt finds it unchanged or in the next attempt, and the outcome that it is about to
record, like the one in the child's checkpoint, is final. `Sole`: one process at most owns
the delegation (`Owner`: it is about to start the child, waits for it, or keeps its task or its
lease), and only the process whose claim made the receipt becomes it, which happens once because
the claim is the one transition from an absent receipt. `Held`: once the receipt or the
checkpoint shows how the child ended, or a call is about to settle, no child executes or is going
to (`Quiet`), and a task that outlives its call is on the list of leases to be kept.

The library's induction theorems take an operator as a parameter and cannot be used here. Where
a proof needs induction over numbers (that the numbers of a finite set can be put in order), it
is by the least counterexample, with `WFMin` and `NatLessThanWellFounded`, which take sets.

Only model-checked: liveness under fairness and ENABLED (`EveryCallIsAnswered`, `CallsEnd`,
`EveryoneIsAnswered`, `RunEnds`, `RunsEnd`), which are outside the prover's reach; what the
recursive functions of DocumentStructure compute (induction over data is outside it too); and
`NoPersistConflict` and `ResumableClaimHolds` of StandardRun, which hold without crashes only; and
the modules whose proofs are still to come or are not planned: the direct, strict and plan-step
runs and the model calls, skills, the sinks and diagnostics, conversation and context memory, the
snapshot codec, and the index manager except its publication. `LedgerFollows`, `SafeResumes`, `NoConflict` and
`ClaimHolds` of the MC modules state a property for one mode of their instance; the theorems say
it under the corresponding hypothesis where it is proved (`LedgerIsSettledAfter`,
`ToolsAreNotForgotten`, `ResumableCheckpointsFit`).

## 5. Not modelled

See `components` in PROJECT.json for every part and reason. Tool schemas and argument
validation, token counting, prompts, package parsing, output codecs, request encoding,
configuration, the facade and the command line are sequential functions over application data;
where one can fail or decide something, its result is an input of a module. The database
adapters pass each operation to an application's repository. Of the examples only the index
manager keeps state of its own across processes; the others and the benchmarks call the
framework in sequence. What remains unmodelled within a partly modelled component is named in
its note: validation of envelopes, projections of metadata and usage, wording, and the products
of modules that look at the same code with different grain (a run's engine, its events and its
binding are checked each by itself).

## 6. Disagreements with the documentation

Each of these has a run that violates one property, and an entry under `findings`.

- delegation_fence: receipt transitions compare only the status, so the owner of an old attempt
  moves the receipt of a newer one and two children execute.
- standard_conflict: a crash between append and checkpoint makes the resumed run reuse a batch
  key for other messages; it can then never complete.
- plan_revision: a failed revision of the plan fails the policy's copy of the state, which is
  lost; the checkpoint keeps the phase before it, resumable.
- stream_order: events that the engine deferred while the generator was suspended at a yield are
  put behind an event with a higher number.
- binding_claim: a setup that fails on a configuration error or a timeout reports a run as
  resumable that was never saved.

The same models show the following; no run is kept for them. Where a property is named, it is
defined in the module and does not hold there.

Runs under the coordinator:

- Delegation: a call interrupted while the completed receipt is written is not among the settled
  leases of its process, so it releases the lease that a replay needs
  (`CompletedReceiptReplays`; `delegation/coordinator.py:1052` says that cleanup must not).
- Delegation, two processes and `CancelTwice`: a call cancelled a second time in the grace
  period (`delegation/coordinator.py:925`) releases the lease of a child that still executes
  (`ExecutingChildHoldsLease`).
- StandardRun, CONTINUE after tools: the checkpoint becomes resumable and lacks the tools'
  outcomes (`ModelSeesToolOutcomes`; `README.md:991`).
- StandardRun, `Faults = {"store"}`: `checkpoint_safely` (`runtime/services.py:1523`) swallows a
  failed save, and the run is reported as resumable although nothing resumable was saved
  (`ResumableClaimHolds`).
- StandardRun, crashes and summaries: a crash during a memory summary leaves a checkpoint that
  joins step k + 1 with the engine snapshot of turn k (`runtime/services.py:271`), marked
  resumable and rejected by `validate_resume` (`ResumableIsAccepted`).
- StandardRun without staged finalization: a stream closed at the decision event
  (`execution/standard.py:424`) stores the promoted answer, the checkpoint does not know it, and
  the resumed run stores a second one (`OneAnswer`). `docs/migration-0.4.md:226` expects one.
- StandardRun, a policy that finishes on a response with tool calls ("finish_calls"): without
  staged finalization the answer is not promoted to the messages to be stored
  (`execution/standard.py:417`), and the completed run's answer is not in the conversation
  (`CompletedIsRecorded`). The policies of the repository finish on responses without calls only.
- A run that ended at max_steps or max_tool_calls before any tool was executed is reported as
  resumable, and each resumption ends at once in the same way.
- PlanRun: an interruption between the checkpoint after a batch and the policy's observation of
  it (`execution/planning/engine.py:797`) overwrites the saved repair count with the engine's
  older one, and the resumed step may be repaired once more (`RepairsAreKept`).
  `decision/planning.py:525` says that the budgets are durable across resume.
- PlanRun: a batch succeeds, the validator has the plan revised, and a batch of the new plan
  fails as a whole, which makes the run resumable (`execution/planning/engine.py:784`) although
  the first batch belongs to no committed step (`SuccessBlocksResume`).
- StepPolicy: a repair is compared only with the call that failed last, so with two repair
  attempts A, B, A is accepted; a revision under the deprecated policy replaces the plan, and
  completed steps are done again.
- EventDelivery: numbers published after the last checkpoint are given again after a resumption
  (`NumbersIdentify`; `docs/operations.md:211` tells duplicates by number). RunBinding: the
  events of a refused resumption start at one.

Runs of a directly used runtime:

- DirectRun: a refused resumption passes through the error handler with a blank context, which
  overwrites the good checkpoint; the guard then has its budget again. The count of tool calls
  is not durable before the tools run. A cancellation during tools saves a call without result
  in a checkpoint marked resumable. An append that timed out but was carried out conflicts with
  a later answer under the same batch number.
- StrictRun: a step may be committed without the results of its tools (`hollow`); a handler that
  stores the input while its checkpoint fails leaves a run whose batch conflicts for ever.

Tools, models, observability:

- ToolRuntime: normalising failure ids can raise after tools ran, and `gather` leaves the other
  calls running when one raises.
- DelegationAccess: a child in its parent's session waits for the parent's lock until a deadline
  ends one of them.
- ModelCalls: the turn is reserved in the guard ahead of the handlers that abandon an attempt
  (`runtime/services.py:579`, `592`). When the checkpoint of the reservation for a memory's
  summary fails (`:271`), the memory does without the summary
  (`memory/context/policies.py:282`), the attempt stays pending, and the guard refuses the
  engine's own call with a RuntimeError that ends the run (`runtime/model_guard.py:223`;
  `SummaryIsOptional`), although `runtime/services.py:661` says that a failure of the optional
  summarizer can be recovered by the recent-only view.
- ModelCalls: Ollama tool calls in separate lines without an index are merged. A consumer that
  closes its stream (`Close`), and a cancellation before the attempt began, leave the guard's
  reservation pending and the attempt without an end among the events; the run is over then.
- EventSinks: a slow custom sink opens the circuit and starves audit and metrics for the rest of
  the run; a start whose end never reached the sink stays in the table, and may be measured from
  a later attempt.
- BackgroundPool, `Outcomes` with "stop": before Python 3.12 a function that raises
  StopIteration ends the poller, and the coroutines it watches wait on (`WaitersAreWatched`).
- Diagnostics: `drop_count` may count a delivery twice, or one that completed after its timeout.

Stores and skills:

- ContextMemory: clearing resets the version, so a stale compare-and-swap may succeed.
  ConversationStores: the two deletes of a clear race with append_once
  (`persistence/conversation.py:142`). SnapshotCodec: a standard run saved through `to_context`
  loses its finalization markers. CheckpointStores: copy-forward may overwrite a newer save, and
  bring back a run that was deleted meanwhile; a delete that dies midway leaves the older key;
  an import does not replace a newer version.

Index manager:

- IngestionSupervisor: a failed scan resets the retries, a crash during a synchronization is not
  counted, and a manual synchronization between scan and lease lets the watcher withdraw what
  was just published.
- IndexPublication: after a failed commit the previous alias is not the manifest's candidate, so
  a rollback fails until the next publication; a failed verification leaves manifest and alias
  apart, and searches then fail closed.
- StageCache: reused chunks may come from a parse of another configuration (`ChunksAreFresh`;
  `rag/README.md:107`).
- DocumentStructure: the stack of headings is cut by level, not by the levels it holds
  (`SectionsNest`; `rag/restructure.py:44`).
- DocumentBackends: an enrichment that failed goes on calling (`NothingStrays`).

## 7. Plan

Modelled: every component whose state outlives one call, see section 5 for the rest. Proved:
BudgetLedger, SyncToolScheduler, SessionLocks, BackgroundPool, ToolRuntime, DelegationAccess,
EventDelivery, PlanRun, StandardRun, Delegation, RunBinding, CheckpointStores and
IndexPublication. Next: `LedgerFollowsReceipt` of Delegation with resume and one process, and the
conversation stores (`OnceAndKept`), whose sums over conversations need lemmas on folds first.
