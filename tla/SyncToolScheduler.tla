-------------------------- MODULE SyncToolScheduler --------------------------
(***************************************************************************)
(* tools/scheduler.py: a fixed pool of daemon threads that runs            *)
(* synchronous tools for coroutines.  The callers of run() and the worker  *)
(* threads interleave at every lock, queue and Event operation.            *)
(***************************************************************************)
EXTENDS Integers, Sequences, FiniteSets

CONSTANTS
    Items,      \* one _WorkItem for each call of run()
    Workers,    \* the threads
    MaxQueue,   \* max_queue
    NoItem

ASSUME SchedulerAssumption ==
    /\ IsFiniteSet(Items) /\ NoItem \notin Items
    /\ IsFiniteSet(Workers) /\ Workers # {}
    /\ MaxQueue \in Nat

MaxWorkers == Cardinality(Workers)
Capacity == MaxWorkers + MaxQueue

VARIABLES
    caller,        \* what the coroutine in run() is doing, for each item
    abandoned,     \* item.abandoned
    done,          \* item.completed
    queue,         \* _queue
    pc,            \* where each worker is in _worker
    item,          \* the item each worker holds
    running,       \* _running
    outstanding,   \* _outstanding
    submitted,     \* _submitted
    finished,      \* _completed
    dropped,       \* _abandoned
    rejected,      \* _rejected
    ran,           \* history: items whose function was called
    doomed         \* history: items abandoned while they were in the queue

stats == <<running, outstanding, submitted, finished, dropped, rejected>>
history == <<ran, doomed>>
vars == <<caller, abandoned, done, queue, pc, item, stats, history>>

Init ==
    /\ caller = [i \in Items |-> "new"]
    /\ abandoned = [i \in Items |-> FALSE]
    /\ done = [i \in Items |-> FALSE]
    /\ queue = <<>>
    /\ pc = [w \in Workers |-> "get"]
    /\ item = [w \in Workers |-> NoItem]
    /\ running = 0 /\ outstanding = 0 /\ submitted = 0
    /\ finished = 0 /\ dropped = 0 /\ rejected = 0
    /\ ran = {} /\ doomed = {}

-----------------------------------------------------------------------------
(* _submit, under the lock: admission by the number of items outstanding. *)
Admit(i) ==
    /\ caller[i] = "new"
    /\ IF outstanding >= Capacity
       THEN /\ caller' = [caller EXCEPT ![i] = "rejected"]
            /\ rejected' = rejected + 1
            /\ UNCHANGED <<submitted, outstanding>>
       ELSE /\ caller' = [caller EXCEPT ![i] = "putting"]
            /\ submitted' = submitted + 1
            /\ outstanding' = outstanding + 1
            /\ UNCHANGED rejected
    /\ UNCHANGED <<abandoned, done, queue, pc, item, running, finished, dropped, history>>

(* _submit, put_nowait: Full undoes the admission. *)
Put(i) ==
    /\ caller[i] = "putting"
    /\ IF Len(queue) < Capacity
       THEN /\ caller' = [caller EXCEPT ![i] = "waiting"]
            /\ queue' = Append(queue, i)
            /\ UNCHANGED <<submitted, outstanding, rejected>>
       ELSE /\ caller' = [caller EXCEPT ![i] = "rejected"]
            /\ submitted' = submitted - 1
            /\ outstanding' = outstanding - 1
            /\ rejected' = rejected + 1
            /\ UNCHANGED queue
    /\ UNCHANGED <<abandoned, done, pc, item, running, finished, dropped, history>>

(* run: the poll of item.completed. *)
Observe(i) ==
    /\ caller[i] = "waiting" /\ done[i]
    /\ caller' = [caller EXCEPT ![i] = "returned"]
    /\ UNCHANGED <<abandoned, done, queue, pc, item, stats, history>>

(* run: the awaiter is cancelled or timed out while it sleeps. *)
Abandon(i) ==
    /\ caller[i] = "waiting"
    /\ caller' = [caller EXCEPT ![i] = "cancelled"]
    /\ abandoned' = [abandoned EXCEPT ![i] = TRUE]
    /\ doomed' = IF \E k \in 1..Len(queue) : queue[k] = i
                 THEN doomed \cup {i} ELSE doomed
    /\ UNCHANGED <<done, queue, pc, item, stats, ran>>

-----------------------------------------------------------------------------
(* _worker, one action per operation on shared state. *)
Step(w, from, to) == pc[w] = from /\ pc' = [pc EXCEPT ![w] = to]

Get(w) ==
    /\ Step(w, "get", "check")
    /\ queue # <<>>
    /\ item' = [item EXCEPT ![w] = Head(queue)]
    /\ queue' = Tail(queue)
    /\ UNCHANGED <<caller, abandoned, done, stats, history>>

Check(w) ==
    /\ Step(w, "check", IF abandoned[item[w]] THEN "skip" ELSE "enter")
    /\ UNCHANGED <<caller, abandoned, done, queue, item, stats, history>>

(* Mutant: a skipped item bypasses the finally clause. *)
SkipKeepsSlot(w) ==
    /\ Step(w, "skip", "get")
    /\ dropped' = dropped + 1
    /\ item' = [item EXCEPT ![w] = NoItem]
    /\ UNCHANGED <<caller, abandoned, done, queue, running, outstanding, submitted,
                   finished, rejected, history>>

(* Mutant: a worker that meets an abandoned item leaves its loop. *)
SkipStops(w) ==
    /\ Step(w, "skip", "stopped")
    /\ dropped' = dropped + 1
    /\ outstanding' = outstanding - 1
    /\ UNCHANGED <<caller, abandoned, done, queue, item, running, submitted,
                   finished, rejected, history>>

Skip(w) ==
    /\ Step(w, "skip", "leave")
    /\ dropped' = dropped + 1
    /\ UNCHANGED <<caller, abandoned, done, queue, item, running, outstanding,
                   submitted, finished, rejected, history>>

Enter(w) ==
    /\ Step(w, "enter", "call")
    /\ running' = running + 1
    /\ UNCHANGED <<caller, abandoned, done, queue, item, outstanding, submitted,
                   finished, dropped, rejected, history>>

(* The tool's function runs and returns, or raises: both are recorded. *)
Call(w) ==
    /\ Step(w, "call", "exit")
    /\ ran' = ran \cup {item[w]}
    /\ UNCHANGED <<caller, abandoned, done, queue, item, stats, doomed>>

Exit(w) ==
    /\ Step(w, "exit", "leave")
    /\ running' = running - 1
    /\ finished' = finished + 1
    /\ dropped' = IF abandoned[item[w]] THEN dropped + 1 ELSE dropped
    /\ UNCHANGED <<caller, abandoned, done, queue, item, outstanding, submitted,
                   rejected, history>>

Leave(w) ==
    /\ Step(w, "leave", "signal")
    /\ outstanding' = outstanding - 1
    /\ UNCHANGED <<caller, abandoned, done, queue, item, running, submitted,
                   finished, dropped, rejected, history>>

Signal(w) ==
    /\ Step(w, "signal", "get")
    /\ done' = [done EXCEPT ![item[w]] = TRUE]
    /\ item' = [item EXCEPT ![w] = NoItem]
    /\ UNCHANGED <<caller, abandoned, queue, stats, history>>

Work(w) ==
    \/ Get(w) \/ Check(w) \/ Skip(w) \/ Enter(w) \/ Call(w) \/ Exit(w)
    \/ Leave(w) \/ Signal(w)

Next ==
    \/ \E i \in Items : Admit(i) \/ Put(i) \/ Observe(i) \/ Abandon(i)
    \/ \E w \in Workers : Work(w)

Spec == Init /\ [][Next]_vars

(* Threads are scheduled, tools return, and a polling coroutine polls. *)
Fairness ==
    /\ \A w \in Workers : WF_vars(Work(w))
    /\ \A i \in Items : WF_vars(Put(i)) /\ WF_vars(Observe(i))

FairSpec == Spec /\ Fairness

-----------------------------------------------------------------------------
Labels == {"get", "check", "skip", "enter", "call", "exit", "leave", "signal"}

TypeOK ==
    /\ caller \in [Items -> {"new", "putting", "waiting", "returned", "cancelled",
                             "rejected"}]
    /\ abandoned \in [Items -> BOOLEAN] /\ done \in [Items -> BOOLEAN]
    /\ queue \in Seq(Items)
    /\ pc \in [Workers -> Labels]
    /\ item \in [Workers -> Items \cup {NoItem}]
    /\ \A w \in Workers : pc[w] # "get" => item[w] \in Items
    /\ running \in Int /\ outstanding \in Int /\ submitted \in Int
    /\ finished \in Nat /\ dropped \in Nat /\ rejected \in Nat
    /\ ran \subseteq Items /\ doomed \subseteq Items

Putting == {i \in Items : caller[i] = "putting"}
Busy == {w \in Workers : pc[w] \notin {"get", "signal"}}
Running == {w \in Workers : pc[w] \in {"call", "exit"}}

(* _outstanding is exactly the work in the system: being queued, queued, or *)
(* held by a worker that has not given its slot back.                       *)
OutstandingIsExact ==
    outstanding = Cardinality(Putting) + Len(queue) + Cardinality(Busy)

(* Admission bounds the work in the system, so timed-out calls whose        *)
(* threads go on cannot pile up, and the queue, which is as large as the    *)
(* capacity, is never full for an admitted item.                            *)
CapacityHolds ==
    /\ outstanding <= Capacity
    /\ running = Cardinality(Running) /\ running <= MaxWorkers
    /\ Putting # {} => Len(queue) < Capacity

(* No slot is lost or given away twice, whoever abandons what. *)
SlotsAccounted == OutstandingIsExact /\ CapacityHolds

(* A caller that run() returns to has had its function called: a skipped    *)
(* item also sets its completed event, but its caller is gone.              *)
ReturnedMeansRan == \A i \in Items : caller[i] = "returned" => i \in ran

(* A call abandoned while it was still queued never starts. *)
AbandonedInQueueNeverRuns == doomed \cap ran = {}

(* The slot is given back before the caller learns of the completion, so a  *)
(* caller that submits again after each answer is not refused for its own   *)
(* previous call.                                                           *)
SlotFreedFirst ==
    \A i \in Items : done[i] =>
        \A w \in Workers : item[w] = i => pc[w] \notin Labels \ {"get", "signal"}

(* A caller of a synchronous tool is answered with what ran, an abandoned   *)
(* call is skipped or its result dropped, and the slots add up.             *)
SchedulerSound ==
    /\ TypeOK /\ SlotsAccounted
    /\ ReturnedMeansRan /\ AbandonedInQueueNeverRuns /\ SlotFreedFirst

(* Every caller gets its answer, unless it gave up. *)
Waiting == {i \in Items : caller[i] = "waiting"}
EveryCallerIsAnswered == \A i \in Items : (i \in Waiting) ~> (i \notin Waiting)
=============================================================================
