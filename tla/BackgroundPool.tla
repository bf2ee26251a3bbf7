---------------------------- MODULE BackgroundPool ----------------------------
(***************************************************************************)
(* observability/_background.py: coroutines hand blocking calls of         *)
(* observability adapters to a bounded pool of daemon threads.  One poller *)
(* task for each event loop settles the futures of finished calls.         *)
(* Coroutines and the poller share a thread: what they do between two      *)
(* awaits is one action.  Worker threads interleave with all of it.        *)
(***************************************************************************)
EXTENDS Integers, Sequences, FiniteSets, Functions

CONSTANTS
    Calls,        \* one _WorkItem for each call of run_in_daemon_thread
    Threads,      \* max_workers
    QueuedCalls,  \* max_queued_calls
    Outcomes,     \* how a function may end: "value", "error", "stop"
    Idle          \* what a thread without an item holds

ASSUME PoolAssumption ==
    /\ Outcomes \subseteq {"value", "error", "stop"}
    /\ QueuedCalls \in Nat
    /\ Idle \notin Calls

(* A future takes every error a function may raise: none is StopIteration,  *)
(* or Python is 3.12.                                                      *)
FuturesTakeErrors == "stop" \notin Outcomes

VARIABLES
    awaiter,     \* where each call of run_in_daemon_thread is
    forsaken,     \* item.abandoned
    completed,   \* item.completed
    outcome,     \* item.value or item.error
    backlog,     \* _queue
    thread,      \* where each worker is in _worker
    held,        \* its item
    poller,      \* _LoopCompletionPoller._run: scan, wait, sleep, or ended
    entries,     \* _entries of the present poller
    wake,        \* _wake
    future,      \* the futures register() returned
    skipped      \* history: calls abandoned while they were in the queue

pollerVars == <<poller, entries, wake>>
threadVars == <<completed, outcome, thread, held>>
poolVars == <<awaiter, forsaken, backlog, future, skipped, threadVars, pollerVars>>

PoolInit ==
    /\ awaiter = [c \in Calls |-> "new"]
    /\ forsaken = [c \in Calls |-> FALSE]
    /\ completed = [c \in Calls |-> FALSE]
    /\ outcome = [c \in Calls |-> "none"]
    /\ backlog = <<>>
    /\ thread = [t \in Threads |-> "get"]
    /\ held = [t \in Threads |-> Idle]
    /\ poller = "ended" /\ entries = {} /\ wake = FALSE
    /\ future = [c \in Calls |-> "none"]
    /\ skipped = {}

Queued == Range(backlog)

-----------------------------------------------------------------------------
(* run_in_daemon_thread up to its await: the loop's poller, or a new one if *)
(* there is none alive, registers the item before the queue gets it.  A     *)
(* full queue undoes the registration.                                      *)
Submit(c) ==
    /\ awaiter[c] = "new"
    /\ poller' = IF poller = "ended" THEN "scan" ELSE poller
    /\ wake' = TRUE
    /\ LET mine == IF poller = "ended" THEN {} ELSE entries IN
       IF Len(backlog) < QueuedCalls
       THEN /\ backlog' = Append(backlog, c)
            /\ entries' = mine \cup {c}
            /\ future' = [future EXCEPT ![c] = "pending"]
            /\ awaiter' = [awaiter EXCEPT ![c] = "waiting"]
            /\ UNCHANGED forsaken
       ELSE /\ entries' = mine
            /\ forsaken' = [forsaken EXCEPT ![c] = TRUE]
            /\ awaiter' = [awaiter EXCEPT ![c] = "refused"]
            /\ UNCHANGED <<backlog, future>>
    /\ UNCHANGED <<skipped, threadVars>>

(* The awaiting coroutine is resumed by its future. *)
Resume(c) ==
    /\ awaiter[c] = "waiting" /\ future[c] \in {"value", "error"}
    /\ awaiter' = [awaiter EXCEPT ![c] = IF future[c] = "value" THEN "returned" ELSE "raised"]
    /\ forsaken' = [forsaken EXCEPT ![c] = future[c] = "error"]
    /\ entries' = IF future[c] = "error" THEN entries \ {c} ELSE entries
    /\ UNCHANGED <<completed, outcome, backlog, thread, held, poller, wake, future, skipped>>

(* The awaiter is cancelled, by a timeout, or because its future was. *)
Cancel(c) ==
    /\ awaiter[c] = "waiting"
    /\ awaiter' = [awaiter EXCEPT ![c] = "cancelled"]
    /\ future' = [future EXCEPT ![c] = IF @ = "pending" THEN "cancelled" ELSE @]
    /\ forsaken' = [forsaken EXCEPT ![c] = TRUE]
    /\ entries' = entries \ {c}
    /\ skipped' = IF c \in Queued THEN skipped \cup {c} ELSE skipped
    /\ UNCHANGED <<backlog, poller, wake, threadVars>>

-----------------------------------------------------------------------------
(* _worker: an abandoned item is skipped, and completed all the same. *)
GetItem(t) ==
    /\ thread[t] = "get" /\ backlog # <<>>
    /\ held' = [held EXCEPT ![t] = Head(backlog)]
    /\ backlog' = Tail(backlog)
    /\ thread' = [thread EXCEPT ![t] = "check"]
    /\ UNCHANGED <<awaiter, forsaken, completed, outcome, pollerVars, future, skipped>>

CheckItem(t) ==
    /\ thread[t] = "check"
    /\ thread' = [thread EXCEPT ![t] = IF forsaken[held[t]] THEN "finish" ELSE "call"]
    /\ UNCHANGED <<awaiter, forsaken, completed, outcome, backlog, held, pollerVars, future,
                   skipped>>

CallItem(t) ==
    /\ thread[t] = "call"
    /\ \E o \in Outcomes : outcome' = [outcome EXCEPT ![held[t]] = o]
    /\ thread' = [thread EXCEPT ![t] = "finish"]
    /\ UNCHANGED <<awaiter, forsaken, completed, backlog, held, pollerVars, future, skipped>>

Finish(t) ==
    /\ thread[t] = "finish"
    /\ completed' = [completed EXCEPT ![held[t]] = TRUE]
    /\ held' = [held EXCEPT ![t] = Idle]
    /\ thread' = [thread EXCEPT ![t] = "get"]
    /\ UNCHANGED <<awaiter, forsaken, outcome, backlog, pollerVars, future, skipped>>

ThreadStep(t) == GetItem(t) \/ CheckItem(t) \/ CallItem(t) \/ Finish(t)

-----------------------------------------------------------------------------
(* The poller.  Its task waits for an entry, settles the completed ones in *)
(* one go, and sleeps while others are left.                               *)
Ready == {c \in entries : completed[c]}

(* A future that is already done is left alone. *)
Settled(S) ==
    [c \in Calls |-> IF c \in S /\ future[c] = "pending" THEN outcome[c] ELSE future[c]]

(* asyncio refuses StopIteration as the exception of a future (Python      *)
(* before 3.12): set_exception raises in the poller, which ends with what  *)
(* it has settled so far.                                                  *)
Poisoned == {c \in Ready : outcome[c] = "stop" /\ future[c] = "pending"}

Scan ==
    /\ poller = "scan" /\ entries # {}
    /\ \/ /\ Poisoned = {}
          /\ future' = Settled(Ready)
          /\ entries' = entries \ Ready
          /\ poller' = IF entries = Ready THEN "scan" ELSE "sleep"
       \/ \E p \in Poisoned, S \in SUBSET (Ready \ Poisoned) :
            /\ future' = Settled(S)
            /\ entries' = entries \ (S \cup {p})
            /\ poller' = "ended"
    /\ UNCHANGED <<awaiter, forsaken, backlog, skipped, threadVars, wake>>

(* No entries: clear the event, look again, wait. *)
Wait ==
    /\ poller = "scan" /\ entries = {}
    /\ wake' = FALSE
    /\ poller' = "wait"
    /\ UNCHANGED <<awaiter, forsaken, backlog, skipped, threadVars, future, entries>>

Wake ==
    /\ \/ poller = "wait" /\ wake
       \/ poller = "sleep"
    /\ poller' = "scan"
    /\ UNCHANGED <<awaiter, forsaken, backlog, skipped, threadVars, future, entries, wake>>

(* Mutant: a cancelled poller leaves its futures pending. *)
StopPollerQuietly ==
    /\ poller \in {"wait", "sleep"}
    /\ poller' = "ended" /\ entries' = {}
    /\ UNCHANGED <<awaiter, forsaken, backlog, skipped, threadVars, future, wake>>

(* The poller's task is cancelled at one of its awaits, as a loop that is  *)
(* shut down cancels all tasks: every future left is cancelled.            *)
StopPoller ==
    /\ poller \in {"wait", "sleep"}
    /\ future' = [c \in Calls |-> IF c \in entries /\ future[c] = "pending"
                                  THEN "cancelled" ELSE future[c]]
    /\ entries' = {}
    /\ poller' = "ended"
    /\ UNCHANGED <<awaiter, forsaken, backlog, skipped, threadVars, wake>>

(* A future that the poller cancelled wakes its awaiter with CancelledError. *)
FutureCancelled(c) == future[c] = "cancelled" /\ Cancel(c)

PoolNext ==
    \/ \E c \in Calls : Submit(c) \/ Resume(c) \/ Cancel(c)
    \/ \E t \in Threads : ThreadStep(t)
    \/ Scan \/ Wait \/ Wake \/ StopPoller

PoolSpec == PoolInit /\ [][PoolNext]_poolVars

(* Threads are scheduled and functions return; the loop runs what is ready. *)
PoolFairness ==
    /\ \A t \in Threads : WF_poolVars(ThreadStep(t))
    /\ WF_poolVars(Scan) /\ WF_poolVars(Wait) /\ WF_poolVars(Wake)
    /\ \A c \in Calls : WF_poolVars(Resume(c)) /\ WF_poolVars(FutureCancelled(c))

PoolFairSpec == PoolSpec /\ PoolFairness

-----------------------------------------------------------------------------
PoolTypeOK ==
    /\ awaiter \in [Calls -> {"new", "waiting", "returned", "raised", "cancelled", "refused"}]
    /\ forsaken \in [Calls -> BOOLEAN] /\ completed \in [Calls -> BOOLEAN]
    /\ outcome \in [Calls -> Outcomes \cup {"none"}]
    /\ backlog \in Seq(Calls) /\ Len(backlog) <= QueuedCalls
    /\ thread \in [Threads -> {"get", "check", "call", "finish"}]
    /\ held \in [Threads -> Calls \cup {Idle}]
    /\ poller \in {"scan", "wait", "sleep", "ended"}
    /\ entries \subseteq Calls /\ wake \in BOOLEAN
    /\ future \in [Calls -> {"none", "pending", "cancelled"} \cup Outcomes]
    /\ skipped \subseteq Calls

(* A coroutine that waits is known to a poller that lives, and a poller    *)
(* that waits for entries is about to be woken if it has some.             *)
WaitersAreWatched ==
    /\ \A c \in Calls : awaiter[c] = "waiting" /\ future[c] = "pending" =>
          c \in entries /\ poller # "ended"
    /\ poller = "wait" /\ entries # {} => wake

(* What a coroutine gets is the outcome of its own call, which ran. *)
AnswersAreOutcomes ==
    \A c \in Calls :
        /\ awaiter[c] = "returned" => outcome[c] = "value"
        /\ awaiter[c] = "raised" => outcome[c] = "error"

(* A call abandoned in the queue is skipped, and no thread is lost to it. *)
AbandonedIsSkipped == \A c \in skipped : outcome[c] = "none"

PoolSound == PoolTypeOK /\ WaitersAreWatched /\ AnswersAreOutcomes /\ AbandonedIsSkipped

(* "Observability must never keep an Agent run waiting": when functions    *)
(* return, every coroutine does.                                           *)
AwaitersWaiting == {c \in Calls : awaiter[c] = "waiting"}
EveryAwaiterEnds == \A c \in Calls : (c \in AwaitersWaiting) ~> (c \notin AwaitersWaiting)
=============================================================================
