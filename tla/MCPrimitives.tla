----------------------------- MODULE MCPrimitives -----------------------------
(***************************************************************************)
(* Where calls wait for each other or for threads: the scheduler of        *)
(* synchronous tools, the background pool, the session locks, a batch of   *)
(* tool calls with its retries, and the runs of a delegation tree.  The    *)
(* parts share nothing here: a behaviour exercises the one that `part`     *)
(* names and the others rest.                                              *)
(***************************************************************************)
EXTENDS SyncToolScheduler, SessionLocks, BackgroundPool, ToolRuntime, DelegationAccess

VARIABLE part

CONSTANTS i1, i2, i3, w1, w2, r1, r2, r3, r4, s1, s2, l1, l2, l3, q1, q2, bad

MCItems == {i1, i2, i3}
MCWorkers == {w1, w2}
MCThreads == {w1}
MCRuns == {r1, r2, r3, r4}
MCSessions == {s1, s2}
MCLocks == {l1, l2, l3}
MCSessionOf == [r \in MCRuns |-> IF r = r4 THEN s2 ELSE s1]

MCCalls == {q1, q2}
MCAltered == {q2}

(* A batch of two calls: one asks for arguments the runtime normalises or *)
(* refuses, and the tools are safe to retry, to repair, or neither.       *)
MCEffective == [x \in {"a", "d", "c"} |-> IF x = "c" THEN bad ELSE IF x = "d" THEN "f" ELSE "e"]
MCProfile(r, p, t) == [retry |-> r, repair |-> p, timeout |-> t]
MCProfiles == {MCProfile(FALSE, FALSE, FALSE), MCProfile(TRUE, FALSE, FALSE),
               MCProfile(TRUE, TRUE, TRUE)}

(* Three agents, two of which call each other, by tools that share the     *)
(* session of the caller, keep one per parent, or open a new one.          *)
MCAgents == {"a", "b", "c"}
MCEdges == {<<"a", "b">>, <<"b", "a">>, <<"b", "c">>, <<"c", "b">>}
MCCallableBy == [x \in {"a", "b", "c"} |-> IF x = "b" THEN {"a"} ELSE {}]
MCTool(x, y, s) == [caller |-> x, callee |-> y, strategy |-> s]
MCTools == {MCTool("a", "b", "shared"), MCTool("b", "a", "shared"),
            MCTool("a", "b", "per_parent_session"), MCTool("b", "c", "isolated"),
            MCTool("a", "c", "isolated"), MCTool("c", "b", "isolated")}

(* Each of those who may wait; only those of one part do. *)
MCOnes == {{i1, r1, q1, 1}, {i2, r2, q2, 2}, {i3, r3, 3}, {r4, 4}}

allVars == <<part, vars, poolVars, lockVars, batchVars, accessVars>>

(* A batch that rests is one that is over; the other parts rest at their   *)
(* start.  A part that rests has no step that fairness speaks of.          *)
BatchRests ==
    /\ policy = [calls |-> {}, parallel |-> FALSE, repair |-> NoConstraint,
                 profile |-> [c \in BatchCalls |-> MCProfile(FALSE, FALSE, FALSE)]]
    /\ asked = [c \in BatchCalls |-> "a"]
    /\ stage = [c \in BatchCalls |-> "done"] /\ attempts = [c \in BatchCalls |-> 0]
    /\ answer = [c \in BatchCalls |-> "pending"] /\ batch = "done"
    /\ live = [c \in BatchCalls |-> 0] /\ invoked = live /\ late = live
AccessRests ==
    /\ registry = [a \in Agents |-> [status |-> "approved", approved |-> TRUE]]
    /\ tree = <<>> /\ calls = {} /\ changes = 0

MCInit ==
    /\ part \in {"scheduler", "pool", "locks", "batch", "tree"}
    /\ Init /\ PoolInit /\ LockInit
    /\ IF part = "batch" THEN BatchInit ELSE BatchRests
    /\ IF part = "tree" THEN AccessInit ELSE AccessRests

(* The fairness of each part, asked of the part that is exercised. *)
PartsFair ==
    /\ \A w \in MCWorkers : WF_vars(part = "scheduler" /\ Work(w))
    /\ \A i \in MCItems :
          /\ WF_vars(part = "scheduler" /\ Put(i))
          /\ WF_vars(part = "scheduler" /\ Observe(i))
          /\ WF_poolVars(part = "pool" /\ Resume(i))
          /\ WF_poolVars(part = "pool" /\ FutureCancelled(i))
    /\ WF_poolVars(part = "pool" /\ ThreadStep(w1))
    /\ WF_poolVars(part = "pool" /\ Scan)
    /\ WF_poolVars(part = "pool" /\ Wait)
    /\ WF_poolVars(part = "pool" /\ Wake)
    /\ \A r \in MCRuns :
          /\ WF_lockVars(part = "locks" /\ Acquire(r))
          /\ WF_lockVars(part = "locks" /\ LeaveSession(r))
    /\ WF_batchVars(part = "batch" /\ Begin)
    /\ WF_batchVars(part = "batch" /\ Complete)
    /\ \A c \in BatchCalls : WF_batchVars(part = "batch" /\ CallStep(c))
    /\ \A r \in 1..4 : WF_accessVars(part = "tree" /\ r \in DOMAIN tree /\ RunStep(r))

MCNext ==
    /\ UNCHANGED part
    /\ \/ part = "scheduler" /\ Next
          /\ UNCHANGED <<poolVars, lockVars, batchVars, accessVars>>
       \/ part = "pool" /\ PoolNext
          /\ UNCHANGED <<vars, lockVars, batchVars, accessVars>>
       \/ part = "locks" /\ LockNext
          /\ UNCHANGED <<vars, poolVars, batchVars, accessVars>>
       \/ part = "batch" /\ BatchNext
          /\ UNCHANGED <<vars, poolVars, lockVars, accessVars>>
       \/ part = "tree" /\ AccessNext
          /\ UNCHANGED <<vars, poolVars, lockVars, batchVars>>

MCSpec ==
    /\ MCInit /\ [][MCNext]_allVars
    /\ PartsFair

(* Nobody waits for ever: callers of the scheduler, coroutines awaiting an  *)
(* observability call, runs queued behind others of their session, batches  *)
(* of tools, and the trees of delegations whose sessions wait in a circle.  *)
EveryoneIsAnswered ==
    LET all == Waiting \cup AwaitersWaiting \cup RunsWaiting \cup CallsWaiting \cup TreeWaiting
    IN  \A one \in MCOnes : (one \cap all # {}) ~> (one \cap all = {})
====
