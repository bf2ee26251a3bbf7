--------------------------- MODULE DelegationAccess ---------------------------
(* Who may run whom: the tree of runs that delegations build, the registry of *)
(* Agent definitions that operators promote, retire and rebind meanwhile, the *)
(* authorization of every edge, the guard against cycles and depth, and the   *)
(* conversation session each child runs in.  A run holds the lock of its      *)
(* session in its Agent's runtime (module SessionLocks) while its children    *)
(* run.  Receipts and budget are the subject of module Delegation.            *)
EXTENDS Integers, Sequences, FiniteSets, FiniteSetsExt, SequencesExt

CONSTANTS Agents,        \* AgentRefs
          Edges,         \* pairs the authorizer allows
          CallableBy,    \* Agents -> callers its definition admits, {} for all
          Tools,         \* delegation tools: [caller, callee, strategy]
          Tenants,
          Admitted,      \* tenants the authorizer admits
          SessionIds,    \* conversations the application starts runs in
          MaxDepth,      \* limit of the execution group
          MaxRuns,       \* bound: runs
          MaxRoots,      \* bound: runs the application starts
          MaxCalls,      \* bound: delegations of one run
          MaxChanges     \* bound: changes of the registry

ASSUME AccessAssumption ==
    /\ Tools \subseteq [caller : Agents, callee : Agents,
                        strategy : {"isolated", "per_parent_session", "shared"}]
    /\ MaxDepth \in Nat

VARIABLES registry,      \* Agents -> [status, approved]
          tree,          \* runs, in the order they were accepted
          calls,         \* delegations under way
          changes

accessVars == <<registry, tree, calls, changes>>

Lifecycle == <<"draft", "reviewed", "approved", "staged", "active", "deprecated", "retired">>
Runnable == {"approved", "active"}
Strategies == {"isolated", "per_parent_session", "shared"}
Fit(entry) == entry.status \in Runnable /\ entry.approved

AccessInit ==
    /\ registry \in [Agents -> [status : {"approved", "staged"}, approved : {TRUE}]]
    /\ tree = <<>>
    /\ calls = {}
    /\ changes = 0

-----------------------------------------------------------------------------
(* The operators of the registry.  A delegation under way keeps the entry it  *)
(* resolved; `fit` remembers whether the callee was fit to run at any moment  *)
(* since the delegation began.                                                *)
Change(a, entry) ==
    /\ changes < MaxChanges
    /\ changes' = changes + 1
    /\ registry' = [registry EXCEPT ![a] = entry]
    /\ calls' = {[c EXCEPT !.fit = @ \/ (c.tool.callee = a /\ Fit(entry))] : c \in calls}
    /\ UNCHANGED tree

Transition(a) ==
    \E i \in 1..(Len(Lifecycle) - 1) :
        /\ registry[a].status = Lifecycle[i]
        /\ Change(a, [registry[a] EXCEPT !.status = Lifecycle[i + 1]])

RebindEndpoint(a) == Change(a, [registry[a] EXCEPT !.approved = ~@])

-----------------------------------------------------------------------------
(* A run queues for the lock of its session in its Agent's runtime and the    *)
(* longest waiting one takes it.                                              *)
SameLock(r, q) == tree[r].agent = tree[q].agent /\ tree[r].session = tree[q].session

StartRun(run) == /\ Len(tree) < MaxRuns
                 /\ tree' = Append(tree, run)

StartRoot ==
    \E a \in Agents, t \in Tenants, s \in SessionIds :
        /\ Cardinality({r \in DOMAIN tree : tree[r].parent = 0}) < MaxRoots
        /\ StartRun([agent |-> a, tenant |-> t, path |-> <<a>>, session |-> <<s, t>>,
                     parent |-> 0, call |-> 0, fit |-> TRUE, strategy |-> "root",
                     state |-> "queued", made |-> 0])
        /\ UNCHANGED <<registry, calls, changes>>

AcquireSession(r) ==
    /\ tree[r].state = "queued"
    /\ \A q \in DOMAIN tree \ {r} :
           SameLock(q, r) => /\ tree[q].state # "running"
                             /\ (q < r => tree[q].state # "queued")
    /\ tree' = [tree EXCEPT ![r].state = "running"]
    /\ UNCHANGED <<registry, calls, changes>>

Children(r) == {q \in DOMAIN tree : tree[q].parent = r /\ tree[q].state # "over"}
CallsOf(r) == {c \in calls : c.run = r}

EndRun(r) ==
    /\ tree' = [tree EXCEPT ![r].state = "over"]
    /\ calls' = {c \in calls : /\ c.run # r
                                /\ ~(c.run = tree[r].parent /\ c.id = tree[r].call)}
    /\ UNCHANGED <<registry, changes>>

(* The tools of a batch are awaited before the run goes on to its end. *)
FinishRun(r) == tree[r].state = "running" /\ CallsOf(r) = {} /\ EndRun(r)

(* The deadline of the group cancels the child of a delegation, wherever it   *)
(* waits; the cancelled delegations of that child end theirs first.           *)
Expire(r) == /\ tree[r].parent # 0
             /\ tree[r].state # "over"
             /\ Children(r) = {}
             /\ EndRun(r)

-----------------------------------------------------------------------------
(* DelegationCoordinator.delegate: resolve and describe the pinned callee, in *)
(* two reads of the registry, authorize the edge, guard the path, and invoke  *)
(* the endpoint that was resolved.                                            *)
Delegate(r, tool) ==
    /\ tree[r].state = "running"
    /\ tool.caller = tree[r].agent
    /\ tree[r].made < MaxCalls
    /\ tree' = [tree EXCEPT ![r].made = @ + 1]
    /\ calls' = calls \cup {[run |-> r, id |-> tree[r].made + 1, tool |-> tool,
                             stage |-> "asked", entry |-> registry[tool.callee],
                             fit |-> Fit(registry[tool.callee])]}
    /\ UNCHANGED <<registry, changes>>

To(c, next) == calls' = (calls \ {c}) \cup {next}
Reject(c) == calls' = calls \ {c}

Resolve(c) ==
    /\ c.stage = "asked"
    /\ LET entry == registry[c.tool.callee]
       IN IF entry.status \in Runnable
          THEN To(c, [c EXCEPT !.stage = "resolved", !.entry = entry])
          ELSE Reject(c)
    /\ UNCHANGED <<registry, tree, changes>>

Describe(c) ==
    /\ c.stage = "resolved"
    /\ IF /\ registry[c.tool.callee].status = c.entry.status
          /\ c.entry.approved
       THEN To(c, [c EXCEPT !.stage = "described"])
       ELSE Reject(c)
    /\ UNCHANGED <<registry, tree, changes>>

Authorized(caller, callee, tenant) ==
    /\ <<caller, callee>> \in Edges
    /\ tenant \in Admitted
    /\ CallableBy[callee] = {} \/ caller \in CallableBy[callee]

(* Mutant: the guard looks at the caller only, not along the whole path. *)
PathOpenToParent(path, callee) == callee # path[Len(path)] /\ Len(path) <= MaxDepth

(* CycleGuard *)
PathOpen(path, callee) == callee \notin Range(path) /\ Len(path) <= MaxDepth

AuthorizeEdge(c) ==
    /\ c.stage = "described"
    /\ IF /\ Authorized(c.tool.caller, c.tool.callee, tree[c.run].tenant)
          /\ PathOpen(tree[c.run].path, c.tool.callee)
       THEN To(c, [c EXCEPT !.stage = "authorized"])
       ELSE Reject(c)
    /\ UNCHANGED <<registry, tree, changes>>

(* SessionKeyFactory: an HMAC is the tuple of what it is taken over.          *)
SessionFor(c) ==
    LET parent == tree[c.run]
    IN CASE c.tool.strategy = "shared" -> parent.session
         [] c.tool.strategy = "isolated" ->
              <<parent.tenant, c.tool.callee, "isolated", c.run, c.id>>
         [] OTHER -> <<parent.tenant, c.tool.callee, "parent", parent.session>>

InvokeEndpoint(c) ==
    /\ c.stage = "authorized"
    /\ IF c.tool.strategy # "shared" /\ SessionFor(c) = tree[c.run].session
       THEN Reject(c) /\ UNCHANGED tree
       ELSE /\ StartRun([agent |-> c.tool.callee, tenant |-> tree[c.run].tenant,
                         path |-> Append(tree[c.run].path, c.tool.callee),
                         session |-> SessionFor(c), parent |-> c.run, call |-> c.id,
                         fit |-> c.fit, strategy |-> c.tool.strategy,
                         state |-> "queued", made |-> 0])
            /\ To(c, [c EXCEPT !.stage = "invoked"])
    /\ UNCHANGED <<registry, changes>>

(* A delegation that cannot start because of the bound on runs fails. *)
OutOfRuns(c) == /\ c.stage = "authorized" /\ Len(tree) = MaxRuns
                /\ Reject(c) /\ UNCHANGED <<registry, tree, changes>>

CallAdvances(c) == Resolve(c) \/ Describe(c) \/ AuthorizeEdge(c) \/ InvokeEndpoint(c) \/ OutOfRuns(c)

AccessNext ==
    \/ \E a \in Agents : Transition(a) \/ RebindEndpoint(a)
    \/ StartRoot
    \/ \E r \in DOMAIN tree : \/ AcquireSession(r) \/ FinishRun(r) \/ Expire(r)
                              \/ \E tool \in Tools : Delegate(r, tool)
    \/ \E c \in calls : CallAdvances(c)

(* Each run goes on, by itself, by one of its calls, or to its deadline. *)
RunStep(r) == \/ AcquireSession(r) \/ FinishRun(r) \/ Expire(r)
              \/ \E c \in CallsOf(r) : CallAdvances(c)

AccessFairness == \A r \in 1..MaxRuns : WF_accessVars(r \in DOMAIN tree /\ RunStep(r))

AccessSpec == AccessInit /\ [][AccessNext]_accessVars
AccessFairSpec == AccessSpec /\ AccessFairness

-----------------------------------------------------------------------------
(* However long a delegation waits, its child was fit to run, definition and  *)
(* endpoint together, at some moment since the call; it is reached by allowed *)
(* edges only, on a path without a cycle, for the tenant of its parent.       *)
ChildrenAreAllowed ==
    \A r \in DOMAIN tree : tree[r].parent # 0 =>
        LET path == tree[r].path
        IN /\ tree[r].fit
           /\ \A i \in 1..(Len(path) - 1) :
                 /\ <<path[i], path[i + 1]>> \in Edges
                 /\ CallableBy[path[i + 1]] = {} \/ path[i] \in CallableBy[path[i + 1]]
           /\ Cardinality(Range(path)) = Len(path)
           /\ Len(path) <= MaxDepth + 1
           /\ tree[r].tenant = tree[tree[r].parent].tenant
           /\ tree[r].tenant \in Admitted

(* Two runs in one session belong to one tenant, and unless a shared strategy *)
(* joined them they are runs of one Agent.  No two running runs of an Agent   *)
(* are in the same session.                                                   *)
SessionsApart ==
    \A r, q \in DOMAIN tree : r # q /\ tree[r].session = tree[q].session =>
        /\ tree[r].tenant = tree[q].tenant
        /\ \/ tree[r].agent = tree[q].agent
           \/ "shared" \in {tree[r].strategy, tree[q].strategy}
           \/ tree[r].parent = 0 /\ tree[q].parent = 0
        /\ ~(tree[r].agent = tree[q].agent /\ {tree[r].state, tree[q].state} = {"running"})

AccessTypeOK ==
    /\ \A r \in DOMAIN tree : tree[r].parent \in 0..(r - 1)
    /\ \A c \in calls : c.run \in DOMAIN tree /\ tree[c.run].state # "over"

(* Whatever the registry does while delegations wait: children run where    *)
(* their edges, their tenant and the registry allow, on paths without a     *)
(* cycle (CycleGuard), each in a session that is its own or shared as its   *)
(* strategy says (SessionKeyFactory).                                       *)
AccessSound == AccessTypeOK /\ ChildrenAreAllowed /\ SessionsApart

(* Two shared sessions may wait for each other across two trees; the deadline *)
(* of the delegations ends the wait, so every run ends.                       *)
TreeWaiting == {r \in DOMAIN tree : tree[r].state # "over"}
TreesEnd == \A r \in 1..MaxRuns : (r \in TreeWaiting) ~> (r \notin TreeWaiting)
=============================================================================
