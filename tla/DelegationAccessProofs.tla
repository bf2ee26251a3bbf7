----------------------- MODULE DelegationAccessProofs -----------------------
(***************************************************************************)
(* Proofs about DelegationAccess, for any agents, edges, tools, tenants    *)
(* and limits: who may run whom, and in which session, whatever becomes of *)
(* the registry and of the other trees meanwhile.                          *)
(***************************************************************************)
EXTENDS DelegationAccess, FiniteSetTheorems, SequenceTheorems, TLAPS

(* What a run is does not change once it has started, but for its state     *)
(* and the number of its delegations.                                       *)

Statuses == {Lifecycle[i] : i \in 1..Len(Lifecycle)}
Entries == [status : Statuses, approved : BOOLEAN]
CallStages == {"asked", "resolved", "described", "authorized", "invoked"}
CallRecords == [run : Nat, id : Nat, tool : Tools, stage : CallStages, entry : Entries,
                fit : BOOLEAN]
RunStates == {"queued", "running", "over"}
RunsIn(session) ==
    [agent : Agents, tenant : Tenants, path : Seq(Agents), session : {session}, parent : Nat,
     call : Nat, fit : BOOLEAN, strategy : Strategies \cup {"root"}, state : RunStates,
     made : Nat]

TreeTyped ==
    /\ tree \in Seq(Range(tree))
    /\ \A r \in DOMAIN tree : tree[r] \in RunsIn(tree[r].session)

(* The tenant that a session key names. *)
TenantOf(key) == IF DOMAIN key = 1..2 THEN key[2] ELSE key[1]

(* A run's path ends with its agent, follows allowed edges and has no agent *)
(* twice; its session key names its tenant, and its agent unless the key is *)
(* the parent's.                                                            *)
PathAllowed(path) ==
    /\ Len(path) >= 1 /\ Len(path) <= MaxDepth + 1
    /\ \A i \in 1..(Len(path) - 1) :
          /\ <<path[i], path[i + 1]>> \in Edges
          /\ CallableBy[path[i + 1]] = {} \/ path[i] \in CallableBy[path[i + 1]]
    /\ \A i, j \in 1..Len(path) : path[i] = path[j] => i = j

RunKnown(r) ==
    /\ PathAllowed(tree[r].path)
    /\ tree[r].path[Len(tree[r].path)] = tree[r].agent
    /\ tree[r].parent \in 0..(r - 1)
    /\ tree[r].parent = 0 <=> tree[r].strategy = "root"
    /\ tree[r].parent # 0 =>
          /\ tree[r].fit
          /\ tree[r].tenant \in Admitted
          /\ tree[r].tenant = tree[tree[r].parent].tenant
    /\ TenantOf(tree[r].session) = tree[r].tenant
    /\ tree[r].strategy = "root" => DOMAIN tree[r].session = 1..2
    /\ tree[r].strategy \in {"isolated", "per_parent_session"} =>
          DOMAIN tree[r].session # 1..2 /\ tree[r].session[2] = tree[r].agent

LocksHeldOnce ==
    \A r, q \in DOMAIN tree :
        r # q /\ SameLock(r, q) => ~(tree[r].state = "running" /\ tree[q].state = "running")

(* What a delegation under way has found out. *)
DelegationKnown(c) ==
    /\ c \in CallRecords
    /\ c.run \in DOMAIN tree /\ tree[c.run].state # "over"
    /\ c.tool.caller = tree[c.run].agent
    /\ Fit(registry[c.tool.callee]) => c.fit
    /\ c.stage # "asked" => c.entry.status \in Runnable
    /\ c.stage # "asked" /\ c.entry.approved => c.fit
    /\ c.stage \in {"described", "authorized"} => c.fit
    /\ c.stage = "authorized" =>
          /\ Authorized(c.tool.caller, c.tool.callee, tree[c.run].tenant)
          /\ PathOpen(tree[c.run].path, c.tool.callee)

AccessInv ==
    /\ registry \in [Agents -> Entries]
    /\ TreeTyped
    /\ \A r \in DOMAIN tree : RunKnown(r)
    /\ LocksHeldOnce
    /\ \A c \in calls : DelegationKnown(c)

-----------------------------------------------------------------------------
(* What a step may not change of a run. *)
SameRun(new, old) ==
    /\ new.agent = old.agent /\ new.tenant = old.tenant /\ new.path = old.path
    /\ new.session = old.session /\ new.parent = old.parent /\ new.call = old.call
    /\ new.fit = old.fit /\ new.strategy = old.strategy

RunsKept(grown) ==
    /\ DOMAIN tree \subseteq DOMAIN grown
    /\ \A q \in DOMAIN tree : SameRun(grown[q], tree[q])

LEMMA FunctionIsSeq ==
    ASSUME NEW S, NEW n \in Nat, NEW f \in [1..n -> S]
    PROVE  f \in Seq(S)
  BY SeqDef

LEMMA TreeFacts ==
    ASSUME TreeTyped
    PROVE  /\ Len(tree) \in Nat /\ DOMAIN tree = 1..Len(tree)
           /\ tree \in [1..Len(tree) -> Range(tree)]
  BY LenProperties DEF TreeTyped

LEMMA RunReplaced ==
    ASSUME TreeTyped, NEW r \in DOMAIN tree, NEW new \in RunsIn(tree[r].session),
           SameRun(new, tree[r]), tree' = [tree EXCEPT ![r] = new]
    PROVE  /\ TreeTyped' /\ RunsKept(tree') /\ DOMAIN tree' = DOMAIN tree
           /\ tree'[r] = new
           /\ \A q \in DOMAIN tree \ {r} : tree'[q] = tree[q]
  <1>1. /\ DOMAIN tree' = DOMAIN tree /\ tree'[r] = new
        /\ \A q \in DOMAIN tree \ {r} : tree'[q] = tree[q]
    BY TreeFacts
  <1>2. RunsKept(tree')
    BY <1>1 DEF RunsKept, SameRun
  <1>3. tree' \in Seq(Range(tree'))
    <2>1. tree' \in [1..Len(tree) -> Range(tree')]
      BY <1>1, TreeFacts DEF Range
    <2> QED
      BY <2>1, TreeFacts, FunctionIsSeq
  <1>4. \A q \in DOMAIN tree' : tree'[q] \in RunsIn(tree'[q].session)
    BY <1>1 DEF TreeTyped, SameRun
  <1> QED
    BY <1>1, <1>2, <1>3, <1>4 DEF TreeTyped

LEMMA RunAdded ==
    ASSUME TreeTyped, NEW run, run \in RunsIn(run.session), tree' = Append(tree, run)
    PROVE  /\ TreeTyped' /\ RunsKept(tree')
           /\ DOMAIN tree' = 1..(Len(tree) + 1)
           /\ \A q \in DOMAIN tree : tree'[q] = tree[q]
           /\ tree'[Len(tree) + 1] = run
  <1> DEFINE S == Range(tree) \cup {run}
  <1>1. tree \in Seq(S)
    BY SeqMonotonic DEF TreeTyped
  <1>2. /\ tree' \in Seq(S) /\ Len(tree') = Len(tree) + 1
        /\ \A i \in 1..Len(tree) : tree'[i] = tree[i]
        /\ tree'[Len(tree) + 1] = run
    BY <1>1, AppendProperties
  <1>3. /\ DOMAIN tree' = 1..(Len(tree) + 1) /\ Len(tree') \in Nat
        /\ tree' \in [1..Len(tree') -> S]
    BY <1>2, LenProperties
  <1>4. tree' \in Seq(Range(tree'))
    <2>1. tree' \in [1..Len(tree') -> Range(tree')]
      BY <1>2, <1>3 DEF Range
    <2> QED
      BY <2>1, <1>3, FunctionIsSeq
  <1>5. \A q \in DOMAIN tree' : tree'[q] \in RunsIn(tree'[q].session)
    BY <1>2, <1>3, TreeFacts DEF TreeTyped
  <1>6. RunsKept(tree')
    BY <1>2, <1>3, TreeFacts DEF RunsKept, SameRun
  <1> QED
    BY <1>2, <1>3, <1>4, <1>5, <1>6, TreeFacts DEF TreeTyped

LEMMA KnownRunsStay ==
    ASSUME TreeTyped, RunsKept(tree'), NEW r \in DOMAIN tree, RunKnown(r)
    PROVE  RunKnown(r)'
  <1>1. SameRun(tree'[r], tree[r])
    BY DEF RunsKept
  <1>2. tree[r].parent # 0 => SameRun(tree'[tree[r].parent], tree[tree[r].parent])
    BY TreeFacts DEF RunsKept, RunKnown
  <1> QED
    BY <1>1, <1>2 DEF RunKnown, SameRun

LEMMA KnownCallsStay ==
    ASSUME TreeTyped, RunsKept(tree'), registry' = registry, NEW c, DelegationKnown(c),
           tree'[c.run].state # "over"
    PROVE  DelegationKnown(c)'
  <1>1. c.run \in DOMAIN tree' /\ SameRun(tree'[c.run], tree[c.run])
    BY DEF RunsKept, DelegationKnown
  <1> QED
    BY <1>1 DEF DelegationKnown, SameRun

LEMMA LocksStay ==
    ASSUME RunsKept(tree'), DOMAIN tree' = DOMAIN tree, LocksHeldOnce,
           \A q \in DOMAIN tree : tree'[q].state = "running" => tree[q].state = "running"
    PROVE  LocksHeldOnce'
  BY DEF RunsKept, LocksHeldOnce, SameLock, SameRun
-----------------------------------------------------------------------------
(* The registry changes under the delegations. *)
LEMMA CalleeIsAgent ==
    ASSUME NEW c \in CallRecords
    PROVE  c.tool \in Tools /\ c.tool.callee \in Agents /\ c.tool.caller \in Agents
  BY AccessAssumption DEF CallRecords

LEMMA ChangeKeeps ==
    ASSUME AccessInv, NEW a \in Agents, NEW entry \in Entries, Change(a, entry)
    PROVE  AccessInv'
  <1> USE DEF AccessInv, Change
  <1>1. registry' \in [Agents -> Entries]
    OBVIOUS
  <1>2. /\ TreeTyped' /\ LocksHeldOnce' /\ \A r \in DOMAIN tree' : RunKnown(r)'
    BY DEF TreeTyped, LocksHeldOnce, RunKnown, SameLock
  <1>3. ASSUME NEW d \in calls' PROVE DelegationKnown(d)'
    <2>1. PICK c \in calls : d = [c EXCEPT !.fit = @ \/ (c.tool.callee = a /\ Fit(entry))]
      OBVIOUS
    <2> DEFINE gained == c.tool.callee = a /\ Fit(entry)
    <2>2. DelegationKnown(c) /\ c \in CallRecords
      BY DEF DelegationKnown
    <2>3. /\ d \in CallRecords
          /\ d.run = c.run /\ d.tool = c.tool /\ d.stage = c.stage /\ d.entry = c.entry
          /\ d.fit <=> c.fit \/ gained
      BY <2>1, <2>2 DEF CallRecords, Fit
    <2>4. Fit(registry'[d.tool.callee]) => d.fit
      <3>1. CASE c.tool.callee = a
        BY <3>1, <2>3
      <3>2. CASE c.tool.callee # a
        BY <3>2, <2>2, <2>3, CalleeIsAgent DEF DelegationKnown
      <3> QED
        BY <3>1, <3>2
    <2> QED
      BY <2>2, <2>3, <2>4 DEF DelegationKnown
  <1> QED
    BY <1>1, <1>2, <1>3

LEMMA RegistryKeeps ==
    ASSUME AccessInv, NEW a \in Agents, Transition(a) \/ RebindEndpoint(a)
    PROVE  AccessInv'
  <1> registry[a] \in Entries
    BY DEF AccessInv
  <1>1. CASE Transition(a)
    <2>1. PICK i \in 1..(Len(Lifecycle) - 1) :
              Change(a, [registry[a] EXCEPT !.status = Lifecycle[i + 1]])
      BY <1>1 DEF Transition
    <2>2. [registry[a] EXCEPT !.status = Lifecycle[i + 1]] \in Entries
      BY DEF Entries, Statuses, Lifecycle
    <2> QED
      BY <2>1, <2>2, ChangeKeeps
  <1>2. CASE RebindEndpoint(a)
    <2>1. [registry[a] EXCEPT !.approved = ~@] \in Entries
      BY DEF Entries
    <2> QED
      BY <1>2, <2>1, ChangeKeeps DEF RebindEndpoint
  <1> QED
    BY <1>1, <1>2

-----------------------------------------------------------------------------
(* Runs take their locks and end. *)
LEMMA AcquireKeeps ==
    ASSUME AccessInv, NEW r \in DOMAIN tree, AcquireSession(r)
    PROVE  AccessInv'
  <1> DEFINE new == [tree[r] EXCEPT !.state = "running"]
  <1>1. /\ new \in RunsIn(tree[r].session) /\ SameRun(new, tree[r]) /\ new.state = "running"
        /\ tree' = [tree EXCEPT ![r] = new] /\ tree[r].state = "queued"
        /\ TreeTyped
    BY DEF AccessInv, TreeTyped, RunsIn, RunStates, SameRun, AcquireSession
  <1> HIDE DEF new
  <1>2. /\ TreeTyped' /\ RunsKept(tree') /\ DOMAIN tree' = DOMAIN tree
        /\ tree'[r] = new
        /\ \A q \in DOMAIN tree \ {r} : tree'[q] = tree[q]
    BY <1>1, RunReplaced
  <1>3. \A q \in DOMAIN tree' : RunKnown(q)'
    BY <1>1, <1>2, KnownRunsStay DEF AccessInv
  <1>4. LocksHeldOnce'
    <2> SUFFICES ASSUME NEW p \in DOMAIN tree, NEW q \in DOMAIN tree, p # q,
                        SameLock(p, q)', tree'[p].state = "running",
                        tree'[q].state = "running"
                 PROVE  FALSE
      BY <1>2 DEF LocksHeldOnce
    <2>1. SameLock(p, q) /\ SameLock(q, p)
      BY <1>2 DEF RunsKept, SameRun, SameLock
    <2>2. ASSUME NEW o \in DOMAIN tree \ {r}, SameLock(o, r) PROVE tree[o].state # "running"
      BY <2>2 DEF AcquireSession
    <2> QED
      BY <1>2, <2>1, <2>2 DEF LocksHeldOnce, AccessInv
  <1>5. \A c \in calls' : DelegationKnown(c)'
    <2> SUFFICES ASSUME NEW c \in calls PROVE DelegationKnown(c)'
      BY DEF AcquireSession
    <2>1. DelegationKnown(c) /\ registry' = registry
      BY DEF AccessInv, AcquireSession
    <2>2. tree'[c.run].state # "over"
      BY <1>1, <1>2, <2>1 DEF DelegationKnown
    <2> QED
      BY <1>1, <1>2, <2>1, <2>2, KnownCallsStay
  <1> QED
    BY <1>2, <1>3, <1>4, <1>5 DEF AccessInv, AcquireSession

LEMMA EndKeeps ==
    ASSUME AccessInv, NEW r \in DOMAIN tree, EndRun(r)
    PROVE  AccessInv'
  <1> DEFINE new == [tree[r] EXCEPT !.state = "over"]
  <1>1. /\ new \in RunsIn(tree[r].session) /\ SameRun(new, tree[r]) /\ new.state = "over"
        /\ tree' = [tree EXCEPT ![r] = new]
        /\ TreeTyped
    BY DEF AccessInv, TreeTyped, RunsIn, RunStates, SameRun, EndRun
  <1> HIDE DEF new
  <1>2. /\ TreeTyped' /\ RunsKept(tree') /\ DOMAIN tree' = DOMAIN tree
        /\ tree'[r] = new
        /\ \A q \in DOMAIN tree \ {r} : tree'[q] = tree[q]
    BY <1>1, RunReplaced
  <1>3. \A q \in DOMAIN tree' : RunKnown(q)'
    BY <1>1, <1>2, KnownRunsStay DEF AccessInv
  <1>4. LocksHeldOnce'
    <2>1. \A q \in DOMAIN tree : tree'[q].state = "running" => tree[q].state = "running"
      BY <1>1, <1>2
    <2> QED
      BY <1>2, <2>1, LocksStay DEF AccessInv
  <1>5. \A c \in calls' : DelegationKnown(c)'
    <2> SUFFICES ASSUME NEW c \in calls, c.run # r PROVE DelegationKnown(c)'
      BY DEF EndRun
    <2>1. DelegationKnown(c) /\ registry' = registry
      BY DEF AccessInv, EndRun
    <2>2. tree'[c.run].state # "over"
      BY <1>1, <1>2, <2>1 DEF DelegationKnown
    <2> QED
      BY <1>1, <1>2, <2>1, <2>2, KnownCallsStay
  <1> QED
    BY <1>2, <1>3, <1>4, <1>5 DEF AccessInv, EndRun
-----------------------------------------------------------------------------
(* A delegation resolves its callee, is authorized and starts the child. *)
LEMMA DelegateKeeps ==
    ASSUME AccessInv, NEW r \in DOMAIN tree, NEW tool \in Tools, Delegate(r, tool)
    PROVE  AccessInv'
  <1> DEFINE new == [tree[r] EXCEPT !.made = @ + 1]
  <1> PICK asked :
          asked = [run |-> r, id |-> tree[r].made + 1, tool |-> tool,
                   stage |-> "asked", entry |-> registry[tool.callee],
                   fit |-> Fit(registry[tool.callee])]
    OBVIOUS
  <1>1. /\ new \in RunsIn(tree[r].session) /\ SameRun(new, tree[r])
        /\ new.state = "running" /\ tree[r].state = "running"
        /\ tree' = [tree EXCEPT ![r] = new] /\ tree[r].made \in Nat
        /\ TreeTyped
    <2>1. TreeTyped /\ tree[r] \in RunsIn(tree[r].session) /\ tree[r].made \in Nat
      BY DEF AccessInv, TreeTyped, RunsIn
    <2>2. tree[r].made + 1 \in Nat
      BY <2>1
    <2>3. new \in RunsIn(tree[r].session)
      BY <2>1, <2>2 DEF RunsIn
    <2>4. SameRun(new, tree[r]) /\ new.state = tree[r].state
      BY <2>1 DEF RunsIn, SameRun
    <2>5. tree[r].state = "running" /\ tree' = [tree EXCEPT ![r] = new]
      BY <2>1 DEF Delegate
    <2> QED
      BY <2>1, <2>3, <2>4, <2>5
  <1> HIDE DEF new
  <1>2. /\ TreeTyped' /\ RunsKept(tree') /\ DOMAIN tree' = DOMAIN tree
        /\ tree'[r] = new
        /\ \A q \in DOMAIN tree \ {r} : tree'[q] = tree[q]
    BY <1>1, RunReplaced
  <1>3. \A q \in DOMAIN tree' : RunKnown(q)'
    BY <1>1, <1>2, KnownRunsStay DEF AccessInv
  <1>4. LocksHeldOnce'
    <2>1. \A q \in DOMAIN tree : tree'[q].state = "running" => tree[q].state = "running"
      BY <1>1, <1>2
    <2> QED
      BY <1>2, <2>1, LocksStay DEF AccessInv
  <1>5. registry' = registry /\ calls' = calls \cup {asked}
    BY DEF Delegate
  <1>6. DelegationKnown(asked)'
    <2>1. tool.callee \in Agents /\ registry[tool.callee] \in Entries
      BY AccessAssumption DEF AccessInv
    <2>2. r \in Nat /\ Fit(registry[tool.callee]) \in BOOLEAN
      BY <1>1, TreeFacts DEF Fit, Entries
    <2>3. asked \in CallRecords
      BY <1>1, <2>1, <2>2 DEF CallRecords, CallStages
    <2>4. asked.tool.caller = tree'[r].agent
      BY <1>1, <1>2 DEF Delegate, SameRun
    <2> QED
      BY <1>1, <1>2, <1>5, <2>3, <2>4 DEF DelegationKnown
  <1>7. ASSUME NEW c \in calls PROVE DelegationKnown(c)'
    <2>1. DelegationKnown(c)
      BY DEF AccessInv
    <2>2. tree'[c.run].state # "over"
      BY <1>1, <1>2, <2>1 DEF DelegationKnown
    <2> QED
      BY <1>1, <1>2, <1>5, <2>1, <2>2, KnownCallsStay
  <1> QED
    <2>1. \A c \in calls' : DelegationKnown(c)'
      BY <1>5, <1>6, <1>7
    <2> QED
      BY <1>2, <1>3, <1>4, <1>5, <2>1 DEF AccessInv

LEMMA CallStepKeeps ==
    ASSUME AccessInv, NEW c \in calls, UNCHANGED <<registry, tree>>,
           \/ Reject(c)
           \/ \E next : To(c, next) /\ DelegationKnown(next)
    PROVE  AccessInv'
  <1>1. /\ TreeTyped' /\ LocksHeldOnce' /\ \A r \in DOMAIN tree' : RunKnown(r)'
    BY DEF AccessInv, TreeTyped, LocksHeldOnce, RunKnown, SameLock
  <1>2. \A d \in calls' : DelegationKnown(d)
    BY DEF AccessInv, To, Reject
  <1>3. \A d \in calls' : DelegationKnown(d)'
    BY <1>2 DEF DelegationKnown
  <1> QED
    BY <1>1, <1>3 DEF AccessInv

LEMMA ResolveKeeps ==
    ASSUME AccessInv, NEW c \in calls, Resolve(c)
    PROVE  AccessInv'
  <1> DEFINE entry == registry[c.tool.callee]
             next == [c EXCEPT !.stage = "resolved", !.entry = entry]
  <1>1. UNCHANGED <<registry, tree>> /\ DelegationKnown(c) /\ c.stage = "asked"
    BY DEF Resolve, AccessInv
  <1>2. CASE entry.status \in Runnable
    <2>1. To(c, next)
      BY <1>2 DEF Resolve
    <2>2. entry \in Entries /\ c \in CallRecords
      BY <1>1, CalleeIsAgent DEF AccessInv, DelegationKnown
    <2>3. /\ next \in CallRecords /\ next.run = c.run /\ next.tool = c.tool
          /\ next.stage = "resolved" /\ next.entry = entry /\ next.fit = c.fit
      BY <2>2 DEF CallRecords, CallStages
    <2>4. entry.approved => c.fit
      BY <1>1, <1>2 DEF DelegationKnown, Fit
    <2>5. DelegationKnown(next)
      BY <1>1, <1>2, <2>3, <2>4 DEF DelegationKnown
    <2> QED
      BY <1>1, <2>1, <2>5, CallStepKeeps
  <1>3. CASE entry.status \notin Runnable
    BY <1>1, <1>3, CallStepKeeps DEF Resolve
  <1> QED
    BY <1>2, <1>3

LEMMA DescribeKeeps ==
    ASSUME AccessInv, NEW c \in calls, Describe(c)
    PROVE  AccessInv'
  <1> DEFINE next == [c EXCEPT !.stage = "described"]
             known == registry[c.tool.callee].status = c.entry.status /\ c.entry.approved
  <1>1. UNCHANGED <<registry, tree>> /\ DelegationKnown(c) /\ c.stage = "resolved"
    BY DEF Describe, AccessInv
  <1>2. CASE known
    <2>1. To(c, next)
      BY <1>2 DEF Describe
    <2>2. /\ next \in CallRecords /\ next.run = c.run /\ next.tool = c.tool
          /\ next.stage = "described" /\ next.entry = c.entry /\ next.fit = c.fit
      BY <1>1 DEF DelegationKnown, CallRecords, CallStages
    <2>3. DelegationKnown(next)
      BY <1>1, <1>2, <2>2 DEF DelegationKnown
    <2> QED
      BY <1>1, <2>1, <2>3, CallStepKeeps
  <1>3. CASE ~known
    BY <1>1, <1>3, CallStepKeeps DEF Describe
  <1> QED
    BY <1>2, <1>3

LEMMA AuthorizeKeeps ==
    ASSUME AccessInv, NEW c \in calls, AuthorizeEdge(c)
    PROVE  AccessInv'
  <1> DEFINE next == [c EXCEPT !.stage = "authorized"]
             open == /\ Authorized(c.tool.caller, c.tool.callee, tree[c.run].tenant)
                     /\ PathOpen(tree[c.run].path, c.tool.callee)
  <1>1. UNCHANGED <<registry, tree>> /\ DelegationKnown(c) /\ c.stage = "described"
    BY DEF AuthorizeEdge, AccessInv
  <1>2. CASE open
    <2>1. To(c, next)
      BY <1>2 DEF AuthorizeEdge
    <2>2. /\ next \in CallRecords /\ next.run = c.run /\ next.tool = c.tool
          /\ next.stage = "authorized" /\ next.entry = c.entry /\ next.fit = c.fit
      BY <1>1 DEF DelegationKnown, CallRecords, CallStages
    <2>3. DelegationKnown(next)
      BY <1>1, <1>2, <2>2 DEF DelegationKnown
    <2> QED
      BY <1>1, <2>1, <2>3, CallStepKeeps
  <1>3. CASE ~open
    BY <1>1, <1>3, CallStepKeeps DEF AuthorizeEdge
  <1> QED
    BY <1>2, <1>3
(* A run that starts waits for its session: nobody loses a lock, and no     *)
(* delegation its caller.                                                   *)
LEMMA StartKeepsTree ==
    ASSUME AccessInv, NEW run, run \in RunsIn(run.session), run.state = "queued",
           StartRun(run), NEW n, n = Len(tree) + 1, RunKnown(n)',
           UNCHANGED registry
    PROVE  /\ TreeTyped' /\ LocksHeldOnce' /\ \A r \in DOMAIN tree' : RunKnown(r)'
           /\ \A c \in calls : DelegationKnown(c)'
  <1>1. TreeTyped /\ tree' = Append(tree, run)
    BY DEF AccessInv, StartRun
  <1>2. /\ TreeTyped' /\ RunsKept(tree') /\ DOMAIN tree' = 1..n
        /\ \A q \in DOMAIN tree : tree'[q] = tree[q]
        /\ tree'[n] = run
    BY <1>1, RunAdded
  <1>3. DOMAIN tree' = DOMAIN tree \cup {n}
    BY <1>1, <1>2, TreeFacts
  <1>4. \A r \in DOMAIN tree' : RunKnown(r)'
    BY <1>1, <1>2, <1>3, KnownRunsStay DEF AccessInv
  <1>5. LocksHeldOnce'
    <2> SUFFICES ASSUME NEW p \in DOMAIN tree', NEW q \in DOMAIN tree', p # q,
                        SameLock(p, q)', tree'[p].state = "running",
                        tree'[q].state = "running"
                 PROVE  FALSE
      BY DEF LocksHeldOnce
    <2>1. p \in DOMAIN tree /\ q \in DOMAIN tree
      BY <1>2, <1>3
    <2>2. SameLock(p, q)
      BY <1>2, <2>1 DEF SameLock
    <2> QED
      BY <1>2, <2>1, <2>2 DEF LocksHeldOnce, AccessInv
  <1>6. ASSUME NEW c \in calls PROVE DelegationKnown(c)'
    <2>1. DelegationKnown(c) /\ tree'[c.run].state # "over"
      BY <1>2 DEF AccessInv, DelegationKnown
    <2> QED
      BY <1>1, <1>2, <2>1, KnownCallsStay
  <1> QED
    BY <1>2, <1>4, <1>5, <1>6

LEMMA RootKeeps ==
    ASSUME AccessInv, StartRoot
    PROVE  AccessInv'
  <1>1. PICK a \in Agents, t \in Tenants, s \in SessionIds :
            /\ StartRun([agent |-> a, tenant |-> t, path |-> <<a>>, session |-> <<s, t>>,
                         parent |-> 0, call |-> 0, fit |-> TRUE, strategy |-> "root",
                         state |-> "queued", made |-> 0])
            /\ UNCHANGED <<registry, calls, changes>>
    BY DEF StartRoot
  <1>2. PICK run : run = [agent |-> a, tenant |-> t, path |-> <<a>>, session |-> <<s, t>>,
                          parent |-> 0, call |-> 0, fit |-> TRUE, strategy |-> "root",
                          state |-> "queued", made |-> 0]
    OBVIOUS
  <1>3. run \in RunsIn(run.session)
    BY <1>2 DEF RunsIn, RunStates
  <1>4. /\ run.agent = a /\ run.tenant = t /\ run.path = <<a>> /\ run.session = <<s, t>>
        /\ run.parent = 0 /\ run.strategy = "root" /\ run.state = "queued"
        /\ StartRun(run)
    BY <1>1, <1>2
  <1> PICK n : n = Len(tree) + 1
    OBVIOUS
  <1>5. tree'[n] = run /\ n \in Nat \ {0}
    BY <1>3, <1>4, RunAdded, TreeFacts DEF AccessInv, StartRun
  <1>6. PathAllowed(run.path) /\ run.path[Len(run.path)] = a
    BY <1>4, AccessAssumption DEF PathAllowed
  <1>7. DOMAIN run.session = 1..2 /\ TenantOf(run.session) = t
    <2>1. DOMAIN <<s, t>> = 1..2 /\ <<s, t>>[2] = t
      OBVIOUS
    <2> QED
      BY <1>4, <2>1 DEF TenantOf
  <1>8. RunKnown(n)'
    <2>1. /\ PathAllowed(tree'[n].path) /\ tree'[n].path[Len(tree'[n].path)] = tree'[n].agent
          /\ tree'[n].parent = 0 /\ tree'[n].strategy = "root"
          /\ TenantOf(tree'[n].session) = tree'[n].tenant
          /\ DOMAIN tree'[n].session = 1..2
      BY <1>4, <1>5, <1>6, <1>7
    <2> QED
      BY <1>5, <2>1 DEF RunKnown
  <1> QED
    BY <1>1, <1>3, <1>4, <1>8, StartKeepsTree DEF AccessInv

(* The path of the child is the parent's and one more allowed edge. *)
LEMMA PathGrows ==
    ASSUME NEW path \in Seq(Agents), PathAllowed(path), NEW callee \in Agents,
           PathOpen(path, callee), NEW caller, caller = path[Len(path)],
           NEW tenant, Authorized(caller, callee, tenant)
    PROVE  /\ PathAllowed(Append(path, callee)) /\ Append(path, callee) \in Seq(Agents)
           /\ Append(path, callee)[Len(Append(path, callee))] = callee
  <1> DEFINE n == Len(path)
             grown == Append(path, callee)
  <1>1. /\ grown \in Seq(Agents) /\ Len(grown) = n + 1
        /\ \A i \in 1..n : grown[i] = path[i]
        /\ grown[n + 1] = callee
    BY AppendProperties
  <1>2. n \in Nat /\ n >= 1 /\ n <= MaxDepth /\ DOMAIN path = 1..n
    BY LenProperties DEF PathAllowed, PathOpen
  <1>3. \A i \in 1..n : path[i] # callee
    BY <1>2 DEF PathOpen, Range
  <1> HIDE DEF n, grown
  <1>4. ASSUME NEW i \in 1..(Len(grown) - 1)
        PROVE  /\ <<grown[i], grown[i + 1]>> \in Edges
               /\ CallableBy[grown[i + 1]] = {} \/ grown[i] \in CallableBy[grown[i + 1]]
    <2>1. CASE i = n
      BY <1>1, <1>2, <2>1 DEF Authorized, n
    <2>2. CASE i # n
      <3>1. i \in 1..(n - 1) /\ i \in 1..n /\ i + 1 \in 1..n
        BY <1>1, <1>2, <2>2
      <3> QED
        BY <1>1, <3>1 DEF PathAllowed, n
    <2> QED
      BY <2>1, <2>2
  <1>5. ASSUME NEW i \in 1..Len(grown), NEW j \in 1..Len(grown), grown[i] = grown[j]
        PROVE  i = j
    <2>1. /\ i \in 1..n \/ i = n + 1
          /\ j \in 1..n \/ j = n + 1
      BY <1>1, <1>2
    <2>2. CASE i \in 1..n /\ j \in 1..n
      BY <1>1, <1>5, <2>2 DEF PathAllowed, n
    <2>3. CASE i = n + 1 /\ j \in 1..n
      BY <1>1, <1>3, <1>5, <2>3
    <2>4. CASE i \in 1..n /\ j = n + 1
      BY <1>1, <1>3, <1>5, <2>4
    <2> QED
      BY <2>1, <2>2, <2>3, <2>4
  <1>6. Len(grown) >= 1 /\ Len(grown) <= MaxDepth + 1
    BY <1>1, <1>2, AccessAssumption
  <1> QED
    BY <1>1, <1>4, <1>5, <1>6 DEF PathAllowed, grown

(* The key of the child's session names its tenant, and its agent unless it *)
(* is the parent's key.                                                     *)
LEMMA SessionNames ==
    ASSUME AccessInv, NEW c \in calls
    PROVE  LET key == SessionFor(c)
           IN  /\ TenantOf(key) = tree[c.run].tenant
               /\ c.tool.strategy \in {"isolated", "per_parent_session"} =>
                     DOMAIN key # 1..2 /\ key[2] = c.tool.callee
  <1> DEFINE parent == tree[c.run]
  <1>1. c.run \in DOMAIN tree /\ c.tool.strategy \in Strategies /\ RunKnown(c.run)
    BY AccessAssumption DEF AccessInv, DelegationKnown, CallRecords, Strategies
  <1>2. ASSUME NEW a, NEW b, NEW x, NEW y, NEW z
        PROVE  /\ DOMAIN <<a, b, x, y, z>> # 1..2 /\ DOMAIN <<a, b, x, y>> # 1..2
               /\ <<a, b, x, y, z>>[1] = a /\ <<a, b, x, y>>[1] = a
               /\ <<a, b, x, y, z>>[2] = b /\ <<a, b, x, y>>[2] = b
    <2>1. 3 \in DOMAIN <<a, b, x, y, z>> /\ 3 \in DOMAIN <<a, b, x, y>> /\ 3 \notin 1..2
      OBVIOUS
    <2> QED
      BY <2>1
  <1>3. CASE c.tool.strategy = "shared"
    BY <1>1, <1>3 DEF SessionFor, RunKnown
  <1>4. CASE c.tool.strategy = "isolated"
    BY <1>2, <1>4 DEF SessionFor, TenantOf
  <1>5. CASE c.tool.strategy = "per_parent_session"
    BY <1>2, <1>5 DEF SessionFor, TenantOf
  <1> QED
    BY <1>1, <1>3, <1>4, <1>5 DEF Strategies
LEMMA InvokeKeeps ==
    ASSUME AccessInv, NEW c \in calls, InvokeEndpoint(c)
    PROVE  AccessInv'
  <1> DEFINE parent == tree[c.run]
             same == c.tool.strategy # "shared" /\ SessionFor(c) = parent.session
  <1> PICK next : next = [c EXCEPT !.stage = "invoked"]
    OBVIOUS
  <1> PICK run :
          run = [agent |-> c.tool.callee, tenant |-> parent.tenant,
                 path |-> Append(parent.path, c.tool.callee),
                 session |-> SessionFor(c), parent |-> c.run, call |-> c.id,
                 fit |-> c.fit, strategy |-> c.tool.strategy,
                 state |-> "queued", made |-> 0]
    OBVIOUS
  <1> PICK n : n = Len(tree) + 1
    OBVIOUS
  <1>1. DelegationKnown(c) /\ c.stage = "authorized" /\ UNCHANGED <<registry, changes>>
    BY DEF InvokeEndpoint, AccessInv
  <1>2. CASE same
    BY <1>1, <1>2, CallStepKeeps DEF InvokeEndpoint
  <1>3. CASE ~same
    <2>1. StartRun(run) /\ To(c, next)
      BY <1>3 DEF InvokeEndpoint
    <2>2. /\ c \in CallRecords /\ c.fit /\ c.run \in DOMAIN tree /\ c.tool.caller = parent.agent
          /\ Authorized(c.tool.caller, c.tool.callee, parent.tenant)
          /\ PathOpen(parent.path, c.tool.callee)
      BY <1>1 DEF DelegationKnown
    <2>3. parent \in RunsIn(parent.session) /\ RunKnown(c.run) /\ TreeTyped
      BY <2>2 DEF AccessInv, TreeTyped
    <2>4. /\ c.tool.callee \in Agents /\ parent.tenant \in Tenants
          /\ parent.path \in Seq(Agents) /\ c.run \in Nat /\ c.id \in Nat
          /\ c.fit \in BOOLEAN /\ c.tool.strategy \in Strategies
      BY <2>2, <2>3, AccessAssumption, CalleeIsAgent DEF RunsIn, CallRecords, Strategies
    <2>5. /\ PathAllowed(run.path) /\ run.path \in Seq(Agents)
          /\ run.path[Len(run.path)] = run.agent
      <3>1. PathAllowed(parent.path) /\ c.tool.caller = parent.path[Len(parent.path)]
        BY <2>2, <2>3 DEF RunKnown
      <3>2. run.path = Append(parent.path, c.tool.callee) /\ run.agent = c.tool.callee
        OBVIOUS
      <3> HIDE DEF parent
      <3> QED
        BY <2>2, <2>4, <3>1, <3>2, PathGrows
    <2>6. run \in RunsIn(run.session)
      BY <2>4, <2>5 DEF RunsIn, RunStates
    <2>7. tree'[n] = run /\ n \in Nat \ {0} /\ c.run \in 1..(n - 1) /\ tree'[c.run] = parent
      BY <2>1, <2>2, <2>3, <2>6, RunAdded, TreeFacts DEF StartRun
    <2>8. /\ TenantOf(run.session) = run.tenant
          /\ run.strategy \in {"isolated", "per_parent_session"} =>
                 DOMAIN run.session # 1..2 /\ run.session[2] = run.agent
      BY SessionNames
    <2>9. RunKnown(n)'
      <3>1. /\ run.parent \in 0..(n - 1) /\ run.parent # 0 /\ run.strategy # "root"
            /\ run.fit /\ run.tenant \in Admitted
            /\ run.tenant = tree'[run.parent].tenant
        BY <2>2, <2>4, <2>7 DEF Authorized, Strategies
      <3> QED
        BY <2>5, <2>7, <2>8, <3>1 DEF RunKnown
    <2>10. /\ TreeTyped' /\ LocksHeldOnce' /\ \A r \in DOMAIN tree' : RunKnown(r)'
           /\ \A d \in calls : DelegationKnown(d)'
      BY <1>1, <2>1, <2>6, <2>9, StartKeepsTree
    <2>11. DelegationKnown(next)'
      <3>1. /\ next \in CallRecords /\ next.run = c.run /\ next.tool = c.tool
            /\ next.stage = "invoked" /\ next.entry = c.entry /\ next.fit = c.fit
        BY <2>2 DEF CallRecords, CallStages
      <3>2. DelegationKnown(c)'
        BY <2>10
      <3> QED
        BY <1>1, <3>1, <3>2 DEF DelegationKnown
    <2>12. \A d \in calls' : DelegationKnown(d)'
      BY <2>1, <2>10, <2>11 DEF To
    <2> QED
      BY <1>1, <2>10, <2>12 DEF AccessInv
  <1> QED
    BY <1>2, <1>3

-----------------------------------------------------------------------------
LEMMA PathIsInjective ==
    ASSUME NEW path \in Seq(Agents), PathAllowed(path)
    PROVE  Cardinality(Range(path)) = Len(path)
  <1>1. /\ Len(path) \in Nat /\ DOMAIN path = 1..Len(path)
        /\ path \in [1..Len(path) -> Range(path)]
    BY LenProperties DEF Range
  <1>2. path \in Bijection(1..Len(path), Range(path))
    BY <1>1 DEF PathAllowed, Range, Bijection, Injection, Surjection, IsInjective
  <1> QED
    BY <1>1, <1>2, FS_CountingElements DEF ExistsBijection

LEMMA AccessInvIsSound ==
    ASSUME AccessInv
    PROVE  AccessSound
  <1>1. AccessTypeOK
    BY DEF AccessInv, AccessTypeOK, RunKnown, DelegationKnown
  <1>2. ChildrenAreAllowed
    <2> SUFFICES ASSUME NEW r \in DOMAIN tree, tree[r].parent # 0
                 PROVE  LET path == tree[r].path
                        IN /\ tree[r].fit
                           /\ \A i \in 1..(Len(path) - 1) :
                                 /\ <<path[i], path[i + 1]>> \in Edges
                                 /\ \/ CallableBy[path[i + 1]] = {}
                                    \/ path[i] \in CallableBy[path[i + 1]]
                           /\ Cardinality(Range(path)) = Len(path)
                           /\ Len(path) <= MaxDepth + 1
                           /\ tree[r].tenant = tree[tree[r].parent].tenant
                           /\ tree[r].tenant \in Admitted
      BY DEF ChildrenAreAllowed
    <2>1. RunKnown(r) /\ tree[r].path \in Seq(Agents)
      BY DEF AccessInv, TreeTyped, RunsIn
    <2>2. Cardinality(Range(tree[r].path)) = Len(tree[r].path)
      BY <2>1, PathIsInjective DEF RunKnown
    <2> QED
      BY <2>1, <2>2 DEF RunKnown, PathAllowed
  <1>3. SessionsApart
    <2> SUFFICES ASSUME NEW r \in DOMAIN tree, NEW q \in DOMAIN tree, r # q,
                        tree[r].session = tree[q].session
                 PROVE  /\ tree[r].tenant = tree[q].tenant
                        /\ \/ tree[r].agent = tree[q].agent
                           \/ "shared" \in {tree[r].strategy, tree[q].strategy}
                           \/ tree[r].parent = 0 /\ tree[q].parent = 0
                        /\ ~(/\ tree[r].agent = tree[q].agent
                             /\ {tree[r].state, tree[q].state} = {"running"})
      BY DEF SessionsApart
    <2>1. /\ RunKnown(r) /\ RunKnown(q)
          /\ tree[r].strategy \in Strategies \cup {"root"}
          /\ tree[q].strategy \in Strategies \cup {"root"}
      BY DEF AccessInv, TreeTyped, RunsIn
    <2>2. tree[r].tenant = tree[q].tenant
      BY <2>1 DEF RunKnown
    <2>3. \/ tree[r].agent = tree[q].agent
          \/ "shared" \in {tree[r].strategy, tree[q].strategy}
          \/ tree[r].parent = 0 /\ tree[q].parent = 0
      <3>1. CASE tree[r].strategy = "root" /\ tree[q].strategy = "root"
        BY <2>1, <3>1 DEF RunKnown
      <3>2. CASE tree[r].strategy = "root" /\ tree[q].strategy \in {"isolated", "per_parent_session"}
        BY <2>1, <3>2 DEF RunKnown
      <3>3. CASE tree[q].strategy = "root" /\ tree[r].strategy \in {"isolated", "per_parent_session"}
        BY <2>1, <3>3 DEF RunKnown
      <3>4. CASE /\ tree[r].strategy \in {"isolated", "per_parent_session"}
                 /\ tree[q].strategy \in {"isolated", "per_parent_session"}
        BY <2>1, <3>4 DEF RunKnown
      <3> QED
        BY <2>1, <3>1, <3>2, <3>3, <3>4 DEF Strategies
    <2>4. ASSUME tree[r].agent = tree[q].agent, {tree[r].state, tree[q].state} = {"running"}
          PROVE  FALSE
      BY <2>4 DEF AccessInv, LocksHeldOnce, SameLock
    <2> QED
      BY <2>2, <2>3, <2>4
  <1> QED
    BY <1>1, <1>2, <1>3 DEF AccessSound

LEMMA AccessStarts == AccessInit => AccessInv
  <1> SUFFICES ASSUME AccessInit PROVE AccessInv
    OBVIOUS
  <1>1. registry \in [Agents -> Entries]
    <2>1. Lifecycle[3] = "approved" /\ Lifecycle[4] = "staged" /\ {3, 4} \subseteq 1..Len(Lifecycle)
      BY DEF Lifecycle
    <2>2. [status : {"approved", "staged"}, approved : {TRUE}] \subseteq Entries
      BY <2>1 DEF Entries, Statuses
    <2> QED
      BY <2>2 DEF AccessInit
  <1>2. tree = <<>> /\ calls = {} /\ DOMAIN tree = {}
    BY DEF AccessInit
  <1> QED
    BY <1>1, <1>2 DEF AccessInv, TreeTyped, LocksHeldOnce

LEMMA AccessSteps ==
    ASSUME AccessInv, [AccessNext]_accessVars
    PROVE  AccessInv'
  <1>1. ASSUME NEW a \in Agents, Transition(a) \/ RebindEndpoint(a) PROVE AccessInv'
    BY <1>1, RegistryKeeps
  <1>2. CASE StartRoot
    BY <1>2, RootKeeps
  <1>3. ASSUME NEW r \in DOMAIN tree, AcquireSession(r) PROVE AccessInv'
    BY <1>3, AcquireKeeps
  <1>4. ASSUME NEW r \in DOMAIN tree, FinishRun(r) \/ Expire(r) PROVE AccessInv'
    BY <1>4, EndKeeps DEF FinishRun, Expire
  <1>5. ASSUME NEW r \in DOMAIN tree, NEW tool \in Tools, Delegate(r, tool) PROVE AccessInv'
    BY <1>5, DelegateKeeps
  <1>6. ASSUME NEW c \in calls, CallAdvances(c) PROVE AccessInv'
    <2>1. CASE OutOfRuns(c)
      BY <2>1, CallStepKeeps DEF OutOfRuns
    <2> QED
      BY <1>6, <2>1, ResolveKeeps, DescribeKeeps, AuthorizeKeeps, InvokeKeeps DEF CallAdvances
  <1>7. CASE UNCHANGED accessVars
    BY <1>7 DEF accessVars, AccessInv, TreeTyped, RunKnown, LocksHeldOnce, SameLock, DelegationKnown
  <1> QED
    BY <1>1, <1>2, <1>3, <1>4, <1>5, <1>6, <1>7 DEF AccessNext

(* Whatever happens to the registry and to the runs of other trees while a  *)
(* delegation waits (DelegationCoordinator.delegate, the endpoint registry  *)
(* and the session locks of the runtimes): every child was fit to run since *)
(* it was asked for, is reached by allowed edges on a path without a cycle, *)
(* stays with its parent's tenant, and shares a session with nobody it may  *)
(* not share one with.                                                      *)
THEOREM TreesAreSound == AccessSpec => []AccessSound
  <1>1. AccessInit => AccessInv
    BY AccessStarts
  <1>2. AccessInv /\ [AccessNext]_accessVars => AccessInv'
    BY AccessSteps
  <1>3. AccessInv => AccessSound
    BY AccessInvIsSound
  <1> QED
    BY <1>1, <1>2, <1>3, PTL DEF AccessSpec
=============================================================================
