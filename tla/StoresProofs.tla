----------------------------- MODULE StoresProofs -----------------------------
(***************************************************************************)
(* What a run finds again of itself: the run stays bound to whom it was    *)
(* started for (RunCoordinator._run), and the stores answer with its last  *)
(* checkpoint (persistence/checkpoint.py); and what the index of the       *)
(* example serves is whole.  For any number of requests, sessions, workers,*)
(* saves, generations, faults and deaths.                                  *)
(***************************************************************************)
EXTENDS RunBinding, CheckpointStores, IndexPublication, TLAPS

(***************************************************************************)
(* The run.  The invariant follows what a request brought, through what    *)
(* was accepted of the checkpoint, to what a handler may write: the        *)
(* checkpoint always carries the identity of the run's first owner, and a  *)
(* process executes only after it compared the two.                        *)
(***************************************************************************)
Labels == {"idle", "identity", "load", "bind", "begin", "select", "running", "failing"}
Setup == {"identity", "load", "bind"}

\* Where _run is, and what it may still do there.
Placed ==
    /\ kind \in {"root", "parent", "child"}
    /\ pc \in Labels
    /\ err \in Errors \cup {Nothing}
    /\ refused \in BOOLEAN /\ cleanup \in BOOLEAN /\ missed \in BOOLEAN /\ talk \in BOOLEAN
    /\ pc \in Setup \cup {"select", "running"} => err = Nothing /\ ~refused
    /\ pc = "begin" => (err # Nothing <=> refused)
    /\ pc = "failing" => err # Nothing
    /\ refused => ~cleanup /\ pc \in {"begin", "failing", "idle"}
    /\ pc \in Setup => ~cleanup
    /\ pc = "running" => cleanup
    /\ pc # "idle" => claim = Nothing /\ ~missed

\* The request in hand and the context made for it.
Requested ==
    pc # "idle" =>
        /\ req.session \in Sessions /\ req.tenant \in Tenants \cup {Nothing}
        /\ req.config \in Configs /\ req.resume \in BOOLEAN
        /\ req.lease \in Leases \cup {Nothing}
        /\ ctx \in Contexts
        /\ ctx.session = req.session /\ ctx.engine = req.config.engine
        /\ ctx.lease = req.lease
        /\ kind # "child" => req.lease = Nothing
        /\ kind = "child" /\ ~req.resume => req.lease # Nothing
        /\ ~req.resume => before.saved = Nothing
        /\ pc \in {"identity", "load"} => ~ctx.init
        /\ pc \in Setup /\ ~req.resume => reserved = 0 /\ owner = Nothing

\* The setup of the request succeeded.
Entered ==
    \/ pc \in {"bind", "select", "running"}
    \/ pc \in {"begin", "failing"} /\ ~refused

SameRun(o, r) ==
    /\ r.session = o.session /\ r.tenant = o.tenant /\ r.config.engine = o.engine
    /\ o.def # Nothing => r.config.def = o.def

\* What a request that was let in is known to be.
Admitted ==
    Entered =>
        /\ ctx.tenant = req.tenant
        /\ ctx.history /\ (ctx.init => ctx.state)
        /\ before.saved # Nothing /\ before.saved.state => ctx.state
        /\ owner # Nothing => SameRun(owner, req)
        /\ kind = "child" => req.lease # Nothing
        /\ kind = "child" /\ req.resume =>
              /\ leases[req.lease] = "active"
              /\ before.saved.status \notin {"failed", "cancelled"} => req.lease = before.saved.lease
        /\ kind = "parent" /\ pc = "bind" /\ req.resume => ctx.grouped
        /\ kind = "parent" /\ pc # "bind" => ctx.grouped /\ group # Nothing
        /\ pc \notin {"bind", "begin"} => ctx.spec = req.config.spec /\ ctx.ref = req.config.def
        /\ pc = "running" => ctx.state

\* What is stored belongs to the run it was stored for.
Kept ==
    /\ owner \in Owners \cup {Nothing}
    /\ saved \in Contexts \cup {Nothing}
    /\ saved # Nothing =>
        /\ saved.history /\ (saved.init => saved.state)
        /\ kind = "parent" => saved.grouped
        /\ owner # Nothing
        /\ saved.session = owner.session /\ saved.tenant = owner.tenant
        /\ saved.engine = owner.engine /\ saved.ref = owner.def

\* What the request may have changed so far.
Recorded ==
    /\ pc \in Setup \cup {"begin"} \/ refused => saved = before.saved /\ talk = before.talk
    /\ ~cleanup => talk = before.talk
    /\ before.saved # Nothing /\ before.saved.state /\ saved # Nothing => saved.state

\* The budget of the run's group.
Spent ==
    /\ asked \in Nat /\ reserved \in Nat
    /\ asked = 0 => pc = "idle" /\ reserved = 0 /\ (saved = Nothing => owner = Nothing)
    /\ kind = "parent" /\ group # Nothing => group \in Groups /\ group.spent = reserved

\* The checkpoint a result called resumable left behind.
ClaimKept ==
    pc = "idle" /\ claim = TRUE /\ ~refused /\ ~missed /\ cleanup =>
        /\ saved # Nothing
        /\ saved.session = req.session /\ saved.tenant = req.tenant
        /\ saved.engine = req.config.engine
        /\ saved.spec = req.config.spec /\ saved.ref = req.config.def
        /\ saved.safety \in {"resumable", "terminal"} /\ saved.status = "failed"
        /\ (kind = "child") = (req.lease # Nothing)

IInv == Placed /\ Requested /\ Admitted /\ Kept /\ Recorded /\ Spent /\ ClaimKept

-----------------------------------------------------------------------------
(* Contexts, and what is saved and remembered of them.                      *)
LEMMA WithFields ==
    ASSUME NEW c \in Contexts, NEW t \in Tenants \cup {Nothing}, NEW l \in Leases \cup {Nothing},
           NEW y \in {"resumable", "manual", "terminal", "never"},
           NEW x \in {"running", "completed", "failed", "cancelled"},
           NEW i \in BOOLEAN, NEW h \in BOOLEAN
    PROVE  /\ [c EXCEPT !.lease = l, !.tenant = t] \in Contexts
           /\ [c EXCEPT !.history = h, !.tenant = t] \in Contexts
           /\ [c EXCEPT !.safety = y] \in Contexts
           /\ [c EXCEPT !.status = x] \in Contexts
           /\ [c EXCEPT !.safety = y, !.status = x] \in Contexts
           /\ [c EXCEPT !.state = i] \in Contexts
           /\ [c EXCEPT !.init = i] \in Contexts
           /\ [c EXCEPT !.init = i, !.state = h] \in Contexts
           /\ [c EXCEPT !.grouped = i] \in Contexts
<1>1. [c EXCEPT !.lease = l, !.tenant = t] \in Contexts BY DEF Contexts
<1>2. [c EXCEPT !.history = h, !.tenant = t] \in Contexts BY DEF Contexts
<1>3. [c EXCEPT !.safety = y] \in Contexts BY DEF Contexts
<1>4. [c EXCEPT !.status = x] \in Contexts BY DEF Contexts
<1>5. [c EXCEPT !.safety = y, !.status = x] \in Contexts BY DEF Contexts
<1>6. [c EXCEPT !.state = i] \in Contexts BY DEF Contexts
<1>7. [c EXCEPT !.init = i] \in Contexts BY DEF Contexts
<1>8. [c EXCEPT !.init = i, !.state = h] \in Contexts BY DEF Contexts
<1>9. [c EXCEPT !.grouped = i] \in Contexts BY DEF Contexts
<1>10. QED BY <1>1, <1>2, <1>3, <1>4, <1>5, <1>6, <1>7, <1>8, <1>9

(* A snapshot differs from its context in `migrated` only. *)
LEMMA SnapshotFields ==
    ASSUME NEW c \in Contexts
    PROVE  /\ Snapshot(c) \in Contexts /\ Snapshot(c) # Nothing
           /\ Snapshot(c).session = c.session /\ Snapshot(c).tenant = c.tenant
           /\ Snapshot(c).spec = c.spec /\ Snapshot(c).ref = c.ref
           /\ Snapshot(c).engine = c.engine /\ Snapshot(c).lease = c.lease
           /\ Snapshot(c).grouped = c.grouped /\ Snapshot(c).history = c.history
           /\ Snapshot(c).init = c.init /\ Snapshot(c).state = c.state
           /\ Snapshot(c).safety = c.safety /\ Snapshot(c).status = c.status
<1>1. Snapshot(c) \in Contexts BY DEF Snapshot, Contexts
<1>2. QED BY <1>1, BindingAssumption DEF Snapshot, Contexts

(* The owner of a run is who saved it first, with the first definition that *)
(* is known.                                                                *)
LEMMA OwnFields ==
    ASSUME NEW c \in Contexts, owner \in Owners \cup {Nothing},
           c.session = req.session, c.tenant = req.tenant, c.engine = req.config.engine,
           c.ref = req.config.def, owner # Nothing => SameRun(owner, req)
    PROVE  /\ Own(c) \in Owners /\ Own(c) # Nothing
           /\ Own(c).session = c.session /\ Own(c).tenant = c.tenant
           /\ Own(c).engine = c.engine /\ Own(c).def = c.ref
           /\ SameRun(Own(c), req)
<1>1. CASE owner # Nothing /\ owner.def # Nothing
  BY <1>1, BindingAssumption DEF Own, SameRun
<1>2. CASE ~(owner # Nothing /\ owner.def # Nothing)
  <2> DEFINE o == [session |-> c.session, tenant |-> c.tenant, def |-> c.ref, engine |-> c.engine]
  <2>1. Own(c) = o BY <1>2 DEF Own
  <2>2. o \in Owners BY DEF Contexts, Owners
  <2>3. SameRun(o, req) BY DEF SameRun
  <2>4. QED BY <2>1, <2>2, <2>3, BindingAssumption
<1>3. QED BY <1>1, <1>2

(* Whatever context of the running process is saved, the checkpoint keeps   *)
(* to its owner, and the state saved before is not lost.                    *)
LEMMA Keeping ==
    ASSUME Placed, Requested, Admitted, Kept, pc \in {"select", "running", "failing"}, ~refused,
           NEW c \in Contexts, c.session = ctx.session, c.tenant = ctx.tenant,
           c.engine = ctx.engine, c.ref = ctx.ref, c.grouped = ctx.grouped, c.history,
           c.init => c.state,
           UNCHANGED <<kind, req>>, saved' = Snapshot(c), owner' = Own(ctx)
    PROVE  Kept' /\ SameRun(owner', req)
<1>1. Entered BY DEF Entered
<1>2. /\ c.session = req.session /\ c.tenant = req.tenant /\ c.engine = req.config.engine
      /\ c.ref = req.config.def /\ (owner # Nothing => SameRun(owner, req))
      /\ (kind = "parent" => c.grouped) /\ ctx \in Contexts
  BY <1>1 DEF Admitted, Requested
<1>3. /\ owner' \in Owners /\ owner' # Nothing
      /\ owner'.session = c.session /\ owner'.tenant = c.tenant
      /\ owner'.engine = c.engine /\ owner'.def = c.ref /\ SameRun(owner', req)
  BY <1>2, OwnFields DEF Kept
<1>4. QED BY <1>2, <1>3, SnapshotFields DEF Kept

-----------------------------------------------------------------------------
(* Setup: identity, loading, acceptance, budget.                            *)
LEMMA SetupFailsStep ==
    ASSUME IInv, pc \in Setup, NEW e \in Errors, SetupFails(e),
           UNCHANGED <<stable, cleanup, saved, talk, group, leases, missed, claim, owner, reserved>>
    PROVE  IInv'
<1>0. e # Nothing BY BindingAssumption
<1>1. Placed' BY <1>0 DEF IInv, Placed, SetupFails, stable, Labels, Setup
<1>2. Requested'
  <2>1. ctx \in Contexts BY DEF IInv, Requested, Setup
  <2>2. ctx' \in Contexts BY <2>1, WithFields DEF SetupFails
  <2>3. ctx'.session = ctx.session /\ ctx'.engine = ctx.engine /\ ctx'.lease = ctx.lease
    BY <2>1 DEF SetupFails, Contexts
  <2>4. QED BY <2>2, <2>3 DEF IInv, Requested, SetupFails, stable, Setup
<1>3. Admitted' BY DEF Admitted, Entered, SetupFails
<1>4. Kept' BY DEF IInv, Kept, stable
<1>5. Recorded' BY DEF IInv, Recorded, SetupFails, stable, Setup
<1>6. Spent' BY DEF IInv, Spent, SetupFails, stable, Setup
<1>7. ClaimKept' BY DEF ClaimKept, SetupFails
<1>8. QED BY <1>1, <1>2, <1>3, <1>4, <1>5, <1>6, <1>7 DEF IInv

LEMMA IdentifyStep == ASSUME IInv, Identify PROVE IInv'
<1>1. CASE SetupFails("configuration")
  BY <1>1, SetupFailsStep DEF Identify, Setup, Errors
<1>2. CASE pc' = "load" /\ UNCHANGED <<err, refused, ctx>>
  <2>1. Placed' BY <1>2 DEF IInv, Placed, Identify, stable, Setup, Labels
  <2>2. Requested' BY <1>2 DEF IInv, Requested, Identify, stable, Setup
  <2>3. Admitted' BY <1>2 DEF IInv, Admitted, Identify, stable, Setup, Entered
  <2>4. Kept' BY <1>2 DEF IInv, Kept, Identify, stable, Setup
  <2>5. Recorded' BY <1>2 DEF IInv, Recorded, Identify, stable, Setup
  <2>6. Spent' BY <1>2 DEF IInv, Spent, Identify, stable, Setup
  <2>7. ClaimKept' BY <1>2 DEF IInv, ClaimKept, Identify, stable, Setup
  <2>8. QED BY <2>1, <2>2, <2>3, <2>4, <2>5, <2>6, <2>7 DEF IInv
<1>3. QED BY <1>1, <1>2 DEF Identify

LEMMA LoadHistoryStep == ASSUME IInv, LoadHistory PROVE IInv'
<1>1. ASSUME NEW e \in {"persistence", "timeout"}, SetupFails(e) PROVE IInv'
  BY <1>1, SetupFailsStep DEF LoadHistory, Setup, Errors
<1>2. CASE /\ ctx' = [ctx EXCEPT !.history = TRUE, !.tenant = req.tenant]
           /\ pc' = "bind"
           /\ UNCHANGED <<err, refused>>
  <2>0. ctx \in Contexts /\ req.tenant \in Tenants \cup {Nothing}
    BY DEF IInv, Requested, LoadHistory
  <2>1. Placed' BY <1>2 DEF IInv, Placed, LoadHistory, stable, Setup, Labels
  <2>2. Requested'
    <3>1. ctx' \in Contexts BY <1>2, <2>0, WithFields
    <3>2. ctx'.session = ctx.session /\ ctx'.engine = ctx.engine /\ ctx'.lease = ctx.lease
      BY <1>2, <2>0 DEF Contexts
    <3>3. QED BY <1>2, <3>1, <3>2 DEF IInv, Requested, LoadHistory, stable, Setup
  <2>3. Admitted'
    <3>1. /\ ctx'.tenant = req.tenant /\ ctx'.history
          /\ ctx'.init = ctx.init /\ ctx'.state = ctx.state
      BY <1>2, <2>0 DEF Contexts
    <3>2. before.saved = Nothing /\ owner = Nothing /\ ~req.resume
          /\ (kind = "child" => req.lease # Nothing)
      BY DEF IInv, Requested, LoadHistory, Setup
    <3>3. ~ctx.init BY DEF IInv, Requested, LoadHistory
    <3>4. QED BY <1>2, <3>1, <3>2, <3>3 DEF Admitted, LoadHistory, stable
  <2>4. Kept' BY <1>2 DEF IInv, Kept, LoadHistory, stable
  <2>5. Recorded' BY <1>2 DEF IInv, Recorded, LoadHistory, stable, Setup
  <2>6. Spent' BY <1>2 DEF IInv, Spent, LoadHistory, stable
  <2>7. ClaimKept' BY <1>2 DEF ClaimKept
  <2>8. QED BY <2>1, <2>2, <2>3, <2>4, <2>5, <2>6, <2>7 DEF IInv
<1>3. QED BY <1>1, <1>2 DEF LoadHistory

LEMMA LoadResumeStep == ASSUME IInv, LoadResume PROVE IInv'
<1>1. ASSUME NEW e \in Errors, SetupFails(e) PROVE IInv'
  BY <1>1, SetupFailsStep DEF LoadResume, Setup
<1>2. CASE /\ saved # Nothing /\ Accepts(saved, req)
           /\ ctx' = [saved EXCEPT !.lease = req.lease, !.tenant = req.tenant]
           /\ pc' = "bind"
           /\ UNCHANGED <<err, refused>>
  <2> DEFINE l == req.lease
             t == req.tenant
  <2>0. /\ saved \in Contexts /\ before.saved = saved /\ req.resume
        /\ t \in Tenants \cup {Nothing} /\ l \in Leases \cup {Nothing}
    BY <1>2 DEF IInv, Kept, Recorded, Requested, LoadResume, Setup
  <2>9. /\ ctx' \in Contexts /\ ctx'.lease = req.lease /\ ctx'.tenant = req.tenant
        /\ ctx'.session = saved.session /\ ctx'.engine = saved.engine
        /\ ctx'.history = saved.history /\ ctx'.init = saved.init
        /\ ctx'.state = saved.state /\ ctx'.grouped = saved.grouped
    <3>1. ctx' \in Contexts BY <1>2, <2>0, WithFields
    <3>2. QED BY <1>2, <2>0, <3>1 DEF Contexts
  <2>1. Placed' BY <1>2 DEF IInv, Placed, LoadResume, stable, Setup, Labels
  <2>2. Requested'
    <3>1. saved.session = req.session /\ saved.engine = req.config.engine
      BY <1>2 DEF Accepts
    <3>2. QED BY <1>2, <2>0, <2>9, <3>1 DEF IInv, Requested, LoadResume, stable, Setup
  <2>3. Admitted'
    <3>1. owner # Nothing /\ SameRun(owner, req)
      BY <1>2 DEF IInv, Kept, Accepts, Pinned, SameRun
    <3>2. /\ kind = "child" => req.lease # Nothing
          /\ kind = "child" => leases[req.lease] = "active"
          /\ kind = "child" /\ saved.status \notin {"failed", "cancelled"}
                => req.lease = saved.lease
      BY <1>2 DEF Accepts, LeaseHolds
    <3>3. /\ saved.history /\ (saved.init => saved.state)
          /\ (kind = "parent" => saved.grouped)
      BY <1>2 DEF IInv, Kept
    <3>4. UNCHANGED <<kind, req, before, owner, leases, group>>
      BY DEF LoadResume, stable
    <3>5. SameRun(owner', req') BY <3>1, <3>4 DEF SameRun
    <3>6. /\ before'.saved = saved /\ ctx'.state = saved.state /\ pc' = "bind"
          /\ ctx'.tenant = req'.tenant /\ ctx'.history /\ (ctx'.init => ctx'.state)
          /\ (kind' = "parent" => ctx'.grouped)
      BY <1>2, <2>0, <2>9, <3>3, <3>4
    <3>7. /\ kind' = "child" => req'.lease # Nothing
          /\ kind' = "child" => leases'[req'.lease] = "active"
      BY <3>2, <3>4
    <3>9. kind' = "child" /\ before'.saved.status \notin {"failed", "cancelled"}
                => req'.lease = before'.saved.lease
      <4>1. /\ kind' = kind /\ req' = req /\ before'.saved = saved BY <3>4, <3>6
      <4>2. QED BY <3>2, <4>1
    <3>8. QED BY <3>5, <3>6, <3>7, <3>9 DEF Admitted
  <2>4. Kept' BY <1>2 DEF IInv, Kept, LoadResume, stable
  <2>5. Recorded' BY <1>2 DEF IInv, Recorded, LoadResume, stable, Setup
  <2>6. Spent' BY <1>2 DEF IInv, Spent, LoadResume, stable
  <2>7. ClaimKept' BY <1>2 DEF ClaimKept
  <2>8. QED BY <2>1, <2>2, <2>3, <2>4, <2>5, <2>6, <2>7 DEF IInv
<1>3. QED BY <1>1, <1>2 DEF LoadResume, Errors

LEMMA BindStep == ASSUME IInv, Bind PROVE IInv'
<1>1. CASE SetupFails("configuration") /\ UNCHANGED <<group, cleanup>>
  BY <1>1, SetupFailsStep DEF Bind, Setup, Errors
<1>2. CASE /\ kind = "parent" => Bindable
           /\ group' = IF kind # "parent" \/ group # Nothing THEN group
                       ELSE [limits |-> req.config.limits, spent |-> 0]
           /\ ctx' = [ctx EXCEPT !.grouped = kind = "parent"]
           /\ cleanup' = ~req.resume
           /\ pc' = "begin"
           /\ UNCHANGED <<err, refused>>
  <2>0. /\ ctx \in Contexts /\ req.resume \in BOOLEAN /\ req.config \in Configs /\ Entered
        /\ ~refused /\ err = Nothing /\ cleanup = FALSE
    BY DEF IInv, Requested, Bind, Entered, Placed, Setup
  <2>9. /\ ctx' \in Contexts /\ ctx'.lease = ctx.lease /\ ctx'.tenant = ctx.tenant
        /\ ctx'.session = ctx.session /\ ctx'.engine = ctx.engine
        /\ ctx'.history = ctx.history /\ ctx'.init = ctx.init
        /\ ctx'.state = ctx.state /\ ctx'.grouped = (kind = "parent")
    <3>1. ctx' \in Contexts BY <1>2, <2>0, WithFields
    <3>2. QED BY <1>2, <2>0, <3>1 DEF Contexts
  <2>11. kind = "parent" => group' # Nothing
    <3>1. CASE group # Nothing BY <1>2, <3>1
    <3>2. CASE kind = "parent" /\ group = Nothing
      <4>1. group' = [limits |-> req.config.limits, spent |-> 0] BY <1>2, <3>2
      <4>2. group' \in Groups BY <2>0, <4>1 DEF Groups
      <4>3. QED BY <4>2, BindingAssumption
    <3>3. QED BY <3>1, <3>2
  <2>10. group' = group \/ (group' # Nothing /\ group' \in Groups /\ group'.spent = 0 /\ ~req.resume
                             /\ kind = "parent" /\ group = Nothing)
    <3>1. CASE kind # "parent" \/ group # Nothing BY <1>2, <3>1
    <3>2. CASE kind = "parent" /\ group = Nothing
      <4>1. group' = [limits |-> req.config.limits, spent |-> 0] BY <1>2, <3>2
      <4>2. group' \in Groups BY <2>0, <4>1 DEF Groups
      <4>3. ~req.resume BY <1>2, <2>0, <3>2 DEF Bindable, IInv, Admitted, Bind
      <4>4. QED BY <3>2, <4>1, <4>2, <4>3, BindingAssumption
    <3>3. QED BY <3>1, <3>2
  <2>1. Placed' BY <1>2, <2>0 DEF IInv, Placed, Bind, stable, Setup, Labels
  <2>2. Requested' BY <1>2, <2>0, <2>9 DEF IInv, Requested, Bind, stable, Setup
  <2>3. Admitted'
    <3>1. UNCHANGED <<kind, req, before, owner, leases>> BY DEF Bind, stable
    <3>2. SameRun(owner, req) => SameRun(owner', req') BY <3>1
    <3>4. QED BY <1>2, <2>0, <2>9, <2>11, <3>1, <3>2 DEF IInv, Admitted
  <2>4. Kept' BY <1>2 DEF IInv, Kept, Bind, stable
  <2>5. Recorded' BY <1>2 DEF IInv, Recorded, Bind, stable, Setup
  <2>6. Spent' BY <1>2, <2>0, <2>10 DEF IInv, Spent, Bind, stable, Requested, Setup
  <2>7. ClaimKept' BY <1>2 DEF ClaimKept
  <2>8. QED BY <2>1, <2>2, <2>3, <2>4, <2>5, <2>6, <2>7 DEF IInv
<1>3. QED BY <1>1, <1>2 DEF Bind

LEMMA BeginStep == ASSUME IInv, Begin PROVE IInv'
<1>1. Placed' BY DEF IInv, Begin, Placed, stable, Labels, Setup
<1>2. Requested' BY DEF IInv, Begin, Requested, stable, Setup, Own, Snapshot, Contexts
<1>3. Admitted' BY DEF IInv, Begin, Admitted, stable, Entered, Placed
<1>4. Kept' BY DEF IInv, Begin, Kept, stable
<1>5. Recorded' BY DEF IInv, Begin, Recorded, stable
<1>6. Spent' BY DEF IInv, Begin, Spent, stable
<1>7. ClaimKept' BY DEF Begin, ClaimKept
<1>8. QED BY <1>1, <1>2, <1>3, <1>4, <1>5, <1>6, <1>7 DEF IInv

-----------------------------------------------------------------------------
(* Execution: what the engine saves, and what a failure does.               *)
LEMMA ReserveStep == ASSUME IInv, Reserve PROVE IInv'
<1>1. Placed' BY BindingAssumption DEF IInv, Reserve, Placed, stable, Labels, Setup, Errors
<1>2. Requested' BY DEF IInv, Reserve, Requested, stable, Setup
<1>3. Admitted'
  BY BindingAssumption DEF IInv, Reserve, stable, Own, Requested, Admitted, Spent, Entered,
     SameRun, Groups
<1>4. Kept'
  <2>0. /\ ctx \in Contexts /\ ~refused /\ ctx.history /\ (ctx.init => ctx.state)
    BY DEF IInv, Requested, Placed, Admitted, Entered, Setup, Reserve
  <2>1. CASE saved' = Snapshot(ctx) /\ owner' = Own(ctx)
    BY <2>0, <2>1, Keeping DEF IInv, Reserve, stable
  <2>2. CASE saved' = saved /\ owner' = owner
    BY <2>2 DEF IInv, Kept, Reserve, stable
  <2>3. QED BY <2>1, <2>2 DEF Reserve
<1>5. Recorded'
  BY DEF IInv, Reserve, Recorded, stable, Setup, Placed, Entered, Requested, Admitted,
     Snapshot, Contexts
<1>6. Spent' BY DEF IInv, Reserve, Spent, stable, Entered, Admitted, Groups
<1>7. ClaimKept' BY DEF Reserve, ClaimKept
<1>8. QED BY <1>1, <1>2, <1>3, <1>4, <1>5, <1>6, <1>7 DEF IInv

LEMMA InitializeStep == ASSUME IInv, Initialize PROVE IInv'
<1>1. Placed' BY BindingAssumption DEF IInv, Initialize, Placed, stable, Labels, Setup, Errors
<1>2. Requested'
  <2>0. ctx \in Contexts BY DEF IInv, Requested, Initialize
  <2>1. ctx' = [ctx EXCEPT !.init = TRUE, !.state = TRUE] \/ ctx' = [ctx EXCEPT !.state = TRUE]
    BY DEF Initialize
  <2>2. ctx' \in Contexts BY <2>0, <2>1, WithFields
  <2>3. ctx'.session = ctx.session /\ ctx'.engine = ctx.engine /\ ctx'.lease = ctx.lease
    BY <2>0, <2>1 DEF Contexts
  <2>4. QED BY <2>2, <2>3 DEF IInv, Requested, Initialize, stable, Setup
<1>3. Admitted'
  <2>0. ctx \in Contexts BY DEF IInv, Requested, Initialize
  <2>1. ctx' = [ctx EXCEPT !.init = TRUE, !.state = TRUE] \/ ctx' = [ctx EXCEPT !.state = TRUE]
    BY DEF Initialize
  <2>2. /\ ctx'.tenant = ctx.tenant /\ ctx'.spec = ctx.spec /\ ctx'.ref = ctx.ref
        /\ ctx'.grouped = ctx.grouped /\ ctx'.history = ctx.history /\ ctx'.state
    BY <2>0, <2>1 DEF Contexts
  <2>3. owner' = owner \/ SameRun(owner', req')
    <3>1. CASE owner' = Own(ctx)
      <4>1. SameRun(Own(ctx), req)
        BY <2>0, OwnFields DEF IInv, Admitted, Requested, Kept, Entered, Initialize
      <4>2. QED BY <3>1, <4>1 DEF SameRun, Initialize, stable
    <3>2. QED BY <3>1 DEF Initialize
  <2>4. QED BY <2>2, <2>3 DEF IInv, Admitted, Entered, Initialize, stable, SameRun, Placed
<1>4. Kept'
  <2>0. /\ ctx \in Contexts /\ ~refused /\ ctx.history
    BY DEF IInv, Requested, Placed, Admitted, Entered, Setup, Initialize
  <2>1. CASE saved' = saved /\ owner' = owner
    BY <2>1 DEF IInv, Kept, Initialize, stable
  <2>2. ASSUME NEW c, saved' = Snapshot(c), owner' = Own(ctx),
               \/ c = [ctx EXCEPT !.init = TRUE, !.state = TRUE]
               \/ c = [[ctx EXCEPT !.state = TRUE] EXCEPT !.init = TRUE]
        PROVE  Kept'
    <3>1. c \in Contexts BY <2>0, <2>2, WithFields
    <3>2. /\ c.session = ctx.session /\ c.tenant = ctx.tenant
          /\ c.engine = ctx.engine /\ c.ref = ctx.ref /\ c.grouped = ctx.grouped
          /\ c.history = ctx.history /\ c.state
      BY <2>0, <2>2 DEF Contexts
    <3>3. QED BY <2>0, <2>2, <3>1, <3>2, Keeping DEF IInv, Initialize, stable
  <2>3. QED BY <2>1, <2>2 DEF Initialize
<1>5. Recorded'
  <2>0. ctx \in Contexts /\ ~refused BY DEF IInv, Requested, Initialize, Placed
  <2>1. saved' = saved \/ saved'.state
    BY <2>0 DEF Initialize, Snapshot, Contexts
  <2>2. QED BY <2>0, <2>1 DEF IInv, Recorded, Initialize, stable, Setup, Placed
<1>6. Spent' BY DEF IInv, Initialize, Spent, stable
<1>7. ClaimKept' BY DEF Initialize, ClaimKept
<1>8. QED BY <1>1, <1>2, <1>3, <1>4, <1>5, <1>6, <1>7 DEF IInv

LEMMA RestoreStep == ASSUME IInv, Restore PROVE IInv'
<1>1. Placed' BY BindingAssumption DEF IInv, Restore, Placed, stable, Labels, Setup, Errors
<1>2. Requested' BY DEF IInv, Restore, Requested, stable, Setup
<1>3. Admitted' BY DEF IInv, Restore, Admitted, stable, Entered
<1>4. Kept' BY DEF IInv, Restore, Kept, stable
<1>5. Recorded' BY DEF IInv, Restore, Recorded, stable, Setup
<1>6. Spent' BY DEF IInv, Restore, Spent, stable
<1>7. ClaimKept' BY DEF Restore, ClaimKept
<1>8. QED BY <1>1, <1>2, <1>3, <1>4, <1>5, <1>6, <1>7 DEF IInv

LEMMA StepStep == ASSUME IInv, Step PROVE IInv'
<1>1. Placed' BY DEF IInv, Step, Placed, stable
<1>2. Requested' BY DEF IInv, Step, Requested, stable, Setup, Contexts, Kept, Errors
<1>3. Admitted' BY DEF IInv, Step, Admitted, stable, Entered, Requested, SameRun, Own
<1>4. Kept'
  <2>0. /\ ctx \in Contexts /\ ~refused /\ ctx.history /\ (ctx.init => ctx.state)
    BY DEF IInv, Requested, Placed, Admitted, Entered, Setup, Step
  <2>1. PICK y \in {"resumable", "manual"} : ctx' = [ctx EXCEPT !.safety = y, !.status = "running"]
    BY DEF Step
  <2>2. ctx' \in Contexts BY <2>0, <2>1, WithFields
  <2>3. /\ ctx'.session = ctx.session /\ ctx'.tenant = ctx.tenant
        /\ ctx'.engine = ctx.engine /\ ctx'.ref = ctx.ref /\ ctx'.grouped = ctx.grouped
        /\ ctx'.history = ctx.history /\ ctx'.init = ctx.init /\ ctx'.state = ctx.state
    BY <2>0, <2>1 DEF Contexts
  <2>4. saved' = Snapshot(ctx') /\ owner' = Own(ctx) BY DEF Step
  <2>5. QED BY <2>0, <2>2, <2>3, <2>4, Keeping DEF IInv, Step, stable
<1>5. Recorded' BY DEF IInv, Step, Recorded, Placed, Entered, Admitted, Snapshot
<1>6. Spent' BY DEF IInv, Step, Spent, stable
<1>7. ClaimKept' BY DEF Step, ClaimKept
<1>8. QED BY <1>1, <1>2, <1>3, <1>4, <1>5, <1>6, <1>7 DEF IInv

LEMMA CompleteStep == ASSUME IInv, Complete PROVE IInv'
<1>1. Placed' BY DEF IInv, Complete, Placed, stable, Labels, Setup
<1>2. Requested' BY DEF Complete, Requested
<1>3. Admitted' BY DEF Complete, Admitted, Entered
<1>4. Kept'
  <2>0. /\ ctx \in Contexts /\ ~refused /\ ctx.history /\ (ctx.init => ctx.state)
    BY DEF IInv, Requested, Placed, Admitted, Entered, Setup, Complete
  <2>1. CASE saved' = Snapshot([ctx EXCEPT !.status = "completed"]) /\ owner' = Own(ctx)
    <3> DEFINE c == [ctx EXCEPT !.status = "completed"]
    <3>1. c \in Contexts BY <2>0, WithFields
    <3>2. /\ c.session = ctx.session /\ c.tenant = ctx.tenant
          /\ c.engine = ctx.engine /\ c.ref = ctx.ref /\ c.grouped = ctx.grouped
          /\ c.history = ctx.history /\ c.init = ctx.init /\ c.state = ctx.state
      BY <2>0 DEF Contexts
    <3>3. saved' = Snapshot(c) /\ owner' = Own(ctx) BY <2>1
    <3> HIDE DEF c
    <3>4. QED BY <2>0, <3>1, <3>2, <3>3, Keeping DEF IInv, Complete, stable
  <2>2. CASE saved' \in {Nothing, saved} /\ owner' = owner
    BY <2>2 DEF IInv, Kept, Complete, stable
  <2>3. QED BY <2>1, <2>2 DEF Complete
<1>5. Recorded'
  <2>0. ctx \in Contexts /\ ctx.state
    BY DEF IInv, Requested, Placed, Admitted, Entered, Setup, Complete
  <2>1. saved' \in {Nothing, saved} \/ saved'.state
    BY <2>0 DEF Complete, Snapshot, Contexts
  <2>2. QED BY <2>1 DEF IInv, Complete, Recorded, Setup, Placed, stable
<1>6. Spent' BY DEF IInv, Complete, Spent, stable
<1>7. ClaimKept' BY BindingAssumption DEF IInv, Complete, ClaimKept, Placed, Entered
<1>8. QED BY <1>1, <1>2, <1>3, <1>4, <1>5, <1>6, <1>7 DEF IInv

LEMMA TroubleStep == ASSUME IInv, Trouble PROVE IInv'
<1>1. Placed' BY BindingAssumption DEF IInv, Trouble, Placed, stable, Labels, Setup, Errors
<1>2. Requested' BY DEF IInv, Trouble, Requested, stable, Setup, Own, Snapshot, Contexts
<1>3. Admitted' BY DEF IInv, Trouble, Admitted, stable, Entered
<1>4. Kept' BY DEF IInv, Trouble, Kept, stable
<1>5. Recorded' BY DEF IInv, Trouble, Recorded, stable, Setup
<1>6. Spent' BY DEF IInv, Trouble, Spent, stable
<1>7. ClaimKept' BY DEF Trouble, ClaimKept
<1>8. QED BY <1>1, <1>2, <1>3, <1>4, <1>5, <1>6, <1>7 DEF IInv

LEMMA HandleStep == ASSUME IInv, Handle PROVE IInv'
<1>1. Placed' BY DEF IInv, Handle, Placed, stable, Labels, Setup
<1>2. Requested' BY DEF Handle, Requested
<1>3. Admitted' BY DEF Handle, Admitted, Entered
<1>4. Kept'
  <2>1. CASE saved' = saved /\ owner' = owner
    BY <2>1 DEF IInv, Kept, Handle, stable
  <2>2. ASSUME NEW x \in {"cancelled", "failed"}, NEW c, c = [ctx EXCEPT !.status = x], cleanup,
               saved' = Snapshot(c), owner' = Own(c)
        PROVE  Kept'
    <3>0. /\ ctx \in Contexts /\ ~refused /\ ctx.history /\ (ctx.init => ctx.state)
      BY <2>2 DEF IInv, Requested, Placed, Admitted, Entered, Setup, Handle
    <3>1. c \in Contexts BY <2>2, <3>0, WithFields
    <3>2. /\ c.session = ctx.session /\ c.tenant = ctx.tenant
          /\ c.engine = ctx.engine /\ c.ref = ctx.ref /\ c.grouped = ctx.grouped
          /\ c.history = ctx.history /\ c.init = ctx.init /\ c.state = ctx.state
      BY <2>2, <3>0 DEF Contexts
    <3>3. Own(c) = Own(ctx) BY <3>2 DEF Own
    <3>4. QED BY <2>2, <3>0, <3>1, <3>2, <3>3, Keeping DEF IInv, Handle, stable
  <2>3. QED BY <2>1, <2>2 DEF Handle
<1>5. Recorded'
  BY DEF IInv, Handle, Recorded, stable, Setup, Placed, Entered, Requested, Admitted,
     Snapshot, Contexts
<1>6. Spent' BY DEF IInv, Handle, Spent, stable
<1>7. ClaimKept'
  <2>1. SUFFICES ASSUME claim' = TRUE, ~refused', ~missed', cleanup'
                 PROVE  ClaimKept!2'
    BY DEF ClaimKept
  <2>2. /\ ctx \in Contexts /\ ~refused /\ cleanup /\ err # "cancelled" /\ Claims
    BY <2>1, BindingAssumption DEF IInv, Requested, Handle
  <2>3. /\ ctx.session = req.session /\ ctx.tenant = req.tenant
        /\ ctx.engine = req.config.engine /\ ctx.lease = req.lease
        /\ ctx.spec = req.config.spec /\ ctx.ref = req.config.def
        /\ ctx.safety \in {"resumable", "terminal"}
        /\ (kind = "child") = (req.lease # Nothing)
    BY <2>2 DEF IInv, Requested, Admitted, Entered, Handle, Claims
  <2>4. saved' = Snapshot([ctx EXCEPT !.status = "failed"])
    BY <2>1, <2>2 DEF Handle
  <2> DEFINE c == [ctx EXCEPT !.status = "failed"]
  <2>5. c \in Contexts /\ c.status = "failed"
    <3>1. c \in Contexts BY <2>2, WithFields
    <3>2. c.status = "failed" BY <2>2 DEF Contexts
    <3>3. QED BY <3>1, <3>2
  <2>6. /\ c.session = ctx.session /\ c.tenant = ctx.tenant /\ c.engine = ctx.engine
        /\ c.spec = ctx.spec /\ c.ref = ctx.ref /\ c.safety = ctx.safety
    BY <2>2 DEF Contexts
  <2>7. saved' = Snapshot(c) BY <2>4
  <2> HIDE DEF c
  <2>8. QED BY <2>3, <2>5, <2>6, <2>7, SnapshotFields DEF Handle, stable
<1>8. QED BY <1>1, <1>2, <1>3, <1>4, <1>5, <1>6, <1>7 DEF IInv

-----------------------------------------------------------------------------
(* What happens around the process.                                         *)
LEMMA CrashStep == ASSUME IInv, Crash PROVE IInv'
<1>1. Placed' BY DEF IInv, Crash, Placed, stable, Labels, Setup
<1>2. Requested' BY DEF Crash, Requested
<1>3. Admitted' BY DEF Crash, Admitted, Entered
<1>4. Kept' BY DEF IInv, Crash, Kept, stable
<1>5. Recorded' BY DEF IInv, Crash, Recorded, stable, Setup
<1>6. Spent' BY DEF IInv, Crash, Spent, stable
<1>7. ClaimKept' BY BindingAssumption DEF Crash, ClaimKept
<1>8. QED BY <1>1, <1>2, <1>3, <1>4, <1>5, <1>6, <1>7 DEF IInv

LEMMA AskStep ==
    ASSUME IInv, NEW r \in Requests, Ask(r)
    PROVE  IInv'
<1>0. /\ r.session \in Sessions /\ r.tenant \in Tenants \cup {Nothing}
      /\ r.config \in Configs /\ r.lease \in Leases \cup {Nothing}
      /\ r.resume \in BOOLEAN /\ (~r.resume => ~Resuming) /\ (kind # "child" => r.lease = Nothing)
  BY BindingAssumption DEF Requests, Resuming
<1>1. Placed' BY DEF IInv, Ask, Placed, Labels, Setup
<1>2. Requested'
  <2>1. /\ Blank(r) \in Contexts /\ Blank(r).session = r.session
        /\ Blank(r).engine = r.config.engine /\ Blank(r).lease = r.lease /\ ~Blank(r).init
    BY <1>0 DEF Blank, Contexts
  <2>2. ~r.resume => saved = Nothing /\ reserved = 0 /\ owner = Nothing
    BY <1>0 DEF IInv, Spent, Resuming
  <2>3. QED BY <1>0, <2>1, <2>2 DEF Ask, Requested
<1>3. Admitted' BY DEF Ask, Admitted, Entered
<1>4. Kept' BY DEF IInv, Ask, Kept
<1>5. Recorded' BY DEF Ask, Recorded
<1>6. Spent' BY DEF IInv, Ask, Spent
<1>7. ClaimKept' BY DEF Ask, ClaimKept
<1>8. QED BY <1>1, <1>2, <1>3, <1>4, <1>5, <1>6, <1>7 DEF IInv

LEMMA LeaseStep ==
    ASSUME IInv, NEW l \in Leases, Lease(l)
    PROVE  IInv'
<1>1. Placed' BY DEF IInv, Lease, Placed, stable
<1>2. Requested' BY DEF Lease, Requested
<1>3. Admitted' BY DEF IInv, Placed, Lease, Admitted, Entered
<1>4. Kept' BY DEF IInv, Lease, Kept, stable
<1>5. Recorded' BY DEF IInv, Lease, Recorded, stable
<1>6. Spent' BY DEF IInv, Lease, Spent, stable
<1>7. ClaimKept' BY DEF IInv, Lease, ClaimKept, stable
<1>8. QED BY <1>1, <1>2, <1>3, <1>4, <1>5, <1>6, <1>7 DEF IInv

LEMMA RunStays == ASSUME IInv, UNCHANGED bindVars PROVE IInv'
<1>1. Placed' BY DEF IInv, bindVars, Placed
<1>2. Requested' BY DEF IInv, bindVars, Requested
<1>3. Admitted' BY DEF IInv, bindVars, Admitted, Entered, SameRun
<1>4. Kept' BY DEF IInv, bindVars, Kept
<1>5. Recorded' BY DEF IInv, bindVars, Recorded
<1>6. Spent' BY DEF IInv, bindVars, Spent
<1>7. ClaimKept' BY DEF IInv, bindVars, ClaimKept
<1>8. QED BY <1>1, <1>2, <1>3, <1>4, <1>5, <1>6, <1>7 DEF IInv

-----------------------------------------------------------------------------
(* The invariant holds at first, and the property follows from it.          *)
LEMMA BindingInit == Init => IInv
<1> SUFFICES ASSUME Init PROVE IInv
  OBVIOUS
<1>1. CASE saved = Nothing
  <2>0. talk = FALSE BY <1>1 DEF Init
  <2>1. Placed
    <3>1. /\ kind \in {"root", "parent", "child"} /\ pc = "idle" /\ err = Nothing
          /\ refused = FALSE /\ cleanup = FALSE /\ missed = FALSE
      BY DEF Init
    <3>2. QED BY <2>0, <3>1 DEF Placed, Labels, Setup
  <2>2. Requested /\ Admitted /\ ClaimKept
    BY BindingAssumption DEF Init, Requested, Admitted, Entered, ClaimKept
  <2>3. Kept /\ Recorded /\ Spent BY <1>1 DEF Init, Kept, Recorded, Spent, Setup
  <2>4. QED BY <2>1, <2>2, <2>3 DEF IInv
<1>2. ASSUME NEW c \in Configs, NEW k \in {d.spec : d \in Configs} \cup {Nothing},
             saved = Legacy(Home, c, k), kind = "root"
      PROVE  IInv
  <2>1. Placed BY <1>2 DEF Init, Placed, Labels, Setup
  <2>2. Requested /\ Admitted /\ ClaimKept
    BY BindingAssumption DEF Init, Requested, Admitted, Entered, ClaimKept
  <2>3. /\ saved \in Contexts /\ saved.history /\ saved.state /\ saved.session = Home
        /\ saved.tenant = Nothing /\ saved.engine = c.engine /\ saved.ref = Nothing
    BY <1>2, BindingAssumption DEF Legacy, Blank, Contexts
  <2>4. saved # Nothing BY <2>3, BindingAssumption
  <2>5. owner = [session |-> Home, tenant |-> Nothing, def |-> Nothing, engine |-> c.engine]
    BY <2>3, <2>4 DEF Init
  <2>6. owner \in Owners BY <2>5, BindingAssumption DEF Owners
  <2>7. owner # Nothing BY <2>6, BindingAssumption
  <2>8. Kept BY <1>2, <2>3, <2>4, <2>5, <2>6, <2>7 DEF Kept
  <2>9. Recorded /\ Spent BY <2>3, <2>4 DEF Init, Recorded, Spent, Setup
  <2>10. QED BY <2>1, <2>2, <2>8, <2>9 DEF IInv
<1>3. QED BY <1>1, <1>2 DEF Init

LEMMA BindingFollows == IInv => BindingSound
<1> SUFFICES ASSUME IInv PROVE BindingSound
  OBVIOUS
<1>1. Bound BY DEF IInv, Bound, Executing, Admitted, Entered, SameRun
<1>2. RefusedLeavesNothing BY DEF IInv, RefusedLeavesNothing, Recorded
<1>3. Bootstrapped BY DEF IInv, Bootstrapped, Admitted, Entered, Kept
<1>4. BudgetKept BY DEF IInv, BudgetKept, Executing, Admitted, Entered, Spent
<1>5. ClaimAccepted
  <2> SUFFICES ASSUME pc = "idle", claim = TRUE, ~refused, ~missed, cleanup,
                      kind = "child" => leases[req.lease] = "active"
               PROVE  saved # Nothing /\ Accepts(saved, req)
    BY DEF ClaimAccepted
  <2>1. /\ saved # Nothing
        /\ saved.session = req.session /\ saved.tenant = req.tenant
        /\ saved.engine = req.config.engine
        /\ saved.spec = req.config.spec /\ saved.ref = req.config.def
        /\ saved.safety \in {"resumable", "terminal"} /\ saved.status = "failed"
        /\ (kind = "child") = (req.lease # Nothing)
    BY DEF IInv, ClaimKept
  <2>2. Pinned(saved, req.config) BY <2>1 DEF Pinned
  <2>3. LeaseHolds(saved, req.lease) BY <2>1 DEF LeaseHolds
  <2>4. QED BY <2>1, <2>2, <2>3 DEF Accepts
<1>6. QED BY <1>1, <1>2, <1>3, <1>4, <1>5 DEF BindingSound

(* Over any sequence of requests, setup failures, crashes and ledgers lost  *)
(* with their process (_run, _load_resume, _bind_delegation_runtime and the *)
(* handlers): a run executes for its session, tenant, engine and definition *)
(* only; a request refused during setup leaves nothing; no engine runs on   *)
(* a state that was not initialized; a parent spends on from its group and  *)
(* an interrupted child only under its lease; and what is called resumable  *)
(* after a sound setup and a written checkpoint is accepted again.          *)
THEOREM RunIsBound == Spec => []BindingSound
<1>1. Init => IInv BY BindingInit
<1>2. IInv /\ [Next]_bindVars => IInv'
  <2> SUFFICES ASSUME IInv, [Next]_bindVars PROVE IInv'
    OBVIOUS
  <2>1. ASSUME NEW r \in Requests, Ask(r) PROVE IInv' BY <2>1, AskStep
  <2>2. CASE Identify BY <2>2, IdentifyStep
  <2>3. CASE LoadHistory BY <2>3, LoadHistoryStep
  <2>4. CASE LoadResume BY <2>4, LoadResumeStep
  <2>5. CASE Bind BY <2>5, BindStep
  <2>6. CASE Begin BY <2>6, BeginStep
  <2>7. CASE Reserve BY <2>7, ReserveStep
  <2>8. CASE Initialize BY <2>8, InitializeStep
  <2>9. CASE Restore BY <2>9, RestoreStep
  <2>10. CASE Step BY <2>10, StepStep
  <2>11. CASE Complete BY <2>11, CompleteStep
  <2>12. CASE Trouble BY <2>12, TroubleStep
  <2>13. CASE Handle BY <2>13, HandleStep
  <2>14. CASE Crash BY <2>14, CrashStep
  <2>15. ASSUME NEW l \in Leases, Lease(l) PROVE IInv' BY <2>15, LeaseStep
  <2>16. CASE UNCHANGED bindVars BY <2>16, RunStays
  <2>17. QED BY <2>1, <2>2, <2>3, <2>4, <2>5, <2>6, <2>7, <2>8, <2>9, <2>10, <2>11, <2>12,
               <2>13, <2>14, <2>15, <2>16 DEF Next
<1>3. IInv => BindingSound BY BindingFollows
<1>4. QED BY <1>1, <1>2, <1>3, PTL DEF Spec
-----------------------------------------------------------------------------
(***************************************************************************)
(* The checkpoint stores.  A payload older than the one under the newest   *)
(* version expires no later, because every save and every copy renews that *)
(* key and an import brings a payload that is newer still; so while the    *)
(* workers take turns, what is older than the checkpoint that was read     *)
(* lies under one that is not, and expires first.  What a load in          *)
(* the middle of its commands knows of the keys it has passed closes the   *)
(* induction.                                                              *)
(***************************************************************************)

Deleting == {"delete v4", "delete legacy"}

(* What the checkpoint stores keep, and the numbers that bound it. *)
StoresTyped ==
    /\ StoresTypeOK
    /\ engine \in {"memory", "redis"} /\ alone \in BOOLEAN /\ torn \in BOOLEAN
    /\ serial \in 1..MaxSaves /\ clock \in 0..MaxTime /\ loaded \in 0..serial
    /\ \A v \in Versions : slots[v] <= serial /\ gone[v] <= clock + Ttl
    /\ \A w \in Workers : op[w].seen <= serial
    /\ \A w \in Workers : op[w].step \in {"write", "verify"} => op[w].seen # Missing

(* Everything the in-memory store does is one operation. *)
MemoryRests ==
    engine = "memory" => /\ \A w \in Workers : op[w] = Quiet
                         /\ slots["v4"] = Missing
                         /\ OneLifetime

(* Who takes turns is alone in the middle of an operation. *)
TakingTurns ==
    alone => \A w, x \in Workers : op[w] # Quiet /\ op[x] # Quiet => w = x

(* The newest version outlives whatever is older than it. *)
NewestLasts ==
    \A u \in Versions : slots[u] # Missing /\ slots[u] < slots["v5"] => gone[u] <= gone["v5"]

(* While the workers take turns: what is older than the checkpoint that was *)
(* read lies under one that is not.                                         *)
Whole == alone /\ ~torn /\ \A w \in Workers : op[w].step \notin Deleting

ReadIsCovered ==
    Whole => \A u \in Versions :
        slots[u] # Missing /\ slots[u] < loaded =>
            slots["v5"] >= loaded /\ gone[u] <= gone["v5"]

(* What a load has looked at, and what it is about to copy. *)
LoadKnows(w) ==
    /\ op[w].step \in {"v4", "legacy"} => Live("v5") = Missing
    /\ op[w].step = "legacy" => Live("v4") = Missing
    /\ op[w].step = "write" /\ ~torn => op[w].seen >= loaded

StoresInv ==
    /\ StoresTyped /\ MemoryRests /\ TakingTurns /\ NewestLasts /\ ReadIsCovered
    /\ alone => \A w \in Workers : LoadKnows(w)
    /\ LoadsAreCurrent

(* The names and numbers that the provers would have to unfold each time. *)
LEMMA VersionNames == /\ Versions = {"v5", "v4", "legacy"} /\ Missing = 0
                      /\ "v5" # "v4" /\ "v5" # "legacy" /\ "v4" # "legacy"
  BY DEF Versions, Missing

(* The types, key by key and worker by worker. *)
LEMMA TypedFacts ==
    ASSUME StoresTyped
    PROVE  /\ Ttl \in Nat \ {0} /\ MaxSaves \in Nat \ {0} /\ MaxTime \in Nat
           /\ serial \in Nat /\ clock \in Nat /\ loaded \in Nat /\ loaded <= serial
           /\ \A v \in Versions : /\ slots[v] \in Nat /\ gone[v] \in Nat
                                  /\ slots[v] <= serial /\ gone[v] <= clock + Ttl
                                  /\ Live(v) \in {slots[v], 0}
                                  /\ Live(v) # 0 => gone[v] > clock
           /\ \A w \in Workers : op[w].seen \in Nat /\ op[w].seen <= serial
  <1>1. Ttl \in Nat \ {0} /\ MaxSaves \in Nat \ {0} /\ MaxTime \in Nat
    BY StoreBounds
  <1>2. serial \in Nat /\ clock \in Nat /\ loaded \in Nat /\ loaded <= serial
    BY <1>1 DEF StoresTyped
  <1>3. ASSUME NEW v \in Versions
        PROVE  /\ slots[v] \in Nat /\ gone[v] \in Nat
               /\ slots[v] <= serial /\ gone[v] <= clock + Ttl
    <2>1. slots \in [Versions -> 0..MaxSaves] /\ gone \in [Versions -> 0..MaxTime + Ttl]
      BY DEF StoresTyped, StoresTypeOK
    <2>2. slots[v] <= serial /\ gone[v] <= clock + Ttl
      BY DEF StoresTyped
    <2>3. slots[v] \in Nat
      BY <1>1, <2>1
    <2>4. gone[v] \in Nat
      BY <1>1, <2>1
    <2> QED
      BY <2>2, <2>3, <2>4
  <1>5. ASSUME NEW w \in Workers
        PROVE  op[w].seen \in Nat /\ op[w].seen <= serial
    <2>1. op[w].seen \in 0..MaxSaves
      BY DEF StoresTyped, StoresTypeOK
    <2> QED
      BY <1>1, <2>1 DEF StoresTyped
  <1>4. ASSUME NEW v \in Versions
        PROVE  Live(v) \in {slots[v], 0} /\ (Live(v) # 0 => gone[v] > clock)
    BY DEF Live, LiveIn, Missing
  <1> QED
    BY <1>1, <1>2, <1>3, <1>4, <1>5

(* What a worker is in the middle of. *)
Operation == [step : Versions \cup {"none", "write", "verify", "delete v5",
                                    "delete v4", "delete legacy"},
              seen : 0..MaxSaves]

Steps == {"v5", "v4", "legacy", "none", "write", "verify", "delete v5",
          "delete v4", "delete legacy"}

(* An operation, put together from its parts. *)
LEMMA OperationIs ==
    ASSUME NEW s \in Steps, NEW n \in 0..MaxSaves, NEW r, r = [step |-> s, seen |-> n]
    PROVE  r \in Operation /\ r.step = s /\ r.seen = n
  BY VersionNames DEF Operation, Steps

(* The flags, apart from the numbers. *)
LEMMA Booleans ==
    ASSUME StoresTyped
    PROVE  alone \in BOOLEAN /\ torn \in BOOLEAN
  BY DEF StoresTyped

(* The same types, variable by variable. *)
LEMMA StoreShapes ==
    ASSUME StoresTyped
    PROVE  /\ slots \in [Versions -> 0..MaxSaves] /\ gone \in [Versions -> 0..MaxTime + Ttl]
           /\ op \in [Workers -> Operation]
           /\ MaxSaves \in Nat /\ MaxTime + Ttl \in Nat /\ serial \in 1..MaxSaves
           /\ clock \in 0..MaxTime /\ clock + Ttl \in 0..(MaxTime + Ttl)
           /\ engine \in {"memory", "redis"}
  <1>1. serial \in 1..MaxSaves /\ clock \in 0..MaxTime /\ engine \in {"memory", "redis"}
    BY DEF StoresTyped
  <1>2. /\ slots \in [Versions -> 0..MaxSaves] /\ gone \in [Versions -> 0..MaxTime + Ttl]
        /\ op \in [Workers -> Operation]
    BY DEF StoresTyped, StoresTypeOK, Operation
  <1> QED
    BY <1>1, <1>2, StoreBounds

(* A worker turns to another step of its operation, and the keys stay. *)
LEMMA TurnTyped ==
    ASSUME StoresTyped, NEW w \in Workers, NEW r \in Operation, op' = [op EXCEPT ![w] = r],
           r.seen <= serial, r.step \in {"write", "verify"} => r.seen # Missing,
           loaded' \in 0..serial, torn' \in BOOLEAN,
           UNCHANGED <<engine, alone, slots, gone, clock, serial>>
    PROVE  StoresTyped'
  <1>1. op' \in [Workers -> Operation]
    BY StoreShapes
  <1>2. \A x \in Workers : op'[x] = IF x = w THEN r ELSE op[x]
    BY StoreShapes
  <1>3. \A x \in Workers : /\ op'[x].seen <= serial
                           /\ op'[x].step \in {"write", "verify"} => op'[x].seen # Missing
    BY <1>2 DEF StoresTyped
  <1>4. StoresTypeOK'
    BY <1>1, StoreShapes DEF StoresTypeOK, Operation
  <1> QED
    BY <1>3, <1>4 DEF StoresTyped

(* A write of a payload some worker holds keeps the types. *)
LEMMA PutTyped ==
    ASSUME StoresTyped, NEW v \in Versions, NEW n \in 0..serial', Put(v, n),
           serial' \in {serial, serial + 1}, serial' <= MaxSaves, op' \in [Workers -> Operation],
           \A x \in Workers : /\ op'[x].seen <= serial'
                              /\ op'[x].step \in {"write", "verify"} => op'[x].seen # Missing,
           UNCHANGED <<engine, alone, clock, loaded, torn>>
    PROVE  StoresTyped'
  <1>1. /\ Ttl \in Nat \ {0} /\ MaxSaves \in Nat \ {0} /\ MaxTime \in Nat
        /\ serial \in 1..MaxSaves /\ serial' \in 1..MaxSaves /\ serial <= serial'
        /\ clock \in 0..MaxTime
    BY TypedFacts DEF StoresTyped
  <1>2. clock + Ttl \in 0..(MaxTime + Ttl)
    BY <1>1
  <1>3. gone' \in [Versions -> 0..MaxTime + Ttl]
    BY <1>2 DEF Put, StoresTyped, StoresTypeOK
  <1>4. \A u \in Versions : gone'[u] <= clock' + Ttl
    BY <1>1, TypedFacts DEF Put
  <1>5. slots' \in [Versions -> 0..MaxSaves]
    <2>1. n \in 0..MaxSaves
      BY <1>1
    <2> QED
      BY <2>1 DEF Put, StoresTyped, StoresTypeOK
  <1>6. \A u \in Versions : slots'[u] <= serial'
    <2>1. slots \in [Versions -> 0..MaxSaves]
      BY DEF StoresTyped, StoresTypeOK
    <2>2. \A u \in Versions : slots'[u] = IF u = v THEN n ELSE slots[u]
      BY <2>1 DEF Put
    <2> QED
      BY <1>1, <2>2, TypedFacts
  <1>7. loaded' \in 0..serial'
    BY <1>1, TypedFacts
  <1>8. StoresTypeOK'
    BY <1>3, <1>5 DEF StoresTypeOK, Operation
  <1>9. engine' \in {"memory", "redis"}
    BY StoreShapes
  <1>11. alone' \in BOOLEAN /\ torn' \in BOOLEAN
    BY Booleans, Zenon
  <1>10. clock' \in 0..MaxTime
    BY StoreShapes
  <1> QED
    BY <1>1, <1>4, <1>6, <1>7, <1>8, <1>9, <1>10, <1>11 DEF StoresTyped

(* The checkpoint a load would find is not older than the one last read. *)
LEMMA FoundIsNew ==
    ASSUME StoresTyped, NewestLasts, ReadIsCovered, Whole, Found # Missing
    PROVE  Found >= loaded
  <1>1. PICK v \in Versions : /\ Found = Live(v) /\ Live(v) = slots[v] /\ gone[v] > clock
                              /\ v # "v5" => Live("v5") = Missing
    BY VersionNames DEF Found, FoundIn, Live, LiveIn
  <1>2. ASSUME slots[v] < loaded PROVE FALSE
    <2>1. slots["v5"] >= loaded /\ gone[v] <= gone["v5"] /\ v # "v5"
      BY <1>1, <1>2, TypedFacts, VersionNames DEF ReadIsCovered
    <2>2. Live("v5") = slots["v5"] /\ slots["v5"] # Missing
      BY <1>1, <1>2, <2>1, TypedFacts, VersionNames DEF Live, LiveIn
    <2> QED
      BY <1>1, <2>1, <2>2
  <1> QED
    BY <1>1, <1>2, TypedFacts

(* A save writes the newest version and renews it past all others. *)
LEMMA SaveKeeps ==
    ASSUME StoresInv, NEW w \in Workers, Save(w)
    PROVE  StoresInv'
  <1> USE VersionNames
  <1>1. /\ StoresTyped /\ serial' = serial + 1 /\ serial' <= MaxSaves
        /\ UNCHANGED <<engine, alone, clock, op, answer, loaded, torn>>
        /\ slots' = [slots EXCEPT !["v5"] = serial'] /\ Put("v5", serial')
    BY TypedFacts, StoreBounds DEF StoresInv, Save, Put
  <1>2. \A u \in Versions :
          gone'[u] = IF u = "v5" \/ (engine = "memory" /\ slots[u] # Missing)
                     THEN clock + Ttl ELSE gone[u]
    BY <1>1 DEF Put
  <1>3. /\ slots'["v5"] = serial + 1 /\ slots'["v4"] = slots["v4"]
        /\ slots'["legacy"] = slots["legacy"]
        /\ gone'["v5"] = clock + Ttl
    BY <1>1, <1>2 DEF StoresTyped, StoresTypeOK
  <1>4. StoresTyped'
    <2>1. op' \in [Workers -> Operation] /\ serial' \in 0..serial'
      BY <1>1, StoreShapes
    <2>2. \A x \in Workers : /\ op'[x].seen <= serial'
                             /\ op'[x].step \in {"write", "verify"} => op'[x].seen # Missing
      BY <1>1, TypedFacts DEF StoresTyped
    <2> QED
      BY <1>1, <2>1, <2>2, PutTyped
  <1>5. MemoryRests'
    BY <1>1, <1>2, <1>3 DEF StoresInv, MemoryRests, OneLifetime
  <1>6. TakingTurns' /\ LoadsAreCurrent'
    BY <1>1 DEF StoresInv, TakingTurns, LoadsAreCurrent
  <1>7. NewestLasts'
    BY <1>1, <1>2, <1>3, TypedFacts DEF NewestLasts
  <1>8. ReadIsCovered'
    BY <1>1, <1>2, <1>3, TypedFacts DEF ReadIsCovered
  <1>9. alone' => \A x \in Workers : LoadKnows(x)'
    <2>1. alone => \A x \in Workers : op'[x].step = "none"
      BY <1>1 DEF Save, MayStart, Quiet
    <2> QED
      BY <1>1, <2>1 DEF LoadKnows
  <1> QED
    BY <1>4, <1>5, <1>6, <1>7, <1>8, <1>9 DEF StoresInv

(* An import in memory leaves one version; in Redis it is the newest payload. *)
LEMMA ImportKeeps ==
    ASSUME StoresInv, NEW w \in Workers, Import(w)
    PROVE  StoresInv'
  <1> USE VersionNames
  <1>1. /\ StoresTyped /\ serial' = serial + 1 /\ serial' \in 1..MaxSaves
        /\ UNCHANGED <<engine, alone, clock, op, answer, loaded, torn>>
        /\ clock \in 0..MaxTime /\ loaded \in 0..serial
    <2>1. StoresTyped /\ serial < MaxSaves /\ serial' = serial + 1
      BY DEF StoresInv, Import
    <2> QED
      BY <2>1, TypedFacts DEF Import, StoresTyped
  <1>2. \/ engine = "redis" /\ Put("legacy", serial')
        \/ /\ engine = "memory"
           /\ slots' = [slots EXCEPT !["legacy"] = serial', !["v5"] = Missing]
           /\ gone' = [gone EXCEPT !["legacy"] = clock + Ttl, !["v5"] = 0]
    BY <1>1 DEF Import, StoresTyped
  <1>3. /\ slots \in [Versions -> 0..MaxSaves] /\ gone \in [Versions -> 0..MaxTime + Ttl]
    BY <1>1 DEF StoresTyped, StoresTypeOK
  <1>4. /\ slots'["legacy"] = serial + 1 /\ slots'["v4"] = slots["v4"]
        /\ gone'["legacy"] = clock + Ttl /\ gone'["v4"] = gone["v4"]
        /\ engine = "redis" => slots'["v5"] = slots["v5"] /\ gone'["v5"] = gone["v5"]
        /\ engine = "memory" => slots'["v5"] = Missing /\ gone'["v5"] = 0
    BY <1>1, <1>2, <1>3 DEF Put
  <1>5. StoresTyped'
    <2>1. CASE engine = "redis"
      <3>1. Put("legacy", serial') /\ serial' \in 0..serial' /\ serial' <= MaxSaves
        BY <1>1, <1>2, <2>1, TypedFacts
      <3>2. op' \in [Workers -> Operation]
        BY <1>1, StoreShapes
      <3>3. \A x \in Workers : /\ op'[x].seen <= serial'
                               /\ op'[x].step \in {"write", "verify"} => op'[x].seen # Missing
        BY <1>1, TypedFacts DEF StoresTyped
      <3> QED
        BY <1>1, <3>1, <3>2, <3>3, PutTyped
    <2>2. CASE engine = "memory"
      <3>1. /\ clock + Ttl \in 0..(MaxTime + Ttl) /\ 0 \in 0..(MaxTime + Ttl)
            /\ serial' \in 0..MaxSaves /\ 0 \in 0..MaxSaves
        BY <1>1, TypedFacts
      <3>2. slots' \in [Versions -> 0..MaxSaves] /\ gone' \in [Versions -> 0..MaxTime + Ttl]
        BY <1>2, <1>3, <2>2, <3>1
      <3>3. \A v \in Versions : slots'[v] <= serial' /\ gone'[v] <= clock' + Ttl
        BY <1>1, <1>4, <2>2, TypedFacts
      <3>4. /\ loaded' \in 0..serial' /\ clock' \in 0..MaxTime
            /\ \A x \in Workers : op'[x].seen <= serial'
        BY <1>1, TypedFacts
      <3> QED
        BY <1>1, <3>2, <3>3, <3>4 DEF StoresTyped, StoresTypeOK
    <2> QED
      BY <1>1, <2>1, <2>2 DEF StoresTyped
  <1>6. MemoryRests'
    BY <1>1, <1>4 DEF StoresInv, MemoryRests, OneLifetime
  <1>7. TakingTurns' /\ LoadsAreCurrent'
    BY <1>1 DEF StoresInv, TakingTurns, LoadsAreCurrent
  <1>8. NewestLasts'
    <2>1. CASE engine = "redis"
      BY <1>1, <1>4, <2>1, TypedFacts DEF NewestLasts, StoresInv
    <2>2. CASE engine = "memory"
      BY <1>1, <1>4, <2>2, TypedFacts DEF NewestLasts
    <2> QED
      BY <1>1, <2>1, <2>2 DEF StoresTyped
  <1>9. ReadIsCovered'
    <2> SUFFICES ASSUME Whole, NEW u \in Versions, slots'[u] # Missing, slots'[u] < loaded
                 PROVE  slots'["v5"] >= loaded /\ gone'[u] <= gone'["v5"]
      BY <1>1 DEF ReadIsCovered, Whole
    <2>1. u # "legacy"
      BY <1>1, <1>4, TypedFacts
    <2>2. CASE engine = "redis"
      BY <1>4, <2>1, <2>2 DEF ReadIsCovered, StoresInv
    <2>3. CASE engine = "memory"
      BY <1>4, <2>1, <2>3 DEF StoresInv, MemoryRests
    <2> QED
      BY <1>1, <2>2, <2>3 DEF StoresTyped
  <1>10. alone' => \A x \in Workers : LoadKnows(x)'
    <2>1. alone => \A x \in Workers : op'[x].step = "none"
      BY <1>1 DEF Import, MayStart, Quiet
    <2> QED
      BY <1>1, <2>1 DEF LoadKnows
  <1> QED
    BY <1>5, <1>6, <1>7, <1>8, <1>9, <1>10 DEF StoresInv

(* A load in memory leaves what it found, with the lifetime it had. *)
LEMMA LoadMemoryKeeps ==
    ASSUME StoresInv, NEW w \in Workers, LoadMemory(w)
    PROVE  StoresInv'
  <1> USE VersionNames
  <1> DEFINE best == IF Found > loaded THEN Found ELSE loaded
  <1>1. /\ StoresTyped /\ UNCHANGED <<engine, alone, clock, serial, op, torn>>
        /\ engine = "memory" /\ loaded' = best
        /\ slots' = [v \in Versions |-> IF v = "v5" THEN Found ELSE Live(v)]
        /\ gone' = [v \in Versions |-> IF Found = Missing THEN 0
                                       ELSE IF v = "v5" /\ Live(v) = Missing THEN gone["legacy"]
                                       ELSE gone[v]]
    BY DEF StoresInv, LoadMemory, Answers
  <1>2. /\ slots["v4"] = Missing /\ Live("v4") = Missing
        /\ \A x \in Workers : op[x] = Quiet
        /\ slots["v5"] # Missing /\ slots["legacy"] # Missing => gone["v5"] = gone["legacy"]
    BY <1>1 DEF StoresInv, MemoryRests, OneLifetime, Live, LiveIn
  <1>3. Found = IF Live("v5") # Missing THEN Live("v5") ELSE Live("legacy")
    BY <1>2 DEF Found, FoundIn, Live
  <1>4. /\ Found \in Nat /\ Found <= serial /\ loaded \in Nat /\ loaded <= serial
        /\ serial \in Nat /\ best \in 0..serial
    BY <1>1, <1>3, TypedFacts
  <1>5. /\ slots \in [Versions -> 0..MaxSaves] /\ gone \in [Versions -> 0..MaxTime + Ttl]
        /\ MaxSaves \in Nat /\ MaxTime + Ttl \in Nat /\ serial \in 1..MaxSaves
        /\ clock \in Nat /\ clock + Ttl \in Nat
    BY <1>1, StoreShapes, TypedFacts
  <1>6. \A u \in Versions : slots'[u] # Missing =>
            Found # Missing /\ slots'["v5"] = Found /\ gone'[u] = gone'["v5"]
    <2> SUFFICES ASSUME NEW u \in Versions, slots'[u] # Missing
                 PROVE  Found # Missing /\ slots'["v5"] = Found /\ gone'[u] = gone'["v5"]
      OBVIOUS
    <2>1. slots'["v5"] = Found
      BY <1>1
    <2>2. CASE u = "v5"
      BY <2>1, <2>2
    <2>3. CASE u = "legacy"
      <3>1. slots'["legacy"] = Live("legacy") /\ Live("legacy") # Missing
        BY <1>1, <2>3
      <3>2. Found # Missing /\ slots["legacy"] # Missing
        BY <1>3, <3>1 DEF Live, LiveIn
      <3>3. gone'["legacy"] = gone["legacy"]
        BY <1>1, <3>2
      <3>4. gone'["v5"] = gone["legacy"]
        BY <1>1, <1>2, <3>2 DEF Live, LiveIn
      <3> QED
        BY <2>1, <2>3, <3>2, <3>3, <3>4
    <2>4. CASE u = "v4"
      BY <1>1, <1>2, <2>4
    <2> QED
      BY <2>2, <2>3, <2>4
  <1>12. StoresTyped'
    <2>2. \A v \in Versions : Live(v) \in 0..MaxSaves /\ Live(v) <= serial
      BY <1>1, <1>5, TypedFacts
    <2>3. slots' \in [Versions -> 0..MaxSaves]
      <3>1. Found \in 0..MaxSaves
        BY <1>4, <1>5
      <3> QED
        BY <1>1, <2>2, <3>1
    <2>4. gone' \in [Versions -> 0..MaxTime + Ttl]
      BY <1>1, <1>5
    <2>5. \A v \in Versions : slots'[v] <= serial
      BY <1>1, <1>4, <2>2
    <2>6. \A v \in Versions : gone'[v] <= clock + Ttl
      <3> SUFFICES ASSUME NEW v \in Versions PROVE gone'[v] <= clock + Ttl
        OBVIOUS
      <3>1. gone'[v] \in {0, gone["legacy"], gone[v]}
        BY <1>1
      <3> QED
        BY <1>1, <1>5, <3>1, TypedFacts
    <2>7. loaded' \in 0..serial
      BY <1>1, <1>4
    <2> QED
      BY <1>1, <2>3, <2>4, <2>5, <2>6, <2>7 DEF StoresTyped, StoresTypeOK
  <1>7. MemoryRests'
    BY <1>1, <1>2, <1>6 DEF MemoryRests, OneLifetime
  <1>8. NewestLasts'
    <2>1. gone' \in [Versions -> 0..MaxTime + Ttl]
      BY <1>1, <1>5
    <2>2. gone'["v5"] \in Nat
      BY <1>5, <2>1
    <2> QED
      BY <1>6, <2>2 DEF NewestLasts
  <1>9. ReadIsCovered'
    <2> SUFFICES ASSUME Whole, NEW u \in Versions, slots'[u] # Missing
                 PROVE  slots'["v5"] >= best /\ gone'[u] <= gone'["v5"]
      BY <1>1 DEF ReadIsCovered, Whole
    <2>1. Found # Missing /\ slots'["v5"] = Found /\ gone'[u] = gone'["v5"]
      BY <1>6
    <2>2. Found >= loaded
      BY <2>1, FoundIsNew DEF StoresInv
    <2>3. gone'["v5"] \in Nat
      BY <1>1, TypedFacts
    <2> QED
      BY <1>4, <2>1, <2>2, <2>3
  <1>10. TakingTurns' /\ (alone' => \A x \in Workers : LoadKnows(x)')
    BY <1>1, <1>2 DEF TakingTurns, LoadKnows, Quiet
  <1>11. LoadsAreCurrent'
    <2>1. answer'.value = Found /\ answer'.now = FoundIn(slots', gone')
      BY DEF LoadMemory, Answers
    <2>2. FoundIn(slots', gone') = Found
      <3>1. CASE Found = Missing
        BY <1>1, <1>2, <1>3, <3>1 DEF FoundIn, LiveIn
      <3>2. CASE Found # Missing
        <4>1. gone'["v5"] > clock /\ slots'["v5"] = Found
          BY <1>1, <1>3, <3>2, TypedFacts
        <4>2. clock' = clock
          BY <1>1
        <4> QED
          BY <3>2, <4>1, <4>2 DEF FoundIn, LiveIn
      <3> QED
        BY <3>1, <3>2
    <2> QED
      BY <2>1, <2>2 DEF LoadsAreCurrent
  <1> QED
    BY <1>12, <1>7, <1>8, <1>9, <1>10, <1>11 DEF StoresInv

(* A delete under the lock leaves nothing to be covered. *)
LEMMA DeleteMemoryKeeps ==
    ASSUME StoresInv, NEW w \in Workers, DeleteMemory(w)
    PROVE  StoresInv'
  <1> USE VersionNames
  <1>1. /\ StoresTyped /\ UNCHANGED <<engine, alone, clock, serial, op, answer, torn>>
        /\ loaded' = 0 /\ engine = "memory"
        /\ slots' = [v \in Versions |-> 0] /\ gone' = [v \in Versions |-> 0]
        /\ \A x \in Workers : op[x] = Quiet
    BY DEF StoresInv, MemoryRests, DeleteMemory
  <1>2. \A v \in Versions : slots'[v] = 0 /\ gone'[v] = 0
    BY <1>1
  <1>3. StoresTyped'
    <2>1. slots' \in [Versions -> 0..MaxSaves] /\ gone' \in [Versions -> 0..MaxTime + Ttl]
      BY <1>1, StoreShapes
    <2>2. StoresTypeOK'
      BY <1>1, <2>1, StoreShapes DEF StoresTypeOK, Operation
    <2>3. loaded' \in 0..serial' /\ 0 <= serial' /\ 0 <= clock' + Ttl
      BY <1>1, StoreShapes, TypedFacts
    <2> QED
      BY <1>1, <1>2, <2>2, <2>3 DEF StoresTyped
  <1>4. MemoryRests' /\ NewestLasts'
    BY <1>1, <1>2 DEF MemoryRests, OneLifetime, NewestLasts
  <1>5. ReadIsCovered'
    BY <1>1, <1>2 DEF ReadIsCovered
  <1>6. TakingTurns' /\ LoadsAreCurrent' /\ \A x \in Workers : LoadKnows(x)'
    BY <1>1 DEF StoresInv, TakingTurns, LoadsAreCurrent, LoadKnows, Quiet
  <1> QED
    BY <1>3, <1>4, <1>5, <1>6 DEF StoresInv

(* Who goes on with an operation is the only one in the middle of one, while *)
(* the workers take turns.                                                   *)
LEMMA TurnsKept ==
    ASSUME StoresTyped, TakingTurns, NEW w \in Workers, MayStart(w) \/ op[w] # Quiet,
           NEW r \in Operation, op' = [op EXCEPT ![w] = r], alone' = alone
    PROVE  TakingTurns' /\ (alone => \A x \in Workers : x # w => op[x] = Quiet /\ op'[x] = Quiet)
  <1>1. \A x \in Workers : op'[x] = IF x = w THEN r ELSE op[x]
    BY StoreShapes
  <1>2. alone => \A x \in Workers : x # w => op[x] = Quiet
    BY DEF TakingTurns, MayStart
  <1> QED
    BY <1>1, <1>2 DEF TakingTurns

(* Where no key changes, neither does what is live. *)
LEMMA KeysStay ==
    ASSUME StoresInv, UNCHANGED <<engine, slots, gone, clock>>, engine = "redis"
    PROVE  MemoryRests' /\ NewestLasts' /\ \A v \in Versions : Live(v)' = Live(v)
  BY DEF StoresInv, MemoryRests, NewestLasts, Live, LiveIn

(* A load or a delete starts without having touched a key. *)
LEMMA BeginKeeps ==
    ASSUME StoresInv, NEW w \in Workers, StartLoad(w) \/ StartDelete(w)
    PROVE  StoresInv'
  <1> USE VersionNames
  <1>0. PICK s : s \in {"v5", "delete v5"} /\ op' = [op EXCEPT ![w] = [step |-> s, seen |-> 0]]
    BY DEF StartLoad, StartDelete, Quiet
  <1>1. PICK r : r = [step |-> s, seen |-> 0] /\ op' = [op EXCEPT ![w] = r]
    BY <1>0
  <1>2. /\ StoresTyped /\ TakingTurns /\ MayStart(w) /\ engine = "redis"
        /\ UNCHANGED <<engine, alone, slots, gone, clock, serial, answer, loaded, torn>>
    BY DEF StoresInv, StartLoad, StartDelete
  <1>3. r \in Operation /\ r.seen = 0 /\ r.step \in {"v5", "delete v5"}
    <2>1. 0 \in 0..MaxSaves
      BY StoreBounds
    <2>2. s \in Steps
      BY <1>0 DEF Steps
    <2> QED
      BY <1>0, <1>1, <2>1, <2>2, OperationIs
  <1>4. StoresTyped'
    <2>0. serial \in Nat /\ loaded \in Nat /\ loaded <= serial
      BY <1>2, TypedFacts
    <2>4. loaded' = loaded
      BY <1>2
    <2>5. r.seen = 0
      BY <1>3
    <2>1. r.seen <= serial /\ loaded' \in 0..serial
      BY <2>0, <2>4, <2>5
    <2>2. torn' \in BOOLEAN
      BY <1>2, Booleans
    <2>3. r.step \in {"write", "verify"} => r.seen # Missing
      BY <1>3
    <2> QED
      BY <1>1, <1>2, <1>3, <2>1, <2>2, <2>3, TurnTyped
  <1>5. /\ MemoryRests' /\ NewestLasts' /\ TakingTurns'
        /\ alone => \A x \in Workers : x # w => op'[x] = Quiet
    BY <1>1, <1>2, <1>3, KeysStay, TurnsKept
  <1>6. op[w].step = "none" /\ \A x \in Workers : op'[x] = IF x = w THEN r ELSE op[x]
    <2>1. op[w].step = "none"
      BY <1>2 DEF MayStart, Quiet
    <2>2. op \in [Workers -> Operation]
      BY <1>2, StoreShapes
    <2> QED
      BY <1>1, <2>1, <2>2
  <1>7. ReadIsCovered'
    <2>1. Whole' => Whole
      BY <1>2, <1>3, <1>6 DEF Whole, Deleting
    <2> QED
      BY <1>2, <2>1 DEF StoresInv, ReadIsCovered
  <1>8. LoadsAreCurrent'
    BY <1>2 DEF StoresInv, LoadsAreCurrent
  <1>9. alone' => \A x \in Workers : LoadKnows(x)'
    <2>1. alone => \A x \in Workers : op'[x].step \notin {"v4", "legacy", "write"}
      <3> SUFFICES ASSUME alone, NEW x \in Workers
                   PROVE  op'[x].step \notin {"v4", "legacy", "write"}
        OBVIOUS
      <3>1. CASE x = w
        BY <1>3, <1>6, <3>1
      <3>2. CASE x # w
        BY <1>5, <3>2 DEF Quiet
      <3> QED
        BY <3>1, <3>2
    <2> QED
      BY <1>2, <2>1 DEF LoadKnows
  <1> QED
    BY <1>4, <1>5, <1>7, <1>8, <1>9 DEF StoresInv

(* Only the Redis store is seen in the middle of an operation. *)
LEMMA BusyIsRedis ==
    ASSUME StoresInv, NEW w \in Workers, op[w] # Quiet
    PROVE  engine = "redis"
  <1>1. engine \in {"memory", "redis"}
    BY StoreShapes DEF StoresInv
  <1> QED
    BY <1>1 DEF StoresInv, MemoryRests

(* Reading a live newest version moves what has been read up to it. *)
LEMMA ReadingCovers ==
    ASSUME StoresInv, Whole' => Whole, UNCHANGED <<slots, gone>>,
           \/ loaded' = loaded
           \/ loaded' = slots["v5"]
    PROVE  ReadIsCovered'
  <1> USE VersionNames
  <1>1. StoresTyped /\ NewestLasts /\ ReadIsCovered
    BY DEF StoresInv
  <1> SUFFICES ASSUME Whole, NEW u \in Versions, slots[u] # Missing, slots[u] < loaded'
               PROVE  slots["v5"] >= loaded' /\ gone[u] <= gone["v5"]
    BY DEF ReadIsCovered
  <1>2. CASE loaded' = loaded
    BY <1>1, <1>2 DEF ReadIsCovered
  <1>3. CASE loaded' = slots["v5"]
    <2>1. slots["v5"] \in Nat
      BY <1>1, TypedFacts
    <2> QED
      BY <1>1, <1>3, <2>1 DEF NewestLasts
  <1> QED
    BY <1>2, <1>3

(* One GET: the answer is current, or the worker knows that the newer keys are gone. *)
LEMMA LookKeeps ==
    ASSUME StoresInv, NEW w \in Workers, Look(w)
    PROVE  StoresInv'
  <1> USE VersionNames
  <1>1. /\ StoresTyped /\ TakingTurns /\ NewestLasts /\ ReadIsCovered
        /\ UNCHANGED <<engine, alone, slots, gone, clock, serial, torn>>
    BY DEF StoresInv, Look
  <1>2. PICK v \in Versions : v = op[w].step
    BY DEF Look
  <1>3. op[w] # Quiet /\ engine = "redis"
    BY <1>2, BusyIsRedis DEF Quiet
  <1>4. PICK n : n = Live(v)
    OBVIOUS
  <1>5. n \in Nat /\ n <= serial /\ n \in 0..MaxSaves /\ (n # 0 => n = slots[v])
    BY <1>1, <1>4, TypedFacts, StoreShapes
  <1>6. PICK r : /\ op' = [op EXCEPT ![w] = r]
                 /\ r = IF n # 0 /\ v # "v5" THEN [step |-> "write", seen |-> n]
                        ELSE IF n # 0 \/ v = "legacy" THEN Quiet
                        ELSE [step |-> After(v), seen |-> 0]
    <2>1. PICK r : r = IF n # 0 /\ v # "v5" THEN [step |-> "write", seen |-> n]
                       ELSE IF n # 0 \/ v = "legacy" THEN Quiet
                       ELSE [Quiet EXCEPT !.step = After(v)]
      OBVIOUS
    <2>5. op' = [op EXCEPT ![w] =
                   IF Live(op[w].step) # Missing /\ op[w].step # "v5"
                   THEN [step |-> "write", seen |-> Live(op[w].step)]
                   ELSE IF Live(op[w].step) # Missing \/ op[w].step = "legacy" THEN Quiet
                   ELSE [Quiet EXCEPT !.step = After(op[w].step)]]
      BY DEF Look
    <2>6. op' = [op EXCEPT ![w] = IF Live(v) # Missing /\ v # "v5"
                                  THEN [step |-> "write", seen |-> Live(v)]
                                  ELSE IF Live(v) # Missing \/ v = "legacy" THEN Quiet
                                  ELSE [Quiet EXCEPT !.step = After(v)]]
      BY <1>2, <2>5
    <2>7. r = IF Live(v) # Missing /\ v # "v5"
              THEN [step |-> "write", seen |-> Live(v)]
              ELSE IF Live(v) # Missing \/ v = "legacy" THEN Quiet
              ELSE [Quiet EXCEPT !.step = After(v)]
      BY <1>4, <2>1 DEF Missing
    <2>2. op' = [op EXCEPT ![w] = r]
      <3>1. CASE Live(v) # Missing /\ v # "v5"
        BY <2>6, <2>7, <3>1
      <3>2. CASE ~(Live(v) # Missing /\ v # "v5") /\ (Live(v) # Missing \/ v = "legacy")
        BY <2>6, <2>7, <3>2
      <3>3. CASE ~(Live(v) # Missing /\ v # "v5") /\ ~(Live(v) # Missing \/ v = "legacy")
        BY <2>6, <2>7, <3>3
      <3> HIDE VersionNames
      <3> QED
        BY <3>1, <3>2, <3>3, Zenon
    <2>4. [Quiet EXCEPT !.step = After(v)] = [step |-> After(v), seen |-> 0]
      BY DEF Quiet, Missing
    <2> QED
      BY <2>1, <2>2, <2>4
  <1>7. /\ r \in Operation /\ r.seen <= serial
        /\ r.step \in {"write", "none", "v4", "legacy"}
        /\ r.step = "write" => n # 0 /\ v # "v5" /\ r.seen = n
        /\ r.step = "v4" => v = "v5" /\ n = 0
        /\ r.step = "legacy" => v = "v4" /\ n = 0
    <2>1. CASE n # 0 /\ v # "v5"
      <3>1. r = [step |-> "write", seen |-> n] /\ "write" \in Steps
        BY <1>6, <2>1 DEF Steps
      <3>2. r \in Operation /\ r.step = "write" /\ r.seen = n
        BY <1>5, <3>1, OperationIs
      <3> QED
        BY <1>5, <2>1, <3>2
    <2>2. CASE n = 0 /\ v = "v5"
      <3>1. r = [step |-> "v4", seen |-> 0] /\ "v4" \in Steps
        BY <1>6, <2>2 DEF Steps, After
      <3>2. r \in Operation /\ r.step = "v4" /\ r.seen = 0
        BY <1>5, <2>2, <3>1, OperationIs
      <3> QED
        BY <1>5, <2>2, <3>2
    <2>3. CASE n = 0 /\ v = "v4"
      <3>1. r = [step |-> "legacy", seen |-> 0] /\ "legacy" \in Steps
        BY <1>6, <2>3 DEF Steps, After
      <3>2. r \in Operation /\ r.step = "legacy" /\ r.seen = 0
        BY <1>5, <2>3, <3>1, OperationIs
      <3> QED
        BY <1>5, <2>3, <3>2
    <2>4. CASE (n # 0 /\ v = "v5") \/ (n = 0 /\ v = "legacy")
      <3>1. r = [step |-> "none", seen |-> 0] /\ "none" \in Steps /\ 0 \in 0..MaxSaves
        BY <1>6, <2>4, StoreBounds DEF Steps, Quiet
      <3>2. r \in Operation /\ r.step = "none" /\ r.seen = 0
        BY <3>1, OperationIs
      <3>3. 0 <= serial
        BY <1>5, <1>1, TypedFacts
      <3> QED
        BY <3>2, <3>3
    <2> QED
      BY <1>2, <2>1, <2>2, <2>3, <2>4
  <1>8. \/ loaded' = loaded
        \/ loaded' = slots["v5"] /\ n # 0 /\ v = "v5"
    <2>1. loaded \in Nat
      BY <1>1, TypedFacts
    <2>2. \/ Answers(w, n) /\ ((n # 0 /\ v = "v5") \/ (n = 0 /\ v = "legacy"))
          \/ loaded' = loaded
      BY <1>2, <1>4 DEF Look
    <2> QED
      BY <1>5, <2>1, <2>2 DEF Answers
  <1>9. StoresTyped'
    <2>1. loaded' \in 0..serial
      <3>1. loaded \in Nat /\ loaded <= serial /\ slots["v5"] \in Nat /\ slots["v5"] <= serial
            /\ serial \in Nat
        BY <1>1, TypedFacts
      <3> QED
        BY <1>8, <3>1
    <2>2. torn' \in BOOLEAN
      BY <1>1, Booleans
    <2>3. r.step \in {"write", "verify"} => r.seen # Missing
      BY <1>7
    <2> QED
      BY <1>1, <1>6, <1>7, <2>1, <2>2, <2>3, TurnTyped
  <1>10. /\ TakingTurns'
         /\ alone => \A x \in Workers : x # w => op[x] = Quiet /\ op'[x] = Quiet
    BY <1>1, <1>3, <1>6, <1>7, TurnsKept
  <1>11. MemoryRests' /\ NewestLasts'
    BY <1>1, <1>3, KeysStay
  <1>12. op'[w] = r /\ \A x \in Workers : x # w => op'[x] = op[x]
    BY <1>1, <1>6, StoreShapes
  <1>13. ReadIsCovered'
    <2>1. Whole' => Whole
      BY <1>1, <1>2, <1>12 DEF Whole, Deleting
    <2> QED
      BY <1>1, <1>8, <2>1, ReadingCovers
  <1>14. ASSUME alone PROVE LoadKnows(w) /\ (torn \/ Whole)
    <2>1. LoadKnows(w)
      BY <1>14 DEF StoresInv
    <2>2. \A x \in Workers : op[x].step \notin Deleting
      <3>1. op[w].step \notin Deleting
        BY <1>2 DEF Deleting
      <3>2. \A x \in Workers : x # w => op[x] = Quiet
        BY <1>10, <1>14
      <3>3. Quiet.step \notin Deleting
        BY DEF Quiet, Deleting
      <3> QED
        BY <3>1, <3>2, <3>3
    <2> QED
      BY <1>14, <2>1, <2>2 DEF Whole
  <1>15. ASSUME alone, NEW x \in Workers PROVE LoadKnows(x)'
    <2>1. CASE x # w
      <3>1. op'[x].step = "none"
        BY <1>10, <1>15, <2>1 DEF Quiet
      <3> QED
        BY <3>1 DEF LoadKnows
    <2>2. CASE x = w
      <3>1. \A u \in Versions : Live(u)' = Live(u)
        BY <1>1 DEF Live, LiveIn
      <3>2. r.step \in {"v4", "legacy"} => Live("v5") = Missing
        BY <1>2, <1>4, <1>7, <1>14, <1>15 DEF LoadKnows
      <3>3. r.step = "legacy" => Live("v4") = Missing
        BY <1>4, <1>7
      <3>4. ASSUME r.step = "write", ~torn PROVE r.seen >= loaded'
        <4>1. n = r.seen /\ n # 0 /\ v # "v5" /\ Whole
          BY <1>7, <1>14, <1>15, <3>4
        <4>2. n = Found
          BY <1>2, <1>4, <1>14, <1>15, <4>1 DEF Found, FoundIn, Live, LoadKnows
        <4>3. loaded' = loaded
          BY <1>8, <4>1
        <4> QED
          BY <1>1, <4>1, <4>2, <4>3, FoundIsNew
      <3> QED
        BY <1>1, <1>12, <2>2, <3>1, <3>2, <3>3, <3>4 DEF LoadKnows
    <2> QED
      BY <2>1, <2>2
  <1>16. LoadsAreCurrent'
    <2>1. CASE answer' = answer
      BY <1>1, <2>1 DEF StoresInv, LoadsAreCurrent
    <2>2. CASE answer'.value = n /\ answer'.now = FoundIn(slots', gone')
               /\ ((n # 0 /\ v = "v5") \/ (n = 0 /\ v = "legacy"))
      <3>1. answer'.now = Found
        BY <1>1, <2>2 DEF Found
      <3>2. CASE n # 0
        BY <1>4, <2>2, <3>1, <3>2 DEF Found, FoundIn, Live, LoadsAreCurrent
      <3>3. CASE n = 0 /\ alone
        <4>1. Live("v5") = Missing /\ Live("v4") = Missing /\ Live("legacy") = Missing
          BY <1>2, <1>4, <1>14, <2>2, <3>3 DEF LoadKnows
        <4> QED
          BY <2>2, <3>1, <3>3, <4>1 DEF Found, FoundIn, Live, LoadsAreCurrent
      <3>4. CASE n = 0 /\ ~alone
        BY <1>1, <2>2, <3>4 DEF LoadsAreCurrent
      <3> QED
        BY <3>2, <3>3, <3>4
    <2>3. answer' = answer \/ (answer'.value = n /\ answer'.now = FoundIn(slots', gone')
               /\ ((n # 0 /\ v = "v5") \/ (n = 0 /\ v = "legacy")))
      BY <1>2, <1>4 DEF Look, Answers
    <2> QED
      BY <2>1, <2>2, <2>3
  <1> QED
    BY <1>1, <1>9, <1>10, <1>11, <1>13, <1>15, <1>16 DEF StoresInv

(* A copy forward covers what was read, as the newest key and the last to expire. *)
LEMMA CopyForwardKeeps ==
    ASSUME StoresInv, NEW w \in Workers, CopyForward(w)
    PROVE  StoresInv'
  <1> USE VersionNames
  <1>1. /\ StoresTyped /\ TakingTurns /\ NewestLasts
        /\ UNCHANGED <<engine, alone, clock, serial, answer, loaded, torn>>
        /\ op[w].step = "write"
    BY DEF StoresInv, CopyForward
  <1>2. op[w] # Quiet /\ engine = "redis"
    BY <1>1, BusyIsRedis DEF Quiet
  <1>3. PICK n : n = op[w].seen
    OBVIOUS
  <1>4. n \in Nat /\ n # 0 /\ n <= serial /\ n \in 0..MaxSaves
    <2>1. n # 0
      BY <1>1, <1>3 DEF StoresTyped
    <2>2. n \in Nat /\ n <= serial /\ serial \in 1..MaxSaves /\ MaxSaves \in Nat
      BY <1>1, <1>3, TypedFacts, StoreShapes
    <2> QED
      BY <2>1, <2>2
  <1>5. PICK r : /\ op' = [op EXCEPT ![w] = r] /\ r = [step |-> "verify", seen |-> n]
    BY <1>3 DEF CopyForward
  <1>6. r \in Operation /\ r.step = "verify" /\ r.seen = n
    <2>1. "verify" \in Steps
      BY DEF Steps
    <2> QED
      BY <1>4, <1>5, <2>1, OperationIs
  <1>7. op' \in [Workers -> Operation] /\ \A x \in Workers : op'[x] = IF x = w THEN r ELSE op[x]
    BY <1>1, <1>5, <1>6, StoreShapes
  <1>8. Put("v5", n)
    BY <1>3 DEF CopyForward
  <1>9. StoresTyped'
    <2>1. \A x \in Workers : op'[x].seen <= serial'
      BY <1>1, <1>4, <1>6, <1>7, TypedFacts
    <2>2. \A x \in Workers : op'[x].step \in {"write", "verify"} => op'[x].seen # Missing
      BY <1>1, <1>4, <1>6, <1>7 DEF StoresTyped
    <2>3. serial \in Nat /\ serial' = serial /\ serial <= MaxSaves
      BY <1>1, StoreShapes
    <2>4. n \in 0..serial'
      BY <1>4, <2>3
    <2>5. serial' \in {serial, serial + 1} /\ serial' <= MaxSaves
      BY <2>3
    <2> QED
      BY <1>1, <1>7, <1>8, <2>1, <2>2, <2>4, <2>5, PutTyped
  <1>10. /\ slots'["v5"] = n /\ gone'["v5"] = clock + Ttl
         /\ \A u \in Versions : u # "v5" => slots'[u] = slots[u] /\ gone'[u] = gone[u]
    BY <1>1, <1>2, <1>8, StoreShapes DEF Put
  <1>11. \A u \in Versions : gone'[u] <= gone'["v5"]
    <2>1. clock + Ttl \in Nat /\ \A u \in Versions : gone[u] <= clock + Ttl
      BY <1>1, TypedFacts
    <2> QED
      BY <1>10, <2>1
  <1>12. MemoryRests' /\ NewestLasts'
    BY <1>1, <1>2, <1>11 DEF MemoryRests, NewestLasts
  <1>13. /\ TakingTurns'
         /\ alone => \A x \in Workers : x # w => op[x] = Quiet /\ op'[x] = Quiet
    BY <1>1, <1>2, <1>5, <1>6, TurnsKept
  <1>14. ReadIsCovered'
    <2>1. ASSUME Whole' PROVE n >= loaded
      <3>1. alone /\ ~torn
        BY <1>1, <2>1 DEF Whole
      <3>2. LoadKnows(w)
        BY <3>1 DEF StoresInv
      <3> QED
        BY <1>1, <1>3, <3>1, <3>2 DEF LoadKnows
    <2> QED
      BY <1>1, <1>10, <1>11, <2>1 DEF ReadIsCovered
  <1>15. ASSUME alone, NEW x \in Workers PROVE LoadKnows(x)'
    <2>1. op'[x].step \in {"none", "verify"}
      BY <1>6, <1>7, <1>13, <1>15 DEF Quiet
    <2> QED
      BY <2>1 DEF LoadKnows
  <1>16. LoadsAreCurrent'
    BY <1>1 DEF StoresInv, LoadsAreCurrent
  <1> QED
    BY <1>1, <1>9, <1>12, <1>13, <1>14, <1>15, <1>16 DEF StoresInv

(* A read-back answers only with what is live under the newest key. *)
LEMMA VerifyKeeps ==
    ASSUME StoresInv, NEW w \in Workers, Verify(w)
    PROVE  StoresInv'
  <1> USE VersionNames
  <1>1. /\ StoresTyped /\ TakingTurns /\ NewestLasts
        /\ UNCHANGED <<engine, alone, slots, gone, clock, serial, torn>>
        /\ op[w].step = "verify"
    BY DEF StoresInv, Verify
  <1>2. op[w] # Quiet /\ engine = "redis"
    BY <1>1, BusyIsRedis DEF Quiet
  <1>3. PICK n : n = op[w].seen
    OBVIOUS
  <1>4. n \in Nat /\ n # 0
    <2>1. n # 0
      BY <1>1, <1>3 DEF StoresTyped
    <2> QED
      BY <1>1, <1>3, <2>1, TypedFacts
  <1>5. PICK r : op' = [op EXCEPT ![w] = r] /\ r = [step |-> "none", seen |-> 0]
    BY DEF Verify, Quiet
  <1>6. r \in Operation /\ r.step = "none" /\ r.seen = 0
    <2>1. "none" \in Steps /\ 0 \in 0..MaxSaves
      BY StoreBounds DEF Steps
    <2> QED
      BY <1>5, <2>1, OperationIs
  <1>7. op' \in [Workers -> Operation] /\ \A x \in Workers : op'[x] = IF x = w THEN r ELSE op[x]
    BY <1>1, <1>5, <1>6, StoreShapes
  <1>8. \/ loaded' = loaded /\ answer' = answer
        \/ /\ Live("v5") = n /\ loaded' = IF n > loaded THEN n ELSE loaded
           /\ answer'.value = n /\ answer'.now = FoundIn(slots', gone')
    BY <1>3 DEF Verify, Answers
  <1>9. loaded' = loaded \/ loaded' = slots["v5"]
    BY <1>4, <1>8 DEF Live, LiveIn
  <1>10. StoresTyped'
    <2>1. loaded' \in 0..serial
      <3>1. loaded \in Nat /\ loaded <= serial /\ slots["v5"] \in Nat /\ slots["v5"] <= serial
            /\ serial \in Nat
        BY <1>1, TypedFacts
      <3> QED
        BY <1>9, <3>1
    <2>2. torn' \in BOOLEAN
      BY <1>1, Booleans
    <2>3. r.step \notin {"write", "verify"}
      BY <1>6
    <2>4. serial \in Nat
      BY <1>1, TypedFacts
    <2>5. r.seen <= serial
      BY <1>6, <2>4
    <2> QED
      BY <1>1, <1>5, <1>6, <2>1, <2>2, <2>3, <2>5, TurnTyped
  <1>11. /\ TakingTurns'
         /\ alone => \A x \in Workers : x # w => op[x] = Quiet /\ op'[x] = Quiet
    BY <1>1, <1>2, <1>5, <1>6, TurnsKept
  <1>12. MemoryRests' /\ NewestLasts'
    BY <1>1, <1>2, KeysStay
  <1>13. ReadIsCovered'
    <2>1. Whole' => Whole
      BY <1>1, <1>7 DEF Whole, Deleting
    <2> QED
      BY <1>1, <1>9, <2>1, ReadingCovers
  <1>14. ASSUME alone, NEW x \in Workers PROVE LoadKnows(x)'
    <2>1. op'[x].step = "none"
      BY <1>6, <1>7, <1>11, <1>14 DEF Quiet
    <2> QED
      BY <2>1 DEF LoadKnows
  <1>15. LoadsAreCurrent'
    <2>1. CASE answer' = answer
      BY <1>1, <2>1 DEF StoresInv, LoadsAreCurrent
    <2>2. CASE Live("v5") = n /\ answer'.value = n /\ answer'.now = FoundIn(slots', gone')
      BY <1>1, <1>4, <2>2 DEF LoadsAreCurrent, FoundIn, Live, LiveIn
    <2> QED
      BY <1>8, <2>1, <2>2
  <1> QED
    BY <1>1, <1>10, <1>11, <1>12, <1>13, <1>14, <1>15 DEF StoresInv

(* A delete on its way is not whole; at its end nothing has been read. *)
LEMMA DeleteKeyKeeps ==
    ASSUME StoresInv, NEW w \in Workers, DeleteKey(w)
    PROVE  StoresInv'
  <1> USE VersionNames
  <1>1. /\ StoresTyped /\ TakingTurns /\ NewestLasts
        /\ UNCHANGED <<engine, alone, clock, serial, answer, torn>>
    BY DEF StoresInv, DeleteKey
  <1>0. PICK v \in Versions :
           /\ op[w].step = (CASE v = "v5" -> "delete v5" [] v = "v4" -> "delete v4"
                              [] v = "legacy" -> "delete legacy")
           /\ slots' = [slots EXCEPT ![v] = Missing]
           /\ gone' = [gone EXCEPT ![v] = 0]
           /\ op' = [op EXCEPT ![w] = IF v = "legacy" THEN Quiet
                                      ELSE [Quiet EXCEPT !.step = DeleteStep(v)]]
           /\ loaded' = IF v = "legacy" THEN Missing ELSE loaded
    BY Zenon DEF DeleteKey
  <1>2. /\ op[w].step \in {"delete v5", "delete v4", "delete legacy"}
        /\ slots' = [slots EXCEPT ![v] = 0] /\ gone' = [gone EXCEPT ![v] = 0]
        /\ op' = [op EXCEPT ![w] = IF v = "legacy" THEN Quiet
                                   ELSE [Quiet EXCEPT !.step = DeleteStep(v)]]
        /\ loaded' = IF v = "legacy" THEN 0 ELSE loaded
    <2>1. op[w].step \in {"delete v5", "delete v4", "delete legacy"}
      BY <1>0
    <2> QED
      BY <1>0, <2>1 DEF Missing
  <1>3. op[w] # Quiet /\ engine = "redis"
    <2>1. op[w].step # "none"
      BY <1>2
    <2>2. op[w] # Quiet
      BY <2>1 DEF Quiet
    <2> QED
      BY <2>2, BusyIsRedis
  <1>4. PICK s : s = IF v = "legacy" THEN "none" ELSE DeleteStep(v)
    OBVIOUS
  <1>5. PICK r : op' = [op EXCEPT ![w] = r] /\ r = [step |-> s, seen |-> 0]
    <2>1. CASE v = "legacy"
      BY <1>2, <1>4, <2>1 DEF Quiet, Missing
    <2>2. CASE v # "legacy"
      <3>1. [Quiet EXCEPT !.step = DeleteStep(v)] = [step |-> s, seen |-> 0]
        BY <1>4, <2>2 DEF Quiet, Missing
      <3>2. op' = [op EXCEPT ![w] = [Quiet EXCEPT !.step = DeleteStep(v)]]
        BY <1>2, <2>2
      <3> QED
        BY <3>1, <3>2
    <2> QED
      BY <2>1, <2>2
  <1>6. /\ s \in Steps /\ s \in Deleting \cup {"none"}
        /\ v # "legacy" => s \in Deleting
    BY <1>4 DEF Steps, Deleting, DeleteStep
  <1>7. r \in Operation /\ r.step = s /\ r.seen = 0
    <2>1. 0 \in 0..MaxSaves
      BY StoreBounds
    <2> QED
      BY <1>5, <1>6, <2>1, OperationIs
  <1>8. op' \in [Workers -> Operation] /\ \A x \in Workers : op'[x] = IF x = w THEN r ELSE op[x]
    BY <1>1, <1>5, <1>7, StoreShapes
  <1>9. /\ slots'[v] = 0 /\ gone'[v] = 0
        /\ \A u \in Versions : u # v => slots'[u] = slots[u] /\ gone'[u] = gone[u]
    BY <1>1, <1>2, StoreShapes
  <1>10. StoresTyped'
    <2>1. slots' \in [Versions -> 0..MaxSaves] /\ gone' \in [Versions -> 0..MaxTime + Ttl]
      <3>1. 0 \in 0..MaxSaves /\ 0 \in 0..(MaxTime + Ttl)
        BY StoreBounds
      <3> QED
        BY <1>1, <1>2, <3>1, StoreShapes
    <2>2. StoresTypeOK'
      BY <1>8, <2>1 DEF StoresTypeOK, Operation
    <2>3. \A u \in Versions : slots'[u] <= serial' /\ gone'[u] <= clock' + Ttl
      <3>1. 0 <= serial /\ 0 <= clock + Ttl
        BY <1>1, StoreShapes
      <3> QED
        BY <1>1, <1>9, <3>1, TypedFacts
    <2>4. \A x \in Workers : op'[x].seen <= serial'
      <3>1. 0 <= serial
        BY <1>1, StoreShapes
      <3> QED
        BY <1>1, <1>7, <1>8, <3>1, TypedFacts
    <2>5. \A x \in Workers : op'[x].step \in {"write", "verify"} => op'[x].seen # Missing
      BY <1>1, <1>6, <1>7, <1>8 DEF StoresTyped, Deleting
    <2>6. loaded' \in 0..serial'
      <3>1. loaded \in 0..serial /\ 0 \in 0..serial
        BY <1>1, TypedFacts
      <3> QED
        BY <1>1, <1>2, <3>1
    <2>7. alone' \in BOOLEAN /\ torn' \in BOOLEAN
      BY <1>1, Booleans
    <2>8. serial' \in 1..MaxSaves /\ clock' \in 0..MaxTime /\ engine' \in {"memory", "redis"}
      BY <1>1, StoreShapes
    <2> QED
      BY <2>2, <2>3, <2>4, <2>5, <2>6, <2>7, <2>8 DEF StoresTyped
  <1>11. /\ TakingTurns'
         /\ alone => \A x \in Workers : x # w => op[x] = Quiet /\ op'[x] = Quiet
    BY <1>1, <1>3, <1>5, <1>7, TurnsKept
  <1>12. MemoryRests'
    BY <1>1, <1>3 DEF MemoryRests
  <1>13. NewestLasts'
    <2>1. \A u \in Versions : slots[u] \in Nat /\ gone[u] \in Nat
      BY <1>1, TypedFacts
    <2>2. CASE v = "v5"
      BY <1>9, <2>1, <2>2 DEF NewestLasts
    <2>3. CASE v # "v5"
      BY <1>1, <1>9, <2>1, <2>3 DEF NewestLasts
    <2> QED
      BY <2>2, <2>3
  <1>14. ReadIsCovered'
    <2>1. CASE v = "legacy"
      <3>1. loaded' = 0 /\ \A u \in Versions : slots'[u] \in Nat
        <4>1. loaded' = 0
          BY <1>2, <2>1
        <4>2. \A u \in Versions : slots[u] \in Nat
          BY <1>1, TypedFacts
        <4> QED
          BY <1>9, <4>1, <4>2
      <3> QED
        BY <3>1 DEF ReadIsCovered
    <2>2. CASE v # "legacy"
      <3>1. op'[w].step \in Deleting
        BY <1>6, <1>7, <1>8, <2>2
      <3> QED
        BY <3>1 DEF ReadIsCovered, Whole
    <2> QED
      BY <2>1, <2>2
  <1>15. ASSUME alone, NEW x \in Workers PROVE LoadKnows(x)'
    <2>1. op'[x].step \in Deleting \cup {"none"}
      BY <1>6, <1>7, <1>8, <1>11, <1>15 DEF Quiet
    <2> QED
      BY <2>1 DEF LoadKnows, Deleting
  <1>16. LoadsAreCurrent'
    BY <1>1 DEF StoresInv, LoadsAreCurrent
  <1> QED
    BY <1>1, <1>10, <1>11, <1>12, <1>13, <1>14, <1>15, <1>16 DEF StoresInv

(* A death leaves a torn delete, or only a load that is not finished. *)
LEMMA DiesKeeps ==
    ASSUME StoresInv, NEW w \in Workers, Dies(w)
    PROVE  StoresInv'
  <1> USE VersionNames
  <1>1. /\ StoresTyped /\ TakingTurns /\ ReadIsCovered
        /\ UNCHANGED <<engine, alone, slots, gone, clock, serial, answer, loaded>>
        /\ op[w] # Quiet
    BY DEF StoresInv, Dies
  <1>2. torn' = (torn \/ op[w].step \in Deleting)
    BY DEF Dies, Deleting
  <1>3. engine = "redis"
    BY <1>1, BusyIsRedis
  <1>4. PICK r : op' = [op EXCEPT ![w] = r] /\ r = [step |-> "none", seen |-> 0]
    BY DEF Dies, Quiet
  <1>5. r \in Operation /\ r.step = "none" /\ r.seen = 0
    <2>1. "none" \in Steps /\ 0 \in 0..MaxSaves
      BY StoreBounds DEF Steps
    <2> QED
      BY <1>4, <2>1, OperationIs
  <1>6. op' \in [Workers -> Operation] /\ \A x \in Workers : op'[x] = IF x = w THEN r ELSE op[x]
    BY <1>1, <1>4, <1>5, StoreShapes
  <1>7. StoresTyped'
    <2>1. serial \in Nat /\ loaded \in Nat /\ loaded <= serial /\ loaded' = loaded
      BY <1>1, TypedFacts
    <2>2. loaded' \in 0..serial /\ r.seen <= serial
      BY <1>5, <2>1
    <2>3. torn' \in BOOLEAN
      BY <1>2
    <2>4. r.step \notin {"write", "verify"}
      BY <1>5
    <2> QED
      BY <1>1, <1>4, <1>5, <2>2, <2>3, <2>4, TurnTyped
  <1>8. MemoryRests' /\ NewestLasts' /\ \A v \in Versions : Live(v)' = Live(v)
    BY <1>1, <1>3, KeysStay
  <1>9. TakingTurns'
    BY <1>1, <1>4, <1>5, TurnsKept
  <1>10. ReadIsCovered'
    <2>1. Whole' => Whole
      <3> SUFFICES ASSUME Whole' PROVE Whole
        OBVIOUS
      <3>1. alone /\ ~torn /\ op[w].step \notin Deleting
        BY <1>1, <1>2 DEF Whole
      <3>2. \A x \in Workers : x # w => op[x].step \notin Deleting
        BY <1>6 DEF Whole
      <3> QED
        BY <3>1, <3>2 DEF Whole
    <2> QED
      BY <1>1, <2>1 DEF ReadIsCovered
  <1>11. ASSUME alone, NEW x \in Workers PROVE LoadKnows(x)'
    <2>1. CASE x = w
      BY <1>5, <1>6, <2>1 DEF LoadKnows
    <2>2. CASE x # w
      <3>1. op'[x] = op[x] /\ LoadKnows(x)
        BY <1>6, <1>11, <2>2 DEF StoresInv
      <3>2. ~torn' => ~torn
        BY <1>2
      <3> QED
        BY <1>1, <1>8, <3>1, <3>2 DEF LoadKnows
    <2> QED
      BY <2>1, <2>2
  <1>12. LoadsAreCurrent'
    BY <1>1 DEF StoresInv, LoadsAreCurrent
  <1> QED
    BY <1>1, <1>7, <1>8, <1>9, <1>10, <1>11, <1>12 DEF StoresInv

(* Time makes keys expire, and nothing come back. *)
LEMMA TickKeeps ==
    ASSUME StoresInv, Tick
    PROVE  StoresInv'
  <1> USE VersionNames
  <1>1. /\ StoresTyped
        /\ UNCHANGED <<engine, alone, slots, gone, serial, op, answer, loaded, torn>>
        /\ clock' = clock + 1 /\ clock' \in 0..MaxTime
    BY StoreShapes, StoreBounds DEF StoresInv, Tick
  <1>2. StoresTyped'
    <2>1. \A v \in Versions : slots'[v] <= serial' /\ gone'[v] <= clock' + Ttl
      BY <1>1, TypedFacts
    <2>2. StoresTypeOK'
      BY <1>1, StoreShapes DEF StoresTypeOK, Operation
    <2> QED
      BY <1>1, <2>1, <2>2 DEF StoresTyped
  <1>3. MemoryRests' /\ TakingTurns' /\ NewestLasts' /\ ReadIsCovered' /\ LoadsAreCurrent'
    BY <1>1 DEF StoresInv, MemoryRests, OneLifetime, TakingTurns, NewestLasts, ReadIsCovered,
                Whole, LoadsAreCurrent
  <1>4. \A v \in Versions : Live(v) = Missing => Live(v)' = Missing
    BY <1>1, TypedFacts DEF Live, LiveIn
  <1>5. ASSUME alone, NEW x \in Workers PROVE LoadKnows(x)'
    <2>1. LoadKnows(x)
      BY <1>5 DEF StoresInv
    <2> QED
      BY <1>1, <1>4, <2>1 DEF LoadKnows
  <1> QED
    BY <1>1, <1>2, <1>3, <1>5 DEF StoresInv

(* The stores begin with one payload or none. *)
LEMMA StoresBegin ==
    ASSUME StoresInit
    PROVE  StoresInv
  <1> USE VersionNames
  <1>1. /\ engine \in {"memory", "redis"} /\ clock = 0 /\ serial = 1 /\ loaded = 0
        /\ op = [w \in Workers |-> Quiet] /\ torn = FALSE /\ alone \in BOOLEAN
        /\ gone = [v \in Versions |-> IF slots[v] = 0 THEN 0 ELSE Ttl]
        /\ engine = "memory" => slots["v4"] = 0
    BY DEF StoresInit
  <1>2. /\ slots \in [Versions -> {0, 1}]
        /\ \A u, v \in Versions : slots[u] # 0 /\ slots[v] # 0 => u = v
    BY DEF StoresInit
  <1>3. StoresTyped
    <2>1. 0 \in 0..MaxSaves /\ 1 \in 1..MaxSaves /\ 1 \in 0..MaxSaves
          /\ 0 \in 0..(MaxTime + Ttl) /\ Ttl \in 0..(MaxTime + Ttl) /\ 0 \in 0..MaxTime
      BY StoreBounds
    <2>2. slots \in [Versions -> 0..MaxSaves] /\ gone \in [Versions -> 0..MaxTime + Ttl]
      BY <1>1, <1>2, <2>1
    <2>3. op \in [Workers -> Operation]
      <3>1. "none" \in Steps
        BY DEF Steps
      <3>2. Quiet \in Operation
        BY <2>1, <3>1, OperationIs DEF Quiet
      <3> QED
        BY <1>1, <3>2
    <2>4. StoresTypeOK
      BY <2>2, <2>3 DEF StoresTypeOK, Operation
    <2>5. \A v \in Versions : slots[v] <= serial /\ gone[v] <= clock + Ttl
      BY <1>1, <1>2, StoreBounds
    <2>6. \A w \in Workers : op[w].seen = 0 /\ op[w].step = "none"
      BY <1>1 DEF Quiet
    <2>7. loaded \in 0..serial /\ serial \in 1..MaxSaves /\ clock \in 0..MaxTime
      BY <1>1, <2>1
    <2>8. torn \in BOOLEAN
      BY <1>1
    <2>9. \A w \in Workers : op[w].seen <= serial
      BY <1>1, <2>6
    <2> QED
      BY <1>1, <2>4, <2>5, <2>6, <2>7, <2>8, <2>9 DEF StoresTyped
  <1>4. MemoryRests /\ TakingTurns
    BY <1>1, <1>2 DEF MemoryRests, TakingTurns, OneLifetime
  <1>5. NewestLasts
    <2>1. \A u \in Versions : slots[u] # 0 => u = "v5" \/ slots["v5"] = 0
      BY <1>2
    <2>2. \A u \in Versions : slots[u] \in {0, 1}
      BY <1>2
    <2> QED
      BY <2>1, <2>2 DEF NewestLasts
  <1>6. ReadIsCovered
    <2>1. \A u \in Versions : slots[u] \in {0, 1}
      BY <1>2
    <2> QED
      BY <1>1, <2>1 DEF ReadIsCovered
  <1>7. LoadsAreCurrent /\ \A w \in Workers : LoadKnows(w)
    <2>1. LoadsAreCurrent
      BY DEF StoresInit, LoadsAreCurrent
    <2>2. \A w \in Workers : op[w].step = "none"
      BY <1>1 DEF Quiet
    <2> QED
      BY <2>1, <2>2 DEF LoadKnows
  <1> QED
    BY <1>3, <1>4, <1>5, <1>6, <1>7 DEF StoresInv

(* Every step of the stores. *)
LEMMA StoresKeep == StoresInv /\ [StoresNext]_storeVars => StoresInv'
  <1> SUFFICES ASSUME StoresInv, [StoresNext]_storeVars
               PROVE  StoresInv'
    OBVIOUS
  <1>1. CASE UNCHANGED storeVars
    BY <1>1 DEF storeVars, StoresInv, StoresTyped, StoresTypeOK, MemoryRests, OneLifetime,
                TakingTurns, NewestLasts, ReadIsCovered, Whole, LoadKnows, Live, LiveIn,
                LoadsAreCurrent
  <1>2. ASSUME NEW w \in Workers,
               \/ Save(w) \/ Import(w) \/ LoadMemory(w) \/ DeleteMemory(w)
               \/ StartLoad(w) \/ Look(w) \/ CopyForward(w) \/ Verify(w)
               \/ StartDelete(w) \/ DeleteKey(w) \/ Dies(w)
        PROVE  StoresInv'
    BY <1>2, SaveKeeps, ImportKeeps, LoadMemoryKeeps, DeleteMemoryKeeps, BeginKeeps, LookKeeps,
       CopyForwardKeeps, VerifyKeeps, DeleteKeyKeeps, DiesKeeps
  <1> QED
    BY <1>1, <1>2, TickKeeps DEF StoresNext

(* The invariant says what was promised. *)
LEMMA StoresShow == StoresInv => StoresSound
  <1> SUFFICES ASSUME StoresInv PROVE StoresSound
    OBVIOUS
  <1>1. StoresTypeOK /\ LoadsAreCurrent
    BY DEF StoresInv, StoresTyped
  <1>2. OneLifetime
    BY DEF StoresInv, MemoryRests, OneLifetime
  <1>3. NothingOlderReturns
    <2> SUFFICES ASSUME alone, ~torn, \A w \in Workers : op[w] = Quiet, Found # Missing
                 PROVE  Found >= loaded
      BY DEF NothingOlderReturns
    <2>1. Whole
      <3>1. Quiet.step \notin Deleting
        BY DEF Quiet, Deleting
      <3> QED
        BY <3>1 DEF Whole
    <2> QED
      BY <2>1, FoundIsNew DEF StoresInv
  <1> QED
    BY <1>1, <1>2, <1>3 DEF StoresSound

(* For any workers, lifetimes, number of saves and clock, in the in-memory  *)
(* and in the Redis store (save_snapshot, load_snapshot, delete and         *)
(* save_legacy_payload of persistence/checkpoint.py), with workers that     *)
(* interleave command by command and die between commands: a load that      *)
(* answers with a checkpoint answers with the one of its moment; while the  *)
(* workers take turns and no delete is torn, no checkpoint older than one   *)
(* that was read comes back; and the in-memory versions share one lifetime. *)
THEOREM StoresAreSound == StoresSpec => []StoresSound
  <1>1. StoresInit => StoresInv
    BY StoresBegin
  <1>2. StoresInv /\ [StoresNext]_storeVars => StoresInv'
    BY StoresKeep
  <1>3. StoresInv => StoresSound
    BY StoresShow
  <1> QED
    BY <1>1, <1>2, <1>3, PTL DEF StoresSpec

-----------------------------------------------------------------------------
(***************************************************************************)
(* The index of the example.  An operation works on one generation, beside *)
(* the sealed ones that aliases name and late switches may still name; the *)
(* invariant says how far that generation is at each point, that the       *)
(* manifest's published generations are sealed and ordered, and where the  *)
(* aliases are while nothing failed.                                       *)
(***************************************************************************)
\* Contents of a document, and what a manifest or a collection may list.
Docs == {0} \cup Contents
Listing == [Documents -> Docs]
Numbers == 0..MaxGenerations
States == {"none", "building", "staged", "published", "available", "failed"}
Making == {"create", "build", "validate"}
Made == {"keep", "publish", "verify", "commit"}
Undoing == {"swap", "swap1", "swap2"}
Places == {"idle", "cleanup", "match", "revert", "end"} \cup Making \cup Made \cup Undoing
Manifests == [state : States, docs : Listing, snapshot : Listing]
Tasks == [pc : Places, gen : Numbers, base : Numbers, snapshot : Listing, force : BOOLEAN,
          left : SUBSET Documents, from : Numbers, to : Numbers,
          next : {"idle", "cleanup", "match", "end"}, public : BOOLEAN]

IndexTyped ==
    /\ folder \in Listing /\ gens \in [Generations -> Manifests]
    /\ recent \in [Generations -> Nat] /\ current \in Numbers
    /\ rows \in [Generations -> Listing \cup {NoRows}]
    /\ alias \in Numbers /\ prior \in Numbers /\ task \in Tasks
    /\ late \subseteq {"alias", "prior"} \X Generations
    /\ slipped \in BOOLEAN /\ faults \in Nat /\ deaths \in Nat

\* A collection that was built, and what its manifest lists.
Sealed(g) == /\ g \in Generations /\ gens[g].state # "none"
             /\ rows[g] # NoRows /\ rows[g] = gens[g].docs

\* The generation in the making is not served, and nothing is about to serve it.
AliasesAreSealed ==
    /\ \A g \in {alias, prior} \ {0} : Sealed(g)
    /\ \A l \in late : /\ gens[l[2]].state # "none"
                       /\ rows[l[2]] = NoRows \/ Sealed(l[2])
    /\ task.pc \in Making => /\ task.gen \notin {alias, prior}
                             /\ \A l \in late : l[2] # task.gen

UnusedAreEmpty ==
    \A g \in Generations : gens[g].state = "none" => gens[g].docs = NoDocuments /\ rows[g] = NoRows

\* Where an operation is, and how far its generation is.
Stands ==
    /\ task.pc # "idle" => task.gen \in Generations
    /\ task.pc \in Making =>
          /\ gens[task.gen].state = "building"
          /\ gens[task.gen].snapshot = task.snapshot
          /\ \A d \in Documents :
                gens[task.gen].docs[d] = IF d \in task.left THEN 0 ELSE task.snapshot[d]
    /\ task.pc = "create" => task.left = Documents
    /\ task.pc = "build" => rows[task.gen] # NoRows
    /\ task.pc \in {"create", "build"} => task.left # {}
    /\ task.pc = "validate" => task.left = {} /\ rows[task.gen] # NoRows
    /\ task.pc \in Made \/ (task.pc \in Undoing /\ task.next = "cleanup") =>
          /\ gens[task.gen].state = "staged" /\ Sealed(task.gen)
          /\ gens[task.gen].docs = gens[task.gen].snapshot
    /\ task.pc = "cleanup" => gens[task.gen].state \in {"building", "staged"}
    /\ task.pc \in Undoing => task.next \in {"cleanup", "match", "end"}
    /\ task.pc \in {"match", "revert", "end"} \/ (task.pc \in Undoing /\ task.next # "cleanup") =>
          gens[task.gen].state = "available"
    /\ task.pc = "keep" => Sealed(task.from)
    /\ task.pc \in {"swap1", "swap2"} => Sealed(task.from) /\ Sealed(task.to)
    /\ task.pc \in {"commit", "revert"} /\ ~slipped => alias = task.gen

\* What the manifest keeps, and in which order it was published.
KeptAreWhole ==
    /\ \A g \in Generations : gens[g].state = "published" <=> (g = current)
    /\ \A g \in Available \cup ({current} \ {0}) :
          Sealed(g) /\ gens[g].docs = gens[g].snapshot
    /\ current = 0 => Available = {}

OrderIsKept ==
    /\ \A g \in Generations : recent[g] # 0 <=> gens[g].state \in {"published", "available"}
    /\ \A g, h \in Generations : recent[g] = recent[h] /\ recent[g] # 0 => g = h
    /\ current # 0 => recent[current] = 1
    /\ Available # {} => \E g \in Available : recent[g] = 2

\* While nothing failed, the index and the manifest move together.
Previous == Candidate # 0 => prior = Candidate
InStep ==
    faults = 0 /\ deaths = 0 =>
        /\ late = {}
        /\ task.pc \in {"idle", "keep", "cleanup"} \cup Making => alias = current /\ Previous
        /\ task.pc = "keep" => task.from = current
        /\ task.pc = "publish" => alias = current
        /\ task.pc \in {"verify", "commit"} => alias = task.gen
        /\ task.pc \in {"publish", "verify", "commit"} /\ current # 0 => prior = current
        /\ task.pc # "end"
        /\ task.pc \in Undoing => task.next = "match"
        /\ task.pc \in Undoing \cup {"match", "revert"} => current # 0
        /\ task.pc \in {"swap", "swap1"} => alias = current /\ prior = task.gen
        /\ task.pc \in {"swap1", "swap2"} => task.from = current /\ task.to = task.gen
        /\ task.pc = "swap2" => alias = task.gen
        /\ task.pc \in {"match", "revert"} => alias = task.gen /\ prior = current

PublicationInv ==
    /\ IndexTyped /\ AliasesAreSealed /\ UnusedAreEmpty /\ Stands /\ KeptAreWhole /\ OrderIsKept
    /\ InStep /\ (~slipped => told.gen = told.served)

-----------------------------------------------------------------------------
(* An operation in progress, field by field. *)
LEMMA TaskFields ==
    ASSUME task \in Tasks
    PROVE  /\ task.pc \in Places /\ task.gen \in Numbers /\ task.base \in Numbers
           /\ task.snapshot \in Listing /\ task.force \in BOOLEAN
           /\ task.left \subseteq Documents /\ task.from \in Numbers /\ task.to \in Numbers
           /\ task.next \in {"idle", "cleanup", "match", "end"} /\ task.public \in BOOLEAN
  BY DEF Tasks

(* No operation. *)
LEMMA IdleTask ==
    /\ Idle \in Tasks /\ Idle.pc = "idle" /\ Idle.gen = 0 /\ Idle.left = {}
    /\ Idle.next = "idle"
  BY IndexBounds DEF Idle, Tasks, Places, Numbers, NoDocuments, Listing, Docs

(* A step that only moves on. *)
LEMMA GoFields ==
    ASSUME task \in Tasks, NEW p \in Places, Go(p)
    PROVE  /\ task' \in Tasks /\ task'.pc = p /\ task'.gen = task.gen
           /\ task'.left = task.left /\ task'.snapshot = task.snapshot
           /\ task'.from = task.from /\ task'.to = task.to /\ task'.next = task.next
  BY DEF Go, Tasks

(* A step that also notes where the aliases are to go. *)
LEMMA NextFields ==
    ASSUME task \in Tasks, NEW p \in Places, NEW a \in Numbers, NEW t \in Numbers,
           task' = [task EXCEPT !.pc = p, !.from = a, !.to = t]
    PROVE  /\ task' \in Tasks /\ task'.gen = task.gen /\ task'.pc = p
           /\ task'.from = a /\ task'.to = t /\ task'.next = task.next
  BY DEF Tasks

(* A step that finishes a document. *)
LEMMA DoneFields ==
    ASSUME task \in Tasks, NEW d \in task.left, NEW p \in Places,
           task' = [task EXCEPT !.left = @ \ {d}, !.pc = p]
    PROVE  /\ task' \in Tasks /\ task'.gen = task.gen /\ task'.pc = p
           /\ task'.left = task.left \ {d} /\ task'.snapshot = task.snapshot
  BY DEF Tasks

(* A manifest, field by field. *)
LEMMA GensFields ==
    ASSUME gens \in [Generations -> Manifests], NEW g \in Generations
    PROVE  /\ gens[g] \in Manifests /\ gens[g].state \in States
           /\ gens[g].docs \in Listing /\ gens[g].snapshot \in Listing
  BY DEF Manifests

(* 0 names no generation. *)
LEMMA Numbering == 0 \in Numbers /\ 0 \notin Generations /\ Generations = Numbers \ {0}
  BY IndexBounds DEF Numbers, Generations

(* What does not touch the two stores keeps what they hold. *)
LEMMA StoresRest ==
    ASSUME PublicationInv, UNCHANGED <<gens, rows, current, recent>>
    PROVE  /\ UnusedAreEmpty' /\ KeptAreWhole' /\ OrderIsKept'
           /\ Candidate' = Candidate
           /\ \A g : Sealed(g)' <=> Sealed(g)
  <1>1. \A g : Sealed(g)' <=> Sealed(g)
    BY DEF Sealed
  <1>2. Available' = Available
    BY DEF Available
  <1>3. Candidate' = Candidate
    BY <1>2 DEF Candidate
  <1>4. UnusedAreEmpty'
    BY DEF PublicationInv, UnusedAreEmpty
  <1>5. KeptAreWhole'
    BY <1>1, <1>2 DEF PublicationInv, KeptAreWhole
  <1>6. OrderIsKept'
    BY <1>2 DEF PublicationInv, OrderIsKept
  <1> QED
    BY <1>1, <1>3, <1>4, <1>5, <1>6

(* Aliases that only move to sealed collections name sealed ones. *)
LEMMA AliasesMove ==
    ASSUME PublicationInv, UNCHANGED <<gens, rows>>, task'.pc \notin Making,
           alias' = alias \/ Sealed(alias'), prior' = prior \/ Sealed(prior'),
           late' \subseteq {"alias", "prior"} \X Generations,
           \A l \in late' : l \in late \/ Sealed(l[2])
    PROVE  AliasesAreSealed'
  BY DEF PublicationInv, AliasesAreSealed, Sealed

(* _set_alias, done, failed, or failed and done later. *)
LEMMA SetPriorGives ==
    ASSUME IndexTyped, NEW g \in Generations, NEW p \in Places, NEW q \in Places,
           SetPrior(g, p, q)
    PROVE  /\ \/ Go(p) /\ prior' = g /\ UNCHANGED <<late, faults>>
              \/ Go(q) /\ faults' = faults + 1 /\ prior' \in {prior, g}
                       /\ late' \in {late, late \cup {<<"prior", g>>}}
           /\ UNCHANGED <<folder, slipped, told, recent, deaths>>
           /\ prior' \in Numbers /\ faults' \in Nat
           /\ late' \subseteq {"alias", "prior"} \X Generations
  BY Numbering DEF SetPrior, Failed, Fault, Counters, IndexTyped

(* The same for the serving alias. *)
LEMMA SetAliasGives ==
    ASSUME IndexTyped, NEW g \in Generations, NEW p \in Places, NEW q \in Places,
           SetAlias(g, p, q)
    PROVE  /\ \/ Go(p) /\ alias' = g /\ UNCHANGED <<late, faults>>
              \/ Go(q) /\ faults' = faults + 1 /\ alias' \in {alias, g}
                       /\ late' \in {late, late \cup {<<"alias", g>>}}
           /\ UNCHANGED <<folder, slipped, told, recent, deaths>>
           /\ alias' \in Numbers /\ faults' \in Nat
           /\ late' \subseteq {"alias", "prior"} \X Generations
  BY Numbering DEF SetAlias, Failed, Fault, Counters, IndexTyped

(* publish keeps what was served as the previous alias, *)
LEMMA KeepPreviousKeeps == ASSUME PublicationInv, KeepPrevious PROVE PublicationInv'
  <1>1. /\ IndexTyped /\ task.pc = "keep" /\ UNCHANGED <<gens, current, rows, alias>>
        /\ SetPrior(task.from, "publish", "cleanup") /\ Sealed(task.from)
        /\ task.from \in Generations
    BY DEF PublicationInv, KeepPrevious, Stands, Sealed
  <1>2. /\ \/ Go("publish") /\ prior' = task.from /\ UNCHANGED <<late, faults>>
           \/ Go("cleanup") /\ faults' = faults + 1 /\ prior' \in {prior, task.from}
                    /\ late' \in {late, late \cup {<<"prior", task.from>>}}
        /\ UNCHANGED <<folder, slipped, told, recent, deaths>>
        /\ prior' \in Numbers /\ faults' \in Nat
        /\ late' \subseteq {"alias", "prior"} \X Generations
    BY <1>1, SetPriorGives DEF Places, Made
  <1>3. /\ task' \in Tasks /\ task'.pc \in {"publish", "cleanup"} /\ task'.gen = task.gen
        /\ task'.next = task.next
        /\ task'.pc = "publish" => prior' = task.from /\ UNCHANGED <<late, faults>>
        /\ task'.pc = "cleanup" => faults' = faults + 1
    BY <1>1, <1>2, GoFields DEF IndexTyped, Places, Made
  <1>4. IndexTyped'
    BY <1>1, <1>2, <1>3 DEF IndexTyped
  <1>5. AliasesAreSealed'
    BY <1>1, <1>2, <1>3, AliasesMove DEF Making
  <1>6. Stands'
    BY <1>1, <1>2, <1>3 DEF PublicationInv, Stands, Sealed, Making, Made, Undoing
  <1>7. InStep'
    BY <1>1, <1>2, <1>3, StoresRest
       DEF PublicationInv, InStep, IndexTyped, Previous, Making, Undoing
  <1> QED
    BY <1>1, <1>2, <1>4, <1>5, <1>6, <1>7, StoresRest DEF PublicationInv

(* then moves the serving alias. *)
LEMMA PublishKeeps == ASSUME PublicationInv, Publish PROVE PublicationInv'
  <1>1. /\ IndexTyped /\ task.pc = "publish" /\ UNCHANGED <<gens, current, rows, prior>>
        /\ SetAlias(task.gen, "verify", "cleanup") /\ Sealed(task.gen)
        /\ task.gen \in Generations
    BY DEF PublicationInv, Publish, Stands, Sealed, Made
  <1>2. /\ \/ Go("verify") /\ alias' = task.gen /\ UNCHANGED <<late, faults>>
           \/ Go("cleanup") /\ faults' = faults + 1 /\ alias' \in {alias, task.gen}
                    /\ late' \in {late, late \cup {<<"alias", task.gen>>}}
        /\ UNCHANGED <<folder, slipped, told, recent, deaths>>
        /\ alias' \in Numbers /\ faults' \in Nat
        /\ late' \subseteq {"alias", "prior"} \X Generations
    BY <1>1, SetAliasGives DEF Places, Made
  <1>3. /\ task' \in Tasks /\ task'.pc \in {"verify", "cleanup"} /\ task'.gen = task.gen
        /\ task'.next = task.next
        /\ task'.pc = "verify" => alias' = task.gen /\ UNCHANGED <<late, faults>>
        /\ task'.pc = "cleanup" => faults' = faults + 1
    BY <1>1, <1>2, GoFields DEF IndexTyped, Places, Made
  <1>4. IndexTyped'
    BY <1>1, <1>2, <1>3 DEF IndexTyped
  <1>5. AliasesAreSealed'
    BY <1>1, <1>2, <1>3, AliasesMove DEF Making
  <1>6. Stands'
    BY <1>1, <1>2, <1>3 DEF PublicationInv, Stands, Sealed, Making, Made, Undoing
  <1>7. InStep'
    BY <1>1, <1>2, <1>3, StoresRest
       DEF PublicationInv, InStep, IndexTyped, Previous, Making, Undoing
  <1> QED
    BY <1>1, <1>2, <1>4, <1>5, <1>6, <1>7, StoresRest DEF PublicationInv

(* The pipeline asks the store which generation is served. *)
LEMMA VerifyAliasKeeps == ASSUME PublicationInv, VerifyAlias PROVE PublicationInv'
  <1>1. /\ IndexTyped /\ task.pc = "verify" /\ UNCHANGED <<gens, current, rows, alias, prior>>
        /\ UNCHANGED <<folder, late, slipped, told, recent, deaths>> /\ faults' \in Nat
        /\ task.gen \in Generations
    BY DEF PublicationInv, VerifyAlias, Stands, Fault, World, Counters, IndexTyped
  <1>2. /\ task' \in Tasks /\ task'.pc \in {"commit", "cleanup"} /\ task'.gen = task.gen
        /\ task'.next = task.next
        /\ \/ faults' = faults /\ (task'.pc = "commit" <=> alias = task.gen)
           \/ faults' = faults + 1 /\ task'.pc = "cleanup"
    BY <1>1 DEF VerifyAlias, Fault, IndexTyped, Tasks, Places, Made
  <1>3. IndexTyped'
    BY <1>1, <1>2 DEF IndexTyped
  <1>4. AliasesAreSealed'
    BY <1>1, <1>2, AliasesMove DEF Making, IndexTyped
  <1>5. Stands'
    BY <1>1, <1>2 DEF PublicationInv, Stands, Sealed, Making, Made, Undoing
  <1>6. InStep'
    BY <1>1, <1>2, StoresRest DEF PublicationInv, InStep, IndexTyped, Previous, Making, Undoing
  <1> QED
    BY <1>1, <1>3, <1>4, <1>5, <1>6, StoresRest DEF PublicationInv

(* The rollback of the alias reads both aliases, *)
LEMMA SwapKeeps == ASSUME PublicationInv, Swap PROVE PublicationInv'
  <1>1. /\ IndexTyped /\ task.pc = "swap"
        /\ UNCHANGED <<gens, current, rows, alias, prior, faults>>
        /\ UNCHANGED <<folder, late, slipped, told, recent, deaths>>
        /\ task.gen \in Generations
    BY DEF PublicationInv, Swap, Stands, World, Counters
  <1>2. /\ task' \in Tasks /\ task'.gen = task.gen /\ task'.next = task.next
        /\ \/ /\ alias = 0 \/ prior = 0
              /\ task'.pc = IF task.next = "cleanup" THEN "cleanup" ELSE "end"
           \/ /\ alias # 0 /\ prior # 0 /\ task'.pc = "swap1"
              /\ task'.from = alias /\ task'.to = prior
    <2>1. task \in Tasks /\ alias \in Numbers /\ prior \in Numbers
      BY <1>1 DEF IndexTyped
    <2>2. CASE alias = 0 \/ prior = 0
      <3> DEFINE p == IF task.next = "cleanup" THEN "cleanup" ELSE "end"
      <3>1. p \in Places /\ Go(p)
        BY <2>2 DEF Swap, Go, Places
      <3> HIDE DEF p
      <3>2. task' \in Tasks /\ task'.gen = task.gen /\ task'.next = task.next /\ task'.pc = p
        BY <2>1, <3>1, GoFields
      <3> QED
        BY <2>2, <3>2 DEF p
    <2>3. CASE ~(alias = 0 \/ prior = 0)
      <3>1. task' = [task EXCEPT !.pc = "swap1", !.from = alias, !.to = prior]
        BY <2>3 DEF Swap
      <3>2. "swap1" \in Places
        BY DEF Places, Undoing
      <3> QED
        BY <2>1, <2>3, <3>1, <3>2, NextFields
    <2> QED
      BY <2>2, <2>3
  <1>3. /\ task'.pc \in {"swap1", "cleanup", "end"}
        /\ task'.pc = "swap1" => Sealed(alias) /\ Sealed(prior)
    BY <1>2 DEF PublicationInv, AliasesAreSealed
  <1>4. IndexTyped'
    BY <1>1, <1>2 DEF IndexTyped
  <1>5. AliasesAreSealed'
    BY <1>1, <1>3, AliasesMove DEF Making, IndexTyped
  <1>6. Stands'
    BY <1>1, <1>2, <1>3 DEF PublicationInv, Stands, Sealed, Making, Made, Undoing
  <1>7. InStep'
    BY <1>1, <1>2, <1>3, StoresRest, Numbering
       DEF PublicationInv, InStep, IndexTyped, Previous, Making, Undoing
  <1> QED
    BY <1>1, <1>4, <1>5, <1>6, <1>7, StoresRest DEF PublicationInv

(* moves the serving one, *)
LEMMA Swap1Keeps == ASSUME PublicationInv, Swap1 PROVE PublicationInv'
  <1>1. /\ IndexTyped /\ task.pc = "swap1" /\ UNCHANGED <<gens, current, rows, prior>>
        /\ SetAlias(task.to, "swap2", FailedSwap) /\ Sealed(task.to)
        /\ task.to \in Generations /\ task.gen \in Generations
        /\ FailedSwap \in {"cleanup", "end"} /\ (FailedSwap = "cleanup" <=> task.next = "cleanup")
    BY DEF PublicationInv, Swap1, Stands, Sealed, FailedSwap
  <1>2. /\ \/ Go("swap2") /\ alias' = task.to /\ UNCHANGED <<late, faults>>
           \/ Go(FailedSwap) /\ faults' = faults + 1 /\ alias' \in {alias, task.to}
                    /\ late' \in {late, late \cup {<<"alias", task.to>>}}
        /\ UNCHANGED <<folder, slipped, told, recent, deaths>>
        /\ alias' \in Numbers /\ faults' \in Nat
        /\ late' \subseteq {"alias", "prior"} \X Generations
    BY <1>1, SetAliasGives DEF Places, Undoing
  <1>3. /\ task' \in Tasks /\ task'.gen = task.gen /\ task'.next = task.next
        /\ task'.from = task.from /\ task'.to = task.to
        /\ \/ task'.pc = "swap2" /\ alias' = task.to /\ UNCHANGED <<late, faults>>
           \/ task'.pc = FailedSwap /\ faults' = faults + 1
    BY <1>1, <1>2, GoFields DEF IndexTyped, Places, Undoing
  <1>4. IndexTyped'
    BY <1>1, <1>2, <1>3 DEF IndexTyped
  <1>5. AliasesAreSealed'
    BY <1>1, <1>2, <1>3, AliasesMove DEF Making
  <1>6. Stands'
    BY <1>1, <1>2, <1>3 DEF PublicationInv, Stands, Sealed, Making, Made, Undoing
  <1>7. InStep'
    BY <1>1, <1>2, <1>3, StoresRest
       DEF PublicationInv, InStep, IndexTyped, Previous, Making, Undoing
  <1> QED
    BY <1>1, <1>2, <1>4, <1>5, <1>6, <1>7, StoresRest DEF PublicationInv

(* and then the previous one. *)
LEMMA Swap2Keeps == ASSUME PublicationInv, Swap2 PROVE PublicationInv'
  <1>1. /\ IndexTyped /\ task.pc = "swap2" /\ UNCHANGED <<gens, current, rows, alias>>
        /\ SetPrior(task.from, task.next, FailedSwap) /\ Sealed(task.from)
        /\ task.from \in Generations /\ task.gen \in Generations
        /\ task.next \in {"cleanup", "match", "end"}
        /\ FailedSwap \in {"cleanup", "end"} /\ (FailedSwap = "cleanup" <=> task.next = "cleanup")
    BY DEF PublicationInv, Swap2, Stands, Sealed, FailedSwap, Undoing
  <1>2. /\ \/ Go(task.next) /\ prior' = task.from /\ UNCHANGED <<late, faults>>
           \/ Go(FailedSwap) /\ faults' = faults + 1 /\ prior' \in {prior, task.from}
                    /\ late' \in {late, late \cup {<<"prior", task.from>>}}
        /\ UNCHANGED <<folder, slipped, told, recent, deaths>>
        /\ prior' \in Numbers /\ faults' \in Nat
        /\ late' \subseteq {"alias", "prior"} \X Generations
    BY <1>1, SetPriorGives DEF Places
  <1>3. /\ task' \in Tasks /\ task'.gen = task.gen /\ task'.next = task.next
        /\ \/ task'.pc = task.next /\ prior' = task.from /\ UNCHANGED <<late, faults>>
           \/ task'.pc = FailedSwap /\ faults' = faults + 1
    BY <1>1, <1>2, GoFields DEF IndexTyped, Places
  <1>4. IndexTyped'
    BY <1>1, <1>2, <1>3 DEF IndexTyped
  <1>5. AliasesAreSealed'
    BY <1>1, <1>2, <1>3, AliasesMove DEF Making
  <1>6. Stands'
    BY <1>1, <1>2, <1>3 DEF PublicationInv, Stands, Sealed, Making, Made, Undoing
  <1>7. InStep'
    BY <1>1, <1>2, <1>3, StoresRest
       DEF PublicationInv, InStep, IndexTyped, Previous, Making, Undoing
  <1> QED
    BY <1>1, <1>2, <1>4, <1>5, <1>6, <1>7, StoresRest DEF PublicationInv

(* The newest generation that is kept is the one before the current one. *)
LEMMA CandidateIs ==
    ASSUME IndexTyped, KeptAreWhole, OrderIsKept
    PROVE  IF Available = {} THEN Candidate = 0
           ELSE Candidate \in Available /\ recent[Candidate] = 2
  <1>1. CASE Available = {}
    BY <1>1 DEF Candidate
  <1>2. CASE Available # {}
    <2>1. PICK g \in Available : recent[g] = 2
      BY <1>2 DEF OrderIsKept
    <2>2. current # 0 /\ current \in Generations /\ recent[current] = 1
      BY <1>2, Numbering DEF KeptAreWhole, OrderIsKept, IndexTyped
    <2>3. ASSUME NEW h \in Available PROVE recent[h] \in Nat /\ recent[h] >= 2
      <3>1. h \in Generations /\ gens[h].state = "available" /\ recent[h] \in Nat
        BY DEF Available, IndexTyped
      <3>2. recent[h] # 0
        BY <3>1 DEF OrderIsKept
      <3>3. h # current
        BY <3>1 DEF KeptAreWhole
      <3>4. recent[h] # 1
        BY <2>2, <3>1, <3>3 DEF OrderIsKept
      <3> QED
        BY <3>1, <3>2, <3>4
    <2>4. \A h \in Available : recent[g] <= recent[h]
      BY <2>1, <2>3
    <2>5. /\ Candidate \in Available
          /\ \A h \in Available : recent[Candidate] <= recent[h]
      BY <1>2, <2>1, <2>4 DEF Candidate
    <2>6. recent[Candidate] <= 2 /\ recent[Candidate] >= 2 /\ recent[Candidate] \in Nat
      BY <2>1, <2>3, <2>5
    <2> QED
      BY <1>2, <2>5, <2>6
  <1> QED
    BY <1>1, <1>2

(* A rollback begins at the newest generation that is kept. *)
LEMMA RollbackKeeps == ASSUME PublicationInv, Rollback PROVE PublicationInv'
  <1>1. /\ IndexTyped /\ task.pc = "idle"
        /\ UNCHANGED <<gens, current, rows, alias, prior, faults>>
        /\ UNCHANGED <<folder, late, slipped, told, recent, deaths>>
        /\ alias = current /\ current # 0 /\ Candidate # 0
    BY DEF PublicationInv, Rollback, World, Counters
  <1>2. Candidate \in Generations /\ gens[Candidate].state = "available"
    BY <1>1, CandidateIs DEF PublicationInv, Available
  <1>3. /\ task' \in Tasks /\ task'.pc = "swap" /\ task'.gen = Candidate
        /\ task'.next = "match"
    <2>1. task' = [Idle EXCEPT !.pc = "swap", !.gen = Candidate, !.base = current, !.next = "match"]
      BY DEF Rollback
    <2>2. Candidate \in Numbers /\ current \in Numbers
      BY <1>1, <1>2, Numbering DEF IndexTyped
    <2> QED
      BY <2>1, <2>2, IdleTask DEF Tasks, Places, Undoing
  <1>4. IndexTyped'
    BY <1>1, <1>3 DEF IndexTyped
  <1>5. AliasesAreSealed'
    BY <1>1, <1>3, AliasesMove DEF Making, IndexTyped
  <1>6. Stands'
    BY <1>1, <1>2, <1>3 DEF Stands, Making, Made, Undoing
  <1>7. InStep'
    BY <1>1, <1>3, StoresRest DEF PublicationInv, InStep, Previous, Making, Undoing
  <1> QED
    BY <1>1, <1>4, <1>5, <1>6, <1>7, StoresRest DEF PublicationInv

(* It goes on only where the index went back to that generation. *)
LEMMA MatchKeeps == ASSUME PublicationInv, Match PROVE PublicationInv'
  <1>1. /\ IndexTyped /\ task.pc = "match" /\ UNCHANGED <<gens, current, rows, alias, prior>>
        /\ UNCHANGED <<folder, late, slipped, told, recent, deaths>> /\ faults' \in Nat
        /\ task.gen \in Generations
    BY DEF PublicationInv, Match, Stands, Fault, World, Counters, IndexTyped
  <1>2. /\ task' \in Tasks /\ task'.gen = task.gen
        /\ \/ /\ faults' = faults /\ alias = task.gen /\ task'.pc = "revert"
           \/ /\ faults' = faults /\ alias # task.gen /\ task'.pc = "swap" /\ task'.next = "end"
           \/ /\ faults' = faults + 1 /\ task'.pc = "end"
    BY <1>1 DEF Match, Fault, Go, IndexTyped, Tasks, Places, Undoing
  <1>3. IndexTyped'
    BY <1>1, <1>2 DEF IndexTyped
  <1>4. AliasesAreSealed'
    BY <1>1, <1>2, AliasesMove DEF Making, IndexTyped
  <1>5. Stands'
    BY <1>1, <1>2 DEF PublicationInv, Stands, Sealed, Making, Made, Undoing
  <1>6. InStep'
    BY <1>1, <1>2, StoresRest DEF PublicationInv, InStep, IndexTyped, Previous, Making, Undoing
  <1> QED
    BY <1>1, <1>3, <1>4, <1>5, <1>6, StoresRest DEF PublicationInv

(* It ends, undone or half done. *)
LEMMA EndKeeps == ASSUME PublicationInv, End PROVE PublicationInv'
  <1>1. /\ IndexTyped /\ task.pc = "end" /\ task' = Idle
        /\ UNCHANGED <<gens, current, rows, alias, prior, faults>>
        /\ UNCHANGED <<folder, late, slipped, told, recent, deaths>>
    BY DEF PublicationInv, End, World, Counters
  <1>2. IndexTyped' /\ task'.pc = "idle"
    BY <1>1, IdleTask DEF IndexTyped
  <1>3. AliasesAreSealed'
    BY <1>1, <1>2, AliasesMove DEF Making, IndexTyped
  <1>4. Stands'
    BY <1>2 DEF Stands, Making, Made, Undoing
  <1>5. InStep'
    BY <1>1 DEF PublicationInv, InStep
  <1> QED
    BY <1>1, <1>2, <1>3, <1>4, <1>5, StoresRest DEF PublicationInv

(* The process dies; what it wrote stays. *)
LEMMA DieKeeps == ASSUME PublicationInv, Die PROVE PublicationInv'
  <1>1. /\ IndexTyped /\ deaths' = deaths + 1 /\ task' = Idle
        /\ UNCHANGED <<gens, current, rows, alias, prior, faults>>
        /\ UNCHANGED <<folder, late, slipped, told, recent>>
    BY DEF PublicationInv, Die
  <1>2. IndexTyped' /\ task'.pc = "idle"
    BY <1>1, IdleTask DEF IndexTyped
  <1>3. AliasesAreSealed'
    BY <1>1, <1>2, AliasesMove DEF Making, IndexTyped
  <1>4. Stands'
    BY <1>2 DEF Stands, Making, Made, Undoing
  <1>5. InStep'
    BY <1>1 DEF InStep, IndexTyped
  <1> QED
    BY <1>1, <1>2, <1>3, <1>4, <1>5, StoresRest DEF PublicationInv

(* A switch that its caller gave up on still finds a sealed collection. *)
LEMMA LateKeeps == ASSUME PublicationInv, Late PROVE PublicationInv'
  <1>1. PICK l \in late :
           /\ late' = late \ {l}
           /\ IF rows[l[2]] = NoRows THEN UNCHANGED <<alias, prior, slipped>>
              ELSE /\ slipped' = TRUE
                   /\ alias' = IF l[1] = "alias" THEN l[2] ELSE alias
                   /\ prior' = IF l[1] = "prior" THEN l[2] ELSE prior
           /\ UNCHANGED <<folder, gens, current, rows, task, told, recent, changes, faults, deaths>>
    BY DEF Late
  <1>2. IndexTyped /\ l[2] \in Generations /\ l[2] \in Numbers
    BY Numbering DEF PublicationInv, IndexTyped
  <1>3. /\ alias' \in {alias, l[2]} /\ prior' \in {prior, l[2]} /\ slipped' \in BOOLEAN
        /\ alias' # alias \/ prior' # prior => slipped' /\ Sealed(l[2])
        /\ slipped' \/ (UNCHANGED <<alias, prior, slipped>>)
    BY <1>1, <1>2 DEF PublicationInv, IndexTyped, AliasesAreSealed
  <1>4. IndexTyped'
    BY <1>1, <1>2, <1>3 DEF IndexTyped
  <1>5. AliasesAreSealed'
    BY <1>1, <1>3 DEF PublicationInv, AliasesAreSealed, Sealed
  <1>6. Stands'
    <2>1. \A g : Sealed(g)' <=> Sealed(g)
      BY <1>1, StoresRest
    <2>2. task'.pc \in {"commit", "revert"} /\ ~slipped' => alias' = task'.gen
      BY <1>1, <1>3 DEF PublicationInv, Stands
    <2> QED
      BY <1>1, <2>1, <2>2 DEF PublicationInv, Stands, Sealed
  <1>7. InStep'
    BY <1>1 DEF PublicationInv, InStep
  <1>8. ~slipped' => told'.gen = told'.served
    BY <1>1, <1>3 DEF PublicationInv
  <1> QED
    BY <1>1, <1>4, <1>5, <1>6, <1>7, <1>8, StoresRest DEF PublicationInv

(* The directory changes under a running synchronization. *)
LEMMA ChangeKeeps == ASSUME PublicationInv, Change PROVE PublicationInv'
  <1>1. /\ UNCHANGED <<gens, rows, alias, prior, current, task, late, slipped, told, recent,
                       faults, deaths>>
        /\ folder' \in Listing
    BY DEF PublicationInv, Change, IndexTyped, Listing, Docs
  <1>2. IndexTyped'
    BY <1>1 DEF PublicationInv, IndexTyped
  <1>3. AliasesAreSealed' /\ Stands'
    BY <1>1 DEF PublicationInv, AliasesAreSealed, Stands, Sealed
  <1>4. InStep'
    BY <1>1, StoresRest DEF PublicationInv, InStep, Previous
  <1> QED
    BY <1>1, <1>2, <1>3, <1>4, StoresRest DEF PublicationInv

(* What touches one generation that is not kept disturbs no other. *)
LEMMA OthersRest ==
    ASSUME PublicationInv, NEW g \in Generations, gens' \in [Generations -> Manifests],
           gens[g].state \notin {"published", "available"},
           gens'[g].state \notin {"published", "available"},
           \A h \in Generations \ {g} : gens'[h] = gens[h] /\ rows'[h] = rows[h],
           UNCHANGED <<current, recent>>
    PROVE  /\ KeptAreWhole' /\ OrderIsKept' /\ Candidate' = Candidate
           /\ \A h : h # g => (Sealed(h)' <=> Sealed(h))
  <1>1. \A h : h # g => (Sealed(h)' <=> Sealed(h))
    BY DEF Sealed
  <1>2. Available' = Available
    <2>1. \A h \in Generations : gens'[h].state = "available" <=> gens[h].state = "available"
      OBVIOUS
    <2> QED
      BY <2>1 DEF Available
  <1>3. Candidate' = Candidate
    BY <1>2 DEF Candidate
  <1>4. g # current /\ g \notin Available
    BY DEF PublicationInv, KeptAreWhole, Available
  <1>5. KeptAreWhole'
    <2>1. \A h \in Generations : gens'[h].state = "published" <=> (h = current')
      BY <1>4 DEF PublicationInv, KeptAreWhole
    <2>2. ASSUME NEW h \in (Available \cup ({current} \ {0}))'
          PROVE  Sealed(h)' /\ gens'[h].docs = gens'[h].snapshot
      <3>1. h \in Available \cup ({current} \ {0}) /\ h # g
        BY <1>2, <1>4
      <3>2. Sealed(h) /\ gens[h].docs = gens[h].snapshot
        BY <3>1 DEF PublicationInv, KeptAreWhole
      <3> QED
        BY <1>1, <3>1, <3>2 DEF Sealed
    <2>3. current' = 0 => Available' = {}
      BY <1>2 DEF PublicationInv, KeptAreWhole
    <2> QED
      BY <2>1, <2>2, <2>3 DEF KeptAreWhole
  <1>6. OrderIsKept'
    <2>1. \A h \in Generations : recent'[h] # 0 <=> gens'[h].state \in {"published", "available"}
      BY DEF PublicationInv, OrderIsKept
    <2> QED
      BY <1>2, <2>1 DEF PublicationInv, OrderIsKept
  <1> QED
    BY <1>1, <1>3, <1>5, <1>6

(* A manifest whose state alone changes. *)
LEMMA WithState ==
    ASSUME gens \in [Generations -> Manifests], NEW g \in Generations, NEW s \in States,
           gens' = [gens EXCEPT ![g].state = s]
    PROVE  /\ gens' \in [Generations -> Manifests]
           /\ gens'[g].state = s /\ gens'[g].docs = gens[g].docs
           /\ gens'[g].snapshot = gens[g].snapshot
           /\ \A h \in Generations \ {g} : gens'[h] = gens[h]
  BY DEF Manifests

(* begin_run takes a number that nothing names yet. *)
LEMMA BeginSyncKeeps == ASSUME PublicationInv, BeginSync PROVE PublicationInv'
  <1>1. /\ IndexTyped /\ task.pc = "idle" /\ alias = current /\ folder # NoDocuments
        /\ UNCHANGED <<current, rows, alias, prior, faults>>
        /\ UNCHANGED <<folder, late, slipped, told, recent, deaths>>
    BY DEF PublicationInv, BeginSync, World, Counters
  <1>2. PICK g \in Generations, force \in BOOLEAN :
           /\ gens[g].state = "none"
           /\ gens' = [gens EXCEPT ![g].state = "building", ![g].snapshot = folder]
           /\ task' = [Idle EXCEPT !.pc = "create", !.gen = g, !.base = current,
                                   !.snapshot = folder, !.force = force, !.left = Documents]
    BY DEF BeginSync
  <1>3. /\ gens' \in [Generations -> Manifests]
        /\ gens'[g].state = "building" /\ gens'[g].snapshot = folder
        /\ gens'[g].docs = gens[g].docs
        /\ \A h \in Generations \ {g} : gens'[h] = gens[h]
    BY <1>1, <1>2 DEF IndexTyped, Manifests, States
  <1>4. /\ task' \in Tasks /\ task'.pc = "create" /\ task'.gen = g
        /\ task'.snapshot = folder /\ task'.left = Documents
    <2>1. g \in Numbers /\ current \in Numbers /\ folder \in Listing
      BY <1>1, Numbering DEF IndexTyped
    <2> QED
      BY <1>2, <2>1, IdleTask DEF Tasks, Places, Making
  <1>5. gens[g].docs = NoDocuments /\ ~Sealed(g)
    BY <1>2 DEF PublicationInv, UnusedAreEmpty, Sealed
  <1>6. /\ KeptAreWhole' /\ OrderIsKept' /\ Candidate' = Candidate
        /\ \A h : h # g => (Sealed(h)' <=> Sealed(h))
    BY <1>1, <1>2, <1>3, OthersRest
  <1>7. IndexTyped'
    BY <1>1, <1>3, <1>4 DEF IndexTyped
  <1>8. AliasesAreSealed'
    <2>1. \A h \in {alias, prior} \ {0} : h # g /\ Sealed(h)
      BY <1>5 DEF PublicationInv, AliasesAreSealed
    <2>2. g # 0
      BY Numbering
    <2>3. \A l \in late : l[2] # g /\ l[2] \in Generations
      BY <1>1, <1>2 DEF PublicationInv, AliasesAreSealed, IndexTyped
    <2> QED
      BY <1>1, <1>3, <1>4, <1>6, <2>1, <2>2, <2>3
         DEF PublicationInv, AliasesAreSealed, Sealed
  <1>9. UnusedAreEmpty'
    BY <1>1, <1>3 DEF PublicationInv, UnusedAreEmpty
  <1>10. Stands'
    <2>1. Documents # {}
      BY <1>1 DEF NoDocuments, IndexTyped, Listing
    <2>2. \A d \in Documents : gens'[g].docs[d] = 0
      BY <1>3, <1>5 DEF NoDocuments
    <2> QED
      BY <1>3, <1>4, <2>1, <2>2 DEF Stands, Making, Made, Undoing
  <1>11. InStep'
    BY <1>1, <1>4, <1>6 DEF PublicationInv, InStep, Previous, Making, Undoing
  <1> QED
    BY <1>1, <1>6, <1>7, <1>8, <1>9, <1>10, <1>11 DEF PublicationInv

(* The rows of the generation in the making. *)
LEMMA RowsRest ==
    ASSUME PublicationInv, task.pc \in Making, UNCHANGED <<alias, prior, late>>,
           gens' \in [Generations -> Manifests], gens'[task.gen].state # "none",
           \A h \in Generations \ {task.gen} : gens'[h] = gens[h] /\ rows'[h] = rows[h],
           task'.pc \in Making => task'.gen = task.gen
    PROVE  AliasesAreSealed' /\ UnusedAreEmpty'
  <1>1. AliasesAreSealed'
    <2>1. \A h \in {alias, prior} \ {0} : h # task.gen /\ Sealed(h)
      BY DEF PublicationInv, AliasesAreSealed
    <2>2. \A l \in late : l[2] # task.gen /\ l[2] \in Generations
      BY DEF PublicationInv, AliasesAreSealed, IndexTyped
    <2> QED
      BY <2>1, <2>2 DEF PublicationInv, AliasesAreSealed, Sealed
  <1>2. UnusedAreEmpty'
    BY DEF PublicationInv, UnusedAreEmpty
  <1> QED
    BY <1>1, <1>2

(* create_staging, done or perhaps done. *)
LEMMA CreateKeeps == ASSUME PublicationInv, Create PROVE PublicationInv'
  <1>1. /\ IndexTyped /\ task.pc = "create" /\ UNCHANGED <<gens, current, alias, prior>>
        /\ UNCHANGED <<folder, late, slipped, told, recent, deaths>> /\ faults' \in Nat
        /\ task.gen \in Generations /\ gens[task.gen].state = "building"
        /\ task.left = Documents /\ Documents # {}
    BY DEF PublicationInv, Create, Stands, Making, Fault, World, Counters, IndexTyped
  <1>2. /\ task' \in Tasks /\ task'.gen = task.gen /\ task'.snapshot = task.snapshot
        /\ \/ /\ task'.pc = "build" /\ task'.left = task.left /\ faults' = faults
              /\ rows' = [rows EXCEPT ![task.gen] = NoDocuments]
           \/ /\ task'.pc = "cleanup" /\ faults' = faults + 1
              /\ rows' \in {rows, [rows EXCEPT ![task.gen] = NoDocuments]}
    BY <1>1 DEF Create, Fault, Go, IndexTyped, Tasks, Places, Making
  <1>3. NoDocuments \in Listing /\ NoDocuments # NoRows
    BY IndexBounds DEF NoDocuments, Listing, Docs
  <1>4. /\ rows' \in [Generations -> Listing \cup {NoRows}]
        /\ \A h \in Generations \ {task.gen} : rows'[h] = rows[h]
        /\ task'.pc = "build" => rows'[task.gen] # NoRows
    BY <1>1, <1>2, <1>3 DEF IndexTyped
  <1>5. KeptAreWhole' /\ OrderIsKept' /\ Candidate' = Candidate
    BY <1>1, <1>4, OthersRest DEF IndexTyped
  <1>6. IndexTyped'
    BY <1>1, <1>2, <1>4 DEF IndexTyped
  <1>7. AliasesAreSealed' /\ UnusedAreEmpty'
    BY <1>1, <1>2, <1>4, RowsRest DEF IndexTyped, Making
  <1>8. Stands'
    BY <1>1, <1>2, <1>4 DEF PublicationInv, Stands, Making, Made, Undoing
  <1>9. InStep'
    BY <1>1, <1>2, <1>5 DEF PublicationInv, InStep, IndexTyped, Previous, Making, Undoing
  <1> QED
    BY <1>1, <1>5, <1>6, <1>7, <1>8, <1>9 DEF PublicationInv

(* One action of the plan leaves its document as the snapshot has it, or    *)
(* gives the generation up.                                                 *)
LEMMA BuildGives ==
    ASSUME PublicationInv, Build
    PROVE  \E d \in task.left :
              /\ task' \in Tasks /\ task'.gen = task.gen /\ task'.snapshot = task.snapshot
              /\ gens' \in [Generations -> Manifests]
              /\ rows' \in [Generations -> Listing \cup {NoRows}]
              /\ \A h \in Generations \ {task.gen} : gens'[h] = gens[h] /\ rows'[h] = rows[h]
              /\ gens'[task.gen].state = "building"
              /\ gens'[task.gen].snapshot = gens[task.gen].snapshot
              /\ rows'[task.gen] # NoRows
              /\ faults' \in Nat /\ (faults' = 0 => faults = 0)
              /\ \/ task'.pc = "cleanup"
                 \/ /\ task'.left = task.left \ {d}
                    /\ task'.pc = IF task'.left = {} THEN "validate" ELSE "build"
                    /\ gens'[task.gen].docs = [gens[task.gen].docs EXCEPT ![d] = task.snapshot[d]]
  <1> DEFINE d == CHOOSE x \in task.left : TRUE
             content == task.snapshot[d]
             g == task.gen
  <1>1. /\ IndexTyped /\ task.pc = "build" /\ g \in Generations /\ d \in task.left
        /\ d \in Documents /\ gens[g].state = "building" /\ rows[g] # NoRows
        /\ gens[g].docs[d] = 0
    BY DEF PublicationInv, Build, Stands, Making, IndexTyped, Tasks
  <1>2. /\ gens[g] \in Manifests /\ gens[g].docs \in Listing /\ rows[g] \in Listing
        /\ task.snapshot \in Listing /\ content \in Docs /\ NoRows \notin Listing
    BY <1>1, IndexBounds DEF IndexTyped, Manifests, Tasks, Listing, Docs
  <1>3. Served(d) \in Docs
    <2>1. CASE alias = 0
      BY <2>1 DEF Served, Docs
    <2>2. CASE alias # 0
      <3>1. alias \in Generations /\ rows[alias] \in Listing
        BY <1>1, <2>2 DEF PublicationInv, AliasesAreSealed, Sealed, IndexTyped
      <3> QED
        BY <1>1, <2>2, <3>1 DEF Served, Listing
    <2> QED
      BY <2>1, <2>2
  <1>4. ASSUME Record(d, content)
        PROVE  /\ gens' \in [Generations -> Manifests]
               /\ \A h \in Generations \ {g} : gens'[h] = gens[h]
               /\ gens'[g].state = gens[g].state /\ gens'[g].snapshot = gens[g].snapshot
               /\ gens'[g].docs = [gens[g].docs EXCEPT ![d] = content]
    <2>1. gens' = [gens EXCEPT ![g] =
                      [gens[g] EXCEPT !.docs = [gens[g].docs EXCEPT ![d] = content]]]
      BY <1>1, <1>4 DEF Record, IndexTyped, Manifests
    <2>2. [gens[g].docs EXCEPT ![d] = content] \in Listing
      BY <1>1, <1>2 DEF Listing
    <2> QED
      BY <1>1, <1>2, <2>1, <2>2 DEF IndexTyped, Manifests
  <1>5. ASSUME NEW x \in Docs, rows' = [rows EXCEPT ![g][d] = x]
        PROVE  /\ rows' \in [Generations -> Listing \cup {NoRows}] /\ rows'[g] # NoRows
               /\ \A h \in Generations \ {g} : rows'[h] = rows[h]
    <2>1. rows' = [rows EXCEPT ![g] = [rows[g] EXCEPT ![d] = x]]
      BY <1>1, <1>5 DEF IndexTyped
    <2>2. [rows[g] EXCEPT ![d] = x] \in Listing
      BY <1>1, <1>2, <1>5 DEF Listing
    <2> QED
      BY <1>1, <1>2, <2>1, <2>2 DEF IndexTyped
  <1>6. /\ rows \in [Generations -> Listing \cup {NoRows}] /\ rows[g] # NoRows
        /\ gens \in [Generations -> Manifests] /\ faults \in Nat
    BY <1>1 DEF IndexTyped
  <1>7. /\ Abort => task' \in Tasks /\ task'.gen = g /\ task'.snapshot = task.snapshot
                    /\ task'.pc = "cleanup"
        /\ Done(d) => /\ task' \in Tasks /\ task'.gen = g /\ task'.snapshot = task.snapshot
                      /\ task'.left = task.left \ {d}
                      /\ task'.pc = IF task'.left = {} THEN "validate" ELSE "build"
    <2>1. task \in Tasks
      BY <1>1 DEF IndexTyped
    <2>2. Abort => task' \in Tasks /\ task'.gen = g /\ task'.snapshot = task.snapshot
                   /\ task'.pc = "cleanup"
      BY <2>1, GoFields DEF Abort, Places
    <2>3. Done(d) => /\ task' \in Tasks /\ task'.gen = g /\ task'.snapshot = task.snapshot
                     /\ task'.left = task.left \ {d}
                     /\ task'.pc = IF task.left = {d} THEN "validate" ELSE "build"
      <3> DEFINE p == IF task.left = {d} THEN "validate" ELSE "build"
      <3> SUFFICES ASSUME Done(d)
                   PROVE  /\ task' \in Tasks /\ task'.gen = g /\ task'.snapshot = task.snapshot
                          /\ task'.left = task.left \ {d} /\ task'.pc = p
        OBVIOUS
      <3>1. p \in Places
        BY DEF Places, Making
      <3>2. task' = [task EXCEPT !.left = @ \ {d}, !.pc = p]
        BY DEF Done
      <3> HIDE DEF d, p
      <3> QED
        BY <1>1, <2>1, <3>1, <3>2, DoneFields
    <2>4. task.left = {d} <=> task.left \ {d} = {}
      BY <1>1
    <2> QED
      BY <2>2, <2>3, <2>4
  <1>8. content = 0 => gens[g].docs = [gens[g].docs EXCEPT ![d] = content]
    BY <1>1, <1>2 DEF Listing
  <1>9. \/ content = 0 /\ Done(d) /\ UNCHANGED <<gens, rows, faults>>
        \/ Done(d) /\ Record(d, content) /\ Index(d, Served(d)) /\ faults' = faults
        \/ Done(d) /\ Record(d, content) /\ Index(d, content) /\ faults' = faults
        \/ Abort /\ UNCHANGED <<gens, rows>> /\ faults' = faults
        \/ Done(d) /\ Record(d, content) /\ UNCHANGED rows /\ faults' = faults + 1
        \/ /\ Abort /\ Record(d, content) /\ faults' = faults + 1
           /\ rows' \in {rows, [rows EXCEPT ![g][d] = content]}
    BY DEF Build, Fault
  <1>10. /\ gens' \in [Generations -> Manifests] /\ gens'[g].state = "building"
         /\ \A h \in Generations \ {g} : gens'[h] = gens[h]
         /\ gens'[g].snapshot = gens[g].snapshot
         /\ Done(d) => gens'[g].docs = [gens[g].docs EXCEPT ![d] = content]
    <2>1. CASE Record(d, content)
      BY <1>1, <1>4, <2>1
    <2>2. CASE UNCHANGED gens /\ (Done(d) => content = 0)
      BY <1>1, <1>6, <1>8, <2>2
    <2>3. Done(d) /\ Abort => FALSE
      BY <1>7
    <2> QED
      BY <1>9, <2>1, <2>2, <2>3
  <1>11. /\ rows' \in [Generations -> Listing \cup {NoRows}] /\ rows'[g] # NoRows
         /\ \A h \in Generations \ {g} : rows'[h] = rows[h]
    BY <1>2, <1>3, <1>5, <1>6, <1>9 DEF Index
  <1>12. faults' \in Nat /\ (faults' = 0 => faults = 0)
    BY <1>6, <1>9
  <1> QED
    BY <1>1, <1>7, <1>9, <1>10, <1>11, <1>12

(* Every action of the plan. *)
LEMMA BuildKeeps == ASSUME PublicationInv, Build PROVE PublicationInv'
  <1>1. /\ IndexTyped /\ task.pc = "build" /\ UNCHANGED <<current, alias, prior>>
        /\ UNCHANGED <<folder, late, slipped, told, recent, deaths>>
        /\ task.gen \in Generations /\ gens[task.gen].state = "building"
        /\ gens[task.gen].docs \in Listing
    BY GensFields DEF PublicationInv, Build, Stands, Making, World, Counters, IndexTyped
  <1>2. PICK d \in task.left :
              /\ task' \in Tasks /\ task'.gen = task.gen /\ task'.snapshot = task.snapshot
              /\ gens' \in [Generations -> Manifests]
              /\ rows' \in [Generations -> Listing \cup {NoRows}]
              /\ \A h \in Generations \ {task.gen} : gens'[h] = gens[h] /\ rows'[h] = rows[h]
              /\ gens'[task.gen].state = "building"
              /\ gens'[task.gen].snapshot = gens[task.gen].snapshot
              /\ rows'[task.gen] # NoRows
              /\ faults' \in Nat /\ (faults' = 0 => faults = 0)
              /\ \/ task'.pc = "cleanup"
                 \/ /\ task'.left = task.left \ {d}
                    /\ task'.pc = IF task'.left = {} THEN "validate" ELSE "build"
                    /\ gens'[task.gen].docs = [gens[task.gen].docs EXCEPT ![d] = task.snapshot[d]]
    BY BuildGives
  <1>3. KeptAreWhole' /\ OrderIsKept' /\ Candidate' = Candidate
    BY <1>1, <1>2, OthersRest
  <1>4. IndexTyped'
    BY <1>1, <1>2 DEF IndexTyped
  <1>5. AliasesAreSealed' /\ UnusedAreEmpty'
    BY <1>1, <1>2, RowsRest DEF Making
  <1>6. Stands'
    <2>1. CASE task'.pc = "cleanup"
      BY <1>1, <1>2, <2>1 DEF Stands, Making, Made, Undoing
    <2>2. CASE task'.pc # "cleanup"
      <3>1. ASSUME NEW x \in Documents
            PROVE  gens'[task.gen].docs[x] = IF x \in task'.left THEN 0 ELSE task.snapshot[x]
        <4>1. gens[task.gen].docs[x] = IF x \in task.left THEN 0 ELSE task.snapshot[x]
          BY <1>1 DEF PublicationInv, Stands, Making
        <4>2. x # d => gens'[task.gen].docs[x] = gens[task.gen].docs[x]
          BY <1>1, <1>2, <2>2 DEF Listing
        <4>3. x = d => gens'[task.gen].docs[x] = task.snapshot[x]
          BY <1>1, <1>2, <2>2 DEF Listing
        <4> QED
          BY <1>2, <2>2, <4>1, <4>2, <4>3
      <3>2. gens[task.gen].snapshot = task.snapshot
        BY <1>1 DEF PublicationInv, Stands, Making
      <3> QED
        BY <1>1, <1>2, <2>2, <3>1, <3>2 DEF Stands, Making, Made, Undoing
    <2> QED
      BY <2>1, <2>2
  <1>7. InStep'
    <2>1. task'.pc \in {"cleanup", "validate", "build"}
      BY <1>2
    <2> QED
      BY <1>1, <1>2, <1>3, <2>1 DEF PublicationInv, InStep, Previous, Making, Undoing
  <1> QED
    BY <1>1, <1>3, <1>4, <1>5, <1>6, <1>7 DEF PublicationInv

(* What is staged holds what its manifest lists, and that is the snapshot.  *)
LEMMA ValidateKeeps == ASSUME PublicationInv, Validate PROVE PublicationInv'
  <1> DEFINE g == task.gen
  <1>1. /\ IndexTyped /\ task.pc = "validate" /\ UNCHANGED <<current, rows, alias, prior>>
        /\ UNCHANGED <<folder, late, slipped, told, recent, deaths>> /\ faults' \in Nat
        /\ g \in Generations /\ gens[g].state = "building" /\ rows[g] # NoRows
        /\ gens[g].docs \in Listing /\ gens[g].snapshot \in Listing
    BY GensFields
       DEF PublicationInv, Validate, Stands, Making, Fault, World, Counters, IndexTyped
  <1>2. \/ /\ Valid /\ faults' = faults /\ gens' = [gens EXCEPT ![g].state = "staged"]
           /\ task' \in Tasks /\ task'.gen = g /\ task'.from = alias
           /\ task'.pc = IF alias = 0 THEN "publish" ELSE "keep"
        \/ /\ gens' = gens /\ (faults' = faults \/ faults' = faults + 1)
           /\ task' \in Tasks /\ task'.gen = g /\ task'.pc = "cleanup"
    <2>1. task \in Tasks /\ alias \in Numbers /\ g \in Numbers
      BY <1>1, Numbering DEF IndexTyped
    <2>2. CASE task' = [task EXCEPT !.pc = IF alias = 0 THEN "publish" ELSE "keep",
                                    !.from = alias, !.to = g]
      <3> DEFINE p == IF alias = 0 THEN "publish" ELSE "keep"
      <3>1. p \in Places
        BY DEF Places, Made
      <3>2. task' = [task EXCEPT !.pc = p, !.from = alias, !.to = g]
        BY <2>2
      <3>3. task' \in Tasks /\ task'.gen = g /\ task'.from = alias /\ task'.pc = p
        <4> HIDE DEF p
        <4> QED
          BY <2>1, <3>1, <3>2, NextFields
      <3>4. task'.pc # "cleanup"
        BY <3>3
      <3>5. ~Abort
        BY <2>1, <3>4, GoFields DEF Abort, Places
      <3> QED
        BY <3>3, <3>5 DEF Validate, Fault
    <2>3. CASE Abort
      <3>1. task' \in Tasks /\ task'.gen = g /\ task'.pc = "cleanup"
        BY <2>1, <2>3, GoFields DEF Abort, Places
      <3>2. \/ gens' = gens /\ (faults' = faults \/ faults' = faults + 1)
            \/ task' = [task EXCEPT !.pc = IF alias = 0 THEN "publish" ELSE "keep",
                                    !.from = alias, !.to = g]
        BY DEF Validate, Fault
      <3> QED
        BY <2>2, <3>1, <3>2
    <2> QED
      BY <2>2, <2>3 DEF Validate
  <1>3. task'.pc \in {"publish", "keep", "cleanup"} /\ task' \in Tasks /\ task'.gen = g
    BY <1>2
  <1>4. /\ gens' \in [Generations -> Manifests] /\ gens'[g].docs = gens[g].docs
        /\ gens'[g].snapshot = gens[g].snapshot
        /\ \A h \in Generations \ {g} : gens'[h] = gens[h]
        /\ gens'[g].state = IF task'.pc = "cleanup" THEN "building" ELSE "staged"
    <2>1. CASE gens' = gens /\ task'.pc = "cleanup"
      BY <1>1, <2>1 DEF IndexTyped
    <2>2. CASE gens' = [gens EXCEPT ![g].state = "staged"] /\ task'.pc # "cleanup"
      BY <1>1, <2>2, WithState DEF IndexTyped, States
    <2> QED
      BY <1>2, <2>1, <2>2
  <1>5. KeptAreWhole' /\ OrderIsKept' /\ Candidate' = Candidate
        /\ \A h : h # g => (Sealed(h)' <=> Sealed(h))
    BY <1>1, <1>4, OthersRest
  <1>6. IndexTyped'
    BY <1>1, <1>3, <1>4 DEF IndexTyped
  <1>7. AliasesAreSealed' /\ UnusedAreEmpty'
    BY <1>1, <1>3, <1>4, RowsRest DEF Making
  <1>8. Stands'
    <2>1. CASE task'.pc = "cleanup"
      BY <1>1, <1>3, <1>4, <2>1 DEF Stands, Making, Made, Undoing
    <2>2. CASE task'.pc # "cleanup"
      <3>1. Valid /\ task'.from = alias /\ task'.pc = IF alias = 0 THEN "publish" ELSE "keep"
        BY <1>2, <2>2
      <3>2. gens[g].docs = gens[g].snapshot
        <4>1. \A d \in Documents : gens[g].docs[d] = gens[g].snapshot[d]
          BY <1>1 DEF PublicationInv, Stands, Making
        <4> QED
          BY <1>1, <4>1 DEF Listing
      <3>3. gens'[g].state # "none" /\ rows'[g] # NoRows /\ rows'[g] = gens'[g].docs
        BY <1>1, <1>4, <2>2, <3>1 DEF Valid
      <3>4. task'.pc = "keep" => /\ alias \in Generations /\ gens'[alias].state # "none"
                                /\ rows'[alias] # NoRows /\ rows'[alias] = gens'[alias].docs
        <4>1. task'.pc = "keep" => alias # 0 /\ alias # g
          BY <1>1, <3>1 DEF PublicationInv, AliasesAreSealed, Making
        <4> QED
          BY <1>1, <1>4, <4>1 DEF PublicationInv, AliasesAreSealed, Sealed
      <3> QED
        BY <1>1, <1>3, <1>4, <2>2, <3>1, <3>2, <3>3, <3>4
           DEF Stands, Sealed, Making, Made, Undoing
    <2> QED
      BY <2>1, <2>2
  <1>9. InStep'
    <2>1. faults' = 0 => faults = 0
      BY <1>1, <1>2 DEF IndexTyped
    <2> QED
      BY <1>1, <1>2, <1>3, <1>5, <2>1 DEF PublicationInv, InStep, Previous, Making, Undoing
  <1> QED
    BY <1>1, <1>5, <1>6, <1>7, <1>8, <1>9 DEF PublicationInv

(* What a failed run drops is not served, nor kept for a rollback. *)
LEMMA CleanupKeeps == ASSUME PublicationInv, Cleanup PROVE PublicationInv'
  <1> DEFINE g == task.gen
  <1>1. /\ IndexTyped /\ task.pc = "cleanup" /\ UNCHANGED <<current, alias, prior>>
        /\ UNCHANGED <<folder, late, slipped, told, recent, deaths>> /\ faults' \in Nat
        /\ g \in Generations /\ gens[g].state \in {"building", "staged"}
        /\ task' = Idle /\ (faults' = faults \/ faults' = faults + 1)
    BY DEF PublicationInv, Cleanup, Stands, Fault, World, Counters, IndexTyped
  <1>2. gens' \in {gens, [gens EXCEPT ![g].state = "failed"]}
        /\ (rows' = rows \/ (rows' = [rows EXCEPT ![g] = NoRows] /\ g \notin {alias, prior}))
    BY DEF Cleanup
  <1>3. /\ gens' \in [Generations -> Manifests] /\ gens'[g].docs = gens[g].docs
        /\ \A h \in Generations \ {g} : gens'[h] = gens[h]
        /\ gens'[g].state \in {"building", "staged", "failed"}
    <2>1. CASE gens' = gens
      BY <1>1, <2>1 DEF IndexTyped
    <2>2. CASE gens' = [gens EXCEPT ![g].state = "failed"]
      BY <1>1, <2>2, WithState DEF IndexTyped, States
    <2> QED
      BY <1>2, <2>1, <2>2
  <1>4. /\ rows' \in [Generations -> Listing \cup {NoRows}]
        /\ \A h \in Generations \ {g} : rows'[h] = rows[h]
        /\ rows'[g] = rows[g] \/ (rows'[g] = NoRows /\ g \notin {alias, prior})
    BY <1>1, <1>2 DEF IndexTyped
  <1>5. KeptAreWhole' /\ OrderIsKept' /\ Candidate' = Candidate
    BY <1>1, <1>3, <1>4, OthersRest
  <1>6. IndexTyped' /\ task'.pc = "idle"
    BY <1>1, <1>3, <1>4, IdleTask DEF IndexTyped
  <1>7. AliasesAreSealed'
    <2>1. \A h \in {alias, prior} \ {0} :
             h \in Generations /\ gens'[h].state # "none" /\ rows'[h] # NoRows
             /\ rows'[h] = gens'[h].docs
      BY <1>1, <1>3, <1>4 DEF PublicationInv, AliasesAreSealed, Sealed
    <2>2. \A l \in late :
             /\ gens'[l[2]].state # "none"
             /\ rows'[l[2]] = NoRows \/ (/\ l[2] \in Generations /\ rows'[l[2]] # NoRows
                                         /\ rows'[l[2]] = gens'[l[2]].docs)
      BY <1>1, <1>3, <1>4 DEF PublicationInv, AliasesAreSealed, Sealed, IndexTyped
    <2> QED
      BY <1>1, <1>6, <2>1, <2>2 DEF AliasesAreSealed, Sealed, Making
  <1>8. UnusedAreEmpty'
    BY <1>1, <1>3, <1>4 DEF PublicationInv, UnusedAreEmpty
  <1>9. Stands'
    BY <1>6 DEF Stands, Making, Made, Undoing
  <1>10. InStep'
    <2>1. faults' = 0 => faults = 0
      BY <1>1 DEF IndexTyped
    <2> QED
      BY <1>1, <1>5, <1>6, <2>1 DEF PublicationInv, InStep, Previous, Making, Undoing
  <1> QED
    BY <1>1, <1>5, <1>6, <1>7, <1>8, <1>9, <1>10 DEF PublicationInv

(* The least element is the one that is chosen. *)
LEMMA LeastIs ==
    ASSUME NEW S, NEW f, NEW c \in S, \A h \in S : f[h] \in Nat,
           \A h \in S \ {c} : f[c] < f[h]
    PROVE  (CHOOSE g \in S : \A h \in S : f[g] <= f[h]) = c
  <1>1. \A h \in S : f[c] <= f[h]
    OBVIOUS
  <1>2. \A g \in S : (\A h \in S : f[g] <= f[h]) => g = c
    OBVIOUS
  <1> QED
    BY <1>1, <1>2

(* commit_published and the manifest's rollback: the generation becomes the *)
(* newest, and the one it follows the next to go back to.                   *)
LEMMA PromoteGives ==
    ASSUME PublicationInv, NEW g \in Generations, Promote(g), UNCHANGED rows, Sealed(g),
           gens[g].docs = gens[g].snapshot, gens[g].state \in {"staged", "available"}
    PROVE  /\ gens' \in [Generations -> Manifests] /\ recent' \in [Generations -> Nat]
           /\ current' = g /\ UNCHANGED deaths
           /\ \A h \in Generations : gens'[h].state = "none" <=> gens[h].state = "none"
           /\ \A h \in Generations : gens'[h].docs = gens[h].docs
           /\ UnusedAreEmpty' /\ KeptAreWhole' /\ OrderIsKept' /\ Candidate' = current
  <1>1. /\ IndexTyped /\ current \in Numbers /\ UNCHANGED deaths /\ current' = g
        /\ gens' = Promoted(g) /\ recent' = Newest(g)
        /\ g # current /\ (current # 0 => current \in Generations)
        /\ 0 \notin Generations
    BY Numbering DEF PublicationInv, IndexTyped, Promote, KeptAreWhole
  <1>2. ASSUME NEW h \in Generations
        PROVE  /\ gens'[h] \in Manifests
               /\ gens'[h].state = IF h = g THEN "published"
                                   ELSE IF h = current THEN "available" ELSE gens[h].state
               /\ gens'[h].docs = gens[h].docs /\ gens'[h].snapshot = gens[h].snapshot
    <2>1. gens[h] \in Manifests
      BY <1>1 DEF IndexTyped
    <2>2. CASE h = g
      <3>1. gens'[h] = [gens[h] EXCEPT !.state = "published"]
        BY <1>1, <2>2 DEF Promoted
      <3> QED
        BY <2>1, <2>2, <3>1 DEF Manifests, States
    <2>3. CASE h # g /\ h = current
      <3>1. gens'[h] = [gens[h] EXCEPT !.state = "available"]
        BY <1>1, <2>3 DEF Promoted
      <3> QED
        BY <2>1, <2>3, <3>1 DEF Manifests, States
    <2>4. CASE h # g /\ h # current
      BY <1>1, <2>1, <2>4 DEF Promoted
    <2> QED
      BY <2>2, <2>3, <2>4
  <1>3. gens' \in [Generations -> Manifests]
    BY <1>1, <1>2 DEF Promoted
  <1>4. \A h \in Generations :
           /\ recent[h] \in Nat
           /\ recent'[h] = IF h = g THEN 1
                           ELSE IF recent[h] # 0 /\ (recent[g] = 0 \/ recent[h] < recent[g])
                                THEN recent[h] + 1 ELSE recent[h]
    BY <1>1 DEF IndexTyped, Newest
  <1>5. recent' \in [Generations -> Nat]
    BY <1>1, <1>4 DEF Newest
  <1>6. \A h \in Generations : gens'[h].state = "none" <=> gens[h].state = "none"
    <2>1. current # 0 => gens[current].state = "published"
      BY <1>1 DEF PublicationInv, KeptAreWhole
    <2> QED
      BY <1>1, <1>2, <2>1
  <1>7. UnusedAreEmpty'
    BY <1>2, <1>6 DEF PublicationInv, UnusedAreEmpty
  <1>8. \A h : Sealed(h)' <=> Sealed(h)
    BY <1>2, <1>6 DEF Sealed
  <1>9. Available' = (Available \ {g}) \cup ({current} \ {0})
    BY <1>1, <1>2 DEF Available
  <1>10. \A h \in Generations : gens[h].state = "published" <=> (h = current)
    BY DEF PublicationInv, KeptAreWhole
  <1>11. KeptAreWhole'
    <2>1. \A h \in Generations : gens'[h].state = "published" <=> (h = g)
      BY <1>1, <1>2, <1>10
    <2>2. ASSUME NEW h \in Available' \cup ({g} \ {0})
          PROVE  Sealed(h)' /\ gens'[h].docs = gens'[h].snapshot
      <3>1. Sealed(h) /\ gens[h].docs = gens[h].snapshot
        BY <1>9 DEF PublicationInv, KeptAreWhole
      <3> QED
        BY <1>2, <1>8, <3>1 DEF Sealed
    <2>3. g # 0
      BY <1>1
    <2> QED
      BY <1>1, <2>1, <2>2, <2>3 DEF KeptAreWhole
  <1>12. /\ \A h \in Generations : recent[h] # 0 <=> gens[h].state \in {"published", "available"}
         /\ \A h, k \in Generations : recent[h] = recent[k] /\ recent[h] # 0 => h = k
         /\ current # 0 => recent[current] = 1
    BY DEF PublicationInv, OrderIsKept
  <1>13. recent[g] = 0 \/ recent[g] > 1
    <2>1. current = 0 => recent[g] = 0
      <3>1. current = 0 => Available = {}
        BY DEF PublicationInv, KeptAreWhole
      <3> QED
        BY <1>10, <1>1, <1>12, <3>1 DEF Available
    <2>2. current # 0 => recent[g] # 1
      BY <1>1, <1>12
    <2> QED
      BY <1>4, <2>1, <2>2
  <1>14. ASSUME NEW h \in Generations \ {g}
         PROVE  recent'[h] # 1 /\ (recent'[h] = 0 <=> recent[h] = 0)
    <2>1. CASE recent[g] = 0
      BY <1>4, <2>1
    <2>2. CASE recent[g] # 0
      BY <1>4, <1>13, <2>2
    <2> QED
      BY <2>1, <2>2
  <1>15. ASSUME NEW h \in Generations, NEW k \in Generations,
                recent'[h] = recent'[k], recent'[h] # 0
         PROVE  h = k
    <2>1. CASE h = g \/ k = g
      BY <1>4, <1>14, <1>15, <2>1
    <2>2. CASE h # g /\ k # g
      <3>1. recent[h] # 0 /\ recent[k] # 0 /\ recent[h] \in Nat /\ recent[k] \in Nat
        BY <1>4, <1>14, <1>15, <2>2
      <3>2. recent[g] \in Nat /\ recent[h] # recent[g] /\ recent[k] # recent[g]
        BY <1>4, <1>12, <2>2, <3>1
      <3>3. recent[h] = recent[k]
        BY <1>4, <1>15, <2>2, <3>1, <3>2
      <3> QED
        BY <1>12, <3>1, <3>3
    <2> QED
      BY <2>1, <2>2
  <1>16. current # 0 => recent'[current] = 2
    BY <1>1, <1>4, <1>12, <1>13
  <1>17. OrderIsKept'
    <2>1. \A h \in Generations : recent'[h] # 0 <=> gens'[h].state \in {"published", "available"}
      <3>1. ASSUME NEW h \in Generations
            PROVE  recent'[h] # 0 <=> gens'[h].state \in {"published", "available"}
        <4>1. CASE h = g
          BY <1>2, <1>4, <4>1
        <4>2. CASE h # g /\ h = current
          BY <1>1, <1>2, <1>16, <4>2
        <4>3. CASE h # g /\ h # current
          BY <1>2, <1>12, <1>14, <4>3
        <4> QED
          BY <4>1, <4>2, <4>3
      <3> QED
        BY <3>1
    <2>2. recent'[g] = 1
      BY <1>4
    <2>3. Available' # {} => \E h \in Available' : recent'[h] = 2
      <3>1. current = 0 => Available' = {}
        BY <1>9 DEF PublicationInv, KeptAreWhole
      <3> QED
        BY <1>9, <1>16, <3>1
    <2> QED
      BY <1>1, <1>15, <2>1, <2>2, <2>3 DEF OrderIsKept
  <1>18. Candidate' = current
    <2>1. CASE current = 0
      <3>1. Available' = {}
        BY <1>9, <2>1 DEF PublicationInv, KeptAreWhole
      <3> QED
        BY <2>1, <3>1 DEF Candidate
    <2>2. CASE current # 0
      <3>1. current \in Available'
        BY <1>9, <2>2
      <3>2. \A h \in Available' : h \in Generations \ {g} /\ recent'[h] \in Nat
        BY <1>1, <1>5, <1>9 DEF Available
      <3>3. ASSUME NEW h \in Available' \ {current} PROVE recent'[current] < recent'[h]
        <4>1. h \in Generations /\ h # g /\ recent'[h] # 0
          BY <1>9, <1>12, <1>14, <3>2 DEF Available
        <4>2. recent'[h] # 1 /\ recent'[h] # 2
          BY <1>1, <1>14, <1>15, <1>16, <2>2, <4>1
        <4> QED
          BY <1>16, <2>2, <3>2, <4>1, <4>2
      <3>4. (CHOOSE h \in Available' : \A k \in Available' : recent'[h] <= recent'[k]) = current
        BY <3>1, <3>2, <3>3, LeastIs
      <3> QED
        BY <3>1, <3>4 DEF Candidate
    <2> QED
      BY <2>1, <2>2
  <1> QED
    BY <1>1, <1>2, <1>3, <1>5, <1>6, <1>7, <1>11, <1>17, <1>18

(* What is reported after a promotion is true of both stores. *)
LEMMA PromotedKeeps ==
    ASSUME PublicationInv, Promote(task.gen), task' = Idle, task.gen \in Generations,
           UNCHANGED <<rows, alias, prior, folder, late, slipped, faults>>,
           Sealed(task.gen), gens[task.gen].docs = gens[task.gen].snapshot,
           \/ task.pc = "commit" /\ gens[task.gen].state = "staged"
           \/ task.pc = "revert" /\ gens[task.gen].state = "available",
           told' = told \/ Report(task.gen)
    PROVE  PublicationInv'
  <1>1. /\ gens' \in [Generations -> Manifests] /\ recent' \in [Generations -> Nat]
        /\ current' = task.gen /\ UNCHANGED deaths
        /\ \A h \in Generations : gens'[h].state = "none" <=> gens[h].state = "none"
        /\ \A h \in Generations : gens'[h].docs = gens[h].docs
        /\ UnusedAreEmpty' /\ KeptAreWhole' /\ OrderIsKept' /\ Candidate' = current
    BY PromoteGives
  <1>2. IndexTyped /\ task'.pc = "idle" /\ task.gen \in Numbers
    BY IdleTask, Numbering DEF PublicationInv
  <1>3. IndexTyped'
    BY <1>1, <1>2, IdleTask DEF IndexTyped
  <1>4. AliasesAreSealed'
    <2>1. \A h : Sealed(h)' <=> Sealed(h)
      BY <1>1 DEF Sealed
    <2>2. \A l \in late : l[2] \in Generations
      BY <1>2 DEF IndexTyped
    <2> QED
      BY <1>1, <1>2, <2>1, <2>2 DEF PublicationInv, AliasesAreSealed, Sealed, Making
  <1>5. Stands'
    BY <1>2 DEF Stands, Making, Made, Undoing
  <1>6. InStep'
    BY <1>1, <1>2 DEF PublicationInv, InStep, Previous, Making, Undoing
  <1>7. ~slipped' => told'.gen = told'.served
    <2>1. CASE told' = told
      BY <2>1 DEF PublicationInv
    <2>2. CASE Report(task.gen)
      <3>1. ~slipped => alias = task.gen
        BY DEF PublicationInv, Stands
      <3> QED
        BY <2>2, <3>1 DEF Report
    <2> QED
      BY <2>1, <2>2
  <1> QED
    BY <1>1, <1>3, <1>4, <1>5, <1>6, <1>7 DEF PublicationInv

(* A commit that fails goes back, or gives the generation up. *)
LEMMA CommitKeeps == ASSUME PublicationInv, Commit PROVE PublicationInv'
  <1>1. /\ IndexTyped /\ task.pc = "commit" /\ task.gen \in Generations
        /\ gens[task.gen].state = "staged" /\ Sealed(task.gen)
        /\ gens[task.gen].docs = gens[task.gen].snapshot
    BY DEF PublicationInv, Commit, Stands, Made
  <1>2. CASE Promote(task.gen) /\ task' = Idle
             /\ (IF current = task.base THEN Report(task.gen) ELSE told' = told)
             /\ UNCHANGED <<folder, late, slipped, rows, alias, prior, faults>>
    BY <1>1, <1>2, PromotedKeeps
  <1>3. CASE /\ Fault
             /\ task' = [task EXCEPT !.pc = IF task.base = 0 THEN "cleanup" ELSE "swap",
                                     !.next = "cleanup"]
             /\ UNCHANGED <<gens, current, rows, alias, prior>> /\ World
    <2>1. /\ task' \in Tasks /\ task'.gen = task.gen /\ task'.next = "cleanup"
          /\ task'.pc \in {"cleanup", "swap"}
      <3>1. CASE task.base = 0
        BY <1>1, <1>3, <3>1 DEF IndexTyped, Tasks, Places
      <3>2. CASE task.base # 0
        BY <1>1, <1>3, <3>2 DEF IndexTyped, Tasks, Places, Undoing
      <3> QED
        BY <3>1, <3>2
    <2>2. /\ UNCHANGED <<folder, late, slipped, told, recent, deaths>>
          /\ faults' = faults + 1 /\ faults' \in Nat
      BY <1>1, <1>3 DEF Fault, World, Counters, IndexTyped
    <2>3. IndexTyped'
      BY <1>1, <1>3, <2>1, <2>2 DEF IndexTyped
    <2>4. AliasesAreSealed'
      BY <1>1, <1>3, <2>1, <2>2, AliasesMove DEF Making, IndexTyped
    <2>5. Stands'
      BY <1>1, <1>3, <2>1, <2>2 DEF Stands, Sealed, Making, Made, Undoing
    <2>6. InStep'
      BY <1>1, <2>2 DEF InStep, IndexTyped
    <2> QED
      BY <1>3, <2>2, <2>3, <2>4, <2>5, <2>6, StoresRest DEF PublicationInv
  <1> QED
    BY <1>2, <1>3 DEF Commit

(* A rollback that the manifest refuses moves the alias forward again. *)
LEMMA RevertKeeps == ASSUME PublicationInv, Revert PROVE PublicationInv'
  <1>1. /\ IndexTyped /\ task.pc = "revert" /\ task.gen \in Generations
        /\ gens[task.gen].state = "available"
    BY DEF PublicationInv, Revert, Stands
  <1>2. Sealed(task.gen) /\ gens[task.gen].docs = gens[task.gen].snapshot
    BY <1>1 DEF PublicationInv, KeptAreWhole, Available
  <1>3. CASE Promote(task.gen) /\ task' = Idle
             /\ (IF current = task.base THEN Report(task.gen) ELSE told' = told)
             /\ UNCHANGED <<folder, late, slipped, rows, alias, prior, faults>>
    BY <1>1, <1>2, <1>3, PromotedKeeps
  <1>4. CASE /\ Fault /\ task' = [task EXCEPT !.pc = "swap", !.next = "end"]
             /\ UNCHANGED <<gens, current, rows, alias, prior>> /\ World
    <2>1. /\ task' \in Tasks /\ task'.gen = task.gen /\ task'.next = "end"
          /\ task'.pc = "swap"
      BY <1>1, <1>4 DEF IndexTyped, Tasks, Places, Undoing
    <2>2. /\ UNCHANGED <<folder, late, slipped, told, recent, deaths>>
          /\ faults' = faults + 1 /\ faults' \in Nat
      BY <1>1, <1>4 DEF Fault, World, Counters, IndexTyped
    <2>3. IndexTyped'
      BY <1>1, <1>4, <2>1, <2>2 DEF IndexTyped
    <2>4. AliasesAreSealed'
      BY <1>1, <1>4, <2>1, <2>2, AliasesMove DEF Making, IndexTyped
    <2>5. Stands'
      BY <1>1, <1>4, <2>1, <2>2 DEF Stands, Making, Made, Undoing
    <2>6. InStep'
      BY <1>1, <2>2 DEF InStep, IndexTyped
    <2> QED
      BY <1>4, <2>2, <2>3, <2>4, <2>5, <2>6, StoresRest DEF PublicationInv
  <1> QED
    BY <1>3, <1>4 DEF Revert

(* An index with nothing in it. *)
LEMMA PublicationBegins == IndexInit => PublicationInv
  <1> SUFFICES ASSUME IndexInit PROVE PublicationInv
    OBVIOUS
  <1>1. NoDocuments \in Listing
    BY DEF NoDocuments, Listing, Docs
  <1>2. /\ \A g \in Generations : /\ gens[g].state = "none" /\ gens[g].docs = NoDocuments
                                  /\ rows[g] = NoRows /\ recent[g] = 0
        /\ Available = {}
    BY DEF IndexInit, Available
  <1>3. IndexTyped
    <2>1. folder \in Listing
      BY DEF IndexInit, Listing, Docs
    <2>2. gens \in [Generations -> Manifests]
      BY <1>1 DEF IndexInit, Manifests, States
    <2> QED
      BY <1>1, <2>1, <2>2, IdleTask, Numbering DEF IndexInit, IndexTyped
  <1>4. AliasesAreSealed
    BY IdleTask DEF IndexInit, AliasesAreSealed, Making
  <1>5. UnusedAreEmpty
    BY <1>2 DEF UnusedAreEmpty
  <1>6. Stands
    BY IdleTask DEF IndexInit, Stands, Making, Made, Undoing
  <1>7. KeptAreWhole
    BY <1>2, Numbering DEF IndexInit, KeptAreWhole
  <1>8. OrderIsKept
    BY <1>2 DEF IndexInit, OrderIsKept
  <1>9. InStep
    <2>1. Candidate = 0
      BY <1>2 DEF Candidate
    <2> QED
      BY <2>1, IdleTask DEF IndexInit, InStep, Previous, Making, Undoing
  <1>10. told.gen = told.served
    BY DEF IndexInit
  <1> QED
    BY <1>3, <1>4, <1>5, <1>6, <1>7, <1>8, <1>9, <1>10 DEF PublicationInv

(* Every step of the index. *)
LEMMA PublicationKeeps == PublicationInv /\ [IndexNext]_indexVars => PublicationInv'
  <1> SUFFICES ASSUME PublicationInv, [IndexNext]_indexVars PROVE PublicationInv'
    OBVIOUS
  <1>1. CASE UNCHANGED indexVars
    <2>1. UNCHANGED <<folder, gens, recent, current, rows, alias, prior, task, late, slipped,
                      told, changes, faults, deaths>>
      BY <1>1 DEF indexVars
    <2>2. IndexTyped' /\ AliasesAreSealed' /\ Stands'
      BY <2>1 DEF PublicationInv, IndexTyped, AliasesAreSealed, Stands, Sealed
    <2>3. InStep'
      BY <2>1, StoresRest DEF PublicationInv, InStep, Previous
    <2> QED
      BY <2>1, <2>2, <2>3, StoresRest DEF PublicationInv
  <1>2. CASE IndexNext
    BY <1>2, BeginSyncKeeps, CreateKeeps, BuildKeeps, ValidateKeeps, KeepPreviousKeeps,
       PublishKeeps, VerifyAliasKeeps, CommitKeeps, CleanupKeeps, SwapKeeps, Swap1Keeps,
       Swap2Keeps, RollbackKeeps, MatchKeeps, RevertKeeps, EndKeeps, ChangeKeeps, LateKeeps,
       DieKeeps
       DEF IndexNext
  <1> QED
    BY <1>1, <1>2

(* The invariant says what was promised. *)
LEMMA PublicationShows == PublicationInv => PublicationSound
  <1> SUFFICES ASSUME PublicationInv PROVE PublicationSound
    OBVIOUS
  <1>1. ServedIsWhole
    BY DEF PublicationInv, AliasesAreSealed, Sealed, ServedIsWhole
  <1>2. ManifestIsWhole
    BY DEF PublicationInv, KeptAreWhole, Sealed, ManifestIsWhole
  <1>3. ReportsAreTrue
    BY DEF PublicationInv, InStep, ReportsAreTrue
  <1>4. RollbackIsReady
    <2>1. faults + deaths = 0 => faults = 0 /\ deaths = 0
      BY DEF PublicationInv, IndexTyped
    <2> QED
      BY <2>1 DEF PublicationInv, InStep, Previous, RollbackIsReady
  <1> QED
    BY <1>1, <1>2, <1>3, <1>4 DEF PublicationSound

(* For any documents, contents and number of generations, changes, failing  *)
(* calls and deaths (pipeline.py, catalog.py and stores.py of the example): *)
(* an alias only ever names a collection that exists and holds what its     *)
(* manifest lists, the published generation and those kept for a rollback   *)
(* hold the snapshot they were planned from, a reported success was true    *)
(* unless a late switch slipped in, and while nothing failed the alias is   *)
(* the manifest's and the previous alias is where a rollback goes.          *)
THEOREM IndexIsSound == IndexSpec => []PublicationSound
  <1>1. IndexInit => PublicationInv
    BY PublicationBegins
  <1>2. PublicationInv /\ [IndexNext]_indexVars => PublicationInv'
    BY PublicationKeeps
  <1>3. PublicationInv => PublicationSound
    BY PublicationShows
  <1> QED
    BY <1>1, <1>2, <1>3, PTL DEF IndexSpec
=============================================================================
