---- MODULE RunBinding ----
(***************************************************************************)
(* How RunCoordinator ties an execution to the run it belongs to           *)
(* (coordinator.py _run): trusted identity, store scope, loading and       *)
(* accepting a checkpoint, the execution group's budget or the delegated   *)
(* child's lease, the engine's bootstrap, and what a failure may write.    *)
(*                                                                         *)
(* One run, started once and then resumed by requests that may come from   *)
(* another tenant, session, definition or lease, across process restarts.  *)
(* What the engine does between checkpoints is StandardRun and PlanRun.    *)
(***************************************************************************)
EXTENDS Integers, FiniteSets

CONSTANTS
    Home, Sessions,       \* request.session_id: the run's, and any
    Tenants,              \* trusted tenant claims
    Configs,              \* Agent compositions: spec fingerprint, definition, engine
    Leases,               \* budget leases the delegation coordinator can give
    MaxRequests, MaxSpent,
    Nothing

VARIABLES
    kind,      \* "root", "parent" (it has delegation tools) or "child"
    world,     \* the deployment: production profile, a ledger that survives restarts
    pc,        \* where _run is; "idle" between requests
    req,       \* the request and the Agent that got it
    err,       \* why the execution fails
    refused,   \* it failed during setup (setup_error)
    cleanup,   \* cleanup_writes_allowed
    ctx,       \* the RunContext
    saved,     \* the checkpoint store's snapshot of the run
    talk,      \* the run's message is in the conversation
    group,     \* the ledger's record of the execution group
    leases,    \* the ledger's leases
    missed,    \* a cleanup write failed
    claim,     \* error_summary["resumable"] of the last result
    before,    \* history: what was stored when the request came
    owner,     \* history: the session, tenant and composition the run belongs to
    reserved,  \* history: budget reserved by the run
    asked

bindVars == <<kind, world, pc, req, err, refused, cleanup, ctx, saved, talk, group, leases,
              missed, claim, before, owner, reserved, asked>>
stable == <<kind, world, asked, before, req>>

Blank(r) == [session |-> r.session, tenant |-> Nothing, spec |-> Nothing, ref |-> Nothing,
             engine |-> r.config.engine, migrated |-> FALSE, lease |-> r.lease,
             grouped |-> FALSE, history |-> FALSE, init |-> FALSE, state |-> FALSE,
             safety |-> "resumable", status |-> "running"]

\* A checkpoint written before definitions were pinned, as the migration reads it.
Legacy(s, c, spec) == [Blank([session |-> s, config |-> c, lease |-> Nothing]) EXCEPT
    !.spec = spec, !.migrated = TRUE, !.history = TRUE, !.init = TRUE, !.state = TRUE,
    !.status = "failed"]

Errors == {"configuration", "persistence", "timeout", "not_found", "migration", "execution",
           "guard", "cancelled"}

\* What a RunContext and a checkpoint hold, what is remembered of the run,
\* and the record of its execution group.
Contexts == [session : Sessions, tenant : Tenants \cup {Nothing},
             spec : {c.spec : c \in Configs} \cup {Nothing},
             ref : {c.def : c \in Configs} \cup {Nothing}, engine : {c.engine : c \in Configs},
             migrated : BOOLEAN, lease : Leases \cup {Nothing}, grouped : BOOLEAN,
             history : BOOLEAN, init : BOOLEAN, state : BOOLEAN,
             safety : {"resumable", "manual", "terminal", "never"},
             status : {"running", "completed", "failed", "cancelled"}]
Owners == [session : Sessions, tenant : Tenants \cup {Nothing},
           def : {c.def : c \in Configs} \cup {Nothing}, engine : {c.engine : c \in Configs}]
Groups == [limits : {c.limits : c \in Configs}, spent : Nat]

\* None in Python is none of these.
ASSUME BindingAssumption ==
    /\ Home \in Sessions
    /\ Nothing \notin Errors /\ Nothing # TRUE
    /\ Nothing \notin Contexts /\ Nothing \notin Owners /\ Nothing \notin Groups

----------------------------------------------------------------------------
(* A request arrives *)

Resuming == asked > 0 \/ saved # Nothing
Requests == [session : IF Resuming THEN Sessions ELSE {Home}, tenant : Tenants \cup {Nothing},
             config : Configs, resume : {Resuming},
             lease : IF kind = "child" THEN Leases \cup {Nothing} ELSE {Nothing}]

Ask(r) ==
    /\ pc = "idle" /\ asked < MaxRequests
    /\ kind = "child" /\ ~r.resume => r.lease # Nothing /\ leases[r.lease] = "active"
    /\ req' = r /\ ctx' = Blank(r)
    /\ asked' = asked + 1
    /\ before' = [saved |-> saved, talk |-> talk]
    /\ err' = Nothing /\ refused' = FALSE /\ cleanup' = FALSE
    /\ missed' = FALSE /\ claim' = Nothing
    /\ pc' = "identity"
    /\ UNCHANGED <<kind, world, saved, talk, group, leases, owner, reserved>>

SetupFails(e) ==
    /\ err' = e /\ refused' = TRUE
    /\ pc' = "begin"
    /\ ctx' = IF e = "persistence" THEN [ctx EXCEPT !.safety = "manual"] ELSE ctx

\* The identity providers refuse, or the conversation store is bound to
\* another tenant or Agent.
Identify ==
    /\ pc = "identity"
    /\ \/ SetupFails("configuration")
       \/ pc' = "load" /\ UNCHANGED <<err, refused, ctx>>
    /\ UNCHANGED <<stable, cleanup, saved, talk, group, leases, missed, claim, owner, reserved>>

LoadHistory ==
    /\ pc = "load" /\ ~req.resume
    /\ \/ \E e \in {"persistence", "timeout"} : SetupFails(e)
       \/ /\ ctx' = [ctx EXCEPT !.history = TRUE, !.tenant = req.tenant]
          /\ pc' = "bind"
          /\ UNCHANGED <<err, refused>>
    /\ UNCHANGED <<stable, cleanup, saved, talk, group, leases, missed, claim, owner, reserved>>

----------------------------------------------------------------------------
(* Accepting a checkpoint *)

\* A definition is pinned exactly; only a migrated checkpoint may be adopted
\* by one, and not in production.
Pinned(s, c) ==
    IF c.def # Nothing /\ s.ref # Nothing THEN s.ref = c.def
    ELSE IF c.def # Nothing THEN s.migrated /\ ~world.production
    ELSE s.ref = Nothing

\* A child's checkpoint is resumed by its coordinator only, under an active
\* lease; an interrupted one only under the lease it ran with.
LeaseHolds(s, l) ==
    IF kind # "child" THEN l = Nothing
    ELSE /\ l # Nothing
         /\ s.status \notin {"failed", "cancelled"} => l = s.lease
         /\ leases[l] = "active"

\* Mutant: the tenant of the checkpoint is not compared.
AcceptsAnyTenant(s, r) ==
    /\ s.session = r.session
    /\ s.engine = r.config.engine
    /\ s.safety \in {"resumable", "terminal"}
    /\ s.spec \in {Nothing, r.config.spec}
    /\ Pinned(s, r.config)
    /\ LeaseHolds(s, r.lease)

Accepts(s, r) ==
    /\ s.session = r.session
    /\ s.tenant = r.tenant
    /\ s.engine = r.config.engine
    /\ s.safety \in {"resumable", "terminal"}
    /\ s.spec \in {Nothing, r.config.spec}
    /\ Pinned(s, r.config)
    /\ LeaseHolds(s, r.lease)

LoadResume ==
    /\ pc = "load" /\ req.resume
    /\ \/ \E e \in {"persistence", "timeout"} : SetupFails(e)
       \/ saved = Nothing /\ SetupFails("not_found")
       \/ saved # Nothing /\ ~Accepts(saved, req) /\ SetupFails("migration")
       \/ /\ saved # Nothing /\ Accepts(saved, req)
          /\ ctx' = [saved EXCEPT !.lease = req.lease, !.tenant = req.tenant]
          /\ pc' = "bind"
          /\ UNCHANGED <<err, refused>>
    /\ UNCHANGED <<stable, cleanup, saved, talk, group, leases, missed, claim, owner, reserved>>

\* A resumed parent needs the group it spent from, with the limits it had.
Bindable == /\ req.tenant # Nothing
            /\ req.resume /\ ctx.grouped => group # Nothing /\ group.limits = req.config.limits
Bind ==
    /\ pc = "bind"
    /\ \/ /\ kind = "parent" /\ ~Bindable
          /\ SetupFails("configuration")
          /\ UNCHANGED <<group, cleanup>>
       \/ /\ kind = "parent" => Bindable
          /\ group' = IF kind # "parent" \/ group # Nothing THEN group
                      ELSE [limits |-> req.config.limits, spent |-> 0]
          /\ ctx' = [ctx EXCEPT !.grouped = kind = "parent"]
          /\ cleanup' = ~req.resume
          /\ pc' = "begin"
          /\ UNCHANGED <<err, refused>>
    /\ UNCHANGED <<stable, saved, talk, leases, missed, claim, owner, reserved>>

----------------------------------------------------------------------------
(* The execution *)

\* The composition's fingerprints go into the context, RUN_STARTED is
\* published, and a setup error is raised.
Begin ==
    /\ pc = "begin"
    /\ ctx' = [ctx EXCEPT !.spec = req.config.spec, !.ref = req.config.def]
    /\ pc' = IF err # Nothing THEN "failing" ELSE "select"
    /\ UNCHANGED <<stable, err, refused, cleanup, saved, talk, group, leases, missed, claim,
                   owner, reserved>>

Snapshot(c) == [c EXCEPT !.migrated = FALSE]
Own(c) == IF owner # Nothing /\ owner.def # Nothing THEN owner
          ELSE [session |-> c.session, tenant |-> c.tenant, def |-> c.ref, engine |-> c.engine]

\* A model turn is reserved in the group and in the checkpoint before the
\* call, with the last engine state there is (_before_model_attempt).
Reserve ==
    /\ pc \in {"select", "running"}
    /\ IF kind = "parent"
       THEN /\ reserved < MaxSpent
            /\ reserved' = reserved + 1 /\ group' = [group EXCEPT !.spent = @ + 1]
       ELSE UNCHANGED <<reserved, group>>
    /\ \/ saved' = Snapshot(ctx) /\ owner' = Own(ctx) /\ UNCHANGED <<pc, err>>
       \/ /\ saved' = Snapshot(ctx) \/ saved' = saved     \* it fails, applied or not
          /\ owner' = IF saved' = saved THEN owner ELSE Own(ctx)
          /\ pc' = "failing" /\ err' = "persistence"
    /\ UNCHANGED <<stable, refused, cleanup, ctx, talk, leases, missed, claim>>

\* initialize() runs again until its result is durable.
Initialize ==
    /\ pc = "select" /\ ~ctx.init
    /\ \/ /\ ctx' = [ctx EXCEPT !.init = TRUE, !.state = TRUE]
          /\ saved' = Snapshot(ctx') /\ owner' = Own(ctx)
          /\ pc' = "running" /\ cleanup' = TRUE
          /\ UNCHANGED err
       \/ /\ ctx' = [ctx EXCEPT !.state = TRUE]
          /\ \/ UNCHANGED <<saved, owner>>
             \/ saved' = Snapshot([ctx' EXCEPT !.init = TRUE]) /\ owner' = Own(ctx)
          /\ pc' = "failing" /\ err' = "persistence"
          /\ UNCHANGED cleanup
    /\ UNCHANGED <<stable, refused, talk, group, leases, missed, claim, reserved>>

Restore ==
    /\ pc = "select" /\ ctx.init
    /\ \/ pc' = "running" /\ cleanup' = TRUE /\ UNCHANGED err
       \/ pc' = "failing" /\ err' = "migration" /\ UNCHANGED cleanup
    /\ UNCHANGED <<stable, refused, ctx, saved, talk, group, leases, missed, claim, owner, reserved>>

\* The engine checkpoints at its boundaries; while a tool runs the snapshot
\* says it cannot be resumed.
Step ==
    /\ pc = "running"
    /\ \E safety \in {"resumable", "manual"} :
         /\ ctx' = [ctx EXCEPT !.safety = safety, !.status = "running"]
         /\ saved' = Snapshot(ctx') /\ owner' = Own(ctx)
    /\ UNCHANGED <<stable, pc, err, refused, cleanup, talk, group, leases, missed, claim, reserved>>

\* The checkpoint of a run that completes is deleted, unless the composition
\* retains terminal ones (_retain_terminal_checkpoint): those of children always
\* are.  A retained one is written best effort, over the last of the engine's.
Complete ==
    /\ pc = "running"
    /\ \/ saved' = Nothing /\ kind # "child" /\ UNCHANGED owner
       \/ saved' = Snapshot([ctx EXCEPT !.status = "completed"]) /\ owner' = Own(ctx)
       \/ UNCHANGED <<saved, owner>>
    /\ talk' = TRUE
    /\ pc' = "idle" /\ ctx' = Nothing
    /\ UNCHANGED <<stable, err, refused, cleanup, group, leases, missed, claim, reserved>>

Trouble ==
    /\ pc \in {"select", "running"}
    /\ \E e \in {"execution", "guard", "cancelled"} :
         /\ err' = e
         /\ ctx' = IF e = "guard" THEN [ctx EXCEPT !.safety = "never"] ELSE ctx
    /\ pc' = "failing"
    /\ UNCHANGED <<stable, refused, cleanup, saved, talk, group, leases, missed, claim, owner, reserved>>

\* The handlers: the messages, then the checkpoint, each best effort, and only
\* where cleanup_writes_allowed.
Claims == /\ err \notin {"migration", "not_found", "guard"}
          /\ ctx.safety \in {"resumable", "terminal"}
Handle ==
    /\ pc = "failing"
    /\ LET last == [ctx EXCEPT !.status = IF err = "cancelled" THEN "cancelled" ELSE "failed"]
       IN  IF cleanup
           THEN \E wrote, kept \in BOOLEAN :
                  /\ talk' = (talk \/ wrote)
                  /\ saved' = IF kept THEN Snapshot(last) ELSE saved
                  /\ owner' = IF kept THEN Own(last) ELSE owner
                  /\ missed' = ~kept
           ELSE UNCHANGED <<talk, saved, owner, missed>>
    /\ claim' = IF err = "cancelled" THEN Nothing ELSE Claims
    /\ pc' = "idle" /\ ctx' = Nothing /\ err' = Nothing
    /\ UNCHANGED <<stable, refused, cleanup, group, leases, reserved>>

\* The process dies; an in-memory ledger dies with it.
Crash ==
    /\ \/ pc # "idle"
       \/ ~world.durable /\ (group # Nothing \/ \E l \in Leases : leases[l] # "none")
    /\ pc' = "idle" /\ ctx' = Nothing
    /\ err' = Nothing /\ refused' = FALSE /\ claim' = Nothing
    /\ IF world.durable THEN UNCHANGED <<group, leases>>
       ELSE group' = Nothing /\ leases' = [l \in Leases |-> "none"]
    /\ UNCHANGED <<stable, cleanup, saved, talk, missed, owner, reserved>>

\* The delegation coordinator gives a child a lease and settles it.
Lease(l) ==
    /\ kind = "child" /\ pc = "idle"
    /\ \/ leases[l] = "none" /\ (\A k \in Leases : leases[k] # "active")
          /\ leases' = [leases EXCEPT ![l] = "active"]
       \/ leases[l] = "active" /\ leases' = [leases EXCEPT ![l] = "settled"]
    /\ UNCHANGED <<stable, pc, err, refused, cleanup, ctx, saved, talk, group, missed, claim,
                   owner, reserved>>

----------------------------------------------------------------------------
Init ==
    /\ kind \in {"root", "parent", "child"}
    /\ world \in [production : IF kind = "root" THEN BOOLEAN ELSE {FALSE},
                 durable : IF kind = "root" THEN {TRUE} ELSE BOOLEAN]
    /\ pc = "idle" /\ req = Nothing /\ err = Nothing /\ refused = FALSE /\ cleanup = FALSE
    /\ ctx = Nothing
    /\ saved \in {Nothing} \cup (IF kind = "root"
                                 THEN {Legacy(Home, c, spec) : c \in Configs,
                                           spec \in {d.spec : d \in Configs} \cup {Nothing}}
                                 ELSE {})
    /\ talk = (saved # Nothing)
    /\ group = Nothing /\ leases = [l \in Leases |-> "none"]
    /\ missed = FALSE /\ claim = Nothing
    /\ before = [saved |-> saved, talk |-> talk]
    /\ owner = IF saved = Nothing THEN Nothing
               ELSE [session |-> saved.session, tenant |-> Nothing, def |-> Nothing,
                     engine |-> saved.engine]
    /\ reserved = 0 /\ asked = 0

Next ==
    \/ \E r \in Requests : Ask(r)
    \/ Identify \/ LoadHistory \/ LoadResume \/ Bind \/ Begin
    \/ Reserve \/ Initialize \/ Restore \/ Step \/ Complete
    \/ Trouble \/ Handle \/ Crash
    \/ \E l \in Leases : Lease(l)

Spec == Init /\ [][Next]_bindVars

----------------------------------------------------------------------------
Executing == pc \in {"select", "running"}

(* Whoever resumes a run, it executes only for the session and tenant it   *)
(* was started for, on its engine and under the definition it is pinned to *)
(* once one is known.                                                      *)
Bound ==
    Executing /\ owner # Nothing =>
        /\ req.session = owner.session
        /\ req.tenant = owner.tenant
        /\ req.config.engine = owner.engine
        /\ owner.def # Nothing => req.config.def = owner.def

(* A request refused during setup leaves the checkpoint and the            *)
(* conversation as it found them, a resume that fails before its state is  *)
(* restored adds nothing to the conversation, and no failure replaces a    *)
(* saved engine state by an empty one.                                     *)
RefusedLeavesNothing ==
    /\ refused => saved = before.saved /\ talk = before.talk
    /\ ~cleanup => talk = before.talk
    /\ (before.saved # Nothing /\ before.saved.state /\ saved # Nothing) => saved.state

(* However the bootstrap was interrupted, an engine runs on a state that   *)
(* initialize() made and on history that was loaded, and nothing that was  *)
(* assembled without the history is ever saved.                            *)
Bootstrapped ==
    /\ pc = "running" => ctx.state /\ ctx.history
    /\ saved # Nothing => saved.history /\ (saved.init => saved.state)

(* A resumed parent spends on from where its group stands: no restart and  *)
(* no other limits give budget back.  An interrupted child goes on only    *)
(* under the lease it had.                                                 *)
BudgetKept ==
    /\ kind = "parent" /\ Executing => group # Nothing /\ group.spent = reserved
    /\ kind = "child" /\ Executing /\ req.resume =>
          /\ leases[req.lease] = "active"
          /\ before.saved.status \notin {"failed", "cancelled"} => req.lease = before.saved.lease

(* A failure that is called resumable, after a setup that succeeded and a  *)
(* checkpoint that was written, is accepted by the same request.           *)
ClaimAccepted ==
    /\ pc = "idle" /\ claim = TRUE /\ ~refused /\ ~missed /\ cleanup
    /\ kind = "child" => leases[req.lease] = "active"
    => saved # Nothing /\ Accepts(saved, req)

BindingSound == Bound /\ RefusedLeavesNothing /\ Bootstrapped /\ BudgetKept /\ ClaimAccepted

(* A result called resumable has a saved run that can go on (README:       *)
(* "resumable means the saved run can continue").  It does not hold: a     *)
(* setup that fails on a configuration or a timeout says resumable of a    *)
(* context that is never saved.                                            *)
ResumableIsSaved == refused /\ claim = TRUE => saved # Nothing
====
