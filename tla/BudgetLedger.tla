---------------------------- MODULE BudgetLedger -----------------------------
(***************************************************************************)
(* StoreBackedBudgetLedger over a compare-and-swap store, used by any      *)
(* number of concurrent clients: the coroutines, in one process or many,   *)
(* that are inside a ledger call.  Every await of the code is a point      *)
(* where the others run: each action is the code between two awaits.       *)
(***************************************************************************)
EXTENDS BudgetState

CONSTANTS
    Clients,
    ContentionAttempts,   \* contention_attempts of _mutate
    MaxTime,              \* bound: how far the clock runs without a deadline
    MaxOps                \* bound: ledger calls started

ASSUME LedgerAssumption ==
    /\ ContentionAttempts \in Nat \ {0}
    /\ MaxTime \in Nat
    /\ MaxOps \in Nat

VARIABLES
    group,      \* what the store holds for the group
    now,        \* the wall clock that every _now() reads
    pc,         \* where each client is; "idle" between calls
    op,         \* the call each client makes, or made last
    snap,       \* the state the client loaded or, in "create", will create
    attempts,   \* iterations of the _mutate loop that lost their CAS
    reply,      \* how the client's last call ended
    granted,    \* history: turns and tool calls whose callers got an answer
    started     \* calls started so far

clientVars == <<pc, op, snap, attempts, reply>>
vars == <<group, now, pc, op, snap, attempts, reply, granted, started>>

Init ==
    /\ group = NoGroup
    /\ now = 0
    /\ pc = [c \in Clients |-> "idle"]
    /\ op = [c \in Clients |-> CHOOSE r \in Requests : TRUE]
    /\ snap = [c \in Clients |-> NoGroup]
    /\ attempts = [c \in Clients |-> 0]
    /\ reply = [c \in Clients |-> "none"]
    /\ granted = [turns |-> 0, tools |-> 0]
    /\ started = 0

-----------------------------------------------------------------------------
(* The client moves on inside its call. *)
GoTo(c, label) == pc' = [pc EXCEPT ![c] = label]

(* The call returns ("ok") or raises (the reason). *)
Answer(c, r) ==
    /\ pc' = [pc EXCEPT ![c] = "idle"]
    /\ reply' = [reply EXCEPT ![c] = r]
    /\ snap' = [snap EXCEPT ![c] = NoGroup]

Begin(c, r) ==
    /\ pc[c] = "idle"
    /\ started < MaxOps
    /\ started' = started + 1
    /\ op' = [op EXCEPT ![c] = r]
    /\ attempts' = [attempts EXCEPT ![c] = 0]
    /\ reply' = [reply EXCEPT ![c] = "none"]
    /\ GoTo(c, CASE r.kind = "ensure"  -> "ensure"
                 [] r.kind = "reserve" -> "poll"
                 [] OTHER              -> "load")
    /\ UNCHANGED <<group, now, snap, granted>>

(* ensure_group: the contract of the stored group against the one asked for. *)
ContractMatches(c) ==
    /\ group.limits = op[c].limits
    /\ op[c].deadline # NoDeadline => group.deadline = op[c].deadline

CheckContract(c) ==
    /\ Answer(c, IF ContractMatches(c)
                 THEN "ok" ELSE "execution_group_contract_mismatch")
    /\ UNCHANGED <<group, now, op, attempts, granted, started>>

EnsureLoad(c) ==
    /\ pc[c] = "ensure"
    /\ \/ group # NoGroup /\ CheckContract(c)
       \/ /\ group = NoGroup
          /\ snap' = [snap EXCEPT ![c] =
                        Candidate(op[c].limits, DeadlineOf(op[c], now))]
          /\ GoTo(c, "create")
          /\ UNCHANGED <<group, now, op, attempts, reply, granted, started>>

(* store.create: true only for the first creator. *)
EnsureCreate(c) ==
    /\ pc[c] = "create"
    /\ \/ /\ group = NoGroup
          /\ group' = snap[c]
          /\ Answer(c, "ok")
       \/ /\ group # NoGroup
          /\ GoTo(c, "reload")
          /\ UNCHANGED <<group, snap, reply>>
    /\ UNCHANGED <<now, op, attempts, granted, started>>

(* Mutant: the loser of the race to create the group takes what it finds. *)
EnsureReloadTrusting(c) ==
    /\ pc[c] = "reload"
    /\ Answer(c, "ok")
    /\ UNCHANGED <<group, now, op, attempts, granted, started>>

(* ensure_group, having lost the race to create: it judges what is stored. *)
EnsureReload(c) ==
    /\ pc[c] = "reload"
    /\ Answer(c, IF group = NoGroup THEN "budget_store_contention"
                 ELSE IF ContractMatches(c) THEN "ok"
                 ELSE "execution_group_contract_mismatch")
    /\ UNCHANGED <<group, now, op, attempts, granted, started>>

-----------------------------------------------------------------------------
(* _require_state followed by the operation's function, on what was loaded. *)
Judgement(c) ==
    IF group = NoGroup THEN "execution_group_not_initialized"
    ELSE Verdict(op[c], group, now)

(* reserve_delegation's outer loop: the checks made before _mutate.  When   *)
(* all parallel slots are taken the client sleeps and polls again, which    *)
(* changes nothing.                                                         *)
Poll(c) ==
    /\ pc[c] = "poll"
    /\ CASE Judgement(c) = "update" ->
              /\ GoTo(c, "load")
              /\ attempts' = [attempts EXCEPT ![c] = 0]
              /\ UNCHANGED <<snap, reply>>
         [] Judgement(c) = "retry" -> UNCHANGED <<pc, snap, attempts, reply>>
         [] Judgement(c) = "unchanged" -> Answer(c, "ok") /\ UNCHANGED attempts
         [] OTHER -> Answer(c, Judgement(c)) /\ UNCHANGED attempts
    /\ UNCHANGED <<group, now, op, granted, started>>

(* _mutate, up to its compare_and_swap. *)
Load(c) ==
    /\ pc[c] = "load"
    /\ CASE Judgement(c) = "update" ->
              /\ snap' = [snap EXCEPT ![c] = group]
              /\ GoTo(c, "cas")
              /\ UNCHANGED reply
         [] Judgement(c) = "retry" -> GoTo(c, "poll") /\ UNCHANGED <<snap, reply>>
         [] Judgement(c) = "unchanged" -> Answer(c, "ok")
         [] OTHER -> Answer(c, Judgement(c))
    /\ UNCHANGED <<group, now, op, attempts, granted, started>>

(* Mutant: the store writes without comparing revisions. *)
SwapBlind(c) == group' = Updated(op[c], snap[c])

(* compare_and_swap on the revision that was loaded. *)
Swap(c) ==
    /\ group.revision = snap[c].revision
    /\ group' = Updated(op[c], snap[c])

CasWins(c) ==
    /\ pc[c] = "cas"
    /\ Swap(c)
    /\ Answer(c, "ok")
    /\ granted' = [turns |-> granted.turns
                       + (IF op[c].kind = "turn" THEN op[c].amount ELSE 0),
                   tools |-> granted.tools
                       + (IF op[c].kind = "tool" THEN op[c].amount ELSE 0)]
    /\ UNCHANGED <<now, op, attempts, started>>

CasLoses(c) ==
    /\ pc[c] = "cas"
    /\ group.revision # snap[c].revision
    /\ attempts' = [attempts EXCEPT ![c] = @ + 1]
    /\ IF attempts'[c] < ContentionAttempts
       THEN /\ GoTo(c, "load")
            /\ snap' = [snap EXCEPT ![c] = NoGroup]
            /\ UNCHANGED reply
       ELSE Answer(c, "budget_store_contention")
    /\ UNCHANGED <<group, now, op, granted, started>>

(* The store applied the swap but the caller never learns: it was           *)
(* cancelled, or lost its connection, while it awaited the answer.          *)
CasLandsUnseen(c) ==
    /\ pc[c] = "cas"
    /\ Swap(c)
    /\ Answer(c, "cancelled")
    /\ UNCHANGED <<now, op, attempts, granted, started>>

(* Cancellation of the calling task, at any await, with nothing written. *)
Abandon(c) ==
    /\ pc[c] # "idle"
    /\ Answer(c, "cancelled")
    /\ UNCHANGED <<group, now, op, attempts, granted, started>>

(* The clock is explored up to MaxTime, and always up to the deadline. *)
Tick ==
    /\ now < MaxTime \/ (group # NoGroup /\ now < group.deadline)
    /\ now' = now + 1
    /\ UNCHANGED <<group, clientVars, granted, started>>

(* The code after the first await of a call, up to its answer. *)
Proceed(c) ==
    \/ EnsureLoad(c) \/ EnsureCreate(c) \/ EnsureReload(c)
    \/ Poll(c) \/ Load(c) \/ CasWins(c) \/ CasLoses(c)

Next ==
    \/ \E c \in Clients : \/ \E r \in Requests : Begin(c, r)
                          \/ Proceed(c)
                          \/ CasLandsUnseen(c)
                          \/ Abandon(c)
    \/ Tick

Spec == Init /\ [][Next]_vars

(* The event loop runs every ready coroutine, the store answers, and time   *)
(* passes.  Calls, cancellations and lost answers are not owed to anybody.  *)
Fairness == WF_vars(Tick) /\ \A c \in Clients : WF_vars(Proceed(c))

FairSpec == Spec /\ Fairness

-----------------------------------------------------------------------------
Labels == {"idle", "ensure", "create", "reload", "poll", "load", "cas"}

TypeOK ==
    /\ group \in GroupState \cup {NoGroup}
    /\ now \in Nat
    /\ pc \in [Clients -> Labels]
    /\ op \in [Clients -> Requests]
    /\ snap \in [Clients -> GroupState \cup {NoGroup}]
    /\ attempts \in [Clients -> Nat]
    /\ reply \in [Clients -> Reasons \cup {"none", "ok", "cancelled"}]
    /\ granted \in [turns: Nat, tools: Nat]
    /\ started \in Nat

(* Why compare_and_swap on the revision is enough: the state a client       *)
(* computed its update from is the stored one whenever the revisions agree, *)
(* and its checks passed on it at some time that has been.                  *)
SnapshotsAreVersions ==
    \A c \in Clients :
        pc[c] = "cas" =>
            /\ group # NoGroup /\ snap[c] # NoGroup
            /\ snap[c].revision <= group.revision
            /\ snap[c].revision = group.revision => snap[c] = group
            /\ \E t \in 0..now : Verdict(op[c], snap[c], t) = "update"

(* The ledger is the atomic object: racing loads, computations and swaps    *)
(* have the effect of whole operations applied one after the other.         *)
Atomic == INSTANCE AtomicBudget WITH group <- group, now <- now

AtomicSpec == Atomic!Spec

(* No limit of the group is ever exceeded, whatever calls race on it. *)
LimitsRespected == group # NoGroup => WithinLimits(group)

(* The counters the record keeps are the leases it holds: delegation_count  *)
(* and per_agent_delegations are never out of step with the lease table,    *)
(* as __post_init__ of the state demands.                                   *)
CountersMatchLeases == group # NoGroup => CountersMatch(group)

(* cancel_group leaves no lease active, and none becomes active later. *)
CancelledHasNoActiveLease == group # NoGroup => NoneActiveOnceCancelled(group)

(* Whatever operations race on it, the stored record is well formed,        *)
(* respects its limits, counts what it holds, and has no active lease once  *)
(* it is cancelled.                                                         *)
LedgerConsistent ==
    TypeOK /\ LimitsRespected /\ CountersMatchLeases /\ CancelledHasNoActiveLease

(* What a step may do to a group that exists: the contract never changes,   *)
(* a lease is never forgotten or given to another agent, a settled lease    *)
(* stays settled the way it was, cancellation is final, nothing is given    *)
(* back to the turn and tool budgets, and usage grows only with a lease     *)
(* that completes in the same step.                                         *)
LeasesSettleOnce ==
    [][group # NoGroup => group' # NoGroup /\ Settles(group, group')]_vars

(* What callers were told is on record: turns and tool calls that were      *)
(* granted are counted (so the callers together stay within the limits),    *)
(* and a reservation that was answered "ok" has its lease in the table      *)
(* under its own callee.  A lost update would break it.                     *)
AnswersAreRecorded ==
    /\ group = NoGroup => granted.turns = 0 /\ granted.tools = 0
    /\ group # NoGroup => granted.turns <= group.turns
                          /\ granted.tools <= group.tools
    /\ \A c \in Clients :
          reply[c] = "ok" =>
              /\ group # NoGroup
              /\ op[c].kind = "reserve" => HasRecord(op[c], group)
              /\ op[c].kind = "complete" => group.status[op[c].lease] = "completed"
              /\ op[c].kind = "release" => group.status[op[c].lease] \in Terminal
              /\ op[c].kind = "cancel" => group.cancelled

(* Callers of ensure_group who were all told "ok" agree with the stored     *)
(* contract, hence with one another, even when they raced to create it.     *)
OneContract ==
    \A c \in Clients :
        reply[c] = "ok" /\ op[c].kind = "ensure" =>
            group # NoGroup /\ ContractMatches(c)

(* A call always ends: contention is bounded, and a reservation waiting     *)
(* for a parallel slot gets it or runs into the group's deadline.           *)
EveryCallIsAnswered == \A c \in Clients : (pc[c] # "idle") ~> (pc[c] = "idle")
=============================================================================
