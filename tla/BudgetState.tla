----------------------------- MODULE BudgetState -----------------------------
(***************************************************************************)
(* The persisted record of one execution group's delegation budget and the *)
(* pure functions that moduagent.delegation.budget hands to _mutate.        *)
(*                                                                         *)
(* A function of the code either raises BudgetExceeded(reason), returns    *)
(* the state it was given (nothing to write), raises _RetryReservation, or *)
(* returns a new state.  Here Verdict(o, s, t) says which of these         *)
(* operation o does on state s at time t, and Updated(o, s) is the new     *)
(* state it computes when the verdict is "update".                         *)
(***************************************************************************)
EXTENDS Integers, FiniteSets

CONSTANTS
    Agents,       \* AgentRef strings: the callees of delegations
    Leases,       \* lease ids
    Limits,       \* the ExecutionGroupLimits that callers may ask for
    Requests,     \* the ledger calls that callers may make
    NoAgent,      \* the callee of a lease that was never reserved
    NoDeadline,   \* ensure_group(..., absolute_deadline=None)
    NoGroup       \* the store has no state for the group

(* ExecutionGroupLimits rejects every limit below one. *)
LimitRecord ==
    [max_delegations: Nat \ {0}, max_parallel: Nat \ {0},
     max_per_agent: Nat \ {0}, max_turns: Nat \ {0}, max_tools: Nat \ {0},
     timeout: Nat \ {0}]

Kinds == {"ensure", "reserve", "turn", "tool", "complete", "release", "cancel"}

(* One call of the ledger's API; a field that a kind does not use is        *)
(* arbitrary.  amount is the count of a turn or tool reservation and the    *)
(* usage reported by a completion.                                         *)
Operation ==
    [kind: Kinds, lease: Leases, callee: Agents, amount: Nat,
     limits: Limits, deadline: Nat \cup {NoDeadline}]

(* The reasons of BudgetExceeded. *)
Reasons ==
    {"execution_group_cancelled", "execution_group_timeout",
     "budget_lease_identity_mismatch", "budget_lease_not_active",
     "budget_lease_not_found", "delegation_count_exceeded",
     "delegation_per_agent_exceeded", "execution_group_model_turns_exceeded",
     "execution_group_tool_calls_exceeded", "execution_group_not_initialized",
     "execution_group_contract_mismatch", "budget_store_contention"}

Statuses == {"none", "active", "completed", "released", "cancelled"}
Terminal == {"completed", "released", "cancelled"}

GroupState ==
    [revision: Nat \ {0}, limits: Limits, deadline: Nat,
     count: Nat, turns: Nat, tools: Nat,
     per_agent: [Agents -> Nat],
     status: [Leases -> Statuses], callee: [Leases -> Agents \cup {NoAgent}],
     usage: Nat, cancelled: BOOLEAN]

ASSUME BudgetAssumption ==
    /\ IsFiniteSet(Leases)
    /\ Limits \subseteq LimitRecord
    /\ Requests \subseteq Operation /\ Requests # {}
    /\ \A r \in Requests : r.kind \in {"turn", "tool"} => r.amount >= 1
    /\ NoAgent \notin Agents
    /\ NoDeadline \notin Nat
    /\ NoGroup \notin GroupState

-----------------------------------------------------------------------------
(* Mutant: a new group is stored with revision zero. *)
CandidateUnversioned(limits, deadline) ==
    [revision |-> 0, limits |-> limits, deadline |-> deadline,
     count |-> 0, turns |-> 0, tools |-> 0,
     per_agent |-> [a \in Agents |-> 0],
     status |-> [l \in Leases |-> "none"],
     callee |-> [l \in Leases |-> NoAgent],
     usage |-> 0, cancelled |-> FALSE]

(* The state ensure_group creates. *)
Candidate(limits, deadline) ==
    [revision |-> 1, limits |-> limits, deadline |-> deadline,
     count |-> 0, turns |-> 0, tools |-> 0,
     per_agent |-> [a \in Agents |-> 0],
     status |-> [l \in Leases |-> "none"],
     callee |-> [l \in Leases |-> NoAgent],
     usage |-> 0, cancelled |-> FALSE]

(* ensure_group: the deadline asked for, or the timeout from time t on. *)
DeadlineOf(o, t) ==
    IF o.deadline = NoDeadline THEN t + o.limits.timeout ELSE o.deadline

Known(s) == {l \in Leases : s.status[l] # "none"}

Active(s) == {l \in Leases : s.status[l] = "active"}

LeasesOf(s, a) == {l \in Known(s) : s.callee[l] = a}

(* _assert_live, with the clock read at time t. *)
Live(s, t) == ~s.cancelled /\ t < s.deadline

NotLiveReason(s) ==
    IF s.cancelled THEN "execution_group_cancelled" ELSE "execution_group_timeout"

(* Mutant: a reservation looks for a free slot before it looks whether the  *)
(* group is still live.                                                     *)
ReserveVerdictSlotsFirst(o, s, t) ==
    IF s.status[o.lease] = "none" /\ Cardinality(Active(s)) >= s.limits.max_parallel
        THEN "retry"
    ELSE IF ~Live(s, t) THEN NotLiveReason(s)
    ELSE IF s.status[o.lease] # "none" THEN "unchanged"
    ELSE "update"

(* reserve: the checks in the order the code makes them. *)
ReserveVerdict(o, s, t) ==
    IF ~Live(s, t) THEN NotLiveReason(s)
    ELSE IF s.status[o.lease] # "none" THEN
        IF s.callee[o.lease] # o.callee THEN "budget_lease_identity_mismatch"
        ELSE IF s.status[o.lease] # "active" THEN "budget_lease_not_active"
        ELSE "unchanged"
    ELSE IF s.count >= s.limits.max_delegations
        THEN "delegation_count_exceeded"
    ELSE IF s.per_agent[o.callee] >= s.limits.max_per_agent
        THEN "delegation_per_agent_exceeded"
    ELSE IF Cardinality(Active(s)) >= s.limits.max_parallel THEN "retry"
    ELSE "update"

TurnVerdict(o, s, t) ==
    IF ~Live(s, t) THEN NotLiveReason(s)
    ELSE IF s.turns + o.amount > s.limits.max_turns
        THEN "execution_group_model_turns_exceeded"
    ELSE "update"

ToolVerdict(o, s, t) ==
    IF ~Live(s, t) THEN NotLiveReason(s)
    ELSE IF s.tools + o.amount > s.limits.max_tools
        THEN "execution_group_tool_calls_exceeded"
    ELSE "update"

(* _lease_record: the lease presented must be one the group recorded. *)
HasRecord(o, s) == s.status[o.lease] # "none" /\ s.callee[o.lease] = o.callee

CompleteVerdict(o, s) ==
    IF ~HasRecord(o, s) THEN "budget_lease_not_found"
    ELSE IF s.status[o.lease] = "completed" THEN "unchanged"
    ELSE IF s.status[o.lease] # "active" THEN "budget_lease_not_active"
    ELSE "update"

(* Mutant: a release does not look whether the lease is settled already. *)
ReleaseVerdictAlways(o, s) ==
    IF ~HasRecord(o, s) THEN "budget_lease_not_found" ELSE "update"

ReleaseVerdict(o, s) ==
    IF ~HasRecord(o, s) THEN "budget_lease_not_found"
    ELSE IF s.status[o.lease] \in Terminal THEN "unchanged"
    ELSE "update"

Verdict(o, s, t) ==
    CASE o.kind = "reserve"  -> ReserveVerdict(o, s, t)
      [] o.kind = "turn"     -> TurnVerdict(o, s, t)
      [] o.kind = "tool"     -> ToolVerdict(o, s, t)
      [] o.kind = "complete" -> CompleteVerdict(o, s)
      [] o.kind = "release"  -> ReleaseVerdict(o, s)
      [] o.kind = "cancel"   -> "update"
      [] o.kind = "ensure"   -> "unchanged"

-----------------------------------------------------------------------------
Reserved(o, s) ==
    [s EXCEPT !.revision = @ + 1, !.count = @ + 1,
              !.per_agent[o.callee] = @ + 1,
              !.status[o.lease] = "active", !.callee[o.lease] = o.callee]

TurnTaken(o, s) == [s EXCEPT !.revision = @ + 1, !.turns = @ + o.amount]

ToolTaken(o, s) == [s EXCEPT !.revision = @ + 1, !.tools = @ + o.amount]

Completed(o, s) ==
    [s EXCEPT !.revision = @ + 1, !.status[o.lease] = "completed",
              !.usage = @ + o.amount]

Released(o, s) ==
    [s EXCEPT !.revision = @ + 1, !.status[o.lease] = "released"]

(* Mutant: cancellation raises the flag and forgets the leases. *)
CancelledFlagOnly(s) == [s EXCEPT !.revision = @ + 1, !.cancelled = TRUE]

Cancelled(s) ==
    [s EXCEPT !.revision = @ + 1, !.cancelled = TRUE,
              !.status = [l \in Leases |->
                            IF s.status[l] = "active" THEN "cancelled" ELSE s.status[l]]]

Updated(o, s) ==
    CASE o.kind = "reserve"  -> Reserved(o, s)
      [] o.kind = "turn"     -> TurnTaken(o, s)
      [] o.kind = "tool"     -> ToolTaken(o, s)
      [] o.kind = "complete" -> Completed(o, s)
      [] o.kind = "release"  -> Released(o, s)
      [] o.kind = "cancel"   -> Cancelled(s)
      [] OTHER               -> s

-----------------------------------------------------------------------------
(* What must hold of a stored state s, and of a change from s to u. *)
CountersMatch(s) ==
    /\ s.count = Cardinality(Known(s))
    /\ \A a \in Agents : s.per_agent[a] = Cardinality(LeasesOf(s, a))
    /\ \A l \in Leases : s.callee[l] = NoAgent <=> s.status[l] = "none"

WithinLimits(s) ==
    /\ s.count <= s.limits.max_delegations
    /\ Cardinality(Active(s)) <= s.limits.max_parallel
    /\ \A a \in Agents : Cardinality(LeasesOf(s, a)) <= s.limits.max_per_agent
    /\ s.turns <= s.limits.max_turns
    /\ s.tools <= s.limits.max_tools

NoneActiveOnceCancelled(s) == s.cancelled => Active(s) = {}

Settles(s, u) ==
    /\ u.limits = s.limits /\ u.deadline = s.deadline
    /\ \A l \in Leases :
          /\ s.status[l] # "none" =>
                u.status[l] # "none" /\ u.callee[l] = s.callee[l]
          /\ s.status[l] \in Terminal => u.status[l] = s.status[l]
    /\ s.cancelled => u.cancelled
    /\ u.turns >= s.turns /\ u.tools >= s.tools
    /\ u.usage # s.usage =>
          \E l \in Leases : s.status[l] = "active" /\ u.status[l] = "completed"
=============================================================================
