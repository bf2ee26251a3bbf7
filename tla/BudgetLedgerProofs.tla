------------------------- MODULE BudgetLedgerProofs --------------------------
(***************************************************************************)
(* Proofs about the budget ledger, for any clients, agents, leases, limits *)
(* and calls.  First the pure operations preserve what must hold of a      *)
(* stored state; then the snapshot of a client about to swap is either     *)
(* stale by its revision or the current state itself, so that the swap is  *)
(* an operation applied to the current state.                              *)
(***************************************************************************)
EXTENDS BudgetLedger, FiniteSetTheorems, TLAPS

(* A stored state that satisfies everything the ledger promises of it. *)
Good(s) ==
    /\ s \in GroupState
    /\ CountersMatch(s)
    /\ WithinLimits(s)
    /\ NoneActiveOnceCancelled(s)

-----------------------------------------------------------------------------
(* Every subset of the finite set of lease ids has a cardinality, and one   *)
(* more element is one more.                                                *)
LEMMA LeaseSets ==
    \A S \in SUBSET Leases :
        /\ IsFiniteSet(S)
        /\ Cardinality(S) \in Nat
        /\ \A l \in Leases \ S : Cardinality(S \cup {l}) = Cardinality(S) + 1
        /\ \A T \in SUBSET S : Cardinality(T) <= Cardinality(S)
<1>1. TAKE S \in SUBSET Leases
<1>2. IsFiniteSet(S)
  BY FS_Subset, BudgetAssumption
<1>3. \A l \in Leases \ S : Cardinality(S \cup {l}) = Cardinality(S) + 1
  BY <1>2, FS_AddElement
<1>4. \A T \in SUBSET S : Cardinality(T) <= Cardinality(S)
  BY <1>2, FS_Subset
<1> QED
  BY <1>2, <1>3, <1>4, FS_CardinalityType

(* ensure_group creates a state with nothing spent. *)
LEMMA CandidateGood ==
    ASSUME NEW lim \in Limits, NEW d \in Nat
    PROVE  Good(Candidate(lim, d))
<1> DEFINE s == Candidate(lim, d)
<1>1. s \in GroupState
  BY DEF Candidate, GroupState, Statuses
<1>2. Known(s) = {} /\ Active(s) = {} /\ \A a \in Agents : LeasesOf(s, a) = {}
  BY DEF Candidate, Known, Active, LeasesOf
<1>3. lim \in LimitRecord
  BY BudgetAssumption
<1>4. CountersMatch(s)
  BY <1>2, FS_EmptySet DEF CountersMatch, Candidate
<1>5. WithinLimits(s)
  <2>1. s.limits = lim /\ s.count = 0 /\ s.turns = 0 /\ s.tools = 0
    BY DEF Candidate
  <2>2. Cardinality({}) = 0
    BY FS_EmptySet
  <2> HIDE DEF s
  <2> QED
    BY <1>2, <1>3, <2>1, <2>2 DEF WithinLimits, LimitRecord
<1>6. NoneActiveOnceCancelled(s)
  BY DEF NoneActiveOnceCancelled, Candidate
<1> QED
  BY <1>1, <1>4, <1>5, <1>6 DEF Good

(* reserve_delegation adds one lease within every limit it checked. *)
LEMMA ReservedGood ==
    ASSUME NEW s, Good(s), NEW o \in Requests, NEW t \in Nat,
           ReserveVerdict(o, s, t) = "update"
    PROVE  Good(Reserved(o, s)) /\ Settles(s, Reserved(o, s))
<1> DEFINE u == Reserved(o, s)
<1>0. /\ s \in GroupState /\ o \in Operation
      /\ s.limits \in LimitRecord
  BY BudgetAssumption DEF Good, GroupState
<1>1. /\ ~s.cancelled
      /\ s.status[o.lease] = "none"
      /\ s.count < s.limits.max_delegations
      /\ s.per_agent[o.callee] < s.limits.max_per_agent
      /\ Cardinality(Active(s)) < s.limits.max_parallel
  <2>1. Cardinality(Active(s)) \in Nat
    BY LeaseSets DEF Active
  <2> QED
    BY <1>0, <2>1 DEF ReserveVerdict, Live, NotLiveReason, GroupState, Operation, LimitRecord
<1>2. /\ u \in GroupState
      /\ u.limits = s.limits /\ u.deadline = s.deadline
      /\ u.count = s.count + 1 /\ u.turns = s.turns /\ u.tools = s.tools
      /\ u.per_agent = [s.per_agent EXCEPT ![o.callee] = @ + 1]
      /\ u.status = [s.status EXCEPT ![o.lease] = "active"]
      /\ u.callee = [s.callee EXCEPT ![o.lease] = o.callee]
      /\ u.usage = s.usage /\ u.cancelled = s.cancelled
  <2>1. /\ [s.per_agent EXCEPT ![o.callee] = @ + 1] \in [Agents -> Nat]
        /\ [s.status EXCEPT ![o.lease] = "active"] \in [Leases -> Statuses]
        /\ [s.callee EXCEPT ![o.lease] = o.callee] \in [Leases -> Agents \cup {NoAgent}]
        /\ s.revision + 1 \in Nat \ {0} /\ s.count + 1 \in Nat
    BY <1>0 DEF GroupState, Operation, Statuses
  <2>2. u \in GroupState
    BY <1>0, <2>1 DEF Reserved, GroupState
  <2>3. /\ u.limits = s.limits /\ u.deadline = s.deadline
        /\ u.count = s.count + 1 /\ u.turns = s.turns /\ u.tools = s.tools
        /\ u.usage = s.usage /\ u.cancelled = s.cancelled
    BY <1>0 DEF Reserved, GroupState
  <2>4. /\ u.per_agent = [s.per_agent EXCEPT ![o.callee] = @ + 1]
        /\ u.status = [s.status EXCEPT ![o.lease] = "active"]
        /\ u.callee = [s.callee EXCEPT ![o.lease] = o.callee]
    BY <1>0 DEF Reserved, GroupState
  <2> QED
    BY <2>2, <2>3, <2>4
<1>3. /\ Known(u) = Known(s) \cup {o.lease}
      /\ Active(u) = Active(s) \cup {o.lease}
      /\ o.lease \in Leases
      /\ o.lease \notin Known(s) /\ o.lease \notin Active(s)
  BY <1>0, <1>1, <1>2 DEF Known, Active, GroupState, Operation
<1>4. \A a \in Agents : LeasesOf(u, a) =
          IF a = o.callee THEN LeasesOf(s, a) \cup {o.lease} ELSE LeasesOf(s, a)
  BY <1>0, <1>2, <1>3 DEF LeasesOf, Known, GroupState, Operation
<1>5. /\ Cardinality(Known(u)) = Cardinality(Known(s)) + 1
      /\ Cardinality(Active(u)) = Cardinality(Active(s)) + 1
      /\ Cardinality(LeasesOf(u, o.callee)) = Cardinality(LeasesOf(s, o.callee)) + 1
      /\ Cardinality(Active(s)) \in Nat
  <2>1. Known(s) \in SUBSET Leases /\ Active(s) \in SUBSET Leases
        /\ LeasesOf(s, o.callee) \in SUBSET Leases
    BY DEF Known, Active, LeasesOf
  <2>2. o.lease \notin LeasesOf(s, o.callee) /\ o.callee \in Agents
    BY <1>0, <1>3 DEF LeasesOf, Operation
  <2> QED
    BY <1>3, <1>4, <2>1, <2>2, LeaseSets
<1>6. CountersMatch(u)
  <2>1. u.count = Cardinality(Known(u))
    BY <1>2, <1>5 DEF Good, CountersMatch
  <2>2. ASSUME NEW a \in Agents PROVE u.per_agent[a] = Cardinality(LeasesOf(u, a))
    <3>1. CASE a = o.callee
      BY <1>0, <1>2, <1>5, <3>1 DEF Good, CountersMatch, GroupState
    <3>2. CASE a # o.callee
      BY <1>0, <1>2, <1>4, <3>2 DEF Good, CountersMatch, GroupState
    <3> QED
      BY <3>1, <3>2
  <2>3. \A l \in Leases : u.callee[l] = NoAgent <=> u.status[l] = "none"
    BY <1>0, <1>2, BudgetAssumption DEF Good, CountersMatch, GroupState, Operation
  <2> QED
    BY <2>1, <2>2, <2>3 DEF CountersMatch
<1>7. WithinLimits(u)
  <2>1. u.count <= u.limits.max_delegations /\ u.turns <= u.limits.max_turns
        /\ u.tools <= u.limits.max_tools
        /\ Cardinality(Active(u)) <= u.limits.max_parallel
    BY <1>0, <1>1, <1>2, <1>5 DEF Good, WithinLimits, GroupState, LimitRecord
  <2>2. \A a \in Agents : Cardinality(LeasesOf(u, a)) <= u.limits.max_per_agent
    <3> TAKE a \in Agents
    <3>1. CASE a = o.callee
      <4>1. Cardinality(LeasesOf(s, a)) = s.per_agent[a] /\ s.per_agent[a] \in Nat
        BY <1>0 DEF Good, CountersMatch, GroupState
      <4> QED
        BY <1>0, <1>1, <1>2, <1>5, <3>1, <4>1 DEF LimitRecord
    <3>2. CASE a # o.callee
      BY <1>2, <1>4, <3>2 DEF Good, WithinLimits
    <3> QED
      BY <3>1, <3>2
  <2> QED
    BY <2>1, <2>2 DEF WithinLimits
<1>8. NoneActiveOnceCancelled(u)
  BY <1>1, <1>2 DEF NoneActiveOnceCancelled
<1>9. Settles(s, u)
  BY <1>0, <1>1, <1>2 DEF Settles, GroupState, Operation, Terminal
<1> QED
  BY <1>2, <1>6, <1>7, <1>8, <1>9 DEF Good

(* When the lease table keeps its known leases and their callees and the    *)
(* counters, and no new lease becomes active, the lease facts carry over.   *)
LEMMA LeaseTableKept ==
    ASSUME NEW s, Good(s), NEW u, u \in GroupState,
           u.limits = s.limits, u.count = s.count, u.per_agent = s.per_agent,
           u.callee = s.callee,
           \A l \in Leases : u.status[l] = "none" <=> s.status[l] = "none",
           \A l \in Leases : u.status[l] = "active" => s.status[l] = "active",
           u.turns <= u.limits.max_turns, u.tools <= u.limits.max_tools,
           u.cancelled => Active(u) = {}
    PROVE  Good(u)
<1>1. /\ Known(u) = Known(s)
      /\ \A a \in Agents : LeasesOf(u, a) = LeasesOf(s, a)
      /\ Active(u) \subseteq Active(s) /\ Active(s) \in SUBSET Leases
  BY DEF Known, LeasesOf, Active
<1>2. CountersMatch(u)
  BY <1>1 DEF Good, CountersMatch
<1>3. Cardinality(Active(u)) <= u.limits.max_parallel
  <2>1. /\ Cardinality(Active(u)) <= Cardinality(Active(s))
        /\ Cardinality(Active(s)) \in Nat /\ Cardinality(Active(u)) \in Nat
    <3>1. Active(u) \in SUBSET Leases
      BY DEF Active
    <3> QED
      BY <1>1, <3>1, LeaseSets
  <2>2. s.limits \in LimitRecord
    BY BudgetAssumption DEF Good, GroupState
  <2> QED
    BY <2>1, <2>2 DEF Good, WithinLimits, LimitRecord
<1>4. WithinLimits(u)
  BY <1>1, <1>3 DEF Good, WithinLimits
<1> QED
  BY <1>2, <1>4 DEF Good, NoneActiveOnceCancelled

(* reserve_model_turn and reserve_tool_call stay within the group's totals. *)
LEMMA TakenGood ==
    ASSUME NEW s, Good(s), NEW o \in Requests, NEW t \in Nat
    PROVE  /\ TurnVerdict(o, s, t) = "update" =>
                  Good(TurnTaken(o, s)) /\ Settles(s, TurnTaken(o, s))
           /\ ToolVerdict(o, s, t) = "update" =>
                  Good(ToolTaken(o, s)) /\ Settles(s, ToolTaken(o, s))
<1>0. /\ s \in GroupState /\ o.amount \in Nat /\ s.limits \in LimitRecord
  BY BudgetAssumption DEF Good, GroupState, Operation
<1>1. ASSUME TurnVerdict(o, s, t) = "update"
      PROVE  Good(TurnTaken(o, s)) /\ Settles(s, TurnTaken(o, s))
  <2> DEFINE u == TurnTaken(o, s)
  <2>1. s.turns + o.amount <= s.limits.max_turns
    BY <1>0, <1>1 DEF TurnVerdict, NotLiveReason, GroupState, LimitRecord
  <2>2. u \in GroupState
    <3>1. s.revision + 1 \in Nat \ {0} /\ s.turns + o.amount \in Nat
      BY <1>0 DEF GroupState
    <3> QED
      BY <1>0, <3>1 DEF TurnTaken, GroupState
  <2>3. /\ u.limits = s.limits /\ u.count = s.count /\ u.per_agent = s.per_agent
        /\ u.callee = s.callee /\ u.status = s.status /\ u.cancelled = s.cancelled
        /\ u.turns = s.turns + o.amount /\ u.tools = s.tools /\ u.usage = s.usage
        /\ u.deadline = s.deadline
    BY <1>0 DEF TurnTaken, GroupState
  <2>4. u.cancelled => Active(u) = {}
    BY <2>3 DEF Good, NoneActiveOnceCancelled, Active
  <2> HIDE DEF u
  <2>5. Good(u)
    <3>1. u.tools <= u.limits.max_tools /\ u.turns <= u.limits.max_turns
      BY <2>1, <2>3 DEF Good, WithinLimits
    <3> QED
      BY <2>2, <2>3, <2>4, <3>1, LeaseTableKept
  <2>6. Settles(s, u)
    BY <1>0, <2>3 DEF Settles, GroupState
  <2> QED
    BY <2>5, <2>6 DEF u
<1>2. ASSUME ToolVerdict(o, s, t) = "update"
      PROVE  Good(ToolTaken(o, s)) /\ Settles(s, ToolTaken(o, s))
  <2> DEFINE u == ToolTaken(o, s)
  <2>1. s.tools + o.amount <= s.limits.max_tools
    BY <1>0, <1>2 DEF ToolVerdict, NotLiveReason, GroupState, LimitRecord
  <2>2. u \in GroupState
    <3>1. s.revision + 1 \in Nat \ {0} /\ s.tools + o.amount \in Nat
      BY <1>0 DEF GroupState
    <3> QED
      BY <1>0, <3>1 DEF ToolTaken, GroupState
  <2>3. /\ u.limits = s.limits /\ u.count = s.count /\ u.per_agent = s.per_agent
        /\ u.callee = s.callee /\ u.status = s.status /\ u.cancelled = s.cancelled
        /\ u.tools = s.tools + o.amount /\ u.turns = s.turns /\ u.usage = s.usage
        /\ u.deadline = s.deadline
    BY <1>0 DEF ToolTaken, GroupState
  <2>4. u.cancelled => Active(u) = {}
    BY <2>3 DEF Good, NoneActiveOnceCancelled, Active
  <2> HIDE DEF u
  <2>5. Good(u)
    <3>1. u.tools <= u.limits.max_tools /\ u.turns <= u.limits.max_turns
      BY <2>1, <2>3 DEF Good, WithinLimits
    <3> QED
      BY <2>2, <2>3, <2>4, <3>1, LeaseTableKept
  <2>6. Settles(s, u)
    BY <1>0, <2>3 DEF Settles, GroupState
  <2> QED
    BY <2>5, <2>6 DEF u
<1> QED
  BY <1>1, <1>2

(* Completing or releasing a lease settles exactly that lease. *)
LEMMA SettledGood ==
    ASSUME NEW s, Good(s), NEW o \in Requests
    PROVE  /\ CompleteVerdict(o, s) = "update" =>
                  Good(Completed(o, s)) /\ Settles(s, Completed(o, s))
           /\ ReleaseVerdict(o, s) = "update" =>
                  Good(Released(o, s)) /\ Settles(s, Released(o, s))
<1>0. /\ s \in GroupState /\ o.amount \in Nat /\ o.lease \in Leases
      /\ s.status \in [Leases -> Statuses]
      /\ s.turns <= s.limits.max_turns /\ s.tools <= s.limits.max_tools
  BY BudgetAssumption DEF Good, GroupState, Operation, WithinLimits
<1>1. ASSUME CompleteVerdict(o, s) = "update"
      PROVE  Good(Completed(o, s)) /\ Settles(s, Completed(o, s))
  <2> DEFINE u == Completed(o, s)
  <2>1. s.status[o.lease] = "active"
    BY <1>0, <1>1 DEF CompleteVerdict
  <2>2. u \in GroupState
    <3>1. [s.status EXCEPT ![o.lease] = "completed"] \in [Leases -> Statuses]
      BY <1>0 DEF Statuses
    <3>2. s.revision + 1 \in Nat \ {0} /\ s.usage + o.amount \in Nat
      BY <1>0 DEF GroupState
    <3> QED
      BY <1>0, <3>1, <3>2 DEF Completed, GroupState
  <2>3. /\ u.limits = s.limits /\ u.count = s.count /\ u.per_agent = s.per_agent
        /\ u.callee = s.callee /\ u.cancelled = s.cancelled
        /\ u.turns = s.turns /\ u.tools = s.tools /\ u.deadline = s.deadline
    BY <1>0 DEF Completed, GroupState
  <2>4. u.status = [s.status EXCEPT ![o.lease] = "completed"]
    BY <1>0 DEF Completed, GroupState
  <2> HIDE DEF u
  <2>5. Active(u) \subseteq Active(s)
    BY <1>0, <2>4 DEF Active
  <2>6. Good(u)
    <3>1. /\ \A l \in Leases : u.status[l] = "none" <=> s.status[l] = "none"
          /\ \A l \in Leases : u.status[l] = "active" => s.status[l] = "active"
      BY <1>0, <2>1, <2>4
    <3>2. u.cancelled => Active(u) = {}
      BY <2>3, <2>5 DEF Good, NoneActiveOnceCancelled
    <3> QED
      BY <1>0, <2>2, <2>3, <3>1, <3>2, LeaseTableKept
  <2>7. Settles(s, u)
    <3>1. s.turns \in Nat /\ s.tools \in Nat
      BY <1>0 DEF GroupState
    <3> QED
      BY <1>0, <2>1, <2>3, <2>4, <3>1 DEF Settles, Terminal
  <2> QED
    BY <2>6, <2>7 DEF u
<1>2. ASSUME ReleaseVerdict(o, s) = "update"
      PROVE  Good(Released(o, s)) /\ Settles(s, Released(o, s))
  <2> DEFINE u == Released(o, s)
  <2>1. s.status[o.lease] = "active"
    BY <1>0, <1>2 DEF ReleaseVerdict, HasRecord, Statuses, Terminal
  <2>2. u \in GroupState
    <3>1. [s.status EXCEPT ![o.lease] = "released"] \in [Leases -> Statuses]
      BY <1>0 DEF Statuses
    <3>2. s.revision + 1 \in Nat \ {0}
      BY <1>0 DEF GroupState
    <3> QED
      BY <1>0, <3>1, <3>2 DEF Released, GroupState
  <2>3. /\ u.limits = s.limits /\ u.count = s.count /\ u.per_agent = s.per_agent
        /\ u.callee = s.callee /\ u.cancelled = s.cancelled /\ u.usage = s.usage
        /\ u.turns = s.turns /\ u.tools = s.tools /\ u.deadline = s.deadline
    BY <1>0 DEF Released, GroupState
  <2>4. u.status = [s.status EXCEPT ![o.lease] = "released"]
    BY <1>0 DEF Released, GroupState
  <2> HIDE DEF u
  <2>5. Active(u) \subseteq Active(s)
    BY <1>0, <2>4 DEF Active
  <2>6. Good(u)
    <3>1. /\ \A l \in Leases : u.status[l] = "none" <=> s.status[l] = "none"
          /\ \A l \in Leases : u.status[l] = "active" => s.status[l] = "active"
      BY <1>0, <2>1, <2>4
    <3>2. u.cancelled => Active(u) = {}
      BY <2>3, <2>5 DEF Good, NoneActiveOnceCancelled
    <3> QED
      BY <1>0, <2>2, <2>3, <3>1, <3>2, LeaseTableKept
  <2>7. Settles(s, u)
    <3>1. s.turns \in Nat /\ s.tools \in Nat
      BY <1>0 DEF GroupState
    <3> QED
      BY <1>0, <2>1, <2>3, <2>4, <3>1 DEF Settles, Terminal
  <2> QED
    BY <2>6, <2>7 DEF u
<1> QED
  BY <1>1, <1>2

(* cancel_group settles every active lease and keeps the settled ones. *)
LEMMA CancelledGood ==
    ASSUME NEW s, Good(s)
    PROVE  Good(Cancelled(s)) /\ Settles(s, Cancelled(s))
<1> DEFINE u == Cancelled(s)
           st == [l \in Leases |->
                    IF s.status[l] = "active" THEN "cancelled" ELSE s.status[l]]
<1>0. /\ s \in GroupState /\ s.status \in [Leases -> Statuses]
      /\ s.turns <= s.limits.max_turns /\ s.tools <= s.limits.max_tools
      /\ s.turns \in Nat /\ s.tools \in Nat
  BY DEF Good, GroupState, WithinLimits
<1>1. u \in GroupState
  <2>1. st \in [Leases -> Statuses]
    BY <1>0 DEF Statuses
  <2>2. s.revision + 1 \in Nat \ {0}
    BY <1>0 DEF GroupState
  <2>3. u = [s EXCEPT !.revision = @ + 1, !.cancelled = TRUE, !.status = st]
    BY DEF Cancelled
  <2> HIDE DEF st, u
  <2> QED
    BY <1>0, <2>1, <2>2, <2>3 DEF GroupState
<1>2. /\ u.limits = s.limits /\ u.count = s.count /\ u.per_agent = s.per_agent
      /\ u.callee = s.callee /\ u.cancelled = TRUE /\ u.usage = s.usage
      /\ u.turns = s.turns /\ u.tools = s.tools /\ u.deadline = s.deadline
      /\ u.status = st
  BY <1>0 DEF Cancelled, GroupState
<1> HIDE DEF u
<1>3. Active(u) = {}
  BY <1>2 DEF Active
<1>4. /\ \A l \in Leases : u.status[l] = "none" <=> s.status[l] = "none"
      /\ \A l \in Leases : u.status[l] = "active" => s.status[l] = "active"
  BY <1>2
<1>5. Good(u)
  BY <1>0, <1>1, <1>2, <1>3, <1>4, LeaseTableKept
<1>6. Settles(s, u)
  BY <1>0, <1>2, <1>4 DEF Settles, Terminal
<1> QED
  BY <1>5, <1>6 DEF u

(* Every operation, applied to a good state it accepts, gives a good state  *)
(* that keeps what was settled, one revision later.                         *)
LEMMA UpdatedGood ==
    ASSUME NEW s, Good(s), NEW o \in Requests, NEW t \in Nat,
           Verdict(o, s, t) = "update"
    PROVE  /\ Good(Updated(o, s)) /\ Settles(s, Updated(o, s))
           /\ Updated(o, s).revision = s.revision + 1
<1>0. o.kind \in Kinds /\ s \in GroupState
  BY BudgetAssumption DEF Operation, Good
<1>1. Good(Updated(o, s)) /\ Settles(s, Updated(o, s))
  <2>1. CASE o.kind = "reserve"
    BY <2>1, ReservedGood DEF Verdict, Updated
  <2>2. CASE o.kind = "turn"
    BY <2>2, TakenGood DEF Verdict, Updated
  <2>3. CASE o.kind = "tool"
    BY <2>3, TakenGood DEF Verdict, Updated
  <2>4. CASE o.kind = "complete"
    BY <2>4, SettledGood DEF Verdict, Updated
  <2>5. CASE o.kind = "release"
    BY <2>5, SettledGood DEF Verdict, Updated
  <2>6. CASE o.kind = "cancel"
    BY <2>6, CancelledGood DEF Verdict, Updated
  <2>7. CASE o.kind = "ensure"
    BY <2>7 DEF Verdict
  <2> QED
    BY <1>0, <2>1, <2>2, <2>3, <2>4, <2>5, <2>6, <2>7 DEF Kinds
<1>2. Updated(o, s).revision = s.revision + 1
  BY <1>0 DEF Updated, Kinds, Verdict, Reserved, TurnTaken, ToolTaken,
              Completed, Released, Cancelled, GroupState
<1> QED
  BY <1>1, <1>2

-----------------------------------------------------------------------------
(* Each client is at a label that its call passes through. *)
LabelFitsCall ==
    \A c \in Clients :
        /\ pc[c] \in {"ensure", "create", "reload"} => op[c].kind = "ensure"
        /\ pc[c] = "poll" => op[c].kind = "reserve"
        /\ pc[c] \in {"load", "cas"} => op[c].kind # "ensure"

(* A client about to create the group holds the state it asked for. *)
CreatesWhatWasAsked ==
    \A c \in Clients :
        pc[c] = "create" =>
            \E t \in 0..now :
                snap[c] = Candidate(op[c].limits, DeadlineOf(op[c], t))

GroupIsGood == group # NoGroup => Good(group)

IInv ==
    /\ TypeOK
    /\ GroupIsGood
    /\ LabelFitsCall
    /\ SnapshotsAreVersions
    /\ CreatesWhatWasAsked
    /\ AnswersAreRecorded
    /\ OneContract

(* A step that changes nothing settles nothing. *)
LEMMA SettlesReflexive == ASSUME NEW s \in GroupState PROVE Settles(s, s)
<1>1. s.turns \in Nat /\ s.tools \in Nat
  BY DEF GroupState
<1> QED
  BY <1>1 DEF Settles

(* The deadline that ensure_group computes is a time. *)
LEMMA DeadlineIsTime ==
    ASSUME NEW o \in Requests, NEW t \in Nat
    PROVE  DeadlineOf(o, t) \in Nat /\ o.limits \in Limits
<1>1. o \in Operation
  BY BudgetAssumption
<1>2. o.limits \in LimitRecord
  BY <1>1, BudgetAssumption DEF Operation
<1>3. o.deadline \in Nat \cup {NoDeadline} /\ o.limits.timeout \in Nat
  BY <1>1, <1>2 DEF Operation, LimitRecord
<1> QED
  BY <1>1, <1>3 DEF DeadlineOf, Operation

(* What one step may do to the store and the clock, as AtomicBudget says. *)
Created(g, h) ==
    /\ g = NoGroup
    /\ \E r \in Requests, t \in 0..now :
          r.kind = "ensure" /\ h = Candidate(r.limits, DeadlineOf(r, t))

Applied(g, h) ==
    /\ g # NoGroup
    /\ \E r \in Requests, t \in 0..now :
          Verdict(r, g, t) = "update" /\ h = Updated(r, g)

(* A swap that the store accepts applies the operation to the stored state. *)
LEMMA SwapApplies ==
    ASSUME IInv, NEW c \in Clients, pc[c] = "cas", Swap(c)
    PROVE  /\ Applied(group, group')
           /\ group' = Updated(op[c], group)
           /\ \E t \in 0..now : Verdict(op[c], group, t) = "update"
<1>1. snap[c] = group /\ group # NoGroup /\ op[c] \in Requests
  BY DEF IInv, SnapshotsAreVersions, Swap, TypeOK
<1>2. \E t \in 0..now : Verdict(op[c], group, t) = "update"
  BY <1>1 DEF IInv, SnapshotsAreVersions
<1> QED
  BY <1>1, <1>2 DEF Applied, Swap

(* The store and the clock under any step of the ledger. *)
LEMMA StoreStep ==
    ASSUME IInv, [Next]_vars
    PROVE  \/ group' = group /\ now' \in {now, now + 1}
           \/ now' = now /\ Created(group, group')
           \/ now' = now /\ Applied(group, group')
<1>1. CASE UNCHANGED vars
  BY <1>1 DEF vars
<1>2. CASE Tick
  BY <1>2 DEF Tick
<1>3. ASSUME NEW c \in Clients, NEW r \in Requests, Begin(c, r)
      PROVE  group' = group /\ now' = now
  BY <1>3 DEF Begin
<1>4. ASSUME NEW c \in Clients, EnsureLoad(c) \/ EnsureReload(c)
      PROVE  group' = group /\ now' = now
  BY <1>4 DEF EnsureLoad, EnsureReload, CheckContract
<1>5. ASSUME NEW c \in Clients, EnsureCreate(c)
      PROVE  now' = now /\ (group' = group \/ Created(group, group'))
  <2>1. CASE group # NoGroup
    BY <1>5, <2>1 DEF EnsureCreate
  <2>2. CASE group = NoGroup
    <3>1. group' = snap[c] /\ now' = now /\ pc[c] = "create"
      BY <1>5, <2>2 DEF EnsureCreate
    <3>2. op[c] \in Requests /\ op[c].kind = "ensure"
      BY <3>1 DEF IInv, TypeOK, LabelFitsCall
    <3>3. \E t \in 0..now : snap[c] = Candidate(op[c].limits, DeadlineOf(op[c], t))
      BY <3>1 DEF IInv, CreatesWhatWasAsked
    <3> QED
      BY <2>2, <3>1, <3>2, <3>3 DEF Created
  <2> QED
    BY <2>1, <2>2
<1>6. ASSUME NEW c \in Clients, Poll(c) \/ Load(c) \/ CasLoses(c) \/ Abandon(c)
      PROVE  group' = group /\ now' = now
  BY <1>6 DEF Poll, Load, CasLoses, Abandon
<1>7. ASSUME NEW c \in Clients, CasWins(c) \/ CasLandsUnseen(c)
      PROVE  now' = now /\ Applied(group, group')
  <2>1. pc[c] = "cas" /\ Swap(c) /\ now' = now
    BY <1>7 DEF CasWins, CasLandsUnseen
  <2> QED
    BY <2>1, SwapApplies
<1> QED
  BY <1>1, <1>2, <1>3, <1>4, <1>5, <1>6, <1>7 DEF Next, Proceed

(* The store stays good, forgets nothing and counts its revisions. *)
LEMMA StoreStaysGood ==
    ASSUME IInv, [Next]_vars
    PROVE  /\ group' \in GroupState \cup {NoGroup}
           /\ now' \in Nat /\ now <= now'
           /\ GroupIsGood'
           /\ group # NoGroup =>
                 /\ group' # NoGroup /\ Settles(group, group')
                 /\ group' # group => group'.revision = group.revision + 1
<1>0. now \in Nat /\ (group # NoGroup => Good(group))
      /\ group \in GroupState \cup {NoGroup}
  BY DEF IInv, TypeOK, GroupIsGood
<1>1. CASE group' = group /\ now' \in {now, now + 1}
  BY <1>0, <1>1, SettlesReflexive DEF GroupIsGood
<1>2. CASE now' = now /\ Created(group, group')
  <2>1. PICK r \in Requests, t \in 0..now :
            group' = Candidate(r.limits, DeadlineOf(r, t))
    BY <1>2 DEF Created
  <2>2. t \in Nat
    BY <1>0
  <2>3. Good(group')
    BY <2>1, <2>2, DeadlineIsTime, CandidateGood
  <2> QED
    BY <1>0, <1>2, <2>3 DEF Created, Good, GroupIsGood
<1>3. CASE now' = now /\ Applied(group, group')
  <2>1. PICK r \in Requests, t \in 0..now :
            Verdict(r, group, t) = "update" /\ group' = Updated(r, group)
    BY <1>3 DEF Applied
  <2>2. t \in Nat /\ Good(group) /\ group # NoGroup
    BY <1>0, <1>3 DEF Applied
  <2>3. Good(group') /\ Settles(group, group') /\ group'.revision = group.revision + 1
    BY <2>1, <2>2, UpdatedGood
  <2>4. group' # NoGroup
    BY <2>3, BudgetAssumption DEF Good
  <2> QED
    BY <1>0, <1>3, <2>3, <2>4 DEF Good, GroupIsGood
<1> QED
  BY <1>1, <1>2, <1>3, StoreStep

-----------------------------------------------------------------------------
(* What the group's record shows once a caller has been told "ok". *)
Recorded(o, g) ==
    /\ g # NoGroup
    /\ o.kind = "reserve" => HasRecord(o, g)
    /\ o.kind = "complete" => g.status[o.lease] = "completed"
    /\ o.kind = "release" => g.status[o.lease] \in Terminal
    /\ o.kind = "cancel" => g.cancelled
    /\ o.kind = "ensure" => /\ g.limits = o.limits
                            /\ o.deadline # NoDeadline => g.deadline = o.deadline

(* An answer stays on record. *)
LEMMA RecordedKept ==
    ASSUME NEW g, NEW h, h # NoGroup, NEW o \in Requests,
           Recorded(o, g), Settles(g, h)
    PROVE  Recorded(o, h)
<1>1. o.lease \in Leases
  BY BudgetAssumption DEF Operation
<1> QED
  BY <1>1 DEF Recorded, Settles, HasRecord, Terminal

(* An operation with nothing to write finds its effect on record. *)
LEMMA UnchangedRecorded ==
    ASSUME NEW g, g # NoGroup, NEW o \in Requests, NEW t, o.kind # "ensure",
           Verdict(o, g, t) = "unchanged"
    PROVE  Recorded(o, g)
<1>0. o.kind \in Kinds
  BY BudgetAssumption DEF Operation
<1>1. CASE o.kind = "reserve"
  BY <1>1 DEF Verdict, ReserveVerdict, NotLiveReason, Recorded, HasRecord
<1>2. CASE o.kind \in {"turn", "tool"}
  BY <1>2 DEF Verdict, TurnVerdict, ToolVerdict, NotLiveReason
<1>3. CASE o.kind = "complete"
  BY <1>3 DEF Verdict, CompleteVerdict, Recorded
<1>4. CASE o.kind = "release"
  BY <1>4 DEF Verdict, ReleaseVerdict, Recorded
<1>5. CASE o.kind = "cancel"
  BY <1>5 DEF Verdict
<1> QED
  BY <1>0, <1>1, <1>2, <1>3, <1>4, <1>5 DEF Kinds

(* An operation that was applied has its effect on record. *)
LEMMA UpdatedRecorded ==
    ASSUME NEW s, Good(s), NEW o \in Requests, NEW t \in Nat,
           Verdict(o, s, t) = "update"
    PROVE  Recorded(o, Updated(o, s))
<1>0. /\ o.kind \in Kinds /\ o.lease \in Leases /\ s \in GroupState
      /\ s.status \in [Leases -> Statuses]
      /\ s.callee \in [Leases -> Agents \cup {NoAgent}]
  BY BudgetAssumption DEF Operation, Good, GroupState
<1>1. Updated(o, s) # NoGroup
  BY UpdatedGood, BudgetAssumption DEF Good
<1>2. o.kind # "ensure"
  BY DEF Verdict
<1>3. CASE o.kind = "reserve"
  <2>1. /\ Reserved(o, s).status = [s.status EXCEPT ![o.lease] = "active"]
        /\ Reserved(o, s).callee = [s.callee EXCEPT ![o.lease] = o.callee]
    BY <1>0 DEF Reserved, GroupState
  <2>2. Updated(o, s) = Reserved(o, s)
    BY <1>3 DEF Updated
  <2> QED
    BY <1>0, <1>1, <1>3, <2>1, <2>2 DEF Recorded, HasRecord
<1>4. CASE o.kind = "complete"
  <2>1. Completed(o, s).status = [s.status EXCEPT ![o.lease] = "completed"]
    BY <1>0 DEF Completed, GroupState
  <2>2. Updated(o, s) = Completed(o, s)
    BY <1>4 DEF Updated
  <2> QED
    BY <1>0, <1>1, <1>4, <2>1, <2>2 DEF Recorded
<1>5. CASE o.kind = "release"
  <2>1. Released(o, s).status = [s.status EXCEPT ![o.lease] = "released"]
    BY <1>0 DEF Released, GroupState
  <2>2. Updated(o, s) = Released(o, s)
    BY <1>5 DEF Updated
  <2> QED
    BY <1>0, <1>1, <1>5, <2>1, <2>2 DEF Recorded, Terminal
<1>6. CASE o.kind = "cancel"
  <2>1. Cancelled(s).cancelled = TRUE
    BY <1>0 DEF Cancelled, GroupState
  <2>2. Updated(o, s) = Cancelled(s)
    BY <1>6 DEF Updated
  <2> QED
    BY <1>1, <1>6, <2>1, <2>2 DEF Recorded
<1>7. CASE o.kind \in {"turn", "tool"}
  BY <1>1, <1>7 DEF Recorded
<1> QED
  BY <1>0, <1>2, <1>3, <1>4, <1>5, <1>6, <1>7 DEF Kinds

(* What is neither written, retried nor found done is refused for a reason. *)
LEMMA JudgementType ==
    ASSUME IInv, NEW c \in Clients
    PROVE  Judgement(c) \in Reasons \cup {"update", "retry", "unchanged"}
<1>1. op[c].kind \in Kinds
  BY BudgetAssumption DEF IInv, TypeOK, Operation
<1> QED
  BY <1>1 DEF Judgement, Verdict, Kinds, ReserveVerdict, TurnVerdict,
              ToolVerdict, CompleteVerdict, ReleaseVerdict, NotLiveReason,
              Reasons

(* Types of everything a client keeps. *)
LEMMA TypeStep ==
    ASSUME IInv, [Next]_vars
    PROVE  TypeOK'
<1>0. TypeOK /\ group' \in GroupState \cup {NoGroup} /\ now' \in Nat
  BY StoreStaysGood DEF IInv
<1>1. CASE UNCHANGED vars
  BY <1>0, <1>1 DEF vars, TypeOK
<1>2. CASE Tick
  BY <1>0, <1>2 DEF Tick, TypeOK, clientVars
<1>3. ASSUME NEW c \in Clients, NEW r \in Requests, Begin(c, r)
      PROVE  TypeOK'
  BY <1>0, <1>3 DEF Begin, GoTo, TypeOK, Labels, Reasons
<1>4. ASSUME NEW c \in Clients, CheckContract(c)
      PROVE  TypeOK'
  BY <1>0, <1>4 DEF CheckContract, Answer, TypeOK, Labels, Reasons
<1>5. ASSUME NEW c \in Clients, EnsureLoad(c)
      PROVE  TypeOK'
  <2>1. CASE group = NoGroup
    <3>1. Candidate(op[c].limits, DeadlineOf(op[c], now)) \in GroupState
      BY <1>0, DeadlineIsTime, CandidateGood DEF TypeOK, Good
    <3> QED
      BY <1>0, <1>5, <2>1, <3>1 DEF EnsureLoad, GoTo, TypeOK, Labels, Reasons
  <2> QED
    BY <1>4, <1>5, <2>1 DEF EnsureLoad
<1>6. ASSUME NEW c \in Clients, EnsureCreate(c)
      PROVE  TypeOK'
  BY <1>0, <1>6 DEF EnsureCreate, GoTo, Answer, TypeOK, Labels, Reasons
<1>7. ASSUME NEW c \in Clients, EnsureReload(c)
      PROVE  TypeOK'
  BY <1>0, <1>4, <1>7 DEF EnsureReload, Answer, TypeOK, Labels, Reasons
<1>8. ASSUME NEW c \in Clients, Poll(c)
      PROVE  TypeOK'
  <2>1. Judgement(c) \in Reasons \cup {"update", "retry", "unchanged"}
    BY JudgementType
  <2> QED
    BY <1>0, <1>8, <2>1 DEF Poll, GoTo, Answer, TypeOK, Labels, Reasons
<1>9. ASSUME NEW c \in Clients, Load(c)
      PROVE  TypeOK'
  <2>1. Judgement(c) \in Reasons \cup {"update", "retry", "unchanged"}
    BY JudgementType
  <2> QED
    BY <1>0, <1>9, <2>1 DEF Load, GoTo, Answer, TypeOK, Labels, Reasons
<1>10. ASSUME NEW c \in Clients, CasWins(c)
       PROVE  TypeOK'
  <2>1. op[c].amount \in Nat
    BY <1>0, BudgetAssumption DEF TypeOK, Operation
  <2>2. granted' \in [turns: Nat, tools: Nat]
    BY <1>0, <1>10, <2>1 DEF CasWins, TypeOK
  <2> QED
    BY <1>0, <1>10, <2>2 DEF CasWins, Answer, TypeOK, Labels, Reasons
<1>11. ASSUME NEW c \in Clients, CasLoses(c)
       PROVE  TypeOK'
  BY <1>0, <1>11 DEF CasLoses, GoTo, Answer, TypeOK, Labels, Reasons
<1>12. ASSUME NEW c \in Clients, CasLandsUnseen(c) \/ Abandon(c)
       PROVE  TypeOK'
  BY <1>0, <1>12 DEF CasLandsUnseen, Abandon, Answer, TypeOK, Labels, Reasons
<1> QED
  BY <1>1, <1>2, <1>3, <1>5, <1>6, <1>7, <1>8, <1>9, <1>10, <1>11, <1>12
     DEF Next, Proceed

(* How a client comes to be at a label: it was there with the same call     *)
(* and the same snapshot, or the step that leads there has just run.        *)
LEMMA LabelStep ==
    ASSUME IInv, [Next]_vars, NEW d \in Clients
    PROVE  /\ LabelFitsCall'
           /\ pc'[d] = "create" =>
                 \/ pc[d] = "create" /\ snap'[d] = snap[d] /\ op'[d] = op[d]
                 \/ /\ op'[d] = op[d] /\ now' = now
                    /\ snap'[d] = Candidate(op[d].limits, DeadlineOf(op[d], now))
           /\ pc'[d] = "cas" =>
                 \/ pc[d] = "cas" /\ snap'[d] = snap[d] /\ op'[d] = op[d]
                 \/ /\ op'[d] = op[d] /\ now' = now /\ snap'[d] = group
                    /\ group' = group /\ group # NoGroup
                    /\ Verdict(op[d], group, now) = "update"
<1> DEFINE Good1 ==
      /\ LabelFitsCall'
      /\ pc'[d] = "create" =>
            \/ pc[d] = "create" /\ snap'[d] = snap[d] /\ op'[d] = op[d]
            \/ /\ op'[d] = op[d] /\ now' = now
               /\ snap'[d] = Candidate(op[d].limits, DeadlineOf(op[d], now))
      /\ pc'[d] = "cas" =>
            \/ pc[d] = "cas" /\ snap'[d] = snap[d] /\ op'[d] = op[d]
            \/ /\ op'[d] = op[d] /\ now' = now /\ snap'[d] = group
               /\ group' = group /\ group # NoGroup
               /\ Verdict(op[d], group, now) = "update"
<1>0. TypeOK /\ LabelFitsCall
  BY DEF IInv
<1>1. CASE UNCHANGED vars
  BY <1>0, <1>1 DEF vars, LabelFitsCall
<1>2. CASE Tick
  BY <1>0, <1>2 DEF Tick, clientVars, LabelFitsCall
<1>3. ASSUME NEW c \in Clients, NEW r \in Requests, Begin(c, r) PROVE Good1
  BY <1>0, <1>3 DEF Begin, GoTo, TypeOK, LabelFitsCall
<1>4. ASSUME NEW c \in Clients, EnsureLoad(c) PROVE Good1
  BY <1>0, <1>4 DEF EnsureLoad, CheckContract, Answer, GoTo, TypeOK, LabelFitsCall
<1>5. ASSUME NEW c \in Clients, EnsureCreate(c) PROVE Good1
  BY <1>0, <1>5 DEF EnsureCreate, Answer, GoTo, TypeOK, LabelFitsCall
<1>6. ASSUME NEW c \in Clients, EnsureReload(c) PROVE Good1
  BY <1>0, <1>6 DEF EnsureReload, CheckContract, Answer, TypeOK, LabelFitsCall
<1>7. ASSUME NEW c \in Clients, Poll(c) PROVE Good1
  BY <1>0, <1>7 DEF Poll, Answer, GoTo, TypeOK, LabelFitsCall
<1>8. ASSUME NEW c \in Clients, Load(c) PROVE Good1
  <2>1. CASE Judgement(c) = "update"
    <3>1. group # NoGroup /\ Verdict(op[c], group, now) = "update"
      BY <2>1 DEF Judgement
    <3> QED
      BY <1>0, <1>8, <2>1, <3>1 DEF Load, GoTo, TypeOK, LabelFitsCall
  <2>2. CASE Judgement(c) = "retry"
    <3>1. op[c].kind = "reserve"
      <4>1. op[c].kind \in Kinds
        BY <1>0, BudgetAssumption DEF TypeOK, Operation
      <4> QED
        BY <2>2, <4>1 DEF Judgement, Verdict, Kinds, TurnVerdict, ToolVerdict,
                          CompleteVerdict, ReleaseVerdict, NotLiveReason
    <3> QED
      BY <1>0, <1>8, <2>2, <3>1 DEF Load, GoTo, TypeOK, LabelFitsCall
  <2>3. CASE Judgement(c) \notin {"update", "retry"}
    BY <1>0, <1>8, <2>3 DEF Load, Answer, TypeOK, LabelFitsCall
  <2> QED
    BY <2>1, <2>2, <2>3
<1>9. ASSUME NEW c \in Clients, CasWins(c) \/ CasLandsUnseen(c) \/ Abandon(c)
      PROVE  Good1
  BY <1>0, <1>9 DEF CasWins, CasLandsUnseen, Abandon, Answer, TypeOK, LabelFitsCall
<1>10. ASSUME NEW c \in Clients, CasLoses(c) PROVE Good1
  BY <1>0, <1>10 DEF CasLoses, Answer, GoTo, TypeOK, LabelFitsCall
<1> QED
  BY <1>1, <1>2, <1>3, <1>4, <1>5, <1>6, <1>7, <1>8, <1>9, <1>10 DEF Next, Proceed

(* Snapshots stay versions of the store. *)
LEMMA SnapshotStep ==
    ASSUME IInv, [Next]_vars
    PROVE  SnapshotsAreVersions' /\ CreatesWhatWasAsked'
<1>0. /\ TypeOK /\ now \in Nat /\ now' \in Nat /\ now <= now'
      /\ group # NoGroup => group' # NoGroup
      /\ group # NoGroup /\ group' # group => group'.revision = group.revision + 1
  BY StoreStaysGood DEF IInv, TypeOK
<1>1. ASSUME NEW d \in Clients, pc'[d] = "cas"
      PROVE  /\ group' # NoGroup /\ snap'[d] # NoGroup
             /\ snap'[d].revision <= group'.revision
             /\ snap'[d].revision = group'.revision => snap'[d] = group'
             /\ \E t \in 0..now' : Verdict(op'[d], snap'[d], t) = "update"
  <2>1. CASE pc[d] = "cas" /\ snap'[d] = snap[d] /\ op'[d] = op[d]
    <3>1. /\ group # NoGroup /\ snap[d] # NoGroup
          /\ snap[d].revision <= group.revision
          /\ snap[d].revision = group.revision => snap[d] = group
          /\ \E t \in 0..now : Verdict(op[d], snap[d], t) = "update"
      BY <2>1 DEF IInv, SnapshotsAreVersions
    <3>2. group \in GroupState /\ snap[d] \in GroupState
      BY <1>0, <3>1 DEF TypeOK
    <3>3. group.revision \in Nat /\ snap[d].revision \in Nat
      BY <3>2 DEF GroupState
    <3>4. \E t \in 0..now' : Verdict(op[d], snap[d], t) = "update"
      BY <1>0, <3>1
    <3> QED
      BY <1>0, <2>1, <3>1, <3>3, <3>4
  <2>2. CASE /\ op'[d] = op[d] /\ now' = now /\ snap'[d] = group
             /\ group' = group /\ group # NoGroup
             /\ Verdict(op[d], group, now) = "update"
    <3>1. group.revision \in Nat
      BY <1>0, <2>2 DEF TypeOK, GroupState
    <3>2. now \in 0..now'
      BY <1>0
    <3> QED
      BY <2>2, <3>1, <3>2
  <2> QED
    BY <1>1, <2>1, <2>2, LabelStep
<1>2. ASSUME NEW d \in Clients, pc'[d] = "create"
      PROVE  \E t \in 0..now' :
                 snap'[d] = Candidate(op'[d].limits, DeadlineOf(op'[d], t))
  <2>1. CASE pc[d] = "create" /\ snap'[d] = snap[d] /\ op'[d] = op[d]
    <3>1. \E t \in 0..now : snap[d] = Candidate(op[d].limits, DeadlineOf(op[d], t))
      BY <2>1 DEF IInv, CreatesWhatWasAsked
    <3> QED
      BY <1>0, <2>1, <3>1
  <2>2. CASE /\ op'[d] = op[d] /\ now' = now
             /\ snap'[d] = Candidate(op[d].limits, DeadlineOf(op[d], now))
    <3>1. now \in 0..now'
      BY <1>0
    <3> QED
      BY <2>2, <3>1
  <2> QED
    BY <1>2, <2>1, <2>2, LabelStep
<1> QED
  BY <1>1, <1>2 DEF SnapshotsAreVersions, CreatesWhatWasAsked

(* How a client comes to have been told "ok": it was before, about the same *)
(* call, or the step that answers it leaves the effect on record.           *)
LEMMA OkStep ==
    ASSUME IInv, [Next]_vars, NEW d \in Clients, reply'[d] = "ok"
    PROVE  \/ reply[d] = "ok" /\ op'[d] = op[d]
           \/ op'[d] = op[d] /\ Recorded(op[d], group')
<1> DEFINE Told ==
      \/ reply[d] = "ok" /\ op'[d] = op[d]
      \/ op'[d] = op[d] /\ Recorded(op[d], group')
<1>0. TypeOK /\ LabelFitsCall /\ GroupIsGood /\ op[d] \in Requests /\ now \in Nat
  BY DEF IInv, TypeOK
<1>1. CASE UNCHANGED vars
  BY <1>1 DEF vars
<1>2. CASE Tick
  BY <1>2 DEF Tick, clientVars
<1>3. ASSUME NEW c \in Clients, NEW r \in Requests, Begin(c, r) PROVE Told
  BY <1>0, <1>3 DEF Begin, TypeOK
<1>4. ASSUME NEW c \in Clients, CheckContract(c), op[c].kind = "ensure",
             group # NoGroup
      PROVE  Told
  <2>1. CASE c = d /\ ContractMatches(c)
    BY <1>4, <2>1 DEF CheckContract, ContractMatches, Recorded
  <2>2. CASE ~(c = d /\ ContractMatches(c))
    BY <1>0, <1>4, <2>2 DEF CheckContract, Answer, TypeOK
  <2> QED
    BY <2>1, <2>2
<1>5. ASSUME NEW c \in Clients, EnsureLoad(c) PROVE Told
  <2>1. op[c].kind = "ensure"
    BY <1>0, <1>5 DEF EnsureLoad, LabelFitsCall
  <2> QED
    BY <1>4, <1>5, <2>1 DEF EnsureLoad
<1>6. ASSUME NEW c \in Clients, EnsureReload(c) PROVE Told
  <2>1. op[c].kind = "ensure"
    BY <1>0, <1>6 DEF EnsureReload, LabelFitsCall
  <2>2. CASE group = NoGroup
    BY <1>0, <1>6, <2>2 DEF EnsureReload, CheckContract, Answer, TypeOK
  <2> QED
    BY <1>4, <1>6, <2>1, <2>2 DEF EnsureReload, CheckContract
<1>7. ASSUME NEW c \in Clients, EnsureCreate(c) PROVE Told
  <2>1. op' = op
    BY <1>7 DEF EnsureCreate
  <2>2. CASE c = d /\ group = NoGroup
    <3>1. op[d].kind = "ensure" /\ group' = snap[d] /\ pc[d] = "create"
      BY <1>0, <1>7, <2>2 DEF EnsureCreate, LabelFitsCall
    <3>2. PICK t \in 0..now :
              snap[d] = Candidate(op[d].limits, DeadlineOf(op[d], t))
      BY <3>1 DEF IInv, CreatesWhatWasAsked
    <3>3. group' # NoGroup
      <4>1. t \in Nat
        BY <1>0
      <4> QED
        BY <1>0, <3>1, <3>2, <4>1, DeadlineIsTime, CandidateGood, BudgetAssumption
           DEF Good
    <3>4. group'.limits = op[d].limits /\ group'.deadline = DeadlineOf(op[d], t)
      BY <3>1, <3>2 DEF Candidate
    <3> QED
      BY <2>1, <3>1, <3>3, <3>4 DEF Recorded, DeadlineOf
  <2>3. CASE ~(c = d /\ group = NoGroup)
    BY <1>0, <1>7, <2>1, <2>3 DEF EnsureCreate, Answer, TypeOK
  <2> QED
    BY <2>2, <2>3
<1>8. ASSUME NEW c \in Clients, Poll(c) \/ Load(c) PROVE Told
  <2>1. op' = op /\ group' = group /\ op[c].kind # "ensure"
    BY <1>0, <1>8 DEF Poll, Load, LabelFitsCall
  <2>2. CASE c = d /\ Judgement(c) = "unchanged"
    <3>1. group # NoGroup /\ Verdict(op[d], group, now) = "unchanged"
      BY <2>2 DEF Judgement
    <3> QED
      BY <1>0, <2>1, <2>2, <3>1, UnchangedRecorded
  <2>3. CASE ~(c = d /\ Judgement(c) = "unchanged")
    <3>1. Judgement(c) # "ok"
      BY JudgementType DEF Reasons
    <3> QED
      BY <1>0, <1>8, <2>1, <2>3, <3>1 DEF Poll, Load, Answer, TypeOK
  <2> QED
    BY <2>2, <2>3
<1>9. ASSUME NEW c \in Clients, CasWins(c) PROVE Told
  <2>1. op' = op /\ pc[c] = "cas" /\ Swap(c)
    BY <1>9 DEF CasWins
  <2>2. CASE c = d
    <3>1. /\ group' = Updated(op[d], group) /\ group # NoGroup
          /\ \E t \in 0..now : Verdict(op[d], group, t) = "update"
      BY <2>1, <2>2, SwapApplies DEF Applied
    <3>2. PICK t \in 0..now : Verdict(op[d], group, t) = "update"
      BY <3>1
    <3>3. t \in Nat /\ Good(group)
      BY <1>0, <3>1 DEF GroupIsGood
    <3>4. Recorded(op[d], group')
      BY <1>0, <3>1, <3>2, <3>3, UpdatedRecorded
    <3> QED
      BY <2>1, <3>4
  <2>3. CASE c # d
    BY <1>0, <1>9, <2>1, <2>3 DEF CasWins, Answer, TypeOK
  <2> QED
    BY <2>2, <2>3
<1>10. ASSUME NEW c \in Clients, CasLoses(c) \/ CasLandsUnseen(c) \/ Abandon(c)
       PROVE  Told
  BY <1>0, <1>10 DEF CasLoses, CasLandsUnseen, Abandon, Answer, TypeOK
<1> QED
  BY <1>1, <1>2, <1>3, <1>5, <1>6, <1>7, <1>8, <1>9, <1>10 DEF Next, Proceed

(* Turns and tool calls that were granted stay counted. *)
LEMMA GrantStep ==
    ASSUME IInv, [Next]_vars
    PROVE  /\ group' = NoGroup => granted'.turns = 0 /\ granted'.tools = 0
           /\ group' # NoGroup => granted'.turns <= group'.turns
                                  /\ granted'.tools <= group'.tools
<1>0. /\ TypeOK /\ granted.turns \in Nat /\ granted.tools \in Nat
      /\ group = NoGroup => granted.turns = 0 /\ granted.tools = 0
      /\ group # NoGroup => granted.turns <= group.turns
                            /\ granted.tools <= group.tools
  BY DEF IInv, TypeOK, AnswersAreRecorded
<1>1. /\ group # NoGroup => group' # NoGroup /\ Settles(group, group')
      /\ group' \in GroupState \cup {NoGroup}
      /\ group \in GroupState \cup {NoGroup}
  BY StoreStaysGood DEF IInv, TypeOK
<1>2. CASE granted' = granted
  <2>1. CASE group = NoGroup
    <3>1. group' # NoGroup => group'.turns \in Nat /\ group'.tools \in Nat
      BY <1>1 DEF GroupState
    <3> QED
      BY <1>0, <1>2, <2>1, <3>1
  <2>2. CASE group # NoGroup
    <3>1. group'.turns >= group.turns /\ group'.tools >= group.tools
      BY <1>1, <2>2 DEF Settles
    <3>2. /\ group'.turns \in Nat /\ group'.tools \in Nat
          /\ group.turns \in Nat /\ group.tools \in Nat
      BY <1>1, <2>2 DEF GroupState
    <3> QED
      BY <1>0, <1>1, <1>2, <2>2, <3>1, <3>2
  <2> QED
    BY <2>1, <2>2
<1>3. ASSUME NEW c \in Clients, CasWins(c)
      PROVE  /\ group' = NoGroup => granted'.turns = 0 /\ granted'.tools = 0
             /\ group' # NoGroup => granted'.turns <= group'.turns
                                    /\ granted'.tools <= group'.tools
  <2>1. /\ group' = Updated(op[c], group) /\ group # NoGroup
        /\ \E t \in 0..now : Verdict(op[c], group, t) = "update"
    BY <1>3, SwapApplies DEF Applied, CasWins
  <2>2. group \in GroupState /\ op[c].amount \in Nat
    BY <1>0, <2>1, BudgetAssumption DEF TypeOK, Operation
  <2>3. group.turns \in Nat /\ group.tools \in Nat
    BY <2>2 DEF GroupState
  <2>4. CASE op[c].kind = "turn"
    <3>1. group'.turns = group.turns + op[c].amount /\ group'.tools = group.tools
      BY <2>1, <2>2, <2>4 DEF Updated, TurnTaken, GroupState
    <3>2. granted'.turns = granted.turns + op[c].amount
          /\ granted'.tools = granted.tools
      BY <1>0, <1>3, <2>4 DEF CasWins
    <3> QED
      BY <1>0, <1>1, <2>1, <2>2, <2>3, <3>1, <3>2
  <2>5. CASE op[c].kind = "tool"
    <3>1. group'.tools = group.tools + op[c].amount /\ group'.turns = group.turns
      BY <2>1, <2>2, <2>5 DEF Updated, ToolTaken, GroupState
    <3>2. granted'.tools = granted.tools + op[c].amount
          /\ granted'.turns = granted.turns
      BY <1>0, <1>3, <2>5 DEF CasWins
    <3> QED
      BY <1>0, <1>1, <2>1, <2>2, <2>3, <3>1, <3>2
  <2>6. CASE op[c].kind \notin {"turn", "tool"}
    <3>1. granted'.turns = granted.turns /\ granted'.tools = granted.tools
      BY <1>0, <1>3, <2>6 DEF CasWins
    <3>2. group'.turns >= group.turns /\ group'.tools >= group.tools
          /\ group' # NoGroup
      BY <1>1, <2>1 DEF Settles
    <3>3. group'.turns \in Nat /\ group'.tools \in Nat
      BY <1>1, <3>2 DEF GroupState
    <3> QED
      BY <1>0, <2>1, <2>3, <3>1, <3>2, <3>3
  <2> QED
    BY <2>4, <2>5, <2>6
<1> QED
  BY <1>2, <1>3
     DEF Next, Proceed, Begin, EnsureLoad, EnsureCreate, EnsureReload,
         CheckContract, Poll, Load, CasLoses, CasLandsUnseen, Abandon, Tick, vars

(* The inductive invariant. *)
LEMMA InvInit == Init => IInv
<1> SUFFICES ASSUME Init PROVE IInv
  OBVIOUS
<1>1. (CHOOSE r \in Requests : TRUE) \in Requests
  BY BudgetAssumption
<1>2. TypeOK
  BY <1>1 DEF Init, TypeOK, Labels
<1> QED
  BY <1>2 DEF Init, IInv, GroupIsGood, LabelFitsCall, SnapshotsAreVersions,
              CreatesWhatWasAsked, AnswersAreRecorded, OneContract

LEMMA InvStep == IInv /\ [Next]_vars => IInv'
<1> SUFFICES ASSUME IInv, [Next]_vars PROVE IInv'
  OBVIOUS
<1>1. TypeOK' /\ GroupIsGood' /\ SnapshotsAreVersions' /\ CreatesWhatWasAsked'
  BY TypeStep, StoreStaysGood, SnapshotStep
<1>2. LabelFitsCall'
  <2>1. CASE Clients = {}
    BY <2>1 DEF LabelFitsCall
  <2>2. CASE Clients # {}
    BY <2>2, LabelStep
  <2> QED
    BY <2>1, <2>2
<1>3. ASSUME NEW d \in Clients, reply'[d] = "ok"
      PROVE  Recorded(op'[d], group')
  <2>1. CASE reply[d] = "ok" /\ op'[d] = op[d]
    <3>1. Recorded(op[d], group) /\ op[d] \in Requests
      BY <2>1 DEF IInv, AnswersAreRecorded, OneContract, ContractMatches,
                  Recorded, TypeOK
    <3>2. group' # NoGroup /\ Settles(group, group')
      BY <3>1, StoreStaysGood DEF Recorded
    <3> QED
      BY <2>1, <3>1, <3>2, RecordedKept
  <2>2. CASE op'[d] = op[d] /\ Recorded(op[d], group')
    BY <2>2
  <2> QED
    BY <1>3, <2>1, <2>2, OkStep
<1>4. AnswersAreRecorded'
  BY <1>3, GrantStep DEF AnswersAreRecorded, Recorded, HasRecord
<1>5. OneContract'
  BY <1>3 DEF OneContract, ContractMatches, Recorded
<1> QED
  BY <1>1, <1>2, <1>4, <1>5 DEF IInv

(* The ledger's inductive invariant holds for every set of clients, leases, *)
(* agents, limits and calls.                                                *)
THEOREM LedgerInvariant == Spec => []IInv
<1> QED
  BY InvInit, InvStep, PTL DEF Spec

(* Type correctness of StoreBackedBudgetLedger's state and of its clients. *)
LEMMA LedgerTypes == Spec => []TypeOK
<1>1. IInv => TypeOK
  BY DEF IInv
<1> QED
  BY <1>1, LedgerInvariant, PTL

(* However many coroutines and processes race on the compare-and-swap       *)
(* store, no limit of the execution group is ever exceeded.                 *)
LEMMA LedgerLimits == Spec => []LimitsRespected
<1>1. IInv => LimitsRespected
  BY DEF IInv, GroupIsGood, Good, LimitsRespected
<1> QED
  BY <1>1, LedgerInvariant, PTL

(* The persisted counters always equal what the lease table holds, which is *)
(* what ExecutionGroupBudgetState.__post_init__ rejects a state for.        *)
LEMMA LedgerCounters == Spec => []CountersMatchLeases
<1>1. IInv => CountersMatchLeases
  BY DEF IInv, GroupIsGood, Good, CountersMatchLeases
<1> QED
  BY <1>1, LedgerInvariant, PTL

(* After cancel_group no lease of the group is active, ever. *)
LEMMA LedgerCancellation == Spec => []CancelledHasNoActiveLease
<1>1. IInv => CancelledHasNoActiveLease
  BY DEF IInv, GroupIsGood, Good, CancelledHasNoActiveLease
<1> QED
  BY <1>1, LedgerInvariant, PTL

(* No interleaving of ledger calls takes the stored record out of its type, *)
(* beyond a limit, out of step with its leases, or leaves a lease active in *)
(* a cancelled group.                                                       *)
THEOREM LedgerIsConsistent == Spec => []LedgerConsistent
<1>1. TypeOK /\ LimitsRespected /\ CountersMatchLeases /\ CancelledHasNoActiveLease
        => LedgerConsistent
  BY DEF LedgerConsistent
<1> QED
  BY <1>1, LedgerTypes, LedgerLimits, LedgerCounters, LedgerCancellation, PTL

(* Whatever a caller was told has happened is on record from then on: no    *)
(* update is lost.                                                          *)
THEOREM LedgerAnswers == Spec => []AnswersAreRecorded
<1>1. IInv => AnswersAreRecorded
  BY DEF IInv
<1> QED
  BY <1>1, LedgerInvariant, PTL

(* Racing ensure_group calls agree on one contract. *)
THEOREM LedgerContract == Spec => []OneContract
<1>1. IInv => OneContract
  BY DEF IInv
<1> QED
  BY <1>1, LedgerInvariant, PTL

(* A settled lease stays settled and the contract never changes. *)
THEOREM LedgerSettlement == Spec => LeasesSettleOnce
<1>1. IInv /\ [Next]_vars =>
          [group # NoGroup => group' # NoGroup /\ Settles(group, group')]_vars
  BY StoreStaysGood
<1> QED
  BY <1>1, LedgerInvariant, PTL DEF Spec, LeasesSettleOnce

(* The instance of AtomicBudget means the same operations. *)
LEMMA SameOperators ==
    \A r, s, t : /\ Atomic!Verdict(r, s, t) = Verdict(r, s, t)
                 /\ Atomic!Updated(r, s) = Updated(r, s)
<1> SUFFICES ASSUME NEW r, NEW s, NEW t
             PROVE  /\ Atomic!Verdict(r, s, t) = Verdict(r, s, t)
                    /\ Atomic!Updated(r, s) = Updated(r, s)
  OBVIOUS
<1>0. \A S : Atomic!Cardinality(S) = Cardinality(S)
  BY Zenon DEF Atomic!Cardinality, Cardinality
<1>1. /\ Atomic!ReserveVerdict(r, s, t) = ReserveVerdict(r, s, t)
      /\ Atomic!TurnVerdict(r, s, t) = TurnVerdict(r, s, t)
      /\ Atomic!ToolVerdict(r, s, t) = ToolVerdict(r, s, t)
      /\ Atomic!CompleteVerdict(r, s) = CompleteVerdict(r, s)
      /\ Atomic!ReleaseVerdict(r, s) = ReleaseVerdict(r, s)
  BY <1>0 DEF Atomic!ReserveVerdict, ReserveVerdict, Atomic!TurnVerdict, TurnVerdict,
         Atomic!ToolVerdict, ToolVerdict, Atomic!CompleteVerdict, CompleteVerdict,
         Atomic!ReleaseVerdict, ReleaseVerdict, Atomic!Live, Live,
         Atomic!NotLiveReason, NotLiveReason, Atomic!HasRecord, HasRecord,
         Atomic!Active, Active, Atomic!Terminal, Terminal
<1>2. /\ Atomic!Reserved(r, s) = Reserved(r, s)
      /\ Atomic!TurnTaken(r, s) = TurnTaken(r, s)
      /\ Atomic!ToolTaken(r, s) = ToolTaken(r, s)
      /\ Atomic!Completed(r, s) = Completed(r, s)
      /\ Atomic!Released(r, s) = Released(r, s)
      /\ Atomic!Cancelled(s) = Cancelled(s)
  BY Zenon DEF Atomic!Reserved, Reserved, Atomic!TurnTaken, TurnTaken,
         Atomic!ToolTaken, ToolTaken, Atomic!Completed, Completed,
         Atomic!Released, Released, Atomic!Cancelled, Cancelled
<1>3. Atomic!Verdict(r, s, t) = Verdict(r, s, t)
  BY <1>1, Zenon DEF Atomic!Verdict, Verdict
<1>4. Atomic!Updated(r, s) = Updated(r, s)
  BY <1>2, Zenon DEF Atomic!Updated, Updated
<1> QED
  BY <1>3, <1>4

(* StoreBackedBudgetLedger implements the atomic ledger. *)
THEOREM LedgerIsAtomic == Spec => AtomicSpec
<1>1. Init => Atomic!Init
  BY DEF Init, Atomic!Init
<1>2. IInv /\ [Next]_vars => [Atomic!Next]_<<group, now>>
  <2> SUFFICES ASSUME IInv, [Next]_vars PROVE [Atomic!Next]_<<group, now>>
    OBVIOUS
  <2>1. CASE group' = group /\ now' \in {now, now + 1}
    BY <2>1 DEF Atomic!Next, Atomic!Tick
  <2>2. CASE now' = now /\ Created(group, group')
    BY <2>2 DEF Created, Atomic!Next, Atomic!Create, Candidate, Atomic!Candidate,
                DeadlineOf, Atomic!DeadlineOf
  <2>3. CASE now' = now /\ Applied(group, group')
    <3>1. ASSUME NEW r, NEW t
          PROVE  Atomic!Verdict(r, group, t) = Verdict(r, group, t)
      BY SameOperators
    <3>2. ASSUME NEW r
          PROVE  Atomic!Updated(r, group) = Updated(r, group)
      BY SameOperators
    <3> QED
      BY <2>3, <3>1, <3>2 DEF Applied, Atomic!Next, Atomic!Apply
  <2> QED
    BY <2>1, <2>2, <2>3, StoreStep
<1> QED
  BY <1>1, <1>2, LedgerInvariant, PTL DEF Spec, AtomicSpec, Atomic!Spec, Atomic!vars
=============================================================================
