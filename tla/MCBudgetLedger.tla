--------------------------- MODULE MCBudgetLedger ----------------------------
(* Instances of BudgetLedger for TLC. *)
EXTENDS BudgetLedger

CONSTANTS a1, a2, l1, l2, c1, c2

MCAgents == {a1, a2}
MCLeases == {l1, l2}
MCClients == {c1, c2}

(* One parallel slot, one delegation per agent, one turn, and tool calls    *)
(* that come two at a time: two racing calls reach every limit.             *)
Tight ==
    [max_delegations |-> 2, max_parallel |-> 1, max_per_agent |-> 1,
     max_turns |-> 1, max_tools |-> 3, timeout |-> 2]

(* One delegation in all, so the count limit binds before the slots do. *)
Single == [Tight EXCEPT !.max_delegations = 1, !.max_parallel = 2]

MCLimits == {Tight, Single}

Ask(kind, lease, callee, amount, limits, deadline) ==
    [kind |-> kind, lease |-> lease, callee |-> callee, amount |-> amount,
     limits |-> limits, deadline |-> deadline]

Creating ==
    {Ask("ensure", l1, a1, 0, Single, NoDeadline),
     Ask("ensure", l1, a1, 0, Tight, 1)}

Reserving ==
    {Ask("reserve", l1, a1, 0, Tight, NoDeadline),
     Ask("reserve", l2, a1, 0, Tight, NoDeadline),
     Ask("reserve", l2, a2, 0, Tight, NoDeadline)}

Counting ==
    {Ask("turn", l1, a1, 1, Tight, NoDeadline),
     Ask("tool", l1, a1, 2, Tight, NoDeadline)}

Settling ==
    {Ask("complete", l1, a1, 3, Tight, NoDeadline),
     Ask("release", l1, a1, 0, Tight, NoDeadline),
     Ask("cancel", l1, a1, 0, Tight, NoDeadline)}

MCRequests == Creating \cup Reserving \cup Counting \cup Settling
=============================================================================
