---------------------------- MODULE AtomicBudget -----------------------------
(***************************************************************************)
(* What the budget ledger promises: the group is created once, and from    *)
(* then on every change is one ledger operation applied, whole, to the     *)
(* current state.  There are no clients, snapshots or retries here.        *)
(*                                                                         *)
(* The only trace of concurrency that the promise keeps is time: an        *)
(* operation's deadline check used a clock reading that may be older than  *)
(* the moment its effect lands.                                            *)
(***************************************************************************)
EXTENDS BudgetState

VARIABLES
    group,   \* NoGroup, or the group's state
    now      \* the clock

vars == <<group, now>>

Init == group = NoGroup /\ now = 0

Create ==
    /\ group = NoGroup
    /\ \E r \in Requests, t \in 0..now :
          /\ r.kind = "ensure"
          /\ group' = Candidate(r.limits, DeadlineOf(r, t))
    /\ UNCHANGED now

Apply(r) ==
    /\ group # NoGroup
    /\ \E t \in 0..now : Verdict(r, group, t) = "update"
    /\ group' = Updated(r, group)
    /\ UNCHANGED now

Tick == now' = now + 1 /\ UNCHANGED group

Next == Create \/ (\E r \in Requests : Apply(r)) \/ Tick

Spec == Init /\ [][Next]_vars
=============================================================================
