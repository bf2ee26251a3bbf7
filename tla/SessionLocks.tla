----------------------------- MODULE SessionLocks -----------------------------
(***************************************************************************)
(* AgentRuntime._events (runtime/runtime.py): runs of one session are      *)
(* serialized by a lock that is created when the first of them arrives,    *)
(* counted, and removed when the last one leaves.  Everything between two  *)
(* awaits is one action.                                                   *)
(***************************************************************************)
EXTENDS Integers, Sequences, FiniteSets, SequencesExt

CONSTANTS
    Runs,       \* calls of execute() and stream()
    Sessions,
    Locks,      \* asyncio.Lock objects
    NoLock,
    SessionOf   \* the session each run belongs to

ASSUME LockAssumption ==
    /\ IsFiniteSet(Runs)
    /\ SessionOf \in [Runs -> Sessions]
    /\ NoLock \notin Locks

VARIABLES
    phase,     \* new, waiting, running, ended
    mine,      \* the lock object a run found in the table
    table,     \* _session_locks
    users,     \* _session_lock_users; 0 stands for a missing key
    waiters,   \* the waiters of each lock
    taken      \* whether each lock is locked

lockVars == <<phase, mine, table, users, waiters, taken>>

LockInit ==
    /\ phase = [r \in Runs |-> "new"]
    /\ mine = [r \in Runs |-> NoLock]
    /\ table = [s \in Sessions |-> NoLock]
    /\ users = [s \in Sessions |-> 0]
    /\ waiters = [l \in Locks |-> <<>>]
    /\ taken = [l \in Locks |-> FALSE]

Fresh == Locks \ (Range(mine) \cup Range(table))

(* asyncio.Lock.acquire: at once if the lock is free and nobody waits. *)
Take(r, l) ==
    IF ~taken[l] /\ waiters[l] = <<>>
    THEN /\ taken' = [taken EXCEPT ![l] = TRUE]
         /\ phase' = [phase EXCEPT ![r] = "running"]
         /\ UNCHANGED waiters
    ELSE /\ waiters' = [waiters EXCEPT ![l] = Append(@, r)]
         /\ phase' = [phase EXCEPT ![r] = "waiting"]
         /\ UNCHANGED taken

(* setdefault, the count, and the attempt to lock. *)
Arrive(r) ==
    /\ phase[r] = "new"
    /\ LET s == SessionOf[r] IN
       \E l \in IF table[s] = NoLock THEN Fresh ELSE {table[s]} :
          /\ table' = [table EXCEPT ![s] = l]
          /\ mine' = [mine EXCEPT ![r] = l]
          /\ users' = [users EXCEPT ![s] = @ + 1]
          /\ Take(r, l)

Acquire(r) ==
    /\ phase[r] = "waiting"
    /\ LET l == mine[r] IN
       /\ ~taken[l] /\ Head(waiters[l]) = r
       /\ taken' = [taken EXCEPT ![l] = TRUE]
       /\ waiters' = [waiters EXCEPT ![l] = Tail(@)]
    /\ phase' = [phase EXCEPT ![r] = "running"]
    /\ UNCHANGED <<mine, table, users>>

(* Mutant: whoever leaves removes the lock. *)
ForgetAlways(r) ==
    LET s == SessionOf[r] IN
    /\ users' = [users EXCEPT ![s] = @ - 1]
    /\ table' = [table EXCEPT ![s] = IF @ = mine[r] THEN NoLock ELSE @]

(* The outer finally: the last user removes the entry, if it is its own. *)
Forget(r) ==
    LET s == SessionOf[r] IN
    /\ users' = [users EXCEPT ![s] = @ - 1]
    /\ table' = [table EXCEPT ![s] = IF users[s] = 1 /\ @ = mine[r] THEN NoLock ELSE @]

(* The run ends, fails or its stream is closed. *)
LeaveSession(r) ==
    /\ phase[r] = "running"
    /\ taken' = [taken EXCEPT ![mine[r]] = FALSE]
    /\ phase' = [phase EXCEPT ![r] = "ended"]
    /\ mine' = [mine EXCEPT ![r] = NoLock]
    /\ Forget(r)
    /\ UNCHANGED waiters

(* A waiting run is cancelled, and leaves the waiters of its lock. *)
GiveUp(r) ==
    /\ phase[r] = "waiting"
    /\ \E k \in 1..Len(waiters[mine[r]]) :
          /\ waiters[mine[r]][k] = r
          /\ waiters' = [waiters EXCEPT ![mine[r]] = RemoveAt(@, k)]
    /\ phase' = [phase EXCEPT ![r] = "ended"]
    /\ mine' = [mine EXCEPT ![r] = NoLock]
    /\ Forget(r)
    /\ UNCHANGED taken

LockNext == \E r \in Runs : Arrive(r) \/ Acquire(r) \/ LeaveSession(r) \/ GiveUp(r)

LockSpec == LockInit /\ [][LockNext]_lockVars

(* The loop resumes the first waiter, and runs end by their deadline. *)
LockFairness == \A r \in Runs : WF_lockVars(Acquire(r)) /\ WF_lockVars(LeaveSession(r))

LockFairSpec == LockSpec /\ LockFairness

-----------------------------------------------------------------------------
Present(s) == {r \in Runs : SessionOf[r] = s /\ phase[r] \in {"waiting", "running"}}

LockTypeOK ==
    /\ phase \in [Runs -> {"new", "waiting", "running", "ended"}]
    /\ mine \in [Runs -> Locks \cup {NoLock}]
    /\ table \in [Sessions -> Locks \cup {NoLock}]
    /\ users \in [Sessions -> 0..Cardinality(Runs)]
    /\ waiters \in [Locks -> Seq(Runs)] /\ taken \in [Locks -> BOOLEAN]

(* One run of a session at a time, though the lock object is replaced      *)
(* whenever the session falls idle.                                        *)
OneRunPerSession ==
    \A q, r \in Runs : q # r /\ SessionOf[q] = SessionOf[r] =>
        ~(phase[q] = "running" /\ phase[r] = "running")

(* The table holds the lock that the runs present use, and nothing for an  *)
(* idle session: it does not grow with the sessions that were served.      *)
TableIsExact ==
    \A s \in Sessions :
        /\ users[s] = Cardinality(Present(s))
        /\ Present(s) = {} <=> table[s] = NoLock
        /\ \A r \in Present(s) : mine[r] = table[s]

SessionsSerialized == LockTypeOK /\ OneRunPerSession /\ TableIsExact

(* A waiting run gets its turn unless it gives up. *)
RunsWaiting == {r \in Runs : phase[r] = "waiting"}
EveryRunGetsTurn == \A r \in Runs : (r \in RunsWaiting) ~> (r \notin RunsWaiting)
=============================================================================
