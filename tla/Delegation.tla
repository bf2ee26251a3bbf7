----------------------------- MODULE Delegation ------------------------------
(***************************************************************************)
(* DefaultDelegationCoordinator.delegate for one delegation id: the       *)
(* durable receipt, one budget lease per attempt, the child run and its    *)
(* checkpoint, and the processes that call delegate for it.  A process     *)
(* holds a lock per delegation id, so it is inside one call at a time;     *)
(* other processes (a parent resumed elsewhere) run at any point.  The     *)
(* cleanup of a failed call runs after the lock is freed: to a later call  *)
(* of the same process it is like a call of another process.               *)
(*                                                                         *)
(* Receipt transitions and ledger operations are single steps: both are    *)
(* compare-and-swap loops, and BudgetLedger shows such a loop to be one.   *)
(* Everything else the code awaits lies between two actions.               *)
(***************************************************************************)
EXTENDS Integers, FiniteSets

CONSTANTS
    Procs,         \* processes, each with its own coordinator
    AllowResume,   \* DelegationCall.allow_resume
    CancelTwice,   \* a call is cancelled again while it waits for its child to stop
    Results,       \* outputs (by digest) that a child run may produce
    NoResult,      \* no output
    MaxAttempts,   \* bound: attempts of the delegation
    MaxCalls       \* bound: calls of delegate

ASSUME DelegationAssumption ==
    /\ AllowResume \in BOOLEAN /\ CancelTwice \in BOOLEAN
    /\ MaxAttempts \in Nat \ {0}
    /\ MaxCalls \in Nat
    /\ NoResult \notin Results

Attempts == 1..MaxAttempts

VARIABLES
    receipt,     \* the durable receipt
    lease,       \* attempt -> durable status of its lease (lease_id(attempt))
    cancelled,   \* the execution group was cancelled
    ckpt,        \* the child's last terminal checkpoint
    late,        \* the absolute deadline has passed
    pc,          \* where each process is in its call of delegate
    seen,        \* the receipt its call works from
    owns,        \* owns_lease
    settled,     \* the call's lease is in _settled_lease_ids
    out,         \* the DelegationOutcome being finished
    child,       \* the child task of the call: attempt and state
    zombies,     \* attempts whose task outlived its cancellation
    retained,    \* _retained_lease_ids: attempts whose lease waits for the task
    ans,         \* how the last call ended
    begunLate,   \* the call began after the deadline
    calls,       \* calls started so far; also the source of owner tokens
    runs,        \* history: attempt -> times a child was started
    got          \* history: results returned to callers

durable == <<receipt, lease, cancelled, ckpt>>
call == <<seen, owns, settled, out, begunLate>>
tasks == <<child, zombies, retained>>
history == <<calls, runs, got>>
vars == <<durable, late, pc, call, tasks, ans, history>>

ReceiptStatuses ==
    {"absent", "reserved", "running", "completed", "failed", "cancelled", "manual"}
Open == {"reserved", "running"}
Closed == {"completed", "failed", "cancelled", "manual"}
LeaseStatuses == {"none", "active", "completed", "released", "cancelled"}

Reasons ==
    {"none", "completed", "error", "timeout", "output_validation", "cancelled",
     "cancellation_unconfirmed"}

NoReceipt ==
    [status |-> "absent", attempt |-> 0, owner |-> 0, resumable |-> FALSE,
     reason |-> "none", result |-> NoResult]

(* A DelegationOutcome; reason is its finish_reason. *)
Outcome(status, reason, resumable, result) ==
    [status |-> status, reason |-> reason, resumable |-> resumable, result |-> result]

NoOutcome == Outcome("none", "none", FALSE, NoResult)
Failed(reason) == Outcome("failed", reason, FALSE, NoResult)
Stopped == Outcome("cancelled", "cancelled", FALSE, NoResult)
Unconfirmed == Outcome("manual", "cancellation_unconfirmed", FALSE, NoResult)

NoCheckpoint == [attempt |-> 0, outcome |-> NoOutcome]
NoChild == [attempt |-> 0, state |-> "none"]

Init ==
    /\ receipt = NoReceipt
    /\ lease = [a \in Attempts |-> "none"]
    /\ cancelled = FALSE
    /\ ckpt = NoCheckpoint
    /\ late = FALSE
    /\ pc = [p \in Procs |-> "idle"]
    /\ seen = [p \in Procs |-> NoReceipt]
    /\ owns = [p \in Procs |-> FALSE]
    /\ settled = [p \in Procs |-> FALSE]
    /\ out = [p \in Procs |-> NoOutcome]
    /\ child = [p \in Procs |-> NoChild]
    /\ zombies = [p \in Procs |-> {}]
    /\ retained = [p \in Procs |-> {}]
    /\ ans = [p \in Procs |-> "none"]
    /\ begunLate = [p \in Procs |-> FALSE]
    /\ calls = 0
    /\ runs = [a \in Attempts |-> 0]
    /\ got = {}

-----------------------------------------------------------------------------
(* Moving through a call. *)
GoTo(p, label) == pc' = [pc EXCEPT ![p] = label] /\ UNCHANGED ans

Attempt(p) == seen[p].attempt

(* The finally clause of delegate forgets the call's settled lease. *)
EndCall(p, answer) ==
    /\ pc' = [pc EXCEPT ![p] = "idle"]
    /\ ans' = [ans EXCEPT ![p] = answer]
    /\ seen' = [seen EXCEPT ![p] = NoReceipt]
    /\ owns' = [owns EXCEPT ![p] = FALSE]
    /\ settled' = [settled EXCEPT ![p] = FALSE]
    /\ out' = [out EXCEPT ![p] = NoOutcome]
    /\ UNCHANGED begunLate

(* An exception leaves the try block: the owner releases its lease first. *)
Raise(p, answer) ==
    IF owns[p]
    THEN /\ pc' = [pc EXCEPT ![p] = "release"]
         /\ ans' = [ans EXCEPT ![p] = answer]
         /\ UNCHANGED call
    ELSE EndCall(p, answer)

(* complete_lease and reconcile_completed_lease, as the ledger answers. *)
CanComplete(a) == lease[a] \in {"active", "completed"}
LeaseCompleted(a) == lease' = [lease EXCEPT ![a] = "completed"]
ReleaseLease(a) ==
    lease' = [lease EXCEPT ![a] = IF @ = "active" THEN "released" ELSE @]

-----------------------------------------------------------------------------
(* delegate, up to the answer of receipt_store.claim.  The checks that      *)
(* precede it (registry, authorizer, cycle guard, ensure_group) depend only *)
(* on the call and read none of the state kept here.                        *)
Claim(p) ==
    /\ pc[p] = "idle"
    /\ calls < MaxCalls
    /\ calls' = calls + 1
    /\ begunLate' = [begunLate EXCEPT ![p] = late]
    /\ IF receipt.status = "absent"
       THEN /\ receipt' = [NoReceipt EXCEPT !.status = "reserved",
                                            !.attempt = 1, !.owner = calls + 1]
            /\ seen' = [seen EXCEPT ![p] = receipt']
            /\ pc' = [pc EXCEPT ![p] = "reserve"]
       ELSE /\ seen' = [seen EXCEPT ![p] = receipt]
            /\ pc' = [pc EXCEPT ![p] = "inspect"]
            /\ UNCHANGED receipt
    /\ ans' = [ans EXCEPT ![p] = "none"]
    /\ UNCHANGED <<lease, cancelled, ckpt, late, owns, settled, out, tasks, runs, got>>

(* Mutant: a reserved receipt is taken for one's own. *)
DispatchStartsReserved(p) ==
    CASE seen[p].status = "completed" -> GoTo(p, "replay") /\ UNCHANGED call
      [] seen[p].status = "reserved" -> GoTo(p, "reserve") /\ UNCHANGED call
      [] seen[p].status = "running" -> GoTo(p, "reconcile") /\ UNCHANGED call
      [] OTHER -> EndCall(p, "failed")

(* receipt_action, for a receipt that existed. *)
Dispatch(p) ==
    CASE seen[p].status = "completed" -> GoTo(p, "replay") /\ UNCHANGED call
      [] seen[p].status \in Open -> GoTo(p, "reconcile") /\ UNCHANGED call
      [] seen[p].status = "failed" /\ seen[p].resumable /\ AllowResume ->
            GoTo(p, "resume") /\ UNCHANGED call
      [] seen[p].status = "failed" /\ ~(seen[p].resumable /\ AllowResume) ->
            EndCall(p, "failed")
      [] seen[p].status = "cancelled" -> EndCall(p, "cancelled")
      [] seen[p].status = "manual" -> EndCall(p, "manual")

(* The lease states that agree with each receipt state. *)
AllowedLease(status) ==
    CASE status \in Open -> {"active"}
      [] status = "completed" -> {"completed"}
      [] status = "failed" -> {"completed", "released"}
      [] status = "cancelled" -> {"completed", "released", "cancelled"}
      [] status = "manual" -> {"active", "completed", "released", "cancelled"}

(* Mutant: a reservation without a lease is in progress for ever. *)
InvalidLeaseWaits(p) ==
    CASE seen[p].status = "reserved" -> EndCall(p, "in_progress")
      [] seen[p].status = "running" -> GoTo(p, "markManual") /\ UNCHANGED call
      [] seen[p].status \notin Open -> EndCall(p, "manual")

(* _handle_missing_or_invalid_lease *)
InvalidLease(p) ==
    CASE seen[p].status = "reserved" /\ ~late -> EndCall(p, "in_progress")
      [] seen[p].status = "running" \/ (seen[p].status = "reserved" /\ late) ->
            GoTo(p, "markManual") /\ UNCHANGED call
      [] seen[p].status \notin Open -> EndCall(p, "manual")

(* Mutant: every active lease is settled, that of an open receipt too. *)
InspectSettlesOpen(p) ==
    /\ pc[p] = "inspect"
    /\ LET status == lease[Attempt(p)] IN
       CASE status = "active" -> GoTo(p, "closeLease") /\ UNCHANGED call
         [] status # "active" /\ status \in AllowedLease(seen[p].status) -> Dispatch(p)
         [] OTHER -> InvalidLease(p)
    /\ UNCHANGED <<durable, late, tasks, history>>

(* _validate_existing_receipt_lease *)
Inspect(p) ==
    /\ pc[p] = "inspect"
    /\ LET status == lease[Attempt(p)] IN
       CASE status = "active" /\ seen[p].status \in {"completed", "failed", "cancelled"} ->
              GoTo(p, "closeLease") /\ UNCHANGED call
         [] status \in AllowedLease(seen[p].status) -> Dispatch(p)
         [] OTHER -> InvalidLease(p)
    /\ UNCHANGED <<durable, late, tasks, history>>

(* reconcile_completed_lease of the validation: the crash window between    *)
(* the terminal receipt and its settlement is closed without usage.         *)
CloseLease(p) ==
    /\ pc[p] = "closeLease"
    /\ IF CanComplete(Attempt(p))
       THEN LeaseCompleted(Attempt(p)) /\ Dispatch(p)
       ELSE EndCall(p, "error") /\ UNCHANGED lease
    /\ UNCHANGED <<receipt, cancelled, ckpt, late, tasks, history>>

(* Mutant: the receipt is marked without a look at its status. *)
MarkedManualAlways(r) == [r EXCEPT !.status = "manual", !.resumable = FALSE]

(* mark_manual_required: any open receipt, whatever its attempt or owner. *)
MarkedManual(r) ==
    IF r.status \in Open
    THEN [r EXCEPT !.status = "manual", !.resumable = FALSE] ELSE r

MarkManual(p) ==
    /\ pc[p] = "markManual"
    /\ receipt' = MarkedManual(receipt)
    /\ EndCall(p, IF receipt'.status = "manual" THEN "manual" ELSE "in_progress")
    /\ UNCHANGED <<lease, cancelled, ckpt, late, tasks, history>>

(* _claim_resume_attempt: only the failure that was seen is resumed. *)
CanResume(p) ==
    /\ receipt.status = "failed" /\ receipt.resumable
    /\ receipt.attempt = Attempt(p)

ResumedReceipt ==
    [receipt EXCEPT !.status = "reserved", !.attempt = @ + 1, !.owner = calls,
                    !.resumable = FALSE, !.reason = "none"]

ClaimResume(p) ==
    /\ pc[p] = "resume"
    /\ IF CanResume(p)
       THEN /\ Attempt(p) < MaxAttempts
            /\ receipt' = ResumedReceipt
            /\ seen' = [seen EXCEPT ![p] = receipt']
            /\ GoTo(p, "reserve")
            /\ UNCHANGED <<owns, settled, out, begunLate>>
       ELSE EndCall(p, "in_progress") /\ UNCHANGED receipt
    /\ UNCHANGED <<lease, cancelled, ckpt, late, tasks, history>>

(* reserve_delegation for the attempt's own lease id.  The group may refuse *)
(* it (cancelled, late, a limit), and a reservation may land although the   *)
(* caller sees an exception.                                                *)
CanReserve(p) == ~cancelled /\ ~late /\ lease[Attempt(p)] \in {"none", "active"}

Reserve(p) ==
    /\ pc[p] = "reserve"
    /\ \/ /\ CanReserve(p)
          /\ lease' = [lease EXCEPT ![Attempt(p)] = "active"]
          /\ \/ /\ owns' = [owns EXCEPT ![p] = TRUE]
                /\ GoTo(p, "start")
             \/ GoTo(p, "uncertain") /\ UNCHANGED owns
       \/ /\ GoTo(p, "uncertain")
          /\ UNCHANGED <<lease, owns>>
    /\ UNCHANGED <<receipt, cancelled, ckpt, late, seen, settled, out, begunLate,
                   tasks, history>>

(* _mark_reservation_uncertain *)
Uncertain(p) ==
    /\ pc[p] = "uncertain"
    /\ receipt' = MarkedManual(receipt)
    /\ EndCall(p, "refused")
    /\ UNCHANGED <<lease, cancelled, ckpt, late, tasks, history>>

(* The transition to RUNNING, made by the owner and, for a child that has   *)
(* already finished, by a reconciler under the owner's token.  It succeeds  *)
(* too when the receipt is RUNNING with the very same fields.               *)
CanRun(p) ==
    \/ receipt.status = "reserved"
    \/ /\ receipt.status = "running"
       /\ receipt.attempt = Attempt(p) /\ receipt.owner = seen[p].owner

RunningReceipt(p) ==
    [receipt EXCEPT !.status = "running", !.attempt = Attempt(p),
                    !.owner = seen[p].owner, !.resumable = FALSE]

Start(p) ==
    /\ pc[p] = "start"
    /\ IF CanRun(p)
       THEN receipt' = RunningReceipt(p) /\ GoTo(p, "invoke") /\ UNCHANGED call
       ELSE Raise(p, "error") /\ UNCHANGED receipt
    /\ UNCHANGED <<lease, cancelled, ckpt, late, tasks, history>>

-----------------------------------------------------------------------------
FinishWith(p, outcome) ==
    /\ out' = [out EXCEPT ![p] = outcome]
    /\ GoTo(p, "finish")
    /\ UNCHANGED <<seen, owns, settled, begunLate>>

(* _invoke, up to the creation of the child task; the endpoint refuses a    *)
(* lease that is not active.                                                *)
Invoke(p) ==
    /\ pc[p] = "invoke"
    /\ \/ /\ late \/ lease[Attempt(p)] # "active"
          /\ FinishWith(p, Failed(IF late THEN "timeout" ELSE "error"))
          /\ UNCHANGED <<child, runs>>
       \/ /\ ~late /\ lease[Attempt(p)] = "active"
          /\ child' = [child EXCEPT ![p] = [attempt |-> Attempt(p), state |-> "running"]]
          /\ runs' = [runs EXCEPT ![Attempt(p)] = @ + 1]
          /\ GoTo(p, "wait")
          /\ UNCHANGED call
    /\ UNCHANGED <<durable, late, zombies, retained, calls, got>>

(* The child run ends by itself and leaves its terminal checkpoint, or      *)
(* fails without one.                                                       *)
ChildOutcomes ==
    {Outcome("completed", "completed", FALSE, r) : r \in Results}
        \cup {Outcome("failed", "error", b, NoResult) : b \in BOOLEAN}

ChildEnds(p) ==
    /\ child[p].state = "running"
    /\ child' = [child EXCEPT ![p].state = "written"]
    /\ \/ \E o \in ChildOutcomes :
             /\ ckpt' = [attempt |-> child[p].attempt, outcome |-> o]
             /\ out' = [out EXCEPT ![p] = o]
       \/ /\ out' = [out EXCEPT ![p] = Failed("error")]
          /\ UNCHANGED ckpt
    /\ UNCHANGED <<receipt, lease, cancelled, late, pc, seen, owns, settled,
                   begunLate, zombies, retained, ans, history>>

ChildReturns(p) ==
    /\ pc[p] = "wait"
    /\ child[p].state = "written"
    /\ child' = [child EXCEPT ![p] = NoChild]
    /\ GoTo(p, "finish")
    /\ UNCHANGED <<durable, late, call, zombies, retained, history>>

(* task.cancel() and _confirm_task_stopped: the task stops within the grace *)
(* period, leaving a CANCELLED checkpoint or none, or it goes on and its    *)
(* lease is retained.                                                       *)
TaskStops(p) ==
    /\ child' = [child EXCEPT ![p] = NoChild]
    /\ \/ /\ child[p].state = "running"
          /\ ckpt' = [attempt |-> child[p].attempt, outcome |-> Stopped]
       \/ UNCHANGED ckpt
    /\ UNCHANGED <<zombies, retained>>

TaskLingers(p) ==
    /\ child[p].state = "running"
    /\ child' = [child EXCEPT ![p] = NoChild]
    /\ zombies' = [zombies EXCEPT ![p] = @ \cup {child[p].attempt}]
    /\ retained' = [retained EXCEPT ![p] = @ \cup {child[p].attempt}]
    /\ UNCHANGED ckpt

(* The terminal fields that an outcome gives the receipt. *)
TerminalReceipt(p) ==
    [receipt EXCEPT !.status = out[p].status, !.reason = out[p].reason,
                    !.resumable = out[p].resumable, !.result = out[p].result]

(* Mutant: the deadline is noticed only once the child has ended. *)
TimeoutAfterChild(p) ==
    /\ pc[p] = "wait"
    /\ late /\ child[p].state = "written"
    /\ TaskStops(p)
    /\ FinishWith(p, Failed("timeout"))
    /\ UNCHANGED <<receipt, lease, cancelled, late, history>>

(* _invoke: asyncio.wait ran into the deadline. *)
Timeout(p) ==
    /\ pc[p] = "wait"
    /\ late
    /\ \/ /\ TaskStops(p)
          /\ FinishWith(p, Failed("timeout"))
       \/ /\ TaskLingers(p)
          /\ FinishWith(p, Unconfirmed)
    /\ UNCHANGED <<receipt, lease, cancelled, late, history>>

(* _invoke: the parent was cancelled, or its child task was by              *)
(* cancel_execution_group: task.cancel(), and a grace period for the task.  *)
CancelWait(p) ==
    /\ pc[p] = "wait"
    /\ GoTo(p, "grace")
    /\ UNCHANGED <<durable, late, call, tasks, history>>

Grace(p) ==
    /\ pc[p] = "grace"
    /\ \/ /\ TaskStops(p)
          /\ out' = [out EXCEPT ![p] = Stopped]
       \/ /\ TaskLingers(p)
          /\ out' = [out EXCEPT ![p] = Unconfirmed]
    /\ GoTo(p, "cancelReceipt")
    /\ UNCHANGED <<receipt, lease, cancelled, late, seen, owns, settled,
                   begunLate, history>>

(* _terminal_receipt_after_cancellation: whatever attempt is RUNNING. *)
CancelReceipt(p) ==
    /\ pc[p] = "cancelReceipt"
    /\ receipt' = IF receipt.status = "running"
                  THEN TerminalReceipt(p)
                  ELSE receipt
    /\ Raise(p, "interrupted")
    /\ UNCHANGED <<lease, cancelled, ckpt, late, tasks, history>>

-----------------------------------------------------------------------------
(* _handle_claim, RECONCILE: read the child's checkpoint for this lease. *)
Reconcile(p) ==
    /\ pc[p] = "reconcile"
    /\ LET found == /\ lease[Attempt(p)] \in {"active", "completed"}
                    /\ ckpt.attempt = Attempt(p)
       IN  \/ /\ found
              /\ out' = [out EXCEPT ![p] = ckpt.outcome]
              /\ GoTo(p, IF seen[p].status = "reserved" THEN "adopt" ELSE "finish")
              /\ UNCHANGED <<seen, owns, settled, begunLate>>
           \/ /\ ~found
              /\ IF late THEN GoTo(p, "markManual") /\ UNCHANGED call
                         ELSE EndCall(p, "in_progress")
    /\ UNCHANGED <<durable, late, tasks, history>>

Adopt(p) ==
    /\ pc[p] = "adopt"
    /\ IF CanRun(p)
       THEN receipt' = RunningReceipt(p) /\ GoTo(p, "finish") /\ UNCHANGED call
       ELSE Raise(p, "error") /\ UNCHANGED receipt
    /\ UNCHANGED <<lease, cancelled, ckpt, late, tasks, history>>

(* A receipt that already shows the same terminal state is joined (see also *)
(* _recover_completed_race); any other makes the transition raise.          *)
SameTerminal(p) == receipt = TerminalReceipt(p)

(* Mutant: the terminal state is written whatever the receipt shows. *)
FinishOverwrites(p) ==
    /\ pc[p] = "finish"
    /\ receipt' = TerminalReceipt(p)
    /\ settled' = [settled EXCEPT ![p] = TRUE]
    /\ GoTo(p, "settle")
    /\ UNCHANGED <<seen, owns, out, begunLate>>
    /\ UNCHANGED <<lease, cancelled, ckpt, late, tasks, history>>

(* _finish_outcome: the receipt first. *)
Finish(p) ==
    /\ pc[p] = "finish"
    /\ IF receipt.status = "running" \/ SameTerminal(p)
       THEN /\ receipt' = TerminalReceipt(p)
            /\ settled' = [settled EXCEPT ![p] = out[p].status = "completed"]
            /\ GoTo(p, IF out[p].status = "completed" THEN "settle" ELSE "report")
            /\ UNCHANGED <<seen, owns, out, begunLate>>
       ELSE Raise(p, "error") /\ UNCHANGED receipt
    /\ UNCHANGED <<lease, cancelled, ckpt, late, tasks, history>>

(* _persist_failure announces the failure before the lease counts as        *)
(* settled; the lease of a child that may still execute is not completed.   *)
Report(p) ==
    /\ pc[p] = "report"
    /\ settled' = [settled EXCEPT ![p] = TRUE]
    /\ IF out[p].status = "manual"
       THEN /\ pc' = [pc EXCEPT ![p] = "release"]
            /\ ans' = [ans EXCEPT ![p] = "manual"]
       ELSE GoTo(p, "settle")
    /\ UNCHANGED <<durable, late, seen, owns, out, begunLate, tasks, history>>

(* An output that fails validation or is too large is a failure. *)
OutputRejected(p) ==
    /\ pc[p] = "finish"
    /\ out[p].status = "completed"
    /\ out' = [out EXCEPT ![p] = Failed("output_validation")]
    /\ UNCHANGED <<durable, late, pc, seen, owns, settled, begunLate, tasks, ans, history>>

(* _best_effort_cleanup_checkpoint: only the COMPLETED one of this lease. *)
CleanUp(p) ==
    ckpt' \in {ckpt} \cup
        (IF ckpt.attempt = Attempt(p) /\ ckpt.outcome.status = "completed"
         THEN {NoCheckpoint} ELSE {})

(* _complete_lease after the receipt, the cleanup of the checkpoint and the *)
(* answer.  The ledger may refuse or fail; the receipt stands.              *)
Settle(p) ==
    /\ pc[p] = "settle"
    /\ \/ /\ CanComplete(Attempt(p))
          /\ LeaseCompleted(Attempt(p))
          /\ IF out[p].status = "completed"
             THEN /\ EndCall(p, "ok")
                  /\ got' = got \cup {out[p].result}
                  /\ CleanUp(p)
             ELSE Raise(p, out[p].status) /\ UNCHANGED <<got, ckpt>>
       \/ Raise(p, "error") /\ UNCHANGED <<lease, got, ckpt>>
    /\ UNCHANGED <<receipt, cancelled, late, tasks, calls, runs>>

(* _handle_claim, REPLAY *)
Replay(p) ==
    /\ pc[p] = "replay"
    /\ IF CanComplete(Attempt(p))
       THEN /\ LeaseCompleted(Attempt(p))
            /\ EndCall(p, "ok")
            /\ got' = got \cup {seen[p].result}
            /\ CleanUp(p)
       ELSE EndCall(p, "error") /\ UNCHANGED <<lease, got, ckpt>>
    /\ UNCHANGED <<receipt, cancelled, late, tasks, calls, runs>>

(* _best_effort_release on the way out of an owner's call. *)
Release(p) ==
    /\ pc[p] = "release"
    /\ \/ /\ ~settled[p] /\ Attempt(p) \notin retained[p]
          /\ ReleaseLease(Attempt(p))
       \/ UNCHANGED lease
    /\ EndCall(p, ans[p])
    /\ UNCHANGED <<receipt, cancelled, ckpt, late, tasks, history>>

(* What the step that process p awaits would write, if its write lands. *)
ReceiptWrite(p) ==
    CASE pc[p] \in {"markManual", "uncertain"} -> MarkedManual(receipt)
      [] pc[p] = "resume" /\ CanResume(p) /\ Attempt(p) < MaxAttempts -> ResumedReceipt
      [] pc[p] \in {"start", "adopt"} /\ CanRun(p) -> RunningReceipt(p)
      [] pc[p] \in {"finish", "cancelReceipt"} /\ receipt.status = "running" ->
            TerminalReceipt(p)
      [] OTHER -> receipt

LeaseWrite(p) ==
    CASE pc[p] = "reserve" /\ CanReserve(p) -> [lease EXCEPT ![Attempt(p)] = "active"]
      [] pc[p] \in {"closeLease", "settle", "replay"} /\ CanComplete(Attempt(p)) ->
            [lease EXCEPT ![Attempt(p)] = "completed"]
      [] OTHER -> lease

(* CancelledError, or the failure of a store, at an await: what was being   *)
(* written may have landed, and the owner goes on to release its lease.  In *)
(* the grace period the child task goes on with nobody to retain its lease. *)
Interrupt(p) ==
    /\ pc[p] \notin {"idle", "wait", "release"}
    /\ pc[p] = "grace" => CancelTwice
    /\ receipt' \in {receipt, ReceiptWrite(p)}
    /\ lease' \in {lease, LeaseWrite(p)}
    /\ child' = [child EXCEPT ![p] = NoChild]
    /\ zombies' = IF child[p].state = "running"
                  THEN [zombies EXCEPT ![p] = @ \cup {child[p].attempt}] ELSE zombies
    /\ Raise(p, "interrupted")
    /\ UNCHANGED <<cancelled, ckpt, late, retained, history>>

-----------------------------------------------------------------------------
(* A lingering task stops at last. *)
ZombieEnds(p, a) ==
    /\ a \in zombies[p]
    /\ zombies' = [zombies EXCEPT ![p] = @ \ {a}]
    /\ \/ \E o \in ChildOutcomes : ckpt' = [attempt |-> a, outcome |-> o]
       \/ UNCHANGED ckpt
    /\ UNCHANGED <<receipt, lease, cancelled, late, pc, call, child, retained, ans,
                   history>>

(* _finish_background_task: once the call that retained the lease is over,  *)
(* it is released unless a call of the same process has settled it since.   *)
ReleaseRetained(p, a) ==
    /\ a \in retained[p] \ zombies[p]
    /\ ~(owns[p] /\ Attempt(p) = a)
    /\ retained' = [retained EXCEPT ![p] = @ \ {a}]
    /\ \/ ~(settled[p] /\ Attempt(p) = a) /\ ReleaseLease(a)
       \/ UNCHANGED lease
    /\ settled' = [settled EXCEPT ![p] = @ /\ Attempt(p) # a]
    /\ UNCHANGED <<receipt, cancelled, ckpt, late, pc, seen, owns, out, begunLate,
                   child, zombies, ans, history>>

(* cancel_group of the ledger, from any process. *)
CancelGroup ==
    /\ ~cancelled
    /\ cancelled' = TRUE
    /\ lease' = [a \in Attempts |->
                    IF lease[a] = "active" THEN "cancelled" ELSE lease[a]]
    /\ UNCHANGED <<receipt, ckpt, late, pc, call, tasks, ans, history>>

(* A process dies with its tasks and its memory. *)
Crash(p) ==
    /\ pc[p] # "idle" \/ zombies[p] \cup retained[p] # {}
    /\ EndCall(p, "interrupted")
    /\ child' = [child EXCEPT ![p] = NoChild]
    /\ zombies' = [zombies EXCEPT ![p] = {}]
    /\ retained' = [retained EXCEPT ![p] = {}]
    /\ UNCHANGED <<durable, late, history>>

Deadline == ~late /\ late' = TRUE
            /\ UNCHANGED <<durable, pc, call, tasks, ans, history>>

Proceed(p) ==
    \/ Inspect(p) \/ CloseLease(p) \/ MarkManual(p) \/ ClaimResume(p)
    \/ Reserve(p) \/ Uncertain(p) \/ Start(p) \/ Invoke(p)
    \/ ChildReturns(p) \/ Timeout(p) \/ Grace(p) \/ CancelReceipt(p)
    \/ Reconcile(p) \/ Adopt(p) \/ Finish(p) \/ Report(p) \/ Settle(p) \/ Replay(p) \/ Release(p)

Next ==
    \/ \E p \in Procs :
          \/ Claim(p) \/ Proceed(p) \/ ChildEnds(p) \/ OutputRejected(p)
          \/ CancelWait(p) \/ Interrupt(p) \/ Crash(p)
          \/ \E a \in Attempts : ZombieEnds(p, a) \/ ReleaseRetained(p, a)
    \/ CancelGroup
    \/ Deadline

Spec == Init /\ [][Next]_vars

(* The event loop of a live process runs its call on, and the deadline      *)
(* comes.  Child runs are not assumed to end by themselves.                 *)
Fairness == WF_vars(Deadline) /\ \A p \in Procs : WF_vars(Proceed(p))

FairSpec == Spec /\ Fairness

-----------------------------------------------------------------------------
ReceiptType ==
    [status: ReceiptStatuses, attempt: 0..MaxAttempts, owner: 0..MaxCalls,
     resumable: BOOLEAN, reason: Reasons, result: Results \cup {NoResult}]

TypeOK ==
    /\ receipt \in ReceiptType
    /\ lease \in [Attempts -> LeaseStatuses]
    /\ cancelled \in BOOLEAN /\ late \in BOOLEAN
    /\ seen \in [Procs -> ReceiptType]
    /\ owns \in [Procs -> BOOLEAN] /\ settled \in [Procs -> BOOLEAN]
    /\ zombies \in [Procs -> SUBSET Attempts]
    /\ retained \in [Procs -> SUBSET Attempts]
    /\ got \subseteq Results

(* Attempts whose child is executing, in a call or past its cancellation. *)
Executing ==
    {x \in Procs \X Attempts :
        x[2] \in zombies[x[1]] \/ child[x[1]] = [attempt |-> x[2], state |-> "running"]}

(* The receipt fences duplicate owners: no two children of the delegation   *)
(* execute at the same time, and no attempt is ever executed twice.         *)
OneChildExecutes ==
    /\ Cardinality(Executing) <= 1
    /\ \A a \in Attempts : runs[a] <= 1

(* A verified result is replayed: whatever any caller was given is the      *)
(* result the receipt holds, in every process and after every crash.        *)
AnswersAreTheReceipt ==
    \A r \in got : receipt.status = "completed" /\ receipt.result = r

(* A terminal receipt is final, but for the resume of a resumable failure,  *)
(* which starts the next attempt.                                           *)
ReceiptKeeps ==
    receipt.status \in Closed /\ receipt' # receipt =>
        /\ receipt.status = "failed" /\ receipt.resumable /\ AllowResume
        /\ receipt'.status = "reserved"
        /\ receipt'.attempt = receipt.attempt + 1

ReceiptIsFinal == [][ReceiptKeeps]_vars

(* The ledger is settled after the receipt, never before: a lease is        *)
(* completed only for an attempt whose receipt is terminal.                 *)
SettledAfterReceipt ==
    \A a \in Attempts :
        lease[a] = "completed" =>
            receipt.attempt > a \/ (receipt.attempt = a /\ receipt.status \in Closed)

(* A lease goes back to the group only when its child has stopped: an       *)
(* executing child keeps its parallel slot unless the group was cancelled.  *)
ExecutingChildHoldsLease ==
    \A x \in Executing : lease[x[2]] \in {"active", "cancelled"}

(* The ledger follows the receipt: it is settled after the receipt and      *)
(* keeps the lease of a child that executes.                                *)
LedgerFollowsReceipt == TypeOK /\ SettledAfterReceipt /\ ExecutingChildHoldsLease

(* Uncertain crash windows fail closed: a call begun after the deadline     *)
(* that runs to its end leaves no receipt open.                             *)
LateCallsFailClosed ==
    [][\A p \in Procs :
          (pc[p] # "idle" /\ pc'[p] = "idle" /\ begunLate[p]
              /\ ans'[p] # "interrupted")
          => receipt'.status \in Closed]_vars

(* A completed receipt can be replayed: its lease is active, so that a      *)
(* replay can settle it, or settled (or the group was cancelled).           *)
CompletedReceiptReplays ==
    receipt.status = "completed" => lease[receipt.attempt] # "released"

(* Every call of delegate ends, with the deadline as its last resort. *)
EveryCallEnds == \A p \in Procs : (pc[p] # "idle") ~> (pc[p] = "idle")
=============================================================================
