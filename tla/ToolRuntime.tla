----------------------------- MODULE ToolRuntime -----------------------------
(***************************************************************************)
(* One batch of tool calls in ToolRuntime.execute_many: validation,        *)
(* authorization, attempts with timeouts, failure classification, retries  *)
(* and the repair constraint.  Calls of a parallel batch interleave at     *)
(* their awaits.  A synchronous tool that is timed out or cancelled goes   *)
(* on in its thread.                                                       *)
(***************************************************************************)
EXTENDS Integers, Sequences, FiniteSets

CONSTANTS
    BatchCalls,    \* the calls of the batch
    Altered,       \* calls whose id the failure projector shortens or reformats
    Arguments,     \* requested arguments
    Invalid,       \* no effective arguments
    Effective,     \* requested arguments -> effective ones, or Invalid
    Profiles,      \* the safety profiles of the tools
    MaxAttempts,   \* RetryConfig.max_attempts
    MaxParallel    \* max_parallel

ASSUME BatchAssumption ==
    /\ IsFiniteSet(BatchCalls)
    /\ MaxAttempts \in Nat \ {0} /\ MaxParallel \in Nat \ {0}

VARIABLES
    policy,    \* the safety profile of each call's tool, and the batch's options
    asked,     \* requested arguments of each call
    stage,     \* where each call is in _execute_one
    attempts,  \* its attempts so far
    answer,    \* its ToolResult and InternalToolFailure, or Pending
    batch,     \* running, done, raised or cancelled
    live,      \* invocations that execute, in time or not
    invoked,   \* history: invocations started
    late       \* history: invocations that were timed out

batchVars == <<policy, asked, stage, attempts, answer, batch, live, invoked, late>>

Profile == [retry : BOOLEAN, repair : BOOLEAN, timeout : BOOLEAN]

(* What a ToolError says that decides on another attempt: whether it is a   *)
(* timeout, retryable, and its recovery None or RETRY_CALL.                 *)
Error == [timeout : BOOLEAN, retryable : BOOLEAN, again : BOOLEAN]

(* A ToolResult with its InternalToolFailure. *)
Answers == {"pending", "ok", "failed", "exhausted"}

(* A ToolRepairConstraint: the arguments of the failed call, and whether    *)
(* the new call names the same tool and has a new id.                       *)
Constraint == [previous : Arguments, sameTool : BOOLEAN, freshId : BOOLEAN]
NoConstraint == [previous |-> Invalid, sameTool |-> TRUE, freshId |-> TRUE]

BatchInit ==
    /\ policy \in [calls : SUBSET BatchCalls \ {{}}, parallel : BOOLEAN,
                   profile : [BatchCalls -> Profiles],
                   repair : Constraint \cup {NoConstraint}]
    /\ asked \in [BatchCalls -> Arguments]
    /\ stage = [c \in BatchCalls |-> IF c \in policy.calls THEN "queued" ELSE "done"]
    /\ attempts = [c \in BatchCalls |-> 0]
    /\ answer = [c \in BatchCalls |-> "pending"]
    /\ batch = "new"
    /\ live = [c \in BatchCalls |-> 0]
    /\ invoked = [c \in BatchCalls |-> 0]
    /\ late = [c \in BatchCalls |-> 0]

Safe(c) == policy.profile[c]
Repairing == policy.repair # NoConstraint

-----------------------------------------------------------------------------
(* _repair_constraint_error: one call, of the same tool, with a new id and  *)
(* other requested arguments.                                               *)
ConstraintBroken ==
    /\ Repairing
    /\ \/ Cardinality(policy.calls) # 1
       \/ ~policy.repair.sameTool \/ ~policy.repair.freshId
       \/ \E c \in policy.calls : asked[c] = policy.repair.previous

Begin ==
    /\ batch = "new"
    /\ batch' = "running"
    /\ IF ConstraintBroken
       THEN /\ answer' = [c \in BatchCalls |-> "failed"]
            /\ stage' = [c \in BatchCalls |-> "done"]
       ELSE UNCHANGED <<answer, stage>>
    /\ UNCHANGED <<policy, asked, attempts, live, invoked, late>>

Executing == {c \in BatchCalls : stage[c] \notin {"queued", "done"}}
Width == IF policy.parallel THEN MaxParallel ELSE 1

Answer(c, a) ==
    /\ answer' = [answer EXCEPT ![c] = a]
    /\ stage' = [stage EXCEPT ![c] = "done"]

(* _execute_one up to the authorizer: the call fails without an attempt. *)
Refused(c) ==
    \/ Repairing /\ ~Safe(c).repair
    \/ Effective[asked[c]] = Invalid
    \/ Repairing /\ Effective[asked[c]] = Effective[policy.repair.previous]

Prepare(c) ==
    /\ batch = "running" /\ stage[c] = "queued" /\ Cardinality(Executing) < Width
    /\ IF Refused(c) THEN Answer(c, "failed")
       ELSE stage' = [stage EXCEPT ![c] = "authorize"] /\ UNCHANGED answer
    /\ UNCHANGED <<policy, asked, attempts, batch, live, invoked, late>>

(* The registry does not know the tool. *)
NotFound(c) ==
    /\ batch = "running" /\ stage[c] = "queued" /\ Cardinality(Executing) < Width
    /\ Answer(c, "failed")
    /\ UNCHANGED <<policy, asked, attempts, batch, live, invoked, late>>

Invoke(c) ==
    /\ stage' = [stage EXCEPT ![c] = "invoke"]
    /\ attempts' = [attempts EXCEPT ![c] = @ + 1]
    /\ live' = [live EXCEPT ![c] = @ + 1]
    /\ invoked' = [invoked EXCEPT ![c] = @ + 1]

(* The authorizer allows, denies, fails or answers nonsense. *)
Authorize(c) ==
    /\ stage[c] = "authorize"
    /\ \/ Invoke(c) /\ UNCHANGED answer
       \/ Answer(c, "failed") /\ UNCHANGED <<attempts, live, invoked>>
    /\ UNCHANGED <<policy, asked, batch, late>>

-----------------------------------------------------------------------------
Attempts(c) == IF Safe(c).retry THEN MaxAttempts ELSE 1

(* _classify_error.  A timeout of a tool that is not safe after one is      *)
(* final.  Otherwise the tool, its classifier or its error mapper declares  *)
(* any error or breaks; the default for an exception follows the profile.   *)
Final(timedOut) == [timeout |-> timedOut, retryable |-> FALSE, again |-> FALSE]
Default(c, timedOut) ==
    [timeout |-> timedOut, retryable |-> Safe(c).retry, again |-> ~timedOut \/ Safe(c).retry]

Classified(c, timedOut) ==
    IF timedOut /\ ~Safe(c).timeout THEN {Final(TRUE)}
    ELSE Error \cup {Final(FALSE), Default(c, timedOut)}

(* Mutant: whatever the tool calls retryable is tried again. *)
RetrySafeIfSaid(c, e) == e.retryable /\ e.again

RetrySafe(c, e) ==
    /\ Safe(c).retry /\ e.retryable /\ e.again
    /\ e.timeout => Safe(c).timeout

(* After a failed attempt: another one, after a delay, or the failure. *)
AfterFailure(c, e) ==
    IF RetrySafe(c, e) /\ attempts[c] < Attempts(c)
    THEN stage' = [stage EXCEPT ![c] = "delay"] /\ UNCHANGED answer
    ELSE Answer(c, IF RetrySafe(c, e) THEN "exhausted" ELSE "failed")

(* The invocation ends within its timeout: a value that fits, one that does *)
(* not, or an exception.                                                    *)
Returns(c) ==
    /\ stage[c] = "invoke"
    /\ live' = [live EXCEPT ![c] = @ - 1]
    /\ \/ Answer(c, "ok")
       \/ Answer(c, "failed")
       \/ \E e \in Classified(c, FALSE) : AfterFailure(c, e)
    /\ UNCHANGED <<policy, asked, attempts, batch, invoked, late>>

(* wait_for gives up.  A coroutine is cancelled, a thread goes on. *)
TimesOut(c) ==
    /\ stage[c] = "invoke"
    /\ late' = [late EXCEPT ![c] = @ + 1]
    /\ \/ live' = [live EXCEPT ![c] = @ - 1]
       \/ UNCHANGED live
    /\ \E e \in Classified(c, TRUE) : AfterFailure(c, e)
    /\ UNCHANGED <<policy, asked, attempts, batch, invoked>>

(* The delay is over. *)
Again(c) ==
    /\ stage[c] = "delay"
    /\ Invoke(c)
    /\ UNCHANGED <<policy, asked, answer, batch, late>>

(* A thread whose call was given up ends at last. *)
Abandoned(c) == live[c] - (IF stage[c] = "invoke" THEN 1 ELSE 0)

ThreadEnds(c) ==
    /\ Abandoned(c) > 0
    /\ live' = [live EXCEPT ![c] = @ - 1]
    /\ UNCHANGED <<policy, asked, stage, attempts, answer, batch, invoked, late>>

(* _batch_outcome.  The outcome refuses a failure view whose id differs     *)
(* from that of its call: the batch raises, its tools notwithstanding.      *)
Complete ==
    /\ batch = "running" /\ \A c \in BatchCalls : stage[c] = "done"
    /\ batch' = IF \E c \in Altered \cap policy.calls : answer[c] \in {"failed", "exhausted"} THEN "raised" ELSE "done"
    /\ UNCHANGED <<policy, asked, stage, attempts, answer, live, invoked, late>>

(* The caller is cancelled: coroutines end, threads go on. *)
CancelBatch ==
    /\ batch = "running"
    /\ batch' = "cancelled"
    /\ stage' = [c \in BatchCalls |-> "done"]
    /\ \E S \in SUBSET {c \in BatchCalls : stage[c] = "invoke"} :
          live' = [c \in BatchCalls |-> live[c] - (IF c \in S THEN 1 ELSE 0)]
    /\ UNCHANGED <<policy, asked, attempts, answer, invoked, late>>

CallStep(c) == Prepare(c) \/ NotFound(c) \/ Authorize(c) \/ Returns(c) \/ TimesOut(c) \/ Again(c)

BatchNext ==
    \/ Begin \/ Complete \/ CancelBatch
    \/ \E c \in BatchCalls : CallStep(c) \/ ThreadEnds(c)

BatchSpec == BatchInit /\ [][BatchNext]_batchVars

(* The loop runs what is ready, and every await of a call has a timeout. *)
BatchFairness == WF_batchVars(Begin) /\ WF_batchVars(Complete) /\ \A c \in BatchCalls : WF_batchVars(CallStep(c))

BatchFairSpec == BatchSpec /\ BatchFairness

-----------------------------------------------------------------------------
BatchTypeOK ==
    /\ stage \in [BatchCalls -> {"queued", "authorize", "invoke", "delay", "done"}]
    /\ answer \in [BatchCalls -> Answers]
    /\ attempts \in [BatchCalls -> 0..MaxAttempts]
    /\ batch \in {"new", "running", "done", "raised", "cancelled"}
    /\ \A c \in BatchCalls : live[c] \in 0..MaxAttempts /\ late[c] \in 0..MaxAttempts

(* A tool is called again only if its profile says that is safe, after a    *)
(* timeout only if that is safe too, and a call never executes twice at the *)
(* same time unless the tool is safe after timeouts.                        *)
RetriesAreDeclared ==
    \A c \in BatchCalls :
        /\ invoked[c] > 1 => Safe(c).retry
        /\ invoked[c] > 1 /\ late[c] > 0 /\ stage[c] # "done" => Safe(c).timeout
        /\ live[c] > 1 => Safe(c).timeout

(* A repair executes nothing unless it is one call of a repair-safe tool    *)
(* whose effective arguments differ from those that failed.                 *)
RepairsAreNew ==
    Repairing =>
        \A c \in BatchCalls :
            invoked[c] > 0 =>
                /\ policy.calls = {c} /\ Safe(c).repair
                /\ Effective[asked[c]] # Effective[policy.repair.previous]

(* The outcome tells the truth: a success was executed, a failure that      *)
(* calls its retries exhausted had all of them.                             *)
OutcomeIsTrue ==
    batch = "done" =>
        \A c \in policy.calls :
            /\ answer[c] # "pending"
            /\ answer[c] = "ok" => invoked[c] >= 1 /\ invoked[c] > late[c]
            /\ answer[c] = "exhausted" => invoked[c] = MaxAttempts

(* However attempts, deadlines, threads left behind and a cancellation of   *)
(* the batch interleave in execute_many: what is repeated may be, what is  *)
(* answered is true, and no more calls execute than the batch allows.       *)
BatchSound == BatchTypeOK /\ RetriesAreDeclared /\ RepairsAreNew /\ OutcomeIsTrue
              /\ Cardinality(Executing) <= Width

(* Every batch ends. *)
CallsWaiting == {c \in policy.calls : batch = "running"}
BatchEnds == \A c \in BatchCalls : (c \in CallsWaiting) ~> (c \notin CallsWaiting)
=============================================================================
