---- MODULE Diagnostics ----
(***************************************************************************)
(* Failure diagnostics (observability/diagnostics.py and its callers):     *)
(* DiagnosticReporter delivers a record of each captured failure to a sink *)
(* in a task of its own, bounded by a timer and by the end of the run; the *)
(* run keeps the summary of the failure that will explain how it ended.    *)
(*                                                                         *)
(* A sink may finish, raise, or answer its cancellation in its own time.   *)
(***************************************************************************)
EXTENDS Integers, Sequences, FiniteSets

CONSTANTS
    Runs,
    MaxCaptures,   \* bound: failures captured
    MaxPending,    \* max_pending_deliveries
    MaxKept,       \* InMemoryDiagnosticSink.max_records
    Nothing

Captures == 1..MaxCaptures

VARIABLES
    noop,       \* no diagnostic sink is configured
    task,       \* per record: its run, its delivery task, whether it was cancelled
    timers,     \* _timeout_handles
    pending,    \* _pending
    accounted,  \* _accounted_cancellations
    drops,      \* drop_count, kept per record
    kept,       \* the in-memory sink
    got,        \* history: records some sink has accepted
    phase,      \* per run: "running", "failing", "flushing", "cleared"
    primary,    \* RunContext.primary_failure
    toolId,     \* RunContext.tool_failure_ids, of the last failed call
    awaited,    \* what flush_run waits for
    causes,     \* history: what the run failed of, outermost last
    report      \* error_summary

reporter == <<task, timers, pending, accounted, drops, kept, got>>
diagVars == <<noop, reporter, phase, primary, toolId, awaited, causes, report>>

----------------------------------------------------------------------------
(* DiagnosticReporter *)

Fresh == {c \in Captures : task[c].state = "none"}
NewId == CHOOSE c \in Fresh : \A d \in Fresh : c <= d

\* _schedule_delivery: a record beyond the limit is dropped at once.
Scheduled(r) ==
    IF Cardinality(timers) >= MaxPending
    THEN /\ task' = [task EXCEPT ![NewId] = [run |-> r, state |-> "gone", cancel |-> FALSE]]
         /\ drops' = [drops EXCEPT ![NewId] = @ + 1]
         /\ UNCHANGED <<timers, pending>>
    ELSE /\ task' = [task EXCEPT ![NewId] = [run |-> r, state |-> "live", cancel |-> FALSE]]
         /\ timers' = timers \cup {NewId}
         /\ pending' = [pending EXCEPT ![r] = @ \cup {NewId}]
         /\ UNCHANGED drops

\* capture_exception: the id is returned whatever becomes of the record.
Captured(r) ==
    IF noop THEN UNCHANGED reporter
    ELSE Fresh # {} /\ Scheduled(r) /\ UNCHANGED <<accounted, kept, got>>
IdOf == IF noop THEN Nothing ELSE NewId

Keep(c) == LET room == IF Len(kept) >= MaxKept THEN Tail(kept) ELSE kept IN Append(room, c)

\* _deliver through a composite of sinks: one that accepts is enough.
Deliver(c) ==
    /\ task[c].state = "live"
    /\ \/ /\ got' = got \cup {c}
          /\ kept' = Keep(c) \/ kept' = kept
          /\ UNCHANGED drops
       \/ /\ drops' = [drops EXCEPT ![c] = @ + 1]
          /\ UNCHANGED <<got, kept>>
    /\ task' = [task EXCEPT ![c].state = "done"]
    /\ UNCHANGED <<noop, timers, pending, accounted, phase, primary, toolId, awaited, causes, report>>

\* The sink lets its cancellation through.
Cancelled(c) ==
    /\ task[c].state = "live" /\ task[c].cancel
    /\ task' = [task EXCEPT ![c].state = "cancelled"]
    /\ UNCHANGED <<noop, timers, pending, accounted, drops, kept, got, phase, primary, toolId,
                   awaited, causes, report>>

\* _timeout_delivery for each of S that is still running.
TimedOut(S) ==
    LET late == {c \in S : task[c].state = "live"}
    IN  /\ task' = [c \in Captures |-> IF c \in late THEN [task[c] EXCEPT !.cancel = TRUE] ELSE task[c]]
        /\ drops' = [c \in Captures |-> IF c \in late \ accounted THEN drops[c] + 1 ELSE drops[c]]
        /\ accounted' = accounted \cup late

Expire(c) ==
    /\ c \in timers \ accounted     \* firing again changes nothing
    /\ TimedOut({c})
    /\ UNCHANGED <<noop, timers, pending, kept, got, phase, primary, toolId, awaited, causes, report>>

\* The event loop shuts down and cancels what is left.
Shutdown(c) ==
    /\ task[c].state = "live" /\ ~task[c].cancel
    /\ task' = [task EXCEPT ![c].cancel = TRUE]
    /\ UNCHANGED <<noop, timers, pending, accounted, drops, kept, got, phase, primary, toolId,
                   awaited, causes, report>>

\* _delivery_done, the task's callback.
DeliveryDone(c) ==
    /\ task[c].state \in {"done", "cancelled"}
    /\ task' = [task EXCEPT ![c].state = "gone"]
    /\ timers' = timers \ {c}
    /\ pending' = [pending EXCEPT ![task[c].run] = @ \ {c}]
    /\ drops' = IF task[c].state = "cancelled" /\ c \notin accounted
                THEN [drops EXCEPT ![c] = @ + 1] ELSE drops
    /\ accounted' = accounted \ {c}
    /\ UNCHANGED <<noop, kept, got, phase, primary, toolId, awaited, causes, report>>

----------------------------------------------------------------------------
(* The run *)

Named(c, id) == [cause |-> c, id |-> id]

\* set_primary: a summarizer that fails is recovered by the memory policy,
\* unless it broke the protocol.
Explains(summary, protocol) == ~summary \/ protocol

\* A model call fails for good: a turn, or the summary of the conversation.
ModelFails(r) ==
    /\ phase[r] = "running" /\ causes[r] = <<>>
    /\ \E summary, protocol \in BOOLEAN :
         LET ends == ~summary \/ protocol
         IN  /\ Captured(r)
             /\ primary' = IF Explains(summary, protocol)
                           THEN [primary EXCEPT ![r] = Named("model", IdOf)] ELSE primary
             /\ causes' = IF ends THEN [causes EXCEPT ![r] = <<"model">>] ELSE causes
             /\ \/ phase' = IF ends THEN [phase EXCEPT ![r] = "failing"] ELSE phase
                \/ ends /\ UNCHANGED phase       \* it fails a policy call
    /\ UNCHANGED <<noop, toolId, awaited, report>>

\* _capture_policy_exception: the plan or a validation failed; only a capture
\* with an id explains the run.
PolicyFails(r) ==
    /\ phase[r] = "running"
    /\ Captured(r)
    /\ primary' = IF noop THEN primary ELSE [primary EXCEPT ![r] = Named("policy", IdOf)]
    /\ causes' = [causes EXCEPT ![r] = Append(@, "policy")]
    /\ phase' = [phase EXCEPT ![r] = "failing"]
    /\ UNCHANGED <<noop, toolId, awaited, report>>

\* A tool call fails; the engine sees the result and goes on.
ToolFails(r) ==
    /\ phase[r] = "running" /\ causes[r] = <<>>
    /\ Captured(r)
    /\ toolId' = [toolId EXCEPT ![r] = IF noop THEN @ ELSE IdOf]
    /\ UNCHANGED <<noop, primary, awaited, causes, phase, report>>

\* _capture_tool_batch_failure: the batch fails as a whole.
BatchFails(r) ==
    /\ phase[r] = "running" /\ causes[r] = <<>>
    /\ Captured(r)
    /\ primary' = [primary EXCEPT ![r] = Named("batch", IdOf)]
    /\ causes' = [causes EXCEPT ![r] = <<"batch">>]
    /\ phase' = [phase EXCEPT ![r] = "failing"]
    /\ UNCHANGED <<noop, toolId, awaited, report>>

\* A store, a guard or the deadline ends the run with an exception nobody
\* has captured.
OtherFails(r) ==
    /\ phase[r] = "running" /\ causes[r] = <<>>
    /\ causes' = [causes EXCEPT ![r] = <<"other">>]
    /\ phase' = [phase EXCEPT ![r] = "failing"]
    /\ UNCHANGED <<noop, reporter, primary, toolId, awaited, report>>

\* _capture_terminal_failure: a failure that was captured is not captured again.
TerminalFailure(r) ==
    /\ phase[r] = "failing"
    /\ IF primary[r] # Nothing /\ primary[r].id # Nothing
       THEN report' = [report EXCEPT ![r] = primary[r]] /\ UNCHANGED reporter
       ELSE /\ Captured(r)
            /\ report' = [report EXCEPT ![r] =
                   Named(IF primary[r] # Nothing THEN primary[r].cause
                         ELSE causes[r][Len(causes[r])], IdOf)]
    /\ phase' = [phase EXCEPT ![r] = "flushing"]
    /\ awaited' = [awaited EXCEPT ![r] = Nothing]
    /\ UNCHANGED <<noop, primary, toolId, causes>>

\* _finish_outcome: the engine returns a failed outcome, of the policy that
\* failed, of a limit, or of the tool failure it carries.
FailedOutcome(r) ==
    /\ \/ phase[r] = "failing" /\ causes[r][Len(causes[r])] = "policy" /\ UNCHANGED causes
       \/ /\ phase[r] = "running" /\ causes[r] = <<>>
          /\ \E c \in {"limit"} \cup (IF toolId[r] # Nothing THEN {"tool"} ELSE {}) :
                causes' = [causes EXCEPT ![r] = <<c>>]
    /\ report' = [report EXCEPT ![r] =
          IF primary[r] # Nothing THEN primary[r]
          ELSE LET last == causes'[r][Len(causes'[r])]
               IN  Named(last, IF last = "tool" THEN toolId[r] ELSE Nothing)]
    /\ phase' = [phase EXCEPT ![r] = "flushing"]
    /\ UNCHANGED <<noop, reporter, primary, toolId, awaited>>

Complete(r) ==
    /\ phase[r] = "running" /\ causes[r] = <<>>
    /\ phase' = [phase EXCEPT ![r] = "flushing"]
    /\ UNCHANGED <<noop, reporter, primary, toolId, awaited, causes, report>>

\* flush_run, then clear_run: at the end of a run it waits for its deliveries
\* once, and no longer than the timeout.
Flush(r) ==
    /\ phase[r] = "flushing" /\ awaited[r] = Nothing
    /\ awaited' = [awaited EXCEPT ![r] = pending[r]]
    /\ UNCHANGED <<noop, reporter, phase, primary, toolId, causes, report>>

Flushed(r) ==
    /\ phase[r] = "flushing" /\ awaited[r] # Nothing
    /\ TimedOut(awaited[r])
    /\ phase' = [phase EXCEPT ![r] = "clearing"]
    /\ UNCHANGED <<noop, timers, pending, kept, got, primary, toolId, awaited, causes, report>>

Clear(r) ==
    /\ phase[r] = "clearing"
    /\ TimedOut(pending[r])
    /\ timers' = timers \ {c \in pending[r] : task[c].state = "live"}
    /\ pending' = [pending EXCEPT ![r] = {}]
    /\ phase' = [phase EXCEPT ![r] = "cleared"]
    /\ UNCHANGED <<noop, kept, got, primary, toolId, awaited, causes, report>>

Init ==
    /\ noop \in BOOLEAN
    /\ task = [c \in Captures |-> [run |-> Nothing, state |-> "none", cancel |-> FALSE]]
    /\ timers = {} /\ pending = [r \in Runs |-> {}] /\ accounted = {}
    /\ drops = [c \in Captures |-> 0] /\ kept = <<>> /\ got = {}
    /\ phase = [r \in Runs |-> "running"] /\ primary = [r \in Runs |-> Nothing]
    /\ toolId = [r \in Runs |-> Nothing] /\ awaited = [r \in Runs |-> Nothing]
    /\ causes = [r \in Runs |-> <<>>] /\ report = [r \in Runs |-> Nothing]

Next ==
    \/ \E c \in Captures : Deliver(c) \/ Cancelled(c) \/ Expire(c) \/ Shutdown(c) \/ DeliveryDone(c)
    \/ \E r \in Runs :
         \/ ModelFails(r) \/ PolicyFails(r) \/ ToolFails(r) \/ BatchFails(r) \/ OtherFails(r)
         \/ TerminalFailure(r) \/ FailedOutcome(r) \/ Complete(r)
         \/ Flush(r) \/ Flushed(r) \/ Clear(r)

Spec == Init /\ [][Next]_diagVars

----------------------------------------------------------------------------
(* No record disappears unnoticed: whichever of timer, flush, clear_run,   *)
(* shutdown and callback comes first, a record that is over was accepted   *)
(* by a sink or counted as dropped, a cancelled one exactly once.          *)
NothingLostSilently ==
    \A c \in Captures :
      /\ task[c].state = "gone" => c \in got \/ drops[c] >= 1
      /\ task[c].state # "none" /\ drops[c] > 1 => task[c].state \in {"done", "gone"}
      /\ task[c].state = "cancelled" => drops[c] <= 1

(* A sink that never returns holds up neither the reporter nor the run:    *)
(* timers stay within the limit, each belongs to a delivery that has not   *)
(* been called back, and a run that is over has none left.                 *)
DeliveriesBounded ==
    /\ Cardinality(timers) <= MaxPending
    /\ \A c \in timers : task[c].state \notin {"none", "gone"}
    /\ \A r \in Runs : phase[r] = "cleared" =>
          pending[r] = {} /\ \A c \in timers : task[c].run = r => task[c].state # "live"
    /\ Len(kept) <= MaxKept /\ \A i, j \in DOMAIN kept : kept[i] = kept[j] => i = j

(* The failure a result reports is one of those that ended the run, not    *)
(* one the run recovered from, and its id is that of a captured record of  *)
(* the same run.                                                           *)
ReportsTheCause ==
    \A r \in Runs : report[r] # Nothing =>
        /\ \E i \in DOMAIN causes[r] : causes[r][i] = report[r].cause
        /\ report[r].id # Nothing => task[report[r].id].run = r
        /\ report[r].cause = "model" => "policy" \notin {causes[r][i] : i \in DOMAIN causes[r]} \/ noop

DiagnosticsSound == NothingLostSilently /\ DeliveriesBounded /\ ReportsTheCause
====
