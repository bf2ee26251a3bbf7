------------------------------ MODULE StrictRun ------------------------------
(* A strict Plan-and-Execute run of AgentRuntime used directly (runtime.py):  *)
(* its steps, tool rounds, repairs, replans and the markers of its final      *)
(* answer, which the checkpoint carries from process to process.  The model   *)
(* guard and the conversation batches of such a run are those of DirectRun.   *)
EXTENDS Integers, Sequences, FiniteSets

CONSTANTS Steps,          \* steps of the plan
          MaxStepAttempts, MaxReplans, MaxRepairs, MaxCalls,
          Nothing,
          MaxCrashes,     \* bound: deaths of the process
          MaxResumes      \* bound: resumes

VARIABLES pc, plan,       \* what the run awaits, and its ExecutionState
          saved,          \* the checkpoint under its run id
          log,            \* final answers in the conversation
          emitted,        \* final answers shown to the caller
          finals,         \* answers the finalizer gave, over all processes
          effects,        \* step -> tool rounds that ran after its commit
          torn,           \* a cancelled tool round was saved as finished
          hollow,         \* steps committed without the results of their tools
          crashes, resumes

strictVars == <<pc, plan, saved, log, emitted, finals, effects, torn, hollow, crashes, resumes>>

Fresh == [phase |-> "prepare", done |-> 0, attempts |-> 0, replans |-> 0, repairs |-> 0,
          calls |-> 0, awaiting |-> FALSE, repair |-> FALSE, active |-> FALSE,
          pending |-> FALSE, final |-> 0, persisted |-> FALSE, emitted |-> FALSE]

Init == /\ pc = "off" /\ plan = Fresh /\ saved = Nothing
        /\ log = <<>> /\ emitted = <<>> /\ finals = 0
        /\ effects = 0 /\ torn = FALSE /\ hollow = {}
        /\ crashes = 0 /\ resumes = 0

(* The next await after a step of the loop: by phase. *)
Await(p) == CASE p.phase = "act" -> "model"
              [] p.phase \in {"prepare", "validate", "verify"} -> p.phase
              [] p.phase = "finalize" -> IF p.final = 0 THEN "finalizer" ELSE "record"
              [] p.phase = "failed" -> "failing"
              [] OTHER -> "report"

SaveThen(p, next) == /\ plan' = p
                     /\ \/ saved' = p /\ pc' = next
                        \/ saved' = saved /\ pc' = "failing"
Save(p) == SaveThen(p, Await(p))
Rest == UNCHANGED <<log, emitted, finals, effects, torn, hollow, crashes, resumes>>

(* begin creates the plan of a new run; a resumed one continues its state. *)
Start == /\ pc = "off" /\ saved = Nothing /\ crashes = 0 /\ resumes = 0
         /\ Save(Fresh) /\ Rest

Resume == /\ pc = "off" /\ resumes < MaxResumes /\ saved # Nothing
          /\ resumes' = resumes + 1
          /\ Save(saved)
          /\ UNCHANGED <<log, emitted, finals, effects, torn, hollow, crashes>>

Fail(p) == [p EXCEPT !.phase = "failed", !.active = FALSE]

-----------------------------------------------------------------------------
(* STEP_PREPARE and VERIFY. *)
Prepare ==
    /\ pc = "prepare"
    /\ \E tools \in BOOLEAN :
           Save(IF plan.done = Steps
                THEN [plan EXCEPT !.phase = "verify"]
                ELSE [plan EXCEPT !.phase = "act", !.pending = FALSE, !.repair = FALSE,
                                  !.active = FALSE, !.awaiting = ~tools])
    /\ Rest

Verify == /\ pc = "verify"
          /\ IF plan.done = Steps
             THEN Save([plan EXCEPT !.phase = "finalize"])
             ELSE pc' = "failing" /\ UNCHANGED <<plan, saved>>
          /\ Rest

(* A retried step consumes one of its attempts; without one left the plan is  *)
(* revised, and without a revision left it fails.                             *)
Replan(p) == IF p.replans < MaxReplans
             THEN [p EXCEPT !.phase = "prepare", !.replans = @ + 1, !.attempts = 0,
                            !.repair = FALSE, !.active = FALSE, !.pending = FALSE]
             ELSE Fail(p)
Retry(p) == IF p.attempts + 1 < MaxStepAttempts
            THEN [p EXCEPT !.phase = "act", !.attempts = @ + 1, !.pending = FALSE]
            ELSE Replan(p)

(* What the policy makes of the model's response (decide). *)
Responses ==
    IF plan.repair
    THEN {[plan EXCEPT !.active = TRUE, !.awaiting = TRUE], Replan(plan), Fail(plan)}
    ELSE IF plan.awaiting
         THEN {[plan EXCEPT !.phase = "validate", !.pending = TRUE], Retry(plan), Fail(plan)}
         ELSE {[plan EXCEPT !.active = TRUE, !.awaiting = TRUE],
               [plan EXCEPT !.awaiting = TRUE], Retry(plan)}

(* decide validates a step result it accepts at once. *)
Committed(p) == [p EXCEPT !.phase = IF p.done + 1 = Steps THEN "verify" ELSE "prepare",
                          !.done = @ + 1, !.pending = FALSE, !.repair = FALSE,
                          !.active = FALSE, !.awaiting = FALSE, !.attempts = 0, !.repairs = 0]
Validated(p) == {Committed(p), Retry(p), Replan(p), Fail(p)}

Commit(p) == /\ Save(p)
             /\ hollow' = IF p.done > plan.done /\ torn THEN hollow \cup {p.done} ELSE hollow
             /\ torn' = (torn /\ p.done = plan.done)
             /\ UNCHANGED <<log, emitted, finals, effects, crashes, resumes>>

Model ==
    /\ pc = "model"
    /\ \/ pc' = "failing" /\ UNCHANGED <<plan, saved>> /\ Rest
       \/ \E p \in Responses :
             IF p.phase = "validate" THEN \E v \in Validated(p) : Commit(v)
             ELSE IF p.active
             THEN IF p.calls = MaxCalls THEN Save(Fail(p)) /\ Rest
                  ELSE /\ plan' = [p EXCEPT !.calls = @ + 1]
                       /\ pc' = "tools" /\ UNCHANGED saved /\ Rest
             ELSE Save(p) /\ Rest

(* A checkpoint taken between a step result and its validation. *)
Validate == /\ pc = "validate"
            /\ \E p \in IF plan.pending THEN Validated(plan) ELSE {Fail(plan)} : Commit(p)

(* A tool round: it succeeds, is repaired, makes the plan change, or fails.   *)
Tools ==
    /\ pc = "tools"
    /\ effects' = IF plan.done = Steps THEN effects + 1 ELSE effects
    /\ torn' = FALSE
    /\ \/ Save([plan EXCEPT !.active = FALSE, !.repair = FALSE, !.awaiting = TRUE])
       \/ Save(IF plan.repairs < MaxRepairs
               THEN [plan EXCEPT !.repair = TRUE, !.repairs = @ + 1, !.awaiting = FALSE,
                                 !.active = FALSE]
               ELSE Replan(plan))
       \/ Save(Replan(plan))
       \/ plan' = Fail(plan) /\ pc' = "failing" /\ UNCHANGED saved
    /\ UNCHANGED <<log, emitted, finals, hollow, crashes, resumes>>

-----------------------------------------------------------------------------
(* _strict_finalization_events: the answer is kept before it is stored, and   *)
(* marked as shown before it is shown.                                        *)
Finalizer ==
    /\ pc = "finalizer"
    /\ finals' = finals + 1
    /\ \/ pc' = "failing" /\ UNCHANGED <<plan, saved>>
       \/ SaveThen([plan EXCEPT !.final = finals + 1], "record")
    /\ UNCHANGED <<log, emitted, effects, torn, hollow, crashes, resumes>>

Store(answer) == log' = IF \E i \in DOMAIN log : log[i] = answer THEN log ELSE Append(log, answer)

Record ==
    /\ pc = "record"
    /\ IF plan.persisted
       THEN pc' = "mark" /\ UNCHANGED <<plan, saved, log>>
       ELSE \/ Store(plan.final) /\ SaveThen([plan EXCEPT !.persisted = TRUE], "mark")
            \/ Store(plan.final) /\ pc' = "unstored" /\ UNCHANGED <<plan, saved>>
            \/ pc' = "unstored" /\ UNCHANGED <<plan, saved, log>>
    /\ UNCHANGED <<emitted, finals, effects, torn, hollow, crashes, resumes>>

Mark == /\ pc = "mark"
        /\ IF plan.emitted
           THEN pc' = "report" /\ UNCHANGED <<plan, saved>>
           ELSE SaveThen([plan EXCEPT !.emitted = TRUE, !.phase = "done"], "show")
        /\ Rest

Show == /\ pc = "show"
        /\ emitted' = Append(emitted, plan.final)
        /\ pc' = "report"
        /\ UNCHANGED <<plan, saved, log, finals, effects, torn, hollow, crashes, resumes>>

Report == pc = "report" /\ pc' = "off" /\ UNCHANGED <<plan, saved>> /\ Rest

(* The handler of a failure stores what is pending and saves, as it can: the  *)
(* answer is pending once the checkpoint that keeps it has been taken.        *)
Handle == /\ pc \in {"failing", "unstored"}
          /\ pc' = "off"
          /\ \/ saved' = plan
             \/ saved' = saved
          /\ IF pc = "unstored"
             THEN Store(plan.final) \/ log' = log
             ELSE log' = log
          /\ UNCHANGED <<plan, emitted, finals, effects, torn, hollow, crashes, resumes>>

Cancel == /\ pc \in {"prepare", "model", "tools", "finalizer", "record"}
          /\ pc' = "off"
          /\ \/ saved' = plan /\ torn' = (torn \/ pc = "tools")
             \/ UNCHANGED <<saved, torn>>
          /\ UNCHANGED <<plan, log, emitted, finals, effects, hollow, crashes, resumes>>

Crash == /\ pc # "off" /\ crashes < MaxCrashes
         /\ crashes' = crashes + 1
         /\ pc' = "off"
         /\ UNCHANGED <<plan, saved, log, emitted, finals, effects, torn, hollow, resumes>>

Next == \/ Start \/ Resume \/ Prepare \/ Verify \/ Model \/ Validate \/ Tools
        \/ Finalizer \/ Record \/ Mark \/ Show \/ Report \/ Handle \/ Cancel \/ Crash

Spec == Init /\ [][Next]_strictVars

-----------------------------------------------------------------------------
(* The final answer is shown at most once over all processes, after it is in  *)
(* the conversation, which holds one final answer; no other is ever generated *)
(* once it is kept.                                                           *)
OneAnswer ==
    /\ Len(emitted) <= 1
    /\ Len(log) <= 1
    /\ \A i \in DOMAIN emitted : \E j \in DOMAIN log : log[j] = emitted[i]
    /\ saved # Nothing /\ saved.final # 0 /\ pc # "off" => plan.final = saved.final

(* No tool runs after the last step is committed, and only a cancelled tool   *)
(* round lets a step be committed without its results.                        *)
StepsStayDone ==
    /\ effects = 0
    /\ saved # Nothing /\ pc \notin {"off", "failing", "unstored"} => plan.done >= saved.done

StrictSound == OneAnswer /\ StepsStayDone
=============================================================================
