------------------------------- MODULE PlanRun -------------------------------
(***************************************************************************)
(* One run of an agent with the plan engine: PlanExecutionEngine, the      *)
(* PlanAndExecutePolicy it adapts and the ToolRecoveryController, over the *)
(* checkpoint store.  The run is started once and resumed from its         *)
(* checkpoint; it can be interrupted wherever the code awaits.             *)
(*                                                                         *)
(* The policy works on a copy of the engine's state, which the engine      *)
(* pulls back when a policy call returns; what an interrupted or failing   *)
(* policy call did to the copy is lost.  eng is the engine's state, so a   *)
(* policy call changes it only in its last step.                           *)
(***************************************************************************)
EXTENDS Naturals, Sequences, SequencesExt, FiniteSets

CONSTANTS
    Plans,            \* plans the model may answer with, as sequences of step ids
    ToolSteps,        \* the steps with allowed tools
    Modes,            \* tool_failure_recovery.fallback, or without that configuration
                      \* revise_on_tool_failure ("legacy_replan", "legacy_fail")
    Directives,       \* recovery directives that a failed batch may carry
    MaxSteps,         \* limits.max_steps
    MaxStepAttempts,  \* limits.max_step_attempts
    MaxReplans,       \* limits.max_replans
    MaxRepairs,       \* limits.max_tool_repair_attempts
    MaxToolCalls,     \* limits.max_tool_calls, counted in batches
    MaxResumes        \* bound: resumptions of the run

Steps == UNION {ToSet(p) : p \in Plans}

ASSUME PlanRunAssumption ==
    /\ \A p \in Plans : p \in Seq(ToSet(p)) /\ p # <<>> /\ IsInjective(p)
    /\ ToolSteps \subseteq Steps
    /\ Modes \subseteq {"replan", "fail", "legacy_replan", "legacy_fail"}
    /\ Directives \subseteq {"fail", "replan", "repair", "other"}
    /\ MaxSteps \in Nat \ {0} /\ MaxStepAttempts \in Nat \ {0}
    /\ MaxReplans \in Nat /\ MaxRepairs \in Nat /\ MaxToolCalls \in Nat
    /\ MaxResumes \in Nat

VARIABLES
    disk,     \* the checkpoint: no element or one snapshot
    mode,     \* the recovery configuration
    pc,       \* where the live process is
    call,     \* what the current model call is for
    out,      \* the outcome of the tool batch being observed
    run,      \* the common run state (RunContext)
    eng,      \* the engine's state
    last,     \* _last_engine_snapshot
    worked,   \* history: <<step, version>> of the batches in which a call succeeded
    partial,  \* history: a batch succeeded in part
    broken,   \* history: a revision of the plan failed
    drafts,   \* history: answers of the finalizer
    stored,   \* history: answers in the conversation store
    shown,    \* history: emissions of the final answer
    starts    \* starts and resumptions so far

memory == <<call, out, run, eng, last>>
history == <<worked, partial, broken, drafts, stored, shown>>
vars == <<disk, mode, pc, memory, history, starts>>

None == "none"

NoPlan ==
    [phase |-> None, plan |-> <<>>, version |-> 0, done |-> {},
     tried |-> [s \in Steps |-> 0], fixes |-> [s \in Steps |-> 0], pend |-> FALSE,
     replans |-> 0, resp |-> 0, persisted |-> FALSE, emitted |-> FALSE]

FreshRun == [safety |-> "resumable", tools |-> 0, init |-> FALSE]

Init ==
    /\ disk = {} /\ mode \in Modes
    /\ pc = "idle" /\ call = None /\ out = None
    /\ run = FreshRun /\ eng = NoPlan /\ last = NoPlan
    /\ worked = {} /\ partial = FALSE /\ broken = FALSE
    /\ drafts = 0 /\ stored = {} /\ shown = 0
    /\ starts = 0

-----------------------------------------------------------------------------
(* The plan. *)

Complete(e) == ToSet(e.plan) \subseteq e.done

(* plan.current: committed steps come first. *)
Current(e) == e.plan[Cardinality(e.done) + 1]

Begun(p) == [NoPlan EXCEPT !.phase = "prepare", !.plan = p, !.version = 1]

Failed(e) == [e EXCEPT !.phase = "failed"]

(* prepare_current_step: a step without tools starts with its StepResult. *)
Prepared(e) ==
    [e EXCEPT !.phase = IF Current(e) \in ToolSteps THEN "act" ELSE "result",
              !.pend = FALSE]

(* commit_pending *)
Committed(e) ==
    LET c == [e EXCEPT !.done = @ \cup {Current(e)}, !.pend = FALSE]
    IN [c EXCEPT !.phase = IF Complete(c) THEN "verify" ELSE "prepare"]

(* Mutant: a retry does not count as an attempt. *)
RetriedUncounted(e) ==
    IF e.tried[Current(e)] >= MaxStepAttempts THEN Failed(e) ELSE e

(* _retry_invalid_result, _retry_validation *)
Retried(e) ==
    LET r == [e EXCEPT !.tried[Current(e)] = @ + 1]
    IN IF r.tried[Current(e)] >= MaxStepAttempts THEN Failed(r) ELSE r

(* The steps of p that are in S, in the order of p. *)
Ascending(S) ==
    CHOOSE at \in [1..Cardinality(S) -> S] :
        ToSet(at) = S /\ \A i, j \in 1..Cardinality(S) : i < j => at[i] < at[j]

Those(p, S) ==
    LET at == Ascending({k \in DOMAIN p : p[k] \in S}) IN [i \in DOMAIN at |-> p[at[i]]]

(* Mutant: a revised step starts with fresh attempts. *)
RevisedAnew(e, p) ==
    [e EXCEPT !.plan = Those(@, e.done) \o Those(p, ToSet(p) \ e.done),
              !.version = @ + 1, !.replans = @ + 1,
              !.tried = [s \in Steps |-> IF s \in e.done THEN @[s] ELSE 0],
              !.pend = FALSE, !.phase = "prepare"]

(* _apply_replan: committed steps stay, and a step that is open before and  *)
(* after keeps its attempts.                                                *)
Revised(e, p) ==
    LET kept == e.done \cup (ToSet(e.plan) \cap ToSet(p))
    IN [e EXCEPT !.plan = Those(@, e.done) \o Those(p, ToSet(p) \ e.done),
                 !.version = @ + 1, !.replans = @ + 1,
                 !.tried = [s \in Steps |-> IF s \in kept THEN @[s] ELSE 0],
                 !.pend = FALSE, !.phase = "prepare"]

-----------------------------------------------------------------------------
(* Tool recovery. *)

Outcomes == {"ok", "partial"} \cup Directives

(* Whether a failed batch replans or fails when there is no other rule. *)
Fallback == IF mode \in {"replan", "legacy_replan"} THEN "replan" ELSE "fail"

CanRepair(e) == mode \in {"replan", "fail"} /\ e.fixes[Current(e)] < MaxRepairs

(* Mutant: a batch that succeeded in part may be replanned. *)
RulingIgnoresPartial(e, o) ==
    CASE o = "ok" -> "continue"
      [] o \in {"fail", "replan"} -> o
      [] o = "repair" /\ CanRepair(e) -> "repair"
      [] OTHER -> Fallback

(* ToolRecoveryController.decide; "repair" is a batch of one call whose     *)
(* failure is safe to repair with changed arguments.                        *)
Ruling(e, o) ==
    CASE o = "ok" -> "continue"
      [] o = "partial" -> "fail"
      [] o \in {"fail", "replan"} -> o
      [] o = "repair" /\ CanRepair(e) -> "repair"
      [] OTHER -> Fallback

(* The recovery state that the controller leaves behind. *)
Recovered(e, o) ==
    [e EXCEPT !.pend = o # "ok",
              !.fixes[Current(e)] = IF Ruling(e, o) = "repair" THEN @ + 1 ELSE @]

(* Whether PlanAndExecutePolicy.observe revises the plan: without a recovery *)
(* configuration it looks at nothing but that a call failed.                 *)
PolicyReplans(e, o) ==
    IF mode \in {"legacy_replan", "legacy_fail"}
    THEN mode = "legacy_replan" /\ o # "ok"
    ELSE Ruling(e, o) = "replan"

-----------------------------------------------------------------------------
(* Checkpoints and interruptions. *)

Goto(label) == pc' = label

Saved(e) == {[run |-> run, eng |-> e]}

SaveLabels ==
    {"save_start", "save_begin", "save_ask", "save_intent", "save_outcome",
     "save_repair", "save", "save_final", "save_answer", "save_stored", "save_emit"}
Labels ==
    SaveLabels \cup {"loop", "reserve", "provider", "decide", "intent", "tools", "observe",
                     "persist", "show", "finish", "fail"}

(* A reservation and an intent save the last snapshot, the checkpoint after *)
(* a tool batch the engine's state with the controller's recovery state.    *)
Snapshot ==
    CASE pc \in {"reserve", "save_intent"} -> last
      [] pc = "save_outcome" -> Recovered(eng, out)
      [] OTHER -> eng

(* What the call in progress does outside the process although its answer   *)
(* is never seen.                                                           *)
InFlight ==
    \/ /\ pc \in SaveLabels \cup {"reserve"}
       /\ disk' = Saved(Snapshot)
       /\ UNCHANGED history
    \/ /\ pc = "tools"
       /\ worked' = worked \cup {<<Current(eng), eng.version>>}
       /\ UNCHANGED <<disk, partial, broken, drafts, stored, shown>>
    \/ /\ pc = "persist"
       /\ stored' = stored \cup {eng.resp}
       /\ UNCHANGED <<disk, worked, partial, broken, drafts, shown>>
    \/ /\ pc = "finish"
       /\ disk' = {}
       /\ UNCHANGED history

(* The process forgets the run. *)
Leave ==
    /\ pc' = "idle" /\ call' = None /\ out' = None
    /\ run' = FreshRun /\ eng' = NoPlan /\ last' = NoPlan

(* Until the engine has its state, only a first start may write in its      *)
(* except clauses (cleanup_writes_allowed), and the coordinator has no      *)
(* state before initialize() returns.                                       *)
Initializing == call = "plan" \/ pc \in {"save_start", "save_begin"}

(* The state and the marker that the except clauses of _run save. *)
Left ==
    {[run |-> [run EXCEPT !.init = ~Initializing],
      eng |-> IF pc = "save_begin" \/ ~Initializing THEN eng ELSE NoPlan]}

(* Cancellation, timeout or an error of the code awaited: the call in       *)
(* progress may have been carried out, then the best-effort checkpoint of   *)
(* the except clause overwrites the one on disk.                            *)
Interrupt ==
    /\ pc \in Labels \ {"fail"}
    /\ Initializing => starts = 1
    /\ disk' = Left
    /\ \/ pc \in {"tools", "persist"} /\ worked' = worked \cup
             (IF pc = "tools" THEN {<<Current(eng), eng.version>>} ELSE {})
          /\ stored' = stored \cup (IF pc = "persist" THEN {eng.resp} ELSE {})
       \/ UNCHANGED <<worked, stored>>
    /\ Leave
    /\ UNCHANGED <<mode, partial, broken, drafts, shown, starts>>

(* The process dies, or the except clause cannot write. *)
Crash ==
    /\ pc # "idle"
    /\ InFlight \/ UNCHANGED <<disk, history>>
    /\ Leave
    /\ UNCHANGED <<mode, starts>>

(* A model guard trips, at a reservation or on a repeated response. *)
GuardTrips ==
    /\ pc \in {"reserve", "provider"}
    /\ Initializing => starts = 1
    /\ disk' = {[d EXCEPT !.run.safety = "never"] : d \in Left}
    /\ Leave
    /\ UNCHANGED <<mode, history, starts>>

-----------------------------------------------------------------------------
(* Starting and resuming. *)

Launch ==
    /\ pc = "idle" /\ starts = 0
    /\ starts' = 1
    /\ call' = "plan"
    /\ Goto("reserve")
    /\ UNCHANGED <<disk, mode, history, out, run, eng, last>>

(* A run whose initialization was not completed plans anew. *)
Resume ==
    /\ pc = "idle" /\ starts \in 1..MaxResumes
    /\ starts' = starts + 1
    /\ \E d \in disk :
          /\ d.run.safety = "resumable"
          /\ run' = d.run
          /\ last' = d.eng
          /\ IF d.run.init
             THEN eng' = d.eng /\ Goto("loop") /\ UNCHANGED call
             ELSE call' = "plan" /\ Goto("reserve") /\ UNCHANGED eng
    /\ UNCHANGED <<disk, mode, history, out>>

-----------------------------------------------------------------------------
(* RuntimeServices: a checkpoint, and the write-ahead reservation of a      *)
(* model call.                                                              *)

AfterSave ==
    [save_start |-> "save_begin", save_begin |-> "loop", save_ask |-> "reserve",
     save_intent |-> "tools", save_outcome |-> "observe", save_repair |-> "loop",
     save |-> "loop", save_final |-> "reserve", save_answer |-> "persist",
     save_stored |-> "save_emit", save_emit |-> "show"]

(* What the engine has changed in memory by the time of its next await. *)
AfterSaving ==
    CASE pc = "save_repair" -> [eng EXCEPT !.phase = "act"]
      [] pc = "save_stored" -> [eng EXCEPT !.emitted = TRUE, !.phase = "done"]
      [] OTHER -> eng

Checkpoint ==
    /\ pc \in SaveLabels
    /\ disk' = Saved(Snapshot)
    /\ last' = Snapshot
    /\ run' = [run EXCEPT !.init = @ \/ pc = "save_start"]
    /\ eng' = AfterSaving
    /\ Goto(AfterSave[pc])
    /\ UNCHANGED <<mode, history, call, out, starts>>

Reserve ==
    /\ pc = "reserve"
    /\ disk' = Saved(last)
    /\ Goto("provider")
    /\ UNCHANGED <<mode, memory, history, starts>>

-----------------------------------------------------------------------------
(* The engine's loop. *)

Move(e, label) == eng' = e /\ Goto(label)

(* initialize: the policy has a plan. *)
Plan ==
    /\ pc = "provider" /\ call = "plan"
    /\ \E p \in Plans : Move(Begun(p), "save_start")
    /\ call' = None
    /\ UNCHANGED <<disk, mode, history, out, run, last, starts>>

TooLong == Len(eng.plan) > MaxSteps

EndOfRun ==
    /\ pc = "loop"
    /\ \/ TooLong /\ Move(Failed(eng), "fail")
       \/ ~TooLong /\ eng.phase = "failed" /\ Move(eng, "fail")
       \/ ~TooLong /\ eng.phase = "done" /\ Move(eng, "finish")
    /\ UNCHANGED <<disk, mode, history, call, out, run, last, starts>>

Prepare ==
    /\ pc = "loop" /\ ~TooLong
    /\ \/ /\ eng.phase = "prepare" /\ ~Complete(eng)
          /\ Move(Prepared(eng), "save")
       \/ /\ eng.phase = "recovery"
          /\ Move(eng, "save_repair")
    /\ UNCHANGED <<disk, mode, history, call, out, run, last, starts>>

Ask ==
    /\ pc = "loop" /\ ~TooLong /\ eng.phase \in {"act", "result"}
    /\ call' = "step"
    /\ Goto("save_ask")
    /\ UNCHANGED <<disk, mode, history, out, run, eng, last, starts>>

Respond ==
    /\ pc = "provider" /\ call = "step"
    /\ call' = None
    /\ Goto("decide")
    /\ UNCHANGED <<disk, mode, history, out, run, eng, last, starts>>

-----------------------------------------------------------------------------
(* PlanAndExecutePolicy.decide on the model's response. *)

Quiet == UNCHANGED <<disk, mode, history, run, last, starts>>

(* The policy asks for a new plan, unless it has had its replans. *)
Replan ==
    IF eng.replans < MaxReplans
    THEN call' = "revise" /\ Goto("reserve") /\ UNCHANGED <<eng, out>>
    ELSE Move(Failed(eng), "fail") /\ call' = None /\ out' = None

(* A step result without an answer to the pending failure, an unusable      *)
(* repair, or none: _fallback_tool_failure, which raises without a recovery *)
(* configuration.                                                           *)
GiveUpRepair ==
    /\ pc = "decide" /\ eng.pend
    /\ CASE mode = "replan" -> Replan
         [] mode = "fail" -> Move(Failed(eng), "fail") /\ UNCHANGED <<call, out>>
         [] OTHER -> Move(eng, "fail") /\ UNCHANGED <<call, out>>
    /\ Quiet

(* Mutant: a retried step is asked for tools once more. *)
RetryFromTools ==
    /\ pc = "decide" /\ ~eng.pend
    /\ LET r == Retried(eng)
       IN IF r.phase = "failed" THEN Move(r, "fail")
          ELSE Move([r EXCEPT !.phase = IF Current(eng) \in ToolSteps THEN "act" ELSE @],
                    "save")
    /\ UNCHANGED <<call, out>> /\ Quiet

(* An incomplete response or a step result that the validator sends back. *)
Retry ==
    /\ pc = "decide" /\ ~eng.pend
    /\ LET r == Retried(eng) IN Move(r, IF r.phase = "failed" THEN "fail" ELSE "save")
    /\ UNCHANGED <<call, out>> /\ Quiet

(* A turn with tools that called none. *)
AskResult ==
    /\ pc = "decide" /\ ~eng.pend /\ eng.phase = "act"
    /\ Move([eng EXCEPT !.phase = "result"], "save")
    /\ UNCHANGED <<call, out>> /\ Quiet

(* mark_tool_round_complete, then the engine checks the limit. *)
CallTools ==
    /\ pc = "decide" /\ eng.phase = "act"
    /\ IF run.tools < MaxToolCalls
       THEN /\ run' = [run EXCEPT !.tools = @ + 1]
            /\ Move([eng EXCEPT !.phase = "result"], "intent")
       ELSE Move(Failed(eng), "fail") /\ UNCHANGED run
    /\ UNCHANGED <<disk, mode, history, call, out, last, starts>>

(* Forbidden tool calls, a malformed result, or one the validator rejects. *)
Reject ==
    /\ pc = "decide" /\ eng.phase = "result"
    /\ Move(Failed(eng), "fail")
    /\ UNCHANGED <<call, out>> /\ Quiet

Commit ==
    /\ pc = "decide" /\ eng.phase = "result" /\ ~eng.pend
    /\ Move(Committed(eng), "save")
    /\ run' = [run EXCEPT !.safety = "resumable"]
    /\ UNCHANGED <<disk, mode, history, call, out, last, starts>>

(* The validator finds the step blocked. *)
ReplanStep ==
    /\ pc = "decide" /\ eng.phase = "result" /\ ~eng.pend
    /\ Replan
    /\ Quiet

-----------------------------------------------------------------------------
(* A tool batch (_execute_tools). *)

Intent ==
    /\ pc = "intent"
    /\ run' = [run EXCEPT !.safety = "manual"]
    /\ Goto("save_intent")
    /\ UNCHANGED <<disk, mode, history, call, out, eng, last, starts>>

Worked == worked' = worked \cup {<<Current(eng), eng.version>>}

(* Only a batch in which nothing succeeded makes the run resumable. *)
RunTools ==
    /\ pc = "tools"
    /\ \E o \in Outcomes :
          /\ out' = o
          /\ partial' = (partial \/ o = "partial")
          /\ IF o \in {"ok", "partial"}
             THEN Worked /\ UNCHANGED run
             ELSE run' = [run EXCEPT !.safety = "resumable"] /\ UNCHANGED worked
    /\ Goto("save_outcome")
    /\ UNCHANGED <<disk, mode, broken, drafts, stored, shown, call, eng, last, starts>>

(* The batch is refused, its intent cannot be saved, or it fails as a whole. *)
ToolsFail ==
    /\ pc \in {"intent", "save_intent", "tools"}
    /\ \/ pc = "tools" /\ Worked
       \/ UNCHANGED worked
    /\ Move(Failed(eng), "fail")
    /\ UNCHANGED <<disk, mode, partial, broken, drafts, stored, shown, call, out, run,
                   last, starts>>

(* The engine compares what the policy did with the controller's ruling and *)
(* fails the step if they differ (_reconcile_recovery).                     *)
Reconciled(e, ruling) ==
    IF ruling = "replan" THEN Move(e, "save") ELSE Move(Failed(e), "fail")

Observe ==
    /\ pc = "observe"
    /\ LET ruling == Ruling(eng, out)
           next == Recovered(eng, out)
       IN IF PolicyReplans(eng, out)
          THEN Replan
          ELSE /\ CASE ruling = "continue" -> Move(next, "save")
                    [] ruling = "repair" -> Move([next EXCEPT !.phase = "recovery"], "save")
                    [] OTHER -> Move(Failed(next), "fail")
               /\ out' = None
               /\ UNCHANGED call
    /\ Quiet

Revise ==
    /\ pc = "provider" /\ call = "revise"
    /\ \E p \in Plans :
          IF out = None THEN Move(Revised(eng, p), "save")
          ELSE Reconciled(Revised(eng, p), Ruling(eng, out))
    /\ call' = None /\ out' = None
    /\ Quiet

(* No plan comes back: the policy fails its copy of the state and raises,   *)
(* and the engine never pulls that copy.                                    *)
RevisionFails ==
    /\ pc \in {"reserve", "provider"} /\ call = "revise"
    /\ broken' = TRUE
    /\ Goto("fail")
    /\ UNCHANGED <<disk, mode, worked, partial, drafts, stored, shown, memory, starts>>

-----------------------------------------------------------------------------
(* Verification and finalization. *)

(* A resumed finalization with a response on record is not asked again. *)
Finalize ==
    /\ pc = "loop" /\ ~TooLong
    /\ \/ eng.phase \in {"verify", "finalize"}
       \/ eng.phase = "prepare" /\ Complete(eng)
    /\ LET f == [eng EXCEPT !.phase = "finalize"]
       IN CASE f.resp = 0 -> Move(f, "save_final") /\ call' = "final"
            [] f.resp # 0 /\ ~f.persisted -> Move(f, "persist") /\ UNCHANGED call
            [] OTHER -> Move([f EXCEPT !.emitted = TRUE, !.phase = "done"], "save_emit")
                        /\ UNCHANGED call
    /\ UNCHANGED <<disk, mode, history, out, run, last, starts>>

(* Mutant: the answer is stored before it is on record. *)
AnswerUnsaved ==
    /\ pc = "provider" /\ call = "final"
    /\ drafts' = drafts + 1
    /\ Move([eng EXCEPT !.resp = drafts + 1], "persist")
    /\ call' = None
    /\ UNCHANGED <<disk, mode, worked, partial, broken, stored, shown, out, run, last,
                   starts>>

Answer ==
    /\ pc = "provider" /\ call = "final"
    /\ drafts' = drafts + 1
    /\ Move([eng EXCEPT !.resp = drafts + 1], "save_answer")
    /\ call' = None
    /\ UNCHANGED <<disk, mode, worked, partial, broken, stored, shown, out, run, last,
                   starts>>

Persist ==
    /\ pc = "persist"
    /\ stored' = stored \cup {eng.resp}
    /\ Move([eng EXCEPT !.persisted = TRUE], "save_stored")
    /\ UNCHANGED <<disk, mode, worked, partial, broken, drafts, shown, call, out, run,
                   last, starts>>

Show ==
    /\ pc = "show"
    /\ shown' = shown + 1
    /\ Goto("finish")
    /\ UNCHANGED <<disk, mode, worked, partial, broken, drafts, stored, memory, starts>>

(* _finish_outcome: a completed run needs no checkpoint, a failed one is    *)
(* saved as the engine left it.                                             *)
Finish ==
    /\ pc = "finish"
    /\ disk' = {}
    /\ Leave
    /\ UNCHANGED <<mode, history, starts>>

Fail ==
    /\ pc = "fail"
    /\ disk' = Saved(eng)
    /\ Leave
    /\ UNCHANGED <<mode, history, starts>>

-----------------------------------------------------------------------------
Step ==
    \/ Checkpoint \/ Reserve
    \/ Plan \/ EndOfRun \/ Prepare \/ Ask \/ Respond
    \/ GiveUpRepair \/ Retry \/ AskResult \/ CallTools \/ Reject \/ Commit \/ ReplanStep
    \/ Intent \/ RunTools \/ ToolsFail \/ Observe \/ Revise \/ RevisionFails
    \/ Finalize \/ Answer \/ Persist \/ Show
    \/ Finish \/ Fail

Next == Launch \/ Resume \/ Step \/ Interrupt \/ GuardTrips \/ Crash

Spec == Init /\ [][Next]_vars /\ WF_vars(Step)

-----------------------------------------------------------------------------
(* Properties. *)

EngineState ==
    [phase : {None, "prepare", "act", "result", "recovery", "verify", "finalize",
              "done", "failed"},
     plan : Seq(Steps), version : Nat, done : SUBSET Steps,
     tried : [Steps -> 0..MaxStepAttempts], fixes : [Steps -> 0..MaxRepairs],
     pend : BOOLEAN, replans : 0..MaxReplans, resp : Nat,
     persisted : BOOLEAN, emitted : BOOLEAN]

RunState ==
    [safety : {"resumable", "manual", "never"}, tools : 0..MaxToolCalls, init : BOOLEAN]

(* Every variable has its type; in particular attempts, repairs, replans    *)
(* and tool calls stay within their limits, in memory and on disk.          *)
TypeOK ==
    /\ \A d \in disk : d \in [run : RunState, eng : EngineState]
    /\ mode \in Modes
    /\ pc \in {"idle"} \cup Labels
    /\ call \in {None, "plan", "step", "revise", "final"}
    /\ out \in {None} \cup Outcomes
    /\ run \in RunState /\ eng \in EngineState /\ last \in EngineState
    /\ worked \subseteq Steps \X Nat
    /\ partial \in BOOLEAN /\ broken \in BOOLEAN
    /\ drafts \in Nat /\ stored \subseteq 1..drafts /\ shown \in Nat
    /\ starts \in 0..(MaxResumes + 1)

(* A step of a plan version gets no further batch once a call of it has     *)
(* succeeded, in whichever process: the engine goes on to the StepResult,   *)
(* and retries of it do not reopen the tools (decide, execute_tool_batch). *)
ToolsSucceedOnce ==
    pc = "tools" => <<Current(eng), eng.version>> \notin worked

(* After a batch that succeeded in part the run executes no tools, commits  *)
(* no step and gives no answer, whether or not the plan was revised and     *)
(* however it is interrupted (ToolRecoveryController.decide).               *)
PartialBatchEndsRun ==
    partial =>
        /\ pc \notin {"intent", "tools", "decide"}
        /\ stored = {} /\ shown = 0
        /\ \A d \in disk : d.run.safety = "resumable" => d.eng.phase = "failed"

Open(e) == ToSet(e.plan) \ e.done

(* A later state of the engine has lost no progress: committed steps stay   *)
(* in their order, the attempts of a step that stays open are not given     *)
(* back, and neither are replans.                                           *)
Later(a, b) ==
    /\ a.done \subseteq b.done
    /\ IsPrefix(SubSeq(a.plan, 1, Cardinality(a.done)), b.plan)
    /\ \A s \in Open(a) \cap ToSet(b.plan) : a.tried[s] <= b.tried[s]
    /\ a.replans <= b.replans
    /\ a.version <= b.version

(* From one checkpoint of an initialized run to the next no progress is     *)
(* lost, whatever interrupts the process between them (_apply_replan,       *)
(* commit_pending, _retry_invalid_result and the engine's snapshots).       *)
ProgressIsKept ==
    [][\A d \in disk, c \in disk' : d.run.init => Later(d.eng, c.eng)]_vars

(* An answer is stored only for a plan of which every step is committed,    *)
(* only one is ever stored, and it is shown at most once and after that.    *)
AnswerFollowsPlan ==
    /\ Cardinality(stored) <= 1
    /\ stored # {} => \A d \in disk : d.run.init => Complete(d.eng)
    /\ shown <= 1
    /\ shown = 1 => stored # {}

(* A start or resumption comes to an end: retries, repairs, replans and     *)
(* steps cannot feed each other forever.                                    *)
RunEnds == []<>(pc = "idle")

(* A revision that failed leaves no checkpoint from which the step it was   *)
(* for could still be committed (_apply_replan).                            *)
FailedRevisionIsFinal ==
    broken /\ pc = "idle" =>
        \A d \in disk : d.run.safety = "resumable" => d.eng.phase = "failed"

(* The repairs of a step that are on record are not given back. *)
RepairsAreKept ==
    [][\A d \in disk, c \in disk' :
          \A s \in Steps : d.eng.fixes[s] <= c.eng.fixes[s]]_vars

(* Once a call has succeeded for a step, the run is resumable only after    *)
(* a step was committed.                                                    *)
CommittedSince(e) == \A w \in worked : w[1] \in e.done \/ w[1] \notin ToSet(e.plan)
SuccessBlocksResume ==
    \A d \in disk :
        d.run.safety = "resumable" /\ d.eng.phase \notin {"done", "failed"} =>
            CommittedSince(d.eng)
=============================================================================
