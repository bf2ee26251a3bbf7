----------------------------- MODULE StandardRun -----------------------------
(***************************************************************************)
(* One run of an agent with the standard execution engine: RunCoordinator, *)
(* RuntimeServices and StandardExecutionEngine over a checkpoint store and *)
(* a conversation store.  The run is started once and resumed from its     *)
(* checkpoint; one process works on it at a time.  It can be interrupted   *)
(* wherever the code awaits: cancelled, timed out, or killed with the      *)
(* process.                                                                *)
(*                                                                         *)
(* An answer is the number of the provider call that gave it; message 0 is *)
(* the user's input.  Every label of pc is a point where the code awaits   *)
(* or yields; labels starting with "save" are checkpoint calls, with all   *)
(* changes that the checkpoint is to record already made in memory.        *)
(***************************************************************************)
EXTENDS Naturals, Sequences, FiniteSets

CONSTANTS
    MaxSteps,        \* limits.max_steps
    MaxToolCalls,    \* limits.max_tool_calls
    MaxModelTurns,   \* limits.max_model_turns
    RetryAttempts,   \* retry.max_attempts
    Decisions,       \* what the decision policy may answer
    AuxCalls,        \* model calls beside the engine's: skill selection, memory summary
    StagedModes,     \* values of staged_finalization to consider
    RetainModes,     \* values of retain_terminal_checkpoint to consider
    Faults,          \* "setup": setup may fail; "store": best-effort writes may fail;
                     \* "crash": the process may die
    MaxResumes       \* bound: resumptions of the run

ASSUME StandardRunAssumption ==
    /\ MaxSteps \in Nat \ {0} /\ MaxModelTurns \in Nat \ {0}
    /\ RetryAttempts \in Nat \ {0} /\ MaxToolCalls \in Nat /\ MaxResumes \in Nat
    /\ Decisions \subseteq {"finish", "finish_calls", "custom", "tools", "continue", "fail"}
    /\ AuxCalls \subseteq {"skills", "summary"}
    /\ StagedModes \subseteq BOOLEAN /\ RetainModes \subseteq BOOLEAN
    /\ Faults \subseteq {"setup", "store", "crash"}

VARIABLES
    disk,      \* the checkpoint: no element or one snapshot
    log,       \* the run's batches in the conversation store, by batch number
    calls,     \* history: provider calls made
    ran,       \* history: tool batches that have had effect
    shown,     \* history: emissions of the final answer
    staged,    \* staged_finalization
    retain,    \* retain_terminal_checkpoint
    pc,        \* where the live process is
    run,       \* the common run state (RunContext)
    eng,       \* the engine state
    last,      \* _last_engine_snapshot
    canWrite,  \* cleanup_writes_allowed
    seen,      \* tool batches whose outcomes are among the messages in memory
    call,      \* who makes the current model call; "barred" is the engine's, which the guard
               \* will refuse for an attempt left pending
    tries,     \* attempts of the current model call
    said,      \* the last answer
    fin,       \* how the run is being ended
    told,      \* the terminal event of the last start or resumption
    refused,   \* history: the conversation store refused a batch
    starts     \* starts and resumptions so far

world == <<disk, log, calls, ran, shown>>
memory == <<run, eng, last, canWrite, seen, call, tries, said, fin>>
mode == <<staged, retain>>
rest == <<mode, told, refused, starts>>
vars == <<world, memory, rest, pc>>

NoEngine ==
    [phase |-> "none", turn |-> 0, tools |-> 0, resp |-> 0,
     persisted |-> FALSE, emitted |-> FALSE]

FreshRun ==
    [step |-> 0, tools |-> 0, safety |-> "resumable", new |-> <<0>>, batch |-> 0,
     guard |-> 0, init |-> FALSE, skills |-> FALSE, public |-> FALSE]

NoEnd == [kind |-> "none", claim |-> FALSE, handler |-> FALSE]
NotTold == [kind |-> "none", claim |-> FALSE, answer |-> 0]

SaveLabels ==
    {"save0", "save1", "save_before", "save_reserve", "save_intent", "save_after",
     "save_abort", "save_continue", "save_final", "save_answer", "save_stored",
     "save_emit"}
WorkLabels ==
    SaveLabels \cup
    {"skills", "start", "execute", "loop", "prepare", "reserve", "provider", "decide",
     "intent", "tools", "finalize", "decode", "publish", "store", "emit", "show",
     "finish", "retire"}
EndLabels == {"persist", "keep", "tell", "keep2", "deliver"}

Init ==
    /\ disk = {} /\ log = <<>>
    /\ calls = 0 /\ ran = 0 /\ shown = 0
    /\ staged \in StagedModes /\ retain \in RetainModes
    /\ pc = "idle"
    /\ run = FreshRun /\ eng = NoEngine /\ last = NoEngine
    /\ canWrite = FALSE
    /\ seen = 0 /\ call = "model" /\ tries = 0 /\ said = 0
    /\ fin = NoEnd /\ told = NotTold
    /\ refused = FALSE
    /\ starts = 0

-----------------------------------------------------------------------------
(* The two stores. *)

(* checkpoint() inside a model call or before a tool batch saves the last   *)
(* engine snapshot; elsewhere the engine passes its own state.              *)
Snapshot == IF pc \in {"save_reserve", "save_intent"} THEN last ELSE eng

Saved(e) == {[run |-> run, eng |-> e]}

Deletes == pc = "retire" /\ fin.kind = "completed" /\ ~retain

(* append_once with the key of the current batch. *)
Recorded == run.batch < Len(log)
Conflict == run.new # <<>> /\ Recorded /\ log[run.batch + 1] # run.new

Appended == IF run.new = <<>> \/ Recorded THEN log ELSE Append(log, run.new)

(* Mutant: the next batch uses the same key. *)
BatchDoneSameKey(r) == IF r.new = <<>> THEN r ELSE [r EXCEPT !.new = <<>>]

BatchDone(r) == IF r.new = <<>> THEN r ELSE [r EXCEPT !.new = <<>>, !.batch = @ + 1]

(* What the call in progress does outside the process when it is carried    *)
(* out although its answer is never seen.                                   *)
InFlight ==
    \/ /\ pc \in SaveLabels
       /\ disk' = Saved(Snapshot)
       /\ UNCHANGED <<log, calls, ran, shown>>
    \/ /\ pc \in {"store", "finish", "persist"} /\ ~Conflict
       /\ log' = Appended
       /\ UNCHANGED <<disk, calls, ran, shown>>
    \/ /\ Deletes
       /\ disk' = {}
       /\ UNCHANGED <<log, calls, ran, shown>>
    \/ /\ pc = "provider"
       /\ calls' = calls + 1
       /\ UNCHANGED <<disk, log, ran, shown>>
    \/ /\ pc = "tools"
       /\ ran' = ran + 1
       /\ UNCHANGED <<disk, log, calls, shown>>

-----------------------------------------------------------------------------
(* Ending a run. *)

Goto(label) == pc' = label

(* The process forgets the run. *)
Leave ==
    /\ pc' = "idle"
    /\ run' = FreshRun /\ eng' = NoEngine /\ last' = NoEngine
    /\ canWrite' = FALSE
    /\ seen' = 0 /\ call' = "model" /\ tries' = 0 /\ said' = 0
    /\ fin' = NoEnd

(* Mutant: only a tripped guard rules out a resumption. *)
ClaimUnlessGuard(r) == r.safety # "never"

Claim(r) == r.safety = "resumable"

(* The except clauses of _run.  A failed initialize leaves no engine state, *)
(* and any failure of the initialization resets its marker.                 *)
Handle(kind, r, claim) ==
    IF kind = "cancelled" /\ ~canWrite
    THEN Leave
    ELSE /\ run' = [r EXCEPT !.init = @ /\ pc # "save1"]
         /\ eng' = IF pc = "save0" THEN NoEngine ELSE eng
         /\ fin' = [kind |-> kind, claim |-> claim, handler |-> TRUE]
         /\ Goto(IF canWrite THEN "persist" ELSE "tell")
         /\ UNCHANGED <<last, canWrite, seen, call, tries, said>>

Fails == Handle("failed", run, Claim(run))
GuardTrips == Handle("failed", [run EXCEPT !.safety = "never"], FALSE)

(* The engine yields its outcome. *)
Outcome(kind) ==
    /\ fin' = [kind |-> kind, claim |-> kind = "failed" /\ Claim(run), handler |-> FALSE]
    /\ Goto("finish")

-----------------------------------------------------------------------------
(* Starting and resuming (_run up to the engine's loop). *)

Launch ==
    /\ pc = "idle" /\ starts = 0
    /\ starts' = 1
    /\ canWrite' = TRUE
    /\ told' = NotTold
    /\ Goto("skills")
    /\ UNCHANGED <<world, run, eng, last, seen, call, tries, said, fin, mode, refused>>

(* Setup fails: a PersistenceError makes the bootstrap manual_required, any *)
(* other error leaves the default.  Nothing is written.                     *)
SetupFails ==
    /\ "setup" \in Faults
    /\ pc = "idle" /\ starts <= MaxResumes
    /\ starts' = starts + 1
    /\ \E claim \in BOOLEAN :
          told' = [kind |-> "failed", claim |-> claim, answer |-> 0]
    /\ UNCHANGED <<world, memory, mode, refused, pc>>

(* Mutant: the resume safety of the checkpoint is not looked at. *)
ResumeAnything ==
    /\ pc = "idle" /\ starts \in 1..MaxResumes
    /\ starts' = starts + 1
    /\ \E d \in disk : run' = d.run /\ last' = d.eng
    /\ told' = NotTold
    /\ Goto("skills")
    /\ UNCHANGED <<world, eng, canWrite, seen, call, tries, said, fin, mode, refused>>

(* _load_resume; ephemeral messages were not saved, so tool outcomes are    *)
(* not among the restored messages.                                         *)
Resume ==
    /\ pc = "idle" /\ starts \in 1..MaxResumes
    /\ starts' = starts + 1
    /\ \E d \in disk :
          /\ d.run.safety = "resumable"
          /\ run' = d.run
          /\ last' = d.eng
    /\ told' = NotTold
    /\ Goto("skills")
    /\ UNCHANGED <<world, eng, canWrite, seen, call, tries, said, fin, mode, refused>>

RefuseResume ==
    /\ pc = "idle" /\ starts \in 1..MaxResumes
    /\ \A d \in disk : d.run.safety # "resumable"
    /\ starts' = starts + 1
    /\ told' = [kind |-> "failed", claim |-> FALSE, answer |-> 0]
    /\ UNCHANGED <<world, memory, mode, refused, pc>>

SelectSkills ==
    /\ pc = "skills"
    /\ IF "skills" \in AuxCalls /\ ~run.skills
       THEN call' = "skills" /\ Goto("reserve")
       ELSE UNCHANGED call /\ Goto("start")
    /\ UNCHANGED <<world, rest, run, eng, last, canWrite, seen, tries, said, fin>>

(* validate_resume *)
Compatible == run.step = last.turn /\ run.tools = last.tools

(* initialize() saves its first state before the coordinator has it. *)
StartEngine ==
    /\ pc = "start"
    /\ IF ~run.init
       THEN /\ eng' = [NoEngine EXCEPT !.phase = "act", !.turn = run.step,
                                       !.tools = run.tools]
            /\ Goto("save0")
            /\ UNCHANGED <<run, last, canWrite, seen, call, tries, said, fin>>
       ELSE IF last.phase # "none" /\ Compatible
       THEN /\ eng' = last
            /\ canWrite' = TRUE
            /\ Goto("execute")
            /\ UNCHANGED <<run, last, seen, call, tries, said, fin>>
       ELSE Handle("failed", run, FALSE)
    /\ UNCHANGED <<world, rest>>

-----------------------------------------------------------------------------
(* RuntimeServices.checkpoint. *)

AfterSave ==
    [save0 |-> "save1", save1 |-> "execute", save_before |-> "reserve",
     save_reserve |-> "provider", save_intent |-> "tools", save_after |-> "loop",
     save_continue |-> "loop", save_final |-> "prepare", save_answer |-> "publish",
     save_stored |-> "emit", save_emit |-> "show"]

Checkpoint ==
    /\ pc \in SaveLabels \ {"save_abort"}
    /\ disk' = Saved(Snapshot)
    /\ last' = Snapshot
    /\ run' = IF pc = "save0" THEN [run EXCEPT !.init = TRUE] ELSE run
    /\ canWrite' = (canWrite \/ pc = "save1")
    /\ Goto(AfterSave[pc])
    /\ UNCHANGED <<log, calls, ran, shown, rest, eng, seen, call, tries, said, fin>>

(* The checkpoint after a failed tool batch, before the error goes on. *)
CheckpointAborted ==
    /\ pc = "save_abort"
    /\ disk' = Saved(eng)
    /\ Fails
    /\ UNCHANGED <<log, calls, ran, shown, rest>>

-----------------------------------------------------------------------------
(* A model call through RuntimeServices, for any purpose. *)

(* Mutant: only the first attempt is checkpointed. *)
ReserveRetriesUnsaved ==
    /\ pc = "reserve"
    /\ IF run.guard < MaxModelTurns
       THEN /\ run' = [run EXCEPT !.guard = @ + 1]
            /\ tries' = tries + 1
            /\ Goto(IF tries = 0 THEN "save_reserve" ELSE "provider")
            /\ UNCHANGED <<eng, last, canWrite, seen, call, said, fin>>
       ELSE GuardTrips
    /\ UNCHANGED <<world, rest>>

Reserve ==
    /\ pc = "reserve"
    /\ IF call = "barred" THEN Fails
       ELSE IF run.guard < MaxModelTurns
       THEN /\ run' = [run EXCEPT !.guard = @ + 1]
            /\ tries' = tries + 1
            /\ Goto("save_reserve")
            /\ UNCHANGED <<eng, last, canWrite, seen, call, said, fin>>
       ELSE GuardTrips
    /\ UNCHANGED <<world, rest>>

AfterCall ==
    CASE call = "skills" -> "start"
      [] call = "summary" -> IF eng.phase = "finalize" THEN "reserve" ELSE "save_before"
      [] call = "model" -> IF eng.phase = "finalize" THEN "decode" ELSE "decide"

Respond ==
    /\ pc = "provider"
    /\ calls' = calls + 1
    /\ said' = calls + 1
    /\ run' = [run EXCEPT !.skills = @ \/ call = "skills"]
    /\ tries' = 0 /\ call' = "model"
    /\ Goto(AfterCall)
    /\ UNCHANGED <<disk, log, ran, shown, rest, eng, last, canWrite, seen, fin>>

(* A retryable failure: the next attempt reserves a turn of its own. *)
RetryCall ==
    /\ pc = "provider" /\ tries < RetryAttempts
    /\ calls' = calls + 1
    /\ Goto("reserve")
    /\ UNCHANGED <<disk, log, ran, shown, rest, memory>>

(* The no-progress breaker trips on a repeated response. *)
NoProgress ==
    /\ pc = "provider" /\ run.guard > 1
    /\ calls' = calls + 1
    /\ GuardTrips
    /\ UNCHANGED <<disk, log, ran, shown, rest>>

(* A summary that cannot be had is done without.  When it is for want of    *)
(* the checkpoint of its reservation, nothing abandons the attempt.         *)
SkipSummary ==
    /\ call = "summary" /\ pc \in {"save_reserve", "provider"}
    /\ InFlight \/ UNCHANGED world
    /\ last' = IF pc = "save_reserve" THEN Snapshot ELSE last
    /\ tries' = 0 /\ call' = IF pc = "save_reserve" THEN "barred" ELSE "model"
    /\ Goto(AfterCall)
    /\ UNCHANGED <<rest, run, eng, canWrite, seen, said, fin>>

-----------------------------------------------------------------------------
(* StandardExecutionEngine.execute. *)

Execute ==
    /\ pc = "execute"
    /\ CASE eng.phase = "act" -> Goto("loop") /\ UNCHANGED memory
         [] eng.phase = "finalize" -> Goto("finalize") /\ UNCHANGED memory
         [] eng.phase = "done" /\ eng.resp = 0 -> Fails
         [] OTHER ->
              /\ Outcome(IF eng.phase = "done" THEN "completed" ELSE "failed")
              /\ UNCHANGED <<run, eng, last, canWrite, seen, call, tries, said>>
    /\ UNCHANGED <<world, rest>>

Turn ==
    /\ pc = "loop"
    /\ IF eng.turn < MaxSteps
       THEN /\ eng' = [eng EXCEPT !.phase = "act", !.turn = @ + 1]
            /\ run' = [run EXCEPT !.step = eng.turn + 1]
            /\ Goto("prepare")
            /\ UNCHANGED fin
       ELSE /\ eng' = [eng EXCEPT !.phase = "failed"]
            /\ Outcome("failed")
            /\ UNCHANGED run
    /\ UNCHANGED <<world, rest, last, canWrite, seen, call, tries, said>>

(* prepare_model_request may ask for a summary of the conversation; the     *)
(* FINALIZE request follows its checkpoint, the ACT request precedes it.    *)
Prepare ==
    /\ pc = "prepare"
    /\ \/ /\ "summary" \in AuxCalls
          /\ call' = "summary"
          /\ Goto("reserve")
       \/ /\ Goto(IF eng.phase = "finalize" THEN "reserve" ELSE "save_before")
          /\ UNCHANGED call
    /\ UNCHANGED <<world, rest, run, eng, last, canWrite, seen, tries, said, fin>>

(* Mutant: the answer is not among the messages to be stored. *)
DecideFinishUnpromoted ==
    /\ pc = "decide" /\ "finish" \in Decisions
    /\ Goto(IF staged THEN "finalize" ELSE "decode")
    /\ UNCHANGED <<world, rest, memory>>

(* FINISH: with staged finalization a further model call gives the answer;  *)
(* without it the response is promoted to the messages to be stored, unless *)
(* it has tool calls, then the decision event is yielded, then the output   *)
(* is decoded.                                                              *)
DecideFinish ==
    /\ pc = "decide"
    /\ \E d \in Decisions \cap {"finish", "finish_calls"} :
          IF staged
          THEN Goto("finalize") /\ UNCHANGED run
          ELSE /\ run' = IF d = "finish" THEN [run EXCEPT !.new = Append(@, said)] ELSE run
               /\ Goto("decode")
    /\ UNCHANGED <<world, rest, eng, last, canWrite, seen, call, tries, said, fin>>

(* FINISH with an output of the policy's own, which cannot be replayed. *)
DecideCustom ==
    /\ pc = "decide" /\ "custom" \in Decisions
    /\ eng' = [eng EXCEPT !.phase = "done"]
    /\ run' = [run EXCEPT !.safety = "manual"]
    /\ Outcome("completed")
    /\ UNCHANGED <<world, rest, last, canWrite, seen, call, tries, said>>

DecideFail ==
    /\ pc = "decide" /\ "fail" \in Decisions
    /\ eng' = [eng EXCEPT !.phase = "failed"]
    /\ Outcome("failed")
    /\ UNCHANGED <<world, rest, run, last, canWrite, seen, call, tries, said>>

DecideContinue ==
    /\ pc = "decide" /\ "continue" \in Decisions
    /\ run' = [run EXCEPT !.safety = "resumable"]
    /\ Goto("save_continue")
    /\ UNCHANGED <<world, rest, eng, last, canWrite, seen, call, tries, said, fin>>

DecideTools ==
    /\ pc = "decide" /\ "tools" \in Decisions
    /\ IF eng.tools < MaxToolCalls
       THEN /\ eng' = [eng EXCEPT !.tools = @ + 1]
            /\ run' = [run EXCEPT !.tools = eng.tools + 1]
            /\ Goto("intent")
            /\ UNCHANGED fin
       ELSE /\ eng' = [eng EXCEPT !.phase = "failed"]
            /\ Outcome("failed")
            /\ UNCHANGED run
    /\ UNCHANGED <<world, rest, last, canWrite, seen, call, tries, said>>

-----------------------------------------------------------------------------
(* execute_tool_batch: a batch may be refused before its intent is saved. *)

(* Mutant: the intent does not block a resumption. *)
IntentUnmarked ==
    /\ pc = "intent"
    /\ Goto("save_intent")
    /\ UNCHANGED <<world, rest, memory>>

Intent ==
    /\ pc = "intent"
    /\ run' = [run EXCEPT !.safety = "manual"]
    /\ Goto("save_intent")
    /\ UNCHANGED <<world, rest, eng, last, canWrite, seen, call, tries, said, fin>>

(* The batch is executed and its outcomes added to the messages. *)
RunTools ==
    /\ pc = "tools"
    /\ ran' = ran + 1
    /\ seen' = seen + 1
    /\ Goto("save_after")
    /\ UNCHANGED <<disk, log, calls, shown, rest, run, eng, last, canWrite, call, tries,
                   said, fin>>

(* Refusal, failure of the intent's checkpoint, failure or timeout of the   *)
(* batch: the engine adds failure messages and checkpoints before raising.  *)
ToolsFail ==
    /\ pc \in {"intent", "save_intent", "tools"}
    /\ InFlight \/ UNCHANGED world
    /\ Goto("save_abort")
    /\ UNCHANGED <<rest, memory>>

-----------------------------------------------------------------------------
(* Decoding, and staged finalization (_finalize). *)

(* _record_final_response *)
Decode ==
    /\ pc = "decode"
    /\ run' = [run EXCEPT !.safety = "resumable"]
    /\ IF staged
       THEN /\ eng' = [eng EXCEPT !.resp = said]
            /\ Goto("save_answer")
            /\ UNCHANGED fin
       ELSE /\ eng' = [eng EXCEPT !.resp = said, !.phase = "done"]
            /\ Outcome("completed")
    /\ UNCHANGED <<world, rest, last, canWrite, seen, call, tries, said>>

Finalize ==
    /\ pc = "finalize"
    /\ eng' = [eng EXCEPT !.phase = "finalize"]
    /\ Goto(IF eng.resp = 0 THEN "save_final" ELSE "publish")
    /\ UNCHANGED <<world, rest, run, last, canWrite, seen, call, tries, said, fin>>

(* persist_finalization adds the answer unless the messages have it. *)
Publish ==
    /\ pc = "publish"
    /\ IF eng.persisted
       THEN Goto("emit") /\ UNCHANGED run
       ELSE /\ run' = IF run.public THEN run
                      ELSE [run EXCEPT !.public = TRUE, !.new = Append(@, eng.resp)]
            /\ Goto("store")
    /\ UNCHANGED <<world, rest, eng, last, canWrite, seen, call, tries, said, fin>>

(* _persist_pending_messages, in _finalize and in _finish_outcome.  A key   *)
(* that was used for other messages is an error.                            *)
Persist ==
    /\ pc \in {"store", "finish"}
    /\ IF Conflict
       THEN Fails /\ refused' = TRUE /\ UNCHANGED log
       ELSE /\ log' = Appended
            /\ run' = BatchDone(run)
            /\ eng' = [eng EXCEPT !.persisted = @ \/ pc = "store"]
            /\ Goto(IF pc = "store" THEN "save_stored" ELSE "retire")
            /\ UNCHANGED <<refused, last, canWrite, seen, call, tries, said, fin>>
    /\ UNCHANGED <<disk, calls, ran, shown, mode, told, starts>>

Emit ==
    /\ pc = "emit"
    /\ IF eng.emitted
       THEN Outcome("completed") /\ UNCHANGED eng
       ELSE /\ eng' = [eng EXCEPT !.emitted = TRUE, !.phase = "done"]
            /\ Goto("save_emit")
            /\ UNCHANGED fin
    /\ UNCHANGED <<world, rest, run, last, canWrite, seen, call, tries, said>>

Show ==
    /\ pc = "show"
    /\ shown' = shown + 1
    /\ Outcome("completed")
    /\ UNCHANGED <<disk, log, calls, ran, rest, run, eng, last, canWrite, seen, call,
                   tries, said>>

-----------------------------------------------------------------------------
(* _finish_outcome and the except clauses, up to the terminal event. *)

(* checkpoint_safely swallows its errors, with or without effect. *)
SaveSafely ==
    \/ disk' = Saved(eng)
    \/ "store" \in Faults /\ UNCHANGED disk

Retire ==
    /\ pc = "retire"
    /\ IF Deletes THEN disk' = {} ELSE SaveSafely
    /\ Goto("tell")
    /\ UNCHANGED <<log, calls, ran, shown, rest, memory>>

PersistSafely ==
    /\ pc = "persist"
    /\ \/ /\ ~Conflict
          /\ log' = Appended
          /\ run' = BatchDone(run)
          /\ UNCHANGED refused
       \/ /\ Conflict
          /\ refused' = TRUE
          /\ UNCHANGED <<log, run>>
       \/ /\ "store" \in Faults
          /\ log' = log \/ (~Conflict /\ log' = Appended)
          /\ UNCHANGED <<run, refused>>
    /\ Goto("keep")
    /\ UNCHANGED <<disk, calls, ran, shown, mode, told, starts, eng, last, canWrite,
                   seen, call, tries, said, fin>>

Keep ==
    /\ pc = "keep"
    /\ SaveSafely
    /\ IF fin.kind = "cancelled" THEN Leave ELSE Goto("tell") /\ UNCHANGED memory
    /\ UNCHANGED <<log, calls, ran, shown, rest>>

(* The terminal event; its error summary is computed from memory. *)
Tell ==
    /\ pc = "tell"
    /\ told' = [kind |-> fin.kind, claim |-> fin.claim,
                answer |-> IF fin.kind = "completed" THEN eng.resp ELSE 0]
    /\ IF canWrite THEN Goto("keep2") /\ UNCHANGED memory ELSE Leave
    /\ UNCHANGED <<world, mode, refused, starts>>

(* A failed or retained run is checkpointed once more. *)
KeepAgain ==
    /\ pc = "keep2"
    /\ IF fin.kind = "failed" \/ retain THEN SaveSafely ELSE UNCHANGED disk
    /\ IF fin.handler THEN Leave ELSE Goto("deliver") /\ UNCHANGED memory
    /\ UNCHANGED <<log, calls, ran, shown, rest>>

Deliver ==
    /\ pc = "deliver"
    /\ Leave
    /\ UNCHANGED <<world, rest>>

-----------------------------------------------------------------------------
(* Interruptions: the call in progress may have been carried out. *)

(* CancelledError or GeneratorExit.  A second cancellation, in the middle   *)
(* of an except clause, drops what is left of it, like a crash.             *)
Cancel ==
    /\ pc \in WorkLabels \cup {"tell", "keep2", "deliver"}
    /\ ~fin.handler
    /\ InFlight \/ UNCHANGED world
    /\ Handle("cancelled", run, FALSE)
    /\ UNCHANGED rest

(* A timeout, a failing store, an output that does not decode, or any other *)
(* error of the code awaited.                                               *)
Raise ==
    /\ pc \in WorkLabels \ {"intent", "save_intent", "tools"}
    /\ pc = "retire" => Deletes
    /\ InFlight \/ UNCHANGED world
    /\ Fails
    /\ UNCHANGED rest

(* The process dies. *)
Crash ==
    /\ "crash" \in Faults
    /\ pc # "idle"
    /\ InFlight \/ UNCHANGED world
    /\ Leave
    /\ UNCHANGED rest

-----------------------------------------------------------------------------
Next ==
    \/ Launch \/ SetupFails \/ Resume \/ RefuseResume
    \/ SelectSkills \/ StartEngine
    \/ Checkpoint \/ CheckpointAborted
    \/ Reserve \/ Respond \/ RetryCall \/ NoProgress \/ SkipSummary
    \/ Execute \/ Turn \/ Prepare
    \/ DecideFinish \/ DecideCustom \/ DecideFail \/ DecideContinue \/ DecideTools
    \/ Intent \/ RunTools \/ ToolsFail
    \/ Decode \/ Finalize \/ Publish \/ Persist \/ Emit \/ Show
    \/ Retire \/ PersistSafely \/ Keep \/ Tell \/ KeepAgain \/ Deliver
    \/ Cancel \/ Raise \/ Crash

Spec == Init /\ [][Next]_vars

-----------------------------------------------------------------------------
(* Properties. *)

EngineState ==
    [phase : {"none", "act", "finalize", "done", "failed"}, turn : 0..MaxSteps,
     tools : 0..MaxToolCalls, resp : 0..MaxModelTurns,
     persisted : BOOLEAN, emitted : BOOLEAN]

RunState ==
    [step : 0..MaxSteps, tools : 0..MaxToolCalls,
     safety : {"resumable", "manual", "never"}, new : Seq(0..MaxModelTurns),
     batch : Nat, guard : 0..MaxModelTurns,
     init : BOOLEAN, skills : BOOLEAN, public : BOOLEAN]

(* Every variable has its type; in particular the run's counters stay       *)
(* within its limits, across resumptions too, and answers are provider      *)
(* calls within max_model_turns.                                            *)
TypeOK ==
    /\ \A d \in disk : d \in [run : RunState, eng : EngineState]
    /\ log \in Seq(Seq(0..MaxModelTurns))
    /\ calls \in 0..MaxModelTurns /\ ran \in Nat /\ shown \in Nat
    /\ staged \in BOOLEAN /\ retain \in BOOLEAN
    /\ pc \in {"idle"} \cup WorkLabels \cup EndLabels
    /\ run \in RunState /\ eng \in EngineState /\ last \in EngineState
    /\ canWrite \in BOOLEAN /\ seen \in Nat
    /\ call \in {"skills", "summary", "model", "barred"}
    /\ tries \in 0..RetryAttempts /\ said \in 0..MaxModelTurns
    /\ fin \in [kind : {"none", "completed", "failed", "cancelled"}, claim : BOOLEAN,
                handler : BOOLEAN]
    /\ told \in [kind : {"none", "completed", "failed"}, claim : BOOLEAN,
                 answer : 0..MaxModelTurns]
    /\ refused \in BOOLEAN
    /\ starts \in 0..(MaxResumes + 1)

(* A provider is never called for a turn that is not on record: a           *)
(* checkpoint always accounts for every call made so far, in whichever      *)
(* process, so a crash never gives turns back (_before_model_attempt).      *)
TurnsReservedAhead == \A d \in disk : calls <= d.run.guard

(* No checkpoint of a run with executed tools and no recorded answer may be *)
(* resumed: the intent is saved first, and only the answer clears it        *)
(* (execute_tool_batch, _record_final_response).                            *)
ToolsBlockResume ==
    \A d \in disk : d.run.safety = "resumable" /\ d.eng.resp = 0 => ran = 0

(* When the engine asks the model, the outcomes of all tools that the run   *)
(* has executed are among the messages.                                     *)
ModelSeesToolOutcomes ==
    pc = "provider" /\ call = "model" => seen = ran

(* A checkpoint that was left behind and says it is resumable is accepted   *)
(* by validate_resume and can be continued.                                 *)
ResumableIsAccepted ==
    \A d \in disk :
        pc = "idle" /\ d.run.safety = "resumable" /\ d.run.init =>
            /\ d.eng.phase # "none"
            /\ d.run.step = d.eng.turn /\ d.run.tools = d.eng.tools
            /\ d.eng.phase = "done" => d.eng.resp # 0

(* A tripped guard is final: no later checkpoint of the run is resumable    *)
(* (_run, for the reasons in _NON_RESUMABLE_GUARD_REASONS).                 *)
GuardTripIsFinal ==
    [][\A d \in disk, e \in disk' : d.run.safety = "never" => e.run.safety = "never"]_vars

Stored == UNION {{b} \X (1..Len(log[b])) : b \in 1..Len(log)}
Answers == {p \in Stored : log[p[1]][p[2]] # 0}
Inputs == Stored \ Answers

(* The answer of a run that was reported as completed is in the             *)
(* conversation, after the input.                                           *)
CompletedIsRecorded ==
    told.kind = "completed" /\ told.answer # 0 =>
        /\ \E p \in Answers : log[p[1]][p[2]] = told.answer
        /\ Inputs # {}

(* The conversation gets at most one answer of the run. *)
OneAnswer == Cardinality(Answers) <= 1

(* However often the run is resumed, the conversation gets its input at     *)
(* most once and, with staged finalization, at most one answer, whatever is *)
(* interrupted between generating, storing and marking it.                  *)
RecordedOnce == Cardinality(Inputs) <= 1 /\ (staged => OneAnswer)

(* The final answer of staged finalization is shown at most once, and only  *)
(* after it was stored (emit_finalization).                                 *)
ShownOnceAfterStored == shown <= 1 /\ (shown = 1 => Answers # {})

(* A checkpoint that says the run is resumable can be continued, and        *)
(* continues with everything the tools have done.                           *)
ResumesAreSafe == ToolsBlockResume /\ ModelSeesToolOutcomes /\ ResumableIsAccepted

(* What is told, shown and stored is one answer, stored first. *)
AnswersAreHonest == TypeOK /\ CompletedIsRecorded /\ RecordedOnce /\ ShownOnceAfterStored

(* The conversation store never refuses a batch of the run. *)
NoPersistConflict == ~refused

(* A failure that was reported as resumable left a resumable checkpoint. *)
ResumableClaimHolds ==
    pc = "idle" /\ told.kind = "failed" /\ told.claim =>
        \E d \in disk : d.run.safety = "resumable"
=============================================================================
