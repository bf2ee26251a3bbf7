------------------------------ MODULE DirectRun ------------------------------
(* A run of AgentRuntime used directly, without the coordinator (runtime.py): *)
(* the loop of model turns, decisions and tools, the optional finalization    *)
(* turn, the model guard whose state lives in the checkpoint, and what the    *)
(* error handlers write.  The process may die at every await and the caller   *)
(* may resume the run, rightly or with a request the runtime refuses.         *)
EXTENDS Integers, Sequences, FiniteSets, SequencesExt

CONSTANTS MaxSteps, MaxTurns, MaxToolCalls, MaxAttempts,   \* limits of the run
          Nothing,
          MaxCrashes,    \* bound: deaths of the process
          MaxResumes     \* bound: resumes, refused ones included

VARIABLES staged,        \* finalization_mode asks for a finalization turn
          pc,            \* what the run awaits; off when no process has it
          ctx,           \* its RunContext
          attempt,       \* attempts of the current model request
          saved,         \* the checkpoint under its run id
          log,           \* the conversation of its session
          batches,       \* append_once keys of this run -> what was appended
          outcome,       \* what the caller was told last
          provider,      \* provider calls, over all processes
          ran,           \* executions of business tools, over all processes
          lost,          \* executions no checkpoint of their process counted
          forgot,        \* a refused resume replaced the checkpoint
          crashes, resumes

directVars == <<staged, pc, ctx, attempt, saved, log, batches, outcome, provider, ran, lost,
                forgot, crashes, resumes>>

Blank(input) == [step |-> 0, calls |-> 0, turns |-> 0, msgs |-> <<input>>,
                 fresh |-> <<input>>, fin |-> "none", batch |-> 0, safe |-> "resumable"]

Init == /\ staged \in BOOLEAN
        /\ pc = "off"
        /\ ctx = Blank(<<"user", 0>>)
        /\ attempt = 0
        /\ saved = Nothing
        /\ log = <<>>
        /\ batches = <<>>
        /\ outcome = "none"
        /\ provider = 0 /\ ran = 0
        /\ lost = 0 /\ forgot = FALSE
        /\ crashes = 0 /\ resumes = 0

Add(c, ms) == [c EXCEPT !.msgs = @ \o ms, !.fresh = @ \o ms]

Uncounted(checkpoint) ==
    IF checkpoint = Nothing \/ pc \in {"refused", "refusedsave"} THEN 0
    ELSE IF ctx.calls > checkpoint.calls THEN ctx.calls - checkpoint.calls ELSE 0

(* A save is awaited: it is done, or it fails and the run goes to its handler. *)
SaveThen(c, next) ==
    /\ ctx' = c
    /\ \/ saved' = c /\ pc' = next
       \/ saved' = saved /\ pc' = "failing"

Stay == UNCHANGED <<log, batches, outcome, provider, ran, lost, forgot, crashes, resumes>>

-----------------------------------------------------------------------------
(* _run: history, the first checkpoint, the policy's begin. *)
Start == /\ pc = "off" /\ outcome = "none" /\ resumes = 0 /\ crashes = 0
         /\ SaveThen(Blank(<<"user", 0>>), "turn")
         /\ UNCHANGED attempt /\ Stay

(* Mutant: a run whose answer is on record asks for another turn. *)
ResumeAtTurn ==
    /\ pc = "off" /\ resumes < MaxResumes /\ (crashes > 0 \/ outcome # "none")
    /\ resumes' = resumes + 1
    /\ outcome' = "none"
    /\ attempt' = 0
    /\ \/ /\ saved # Nothing /\ saved.safe = "resumable"
          /\ SaveThen(saved, "turn")
       \/ ctx' = Blank(<<"resume", 0>>) /\ pc' = "refused" /\ UNCHANGED saved
    /\ UNCHANGED <<log, batches, provider, ran, lost, forgot, crashes>>

(* A resume that names the wrong session or Agent, or whose load fails, goes  *)
(* to the handler with the blank context of its own request.                  *)
Resume ==
    /\ pc = "off" /\ resumes < MaxResumes /\ (crashes > 0 \/ outcome # "none")
    /\ resumes' = resumes + 1
    /\ outcome' = "none"
    /\ attempt' = 0
    /\ \/ /\ saved # Nothing /\ saved.safe = "resumable"
          /\ SaveThen(saved, IF staged /\ saved.fin # "none" THEN "final" ELSE "turn")
       \/ ctx' = Blank(<<"resume", 0>>) /\ pc' = "refused" /\ UNCHANGED saved
    /\ UNCHANGED <<log, batches, provider, ran, lost, forgot, crashes>>

(* A step of the loop; without a step left the run ends as it stands. *)
Turn == /\ pc = "turn"
        /\ IF ctx.step < MaxSteps
           THEN SaveThen([ctx EXCEPT !.step = @ + 1], "reserve")
           ELSE pc' = "persist" /\ UNCHANGED <<ctx, saved>>
        /\ attempt' = 1
        /\ Stay

(* A turn of the guard is reserved in the checkpoint before the provider is   *)
(* called; a guard without turns left ends the run for good.                  *)
Reserve ==
    /\ pc \in {"reserve", "finalReserve"}
    /\ IF ctx.turns = MaxTurns
       THEN /\ ctx' = [ctx EXCEPT !.safe = "not_resumable"]
            /\ pc' = "failing" /\ UNCHANGED saved
       ELSE SaveThen([ctx EXCEPT !.turns = @ + 1],
                     IF pc = "reserve" THEN "call" ELSE "finalCall")
    /\ UNCHANGED attempt /\ Stay

(* The provider answers or fails; a retryable failure reserves another turn.  *)
(* A response is observed in the checkpoint before it is used.                *)
CallModel ==
    /\ pc \in {"call", "finalCall"}
    /\ provider' = provider + 1
    /\ \/ /\ attempt < MaxAttempts /\ attempt' = attempt + 1
          /\ pc' = IF pc = "call" THEN "reserve" ELSE "finalReserve"
          /\ UNCHANGED <<ctx, saved>>
       \/ pc' = "failing" /\ UNCHANGED <<ctx, saved, attempt>>
       \/ SaveThen(ctx, IF pc = "call" THEN "decide" ELSE "finished") /\ UNCHANGED attempt
    /\ UNCHANGED <<log, batches, outcome, ran, lost, forgot, crashes, resumes>>

(* The response enters the context and the policy decides; calls beyond the   *)
(* limit are answered with an error and end the run.                          *)
Answer(c) == <<"answer", c.turns>>
Decide ==
    /\ pc = "decide"
    /\ \/ IF staged
          THEN SaveThen([Add(ctx, <<Answer(ctx)>>) EXCEPT !.fin = "pending"], "final")
          ELSE /\ ctx' = Add(ctx, <<Answer(ctx)>>)
               /\ pc' \in {"persist", "failing"} /\ UNCHANGED saved
       \/ SaveThen(Add(ctx, <<Answer(ctx)>>), "turn")
       \/ IF ctx.calls = MaxToolCalls
          THEN /\ ctx' = Add(ctx, <<<<"call", ctx.turns>>, <<"result", ctx.turns>>>>)
               /\ pc' = "persist" /\ UNCHANGED saved
          ELSE /\ ctx' = [Add(ctx, <<<<"call", ctx.turns>>>>) EXCEPT !.calls = @ + 1]
               /\ pc' = "tools" /\ UNCHANGED saved
       \/ pc' = "failing" /\ ctx' = Add(ctx, <<Answer(ctx)>>) /\ UNCHANGED saved
    /\ UNCHANGED attempt /\ Stay

(* The batch runs; it returns, or fails and its calls are answered so. *)
Tools ==
    /\ pc = "tools"
    /\ ran' = ran + 1
    /\ \/ SaveThen(Add(ctx, <<<<"result", ctx.turns>>>>), "turn")
       \/ ctx' = Add(ctx, <<<<"result", ctx.turns>>>>) /\ pc' = "failing" /\ UNCHANGED saved
    /\ UNCHANGED <<attempt, log, batches, outcome, provider, lost, forgot, crashes, resumes>>

(* _finalization_events: a turn of its own, kept with its answer. *)
Finalization ==
    /\ pc = "final"
    /\ attempt' = 1
    /\ IF ctx.fin = "completed"
       THEN pc' = "persist" /\ UNCHANGED <<ctx, saved>>
       ELSE SaveThen([ctx EXCEPT !.fin = "pending"], "finalReserve")
    /\ Stay

Finished ==
    /\ pc = "finished"
    /\ \/ SaveThen([Add(ctx, <<Answer(ctx)>>) EXCEPT !.fin = "completed"], "persist")
       \/ pc' = "failing" /\ UNCHANGED <<ctx, saved>>
    /\ UNCHANGED attempt /\ Stay

-----------------------------------------------------------------------------
(* append_once of the pending messages under the run's next batch number: new, *)
(* an identical replay, or a conflict.                                         *)
Key == ctx.batch + 1
Appended == Key <= Len(batches)
Conflict == Appended /\ batches[Key] # ctx.fresh
Append1 == IF Appended THEN UNCHANGED <<log, batches>>
                       ELSE log' = log \o ctx.fresh /\ batches' = batches \o <<ctx.fresh>>
Stored == [ctx EXCEPT !.fresh = <<>>, !.batch = @ + 1]

(* An append may reach the store and still fail for the caller. *)
PersistThen(next, otherwise) ==
    \/ /\ ctx.fresh = <<>> /\ pc' = next /\ UNCHANGED <<ctx, log, batches>>
    \/ /\ ctx.fresh # <<>> /\ ~Conflict /\ Append1
       /\ \/ ctx' = Stored /\ pc' = next
          \/ ctx' = ctx /\ pc' = otherwise
    \/ ctx.fresh # <<>> /\ pc' = otherwise /\ UNCHANGED <<ctx, log, batches>>

Persist == /\ pc = "persist"
           /\ PersistThen("delete", "failing")
           /\ UNCHANGED <<attempt, saved, outcome, provider, ran, lost, forgot, crashes,
                          resumes>>

Delete == /\ pc = "delete"
          /\ \/ saved' = Nothing /\ pc' = "off" /\ outcome' = "completed"
             \/ pc' = "failing" /\ UNCHANGED <<saved, outcome>>
          /\ UNCHANGED <<ctx, attempt, log, batches, provider, ran, lost, forgot, crashes,
                         resumes>>

(* The handlers persist and save as they can, and swallow what fails. *)
HandlerPersists ==
    /\ pc \in {"failing", "refused"}
    /\ LET next == IF pc = "failing" THEN "failsave" ELSE "refusedsave"
       IN PersistThen(next, next)
    /\ UNCHANGED <<attempt, saved, outcome, provider, ran, lost, forgot, crashes, resumes>>

HandlerSaves ==
    /\ pc \in {"failsave", "refusedsave"}
    /\ pc' = "off"
    /\ outcome' = "failed"
    /\ \/ /\ saved' = ctx
          /\ forgot' = (forgot \/ pc = "refusedsave")
       \/ UNCHANGED <<saved, forgot>>
    /\ lost' = lost + Uncounted(saved')
    /\ UNCHANGED <<ctx, attempt, log, batches, provider, ran, crashes, resumes>>

(* The caller cancels: only the checkpoint is written. *)
Cancel ==
    /\ pc \in {"turn", "reserve", "call", "tools", "final", "persist"}
    /\ pc' = "off"
    /\ outcome' = "cancelled"
    /\ \/ saved' = ctx
       \/ saved' = saved
    /\ ran' = IF pc = "tools" THEN ran + 1 ELSE ran
    /\ lost' = lost + Uncounted(saved')
    /\ UNCHANGED <<ctx, attempt, log, batches, provider, forgot, crashes, resumes>>

Crash ==
    /\ pc # "off" /\ crashes < MaxCrashes
    /\ crashes' = crashes + 1
    /\ pc' = "off"
    /\ ran' = IF pc = "tools" THEN ran + 1 ELSE ran
    /\ lost' = lost + Uncounted(saved)
    /\ provider' = IF pc \in {"call", "finalCall"} THEN provider + 1 ELSE provider
    /\ UNCHANGED <<ctx, attempt, saved, log, batches, outcome, forgot, resumes>>

Next == /\ \/ Start \/ Resume \/ Turn \/ Reserve \/ CallModel \/ Decide \/ Tools
           \/ Finalization \/ Finished \/ Persist \/ Delete
           \/ HandlerPersists \/ HandlerSaves \/ Cancel \/ Crash
        /\ UNCHANGED staged

Spec == Init /\ [][Next]_directVars

-----------------------------------------------------------------------------
(* Over all processes, the provider is called at most once per turn of the    *)
(* budget: a crash cannot regain a turn.  The one way to get more is a refused *)
(* resume, whose handler replaces the checkpoint by a blank one.               *)
TurnsStaySpent == forgot \/ provider <= MaxTurns

(* Tools run at most as often as the limit, except for the executions of a    *)
(* process that left without a checkpoint that counts them.                   *)
ToolsWithinLimit == forgot \/ ran <= MaxToolCalls + lost

(* Nothing enters the conversation twice, and a run that reports its end has  *)
(* all its messages there.                                                    *)
StoredOnce ==
    forgot \/ /\ IsInjective(log)
              /\ outcome = "completed" => Range(ctx.msgs) \subseteq Range(log)

(* The answer of a finalization turn is kept: once it is recorded no process  *)
(* asks the model for another.                                                *)
FinalAnswerKept ==
    staged /\ ~forgot /\ saved # Nothing /\ saved.fin = "completed" =>
        pc \notin {"reserve", "call", "decide", "tools", "finalReserve", "finalCall", "finished"}

DirectSound == TurnsStaySpent /\ ToolsWithinLimit /\ StoredOnce /\ FinalAnswerKept
=============================================================================
