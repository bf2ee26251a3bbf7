---- MODULE StepPolicy ----
(***************************************************************************)
(* PlanAndExecutePolicy (decision/planning.py): the plan, the strict       *)
(* execution state over it, and what each policy call makes of a model     *)
(* response, a step result or a tool batch.                                *)
(*                                                                         *)
(* The engines that call the policy are PlanRun and StrictRun; here the    *)
(* policy sees every response, call list and plan revision they may hand   *)
(* it, and is interrupted and reloaded from its serialized state wherever  *)
(* it awaits.                                                              *)
(***************************************************************************)
EXTENDS Integers, Sequences, FiniteSets

CONSTANTS
    Drafts,        \* what the planner may answer: sequences of [id, deps, tools]
    Tools,         \* configure_available_tools
    Batches,       \* call lists a response may carry: sequences of [id, tool, args]
    Outcomes,      \* of one call: "ok" or the recovery its error asks for
    Modes,         \* recovery fallback, the two settings without recovery, or "implicit",
                   \* the deprecated LegacyPlanAndExecutePolicy
    MaxDraft,      \* generator max_steps
    MaxAttempts, MaxReplans, MaxRepairs,
    MaxReloads,    \* bound
    Nothing

Ids == UNION {{d[i].id : i \in DOMAIN d} : d \in Drafts}

VARIABLES
    mode,
    pc,       \* "plan", "loop", "tools", "revise" (waiting for a plan), "ended"
    st,       \* the execution state
    batch,    \* the calls being run
    notes,    \* the steps that the internal messages are about
    ran,      \* history: ids of the calls that were run
    rounds,   \* history: batches run for a step id
    reloads

policyVars == <<mode, pc, st, batch, notes, ran, rounds, reloads>>

----------------------------------------------------------------------------
(* Plan *)

IdsOf(p) == {p[i].id : i \in DOMAIN p}
Place(p, id) == CHOOSE i \in DOMAIN p : p[i].id = id

\* Plan.__post_init__: unique ids, and dependencies that precede their step.
ValidPlan(p) ==
    /\ \A i, j \in DOMAIN p : p[i].id = p[j].id => i = j
    /\ \A i \in DOMAIN p : p[i].deps \subseteq {p[j].id : j \in 1..(i - 1)}

NextOpen(p, i) ==
    CHOOSE j \in i..(Len(p) + 1) :
        /\ j <= Len(p) => p[j].status # "completed"
        /\ \A k \in i..(j - 1) : p[k].status = "completed"

CurrentId(p, i) == IF i <= Len(p) THEN p[i].id ELSE Nothing
Completed(p) == {p[i].id : i \in {k \in DOMAIN p : p[k].status = "completed"}}
IsComplete(p) == p # <<>> /\ Completed(p) = IdsOf(p)

StartCurrent(p, i) ==
    IF i <= Len(p) /\ p[i].status = "pending" /\ p[i].deps \subseteq Completed(p)
    THEN [p EXCEPT ![i].status = "in_progress"] ELSE p

\* LLMPlanGenerator._parse: a draft that is empty, too long, out of order or
\* with a tool the Agent does not have is a protocol error.
Parses(d) ==
    /\ d # <<>> /\ Len(d) <= MaxDraft
    /\ \A i \in DOMAIN d : d[i].tools \subseteq Tools
    /\ ValidPlan(d)
Parsed(d) ==
    StartCurrent([i \in DOMAIN d |-> [id |-> d[i].id, deps |-> d[i].deps, status |-> "pending",
                                      tries |-> 0, ref |-> Nothing]], 1)

----------------------------------------------------------------------------
(* ExecutionState *)

Fresh(p) ==
    [phase |-> "prepare", plan |-> p, index |-> 1, version |-> 1, cur |-> CurrentId(p, 1),
     results |-> [i \in Ids |-> Nothing], pend |-> Nothing, awaiting |-> FALSE,
     replans |-> 0, repairs |-> [i \in Ids |-> 0], fail |-> Nothing,
     active |-> {}, seen |-> {}, finals |-> 0, resp |-> FALSE, persisted |-> FALSE,
     emitted |-> FALSE]

Prepared(s, tools) ==
    LET at == NextOpen(s.plan, s.index)
    IN  [s EXCEPT !.index = at, !.plan = StartCurrent(@, at), !.cur = CurrentId(s.plan, at),
                  !.pend = Nothing, !.fail = Nothing, !.active = {}, !.awaiting = ~tools,
                  !.phase = IF at <= Len(s.plan) THEN "act" ELSE "verify"]

Failed(s) ==
    [s EXCEPT !.phase = "failed", !.active = {},
              !.plan = IF s.cur = Nothing THEN @
                       ELSE [i \in DOMAIN @ |-> IF @[i].id = s.cur /\ @[i].status # "completed"
                                                THEN [@[i] EXCEPT !.status = "failed"] ELSE @[i]]]

Committed(s) ==
    LET done == [s.plan EXCEPT ![s.index].status = "completed", ![s.index].ref = s.pend]
        at == NextOpen(done, s.index + 1)
    IN  [s EXCEPT !.plan = StartCurrent(done, at), !.index = at, !.cur = CurrentId(done, at),
                  !.results[s.pend.id] = s.pend,
                  !.pend = Nothing, !.fail = Nothing, !.active = {}, !.awaiting = FALSE,
                  !.phase = IF IsComplete(done) THEN "verify" ELSE "prepare"]

\* What ExecutionState.from_dict accepts, and what it makes of it.
Loads(s) ==
    /\ ValidPlan(s.plan) /\ s.index \in 1..(Len(s.plan) + 1)
    /\ \A i \in Ids : s.results[i] # Nothing =>
          /\ i \in Completed(s.plan)
          /\ s.results[i].id = i
          /\ s.plan[Place(s.plan, i)].ref = s.results[i]
    /\ s.pend # Nothing /\ s.cur # Nothing => s.pend.id = s.cur
    /\ s.cur \in IdsOf(s.plan) \cup {Nothing}
    /\ s.persisted \/ s.emitted => s.resp
    /\ s.phase = "done" => s.emitted
    /\ {c.id : c \in s.active} \subseteq s.seen
Loaded(s) ==
    LET at == NextOpen(s.plan, s.index)
    IN  [s EXCEPT !.index = at, !.cur = IF @ = Nothing THEN CurrentId(s.plan, at) ELSE @]

----------------------------------------------------------------------------
(* Retries and revisions *)

Here(s) == s.plan[Place(s.plan, s.cur)]

\* _retry_invalid_result keeps the kind of turn, _retry_validation asks for
\* another StepResult.
Retried(s, awaiting) ==
    LET r == [s EXCEPT !.plan[Place(s.plan, s.cur)].tries = @ + 1, !.pend = Nothing]
    IN  IF Here(r).tries >= MaxAttempts THEN Failed(r)
        ELSE [r EXCEPT !.phase = "act", !.awaiting = awaiting]

\* _apply_replan: committed steps stay in front, and a step that stays open
\* keeps its attempts.
Revised(s, p) ==
    LET committed == {i \in Ids : s.results[i] # Nothing}
        done == SelectSeq(s.plan, LAMBDA e : e.id \in committed)
        Kept(e) == IF e.id \in IdsOf(s.plan)
                   THEN [e EXCEPT !.tries = s.plan[Place(s.plan, e.id)].tries] ELSE e
        drafted == SelectSeq(p, LAMBDA e : e.id \notin committed)
        merged == done \o [i \in DOMAIN drafted |-> Kept(drafted[i])]
        at == NextOpen(merged, Len(done) + 1)
    IN  [s EXCEPT !.plan = merged, !.index = at, !.cur = CurrentId(merged, at),
                  !.version = @ + 1, !.replans = @ + 1, !.pend = Nothing, !.fail = Nothing,
                  !.active = {}, !.awaiting = FALSE, !.phase = "prepare"]

\* The state when no usable revision came back.
Unrevised(s) == [Failed(s) EXCEPT !.pend = Nothing, !.awaiting = FALSE]

----------------------------------------------------------------------------
(* Tool calls and their failures *)

\* _tool_call_records: every call of the run has an id of its own.
CallError(s, calls) ==
    \/ \E i \in DOMAIN calls : calls[i].id \in s.seen
    \/ \E i, j \in DOMAIN calls : i # j /\ calls[i].id = calls[j].id

\* _repair_tool_call_error: one call of the same tool with other arguments.
RepairError(f, calls) ==
    \/ Len(calls) # 1
    \/ calls[1].tool # f.tool \/ calls[1].id = f.call
    \/ f.args = Nothing \/ calls[1].args = f.args

\* _tool_failure_payload of the first failure; the arguments are known only
\* while the call is active.
Payload(s, c) ==
    [call |-> c.id, tool |-> c.tool, args |-> IF c \in s.active THEN c.args ELSE Nothing]

Repairable(s, c) == c \in s.active /\ s.repairs[s.cur] < MaxRepairs
Repairing(s, c) ==
    [s EXCEPT !.repairs[s.cur] = @ + 1, !.fail = Payload(s, c), !.active = {},
              !.pend = Nothing, !.awaiting = FALSE, !.phase = "act"]

\* observe(): what a failed batch leads to when it is not repaired.
FallbackOf(o) ==
    LET bad == {i \in DOMAIN o : o[i] # "ok"}
        asked == {o[i] : i \in bad}
    IN  IF bad # DOMAIN o \/ "fail" \in asked THEN "fail"
        ELSE IF "replan" \in asked THEN "replan" ELSE mode

Repairs(s, calls, o) == Len(calls) = 1 /\ o[1] = "repair" /\ Repairable(s, calls[1])

----------------------------------------------------------------------------
(* Policy calls *)

Strict == mode # "implicit"
Recovering == mode \in {"replan", "fail"}
Sync(s, where) == st' = s /\ pc' = where
After(s) == IF s.phase = "failed" THEN "ended" ELSE "loop"
Hist == <<mode, ran, rounds, reloads>>

\* _replan: the plan generator is asked unless the replans are used up.
Replan(s) == IF s.replans >= MaxReplans THEN Sync(Failed(s), "ended") ELSE Sync(s, "revise")

\* _fallback_tool_failure
Fallback(s, way) ==
    LET f == [s EXCEPT !.active = {}]
    IN  IF way = "fail" THEN Sync(Unrevised(f), "ended")
        ELSE IF s.replans >= MaxReplans THEN Sync(Unrevised(f), "ended")
        ELSE Sync(f, "revise")

Begin ==
    /\ pc = "plan"
    /\ \E d \in Drafts :
          IF Parses(d) THEN Sync(Fresh(Parsed(d)), "loop") ELSE pc' = "ended" /\ UNCHANGED st
    /\ UNCHANGED <<Hist, batch, notes>>

\* prepare_step, with the Agent's tools or without.
Prepare ==
    /\ pc = "loop" /\ Strict /\ st.phase = "prepare"
    /\ \E tools \in BOOLEAN : Sync(Prepared(st, tools), "loop")
    /\ notes' = {}
    /\ UNCHANGED <<Hist, batch>>

Deciding == pc = "loop" /\ Strict /\ st.phase = "act"

\* decide() on a response that was cut off.
DecideIncomplete ==
    /\ Deciding
    /\ IF st.fail # Nothing /\ Recovering THEN Fallback(st, mode)
       ELSE LET r == Retried(st, st.awaiting) IN Sync(r, After(r))
    /\ UNCHANGED <<Hist, batch, notes>>

\* decide() on tool calls.
DecideTools ==
    /\ Deciding
    /\ \E calls \in Batches :
         IF st.awaiting THEN Sync(Failed(st), "ended") /\ UNCHANGED <<batch, notes>>
         ELSE IF CallError(st, calls) \/ (st.fail # Nothing /\ RepairError(st.fail, calls))
         THEN /\ IF st.fail # Nothing THEN Fallback(st, mode)
                 ELSE LET r == Retried(st, FALSE) IN Sync(r, After(r))
              /\ UNCHANGED <<batch, notes>>
         ELSE /\ Sync([st EXCEPT !.active = {calls[i] : i \in DOMAIN calls},
                                 !.seen = @ \cup {calls[i].id : i \in DOMAIN calls},
                                 !.awaiting = TRUE], "tools")
              /\ batch' = calls
              /\ notes' = notes \cup {st.cur}
    /\ UNCHANGED Hist

\* decide() on a response without calls where tools were offered.
DecideNoTools ==
    /\ Deciding
    /\ \/ st.fail # Nothing /\ Fallback(st, mode)
       \/ st.fail = Nothing /\ ~st.awaiting /\ Sync([st EXCEPT !.awaiting = TRUE], "loop")
    /\ UNCHANGED <<Hist, batch, notes>>

\* StepValidator.validate, and a custom validator that raises or returns
\* what it likes.
Verdicts == {"commit", "retry", "replan", "fail"}
Validated(s, verdict) ==
    CASE verdict = "commit" -> Sync(Committed(s), "loop") /\ notes' = {}
      [] verdict = "retry" -> LET r == Retried(s, TRUE) IN Sync(r, After(r)) /\ UNCHANGED notes
      [] verdict = "replan" -> Replan(s) /\ UNCHANGED notes
      [] OTHER -> Sync(Failed(s), "ended") /\ UNCHANGED notes

\* decide() on a StepResult: malformed, for another step, or validated.
DecideResult ==
    /\ Deciding /\ st.awaiting /\ st.fail = Nothing
    /\ \/ Sync([Failed(st) EXCEPT !.pend = Nothing], "ended") /\ UNCHANGED notes
       \/ \E v \in Verdicts :
            Validated([st EXCEPT !.pend = [id |-> st.cur, val |-> st.version], !.phase = "validate"], v)
    /\ UNCHANGED <<Hist, batch>>

\* validate_pending on a state that was saved while a revision was awaited.
ValidatePending ==
    /\ pc = "loop" /\ Strict /\ st.phase = "validate"
    /\ \E v \in Verdicts : Validated(st, v)
    /\ UNCHANGED <<Hist, batch>>

Ran == /\ ran' = ran \cup {batch[i].id : i \in DOMAIN batch}
       /\ rounds' = IF st.cur = Nothing THEN rounds ELSE [rounds EXCEPT ![st.cur] = @ + 1]
       /\ batch' = <<>>

\* observe() on the results of a batch.
Observe ==
    /\ pc = "tools" /\ Strict
    /\ \E o \in [DOMAIN batch -> Outcomes] :
         LET bad == {i \in DOMAIN o : o[i] # "ok"}
             first == CHOOSE i \in bad : \A j \in bad : i <= j
         IN  CASE bad = {} -> Sync([st EXCEPT !.fail = Nothing, !.active = {},
                                              !.awaiting = TRUE], "loop")
               [] bad # {} /\ Recovering /\ Repairs(st, batch, o) ->
                    Sync(Repairing(st, batch[1]), "loop")
               [] bad # {} /\ Recovering /\ ~Repairs(st, batch, o) ->
                    Fallback([st EXCEPT !.fail = Payload(st, batch[first])], FallbackOf(o))
               [] bad # {} /\ mode = "legacy_fail" -> Sync(Failed(st), "ended")
               [] OTHER -> IF st.replans >= MaxReplans THEN Sync(Failed(st), "ended")
                           ELSE Sync([st EXCEPT !.active = {}], "revise")
    /\ Ran
    /\ UNCHANGED <<mode, notes, reloads>>

Revise ==
    /\ pc = "revise" /\ Strict
    /\ \E d \in Drafts :
         Sync(IF Parses(d) THEN Revised(st, Parsed(d)) ELSE Unrevised(st),
              IF Parses(d) THEN "loop" ELSE "ended")
    /\ UNCHANGED <<Hist, batch, notes>>

\* A cancellation while a revision is awaited leaves the state as it is; the
\* run is resumed from what was serialized.
Reload ==
    /\ pc \in {"loop", "revise"} /\ Strict /\ reloads < MaxReloads
    /\ reloads' = reloads + 1
    /\ IF Loads(st) THEN Sync(Loaded(st), "loop") ELSE pc' = "ended" /\ UNCHANGED st
    /\ UNCHANGED <<mode, batch, notes, ran, rounds>>

\* begin_finalization and record_final_response
Finalize ==
    /\ pc = "loop" /\ Strict
    /\ \/ st.phase = "verify" /\ Sync([st EXCEPT !.phase = "finalize", !.finals = @ + 1], "loop")
       \/ /\ st.phase = "finalize" /\ ~st.emitted
          /\ \/ ~st.resp /\ Sync([st EXCEPT !.resp = TRUE], "loop")
             \/ st.resp /\ ~st.persisted /\ Sync([st EXCEPT !.persisted = TRUE], "loop")
             \/ st.persisted /\ Sync([st EXCEPT !.emitted = TRUE, !.phase = "done"], "ended")
    /\ UNCHANGED <<Hist, batch, notes>>

----------------------------------------------------------------------------
(* LegacyPlanAndExecutePolicy: any answer completes the step, and a         *)
(* revision replaces the plan.                                              *)

Implicit == mode = "implicit"
ImplicitDecide ==
    /\ pc = "loop" /\ Implicit
    /\ \/ \E calls \in Batches : batch' = calls /\ Sync(st, "tools")
       \/ /\ st.index <= Len(st.plan)
          /\ LET c == Committed([st EXCEPT !.pend = [id |-> st.cur, val |-> 0]])
             IN  Sync(c, IF IsComplete(c.plan) THEN "ended" ELSE "loop")
          /\ UNCHANGED batch
    /\ UNCHANGED <<Hist, notes>>

ImplicitObserve ==
    /\ pc = "tools" /\ Implicit /\ st.replans < MaxReplans
    /\ \/ Sync(st, "loop")
       \/ \E d \in Drafts :
            IF Parses(d) THEN Sync([Fresh(Parsed(d)) EXCEPT !.replans = st.replans + 1], "loop")
            ELSE Sync(st, "ended")
    /\ batch' = <<>>
    /\ UNCHANGED <<Hist, notes>>

Init ==
    /\ mode \in Modes /\ pc = "plan" /\ st = Nothing /\ batch = <<>> /\ notes = {}
    /\ ran = {} /\ rounds = [i \in Ids |-> 0] /\ reloads = 0

Next ==
    \/ Begin \/ Prepare
    \/ DecideIncomplete \/ DecideTools \/ DecideNoTools \/ DecideResult \/ ValidatePending
    \/ Observe \/ Revise \/ Reload \/ Finalize
    \/ ImplicitDecide \/ ImplicitObserve

Spec == Init /\ [][Next]_policyVars

----------------------------------------------------------------------------
Live == st # Nothing /\ Strict

(* Whatever the policy did to its state, and wherever it was interrupted,  *)
(* the serialized state is accepted again and read back as it was: the     *)
(* plan is in order, results belong to completed steps, a pending result   *)
(* to the current step (ExecutionState.from_dict).                         *)
StateReloads == Live => Loads(st) /\ Loaded(st) = st

(* The steps before the current one are committed, each with its result,   *)
(* no other is, and a step is worked on when its dependencies are among    *)
(* them, whatever revisions made of the plan.                              *)
ResultsFollowPlan ==
    Live =>
      /\ \A i \in DOMAIN st.plan :
            (i < st.index) = (st.results[st.plan[i].id] # Nothing)
      /\ \A i \in Ids : st.results[i] # Nothing => i \in IdsOf(st.plan)
      /\ st.phase \in {"act", "validate"} =>
            \A d \in Here(st).deps : st.results[d] # Nothing

(* A call id is never run twice in a run, and a step gets no more batches  *)
(* than one for each plan it was in and the repairs it is allowed.         *)
CallsAreFresh ==
    /\ pc = "tools" /\ Strict => \A i \in DOMAIN batch : batch[i].id \notin ran
    /\ Live => \A i \in Ids : rounds[i] <= 1 + st.replans + MaxRepairs

(* A call that is made to repair another is its only one, of the same tool *)
(* and with other arguments.                                               *)
RepairsDiffer ==
    pc = "tools" /\ Strict /\ st.fail # Nothing =>
        Len(batch) = 1 /\ batch[1].tool = st.fail.tool /\ batch[1].args # st.fail.args

(* The messages of one step are not part of another's turn.                *)
StepsAreApart == Live /\ st.phase = "act" => notes \subseteq {st.cur}

StepPolicySound ==
    StateReloads /\ ResultsFollowPlan /\ CallsAreFresh /\ RepairsDiffer /\ StepsAreApart
====
