--------------------------- MODULE StandardRunProofs ---------------------------
(***************************************************************************)
(* Proofs about a run with the standard engine, for any limits, decisions, *)
(* auxiliary model calls, faults and number of resumptions.  They are made *)
(* in layers, each of which is inductive given those before: where the     *)
(* process is, which model turns are on record, what a tripped guard and   *)
(* executed tools rule out, what a checkpoint can be resumed with, and     *)
(* where the input and the answer are.                                     *)
(***************************************************************************)
EXTENDS StandardRun, FiniteSetTheorems, TLAPS

-----------------------------------------------------------------------------
(* Where the process is. *)

(* A call of the model is being made. *)
Asking == pc \in {"reserve", "save_reserve", "provider"}

(* The state of the engine, or what it will be resumed from. *)
Engine == IF eng.phase = "none" THEN last ELSE eng

(* The phase fits the answer and its marks. *)
Formed(e) ==
    /\ e.phase = "none" => e = NoEngine
    /\ e.phase \in {"act", "failed"} => e.resp = 0
    /\ e.phase = "finalize" => staged
    /\ e.persisted => staged /\ e.resp # 0
    /\ e.emitted => e.persisted /\ e.phase = "done"
    /\ staged /\ e.phase = "done" /\ e.resp # 0 => e.emitted

Ended ==
    /\ pc \in ({"idle"} \cup WorkLabels) \ {"finish", "retire"} => fin = NoEnd
    /\ pc \in {"finish", "retire"} => fin.kind \in {"completed", "failed"} /\ ~fin.handler
    /\ pc \in {"persist", "keep"} => fin.kind \in {"cancelled", "failed"} /\ fin.handler
    /\ pc \in {"tell", "keep2", "deliver"} => fin.kind \in {"completed", "failed"}
    /\ fin.kind = "completed" => eng.phase = "done"
    /\ pc \in {"persist", "keep", "keep2"} => canWrite

Placed ==
    /\ starts = 0 => /\ pc = "idle" /\ disk = {} /\ log = <<>> /\ told = NotTold
                     /\ calls = 0 /\ ran = 0 /\ shown = 0
    /\ pc = "idle" => /\ run = FreshRun /\ eng = NoEngine /\ last = NoEngine
                      /\ ~canWrite /\ seen = 0 /\ call = "model" /\ tries = 0
    /\ pc \in {"skills", "start"} => eng = NoEngine
    /\ Asking /\ call = "skills" => eng = NoEngine
    /\ Asking /\ call # "skills" => eng.phase \in {"act", "finalize"} /\ eng.resp = 0 /\ canWrite
    /\ pc \in WorkLabels /\ ~Asking =>
          tries = 0 /\ (call = "model" \/ (call = "barred" /\ pc = "save_before"))
    /\ call = "barred" => pc \in {"save_before", "reserve"} \cup EndLabels
    /\ pc = "reserve" => tries < RetryAttempts
    /\ pc \in {"save0", "save1"} => eng.phase = "act"
    /\ pc \in {"execute", "loop", "prepare", "save_before", "decide", "intent", "save_intent",
               "tools", "save_after", "save_abort", "save_continue", "finalize", "save_final",
               "decode", "save_answer", "publish", "store", "save_stored", "emit", "save_emit",
               "show", "finish", "retire"} => eng.phase # "none" /\ canWrite
    /\ pc \in {"loop", "save_before", "decide", "intent", "save_intent", "tools", "save_after",
               "save_abort", "save_continue"} => eng.phase = "act"
    /\ pc = "prepare" => eng.phase \in {"act", "finalize"} /\ eng.resp = 0
    /\ pc = "finalize" => eng.phase \in {"act", "finalize"} /\ staged
    /\ pc = "save_final" => eng.phase = "finalize" /\ eng.resp = 0
    /\ pc = "decode" => /\ eng.phase = IF staged THEN "finalize" ELSE "act"
                        /\ eng.resp = 0 /\ said # 0
    /\ pc = "decide" => said # 0
    /\ pc \in {"save_answer", "publish", "store", "save_stored", "emit"} =>
          eng.phase = "finalize" /\ eng.resp # 0
    /\ pc \in {"save_stored", "emit", "save_emit", "show"} => eng.persisted
    /\ pc \in {"save_emit", "show"} => eng.phase = "done" /\ eng.emitted
    /\ pc \in {"finish", "retire"} => eng.phase \in {"done", "failed"}

(* What the code relies on wherever it is. *)
Sound ==
    /\ TypeOK /\ Ended /\ Placed
    /\ Formed(eng) /\ Formed(last)
    /\ \A d, e \in disk : d = e
    /\ \A d \in disk : Formed(d.eng)

(* The part of it that is outside the process. *)
World ==
    /\ \A d \in disk : /\ d \in [run : RunState, eng : EngineState]
                       /\ Formed(d.eng)
                       /\ calls <= d.run.guard
    /\ \A d, e \in disk : d = e
    /\ log \in Seq(Seq(0..MaxModelTurns))
    /\ calls \in 0..MaxModelTurns /\ ran \in Nat /\ shown \in Nat
    /\ staged \in BOOLEAN /\ retain \in BOOLEAN

-----------------------------------------------------------------------------
(* Model turns. *)

Reserved ==
    /\ pc # "idle" => calls <= run.guard
    /\ pc \in {"save_reserve", "provider"} => calls < run.guard
    /\ \A d \in disk : calls <= d.run.guard
    /\ pc = "provider" => \A d \in disk : calls < d.run.guard

Base == Sound /\ Reserved

-----------------------------------------------------------------------------
(* The steps that leave the run, or end it. *)
Ends == [kind : {"none", "completed", "failed", "cancelled"}, claim : BOOLEAN, handler : BOOLEAN]

LEMMA Types ==
    /\ FreshRun \in RunState /\ NoEngine \in EngineState /\ NoEnd \in Ends
    /\ \A r \in RunState : /\ r.new \in Seq(0..MaxModelTurns) /\ Len(r.new) \in Nat
                           /\ r.guard \in Nat /\ r.batch \in Nat
<1>1. NoEngine \in EngineState /\ NoEnd \in Ends
  BY StandardRunAssumption DEF EngineState, NoEngine, NoEnd, Ends
<1>2. <<0>> \in Seq(0..MaxModelTurns)
  <2>1. 0 \in 0..MaxModelTurns
    BY StandardRunAssumption
  <2> QED
    BY <2>1
<1>3. FreshRun \in RunState
  BY <1>2, StandardRunAssumption DEF RunState, FreshRun
<1>4. ASSUME NEW r \in RunState
      PROVE  /\ r.new \in Seq(0..MaxModelTurns) /\ Len(r.new) \in Nat
             /\ r.guard \in Nat /\ r.batch \in Nat
  BY StandardRunAssumption DEF RunState
<1> QED
  BY <1>1, <1>3, <1>4

LEMMA AppendedIsLog ==
    ASSUME log \in Seq(Seq(0..MaxModelTurns)), run \in RunState
    PROVE  Appended \in Seq(Seq(0..MaxModelTurns)) /\ Len(Appended) \in Nat
<1> DEFINE Batch == Seq(0..MaxModelTurns)
<1>1. run.new \in Batch
  BY Types
<1> HIDE DEF Batch
<1>2. Append(log, run.new) \in Seq(Batch)
  BY <1>1 DEF Batch
<1> QED
  <2>1. Appended \in Seq(Batch)
    BY <1>2 DEF Appended, Batch
  <2>2. Len(Appended) \in Nat
    BY <2>1
  <2> QED
    BY <2>1, <2>2 DEF Batch

LEMMA InitBase == Init => Base
<1> SUFFICES ASSUME Init
             PROVE  Base
  OBVIOUS
<1>1. TypeOK
  <2>1. log \in Seq(Seq(0..MaxModelTurns))
    BY DEF Init
  <2>2. /\ disk = {} /\ calls = 0 /\ ran = 0 /\ shown = 0 /\ pc = "idle" /\ canWrite = FALSE
        /\ run = FreshRun /\ eng = NoEngine /\ last = NoEngine /\ fin = NoEnd
        /\ seen = 0 /\ call = "model" /\ tries = 0 /\ said = 0 /\ told = NotTold
        /\ refused = FALSE /\ starts = 0
    BY DEF Init
  <2>3. staged \in BOOLEAN /\ retain \in BOOLEAN
    BY StandardRunAssumption DEF Init
  <2>4. told \in [kind : {"none", "completed", "failed"}, claim : BOOLEAN,
                  answer : 0..MaxModelTurns]
    BY <2>2, StandardRunAssumption DEF NotTold
  <2>5. fin \in [kind : {"none", "completed", "failed", "cancelled"}, claim : BOOLEAN,
                handler : BOOLEAN]
    BY <2>2, Types DEF Ends
  <2>6. run \in RunState /\ eng \in EngineState /\ last \in EngineState
    BY <2>2, Types
  <2>7. /\ starts \in 0..(MaxResumes + 1) /\ tries \in 0..RetryAttempts
        /\ said \in 0..MaxModelTurns /\ calls \in 0..MaxModelTurns /\ seen \in Nat
        /\ ran \in Nat /\ shown \in Nat
    BY <2>2, StandardRunAssumption
  <2> QED
    BY <2>1, <2>2, <2>3, <2>4, <2>5, <2>6, <2>7 DEF TypeOK
<1>2. Ended /\ Placed
  BY StandardRunAssumption
  DEF Init, Ended, Placed, Asking, FreshRun, NoEngine, NoEnd, NotTold, WorkLabels, SaveLabels
<1>3. Formed(eng) /\ Formed(last) /\ Reserved
  BY StandardRunAssumption DEF Init, Formed, NoEngine, Reserved
<1> QED
  BY <1>1, <1>2, <1>3 DEF Base, Sound, Init

(* Everything that the steps of a live process do outside of it. *)
Effect ==
    \/ UNCHANGED world
    \/ /\ pc \in SaveLabels \cup {"retire", "keep", "keep2"}
       /\ disk' = Saved(Snapshot) /\ UNCHANGED <<log, calls, ran, shown>>
    \/ Deletes /\ disk' = {} /\ UNCHANGED <<log, calls, ran, shown>>
    \/ /\ pc \in {"store", "finish", "persist"} /\ ~Conflict
       /\ log' = Appended /\ UNCHANGED <<disk, calls, ran, shown>>
    \/ pc = "provider" /\ calls' = calls + 1 /\ UNCHANGED <<disk, log, ran, shown>>
    \/ pc = "tools" /\ ran' = ran + 1 /\ UNCHANGED <<disk, log, calls, shown>>
    \/ pc = "show" /\ shown' = shown + 1 /\ UNCHANGED <<disk, log, calls, ran>>

LEMMA InFlightIsEffect == (InFlight \/ UNCHANGED world) => Effect
  BY DEF InFlight, Effect

LEMMA EffectWorld ==
    ASSUME Base, Effect, UNCHANGED mode, pc # "idle"
    PROVE  World' /\ calls' <= run.guard
<1>1. World
  BY DEF Base, Sound, TypeOK, Reserved, World
<1>2. UNCHANGED <<staged, retain>> /\ run.guard \in 0..MaxModelTurns /\ calls <= run.guard
  BY DEF mode, Base, Sound, TypeOK, RunState, Reserved
<1>3. CASE UNCHANGED world
  BY <1>1, <1>2, <1>3 DEF world, World, Formed
<1>4. CASE disk' = Saved(Snapshot) /\ UNCHANGED <<log, calls, ran, shown>>
  <2>1. PICK s \in {eng, last} : disk' = {[run |-> run, eng |-> s]}
    BY <1>4 DEF Saved, Snapshot
  <2>2. s \in EngineState /\ Formed(s) /\ run \in RunState
    BY <2>1 DEF Base, Sound, TypeOK
  <2> QED
    BY <1>1, <1>2, <1>4, <2>1, <2>2 DEF World, Formed
<1>5. CASE log' = Appended /\ UNCHANGED <<disk, calls, ran, shown>>
  <2>1. log' \in Seq(Seq(0..MaxModelTurns))
    BY <1>5, AppendedIsLog DEF Base, Sound, TypeOK
  <2> QED
    BY <1>1, <1>2, <1>5, <2>1 DEF World, Formed
<1>6. CASE disk' = {} /\ UNCHANGED <<log, calls, ran, shown>>
  BY <1>1, <1>2, <1>6 DEF World
<1>7. CASE pc = "provider" /\ calls' = calls + 1 /\ UNCHANGED <<disk, log, ran, shown>>
  BY <1>1, <1>2, <1>7, StandardRunAssumption DEF World, Formed, Base, Reserved, RunState
<1>8. CASE ran' = ran + 1 /\ UNCHANGED <<disk, log, calls, shown>>
  BY <1>1, <1>2, <1>8 DEF World, Formed
<1>9. CASE shown' = shown + 1 /\ UNCHANGED <<disk, log, calls, ran>>
  BY <1>1, <1>2, <1>9 DEF World, Formed
<1> QED
  BY <1>3, <1>4, <1>5, <1>6, <1>7, <1>8, <1>9 DEF Effect

LEMMA LeaveBase ==
    ASSUME Leave, World', starts' \in 1..(MaxResumes + 1),
           told' \in [kind : {"none", "completed", "failed"}, claim : BOOLEAN,
                      answer : 0..MaxModelTurns],
           refused' \in BOOLEAN
    PROVE  Base'
<1>1. TypeOK'
  <2>1. /\ pc' = "idle" /\ canWrite' = FALSE /\ call' = "model"
        /\ run' = FreshRun /\ eng' = NoEngine /\ last' = NoEngine /\ fin' = NoEnd
        /\ seen' = 0 /\ tries' = 0 /\ said' = 0
    BY DEF Leave
  <2>2. log' \in Seq(Seq(0..MaxModelTurns)) /\ \A d \in disk' : d \in [run : RunState, eng : EngineState]
    BY DEF World
  <2>3. /\ calls' \in 0..MaxModelTurns /\ ran' \in Nat /\ shown' \in Nat
        /\ staged' \in BOOLEAN /\ retain' \in BOOLEAN
    BY DEF World
  <2>4. fin' \in [kind : {"none", "completed", "failed", "cancelled"}, claim : BOOLEAN,
                handler : BOOLEAN]
    BY <2>1, Types DEF Ends
  <2>5. run' \in RunState /\ eng' \in EngineState /\ last' \in EngineState
    BY <2>1, Types
  <2>6. starts' \in 0..(MaxResumes + 1) /\ tries' \in 0..RetryAttempts /\ said' \in 0..MaxModelTurns
    BY <2>1, StandardRunAssumption
  <2>7. pc' \in {"idle"} \cup WorkLabels \cup EndLabels
    BY <2>1
  <2> QED
    BY <2>1, <2>2, <2>3, <2>4, <2>5, <2>6, <2>7 DEF TypeOK
<1>2. Ended' /\ Placed'
  BY StandardRunAssumption
  DEF Leave, Ended, Placed, Asking, FreshRun, NoEngine, NoEnd, WorkLabels, SaveLabels
<1>3. Formed(eng)' /\ Formed(last)' /\ Reserved'
  BY DEF Leave, World, Formed, NoEngine, Reserved
<1> QED
  BY <1>1, <1>2, <1>3 DEF Base, Sound, World

LEMMA HandleBase ==
    ASSUME Base, pc # "idle", NEW kind \in {"failed", "cancelled"},
           NEW r \in RunState, r.guard = run.guard, NEW claim \in BOOLEAN,
           Handle(kind, r, claim), World', calls' <= run.guard,
           UNCHANGED <<told, starts, staged>>, refused' \in BOOLEAN
    PROVE  Base'
<1>1. CASE kind = "cancelled" /\ ~canWrite
  BY <1>1, LeaveBase DEF Handle, Base, Sound, TypeOK, Placed
<1>2. CASE ~(kind = "cancelled" /\ ~canWrite)
  <2>1. /\ run' = [r EXCEPT !.init = @ /\ pc # "save1"]
        /\ eng' = IF pc = "save0" THEN NoEngine ELSE eng
        /\ fin' = [kind |-> kind, claim |-> claim, handler |-> TRUE]
        /\ pc' = IF canWrite THEN "persist" ELSE "tell"
        /\ UNCHANGED <<last, canWrite, seen, call, tries, said>>
    BY <1>2 DEF Handle, Goto
  <2>2. TypeOK'
    <3>1. run' \in RunState /\ run'.guard = run.guard
      BY <2>1 DEF RunState
    <3>2. eng' \in EngineState /\ fin' \in Ends
      BY <2>1, Types DEF Base, Sound, TypeOK, Ends
    <3>3. pc' \in EndLabels
      BY <2>1 DEF EndLabels
    <3> QED
      BY <2>1, <3>1, <3>2, <3>3 DEF Base, Sound, World, TypeOK, Ends
  <2>3. Ended' /\ Placed'
    <3>1. pc' \in {"persist", "tell"} /\ starts # 0 /\ (kind = "cancelled" => pc' = "persist")
      BY <1>2, <2>1 DEF Base, Sound, Placed
    <3> QED
      BY <2>1, <3>1 DEF Ended, Placed, EndLabels, Asking, WorkLabels, SaveLabels
  <2>4. Formed(eng)' /\ Formed(last)' /\ Reserved'
    BY <2>1 DEF Base, Sound, Formed, NoEngine, World, Reserved, RunState
  <2> QED
    BY <2>2, <2>3, <2>4 DEF Base, Sound, World
<1> QED
  BY <1>1, <1>2
-----------------------------------------------------------------------------
(* The steps of the work. *)
LEMMA WorkTypes ==
    ASSUME TypeOK, World', run' \in RunState, eng' \in EngineState, last' \in EngineState,
           canWrite' \in BOOLEAN, seen' \in Nat, call' \in {"skills", "summary", "model", "barred"},
           tries' \in 0..RetryAttempts, said' \in 0..MaxModelTurns, fin' \in Ends,
           pc' \in WorkLabels \cup EndLabels, UNCHANGED <<told, starts>>,
           refused' \in BOOLEAN
    PROVE  TypeOK'
<1>1. /\ log' \in Seq(Seq(0..MaxModelTurns))
      /\ \A d \in disk' : d \in [run : RunState, eng : EngineState]
      /\ calls' \in 0..MaxModelTurns /\ ran' \in Nat /\ shown' \in Nat
      /\ staged' \in BOOLEAN /\ retain' \in BOOLEAN
  BY DEF World
<1>2. /\ told' \in [kind : {"none", "completed", "failed"}, claim : BOOLEAN,
                    answer : 0..MaxModelTurns]
      /\ starts' \in 0..(MaxResumes + 1)
  BY DEF TypeOK
<1> QED
  BY <1>1, <1>2 DEF TypeOK, Ends

LEMMA SelectSkillsBase == ASSUME Base, SelectSkills PROVE Base'
<1>1. /\ pc = "skills" /\ pc' \in {"reserve", "start"}
      /\ pc' = "reserve" => call' = "skills"
      /\ pc' = "start" => call' = call
      /\ UNCHANGED <<world, rest, run, eng, last, canWrite, seen, tries, said, fin>>
  BY DEF SelectSkills, Goto
<1>2. World'
  BY <1>1, EffectWorld DEF rest, Effect
<1>3. TypeOK'
  BY <1>1, <1>2, WorkTypes DEF rest, Base, Sound, TypeOK, WorkLabels, Ends
<1>4. Ended'
  BY <1>1 DEF Base, Sound, Ended, WorkLabels, SaveLabels
<1>5. Placed'
  BY <1>1, StandardRunAssumption DEF Base, Sound, Placed, Asking, rest, world, WorkLabels,
     SaveLabels
<1>6. Formed(eng)' /\ Formed(last)'
  BY <1>1 DEF Base, Sound, Formed, rest, mode
<1>7. Reserved'
  BY <1>1 DEF Base, Sound, Reserved, world, Placed
<1> QED
  BY <1>2, <1>3, <1>4, <1>5, <1>6, <1>7 DEF Base, Sound, World

(* What the steps change in the state of the run and of the engine. *)
LEMMA RunUpdates ==
    ASSUME NEW r \in RunState
    PROVE  /\ \A n \in 0..MaxSteps : [r EXCEPT !.step = n] \in RunState
           /\ \A n \in 0..MaxToolCalls : [r EXCEPT !.tools = n] \in RunState
           /\ \A s \in {"resumable", "manual", "never"} : [r EXCEPT !.safety = s] \in RunState
           /\ \A n \in 0..MaxModelTurns : [r EXCEPT !.guard = n] \in RunState
           /\ \A b \in BOOLEAN : /\ [r EXCEPT !.init = b] \in RunState
                                 /\ [r EXCEPT !.skills = b] \in RunState
           /\ \A x \in 0..MaxModelTurns :
                 /\ [r EXCEPT !.new = Append(r.new, x)] \in RunState
                 /\ [r EXCEPT !.public = TRUE, !.new = Append(r.new, x)] \in RunState
           /\ BatchDone(r) \in RunState
<1>1. /\ \A n \in 0..MaxSteps : [r EXCEPT !.step = n] \in RunState
      /\ \A n \in 0..MaxToolCalls : [r EXCEPT !.tools = n] \in RunState
      /\ \A s \in {"resumable", "manual", "never"} : [r EXCEPT !.safety = s] \in RunState
      /\ \A n \in 0..MaxModelTurns : [r EXCEPT !.guard = n] \in RunState
      /\ \A b \in BOOLEAN : /\ [r EXCEPT !.init = b] \in RunState
                            /\ [r EXCEPT !.skills = b] \in RunState
  BY DEF RunState
<1>2. ASSUME NEW x \in 0..MaxModelTurns
      PROVE  /\ [r EXCEPT !.new = Append(r.new, x)] \in RunState
             /\ [r EXCEPT !.public = TRUE, !.new = Append(r.new, x)] \in RunState
  <2> DEFINE s == Append(r.new, x)
  <2>1. s \in Seq(0..MaxModelTurns)
    BY Types
  <2> HIDE DEF s
  <2>2. /\ [r EXCEPT !.new = s] \in RunState
        /\ [r EXCEPT !.public = TRUE, !.new = s] \in RunState
    BY <2>1 DEF RunState
  <2> QED
    BY <2>2 DEF s
<1>3. BatchDone(r) \in RunState
  <2>1. <<>> \in Seq(0..MaxModelTurns) /\ r.batch + 1 \in Nat
    BY Types
  <2> DEFINE e == <<>>
             n == r.batch + 1
  <2>2. e \in Seq(0..MaxModelTurns) /\ n \in Nat
    BY <2>1
  <2> HIDE DEF e, n
  <2>3. [r EXCEPT !.new = e, !.batch = n] \in RunState
    BY <2>2 DEF RunState
  <2> QED
    BY <2>3 DEF e, n, BatchDone
<1> QED
  BY <1>1, <1>2, <1>3

LEMMA TrippedRun ==
    ASSUME NEW r \in RunState
    PROVE  LET s == [r EXCEPT !.safety = "never"] IN
           /\ s \in RunState /\ s.safety = "never"
           /\ s.step = r.step /\ s.tools = r.tools /\ s.guard = r.guard
           /\ s.new = r.new /\ s.batch = r.batch /\ s.init = r.init /\ s.public = r.public
<1> DEFINE s == [r EXCEPT !.safety = "never"]
<1>1. s \in RunState
  BY RunUpdates
<1>2. /\ s.safety = "never" /\ s.step = r.step /\ s.tools = r.tools /\ s.guard = r.guard
      /\ s.new = r.new /\ s.batch = r.batch /\ s.init = r.init /\ s.public = r.public
  BY DEF RunState
<1> QED
  BY <1>1, <1>2

LEMMA EngineUpdates ==
    ASSUME NEW e \in EngineState
    PROVE  /\ \A p \in {"none", "act", "finalize", "done", "failed"} :
                 /\ [e EXCEPT !.phase = p] \in EngineState
                 /\ \A n \in 0..MaxSteps : [e EXCEPT !.phase = p, !.turn = n] \in EngineState
                 /\ \A x \in 0..MaxModelTurns :
                       [e EXCEPT !.resp = x, !.phase = p] \in EngineState
                 /\ [e EXCEPT !.emitted = TRUE, !.phase = p] \in EngineState
           /\ \A n \in 0..MaxToolCalls : [e EXCEPT !.tools = n] \in EngineState
           /\ \A x \in 0..MaxModelTurns : [e EXCEPT !.resp = x] \in EngineState
           /\ \A b \in BOOLEAN : [e EXCEPT !.persisted = b] \in EngineState
  BY DEF EngineState

LEMMA OutcomeEnds ==
    ASSUME NEW kind \in {"completed", "failed"}, Outcome(kind)
    PROVE  fin' \in Ends /\ fin'.kind = kind /\ ~fin'.handler /\ pc' = "finish"
<1>1. fin' = [kind |-> kind, claim |-> kind = "failed" /\ Claim(run), handler |-> FALSE]
  BY DEF Outcome
<1>2. (kind = "failed" /\ Claim(run)) \in BOOLEAN
  BY DEF Claim
<1>3. pc' = "finish"
  BY DEF Outcome, Goto
<1> HIDE DEF Claim
<1> QED
  BY <1>1, <1>2, <1>3 DEF Ends

LEMMA ExecuteBase == ASSUME Base, Execute, ~(eng.phase = "done" /\ eng.resp = 0) PROVE Base'
<1> TypeOK /\ Ended /\ Placed /\ Formed(eng) /\ Formed(last) /\ Reserved
  BY DEF Base, Sound
<1>1. World' /\ calls' <= run.guard
  BY EffectWorld, InFlightIsEffect DEF Effect, Execute, Goto, rest, world
<1>2. TypeOK'
  <2>1. run' \in RunState /\ eng' \in EngineState
    <3>1. run \in RunState /\ eng \in EngineState /\ said \in 0..MaxModelTurns
      BY DEF TypeOK
    <3> QED
      BY <3>1, RunUpdates, EngineUpdates DEF Execute, Goto, memory
  <2>2. pc' \in WorkLabels \cup EndLabels
    BY OutcomeEnds DEF Execute, Goto, WorkLabels, SaveLabels, EndLabels
  <2>3. /\ last' \in EngineState /\ canWrite' \in BOOLEAN /\ seen' \in Nat
        /\ call' \in {"skills", "summary", "model", "barred"} /\ tries' \in 0..RetryAttempts
        /\ said' \in 0..MaxModelTurns /\ fin' \in Ends
    BY OutcomeEnds, StandardRunAssumption DEF Execute, Goto, TypeOK, Placed, memory, Ends
  <2> QED
    BY <1>1, <2>1, <2>2, <2>3, WorkTypes DEF Execute, Goto, rest, TypeOK
<1>3. Ended'
  BY OutcomeEnds DEF Execute, Goto, Ended, NoEnd, TypeOK, EngineState, memory, WorkLabels,
     SaveLabels
<1>4. Placed'
  <2>1. /\ pc = "execute" /\ UNCHANGED <<run, eng, last, canWrite, seen, call, tries, starts, staged>>
    BY DEF Execute, memory, rest, mode
  <2>2. /\ starts # 0 /\ canWrite /\ call = "model" /\ tries = 0 /\ eng.phase # "none"
    BY <2>1 DEF Placed, Asking, WorkLabels, SaveLabels
  <2>3. \/ pc' = "loop" /\ eng.phase = "act"
        \/ pc' = "finalize" /\ eng.phase = "finalize" /\ staged
        \/ pc' = "finish" /\ eng.phase \in {"done", "failed"}
    <3>1. eng.phase \in {"none", "act", "finalize", "done", "failed"}
      BY DEF TypeOK, EngineState
    <3> QED
      BY <2>2, <3>1, OutcomeEnds DEF Execute, Goto, Formed
  <2> QED
    BY <2>1, <2>2, <2>3 DEF Placed, Asking, WorkLabels, SaveLabels
<1>5. Formed(eng)' /\ Formed(last)'
  <2>1. UNCHANGED <<eng, last, staged>>
    BY DEF Execute, memory, rest, mode
  <2> QED
    BY <2>1 DEF Formed
<1>6. Reserved'
  <2>1. run'.guard = run.guard
    BY OutcomeEnds DEF Execute, Goto, TypeOK, RunState, memory
  <2> QED
    BY <1>1, <2>1, OutcomeEnds DEF Execute, Goto, World, Reserved
<1> QED
  BY <1>1, <1>2, <1>3, <1>4, <1>5, <1>6 DEF Base, Sound, World

LEMMA TurnLeads ==
    ASSUME Base, Turn
    PROVE  \/ /\ eng.turn < MaxSteps /\ eng' = [eng EXCEPT !.phase = "act", !.turn = eng.turn + 1]
              /\ run' = [run EXCEPT !.step = eng.turn + 1] /\ pc' = "prepare" /\ fin' = fin
              /\ eng'.phase = "act" /\ eng'.resp = 0
           \/ /\ eng' = [eng EXCEPT !.phase = "failed"] /\ run' = run /\ eng'.phase = "failed"
              /\ Outcome("failed") /\ pc' = "finish"
<1>1. eng \in EngineState /\ eng.resp = 0
  BY DEF Base, Sound, TypeOK, Turn, Placed, Formed
<1>2. CASE eng.turn < MaxSteps
  <2>1. /\ eng' = [eng EXCEPT !.phase = "act", !.turn = eng.turn + 1]
        /\ run' = [run EXCEPT !.step = eng.turn + 1] /\ pc' = "prepare" /\ fin' = fin
    BY <1>2 DEF Turn, Goto
  <2>2. eng'.phase = "act" /\ eng'.resp = 0
    BY <1>1, <2>1 DEF EngineState
  <2> QED
    BY <1>2, <2>1, <2>2
<1>3. CASE ~(eng.turn < MaxSteps)
  <2>1. eng' = [eng EXCEPT !.phase = "failed"] /\ run' = run /\ Outcome("failed")
    BY <1>3 DEF Turn
  <2>2. eng'.phase = "failed"
    BY <1>1, <2>1 DEF EngineState
  <2> QED
    BY <2>1, <2>2, OutcomeEnds
<1> QED
  BY <1>2, <1>3

LEMMA TurnBase == ASSUME Base, Turn PROVE Base'
<1> TypeOK /\ Ended /\ Placed /\ Formed(eng) /\ Formed(last) /\ Reserved
  BY DEF Base, Sound
<1>0. \/ /\ eng.turn < MaxSteps /\ eng' = [eng EXCEPT !.phase = "act", !.turn = eng.turn + 1]
         /\ run' = [run EXCEPT !.step = eng.turn + 1] /\ pc' = "prepare" /\ fin' = fin
         /\ eng'.phase = "act" /\ eng'.resp = 0
      \/ /\ eng' = [eng EXCEPT !.phase = "failed"] /\ run' = run /\ eng'.phase = "failed"
         /\ Outcome("failed") /\ pc' = "finish"
  BY TurnLeads
<1>1. World' /\ calls' <= run.guard
  BY <1>0, EffectWorld, InFlightIsEffect DEF Effect, Turn, Goto, rest, world
<1>2. TypeOK'
  <2>1. run' \in RunState /\ eng' \in EngineState
    <3>1. run \in RunState /\ eng \in EngineState /\ said \in 0..MaxModelTurns
      BY DEF TypeOK
    <3>2. eng.turn < MaxSteps => eng.turn + 1 \in 0..MaxSteps
      BY <3>1, StandardRunAssumption DEF EngineState, Turn, Goto
    <3> QED
      <4>1. [run EXCEPT !.step = eng.turn + 1] \in RunState \/ ~(eng.turn < MaxSteps)
        BY <3>1, <3>2, RunUpdates
      <4>2. /\ eng.turn < MaxSteps => [eng EXCEPT !.phase = "act", !.turn = eng.turn + 1] \in EngineState
            /\ [eng EXCEPT !.phase = "failed"] \in EngineState
        BY <3>1, <3>2, EngineUpdates
      <4> QED
        BY <1>0, <3>1, <4>1, <4>2
  <2>2. pc' \in WorkLabels \cup EndLabels
    BY <1>0, OutcomeEnds DEF Turn, Goto, WorkLabels, SaveLabels, EndLabels
  <2>3. /\ last' \in EngineState /\ canWrite' \in BOOLEAN /\ seen' \in Nat
        /\ call' \in {"skills", "summary", "model", "barred"} /\ tries' \in 0..RetryAttempts
        /\ said' \in 0..MaxModelTurns /\ fin' \in Ends
    BY <1>0, OutcomeEnds, StandardRunAssumption DEF Turn, Goto, TypeOK, Placed, Ends
  <2> QED
    BY <1>1, <2>1, <2>2, <2>3, WorkTypes DEF Turn, Goto, rest, TypeOK
<1>3. Ended'
  BY <1>0, OutcomeEnds DEF Turn, Goto, Ended, NoEnd, TypeOK, EngineState, WorkLabels, SaveLabels
<1>4. Placed'
  BY <1>0, OutcomeEnds, StandardRunAssumption DEF Turn, Goto, TypeOK, RunState, EngineState,
     Placed, Asking, Formed, rest, mode, world, WorkLabels, SaveLabels
<1>5. Formed(eng)' /\ Formed(last)'
  <2>1. UNCHANGED <<last, staged>>
    BY DEF Turn, rest, mode
  <2>2. eng'.resp = eng.resp /\ eng'.persisted = eng.persisted /\ eng'.emitted = eng.emitted
    BY DEF Turn, TypeOK, EngineState
  <2> QED
    BY <1>0, <2>1, <2>2 DEF Formed, Turn, Placed
<1>6. Reserved'
  <2>1. run'.guard = run.guard
    BY <1>0, OutcomeEnds DEF Turn, Goto, TypeOK, RunState
  <2> QED
    BY <1>0, <1>1, <2>1, OutcomeEnds DEF Turn, Goto, World, Reserved
<1> QED
  BY <1>1, <1>2, <1>3, <1>4, <1>5, <1>6 DEF Base, Sound, World

LEMMA PrepareBase == ASSUME Base, Prepare PROVE Base'
<1> TypeOK /\ Ended /\ Placed /\ Formed(eng) /\ Formed(last) /\ Reserved
  BY DEF Base, Sound
<1>1. World' /\ calls' <= run.guard
  BY EffectWorld, InFlightIsEffect DEF Effect, Prepare, Goto, rest, world
<1>2. TypeOK'
  <2>1. run' \in RunState /\ eng' \in EngineState
    <3>1. run \in RunState /\ eng \in EngineState /\ said \in 0..MaxModelTurns
      BY DEF TypeOK
    <3> QED
      BY <3>1, RunUpdates, EngineUpdates DEF Prepare, Goto
  <2>2. pc' \in WorkLabels \cup EndLabels
    BY OutcomeEnds DEF Prepare, Goto, WorkLabels, SaveLabels, EndLabels
  <2>3. /\ last' \in EngineState /\ canWrite' \in BOOLEAN /\ seen' \in Nat
        /\ call' \in {"skills", "summary", "model", "barred"} /\ tries' \in 0..RetryAttempts
        /\ said' \in 0..MaxModelTurns /\ fin' \in Ends
    BY OutcomeEnds, StandardRunAssumption DEF Prepare, Goto, TypeOK, Placed, Ends
  <2> QED
    BY <1>1, <2>1, <2>2, <2>3, WorkTypes DEF Prepare, Goto, rest, TypeOK
<1>3. Ended'
  BY OutcomeEnds DEF Prepare, Goto, Ended, NoEnd, TypeOK, EngineState, WorkLabels, SaveLabels
<1>4. Placed'
  BY OutcomeEnds, StandardRunAssumption DEF Prepare, Goto, TypeOK, RunState, EngineState,
     Placed, Asking, Formed, rest, mode, world, WorkLabels, SaveLabels
<1>5. Formed(eng)' /\ Formed(last)'
  BY DEF Prepare, Goto, TypeOK, EngineState, Placed, Asking, Formed, rest, mode, WorkLabels,
     SaveLabels
<1>6. Reserved'
  <2>1. run'.guard = run.guard
    BY OutcomeEnds DEF Prepare, Goto, TypeOK, RunState
  <2> QED
    BY <1>1, <2>1, OutcomeEnds DEF Prepare, Goto, World, Reserved
<1> QED
  BY <1>1, <1>2, <1>3, <1>4, <1>5, <1>6 DEF Base, Sound, World

LEMMA DecideFinishBase == ASSUME Base, DecideFinish PROVE Base'
<1> TypeOK /\ Ended /\ Placed /\ Formed(eng) /\ Formed(last) /\ Reserved
  BY DEF Base, Sound
<1>1. World' /\ calls' <= run.guard
  BY EffectWorld, InFlightIsEffect DEF Effect, DecideFinish, Goto, rest, world
<1>2. TypeOK'
  <2>1. run' \in RunState /\ eng' \in EngineState
    <3>1. run \in RunState /\ eng \in EngineState /\ said \in 0..MaxModelTurns
      BY DEF TypeOK
    <3>2. [run EXCEPT !.new = Append(run.new, said)] \in RunState
      BY <3>1, RunUpdates
    <3>3. run' \in {run, [run EXCEPT !.new = Append(run.new, said)]} /\ eng' = eng
      BY DEF DecideFinish
    <3> QED
      BY <3>1, <3>2, <3>3
  <2>2. pc' \in WorkLabels \cup EndLabels
    BY OutcomeEnds DEF DecideFinish, Goto, WorkLabels, SaveLabels, EndLabels
  <2>3. /\ last' \in EngineState /\ canWrite' \in BOOLEAN /\ seen' \in Nat
        /\ call' \in {"skills", "summary", "model", "barred"} /\ tries' \in 0..RetryAttempts
        /\ said' \in 0..MaxModelTurns /\ fin' \in Ends
    BY OutcomeEnds, StandardRunAssumption DEF DecideFinish, Goto, TypeOK, Placed, Ends
  <2> QED
    BY <1>1, <2>1, <2>2, <2>3, WorkTypes DEF DecideFinish, Goto, rest, TypeOK
<1>3. Ended'
  BY OutcomeEnds DEF DecideFinish, Goto, Ended, NoEnd, TypeOK, EngineState, WorkLabels,
     SaveLabels
<1>4. Placed'
  BY OutcomeEnds, StandardRunAssumption DEF DecideFinish, Goto, TypeOK, RunState, EngineState,
     Placed, Asking, Formed, rest, mode, world, WorkLabels, SaveLabels
<1>5. Formed(eng)' /\ Formed(last)'
  BY DEF DecideFinish, Goto, TypeOK, EngineState, Placed, Asking, Formed, rest, mode,
     WorkLabels, SaveLabels
<1>6. Reserved'
  <2>1. run'.guard = run.guard
    BY OutcomeEnds DEF DecideFinish, Goto, TypeOK, RunState
  <2> QED
    BY <1>1, <2>1, OutcomeEnds DEF DecideFinish, Goto, World, Reserved
<1> QED
  BY <1>1, <1>2, <1>3, <1>4, <1>5, <1>6 DEF Base, Sound, World

LEMMA DecideCustomBase == ASSUME Base, DecideCustom PROVE Base'
<1> TypeOK /\ Ended /\ Placed /\ Formed(eng) /\ Formed(last) /\ Reserved
  BY DEF Base, Sound
<1>1. World' /\ calls' <= run.guard
  BY EffectWorld, InFlightIsEffect DEF Effect, DecideCustom, rest, world
<1>2. TypeOK'
  <2>1. run' \in RunState /\ eng' \in EngineState
    <3>1. run \in RunState /\ eng \in EngineState /\ said \in 0..MaxModelTurns
      BY DEF TypeOK
    <3> QED
      BY <3>1, RunUpdates, EngineUpdates DEF DecideCustom
  <2>2. pc' \in WorkLabels \cup EndLabels
    BY OutcomeEnds DEF DecideCustom, WorkLabels, SaveLabels, EndLabels
  <2>3. /\ last' \in EngineState /\ canWrite' \in BOOLEAN /\ seen' \in Nat
        /\ call' \in {"skills", "summary", "model", "barred"} /\ tries' \in 0..RetryAttempts
        /\ said' \in 0..MaxModelTurns /\ fin' \in Ends
    BY OutcomeEnds, StandardRunAssumption DEF DecideCustom, TypeOK, Placed, Ends
  <2> QED
    BY <1>1, <2>1, <2>2, <2>3, WorkTypes DEF DecideCustom, rest, TypeOK
<1>3. Ended'
  BY OutcomeEnds DEF DecideCustom, Ended, NoEnd, TypeOK, EngineState, WorkLabels, SaveLabels
<1>4. Placed'
  BY OutcomeEnds, StandardRunAssumption DEF DecideCustom, TypeOK, RunState, EngineState, Placed,
     Asking, Formed, rest, mode, world, WorkLabels, SaveLabels
<1>5. Formed(eng)' /\ Formed(last)'
  BY DEF DecideCustom, TypeOK, EngineState, Placed, Asking, Formed, rest, mode, WorkLabels,
     SaveLabels
<1>6. Reserved'
  <2>1. run'.guard = run.guard
    BY OutcomeEnds DEF DecideCustom, TypeOK, RunState
  <2> QED
    BY <1>1, <2>1, OutcomeEnds DEF DecideCustom, World, Reserved
<1> QED
  BY <1>1, <1>2, <1>3, <1>4, <1>5, <1>6 DEF Base, Sound, World

LEMMA DecideFailBase == ASSUME Base, DecideFail PROVE Base'
<1> TypeOK /\ Ended /\ Placed /\ Formed(eng) /\ Formed(last) /\ Reserved
  BY DEF Base, Sound
<1>1. World' /\ calls' <= run.guard
  BY EffectWorld, InFlightIsEffect DEF Effect, DecideFail, rest, world
<1>2. TypeOK'
  <2>1. run' \in RunState /\ eng' \in EngineState
    <3>1. run \in RunState /\ eng \in EngineState /\ said \in 0..MaxModelTurns
      BY DEF TypeOK
    <3> QED
      BY <3>1, RunUpdates, EngineUpdates DEF DecideFail
  <2>2. pc' \in WorkLabels \cup EndLabels
    BY OutcomeEnds DEF DecideFail, WorkLabels, SaveLabels, EndLabels
  <2>3. /\ last' \in EngineState /\ canWrite' \in BOOLEAN /\ seen' \in Nat
        /\ call' \in {"skills", "summary", "model", "barred"} /\ tries' \in 0..RetryAttempts
        /\ said' \in 0..MaxModelTurns /\ fin' \in Ends
    BY OutcomeEnds, StandardRunAssumption DEF DecideFail, TypeOK, Placed, Ends
  <2> QED
    BY <1>1, <2>1, <2>2, <2>3, WorkTypes DEF DecideFail, rest, TypeOK
<1>3. Ended'
  BY OutcomeEnds DEF DecideFail, Ended, NoEnd, TypeOK, EngineState, WorkLabels, SaveLabels
<1>4. Placed'
  BY OutcomeEnds, StandardRunAssumption DEF DecideFail, TypeOK, RunState, EngineState, Placed,
     Asking, Formed, rest, mode, world, WorkLabels, SaveLabels
<1>5. Formed(eng)' /\ Formed(last)'
  BY DEF DecideFail, TypeOK, EngineState, Placed, Asking, Formed, rest, mode, WorkLabels,
     SaveLabels
<1>6. Reserved'
  <2>1. run'.guard = run.guard
    BY OutcomeEnds DEF DecideFail, TypeOK, RunState
  <2> QED
    BY <1>1, <2>1, OutcomeEnds DEF DecideFail, World, Reserved
<1> QED
  BY <1>1, <1>2, <1>3, <1>4, <1>5, <1>6 DEF Base, Sound, World

LEMMA DecideContinueBase == ASSUME Base, DecideContinue PROVE Base'
<1> TypeOK /\ Ended /\ Placed /\ Formed(eng) /\ Formed(last) /\ Reserved
  BY DEF Base, Sound
<1>1. World' /\ calls' <= run.guard
  BY EffectWorld, InFlightIsEffect DEF Effect, DecideContinue, Goto, rest, world
<1>2. TypeOK'
  <2>1. run' \in RunState /\ eng' \in EngineState
    <3>1. run \in RunState /\ eng \in EngineState /\ said \in 0..MaxModelTurns
      BY DEF TypeOK
    <3> QED
      BY <3>1, RunUpdates, EngineUpdates DEF DecideContinue, Goto
  <2>2. pc' \in WorkLabels \cup EndLabels
    BY OutcomeEnds DEF DecideContinue, Goto, WorkLabels, SaveLabels, EndLabels
  <2>3. /\ last' \in EngineState /\ canWrite' \in BOOLEAN /\ seen' \in Nat
        /\ call' \in {"skills", "summary", "model", "barred"} /\ tries' \in 0..RetryAttempts
        /\ said' \in 0..MaxModelTurns /\ fin' \in Ends
    BY OutcomeEnds, StandardRunAssumption DEF DecideContinue, Goto, TypeOK, Placed, Ends
  <2> QED
    BY <1>1, <2>1, <2>2, <2>3, WorkTypes DEF DecideContinue, Goto, rest, TypeOK
<1>3. Ended'
  BY OutcomeEnds DEF DecideContinue, Goto, Ended, NoEnd, TypeOK, EngineState, WorkLabels,
     SaveLabels
<1>4. Placed'
  BY OutcomeEnds, StandardRunAssumption DEF DecideContinue, Goto, TypeOK, RunState, EngineState,
     Placed, Asking, Formed, rest, mode, world, WorkLabels, SaveLabels
<1>5. Formed(eng)' /\ Formed(last)'
  BY DEF DecideContinue, Goto, TypeOK, EngineState, Placed, Asking, Formed, rest, mode,
     WorkLabels, SaveLabels
<1>6. Reserved'
  <2>1. run'.guard = run.guard
    BY OutcomeEnds DEF DecideContinue, Goto, TypeOK, RunState
  <2> QED
    BY <1>1, <2>1, OutcomeEnds DEF DecideContinue, Goto, World, Reserved
<1> QED
  BY <1>1, <1>2, <1>3, <1>4, <1>5, <1>6 DEF Base, Sound, World

LEMMA DecideToolsBase == ASSUME Base, DecideTools PROVE Base'
<1> TypeOK /\ Ended /\ Placed /\ Formed(eng) /\ Formed(last) /\ Reserved
  BY DEF Base, Sound
<1>0. \/ /\ eng.tools < MaxToolCalls /\ eng' = [eng EXCEPT !.tools = eng.tools + 1]
         /\ run' = [run EXCEPT !.tools = eng.tools + 1] /\ pc' = "intent" /\ fin' = fin
         /\ eng'.phase = "act"
      \/ /\ eng' = [eng EXCEPT !.phase = "failed"] /\ run' = run /\ eng'.phase = "failed"
         /\ Outcome("failed") /\ pc' = "finish"
  <2>1. eng \in EngineState /\ eng.phase = "act"
    BY DEF TypeOK, DecideTools, Placed
  <2>2. CASE eng.tools < MaxToolCalls
    <3>1. /\ eng' = [eng EXCEPT !.tools = eng.tools + 1]
          /\ run' = [run EXCEPT !.tools = eng.tools + 1] /\ pc' = "intent" /\ fin' = fin
      BY <2>2 DEF DecideTools, Goto
    <3>2. eng'.phase = "act"
      BY <2>1, <3>1 DEF EngineState
    <3> QED
      BY <2>2, <3>1, <3>2
  <2>3. CASE ~(eng.tools < MaxToolCalls)
    <3>1. eng' = [eng EXCEPT !.phase = "failed"] /\ run' = run /\ Outcome("failed")
      BY <2>3 DEF DecideTools
    <3>2. eng'.phase = "failed"
      BY <2>1, <3>1 DEF EngineState
    <3> QED
      BY <3>1, <3>2, OutcomeEnds
  <2> QED
    BY <2>2, <2>3
<1>1. World' /\ calls' <= run.guard
  BY EffectWorld, InFlightIsEffect DEF Effect, DecideTools, Goto, rest, world
<1>2. TypeOK'
  <2>1. run' \in RunState /\ eng' \in EngineState
    <3>1. run \in RunState /\ eng \in EngineState /\ said \in 0..MaxModelTurns
      BY DEF TypeOK
    <3>2. eng.tools < MaxToolCalls => eng.tools + 1 \in 0..MaxToolCalls
      BY <3>1, StandardRunAssumption DEF EngineState, DecideTools, Goto
    <3>3. eng.tools < MaxToolCalls => [run EXCEPT !.tools = eng.tools + 1] \in RunState
      BY <3>1, <3>2, RunUpdates
    <3>4. /\ eng.tools < MaxToolCalls => [eng EXCEPT !.tools = eng.tools + 1] \in EngineState
          /\ [eng EXCEPT !.phase = "failed"] \in EngineState
      BY <3>1, <3>2, EngineUpdates
    <3> QED
      BY <1>0, <3>1, <3>3, <3>4
  <2>2. pc' \in WorkLabels \cup EndLabels
    BY OutcomeEnds DEF DecideTools, Goto, WorkLabels, SaveLabels, EndLabels
  <2>3. /\ last' \in EngineState /\ canWrite' \in BOOLEAN /\ seen' \in Nat
        /\ call' \in {"skills", "summary", "model", "barred"} /\ tries' \in 0..RetryAttempts
        /\ said' \in 0..MaxModelTurns /\ fin' \in Ends
    BY OutcomeEnds, StandardRunAssumption DEF DecideTools, Goto, TypeOK, Placed, Ends
  <2> QED
    BY <1>1, <2>1, <2>2, <2>3, WorkTypes DEF DecideTools, Goto, rest, TypeOK
<1>3. Ended'
  BY OutcomeEnds DEF DecideTools, Goto, Ended, NoEnd, TypeOK, EngineState, WorkLabels,
     SaveLabels
<1>4. Placed'
  <2>1. pc = "decide" /\ UNCHANGED <<last, canWrite, seen, call, tries, said, starts, staged>>
    BY DEF DecideTools, rest, mode
  <2>2. starts # 0 /\ canWrite /\ call = "model" /\ tries = 0 /\ (eng'.phase = "act" => said # 0)
    BY <2>1 DEF Placed, Asking, WorkLabels, SaveLabels
  <2>3. pc' \in {"intent", "finish"} /\ (pc' = "intent" => eng'.phase = "act")
        /\ (pc' = "finish" => eng'.phase = "failed")
    BY <1>0
  <2> QED
    BY <2>1, <2>2, <2>3 DEF Placed, Asking, WorkLabels, SaveLabels
<1>5. Formed(eng)' /\ Formed(last)'
  <2>1. UNCHANGED <<last, staged>>
    BY DEF DecideTools, rest, mode
  <2>2. eng'.resp = eng.resp /\ eng'.persisted = eng.persisted /\ eng'.emitted = eng.emitted
    BY DEF DecideTools, TypeOK, EngineState
  <2> QED
    BY <1>0, <2>1, <2>2 DEF Formed, DecideTools, Placed
<1>6. Reserved'
  <2>1. run'.guard = run.guard
    BY OutcomeEnds DEF DecideTools, Goto, TypeOK, RunState
  <2> QED
    BY <1>1, <2>1, OutcomeEnds DEF DecideTools, Goto, World, Reserved
<1> QED
  BY <1>1, <1>2, <1>3, <1>4, <1>5, <1>6 DEF Base, Sound, World

LEMMA IntentBase == ASSUME Base, Intent PROVE Base'
<1> TypeOK /\ Ended /\ Placed /\ Formed(eng) /\ Formed(last) /\ Reserved
  BY DEF Base, Sound
<1>1. World' /\ calls' <= run.guard
  BY EffectWorld, InFlightIsEffect DEF Effect, Intent, Goto, rest, world
<1>2. TypeOK'
  <2>1. run' \in RunState /\ eng' \in EngineState
    <3>1. run \in RunState /\ eng \in EngineState /\ said \in 0..MaxModelTurns
      BY DEF TypeOK
    <3> QED
      BY <3>1, RunUpdates, EngineUpdates DEF Intent, Goto
  <2>2. pc' \in WorkLabels \cup EndLabels
    BY OutcomeEnds DEF Intent, Goto, WorkLabels, SaveLabels, EndLabels
  <2>3. /\ last' \in EngineState /\ canWrite' \in BOOLEAN /\ seen' \in Nat
        /\ call' \in {"skills", "summary", "model", "barred"} /\ tries' \in 0..RetryAttempts
        /\ said' \in 0..MaxModelTurns /\ fin' \in Ends
    BY OutcomeEnds, StandardRunAssumption DEF Intent, Goto, TypeOK, Placed, Ends
  <2> QED
    BY <1>1, <2>1, <2>2, <2>3, WorkTypes DEF Intent, Goto, rest, TypeOK
<1>3. Ended'
  BY OutcomeEnds DEF Intent, Goto, Ended, NoEnd, TypeOK, EngineState, WorkLabels, SaveLabels
<1>4. Placed'
  BY OutcomeEnds, StandardRunAssumption DEF Intent, Goto, TypeOK, RunState, EngineState, Placed,
     Asking, Formed, rest, mode, world, WorkLabels, SaveLabels
<1>5. Formed(eng)' /\ Formed(last)'
  BY DEF Intent, Goto, TypeOK, EngineState, Placed, Asking, Formed, rest, mode, WorkLabels,
     SaveLabels
<1>6. Reserved'
  <2>1. run'.guard = run.guard
    BY OutcomeEnds DEF Intent, Goto, TypeOK, RunState
  <2> QED
    BY <1>1, <2>1, OutcomeEnds DEF Intent, Goto, World, Reserved
<1> QED
  BY <1>1, <1>2, <1>3, <1>4, <1>5, <1>6 DEF Base, Sound, World

LEMMA RunToolsBase == ASSUME Base, RunTools PROVE Base'
<1> TypeOK /\ Ended /\ Placed /\ Formed(eng) /\ Formed(last) /\ Reserved
  BY DEF Base, Sound
<1>1. World' /\ calls' <= run.guard
  BY EffectWorld, InFlightIsEffect DEF Effect, RunTools, Goto, rest, world
<1>2. TypeOK'
  <2>1. run' \in RunState /\ eng' \in EngineState
    <3>1. run \in RunState /\ eng \in EngineState /\ said \in 0..MaxModelTurns
      BY DEF TypeOK
    <3> QED
      BY <3>1, RunUpdates, EngineUpdates DEF RunTools, Goto
  <2>2. pc' \in WorkLabels \cup EndLabels
    BY OutcomeEnds DEF RunTools, Goto, WorkLabels, SaveLabels, EndLabels
  <2>3. /\ last' \in EngineState /\ canWrite' \in BOOLEAN /\ seen' \in Nat
        /\ call' \in {"skills", "summary", "model", "barred"} /\ tries' \in 0..RetryAttempts
        /\ said' \in 0..MaxModelTurns /\ fin' \in Ends
    BY OutcomeEnds, StandardRunAssumption DEF RunTools, Goto, TypeOK, Placed, Ends
  <2> QED
    BY <1>1, <2>1, <2>2, <2>3, WorkTypes DEF RunTools, Goto, rest, TypeOK
<1>3. Ended'
  BY OutcomeEnds DEF RunTools, Goto, Ended, NoEnd, TypeOK, EngineState, WorkLabels, SaveLabels
<1>4. Placed'
  BY OutcomeEnds, StandardRunAssumption DEF RunTools, Goto, TypeOK, RunState, EngineState,
     Placed, Asking, Formed, rest, mode, WorkLabels, SaveLabels
<1>5. Formed(eng)' /\ Formed(last)'
  BY DEF RunTools, Goto, TypeOK, EngineState, Placed, Asking, Formed, rest, mode, WorkLabels,
     SaveLabels
<1>6. Reserved'
  <2>1. run'.guard = run.guard
    BY OutcomeEnds DEF RunTools, Goto, TypeOK, RunState
  <2> QED
    BY <1>1, <2>1, OutcomeEnds DEF RunTools, Goto, World, Reserved
<1> QED
  BY <1>1, <1>2, <1>3, <1>4, <1>5, <1>6 DEF Base, Sound, World

LEMMA ToolsFailBase == ASSUME Base, ToolsFail PROVE Base'
<1> TypeOK /\ Ended /\ Placed /\ Formed(eng) /\ Formed(last) /\ Reserved
  BY DEF Base, Sound
<1>1. World' /\ calls' <= run.guard
  BY EffectWorld, InFlightIsEffect DEF Effect, ToolsFail, Goto, rest, world
<1>2. TypeOK'
  <2>1. run' \in RunState /\ eng' \in EngineState
    <3>1. run \in RunState /\ eng \in EngineState /\ said \in 0..MaxModelTurns
      BY DEF TypeOK
    <3> QED
      BY <3>1, RunUpdates, EngineUpdates DEF ToolsFail, Goto, memory
  <2>2. pc' \in WorkLabels \cup EndLabels
    BY OutcomeEnds DEF ToolsFail, Goto, WorkLabels, SaveLabels, EndLabels
  <2>3. /\ last' \in EngineState /\ canWrite' \in BOOLEAN /\ seen' \in Nat
        /\ call' \in {"skills", "summary", "model", "barred"} /\ tries' \in 0..RetryAttempts
        /\ said' \in 0..MaxModelTurns /\ fin' \in Ends
    BY OutcomeEnds, StandardRunAssumption DEF ToolsFail, Goto, TypeOK, Placed, memory, Ends
  <2> QED
    BY <1>1, <2>1, <2>2, <2>3, WorkTypes DEF ToolsFail, Goto, rest, TypeOK
<1>3. Ended'
  BY OutcomeEnds DEF ToolsFail, Goto, Ended, NoEnd, TypeOK, EngineState, memory, WorkLabels,
     SaveLabels
<1>4. Placed'
  BY OutcomeEnds, StandardRunAssumption DEF ToolsFail, Goto, TypeOK, RunState, EngineState,
     Placed, Asking, Formed, rest, mode, memory, world, WorkLabels, SaveLabels
<1>5. Formed(eng)' /\ Formed(last)'
  BY DEF ToolsFail, Goto, TypeOK, EngineState, Placed, Asking, Formed, rest, mode, memory,
     WorkLabels, SaveLabels
<1>6. Reserved'
  <2>1. run'.guard = run.guard
    BY OutcomeEnds DEF ToolsFail, Goto, TypeOK, RunState, memory
  <2> QED
    BY <1>1, <2>1, OutcomeEnds DEF ToolsFail, Goto, World, Reserved
<1> QED
  BY <1>1, <1>2, <1>3, <1>4, <1>5, <1>6 DEF Base, Sound, World

LEMMA DecodeBase == ASSUME Base, Decode PROVE Base'
<1> TypeOK /\ Ended /\ Placed /\ Formed(eng) /\ Formed(last) /\ Reserved
  BY DEF Base, Sound
<1>0. /\ eng'.resp = said /\ said # 0
      /\ \/ staged /\ eng'.phase = "finalize" /\ pc' = "save_answer" /\ fin' = fin
         \/ ~staged /\ eng'.phase = "done" /\ Outcome("completed") /\ pc' = "finish"
  <2>1. eng \in EngineState /\ said # 0
    BY DEF TypeOK, Decode, Placed
  <2>2. CASE staged
    <3>1. eng' = [eng EXCEPT !.resp = said] /\ pc' = "save_answer" /\ fin' = fin
      BY <2>2 DEF Decode, Goto
    <3>2. eng.phase = "finalize"
      BY <2>2 DEF Decode, Placed
    <3> QED
      BY <2>1, <2>2, <3>1, <3>2 DEF EngineState
  <2>3. CASE ~staged
    <3>1. eng' = [eng EXCEPT !.resp = said, !.phase = "done"] /\ Outcome("completed")
      BY <2>3 DEF Decode
    <3>2. eng'.resp = said /\ eng'.phase = "done"
      BY <2>1, <3>1 DEF EngineState
    <3> QED
      BY <2>1, <2>3, <3>1, <3>2, OutcomeEnds
  <2> QED
    BY <2>2, <2>3
<1>1. World' /\ calls' <= run.guard
  BY <1>0, EffectWorld, InFlightIsEffect DEF Effect, Decode, Goto, rest, world
<1>2. TypeOK'
  <2>1. run' \in RunState /\ eng' \in EngineState
    <3>1. run \in RunState /\ eng \in EngineState /\ said \in 0..MaxModelTurns
      BY DEF TypeOK
    <3>2. run' \in RunState
      BY <3>1, RunUpdates DEF Decode
    <3>3. eng' = [eng EXCEPT !.resp = said] \/ eng' = [eng EXCEPT !.resp = said, !.phase = "done"]
      BY DEF Decode
    <3>4. [eng EXCEPT !.resp = said] \in EngineState
      BY <3>1, EngineUpdates
    <3>5. [eng EXCEPT !.resp = said, !.phase = "done"] \in EngineState
      BY <3>1, EngineUpdates
    <3> QED
      BY <3>2, <3>3, <3>4, <3>5
  <2>2. pc' \in WorkLabels \cup EndLabels
    BY <1>0, OutcomeEnds DEF Decode, Goto, WorkLabels, SaveLabels, EndLabels
  <2>3. /\ last' \in EngineState /\ canWrite' \in BOOLEAN /\ seen' \in Nat
        /\ call' \in {"skills", "summary", "model", "barred"} /\ tries' \in 0..RetryAttempts
        /\ said' \in 0..MaxModelTurns /\ fin' \in Ends
    BY <1>0, OutcomeEnds, StandardRunAssumption DEF Decode, Goto, TypeOK, Placed, Ends
  <2> QED
    BY <1>1, <2>1, <2>2, <2>3, WorkTypes DEF Decode, Goto, rest, TypeOK
<1>3. Ended'
  BY <1>0, OutcomeEnds DEF Decode, Goto, Ended, NoEnd, TypeOK, EngineState, WorkLabels,
     SaveLabels
<1>4. Placed'
  BY <1>0, OutcomeEnds, StandardRunAssumption DEF Decode, Goto, TypeOK, RunState, EngineState,
     Placed, Asking, Formed, rest, mode, world, WorkLabels, SaveLabels
<1>5. Formed(eng)' /\ Formed(last)'
  <2>1. UNCHANGED <<last, staged>>
    BY DEF Decode, rest, mode
  <2>2. eng'.persisted = eng.persisted /\ eng'.emitted = eng.emitted
    BY DEF Decode, TypeOK, EngineState
  <2> QED
    BY <1>0, <2>1, <2>2 DEF Formed, Decode, Placed
<1>6. Reserved'
  <2>1. run'.guard = run.guard
    BY <1>0, OutcomeEnds DEF Decode, Goto, TypeOK, RunState
  <2> QED
    BY <1>0, <1>1, <2>1, OutcomeEnds DEF Decode, Goto, World, Reserved
<1> QED
  BY <1>1, <1>2, <1>3, <1>4, <1>5, <1>6 DEF Base, Sound, World

LEMMA FinalizeBase == ASSUME Base, Finalize PROVE Base'
<1> TypeOK /\ Ended /\ Placed /\ Formed(eng) /\ Formed(last) /\ Reserved
  BY DEF Base, Sound
<1>1. World' /\ calls' <= run.guard
  BY EffectWorld, InFlightIsEffect DEF Effect, Finalize, Goto, rest, world
<1>2. TypeOK'
  <2>1. run' \in RunState /\ eng' \in EngineState
    <3>1. run \in RunState /\ eng \in EngineState /\ said \in 0..MaxModelTurns
      BY DEF TypeOK
    <3> QED
      BY <3>1, RunUpdates, EngineUpdates DEF Finalize, Goto
  <2>2. pc' \in WorkLabels \cup EndLabels
    BY OutcomeEnds DEF Finalize, Goto, WorkLabels, SaveLabels, EndLabels
  <2>3. /\ last' \in EngineState /\ canWrite' \in BOOLEAN /\ seen' \in Nat
        /\ call' \in {"skills", "summary", "model", "barred"} /\ tries' \in 0..RetryAttempts
        /\ said' \in 0..MaxModelTurns /\ fin' \in Ends
    BY OutcomeEnds, StandardRunAssumption DEF Finalize, Goto, TypeOK, Placed, Ends
  <2> QED
    BY <1>1, <2>1, <2>2, <2>3, WorkTypes DEF Finalize, Goto, rest, TypeOK
<1>3. Ended'
  BY OutcomeEnds DEF Finalize, Goto, Ended, NoEnd, TypeOK, EngineState, WorkLabels, SaveLabels
<1>4. Placed'
  BY OutcomeEnds, StandardRunAssumption DEF Finalize, Goto, TypeOK, RunState, EngineState,
     Placed, Asking, Formed, rest, mode, world, WorkLabels, SaveLabels
<1>5. Formed(eng)' /\ Formed(last)'
  BY DEF Finalize, Goto, TypeOK, EngineState, Placed, Asking, Formed, rest, mode, WorkLabels,
     SaveLabels
<1>6. Reserved'
  <2>1. run'.guard = run.guard
    BY OutcomeEnds DEF Finalize, Goto, TypeOK, RunState
  <2> QED
    BY <1>1, <2>1, OutcomeEnds DEF Finalize, Goto, World, Reserved
<1> QED
  BY <1>1, <1>2, <1>3, <1>4, <1>5, <1>6 DEF Base, Sound, World

LEMMA PublishBase == ASSUME Base, Publish PROVE Base'
<1> TypeOK /\ Ended /\ Placed /\ Formed(eng) /\ Formed(last) /\ Reserved
  BY DEF Base, Sound
<1>0. ~eng.persisted => run' \in {run, [run EXCEPT !.public = TRUE, !.new = Append(@, eng.resp)]}
  BY OutcomeEnds, StandardRunAssumption DEF Publish, Goto, TypeOK, EngineState, Formed, Placed,
     Asking
<1>1. World' /\ calls' <= run.guard
  BY <1>0, EffectWorld, InFlightIsEffect DEF Effect, Publish, Goto, rest, world
<1>2. TypeOK'
  <2>1. run' \in RunState /\ eng' \in EngineState
    <3>1. run \in RunState /\ eng \in EngineState /\ said \in 0..MaxModelTurns
      BY DEF TypeOK
    <3>2. eng.resp \in 0..MaxModelTurns
      BY <3>1, StandardRunAssumption DEF EngineState, Publish, Goto
    <3> QED
      BY <1>0, <3>1, <3>2, RunUpdates, EngineUpdates DEF Publish, Goto
  <2>2. pc' \in WorkLabels \cup EndLabels
    BY <1>0, OutcomeEnds DEF Publish, Goto, WorkLabels, SaveLabels, EndLabels
  <2>3. /\ last' \in EngineState /\ canWrite' \in BOOLEAN /\ seen' \in Nat
        /\ call' \in {"skills", "summary", "model", "barred"} /\ tries' \in 0..RetryAttempts
        /\ said' \in 0..MaxModelTurns /\ fin' \in Ends
    BY <1>0, OutcomeEnds, StandardRunAssumption DEF Publish, Goto, TypeOK, Placed, Ends
  <2> QED
    BY <1>1, <2>1, <2>2, <2>3, WorkTypes DEF Publish, Goto, rest, TypeOK
<1>3. Ended'
  BY <1>0, OutcomeEnds DEF Publish, Goto, Ended, NoEnd, TypeOK, EngineState, WorkLabels,
     SaveLabels
<1>4. Placed'
  BY <1>0, OutcomeEnds, StandardRunAssumption DEF Publish, Goto, TypeOK, RunState, EngineState,
     Placed, Asking, Formed, rest, mode, world, WorkLabels, SaveLabels
<1>5. Formed(eng)' /\ Formed(last)'
  BY DEF Publish, Goto, TypeOK, EngineState, Placed, Asking, Formed, rest, mode, WorkLabels,
     SaveLabels
<1>6. Reserved'
  <2>1. run'.guard = run.guard
    BY <1>0, OutcomeEnds DEF Publish, Goto, TypeOK, RunState
  <2> QED
    BY <1>0, <1>1, <2>1, OutcomeEnds DEF Publish, Goto, World, Reserved
<1> QED
  BY <1>1, <1>2, <1>3, <1>4, <1>5, <1>6 DEF Base, Sound, World

LEMMA PersistBase == ASSUME Base, Persist, ~Conflict PROVE Base'
<1> TypeOK /\ Ended /\ Placed /\ Formed(eng) /\ Formed(last) /\ Reserved
  BY DEF Base, Sound
<1>0. /\ eng'.phase = eng.phase /\ eng'.resp = eng.resp
      /\ \/ pc = "store" /\ pc' = "save_stored" /\ eng'.persisted
         \/ pc = "finish" /\ pc' = "retire"
  <2>1. eng \in EngineState
    BY DEF TypeOK
  <2>2. eng' = [eng EXCEPT !.persisted = @ \/ pc = "store"]
    BY DEF Persist
  <2>3. eng'.phase = eng.phase /\ eng'.resp = eng.resp /\ (pc = "store" => eng'.persisted)
    BY <2>1, <2>2 DEF EngineState
  <2> QED
    BY <2>3 DEF Persist, Goto
<1>1. World' /\ calls' <= run.guard
  BY <1>0, EffectWorld, InFlightIsEffect DEF Effect, Persist, Goto, world
<1>2. TypeOK'
  <2>1. run' \in RunState /\ eng' \in EngineState
    <3>1. run \in RunState /\ eng \in EngineState /\ said \in 0..MaxModelTurns
      BY DEF TypeOK
    <3> QED
      BY <1>0, <3>1, RunUpdates, EngineUpdates DEF Persist, Goto
  <2>2. pc' \in WorkLabels \cup EndLabels
    BY <1>0, OutcomeEnds DEF Persist, Goto, WorkLabels, SaveLabels, EndLabels
  <2>3. /\ last' \in EngineState /\ canWrite' \in BOOLEAN /\ seen' \in Nat
        /\ call' \in {"skills", "summary", "model", "barred"} /\ tries' \in 0..RetryAttempts
        /\ said' \in 0..MaxModelTurns /\ fin' \in Ends
    BY <1>0, OutcomeEnds, StandardRunAssumption DEF Persist, Goto, TypeOK, Placed, Ends
  <2> QED
    BY <1>1, <2>1, <2>2, <2>3, WorkTypes DEF Persist, Goto, TypeOK
<1>3. Ended'
  BY <1>0, OutcomeEnds DEF Persist, Goto, Ended, NoEnd, TypeOK, EngineState, WorkLabels,
     SaveLabels
<1>4. Placed'
  BY <1>0, OutcomeEnds, StandardRunAssumption DEF Persist, Goto, TypeOK, RunState, EngineState,
     Placed, Asking, Formed, mode, WorkLabels, SaveLabels
<1>5. Formed(eng)' /\ Formed(last)'
  <2>1. UNCHANGED <<last, staged>>
    BY DEF Persist, mode
  <2>2. eng'.emitted = eng.emitted /\ (pc # "store" => eng'.persisted = eng.persisted)
    BY DEF Persist, TypeOK, EngineState
  <2> QED
    BY <1>0, <2>1, <2>2 DEF Formed, Persist, Placed
<1>6. Reserved'
  <2>1. run'.guard = run.guard
    BY <1>0, OutcomeEnds DEF Persist, Goto, TypeOK, RunState, BatchDone
  <2> QED
    BY <1>0, <1>1, <2>1, OutcomeEnds DEF Persist, Goto, World, Reserved
<1> QED
  BY <1>1, <1>2, <1>3, <1>4, <1>5, <1>6 DEF Base, Sound, World

LEMMA EmitBase == ASSUME Base, Emit PROVE Base'
<1> TypeOK /\ Ended /\ Placed /\ Formed(eng) /\ Formed(last) /\ Reserved
  BY DEF Base, Sound
<1>0. /\ ~eng.emitted /\ pc' = "save_emit" /\ fin' = fin
      /\ eng' = [eng EXCEPT !.emitted = TRUE, !.phase = "done"]
      /\ eng'.phase = "done" /\ eng'.emitted /\ eng'.persisted
  <2>1. eng \in EngineState /\ ~eng.emitted /\ eng.persisted
    BY DEF TypeOK, Emit, Placed, Formed
  <2>2. /\ pc' = "save_emit" /\ fin' = fin
        /\ eng' = [eng EXCEPT !.emitted = TRUE, !.phase = "done"]
    BY <2>1 DEF Emit, Goto
  <2>3. eng'.phase = "done" /\ eng'.emitted /\ eng'.persisted
    BY <2>1, <2>2 DEF EngineState
  <2> QED
    BY <2>1, <2>2, <2>3
<1>1. World' /\ calls' <= run.guard
  BY <1>0, EffectWorld, InFlightIsEffect DEF Effect, Emit, Goto, rest, world
<1>2. TypeOK'
  <2>1. run' \in RunState /\ eng' \in EngineState
    <3>1. run \in RunState /\ eng \in EngineState /\ said \in 0..MaxModelTurns
      BY DEF TypeOK
    <3> QED
      BY <1>0, <3>1, RunUpdates, EngineUpdates DEF Emit, Goto
  <2>2. pc' \in WorkLabels \cup EndLabels
    BY <1>0, OutcomeEnds DEF Emit, Goto, WorkLabels, SaveLabels, EndLabels
  <2>3. /\ last' \in EngineState /\ canWrite' \in BOOLEAN /\ seen' \in Nat
        /\ call' \in {"skills", "summary", "model", "barred"} /\ tries' \in 0..RetryAttempts
        /\ said' \in 0..MaxModelTurns /\ fin' \in Ends
    BY <1>0, OutcomeEnds, StandardRunAssumption DEF Emit, Goto, TypeOK, Placed, Ends
  <2> QED
    BY <1>1, <2>1, <2>2, <2>3, WorkTypes DEF Emit, Goto, rest, TypeOK
<1>3. Ended'
  BY <1>0, OutcomeEnds DEF Emit, Goto, Ended, NoEnd, TypeOK, EngineState, WorkLabels, SaveLabels
<1>4. Placed'
  <2>1. pc = "emit" /\ pc' = "save_emit" /\ eng.persisted /\ canWrite
    BY <1>0 DEF Emit, Placed
  <2>2. UNCHANGED <<world, rest, mode, run, last, canWrite, seen, call, tries, starts>>
    BY DEF Emit, rest
  <2>3. call = "model" /\ tries = 0 /\ starts # 0
    BY <2>1 DEF Placed, Asking, WorkLabels, SaveLabels
  <2> QED
    BY <1>0, <2>1, <2>2, <2>3 DEF Placed, EndLabels, Asking
<1>5. Formed(eng)' /\ Formed(last)'
  <2>1. UNCHANGED <<last, staged>>
    BY DEF Emit, rest, mode
  <2>2. eng'.resp = eng.resp /\ eng'.emitted \in BOOLEAN
    <3>1. eng \in EngineState /\ eng' = [eng EXCEPT !.emitted = TRUE, !.phase = "done"]
      BY <1>0 DEF TypeOK
    <3> QED
      BY <3>1 DEF EngineState
  <2> QED
    BY <1>0, <2>1, <2>2 DEF Formed, Emit, Placed
<1>6. Reserved'
  <2>1. run'.guard = run.guard
    BY <1>0, OutcomeEnds DEF Emit, Goto, TypeOK, RunState
  <2> QED
    BY <1>0, <1>1, <2>1, OutcomeEnds DEF Emit, Goto, World, Reserved
<1> QED
  BY <1>1, <1>2, <1>3, <1>4, <1>5, <1>6 DEF Base, Sound, World

LEMMA ShowBase == ASSUME Base, Show PROVE Base'
<1> TypeOK /\ Ended /\ Placed /\ Formed(eng) /\ Formed(last) /\ Reserved
  BY DEF Base, Sound
<1>1. World' /\ calls' <= run.guard
  BY EffectWorld, InFlightIsEffect DEF Effect, Show, rest, world
<1>2. TypeOK'
  <2>1. run' \in RunState /\ eng' \in EngineState
    <3>1. run \in RunState /\ eng \in EngineState /\ said \in 0..MaxModelTurns
      BY DEF TypeOK
    <3> QED
      BY <3>1, RunUpdates, EngineUpdates DEF Show
  <2>2. pc' \in WorkLabels \cup EndLabels
    BY OutcomeEnds DEF Show, WorkLabels, SaveLabels, EndLabels
  <2>3. /\ last' \in EngineState /\ canWrite' \in BOOLEAN /\ seen' \in Nat
        /\ call' \in {"skills", "summary", "model", "barred"} /\ tries' \in 0..RetryAttempts
        /\ said' \in 0..MaxModelTurns /\ fin' \in Ends
    BY OutcomeEnds, StandardRunAssumption DEF Show, TypeOK, Placed, Ends
  <2> QED
    BY <1>1, <2>1, <2>2, <2>3, WorkTypes DEF Show, rest, TypeOK
<1>3. Ended'
  BY OutcomeEnds DEF Show, Ended, Placed, NoEnd, TypeOK, EngineState, WorkLabels, SaveLabels
<1>4. Placed'
  BY OutcomeEnds, StandardRunAssumption DEF Show, TypeOK, RunState, EngineState, Placed, Asking,
     Formed, rest, mode, WorkLabels, SaveLabels
<1>5. Formed(eng)' /\ Formed(last)'
  BY DEF Show, TypeOK, EngineState, Placed, Asking, Formed, rest, mode, WorkLabels, SaveLabels
<1>6. Reserved'
  <2>1. run'.guard = run.guard
    BY OutcomeEnds DEF Show, TypeOK, RunState
  <2> QED
    BY <1>1, <2>1, OutcomeEnds DEF Show, World, Reserved
<1> QED
  BY <1>1, <1>2, <1>3, <1>4, <1>5, <1>6 DEF Base, Sound, World

LEMMA RetireBase == ASSUME Base, Retire PROVE Base'
<1> TypeOK /\ Ended /\ Placed /\ Formed(eng) /\ Formed(last) /\ Reserved
  BY DEF Base, Sound
<1>1. World' /\ calls' <= run.guard
  BY EffectWorld DEF Effect, Retire, SaveSafely, Snapshot, SaveLabels, Deletes, Goto, rest,
     world
<1>2. TypeOK'
  <2>1. run' \in RunState /\ eng' \in EngineState
    <3>1. run \in RunState /\ eng \in EngineState /\ said \in 0..MaxModelTurns
      BY DEF TypeOK
    <3> QED
      BY <3>1, RunUpdates, EngineUpdates DEF Retire, SaveSafely, Goto, memory
  <2>2. pc' \in WorkLabels \cup EndLabels
    BY OutcomeEnds DEF Retire, SaveSafely, Goto, WorkLabels, SaveLabels, EndLabels
  <2>3. /\ last' \in EngineState /\ canWrite' \in BOOLEAN /\ seen' \in Nat
        /\ call' \in {"skills", "summary", "model", "barred"} /\ tries' \in 0..RetryAttempts
        /\ said' \in 0..MaxModelTurns /\ fin' \in Ends
    BY OutcomeEnds, StandardRunAssumption DEF Retire, SaveSafely, Goto, TypeOK, Placed, memory,
       Ends
  <2> QED
    BY <1>1, <2>1, <2>2, <2>3, WorkTypes DEF Retire, SaveSafely, Goto, rest, TypeOK
<1>3. Ended'
  BY OutcomeEnds DEF Retire, SaveSafely, Goto, Ended, NoEnd, TypeOK, EngineState, memory,
     WorkLabels, SaveLabels
<1>4. Placed'
  BY OutcomeEnds, StandardRunAssumption DEF Retire, SaveSafely, Goto, TypeOK, RunState,
     EngineState, Placed, Asking, Formed, rest, mode, memory, WorkLabels, SaveLabels
<1>5. Formed(eng)' /\ Formed(last)'
  BY DEF Retire, SaveSafely, Goto, TypeOK, EngineState, Placed, Asking, Formed, rest, mode,
     memory, WorkLabels, SaveLabels
<1>6. Reserved'
  <2>1. run'.guard = run.guard
    BY OutcomeEnds DEF Retire, SaveSafely, Goto, TypeOK, RunState, memory
  <2> QED
    BY <1>1, <2>1, OutcomeEnds DEF Retire, SaveSafely, Goto, World, Reserved
<1> QED
  BY <1>1, <1>2, <1>3, <1>4, <1>5, <1>6 DEF Base, Sound, World

LEMMA ReserveBase == ASSUME Base, Reserve, call # "barred", run.guard < MaxModelTurns PROVE Base'
<1> TypeOK /\ Ended /\ Placed /\ Formed(eng) /\ Formed(last) /\ Reserved
  BY DEF Base, Sound
<1>1. World' /\ calls' <= run.guard
  BY EffectWorld, InFlightIsEffect DEF Effect, Reserve, Goto, rest, world
<1>2. TypeOK'
  <2>1. run' \in RunState /\ eng' \in EngineState
    <3>1. run \in RunState /\ eng \in EngineState /\ said \in 0..MaxModelTurns
      BY DEF TypeOK
    <3>2. run.guard + 1 \in 0..MaxModelTurns
      BY <3>1, StandardRunAssumption DEF RunState, Reserve, Goto
    <3>3. run' = [run EXCEPT !.guard = run.guard + 1] /\ eng' = eng
      BY DEF Reserve
    <3>4. [run EXCEPT !.guard = run.guard + 1] \in RunState
      BY <3>1, <3>2, RunUpdates
    <3> QED
      BY <3>1, <3>3, <3>4
  <2>2. pc' \in WorkLabels \cup EndLabels
    BY OutcomeEnds DEF Reserve, Goto, WorkLabels, SaveLabels, EndLabels
  <2>3. /\ last' \in EngineState /\ canWrite' \in BOOLEAN /\ seen' \in Nat
        /\ call' \in {"skills", "summary", "model", "barred"} /\ tries' \in 0..RetryAttempts
        /\ said' \in 0..MaxModelTurns /\ fin' \in Ends
    BY OutcomeEnds, StandardRunAssumption DEF Reserve, Goto, TypeOK, Placed, Ends
  <2> QED
    BY <1>1, <2>1, <2>2, <2>3, WorkTypes DEF Reserve, Goto, rest, TypeOK
<1>3. Ended'
  BY OutcomeEnds DEF Reserve, Goto, Ended, NoEnd, TypeOK, EngineState, WorkLabels, SaveLabels
<1>4. Placed'
  BY OutcomeEnds, StandardRunAssumption DEF Reserve, Goto, TypeOK, RunState, EngineState,
     Placed, Asking, Formed, rest, mode, world, WorkLabels, SaveLabels
<1>5. Formed(eng)' /\ Formed(last)'
  BY DEF Reserve, Goto, TypeOK, EngineState, Placed, Asking, Formed, rest, mode, WorkLabels,
     SaveLabels
<1>6. Reserved'
  <2>1. run'.guard = run.guard + 1 /\ run.guard \in Nat /\ pc' = "save_reserve"
    BY Types DEF Reserve, Goto, TypeOK, RunState
  <2> QED
    BY <1>1, <2>1, OutcomeEnds DEF Reserve, Goto, World, Reserved
<1> QED
  BY <1>1, <1>2, <1>3, <1>4, <1>5, <1>6 DEF Base, Sound, World

LEMMA RespondLeads ==
    ASSUME Base, Respond
    PROVE  /\ said' \in 1..MaxModelTurns /\ call' = "model" /\ tries' = 0
           /\ \/ call = "skills" /\ pc' = "start"
              \/ call = "summary" /\ eng.phase = "finalize" /\ pc' = "reserve"
              \/ call = "summary" /\ eng.phase = "act" /\ pc' = "save_before"
              \/ call = "model" /\ eng.phase = "finalize" /\ pc' = "decode"
              \/ call = "model" /\ eng.phase = "act" /\ pc' = "decide"
<1>1. said' \in 1..MaxModelTurns
  <2>1. calls \in 0..MaxModelTurns /\ calls < run.guard /\ run.guard \in 0..MaxModelTurns
    BY DEF Base, Sound, Respond, Reserved, TypeOK, RunState
  <2> QED
    BY <2>1, StandardRunAssumption DEF Respond
<1>2. /\ call \in {"skills", "summary", "model"}
      /\ call # "skills" => eng.phase \in {"act", "finalize"}
  BY DEF Base, Sound, Respond, TypeOK, Placed, EndLabels, Asking
<1> QED
  BY <1>1, <1>2 DEF Respond, AfterCall, Goto

LEMMA RespondBase == ASSUME Base, Respond PROVE Base'
<1> TypeOK /\ Ended /\ Placed /\ Formed(eng) /\ Formed(last) /\ Reserved
  BY DEF Base, Sound
<1>0. /\ said' \in 1..MaxModelTurns /\ call' = "model" /\ tries' = 0
      /\ \/ call = "skills" /\ pc' = "start"
         \/ call = "summary" /\ eng.phase = "finalize" /\ pc' = "reserve"
         \/ call = "summary" /\ eng.phase = "act" /\ pc' = "save_before"
         \/ call = "model" /\ eng.phase = "finalize" /\ pc' = "decode"
         \/ call = "model" /\ eng.phase = "act" /\ pc' = "decide"
  BY RespondLeads
<1>1. World' /\ calls' <= run.guard
  BY <1>0, EffectWorld, InFlightIsEffect DEF Effect, Respond, Goto, rest, world
<1>2. TypeOK'
  <2>1. run' \in RunState /\ eng' \in EngineState
    <3>1. run \in RunState /\ eng \in EngineState /\ said \in 0..MaxModelTurns
      BY DEF TypeOK
    <3> QED
      BY <1>0, <3>1, RunUpdates, EngineUpdates DEF Respond, Goto
  <2>2. pc' \in WorkLabels \cup EndLabels
    BY <1>0, OutcomeEnds DEF Respond, Goto, WorkLabels, SaveLabels, EndLabels
  <2>3. /\ last' \in EngineState /\ canWrite' \in BOOLEAN /\ seen' \in Nat
        /\ call' \in {"skills", "summary", "model", "barred"} /\ tries' \in 0..RetryAttempts
        /\ said' \in 0..MaxModelTurns /\ fin' \in Ends
    BY <1>0, OutcomeEnds, StandardRunAssumption DEF Respond, Goto, TypeOK, Placed, Ends
  <2> QED
    BY <1>1, <2>1, <2>2, <2>3, WorkTypes DEF Respond, Goto, rest, TypeOK
<1>3. Ended'
  BY <1>0, OutcomeEnds DEF Respond, Goto, Ended, NoEnd, TypeOK, EngineState, WorkLabels,
     SaveLabels
<1>4. Placed'
  <2>1. /\ pc = "provider" /\ starts' # 0 /\ call' = "model" /\ tries' = 0 /\ said' # 0
        /\ UNCHANGED <<eng, canWrite, staged>>
        /\ call = "skills" => eng = NoEngine
        /\ call # "skills" => eng.phase \in {"act", "finalize"} /\ eng.resp = 0 /\ canWrite
        /\ eng.phase = "finalize" => staged
    BY <1>0 DEF Respond, Placed, Asking, rest, mode, Formed
  <2>2. CASE pc' = "start"
    BY <1>0, <2>1, <2>2 DEF Placed, EndLabels, Asking, WorkLabels, SaveLabels
  <2>3. CASE pc' = "reserve"
    BY <1>0, <2>1, <2>3, StandardRunAssumption DEF Placed, Asking, WorkLabels, SaveLabels
  <2>4. CASE pc' = "save_before"
    BY <1>0, <2>1, <2>4 DEF Placed, Asking, WorkLabels, SaveLabels
  <2>5. CASE pc' \in {"decode", "decide"}
    BY <1>0, <2>1, <2>5 DEF Placed, EndLabels, Asking, WorkLabels, SaveLabels
  <2> QED
    BY <1>0, <2>2, <2>3, <2>4, <2>5
<1>5. Formed(eng)' /\ Formed(last)'
  BY DEF Respond, Goto, TypeOK, EngineState, Placed, Asking, Formed, rest, mode, WorkLabels,
     SaveLabels
<1>6. Reserved'
  <2>1. run'.guard = run.guard
    BY <1>0, OutcomeEnds DEF Respond, Goto, TypeOK, RunState
  <2> QED
    BY <1>0, <1>1, <2>1, OutcomeEnds DEF Respond, Goto, World, Reserved
<1> QED
  BY <1>1, <1>2, <1>3, <1>4, <1>5, <1>6 DEF Base, Sound, World

LEMMA RetryCallBase == ASSUME Base, RetryCall PROVE Base'
<1> TypeOK /\ Ended /\ Placed /\ Formed(eng) /\ Formed(last) /\ Reserved
  BY DEF Base, Sound
<1>1. World' /\ calls' <= run.guard
  BY EffectWorld, InFlightIsEffect DEF Effect, RetryCall, Goto, rest, world
<1>2. TypeOK'
  <2>1. run' \in RunState /\ eng' \in EngineState
    <3>1. run \in RunState /\ eng \in EngineState /\ said \in 0..MaxModelTurns
      BY DEF TypeOK
    <3> QED
      BY <3>1, RunUpdates, EngineUpdates DEF RetryCall, Goto, memory
  <2>2. pc' \in WorkLabels \cup EndLabels
    BY OutcomeEnds DEF RetryCall, Goto, WorkLabels, SaveLabels, EndLabels
  <2>3. /\ last' \in EngineState /\ canWrite' \in BOOLEAN /\ seen' \in Nat
        /\ call' \in {"skills", "summary", "model", "barred"} /\ tries' \in 0..RetryAttempts
        /\ said' \in 0..MaxModelTurns /\ fin' \in Ends
    BY OutcomeEnds, StandardRunAssumption DEF RetryCall, Goto, TypeOK, Placed, memory, Ends
  <2> QED
    BY <1>1, <2>1, <2>2, <2>3, WorkTypes DEF RetryCall, Goto, rest, TypeOK
<1>3. Ended'
  BY OutcomeEnds DEF RetryCall, Goto, Ended, NoEnd, TypeOK, EngineState, memory, WorkLabels,
     SaveLabels
<1>4. Placed'
  BY OutcomeEnds, StandardRunAssumption DEF RetryCall, Goto, TypeOK, RunState, EngineState,
     Placed, Asking, Formed, rest, mode, memory, WorkLabels, SaveLabels
<1>5. Formed(eng)' /\ Formed(last)'
  BY DEF RetryCall, Goto, TypeOK, EngineState, Placed, Asking, Formed, rest, mode, memory,
     WorkLabels, SaveLabels
<1>6. Reserved'
  <2>1. run'.guard = run.guard
    BY OutcomeEnds DEF RetryCall, Goto, TypeOK, RunState, memory
  <2> QED
    BY <1>1, <2>1, OutcomeEnds DEF RetryCall, Goto, World, Reserved
<1> QED
  BY <1>1, <1>2, <1>3, <1>4, <1>5, <1>6 DEF Base, Sound, World

LEMMA SkipSummaryBase == ASSUME Base, SkipSummary PROVE Base'
<1> TypeOK /\ Ended /\ Placed /\ Formed(eng) /\ Formed(last) /\ Reserved
  BY DEF Base, Sound
<1>0. /\ \/ eng.phase = "finalize" /\ pc' = "reserve"
         \/ eng.phase = "act" /\ pc' = "save_before"
      /\ last' = last
  BY OutcomeEnds, StandardRunAssumption DEF SkipSummary, Goto, TypeOK, EngineState, Formed,
     Placed, Asking, AfterCall, Snapshot
<1>1. World' /\ calls' <= run.guard
  BY <1>0, EffectWorld, InFlightIsEffect DEF Effect, SkipSummary, Goto, rest, world
<1>2. TypeOK'
  <2>1. run' \in RunState /\ eng' \in EngineState
    <3>1. run \in RunState /\ eng \in EngineState /\ said \in 0..MaxModelTurns
      BY DEF TypeOK
    <3> QED
      BY <1>0, <3>1, RunUpdates, EngineUpdates DEF SkipSummary, Goto
  <2>2. pc' \in WorkLabels \cup EndLabels
    BY <1>0, OutcomeEnds DEF SkipSummary, Goto, WorkLabels, SaveLabels, EndLabels
  <2>3. /\ last' \in EngineState /\ canWrite' \in BOOLEAN /\ seen' \in Nat
        /\ call' \in {"skills", "summary", "model", "barred"} /\ tries' \in 0..RetryAttempts
        /\ said' \in 0..MaxModelTurns /\ fin' \in Ends
    BY <1>0, OutcomeEnds, StandardRunAssumption DEF SkipSummary, Goto, TypeOK, Placed, Ends
  <2> QED
    BY <1>1, <2>1, <2>2, <2>3, WorkTypes DEF SkipSummary, Goto, rest, TypeOK
<1>3. Ended'
  BY <1>0, OutcomeEnds DEF SkipSummary, Goto, Ended, NoEnd, TypeOK, EngineState, WorkLabels,
     SaveLabels
<1>4. Placed'
  <2>1. /\ eng.phase \in {"act", "finalize"} /\ eng.resp = 0 /\ canWrite /\ starts # 0
    BY DEF SkipSummary, Placed, Asking
  <2>2. /\ pc' \in {"reserve", "save_before"} /\ call' \in {"model", "barred"} /\ tries' = 0
        /\ UNCHANGED <<rest, mode, run, eng, last, canWrite, seen, starts, staged>>
    BY <1>0 DEF SkipSummary, rest, mode
  <2> QED
    BY <1>0, <2>1, <2>2, StandardRunAssumption DEF Placed, Asking
<1>5. Formed(eng)' /\ Formed(last)'
  BY <1>0 DEF SkipSummary, Goto, TypeOK, EngineState, Placed, Asking, Formed, rest, mode,
     WorkLabels, SaveLabels
<1>6. Reserved'
  <2>1. run'.guard = run.guard
    BY <1>0, OutcomeEnds DEF SkipSummary, Goto, TypeOK, RunState
  <2> QED
    BY <1>0, <1>1, <2>1, OutcomeEnds DEF SkipSummary, Goto, World, Reserved
<1> QED
  BY <1>1, <1>2, <1>3, <1>4, <1>5, <1>6 DEF Base, Sound, World

LEMMA AfterSaveIs ==
    /\ AfterSave["save0"] = "save1" /\ AfterSave["save1"] = "execute"
    /\ AfterSave["save_before"] = "reserve" /\ AfterSave["save_reserve"] = "provider"
    /\ AfterSave["save_intent"] = "tools" /\ AfterSave["save_after"] = "loop"
    /\ AfterSave["save_continue"] = "loop" /\ AfterSave["save_final"] = "prepare"
    /\ AfterSave["save_answer"] = "publish" /\ AfterSave["save_stored"] = "emit"
    /\ AfterSave["save_emit"] = "show"
  BY DEF AfterSave

LEMMA CheckpointBase == ASSUME Base, Checkpoint PROVE Base'
<1> TypeOK /\ Ended /\ Placed /\ Formed(eng) /\ Formed(last) /\ Reserved
  BY DEF Base, Sound
<1>1. PICK s \in {eng, last} : s = Snapshot
  BY DEF Snapshot
<1>2. /\ disk' = Saved(s) /\ last' = s
      /\ run' \in {run, [run EXCEPT !.init = TRUE]}
      /\ canWrite' = (canWrite \/ pc = "save1") /\ fin' = fin /\ call' = call
      /\ pc \in {"save_reserve", "save_intent"} => s = last
      /\ pc \notin {"save_reserve", "save_intent"} => s = eng
      /\ UNCHANGED <<log, calls, ran, shown, rest, eng, seen, call, tries, said, fin>>
  BY <1>1 DEF Checkpoint, Snapshot
<1>3. \/ pc = "save0" /\ pc' = "save1"
      \/ pc = "save1" /\ pc' = "execute"
      \/ pc = "save_before" /\ pc' = "reserve"
      \/ pc = "save_reserve" /\ pc' = "provider"
      \/ pc = "save_intent" /\ pc' = "tools"
      \/ pc \in {"save_after", "save_continue"} /\ pc' = "loop"
      \/ pc = "save_final" /\ pc' = "prepare"
      \/ pc = "save_answer" /\ pc' = "publish"
      \/ pc = "save_stored" /\ pc' = "emit"
      \/ pc = "save_emit" /\ pc' = "show"
  <2>1. pc' = AfterSave[pc]
    BY DEF Checkpoint, Goto
  <2>2. pc \in {"save0", "save1", "save_before", "save_reserve", "save_intent", "save_after",
                "save_continue", "save_final", "save_answer", "save_stored", "save_emit"}
    BY DEF Checkpoint, SaveLabels
  <2> QED
    BY <2>1, <2>2, AfterSaveIs
<1>4. World' /\ calls' <= run.guard
  BY <1>1, <1>2, <1>3, EffectWorld DEF Effect, rest, Checkpoint
<1>5. run' \in RunState /\ run'.guard = run.guard
  <2>1. run \in RunState
    BY DEF TypeOK
  <2>2. [run EXCEPT !.init = TRUE] \in RunState /\ [run EXCEPT !.init = TRUE].guard = run.guard
    BY <2>1 DEF RunState
  <2> QED
    BY <1>2, <2>1, <2>2
<1>6. TypeOK'
  <2>1. last' \in EngineState /\ eng' \in EngineState
    BY <1>1, <1>2 DEF TypeOK
  <2>2. pc' \in WorkLabels \cup EndLabels
    BY <1>3 DEF WorkLabels, SaveLabels
  <2>3. /\ canWrite' \in BOOLEAN /\ seen' \in Nat
        /\ call' \in {"skills", "summary", "model", "barred"} /\ tries' \in 0..RetryAttempts
        /\ said' \in 0..MaxModelTurns /\ fin' \in Ends
    BY <1>2 DEF TypeOK, Ends
  <2> QED
    BY <1>2, <1>4, <1>5, <2>1, <2>2, <2>3, WorkTypes DEF rest, TypeOK
<1>7. Ended'
  BY <1>2, <1>3 DEF Ended, NoEnd, WorkLabels, SaveLabels
<1>8. Placed'
  <2>1. /\ UNCHANGED <<eng, starts, staged, said, tries, call, seen>>
        /\ canWrite \/ pc = "save1" => canWrite'
        /\ starts # 0 /\ (pc = "save0" => eng.phase = "act")
    BY <1>2, <1>3 DEF rest, mode, Placed
  <2> QED
    BY <1>3, <2>1, StandardRunAssumption DEF Placed, EndLabels, Asking, WorkLabels, SaveLabels, Formed
<1>9. Formed(eng)' /\ Formed(last)'
  BY <1>1, <1>2 DEF Formed, rest, mode
<1>10. Reserved'
  <2>1. \A d \in disk' : d.run = run
    BY <1>2 DEF Saved
  <2>2. calls \in Nat /\ run.guard \in Nat /\ (pc = "save_reserve" => calls < run.guard)
    BY Types DEF TypeOK, Reserved
  <2> QED
    BY <1>2, <1>3, <1>4, <1>5, <2>1, <2>2 DEF Reserved, World
<1> QED
  BY <1>4, <1>6, <1>7, <1>8, <1>9, <1>10 DEF Base, Sound, World

LEMMA PersistSafelyBase == ASSUME Base, PersistSafely PROVE Base'
<1> TypeOK /\ Ended /\ Placed /\ Formed(eng) /\ Formed(last) /\ Reserved
  BY DEF Base, Sound
<1>1. World' /\ calls' <= run.guard
  BY EffectWorld, InFlightIsEffect DEF Effect, PersistSafely, Goto, world
<1>2. TypeOK'
  <2>1. run' \in RunState /\ eng' \in EngineState
    <3>1. run \in RunState /\ eng \in EngineState /\ said \in 0..MaxModelTurns
      BY DEF TypeOK
    <3> QED
      BY <3>1, RunUpdates, EngineUpdates DEF PersistSafely, Goto
  <2>2. pc' \in WorkLabels \cup EndLabels
    BY OutcomeEnds DEF PersistSafely, Goto, WorkLabels, SaveLabels, EndLabels
  <2>3. /\ last' \in EngineState /\ canWrite' \in BOOLEAN /\ seen' \in Nat
        /\ call' \in {"skills", "summary", "model", "barred"} /\ tries' \in 0..RetryAttempts
        /\ said' \in 0..MaxModelTurns /\ fin' \in Ends
    BY OutcomeEnds, StandardRunAssumption DEF PersistSafely, Goto, TypeOK, Placed, Ends
  <2> QED
    BY <1>1, <2>1, <2>2, <2>3, WorkTypes DEF PersistSafely, Goto, TypeOK
<1>3. Ended'
  BY OutcomeEnds DEF PersistSafely, Goto, Ended, NoEnd, TypeOK, EngineState, WorkLabels,
     SaveLabels
<1>4. Placed'
  BY OutcomeEnds, StandardRunAssumption DEF PersistSafely, Goto, TypeOK, RunState, EngineState,
     Placed, EndLabels, Asking, Formed, mode, WorkLabels, SaveLabels
<1>5. Formed(eng)' /\ Formed(last)'
  BY DEF PersistSafely, Goto, TypeOK, EngineState, Placed, Asking, Formed, mode, WorkLabels,
     SaveLabels
<1>6. Reserved'
  <2>1. run'.guard = run.guard
    BY OutcomeEnds DEF PersistSafely, Goto, TypeOK, RunState, BatchDone
  <2> QED
    BY <1>1, <2>1, OutcomeEnds DEF PersistSafely, Goto, World, Reserved
<1> QED
  BY <1>1, <1>2, <1>3, <1>4, <1>5, <1>6 DEF Base, Sound, World

-----------------------------------------------------------------------------
(* The steps that start, end or leave the run. *)
LEMMA FailsBase ==
    ASSUME Base, pc # "idle", Fails, World', calls' <= run.guard,
           UNCHANGED <<told, starts, staged>>, refused' \in BOOLEAN
    PROVE  Base'
<1>1. run \in RunState /\ Claim(run) \in BOOLEAN
  BY DEF Base, Sound, TypeOK, Claim
<1> HIDE DEF Claim
<1> QED
  BY <1>1, HandleBase DEF Fails

LEMMA GuardTripsBase ==
    ASSUME Base, pc # "idle", GuardTrips, World', calls' <= run.guard,
           UNCHANGED <<told, starts, staged, refused>>
    PROVE  Base'
<1>1. run \in RunState /\ refused' \in BOOLEAN
  BY DEF Base, Sound, TypeOK
<1> DEFINE r == [run EXCEPT !.safety = "never"]
<1>2. r \in RunState /\ r.guard = run.guard
  BY <1>1, TrippedRun
<1> HIDE DEF r
<1>3. Handle("failed", r, FALSE)
  BY DEF GuardTrips, r
<1> QED
  BY <1>1, <1>2, <1>3, HandleBase

LEMMA FailingBase ==
    ASSUME Base,
           \/ Execute /\ eng.phase = "done" /\ eng.resp = 0
           \/ Persist /\ Conflict
           \/ CheckpointAborted
           \/ Raise
           \/ Reserve /\ call = "barred"
    PROVE  Base'
<1>1. TypeOK /\ Placed
  BY DEF Base, Sound
<1>2. /\ pc # "idle" /\ Fails /\ UNCHANGED <<told, starts, mode>> /\ refused' \in BOOLEAN
      /\ Effect
  <2>1. CASE Execute /\ eng.phase = "done" /\ eng.resp = 0
    BY <1>1, <2>1 DEF Execute, Effect, TypeOK, rest
  <2>2. CASE Persist /\ Conflict
    BY <2>2 DEF Persist, Effect, world
  <2>3. CASE CheckpointAborted
    BY <1>1, <2>3 DEF CheckpointAborted, Effect, Snapshot, SaveLabels, TypeOK, rest
  <2>4. CASE Raise
    BY <1>1, <2>4, InFlightIsEffect DEF Raise, TypeOK, rest, WorkLabels, SaveLabels
  <2>5. CASE Reserve /\ call = "barred"
    BY <1>1, <2>5 DEF Reserve, Effect, TypeOK, rest
  <2> QED
    BY <2>1, <2>2, <2>3, <2>4, <2>5
<1> QED
  BY <1>2, EffectWorld, FailsBase DEF mode

LEMMA TrippingBase ==
    ASSUME Base,
           \/ Reserve /\ call # "barred" /\ ~(run.guard < MaxModelTurns)
           \/ NoProgress
    PROVE  Base'
<1>1. pc # "idle" /\ GuardTrips /\ UNCHANGED rest /\ Effect
  BY DEF Reserve, NoProgress, Effect
<1> QED
  BY <1>1, EffectWorld, GuardTripsBase DEF rest, mode

LEMMA CancelBase == ASSUME Base, Cancel PROVE Base'
<1>1. TypeOK
  BY DEF Base, Sound
<1>2. pc # "idle" /\ Handle("cancelled", run, FALSE) /\ UNCHANGED rest /\ Effect
  BY InFlightIsEffect DEF Cancel, WorkLabels, SaveLabels
<1>3. run \in RunState /\ refused' \in BOOLEAN
  BY <1>1, <1>2 DEF TypeOK, rest
<1> QED
  BY <1>2, <1>3, EffectWorld, HandleBase DEF rest, mode

LEMMA StartEngineBase == ASSUME Base, StartEngine PROVE Base'
<1>1. TypeOK /\ Ended /\ Placed /\ Formed(eng) /\ Formed(last) /\ Reserved /\ pc = "start"
  BY DEF Base, Sound, StartEngine
<1>2. World' /\ calls' <= run.guard /\ refused' \in BOOLEAN
  BY <1>1, EffectWorld DEF StartEngine, Effect, rest, TypeOK
<1>3. CASE Handle("failed", run, FALSE)
  BY <1>1, <1>2, <1>3, HandleBase DEF StartEngine, TypeOK, rest, mode
<1>4. CASE /\ eng' = [NoEngine EXCEPT !.phase = "act", !.turn = run.step, !.tools = run.tools]
           /\ pc' = "save0"
           /\ UNCHANGED <<run, last, canWrite, seen, call, tries, said, fin>>
  <2>1. eng' = [phase |-> "act", turn |-> run.step, tools |-> run.tools, resp |-> 0,
                persisted |-> FALSE, emitted |-> FALSE]
    BY <1>4 DEF NoEngine
  <2>2. eng' \in EngineState
    BY <1>1, <2>1, StandardRunAssumption DEF TypeOK, RunState, EngineState
  <2>3. TypeOK'
    BY <1>1, <1>2, <1>4, <2>2, WorkTypes DEF StartEngine, rest, TypeOK, Ends, WorkLabels,
       SaveLabels
  <2>4. Ended' /\ Placed'
    BY <1>1, <1>4, <2>1 DEF StartEngine, rest, Ended, Placed, Asking, NoEnd, WorkLabels,
       SaveLabels
  <2>5. staged' = staged /\ Formed(eng)' /\ Formed(last)'
    <3>1. UNCHANGED <<staged, last>>
      BY <1>4 DEF StartEngine, rest, mode
    <3>2. eng'.phase = "act" /\ eng'.resp = 0 /\ ~eng'.persisted /\ ~eng'.emitted
      BY <2>1
    <3> QED
      BY <1>1, <3>1, <3>2 DEF Formed
  <2>6. Reserved'
    BY <1>1, <1>2, <1>4 DEF Reserved, World
  <2> QED
    BY <1>2, <2>3, <2>4, <2>5, <2>6 DEF Base, Sound, World
<1>5. CASE /\ last.phase # "none" /\ eng' = last /\ canWrite' = TRUE /\ pc' = "execute"
           /\ UNCHANGED <<run, last, seen, call, tries, said, fin>>
  <2>1. TypeOK'
    BY <1>1, <1>2, <1>5, WorkTypes DEF StartEngine, rest, TypeOK, Ends, WorkLabels, SaveLabels
  <2>2. Ended' /\ Placed'
    BY <1>1, <1>5 DEF StartEngine, rest, Ended, Placed, Asking, NoEnd, WorkLabels, SaveLabels
  <2>3. staged' = staged /\ Formed(eng)' /\ Formed(last)'
    BY <1>1, <1>5 DEF StartEngine, rest, mode, Formed
  <2>4. Reserved'
    BY <1>1, <1>2, <1>5 DEF Reserved, World
  <2> QED
    BY <1>2, <2>1, <2>2, <2>3, <2>4 DEF Base, Sound, World
<1> QED
  BY <1>3, <1>4, <1>5 DEF StartEngine, Goto

(* The steps of a process that has no run. *)
LEMMA IdleBase == ASSUME Base, Launch \/ SetupFails \/ Resume \/ RefuseResume PROVE Base'
<1>1. TypeOK /\ Ended /\ Placed /\ Formed(eng) /\ Formed(last) /\ Reserved
  BY DEF Base, Sound
<1>2. World
  BY DEF Base, Sound, TypeOK, Reserved, World
<1>3. /\ pc = "idle" /\ UNCHANGED <<world, mode, refused>> /\ starts' = starts + 1
      /\ starts \in 0..MaxResumes
      /\ told' \in [kind : {"none", "completed", "failed"}, claim : BOOLEAN,
                    answer : 0..MaxModelTurns]
  <2>1. starts \in Nat
    BY <1>1 DEF TypeOK
  <2>2. NotTold \in [kind : {"none", "completed", "failed"}, claim : BOOLEAN,
                     answer : 0..MaxModelTurns]
    BY StandardRunAssumption DEF NotTold
  <2>3. /\ pc = "idle" /\ UNCHANGED <<world, mode, refused>> /\ starts' = starts + 1
        /\ starts <= MaxResumes
    BY <2>1, StandardRunAssumption DEF Launch, SetupFails, Resume, RefuseResume
  <2>4. told' \in [kind : {"none", "completed", "failed"}, claim : BOOLEAN,
                   answer : 0..MaxModelTurns]
    <3>1. \/ told' = NotTold
          \/ \E claim \in BOOLEAN : told' = [kind |-> "failed", claim |-> claim, answer |-> 0]
      BY DEF Launch, SetupFails, Resume, RefuseResume
    <3>2. 0 \in 0..MaxModelTurns
      BY StandardRunAssumption
    <3> QED
      BY <2>2, <3>1, <3>2
  <2> QED
    BY <2>1, <2>3, <2>4, StandardRunAssumption
<1>4. World'
  BY <1>2, <1>3 DEF World, world, mode, Formed
<1>5. /\ UNCHANGED <<eng, seen, call, tries, said, fin>> /\ canWrite' \in BOOLEAN
      /\ \/ pc' = "idle" /\ UNCHANGED <<run, last, canWrite>>
         \/ pc' = "skills" /\ UNCHANGED <<run, last>> /\ starts = 0
         \/ pc' = "skills" /\ \E d \in disk : run' = d.run /\ last' = d.eng
  BY <1>1 DEF Launch, SetupFails, Resume, RefuseResume, Goto, memory, TypeOK
<1>6. run' \in RunState /\ last' \in EngineState /\ Formed(last')
  BY <1>1, <1>2, <1>5 DEF World, TypeOK
<1>7. TypeOK'
  <2>1. /\ log' \in Seq(Seq(0..MaxModelTurns)) /\ calls' \in 0..MaxModelTurns
        /\ \A d \in disk' : d \in [run : RunState, eng : EngineState]
        /\ ran' \in Nat /\ shown' \in Nat /\ staged' \in BOOLEAN /\ retain' \in BOOLEAN
    BY <1>4 DEF World
  <2>2. starts' \in 0..(MaxResumes + 1) /\ pc' \in {"idle"} \cup WorkLabels
    BY <1>3, <1>5, StandardRunAssumption DEF WorkLabels
  <2> QED
    BY <1>1, <1>3, <1>5, <1>6, <2>1, <2>2 DEF TypeOK
<1>8. Ended'
  BY <1>1, <1>3, <1>5 DEF Ended, WorkLabels, SaveLabels, NoEnd
<1>9. Placed'
  <2>1. starts' # 0
    BY <1>3
  <2>2. /\ run' = FreshRun \/ pc' = "skills"
        /\ last' = NoEngine \/ pc' = "skills"
        /\ eng' = NoEngine /\ pc' \in {"idle", "skills"} /\ tries' = 0 /\ call' = "model"
        /\ pc' = "idle" => ~canWrite' /\ seen' = 0
    BY <1>1, <1>3, <1>5 DEF Placed
  <2> QED
    BY <2>1, <2>2 DEF Placed, EndLabels, Asking, WorkLabels, SaveLabels
<1>10. Formed(eng)' /\ Formed(last)'
  BY <1>1, <1>3, <1>5, <1>6 DEF Formed, mode
<1>11. Reserved'
  <2>1. pc' = "skills" => calls' <= run'.guard
    <3>1. CASE UNCHANGED run /\ starts = 0
      BY <1>1, <1>3, <3>1, Types DEF Placed, TypeOK, world, FreshRun
    <3>2. CASE \E d \in disk : run' = d.run
      BY <1>2, <1>3, <3>2 DEF World, world
    <3> QED
      BY <1>5, <3>1, <3>2
  <2> QED
    BY <1>4, <1>5, <2>1 DEF Reserved, World
<1> QED
  BY <1>4, <1>7, <1>8, <1>9, <1>10, <1>11 DEF Base, Sound, World

(* The steps after which the process may have forgotten the run. *)
LEMMA LeavingBase ==
    ASSUME Base, Keep \/ Tell \/ KeepAgain \/ Deliver \/ Crash
    PROVE  Base'
<1>1. TypeOK /\ Ended /\ Placed /\ Formed(eng) /\ Formed(last) /\ Reserved
  BY DEF Base, Sound
<1>2. /\ pc # "idle" /\ Effect /\ UNCHANGED <<mode, refused, starts>>
      /\ ~Crash => pc \in EndLabels
      /\ \/ Leave
         \/ UNCHANGED memory /\ \/ pc = "keep" /\ pc' = "tell" /\ fin.kind # "cancelled"
                                \/ pc = "tell" /\ pc' = "keep2" /\ canWrite
                                \/ pc = "keep2" /\ pc' = "deliver"
  BY InFlightIsEffect DEF Keep, Tell, KeepAgain, Deliver, Crash, SaveSafely, Effect, Snapshot,
     SaveLabels, EndLabels, rest, Goto, world
<1>3. World' /\ calls' <= run.guard
  BY <1>2, EffectWorld
<1>4. told' \in [kind : {"none", "completed", "failed"}, claim : BOOLEAN,
                 answer : 0..MaxModelTurns]
  <2>1. CASE ~Tell
    BY <1>1, <2>1 DEF Keep, KeepAgain, Deliver, Crash, rest, TypeOK
  <2>2. CASE Tell
    <3>1. fin.kind \in {"completed", "failed"} /\ fin.claim \in BOOLEAN
      BY <1>1, <2>2 DEF Tell, Ended, TypeOK
    <3>2. (IF fin.kind = "completed" THEN eng.resp ELSE 0) \in 0..MaxModelTurns
      BY <1>1, StandardRunAssumption DEF TypeOK, EngineState
    <3> QED
      BY <2>2, <3>1, <3>2 DEF Tell
  <2> QED
    BY <2>1, <2>2
<1>5. starts' \in 1..(MaxResumes + 1) /\ refused' \in BOOLEAN
  BY <1>1, <1>2 DEF Placed, TypeOK
<1>6. CASE Leave
  BY <1>3, <1>4, <1>5, <1>6, LeaveBase
<1>7. CASE UNCHANGED memory /\ \/ pc = "keep" /\ pc' = "tell" /\ fin.kind # "cancelled"
                               \/ pc = "tell" /\ pc' = "keep2" /\ canWrite
                               \/ pc = "keep2" /\ pc' = "deliver"
  <2>1. TypeOK'
    <3>1. /\ log' \in Seq(Seq(0..MaxModelTurns)) /\ calls' \in 0..MaxModelTurns
          /\ \A d \in disk' : d \in [run : RunState, eng : EngineState]
          /\ ran' \in Nat /\ shown' \in Nat /\ staged' \in BOOLEAN /\ retain' \in BOOLEAN
      BY <1>3 DEF World
    <3>2. starts' \in 0..(MaxResumes + 1) /\ pc' \in EndLabels
      BY <1>5, <1>7 DEF EndLabels
    <3> QED
      BY <1>1, <1>4, <1>5, <1>7, <3>1, <3>2 DEF TypeOK, memory
  <2>2. Ended' /\ Placed'
    BY <1>1, <1>5, <1>7 DEF Ended, Placed, EndLabels, Asking, memory, WorkLabels, SaveLabels
  <2>3. Formed(eng)' /\ Formed(last)' /\ Reserved'
    BY <1>1, <1>2, <1>3, <1>7 DEF Formed, Reserved, World, memory, mode
  <2> QED
    BY <1>3, <2>1, <2>2, <2>3 DEF Base, Sound, World
<1> QED
  BY <1>2, <1>6, <1>7

LEMMA NextBase == ASSUME Base, [Next]_vars PROVE Base'
<1>1. CASE UNCHANGED vars
  BY <1>1 DEF vars, world, memory, rest, mode, Base, Sound, TypeOK, Ended, Placed, Asking,
     Formed, Reserved
<1>2. CASE Next
  <2>1. CASE Execute
    BY <2>1, ExecuteBase, FailingBase
  <2>2. CASE Persist
    BY <2>2, PersistBase, FailingBase
  <2>3. CASE Reserve
    BY <2>3, ReserveBase, FailingBase, TrippingBase
  <2> QED
    BY <1>2, <2>1, <2>2, <2>3, IdleBase, SelectSkillsBase, StartEngineBase, CheckpointBase,
       FailingBase, RespondBase, RetryCallBase, TrippingBase, SkipSummaryBase, TurnBase,
       PrepareBase, DecideFinishBase, DecideCustomBase, DecideFailBase, DecideContinueBase,
       DecideToolsBase, IntentBase, RunToolsBase, ToolsFailBase, DecodeBase, FinalizeBase,
       PublishBase, EmitBase, ShowBase, RetireBase, PersistSafelyBase, LeavingBase, CancelBase
    DEF Next
<1> QED
  BY <1>1, <1>2

LEMMA BaseInvariant == Spec => []Base
<1>1. Init => Base
  BY InitBase
<1>2. Base /\ [Next]_vars => Base'
  BY NextBase
<1> QED
  BY <1>1, <1>2, PTL DEF Spec

(* However the run is interrupted and resumed, a checkpoint of it accounts  *)
(* for every provider call made so far: the turn is saved before the call   *)
(* (_before_model_attempt).                                                 *)
THEOREM TurnsAreReserved == Spec => []TurnsReservedAhead
<1>1. Base => TurnsReservedAhead
  BY DEF Base, Reserved, TurnsReservedAhead
<1> QED
  BY <1>1, BaseInvariant, PTL

-----------------------------------------------------------------------------
(* A tripped guard. *)
Tripped ==
    /\ run.safety = "never" => fin.handler
    /\ \A d \in disk : d.run.safety = "never" => pc = "idle" \/ run.safety = "never"

(* A live process has one of the effects; another leaves the world alone. *)
LEMMA NextEffect ==
    ASSUME Base, Next
    PROVE  /\ pc = "idle" => /\ Launch \/ SetupFails \/ Resume \/ RefuseResume
                             /\ UNCHANGED <<world, mode>>
           /\ pc # "idle" => Effect /\ UNCHANGED mode
<1>1. CASE pc = "idle"
  <2>1. Launch \/ SetupFails \/ Resume \/ RefuseResume
    BY <1>1
    DEF Next, SelectSkills, StartEngine, Checkpoint, CheckpointAborted, Reserve, Respond,
        RetryCall, NoProgress, SkipSummary, Execute, Turn, Prepare, DecideFinish, DecideCustom,
        DecideFail, DecideContinue, DecideTools, Intent, RunTools, ToolsFail, Decode, Finalize,
        Publish, Persist, Emit, Show, Retire, PersistSafely, Keep, Tell, KeepAgain, Deliver,
        Cancel, Raise, Crash, SaveLabels, WorkLabels
  <2> QED
    BY <1>1, <2>1 DEF Launch, SetupFails, Resume, RefuseResume
<1>2. CASE pc # "idle"
  <2>1. UNCHANGED mode
    BY <1>2
    DEF Next, SelectSkills, StartEngine, Checkpoint, CheckpointAborted, Reserve, Respond,
        RetryCall, NoProgress, SkipSummary, Execute, Turn, Prepare, DecideFinish, DecideCustom,
        DecideFail, DecideContinue, DecideTools, Intent, RunTools, ToolsFail, Decode, Finalize,
        Publish, Persist, Emit, Show, Retire, PersistSafely, Keep, Tell, KeepAgain, Deliver,
        Cancel, Raise, Crash, Launch, SetupFails, Resume, RefuseResume, rest
  <2>2. ~Launch /\ ~SetupFails /\ ~Resume /\ ~RefuseResume
    BY <1>2 DEF Launch, SetupFails, Resume, RefuseResume
  <2> SUFFICES Effect
    BY <1>2, <2>1
  <2>3. CASE \/ SelectSkills \/ StartEngine \/ Reserve \/ Execute \/ Turn \/ Prepare
             \/ DecideFinish \/ DecideCustom \/ DecideFail \/ DecideContinue \/ DecideTools
             \/ Intent \/ Decode \/ Finalize \/ Publish \/ Emit \/ Tell \/ Deliver
    BY <2>3
    DEF SelectSkills, StartEngine, Reserve, Execute, Turn, Prepare, DecideFinish, DecideCustom,
        DecideFail, DecideContinue, DecideTools, Intent, Decode, Finalize, Publish, Emit, Tell,
        Deliver, Effect
  <2>4. CASE Checkpoint \/ CheckpointAborted
    BY <2>4 DEF Checkpoint, CheckpointAborted, Effect, Snapshot, SaveLabels
  <2>5. CASE Respond \/ RetryCall \/ NoProgress \/ RunTools \/ Show
    BY <2>5 DEF Respond, RetryCall, NoProgress, RunTools, Show, Effect
  <2>6. CASE Retire \/ Keep \/ KeepAgain
    BY <2>6 DEF Retire, Keep, KeepAgain, SaveSafely, Effect, Snapshot, SaveLabels, world
  <2>7. CASE Persist \/ PersistSafely
    BY <2>7 DEF Persist, PersistSafely, Effect, world
  <2>8. CASE SkipSummary \/ ToolsFail \/ Cancel \/ Raise \/ Crash
    BY <2>8, InFlightIsEffect DEF SkipSummary, ToolsFail, Cancel, Raise, Crash
  <2> QED
    BY <2>1, <2>2, <2>3, <2>4, <2>5, <2>6, <2>7, <2>8 DEF Next
<1> QED
  BY <1>1, <1>2

(* What is on disk was there before or has the state of the live run. *)
LEMMA NextDisk ==
    ASSUME Base, [Next]_vars, NEW d \in disk'
    PROVE  d \in disk \/ (pc # "idle" /\ d.run = run)
<1>1. CASE UNCHANGED vars
  BY <1>1 DEF vars, world
<1>2. CASE Next
  BY <1>2, NextEffect DEF Effect, world, Saved
<1> QED
  BY <1>1, <1>2

(* Who is handling an error has left the work. *)
LEMMA HandlerIsEnding ==
    ASSUME Base, fin.handler
    PROVE  pc \in EndLabels
  BY DEF Base, Sound, TypeOK, Ended, NoEnd, WorkLabels, SaveLabels, EndLabels

LEMMA HandleSafety ==
    ASSUME NEW kind, NEW r \in RunState, NEW claim, Handle(kind, r, claim)
    PROVE  (pc' = "idle" /\ run'.safety = "resumable") \/ (run'.safety = r.safety /\ fin'.handler)
<1>1. CASE kind = "cancelled" /\ ~canWrite
  BY <1>1 DEF Handle, Leave, FreshRun
<1>2. CASE ~(kind = "cancelled" /\ ~canWrite)
  <2>1. run' = [r EXCEPT !.init = @ /\ pc # "save1"] /\ fin'.handler
    BY <1>2 DEF Handle
  <2> QED
    BY <2>1 DEF RunState
<1> QED
  BY <1>1, <1>2

(* The guard is tripped by an error, and no step takes that back. *)
LEMMA SafetySteps ==
    ASSUME Base, Next
    PROVE  /\ pc # "idle" /\ run.safety = "never" /\ Tripped =>
                 pc' = "idle" \/ (run'.safety = "never" /\ fin'.handler)
           /\ run.safety # "never" /\ run'.safety = "never" => fin'.handler
<1>1. TypeOK /\ run \in RunState /\ Placed
  BY DEF Base, Sound, TypeOK
<1>2. CASE Fails \/ Handle("failed", run, FALSE) \/ Handle("cancelled", run, FALSE)
  BY <1>1, <1>2, HandleSafety DEF Fails
<1>3. CASE GuardTrips
  <2> DEFINE r == [run EXCEPT !.safety = "never"]
  <2>1. r \in RunState /\ r.safety = "never"
    BY <1>1, TrippedRun
  <2> HIDE DEF r
  <2>2. Handle("failed", r, FALSE)
    BY <1>3 DEF GuardTrips, r
  <2> QED
    BY <2>1, <2>2, HandleSafety
<1>4. CASE Leave
  BY <1>4 DEF Leave, FreshRun
<1>5. CASE UNCHANGED <<run, fin>>
  BY <1>1, <1>5 DEF Tripped
<1>6. CASE Launch \/ SetupFails \/ Resume \/ RefuseResume
  BY <1>1, <1>6 DEF Launch, SetupFails, Resume, RefuseResume, memory, Placed, FreshRun
<1>7. CASE PersistSafely
  <2>1. run' \in {run, BatchDone(run)} /\ fin' = fin
    BY <1>7 DEF PersistSafely
  <2>2. run'.safety = run.safety
    BY <1>1, <2>1 DEF BatchDone, RunState
  <2> QED
    BY <2>1, <2>2 DEF Tripped
<1>8. CASE ~fin.handler /\ run'.safety # "never"
  BY <1>8 DEF Tripped
<1>9. CASE \/ Checkpoint \/ Turn \/ DecideFinish \/ DecideTools \/ Publish \/ Persist
           \/ Respond \/ Reserve \/ Intent \/ DecideCustom \/ DecideContinue \/ Decode
  <2>1. ~fin.handler
    <3>1. pc \in WorkLabels
      BY <1>9 DEF Checkpoint, Turn, DecideFinish, DecideTools, Publish, Persist, Respond,
         Reserve, Intent, DecideCustom, DecideContinue, Decode, WorkLabels, SaveLabels
    <3> QED
      BY <1>1, <3>1, HandlerIsEnding DEF WorkLabels, SaveLabels, EndLabels, TypeOK
  <2>2. \/ run'.safety \in {run.safety, "manual", "resumable"}
        \/ GuardTrips
        \/ Fails
    <3>1. CASE Checkpoint
      BY <1>1, <3>1 DEF Checkpoint, RunState
    <3>2. CASE Turn \/ DecideTools
      BY <1>1, <3>2 DEF Turn, DecideTools, RunState
    <3>3. CASE DecideFinish \/ Publish
      BY <1>1, <3>3 DEF DecideFinish, Publish, RunState
    <3>4. CASE Persist
      BY <1>1, <3>4 DEF Persist, BatchDone, RunState
    <3>5. CASE Respond \/ Reserve
      BY <1>1, <3>5 DEF Respond, Reserve, RunState
    <3>6. CASE Intent \/ DecideCustom \/ DecideContinue \/ Decode
      BY <1>1, <3>6 DEF Intent, DecideCustom, DecideContinue, Decode, RunState
    <3> QED
      BY <1>9, <3>1, <3>2, <3>3, <3>4, <3>5, <3>6
  <2> QED
    BY <1>2, <1>3, <2>1, <2>2 DEF Tripped
<1>10. CASE \/ SelectSkills \/ StartEngine \/ CheckpointAborted \/ RetryCall \/ NoProgress
            \/ SkipSummary \/ Execute \/ Prepare \/ DecideFail \/ RunTools \/ ToolsFail
            \/ Finalize \/ Emit \/ Show \/ Retire \/ Keep \/ Tell \/ KeepAgain \/ Deliver
            \/ Cancel \/ Raise \/ Crash
  <2>1. \/ UNCHANGED <<run, fin>>
        \/ Leave
        \/ Fails
        \/ GuardTrips
        \/ Handle("failed", run, FALSE)
        \/ Handle("cancelled", run, FALSE)
        \/ run' = run /\ pc \in WorkLabels
    BY <1>10 DEF SelectSkills, StartEngine, CheckpointAborted, RetryCall, NoProgress,
       SkipSummary, Execute, Prepare, DecideFail, RunTools, ToolsFail, Finalize, Emit, Show,
       Retire, Keep, Tell, KeepAgain, Deliver, Cancel, Raise, Crash, memory, WorkLabels,
       SaveLabels
  <2>2. pc \in WorkLabels => ~fin.handler
    BY <1>1, HandlerIsEnding DEF WorkLabels, SaveLabels, EndLabels, TypeOK
  <2> QED
    BY <1>2, <1>3, <1>4, <1>5, <2>1, <2>2 DEF Tripped
<1> QED
  BY <1>6, <1>7, <1>9, <1>10 DEF Next

LEMMA TrippedInvariant == Spec => []Tripped
<1>1. Init => Tripped
  BY DEF Init, Tripped, FreshRun
<1>2. ASSUME Base, Tripped, [Next]_vars
      PROVE  Tripped'
  <2>1. CASE UNCHANGED vars
    BY <1>2, <2>1 DEF vars, world, memory, Tripped
  <2>2. CASE Next
    <3>1. run'.safety = "never" => fin'.handler
      <4>1. TypeOK /\ Placed /\ (pc = "idle" => run.safety = "resumable")
        BY <1>2 DEF Base, Sound, Placed, FreshRun
      <4>2. pc # "idle" /\ run.safety = "never" => pc' = "idle" \/ fin'.handler
        BY <1>2, <2>2, SafetySteps
      <4>3. Placed' /\ (pc' = "idle" => run'.safety = "resumable")
        BY <1>2, NextBase DEF Base, Sound, Placed, FreshRun
      <4> QED
        BY <1>2, <2>2, <4>1, <4>2, <4>3, SafetySteps
    <3>2. ASSUME NEW d \in disk', d.run.safety = "never"
          PROVE  pc' = "idle" \/ run'.safety = "never"
      <4>1. CASE pc = "idle"
        <5>1. d \in disk /\ (Launch \/ SetupFails \/ Resume \/ RefuseResume)
          BY <1>2, <2>2, <3>2, <4>1, NextEffect DEF world
        <5>2. starts # 0 /\ \A e \in disk : e = d
          BY <1>2, <5>1 DEF Base, Sound, Placed
        <5> QED
          BY <3>2, <4>1, <5>1, <5>2 DEF Launch, SetupFails, Resume, RefuseResume
      <4>2. CASE pc # "idle"
        <5>1. run.safety = "never"
          BY <1>2, <3>2, <4>2, NextDisk DEF Tripped
        <5> QED
          BY <1>2, <2>2, <4>2, <5>1, SafetySteps
      <4> QED
        BY <4>1, <4>2
    <3> QED
      BY <3>1, <3>2 DEF Tripped
  <2> QED
    BY <1>2, <2>1, <2>2
<1> QED
  BY <1>1, <1>2, BaseInvariant, PTL DEF Spec

(* Once a checkpoint says that a guard was tripped, no later checkpoint of  *)
(* the run can be resumed (_run, for _NON_RESUMABLE_GUARD_REASONS).         *)
THEOREM TrippedGuardIsFinal == Spec => GuardTripIsFinal
<1>1. ASSUME Base, Tripped, [Next]_vars,
             NEW d \in disk, NEW e \in disk', d.run.safety = "never"
      PROVE  e.run.safety = "never"
  <2>1. CASE e \in disk
    <3>1. \A a, b \in disk : a = b
      BY <1>1 DEF Base, Sound
    <3> QED
      BY <1>1, <2>1, <3>1
  <2>2. CASE e \notin disk
    BY <1>1, <2>2, NextDisk DEF Tripped
  <2> QED
    BY <2>1, <2>2
<1>2. Base /\ Tripped /\ [Next]_vars =>
          [\A d \in disk, e \in disk' : d.run.safety = "never" => e.run.safety = "never"]_vars
  BY <1>1
<1> QED
  BY <1>2, BaseInvariant, TrippedInvariant, PTL DEF Spec, GuardTripIsFinal

-----------------------------------------------------------------------------
(* Tools, when no CONTINUE decision clears what they blocked. *)
Blocked(r, e) == r.safety = "resumable" /\ e.resp = 0 => ran = 0

ToolsOnDisk ==
    /\ \A d \in disk : Blocked(d.run, d.eng) /\ (~d.run.init => ran = 0)
    /\ pc = "tools" => \A d \in disk : d.run.safety = "manual" /\ d.run.init

(* Whether the run is initialized, and where its tools are awaited. *)
Begun ==
    /\ pc \in WorkLabels /\ eng.phase # "none" => (run.init <=> pc # "save0")
    /\ pc \in {"skills", "start"} \/ (Asking /\ call = "skills") => seen = 0
    /\ pc \in {"save_intent", "tools"} => run.safety = "manual"

ToolsInMemory ==
    /\ pc # "idle" /\ (eng.phase # "none" \/ canWrite) => Blocked(run, eng)
    /\ pc # "idle" /\ ~run.init => ran = 0
    /\ pc = "save1" => ran = 0
    /\ Asking \/ pc \in {"skills", "start", "save0", "intent", "save_intent"} => Blocked(run, last)

(* The outcomes are in memory while the answer is not known. *)
OutcomesSeen ==
    pc \in WorkLabels \ {"save_abort", "finish", "retire"} /\ Engine.resp = 0 => seen = ran

ToolsGuarded == ToolsOnDisk /\ Begun /\ ToolsInMemory /\ OutcomesSeen

(* What the tools ask of the process, whichever way it goes on. *)
ToolsInside == Begun /\ ToolsInMemory /\ OutcomesSeen

LEMMA SelectSkillsTools == ASSUME Base, ToolsGuarded, SelectSkills PROVE ToolsInside'
<1> TypeOK /\ Placed /\ Formed(eng) /\ Formed(last) /\ Begun /\ ToolsInMemory /\ OutcomesSeen
    /\ run \in RunState /\ eng \in EngineState
  BY DEF Base, Sound, TypeOK, ToolsGuarded
<1>1. Begun'
  BY OutcomeEnds DEF SelectSkills, Goto, Begun, Placed, Asking, RunState, EngineState, rest,
     world, WorkLabels, SaveLabels
<1>2. ToolsInMemory'
  BY OutcomeEnds DEF SelectSkills, Goto, Begun, ToolsInMemory, Blocked, Placed, Asking, Formed,
     RunState, EngineState, rest, world, WorkLabels, SaveLabels
<1>3. OutcomesSeen'
  BY OutcomeEnds DEF SelectSkills, Goto, Begun, ToolsInMemory, OutcomesSeen, Engine, Placed,
     Asking, Formed, RunState, EngineState, rest, world, WorkLabels, SaveLabels
<1> QED
  BY <1>1, <1>2, <1>3 DEF ToolsInside

LEMMA CheckpointTools == ASSUME Base, ToolsGuarded, Checkpoint PROVE ToolsInside'
<1> TypeOK /\ Placed /\ Formed(eng) /\ Formed(last) /\ Begun /\ ToolsInMemory /\ OutcomesSeen
    /\ run \in RunState /\ eng \in EngineState
  BY DEF Base, Sound, TypeOK, ToolsGuarded
<1>1. Begun'
  BY OutcomeEnds DEF Checkpoint, Goto, AfterSave, Snapshot, Begun, Placed, Asking, RunState,
     EngineState, rest, WorkLabels, SaveLabels
<1>2. ToolsInMemory'
  BY OutcomeEnds DEF Checkpoint, Goto, AfterSave, Snapshot, Begun, ToolsInMemory, Blocked,
     Placed, Asking, Formed, RunState, EngineState, rest, WorkLabels, SaveLabels
<1>3. OutcomesSeen'
  BY OutcomeEnds DEF Checkpoint, Goto, AfterSave, Snapshot, Begun, ToolsInMemory, OutcomesSeen,
     Engine, Placed, Asking, Formed, RunState, EngineState, rest, WorkLabels, SaveLabels
<1> QED
  BY <1>1, <1>2, <1>3 DEF ToolsInside

LEMMA ReserveTools ==
    ASSUME Base, ToolsGuarded, Reserve, call # "barred", run.guard < MaxModelTurns
    PROVE  ToolsInside'
<1> TypeOK /\ Placed /\ Formed(eng) /\ Formed(last) /\ Begun /\ ToolsInMemory /\ OutcomesSeen
    /\ run \in RunState /\ eng \in EngineState
  BY DEF Base, Sound, TypeOK, ToolsGuarded
<1>1. Begun'
  BY OutcomeEnds DEF Reserve, Goto, Begun, Placed, Asking, RunState, EngineState, rest, world,
     WorkLabels, SaveLabels
<1>2. ToolsInMemory'
  BY OutcomeEnds DEF Reserve, Goto, Begun, ToolsInMemory, Blocked, Placed, Asking, Formed,
     RunState, EngineState, rest, world, WorkLabels, SaveLabels
<1>3. OutcomesSeen'
  BY OutcomeEnds DEF Reserve, Goto, Begun, ToolsInMemory, OutcomesSeen, Engine, Placed, Asking,
     Formed, RunState, EngineState, rest, world, WorkLabels, SaveLabels
<1> QED
  BY <1>1, <1>2, <1>3 DEF ToolsInside

LEMMA RespondTools == ASSUME Base, ToolsGuarded, Respond PROVE ToolsInside'
<1> TypeOK /\ Placed /\ Formed(eng) /\ Formed(last) /\ Begun /\ ToolsInMemory /\ OutcomesSeen
    /\ run \in RunState /\ eng \in EngineState
  BY DEF Base, Sound, TypeOK, ToolsGuarded
<1>1. Begun'
  BY RespondLeads DEF Respond, Begun, Placed, Asking, RunState, EngineState, rest, WorkLabels,
     SaveLabels
<1>2. ToolsInMemory'
  BY RespondLeads DEF Respond, Begun, ToolsInMemory, Blocked, Placed, Asking, Formed, RunState,
     EngineState, rest, WorkLabels, SaveLabels
<1>3. OutcomesSeen'
  BY RespondLeads DEF Respond, Begun, ToolsInMemory, OutcomesSeen, Engine, Placed, Asking,
     Formed, RunState, EngineState, rest, WorkLabels, SaveLabels
<1> QED
  BY <1>1, <1>2, <1>3 DEF ToolsInside

LEMMA RetryCallTools == ASSUME Base, ToolsGuarded, RetryCall PROVE ToolsInside'
<1> TypeOK /\ Placed /\ Formed(eng) /\ Formed(last) /\ Begun /\ ToolsInMemory /\ OutcomesSeen
    /\ run \in RunState /\ eng \in EngineState
  BY DEF Base, Sound, TypeOK, ToolsGuarded
<1>1. Begun'
  BY OutcomeEnds DEF RetryCall, Goto, Begun, Placed, Asking, RunState, EngineState, rest,
     memory, WorkLabels, SaveLabels
<1>2. ToolsInMemory'
  BY OutcomeEnds DEF RetryCall, Goto, Begun, ToolsInMemory, Blocked, Placed, Asking, Formed,
     RunState, EngineState, rest, memory, WorkLabels, SaveLabels
<1>3. OutcomesSeen'
  BY OutcomeEnds DEF RetryCall, Goto, Begun, ToolsInMemory, OutcomesSeen, Engine, Placed,
     Asking, Formed, RunState, EngineState, rest, memory, WorkLabels, SaveLabels
<1> QED
  BY <1>1, <1>2, <1>3 DEF ToolsInside

LEMMA SkipSummaryTools == ASSUME Base, ToolsGuarded, SkipSummary PROVE ToolsInside'
<1> TypeOK /\ Placed /\ Formed(eng) /\ Formed(last) /\ Begun /\ ToolsInMemory /\ OutcomesSeen
    /\ run \in RunState /\ eng \in EngineState
  BY DEF Base, Sound, TypeOK, ToolsGuarded
<1>1. Begun'
  BY OutcomeEnds DEF SkipSummary, AfterCall, Goto, InFlight, Begun, Placed, Asking, RunState,
     EngineState, rest, world, WorkLabels, SaveLabels
<1>2. ToolsInMemory'
  BY OutcomeEnds DEF SkipSummary, AfterCall, Goto, InFlight, Begun, ToolsInMemory, Blocked,
     Placed, Asking, Formed, RunState, EngineState, rest, world, WorkLabels, SaveLabels
<1>3. OutcomesSeen'
  BY OutcomeEnds DEF SkipSummary, AfterCall, Goto, InFlight, Begun, ToolsInMemory, OutcomesSeen,
     Engine, Placed, Asking, Formed, RunState, EngineState, rest, world, WorkLabels, SaveLabels
<1> QED
  BY <1>1, <1>2, <1>3 DEF ToolsInside

LEMMA ExecuteTools ==
    ASSUME Base, ToolsGuarded, Execute, ~(eng.phase = "done" /\ eng.resp = 0)
    PROVE  ToolsInside'
<1> TypeOK /\ Placed /\ Formed(eng) /\ Formed(last) /\ Begun /\ ToolsInMemory /\ OutcomesSeen
    /\ run \in RunState /\ eng \in EngineState
  BY DEF Base, Sound, TypeOK, ToolsGuarded
<1>1. Begun'
  BY OutcomeEnds DEF Execute, Goto, Begun, Placed, Asking, RunState, EngineState, rest, world,
     memory, WorkLabels, SaveLabels
<1>2. ToolsInMemory'
  BY OutcomeEnds DEF Execute, Goto, Begun, ToolsInMemory, Blocked, Placed, Asking, Formed,
     RunState, EngineState, rest, world, memory, WorkLabels, SaveLabels
<1>3. OutcomesSeen'
  BY OutcomeEnds DEF Execute, Goto, Begun, ToolsInMemory, OutcomesSeen, Engine, Placed, Asking,
     Formed, RunState, EngineState, rest, world, memory, WorkLabels, SaveLabels
<1> QED
  BY <1>1, <1>2, <1>3 DEF ToolsInside

LEMMA TurnTools == ASSUME Base, ToolsGuarded, Turn PROVE ToolsInside'
<1> TypeOK /\ Placed /\ Formed(eng) /\ Formed(last) /\ Begun /\ ToolsInMemory /\ OutcomesSeen
    /\ run \in RunState /\ eng \in EngineState
  BY DEF Base, Sound, TypeOK, ToolsGuarded
<1>1. Begun'
  BY OutcomeEnds DEF Turn, Goto, Begun, Placed, Asking, RunState, EngineState, rest, world,
     WorkLabels, SaveLabels
<1>2. ToolsInMemory'
  BY OutcomeEnds DEF Turn, Goto, Begun, ToolsInMemory, Blocked, Placed, Asking, Formed,
     RunState, EngineState, rest, world, WorkLabels, SaveLabels
<1>3. OutcomesSeen'
  BY OutcomeEnds DEF Turn, Goto, Begun, ToolsInMemory, OutcomesSeen, Engine, Placed, Asking,
     Formed, RunState, EngineState, rest, world, WorkLabels, SaveLabels
<1> QED
  BY <1>1, <1>2, <1>3 DEF ToolsInside

LEMMA PrepareTools == ASSUME Base, ToolsGuarded, Prepare PROVE ToolsInside'
<1> TypeOK /\ Placed /\ Formed(eng) /\ Formed(last) /\ Begun /\ ToolsInMemory /\ OutcomesSeen
    /\ run \in RunState /\ eng \in EngineState
  BY DEF Base, Sound, TypeOK, ToolsGuarded
<1>1. Begun'
  BY OutcomeEnds DEF Prepare, Goto, Begun, Placed, Asking, RunState, EngineState, rest, world,
     WorkLabels, SaveLabels
<1>2. ToolsInMemory'
  BY OutcomeEnds DEF Prepare, Goto, Begun, ToolsInMemory, Blocked, Placed, Asking, Formed,
     RunState, EngineState, rest, world, WorkLabels, SaveLabels
<1>3. OutcomesSeen'
  BY OutcomeEnds DEF Prepare, Goto, Begun, ToolsInMemory, OutcomesSeen, Engine, Placed, Asking,
     Formed, RunState, EngineState, rest, world, WorkLabels, SaveLabels
<1> QED
  BY <1>1, <1>2, <1>3 DEF ToolsInside

LEMMA DecideFinishTools == ASSUME Base, ToolsGuarded, DecideFinish PROVE ToolsInside'
<1> TypeOK /\ Placed /\ Formed(eng) /\ Formed(last) /\ Begun /\ ToolsInMemory /\ OutcomesSeen
    /\ run \in RunState /\ eng \in EngineState
  BY DEF Base, Sound, TypeOK, ToolsGuarded
<1>1. Begun'
  BY OutcomeEnds DEF DecideFinish, Goto, Begun, Placed, Asking, RunState, EngineState, rest,
     world, WorkLabels, SaveLabels
<1>2. ToolsInMemory'
  BY OutcomeEnds DEF DecideFinish, Goto, Begun, ToolsInMemory, Blocked, Placed, Asking, Formed,
     RunState, EngineState, rest, world, WorkLabels, SaveLabels
<1>3. OutcomesSeen'
  BY OutcomeEnds DEF DecideFinish, Goto, Begun, ToolsInMemory, OutcomesSeen, Engine, Placed,
     Asking, Formed, RunState, EngineState, rest, world, WorkLabels, SaveLabels
<1> QED
  BY <1>1, <1>2, <1>3 DEF ToolsInside

LEMMA DecideCustomTools == ASSUME Base, ToolsGuarded, DecideCustom PROVE ToolsInside'
<1> TypeOK /\ Placed /\ Formed(eng) /\ Formed(last) /\ Begun /\ ToolsInMemory /\ OutcomesSeen
    /\ run \in RunState /\ eng \in EngineState
  BY DEF Base, Sound, TypeOK, ToolsGuarded
<1>1. Begun'
  BY OutcomeEnds DEF DecideCustom, Begun, Placed, Asking, RunState, EngineState, rest, world,
     WorkLabels, SaveLabels
<1>2. ToolsInMemory'
  BY OutcomeEnds DEF DecideCustom, Begun, ToolsInMemory, Blocked, Placed, Asking, Formed,
     RunState, EngineState, rest, world, WorkLabels, SaveLabels
<1>3. OutcomesSeen'
  BY OutcomeEnds DEF DecideCustom, Begun, ToolsInMemory, OutcomesSeen, Engine, Placed, Asking,
     Formed, RunState, EngineState, rest, world, WorkLabels, SaveLabels
<1> QED
  BY <1>1, <1>2, <1>3 DEF ToolsInside

LEMMA DecideFailTools == ASSUME Base, ToolsGuarded, DecideFail PROVE ToolsInside'
<1> TypeOK /\ Placed /\ Formed(eng) /\ Formed(last) /\ Begun /\ ToolsInMemory /\ OutcomesSeen
    /\ run \in RunState /\ eng \in EngineState
  BY DEF Base, Sound, TypeOK, ToolsGuarded
<1>1. Begun'
  BY OutcomeEnds DEF DecideFail, Begun, Placed, Asking, RunState, EngineState, rest, world,
     WorkLabels, SaveLabels
<1>2. ToolsInMemory'
  BY OutcomeEnds DEF DecideFail, Begun, ToolsInMemory, Blocked, Placed, Asking, Formed,
     RunState, EngineState, rest, world, WorkLabels, SaveLabels
<1>3. OutcomesSeen'
  BY OutcomeEnds DEF DecideFail, Begun, ToolsInMemory, OutcomesSeen, Engine, Placed, Asking,
     Formed, RunState, EngineState, rest, world, WorkLabels, SaveLabels
<1> QED
  BY <1>1, <1>2, <1>3 DEF ToolsInside

LEMMA DecideToolsTools == ASSUME Base, ToolsGuarded, DecideTools PROVE ToolsInside'
<1> TypeOK /\ Placed /\ Formed(eng) /\ Formed(last) /\ Begun /\ ToolsInMemory /\ OutcomesSeen
    /\ run \in RunState /\ eng \in EngineState
  BY DEF Base, Sound, TypeOK, ToolsGuarded
<1>1. Begun'
  BY OutcomeEnds DEF DecideTools, Goto, Begun, Placed, Asking, RunState, EngineState, rest,
     world, WorkLabels, SaveLabels
<1>2. ToolsInMemory'
  BY OutcomeEnds DEF DecideTools, Goto, Begun, ToolsInMemory, Blocked, Placed, Asking, Formed,
     RunState, EngineState, rest, world, WorkLabels, SaveLabels
<1>3. OutcomesSeen'
  BY OutcomeEnds DEF DecideTools, Goto, Begun, ToolsInMemory, OutcomesSeen, Engine, Placed,
     Asking, Formed, RunState, EngineState, rest, world, WorkLabels, SaveLabels
<1> QED
  BY <1>1, <1>2, <1>3 DEF ToolsInside

LEMMA IntentTools == ASSUME Base, ToolsGuarded, Intent PROVE ToolsInside'
<1> TypeOK /\ Placed /\ Formed(eng) /\ Formed(last) /\ Begun /\ ToolsInMemory /\ OutcomesSeen
    /\ run \in RunState /\ eng \in EngineState
  BY DEF Base, Sound, TypeOK, ToolsGuarded
<1>1. Begun'
  BY OutcomeEnds DEF Intent, Goto, Begun, Placed, Asking, RunState, EngineState, rest, world,
     WorkLabels, SaveLabels
<1>2. ToolsInMemory'
  BY OutcomeEnds DEF Intent, Goto, Begun, ToolsInMemory, Blocked, Placed, Asking, Formed,
     RunState, EngineState, rest, world, WorkLabels, SaveLabels
<1>3. OutcomesSeen'
  BY OutcomeEnds DEF Intent, Goto, Begun, ToolsInMemory, OutcomesSeen, Engine, Placed, Asking,
     Formed, RunState, EngineState, rest, world, WorkLabels, SaveLabels
<1> QED
  BY <1>1, <1>2, <1>3 DEF ToolsInside

LEMMA RunToolsTools == ASSUME Base, ToolsGuarded, RunTools PROVE ToolsInside'
<1> TypeOK /\ Placed /\ Formed(eng) /\ Formed(last) /\ Begun /\ ToolsInMemory /\ OutcomesSeen
    /\ run \in RunState /\ eng \in EngineState
  BY DEF Base, Sound, TypeOK, ToolsGuarded
<1>1. Begun'
  BY OutcomeEnds DEF RunTools, Goto, Begun, Placed, Asking, RunState, EngineState, rest,
     WorkLabels, SaveLabels
<1>2. ToolsInMemory'
  BY OutcomeEnds DEF RunTools, Goto, Begun, ToolsInMemory, Blocked, Placed, Asking, Formed,
     RunState, EngineState, rest, WorkLabels, SaveLabels
<1>3. OutcomesSeen'
  BY OutcomeEnds DEF RunTools, Goto, Begun, ToolsInMemory, OutcomesSeen, Engine, Placed, Asking,
     Formed, RunState, EngineState, rest, WorkLabels, SaveLabels
<1> QED
  BY <1>1, <1>2, <1>3 DEF ToolsInside

LEMMA ToolsFailTools == ASSUME Base, ToolsGuarded, ToolsFail PROVE ToolsInside'
<1> TypeOK /\ Placed /\ Formed(eng) /\ Formed(last) /\ Begun /\ ToolsInMemory /\ OutcomesSeen
    /\ run \in RunState /\ eng \in EngineState
  BY DEF Base, Sound, TypeOK, ToolsGuarded
<1>1. Begun'
  BY OutcomeEnds DEF ToolsFail, InFlight, Goto, Begun, Placed, Asking, RunState, EngineState,
     rest, world, memory, WorkLabels, SaveLabels
<1>2. ToolsInMemory'
  BY OutcomeEnds DEF ToolsFail, InFlight, Goto, Begun, ToolsInMemory, Blocked, Placed, Asking,
     Formed, RunState, EngineState, rest, world, memory, WorkLabels, SaveLabels
<1>3. OutcomesSeen'
  BY OutcomeEnds DEF ToolsFail, InFlight, Goto, Begun, ToolsInMemory, OutcomesSeen, Engine,
     Placed, Asking, Formed, RunState, EngineState, rest, world, memory, WorkLabels, SaveLabels
<1> QED
  BY <1>1, <1>2, <1>3 DEF ToolsInside

LEMMA DecodeTools == ASSUME Base, ToolsGuarded, Decode PROVE ToolsInside'
<1> TypeOK /\ Placed /\ Formed(eng) /\ Formed(last) /\ Begun /\ ToolsInMemory /\ OutcomesSeen
    /\ run \in RunState /\ eng \in EngineState
  BY DEF Base, Sound, TypeOK, ToolsGuarded
<1>1. Begun'
  BY OutcomeEnds DEF Decode, Goto, Begun, Placed, Asking, RunState, EngineState, rest, world,
     WorkLabels, SaveLabels
<1>2. ToolsInMemory'
  BY OutcomeEnds DEF Decode, Goto, Begun, ToolsInMemory, Blocked, Placed, Asking, Formed,
     RunState, EngineState, rest, world, WorkLabels, SaveLabels
<1>3. OutcomesSeen'
  BY OutcomeEnds DEF Decode, Goto, Begun, ToolsInMemory, OutcomesSeen, Engine, Placed, Asking,
     Formed, RunState, EngineState, rest, world, WorkLabels, SaveLabels
<1> QED
  BY <1>1, <1>2, <1>3 DEF ToolsInside

LEMMA FinalizeTools == ASSUME Base, ToolsGuarded, Finalize PROVE ToolsInside'
<1> TypeOK /\ Placed /\ Formed(eng) /\ Formed(last) /\ Begun /\ ToolsInMemory /\ OutcomesSeen
    /\ run \in RunState /\ eng \in EngineState
  BY DEF Base, Sound, TypeOK, ToolsGuarded
<1>1. Begun'
  BY OutcomeEnds DEF Finalize, Goto, Begun, Placed, Asking, RunState, EngineState, rest, world,
     WorkLabels, SaveLabels
<1>2. ToolsInMemory'
  BY OutcomeEnds DEF Finalize, Goto, Begun, ToolsInMemory, Blocked, Placed, Asking, Formed,
     RunState, EngineState, rest, world, WorkLabels, SaveLabels
<1>3. OutcomesSeen'
  BY OutcomeEnds DEF Finalize, Goto, Begun, ToolsInMemory, OutcomesSeen, Engine, Placed, Asking,
     Formed, RunState, EngineState, rest, world, WorkLabels, SaveLabels
<1> QED
  BY <1>1, <1>2, <1>3 DEF ToolsInside

LEMMA PublishTools == ASSUME Base, ToolsGuarded, Publish PROVE ToolsInside'
<1> TypeOK /\ Placed /\ Formed(eng) /\ Formed(last) /\ Begun /\ ToolsInMemory /\ OutcomesSeen
    /\ run \in RunState /\ eng \in EngineState
  BY DEF Base, Sound, TypeOK, ToolsGuarded
<1>1. Begun'
  BY OutcomeEnds DEF Publish, Goto, Begun, Placed, Asking, RunState, EngineState, rest, world,
     WorkLabels, SaveLabels
<1>2. ToolsInMemory'
  BY OutcomeEnds DEF Publish, Goto, Begun, ToolsInMemory, Blocked, Placed, Asking, Formed,
     RunState, EngineState, rest, world, WorkLabels, SaveLabels
<1>3. OutcomesSeen'
  BY OutcomeEnds DEF Publish, Goto, Begun, ToolsInMemory, OutcomesSeen, Engine, Placed, Asking,
     Formed, RunState, EngineState, rest, world, WorkLabels, SaveLabels
<1> QED
  BY <1>1, <1>2, <1>3 DEF ToolsInside

LEMMA PersistTools == ASSUME Base, ToolsGuarded, Persist, ~Conflict PROVE ToolsInside'
<1> TypeOK /\ Placed /\ Formed(eng) /\ Formed(last) /\ Begun /\ ToolsInMemory /\ OutcomesSeen
    /\ run \in RunState /\ eng \in EngineState
  BY DEF Base, Sound, TypeOK, ToolsGuarded
<1>1. Begun'
  BY OutcomeEnds DEF Persist, Goto, BatchDone, Begun, Placed, Asking, RunState, EngineState,
     WorkLabels, SaveLabels
<1>2. ToolsInMemory'
  BY OutcomeEnds DEF Persist, Goto, BatchDone, Begun, ToolsInMemory, Blocked, Placed, Asking,
     Formed, RunState, EngineState, WorkLabels, SaveLabels
<1>3. OutcomesSeen'
  BY OutcomeEnds DEF Persist, Goto, BatchDone, Begun, ToolsInMemory, OutcomesSeen, Engine,
     Placed, Asking, Formed, RunState, EngineState, WorkLabels, SaveLabels
<1> QED
  BY <1>1, <1>2, <1>3 DEF ToolsInside

LEMMA EmitTools == ASSUME Base, ToolsGuarded, Emit PROVE ToolsInside'
<1> TypeOK /\ Placed /\ Formed(eng) /\ Formed(last) /\ Begun /\ ToolsInMemory /\ OutcomesSeen
    /\ run \in RunState /\ eng \in EngineState
  BY DEF Base, Sound, TypeOK, ToolsGuarded
<1>1. Begun'
  BY OutcomeEnds DEF Emit, Goto, Begun, Placed, Asking, RunState, EngineState, rest, world,
     WorkLabels, SaveLabels
<1>2. ToolsInMemory'
  BY OutcomeEnds DEF Emit, Goto, Begun, ToolsInMemory, Blocked, Placed, Asking, Formed,
     RunState, EngineState, rest, world, WorkLabels, SaveLabels
<1>3. OutcomesSeen'
  <2>1. eng.phase = "finalize" /\ eng.resp # 0
    BY DEF Emit, Placed
  <2>2. eng'.phase \in {"finalize", "done"} /\ eng'.resp = eng.resp
    BY <2>1 DEF Emit, EngineState
  <2> QED
    BY <2>1, <2>2 DEF OutcomesSeen, Engine
<1> QED
  BY <1>1, <1>2, <1>3 DEF ToolsInside

LEMMA ShowTools == ASSUME Base, ToolsGuarded, Show PROVE ToolsInside'
<1> TypeOK /\ Placed /\ Formed(eng) /\ Formed(last) /\ Begun /\ ToolsInMemory /\ OutcomesSeen
    /\ run \in RunState /\ eng \in EngineState
  BY DEF Base, Sound, TypeOK, ToolsGuarded
<1>1. Begun'
  BY OutcomeEnds DEF Show, Begun, Placed, Asking, RunState, EngineState, rest, WorkLabels,
     SaveLabels
<1>2. ToolsInMemory'
  BY OutcomeEnds DEF Show, Begun, ToolsInMemory, Blocked, Placed, Asking, Formed, RunState,
     EngineState, rest, WorkLabels, SaveLabels
<1>3. OutcomesSeen'
  BY OutcomeEnds DEF Show, Begun, ToolsInMemory, OutcomesSeen, Engine, Placed, Asking, Formed,
     RunState, EngineState, rest, WorkLabels, SaveLabels
<1> QED
  BY <1>1, <1>2, <1>3 DEF ToolsInside

LEMMA RetireTools == ASSUME Base, ToolsGuarded, Retire PROVE ToolsInside'
<1> TypeOK /\ Placed /\ Formed(eng) /\ Formed(last) /\ Begun /\ ToolsInMemory /\ OutcomesSeen
    /\ run \in RunState /\ eng \in EngineState
  BY DEF Base, Sound, TypeOK, ToolsGuarded
<1>1. Begun'
  BY OutcomeEnds DEF Retire, SaveSafely, Goto, Begun, Placed, Asking, RunState, EngineState,
     rest, memory, WorkLabels, SaveLabels
<1>2. ToolsInMemory'
  BY OutcomeEnds DEF Retire, SaveSafely, Goto, Begun, ToolsInMemory, Blocked, Placed, Asking,
     Formed, RunState, EngineState, rest, memory, WorkLabels, SaveLabels
<1>3. OutcomesSeen'
  BY OutcomeEnds DEF Retire, SaveSafely, Goto, Begun, ToolsInMemory, OutcomesSeen, Engine,
     Placed, Asking, Formed, RunState, EngineState, rest, memory, WorkLabels, SaveLabels
<1> QED
  BY <1>1, <1>2, <1>3 DEF ToolsInside

LEMMA PersistSafelyTools == ASSUME Base, ToolsGuarded, PersistSafely PROVE ToolsInside'
<1> TypeOK /\ Placed /\ Formed(eng) /\ Formed(last) /\ Begun /\ ToolsInMemory /\ OutcomesSeen
    /\ run \in RunState /\ eng \in EngineState
  BY DEF Base, Sound, TypeOK, ToolsGuarded
<1>1. Begun'
  BY OutcomeEnds DEF PersistSafely, BatchDone, Goto, Begun, Placed, Asking, RunState,
     EngineState, WorkLabels, SaveLabels
<1>2. ToolsInMemory'
  BY OutcomeEnds DEF PersistSafely, BatchDone, Goto, Begun, ToolsInMemory, Blocked, Placed,
     Asking, Formed, RunState, EngineState, WorkLabels, SaveLabels
<1>3. OutcomesSeen'
  BY OutcomeEnds DEF PersistSafely, BatchDone, Goto, Begun, ToolsInMemory, OutcomesSeen, Engine,
     Placed, Asking, Formed, RunState, EngineState, WorkLabels, SaveLabels
<1> QED
  BY <1>1, <1>2, <1>3 DEF ToolsInside

LEMMA HandleTools ==
    ASSUME Base, ToolsGuarded, pc # "idle", NEW kind, NEW r \in RunState, NEW claim,
           r.init = run.init, r.safety \in {run.safety, "never"},
           Handle(kind, r, claim), ran' = ran \/ pc = "tools"
    PROVE  ToolsInside'
<1> TypeOK /\ Placed /\ Formed(eng) /\ Begun /\ ToolsInMemory
  BY DEF Base, Sound, ToolsGuarded
<1>1. CASE kind = "cancelled" /\ ~canWrite
  BY <1>1 DEF Handle, Leave, ToolsInside, Begun, ToolsInMemory, OutcomesSeen, Asking,
     WorkLabels, SaveLabels
<1>2. CASE ~(kind = "cancelled" /\ ~canWrite)
  <2>1. /\ run' = [r EXCEPT !.init = @ /\ pc # "save1"]
        /\ eng' = IF pc = "save0" THEN NoEngine ELSE eng
        /\ pc' \in {"persist", "tell"} /\ canWrite' = canWrite
    BY <1>2 DEF Handle, Goto
  <2>2. run'.safety = r.safety /\ (run'.init <=> r.init /\ pc # "save1")
    BY <2>1 DEF RunState
  <2>3. Begun' /\ OutcomesSeen'
    BY <2>1 DEF Begun, OutcomesSeen, Asking, WorkLabels, SaveLabels
  <2>4. CASE pc = "tools"
    <3>1. eng' = eng /\ run.safety = "manual" /\ run.init /\ eng.phase = "act"
      BY <2>1, <2>4 DEF Begun, Placed, WorkLabels
    <3> QED
      BY <2>1, <2>2, <2>3, <2>4, <3>1 DEF ToolsInside, ToolsInMemory, Blocked, Asking
  <2>5. CASE pc # "tools"
    <3>1. ran' = ran /\ (pc = "save0" => eng.resp = 0 /\ eng.phase # "none")
      BY <2>5 DEF Placed, Formed
    <3>2. ToolsInMemory'
      BY <2>1, <2>2, <3>1 DEF ToolsInMemory, Blocked, Asking, NoEngine
    <3> QED
      BY <2>3, <3>2 DEF ToolsInside
  <2> QED
    BY <2>4, <2>5
<1> QED
  BY <1>1, <1>2

LEMMA EndingTools ==
    ASSUME Base, ToolsGuarded, pc # "idle", Effect,
           \/ Fails
           \/ GuardTrips
           \/ Handle("failed", run, FALSE)
           \/ Handle("cancelled", run, FALSE)
    PROVE  ToolsInside'
<1>1. run \in RunState /\ (ran' = ran \/ pc = "tools")
  BY DEF Base, Sound, TypeOK, Effect, world
<1>2. CASE Fails \/ Handle("failed", run, FALSE) \/ Handle("cancelled", run, FALSE)
  BY <1>1, <1>2, HandleTools DEF Fails
<1>3. CASE GuardTrips
  <2> DEFINE r == [run EXCEPT !.safety = "never"]
  <2>1. r \in RunState /\ r.safety = "never" /\ r.init = run.init
    BY <1>1, TrippedRun
  <2> HIDE DEF r
  <2>2. Handle("failed", r, FALSE)
    BY <1>3 DEF GuardTrips, r
  <2> QED
    BY <1>1, <2>1, <2>2, HandleTools
<1> QED
  BY <1>2, <1>3

LEMMA StartEngineTools ==
    ASSUME Base, ToolsGuarded, StartEngine, ~Handle("failed", run, FALSE)
    PROVE  ToolsInside'
<1> TypeOK /\ Placed /\ Formed(last) /\ Begun /\ ToolsInMemory /\ OutcomesSeen
  BY DEF Base, Sound, ToolsGuarded
<1>1. /\ pc = "start" /\ eng = NoEngine /\ seen = 0 /\ Blocked(run, last)
      /\ UNCHANGED <<run, last, seen, call, ran>>
      /\ \/ /\ ~run.init /\ pc' = "save0" /\ eng'.phase = "act" /\ eng'.resp = 0
            /\ canWrite' = canWrite
         \/ /\ run.init /\ pc' = "execute" /\ eng' = last /\ last.phase # "none"
  BY DEF StartEngine, Placed, Begun, ToolsInMemory, Goto, NoEngine, world
<1>2. call' = "model"
  BY <1>1 DEF Placed, Asking, WorkLabels
<1>3. Begun'
  BY <1>1 DEF Begun, Asking, WorkLabels, SaveLabels
<1>4. ToolsInMemory'
  BY <1>1 DEF ToolsInMemory, Blocked, Asking
<1>5. OutcomesSeen'
  BY <1>1 DEF OutcomesSeen, ToolsInMemory, Engine, NoEngine, WorkLabels
<1> QED
  BY <1>3, <1>4, <1>5 DEF ToolsInside

LEMMA IdleTools ==
    ASSUME Base, ToolsGuarded, Launch \/ SetupFails \/ Resume \/ RefuseResume
    PROVE  ToolsInside'
<1> TypeOK /\ Placed /\ ToolsOnDisk
  BY DEF Base, Sound, ToolsGuarded
<1>1. /\ pc = "idle" /\ eng = NoEngine /\ seen = 0 /\ UNCHANGED <<eng, seen, ran, call>>
      /\ starts = 0 => ran = 0
      /\ \/ pc' = "idle"
         \/ pc' = "skills" /\ starts = 0
         \/ /\ pc' = "skills" /\ ~canWrite'
            /\ \E d \in disk : run' = d.run /\ last' = d.eng /\ d.run.safety = "resumable"
  BY DEF Launch, SetupFails, Resume, RefuseResume, Goto, world, memory, Placed
<1>2. CASE pc' = "idle"
  BY <1>2 DEF ToolsInside, Begun, ToolsInMemory, OutcomesSeen, Asking, WorkLabels, SaveLabels
<1>3. CASE pc' = "skills" /\ starts = 0
  BY <1>1, <1>3
  DEF ToolsInside, Begun, ToolsInMemory, OutcomesSeen, Blocked, Asking, NoEngine
<1>4. CASE /\ pc' = "skills" /\ ~canWrite'
           /\ \E d \in disk : run' = d.run /\ last' = d.eng /\ d.run.safety = "resumable"
  <2>1. /\ Blocked(run', last') /\ (~run'.init => ran' = 0) /\ run'.safety = "resumable"
        /\ ran' = ran
    BY <1>1, <1>4 DEF ToolsOnDisk, Blocked
  <2> QED
    BY <1>1, <1>4, <2>1
    DEF ToolsInside, Begun, ToolsInMemory, OutcomesSeen, Blocked, Asking, NoEngine, Engine
<1> QED
  BY <1>1, <1>2, <1>3, <1>4

LEMMA LeavingTools ==
    ASSUME Base, ToolsGuarded, Keep \/ Tell \/ KeepAgain \/ Deliver \/ Crash
    PROVE  ToolsInside'
<1> ToolsInMemory /\ pc # "idle"
  BY DEF ToolsGuarded, Keep, Tell, KeepAgain, Deliver, Crash
<1>1. \/ pc' = "idle"
      \/ pc' \in EndLabels /\ UNCHANGED <<run, eng, canWrite, ran>>
  BY DEF Keep, Tell, KeepAgain, Deliver, Crash, Leave, Goto, EndLabels, memory, world
<1> QED
  BY <1>1 DEF ToolsInside, Begun, ToolsInMemory, OutcomesSeen, Blocked, Asking, WorkLabels,
     SaveLabels, EndLabels
(* What a step leaves on disk. *)
LEMMA NextTools ==
    ASSUME Base, ToolsGuarded, Next
    PROVE  ToolsOnDisk'
<1> TypeOK /\ Placed /\ Ended /\ ToolsOnDisk /\ Begun /\ ToolsInMemory
  BY DEF Base, Sound, ToolsGuarded
<1>1. CASE UNCHANGED <<disk, ran>> /\ pc' # "tools"
  BY <1>1 DEF ToolsOnDisk, Blocked
<1>2. CASE pc' = "tools"
  <2>1. pc = "save_intent" /\ disk' = Saved(last) /\ ran' = ran /\ run.init /\ run.safety = "manual"
    <3>1. Checkpoint
      <4>1. /\ ~Leave /\ ~Fails /\ ~GuardTrips /\ ~Outcome("completed") /\ ~Outcome("failed")
            /\ ~Handle("failed", run, FALSE) /\ ~Handle("cancelled", run, FALSE)
        BY <1>2 DEF Leave, Fails, GuardTrips, Handle, Outcome, Goto
      <4>2. pc \in {"save_reserve", "provider"} => AfterCall # "tools"
        BY DEF AfterCall, TypeOK, Placed, EndLabels
      <4>3. pc # "idle"
        BY <1>2, NextEffect DEF Launch, SetupFails, Resume, RefuseResume, Goto
      <4>4. ~SelectSkills /\ ~StartEngine /\ ~CheckpointAborted /\ ~Reserve /\ ~Respond
        BY <1>2, <4>1, <4>2
        DEF SelectSkills, StartEngine, CheckpointAborted, Reserve, Respond, Goto
      <4>5. ~RetryCall /\ ~NoProgress /\ ~SkipSummary /\ ~Execute /\ ~Turn /\ ~Prepare
        BY <1>2, <4>1, <4>2
        DEF RetryCall, NoProgress, SkipSummary, Execute, Turn, Prepare, memory, Goto
      <4>6. /\ ~DecideFinish /\ ~DecideCustom /\ ~DecideFail /\ ~DecideContinue /\ ~DecideTools
            /\ ~Intent /\ ~RunTools /\ ~ToolsFail
        BY <1>2, <4>1 DEF DecideFinish, DecideCustom, DecideFail, DecideContinue, DecideTools,
           Intent, RunTools, ToolsFail, Goto
      <4>7. ~Decode /\ ~Finalize /\ ~Publish /\ ~Persist /\ ~Emit /\ ~Show /\ ~Retire
        BY <1>2, <4>1 DEF Decode, Finalize, Publish, Persist, Emit, Show, Retire, Goto
      <4>8. /\ ~PersistSafely /\ ~Keep /\ ~Tell /\ ~KeepAgain /\ ~Deliver /\ ~Cancel /\ ~Raise
            /\ ~Crash
        BY <1>2, <4>1
        DEF PersistSafely, Keep, Tell, KeepAgain, Deliver, Cancel, Raise, Crash, Goto
      <4> QED
        BY <4>3, <4>4, <4>5, <4>6, <4>7, <4>8
        DEF Next, Launch, SetupFails, Resume, RefuseResume
    <3>2. pc = "save_intent"
      BY <1>2, <3>1, AfterSaveIs DEF Checkpoint, SaveLabels, Goto
    <3> QED
      BY <3>1, <3>2 DEF Checkpoint, Snapshot, Begun, Placed, WorkLabels, SaveLabels
  <2> QED
    BY <2>1 DEF ToolsOnDisk, Saved, Blocked
<1>3. CASE pc' # "tools" /\ ~(UNCHANGED <<disk, ran>>)
  <2>1. pc # "idle" /\ Effect
    BY <1>3, NextEffect DEF world
  <2>2. CASE pc = "tools" /\ UNCHANGED disk
    BY <1>3, <2>2 DEF ToolsOnDisk, Blocked
  <2>3. CASE disk' = {}
    BY <1>3, <2>3 DEF ToolsOnDisk
  <2>4. CASE /\ pc \in SaveLabels \cup {"retire", "keep", "keep2"}
             /\ disk' = Saved(Snapshot) /\ ran' = ran
    <3>1. Blocked(run, Snapshot)
      BY <2>4
      DEF Snapshot, ToolsInMemory, Placed, Ended, Asking, SaveLabels
    <3> QED
      BY <1>3, <2>1, <2>4, <3>1 DEF ToolsOnDisk, ToolsInMemory, Saved, Blocked
  <2> QED
    BY <1>3, <2>1, <2>2, <2>3, <2>4 DEF Effect, world
<1> QED
  BY <1>1, <1>2, <1>3

LEMMA ToolsInvariant ==
    ASSUME "continue" \notin Decisions
    PROVE  Spec => []ToolsGuarded
<1>1. Init => ToolsGuarded
  BY DEF Init, ToolsGuarded, ToolsOnDisk, Begun, ToolsInMemory, OutcomesSeen, Asking,
     WorkLabels, SaveLabels
<1>2. ASSUME Base, ToolsGuarded, [Next]_vars
      PROVE  ToolsGuarded'
  <2>1. CASE UNCHANGED vars
    BY <1>2, <2>1 DEF vars, world, memory, ToolsGuarded, ToolsOnDisk, Begun, ToolsInMemory,
       OutcomesSeen, Asking, Blocked, Engine
  <2>2. CASE Next
    <3> SUFFICES ToolsInside'
      BY <1>2, <2>2, NextTools DEF ToolsGuarded, ToolsInside
    <3>1. CASE Launch \/ SetupFails \/ Resume \/ RefuseResume
      BY <1>2, <3>1, IdleTools
    <3>2. CASE Keep \/ Tell \/ KeepAgain \/ Deliver \/ Crash
      BY <1>2, <3>2, LeavingTools
    <3>3. CASE \/ Fails
               \/ GuardTrips
               \/ Handle("failed", run, FALSE)
               \/ Handle("cancelled", run, FALSE)
      <4>1. CASE pc # "idle"
        BY <1>2, <2>2, <3>3, <4>1, NextEffect, EndingTools
      <4>2. CASE pc = "idle"
        BY <1>2, <2>2, <4>2, NextEffect, IdleTools
      <4> QED
        BY <4>1, <4>2
    <3>4. CASE Reserve \/ Execute \/ Persist \/ StartEngine
      <4>1. Reserve => Fails \/ GuardTrips \/ (call # "barred" /\ run.guard < MaxModelTurns)
        BY DEF Reserve
      <4>2. eng.phase = "done" /\ eng.resp = 0 /\ Execute => Fails
        BY DEF Execute
      <4>3. Conflict /\ Persist => Fails
        BY DEF Persist
      <4> QED
        BY <1>2, <3>3, <3>4, <4>1, <4>2, <4>3, ReserveTools, ExecuteTools, PersistTools,
           StartEngineTools
    <3>5. CASE CheckpointAborted \/ NoProgress \/ Cancel \/ Raise
      BY <3>3, <3>5 DEF CheckpointAborted, NoProgress, Cancel, Raise
    <3>6. CASE DecideContinue
      BY <3>6 DEF DecideContinue
    <3> QED
      BY <1>2, <2>2, <3>1, <3>2, <3>4, <3>5, <3>6, SelectSkillsTools, CheckpointTools,
         RespondTools, RetryCallTools, SkipSummaryTools, TurnTools, PrepareTools,
         DecideFinishTools, DecideCustomTools, DecideFailTools, DecideToolsTools, IntentTools,
         RunToolsTools, ToolsFailTools, DecodeTools, FinalizeTools, PublishTools, EmitTools,
         ShowTools, RetireTools, PersistSafelyTools DEF Next
  <2> QED
    BY <1>2, <2>1, <2>2
<1> QED
  BY <1>1, <1>2, BaseInvariant, PTL DEF Spec

(* As long as no CONTINUE decision follows tools, no checkpoint of a run    *)
(* with executed tools and no recorded answer may be resumed, and the model *)
(* is never asked without the outcomes of all tools that the run executed,  *)
(* wherever it was interrupted and however often it was resumed             *)
(* (execute_tool_batch, _record_final_response).                            *)
THEOREM ToolsAreNotForgotten ==
    ASSUME "continue" \notin Decisions
    PROVE  Spec => [](ToolsBlockResume /\ ModelSeesToolOutcomes)
<1>1. ASSUME Base, ToolsGuarded
      PROVE  ToolsBlockResume /\ ModelSeesToolOutcomes
  <2>1. ToolsBlockResume
    BY <1>1 DEF ToolsGuarded, ToolsOnDisk, Blocked, ToolsBlockResume
  <2>2. ASSUME pc = "provider", call = "model"
        PROVE  seen = ran
    <3>1. Placed /\ OutcomesSeen
      BY <1>1 DEF Base, Sound, ToolsGuarded
    <3> QED
      BY <2>2, <3>1 DEF Placed, Asking, OutcomesSeen, Engine, WorkLabels
  <2> QED
    BY <2>1, <2>2 DEF ModelSeesToolOutcomes
<1> QED
  BY <1>1, BaseInvariant, ToolsInvariant, PTL

-----------------------------------------------------------------------------
(* Resumable checkpoints, when no memory summary is asked for before the    *)
(* turn is saved.                                                           *)
Matches(r, e) ==
    r.init /\ r.safety = "resumable" =>
        /\ e.phase # "none"
        /\ r.step = e.turn /\ r.tools = e.tools
        /\ e.phase = "done" => e.resp # 0

(* The last snapshot fits the run wherever it may be saved again. *)
Resaved ==
    /\ pc # "idle" /\ eng.phase = "none" => Matches(run, last)
    /\ Asking => Matches(run, last)
    /\ pc = "prepare" /\ eng.phase = "finalize" => Matches(run, last)
    /\ pc = "save_intent" => run.safety = "manual"

InStep ==
    /\ pc = "save0" => ~run.init
    /\ pc # "idle" /\ eng.phase = "none" /\ canWrite => ~run.init
    /\ pc # "idle" /\ eng.phase # "none" =>
          run.step = eng.turn /\ run.tools = eng.tools /\ Matches(run, eng)
    /\ call # "summary"

Fitting == \A d \in disk : Matches(d.run, d.eng)

Acceptable == Fitting /\ InStep /\ Resaved

LEMMA SelectSkillsFits == ASSUME Base, Acceptable, SelectSkills PROVE InStep' /\ Resaved'
<1> TypeOK /\ Placed /\ Formed(eng) /\ Formed(last) /\ InStep /\ Resaved
    /\ run \in RunState /\ eng \in EngineState
  BY DEF Base, Sound, TypeOK, Acceptable
<1>1. InStep'
  BY OutcomeEnds DEF SelectSkills, Goto, InStep, Matches, Placed, Asking, NoEngine, Formed,
     RunState, EngineState, rest, world, WorkLabels, SaveLabels
<1>2. Resaved'
  BY OutcomeEnds DEF SelectSkills, Goto, InStep, Resaved, Matches, Placed, Asking, NoEngine,
     Formed, RunState, EngineState, rest, world, WorkLabels, SaveLabels
<1> QED
  BY <1>1, <1>2

LEMMA CheckpointFits == ASSUME Base, Acceptable, Checkpoint PROVE InStep' /\ Resaved'
<1> TypeOK /\ Placed /\ Formed(eng) /\ Formed(last) /\ InStep /\ Resaved
    /\ run \in RunState /\ eng \in EngineState
  BY DEF Base, Sound, TypeOK, Acceptable
<1>1. InStep'
  BY OutcomeEnds DEF Checkpoint, Goto, AfterSave, Snapshot, InStep, Matches, Placed, Asking,
     Formed, RunState, EngineState, rest, WorkLabels, SaveLabels
<1>2. Resaved'
  BY OutcomeEnds DEF Checkpoint, Goto, AfterSave, Snapshot, InStep, Resaved, Matches, Placed,
     Asking, Formed, RunState, EngineState, rest, WorkLabels, SaveLabels
<1> QED
  BY <1>1, <1>2

LEMMA ReserveFits ==
    ASSUME Base, Acceptable, Reserve, call # "barred", run.guard < MaxModelTurns
    PROVE  InStep' /\ Resaved'
<1> TypeOK /\ Placed /\ Formed(eng) /\ Formed(last) /\ InStep /\ Resaved
    /\ run \in RunState /\ eng \in EngineState
  BY DEF Base, Sound, TypeOK, Acceptable
<1>1. InStep'
  BY OutcomeEnds DEF Reserve, Goto, InStep, Matches, Placed, Asking, Formed, RunState,
     EngineState, rest, world, WorkLabels, SaveLabels
<1>2. Resaved'
  BY OutcomeEnds DEF Reserve, Goto, InStep, Resaved, Matches, Placed, Asking, Formed, RunState,
     EngineState, rest, world, WorkLabels, SaveLabels
<1> QED
  BY <1>1, <1>2

LEMMA RespondFits == ASSUME Base, Acceptable, Respond PROVE InStep' /\ Resaved'
<1> TypeOK /\ Placed /\ Formed(eng) /\ Formed(last) /\ InStep /\ Resaved
    /\ run \in RunState /\ eng \in EngineState
  BY DEF Base, Sound, TypeOK, Acceptable
<1>1. InStep'
  BY RespondLeads DEF Respond, Goto, InStep, Matches, Placed, Asking, Formed, RunState,
     EngineState, rest, WorkLabels, SaveLabels
<1>2. Resaved'
  BY RespondLeads DEF Respond, Goto, InStep, Resaved, Matches, Placed, Asking, Formed, RunState,
     EngineState, rest, WorkLabels, SaveLabels
<1> QED
  BY <1>1, <1>2

LEMMA RetryCallFits == ASSUME Base, Acceptable, RetryCall PROVE InStep' /\ Resaved'
<1> TypeOK /\ Placed /\ Formed(eng) /\ Formed(last) /\ InStep /\ Resaved
    /\ run \in RunState /\ eng \in EngineState
  BY DEF Base, Sound, TypeOK, Acceptable
<1>1. InStep'
  BY OutcomeEnds DEF RetryCall, Goto, InStep, Matches, Placed, Asking, Formed, RunState,
     EngineState, rest, memory, WorkLabels, SaveLabels
<1>2. Resaved'
  BY OutcomeEnds DEF RetryCall, Goto, InStep, Resaved, Matches, Placed, Asking, Formed,
     RunState, EngineState, rest, memory, WorkLabels, SaveLabels
<1> QED
  BY <1>1, <1>2

LEMMA ExecuteFits ==
    ASSUME Base, Acceptable, Execute, ~(eng.phase = "done" /\ eng.resp = 0)
    PROVE  InStep' /\ Resaved'
<1> TypeOK /\ Placed /\ Formed(eng) /\ Formed(last) /\ InStep /\ Resaved
    /\ run \in RunState /\ eng \in EngineState
  BY DEF Base, Sound, TypeOK, Acceptable
<1>1. InStep'
  BY OutcomeEnds DEF Execute, Goto, InStep, Matches, Placed, Asking, Formed, RunState,
     EngineState, rest, world, memory, WorkLabels, SaveLabels
<1>2. Resaved'
  BY OutcomeEnds DEF Execute, Goto, InStep, Resaved, Matches, Placed, Asking, Formed, RunState,
     EngineState, rest, world, memory, WorkLabels, SaveLabels
<1> QED
  BY <1>1, <1>2

LEMMA TurnFits == ASSUME Base, Acceptable, Turn PROVE InStep' /\ Resaved'
<1> TypeOK /\ Placed /\ Formed(eng) /\ Formed(last) /\ InStep /\ Resaved
    /\ run \in RunState /\ eng \in EngineState
  BY DEF Base, Sound, TypeOK, Acceptable
<1>1. InStep'
  <2>1. CASE eng.turn < MaxSteps
    <3>1. /\ run'.step = eng.turn + 1 /\ run'.tools = run.tools /\ run'.safety = run.safety
          /\ run'.init = run.init
      BY <2>1 DEF Turn, RunState
    <3>2. eng'.turn = eng.turn + 1 /\ eng'.tools = eng.tools /\ eng'.phase = "act"
      BY <2>1 DEF Turn, EngineState
    <3>3. pc = "loop" /\ pc' = "prepare" /\ call' = call
      BY <2>1 DEF Turn, Goto
    <3> QED
      BY <3>1, <3>2, <3>3 DEF InStep, Matches, Placed
  <2>2. CASE ~(eng.turn < MaxSteps)
    <3>1. run' = run /\ pc' = "finish" /\ pc = "loop" /\ call' = call
      BY <2>2, OutcomeEnds DEF Turn
    <3>2. eng'.turn = eng.turn /\ eng'.tools = eng.tools /\ eng'.phase = "failed"
      BY <2>2 DEF Turn, EngineState
    <3> QED
      BY <3>1, <3>2 DEF InStep, Matches, Placed
  <2> QED
    BY <2>1, <2>2
<1>2. Resaved'
  <2>1. eng'.phase \in {"act", "failed"}
    BY DEF Turn, EngineState
  <2>2. pc' \in {"prepare", "finish"}
    BY OutcomeEnds DEF Turn, Goto
  <2> QED
    BY <2>1, <2>2 DEF Resaved, Asking
<1> QED
  BY <1>1, <1>2

LEMMA PrepareFits ==
    ASSUME Base, Acceptable, Prepare, "summary" \notin AuxCalls
    PROVE  InStep' /\ Resaved'
<1> TypeOK /\ Placed /\ Formed(eng) /\ Formed(last) /\ InStep /\ Resaved
    /\ run \in RunState /\ eng \in EngineState
  BY DEF Base, Sound, TypeOK, Acceptable
<1>1. InStep'
  BY OutcomeEnds DEF Prepare, Goto, InStep, Matches, Placed, Asking, Formed, RunState,
     EngineState, rest, world, WorkLabels, SaveLabels
<1>2. Resaved'
  BY OutcomeEnds DEF Prepare, Goto, InStep, Resaved, Matches, Placed, Asking, Formed, RunState,
     EngineState, rest, world, WorkLabels, SaveLabels
<1> QED
  BY <1>1, <1>2

LEMMA DecideFinishFits == ASSUME Base, Acceptable, DecideFinish PROVE InStep' /\ Resaved'
<1> TypeOK /\ Placed /\ Formed(eng) /\ Formed(last) /\ InStep /\ Resaved
    /\ run \in RunState /\ eng \in EngineState
  BY DEF Base, Sound, TypeOK, Acceptable
<1>1. InStep'
  BY OutcomeEnds DEF DecideFinish, Goto, InStep, Matches, Placed, Asking, Formed, RunState,
     EngineState, rest, world, WorkLabels, SaveLabels
<1>2. Resaved'
  BY OutcomeEnds DEF DecideFinish, Goto, InStep, Resaved, Matches, Placed, Asking, Formed,
     RunState, EngineState, rest, world, WorkLabels, SaveLabels
<1> QED
  BY <1>1, <1>2

LEMMA DecideCustomFits == ASSUME Base, Acceptable, DecideCustom PROVE InStep' /\ Resaved'
<1> TypeOK /\ Placed /\ Formed(eng) /\ Formed(last) /\ InStep /\ Resaved
    /\ run \in RunState /\ eng \in EngineState
  BY DEF Base, Sound, TypeOK, Acceptable
<1>1. InStep'
  BY OutcomeEnds DEF DecideCustom, InStep, Matches, Placed, Asking, Formed, RunState,
     EngineState, rest, world, WorkLabels, SaveLabels
<1>2. Resaved'
  BY OutcomeEnds DEF DecideCustom, InStep, Resaved, Matches, Placed, Asking, Formed, RunState,
     EngineState, rest, world, WorkLabels, SaveLabels
<1> QED
  BY <1>1, <1>2

LEMMA DecideFailFits == ASSUME Base, Acceptable, DecideFail PROVE InStep' /\ Resaved'
<1> TypeOK /\ Placed /\ Formed(eng) /\ Formed(last) /\ InStep /\ Resaved
    /\ run \in RunState /\ eng \in EngineState
  BY DEF Base, Sound, TypeOK, Acceptable
<1>1. InStep'
  BY OutcomeEnds DEF DecideFail, InStep, Matches, Placed, Asking, Formed, RunState, EngineState,
     rest, world, WorkLabels, SaveLabels
<1>2. Resaved'
  BY OutcomeEnds DEF DecideFail, InStep, Resaved, Matches, Placed, Asking, Formed, RunState,
     EngineState, rest, world, WorkLabels, SaveLabels
<1> QED
  BY <1>1, <1>2

LEMMA DecideToolsFits == ASSUME Base, Acceptable, DecideTools PROVE InStep' /\ Resaved'
<1> TypeOK /\ Placed /\ Formed(eng) /\ Formed(last) /\ InStep /\ Resaved
    /\ run \in RunState /\ eng \in EngineState
  BY DEF Base, Sound, TypeOK, Acceptable
<1>1. InStep'
  BY OutcomeEnds DEF DecideTools, Goto, InStep, Matches, Placed, Asking, Formed, RunState,
     EngineState, rest, world, WorkLabels, SaveLabels
<1>2. Resaved'
  BY OutcomeEnds DEF DecideTools, Goto, InStep, Resaved, Matches, Placed, Asking, Formed,
     RunState, EngineState, rest, world, WorkLabels, SaveLabels
<1> QED
  BY <1>1, <1>2

LEMMA IntentFits == ASSUME Base, Acceptable, Intent PROVE InStep' /\ Resaved'
<1> TypeOK /\ Placed /\ Formed(eng) /\ Formed(last) /\ InStep /\ Resaved
    /\ run \in RunState /\ eng \in EngineState
  BY DEF Base, Sound, TypeOK, Acceptable
<1>1. InStep'
  BY OutcomeEnds DEF Intent, Goto, InStep, Matches, Placed, Asking, Formed, RunState,
     EngineState, rest, world, WorkLabels, SaveLabels
<1>2. Resaved'
  BY OutcomeEnds DEF Intent, Goto, InStep, Resaved, Matches, Placed, Asking, Formed, RunState,
     EngineState, rest, world, WorkLabels, SaveLabels
<1> QED
  BY <1>1, <1>2

LEMMA RunToolsFits == ASSUME Base, Acceptable, RunTools PROVE InStep' /\ Resaved'
<1> TypeOK /\ Placed /\ Formed(eng) /\ Formed(last) /\ InStep /\ Resaved
    /\ run \in RunState /\ eng \in EngineState
  BY DEF Base, Sound, TypeOK, Acceptable
<1>1. InStep'
  BY OutcomeEnds DEF RunTools, Goto, InStep, Matches, Placed, Asking, Formed, RunState,
     EngineState, rest, WorkLabels, SaveLabels
<1>2. Resaved'
  BY OutcomeEnds DEF RunTools, Goto, InStep, Resaved, Matches, Placed, Asking, Formed, RunState,
     EngineState, rest, WorkLabels, SaveLabels
<1> QED
  BY <1>1, <1>2

LEMMA ToolsFailFits == ASSUME Base, Acceptable, ToolsFail PROVE InStep' /\ Resaved'
<1> TypeOK /\ Placed /\ Formed(eng) /\ Formed(last) /\ InStep /\ Resaved
    /\ run \in RunState /\ eng \in EngineState
  BY DEF Base, Sound, TypeOK, Acceptable
<1>1. InStep'
  BY OutcomeEnds DEF ToolsFail, InFlight, Goto, InStep, Matches, Placed, Asking, Formed,
     RunState, EngineState, rest, world, memory, WorkLabels, SaveLabels
<1>2. Resaved'
  BY OutcomeEnds DEF ToolsFail, InFlight, Goto, InStep, Resaved, Matches, Placed, Asking,
     Formed, RunState, EngineState, rest, world, memory, WorkLabels, SaveLabels
<1> QED
  BY <1>1, <1>2

LEMMA DecodeFits == ASSUME Base, Acceptable, Decode PROVE InStep' /\ Resaved'
<1> TypeOK /\ Placed /\ Formed(eng) /\ Formed(last) /\ InStep /\ Resaved
    /\ run \in RunState /\ eng \in EngineState
  BY DEF Base, Sound, TypeOK, Acceptable
<1>1. InStep'
  <2>1. /\ run'.step = run.step /\ run'.tools = run.tools /\ run'.init = run.init
        /\ call' = call /\ canWrite' = canWrite
    BY DEF Decode, RunState
  <2>2. /\ eng'.turn = eng.turn /\ eng'.tools = eng.tools /\ eng'.resp = said
        /\ eng'.phase \in {eng.phase, "done"}
    BY DEF Decode, EngineState
  <2>3. pc = "decode" /\ said # 0 /\ eng.phase \in {"act", "finalize"} /\ pc' # "save0"
    BY OutcomeEnds DEF Decode, Goto, Placed
  <2> QED
    BY <2>1, <2>2, <2>3 DEF InStep, Matches
<1>2. Resaved'
  BY OutcomeEnds DEF Decode, Goto, InStep, Resaved, Matches, Placed, Asking, Formed, RunState,
     EngineState, rest, world, WorkLabels, SaveLabels
<1> QED
  BY <1>1, <1>2

LEMMA FinalizeFits == ASSUME Base, Acceptable, Finalize PROVE InStep' /\ Resaved'
<1> TypeOK /\ Placed /\ Formed(eng) /\ Formed(last) /\ InStep /\ Resaved
    /\ run \in RunState /\ eng \in EngineState
  BY DEF Base, Sound, TypeOK, Acceptable
<1>1. InStep'
  BY OutcomeEnds DEF Finalize, Goto, InStep, Matches, Placed, Asking, Formed, RunState,
     EngineState, rest, world, WorkLabels, SaveLabels
<1>2. Resaved'
  BY OutcomeEnds DEF Finalize, Goto, InStep, Resaved, Matches, Placed, Asking, Formed, RunState,
     EngineState, rest, world, WorkLabels, SaveLabels
<1> QED
  BY <1>1, <1>2

LEMMA PublishFits == ASSUME Base, Acceptable, Publish PROVE InStep' /\ Resaved'
<1> TypeOK /\ Placed /\ Formed(eng) /\ Formed(last) /\ InStep /\ Resaved
    /\ run \in RunState /\ eng \in EngineState
  BY DEF Base, Sound, TypeOK, Acceptable
<1>1. InStep'
  BY OutcomeEnds DEF Publish, Goto, InStep, Matches, Placed, Asking, Formed, RunState,
     EngineState, rest, world, WorkLabels, SaveLabels
<1>2. Resaved'
  BY OutcomeEnds DEF Publish, Goto, InStep, Resaved, Matches, Placed, Asking, Formed, RunState,
     EngineState, rest, world, WorkLabels, SaveLabels
<1> QED
  BY <1>1, <1>2

LEMMA PersistFits == ASSUME Base, Acceptable, Persist, ~Conflict PROVE InStep' /\ Resaved'
<1> TypeOK /\ Placed /\ Formed(eng) /\ Formed(last) /\ InStep /\ Resaved
    /\ run \in RunState /\ eng \in EngineState
  BY DEF Base, Sound, TypeOK, Acceptable
<1>1. InStep'
  <2>1. /\ run'.step = run.step /\ run'.tools = run.tools /\ run'.init = run.init
        /\ run'.safety = run.safety /\ call' = call /\ canWrite' = canWrite
    BY DEF Persist, BatchDone, RunState
  <2>2. /\ eng'.turn = eng.turn /\ eng'.tools = eng.tools /\ eng'.resp = eng.resp
        /\ eng'.phase = eng.phase
    BY DEF Persist, EngineState
  <2>3. pc \in {"store", "finish"} /\ pc' # "save0"
    BY DEF Persist, Goto
  <2> QED
    BY <2>1, <2>2, <2>3 DEF InStep, Matches
<1>2. Resaved'
  BY OutcomeEnds DEF Persist, Goto, BatchDone, InStep, Resaved, Matches, Placed, Asking, Formed,
     RunState, EngineState, WorkLabels, SaveLabels
<1> QED
  BY <1>1, <1>2

LEMMA EmitFits == ASSUME Base, Acceptable, Emit PROVE InStep' /\ Resaved'
<1> TypeOK /\ Placed /\ Formed(eng) /\ Formed(last) /\ InStep /\ Resaved
    /\ run \in RunState /\ eng \in EngineState
  BY DEF Base, Sound, TypeOK, Acceptable
<1>1. InStep'
  <2>1. pc = "emit" /\ UNCHANGED <<run, call, canWrite>> /\ pc' # "save0"
    BY OutcomeEnds DEF Emit, Goto
  <2>2. /\ eng'.turn = eng.turn /\ eng'.tools = eng.tools /\ eng'.resp = eng.resp
        /\ eng'.phase \in {eng.phase, "done"}
    BY DEF Emit, EngineState
  <2>3. eng.phase = "finalize" /\ eng.resp # 0
    BY <2>1 DEF Placed
  <2> QED
    BY <2>1, <2>2, <2>3 DEF InStep, Matches
<1>2. Resaved'
  BY OutcomeEnds DEF Emit, Goto, InStep, Resaved, Matches, Placed, Asking, Formed, RunState,
     EngineState, rest, world, WorkLabels, SaveLabels
<1> QED
  BY <1>1, <1>2

LEMMA ShowFits == ASSUME Base, Acceptable, Show PROVE InStep' /\ Resaved'
<1> TypeOK /\ Placed /\ Formed(eng) /\ Formed(last) /\ InStep /\ Resaved
    /\ run \in RunState /\ eng \in EngineState
  BY DEF Base, Sound, TypeOK, Acceptable
<1>1. InStep'
  BY OutcomeEnds DEF Show, InStep, Matches, Placed, Asking, Formed, RunState, EngineState, rest,
     WorkLabels, SaveLabels
<1>2. Resaved'
  BY OutcomeEnds DEF Show, InStep, Resaved, Matches, Placed, Asking, Formed, RunState,
     EngineState, rest, WorkLabels, SaveLabels
<1> QED
  BY <1>1, <1>2

LEMMA RetireFits == ASSUME Base, Acceptable, Retire PROVE InStep' /\ Resaved'
<1> TypeOK /\ Placed /\ Formed(eng) /\ Formed(last) /\ InStep /\ Resaved
    /\ run \in RunState /\ eng \in EngineState
  BY DEF Base, Sound, TypeOK, Acceptable
<1>1. InStep'
  BY OutcomeEnds DEF Retire, SaveSafely, Goto, InStep, Matches, Placed, Asking, Formed,
     RunState, EngineState, rest, memory, WorkLabels, SaveLabels
<1>2. Resaved'
  BY OutcomeEnds DEF Retire, SaveSafely, Goto, InStep, Resaved, Matches, Placed, Asking, Formed,
     RunState, EngineState, rest, memory, WorkLabels, SaveLabels
<1> QED
  BY <1>1, <1>2

LEMMA PersistSafelyFits == ASSUME Base, Acceptable, PersistSafely PROVE InStep' /\ Resaved'
<1> TypeOK /\ Placed /\ Formed(eng) /\ Formed(last) /\ InStep /\ Resaved
    /\ run \in RunState /\ eng \in EngineState
  BY DEF Base, Sound, TypeOK, Acceptable
<1>1. InStep'
  BY OutcomeEnds DEF PersistSafely, BatchDone, Goto, InStep, Matches, Placed, Asking, Formed,
     RunState, EngineState, WorkLabels, SaveLabels
<1>2. Resaved'
  <2>1. /\ run'.init = run.init /\ run'.safety = run.safety
        /\ run'.step = run.step /\ run'.tools = run.tools
    BY DEF PersistSafely, BatchDone, RunState
  <2>2. pc = "persist" /\ pc' = "keep" /\ UNCHANGED <<eng, last>>
    BY DEF PersistSafely, Goto
  <2> QED
    BY <2>1, <2>2 DEF Resaved, Matches, Asking
<1> QED
  BY <1>1, <1>2

LEMMA DecideContinueFits == ASSUME Base, Acceptable, DecideContinue PROVE InStep' /\ Resaved'
<1> TypeOK /\ Placed /\ Formed(eng) /\ Formed(last) /\ InStep /\ Resaved
    /\ run \in RunState /\ eng \in EngineState
  BY DEF Base, Sound, TypeOK, Acceptable
<1>1. InStep'
  BY OutcomeEnds DEF DecideContinue, Goto, InStep, Matches, Placed, Asking, Formed, RunState,
     EngineState, rest, world, WorkLabels, SaveLabels
<1>2. Resaved'
  BY OutcomeEnds DEF DecideContinue, Goto, InStep, Resaved, Matches, Placed, Asking, Formed,
     RunState, EngineState, rest, world, WorkLabels, SaveLabels
<1> QED
  BY <1>1, <1>2

LEMMA HandleFits ==
    ASSUME Base, Acceptable, pc # "idle", NEW kind, NEW r \in RunState, NEW claim,
           r.init = run.init, r.step = run.step, r.tools = run.tools,
           r.safety \in {run.safety, "never"}, Handle(kind, r, claim)
    PROVE  InStep' /\ Resaved'
<1> TypeOK /\ Placed /\ Formed(eng) /\ InStep /\ Resaved
  BY DEF Base, Sound, Acceptable
<1>1. CASE kind = "cancelled" /\ ~canWrite
  BY <1>1 DEF Handle, Leave, InStep, Resaved, Asking
<1>2. CASE ~(kind = "cancelled" /\ ~canWrite)
  <2>1. /\ run' = [r EXCEPT !.init = @ /\ pc # "save1"]
        /\ eng' = IF pc = "save0" THEN NoEngine ELSE eng
        /\ pc' \in {"persist", "tell"} /\ UNCHANGED <<canWrite, last, call>>
    BY <1>2 DEF Handle, Goto
  <2>2. /\ run'.safety = r.safety /\ (run'.init => run.init)
        /\ run'.step = r.step /\ run'.tools = r.tools
    BY <2>1 DEF RunState
  <2> QED
    BY <2>1, <2>2 DEF InStep, Resaved, Matches, Asking, NoEngine
<1> QED
  BY <1>1, <1>2

LEMMA EndingFits ==
    ASSUME Base, Acceptable, pc # "idle",
           \/ Fails
           \/ GuardTrips
           \/ Handle("failed", run, FALSE)
           \/ Handle("cancelled", run, FALSE)
    PROVE  InStep' /\ Resaved'
<1>1. run \in RunState
  BY DEF Base, Sound, TypeOK
<1>2. CASE Fails \/ Handle("failed", run, FALSE) \/ Handle("cancelled", run, FALSE)
  BY <1>1, <1>2, HandleFits DEF Fails
<1>3. CASE GuardTrips
  <2> DEFINE r == [run EXCEPT !.safety = "never"]
  <2>1. r \in RunState
    BY <1>1, TrippedRun
  <2>2. /\ r.safety = "never" /\ r.init = run.init
        /\ r.step = run.step /\ r.tools = run.tools
    BY <1>1, TrippedRun
  <2> HIDE DEF r
  <2>3. Handle("failed", r, FALSE)
    BY <1>3 DEF GuardTrips, r
  <2> QED
    BY <1>1, <2>1, <2>2, <2>3, HandleFits
<1> QED
  BY <1>2, <1>3

LEMMA StartEngineFits ==
    ASSUME Base, Acceptable, StartEngine, ~Handle("failed", run, FALSE)
    PROVE  InStep' /\ Resaved'
<1> TypeOK /\ Placed /\ InStep /\ Resaved
  BY DEF Base, Sound, Acceptable
<1>1. pc = "start" /\ eng = NoEngine /\ Matches(run, last)
  BY DEF StartEngine, Placed, Resaved, NoEngine
<1>2. CASE run.init
  <2>1. /\ pc' = "execute" /\ eng' = last /\ last.phase # "none"
        /\ run.step = last.turn /\ run.tools = last.tools
        /\ UNCHANGED <<run, last, call>>
    BY <1>2 DEF StartEngine, Goto, Compatible
  <2> QED
    BY <1>1, <2>1 DEF InStep, Resaved, Matches, Asking
<1>3. CASE ~run.init
  <2>1. /\ eng' = [NoEngine EXCEPT !.phase = "act", !.turn = run.step, !.tools = run.tools]
        /\ pc' = "save0" /\ UNCHANGED <<run, last, call>>
    BY <1>3 DEF StartEngine, Goto
  <2>2. eng'.phase = "act" /\ eng'.turn = run.step /\ eng'.tools = run.tools
    BY <2>1 DEF NoEngine
  <2> QED
    BY <1>1, <1>3, <2>1, <2>2 DEF InStep, Resaved, Matches, Asking
<1> QED
  BY <1>2, <1>3

LEMMA IdleFits ==
    ASSUME Base, Acceptable, Launch \/ SetupFails \/ Resume \/ RefuseResume
    PROVE  InStep' /\ Resaved'
<1> Placed /\ Fitting /\ InStep
  BY DEF Base, Sound, Acceptable
<1>1. /\ pc = "idle" /\ eng' = NoEngine /\ call' = call
      /\ \/ pc' = "idle"
         \/ pc' = "skills" /\ run' = FreshRun
         \/ /\ pc' = "skills" /\ ~canWrite'
            /\ \E d \in disk : run' = d.run /\ last' = d.eng
  BY DEF Launch, SetupFails, Resume, RefuseResume, Goto, memory, Placed
<1> QED
  BY <1>1 DEF InStep, Resaved, Fitting, Matches, Asking, NoEngine, FreshRun

LEMMA LeavingFits ==
    ASSUME Base, Acceptable, Keep \/ Tell \/ KeepAgain \/ Deliver \/ Crash
    PROVE  InStep' /\ Resaved'
<1> InStep /\ Resaved /\ pc # "idle"
  BY DEF Acceptable, Keep, Tell, KeepAgain, Deliver, Crash
<1>1. \/ pc' = "idle" /\ call' = "model"
      \/ pc' \in EndLabels /\ UNCHANGED <<run, eng, last, canWrite, call>>
  BY DEF Keep, Tell, KeepAgain, Deliver, Crash, Leave, Goto, EndLabels, memory
<1> QED
  BY <1>1 DEF InStep, Resaved, Matches, Asking, EndLabels

LEMMA NextFits ==
    ASSUME Base, Acceptable, Next
    PROVE  Fitting'
<1> Placed /\ Ended /\ Fitting /\ InStep /\ Resaved
  BY DEF Base, Sound, Acceptable
<1>1. CASE disk' \in {disk, {}}
  BY <1>1 DEF Fitting
<1>2. CASE /\ pc \in SaveLabels \cup {"retire", "keep", "keep2"}
           /\ disk' = Saved(Snapshot)
  <2>1. Matches(run, Snapshot)
    BY <1>2 DEF Snapshot, InStep, Resaved, Matches, Placed, Ended, Asking, SaveLabels
  <2> QED
    BY <1>2, <2>1 DEF Fitting, Saved
<1> QED
  BY <1>1, <1>2, NextEffect DEF Effect, world

LEMMA FitsInvariant ==
    ASSUME "summary" \notin AuxCalls
    PROVE  Spec => []Acceptable
<1>1. Init => Acceptable
  BY DEF Init, Acceptable, Fitting, InStep, Resaved, Asking
<1>2. ASSUME Base, Acceptable, [Next]_vars
      PROVE  Acceptable'
  <2>1. CASE UNCHANGED vars
    BY <1>2, <2>1 DEF vars, world, memory, Acceptable, Fitting, InStep, Resaved, Matches, Asking
  <2>2. CASE Next
    <3> SUFFICES InStep' /\ Resaved'
      BY <1>2, <2>2, NextFits DEF Acceptable
    <3>1. CASE Launch \/ SetupFails \/ Resume \/ RefuseResume
      BY <1>2, <3>1, IdleFits
    <3>2. CASE Keep \/ Tell \/ KeepAgain \/ Deliver \/ Crash
      BY <1>2, <3>2, LeavingFits
    <3>3. CASE \/ Fails
               \/ GuardTrips
               \/ Handle("failed", run, FALSE)
               \/ Handle("cancelled", run, FALSE)
      <4>1. CASE pc # "idle"
        BY <1>2, <3>3, <4>1, EndingFits
      <4>2. CASE pc = "idle"
        BY <1>2, <2>2, <4>2, NextEffect, IdleFits
      <4> QED
        BY <4>1, <4>2
    <3>4. CASE Reserve \/ Execute \/ Persist \/ StartEngine
      <4>1. Reserve => Fails \/ GuardTrips \/ (call # "barred" /\ run.guard < MaxModelTurns)
        BY DEF Reserve
      <4>2. eng.phase = "done" /\ eng.resp = 0 /\ Execute => Fails
        BY DEF Execute
      <4>3. Conflict /\ Persist => Fails
        BY DEF Persist
      <4> QED
        BY <1>2, <3>3, <3>4, <4>1, <4>2, <4>3, ReserveFits, ExecuteFits, PersistFits,
           StartEngineFits
    <3>5. CASE CheckpointAborted \/ NoProgress \/ Cancel \/ Raise
      BY <3>3, <3>5 DEF CheckpointAborted, NoProgress, Cancel, Raise
    <3>6. CASE SkipSummary
      BY <1>2, <3>6 DEF SkipSummary, Acceptable, InStep
    <3> QED
      BY <1>2, <2>2, <3>1, <3>2, <3>4, <3>5, <3>6, SelectSkillsFits, CheckpointFits,
         RespondFits, RetryCallFits, TurnFits, PrepareFits, DecideFinishFits, DecideCustomFits,
         DecideFailFits, DecideContinueFits, DecideToolsFits, IntentFits, RunToolsFits,
         ToolsFailFits, DecodeFits, FinalizeFits, PublishFits, EmitFits, ShowFits, RetireFits,
         PersistSafelyFits
      DEF Next
  <2> QED
    BY <1>2, <2>1, <2>2
<1> QED
  BY <1>1, <1>2, BaseInvariant, PTL DEF Spec

(* As long as no memory summary is asked for, every checkpoint that says it *)
(* is resumable is accepted by validate_resume and can be continued.        *)
THEOREM ResumableCheckpointsFit ==
    ASSUME "summary" \notin AuxCalls
    PROVE  Spec => []ResumableIsAccepted
<1>1. Acceptable => ResumableIsAccepted
  BY DEF Acceptable, Fitting, Matches, ResumableIsAccepted
<1> QED
  BY <1>1, FitsInvariant, PTL

-----------------------------------------------------------------------------
(* The input and the answer. *)
InLog(l, x) == \E b \in 1..Len(l) : \E i \in 1..Len(l[b]) : l[b][i] = x

HasAnswer(l) == \E b \in 1..Len(l) : \E i \in 1..Len(l[b]) : l[b][i] # 0

(* The first message of the first batch is the input, and no other is. *)
Lettered(s, first) == \A i \in 1..Len(s) : s[i] = 0 <=> first /\ i = 1

Shaped(l) ==
    /\ \A b \in 1..Len(l) : l[b] # <<>> /\ Lettered(l[b], b = 1)
    /\ staged => \A b, c \in 1..Len(l) : \A i \in 1..Len(l[b]), j \in 1..Len(l[c]) :
                    l[b][i] # 0 /\ l[c][j] # 0 => b = c /\ i = j

Carried(r) == IF r.batch = 0 THEN <<0>> ELSE <<>>

(* With staged finalization the messages to be stored are the input, until  *)
(* it is stored, and the answer once it is published.                       *)
Queued(l, r, e) ==
    /\ r.batch <= Len(l)
    /\ Lettered(r.new, r.batch = 0)
    /\ r.batch = 0 => r.new # <<>>
    /\ ~r.init => ~r.public /\ e.resp = 0
    /\ r.public => staged /\ e.resp # 0
    /\ staged /\ ~r.public => r.new = Carried(r)
    /\ staged /\ r.public => r.new \in {<<>>, Append(Carried(r), e.resp)}
    /\ r.public /\ r.new = <<>> => InLog(l, e.resp)
    /\ e.persisted => r.public /\ r.new = <<>>
    /\ ~staged /\ e.resp # 0 => InLog(l, e.resp) \/ \E i \in 1..Len(r.new) : r.new[i] = e.resp

(* The answer may still be added to the conversation. *)
Pending(r) == ~r.public \/ r.new # <<>>

(* Once the answer is in the conversation, the batch that would carry it    *)
(* again has the key and the contents of the one that did.                  *)
Settled(l, r, e) ==
    staged /\ HasAnswer(l) =>
        /\ e.resp # 0 /\ InLog(l, e.resp)
        /\ Pending(r) => r.batch = Len(l) - 1 /\ l[Len(l)] = Append(Carried(r), e.resp)

(* The answer that is about to be stored has been saved. *)
Coupled ==
    /\ staged /\ pc # "idle" /\ Engine.resp # 0
    /\ IF run.public THEN run.new # <<>> ELSE pc \in WorkLabels \ {"save_answer"}
    => \A d \in disk : d.eng.resp = Engine.resp /\ d.run.batch = run.batch

(* The first checkpoint says that the run is initialized. *)
Started == pc \in WorkLabels \ {"save0"} /\ eng.phase # "none" => run.init

(* What the process knows of the input and the answer. *)
Inside ==
    /\ pc # "idle" => Queued(log, run, Engine) /\ Settled(log, run, Engine)
    /\ pc # "idle" => last.resp \in {0, Engine.resp}
    /\ canWrite /\ eng.phase = "none" => last.resp = 0
    /\ pc = "save0" => ~run.init
    /\ Started
    /\ pc = "save1" => ~run.public
    /\ pc = "store" => run.public
    /\ ~staged /\ pc = "decode" => \E i \in 1..Len(run.new) : run.new[i] = said
    /\ fin.kind = "completed" /\ pc \in {"retire", "tell"} /\ eng.resp # 0 => InLog(log, eng.resp)
    /\ Coupled

Recordings ==
    /\ Shaped(log)
    /\ \A d \in disk : Queued(log, d.run, d.eng) /\ Settled(log, d.run, d.eng)
    /\ Inside
    /\ told.kind = "completed" /\ told.answer # 0 => InLog(log, told.answer)

Showing ==
    /\ shown <= 1
    /\ pc \in {"save_emit", "show"} => shown = 0
    /\ pc = "show" => \A d \in disk : d.eng.emitted
    /\ shown = 1 => /\ \A d \in disk : d.eng.emitted
                    /\ pc # "idle" => Engine.emitted
                    /\ HasAnswer(log)

LEMMA LetteredAppend ==
    ASSUME NEW s \in Seq(0..MaxModelTurns), NEW first \in BOOLEAN, Lettered(s, first),
           first => s # <<>>, NEW x \in 0..MaxModelTurns, x # 0
    PROVE  Lettered(Append(s, x), first)
<1> DEFINE t == Append(s, x)
<1>1. Len(s) \in Nat /\ Len(t) = Len(s) + 1 /\ t[Len(s) + 1] = x
  OBVIOUS
<1>2. \A i \in 1..Len(s) : t[i] = s[i]
  OBVIOUS
<1>3. first => Len(s) # 0
  OBVIOUS
<1> HIDE DEF t
<1> SUFFICES Lettered(t, first)
  BY DEF t
<1> QED
  BY <1>1, <1>2, <1>3 DEF Lettered

LEMMA CarriedAppend ==
    ASSUME NEW r \in RunState, NEW x \in 0..MaxModelTurns
    PROVE  /\ Carried(r) \in Seq(0..MaxModelTurns)
           /\ \A i \in 1..Len(Carried(r)) : Carried(r)[i] = 0
           /\ Append(Carried(r), x) \in Seq(0..MaxModelTurns)
           /\ Append(Carried(r), x) # Carried(r) /\ Append(Carried(r), x) # <<>>
           /\ \E i \in 1..Len(Append(Carried(r), x)) : Append(Carried(r), x)[i] = x
           /\ \A i \in 1..Len(Append(Carried(r), x)) :
                 Append(Carried(r), x)[i] # 0 => i = Len(Carried(r)) + 1
<1>1. 0 \in 0..MaxModelTurns
  BY StandardRunAssumption
<1> DEFINE c == Carried(r)
           t == Append(c, x)
<1>2. c \in Seq(0..MaxModelTurns) /\ \A i \in 1..Len(c) : c[i] = 0
  <2>1. CASE r.batch = 0
    <3>1. c = <<0>>
      BY <2>1 DEF Carried
    <3> QED
      BY <1>1, <3>1
  <2>2. CASE r.batch # 0
    <3>1. c = <<>>
      BY <2>2 DEF Carried
    <3> QED
      BY <3>1
  <2> QED
    BY <2>1, <2>2
<1> HIDE DEF c
<1>3. /\ Len(c) \in Nat /\ t \in Seq(0..MaxModelTurns)
      /\ Len(t) = Len(c) + 1 /\ t[Len(c) + 1] = x
      /\ \A i \in 1..Len(c) : t[i] = c[i]
  BY <1>2
<1>4. t # c /\ t # <<>>
  BY <1>3
<1> HIDE DEF t
<1>5. Len(c) + 1 \in 1..Len(t)
  BY <1>3
<1>6. \A i \in 1..Len(t) : t[i] # 0 => i = Len(c) + 1
  BY <1>2, <1>3
<1> QED
  BY <1>2, <1>3, <1>4, <1>5, <1>6 DEF c, t

(* What a batch adds to the conversation. *)
LEMMA Growth ==
    ASSUME TypeOK, run.batch <= Len(log), ~Conflict, log' = Appended
    PROVE  /\ log' \in Seq(Seq(0..MaxModelTurns)) /\ Len(log) \in Nat
           /\ \/ log' = log
              \/ /\ run.new # <<>> /\ run.batch = Len(log)
                 /\ Len(log') = Len(log) + 1 /\ log'[Len(log) + 1] = run.new
                 /\ \A b \in 1..Len(log) : log'[b] = log[b]
           /\ run.new # <<>> => run.batch < Len(log') /\ log'[run.batch + 1] = run.new
<1> DEFINE Batch == Seq(0..MaxModelTurns)
<1>1. run \in RunState /\ log \in Seq(Batch)
  BY DEF TypeOK
<1>2. run.new \in Batch /\ run.batch \in Nat
  BY <1>1, Types
<1> HIDE DEF Batch
<1>3. /\ Append(log, run.new) \in Seq(Batch) /\ Len(log) \in Nat
      /\ Len(Append(log, run.new)) = Len(log) + 1
      /\ Append(log, run.new)[Len(log) + 1] = run.new
      /\ \A b \in 1..Len(log) : Append(log, run.new)[b] = log[b]
  BY <1>1, <1>2
<1>4. CASE run.new = <<>> \/ Recorded
  BY <1>1, <1>2, <1>3, <1>4 DEF Appended, Conflict, Recorded, Batch
<1>5. CASE ~(run.new = <<>> \/ Recorded)
  BY <1>2, <1>3, <1>5 DEF Appended, Recorded, Batch
<1> QED
  BY <1>4, <1>5

LEMMA GrowthKeeps ==
    ASSUME TypeOK, run.batch <= Len(log), ~Conflict, log' = Appended
    PROVE  /\ Len(log) <= Len(log')
           /\ \A x : InLog(log, x) => InLog(log', x)
           /\ \A i \in 1..Len(run.new) : InLog(log', run.new[i])
           /\ HasAnswer(log) => HasAnswer(log')
           /\ HasAnswer(log') => HasAnswer(log) \/ \E i \in 1..Len(run.new) : run.new[i] # 0
<1>1. Len(log) \in Nat /\ run.batch \in Nat
  BY Growth, Types DEF TypeOK
<1>2. CASE log' = log
  <2>1. run.new # <<>> => run.batch + 1 \in 1..Len(log') /\ log'[run.batch + 1] = run.new
    BY <1>1, <1>2, Growth
  <2>2. run.new = <<>> => 1..Len(run.new) = {}
    OBVIOUS
  <2> QED
    BY <1>1, <1>2, <2>1, <2>2 DEF InLog
<1>3. CASE /\ Len(log') = Len(log) + 1 /\ log'[Len(log) + 1] = run.new
           /\ \A b \in 1..Len(log) : log'[b] = log[b]
  <2>1. 1..Len(log') = (1..Len(log)) \cup {Len(log) + 1}
    BY <1>1, <1>3
  <2>2. /\ \A b \in 1..Len(log) : b \in 1..Len(log') /\ log'[b] = log[b]
        /\ Len(log) + 1 \in 1..Len(log') /\ log'[Len(log) + 1] = run.new
        /\ \A b \in 1..Len(log') : b \in 1..Len(log) \/ log'[b] = run.new
    BY <1>3, <2>1
  <2>3. Len(log) <= Len(log')
    BY <1>1, <1>3
  <2>4. \A x : InLog(log, x) => InLog(log', x)
    BY <2>2 DEF InLog
  <2>5. \A i \in 1..Len(run.new) : InLog(log', run.new[i])
    BY <2>2 DEF InLog
  <2>6. HasAnswer(log) => HasAnswer(log')
    BY <2>2 DEF HasAnswer
  <2>7. HasAnswer(log') => HasAnswer(log) \/ \E i \in 1..Len(run.new) : run.new[i] # 0
    BY <2>2 DEF HasAnswer
  <2> QED
    BY <2>3, <2>4, <2>5, <2>6, <2>7
<1> QED
  BY <1>2, <1>3, Growth

(* The batch of the run, stored or about to be. *)
LEMMA StagedBatch ==
    ASSUME NEW l, NEW r \in RunState, NEW e \in EngineState, Queued(l, r, e), staged,
           NEW i \in 1..Len(r.new), r.new[i] # 0
    PROVE  r.public /\ r.new = Append(Carried(r), e.resp) /\ i = Len(Carried(r)) + 1
<1>1. r.public
  BY CarriedAppend, StandardRunAssumption DEF Queued
<1>2. r.new # <<>>
  OBVIOUS
<1>3. r.new = Append(Carried(r), e.resp)
  BY <1>1, <1>2 DEF Queued
<1>4. e.resp \in 0..MaxModelTurns
  BY DEF EngineState
<1> QED
  BY <1>1, <1>3, <1>4, CarriedAppend

LEMMA ShapedGrowth ==
    ASSUME Base, Shaped(log), NEW e \in EngineState, Queued(log, run, e), Settled(log, run, e),
           ~Conflict, log' = Appended
    PROVE  Shaped(log')
<1> TypeOK /\ run.batch <= Len(log) /\ run \in RunState
  BY DEF Base, Sound, TypeOK, Queued
<1>1. CASE log' = log
  BY <1>1
<1>2. CASE /\ run.new # <<>> /\ run.batch = Len(log)
           /\ Len(log') = Len(log) + 1 /\ log'[Len(log) + 1] = run.new
           /\ \A b \in 1..Len(log) : log'[b] = log[b]
  <2>1. Len(log) \in Nat /\ 1..Len(log') = (1..Len(log)) \cup {Len(log) + 1}
    BY <1>2, Growth
  <2>2. \A b \in 1..Len(log') : log'[b] # <<>> /\ Lettered(log'[b], b = 1)
    <3>1. Lettered(run.new, run.batch = 0) /\ ((run.batch = 0) <=> (Len(log) + 1 = 1))
      BY <1>2, <2>1 DEF Queued
    <3>2. Lettered(run.new, Len(log) + 1 = 1)
      BY <3>1
    <3> QED
      BY <1>2, <2>1, <3>2 DEF Shaped
  <2>3. ASSUME staged, HasAnswer(log)
        PROVE  FALSE
    <3>1. Pending(run)
      BY <1>2 DEF Pending
    <3> QED
      BY <1>2, <2>1, <2>3, <3>1 DEF Settled
  <2>4. ASSUME staged, NEW b \in 1..Len(log'), NEW i \in 1..Len(log'[b]), log'[b][i] # 0
        PROVE  b = Len(log) + 1 /\ i = Len(Carried(run)) + 1
    <3>1. b \notin 1..Len(log)
      BY <1>2, <2>3, <2>4 DEF HasAnswer
    <3>2. b = Len(log) + 1
      BY <2>1, <3>1
    <3> QED
      BY <1>2, <2>4, <3>2, StagedBatch
  <2> QED
    BY <2>2, <2>4 DEF Shaped
<1> QED
  BY <1>1, <1>2, Growth

LEMMA QueuedGrowth ==
    ASSUME TypeOK, run.batch <= Len(log), ~Conflict, log' = Appended,
           NEW r \in RunState, NEW e \in EngineState, Queued(log, r, e)
    PROVE  Queued(log', r, e)
<1>1. r.batch \in Nat /\ Len(log) \in Nat /\ Len(log') \in Nat /\ Len(log) <= Len(log')
  <2>1. Len(log') \in Nat
    BY Growth
  <2> QED
    BY <2>1, Growth, GrowthKeeps, Types
<1>2. r.batch <= Len(log')
  BY <1>1 DEF Queued
<1>3. InLog(log, e.resp) => InLog(log', e.resp)
  BY GrowthKeeps
<1> QED
  BY <1>2, <1>3 DEF Queued

(* The process that stores the answer has saved it before. *)
LEMMA SettledGrowth ==
    ASSUME Base, NEW e \in EngineState, Queued(log, run, e), Settled(log, run, e),
           ~Conflict, log' = Appended,
           NEW q \in RunState, NEW f \in EngineState, Settled(log, q, f),
           staged /\ run.public /\ run.new # <<>> => q.batch = run.batch /\ f.resp = e.resp
    PROVE  Settled(log', q, f)
<1> TypeOK /\ run.batch <= Len(log) /\ run \in RunState
  BY DEF Base, Sound, TypeOK, Queued
<1>1. CASE log' = log
  BY <1>1
<1>2. CASE /\ run.new # <<>> /\ run.batch = Len(log)
           /\ Len(log') = Len(log) + 1 /\ log'[Len(log) + 1] = run.new
  <2> SUFFICES ASSUME staged, HasAnswer(log')
               PROVE  /\ f.resp # 0 /\ InLog(log', f.resp)
                      /\ q.batch = Len(log') - 1 /\ log'[Len(log')] = Append(Carried(q), f.resp)
    BY DEF Settled
  <2>1. Len(log) \in Nat
    BY Growth
  <2>2. ~HasAnswer(log)
    <3>1. Pending(run)
      BY <1>2 DEF Pending
    <3> QED
      BY <1>2, <2>1, <3>1 DEF Settled
  <2>3. PICK i \in 1..Len(run.new) : run.new[i] # 0
    BY <2>2, GrowthKeeps
  <2>4. run.public /\ run.new = Append(Carried(run), e.resp) /\ e.resp \in 0..MaxModelTurns
    BY <2>3, StagedBatch DEF EngineState
  <2>5. q.batch = run.batch /\ f.resp = e.resp /\ Carried(q) = Carried(run)
    BY <1>2, <2>4 DEF Carried
  <2>6. e.resp # 0 /\ InLog(log', e.resp)
    <3>1. e.resp # 0
      BY <2>4 DEF Queued
    <3>2. \E j \in 1..Len(run.new) : run.new[j] = e.resp
      BY <2>4, CarriedAppend
    <3> QED
      BY <3>1, <3>2, GrowthKeeps
  <2> QED
    BY <1>2, <2>1, <2>4, <2>5, <2>6
<1> QED
  BY <1>1, <1>2, Growth

LEMMA EngineTyped == ASSUME TypeOK PROVE Engine \in EngineState
  BY DEF TypeOK, Engine

(* What is saved has the answer of the engine and its marks. *)
LEMMA SnapshotFits ==
    ASSUME Base, Recordings, pc \in SaveLabels \cup {"retire", "keep", "keep2"}
    PROVE  /\ Snapshot \in EngineState /\ Snapshot.resp = Engine.resp
           /\ Snapshot.persisted = Engine.persisted /\ Snapshot.emitted = Engine.emitted
<1> TypeOK /\ Ended /\ Placed /\ Formed(eng) /\ Formed(last)
  BY DEF Base, Sound
<1>1. /\ \A e \in {eng, last} : e \in EngineState /\ e.persisted \in BOOLEAN /\ e.emitted \in BOOLEAN
      /\ \A e \in {eng, last} : e.resp = 0 => ~e.persisted /\ ~e.emitted
  BY DEF TypeOK, EngineState, Formed
<1>2. last.resp \in {0, Engine.resp} /\ (canWrite /\ eng.phase = "none" => last.resp = 0)
  BY DEF Recordings, Inside, SaveLabels
<1>3. CASE pc \in {"save_reserve", "save_intent"}
  <2>1. eng.phase # "none" => eng.resp = 0
    BY <1>3 DEF Placed, Asking, Formed, NoEngine
  <2> QED
    BY <1>1, <1>2, <1>3, <2>1 DEF Snapshot, Engine
<1>4. CASE pc \notin {"save_reserve", "save_intent"}
  <2>1. Snapshot = eng
    BY <1>4 DEF Snapshot
  <2>2. CASE eng.phase # "none"
    BY <1>1, <2>1, <2>2 DEF Engine
  <2>3. CASE eng.phase = "none"
    <3>1. pc \in {"keep", "keep2"} /\ canWrite
      BY <1>4, <2>3 DEF Placed, Ended, SaveLabels
    <3>2. Engine = last /\ last.resp = 0 /\ eng.resp = 0
      BY <1>2, <2>3, <3>1 DEF Engine, Formed, NoEngine
    <3> QED
      BY <1>1, <2>1, <3>2
  <2> QED
    BY <2>2, <2>3
<1> QED
  BY <1>3, <1>4

LEMMA SameAnswer ==
    ASSUME NEW l, NEW r, NEW e, NEW f, e.resp = f.resp, e.persisted = f.persisted
    PROVE  (Queued(l, r, e) => Queued(l, r, f)) /\ (Settled(l, r, e) => Settled(l, r, f))
  BY DEF Queued, Settled

LEMMA EffectKeeps ==
    ASSUME Base, Recordings, pc # "idle", Effect
    PROVE  /\ Shaped(log') /\ \A x : InLog(log, x) => InLog(log', x)
           /\ Queued(log', run, Engine) /\ Settled(log', run, Engine)
           /\ \A d \in disk' : Queued(log', d.run, d.eng) /\ Settled(log', d.run, d.eng)
<1>1. /\ TypeOK /\ run \in RunState /\ Engine \in EngineState
      /\ \A d \in disk : d.run \in RunState /\ d.eng \in EngineState
  BY EngineTyped DEF Base, Sound, TypeOK
<1>2. /\ Shaped(log) /\ Queued(log, run, Engine) /\ Settled(log, run, Engine)
      /\ \A d \in disk : Queued(log, d.run, d.eng) /\ Settled(log, d.run, d.eng)
      /\ run.batch <= Len(log)
  BY DEF Recordings, Inside, Queued
<1>3. CASE UNCHANGED <<disk, log>>
  BY <1>2, <1>3
<1>4. CASE /\ pc \in SaveLabels \cup {"retire", "keep", "keep2"}
           /\ disk' = Saved(Snapshot) /\ UNCHANGED log
  <2>1. \A d \in disk' : d.run = run /\ d.eng = Snapshot
    BY <1>4 DEF Saved
  <2>2. Queued(log, run, Snapshot) /\ Settled(log, run, Snapshot)
    BY <1>2, <1>4, SnapshotFits, SameAnswer
  <2> QED
    BY <1>2, <1>4, <2>1, <2>2
<1>5. CASE disk' = {} /\ UNCHANGED log
  BY <1>2, <1>5
<1>6. CASE pc \in {"store", "finish", "persist"} /\ ~Conflict /\ log' = Appended /\ UNCHANGED disk
  <2>1. Shaped(log') /\ \A x : InLog(log, x) => InLog(log', x)
    BY <1>1, <1>2, <1>6, ShapedGrowth, GrowthKeeps
  <2>2. Queued(log', run, Engine) /\ Settled(log', run, Engine)
    BY <1>1, <1>2, <1>6, QueuedGrowth, SettledGrowth
  <2>3. ASSUME NEW d \in disk
        PROVE  Queued(log', d.run, d.eng) /\ Settled(log', d.run, d.eng)
    <3>1. staged /\ run.public /\ run.new # <<>> =>
             d.run.batch = run.batch /\ d.eng.resp = Engine.resp
      <4>1. run.public => Engine.resp # 0
        BY <1>2 DEF Queued
      <4> QED
        BY <4>1 DEF Recordings, Inside, Coupled
    <3>2. d.run \in RunState /\ d.eng \in EngineState
      BY <1>1
    <3>3. Queued(log, d.run, d.eng) /\ Settled(log, d.run, d.eng)
      BY <1>2
    <3>4. Queued(log', d.run, d.eng)
      BY <1>1, <1>2, <1>6, <3>2, <3>3, QueuedGrowth
    <3>5. Settled(log', d.run, d.eng)
      BY <1>1, <1>2, <1>6, <3>1, <3>2, <3>3, SettledGrowth
    <3> QED
      BY <3>4, <3>5
  <2> QED
    BY <1>6, <2>1, <2>2, <2>3
<1> QED
  BY <1>3, <1>4, <1>5, <1>6 DEF Effect, world

(* A step of a live process that leaves the messages to be stored and the   *)
(* answer as they are.                                                      *)
RunQuiet ==
    /\ run'.batch = run.batch /\ run'.new = run.new /\ run'.public = run.public
    /\ ~run'.init => ~run.public /\ Engine.resp = 0

EngineQuiet ==
    /\ Engine'.resp = Engine.resp /\ Engine'.persisted = Engine.persisted
    /\ last'.resp \in {last.resp, Engine.resp}
    /\ canWrite' /\ eng'.phase = "none" => last'.resp = 0

Quietly ==
    /\ pc' = "save0" => ~run'.init
    /\ pc' = "save1" => ~run'.public
    /\ pc' # "store"
    /\ pc' = "decode" => staged
    /\ pc' \in WorkLabels \ {"save_answer"} =>
          pc \in WorkLabels /\ (pc = "save_answer" => disk' = Saved(Snapshot))
    /\ fin'.kind = "completed" /\ pc' \in {"retire", "tell"} =>
          fin.kind = "completed" /\ pc = "retire" /\ eng' = eng

Quiet == RunQuiet /\ EngineQuiet /\ Quietly /\ Started'

LEMMA CoupledKeeps ==
    ASSUME Base, Recordings, pc # "idle", Effect, UNCHANGED staged, run'.batch = run.batch,
           Engine'.resp = Engine.resp,
           run'.public /\ run'.new # <<>> =>
              IF run.public THEN run.new # <<>> ELSE pc \in WorkLabels \ {"save_answer"},
           ~run'.public /\ pc' \in WorkLabels \ {"save_answer"} =>
              ~run.public /\ pc \in WorkLabels /\ (pc = "save_answer" => disk' = Saved(Snapshot))
    PROVE  Coupled'
<1>1. CASE disk' = Saved(Snapshot) /\ pc \in SaveLabels \cup {"retire", "keep", "keep2"}
  BY <1>1, SnapshotFits DEF Coupled, Saved
<1>2. CASE disk' = {}
  BY <1>2 DEF Coupled
<1>3. CASE disk' = disk /\ ~(pc = "save_answer" /\ disk' = Saved(Snapshot))
  BY <1>3 DEF Coupled, Recordings, Inside
<1> QED
  BY <1>1, <1>2, <1>3 DEF Effect, world, SaveLabels

LEMMA QuietKeeps ==
    ASSUME Base, Recordings, pc # "idle", Effect, UNCHANGED staged, Quiet
    PROVE  Inside'
<1>1. Queued(log', run, Engine) /\ Settled(log', run, Engine)
  BY EffectKeeps
<1>2. Inside
  BY DEF Recordings
<1>3. Queued(log, run, Engine)' /\ Settled(log, run, Engine)'
  <2> DEFINE r == run'
             e == Engine'
  <2>1. Queued(log', run', Engine') /\ Settled(log', run', Engine')
    <3>1. /\ r.batch = run.batch /\ r.new = run.new /\ r.public = run.public
          /\ ~r.init => ~run.public /\ Engine.resp = 0
          /\ e.resp = Engine.resp /\ e.persisted = Engine.persisted
      BY DEF Quiet, RunQuiet, EngineQuiet
    <3> HIDE DEF r, e
    <3>2. Carried(r) = Carried(run) /\ Pending(r) = Pending(run)
      BY <3>1 DEF Carried, Pending
    <3>3. Queued(log', r, e) /\ Settled(log', r, e)
      BY <1>1, <3>1, <3>2 DEF Queued, Settled
    <3> QED
      BY <3>3 DEF r, e
  <2> QED
    BY <2>1 DEF Queued, Settled
<1>4. Coupled'
  BY CoupledKeeps DEF Quiet, RunQuiet, EngineQuiet, Quietly
<1>5. pc' # "store" /\ (pc' = "decode" => staged')
  BY DEF Quiet, Quietly
<1>6. fin'.kind = "completed" /\ pc' \in {"retire", "tell"} /\ eng'.resp # 0 => InLog(log', eng'.resp)
  BY <1>2, EffectKeeps DEF Quiet, Quietly, Inside
<1>7. last'.resp \in {0, Engine'.resp} /\ (canWrite' /\ eng'.phase = "none" => last'.resp = 0)
  BY <1>2 DEF Quiet, EngineQuiet, Inside
<1>8. /\ (pc' = "save0" => ~run'.init) /\ (pc' = "save1" => ~run'.public)
      /\ pc' \in WorkLabels \ {"save0"} /\ eng'.phase # "none" => run'.init
  BY DEF Quiet, Quietly, Started
<1> QED
  BY <1>3, <1>4, <1>5, <1>6, <1>7, <1>8 DEF Inside, Started

LEMMA EndedSoFar ==
    ASSUME Ended, pc \in WorkLabels \ {"finish", "retire"}
    PROVE  fin.kind = "none"
  BY DEF Ended, NoEnd

LEMMA StillStarted ==
    ASSUME Base, Recordings, pc \in WorkLabels \ {"save0"}, run'.init = run.init,
           eng' = eng \/ eng.phase # "none"
    PROVE  Started'
  BY DEF Started, Recordings, Inside

LEMMA SelectSkillsQuiet == ASSUME Base, Recordings, SelectSkills PROVE Quiet
<1> TypeOK /\ Ended /\ Placed /\ Formed(eng) /\ Formed(last) /\ Inside /\ run \in RunState
    /\ eng \in EngineState
  BY DEF Base, Sound, TypeOK, Recordings
<1>1. Queued(log, run, Engine)
  BY DEF SelectSkills, Inside
<1>2. RunQuiet /\ run'.init = run.init
  BY <1>1 DEF SelectSkills, Goto, RunQuiet, Queued, RunState, rest
<1>3. EngineQuiet
  BY <1>1 DEF SelectSkills, Goto, EngineQuiet, Engine, Inside, Placed, Asking, Formed,
     EngineState, rest
<1>4. Quietly
  BY <1>1, OutcomeEnds, EndedSoFar DEF SelectSkills, Goto, Quietly, Ended, Queued, Inside,
     Formed, Saved, NoEnd, rest, SaveLabels, WorkLabels
<1>5. Started'
  BY <1>2, StillStarted DEF SelectSkills, Placed, WorkLabels, SaveLabels
<1> QED
  BY <1>2, <1>3, <1>4, <1>5 DEF Quiet

LEMMA CheckpointQuiet == ASSUME Base, Recordings, Checkpoint PROVE Quiet
<1> TypeOK /\ Ended /\ Placed /\ Formed(eng) /\ Formed(last) /\ Inside /\ run \in RunState
    /\ eng \in EngineState
  BY DEF Base, Sound, TypeOK, Recordings
<1>1. Queued(log, run, Engine)
  BY DEF Checkpoint, Inside, SaveLabels
<1>2. RunQuiet
  BY <1>1 DEF Checkpoint, Goto, AfterSave, Snapshot, RunQuiet, Queued, RunState, rest,
     SaveLabels
<1>3. EngineQuiet
  BY <1>1 DEF Checkpoint, Goto, AfterSave, Snapshot, EngineQuiet, Engine, Inside, Placed,
     Asking, Formed, EngineState, rest, SaveLabels
<1>4. Quietly
  BY <1>1, OutcomeEnds, EndedSoFar DEF Checkpoint, Goto, AfterSave, Snapshot, Quietly, Ended,
     Queued, Inside, Formed, Saved, NoEnd, rest, SaveLabels, WorkLabels
<1>5. Started'
  BY DEF Checkpoint, AfterSave, Goto, Inside, Started, SaveLabels, WorkLabels, RunState
<1> QED
  BY <1>2, <1>3, <1>4, <1>5 DEF Quiet

LEMMA ReserveQuiet ==
    ASSUME Base, Recordings, Reserve, call # "barred", run.guard < MaxModelTurns
    PROVE  Quiet
<1> TypeOK /\ Ended /\ Placed /\ Formed(eng) /\ Formed(last) /\ Inside /\ run \in RunState
    /\ eng \in EngineState
  BY DEF Base, Sound, TypeOK, Recordings
<1>1. Queued(log, run, Engine)
  BY DEF Reserve, Inside
<1>2. RunQuiet /\ run'.init = run.init
  BY <1>1 DEF Reserve, Goto, RunQuiet, Queued, RunState, rest
<1>3. EngineQuiet
  BY <1>1 DEF Reserve, Goto, EngineQuiet, Engine, Inside, Placed, Asking, Formed, EngineState,
     rest
<1>4. Quietly
  BY <1>1, OutcomeEnds, EndedSoFar DEF Reserve, Goto, Quietly, Ended, Queued, Inside, Formed,
     Saved, NoEnd, rest, SaveLabels, WorkLabels
<1>5. Started'
  BY <1>2, StillStarted DEF Reserve, Placed, WorkLabels, SaveLabels
<1> QED
  BY <1>2, <1>3, <1>4, <1>5 DEF Quiet

LEMMA RespondQuiet == ASSUME Base, Recordings, Respond PROVE Quiet
<1> TypeOK /\ Ended /\ Placed /\ Formed(eng) /\ Formed(last) /\ Inside /\ run \in RunState
    /\ eng \in EngineState
  BY DEF Base, Sound, TypeOK, Recordings
<1>1. Queued(log, run, Engine)
  BY DEF Respond, Inside
<1>2. RunQuiet /\ run'.init = run.init
  BY <1>1 DEF Respond, Goto, RunQuiet, Queued, RunState, rest
<1>3. EngineQuiet
  BY <1>1 DEF Respond, Goto, EngineQuiet, Engine, Inside, Placed, Asking, Formed, EngineState,
     rest
<1>4. Quietly
  BY <1>1, RespondLeads, EndedSoFar DEF Respond, Goto, Quietly, Ended, Queued, Inside, Formed,
     Saved, NoEnd, rest, SaveLabels, WorkLabels
<1>5. Started'
  BY <1>2, StillStarted DEF Respond, Placed, WorkLabels, SaveLabels
<1> QED
  BY <1>2, <1>3, <1>4, <1>5 DEF Quiet

LEMMA RetryCallQuiet == ASSUME Base, Recordings, RetryCall PROVE Quiet
<1> TypeOK /\ Ended /\ Placed /\ Formed(eng) /\ Formed(last) /\ Inside /\ run \in RunState
    /\ eng \in EngineState
  BY DEF Base, Sound, TypeOK, Recordings
<1>1. Queued(log, run, Engine)
  BY DEF RetryCall, Inside
<1>2. RunQuiet /\ run'.init = run.init
  BY <1>1 DEF RetryCall, Goto, RunQuiet, Queued, RunState, rest, memory
<1>3. EngineQuiet
  BY <1>1 DEF RetryCall, Goto, EngineQuiet, Engine, Inside, Placed, Asking, Formed, EngineState,
     rest, memory
<1>4. Quietly
  BY <1>1, OutcomeEnds, EndedSoFar DEF RetryCall, Goto, Quietly, Ended, Queued, Inside, Formed,
     Saved, NoEnd, rest, memory, SaveLabels, WorkLabels
<1>5. Started'
  BY <1>2, StillStarted DEF RetryCall, Placed, memory, WorkLabels, SaveLabels
<1> QED
  BY <1>2, <1>3, <1>4, <1>5 DEF Quiet

LEMMA SkipSummaryQuiet == ASSUME Base, Recordings, SkipSummary PROVE Quiet
<1> TypeOK /\ Ended /\ Placed /\ Formed(eng) /\ Formed(last) /\ Inside /\ run \in RunState
    /\ eng \in EngineState
  BY DEF Base, Sound, TypeOK, Recordings
<1>1. Queued(log, run, Engine)
  BY DEF SkipSummary, Inside
<1>2. RunQuiet /\ run'.init = run.init
  BY <1>1 DEF SkipSummary, AfterCall, Goto, InFlight, Snapshot, RunQuiet, Queued, RunState,
     rest, SaveLabels
<1>3. EngineQuiet
  BY <1>1 DEF SkipSummary, AfterCall, Goto, InFlight, Snapshot, EngineQuiet, Engine, Inside,
     Placed, Asking, Formed, EngineState, rest, SaveLabels
<1>4. Quietly
  BY <1>1, OutcomeEnds, EndedSoFar DEF SkipSummary, AfterCall, Goto, InFlight, Snapshot,
     Quietly, Ended, Queued, Inside, Formed, Saved, NoEnd, rest, SaveLabels, WorkLabels
<1>5. Started'
  BY <1>2, StillStarted DEF SkipSummary, Placed, WorkLabels, SaveLabels
<1> QED
  BY <1>2, <1>3, <1>4, <1>5 DEF Quiet

LEMMA ExecuteQuiet ==
    ASSUME Base, Recordings, Execute, ~(eng.phase = "done" /\ eng.resp = 0)
    PROVE  Quiet
<1> TypeOK /\ Ended /\ Placed /\ Formed(eng) /\ Formed(last) /\ Inside /\ run \in RunState
    /\ eng \in EngineState
  BY DEF Base, Sound, TypeOK, Recordings
<1>1. Queued(log, run, Engine)
  BY DEF Execute, Inside
<1>2. RunQuiet /\ run'.init = run.init
  BY <1>1 DEF Execute, Goto, RunQuiet, Queued, RunState, rest, memory
<1>3. EngineQuiet
  BY <1>1 DEF Execute, Goto, EngineQuiet, Engine, Inside, Placed, Asking, Formed, EngineState,
     rest, memory
<1>4. Quietly
  BY <1>1, OutcomeEnds, EndedSoFar DEF Execute, Goto, Quietly, Ended, Queued, Inside, Formed,
     Saved, NoEnd, rest, memory, SaveLabels, WorkLabels
<1>5. Started'
  BY <1>2, StillStarted DEF Execute, Placed, memory, WorkLabels, SaveLabels
<1> QED
  BY <1>2, <1>3, <1>4, <1>5 DEF Quiet

LEMMA TurnQuiet == ASSUME Base, Recordings, Turn PROVE Quiet
<1> TypeOK /\ Ended /\ Placed /\ Formed(eng) /\ Formed(last) /\ Inside /\ run \in RunState
    /\ eng \in EngineState
  BY DEF Base, Sound, TypeOK, Recordings
<1>1. Queued(log, run, Engine)
  BY DEF Turn, Inside
<1>2. RunQuiet /\ run'.init = run.init
  BY <1>1 DEF Turn, Goto, RunQuiet, Queued, RunState, rest
<1>3. EngineQuiet
  <2>1. eng'.phase \in {"act", "failed"} /\ eng'.resp = eng.resp /\ eng'.persisted = eng.persisted
    <3>1. CASE eng.turn < MaxSteps
      <4>1. eng' = [eng EXCEPT !.phase = "act", !.turn = eng.turn + 1]
        BY <3>1 DEF Turn
      <4> QED
        BY <4>1 DEF EngineState
    <3>2. CASE ~(eng.turn < MaxSteps)
      <4>1. eng' = [eng EXCEPT !.phase = "failed"]
        BY <3>2 DEF Turn
      <4> QED
        BY <4>1 DEF EngineState
    <3> QED
      BY <3>1, <3>2
  <2>2. UNCHANGED <<last, canWrite>> /\ eng.phase # "none"
    BY DEF Turn, Placed
  <2> QED
    BY <2>1, <2>2 DEF EngineQuiet, Engine
<1>4. Quietly
  BY <1>1, OutcomeEnds, EndedSoFar DEF Turn, Goto, Quietly, Ended, Queued, Inside, Formed,
     Saved, NoEnd, rest, SaveLabels, WorkLabels
<1>5. Started'
  BY <1>2, StillStarted DEF Turn, Placed, WorkLabels, SaveLabels
<1> QED
  BY <1>2, <1>3, <1>4, <1>5 DEF Quiet

LEMMA PrepareQuiet == ASSUME Base, Recordings, Prepare PROVE Quiet
<1> TypeOK /\ Ended /\ Placed /\ Formed(eng) /\ Formed(last) /\ Inside /\ run \in RunState
    /\ eng \in EngineState
  BY DEF Base, Sound, TypeOK, Recordings
<1>1. Queued(log, run, Engine)
  BY DEF Prepare, Inside
<1>2. RunQuiet /\ run'.init = run.init
  BY <1>1 DEF Prepare, Goto, RunQuiet, Queued, RunState, rest
<1>3. EngineQuiet
  BY <1>1 DEF Prepare, Goto, EngineQuiet, Engine, Inside, Placed, Asking, Formed, EngineState,
     rest
<1>4. Quietly
  BY <1>1, OutcomeEnds, EndedSoFar DEF Prepare, Goto, Quietly, Ended, Queued, Inside, Formed,
     Saved, NoEnd, rest, SaveLabels, WorkLabels
<1>5. Started'
  BY <1>2, StillStarted DEF Prepare, Placed, WorkLabels, SaveLabels
<1> QED
  BY <1>2, <1>3, <1>4, <1>5 DEF Quiet

LEMMA DecideFinishQuiet == ASSUME Base, Recordings, DecideFinish, staged PROVE Quiet
<1> TypeOK /\ Ended /\ Placed /\ Formed(eng) /\ Formed(last) /\ Inside /\ run \in RunState
    /\ eng \in EngineState
  BY DEF Base, Sound, TypeOK, Recordings
<1>1. Queued(log, run, Engine)
  BY DEF DecideFinish, Inside
<1>2. RunQuiet /\ run'.init = run.init
  BY <1>1 DEF DecideFinish, Goto, RunQuiet, Queued, RunState, rest
<1>3. EngineQuiet
  BY <1>1 DEF DecideFinish, Goto, EngineQuiet, Engine, Inside, Placed, Asking, Formed,
     EngineState, rest
<1>4. Quietly
  BY <1>1, OutcomeEnds, EndedSoFar DEF DecideFinish, Goto, Quietly, Ended, Queued, Inside,
     Formed, Saved, NoEnd, rest, SaveLabels, WorkLabels
<1>5. Started'
  BY <1>2, StillStarted DEF DecideFinish, Placed, WorkLabels, SaveLabels
<1> QED
  BY <1>2, <1>3, <1>4, <1>5 DEF Quiet

LEMMA DecideCustomQuiet == ASSUME Base, Recordings, DecideCustom PROVE Quiet
<1> TypeOK /\ Ended /\ Placed /\ Formed(eng) /\ Formed(last) /\ Inside /\ run \in RunState
    /\ eng \in EngineState
  BY DEF Base, Sound, TypeOK, Recordings
<1>1. Queued(log, run, Engine)
  BY DEF DecideCustom, Inside
<1>2. RunQuiet /\ run'.init = run.init
  BY <1>1 DEF DecideCustom, RunQuiet, Queued, RunState, rest
<1>3. EngineQuiet
  BY <1>1 DEF DecideCustom, EngineQuiet, Engine, Inside, Placed, Asking, Formed, EngineState,
     rest
<1>4. Quietly
  BY <1>1, OutcomeEnds, EndedSoFar DEF DecideCustom, Quietly, Ended, Queued, Inside, Formed,
     Saved, NoEnd, rest, SaveLabels, WorkLabels
<1>5. Started'
  BY <1>2, StillStarted DEF DecideCustom, Placed, WorkLabels, SaveLabels
<1> QED
  BY <1>2, <1>3, <1>4, <1>5 DEF Quiet

LEMMA DecideFailQuiet == ASSUME Base, Recordings, DecideFail PROVE Quiet
<1> TypeOK /\ Ended /\ Placed /\ Formed(eng) /\ Formed(last) /\ Inside /\ run \in RunState
    /\ eng \in EngineState
  BY DEF Base, Sound, TypeOK, Recordings
<1>1. Queued(log, run, Engine)
  BY DEF DecideFail, Inside
<1>2. RunQuiet /\ run'.init = run.init
  BY <1>1 DEF DecideFail, RunQuiet, Queued, RunState, rest
<1>3. EngineQuiet
  BY <1>1 DEF DecideFail, EngineQuiet, Engine, Inside, Placed, Asking, Formed, EngineState, rest
<1>4. Quietly
  BY <1>1, OutcomeEnds, EndedSoFar DEF DecideFail, Quietly, Ended, Queued, Inside, Formed,
     Saved, NoEnd, rest, SaveLabels, WorkLabels
<1>5. Started'
  BY <1>2, StillStarted DEF DecideFail, Placed, WorkLabels, SaveLabels
<1> QED
  BY <1>2, <1>3, <1>4, <1>5 DEF Quiet

LEMMA DecideContinueQuiet == ASSUME Base, Recordings, DecideContinue PROVE Quiet
<1> TypeOK /\ Ended /\ Placed /\ Formed(eng) /\ Formed(last) /\ Inside /\ run \in RunState
    /\ eng \in EngineState
  BY DEF Base, Sound, TypeOK, Recordings
<1>1. Queued(log, run, Engine)
  BY DEF DecideContinue, Inside
<1>2. RunQuiet /\ run'.init = run.init
  BY <1>1 DEF DecideContinue, Goto, RunQuiet, Queued, RunState, rest
<1>3. EngineQuiet
  BY <1>1 DEF DecideContinue, Goto, EngineQuiet, Engine, Inside, Placed, Asking, Formed,
     EngineState, rest
<1>4. Quietly
  BY <1>1, OutcomeEnds, EndedSoFar DEF DecideContinue, Goto, Quietly, Ended, Queued, Inside,
     Formed, Saved, NoEnd, rest, SaveLabels, WorkLabels
<1>5. Started'
  BY <1>2, StillStarted DEF DecideContinue, Placed, WorkLabels, SaveLabels
<1> QED
  BY <1>2, <1>3, <1>4, <1>5 DEF Quiet

LEMMA DecideToolsQuiet == ASSUME Base, Recordings, DecideTools PROVE Quiet
<1> TypeOK /\ Ended /\ Placed /\ Formed(eng) /\ Formed(last) /\ Inside /\ run \in RunState
    /\ eng \in EngineState
  BY DEF Base, Sound, TypeOK, Recordings
<1>1. Queued(log, run, Engine)
  BY DEF DecideTools, Inside
<1>2. RunQuiet /\ run'.init = run.init
  BY <1>1 DEF DecideTools, Goto, RunQuiet, Queued, RunState, rest
<1>3. EngineQuiet
  BY <1>1 DEF DecideTools, Goto, EngineQuiet, Engine, Inside, Placed, Asking, Formed,
     EngineState, rest
<1>4. Quietly
  BY <1>1, OutcomeEnds, EndedSoFar DEF DecideTools, Goto, Quietly, Ended, Queued, Inside,
     Formed, Saved, NoEnd, rest, SaveLabels, WorkLabels
<1>5. Started'
  BY <1>2, StillStarted DEF DecideTools, Placed, WorkLabels, SaveLabels
<1> QED
  BY <1>2, <1>3, <1>4, <1>5 DEF Quiet

LEMMA IntentQuiet == ASSUME Base, Recordings, Intent PROVE Quiet
<1> TypeOK /\ Ended /\ Placed /\ Formed(eng) /\ Formed(last) /\ Inside /\ run \in RunState
    /\ eng \in EngineState
  BY DEF Base, Sound, TypeOK, Recordings
<1>1. Queued(log, run, Engine)
  BY DEF Intent, Inside
<1>2. RunQuiet /\ run'.init = run.init
  BY <1>1 DEF Intent, Goto, RunQuiet, Queued, RunState, rest
<1>3. EngineQuiet
  BY <1>1 DEF Intent, Goto, EngineQuiet, Engine, Inside, Placed, Asking, Formed, EngineState,
     rest
<1>4. Quietly
  BY <1>1, OutcomeEnds, EndedSoFar DEF Intent, Goto, Quietly, Ended, Queued, Inside, Formed,
     Saved, NoEnd, rest, SaveLabels, WorkLabels
<1>5. Started'
  BY <1>2, StillStarted DEF Intent, Placed, WorkLabels, SaveLabels
<1> QED
  BY <1>2, <1>3, <1>4, <1>5 DEF Quiet

LEMMA RunToolsQuiet == ASSUME Base, Recordings, RunTools PROVE Quiet
<1> TypeOK /\ Ended /\ Placed /\ Formed(eng) /\ Formed(last) /\ Inside /\ run \in RunState
    /\ eng \in EngineState
  BY DEF Base, Sound, TypeOK, Recordings
<1>1. Queued(log, run, Engine)
  BY DEF RunTools, Inside
<1>2. RunQuiet /\ run'.init = run.init
  BY <1>1 DEF RunTools, Goto, RunQuiet, Queued, RunState, rest
<1>3. EngineQuiet
  BY <1>1 DEF RunTools, Goto, EngineQuiet, Engine, Inside, Placed, Asking, Formed, EngineState,
     rest
<1>4. Quietly
  BY <1>1, OutcomeEnds, EndedSoFar DEF RunTools, Goto, Quietly, Ended, Queued, Inside, Formed,
     Saved, NoEnd, rest, SaveLabels, WorkLabels
<1>5. Started'
  BY <1>2, StillStarted DEF RunTools, Placed, WorkLabels, SaveLabels
<1> QED
  BY <1>2, <1>3, <1>4, <1>5 DEF Quiet

LEMMA ToolsFailQuiet == ASSUME Base, Recordings, ToolsFail PROVE Quiet
<1> TypeOK /\ Ended /\ Placed /\ Formed(eng) /\ Formed(last) /\ Inside /\ run \in RunState
    /\ eng \in EngineState
  BY DEF Base, Sound, TypeOK, Recordings
<1>1. Queued(log, run, Engine)
  BY DEF ToolsFail, Inside
<1>2. RunQuiet /\ run'.init = run.init
  BY <1>1 DEF ToolsFail, InFlight, Goto, RunQuiet, Queued, RunState, rest, memory, SaveLabels
<1>3. EngineQuiet
  BY <1>1 DEF ToolsFail, InFlight, Goto, EngineQuiet, Engine, Inside, Placed, Asking, Formed,
     EngineState, rest, memory, SaveLabels
<1>4. Quietly
  BY <1>1, OutcomeEnds, EndedSoFar DEF ToolsFail, InFlight, Goto, Quietly, Ended, Queued,
     Inside, Formed, Saved, NoEnd, rest, memory, SaveLabels, WorkLabels
<1>5. Started'
  BY <1>2, StillStarted DEF ToolsFail, Placed, memory, WorkLabels, SaveLabels
<1> QED
  BY <1>2, <1>3, <1>4, <1>5 DEF Quiet

LEMMA FinalizeQuiet == ASSUME Base, Recordings, Finalize PROVE Quiet
<1> TypeOK /\ Ended /\ Placed /\ Formed(eng) /\ Formed(last) /\ Inside /\ run \in RunState
    /\ eng \in EngineState
  BY DEF Base, Sound, TypeOK, Recordings
<1>1. Queued(log, run, Engine)
  BY DEF Finalize, Inside
<1>2. RunQuiet /\ run'.init = run.init
  BY <1>1 DEF Finalize, Goto, RunQuiet, Queued, RunState, rest
<1>3. EngineQuiet
  BY <1>1 DEF Finalize, Goto, EngineQuiet, Engine, Inside, Placed, Asking, Formed, EngineState,
     rest
<1>4. Quietly
  BY <1>1, OutcomeEnds, EndedSoFar DEF Finalize, Goto, Quietly, Ended, Queued, Inside, Formed,
     Saved, NoEnd, rest, SaveLabels, WorkLabels
<1>5. Started'
  BY <1>2, StillStarted DEF Finalize, Placed, WorkLabels, SaveLabels
<1> QED
  BY <1>2, <1>3, <1>4, <1>5 DEF Quiet

LEMMA EmitQuiet == ASSUME Base, Recordings, Emit PROVE Quiet
<1> TypeOK /\ Ended /\ Placed /\ Formed(eng) /\ Formed(last) /\ Inside /\ run \in RunState
    /\ eng \in EngineState
  BY DEF Base, Sound, TypeOK, Recordings
<1>1. Queued(log, run, Engine)
  BY DEF Emit, Inside
<1>2. RunQuiet /\ run'.init = run.init
  BY <1>1 DEF Emit, Goto, RunQuiet, Queued, RunState, rest
<1>3. EngineQuiet
  BY <1>1 DEF Emit, Goto, EngineQuiet, Engine, Inside, Placed, Asking, Formed, EngineState, rest
<1>4. Quietly
  BY <1>1, OutcomeEnds, EndedSoFar DEF Emit, Goto, Quietly, Ended, Queued, Inside, Formed,
     Saved, NoEnd, rest, SaveLabels, WorkLabels
<1>5. Started'
  BY <1>2, StillStarted DEF Emit, Placed, WorkLabels, SaveLabels
<1> QED
  BY <1>2, <1>3, <1>4, <1>5 DEF Quiet

LEMMA ShowQuiet == ASSUME Base, Recordings, Show PROVE Quiet
<1> TypeOK /\ Ended /\ Placed /\ Formed(eng) /\ Formed(last) /\ Inside /\ run \in RunState
    /\ eng \in EngineState
  BY DEF Base, Sound, TypeOK, Recordings
<1>1. Queued(log, run, Engine)
  BY DEF Show, Inside
<1>2. RunQuiet /\ run'.init = run.init
  BY <1>1 DEF Show, RunQuiet, Queued, RunState, rest
<1>3. EngineQuiet
  BY <1>1 DEF Show, EngineQuiet, Engine, Inside, Placed, Asking, Formed, EngineState, rest
<1>4. Quietly
  BY <1>1, OutcomeEnds, EndedSoFar DEF Show, Quietly, Ended, Queued, Inside, Formed, Saved,
     NoEnd, rest, SaveLabels, WorkLabels
<1>5. Started'
  BY <1>2, StillStarted DEF Show, Placed, WorkLabels, SaveLabels
<1> QED
  BY <1>2, <1>3, <1>4, <1>5 DEF Quiet

LEMMA RetireQuiet == ASSUME Base, Recordings, Retire PROVE Quiet
<1> TypeOK /\ Ended /\ Placed /\ Formed(eng) /\ Formed(last) /\ Inside /\ run \in RunState
    /\ eng \in EngineState
  BY DEF Base, Sound, TypeOK, Recordings
<1>1. Queued(log, run, Engine)
  BY DEF Retire, Inside
<1>2. RunQuiet /\ run'.init = run.init
  BY <1>1 DEF Retire, SaveSafely, Goto, RunQuiet, Queued, RunState, rest, memory
<1>3. EngineQuiet
  BY <1>1 DEF Retire, SaveSafely, Goto, EngineQuiet, Engine, Inside, Placed, Asking, Formed,
     EngineState, rest, memory
<1>4. Quietly
  BY <1>1, OutcomeEnds, EndedSoFar DEF Retire, SaveSafely, Goto, Quietly, Ended, Queued, Inside,
     Formed, Saved, NoEnd, rest, memory, SaveLabels, WorkLabels
<1>5. Started'
  BY <1>2, StillStarted DEF Retire, Placed, memory, WorkLabels, SaveLabels
<1> QED
  BY <1>2, <1>3, <1>4, <1>5 DEF Quiet

(* The steps that end the work, and that take it up again. *)
LEMMA HandleQuiet ==
    ASSUME Base, Recordings, pc # "idle", NEW kind \in {"failed", "cancelled"},
           NEW r \in RunState, NEW claim,
           r.batch = run.batch, r.new = run.new, r.public = run.public, r.init = run.init,
           Handle(kind, r, claim)
    PROVE  pc' = "idle" \/ Quiet
<1> TypeOK /\ Ended /\ Placed /\ Formed(eng) /\ Formed(last) /\ Inside
  BY DEF Base, Sound, Recordings
<1>1. CASE kind = "cancelled" /\ ~canWrite
  BY <1>1 DEF Handle, Leave
<1>2. CASE ~(kind = "cancelled" /\ ~canWrite)
  <2>1. /\ run' = [r EXCEPT !.init = @ /\ pc # "save1"]
        /\ eng' = IF pc = "save0" THEN NoEngine ELSE eng
        /\ fin'.kind = kind /\ pc' \in {"persist", "tell"} /\ UNCHANGED <<last, canWrite>>
    BY <1>2 DEF Handle, Goto
  <2>2. /\ run'.batch = r.batch /\ run'.new = r.new /\ run'.public = r.public
        /\ ~run'.init => ~r.init \/ pc = "save1"
    BY <2>1 DEF RunState
  <2>3. Queued(log, run, Engine)
    BY DEF Inside
  <2>4. pc \in {"save0", "save1"} => Engine = eng /\ eng.resp = 0 /\ ~eng.persisted
    BY DEF Placed, Formed, Engine, TypeOK, EngineState
  <2>5. RunQuiet
    BY <2>2, <2>3, <2>4 DEF RunQuiet, Queued, Inside
  <2>6. EngineQuiet
    <3>1. CASE pc = "save0"
      <4>1. last.resp = 0 /\ ~last.persisted /\ Engine' = last
        BY <2>1, <2>4, <3>1 DEF Inside, Formed, TypeOK, EngineState, Engine, NoEngine
      <4> QED
        BY <2>1, <2>4, <3>1, <4>1 DEF EngineQuiet, TypeOK, EngineState
    <3>2. CASE pc # "save0"
      BY <2>1, <3>2 DEF EngineQuiet, Engine, Inside
    <3> QED
      BY <3>1, <3>2
  <2>7. Quietly
    BY <2>1 DEF Quietly, WorkLabels, SaveLabels
  <2>8. Started'
    BY <2>1 DEF Started, WorkLabels, SaveLabels
  <2> QED
    BY <2>5, <2>6, <2>7, <2>8 DEF Quiet
<1> QED
  BY <1>1, <1>2

LEMMA EndingQuiet ==
    ASSUME Base, Recordings, pc # "idle",
           \/ Fails
           \/ GuardTrips
           \/ Handle("failed", run, FALSE)
           \/ Handle("cancelled", run, FALSE)
    PROVE  pc' = "idle" \/ Quiet
<1>1. run \in RunState
  BY DEF Base, Sound, TypeOK
<1>2. CASE Fails \/ Handle("failed", run, FALSE) \/ Handle("cancelled", run, FALSE)
  BY <1>1, <1>2, HandleQuiet DEF Fails
<1>3. CASE GuardTrips
  <2> DEFINE r == [run EXCEPT !.safety = "never"]
  <2>1. r \in RunState
    BY <1>1, RunUpdates
  <2>2. /\ r.batch = run.batch /\ r.new = run.new /\ r.public = run.public
        /\ r.init = run.init
    BY <1>1 DEF RunState
  <2> HIDE DEF r
  <2>3. Handle("failed", r, FALSE)
    BY <1>3 DEF GuardTrips, r
  <2> QED
    BY <2>1, <2>2, <2>3, HandleQuiet
<1> QED
  BY <1>2, <1>3

LEMMA StartEngineQuiet ==
    ASSUME Base, Recordings, StartEngine
    PROVE  pc' = "idle" \/ Quiet
<1> TypeOK /\ Ended /\ Placed /\ Formed(last) /\ Inside
  BY DEF Base, Sound, Recordings
<1>1. pc = "start" /\ eng = NoEngine /\ Engine = last /\ fin = NoEnd
  BY DEF StartEngine, Placed, Engine, NoEngine, Ended, WorkLabels, SaveLabels
<1>2. Queued(log, run, last)
  BY <1>1 DEF Inside
<1>3. CASE Handle("failed", run, FALSE)
  BY <1>1, <1>3, EndingQuiet
<1>4. CASE ~run.init /\ ~Handle("failed", run, FALSE)
  <2>1. /\ eng' = [NoEngine EXCEPT !.phase = "act", !.turn = run.step, !.tools = run.tools]
        /\ pc' = "save0" /\ UNCHANGED <<run, last, canWrite, fin>>
    BY <1>4 DEF StartEngine, Goto
  <2>2. eng'.phase = "act" /\ eng'.resp = 0 /\ eng'.persisted = FALSE
    BY <2>1 DEF NoEngine
  <2>3. last.resp = 0 /\ last.persisted = FALSE
    BY <1>2, <1>4 DEF Queued, Formed, TypeOK, EngineState
  <2> QED
    BY <1>1, <1>2, <1>4, <2>1, <2>2, <2>3
    DEF Quiet, RunQuiet, EngineQuiet, Quietly, Started, Engine, Queued, NoEnd, WorkLabels
<1>5. CASE run.init /\ ~Handle("failed", run, FALSE)
  <2>1. /\ eng' = last /\ last.phase # "none" /\ pc' = "execute"
        /\ UNCHANGED <<run, last, fin>>
    BY <1>5 DEF StartEngine, Goto
  <2> QED
    BY <1>1, <1>2, <1>5, <2>1
    DEF Quiet, RunQuiet, EngineQuiet, Quietly, Started, Engine, Queued, NoEnd, WorkLabels
<1> QED
  BY <1>3, <1>4, <1>5

(* A process that has left or not begun knows nothing. *)
LEMMA IdleInside ==
    ASSUME Base', pc' = "idle"
    PROVE  Inside'
  BY DEF Base, Sound, Placed, Inside, Coupled, Started, WorkLabels, SaveLabels

LEMMA StartInside ==
    ASSUME Base, Recordings, Launch \/ SetupFails \/ Resume \/ RefuseResume, Base'
    PROVE  Inside'
<1> Placed /\ Ended /\ TypeOK /\ \A d, e \in disk : d = e
  BY DEF Base, Sound
<1>1. /\ pc = "idle" /\ eng' = NoEngine /\ fin' = NoEnd /\ UNCHANGED <<log, disk, mode>>
      /\ \/ pc' = "idle"
         \/ /\ pc' = "skills" /\ run' = FreshRun /\ last' = NoEngine
            /\ log = <<>> /\ disk = {}
         \/ /\ pc' = "skills" /\ ~canWrite'
            /\ \E d \in disk : run' = d.run /\ last' = d.eng
  BY DEF Launch, SetupFails, Resume, RefuseResume, Goto, memory, world, Placed, Ended,
     WorkLabels
<1>2. CASE pc' = "idle"
  BY <1>2, IdleInside
<1>3. CASE pc' = "skills"
  <2>1. Engine' = last' /\ eng'.phase = "none"
    BY <1>1 DEF Engine, NoEngine
  <2>2. Queued(log, run, Engine)' /\ Settled(log, run, Engine)'
    <3>1. CASE run' = FreshRun /\ last' = NoEngine /\ log = <<>>
      <4>1. Queued(log, FreshRun, NoEngine) /\ Settled(log, FreshRun, NoEngine)
        BY <3>1
        DEF Queued, Settled, FreshRun, NoEngine, Lettered, Carried, HasAnswer, InLog
      <4> QED
        BY <1>1, <2>1, <3>1, <4>1 DEF Queued, Settled, mode
    <3>2. CASE \E d \in disk : run' = d.run /\ last' = d.eng
      <4>1. Queued(log, run', last') /\ Settled(log, run', last')
        BY <3>2 DEF Recordings
      <4> QED
        BY <1>1, <2>1, <4>1 DEF Queued, Settled, mode
    <3> QED
      BY <1>1, <1>3, <3>1, <3>2
  <2>3. Coupled'
    BY <1>1, <1>3, <2>1 DEF Coupled
  <2>4. canWrite' => last'.resp = 0
    BY <1>1, <1>3 DEF NoEngine
  <2> QED
    BY <1>1, <1>3, <2>1, <2>2, <2>3, <2>4 DEF Inside, Started, NoEnd, NoEngine
<1> QED
  BY <1>1, <1>2, <1>3

LEMMA LeavingQuiet ==
    ASSUME Base, Recordings, Keep \/ Tell \/ KeepAgain \/ Deliver \/ Crash
    PROVE  pc' = "idle" \/ Quiet
<1> Placed /\ Ended /\ TypeOK /\ Inside
  BY DEF Base, Sound, Recordings
<1>1. pc # "idle"
  BY DEF Keep, Tell, KeepAgain, Deliver, Crash
<1>2. \/ pc' = "idle"
      \/ /\ UNCHANGED memory /\ pc' \in {"tell", "keep2", "deliver"}
         /\ pc' = "tell" => pc = "keep"
  BY DEF Keep, Tell, KeepAgain, Deliver, Crash, Leave, Goto
<1>3. Queued(log, run, Engine)
  BY <1>1 DEF Inside
<1> QED
  BY <1>1, <1>2, <1>3 DEF Quiet, RunQuiet, EngineQuiet, Quietly, Started, Engine, Inside,
     Queued, Ended, memory, WorkLabels, SaveLabels
(* The steps that change what is to be stored, or the answer. *)
LEMMA DecideFinishInside ==
    ASSUME Base, Recordings, DecideFinish, ~staged, "finish_calls" \notin Decisions
    PROVE  Inside'
<1> TypeOK /\ Ended /\ Placed /\ Inside /\ run \in RunState /\ eng.phase = "act" /\ eng.resp = 0
  BY DEF Base, Sound, TypeOK, Recordings, Formed, DecideFinish, Placed
<1>1. /\ pc = "decide" /\ pc' = "decode" /\ said \in 0..MaxModelTurns /\ said # 0
      /\ run' = [run EXCEPT !.new = Append(run.new, said)]
      /\ UNCHANGED <<world, rest, eng, last, canWrite, said, fin>>
  BY DEF DecideFinish, Goto, Placed, TypeOK
<1>2. run'.new = Append(run.new, said) /\ run'.batch = run.batch /\ run'.init = run.init
      /\ run'.public = run.public
  BY <1>1 DEF RunState
<1>3. Engine = eng /\ Engine' = eng /\ Queued(log, run, eng)
  BY <1>1 DEF Engine, Inside
<1>4. Lettered(Append(run.new, said), run.batch = 0)
  <2>1. run.new \in Seq(0..MaxModelTurns)
    BY Types
  <2> QED
    BY <1>1, <1>3, <2>1, LetteredAppend DEF Queued
<1>5. /\ Append(run.new, said) # <<>>
      /\ \E i \in 1..Len(Append(run.new, said)) : Append(run.new, said)[i] = said
  <2> DEFINE t == Append(run.new, said)
  <2>1. run.new \in Seq(0..MaxModelTurns)
    BY Types
  <2>2. Len(t) = Len(run.new) + 1 /\ Len(run.new) \in Nat /\ t[Len(run.new) + 1] = said
    BY <2>1
  <2>3. Len(run.new) + 1 \in 1..Len(t)
    BY <2>2
  <2> HIDE DEF t
  <2>4. t # <<>> /\ \E i \in 1..Len(t) : t[i] = said
    BY <2>2, <2>3
  <2> QED
    BY <2>4 DEF t
<1>6. Queued(log, run', eng) /\ ~run'.public
  <2> DEFINE r == run'
  <2>1. r.new # <<>> /\ Lettered(r.new, r.batch = 0) /\ r.batch = run.batch /\ ~r.public
        /\ ~run.public
    BY <1>2, <1>3, <1>4, <1>5 DEF Queued
  <2> HIDE DEF r
  <2>2. Queued(log, r, eng)
    BY <1>3, <2>1, Types DEF Queued, Base, Sound, Formed
  <2> QED
    BY <2>1, <2>2 DEF r
<1>7. ~staged' /\ log' = log
  BY <1>1 DEF rest, mode, world
<1>8. Queued(log, run, Engine)' /\ Settled(log, run, Engine)'
  BY <1>3, <1>6, <1>7 DEF Queued, Settled
<1>9. Coupled'
  BY <1>7 DEF Coupled
<1>10. Started'
  BY <1>1, <1>2 DEF Inside, Started, Placed, WorkLabels, SaveLabels
<1> QED
  BY <1>1, <1>2, <1>3, <1>5, <1>6, <1>7, <1>8, <1>9, <1>10 DEF Inside

LEMMA DecodeInside ==
    ASSUME Base, Recordings, Decode, Base'
    PROVE  Inside'
<1> TypeOK /\ Ended /\ Placed /\ Inside /\ run \in RunState /\ eng \in EngineState
  BY DEF Base, Sound, TypeOK, Recordings
<1>1. /\ pc = "decode" /\ pc' = IF staged THEN "save_answer" ELSE "finish"
      /\ UNCHANGED <<disk, log, staged, last, canWrite>> /\ fin.kind = "none"
      /\ eng.resp = 0 /\ said # 0 /\ eng.phase \in {"act", "finalize"}
  BY OutcomeEnds, EndedSoFar
  DEF Decode, Goto, world, rest, mode, Placed, WorkLabels, SaveLabels
<1>2. /\ run'.new = run.new /\ run'.batch = run.batch /\ run'.init = run.init
      /\ run'.public = run.public
  BY DEF Decode, RunState
<1>3. /\ eng'.phase \in {eng.phase, "done"} /\ eng'.resp = said /\ eng'.persisted = eng.persisted
  BY DEF Decode, EngineState
<1>4. Engine = eng /\ Engine' = eng' /\ Queued(log, run, eng) /\ Settled(log, run, eng)
  BY <1>1, <1>3 DEF Engine, Inside
<1>5. run.init /\ ~eng.persisted /\ (staged => ~run.public /\ ~HasAnswer(log))
  <2>1. run.init
    BY <1>1 DEF Inside, Started, WorkLabels, SaveLabels
  <2> QED
    BY <1>1, <1>4, <2>1 DEF Queued, Settled, Base, Sound, Formed
<1>6. Queued(log, run, eng)' /\ Settled(log, run, eng)'
  <2> DEFINE r == run'
             e == eng'
  <2>1. /\ r.new = run.new /\ r.batch = run.batch /\ r.init /\ r.public = run.public
        /\ e.resp = said /\ ~e.persisted
        /\ ~staged => \E i \in 1..Len(run.new) : run.new[i] = said
    BY <1>1, <1>2, <1>3, <1>5 DEF Inside
  <2> HIDE DEF r, e
  <2>2. Carried(r) = Carried(run)
    BY <2>1 DEF Carried
  <2>3. Queued(log, r, e) /\ Settled(log, r, e)
    BY <1>1, <1>4, <1>5, <2>1, <2>2 DEF Queued, Settled
  <2>4. Queued(log, run', eng') /\ Settled(log, run', eng')
    BY <2>3 DEF r, e
  <2> QED
    BY <1>1, <2>4 DEF Queued, Settled
<1>7. Coupled'
  <2>1. (pc' = "save_answer" /\ ~run'.public) \/ ~staged'
    BY <1>1, <1>2, <1>5
  <2> QED
    BY <2>1 DEF Coupled
<1>8. last'.resp = 0
  BY <1>1, <1>4 DEF Inside
<1>9. Queued(log, run, Engine)' /\ Settled(log, run, Engine)'
  BY <1>4, <1>6
<1>10. fin'.kind = "completed" /\ pc' \in {"retire", "tell"} => FALSE
  BY <1>1
<1> QED
  BY <1>1, <1>2, <1>5, <1>7, <1>8, <1>9, <1>10 DEF Inside, Started

LEMMA PublishInside ==
    ASSUME Base, Recordings, Publish
    PROVE  Inside'
<1> TypeOK /\ Ended /\ Placed /\ Formed(eng) /\ Inside
    /\ run \in RunState /\ eng \in EngineState
  BY DEF Base, Sound, TypeOK, Recordings
<1>1. /\ pc = "publish" /\ UNCHANGED <<world, staged, eng, last, canWrite, fin>>
      /\ eng.resp # 0 /\ eng.phase = "finalize" /\ staged /\ fin.kind = "none"
      /\ Engine = eng /\ Engine' = eng
  BY EndedSoFar DEF Publish, rest, mode, Placed, Formed, Engine, WorkLabels, SaveLabels
<1>2. Queued(log, run, eng) /\ Settled(log, run, eng) /\ run.init
  BY <1>1 DEF Inside, Started, WorkLabels, SaveLabels
<1>3. CASE run' = run /\ pc' = "emit"
  <2>1. Quiet
    BY <1>1, <1>2, <1>3
    DEF Quiet, RunQuiet, EngineQuiet, Quietly, Started, Inside, WorkLabels, SaveLabels
  <2> QED
    BY <1>1, <2>1, QuietKeeps DEF Effect
<1>4. CASE ~eng.persisted /\ pc' = "store"
  <2> DEFINE r == run'
  <2>1. r.batch = run.batch /\ r.init /\ r.public /\ Carried(r) = Carried(run)
        /\ (run.public => r.new = run.new)
        /\ (~run.public => r.new = Append(Carried(run), eng.resp))
    <3>1. CASE run.public
      <4>1. run' = run
        BY <1>4, <3>1 DEF Publish, Goto
      <4> QED
        BY <1>2, <3>1, <4>1
    <3>2. CASE ~run.public
      <4>1. run' = [run EXCEPT !.public = TRUE, !.new = Append(run.new, eng.resp)]
        BY <1>4, <3>2 DEF Publish, Goto
      <4>2. run.new = Carried(run)
        BY <1>1, <1>2, <3>2 DEF Queued
      <4>3. r.batch = run.batch /\ r.init = run.init /\ r.public /\ r.new = Append(run.new, eng.resp)
        BY <4>1 DEF RunState
      <4> QED
        BY <1>2, <3>2, <4>2, <4>3 DEF Carried
    <3> QED
      BY <3>1, <3>2
  <2> HIDE DEF r
  <2>2. r.batch = 0 => r.new # <<>>
    BY <1>2, <2>1, CarriedAppend DEF Queued, EngineState
  <2>3. Lettered(r.new, r.batch = 0)
    <3>1. CASE run.public
      BY <1>2, <2>1, <3>1 DEF Queued
    <3>2. CASE ~run.public
      <4>1. run.new = Carried(run)
        BY <1>1, <1>2, <3>2 DEF Queued
      <4>2. run.new \in Seq(0..MaxModelTurns) /\ eng.resp \in 0..MaxModelTurns
        BY Types DEF EngineState
      <4>3. Lettered(Append(run.new, eng.resp), run.batch = 0)
        BY <1>1, <1>2, <4>2, LetteredAppend DEF Queued
      <4> QED
        BY <2>1, <3>2, <4>1, <4>3
    <3> QED
      BY <3>1, <3>2
  <2>4. run.public /\ r.new = <<>> => InLog(log, eng.resp)
    BY <1>2, <2>1 DEF Queued
  <2>5. ~run.public => r.new # <<>>
    BY <2>1, CarriedAppend DEF EngineState
  <2>6. r.new \in {<<>>, Append(Carried(r), eng.resp)}
    BY <1>1, <1>2, <2>1 DEF Queued
  <2>7. Queued(log, r, eng)
    BY <1>1, <1>2, <1>4, <2>1, <2>2, <2>3, <2>4, <2>5, <2>6 DEF Queued
  <2>8. Settled(log, r, eng)
    BY <1>2, <2>1 DEF Settled, Pending
  <2>9. Queued(log, run, Engine)' /\ Settled(log, run, Engine)'
    <3>1. Queued(log, run', eng) /\ Settled(log, run', eng)
      BY <2>7, <2>8 DEF r
    <3> QED
      BY <1>1, <3>1 DEF Queued, Settled, world
  <2>10. Coupled'
    <3>1. run'.batch = run.batch /\ run'.public
          /\ (run'.new # <<>> /\ run.public => run.new # <<>>)
      BY <2>1 DEF r
    <3>2. pc \in WorkLabels \ {"save_answer"}
      BY <1>1 DEF WorkLabels
    <3> QED
      BY <1>1, <3>1, <3>2, CoupledKeeps DEF Effect
  <2>11. run'.init /\ run'.public
    BY <2>1 DEF r
  <2> QED
    BY <1>1, <1>4, <2>9, <2>10, <2>11 DEF Inside, Started
<1> QED
  BY <1>3, <1>4 DEF Publish, Goto

(* A batch that was stored is done with. *)
LEMMA BatchDoneKeeps ==
    ASSUME TypeOK, ~Conflict, log' = Appended, NEW e \in EngineState, NEW f \in EngineState,
           Queued(log, run, e), Queued(log', run, e), Settled(log', run, e),
           f.resp = e.resp, f.persisted => e.persisted \/ run.public
    PROVE  /\ Queued(log', BatchDone(run), f) /\ Settled(log', BatchDone(run), f)
           /\ BatchDone(run).new = <<>> /\ BatchDone(run).public = run.public
           /\ BatchDone(run).init = run.init
<1>1. run \in RunState /\ run.batch <= Len(log) /\ run.batch \in Nat
  BY Types DEF TypeOK, Queued
<1>2. CASE run.new = <<>>
  <2>1. BatchDone(run) = run
    BY <1>2 DEF BatchDone
  <2> QED
    BY <1>2, <2>1 DEF Queued, Settled
<1>3. CASE run.new # <<>>
  <2> DEFINE r == BatchDone(run)
  <2>1. /\ r.new = <<>> /\ r.batch = run.batch + 1 /\ r.init = run.init
        /\ r.public = run.public
    BY <1>1, <1>3 DEF BatchDone, RunState
  <2> HIDE DEF r
  <2>2. run.batch < Len(log') /\ log'[run.batch + 1] = run.new /\ Len(log') \in Nat
    BY <1>1, <1>3, Growth
  <2>3. run.public => InLog(log', e.resp)
    <3>1. ASSUME run.public
          PROVE  InLog(log', e.resp)
      <4>1. run.new = Append(Carried(run), e.resp) /\ e.resp \in 0..MaxModelTurns
        BY <1>3, <3>1 DEF Queued, EngineState
      <4>2. \E i \in 1..Len(run.new) : run.new[i] = e.resp
        BY <1>1, <4>1, CarriedAppend
      <4> QED
        BY <1>1, <4>2, GrowthKeeps
    <3> QED
      BY <3>1
  <2>4. ~staged /\ e.resp # 0 => InLog(log', e.resp)
    BY <1>1, GrowthKeeps DEF Queued
  <2>5. Lettered(r.new, FALSE) /\ r.batch # 0 /\ r.batch <= Len(log') /\ Carried(r) = <<>>
    BY <1>1, <2>1, <2>2 DEF Lettered, Carried
  <2>6. Queued(log', r, f)
    BY <1>3, <2>1, <2>3, <2>4, <2>5 DEF Queued
  <2>7. Settled(log', r, f)
    <3> SUFFICES ASSUME staged, HasAnswer(log')
                 PROVE  f.resp # 0 /\ InLog(log', f.resp) /\ ~Pending(r)
      BY DEF Settled
    <3>1. /\ e.resp # 0 /\ InLog(log', e.resp)
          /\ run.batch = Len(log') - 1 /\ log'[Len(log')] = Append(Carried(run), e.resp)
      BY <1>3 DEF Settled, Pending
    <3>2. run.new = Append(Carried(run), e.resp)
      BY <1>1, <2>2, <3>1
    <3>3. run.public
      BY <1>1, <3>2, CarriedAppend DEF Queued, EngineState
    <3> QED
      BY <2>1, <3>1, <3>3 DEF Pending
  <2> QED
    BY <2>1, <2>6, <2>7 DEF r
<1> QED
  BY <1>2, <1>3

LEMMA PersistInside ==
    ASSUME Base, Recordings, Persist, ~Conflict, Base'
    PROVE  Inside'
<1> TypeOK /\ Ended /\ Placed /\ Formed(eng) /\ Inside
    /\ run \in RunState /\ eng \in EngineState
  BY DEF Base, Sound, TypeOK, Recordings
<1>1. /\ pc \in {"store", "finish"} /\ log' = Appended /\ UNCHANGED <<disk, staged, last, canWrite, fin>>
      /\ run' = BatchDone(run) /\ pc' = IF pc = "store" THEN "save_stored" ELSE "retire"
      /\ UNCHANGED <<calls, ran, shown>>
  BY DEF Persist, Goto, mode
<1>2. /\ eng'.phase = eng.phase /\ eng'.resp = eng.resp
      /\ eng'.persisted = (eng.persisted \/ pc = "store")
  BY DEF Persist, EngineState
<1>3. eng.phase # "none" /\ Engine = eng /\ Engine' = eng' /\ eng' \in EngineState
  BY <1>1, <1>2 DEF Placed, Engine, Base, Sound, TypeOK
<1>4. Queued(log, run, eng) /\ Queued(log', run, eng) /\ Settled(log', run, eng)
  BY <1>1, <1>3, EffectKeeps DEF Effect, Inside
<1>5. eng'.persisted => eng.persisted \/ run.public
  BY <1>1, <1>2 DEF Inside
<1>6. /\ Queued(log', run', eng') /\ Settled(log', run', eng')
      /\ run'.new = <<>> /\ run'.public = run.public /\ run'.init = run.init
  BY <1>1, <1>2, <1>3, <1>4, <1>5, BatchDoneKeeps
<1>7. Queued(log, run, Engine)' /\ Settled(log, run, Engine)'
  BY <1>1, <1>3, <1>6 DEF Queued, Settled
<1>8. staged /\ eng.resp # 0 => run.public
  <2>1. CASE pc = "store"
    BY <2>1 DEF Inside
  <2>2. CASE pc = "finish"
    <3>1. eng.phase \in {"done", "failed"}
      BY <2>2 DEF Placed
    <3> QED
      BY <1>4, <3>1 DEF Formed, Queued
  <2> QED
    BY <1>1, <2>1, <2>2
<1>9. Coupled'
  BY <1>1, <1>2, <1>3, <1>6, <1>8 DEF Coupled
<1>10. eng.resp # 0 => InLog(log', eng.resp)
  <2>1. CASE staged
    BY <1>1, <1>2, <1>6, <1>8, <2>1 DEF Queued
  <2>2. CASE ~staged
    BY <1>2, <1>6, <2>2 DEF Queued
  <2> QED
    BY <2>1, <2>2
<1>11. Started'
  BY <1>1, <1>3, <1>6 DEF Inside, Started, WorkLabels, SaveLabels
<1> QED
  BY <1>1, <1>2, <1>3, <1>7, <1>9, <1>10, <1>11 DEF Inside

LEMMA PersistSafelyInside ==
    ASSUME Base, Recordings, PersistSafely, Effect
    PROVE  Inside'
<1> TypeOK /\ Ended /\ Placed /\ Formed(eng) /\ Inside /\ run \in RunState
  BY DEF Base, Sound, TypeOK, Recordings
<1>1. /\ pc = "persist" /\ pc' = "keep" /\ canWrite /\ fin.kind # "completed"
      /\ UNCHANGED <<disk, staged, eng, last, canWrite, fin>> /\ Engine' = Engine
  BY DEF PersistSafely, Goto, Ended, Engine, mode
<1>2. Engine \in EngineState
  BY EngineTyped
<1>3. CASE run' = run
  <2>1. Queued(log, run, Engine)
    BY <1>1 DEF Inside
  <2>2. Quiet
    BY <1>1, <1>3, <2>1
    DEF Quiet, RunQuiet, EngineQuiet, Quietly, Started, Inside, Queued, WorkLabels, SaveLabels
  <2> QED
    BY <1>1, <2>2, QuietKeeps
<1>4. CASE ~Conflict /\ log' = Appended /\ run' = BatchDone(run)
  <2>1. Queued(log, run, Engine) /\ Queued(log', run, Engine) /\ Settled(log', run, Engine)
    BY <1>1, EffectKeeps DEF Inside
  <2>2. Queued(log', run', Engine) /\ Settled(log', run', Engine) /\ run'.new = <<>>
    BY <1>2, <1>4, <2>1, BatchDoneKeeps
  <2>3. Queued(log, run, Engine)' /\ Settled(log, run, Engine)'
    BY <1>1, <2>2 DEF Queued, Settled
  <2>4. Coupled' /\ Started'
    BY <1>1, <2>2 DEF Coupled, Started, WorkLabels, SaveLabels
  <2> QED
    BY <1>1, <2>3, <2>4 DEF Inside
<1> QED
  BY <1>3, <1>4 DEF PersistSafely

LEMMA NextInside ==
    ASSUME Base, Recordings, Next, "finish_calls" \notin Decisions
    PROVE  Inside'
<1>1. Base'
  BY NextBase
<1>2. CASE pc = "idle"
  BY <1>1, <1>2, NextEffect, StartInside
<1>3. CASE pc' = "idle"
  BY <1>1, <1>3, IdleInside
<1>4. CASE pc # "idle" /\ pc' # "idle"
  <2>1. Effect /\ UNCHANGED staged
    BY <1>4, NextEffect DEF mode
  <2>2. CASE \/ Fails
             \/ GuardTrips
             \/ Handle("failed", run, FALSE)
             \/ Handle("cancelled", run, FALSE)
    BY <1>4, <2>1, <2>2, EndingQuiet, QuietKeeps
  <2>3. CASE Reserve \/ Execute \/ Persist
    <3>1. Reserve => Fails \/ GuardTrips \/ (call # "barred" /\ run.guard < MaxModelTurns)
      BY DEF Reserve
    <3>2. eng.phase = "done" /\ eng.resp = 0 /\ Execute => Fails
      BY DEF Execute
    <3>3. Conflict /\ Persist => Fails
      BY DEF Persist
    <3> QED
      BY <1>1, <1>4, <2>1, <2>2, <2>3, <3>1, <3>2, <3>3, ReserveQuiet, ExecuteQuiet,
         PersistInside, QuietKeeps
  <2>4. CASE CheckpointAborted \/ NoProgress \/ Cancel \/ Raise
    BY <2>2, <2>4 DEF CheckpointAborted, NoProgress, Cancel, Raise
  <2>5. CASE DecideFinish \/ Decode \/ Publish \/ PersistSafely
    BY <1>1, <1>4, <2>1, <2>5, DecideFinishQuiet, DecideFinishInside, DecodeInside, PublishInside,
       PersistSafelyInside, QuietKeeps
  <2>6. CASE \/ SelectSkills \/ StartEngine \/ Checkpoint \/ Respond \/ RetryCall \/ SkipSummary
             \/ Turn \/ Prepare \/ DecideCustom \/ DecideFail \/ DecideContinue \/ DecideTools
             \/ Intent \/ RunTools \/ ToolsFail \/ Finalize \/ Emit \/ Show \/ Retire
             \/ Keep \/ Tell \/ KeepAgain \/ Deliver \/ Crash
    <3>1. Quiet
      BY <1>4, <2>6, SelectSkillsQuiet, StartEngineQuiet, CheckpointQuiet, RespondQuiet,
         RetryCallQuiet, SkipSummaryQuiet, TurnQuiet, PrepareQuiet, DecideCustomQuiet,
         DecideFailQuiet, DecideContinueQuiet, DecideToolsQuiet, IntentQuiet, RunToolsQuiet,
         ToolsFailQuiet, FinalizeQuiet, EmitQuiet, ShowQuiet, RetireQuiet, LeavingQuiet
    <3> QED
      BY <1>4, <2>1, <3>1, QuietKeeps
  <2>7. ~(Launch \/ SetupFails \/ Resume \/ RefuseResume)
    BY <1>4 DEF Launch, SetupFails, Resume, RefuseResume
  <2> QED
    BY <2>3, <2>4, <2>5, <2>6, <2>7 DEF Next
<1> QED
  BY <1>2, <1>3, <1>4

(* Only Tell says that a run is completed. *)
LEMMA NextTold ==
    ASSUME Base, Next
    PROVE  told' = told \/ told'.kind # "completed" \/ Tell
<1>1. CASE Launch \/ SetupFails \/ Resume \/ RefuseResume
  BY <1>1 DEF Launch, SetupFails, Resume, RefuseResume, NotTold
<1>2. CASE ~(Launch \/ SetupFails \/ Resume \/ RefuseResume) /\ ~Tell
  BY <1>2
  DEF Next, SelectSkills, StartEngine, Checkpoint, CheckpointAborted, Reserve, Respond,
      RetryCall, NoProgress, SkipSummary, Execute, Turn, Prepare, DecideFinish, DecideCustom,
      DecideFail, DecideContinue, DecideTools, Intent, RunTools, ToolsFail, Decode, Finalize,
      Publish, Persist, Emit, Show, Retire, PersistSafely, Keep, KeepAgain, Deliver,
      Cancel, Raise, Crash, rest
<1> QED
  BY <1>1, <1>2

LEMMA RecordingsInvariant ==
    ASSUME "finish_calls" \notin Decisions
    PROVE  Spec => []Recordings
<1>1. Init => Recordings
  BY DEF Init, Recordings, Shaped, Inside, Coupled, Started, WorkLabels, SaveLabels, NoEnd,
     NotTold
<1>2. ASSUME Base, Recordings, [Next]_vars
      PROVE  Recordings'
  <2>1. CASE UNCHANGED vars
    BY <1>2, <2>1
    DEF vars, world, memory, rest, mode, Recordings, Shaped, Inside, Coupled, Started, Queued,
        Settled, Engine
  <2>2. CASE Next
    <3>1. Inside'
      BY <1>2, <2>2, NextInside
    <3>2. /\ staged' = staged /\ Shaped(log') /\ \A x : InLog(log, x) => InLog(log', x)
          /\ \A d \in disk' : Queued(log', d.run, d.eng) /\ Settled(log', d.run, d.eng)
      <4>1. CASE pc = "idle"
        BY <1>2, <2>2, <4>1, NextEffect DEF Recordings, world, mode
      <4>2. CASE pc # "idle"
        BY <1>2, <2>2, <4>2, NextEffect, EffectKeeps DEF mode
      <4> QED
        BY <4>1, <4>2
    <3>3. Shaped(log)'
      BY <3>2 DEF Shaped
    <3>4. \A d \in disk' : Queued(log, d.run, d.eng)' /\ Settled(log, d.run, d.eng)'
      BY <3>2 DEF Queued, Settled
    <3>5. ASSUME told'.kind = "completed", told'.answer # 0
          PROVE  InLog(log', told'.answer)
      <4>1. CASE told' = told
        BY <1>2, <3>2, <3>5, <4>1 DEF Recordings
      <4>2. CASE Tell
        BY <1>2, <3>2, <3>5, <4>2 DEF Tell, Recordings, Inside
      <4> QED
        BY <1>2, <2>2, <3>5, <4>1, <4>2, NextTold
    <3> QED
      BY <3>1, <3>3, <3>4, <3>5 DEF Recordings
  <2> QED
    BY <1>2, <2>1, <2>2
<1> QED
  BY <1>1, <1>2, BaseInvariant, PTL DEF Spec

-----------------------------------------------------------------------------
(* The answer is shown. *)

(* What was emitted stays so. *)
LEMMA EmittedStays ==
    ASSUME Base, Recordings, Next, pc # "idle", pc' # "idle", Engine.emitted
    PROVE  Engine'.emitted
<1> TypeOK /\ Placed /\ Formed(eng) /\ Formed(last) /\ Inside /\ eng \in EngineState
  BY DEF Base, Sound, TypeOK, Recordings
<1>1. Engine.phase = "done" /\ Engine.resp # 0
  BY DEF Engine, Formed
<1>2. Queued(log, run, Engine) /\ (pc = "save0" => Engine.phase = "act")
  BY DEF Inside, Placed, Engine
<1>3. CASE UNCHANGED <<eng, last>>
  BY <1>3 DEF Engine
<1>4. CASE \/ Fails
           \/ GuardTrips
           \/ Handle("failed", run, FALSE)
           \/ Handle("cancelled", run, FALSE)
  <2>1. pc # "save0"
    BY <1>1, <1>2
  <2>2. UNCHANGED <<eng, last>>
    BY <1>4, <2>1 DEF Fails, GuardTrips, Handle, Leave
  <2> QED
    BY <1>3, <2>2
<1>5. CASE Turn \/ DecideCustom \/ DecideFail \/ DecideTools \/ Decode \/ Finalize
  <2>1. eng.phase \in {"act", "finalize"}
    BY <1>5 DEF Turn, DecideCustom, DecideFail, DecideTools, Decode, Finalize, Placed
  <2> QED
    BY <1>1, <2>1 DEF Engine
<1>6. CASE StartEngine
  <2>1. run.init
    BY <1>1, <1>2 DEF Queued
  <2>2. eng = NoEngine /\ (eng' = last \/ Handle("failed", run, FALSE))
    BY <1>6, <2>1 DEF StartEngine, Placed
  <2> QED
    BY <1>4, <2>2 DEF Engine, NoEngine, Formed
<1>7. CASE Checkpoint
  <2>1. eng' = eng /\ last' \in {last, eng} /\ pc \in SaveLabels
    BY <1>7 DEF Checkpoint, Snapshot
  <2>2. eng.phase = "none" => last' = last
    BY <1>7 DEF Checkpoint, Snapshot, Placed, SaveLabels
  <2> QED
    BY <2>1, <2>2 DEF Engine
<1>8. CASE SkipSummary
  BY <1>3, <1>8 DEF SkipSummary, Snapshot
<1>9. CASE Persist
  <2>1. CASE Conflict
    BY <1>4, <1>9, <2>1 DEF Persist
  <2>2. CASE ~Conflict
    <3>1. eng'.phase = eng.phase /\ eng'.emitted = eng.emitted /\ last' = last
      BY <1>9, <2>2 DEF Persist, EngineState
    <3> QED
      BY <1>9, <3>1 DEF Persist, Placed, Engine
  <2> QED
    BY <2>1, <2>2
<1>10. CASE Emit
  <2>1. eng.phase = "finalize"
    BY <1>10 DEF Emit, Placed
  <2> QED
    BY <1>1, <2>1 DEF Engine
<1>11. CASE Keep \/ Tell \/ KeepAgain \/ Deliver \/ Crash
  <2>1. UNCHANGED memory
    BY <1>11 DEF Keep, Tell, KeepAgain, Deliver, Crash, Leave
  <2> QED
    BY <1>3, <2>1 DEF memory
<1>12. CASE Reserve \/ Execute
  <2>1. UNCHANGED <<eng, last>> \/ GuardTrips \/ Fails
    BY <1>12 DEF Reserve, Execute, memory
  <2> QED
    BY <1>3, <1>4, <2>1
<1>13. CASE CheckpointAborted \/ NoProgress \/ Cancel \/ Raise
  BY <1>4, <1>13 DEF CheckpointAborted, NoProgress, Cancel, Raise
<1>14. CASE \/ SelectSkills \/ Respond \/ RetryCall \/ Prepare \/ DecideFinish \/ DecideContinue
            \/ Intent \/ RunTools \/ ToolsFail \/ Publish \/ Show \/ Retire \/ PersistSafely
  BY <1>3, <1>14
  DEF SelectSkills, Respond, RetryCall, Prepare, DecideFinish, DecideContinue, Intent, RunTools,
      ToolsFail, Publish, Show, Retire, PersistSafely, memory
<1>15. ~(Launch \/ SetupFails \/ Resume \/ RefuseResume)
  BY DEF Launch, SetupFails, Resume, RefuseResume
<1> QED
  BY <1>5, <1>6, <1>7, <1>8, <1>9, <1>10, <1>11, <1>12, <1>13, <1>14, <1>15 DEF Next

(* The only ways to where the answer is shown. *)
LEMMA ShowingSteps ==
    ASSUME Base, Next, pc' \in {"save_emit", "show"}
    PROVE  \/ Emit /\ ~eng.emitted /\ UNCHANGED world
           \/ Checkpoint /\ pc = "save_emit" /\ pc' = "show"
<1>1. CASE \/ Fails
           \/ GuardTrips
           \/ Handle("failed", run, FALSE)
           \/ Handle("cancelled", run, FALSE)
           \/ Leave
  BY <1>1 DEF Fails, GuardTrips, Handle, Leave, Goto
<1>2. CASE CheckpointAborted \/ NoProgress \/ Cancel \/ Raise \/ Crash
  BY <1>1, <1>2 DEF CheckpointAborted, NoProgress, Cancel, Raise, Crash
<1>3. CASE Checkpoint
  <2>1. pc \in SaveLabels \ {"save_abort"} /\ pc' = AfterSave[pc]
    BY <1>3 DEF Checkpoint, Goto
  <2> QED
    BY <1>3, <2>1, AfterSaveIs DEF SaveLabels
<1>4. CASE Emit
  BY <1>4, OutcomeEnds DEF Emit
<1>5. CASE \/ Launch \/ SetupFails \/ Resume \/ RefuseResume \/ SelectSkills \/ RetryCall
           \/ SkipSummary \/ Prepare \/ DecideFinish \/ DecideContinue \/ Intent \/ RunTools
           \/ ToolsFail \/ Finalize \/ Publish \/ Retire \/ PersistSafely
  BY <1>5
  DEF Launch, SetupFails, Resume, RefuseResume, SelectSkills, RetryCall, SkipSummary, AfterCall,
      Prepare, DecideFinish, DecideContinue, Intent, RunTools, ToolsFail, Finalize, Publish,
      Retire, PersistSafely, Goto
<1>6. CASE Turn \/ DecideCustom \/ DecideFail \/ DecideTools \/ Decode \/ Show
  BY <1>6, OutcomeEnds DEF Turn, DecideCustom, DecideFail, DecideTools, Decode, Show, Goto
<1>7. CASE Execute
  BY <1>1, <1>7, OutcomeEnds DEF Execute, Goto
<1>8. CASE Reserve \/ Persist \/ StartEngine
  BY <1>1, <1>8 DEF Reserve, Persist, StartEngine, Goto
<1>9. CASE Keep \/ Tell \/ KeepAgain \/ Deliver
  BY <1>1, <1>9 DEF Keep, Tell, KeepAgain, Deliver, Goto
<1>10. CASE Respond
  BY <1>10, RespondLeads
<1> QED
  BY <1>2, <1>3, <1>4, <1>5, <1>6, <1>7, <1>8, <1>9, <1>10 DEF Next

LEMMA EffectShows ==
    ASSUME Base, Recordings, Showing, Effect, pc # "idle"
    PROVE  /\ shown' <= 1
           /\ shown' = 1 => /\ \A d \in disk' : d.eng.emitted
                            /\ Engine.emitted /\ HasAnswer(log')
<1>1. TypeOK /\ Placed /\ Inside
  BY DEF Base, Sound, Recordings
<1>2. CASE pc = "show" /\ shown' = shown + 1 /\ UNCHANGED <<disk, log, calls, ran>>
  <2>1. eng.persisted /\ eng.emitted /\ Engine = eng
    BY <1>1, <1>2 DEF Placed, Engine
  <2>2. Queued(log, run, eng)
    BY <1>1, <1>2, <2>1 DEF Inside
  <2>3. InLog(log, eng.resp) /\ eng.resp # 0
    BY <2>1, <2>2 DEF Queued
  <2>4. HasAnswer(log)
    BY <2>3 DEF HasAnswer, InLog
  <2> QED
    BY <1>1, <1>2, <2>1, <2>4 DEF Showing, TypeOK
<1>3. CASE /\ pc \in SaveLabels \cup {"retire", "keep", "keep2"}
           /\ disk' = Saved(Snapshot) /\ UNCHANGED <<log, calls, ran, shown>>
  BY <1>3, SnapshotFits DEF Showing, Saved
<1>4. CASE /\ pc \in {"store", "finish", "persist"} /\ ~Conflict
           /\ log' = Appended /\ UNCHANGED <<disk, calls, ran, shown>>
  <2>1. Queued(log, run, Engine)
    BY <1>1, <1>4 DEF Inside
  <2>2. HasAnswer(log) => HasAnswer(log')
    BY <1>1, <1>4, <2>1, GrowthKeeps DEF Queued
  <2> QED
    BY <1>4, <2>2 DEF Showing
<1> QED
  BY <1>2, <1>3, <1>4 DEF Effect, Showing, world

LEMMA ShowingInvariant ==
    ASSUME "finish_calls" \notin Decisions
    PROVE  Spec => []Showing
<1>1. Init => Showing
  BY DEF Init, Showing
<1>2. ASSUME Base, Recordings, Showing, [Next]_vars
      PROVE  Showing'
  <2>1. CASE UNCHANGED vars
    BY <1>2, <2>1 DEF vars, world, memory, Showing, Engine
  <2>2. CASE Next
    <3>1. shown' <= 1
      BY <1>2, <2>2, NextEffect, EffectShows DEF Showing, world
    <3>2. ASSUME shown' = 1
          PROVE  /\ \A d \in disk' : d.eng.emitted
                 /\ pc' # "idle" => Engine'.emitted
                 /\ HasAnswer(log')
      <4>1. CASE pc = "idle"
        <5>1. /\ UNCHANGED world
              /\ \/ pc' = "idle"
                 \/ starts = 0
                 \/ eng' = eng /\ \E d \in disk : last' = d.eng
          BY <1>2, <2>2, <4>1, NextEffect DEF Launch, SetupFails, Resume, RefuseResume, Goto
        <5>2. starts # 0 /\ eng = NoEngine
          BY <1>2, <3>2, <4>1, <5>1 DEF Base, Sound, Placed, world
        <5> QED
          BY <1>2, <3>2, <5>1, <5>2 DEF Showing, Engine, NoEngine, world
      <4>2. CASE pc # "idle"
        BY <1>2, <2>2, <3>2, <4>2, NextEffect, EffectShows, EmittedStays
      <4> QED
        BY <4>1, <4>2
    <3>3. ASSUME pc' \in {"save_emit", "show"}
          PROVE  shown' = 0 /\ (pc' = "show" => \A d \in disk' : d.eng.emitted)
      <4>1. CASE Emit /\ ~eng.emitted /\ UNCHANGED world
        <5>1. shown \in Nat /\ shown # 1 /\ shown <= 1
          <6>1. pc = "emit" /\ eng.phase = "finalize"
            BY <1>2, <4>1 DEF Emit, Base, Sound, Placed
          <6> QED
            BY <1>2, <4>1, <6>1 DEF Showing, Engine, Base, Sound, TypeOK
        <5>2. pc' # "show"
          BY <4>1, OutcomeEnds DEF Emit, Goto
        <5> QED
          BY <4>1, <5>1, <5>2 DEF world
      <4>2. CASE Checkpoint /\ pc = "save_emit" /\ pc' = "show"
        BY <1>2, <4>2 DEF Checkpoint, Snapshot, Saved, Showing, Base, Sound, Placed
      <4> QED
        BY <1>2, <2>2, <3>3, <4>1, <4>2, ShowingSteps
    <3> QED
      BY <3>1, <3>2, <3>3 DEF Showing
  <2> QED
    BY <1>2, <2>1, <2>2
<1> QED
  BY <1>1, <1>2, BaseInvariant, RecordingsInvariant, PTL DEF Spec

(* The places where the conversation has the input and the answers, as the  *)
(* shape of its batches says.                                               *)
LEMMA ShapedStored ==
    ASSUME TypeOK, Shaped(log)
    PROVE  /\ Inputs \subseteq {<<1, 1>>}
           /\ log # <<>> => <<1, 1>> \in Inputs
           /\ \A x \in 0..MaxModelTurns :
                 x # 0 /\ InLog(log, x) => \E p \in Answers : log[p[1]][p[2]] = x
           /\ HasAnswer(log) => Answers # {}
           /\ staged => \A p, q \in Answers : p = q
<1>1. log \in Seq(Seq(0..MaxModelTurns))
  BY DEF TypeOK
<1>2. Stored = {p \in Stored : p = <<p[1], p[2]>> /\ p[1] \in 1..Len(log)
                                /\ p[2] \in 1..Len(log[p[1]])}
  BY DEF Stored
<1>3. \A p \in Stored : p = <<p[1], p[2]>> /\ p[1] \in 1..Len(log) /\ p[2] \in 1..Len(log[p[1]])
  BY <1>2
<1>4. \A b \in 1..Len(log) : \A i \in 1..Len(log[b]) : <<b, i>> \in Stored
  BY DEF Stored
<1>5. \A b \in 1..Len(log) : \A i \in 1..Len(log[b]) : log[b][i] = 0 <=> b = 1 /\ i = 1
  BY DEF Shaped, Lettered
<1>6. Inputs \subseteq {<<1, 1>>}
  <2> SUFFICES ASSUME NEW p \in Inputs
               PROVE  p = <<1, 1>>
    OBVIOUS
  <2>1. p \in Stored /\ log[p[1]][p[2]] = 0
    BY DEF Inputs, Answers
  <2> QED
    BY <2>1, <1>3, <1>5
<1>7. ASSUME log # <<>>
      PROVE  <<1, 1>> \in Inputs
  <2>1. 1 \in 1..Len(log)
    BY <1>1, <1>7
  <2>2. log[1] \in Seq(0..MaxModelTurns) /\ log[1] # <<>>
    BY <1>1, <2>1 DEF Shaped
  <2>3. 1 \in 1..Len(log[1])
    BY <2>2
  <2> QED
    BY <2>1, <2>3, <1>4, <1>5 DEF Inputs, Answers
<1>8. \A b \in 1..Len(log) : \A i \in 1..Len(log[b]) :
         log[b][i] # 0 => <<b, i>> \in Answers
  BY <1>4 DEF Answers
<1>9. \A x \in 0..MaxModelTurns :
         x # 0 /\ InLog(log, x) => \E p \in Answers : log[p[1]][p[2]] = x
  BY <1>8 DEF InLog
<1>10. HasAnswer(log) => Answers # {}
  BY <1>8 DEF HasAnswer
<1>11. ASSUME staged, NEW p \in Answers, NEW q \in Answers
       PROVE  p = q
  <2>1. p \in Stored /\ q \in Stored /\ log[p[1]][p[2]] # 0 /\ log[q[1]][q[2]] # 0
    BY DEF Answers
  <2>2. p[1] = q[1] /\ p[2] = q[2]
    BY <2>1, <1>3, <1>11 DEF Shaped
  <2> QED
    BY <2>1, <2>2, <1>3
<1> QED
  BY <1>6, <1>7, <1>9, <1>10, <1>11

LEMMA AtMostOne ==
    ASSUME NEW S, \A p, q \in S : p = q
    PROVE  Cardinality(S) <= 1
<1>1. CASE S = {}
  BY <1>1, FS_EmptySet
<1>2. CASE S # {}
  <2>1. PICK p : S = {p}
    BY <1>2
  <2>2. Cardinality({p}) = 1
    BY FS_Singleton
  <2> QED
    BY <2>1, <2>2
<1> QED
  BY <1>1, <1>2

(* However often a run is interrupted and resumed, and whatever fails: an   *)
(* answer that was reported is in the conversation, after its input; the    *)
(* input is there at most once and, with staged finalization, so is the     *)
(* answer; and what is shown is shown once, after it was stored             *)
(* (_persist_conversation, emit_finalization, _complete).  Every policy of  *)
(* the repository finishes only on a response without tool calls; one that  *)
(* finishes on a response with some would not have it stored.               *)
THEOREM AnswersStayHonest ==
    ASSUME "finish_calls" \notin Decisions
    PROVE  Spec => []AnswersAreHonest
<1>1. Base /\ Recordings /\ Showing => AnswersAreHonest
  <2> SUFFICES ASSUME Base, Recordings, Showing
               PROVE  AnswersAreHonest
    OBVIOUS
  <2>1. TypeOK
    BY DEF Base, Sound
  <2>2. Shaped(log)
    BY DEF Recordings
  <2>3. CompletedIsRecorded
    <3> SUFFICES ASSUME told.kind = "completed", told.answer # 0
                 PROVE  (\E p \in Answers : log[p[1]][p[2]] = told.answer) /\ Inputs # {}
      BY DEF CompletedIsRecorded
    <3>1. InLog(log, told.answer) /\ told.answer \in 0..MaxModelTurns
      BY <2>1 DEF Recordings, TypeOK
    <3>2. log # <<>>
      BY <3>1 DEF InLog
    <3> QED
      BY <2>1, <2>2, <3>1, <3>2, ShapedStored
  <2>4. RecordedOnce
    <3>1. \A p, q \in Inputs : p = q
      BY <2>1, <2>2, ShapedStored
    <3>2. staged => \A p, q \in Answers : p = q
      BY <2>1, <2>2, ShapedStored
    <3> QED
      BY <3>1, <3>2, AtMostOne DEF RecordedOnce, OneAnswer
  <2>5. ShownOnceAfterStored
    BY <2>1, <2>2, ShapedStored DEF Showing, ShownOnceAfterStored
  <2> QED
    BY <2>1, <2>3, <2>4, <2>5 DEF AnswersAreHonest
<1> QED
  BY <1>1, BaseInvariant, RecordingsInvariant, ShowingInvariant, PTL
=============================================================================
