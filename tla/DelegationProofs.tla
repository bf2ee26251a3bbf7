-------------------------- MODULE DelegationProofs ---------------------------
(***************************************************************************)
(* Proofs about the delegation coordinator, for any set of processes,      *)
(* results, attempts and calls.  They are made in three layers, each       *)
(* inductive given those before: what every call knows of the receipt      *)
(* (with resume and second cancellations too); without resume, that one    *)
(* process alone has to do with the child; and without second              *)
(* cancellations either, that nobody executes the child once the receipt   *)
(* or the checkpoint shows its end.                                        *)
(***************************************************************************)
EXTENDS Delegation, FiniteSetTheorems, TLAPS

-----------------------------------------------------------------------------
(* The types of the state, part by part. *)
Labels ==
    {"idle", "inspect", "closeLease", "markManual", "resume", "reserve", "uncertain", "start",
     "invoke", "wait", "grace", "cancelReceipt", "reconcile", "adopt", "finish", "report",
     "settle", "replay", "release"}

AnswerKinds ==
    {"none", "ok", "failed", "cancelled", "manual", "in_progress", "refused", "interrupted",
     "error"}

OutcomeType ==
    [status: Closed \cup {"none"}, reason: Reasons, resumable: BOOLEAN,
     result: Results \cup {NoResult}]

ChildType == [attempt: 0..MaxAttempts, state: {"none", "running", "written"}]
CheckpointType == [attempt: 0..MaxAttempts, outcome: OutcomeType]

PlacesTyped == pc \in [Procs -> Labels] /\ ans \in [Procs -> AnswerKinds]

CallsTyped ==
    /\ seen \in [Procs -> ReceiptType] /\ out \in [Procs -> OutcomeType]
    /\ owns \in [Procs -> BOOLEAN] /\ settled \in [Procs -> BOOLEAN]
    /\ begunLate \in [Procs -> BOOLEAN]

TasksTyped ==
    /\ child \in [Procs -> ChildType]
    /\ zombies \in [Procs -> SUBSET Attempts] /\ retained \in [Procs -> SUBSET Attempts]

DurableTyped ==
    /\ receipt \in ReceiptType /\ lease \in [Attempts -> LeaseStatuses]
    /\ ckpt \in CheckpointType
    /\ cancelled \in BOOLEAN /\ late \in BOOLEAN

HistoryTyped == calls \in 0..MaxCalls /\ runs \in [Attempts -> Nat] /\ got \subseteq Results

Typed == PlacesTyped /\ CallsTyped /\ TasksTyped /\ DurableTyped /\ HistoryTyped

-----------------------------------------------------------------------------
(* An outcome that a receipt may record. *)
Final(o) == o.status \in Closed /\ (o.status = "completed" => o.result \in Results)

(* What a call knows of the receipt and of the outcome that it finishes. *)
Knows(p) ==
    /\ pc[p] # "idle" => /\ receipt.status # "absent" /\ seen[p].status # "absent"
                         /\ seen[p].attempt \in Attempts
    /\ pc[p] # "idle" /\ seen[p].status \in Closed =>
          \/ receipt = seen[p]
          \/ seen[p].status = "failed" /\ seen[p].resumable /\ AllowResume
    /\ pc[p] = "resume" => AllowResume
    /\ pc[p] = "replay" => seen[p].status = "completed"
    /\ pc[p] = "closeLease" => seen[p].status \in {"completed", "failed", "cancelled"}
    /\ pc[p] \in {"finish", "cancelReceipt", "report", "settle", "adopt"} => Final(out[p])
    /\ pc[p] = "settle" /\ out[p].status = "completed" =>
          receipt.status = "completed" /\ receipt.result = out[p].result
    /\ pc[p] = "settle" => out[p].status # "manual"
    /\ pc[p] = "report" => out[p].status # "completed"
    /\ child[p].state # "none" => pc[p] \in {"wait", "grace"} /\ child[p].attempt \in Attempts
    /\ child[p].state = "written" => Final(out[p]) /\ out[p].status # "manual"

(* What the receipt and the checkpoint tell by themselves. *)
ReceiptTells ==
    /\ receipt.status # "absent" => receipt.attempt \in Attempts
    /\ receipt.status = "absent" => receipt = NoReceipt
    /\ receipt.status = "completed" => receipt.result \in Results

CheckpointTells == ckpt.attempt # 0 => Final(ckpt.outcome) /\ ckpt.outcome.status # "manual"

Known ==
    /\ ReceiptTells /\ CheckpointTells /\ AnswersAreTheReceipt
    /\ \A p \in Procs : Knows(p)

-----------------------------------------------------------------------------
(* Without resume: the process that claimed the delegation first, as long   *)
(* as it has to do with the child.                                          *)
Starting(p) == pc[p] \in {"reserve", "start", "invoke"}

Owner(p) ==
    \/ Starting(p) \/ pc[p] \in {"wait", "grace"}
    \/ owns[p] \/ zombies[p] # {} \/ retained[p] # {}

Alone(p) ==
    /\ pc[p] # "idle" =>
          /\ receipt.attempt = 1 /\ seen[p].attempt = 1 /\ seen[p].owner = receipt.owner
          /\ begunLate[p] => late
    /\ pc[p] # "idle" /\ seen[p].status # "reserved" => receipt.status \in {"running"} \cup Closed
    /\ Starting(p) \/ pc[p] \in {"wait", "grace"} => zombies[p] = {} /\ retained[p] = {}
    /\ Starting(p) => runs[1] = 0
    /\ child[p].state # "none" => child[p].attempt = 1
    /\ zombies[p] \subseteq {1} /\ retained[p] \subseteq {1}
    /\ pc[p] \in {"report", "settle"} => receipt.status \in Closed
    /\ pc[p] \in {"invoke", "wait", "finish"} => receipt.status \in {"running"} \cup Closed
    /\ pc[p] \in {"start", "invoke", "wait", "grace", "cancelReceipt"} => ~begunLate[p]
    /\ owns[p] => ~begunLate[p] /\ pc[p] # "idle"
    /\ pc[p] = "release" /\ begunLate[p] => receipt.status \in Closed

(* The child starts once, in the first attempt, and the ledger is settled   *)
(* after the receipt.                                                       *)
Once ==
    /\ receipt.attempt \in {0, 1} /\ ckpt.attempt \in {0, 1}
    /\ runs[1] <= 1 /\ (receipt.status = "absent" => runs[1] = 0)
    /\ \A a \in Attempts : a # 1 => runs[a] = 0 /\ lease[a] = "none"
    /\ lease[1] = "completed" => receipt.status \in Closed

Sole ==
    /\ Once
    /\ \A p \in Procs : Alone(p)
    /\ receipt.status = "absent" => \A p \in Procs : ~Owner(p)
    /\ \A p, q \in Procs : Owner(p) /\ Owner(q) => p = q

-----------------------------------------------------------------------------
(* Without resume and second cancellations: nobody executes the child, or   *)
(* is going to.                                                             *)
Quiet == \A p \in Procs : zombies[p] = {} /\ ~Starting(p) /\ child[p].state # "running"

Holds(p) ==
    /\ zombies[p] \subseteq retained[p]
    /\ pc[p] = "adopt" => Quiet /\ out[p].status # "manual"
    /\ pc[p] \in {"finish", "cancelReceipt", "report", "settle"} /\ out[p].status # "manual" =>
          Quiet
    /\ child[p].state = "written" => Quiet
    /\ pc[p] = "release" /\ ~owns[p] /\ ~settled[p] => Quiet
    /\ zombies[p] # {} \/ child[p].state = "running" => lease[1] \in {"active", "cancelled"}

Held ==
    /\ receipt.status \in {"completed", "failed", "cancelled"} => Quiet
    /\ ckpt.attempt # 0 => Quiet /\ receipt.status # "absent"
    /\ \A p \in Procs : Holds(p)
-----------------------------------------------------------------------------
(* Values of the right type. *)
LEMMA ValuesTyped ==
    /\ NoReceipt \in ReceiptType /\ NoOutcome \in OutcomeType /\ NoChild \in ChildType
    /\ NoCheckpoint \in CheckpointType
    /\ \A a \in 0..MaxAttempts, o \in OutcomeType :
          [attempt |-> a, outcome |-> o] \in CheckpointType
    /\ \A a \in 0..MaxAttempts, x \in {"running", "written"} :
          [attempt |-> a, state |-> x] \in ChildType
    /\ Stopped \in OutcomeType /\ Unconfirmed \in OutcomeType
    /\ \A x \in Reasons : Failed(x) \in OutcomeType
    /\ ChildOutcomes \subseteq OutcomeType
<1>1. 0 \in 0..MaxAttempts /\ 0 \in 0..MaxCalls
  BY DelegationAssumption
<1>2. NoReceipt \in ReceiptType
  BY <1>1 DEF NoReceipt, ReceiptType, ReceiptStatuses, Reasons
<1>3. NoChild \in ChildType
  BY <1>1 DEF NoChild, ChildType
<1>4. NoOutcome \in OutcomeType /\ Stopped \in OutcomeType /\ Unconfirmed \in OutcomeType
  BY DEF NoOutcome, Stopped, Unconfirmed, Outcome, OutcomeType, Closed, Reasons
<1>5. \A x \in Reasons : Failed(x) \in OutcomeType
  BY DEF Failed, Outcome, OutcomeType, Closed
<1>6. ChildOutcomes \subseteq OutcomeType
  <2>1. \A r \in Results : Outcome("completed", "completed", FALSE, r) \in OutcomeType
    BY DEF Outcome, OutcomeType, Closed, Reasons
  <2>2. \A b \in BOOLEAN : Outcome("failed", "error", b, NoResult) \in OutcomeType
    BY DEF Outcome, OutcomeType, Closed, Reasons
  <2> QED
    BY <2>1, <2>2 DEF ChildOutcomes
<1>7. NoCheckpoint \in CheckpointType
  BY <1>1, <1>4 DEF NoCheckpoint, CheckpointType
<1>8. \A a \in 0..MaxAttempts, o \in OutcomeType :
        [attempt |-> a, outcome |-> o] \in CheckpointType
  BY DEF CheckpointType
<1>9. \A a \in 0..MaxAttempts, x \in {"running", "written"} :
        [attempt |-> a, state |-> x] \in ChildType
  BY DEF ChildType
<1> QED
  BY <1>2, <1>3, <1>4, <1>5, <1>6, <1>7, <1>8, <1>9

(* A receipt changed by one of the transitions is a receipt. *)
LEMMA ReceiptsTyped ==
    ASSUME Typed, NEW p \in Procs
    PROVE  /\ MarkedManual(receipt) \in ReceiptType
           /\ CanRun(p) => RunningReceipt(p) \in ReceiptType
           /\ out[p].status # "none" => TerminalReceipt(p) \in ReceiptType
           /\ seen[p].attempt < MaxAttempts /\ receipt.attempt = seen[p].attempt =>
                 ResumedReceipt \in ReceiptType
<1>1. MarkedManual(receipt) \in ReceiptType
  BY DEF MarkedManual, Typed, DurableTyped, ReceiptType, ReceiptStatuses
<1>2. RunningReceipt(p) \in ReceiptType
  BY DEF RunningReceipt, Attempt, Typed, DurableTyped, CallsTyped, ReceiptType, ReceiptStatuses
<1>3. ASSUME out[p].status # "none" PROVE TerminalReceipt(p) \in ReceiptType
  BY <1>3 DEF TerminalReceipt, Typed, DurableTyped, CallsTyped, ReceiptType, OutcomeType,
     ReceiptStatuses, Closed
<1>4. ASSUME seen[p].attempt < MaxAttempts, receipt.attempt = seen[p].attempt
      PROVE  ResumedReceipt \in ReceiptType
  <2>1. receipt.attempt + 1 \in 0..MaxAttempts /\ calls \in 0..MaxCalls
    BY <1>4, DelegationAssumption DEF Typed, DurableTyped, CallsTyped, HistoryTyped, ReceiptType
  <2> QED
    BY <2>1 DEF ResumedReceipt, Typed, DurableTyped, ReceiptType, ReceiptStatuses, Reasons
<1> QED
  BY <1>1, <1>2, <1>3, <1>4

(* The receipt that a first claim makes. *)
LEMMA ClaimedTyped ==
    ASSUME Typed, calls < MaxCalls
    PROVE  [NoReceipt EXCEPT !.status = "reserved",
                             !.attempt = 1, !.owner = calls + 1] \in ReceiptType
<1>1. 1 \in 0..MaxAttempts /\ calls + 1 \in 0..MaxCalls
  BY DelegationAssumption DEF Typed, HistoryTyped
<1> QED
  BY <1>1 DEF NoReceipt, ReceiptType, ReceiptStatuses, Reasons

(* The ways through a call. *)
LEMMA GoToTyped ==
    ASSUME PlacesTyped, NEW p \in Procs, NEW label \in Labels, GoTo(p, label)
    PROVE  PlacesTyped'
BY DEF PlacesTyped, GoTo

LEMMA EndCallTyped ==
    ASSUME PlacesTyped, CallsTyped, NEW p \in Procs, NEW answer \in AnswerKinds,
           EndCall(p, answer)
    PROVE  PlacesTyped' /\ CallsTyped'
<1>1. PlacesTyped'
  BY DEF PlacesTyped, EndCall, Labels
<1>2. CallsTyped'
  BY ValuesTyped DEF CallsTyped, EndCall
<1> QED
  BY <1>1, <1>2

LEMMA RaiseTyped ==
    ASSUME PlacesTyped, CallsTyped, NEW p \in Procs, NEW answer \in AnswerKinds,
           Raise(p, answer)
    PROVE  PlacesTyped' /\ CallsTyped'
<1>1. CASE owns[p]
  BY <1>1 DEF Raise, PlacesTyped, CallsTyped, Labels, call
<1>2. CASE ~owns[p]
  BY <1>2, EndCallTyped DEF Raise
<1> QED
  BY <1>1, <1>2

LEMMA DispatchTyped ==
    ASSUME PlacesTyped, CallsTyped, NEW p \in Procs, seen[p].status # "absent", Dispatch(p)
    PROVE  PlacesTyped' /\ CallsTyped'
<1>1. \/ \E label \in Labels : GoTo(p, label) /\ UNCHANGED call
      \/ \E answer \in AnswerKinds : EndCall(p, answer)
  <2>1. CASE seen[p].status = "completed"
    BY <2>1 DEF Dispatch, Labels
  <2>2. CASE seen[p].status \in Open
    BY <2>2 DEF Dispatch, Labels, Open
  <2>3. CASE seen[p].status = "failed"
    BY <2>3 DEF Dispatch, Labels, AnswerKinds, Open
  <2>4. CASE seen[p].status \in {"cancelled", "manual"}
    BY <2>4 DEF Dispatch, AnswerKinds, Open
  <2> QED
    BY <2>1, <2>2, <2>3, <2>4 DEF CallsTyped, ReceiptType, ReceiptStatuses, Open
<1>2. CASE \E label \in Labels : GoTo(p, label) /\ UNCHANGED call
  BY <1>2, GoToTyped DEF CallsTyped, call
<1>3. CASE \E answer \in AnswerKinds : EndCall(p, answer)
  BY <1>3, EndCallTyped
<1> QED
  BY <1>1, <1>2, <1>3

-----------------------------------------------------------------------------
(* Steps of a process leave the others alone. *)
Same(q) ==
    /\ pc'[q] = pc[q] /\ seen'[q] = seen[q] /\ out'[q] = out[q] /\ child'[q] = child[q]
    /\ (owns'[q] <=> owns[q]) /\ (settled'[q] <=> settled[q])
    /\ (begunLate'[q] <=> begunLate[q])
    /\ zombies'[q] = zombies[q] /\ retained'[q] = retained[q] /\ ans'[q] = ans[q]

OthersStay(p) == \A q \in Procs : q # p => Same(q)

(* A receipt never becomes absent again. *)
ReceiptLasts == receipt.status # "absent" => receipt'.status # "absent"

(* A process that does nothing knows what it knew. *)
LEMMA OthersKnow ==
    ASSUME Known, ReceiptKeeps, ReceiptLasts, NEW q \in Procs, Same(q)
    PROVE  Knows(q)'
BY DEF Known, Knows, Same, ReceiptKeeps, ReceiptLasts, Final, Closed

(* Answers stay the receipt's while nobody is answered. *)
LEMMA AnswersStay ==
    ASSUME AnswersAreTheReceipt, ReceiptKeeps, got' = got
    PROVE  AnswersAreTheReceipt'
BY DEF AnswersAreTheReceipt, ReceiptKeeps, Closed

LEMMA KnownKept ==
    ASSUME Known, ReceiptKeeps, ReceiptLasts, ReceiptTells', CheckpointTells',
           AnswersAreTheReceipt', NEW p \in Procs, OthersStay(p), Knows(p)'
    PROVE  Known'
BY OthersKnow DEF Known, OthersStay

(* The transitions of the receipt: what they keep and what the result tells. *)
Transition(r) ==
    /\ receipt.status \in Closed /\ r # receipt =>
          /\ receipt.status = "failed" /\ receipt.resumable /\ AllowResume
          /\ r.status = "reserved" /\ r.attempt = receipt.attempt + 1
    /\ r.status # "absent" /\ r.attempt \in Attempts
    /\ r.status = "completed" => r.result \in Results

LEMMA TransitionTells ==
    ASSUME NEW r, receipt' = r, Transition(r)
    PROVE  ReceiptKeeps /\ ReceiptLasts /\ ReceiptTells'
BY DEF Transition, ReceiptKeeps, ReceiptLasts, ReceiptTells

LEMMA Unmoved ==
    ASSUME Known, receipt' = receipt
    PROVE  ReceiptKeeps /\ ReceiptLasts /\ ReceiptTells'
BY DEF Known, ReceiptKeeps, ReceiptLasts, ReceiptTells

LEMMA MarkedTells ==
    ASSUME Typed, Known, receipt.status # "absent"
    PROVE  Transition(MarkedManual(receipt))
BY DEF Typed, DurableTyped, ReceiptType, Known, ReceiptTells, Transition, MarkedManual, Open,
   Closed

LEMMA RunningTells ==
    ASSUME Typed, Known, NEW p \in Procs, CanRun(p), pc[p] # "idle"
    PROVE  Transition(RunningReceipt(p))
BY DEF Typed, DurableTyped, ReceiptType, Known, ReceiptTells, Knows, Transition, RunningReceipt,
   CanRun, Attempt, Closed

LEMMA ResumedTells ==
    ASSUME Typed, Known, NEW p \in Procs, CanResume(p), Attempt(p) < MaxAttempts, pc[p] =
           "resume"
    PROVE  Transition(ResumedReceipt)
<1>1. receipt.attempt + 1 \in Attempts
  BY DelegationAssumption DEF Known, Knows, CanResume, Attempt, Attempts
<1>2. AllowResume
  BY DEF Known, Knows
<1> QED
  BY <1>1, <1>2 DEF Typed, DurableTyped, ReceiptType, Transition, ResumedReceipt, CanResume,
     Closed

LEMMA TerminalTells ==
    ASSUME Typed, Known, NEW p \in Procs, Final(out[p]), receipt.status = "running"
    PROVE  Transition(TerminalReceipt(p))
BY DEF Typed, DurableTyped, ReceiptType, Known, ReceiptTells, Transition, TerminalReceipt,
   Final, Closed

(* Where a call stands after one of its moves. *)
LEMMA GoToAt ==
    ASSUME PlacesTyped, NEW p \in Procs, NEW label, GoTo(p, label)
    PROVE  pc'[p] = label
BY DEF PlacesTyped, GoTo

LEMMA EndCallAt ==
    ASSUME PlacesTyped, CallsTyped, NEW p \in Procs, NEW answer, EndCall(p, answer)
    PROVE  /\ pc'[p] = "idle" /\ ans'[p] = answer /\ seen'[p] = NoReceipt
           /\ ~owns'[p] /\ ~settled'[p] /\ (begunLate'[p] <=> begunLate[p])
BY DEF PlacesTyped, CallsTyped, EndCall

LEMMA RaiseAt ==
    ASSUME PlacesTyped, CallsTyped, NEW p \in Procs, NEW answer, Raise(p, answer)
    PROVE  /\ ans'[p] = answer
           /\ \/ pc'[p] = "idle" /\ ~owns[p]
              \/ pc'[p] = "release" /\ owns[p] /\ UNCHANGED call
<1>1. CASE owns[p]
  BY <1>1 DEF Raise, PlacesTyped
<1>2. CASE ~owns[p]
  BY <1>2, EndCallAt DEF Raise
<1> QED
  BY <1>1, <1>2

LEMMA DispatchAt ==
    ASSUME PlacesTyped, CallsTyped, NEW p \in Procs, seen[p].status # "absent", Dispatch(p)
    PROVE  \/ /\ pc'[p] = "idle" /\ seen[p].status \in Closed
              /\ \E answer \in AnswerKinds : EndCall(p, answer)
           \/ pc'[p] = "replay" /\ seen[p].status = "completed" /\ UNCHANGED call
           \/ pc'[p] = "reconcile" /\ seen[p].status \in Open /\ UNCHANGED call
           \/ pc'[p] = "resume" /\ AllowResume /\ UNCHANGED call
<1>1. CASE seen[p].status = "completed"
  BY <1>1, GoToAt DEF Dispatch
<1>2. CASE seen[p].status \in Open
  BY <1>2, GoToAt DEF Dispatch, Open
<1>3. CASE seen[p].status = "failed"
  BY <1>3, GoToAt, EndCallAt DEF Dispatch, Open, Closed, AnswerKinds
<1>4. CASE seen[p].status \in {"cancelled", "manual"}
  BY <1>4, EndCallAt DEF Dispatch, Open, Closed, AnswerKinds
<1> QED
  BY <1>1, <1>2, <1>3, <1>4 DEF CallsTyped, ReceiptType, ReceiptStatuses, Open

(* These moves are the call's own. *)
LEMMA EndCallOthers ==
    ASSUME PlacesTyped, CallsTyped, NEW p \in Procs, NEW answer, EndCall(p, answer),
           UNCHANGED tasks
    PROVE  OthersStay(p)
BY DEF OthersStay, Same, PlacesTyped, CallsTyped, EndCall, tasks

LEMMA GoToOthers ==
    ASSUME PlacesTyped, NEW p \in Procs, NEW label, GoTo(p, label), UNCHANGED <<call, tasks>>
    PROVE  OthersStay(p)
BY DEF OthersStay, Same, PlacesTyped, GoTo, call, tasks

LEMMA DispatchOthers ==
    ASSUME PlacesTyped, CallsTyped, NEW p \in Procs, seen[p].status # "absent", Dispatch(p),
           UNCHANGED tasks
    PROVE  OthersStay(p)
<1>1. CASE seen[p].status = "completed"
  BY <1>1, GoToOthers DEF Dispatch
<1>2. CASE seen[p].status \in Open
  BY <1>2, GoToOthers DEF Dispatch, Open
<1>3. CASE seen[p].status = "failed"
  BY <1>3, GoToOthers, EndCallOthers DEF Dispatch, Open
<1>4. CASE seen[p].status \in {"cancelled", "manual"}
  BY <1>4, EndCallOthers DEF Dispatch, Open
<1> QED
  BY <1>1, <1>2, <1>3, <1>4 DEF CallsTyped, ReceiptType, ReceiptStatuses, Open

(* A call that ends, or goes on with the receipt it has seen. *)
LEMMA Ending ==
    ASSUME NEW p \in Procs, pc'[p] = "idle", child'[p].state = "none"
    PROVE  Knows(p)'
BY DEF Knows

LEMMA Passing ==
    ASSUME Known, ReceiptKeeps, ReceiptLasts, NEW p \in Procs, pc[p] # "idle",
           seen'[p] = seen[p], child'[p].state = "none",
           pc'[p] \in {"markManual", "reserve", "uncertain", "start", "invoke", "reconcile",
                       "release"}
    PROVE  Knows(p)'
BY DEF Known, Knows, ReceiptKeeps, ReceiptLasts

LEMMA Raising ==
    ASSUME Typed, Known, ReceiptKeeps, ReceiptLasts, NEW p \in Procs, pc[p] # "idle",
           NEW answer, Raise(p, answer), child'[p].state = "none"
    PROVE  Knows(p)'
BY RaiseAt, Ending, Passing DEF Typed, call

LEMMA Dispatching ==
    ASSUME Typed, Known, ReceiptKeeps, ReceiptLasts, NEW p \in Procs,
           pc[p] \in {"inspect", "closeLease"}, child'[p].state = "none", Dispatch(p)
    PROVE  Knows(p)'
<1>1. seen[p].status # "absent"
  BY DEF Known, Knows
<1>2. CASE pc'[p] = "idle"
  BY <1>2, Ending
<1>3. CASE pc'[p] = "reconcile" /\ UNCHANGED call
  BY <1>3, Passing DEF call
<1>4. CASE pc'[p] = "replay" /\ seen[p].status = "completed" /\ UNCHANGED call
  BY <1>4 DEF call, Known, Knows, ReceiptKeeps, ReceiptLasts
<1>5. CASE pc'[p] = "resume" /\ AllowResume /\ UNCHANGED call
  BY <1>5 DEF call, Known, Knows, ReceiptKeeps, ReceiptLasts
<1> QED
  BY <1>1, <1>2, <1>3, <1>4, <1>5, DispatchAt DEF Typed

(* A call that has an outcome to finish. *)
LEMMA Finishing ==
    ASSUME Known, ReceiptKeeps, ReceiptLasts, NEW p \in Procs, pc[p] # "idle",
           seen'[p] = seen[p], child'[p].state = "none", Final(out'[p]),
           pc'[p] \in {"finish", "cancelReceipt", "adopt"}
    PROVE  Knows(p)'
BY DEF Known, Knows, ReceiptKeeps, ReceiptLasts, Final

LEMMA FailedFinal == \A x \in Reasons : Final(Failed(x)) /\ Failed(x).status = "failed"
BY DEF Final, Failed, Outcome, Closed

LEMMA StoppedFinal ==
    Final(Stopped) /\ Final(Unconfirmed) /\ Stopped.status = "cancelled" /\ Unconfirmed.status = "manual"
BY DEF Final, Stopped, Unconfirmed, Outcome, Closed

LEMMA ChildOutcomesFinal == \A o \in ChildOutcomes : Final(o) /\ o.status # "manual"
BY DEF ChildOutcomes, Final, Outcome, Closed

-----------------------------------------------------------------------------
(* The type of the state, action by action. *)
(* A child that was started is one of an attempt. *)
LEMMA ChildrenTyped ==
    ASSUME Typed, Known
    PROVE  \A p \in Procs : /\ child[p].attempt \in 0..MaxAttempts
                            /\ child[p].state # "none" => child[p].attempt \in Attempts
BY DEF Typed, TasksTyped, ChildType, Known, Knows

LEMMA ClaimTyped ==
    ASSUME Typed, Known, NEW p \in Procs, Claim(p)
    PROVE  Typed'
<1>1. PlacesTyped' /\ CallsTyped'
  <2>1. CallsTyped'
    BY ClaimedTyped DEF Typed, CallsTyped, DurableTyped, Claim
  <2>2. PlacesTyped'
    BY DEF Typed, PlacesTyped, Claim, Labels, AnswerKinds
  <2> QED
    BY <2>1, <2>2
<1>2. TasksTyped'
  BY DEF Claim, tasks, Typed, TasksTyped
<1>3. DurableTyped'
  BY ClaimedTyped DEF Claim, Typed, DurableTyped
<1>4. HistoryTyped'
  BY DelegationAssumption DEF Claim, Typed, HistoryTyped
<1> QED
  BY <1>1, <1>2, <1>3, <1>4 DEF Typed

LEMMA InspectTyped ==
    ASSUME Typed, Known, NEW p \in Procs, Inspect(p)
    PROVE  Typed'
<1>1. PlacesTyped' /\ CallsTyped'
  <2>1. PICK s \in LeaseStatuses : s = lease[Attempt(p)]
    BY DEF Inspect, Typed, DurableTyped, Known, Knows, Attempt
  <2>2. \/ \E label \in {"closeLease", "markManual"} : GoTo(p, label) /\ UNCHANGED call
        \/ Dispatch(p)
        \/ \E answer \in {"in_progress", "manual"} : EndCall(p, answer)
    BY <2>1 DEF Inspect, InvalidLease, Typed, CallsTyped, ReceiptType, ReceiptStatuses, Open
  <2>3. seen[p].status # "absent"
    BY DEF Inspect, Known, Knows
  <2>4. CASE \E label \in {"closeLease", "markManual"} : GoTo(p, label) /\ UNCHANGED call
    BY <2>4, GoToTyped DEF Typed, CallsTyped, call, Labels
  <2>5. CASE Dispatch(p)
    BY <2>3, <2>5, DispatchTyped DEF Typed
  <2>6. CASE \E answer \in {"in_progress", "manual"} : EndCall(p, answer)
    BY <2>6, EndCallTyped DEF Typed, AnswerKinds
  <2> QED
    BY <2>2, <2>4, <2>5, <2>6
<1>2. TasksTyped' /\ DurableTyped' /\ HistoryTyped'
  BY DEF Inspect, durable, tasks, history, Typed, TasksTyped, DurableTyped, HistoryTyped
<1> QED
  BY <1>1, <1>2 DEF Typed

LEMMA CloseLeaseTyped ==
    ASSUME Typed, Known, NEW p \in Procs, CloseLease(p)
    PROVE  Typed'
<1>1. PlacesTyped' /\ CallsTyped'
  BY DispatchTyped, EndCallTyped DEF CloseLease, CanComplete, LeaseCompleted, Attempt, Typed,
     PlacesTyped, CallsTyped, Labels, AnswerKinds, Known, Knows
<1>2. TasksTyped'
  BY DEF CloseLease, tasks, Typed, TasksTyped
<1>3. DurableTyped'
  BY DispatchTyped, EndCallTyped DEF CloseLease, CanComplete, LeaseCompleted, Attempt, Typed,
     DurableTyped, LeaseStatuses
<1>4. HistoryTyped'
  BY DEF CloseLease, history, Typed, HistoryTyped
<1> QED
  BY <1>1, <1>2, <1>3, <1>4 DEF Typed

LEMMA MarkManualTyped ==
    ASSUME Typed, Known, NEW p \in Procs, MarkManual(p)
    PROVE  Typed'
<1>1. PlacesTyped' /\ CallsTyped'
  BY ReceiptsTyped, EndCallTyped DEF MarkManual, Typed, PlacesTyped, CallsTyped, Labels,
     AnswerKinds
<1>2. TasksTyped'
  BY DEF MarkManual, tasks, Typed, TasksTyped
<1>3. DurableTyped'
  BY ReceiptsTyped, EndCallTyped DEF MarkManual, Typed, DurableTyped, LeaseStatuses
<1>4. HistoryTyped'
  BY DEF MarkManual, history, Typed, HistoryTyped
<1> QED
  BY <1>1, <1>2, <1>3, <1>4 DEF Typed

LEMMA ClaimResumeTyped ==
    ASSUME Typed, Known, NEW p \in Procs, ClaimResume(p)
    PROVE  Typed'
<1>1. PlacesTyped' /\ CallsTyped'
  <2>1. CASE CanResume(p)
    <3>1. PlacesTyped'
      BY <2>1, GoToTyped DEF Typed, ClaimResume, Labels
    <3>2. CallsTyped'
      BY <2>1, ReceiptsTyped DEF Typed, DurableTyped, CallsTyped, ReceiptType, ClaimResume,
         CanResume, Attempt
    <3> QED
      BY <3>1, <3>2
  <2>2. CASE ~CanResume(p)
    BY <2>2, EndCallTyped DEF Typed, ClaimResume, AnswerKinds
  <2> QED
    BY <2>1, <2>2
<1>2. TasksTyped'
  BY DEF ClaimResume, tasks, Typed, TasksTyped
<1>3. DurableTyped'
  BY ReceiptsTyped DEF Typed, DurableTyped, ClaimResume, CanResume, Attempt
<1>4. HistoryTyped'
  BY DEF ClaimResume, history, Typed, HistoryTyped
<1> QED
  BY <1>1, <1>2, <1>3, <1>4 DEF Typed

LEMMA ReserveTyped ==
    ASSUME Typed, Known, NEW p \in Procs, Reserve(p)
    PROVE  Typed'
<1>1. PlacesTyped' /\ CallsTyped'
  <2>1. CallsTyped'
    BY DEF Typed, CallsTyped, Reserve
  <2>2. PlacesTyped'
    BY GoToTyped DEF Typed, Reserve, Labels
  <2> QED
    BY <2>1, <2>2
<1>2. TasksTyped'
  BY DEF Reserve, tasks, Typed, TasksTyped
<1>3. DurableTyped'
  BY GoToTyped DEF Reserve, CanReserve, Attempt, Typed, DurableTyped, LeaseStatuses
<1>4. HistoryTyped'
  BY DEF Reserve, history, Typed, HistoryTyped
<1> QED
  BY <1>1, <1>2, <1>3, <1>4 DEF Typed

LEMMA UncertainTyped ==
    ASSUME Typed, Known, NEW p \in Procs, Uncertain(p)
    PROVE  Typed'
<1>1. PlacesTyped' /\ CallsTyped'
  BY ReceiptsTyped, EndCallTyped DEF Uncertain, Typed, PlacesTyped, CallsTyped, Labels,
     AnswerKinds
<1>2. TasksTyped'
  BY DEF Uncertain, tasks, Typed, TasksTyped
<1>3. DurableTyped'
  BY ReceiptsTyped, EndCallTyped DEF Uncertain, Typed, DurableTyped, LeaseStatuses
<1>4. HistoryTyped'
  BY DEF Uncertain, history, Typed, HistoryTyped
<1> QED
  BY <1>1, <1>2, <1>3, <1>4 DEF Typed

LEMMA StartTyped ==
    ASSUME Typed, Known, NEW p \in Procs, Start(p)
    PROVE  Typed'
<1>1. PlacesTyped' /\ CallsTyped'
  BY ReceiptsTyped, GoToTyped, RaiseTyped DEF Start, Typed, PlacesTyped, CallsTyped, call,
     Labels, AnswerKinds
<1>2. TasksTyped'
  BY DEF Start, tasks, Typed, TasksTyped
<1>3. DurableTyped'
  BY ReceiptsTyped, GoToTyped, RaiseTyped DEF Start, Typed, DurableTyped, LeaseStatuses
<1>4. HistoryTyped'
  BY DEF Start, history, Typed, HistoryTyped
<1> QED
  BY <1>1, <1>2, <1>3, <1>4 DEF Typed

LEMMA InvokeTyped ==
    ASSUME Typed, Known, NEW p \in Procs, Invoke(p)
    PROVE  Typed'
<1>1. PlacesTyped' /\ CallsTyped'
  <2>1. CallsTyped'
    BY ValuesTyped DEF Typed, CallsTyped, Invoke, FinishWith, call, Reasons
  <2>2. PlacesTyped'
    BY GoToTyped DEF Typed, Invoke, FinishWith, Labels
  <2> QED
    BY <2>1, <2>2
<1>2. TasksTyped'
  <2>1. Attempt(p) \in 0..MaxAttempts
    BY DEF Typed, CallsTyped, ReceiptType, Attempt
  <2>2. [attempt |-> Attempt(p), state |-> "running"] \in ChildType
    BY <2>1, ValuesTyped
  <2> QED
    BY <2>2 DEF Typed, TasksTyped, Invoke
<1>3. DurableTyped'
  BY ValuesTyped, GoToTyped DEF Invoke, FinishWith, Attempt, Typed, DurableTyped, durable,
     LeaseStatuses
<1>4. HistoryTyped'
  <2>1. Attempt(p) \in Attempts
    BY DEF Invoke, Known, Knows, Attempt
  <2>2. runs' = runs \/ runs' = [runs EXCEPT ![Attempt(p)] = @ + 1]
    BY DEF Invoke
  <2>3. runs' \in [Attempts -> Nat]
    BY <2>1, <2>2 DEF Typed, HistoryTyped
  <2> QED
    BY <2>3 DEF Invoke, Typed, HistoryTyped
<1> QED
  BY <1>1, <1>2, <1>3, <1>4 DEF Typed

LEMMA ChildReturnsTyped ==
    ASSUME Typed, Known, NEW p \in Procs, ChildReturns(p)
    PROVE  Typed'
<1>1. PlacesTyped' /\ CallsTyped'
  BY ValuesTyped, GoToTyped DEF ChildReturns, Typed, PlacesTyped, CallsTyped, call, Labels,
     AnswerKinds
<1>2. TasksTyped'
  BY ValuesTyped, GoToTyped DEF ChildReturns, Typed, TasksTyped
<1>3. DurableTyped'
  BY ValuesTyped, GoToTyped DEF ChildReturns, Typed, DurableTyped, durable, LeaseStatuses
<1>4. HistoryTyped'
  BY DEF ChildReturns, history, Typed, HistoryTyped
<1> QED
  BY <1>1, <1>2, <1>3, <1>4 DEF Typed

LEMMA TimeoutTyped ==
    ASSUME Typed, Known, NEW p \in Procs, Timeout(p)
    PROVE  Typed'
<1>1. PlacesTyped' /\ CallsTyped'
  <2>1. CallsTyped'
    BY ValuesTyped DEF Typed, CallsTyped, Timeout, FinishWith, Reasons
  <2>2. PlacesTyped'
    BY GoToTyped DEF Typed, Timeout, FinishWith, Labels
  <2> QED
    BY <2>1, <2>2
<1>2. TasksTyped'
  BY ChildrenTyped, ValuesTyped DEF Typed, TasksTyped, Timeout, TaskStops, TaskLingers
<1>3. DurableTyped'
  BY ChildrenTyped, ValuesTyped DEF Typed, DurableTyped, Timeout, TaskStops, TaskLingers
<1>4. HistoryTyped'
  BY DEF Timeout, history, Typed, HistoryTyped
<1> QED
  BY <1>1, <1>2, <1>3, <1>4 DEF Typed

LEMMA GraceTyped ==
    ASSUME Typed, Known, NEW p \in Procs, Grace(p)
    PROVE  Typed'
<1>1. PlacesTyped' /\ CallsTyped'
  BY ValuesTyped, GoToTyped DEF Grace, TaskStops, TaskLingers, Typed, PlacesTyped, CallsTyped,
     Labels, AnswerKinds
<1>2. TasksTyped'
  BY ChildrenTyped, ValuesTyped DEF Typed, TasksTyped, Grace, TaskStops, TaskLingers
<1>3. DurableTyped'
  BY ChildrenTyped, ValuesTyped DEF Typed, DurableTyped, Grace, TaskStops, TaskLingers
<1>4. HistoryTyped'
  BY DEF Grace, history, Typed, HistoryTyped
<1> QED
  BY <1>1, <1>2, <1>3, <1>4 DEF Typed

LEMMA CancelReceiptTyped ==
    ASSUME Typed, Known, NEW p \in Procs, CancelReceipt(p)
    PROVE  Typed'
<1>1. PlacesTyped' /\ CallsTyped'
  BY ReceiptsTyped, RaiseTyped DEF CancelReceipt, Typed, PlacesTyped, CallsTyped, Labels,
     AnswerKinds
<1>2. TasksTyped'
  BY DEF CancelReceipt, tasks, Typed, TasksTyped
<1>3. DurableTyped'
  BY ReceiptsTyped DEF CancelReceipt, Typed, DurableTyped, Known, Knows, Final, Closed
<1>4. HistoryTyped'
  BY DEF CancelReceipt, history, Typed, HistoryTyped
<1> QED
  BY <1>1, <1>2, <1>3, <1>4 DEF Typed

LEMMA ReconcileTyped ==
    ASSUME Typed, Known, NEW p \in Procs, Reconcile(p)
    PROVE  Typed'
<1>1. PlacesTyped' /\ CallsTyped'
  <2>1. ckpt.outcome \in OutcomeType
    BY DEF Typed, DurableTyped, CheckpointType
  <2>2. CallsTyped'
    BY <2>1, EndCallTyped DEF Reconcile, Typed, CallsTyped, call, AnswerKinds
  <2>3. PlacesTyped'
    BY GoToTyped, EndCallTyped DEF Reconcile, Typed, Labels, AnswerKinds
  <2> QED
    BY <2>2, <2>3
<1>2. TasksTyped' /\ DurableTyped' /\ HistoryTyped'
  BY DEF Reconcile, durable, tasks, history, Typed, TasksTyped, DurableTyped, HistoryTyped
<1> QED
  BY <1>1, <1>2 DEF Typed

LEMMA AdoptTyped ==
    ASSUME Typed, Known, NEW p \in Procs, Adopt(p)
    PROVE  Typed'
<1>1. PlacesTyped' /\ CallsTyped'
  BY ReceiptsTyped, GoToTyped, RaiseTyped DEF Adopt, Typed, PlacesTyped, CallsTyped, call,
     Labels, AnswerKinds
<1>2. TasksTyped'
  BY DEF Adopt, tasks, Typed, TasksTyped
<1>3. DurableTyped'
  BY ReceiptsTyped, GoToTyped, RaiseTyped DEF Adopt, Typed, DurableTyped, LeaseStatuses
<1>4. HistoryTyped'
  BY DEF Adopt, history, Typed, HistoryTyped
<1> QED
  BY <1>1, <1>2, <1>3, <1>4 DEF Typed

LEMMA FinishTyped ==
    ASSUME Typed, Known, NEW p \in Procs, Finish(p)
    PROVE  Typed'
<1>1. PlacesTyped' /\ CallsTyped'
  <2>1. CASE Raise(p, "error")
    BY <2>1, RaiseTyped DEF Typed, AnswerKinds
  <2>2. CASE /\ settled' = [settled EXCEPT ![p] = out[p].status = "completed"]
             /\ GoTo(p, IF out[p].status = "completed" THEN "settle" ELSE "report")
             /\ UNCHANGED <<seen, owns, out, begunLate>>
    <3>1. CallsTyped'
      BY <2>2 DEF Typed, CallsTyped
    <3>2. PlacesTyped'
      BY <2>2, GoToTyped DEF Typed, Labels
    <3> QED
      BY <3>1, <3>2
  <2> QED
    BY <2>1, <2>2 DEF Finish
<1>2. TasksTyped'
  BY DEF Finish, tasks, Typed, TasksTyped
<1>3. DurableTyped'
  BY ReceiptsTyped DEF Finish, Typed, DurableTyped, Known, Knows, Final, Closed
<1>4. HistoryTyped'
  BY DEF Finish, history, Typed, HistoryTyped
<1> QED
  BY <1>1, <1>2, <1>3, <1>4 DEF Typed

LEMMA ReportTyped ==
    ASSUME Typed, Known, NEW p \in Procs, Report(p)
    PROVE  Typed'
<1>1. PlacesTyped' /\ CallsTyped'
  BY GoToTyped DEF Report, Typed, PlacesTyped, CallsTyped, Labels, AnswerKinds
<1>2. TasksTyped' /\ DurableTyped' /\ HistoryTyped'
  BY DEF Report, durable, tasks, history, Typed, TasksTyped, DurableTyped, HistoryTyped
<1> QED
  BY <1>1, <1>2 DEF Typed

LEMMA SettleTyped ==
    ASSUME Typed, Known, NEW p \in Procs, Settle(p)
    PROVE  Typed'
<1>1. PlacesTyped' /\ CallsTyped'
  <2>1. \E answer \in AnswerKinds : EndCall(p, answer) \/ Raise(p, answer)
    <3>1. out[p].status # "completed" => out[p].status \in AnswerKinds
      BY DEF Settle, Known, Knows, Final, Closed, AnswerKinds
    <3> QED
      BY <3>1 DEF Settle, AnswerKinds
  <2> QED
    BY <2>1, EndCallTyped, RaiseTyped DEF Typed
<1>2. TasksTyped'
  BY DEF Settle, tasks, Typed, TasksTyped
<1>3. DurableTyped'
  <2>1. lease' = lease \/ lease' = [lease EXCEPT ![Attempt(p)] = "completed"]
    BY DEF Settle, LeaseCompleted
  <2>2. lease' \in [Attempts -> LeaseStatuses]
    BY <2>1 DEF Typed, DurableTyped, LeaseStatuses
  <2>3. ckpt' \in CheckpointType
    BY ValuesTyped DEF Settle, CleanUp, Typed, DurableTyped
  <2> QED
    BY <2>2, <2>3 DEF Settle, Typed, DurableTyped
<1>4. HistoryTyped'
  <2>1. out[p].status = "completed" => out[p].result \in Results
    BY DEF Settle, Known, Knows, Final
  <2> QED
    BY <2>1 DEF Settle, Typed, HistoryTyped
<1> QED
  BY <1>1, <1>2, <1>3, <1>4 DEF Typed

LEMMA ReplayTyped ==
    ASSUME Typed, Known, NEW p \in Procs, Replay(p)
    PROVE  Typed'
<1>1. PlacesTyped' /\ CallsTyped'
  BY EndCallTyped, ValuesTyped DEF Replay, CanComplete, LeaseCompleted, Attempt, CleanUp, Typed,
     PlacesTyped, CallsTyped, Labels, AnswerKinds
<1>2. TasksTyped'
  BY DEF Replay, tasks, Typed, TasksTyped
<1>3. DurableTyped'
  <2>1. lease' = lease \/ lease' = [lease EXCEPT ![Attempt(p)] = "completed"]
    BY DEF Replay, LeaseCompleted
  <2>2. lease' \in [Attempts -> LeaseStatuses]
    BY <2>1 DEF Typed, DurableTyped, LeaseStatuses
  <2>3. ckpt' \in CheckpointType
    BY ValuesTyped DEF Replay, CleanUp, Typed, DurableTyped
  <2> QED
    BY <2>2, <2>3 DEF Replay, Typed, DurableTyped
<1>4. HistoryTyped'
  <2>1. seen[p].result \in Results
    BY DEF Replay, Known, Knows, Closed, ReceiptTells
  <2> QED
    BY <2>1 DEF Replay, Typed, HistoryTyped
<1> QED
  BY <1>1, <1>2, <1>3, <1>4 DEF Typed

LEMMA ReleaseTyped ==
    ASSUME Typed, Known, NEW p \in Procs, Release(p)
    PROVE  Typed'
<1>1. PlacesTyped' /\ CallsTyped'
  BY EndCallTyped DEF Release, ReleaseLease, Attempt, Typed, PlacesTyped, CallsTyped, Labels,
     AnswerKinds
<1>2. TasksTyped'
  BY DEF Release, tasks, Typed, TasksTyped
<1>3. DurableTyped'
  BY EndCallTyped DEF Release, ReleaseLease, Attempt, Typed, DurableTyped, LeaseStatuses
<1>4. HistoryTyped'
  BY DEF Release, history, Typed, HistoryTyped
<1> QED
  BY <1>1, <1>2, <1>3, <1>4 DEF Typed

LEMMA ChildEndsTyped ==
    ASSUME Typed, Known, NEW p \in Procs, ChildEnds(p)
    PROVE  Typed'
<1>1. PlacesTyped' /\ CallsTyped'
  <2>1. \E o \in OutcomeType : out' = [out EXCEPT ![p] = o]
    BY ValuesTyped DEF ChildEnds, Reasons
  <2> QED
    BY <2>1 DEF Typed, PlacesTyped, CallsTyped, ChildEnds
<1>2. TasksTyped'
  <2>1. child' = [child EXCEPT ![p].state = "written"]
    BY DEF ChildEnds
  <2>2. child' \in [Procs -> ChildType]
    BY <2>1 DEF Typed, TasksTyped, ChildType
  <2> QED
    BY <2>2 DEF ChildEnds, Typed, TasksTyped
<1>3. DurableTyped'
  BY ChildrenTyped, ValuesTyped DEF ChildEnds, Typed, DurableTyped
<1>4. HistoryTyped'
  BY DEF ChildEnds, history, Typed, HistoryTyped
<1> QED
  BY <1>1, <1>2, <1>3, <1>4 DEF Typed

LEMMA OutputRejectedTyped ==
    ASSUME Typed, Known, NEW p \in Procs, OutputRejected(p)
    PROVE  Typed'
<1>1. PlacesTyped' /\ CallsTyped'
  BY ValuesTyped DEF OutputRejected, Typed, PlacesTyped, CallsTyped, Reasons
<1>2. TasksTyped' /\ DurableTyped' /\ HistoryTyped'
  BY DEF OutputRejected, durable, tasks, history, Typed, TasksTyped, DurableTyped, HistoryTyped
<1> QED
  BY <1>1, <1>2 DEF Typed

LEMMA CancelWaitTyped ==
    ASSUME Typed, Known, NEW p \in Procs, CancelWait(p)
    PROVE  Typed'
<1>1. PlacesTyped' /\ CallsTyped'
  BY GoToTyped DEF CancelWait, Typed, PlacesTyped, CallsTyped, call, Labels, AnswerKinds
<1>2. TasksTyped' /\ DurableTyped' /\ HistoryTyped'
  BY DEF CancelWait, durable, tasks, history, Typed, TasksTyped, DurableTyped, HistoryTyped
<1> QED
  BY <1>1, <1>2 DEF Typed

LEMMA InterruptTyped ==
    ASSUME Typed, Known, NEW p \in Procs, Interrupt(p)
    PROVE  Typed'
<1>1. PlacesTyped' /\ CallsTyped'
  BY ReceiptsTyped, RaiseTyped, ValuesTyped DEF Interrupt, Typed, PlacesTyped, CallsTyped,
     Labels, AnswerKinds
<1>2. TasksTyped'
  BY ReceiptsTyped, RaiseTyped, ValuesTyped DEF Interrupt, Typed, TasksTyped, Known, Knows
<1>3. DurableTyped'
  <2>1. receipt' \in ReceiptType
    <3>1. pc[p] \in {"finish", "cancelReceipt"} => out[p].status # "none"
      BY DEF Known, Knows, Final, Closed
    <3>2. CanResume(p) /\ Attempt(p) < MaxAttempts => ResumedReceipt \in ReceiptType
      BY ReceiptsTyped DEF CanResume, Attempt
    <3>3. ReceiptWrite(p) \in ReceiptType
      BY <3>1, <3>2, ReceiptsTyped DEF ReceiptWrite, Typed, DurableTyped
    <3> QED
      BY <3>3 DEF Interrupt, Typed, DurableTyped
  <2>2. lease' \in [Attempts -> LeaseStatuses]
    BY DEF Interrupt, LeaseWrite, Typed, DurableTyped, LeaseStatuses
  <2> QED
    BY <2>1, <2>2 DEF Interrupt, Typed, DurableTyped
<1>4. HistoryTyped'
  BY DEF Interrupt, history, Typed, HistoryTyped
<1> QED
  BY <1>1, <1>2, <1>3, <1>4 DEF Typed

LEMMA CrashTyped ==
    ASSUME Typed, Known, NEW p \in Procs, Crash(p)
    PROVE  Typed'
<1>1. PlacesTyped' /\ CallsTyped'
  BY EndCallTyped, ValuesTyped DEF Crash, Typed, PlacesTyped, CallsTyped, Labels, AnswerKinds
<1>2. TasksTyped'
  BY EndCallTyped, ValuesTyped DEF Crash, Typed, TasksTyped
<1>3. DurableTyped'
  BY EndCallTyped, ValuesTyped DEF Crash, Typed, DurableTyped, durable, LeaseStatuses
<1>4. HistoryTyped'
  BY DEF Crash, history, Typed, HistoryTyped
<1> QED
  BY <1>1, <1>2, <1>3, <1>4 DEF Typed

LEMMA ZombieEndsTyped ==
    ASSUME Typed, Known, NEW p \in Procs, NEW a \in Attempts, ZombieEnds(p, a)
    PROVE  Typed'
<1>1. PlacesTyped' /\ CallsTyped'
  BY ValuesTyped DEF ZombieEnds, Typed, PlacesTyped, CallsTyped, call, Labels, AnswerKinds
<1>2. TasksTyped'
  BY ValuesTyped DEF ZombieEnds, Typed, TasksTyped
<1>3. DurableTyped'
  BY ValuesTyped DEF ZombieEnds, Typed, DurableTyped, Attempts
<1>4. HistoryTyped'
  BY DEF ZombieEnds, history, Typed, HistoryTyped
<1> QED
  BY <1>1, <1>2, <1>3, <1>4 DEF Typed

LEMMA ReleaseRetainedTyped ==
    ASSUME Typed, Known, NEW p \in Procs, NEW a \in Attempts, ReleaseRetained(p, a)
    PROVE  Typed'
<1>1. PlacesTyped' /\ CallsTyped'
  BY DEF ReleaseRetained, ReleaseLease, Typed, PlacesTyped, CallsTyped, Labels, AnswerKinds
<1>2. TasksTyped'
  BY DEF ReleaseRetained, ReleaseLease, Typed, TasksTyped
<1>3. DurableTyped'
  BY DEF ReleaseRetained, ReleaseLease, Typed, DurableTyped, LeaseStatuses
<1>4. HistoryTyped'
  BY DEF ReleaseRetained, history, Typed, HistoryTyped
<1> QED
  BY <1>1, <1>2, <1>3, <1>4 DEF Typed

LEMMA CancelGroupTyped ==
    ASSUME Typed, Known, CancelGroup
    PROVE  Typed'
<1>1. PlacesTyped' /\ CallsTyped'
  BY DEF CancelGroup, Typed, PlacesTyped, CallsTyped, call, Labels, AnswerKinds
<1>2. TasksTyped'
  BY DEF CancelGroup, tasks, Typed, TasksTyped
<1>3. DurableTyped'
  BY DEF CancelGroup, Typed, DurableTyped, LeaseStatuses
<1>4. HistoryTyped'
  BY DEF CancelGroup, history, Typed, HistoryTyped
<1> QED
  BY <1>1, <1>2, <1>3, <1>4 DEF Typed

LEMMA DeadlineTyped ==
    ASSUME Typed, Known, Deadline
    PROVE  Typed'
<1>1. PlacesTyped' /\ CallsTyped'
  BY DEF Deadline, Typed, PlacesTyped, CallsTyped, call, Labels, AnswerKinds
<1>2. TasksTyped'
  BY DEF Deadline, tasks, Typed, TasksTyped
<1>3. DurableTyped'
  BY DEF Deadline, Typed, DurableTyped, durable, LeaseStatuses
<1>4. HistoryTyped'
  BY DEF Deadline, history, Typed, HistoryTyped
<1> QED
  BY <1>1, <1>2, <1>3, <1>4 DEF Typed

-----------------------------------------------------------------------------
(* What the calls know, action by action. *)
LEMMA ClaimKnown ==
    ASSUME Typed, Known, NEW p \in Procs, Claim(p)
    PROVE  ReceiptKeeps /\ ReceiptLasts /\ OthersStay(p) /\ Known'
<1>1. ReceiptKeeps /\ ReceiptLasts /\ ReceiptTells'
  <2>1. CASE receipt.status = "absent"
    <3>1. 1 \in Attempts /\ 1 # 0
      BY DelegationAssumption DEF Attempts
    <3> QED
      BY <2>1, <3>1 DEF Claim, NoReceipt, ReceiptKeeps, ReceiptLasts, ReceiptTells, Closed
  <2>2. CASE receipt.status # "absent"
    BY <2>2, Unmoved DEF Claim
  <2> QED
    BY <2>1, <2>2
<1>2. OthersStay(p)
  BY DEF OthersStay, Same, Typed, PlacesTyped, CallsTyped, TasksTyped, Claim, tasks
<1>3. CheckpointTells'
  BY DEF CheckpointTells, Known, Final, Closed, Claim, tasks
<1>4. AnswersAreTheReceipt'
  BY <1>1, AnswersStay DEF Known, Claim
<1>5. Knows(p)'
  <2>1. child'[p].state = "none" /\ seen'[p] = receipt'
    BY DEF Claim, Known, Knows, tasks, Typed, CallsTyped
  <2>2. pc'[p] \in {"inspect", "reserve"}
    BY DEF Claim, Typed, PlacesTyped
  <2>3. receipt'.status # "absent" /\ receipt'.attempt \in Attempts
    BY <1>1 DEF Claim, ReceiptTells, NoReceipt
  <2> QED
    BY <2>1, <2>2, <2>3 DEF Knows
<1> QED
  BY <1>1, <1>2, <1>3, <1>4, <1>5, KnownKept

LEMMA InspectKnown ==
    ASSUME Typed, Known, NEW p \in Procs, Inspect(p)
    PROVE  ReceiptKeeps /\ ReceiptLasts /\ OthersStay(p) /\ Known'
<1>1. ReceiptKeeps /\ ReceiptLasts /\ ReceiptTells'
  BY Unmoved DEF Inspect, durable
<1>2. OthersStay(p)
  <2>1. seen[p].status # "absent" /\ Attempt(p) \in Attempts
    BY DEF Inspect, Known, Knows, Attempt
  <2>2. \/ \E label \in {"closeLease", "markManual"} : GoTo(p, label) /\ UNCHANGED call
        \/ Dispatch(p)
        \/ \E answer \in {"in_progress", "manual"} : EndCall(p, answer)
    BY <2>1 DEF Inspect, InvalidLease, Typed, CallsTyped, DurableTyped, ReceiptType,
       ReceiptStatuses, Open
  <2> QED
    BY <2>1, <2>2, GoToOthers, EndCallOthers, DispatchOthers DEF Typed, Inspect, tasks
<1>3. CheckpointTells'
  BY DEF CheckpointTells, Known, Final, Closed, Inspect, AllowedLease, InvalidLease, Dispatch,
     GoTo, EndCall, Attempt, durable, call, tasks, history
<1>4. AnswersAreTheReceipt'
  BY <1>1, AnswersStay DEF Known, Inspect, history
<1>5. Knows(p)'
  <2>1. pc[p] = "inspect" /\ child'[p].state = "none"
    BY DEF Inspect, tasks, Known, Knows
  <2>2. seen[p].status # "absent" /\ Attempt(p) \in Attempts
    BY DEF Inspect, Known, Knows, Attempt
  <2>3. \/ /\ GoTo(p, "closeLease") /\ UNCHANGED call
           /\ seen[p].status \in {"completed", "failed", "cancelled"}
        \/ GoTo(p, "markManual") /\ UNCHANGED call
        \/ Dispatch(p)
        \/ \E answer \in {"in_progress", "manual"} : EndCall(p, answer)
    BY <2>2 DEF Inspect, InvalidLease, Typed, CallsTyped, DurableTyped, ReceiptType,
       ReceiptStatuses, Open
  <2>4. CASE GoTo(p, "closeLease") /\ UNCHANGED call
             /\ seen[p].status \in {"completed", "failed", "cancelled"}
    <3>1. pc'[p] = "closeLease" /\ seen'[p] = seen[p]
      BY <2>4, GoToAt DEF Typed, call
    <3> QED
      BY <2>1, <2>4, <3>1, <1>1 DEF Known, Knows, ReceiptKeeps, ReceiptLasts
  <2>5. CASE GoTo(p, "markManual") /\ UNCHANGED call
    BY <2>1, <2>5, <1>1, GoToAt, Passing DEF Typed, call
  <2>6. CASE Dispatch(p)
    BY <2>1, <2>6, <1>1, Dispatching DEF Inspect
  <2>7. CASE \E answer \in {"in_progress", "manual"} : EndCall(p, answer)
    BY <2>1, <2>7, EndCallAt, Ending DEF Typed
  <2> QED
    BY <2>3, <2>4, <2>5, <2>6, <2>7
<1> QED
  BY <1>1, <1>2, <1>3, <1>4, <1>5, KnownKept

LEMMA CloseLeaseKnown ==
    ASSUME Typed, Known, NEW p \in Procs, CloseLease(p)
    PROVE  ReceiptKeeps /\ ReceiptLasts /\ OthersStay(p) /\ Known'
<1>1. ReceiptKeeps /\ ReceiptLasts /\ ReceiptTells'
  BY Unmoved DEF CloseLease
<1>2. OthersStay(p)
  <2>1. seen[p].status # "absent"
    BY DEF CloseLease, Known, Knows
  <2> QED
    BY <2>1, DispatchOthers, EndCallOthers DEF CloseLease, Typed
<1>3. CheckpointTells'
  BY DEF CheckpointTells, Known, Final, Closed, CloseLease, Dispatch, GoTo, EndCall, call,
     tasks, history
<1>4. AnswersAreTheReceipt'
  BY <1>1, AnswersStay DEF Known, CloseLease, history
<1>5. Knows(p)'
  <2>1. pc[p] = "closeLease" /\ child'[p].state = "none"
    BY DEF CloseLease, tasks, Known, Knows
  <2> QED
    BY <2>1, <1>1, Dispatching, EndCallAt, Ending DEF CloseLease, Typed
<1> QED
  BY <1>1, <1>2, <1>3, <1>4, <1>5, KnownKept

LEMMA MarkManualKnown ==
    ASSUME Typed, Known, NEW p \in Procs, MarkManual(p)
    PROVE  ReceiptKeeps /\ ReceiptLasts /\ OthersStay(p) /\ Known'
<1>1. ReceiptKeeps /\ ReceiptLasts /\ ReceiptTells'
  BY MarkedTells, TransitionTells DEF MarkManual, Known, Knows
<1>2. OthersStay(p)
  BY DEF OthersStay, Same, Typed, PlacesTyped, CallsTyped, TasksTyped, MarkManual, EndCall,
     tasks, history
<1>3. CheckpointTells'
  BY DEF CheckpointTells, Known, Final, Closed, MarkManual, EndCall, tasks, history
<1>4. AnswersAreTheReceipt'
  BY <1>1, AnswersStay DEF Known, MarkManual, history
<1>5. Knows(p)'
  BY <1>1 DEF Knows, Known, Final, Closed, Typed, PlacesTyped, CallsTyped, TasksTyped,
     MarkManual, EndCall, tasks, history
<1> QED
  BY <1>1, <1>2, <1>3, <1>4, <1>5, KnownKept

LEMMA ClaimResumeKnown ==
    ASSUME Typed, Known, NEW p \in Procs, ClaimResume(p)
    PROVE  ReceiptKeeps /\ ReceiptLasts /\ OthersStay(p) /\ Known'
<1>1. ReceiptKeeps /\ ReceiptLasts /\ ReceiptTells'
  BY ResumedTells, TransitionTells, Unmoved DEF ClaimResume
<1>2. OthersStay(p)
  BY DEF OthersStay, Same, Typed, PlacesTyped, CallsTyped, TasksTyped, ClaimResume, GoTo,
     EndCall, tasks, history
<1>3. CheckpointTells'
  BY DEF CheckpointTells, Known, Final, Closed, ClaimResume, GoTo, EndCall, tasks, history
<1>4. AnswersAreTheReceipt'
  BY <1>1, AnswersStay DEF Known, ClaimResume, history
<1>5. Knows(p)'
  <2>1. pc[p] = "resume" /\ child'[p].state = "none"
    BY DEF ClaimResume, tasks, Known, Knows
  <2>2. CASE CanResume(p)
    <3>1. pc'[p] = "reserve" /\ seen'[p] = receipt'
      BY <2>2, GoToAt DEF ClaimResume, Typed, CallsTyped
    <3>2. receipt'.status = "reserved" /\ receipt'.attempt \in Attempts
      BY <2>1, <2>2, ResumedTells, <1>1 DEF ClaimResume, ResumedReceipt, Typed, DurableTyped,
         ReceiptType, Transition
    <3> QED
      BY <2>1, <3>1, <3>2 DEF Knows, Closed
  <2>3. CASE ~CanResume(p)
    BY <2>1, <2>3, EndCallAt, Ending DEF ClaimResume, Typed
  <2> QED
    BY <2>2, <2>3
<1> QED
  BY <1>1, <1>2, <1>3, <1>4, <1>5, KnownKept

LEMMA ReserveKnown ==
    ASSUME Typed, Known, NEW p \in Procs, Reserve(p)
    PROVE  ReceiptKeeps /\ ReceiptLasts /\ OthersStay(p) /\ Known'
<1>1. ReceiptKeeps /\ ReceiptLasts /\ ReceiptTells'
  BY Unmoved DEF Reserve
<1>2. OthersStay(p)
  BY DEF OthersStay, Same, Typed, PlacesTyped, CallsTyped, TasksTyped, Reserve, GoTo, tasks,
     history
<1>3. CheckpointTells'
  BY DEF CheckpointTells, Known, Final, Closed, Reserve, GoTo, tasks, history
<1>4. AnswersAreTheReceipt'
  BY <1>1, AnswersStay DEF Known, Reserve, history
<1>5. Knows(p)'
  BY <1>1 DEF Knows, Known, Final, Closed, Typed, PlacesTyped, CallsTyped, TasksTyped, Reserve,
     GoTo, tasks, history
<1> QED
  BY <1>1, <1>2, <1>3, <1>4, <1>5, KnownKept

LEMMA UncertainKnown ==
    ASSUME Typed, Known, NEW p \in Procs, Uncertain(p)
    PROVE  ReceiptKeeps /\ ReceiptLasts /\ OthersStay(p) /\ Known'
<1>1. ReceiptKeeps /\ ReceiptLasts /\ ReceiptTells'
  BY MarkedTells, TransitionTells DEF Uncertain, Known, Knows
<1>2. OthersStay(p)
  BY DEF OthersStay, Same, Typed, PlacesTyped, CallsTyped, TasksTyped, Uncertain, EndCall,
     tasks, history
<1>3. CheckpointTells'
  BY DEF CheckpointTells, Known, Final, Closed, Uncertain, EndCall, tasks, history
<1>4. AnswersAreTheReceipt'
  BY <1>1, AnswersStay DEF Known, Uncertain, history
<1>5. Knows(p)'
  BY <1>1 DEF Knows, Known, Final, Closed, Typed, PlacesTyped, CallsTyped, TasksTyped,
     Uncertain, EndCall, tasks, history
<1> QED
  BY <1>1, <1>2, <1>3, <1>4, <1>5, KnownKept

LEMMA StartKnown ==
    ASSUME Typed, Known, NEW p \in Procs, Start(p)
    PROVE  ReceiptKeeps /\ ReceiptLasts /\ OthersStay(p) /\ Known'
<1>1. ReceiptKeeps /\ ReceiptLasts /\ ReceiptTells'
  BY RunningTells, TransitionTells, Unmoved DEF Start
<1>2. OthersStay(p)
  BY DEF OthersStay, Same, Typed, PlacesTyped, CallsTyped, TasksTyped, Start, GoTo, Raise,
     EndCall, call, tasks, history
<1>3. CheckpointTells'
  BY DEF CheckpointTells, Known, Final, Closed, Start, GoTo, Raise, EndCall, call, tasks,
     history
<1>4. AnswersAreTheReceipt'
  BY <1>1, AnswersStay DEF Known, Start, history
<1>5. Knows(p)'
  <2>1. pc[p] = "start" /\ child'[p].state = "none"
    BY DEF Start, tasks, Known, Knows
  <2>2. CASE GoTo(p, "invoke") /\ UNCHANGED call
    BY <2>1, <2>2, <1>1, GoToAt, Passing DEF Typed, call
  <2>3. CASE Raise(p, "error")
    BY <2>1, <2>3, <1>1, Raising
  <2> QED
    BY <2>2, <2>3 DEF Start
<1> QED
  BY <1>1, <1>2, <1>3, <1>4, <1>5, KnownKept

LEMMA InvokeKnown ==
    ASSUME Typed, Known, NEW p \in Procs, Invoke(p)
    PROVE  ReceiptKeeps /\ ReceiptLasts /\ OthersStay(p) /\ Known'
<1>1. ReceiptKeeps /\ ReceiptLasts /\ ReceiptTells'
  BY Unmoved DEF Invoke, durable
<1>2. OthersStay(p)
  BY DEF OthersStay, Same, Typed, PlacesTyped, CallsTyped, TasksTyped, Invoke, FinishWith, GoTo,
     durable, call
<1>3. CheckpointTells'
  BY DEF CheckpointTells, Known, Final, Closed, Invoke, FinishWith, GoTo, durable, call
<1>4. AnswersAreTheReceipt'
  BY <1>1, AnswersStay DEF Known, Invoke
<1>5. Knows(p)'
  <2>1. pc[p] = "invoke" /\ child[p].state = "none" /\ seen[p].attempt \in Attempts
    BY DEF Invoke, Known, Knows
  <2>2. CASE /\ FinishWith(p, Failed(IF late THEN "timeout" ELSE "error"))
             /\ UNCHANGED <<child, runs>>
    <3>1. pc'[p] = "finish" /\ seen'[p] = seen[p] /\ child'[p].state = "none"
      BY <2>1, <2>2, GoToAt DEF FinishWith, Typed
    <3>2. Final(out'[p])
      BY <2>2, FailedFinal DEF FinishWith, Typed, CallsTyped, Reasons
    <3> QED
      BY <2>1, <3>1, <3>2, <1>1, Finishing
  <2>3. CASE /\ child' = [child EXCEPT ![p] = [attempt |-> Attempt(p), state |-> "running"]]
             /\ GoTo(p, "wait") /\ UNCHANGED call
    <3>1. pc'[p] = "wait" /\ seen'[p] = seen[p]
      BY <2>3, GoToAt DEF Typed, call
    <3>2. child'[p] = [attempt |-> Attempt(p), state |-> "running"]
      BY <2>3 DEF Typed, TasksTyped
    <3> QED
      BY <2>1, <3>1, <3>2, <1>1 DEF Known, Knows, ReceiptKeeps, ReceiptLasts, Attempt
  <2> QED
    BY <2>2, <2>3 DEF Invoke
<1> QED
  BY <1>1, <1>2, <1>3, <1>4, <1>5, KnownKept

LEMMA ChildReturnsKnown ==
    ASSUME Typed, Known, NEW p \in Procs, ChildReturns(p)
    PROVE  ReceiptKeeps /\ ReceiptLasts /\ OthersStay(p) /\ Known'
<1>1. ReceiptKeeps /\ ReceiptLasts /\ ReceiptTells'
  BY Unmoved DEF ChildReturns, durable
<1>2. OthersStay(p)
  BY DEF OthersStay, Same, Typed, PlacesTyped, CallsTyped, TasksTyped, ChildReturns, GoTo,
     durable, call, history
<1>3. CheckpointTells'
  BY DEF CheckpointTells, Known, Final, Closed, ChildReturns, GoTo, durable, call, history
<1>4. AnswersAreTheReceipt'
  BY <1>1, AnswersStay DEF Known, ChildReturns, history
<1>5. Knows(p)'
  <2>1. pc[p] = "wait" /\ child[p].state = "written" /\ Final(out[p])
    BY DEF ChildReturns, Known, Knows
  <2>2. /\ pc'[p] = "finish" /\ seen'[p] = seen[p] /\ child'[p].state = "none"
        /\ out'[p] = out[p]
    BY GoToAt DEF ChildReturns, Typed, TasksTyped, call, NoChild
  <2> QED
    BY <2>1, <2>2, <1>1, Finishing
<1> QED
  BY <1>1, <1>2, <1>3, <1>4, <1>5, KnownKept

LEMMA TimeoutKnown ==
    ASSUME Typed, Known, NEW p \in Procs, Timeout(p)
    PROVE  ReceiptKeeps /\ ReceiptLasts /\ OthersStay(p) /\ Known'
<1>1. ReceiptKeeps /\ ReceiptLasts /\ ReceiptTells'
  BY Unmoved DEF Timeout
<1>2. OthersStay(p)
  BY DEF OthersStay, Same, Typed, PlacesTyped, CallsTyped, TasksTyped, Timeout, TaskStops,
     TaskLingers, FinishWith, GoTo, history
<1>3. CheckpointTells'
  BY StoppedFinal DEF CheckpointTells, Known, Timeout, TaskStops, TaskLingers
<1>4. AnswersAreTheReceipt'
  BY <1>1, AnswersStay DEF Known, Timeout, history
<1>5. Knows(p)'
  <2>1. pc'[p] = "finish" /\ seen'[p] = seen[p] /\ child'[p].state = "none"
    BY GoToAt DEF Timeout, TaskStops, TaskLingers, FinishWith, Typed, TasksTyped, NoChild
  <2>2. Final(out'[p])
    BY FailedFinal, StoppedFinal DEF Timeout, FinishWith, Typed, CallsTyped, Reasons
  <2>3. pc[p] # "idle"
    BY DEF Timeout
  <2> QED
    BY <2>1, <2>2, <2>3, <1>1, Finishing
<1> QED
  BY <1>1, <1>2, <1>3, <1>4, <1>5, KnownKept

LEMMA GraceKnown ==
    ASSUME Typed, Known, NEW p \in Procs, Grace(p)
    PROVE  ReceiptKeeps /\ ReceiptLasts /\ OthersStay(p) /\ Known'
<1>1. ReceiptKeeps /\ ReceiptLasts /\ ReceiptTells'
  BY Unmoved DEF Grace
<1>2. OthersStay(p)
  BY DEF OthersStay, Same, Typed, PlacesTyped, CallsTyped, TasksTyped, Grace, TaskStops,
     TaskLingers, GoTo, history
<1>3. CheckpointTells'
  BY StoppedFinal DEF CheckpointTells, Known, Grace, TaskStops, TaskLingers
<1>4. AnswersAreTheReceipt'
  BY <1>1, AnswersStay DEF Known, Grace, history
<1>5. Knows(p)'
  <2>1. pc'[p] = "cancelReceipt" /\ seen'[p] = seen[p] /\ child'[p].state = "none"
    BY GoToAt DEF Grace, TaskStops, TaskLingers, Typed, TasksTyped, NoChild
  <2>2. Final(out'[p])
    BY StoppedFinal DEF Grace, Typed, CallsTyped
  <2>3. pc[p] # "idle"
    BY DEF Grace
  <2> QED
    BY <2>1, <2>2, <2>3, <1>1, Finishing
<1> QED
  BY <1>1, <1>2, <1>3, <1>4, <1>5, KnownKept

LEMMA CancelReceiptKnown ==
    ASSUME Typed, Known, NEW p \in Procs, CancelReceipt(p)
    PROVE  ReceiptKeeps /\ ReceiptLasts /\ OthersStay(p) /\ Known'
<1>1. ReceiptKeeps /\ ReceiptLasts /\ ReceiptTells'
  BY TerminalTells, TransitionTells, Unmoved DEF CancelReceipt, Known, Knows
<1>2. OthersStay(p)
  BY DEF OthersStay, Same, Typed, PlacesTyped, CallsTyped, TasksTyped, CancelReceipt, Raise,
     EndCall, call, tasks, history
<1>3. CheckpointTells'
  BY DEF CheckpointTells, Known, Final, Closed, CancelReceipt, Raise, EndCall, call, tasks,
     history
<1>4. AnswersAreTheReceipt'
  BY <1>1, AnswersStay DEF Known, CancelReceipt, history
<1>5. Knows(p)'
  <2>1. pc[p] = "cancelReceipt" /\ child'[p].state = "none"
    BY DEF CancelReceipt, tasks, Known, Knows
  <2> QED
    BY <2>1, <1>1, Raising DEF CancelReceipt
<1> QED
  BY <1>1, <1>2, <1>3, <1>4, <1>5, KnownKept

LEMMA ReconcileKnown ==
    ASSUME Typed, Known, NEW p \in Procs, Reconcile(p)
    PROVE  ReceiptKeeps /\ ReceiptLasts /\ OthersStay(p) /\ Known'
<1>1. ReceiptKeeps /\ ReceiptLasts /\ ReceiptTells'
  BY Unmoved DEF Reconcile, durable
<1>2. OthersStay(p)
  BY DEF OthersStay, Same, Typed, PlacesTyped, CallsTyped, TasksTyped, Reconcile, GoTo, EndCall,
     durable, call, tasks, history
<1>3. CheckpointTells'
  BY DEF CheckpointTells, Known, Final, Closed, Reconcile, GoTo, EndCall, durable, call, tasks,
     history
<1>4. AnswersAreTheReceipt'
  BY <1>1, AnswersStay DEF Known, Reconcile, history
<1>5. Knows(p)'
  <2>1. pc[p] = "reconcile" /\ child'[p].state = "none"
    BY DEF Reconcile, tasks, Known, Knows
  <2>2. CASE /\ ckpt.attempt = Attempt(p)
             /\ out' = [out EXCEPT ![p] = ckpt.outcome] /\ UNCHANGED seen
             /\ \E label \in {"adopt", "finish"} : GoTo(p, label)
    <3>1. Final(out'[p]) /\ seen'[p] = seen[p]
      <4>1. ckpt.attempt # 0
        BY <2>1, <2>2 DEF Attempt, Known, Knows, Attempts
      <4> QED
        BY <2>2, <4>1 DEF Known, CheckpointTells, Typed, CallsTyped
    <3>2. pc'[p] \in {"adopt", "finish"}
      BY <2>2, GoToAt DEF Typed
    <3> QED
      BY <2>1, <3>1, <3>2, <1>1, Finishing
  <2>3. CASE GoTo(p, "markManual") /\ UNCHANGED call
    BY <2>1, <2>3, <1>1, GoToAt, Passing DEF Typed, call
  <2>4. CASE EndCall(p, "in_progress")
    BY <2>1, <2>4, EndCallAt, Ending DEF Typed
  <2> QED
    BY <2>2, <2>3, <2>4 DEF Reconcile
<1> QED
  BY <1>1, <1>2, <1>3, <1>4, <1>5, KnownKept

LEMMA AdoptKnown ==
    ASSUME Typed, Known, NEW p \in Procs, Adopt(p)
    PROVE  ReceiptKeeps /\ ReceiptLasts /\ OthersStay(p) /\ Known'
<1>1. ReceiptKeeps /\ ReceiptLasts /\ ReceiptTells'
  BY RunningTells, TransitionTells, Unmoved DEF Adopt
<1>2. OthersStay(p)
  BY DEF OthersStay, Same, Typed, PlacesTyped, CallsTyped, TasksTyped, Adopt, GoTo, Raise,
     EndCall, call, tasks, history
<1>3. CheckpointTells'
  BY DEF CheckpointTells, Known, Final, Closed, Adopt, GoTo, Raise, EndCall, call, tasks,
     history
<1>4. AnswersAreTheReceipt'
  BY <1>1, AnswersStay DEF Known, Adopt, history
<1>5. Knows(p)'
  <2>1. pc[p] = "adopt" /\ child'[p].state = "none" /\ Final(out[p])
    BY DEF Adopt, tasks, Known, Knows
  <2>2. CASE GoTo(p, "finish") /\ UNCHANGED call
    BY <2>1, <2>2, <1>1, GoToAt, Finishing DEF Typed, call
  <2>3. CASE Raise(p, "error")
    BY <2>1, <2>3, <1>1, Raising
  <2> QED
    BY <2>2, <2>3 DEF Adopt
<1> QED
  BY <1>1, <1>2, <1>3, <1>4, <1>5, KnownKept

LEMMA FinishKnown ==
    ASSUME Typed, Known, NEW p \in Procs, Finish(p)
    PROVE  ReceiptKeeps /\ ReceiptLasts /\ OthersStay(p) /\ Known'
<1>1. ReceiptKeeps /\ ReceiptLasts /\ ReceiptTells'
  <2>1. Final(out[p])
    BY DEF Finish, Known, Knows
  <2> QED
    BY <2>1, TerminalTells, TransitionTells, Unmoved DEF Finish, SameTerminal
<1>2. OthersStay(p)
  BY DEF OthersStay, Same, Typed, PlacesTyped, CallsTyped, TasksTyped, Finish, GoTo, Raise,
     EndCall, call, tasks, history
<1>3. CheckpointTells'
  BY DEF CheckpointTells, Known, Final, Closed, Finish, GoTo, Raise, EndCall, call, tasks,
     history
<1>4. AnswersAreTheReceipt'
  BY <1>1, AnswersStay DEF Known, Finish, history
<1>5. Knows(p)'
  <2>1. pc[p] = "finish" /\ child'[p].state = "none" /\ Final(out[p])
    BY DEF Finish, tasks, Known, Knows
  <2>2. CASE /\ receipt' = TerminalReceipt(p)
             /\ GoTo(p, IF out[p].status = "completed" THEN "settle" ELSE "report")
             /\ UNCHANGED <<seen, out>>
    <3>1. /\ pc'[p] = IF out[p].status = "completed" THEN "settle" ELSE "report"
          /\ seen'[p] = seen[p] /\ out'[p] = out[p]
      BY <2>2, GoToAt DEF Typed
    <3>2. receipt'.status = out[p].status /\ receipt'.result = out[p].result
      BY <2>2 DEF TerminalReceipt, Typed, DurableTyped, ReceiptType
    <3> QED
      BY <2>1, <3>1, <3>2, <1>1 DEF Known, Knows, ReceiptKeeps, ReceiptLasts
  <2>3. CASE Raise(p, "error")
    BY <2>1, <2>3, <1>1, Raising
  <2> QED
    BY <2>2, <2>3 DEF Finish
<1> QED
  BY <1>1, <1>2, <1>3, <1>4, <1>5, KnownKept

LEMMA ReportKnown ==
    ASSUME Typed, Known, NEW p \in Procs, Report(p)
    PROVE  ReceiptKeeps /\ ReceiptLasts /\ OthersStay(p) /\ Known'
<1>1. ReceiptKeeps /\ ReceiptLasts /\ ReceiptTells'
  BY Unmoved DEF Report, durable
<1>2. OthersStay(p)
  BY DEF OthersStay, Same, Typed, PlacesTyped, CallsTyped, TasksTyped, Report, GoTo, durable,
     tasks, history
<1>3. CheckpointTells'
  BY DEF CheckpointTells, Known, Final, Closed, Report, GoTo, durable, tasks, history
<1>4. AnswersAreTheReceipt'
  BY <1>1, AnswersStay DEF Known, Report, history
<1>5. Knows(p)'
  <2>1. pc[p] = "report" /\ child'[p].state = "none" /\ Final(out[p])
    BY DEF Report, tasks, Known, Knows
  <2>2. CASE out[p].status = "manual"
    <3>1. pc'[p] = "release" /\ seen'[p] = seen[p]
      BY <2>2 DEF Report, Typed, PlacesTyped
    <3> QED
      BY <2>1, <3>1, <1>1, Passing
  <2>3. CASE out[p].status # "manual"
    <3>1. pc'[p] = "settle" /\ seen'[p] = seen[p] /\ out'[p] = out[p]
      BY <2>3, GoToAt DEF Report, Typed
    <3>2. out[p].status # "completed"
      BY DEF Report, Known, Knows
    <3> QED
      BY <2>1, <2>3, <3>1, <3>2, <1>1 DEF Known, Knows, ReceiptKeeps, ReceiptLasts
  <2> QED
    BY <2>2, <2>3
<1> QED
  BY <1>1, <1>2, <1>3, <1>4, <1>5, KnownKept

LEMMA SettleKnown ==
    ASSUME Typed, Known, NEW p \in Procs, Settle(p)
    PROVE  ReceiptKeeps /\ ReceiptLasts /\ OthersStay(p) /\ Known'
<1>1. ReceiptKeeps /\ ReceiptLasts /\ ReceiptTells'
  BY Unmoved DEF Settle
<1>2. OthersStay(p)
  BY DEF OthersStay, Same, Typed, PlacesTyped, CallsTyped, TasksTyped, Settle, EndCall, Raise,
     call, tasks
<1>3. CheckpointTells'
  BY DEF CheckpointTells, Known, Settle, CleanUp, NoCheckpoint
<1>4. AnswersAreTheReceipt'
  <2>1. CASE got' = got
    BY <1>1, <2>1, AnswersStay DEF Known
  <2>2. CASE out[p].status = "completed" /\ got' = got \cup {out[p].result}
    BY <2>2 DEF Settle, AnswersAreTheReceipt, Known, Knows
  <2> QED
    BY <2>1, <2>2 DEF Settle
<1>5. Knows(p)'
  BY <1>1 DEF Knows, Known, Final, Closed, Typed, PlacesTyped, CallsTyped, TasksTyped, Settle,
     EndCall, Raise, call, tasks
<1> QED
  BY <1>1, <1>2, <1>3, <1>4, <1>5, KnownKept

LEMMA ReplayKnown ==
    ASSUME Typed, Known, NEW p \in Procs, Replay(p)
    PROVE  ReceiptKeeps /\ ReceiptLasts /\ OthersStay(p) /\ Known'
<1>1. ReceiptKeeps /\ ReceiptLasts /\ ReceiptTells'
  BY Unmoved DEF Replay
<1>2. OthersStay(p)
  BY DEF OthersStay, Same, Typed, PlacesTyped, CallsTyped, TasksTyped, Replay, EndCall, tasks
<1>3. CheckpointTells'
  BY DEF CheckpointTells, Known, Replay, CleanUp, NoCheckpoint
<1>4. AnswersAreTheReceipt'
  <2>1. CASE got' = got
    BY <1>1, <2>1, AnswersStay DEF Known
  <2>2. CASE got' = got \cup {seen[p].result}
    <3>1. receipt = seen[p] /\ seen[p].status = "completed"
      BY DEF Replay, Known, Knows, Closed
    <3> QED
      BY <2>2, <3>1 DEF Replay, AnswersAreTheReceipt, Known
  <2> QED
    BY <2>1, <2>2 DEF Replay
<1>5. Knows(p)'
  BY <1>1 DEF Knows, Known, Final, Closed, Typed, PlacesTyped, CallsTyped, TasksTyped, Replay,
     EndCall, tasks
<1> QED
  BY <1>1, <1>2, <1>3, <1>4, <1>5, KnownKept

LEMMA ReleaseKnown ==
    ASSUME Typed, Known, NEW p \in Procs, Release(p)
    PROVE  ReceiptKeeps /\ ReceiptLasts /\ OthersStay(p) /\ Known'
<1>1. ReceiptKeeps /\ ReceiptLasts /\ ReceiptTells'
  BY Unmoved DEF Release
<1>2. OthersStay(p)
  BY DEF OthersStay, Same, Typed, PlacesTyped, CallsTyped, TasksTyped, Release, EndCall, tasks,
     history
<1>3. CheckpointTells'
  BY DEF CheckpointTells, Known, Final, Closed, Release, EndCall, tasks, history
<1>4. AnswersAreTheReceipt'
  BY <1>1, AnswersStay DEF Known, Release, history
<1>5. Knows(p)'
  BY <1>1 DEF Knows, Known, Final, Closed, Typed, PlacesTyped, CallsTyped, TasksTyped, Release,
     EndCall, tasks, history
<1> QED
  BY <1>1, <1>2, <1>3, <1>4, <1>5, KnownKept

LEMMA ChildEndsKnown ==
    ASSUME Typed, Known, NEW p \in Procs, ChildEnds(p)
    PROVE  ReceiptKeeps /\ ReceiptLasts /\ OthersStay(p) /\ Known'
<1>1. ReceiptKeeps /\ ReceiptLasts /\ ReceiptTells'
  BY Unmoved DEF ChildEnds
<1>2. OthersStay(p)
  BY DEF OthersStay, Same, Typed, PlacesTyped, CallsTyped, TasksTyped, ChildEnds, history
<1>3. CheckpointTells'
  <2>1. \A o \in ChildOutcomes : Final(o) /\ o.status # "manual"
    BY ChildOutcomesFinal
  <2> QED
    BY <2>1 DEF CheckpointTells, Known, ChildEnds
<1>4. AnswersAreTheReceipt'
  BY <1>1, AnswersStay DEF Known, ChildEnds, history
<1>5. Knows(p)'
  <2>1. /\ pc[p] \in {"wait", "grace"} /\ pc'[p] = pc[p] /\ seen'[p] = seen[p]
        /\ child[p].attempt \in Attempts
    BY DEF ChildEnds, Known, Knows
  <2>2. child'[p].state = "written" /\ child'[p].attempt = child[p].attempt
    BY DEF ChildEnds, Typed, TasksTyped, ChildType
  <2>3. Final(out'[p]) /\ out'[p].status # "manual"
    BY FailedFinal, ChildOutcomesFinal DEF ChildEnds, Typed, CallsTyped, Reasons
  <2> QED
    BY <2>1, <2>2, <2>3, <1>1 DEF Known, Knows, ReceiptKeeps, ReceiptLasts
<1> QED
  BY <1>1, <1>2, <1>3, <1>4, <1>5, KnownKept

LEMMA OutputRejectedKnown ==
    ASSUME Typed, Known, NEW p \in Procs, OutputRejected(p)
    PROVE  ReceiptKeeps /\ ReceiptLasts /\ OthersStay(p) /\ Known'
<1>1. ReceiptKeeps /\ ReceiptLasts /\ ReceiptTells'
  BY Unmoved DEF OutputRejected, durable
<1>2. OthersStay(p)
  BY DEF OthersStay, Same, Typed, PlacesTyped, CallsTyped, TasksTyped, OutputRejected, durable,
     tasks, history
<1>3. CheckpointTells'
  BY DEF CheckpointTells, Known, Final, Closed, OutputRejected, durable, tasks, history
<1>4. AnswersAreTheReceipt'
  BY <1>1, AnswersStay DEF Known, OutputRejected, history
<1>5. Knows(p)'
  <2>1. pc[p] = "finish" /\ child[p].state = "none"
    BY DEF OutputRejected, Known, Knows
  <2>2. pc'[p] = "finish" /\ seen'[p] = seen[p] /\ child'[p].state = "none"
    BY <2>1 DEF OutputRejected, tasks
  <2>3. Final(out'[p])
    BY FailedFinal DEF OutputRejected, Typed, CallsTyped, Reasons
  <2> QED
    BY <2>1, <2>2, <2>3, <1>1, Finishing
<1> QED
  BY <1>1, <1>2, <1>3, <1>4, <1>5, KnownKept

LEMMA CancelWaitKnown ==
    ASSUME Typed, Known, NEW p \in Procs, CancelWait(p)
    PROVE  ReceiptKeeps /\ ReceiptLasts /\ OthersStay(p) /\ Known'
<1>1. ReceiptKeeps /\ ReceiptLasts /\ ReceiptTells'
  BY Unmoved DEF CancelWait, durable
<1>2. OthersStay(p)
  BY DEF OthersStay, Same, Typed, PlacesTyped, CallsTyped, TasksTyped, CancelWait, GoTo,
     durable, call, tasks, history
<1>3. CheckpointTells'
  BY DEF CheckpointTells, Known, Final, Closed, CancelWait, GoTo, durable, call, tasks, history
<1>4. AnswersAreTheReceipt'
  BY <1>1, AnswersStay DEF Known, CancelWait, history
<1>5. Knows(p)'
  BY <1>1 DEF Knows, Known, Final, Closed, Typed, PlacesTyped, CallsTyped, TasksTyped,
     CancelWait, GoTo, durable, call, tasks, history
<1> QED
  BY <1>1, <1>2, <1>3, <1>4, <1>5, KnownKept

LEMMA InterruptKnown ==
    ASSUME Typed, Known, NEW p \in Procs, Interrupt(p)
    PROVE  ReceiptKeeps /\ ReceiptLasts /\ OthersStay(p) /\ Known'
<1>1. ReceiptKeeps /\ ReceiptLasts /\ ReceiptTells'
  <2>1. pc[p] \in {"finish", "cancelReceipt"} => Final(out[p])
    BY DEF Known, Knows
  <2>2. receipt.status # "absent"
    BY DEF Interrupt, Known, Knows
  <2>3. ReceiptWrite(p) = receipt \/ Transition(ReceiptWrite(p))
    BY <2>1, <2>2, MarkedTells, ResumedTells, RunningTells, TerminalTells DEF ReceiptWrite
  <2> QED
    BY <2>3, TransitionTells, Unmoved DEF Interrupt
<1>2. OthersStay(p)
  BY DEF OthersStay, Same, Typed, PlacesTyped, CallsTyped, TasksTyped, Interrupt, Raise,
     EndCall, call, history
<1>3. CheckpointTells'
  BY DEF CheckpointTells, Known, Final, Closed, Interrupt, Raise, EndCall, call, history
<1>4. AnswersAreTheReceipt'
  BY <1>1, AnswersStay DEF Known, Interrupt, history
<1>5. Knows(p)'
  <2>1. pc[p] # "idle" /\ child'[p].state = "none"
    BY DEF Interrupt, NoChild, Typed, TasksTyped
  <2> QED
    BY <2>1, <1>1, Raising DEF Interrupt
<1> QED
  BY <1>1, <1>2, <1>3, <1>4, <1>5, KnownKept

LEMMA CrashKnown ==
    ASSUME Typed, Known, NEW p \in Procs, Crash(p)
    PROVE  ReceiptKeeps /\ ReceiptLasts /\ OthersStay(p) /\ Known'
<1>1. ReceiptKeeps /\ ReceiptLasts /\ ReceiptTells'
  BY Unmoved DEF Crash, durable
<1>2. OthersStay(p)
  BY DEF OthersStay, Same, Typed, PlacesTyped, CallsTyped, TasksTyped, Crash, EndCall, durable,
     history
<1>3. CheckpointTells'
  BY DEF CheckpointTells, Known, Final, Closed, Crash, EndCall, durable, history
<1>4. AnswersAreTheReceipt'
  BY <1>1, AnswersStay DEF Known, Crash, history
<1>5. Knows(p)'
  <2>1. child'[p].state = "none"
    BY DEF Crash, NoChild, Typed, TasksTyped
  <2> QED
    BY <2>1, EndCallAt, Ending DEF Crash, Typed
<1> QED
  BY <1>1, <1>2, <1>3, <1>4, <1>5, KnownKept

LEMMA ZombieEndsKnown ==
    ASSUME Typed, Known, NEW p \in Procs, NEW a \in Attempts, ZombieEnds(p, a)
    PROVE  ReceiptKeeps /\ ReceiptLasts /\ OthersStay(p) /\ Known'
<1>1. ReceiptKeeps /\ ReceiptLasts /\ ReceiptTells'
  BY Unmoved DEF ZombieEnds
<1>2. OthersStay(p)
  BY DEF OthersStay, Same, Typed, PlacesTyped, CallsTyped, TasksTyped, ZombieEnds, call, history
<1>3. CheckpointTells'
  <2>1. \A o \in ChildOutcomes : Final(o) /\ o.status # "manual"
    BY ChildOutcomesFinal
  <2> QED
    BY <2>1 DEF CheckpointTells, Known, ZombieEnds
<1>4. AnswersAreTheReceipt'
  BY <1>1, AnswersStay DEF Known, ZombieEnds, history
<1>5. Knows(p)'
  BY <1>1 DEF Knows, Known, Final, Closed, Typed, PlacesTyped, CallsTyped, TasksTyped,
     ZombieEnds, call, history
<1> QED
  BY <1>1, <1>2, <1>3, <1>4, <1>5, KnownKept

LEMMA ReleaseRetainedKnown ==
    ASSUME Typed, Known, NEW p \in Procs, NEW a \in Attempts, ReleaseRetained(p, a)
    PROVE  ReceiptKeeps /\ ReceiptLasts /\ OthersStay(p) /\ Known'
<1>1. ReceiptKeeps /\ ReceiptLasts /\ ReceiptTells'
  BY Unmoved DEF ReleaseRetained
<1>2. OthersStay(p)
  BY DEF OthersStay, Same, Typed, PlacesTyped, CallsTyped, TasksTyped, ReleaseRetained, history
<1>3. CheckpointTells'
  BY DEF CheckpointTells, Known, Final, Closed, ReleaseRetained, history
<1>4. AnswersAreTheReceipt'
  BY <1>1, AnswersStay DEF Known, ReleaseRetained, history
<1>5. Knows(p)'
  BY <1>1 DEF Knows, Known, Final, Closed, Typed, PlacesTyped, CallsTyped, TasksTyped,
     ReleaseRetained, history
<1> QED
  BY <1>1, <1>2, <1>3, <1>4, <1>5, KnownKept

LEMMA CancelGroupKnown ==
    ASSUME Known, CancelGroup
    PROVE  ReceiptKeeps /\ (\A p \in Procs : Same(p)) /\ Known'
BY Unmoved DEF Known, Knows, CheckpointTells, AnswersAreTheReceipt, Same, CancelGroup, call,
   tasks, history

LEMMA DeadlineKnown ==
    ASSUME Known, Deadline
    PROVE  ReceiptKeeps /\ (\A p \in Procs : Same(p)) /\ Known'
BY Unmoved DEF Known, Knows, CheckpointTells, AnswersAreTheReceipt, Same, Deadline, durable,
   call, tasks, history

-----------------------------------------------------------------------------
(* Without resume the receipt stays that of the first claim. *)
ReceiptHolds ==
    receipt.status # "absent" =>
        /\ receipt'.attempt = receipt.attempt /\ receipt'.owner = receipt.owner
        /\ receipt.status \in {"running"} \cup Closed => receipt'.status \in {"running"} \cup Closed
        /\ receipt.status \in Closed => receipt'.status \in Closed

LEMMA Unheld ==
    ASSUME UNCHANGED receipt
    PROVE  ReceiptHolds
BY DEF ReceiptHolds

LEMMA MarkedHolds ==
    ASSUME Typed, receipt' = MarkedManual(receipt)
    PROVE  ReceiptHolds
BY DEF Typed, DurableTyped, ReceiptType, ReceiptHolds, MarkedManual, Open, Closed

LEMMA RunningHolds ==
    ASSUME Typed, Sole, NEW p \in Procs, pc[p] # "idle", CanRun(p), receipt' = RunningReceipt(p)
    PROVE  ReceiptHolds /\ receipt'.status = "running"
BY DEF Typed, DurableTyped, ReceiptType, Sole, Alone, ReceiptHolds, RunningReceipt, CanRun,
   Attempt, Closed

LEMMA TerminalHolds ==
    ASSUME Typed, NEW p \in Procs, Final(out[p]), receipt.status = "running",
           receipt' = TerminalReceipt(p)
    PROVE  ReceiptHolds /\ receipt'.status \in Closed
BY DEF Typed, DurableTyped, ReceiptType, ReceiptHolds, TerminalReceipt, Final, Closed

(* A process that does nothing stays alone. *)
LEMMA OthersAlone ==
    ASSUME Sole, Known, ReceiptHolds, late => late', NEW q \in Procs, Same(q),
           Starting(q) => runs'[1] = runs[1]
    PROVE  Alone(q)' /\ (Owner(q)' <=> Owner(q))
<1>1. Owner(q)' <=> Owner(q)
  BY DEF Same, Owner, Starting
<1>2. Alone(q)'
  BY DEF Sole, Known, Knows, Alone, Same, Starting, ReceiptHolds
<1> QED
  BY <1>1, <1>2

LEMMA SoleKept ==
    ASSUME Sole, Known, ReceiptLasts, ReceiptHolds, late => late', NEW p \in Procs,
           OthersStay(p), Alone(p)',
           Once', runs'[1] = runs[1] \/ Owner(p),
           Owner(p)' => Owner(p) \/ (receipt.status = "absent" /\ receipt'.status # "absent")
    PROVE  Sole'
<1>1. \A q \in Procs : q # p => Alone(q)' /\ (Owner(q)' <=> Owner(q))
  <2> SUFFICES ASSUME NEW q \in Procs, q # p PROVE Alone(q)' /\ (Owner(q)' <=> Owner(q))
    OBVIOUS
  <2>1. Same(q)
    BY DEF OthersStay
  <2>2. Starting(q) => runs'[1] = runs[1]
    BY DEF Sole, Owner
  <2> QED
    BY <2>1, <2>2, OthersAlone
<1>2. receipt'.status = "absent" => \A q \in Procs : ~Owner(q)'
  BY <1>1 DEF Sole, ReceiptLasts
<1>3. \A q, r \in Procs : Owner(q)' /\ Owner(r)' => q = r
  BY <1>1 DEF Sole
<1> QED
  BY <1>1, <1>2, <1>3 DEF Sole

LEMMA OneIsAttempt == 1 \in Attempts
BY DelegationAssumption DEF Attempts

LEMMA CallOfOne ==
    ASSUME Sole, Known, NEW p \in Procs, pc[p] # "idle"
    PROVE  Attempt(p) = 1 /\ receipt.status # "absent" /\ receipt.attempt = 1
BY DEF Sole, Known, Knows, Alone, Attempt

(* What the tasks of a call that waits for none may be. *)
TasksOfOne(p) == child'[p].state = "none" /\ zombies'[p] \subseteq {1} /\ retained'[p] \subseteq {1}

LEMMA TasksStayOfOne ==
    ASSUME Known, Sole, NEW p \in Procs, UNCHANGED tasks, pc[p] \notin {"wait", "grace"}
    PROVE  TasksOfOne(p)
BY DEF Known, Knows, Sole, Alone, TasksOfOne, tasks

LEMMA AloneEnding ==
    ASSUME NEW p \in Procs, pc'[p] = "idle", ~owns'[p], TasksOfOne(p)
    PROVE  Alone(p)'
BY DEF Alone, Starting, TasksOfOne

LEMMA AloneGoing ==
    ASSUME Known, Sole, ReceiptHolds, late => late', NEW p \in Procs, pc[p] # "idle",
           seen'[p] = seen[p], owns'[p] <=> owns[p], begunLate'[p] <=> begunLate[p],
           TasksOfOne(p),
           \/ pc'[p] \in {"closeLease", "markManual", "resume", "uncertain", "reconcile", "replay", "adopt"}
           \/ pc'[p] = "finish" /\ receipt'.status \in {"running"} \cup Closed
           \/ pc'[p] = "cancelReceipt" /\ ~begunLate[p]
           \/ pc'[p] = "release" /\ (owns[p] \/ receipt'.status \in Closed)
           \/ pc'[p] \in {"report", "settle"} /\ receipt'.status \in Closed
    PROVE  Alone(p)'
BY CallOfOne DEF Sole, Alone, Starting, TasksOfOne, ReceiptHolds, Attempt

LEMMA AloneRaising ==
    ASSUME Typed, Known, Sole, ReceiptHolds, late => late', NEW p \in Procs, pc[p] # "idle",
           NEW answer, Raise(p, answer), TasksOfOne(p)
    PROVE  Alone(p)' /\ (owns'[p] => owns[p])
<1>1. CASE owns[p]
  <2>1. pc'[p] = "release" /\ UNCHANGED call
    BY <1>1, RaiseAt DEF Typed
  <2> QED
    BY <1>1, <2>1, AloneGoing DEF call
<1>2. CASE ~owns[p]
  <2>1. pc'[p] = "idle" /\ ~owns'[p]
    BY <1>2, EndCallAt DEF Raise, Typed
  <2> QED
    BY <1>2, <2>1, AloneEnding
<1> QED
  BY <1>1, <1>2

(* A process becomes the owner by a claim only. *)
LEMMA NoNewOwner ==
    ASSUME NEW p \in Procs, owns'[p] => owns[p],
           zombies'[p] \subseteq zombies[p] \/ Owner(p), retained'[p] \subseteq retained[p] \/ Owner(p),
           pc'[p] \notin {"reserve", "start", "invoke", "wait", "grace"} \/ Owner(p)
    PROVE  Owner(p)' => Owner(p)
BY DEF Owner, Starting

(* Leases and checkpoint while no child starts. *)
LEMMA OnceKept ==
    ASSUME Once, ReceiptHolds, ReceiptLasts, receipt.status # "absent" \/ UNCHANGED receipt,
           runs' = runs, ckpt'.attempt \in {0, 1},
           \A a \in Attempts : a # 1 => lease'[a] = lease[a],
           lease'[1] = "completed" => lease[1] = "completed" \/ receipt'.status \in Closed
    PROVE  Once'
BY DEF Once, ReceiptHolds, ReceiptLasts, Closed

LEMMA DispatchAlone ==
    ASSUME Typed, Known, Sole, ReceiptHolds, late => late', NEW p \in Procs,
           pc[p] \in {"inspect", "closeLease"}, Dispatch(p), UNCHANGED tasks
    PROVE  /\ Alone(p)' /\ (owns'[p] => owns[p])
           /\ pc'[p] \in {"idle", "replay", "reconcile", "resume"}
<1>1. seen[p].status # "absent" /\ TasksOfOne(p)
  BY TasksStayOfOne DEF Known, Knows
<1>2. CASE \E answer \in AnswerKinds : EndCall(p, answer)
  BY <1>1, <1>2, EndCallAt, AloneEnding DEF Typed
<1>3. CASE pc'[p] \in {"replay", "reconcile", "resume"} /\ UNCHANGED call
  BY <1>1, <1>3, AloneGoing DEF call
<1> QED
  BY <1>1, <1>2, <1>3, DispatchAt DEF Typed

-----------------------------------------------------------------------------
(* One process and the child, action by action, without resume. *)
LEMMA ClaimSole ==
    ASSUME Typed, Known, Sole, ~AllowResume, NEW p \in Procs, Claim(p)
    PROVE  Sole'
<1>0. Known' /\ ReceiptKeeps /\ ReceiptLasts /\ OthersStay(p)
  BY ClaimKnown
<1>1. ReceiptHolds
  BY DEF Claim, ReceiptHolds
<1>2. Alone(p)'
  <2>1. pc'[p] \in {"inspect", "reserve"} /\ seen'[p] = receipt' /\ ~owns'[p]
    BY DEF Claim, Typed, PlacesTyped, CallsTyped, Sole, Alone
  <2>2. (begunLate'[p] <=> late) /\ (late' <=> late)
    BY DEF Claim, Typed, CallsTyped
  <2>3. receipt'.attempt = 1
    <3>1. receipt.status # "absent" => receipt.attempt = 1
      BY DelegationAssumption DEF Sole, Once, Known, ReceiptTells, Attempts
    <3> QED
      BY <3>1 DEF Claim, NoReceipt
  <2>4. TasksOfOne(p)
    BY TasksStayOfOne DEF Claim
  <2>5. CASE receipt.status = "absent"
    <3>1. runs'[1] = 0 /\ zombies'[p] = {} /\ retained'[p] = {} /\ receipt'.status = "reserved"
      BY <2>5 DEF Claim, Sole, Once, Owner, tasks, NoReceipt
    <3> QED
      BY <2>1, <2>2, <2>3, <2>4, <3>1 DEF Alone, Starting, TasksOfOne
  <2>6. CASE receipt.status # "absent"
    <3>1. pc'[p] = "inspect" /\ receipt' = receipt
      BY <2>6 DEF Claim, Typed, PlacesTyped
    <3>2. receipt.status # "reserved" => receipt.status \in {"running"} \cup Closed
      BY <2>6 DEF Typed, DurableTyped, ReceiptType, ReceiptStatuses, Closed
    <3> QED
      BY <2>1, <2>2, <2>3, <2>4, <3>1, <3>2 DEF Alone, Starting, TasksOfOne
  <2> QED
    BY <2>5, <2>6
<1>3. Once'
  <2>1. receipt'.attempt \in {0, 1}
    BY DEF Claim, NoReceipt, Sole, Once
  <2>2. receipt.status = "absent" => receipt'.status # "absent"
    BY DEF Claim, NoReceipt
  <2> QED
    BY <1>1, <2>1, <2>2 DEF Claim, Sole, Once, ReceiptHolds, Closed
<1>4. Owner(p)' => Owner(p) \/ (receipt.status = "absent" /\ receipt'.status # "absent")
  BY <1>0 DEF Owner, Starting, Known, Knows, Typed, PlacesTyped, CallsTyped, TasksTyped, Claim,
     tasks
<1>5. runs'[1] = runs[1] \/ Owner(p)
  BY DEF Claim, Owner, Starting
<1>6. late => late'
  BY DEF Claim
<1> QED
  BY <1>0, <1>1, <1>2, <1>3, <1>4, <1>5, <1>6, SoleKept

LEMMA InspectSole ==
    ASSUME Typed, Known, Sole, ~AllowResume, NEW p \in Procs, Inspect(p)
    PROVE  Sole'
<1>0. Known' /\ ReceiptKeeps /\ ReceiptLasts /\ OthersStay(p)
  BY InspectKnown
<1>1. ReceiptHolds
  BY Unheld DEF Inspect, durable
<1>2. Alone(p)'
  <2>1. TasksOfOne(p) /\ (late => late')
    BY TasksStayOfOne DEF Inspect
  <2>2. seen[p].status # "absent" /\ Attempt(p) \in Attempts
    BY DEF Inspect, Known, Knows, Attempt
  <2>3. \/ \E label \in {"closeLease", "markManual"} : GoTo(p, label) /\ UNCHANGED call
        \/ Dispatch(p)
        \/ \E answer \in {"in_progress", "manual"} : EndCall(p, answer)
    BY <2>2 DEF Inspect, InvalidLease, Typed, CallsTyped, DurableTyped, ReceiptType,
       ReceiptStatuses, Open
  <2>4. CASE \E label \in {"closeLease", "markManual"} : GoTo(p, label) /\ UNCHANGED call
    <3>1. pc'[p] \in {"closeLease", "markManual"} /\ UNCHANGED call
      BY <2>4, GoToAt DEF Typed
    <3>2. Alone(p)'
      BY <2>1, <3>1, <1>1, AloneGoing DEF Inspect, call
    <3> QED
      BY <3>1, <3>2 DEF call
  <2>5. CASE Dispatch(p)
    BY <2>1, <2>5, <1>1, DispatchAlone DEF Inspect
  <2>6. CASE \E answer \in {"in_progress", "manual"} : EndCall(p, answer)
    BY <2>1, <2>6, EndCallAt, AloneEnding DEF Typed
  <2> QED
    BY <2>3, <2>4, <2>5, <2>6
<1>3. Once'
  BY <1>1, DelegationAssumption DEF Once, Sole, Alone, Known, Knows, Closed, Attempts,
     ReceiptHolds, Typed, DurableTyped, HistoryTyped, Inspect, durable, history, Attempt
<1>4. Owner(p)' => Owner(p) \/ (receipt.status = "absent" /\ receipt'.status # "absent")
  <2>1. pc'[p] \notin {"reserve", "start", "invoke", "wait", "grace"} /\ (owns'[p] => owns[p])
    <3>1. seen[p].status # "absent" /\ Attempt(p) \in Attempts
      BY DEF Inspect, Known, Knows, Attempt
    <3>2. \/ \E label \in {"closeLease", "markManual"} : GoTo(p, label) /\ UNCHANGED call
          \/ Dispatch(p)
          \/ \E answer \in {"in_progress", "manual"} : EndCall(p, answer)
      BY <3>1 DEF Inspect, InvalidLease, Typed, CallsTyped, DurableTyped, ReceiptType,
         ReceiptStatuses, Open
    <3> QED
      BY <1>1, <3>2, GoToAt, EndCallAt, DispatchAlone DEF Inspect, Typed, call
  <2> QED
    BY <2>1, NoNewOwner DEF Inspect, tasks
<1>5. runs'[1] = runs[1] \/ Owner(p)
  BY DEF Inspect, history, Owner, Starting
<1>6. late => late'
  BY DEF Inspect, durable
<1> QED
  BY <1>0, <1>1, <1>2, <1>3, <1>4, <1>5, <1>6, SoleKept

LEMMA CloseLeaseSole ==
    ASSUME Typed, Known, Sole, ~AllowResume, NEW p \in Procs, CloseLease(p)
    PROVE  Sole'
<1>0. Known' /\ ReceiptKeeps /\ ReceiptLasts /\ OthersStay(p)
  BY CloseLeaseKnown
<1>1. ReceiptHolds
  BY Unheld DEF CloseLease
<1>2. Alone(p)'
  <2>1. TasksOfOne(p) /\ (late => late')
    BY TasksStayOfOne DEF CloseLease
  <2>2. CASE Dispatch(p)
    BY <2>1, <2>2, <1>1, DispatchAlone DEF CloseLease
  <2>3. CASE EndCall(p, "error")
    BY <2>1, <2>3, EndCallAt, AloneEnding DEF Typed
  <2> QED
    BY <2>2, <2>3 DEF CloseLease
<1>3. Once'
  <2>1. receipt.status # "absent" \/ UNCHANGED receipt
    BY DEF CloseLease, Known, Knows
  <2>2. runs' = runs /\ ckpt'.attempt \in {0, 1}
    BY DEF CloseLease, CanComplete, LeaseCompleted, history, Sole, Once, Alone
  <2>3. \A b \in Attempts : b # 1 => lease'[b] = lease[b]
    BY CallOfOne DEF CloseLease, CanComplete, LeaseCompleted, Typed, DurableTyped, Sole, Alone
  <2>4. lease'[1] = "completed" => lease[1] = "completed" \/ receipt'.status \in Closed
    BY OneIsAttempt, CallOfOne DEF CloseLease, CanComplete, LeaseCompleted, Typed, DurableTyped,
       Sole, Alone, Known, Knows, Closed
  <2> QED
    BY <1>0, <1>1, <2>1, <2>2, <2>3, <2>4, OnceKept DEF Sole
<1>4. Owner(p)' => Owner(p) \/ (receipt.status = "absent" /\ receipt'.status # "absent")
  <2>1. pc'[p] \notin {"reserve", "start", "invoke", "wait", "grace"} /\ (owns'[p] => owns[p])
    BY <1>1, EndCallAt, DispatchAlone DEF CloseLease, Typed
  <2> QED
    BY <2>1, NoNewOwner DEF CloseLease, tasks
<1>5. runs'[1] = runs[1] \/ Owner(p)
  BY DEF CloseLease, history, Owner, Starting
<1>6. late => late'
  BY DEF CloseLease
<1> QED
  BY <1>0, <1>1, <1>2, <1>3, <1>4, <1>5, <1>6, SoleKept

LEMMA MarkManualSole ==
    ASSUME Typed, Known, Sole, ~AllowResume, NEW p \in Procs, MarkManual(p)
    PROVE  Sole'
<1>0. Known' /\ ReceiptKeeps /\ ReceiptLasts /\ OthersStay(p)
  BY MarkManualKnown
<1>1. ReceiptHolds
  BY MarkedHolds DEF MarkManual
<1>2. Alone(p)'
  <2>1. TasksOfOne(p) /\ pc[p] # "idle"
    BY TasksStayOfOne DEF MarkManual
  <2> QED
    BY <2>1, EndCallAt, AloneEnding DEF MarkManual, Typed
<1>3. Once'
  <2>1. receipt.status # "absent" \/ UNCHANGED receipt
    BY DEF MarkManual, Known, Knows
  <2>2. runs' = runs /\ ckpt'.attempt \in {0, 1}
    BY DEF MarkManual, history, Sole, Once, Alone
  <2>3. \A b \in Attempts : b # 1 => lease'[b] = lease[b]
    BY CallOfOne DEF MarkManual, Typed, DurableTyped, Sole, Alone
  <2>4. lease'[1] = "completed" => lease[1] = "completed" \/ receipt'.status \in Closed
    BY OneIsAttempt, CallOfOne DEF MarkManual, Typed, DurableTyped, Sole, Alone, Known, Knows,
       Closed
  <2> QED
    BY <1>0, <1>1, <2>1, <2>2, <2>3, <2>4, OnceKept DEF Sole
<1>4. Owner(p)' => Owner(p) \/ (receipt.status = "absent" /\ receipt'.status # "absent")
  BY EndCallAt, NoNewOwner DEF MarkManual, tasks, Typed
<1>5. runs'[1] = runs[1] \/ Owner(p)
  BY DEF MarkManual, history, Owner, Starting
<1>6. late => late'
  BY DEF MarkManual
<1> QED
  BY <1>0, <1>1, <1>2, <1>3, <1>4, <1>5, <1>6, SoleKept

LEMMA ClaimResumeSole ==
    ASSUME Known, ~AllowResume, NEW p \in Procs, ClaimResume(p)
    PROVE  FALSE
BY DEF Known, Knows, ClaimResume

LEMMA ReserveSole ==
    ASSUME Typed, Known, Sole, ~AllowResume, NEW p \in Procs, Reserve(p)
    PROVE  Sole'
<1>0. Known' /\ ReceiptKeeps /\ ReceiptLasts /\ OthersStay(p)
  BY ReserveKnown
<1>1. ReceiptHolds
  BY Unheld DEF Reserve
<1>2. Alone(p)'
  <2>1. pc[p] = "reserve" /\ seen'[p] = seen[p] /\ (begunLate'[p] <=> begunLate[p])
        /\ receipt' = receipt /\ (late' <=> late) /\ runs' = runs
    BY DEF Reserve, history
  <2>2. child'[p].state = "none" /\ zombies'[p] = {} /\ retained'[p] = {} /\ runs[1] = 0
    BY <2>1 DEF Reserve, tasks, Sole, Alone, Starting, Known, Knows
  <2>3. CASE CanReserve(p) /\ owns' = [owns EXCEPT ![p] = TRUE] /\ GoTo(p, "start")
    <3>1. pc'[p] = "start" /\ ~late
      BY <2>3, GoToAt DEF Typed, CanReserve
    <3> QED
      BY <2>1, <2>2, <3>1 DEF Sole, Alone, Starting
  <2>4. CASE GoTo(p, "uncertain") /\ UNCHANGED owns
    <3>1. pc'[p] = "uncertain"
      BY <2>4, GoToAt DEF Typed
    <3> QED
      BY <2>1, <2>2, <2>4, <3>1, <1>1, AloneGoing DEF TasksOfOne
  <2> QED
    BY <2>3, <2>4 DEF Reserve
<1>3. Once'
  <2>1. receipt.status # "absent" \/ UNCHANGED receipt
    BY DEF Reserve, Known, Knows
  <2>2. runs' = runs /\ ckpt'.attempt \in {0, 1}
    BY DEF Reserve, CanReserve, history, Sole, Once, Alone
  <2>3. \A b \in Attempts : b # 1 => lease'[b] = lease[b]
    BY CallOfOne DEF Reserve, CanReserve, Typed, DurableTyped, Sole, Alone
  <2>4. lease'[1] = "completed" => lease[1] = "completed" \/ receipt'.status \in Closed
    BY OneIsAttempt, CallOfOne DEF Reserve, CanReserve, Typed, DurableTyped, Sole, Alone, Known,
       Knows, Closed
  <2> QED
    BY <1>0, <1>1, <2>1, <2>2, <2>3, <2>4, OnceKept DEF Sole
<1>4. Owner(p)' => Owner(p) \/ (receipt.status = "absent" /\ receipt'.status # "absent")
  BY <1>0 DEF Owner, Starting, Known, Knows, Typed, PlacesTyped, CallsTyped, TasksTyped,
     Reserve, GoTo, tasks, history
<1>5. runs'[1] = runs[1] \/ Owner(p)
  BY DEF Reserve, history, Owner, Starting
<1>6. late => late'
  BY DEF Reserve
<1> QED
  BY <1>0, <1>1, <1>2, <1>3, <1>4, <1>5, <1>6, SoleKept

LEMMA UncertainSole ==
    ASSUME Typed, Known, Sole, ~AllowResume, NEW p \in Procs, Uncertain(p)
    PROVE  Sole'
<1>0. Known' /\ ReceiptKeeps /\ ReceiptLasts /\ OthersStay(p)
  BY UncertainKnown
<1>1. ReceiptHolds
  BY MarkedHolds DEF Uncertain
<1>2. Alone(p)'
  <2>1. TasksOfOne(p) /\ pc[p] # "idle"
    BY TasksStayOfOne DEF Uncertain
  <2> QED
    BY <2>1, EndCallAt, AloneEnding DEF Uncertain, Typed
<1>3. Once'
  <2>1. receipt.status # "absent" \/ UNCHANGED receipt
    BY DEF Uncertain, Known, Knows
  <2>2. runs' = runs /\ ckpt'.attempt \in {0, 1}
    BY DEF Uncertain, history, Sole, Once, Alone
  <2>3. \A b \in Attempts : b # 1 => lease'[b] = lease[b]
    BY CallOfOne DEF Uncertain, Typed, DurableTyped, Sole, Alone
  <2>4. lease'[1] = "completed" => lease[1] = "completed" \/ receipt'.status \in Closed
    BY OneIsAttempt, CallOfOne DEF Uncertain, Typed, DurableTyped, Sole, Alone, Known, Knows,
       Closed
  <2> QED
    BY <1>0, <1>1, <2>1, <2>2, <2>3, <2>4, OnceKept DEF Sole
<1>4. Owner(p)' => Owner(p) \/ (receipt.status = "absent" /\ receipt'.status # "absent")
  BY EndCallAt, NoNewOwner DEF Uncertain, tasks, Typed
<1>5. runs'[1] = runs[1] \/ Owner(p)
  BY DEF Uncertain, history, Owner, Starting
<1>6. late => late'
  BY DEF Uncertain
<1> QED
  BY <1>0, <1>1, <1>2, <1>3, <1>4, <1>5, <1>6, SoleKept

LEMMA StartSole ==
    ASSUME Typed, Known, Sole, ~AllowResume, NEW p \in Procs, Start(p)
    PROVE  Sole'
<1>0. Known' /\ ReceiptKeeps /\ ReceiptLasts /\ OthersStay(p)
  BY StartKnown
<1>1. ReceiptHolds
  BY RunningHolds, Unheld DEF Start
<1>2. Alone(p)'
  <2>1. TasksOfOne(p) /\ pc[p] = "start" /\ (late' <=> late) /\ runs' = runs
    BY TasksStayOfOne DEF Start, history
  <2>2. CASE CanRun(p) /\ receipt' = RunningReceipt(p) /\ GoTo(p, "invoke") /\ UNCHANGED call
    <3>1. pc'[p] = "invoke" /\ receipt'.status = "running" /\ receipt'.attempt = 1
          /\ receipt'.owner = receipt.owner
      BY <2>1, <2>2, GoToAt, RunningHolds, CallOfOne DEF Typed, ReceiptHolds
    <3>2. seen'[p] = seen[p] /\ (owns'[p] <=> owns[p]) /\ (begunLate'[p] <=> begunLate[p])
          /\ UNCHANGED tasks
      BY <2>2 DEF call, Start
    <3> QED
      BY <2>1, <3>1, <3>2 DEF Sole, Alone, Starting, TasksOfOne, tasks, Closed
  <2>3. CASE Raise(p, "error")
    BY <2>1, <2>3, <1>1, AloneRaising
  <2> QED
    BY <2>2, <2>3 DEF Start
<1>3. Once'
  <2>1. receipt.status # "absent" \/ UNCHANGED receipt
    BY DEF Start, Known, Knows
  <2>2. runs' = runs /\ ckpt'.attempt \in {0, 1}
    BY DEF Start, history, Sole, Once, Alone
  <2>3. \A b \in Attempts : b # 1 => lease'[b] = lease[b]
    BY CallOfOne DEF Start, Typed, DurableTyped, Sole, Alone
  <2>4. lease'[1] = "completed" => lease[1] = "completed" \/ receipt'.status \in Closed
    BY OneIsAttempt, CallOfOne DEF Start, Typed, DurableTyped, Sole, Alone, Known, Knows, Closed
  <2> QED
    BY <1>0, <1>1, <2>1, <2>2, <2>3, <2>4, OnceKept DEF Sole
<1>4. Owner(p)' => Owner(p) \/ (receipt.status = "absent" /\ receipt'.status # "absent")
  <2>1. owns'[p] => owns[p]
    BY RaiseAt, EndCallAt DEF Start, Raise, Typed, call
  <2>2. pc'[p] \notin {"reserve", "start", "invoke", "wait", "grace"} \/ Owner(p)
    BY RaiseAt, GoToAt DEF Start, Typed, Owner, Starting
  <2> QED
    BY <2>1, <2>2, NoNewOwner DEF Start, tasks
<1>5. runs'[1] = runs[1] \/ Owner(p)
  BY DEF Start, history, Owner, Starting
<1>6. late => late'
  BY DEF Start
<1> QED
  BY <1>0, <1>1, <1>2, <1>3, <1>4, <1>5, <1>6, SoleKept

LEMMA InvokeSole ==
    ASSUME Typed, Known, Sole, ~AllowResume, NEW p \in Procs, Invoke(p)
    PROVE  Sole'
<1>0. Known' /\ ReceiptKeeps /\ ReceiptLasts /\ OthersStay(p)
  BY InvokeKnown
<1>1. ReceiptHolds
  BY Unheld DEF Invoke, durable
<1>2. Alone(p)'
  <2>1. pc[p] = "invoke" /\ child[p].state = "none" /\ Attempt(p) = 1 /\ receipt' = receipt
        /\ late' = late /\ receipt.status \in {"running"} \cup Closed /\ ~begunLate[p]
        /\ zombies'[p] = {} /\ retained'[p] = {} /\ receipt.attempt = 1
    BY CallOfOne DEF Invoke, durable, Known, Knows, Sole, Alone, Starting
  <2>2. CASE /\ FinishWith(p, Failed(IF late THEN "timeout" ELSE "error"))
             /\ UNCHANGED <<child, runs>>
    <3>1. /\ pc'[p] = "finish" /\ seen'[p] = seen[p] /\ (owns'[p] <=> owns[p])
          /\ (begunLate'[p] <=> begunLate[p])
      BY <2>2, GoToAt DEF FinishWith, Typed
    <3> QED
      BY <2>1, <2>2, <3>1, <1>1, AloneGoing DEF TasksOfOne
  <2>3. CASE /\ child' = [child EXCEPT ![p] = [attempt |-> Attempt(p), state |-> "running"]]
             /\ GoTo(p, "wait") /\ UNCHANGED call
    <3>1. /\ pc'[p] = "wait" /\ seen'[p] = seen[p] /\ (owns'[p] <=> owns[p])
          /\ (begunLate'[p] <=> begunLate[p])
      BY <2>3, GoToAt DEF Typed, call
    <3>2. child'[p].attempt = 1
      BY <2>1, <2>3 DEF Typed, TasksTyped
    <3> QED
      BY <2>1, <3>1, <3>2 DEF Sole, Alone, Starting, Attempt
  <2> QED
    BY <2>2, <2>3 DEF Invoke
<1>3. Once'
  <2>1. Attempt(p) = 1 /\ runs[1] = 0 /\ receipt.status # "absent"
    BY CallOfOne DEF Invoke, Sole, Alone, Starting
  <2>2. runs' = runs \/ runs' = [runs EXCEPT ![1] = @ + 1]
    BY <2>1 DEF Invoke
  <2>3. runs'[1] <= 1 /\ \A a \in Attempts : a # 1 => runs'[a] = runs[a]
    BY <2>1, <2>2, OneIsAttempt DEF Typed, HistoryTyped
  <2> QED
    BY <2>1, <2>3 DEF Invoke, durable, Sole, Once
<1>4. Owner(p)' => Owner(p) \/ (receipt.status = "absent" /\ receipt'.status # "absent")
  BY <1>0 DEF Owner, Starting, Known, Knows, Typed, PlacesTyped, CallsTyped, TasksTyped, Invoke,
     FinishWith, GoTo, durable, call
<1>5. runs'[1] = runs[1] \/ Owner(p)
  BY DEF Invoke, Owner, Starting
<1>6. late => late'
  BY DEF Invoke, durable
<1> QED
  BY <1>0, <1>1, <1>2, <1>3, <1>4, <1>5, <1>6, SoleKept

LEMMA ChildReturnsSole ==
    ASSUME Typed, Known, Sole, ~AllowResume, NEW p \in Procs, ChildReturns(p)
    PROVE  Sole'
<1>0. Known' /\ ReceiptKeeps /\ ReceiptLasts /\ OthersStay(p)
  BY ChildReturnsKnown
<1>1. ReceiptHolds
  BY Unheld DEF ChildReturns, durable
<1>2. Alone(p)'
  BY <1>0, <1>1 DEF ReceiptHolds, Sole, Alone, Starting, Known, Knows, Closed, Typed,
     PlacesTyped, CallsTyped, TasksTyped, ChildReturns, GoTo, durable, call, history
<1>3. Once'
  BY <1>1, DelegationAssumption DEF Once, Sole, Alone, Known, Knows, Closed, Attempts,
     ReceiptHolds, Typed, DurableTyped, HistoryTyped, ChildReturns, durable, history
<1>4. Owner(p)' => Owner(p) \/ (receipt.status = "absent" /\ receipt'.status # "absent")
  BY <1>0 DEF Owner, Starting, Known, Knows, Typed, PlacesTyped, CallsTyped, TasksTyped,
     ChildReturns, GoTo, durable, call, history
<1>5. runs'[1] = runs[1] \/ Owner(p)
  BY DEF ChildReturns, history, Owner, Starting
<1>6. late => late'
  BY DEF ChildReturns, durable
<1> QED
  BY <1>0, <1>1, <1>2, <1>3, <1>4, <1>5, <1>6, SoleKept

LEMMA TimeoutSole ==
    ASSUME Typed, Known, Sole, ~AllowResume, NEW p \in Procs, Timeout(p)
    PROVE  Sole'
<1>0. Known' /\ ReceiptKeeps /\ ReceiptLasts /\ OthersStay(p)
  BY TimeoutKnown
<1>1. ReceiptHolds
  BY Unheld DEF Timeout
<1>2. Alone(p)'
  BY <1>0, <1>1 DEF ReceiptHolds, Sole, Alone, Starting, Known, Knows, Closed, Typed,
     PlacesTyped, CallsTyped, TasksTyped, Timeout, TaskStops, TaskLingers, FinishWith, GoTo,
     history
<1>3. Once'
  <2>1. receipt.status # "absent" \/ UNCHANGED receipt
    BY DEF Timeout, Known, Knows
  <2>2. runs' = runs /\ ckpt'.attempt \in {0, 1}
    BY DEF Timeout, TaskStops, TaskLingers, history, Sole, Once, Alone
  <2>3. \A b \in Attempts : b # 1 => lease'[b] = lease[b]
    BY CallOfOne DEF Timeout, TaskStops, TaskLingers, Typed, DurableTyped, Sole, Alone
  <2>4. lease'[1] = "completed" => lease[1] = "completed" \/ receipt'.status \in Closed
    BY OneIsAttempt, CallOfOne DEF Timeout, TaskStops, TaskLingers, Typed, DurableTyped, Sole,
       Alone, Known, Knows, Closed
  <2> QED
    BY <1>0, <1>1, <2>1, <2>2, <2>3, <2>4, OnceKept DEF Sole
<1>4. Owner(p)' => Owner(p) \/ (receipt.status = "absent" /\ receipt'.status # "absent")
  BY <1>0 DEF Owner, Starting, Known, Knows, Typed, PlacesTyped, CallsTyped, TasksTyped,
     Timeout, TaskStops, TaskLingers, FinishWith, GoTo, history
<1>5. runs'[1] = runs[1] \/ Owner(p)
  BY DEF Timeout, history, Owner, Starting
<1>6. late => late'
  BY DEF Timeout
<1> QED
  BY <1>0, <1>1, <1>2, <1>3, <1>4, <1>5, <1>6, SoleKept

LEMMA GraceSole ==
    ASSUME Typed, Known, Sole, ~AllowResume, NEW p \in Procs, Grace(p)
    PROVE  Sole'
<1>0. Known' /\ ReceiptKeeps /\ ReceiptLasts /\ OthersStay(p)
  BY GraceKnown
<1>1. ReceiptHolds
  BY Unheld DEF Grace
<1>2. Alone(p)'
  BY <1>0, <1>1 DEF ReceiptHolds, Sole, Alone, Starting, Known, Knows, Closed, Typed,
     PlacesTyped, CallsTyped, TasksTyped, Grace, TaskStops, TaskLingers, GoTo, history
<1>3. Once'
  <2>1. receipt.status # "absent" \/ UNCHANGED receipt
    BY DEF Grace, Known, Knows
  <2>2. runs' = runs /\ ckpt'.attempt \in {0, 1}
    BY DEF Grace, TaskStops, TaskLingers, history, Sole, Once, Alone
  <2>3. \A b \in Attempts : b # 1 => lease'[b] = lease[b]
    BY CallOfOne DEF Grace, TaskStops, TaskLingers, Typed, DurableTyped, Sole, Alone
  <2>4. lease'[1] = "completed" => lease[1] = "completed" \/ receipt'.status \in Closed
    BY OneIsAttempt, CallOfOne DEF Grace, TaskStops, TaskLingers, Typed, DurableTyped, Sole,
       Alone, Known, Knows, Closed
  <2> QED
    BY <1>0, <1>1, <2>1, <2>2, <2>3, <2>4, OnceKept DEF Sole
<1>4. Owner(p)' => Owner(p) \/ (receipt.status = "absent" /\ receipt'.status # "absent")
  BY <1>0 DEF Owner, Starting, Known, Knows, Typed, PlacesTyped, CallsTyped, TasksTyped, Grace,
     TaskStops, TaskLingers, GoTo, history
<1>5. runs'[1] = runs[1] \/ Owner(p)
  BY DEF Grace, history, Owner, Starting
<1>6. late => late'
  BY DEF Grace
<1> QED
  BY <1>0, <1>1, <1>2, <1>3, <1>4, <1>5, <1>6, SoleKept

LEMMA CancelReceiptSole ==
    ASSUME Typed, Known, Sole, ~AllowResume, NEW p \in Procs, CancelReceipt(p)
    PROVE  Sole'
<1>0. Known' /\ ReceiptKeeps /\ ReceiptLasts /\ OthersStay(p)
  BY CancelReceiptKnown
<1>1. ReceiptHolds
  BY TerminalHolds, Unheld DEF CancelReceipt, Known, Knows
<1>2. Alone(p)'
  <2>1. TasksOfOne(p) /\ pc[p] # "idle"
    BY TasksStayOfOne DEF CancelReceipt
  <2> QED
    BY <2>1, <1>1, AloneRaising DEF CancelReceipt
<1>3. Once'
  <2>1. receipt.status # "absent" \/ UNCHANGED receipt
    BY DEF CancelReceipt, Known, Knows
  <2>2. runs' = runs /\ ckpt'.attempt \in {0, 1}
    BY DEF CancelReceipt, history, Sole, Once, Alone
  <2>3. \A b \in Attempts : b # 1 => lease'[b] = lease[b]
    BY CallOfOne DEF CancelReceipt, Typed, DurableTyped, Sole, Alone
  <2>4. lease'[1] = "completed" => lease[1] = "completed" \/ receipt'.status \in Closed
    BY OneIsAttempt, CallOfOne DEF CancelReceipt, Typed, DurableTyped, Sole, Alone, Known,
       Knows, Closed
  <2> QED
    BY <1>0, <1>1, <2>1, <2>2, <2>3, <2>4, OnceKept DEF Sole
<1>4. Owner(p)' => Owner(p) \/ (receipt.status = "absent" /\ receipt'.status # "absent")
  <2>1. owns'[p] => owns[p]
    BY RaiseAt, EndCallAt DEF CancelReceipt, Raise, Typed, call
  <2>2. pc'[p] \notin {"reserve", "start", "invoke", "wait", "grace"} \/ Owner(p)
    BY RaiseAt, GoToAt DEF CancelReceipt, Typed, Owner, Starting
  <2> QED
    BY <2>1, <2>2, NoNewOwner DEF CancelReceipt, tasks
<1>5. runs'[1] = runs[1] \/ Owner(p)
  BY DEF CancelReceipt, history, Owner, Starting
<1>6. late => late'
  BY DEF CancelReceipt
<1> QED
  BY <1>0, <1>1, <1>2, <1>3, <1>4, <1>5, <1>6, SoleKept

LEMMA ReconcileSole ==
    ASSUME Typed, Known, Sole, ~AllowResume, NEW p \in Procs, Reconcile(p)
    PROVE  Sole'
<1>0. Known' /\ ReceiptKeeps /\ ReceiptLasts /\ OthersStay(p)
  BY ReconcileKnown
<1>1. ReceiptHolds
  BY Unheld DEF Reconcile, durable
<1>2. Alone(p)'
  BY <1>0, <1>1 DEF ReceiptHolds, Sole, Alone, Starting, Known, Knows, Closed, Typed,
     PlacesTyped, CallsTyped, TasksTyped, Reconcile, GoTo, EndCall, durable, call, tasks,
     history
<1>3. Once'
  BY <1>1, DelegationAssumption DEF Once, Sole, Alone, Known, Knows, Closed, Attempts,
     ReceiptHolds, Typed, DurableTyped, HistoryTyped, Reconcile, durable, history, Attempt
<1>4. Owner(p)' => Owner(p) \/ (receipt.status = "absent" /\ receipt'.status # "absent")
  BY <1>0 DEF Owner, Starting, Known, Knows, Typed, PlacesTyped, CallsTyped, TasksTyped,
     Reconcile, GoTo, EndCall, durable, call, tasks, history
<1>5. runs'[1] = runs[1] \/ Owner(p)
  BY DEF Reconcile, history, Owner, Starting
<1>6. late => late'
  BY DEF Reconcile, durable
<1> QED
  BY <1>0, <1>1, <1>2, <1>3, <1>4, <1>5, <1>6, SoleKept

LEMMA AdoptSole ==
    ASSUME Typed, Known, Sole, ~AllowResume, NEW p \in Procs, Adopt(p)
    PROVE  Sole'
<1>0. Known' /\ ReceiptKeeps /\ ReceiptLasts /\ OthersStay(p)
  BY AdoptKnown
<1>1. ReceiptHolds
  BY RunningHolds, Unheld DEF Adopt
<1>2. Alone(p)'
  <2>1. TasksOfOne(p) /\ pc[p] = "adopt" /\ (late => late')
    BY TasksStayOfOne DEF Adopt
  <2>2. CASE CanRun(p) /\ receipt' = RunningReceipt(p) /\ GoTo(p, "finish") /\ UNCHANGED call
    <3>1. pc'[p] = "finish" /\ receipt'.status = "running"
      BY <2>1, <2>2, GoToAt, RunningHolds DEF Typed
    <3> QED
      BY <2>1, <2>2, <3>1, <1>1, AloneGoing DEF call
  <2>3. CASE Raise(p, "error")
    BY <2>1, <2>3, <1>1, AloneRaising
  <2> QED
    BY <2>2, <2>3 DEF Adopt
<1>3. Once'
  <2>1. receipt.status # "absent" \/ UNCHANGED receipt
    BY DEF Adopt, Known, Knows
  <2>2. runs' = runs /\ ckpt'.attempt \in {0, 1}
    BY DEF Adopt, history, Sole, Once, Alone
  <2>3. \A b \in Attempts : b # 1 => lease'[b] = lease[b]
    BY CallOfOne DEF Adopt, Typed, DurableTyped, Sole, Alone
  <2>4. lease'[1] = "completed" => lease[1] = "completed" \/ receipt'.status \in Closed
    BY OneIsAttempt, CallOfOne DEF Adopt, Typed, DurableTyped, Sole, Alone, Known, Knows, Closed
  <2> QED
    BY <1>0, <1>1, <2>1, <2>2, <2>3, <2>4, OnceKept DEF Sole
<1>4. Owner(p)' => Owner(p) \/ (receipt.status = "absent" /\ receipt'.status # "absent")
  <2>1. owns'[p] => owns[p]
    BY RaiseAt, EndCallAt DEF Adopt, Raise, Typed, call
  <2>2. pc'[p] \notin {"reserve", "start", "invoke", "wait", "grace"} \/ Owner(p)
    BY RaiseAt, GoToAt DEF Adopt, Typed, Owner, Starting
  <2> QED
    BY <2>1, <2>2, NoNewOwner DEF Adopt, tasks
<1>5. runs'[1] = runs[1] \/ Owner(p)
  BY DEF Adopt, history, Owner, Starting
<1>6. late => late'
  BY DEF Adopt
<1> QED
  BY <1>0, <1>1, <1>2, <1>3, <1>4, <1>5, <1>6, SoleKept

LEMMA FinishSole ==
    ASSUME Typed, Known, Sole, ~AllowResume, NEW p \in Procs, Finish(p)
    PROVE  Sole'
<1>0. Known' /\ ReceiptKeeps /\ ReceiptLasts /\ OthersStay(p)
  BY FinishKnown
<1>1. ReceiptHolds
  <2>1. Final(out[p])
    BY DEF Finish, Known, Knows
  <2> QED
    BY <2>1, TerminalHolds, Unheld DEF Finish, SameTerminal
<1>2. Alone(p)'
  <2>1. TasksOfOne(p) /\ pc[p] = "finish" /\ (late => late') /\ Final(out[p])
    BY TasksStayOfOne DEF Finish, Known, Knows
  <2>2. CASE /\ receipt' = TerminalReceipt(p)
             /\ GoTo(p, IF out[p].status = "completed" THEN "settle" ELSE "report")
             /\ UNCHANGED <<seen, owns, begunLate>>
    <3>1. pc'[p] \in {"settle", "report"}
      BY <2>2, GoToAt DEF Typed
    <3>2. receipt'.status \in Closed
      BY <2>1, <2>2 DEF TerminalReceipt, Typed, DurableTyped, ReceiptType, Final
    <3> QED
      BY <2>1, <2>2, <3>1, <3>2, <1>1, AloneGoing
  <2>3. CASE Raise(p, "error")
    BY <2>1, <2>3, <1>1, AloneRaising
  <2> QED
    BY <2>2, <2>3 DEF Finish
<1>3. Once'
  <2>1. receipt.status # "absent" \/ UNCHANGED receipt
    BY DEF Finish, Known, Knows
  <2>2. runs' = runs /\ ckpt'.attempt \in {0, 1}
    BY DEF Finish, history, Sole, Once, Alone
  <2>3. \A b \in Attempts : b # 1 => lease'[b] = lease[b]
    BY CallOfOne DEF Finish, Typed, DurableTyped, Sole, Alone
  <2>4. lease'[1] = "completed" => lease[1] = "completed" \/ receipt'.status \in Closed
    BY OneIsAttempt, CallOfOne DEF Finish, Typed, DurableTyped, Sole, Alone, Known, Knows,
       Closed
  <2> QED
    BY <1>0, <1>1, <2>1, <2>2, <2>3, <2>4, OnceKept DEF Sole
<1>4. Owner(p)' => Owner(p) \/ (receipt.status = "absent" /\ receipt'.status # "absent")
  <2>1. owns'[p] => owns[p]
    BY RaiseAt, EndCallAt DEF Finish, Raise, Typed, call
  <2>2. pc'[p] \notin {"reserve", "start", "invoke", "wait", "grace"} \/ Owner(p)
    BY RaiseAt, GoToAt DEF Finish, Typed, Owner, Starting
  <2> QED
    BY <2>1, <2>2, NoNewOwner DEF Finish, tasks
<1>5. runs'[1] = runs[1] \/ Owner(p)
  BY DEF Finish, history, Owner, Starting
<1>6. late => late'
  BY DEF Finish
<1> QED
  BY <1>0, <1>1, <1>2, <1>3, <1>4, <1>5, <1>6, SoleKept

LEMMA ReportSole ==
    ASSUME Typed, Known, Sole, ~AllowResume, NEW p \in Procs, Report(p)
    PROVE  Sole'
<1>0. Known' /\ ReceiptKeeps /\ ReceiptLasts /\ OthersStay(p)
  BY ReportKnown
<1>1. ReceiptHolds
  BY Unheld DEF Report, durable
<1>2. Alone(p)'
  BY <1>0, <1>1 DEF ReceiptHolds, Sole, Alone, Starting, Known, Knows, Closed, Typed,
     PlacesTyped, CallsTyped, TasksTyped, Report, GoTo, durable, tasks, history
<1>3. Once'
  BY <1>1, DelegationAssumption DEF Once, Sole, Alone, Known, Knows, Closed, Attempts,
     ReceiptHolds, Typed, DurableTyped, HistoryTyped, Report, durable, history
<1>4. Owner(p)' => Owner(p) \/ (receipt.status = "absent" /\ receipt'.status # "absent")
  BY <1>0 DEF Owner, Starting, Known, Knows, Typed, PlacesTyped, CallsTyped, TasksTyped, Report,
     GoTo, durable, tasks, history
<1>5. runs'[1] = runs[1] \/ Owner(p)
  BY DEF Report, history, Owner, Starting
<1>6. late => late'
  BY DEF Report, durable
<1> QED
  BY <1>0, <1>1, <1>2, <1>3, <1>4, <1>5, <1>6, SoleKept

LEMMA SettleSole ==
    ASSUME Typed, Known, Sole, ~AllowResume, NEW p \in Procs, Settle(p)
    PROVE  Sole'
<1>0. Known' /\ ReceiptKeeps /\ ReceiptLasts /\ OthersStay(p)
  BY SettleKnown
<1>1. ReceiptHolds
  BY Unheld DEF Settle
<1>2. Alone(p)'
  BY <1>0, <1>1 DEF ReceiptHolds, Sole, Alone, Starting, Known, Knows, Closed, Typed,
     PlacesTyped, CallsTyped, TasksTyped, Settle, EndCall, Raise, call, tasks
<1>3. Once'
  <2>1. receipt.status # "absent" \/ UNCHANGED receipt
    BY DEF Settle, Known, Knows
  <2>2. runs' = runs /\ ckpt'.attempt \in {0, 1}
    BY DEF Settle, CanComplete, LeaseCompleted, CleanUp, NoCheckpoint, Sole, Once, Alone
  <2>3. \A b \in Attempts : b # 1 => lease'[b] = lease[b]
    BY CallOfOne DEF Settle, CanComplete, LeaseCompleted, CleanUp, Typed, DurableTyped, Sole,
       Alone
  <2>4. lease'[1] = "completed" => lease[1] = "completed" \/ receipt'.status \in Closed
    BY OneIsAttempt, CallOfOne DEF Settle, CanComplete, LeaseCompleted, CleanUp, Typed,
       DurableTyped, Sole, Alone, Known, Knows, Closed
  <2> QED
    BY <1>0, <1>1, <2>1, <2>2, <2>3, <2>4, OnceKept DEF Sole
<1>4. Owner(p)' => Owner(p) \/ (receipt.status = "absent" /\ receipt'.status # "absent")
  BY <1>0 DEF Owner, Starting, Known, Knows, Typed, PlacesTyped, CallsTyped, TasksTyped, Settle,
     EndCall, Raise, call, tasks
<1>5. runs'[1] = runs[1] \/ Owner(p)
  BY DEF Settle, Owner, Starting
<1>6. late => late'
  BY DEF Settle
<1> QED
  BY <1>0, <1>1, <1>2, <1>3, <1>4, <1>5, <1>6, SoleKept

LEMMA ReplaySole ==
    ASSUME Typed, Known, Sole, ~AllowResume, NEW p \in Procs, Replay(p)
    PROVE  Sole'
<1>0. Known' /\ ReceiptKeeps /\ ReceiptLasts /\ OthersStay(p)
  BY ReplayKnown
<1>1. ReceiptHolds
  BY Unheld DEF Replay
<1>2. Alone(p)'
  <2>1. TasksOfOne(p) /\ pc[p] # "idle"
    BY TasksStayOfOne DEF Replay
  <2> QED
    BY <2>1, EndCallAt, AloneEnding DEF Replay, Typed
<1>3. Once'
  <2>1. receipt.status # "absent" \/ UNCHANGED receipt
    BY DEF Replay, Known, Knows
  <2>2. runs' = runs /\ ckpt'.attempt \in {0, 1}
    BY DEF Replay, CanComplete, LeaseCompleted, CleanUp, NoCheckpoint, Sole, Once, Alone
  <2>3. \A b \in Attempts : b # 1 => lease'[b] = lease[b]
    BY CallOfOne DEF Replay, CanComplete, LeaseCompleted, CleanUp, Typed, DurableTyped, Sole,
       Alone
  <2>4. lease'[1] = "completed" => lease[1] = "completed" \/ receipt'.status \in Closed
    BY OneIsAttempt, CallOfOne DEF Replay, CanComplete, LeaseCompleted, CleanUp, Typed,
       DurableTyped, Sole, Alone, Known, Knows, Closed
  <2> QED
    BY <1>0, <1>1, <2>1, <2>2, <2>3, <2>4, OnceKept DEF Sole
<1>4. Owner(p)' => Owner(p) \/ (receipt.status = "absent" /\ receipt'.status # "absent")
  BY EndCallAt, NoNewOwner DEF Replay, tasks, Typed
<1>5. runs'[1] = runs[1] \/ Owner(p)
  BY DEF Replay, Owner, Starting
<1>6. late => late'
  BY DEF Replay
<1> QED
  BY <1>0, <1>1, <1>2, <1>3, <1>4, <1>5, <1>6, SoleKept

LEMMA ReleaseSole ==
    ASSUME Typed, Known, Sole, ~AllowResume, NEW p \in Procs, Release(p)
    PROVE  Sole'
<1>0. Known' /\ ReceiptKeeps /\ ReceiptLasts /\ OthersStay(p)
  BY ReleaseKnown
<1>1. ReceiptHolds
  BY Unheld DEF Release
<1>2. Alone(p)'
  <2>1. TasksOfOne(p) /\ pc[p] # "idle"
    BY TasksStayOfOne DEF Release
  <2> QED
    BY <2>1, EndCallAt, AloneEnding DEF Release, Typed
<1>3. Once'
  <2>1. receipt.status # "absent" \/ UNCHANGED receipt
    BY DEF Release, Known, Knows
  <2>2. runs' = runs /\ ckpt'.attempt \in {0, 1}
    BY DEF Release, ReleaseLease, history, Sole, Once, Alone
  <2>3. \A b \in Attempts : b # 1 => lease'[b] = lease[b]
    BY CallOfOne DEF Release, ReleaseLease, Typed, DurableTyped, Sole, Alone
  <2>4. lease'[1] = "completed" => lease[1] = "completed" \/ receipt'.status \in Closed
    BY OneIsAttempt, CallOfOne DEF Release, ReleaseLease, Typed, DurableTyped, Sole, Alone,
       Known, Knows, Closed
  <2> QED
    BY <1>0, <1>1, <2>1, <2>2, <2>3, <2>4, OnceKept DEF Sole
<1>4. Owner(p)' => Owner(p) \/ (receipt.status = "absent" /\ receipt'.status # "absent")
  BY EndCallAt, NoNewOwner DEF Release, tasks, Typed
<1>5. runs'[1] = runs[1] \/ Owner(p)
  BY DEF Release, history, Owner, Starting
<1>6. late => late'
  BY DEF Release
<1> QED
  BY <1>0, <1>1, <1>2, <1>3, <1>4, <1>5, <1>6, SoleKept

LEMMA ChildEndsSole ==
    ASSUME Typed, Known, Sole, ~AllowResume, NEW p \in Procs, ChildEnds(p)
    PROVE  Sole'
<1>0. Known' /\ ReceiptKeeps /\ ReceiptLasts /\ OthersStay(p)
  BY ChildEndsKnown
<1>1. ReceiptHolds
  BY Unheld DEF ChildEnds
<1>2. Alone(p)'
  BY <1>0, <1>1 DEF ReceiptHolds, Sole, Alone, Starting, Known, Knows, Closed, Typed,
     PlacesTyped, CallsTyped, TasksTyped, ChildEnds, history
<1>3. Once'
  <2>1. receipt.status # "absent" \/ UNCHANGED receipt
    BY DEF ChildEnds, Known, Knows
  <2>2. runs' = runs /\ ckpt'.attempt \in {0, 1}
    BY DEF ChildEnds, history, Sole, Once, Alone
  <2>3. \A b \in Attempts : b # 1 => lease'[b] = lease[b]
    BY CallOfOne DEF ChildEnds, Typed, DurableTyped, Sole, Alone
  <2>4. lease'[1] = "completed" => lease[1] = "completed" \/ receipt'.status \in Closed
    BY OneIsAttempt, CallOfOne DEF ChildEnds, Typed, DurableTyped, Sole, Alone, Known, Knows,
       Closed
  <2> QED
    BY <1>0, <1>1, <2>1, <2>2, <2>3, <2>4, OnceKept DEF Sole
<1>4. Owner(p)' => Owner(p) \/ (receipt.status = "absent" /\ receipt'.status # "absent")
  BY <1>0 DEF Owner, Starting, Known, Knows, Typed, PlacesTyped, CallsTyped, TasksTyped,
     ChildEnds, history
<1>5. runs'[1] = runs[1] \/ Owner(p)
  BY DEF ChildEnds, history, Owner, Starting
<1>6. late => late'
  BY DEF ChildEnds
<1> QED
  BY <1>0, <1>1, <1>2, <1>3, <1>4, <1>5, <1>6, SoleKept

LEMMA OutputRejectedSole ==
    ASSUME Typed, Known, Sole, ~AllowResume, NEW p \in Procs, OutputRejected(p)
    PROVE  Sole'
<1>0. Known' /\ ReceiptKeeps /\ ReceiptLasts /\ OthersStay(p)
  BY OutputRejectedKnown
<1>1. ReceiptHolds
  BY Unheld DEF OutputRejected, durable
<1>2. Alone(p)'
  BY <1>0, <1>1 DEF ReceiptHolds, Sole, Alone, Starting, Known, Knows, Closed, Typed,
     PlacesTyped, CallsTyped, TasksTyped, OutputRejected, durable, tasks, history
<1>3. Once'
  BY <1>1, DelegationAssumption DEF Once, Sole, Alone, Known, Knows, Closed, Attempts,
     ReceiptHolds, Typed, DurableTyped, HistoryTyped, OutputRejected, durable, history
<1>4. Owner(p)' => Owner(p) \/ (receipt.status = "absent" /\ receipt'.status # "absent")
  BY <1>0 DEF Owner, Starting, Known, Knows, Typed, PlacesTyped, CallsTyped, TasksTyped,
     OutputRejected, durable, tasks, history
<1>5. runs'[1] = runs[1] \/ Owner(p)
  BY DEF OutputRejected, history, Owner, Starting
<1>6. late => late'
  BY DEF OutputRejected, durable
<1> QED
  BY <1>0, <1>1, <1>2, <1>3, <1>4, <1>5, <1>6, SoleKept

LEMMA CancelWaitSole ==
    ASSUME Typed, Known, Sole, ~AllowResume, NEW p \in Procs, CancelWait(p)
    PROVE  Sole'
<1>0. Known' /\ ReceiptKeeps /\ ReceiptLasts /\ OthersStay(p)
  BY CancelWaitKnown
<1>1. ReceiptHolds
  BY Unheld DEF CancelWait, durable
<1>2. Alone(p)'
  BY <1>0, <1>1 DEF ReceiptHolds, Sole, Alone, Starting, Known, Knows, Closed, Typed,
     PlacesTyped, CallsTyped, TasksTyped, CancelWait, GoTo, durable, call, tasks, history
<1>3. Once'
  BY <1>1, DelegationAssumption DEF Once, Sole, Alone, Known, Knows, Closed, Attempts,
     ReceiptHolds, Typed, DurableTyped, HistoryTyped, CancelWait, durable, history
<1>4. Owner(p)' => Owner(p) \/ (receipt.status = "absent" /\ receipt'.status # "absent")
  BY <1>0 DEF Owner, Starting, Known, Knows, Typed, PlacesTyped, CallsTyped, TasksTyped,
     CancelWait, GoTo, durable, call, tasks, history
<1>5. runs'[1] = runs[1] \/ Owner(p)
  BY DEF CancelWait, history, Owner, Starting
<1>6. late => late'
  BY DEF CancelWait, durable
<1> QED
  BY <1>0, <1>1, <1>2, <1>3, <1>4, <1>5, <1>6, SoleKept

LEMMA InterruptSole ==
    ASSUME Typed, Known, Sole, ~AllowResume, NEW p \in Procs, Interrupt(p)
    PROVE  Sole'
<1>0. Known' /\ ReceiptKeeps /\ ReceiptLasts /\ OthersStay(p)
  BY InterruptKnown
<1>1. ReceiptHolds
  <2>1. pc[p] \in {"finish", "cancelReceipt"} => Final(out[p])
    BY DEF Known, Knows
  <2>2. pc[p] # "resume" /\ pc[p] # "idle"
    BY DEF Interrupt, Known, Knows
  <2> QED
    BY <2>1, <2>2, MarkedHolds, RunningHolds, TerminalHolds, Unheld DEF Interrupt, ReceiptWrite
<1>2. Alone(p)'
  <2>1. TasksOfOne(p) /\ pc[p] # "idle"
    BY DEF Interrupt, NoChild, TasksOfOne, Typed, TasksTyped, Sole, Alone, Known, Knows
  <2> QED
    BY <2>1, <1>1, AloneRaising DEF Interrupt
<1>3. Once'
  <2>1. receipt.status # "absent" \/ UNCHANGED receipt
    BY DEF Interrupt, Known, Knows
  <2>2. runs' = runs /\ ckpt'.attempt \in {0, 1}
    BY DEF Interrupt, LeaseWrite, CanComplete, history, Sole, Once, Alone
  <2>3. \A b \in Attempts : b # 1 => lease'[b] = lease[b]
    BY CallOfOne DEF Interrupt, LeaseWrite, CanComplete, Typed, DurableTyped, Sole, Alone
  <2>4. lease'[1] = "completed" => lease[1] = "completed" \/ receipt'.status \in Closed
    <3>1. pc[p] \in {"closeLease", "settle", "replay"} => receipt.status \in Closed
      BY DEF Sole, Alone, Known, Knows, Closed
    <3>2. CASE pc[p] \in {"closeLease", "settle", "replay"}
      BY <1>1, <3>1, <3>2, CallOfOne DEF Interrupt, ReceiptHolds
    <3>3. CASE pc[p] \notin {"closeLease", "settle", "replay"}
      BY <3>3, OneIsAttempt, CallOfOne DEF Interrupt, LeaseWrite, Typed, DurableTyped
    <3> QED
      BY <3>2, <3>3
  <2> QED
    BY <1>0, <1>1, <2>1, <2>2, <2>3, <2>4, OnceKept DEF Sole
<1>4. Owner(p)' => Owner(p) \/ (receipt.status = "absent" /\ receipt'.status # "absent")
  <2>1. owns'[p] => owns[p]
    BY RaiseAt, EndCallAt DEF Interrupt, Raise, Typed, call
  <2>2. pc'[p] \in {"idle", "release"}
    BY RaiseAt DEF Interrupt, Typed
  <2>3. zombies'[p] \subseteq zombies[p] \/ Owner(p)
    BY DEF Interrupt, Known, Knows, Owner
  <2> QED
    BY <2>1, <2>2, <2>3, NoNewOwner DEF Interrupt
<1>5. runs'[1] = runs[1] \/ Owner(p)
  BY DEF Interrupt, history, Owner, Starting
<1>6. late => late'
  BY DEF Interrupt
<1> QED
  BY <1>0, <1>1, <1>2, <1>3, <1>4, <1>5, <1>6, SoleKept

LEMMA CrashSole ==
    ASSUME Typed, Known, Sole, ~AllowResume, NEW p \in Procs, Crash(p)
    PROVE  Sole'
<1>0. Known' /\ ReceiptKeeps /\ ReceiptLasts /\ OthersStay(p)
  BY CrashKnown
<1>1. ReceiptHolds
  BY Unheld DEF Crash, durable
<1>2. Alone(p)'
  BY <1>0, <1>1 DEF ReceiptHolds, Sole, Alone, Starting, Known, Knows, Closed, Typed,
     PlacesTyped, CallsTyped, TasksTyped, Crash, EndCall, durable, history
<1>3. Once'
  BY <1>1, DelegationAssumption DEF Once, Sole, Alone, Known, Knows, Closed, Attempts,
     ReceiptHolds, Typed, DurableTyped, HistoryTyped, Crash, durable, history
<1>4. Owner(p)' => Owner(p) \/ (receipt.status = "absent" /\ receipt'.status # "absent")
  BY <1>0 DEF Owner, Starting, Known, Knows, Typed, PlacesTyped, CallsTyped, TasksTyped, Crash,
     EndCall, durable, history
<1>5. runs'[1] = runs[1] \/ Owner(p)
  BY DEF Crash, history, Owner, Starting
<1>6. late => late'
  BY DEF Crash, durable
<1> QED
  BY <1>0, <1>1, <1>2, <1>3, <1>4, <1>5, <1>6, SoleKept

LEMMA ZombieEndsSole ==
    ASSUME Typed, Known, Sole, ~AllowResume, NEW p \in Procs, NEW a \in Attempts, ZombieEnds(p,
           a)
    PROVE  Sole'
<1>0. Known' /\ ReceiptKeeps /\ ReceiptLasts /\ OthersStay(p)
  BY ZombieEndsKnown
<1>1. ReceiptHolds
  BY Unheld DEF ZombieEnds
<1>2. Alone(p)'
  BY <1>0, <1>1 DEF ReceiptHolds, Sole, Alone, Starting, Known, Knows, Closed, Typed,
     PlacesTyped, CallsTyped, TasksTyped, ZombieEnds, call, history
<1>3. Once'
  <2>1. receipt.status # "absent" \/ UNCHANGED receipt
    BY DEF ZombieEnds, Known, Knows
  <2>2. runs' = runs /\ ckpt'.attempt \in {0, 1}
    BY DEF ZombieEnds, history, Sole, Once, Alone
  <2>3. \A b \in Attempts : b # 1 => lease'[b] = lease[b]
    BY CallOfOne DEF ZombieEnds, Typed, DurableTyped, Sole, Alone
  <2>4. lease'[1] = "completed" => lease[1] = "completed" \/ receipt'.status \in Closed
    BY OneIsAttempt, CallOfOne DEF ZombieEnds, Typed, DurableTyped, Sole, Alone, Known, Knows,
       Closed
  <2> QED
    BY <1>0, <1>1, <2>1, <2>2, <2>3, <2>4, OnceKept DEF Sole
<1>4. Owner(p)' => Owner(p) \/ (receipt.status = "absent" /\ receipt'.status # "absent")
  <2>1. zombies'[p] \subseteq zombies[p] /\ retained'[p] \subseteq retained[p]
    BY DEF ZombieEnds, Typed, TasksTyped
  <2> QED
    BY <2>1, NoNewOwner DEF ZombieEnds, Owner, Starting, call
<1>5. runs'[1] = runs[1] \/ Owner(p)
  BY DEF ZombieEnds, history, Owner, Starting
<1>6. late => late'
  BY DEF ZombieEnds
<1> QED
  BY <1>0, <1>1, <1>2, <1>3, <1>4, <1>5, <1>6, SoleKept

LEMMA ReleaseRetainedSole ==
    ASSUME Typed, Known, Sole, ~AllowResume, NEW p \in Procs, NEW a \in Attempts,
           ReleaseRetained(p, a)
    PROVE  Sole'
<1>0. Known' /\ ReceiptKeeps /\ ReceiptLasts /\ OthersStay(p)
  BY ReleaseRetainedKnown
<1>1. ReceiptHolds
  BY Unheld DEF ReleaseRetained
<1>2. Alone(p)'
  BY <1>0, <1>1 DEF ReceiptHolds, Sole, Alone, Starting, Known, Knows, Closed, Typed,
     PlacesTyped, CallsTyped, TasksTyped, ReleaseRetained, history
<1>3. Once'
  <2>1. receipt.status # "absent" \/ UNCHANGED receipt
    BY DEF ReleaseRetained, Known, Knows
  <2>2. runs' = runs /\ ckpt'.attempt \in {0, 1}
    BY DEF ReleaseRetained, ReleaseLease, history, Sole, Once, Alone
  <2>3. \A b \in Attempts : b # 1 => lease'[b] = lease[b]
    BY CallOfOne DEF ReleaseRetained, ReleaseLease, Typed, DurableTyped, Sole, Alone
  <2>4. lease'[1] = "completed" => lease[1] = "completed" \/ receipt'.status \in Closed
    BY OneIsAttempt, CallOfOne DEF ReleaseRetained, ReleaseLease, Typed, DurableTyped, Sole,
       Alone, Known, Knows, Closed
  <2> QED
    BY <1>0, <1>1, <2>1, <2>2, <2>3, <2>4, OnceKept DEF Sole
<1>4. Owner(p)' => Owner(p) \/ (receipt.status = "absent" /\ receipt'.status # "absent")
  <2>1. zombies'[p] \subseteq zombies[p] /\ retained'[p] \subseteq retained[p]
    BY DEF ReleaseRetained, Typed, TasksTyped
  <2> QED
    BY <2>1, NoNewOwner DEF ReleaseRetained, Owner, Starting
<1>5. runs'[1] = runs[1] \/ Owner(p)
  BY DEF ReleaseRetained, history, Owner, Starting
<1>6. late => late'
  BY DEF ReleaseRetained
<1> QED
  BY <1>0, <1>1, <1>2, <1>3, <1>4, <1>5, <1>6, SoleKept

LEMMA CancelGroupSole ==
    ASSUME Typed, Known, Sole, CancelGroup
    PROVE  Sole'
<1>1. \A p \in Procs : Alone(p)' /\ (Owner(p)' <=> Owner(p))
  BY DEF CancelGroup, call, tasks, history, Sole, Alone, Owner, Starting
<1>2. Once'
  BY DEF CancelGroup, history, Sole, Once, Typed, DurableTyped
<1> QED
  BY <1>1, <1>2 DEF Sole, CancelGroup

LEMMA DeadlineSole ==
    ASSUME Typed, Known, Sole, Deadline
    PROVE  Sole'
<1>1. \A p \in Procs : Alone(p)' /\ (Owner(p)' <=> Owner(p))
  BY DEF Deadline, durable, call, tasks, history, Sole, Alone, Owner, Starting
<1>2. Once'
  BY DEF Deadline, durable, history, Sole, Once, Typed, DurableTyped
<1> QED
  BY <1>1, <1>2 DEF Sole, Deadline, durable

-----------------------------------------------------------------------------
(* Nobody begins to execute the child again. *)
LEMMA QuietKept ==
    ASSUME Quiet, NEW p \in Procs, OthersStay(p), zombies'[p] \subseteq zombies[p],
           Starting(p)' => Starting(p), child'[p].state = "running" => child[p].state = "running"
    PROVE  Quiet'
BY DEF Quiet, OthersStay, Same, Starting

(* When the owner has stopped, nobody executes the child. *)
LEMMA OwnerQuiet ==
    ASSUME Known, Sole, NEW p \in Procs, OthersStay(p), Owner(p), zombies'[p] = {},
           ~Starting(p)', child'[p].state # "running"
    PROVE  Quiet'
<1> SUFFICES ASSUME NEW q \in Procs, q # p
             PROVE  zombies'[q] = {} /\ ~Starting(q)' /\ child'[q].state # "running"
  BY DEF Quiet
<1>1. ~Owner(q) /\ Same(q)
  BY DEF Sole, OthersStay
<1>2. zombies[q] = {} /\ ~Starting(q) /\ child[q].state # "running"
  BY <1>1 DEF Owner, Known, Knows
<1> QED
  BY <1>1, <1>2 DEF Same, Starting

LeaseKeeps ==
  lease[1] \in {"active", "cancelled"} => lease'[1] \in {"active", "cancelled"} \/ Quiet'

LEMMA HeldKept ==
    ASSUME Held, Typed', NEW p \in Procs, OthersStay(p), Quiet => Quiet', LeaseKeeps, Holds(p)',
           receipt'.status \in {"completed", "failed", "cancelled"} =>
               receipt.status \in {"completed", "failed", "cancelled"} \/ Quiet',
           ckpt'.attempt # 0 => ckpt.attempt # 0 \/ Quiet',
           receipt.status # "absent" \/ UNCHANGED ckpt, ReceiptLasts
    PROVE  Held'
<1>1. \A q \in Procs : q # p => Holds(q)'
  <2> SUFFICES ASSUME NEW q \in Procs, q # p PROVE Holds(q)'
    OBVIOUS
  <2>1. Same(q)
    BY DEF OthersStay
  <2>2. zombies[q] # {} \/ child[q].state = "running" => lease'[1] \in {"active", "cancelled"}
    BY <2>1 DEF Held, Holds, LeaseKeeps, Quiet, Same
  <2> QED
    BY <2>1, <2>2 DEF Held, Holds, Same
<1> QED
  BY <1>1 DEF Held, ReceiptLasts

(* What the tasks of a call that waits for none may hold. *)
TasksHeld(p) ==
    /\ child'[p].state = "none" /\ zombies'[p] \subseteq retained'[p]
    /\ zombies'[p] # {} => lease'[1] \in {"active", "cancelled"}

LEMMA TasksStayHeld ==
    ASSUME Known, Held, LeaseKeeps, NEW p \in Procs, UNCHANGED tasks, pc[p] \notin {"wait",
           "grace"}
    PROVE  TasksHeld(p)
BY DEF Known, Knows, Held, Holds, LeaseKeeps, Quiet, TasksHeld, tasks

LEMMA HoldsPassing ==
    ASSUME NEW p \in Procs, TasksHeld(p),
           pc'[p] \notin {"adopt", "finish", "cancelReceipt", "report", "settle", "release"}
    PROVE  Holds(p)'
BY DEF Holds, TasksHeld

LEMMA HoldsFinishing ==
    ASSUME NEW p \in Procs, TasksHeld(p), pc'[p] \in {"finish", "cancelReceipt", "report",
           "settle"},
           Quiet' \/ out'[p].status = "manual"
    PROVE  Holds(p)'
BY DEF Holds, TasksHeld

LEMMA HoldsRaising ==
    ASSUME Typed, NEW p \in Procs, NEW answer, Raise(p, answer), TasksHeld(p)
    PROVE  Holds(p)' /\ ~Starting(p)'
<1>1. CASE owns[p]
  BY <1>1, RaiseAt DEF Typed, call, Holds, TasksHeld, Starting
<1>2. CASE ~owns[p]
  BY <1>2, RaiseAt, HoldsPassing DEF Typed, Starting
<1> QED
  BY <1>1, <1>2

-----------------------------------------------------------------------------
(* Who executes, action by action, without resume and second cancellations. *)
LEMMA ClaimHeld ==
    ASSUME Typed, Known, Sole, Held, ~AllowResume, ~CancelTwice, NEW p \in Procs, Claim(p)
    PROVE  Held'
<1>0. Typed' /\ ReceiptLasts /\ OthersStay(p)
  BY ClaimTyped, ClaimKnown
<1>1. LeaseKeeps
  BY DEF LeaseKeeps, Claim
<1>2. Holds(p)'
  <2>1. TasksHeld(p)
    BY <1>1, TasksStayHeld DEF Claim
  <2>2. pc'[p] \in {"inspect", "reserve"}
    BY DEF Claim, Typed, PlacesTyped
  <2> QED
    BY <2>1, <2>2, HoldsPassing
<1>3. CASE receipt.status # "absent"
  <2>1. Quiet => Quiet'
    <3>1. pc'[p] = "inspect" /\ UNCHANGED tasks
      BY <1>3 DEF Claim, Typed, PlacesTyped
    <3> QED
      BY <1>0, <3>1, QuietKept DEF tasks, Starting
  <2> QED
    BY <1>0, <1>1, <1>2, <1>3, <2>1, HeldKept DEF Claim
<1>4. CASE receipt.status = "absent"
  <2>1. ckpt'.attempt = 0 /\ receipt'.status = "reserved"
    BY <1>4 DEF Claim, NoReceipt, Held, Typed, DurableTyped, CheckpointType
  <2>2. \A q \in Procs : q # p => Holds(q)'
    <3> SUFFICES ASSUME NEW q \in Procs, q # p PROVE Holds(q)'
      OBVIOUS
    <3>1. pc[q] = "idle" /\ zombies[q] = {} /\ child[q].state = "none" /\ Same(q)
      BY <1>0, <1>4 DEF Known, Knows, Sole, Owner, OthersStay
    <3> QED
      BY <3>1 DEF Same, Holds
  <2> QED
    BY <1>2, <2>1, <2>2 DEF Held
<1> QED
  BY <1>3, <1>4

LEMMA InspectHeld ==
    ASSUME Typed, Known, Sole, Held, ~AllowResume, ~CancelTwice, NEW p \in Procs, Inspect(p)
    PROVE  Held'
<1>0. Typed' /\ Known' /\ ReceiptLasts /\ OthersStay(p)
  BY InspectTyped, InspectKnown
<1>1. Quiet => Quiet'
  <2>1. pc'[p] \in {"idle", "closeLease", "markManual", "replay", "reconcile", "resume"}
    <3>1. seen[p].status # "absent" /\ Attempt(p) \in Attempts
      BY DEF Inspect, Known, Knows, Attempt
    <3>2. \/ \E label \in {"closeLease", "markManual"} : GoTo(p, label) /\ UNCHANGED call
          \/ Dispatch(p)
          \/ \E answer \in {"in_progress", "manual"} : EndCall(p, answer)
      BY <3>1 DEF Inspect, InvalidLease, Typed, CallsTyped, DurableTyped, ReceiptType,
         ReceiptStatuses, Open
    <3> QED
      BY <3>1, <3>2, GoToAt, EndCallAt, DispatchAt DEF Typed
  <2> QED
    BY <1>0, <2>1, QuietKept DEF Inspect, tasks, Starting
<1>2. LeaseKeeps
  BY DEF LeaseKeeps, Inspect, durable
<1>3. Holds(p)'
  <2>1. pc'[p] \in {"idle", "closeLease", "markManual", "replay", "reconcile", "resume"}
    <3>1. seen[p].status # "absent" /\ Attempt(p) \in Attempts
      BY DEF Inspect, Known, Knows, Attempt
    <3>2. \/ \E label \in {"closeLease", "markManual"} : GoTo(p, label) /\ UNCHANGED call
          \/ Dispatch(p)
          \/ \E answer \in {"in_progress", "manual"} : EndCall(p, answer)
      BY <3>1 DEF Inspect, InvalidLease, Typed, CallsTyped, DurableTyped, ReceiptType,
         ReceiptStatuses, Open
    <3> QED
      BY <3>1, <3>2, GoToAt, EndCallAt, DispatchAt DEF Typed
  <2>2. TasksHeld(p)
    BY <1>2, TasksStayHeld DEF Inspect
  <2> QED
    BY <2>1, <2>2, HoldsPassing
<1>4. receipt'.status \in {"completed", "failed", "cancelled"} =>
        receipt.status \in {"completed", "failed", "cancelled"} \/ Quiet'
  BY DEF Inspect, durable
<1>5. ckpt'.attempt # 0 => ckpt.attempt # 0 \/ Quiet'
  BY DEF Inspect, durable
<1>6. receipt.status # "absent" \/ UNCHANGED ckpt
  BY DEF Inspect, durable, Known, Knows
<1> QED
  BY <1>0, <1>1, <1>2, <1>3, <1>4, <1>5, <1>6, HeldKept

LEMMA CloseLeaseHeld ==
    ASSUME Typed, Known, Sole, Held, ~AllowResume, ~CancelTwice, NEW p \in Procs, CloseLease(p)
    PROVE  Held'
<1>0. Typed' /\ Known' /\ ReceiptLasts /\ OthersStay(p)
  BY CloseLeaseTyped, CloseLeaseKnown
<1>1. Quiet => Quiet'
  <2>1. pc'[p] \in {"idle", "replay", "reconcile", "resume"}
    <3>1. seen[p].status # "absent"
      BY DEF CloseLease, Known, Knows
    <3> QED
      BY <3>1, EndCallAt, DispatchAt DEF CloseLease, Typed
  <2> QED
    BY <1>0, <2>1, QuietKept DEF CloseLease, tasks, Starting
<1>2. LeaseKeeps
  <2>1. receipt = seen[p] /\ seen[p].status \in {"completed", "failed", "cancelled"}
    BY DEF CloseLease, Known, Knows, Closed
  <2> QED
    BY <1>1, <2>1 DEF LeaseKeeps, Held
<1>3. Holds(p)'
  <2>1. pc'[p] \in {"idle", "replay", "reconcile", "resume"}
    <3>1. seen[p].status # "absent"
      BY DEF CloseLease, Known, Knows
    <3> QED
      BY <3>1, EndCallAt, DispatchAt DEF CloseLease, Typed
  <2>2. TasksHeld(p)
    BY <1>2, TasksStayHeld DEF CloseLease
  <2> QED
    BY <2>1, <2>2, HoldsPassing
<1>4. receipt'.status \in {"completed", "failed", "cancelled"} =>
        receipt.status \in {"completed", "failed", "cancelled"} \/ Quiet'
  BY DEF CloseLease
<1>5. ckpt'.attempt # 0 => ckpt.attempt # 0 \/ Quiet'
  BY DEF CloseLease
<1>6. receipt.status # "absent" \/ UNCHANGED ckpt
  BY DEF CloseLease, Known, Knows
<1> QED
  BY <1>0, <1>1, <1>2, <1>3, <1>4, <1>5, <1>6, HeldKept

LEMMA MarkManualHeld ==
    ASSUME Typed, Known, Sole, Held, ~AllowResume, ~CancelTwice, NEW p \in Procs, MarkManual(p)
    PROVE  Held'
<1>0. Typed' /\ Known' /\ ReceiptLasts /\ OthersStay(p)
  BY MarkManualTyped, MarkManualKnown
<1>1. Quiet => Quiet'
  BY <1>0, QuietKept DEF Quiet, Starting, Typed, PlacesTyped, TasksTyped, MarkManual, EndCall,
     tasks, history
<1>2. LeaseKeeps
  BY DEF LeaseKeeps, MarkManual
<1>3. Holds(p)'
  BY <1>1, <1>2 DEF Held, Holds, LeaseKeeps, Known, Knows, Typed, PlacesTyped, CallsTyped,
     TasksTyped, MarkManual, EndCall, tasks, history
<1>4. receipt'.status \in {"completed", "failed", "cancelled"} =>
        receipt.status \in {"completed", "failed", "cancelled"} \/ Quiet'
  BY DEF MarkManual, MarkedManual, Typed, DurableTyped, ReceiptType
<1>5. ckpt'.attempt # 0 => ckpt.attempt # 0 \/ Quiet'
  BY DEF MarkManual
<1>6. receipt.status # "absent" \/ UNCHANGED ckpt
  BY DEF MarkManual, Known, Knows
<1> QED
  BY <1>0, <1>1, <1>2, <1>3, <1>4, <1>5, <1>6, HeldKept

LEMMA ReserveHeld ==
    ASSUME Typed, Known, Sole, Held, ~AllowResume, ~CancelTwice, NEW p \in Procs, Reserve(p)
    PROVE  Held'
<1>0. Typed' /\ Known' /\ ReceiptLasts /\ OthersStay(p)
  BY ReserveTyped, ReserveKnown
<1>1. Quiet => Quiet'
  BY <1>0, QuietKept DEF Quiet, Starting, Typed, PlacesTyped, TasksTyped, Reserve, GoTo, tasks,
     history
<1>2. LeaseKeeps
  <2>1. Attempt(p) = 1
    BY CallOfOne DEF Reserve
  <2> QED
    BY <2>1, OneIsAttempt DEF LeaseKeeps, Reserve, Typed, DurableTyped
<1>3. Holds(p)'
  <2>1. TasksHeld(p)
    BY <1>2, TasksStayHeld DEF Reserve
  <2>2. pc'[p] \in {"start", "uncertain"}
    BY GoToAt DEF Reserve, Typed
  <2> QED
    BY <2>1, <2>2, HoldsPassing
<1>4. receipt'.status \in {"completed", "failed", "cancelled"} =>
        receipt.status \in {"completed", "failed", "cancelled"} \/ Quiet'
  BY DEF Reserve
<1>5. ckpt'.attempt # 0 => ckpt.attempt # 0 \/ Quiet'
  BY DEF Reserve
<1>6. receipt.status # "absent" \/ UNCHANGED ckpt
  BY DEF Reserve, Known, Knows
<1> QED
  BY <1>0, <1>1, <1>2, <1>3, <1>4, <1>5, <1>6, HeldKept

LEMMA UncertainHeld ==
    ASSUME Typed, Known, Sole, Held, ~AllowResume, ~CancelTwice, NEW p \in Procs, Uncertain(p)
    PROVE  Held'
<1>0. Typed' /\ Known' /\ ReceiptLasts /\ OthersStay(p)
  BY UncertainTyped, UncertainKnown
<1>1. Quiet => Quiet'
  BY <1>0, QuietKept DEF Quiet, Starting, Typed, PlacesTyped, TasksTyped, Uncertain, EndCall,
     tasks, history
<1>2. LeaseKeeps
  BY DEF LeaseKeeps, Uncertain
<1>3. Holds(p)'
  BY <1>1, <1>2 DEF Held, Holds, LeaseKeeps, Known, Knows, Typed, PlacesTyped, CallsTyped,
     TasksTyped, Uncertain, EndCall, tasks, history
<1>4. receipt'.status \in {"completed", "failed", "cancelled"} =>
        receipt.status \in {"completed", "failed", "cancelled"} \/ Quiet'
  BY DEF Uncertain, MarkedManual, Typed, DurableTyped, ReceiptType
<1>5. ckpt'.attempt # 0 => ckpt.attempt # 0 \/ Quiet'
  BY DEF Uncertain
<1>6. receipt.status # "absent" \/ UNCHANGED ckpt
  BY DEF Uncertain, Known, Knows
<1> QED
  BY <1>0, <1>1, <1>2, <1>3, <1>4, <1>5, <1>6, HeldKept

LEMMA StartHeld ==
    ASSUME Typed, Known, Sole, Held, ~AllowResume, ~CancelTwice, NEW p \in Procs, Start(p)
    PROVE  Held'
<1>0. Typed' /\ Known' /\ ReceiptLasts /\ OthersStay(p)
  BY StartTyped, StartKnown
<1>1. Quiet => Quiet'
  BY <1>0, QuietKept DEF Quiet, Starting, Typed, PlacesTyped, TasksTyped, Start, GoTo, Raise,
     EndCall, call, tasks, history
<1>2. LeaseKeeps
  BY DEF LeaseKeeps, Start
<1>3. Holds(p)'
  BY <1>1, <1>2 DEF Held, Holds, LeaseKeeps, Known, Knows, Typed, PlacesTyped, CallsTyped,
     TasksTyped, Start, GoTo, Raise, EndCall, call, tasks, history
<1>4. receipt'.status \in {"completed", "failed", "cancelled"} =>
        receipt.status \in {"completed", "failed", "cancelled"} \/ Quiet'
  BY RunningHolds DEF Start
<1>5. ckpt'.attempt # 0 => ckpt.attempt # 0 \/ Quiet'
  BY DEF Start
<1>6. receipt.status # "absent" \/ UNCHANGED ckpt
  BY DEF Start, Known, Knows
<1> QED
  BY <1>0, <1>1, <1>2, <1>3, <1>4, <1>5, <1>6, HeldKept

LEMMA InvokeHeld ==
    ASSUME Typed, Known, Sole, Held, ~AllowResume, ~CancelTwice, NEW p \in Procs, Invoke(p)
    PROVE  Held'
<1>0. Typed' /\ Known' /\ ReceiptLasts /\ OthersStay(p)
  BY InvokeTyped, InvokeKnown
<1>1. Quiet => Quiet'
  BY <1>0, QuietKept DEF Quiet, Starting, Typed, PlacesTyped, TasksTyped, Invoke, FinishWith,
     GoTo, durable, call
<1>2. LeaseKeeps
  BY DEF LeaseKeeps, Invoke, durable
<1>3. Holds(p)'
  <2>1. pc[p] = "invoke" /\ Attempt(p) = 1 /\ zombies'[p] = {} /\ child[p].state = "none"
    BY CallOfOne DEF Invoke, Sole, Alone, Starting, Known, Knows
  <2>2. CASE /\ FinishWith(p, Failed(IF late THEN "timeout" ELSE "error"))
             /\ UNCHANGED <<child, runs>>
    <3>1. pc'[p] = "finish"
      BY <2>2, GoToAt DEF FinishWith, Typed
    <3>2. Quiet'
      BY <1>0, <2>1, <2>2, <3>1, OwnerQuiet DEF Owner, Starting
    <3> QED
      BY <2>1, <2>2, <3>1, <3>2, HoldsFinishing DEF TasksHeld
  <2>3. CASE /\ lease[Attempt(p)] = "active" /\ UNCHANGED lease
             /\ child' = [child EXCEPT ![p] = [attempt |-> Attempt(p), state |-> "running"]]
             /\ GoTo(p, "wait") /\ UNCHANGED call
    <3>1. pc'[p] = "wait" /\ child'[p].state = "running" /\ lease'[1] = "active"
      BY <2>1, <2>3, GoToAt DEF Typed, TasksTyped
    <3> QED
      BY <2>1, <3>1 DEF Holds
  <2> QED
    BY <2>2, <2>3 DEF Invoke, durable
<1>4. receipt'.status \in {"completed", "failed", "cancelled"} =>
        receipt.status \in {"completed", "failed", "cancelled"} \/ Quiet'
  BY DEF Invoke, durable
<1>5. ckpt'.attempt # 0 => ckpt.attempt # 0 \/ Quiet'
  BY DEF Invoke, durable
<1>6. receipt.status # "absent" \/ UNCHANGED ckpt
  BY DEF Invoke, durable, Known, Knows
<1> QED
  BY <1>0, <1>1, <1>2, <1>3, <1>4, <1>5, <1>6, HeldKept

LEMMA ChildReturnsHeld ==
    ASSUME Typed, Known, Sole, Held, ~AllowResume, ~CancelTwice, NEW p \in Procs,
           ChildReturns(p)
    PROVE  Held'
<1>0. Typed' /\ Known' /\ ReceiptLasts /\ OthersStay(p)
  BY ChildReturnsTyped, ChildReturnsKnown
<1>1. Quiet => Quiet'
  <2>1. pc'[p] = "finish" /\ child'[p].state = "none"
    BY GoToAt DEF ChildReturns, Typed, TasksTyped, NoChild
  <2> QED
    BY <1>0, <2>1, QuietKept DEF ChildReturns, Starting
<1>2. LeaseKeeps
  BY DEF LeaseKeeps, ChildReturns, durable
<1>3. Holds(p)'
  <2>1. pc'[p] = "finish" /\ child'[p].state = "none" /\ Quiet
    BY GoToAt DEF ChildReturns, Typed, TasksTyped, NoChild, Held, Holds
  <2>2. zombies'[p] = {}
    BY <2>1 DEF ChildReturns, Quiet
  <2> QED
    BY <1>1, <2>1, <2>2, HoldsFinishing DEF TasksHeld
<1>4. receipt'.status \in {"completed", "failed", "cancelled"} =>
        receipt.status \in {"completed", "failed", "cancelled"} \/ Quiet'
  BY DEF ChildReturns, durable
<1>5. ckpt'.attempt # 0 => ckpt.attempt # 0 \/ Quiet'
  BY DEF ChildReturns, durable
<1>6. receipt.status # "absent" \/ UNCHANGED ckpt
  BY DEF ChildReturns, durable, Known, Knows
<1> QED
  BY <1>0, <1>1, <1>2, <1>3, <1>4, <1>5, <1>6, HeldKept

LEMMA TimeoutHeld ==
    ASSUME Typed, Known, Sole, Held, ~AllowResume, ~CancelTwice, NEW p \in Procs, Timeout(p)
    PROVE  Held'
<1>0. Typed' /\ Known' /\ ReceiptLasts /\ OthersStay(p)
  BY TimeoutTyped, TimeoutKnown
<1>1. Quiet => Quiet'
  <2>1. CASE TaskStops(p)
    <3>1. pc[p] \in {"wait", "grace"} /\ zombies[p] = {}
      BY DEF Timeout, Sole, Alone
    <3>2. pc'[p] = "finish" /\ child'[p].state = "none" /\ zombies'[p] = {}
      BY <2>1, <3>1, GoToAt DEF Timeout, TaskStops, FinishWith, Typed, TasksTyped, NoChild
    <3> QED
      BY <1>0, <3>1, <3>2, OwnerQuiet DEF Owner, Starting
  <2>2. CASE TaskLingers(p)
    BY <2>2 DEF TaskLingers, Quiet
  <2> QED
    BY <2>1, <2>2 DEF Timeout
<1>2. LeaseKeeps
  BY DEF LeaseKeeps, Timeout
<1>3. Holds(p)'
  <2>1. pc'[p] = "finish"
    BY GoToAt DEF Timeout, FinishWith, Typed
  <2>2. CASE TaskStops(p)
    <3>1. Quiet'
      <4>1. pc[p] \in {"wait", "grace"} /\ zombies[p] = {}
        BY DEF Timeout, Sole, Alone
      <4>2. child'[p].state = "none" /\ zombies'[p] = {}
        BY <2>2, <4>1 DEF TaskStops, Typed, TasksTyped, NoChild
      <4> QED
        BY <1>0, <2>1, <4>1, <4>2, OwnerQuiet DEF Owner, Starting
    <3>2. child'[p].state = "none" /\ zombies'[p] = {}
      BY <2>2, <3>1 DEF TaskStops, Typed, TasksTyped, NoChild, Quiet
    <3> QED
      BY <2>1, <3>1, <3>2, HoldsFinishing DEF TasksHeld
  <2>3. CASE TaskLingers(p) /\ out' = [out EXCEPT ![p] = Unconfirmed]
    <3>1. out'[p].status = "manual"
      BY <2>3, StoppedFinal DEF Typed, CallsTyped
    <3>2. child'[p].state = "none" /\ zombies'[p] \subseteq retained'[p]
      BY <2>3 DEF TaskLingers, Typed, TasksTyped, NoChild, Held, Holds
    <3>3. lease'[1] \in {"active", "cancelled"}
      BY <2>3 DEF TaskLingers, Timeout, Held, Holds
    <3> QED
      BY <2>1, <3>1, <3>2, <3>3, HoldsFinishing DEF TasksHeld
  <2> QED
    BY <2>2, <2>3 DEF Timeout, FinishWith
<1>4. receipt'.status \in {"completed", "failed", "cancelled"} =>
        receipt.status \in {"completed", "failed", "cancelled"} \/ Quiet'
  BY DEF Timeout
<1>5. ckpt'.attempt # 0 => ckpt.attempt # 0 \/ Quiet'
  <2>1. CASE TaskStops(p)
    <3>1. pc[p] \in {"wait", "grace"} /\ zombies[p] = {}
      BY DEF Timeout, Sole, Alone
    <3>2. pc'[p] = "finish" /\ child'[p].state = "none" /\ zombies'[p] = {}
      BY <2>1, <3>1, GoToAt DEF Timeout, TaskStops, FinishWith, Typed, TasksTyped, NoChild
    <3> QED
      BY <1>0, <3>1, <3>2, OwnerQuiet DEF Owner, Starting
  <2>2. CASE TaskLingers(p)
    BY <2>2 DEF TaskLingers
  <2> QED
    BY <2>1, <2>2 DEF Timeout
<1>6. receipt.status # "absent" \/ UNCHANGED ckpt
  BY DEF Timeout, Known, Knows
<1> QED
  BY <1>0, <1>1, <1>2, <1>3, <1>4, <1>5, <1>6, HeldKept

LEMMA GraceHeld ==
    ASSUME Typed, Known, Sole, Held, ~AllowResume, ~CancelTwice, NEW p \in Procs, Grace(p)
    PROVE  Held'
<1>0. Typed' /\ Known' /\ ReceiptLasts /\ OthersStay(p)
  BY GraceTyped, GraceKnown
<1>1. Quiet => Quiet'
  <2>1. CASE TaskStops(p)
    <3>1. pc[p] \in {"wait", "grace"} /\ zombies[p] = {}
      BY DEF Grace, Sole, Alone
    <3>2. pc'[p] = "cancelReceipt" /\ child'[p].state = "none" /\ zombies'[p] = {}
      BY <2>1, <3>1, GoToAt DEF Grace, TaskStops, Typed, TasksTyped, NoChild
    <3> QED
      BY <1>0, <3>1, <3>2, OwnerQuiet DEF Owner, Starting
  <2>2. CASE TaskLingers(p)
    BY <2>2 DEF TaskLingers, Quiet
  <2> QED
    BY <2>1, <2>2 DEF Grace
<1>2. LeaseKeeps
  BY DEF LeaseKeeps, Grace
<1>3. Holds(p)'
  <2>1. pc'[p] = "cancelReceipt"
    BY GoToAt DEF Grace, Typed
  <2>2. CASE TaskStops(p)
    <3>1. Quiet'
      <4>1. pc[p] \in {"wait", "grace"} /\ zombies[p] = {}
        BY DEF Grace, Sole, Alone
      <4>2. child'[p].state = "none" /\ zombies'[p] = {}
        BY <2>2, <4>1 DEF TaskStops, Typed, TasksTyped, NoChild
      <4> QED
        BY <1>0, <2>1, <4>1, <4>2, OwnerQuiet DEF Owner, Starting
    <3>2. child'[p].state = "none" /\ zombies'[p] = {}
      BY <2>2, <3>1 DEF TaskStops, Typed, TasksTyped, NoChild, Quiet
    <3> QED
      BY <2>1, <3>1, <3>2, HoldsFinishing DEF TasksHeld
  <2>3. CASE TaskLingers(p) /\ out' = [out EXCEPT ![p] = Unconfirmed]
    <3>1. out'[p].status = "manual"
      BY <2>3, StoppedFinal DEF Typed, CallsTyped
    <3>2. child'[p].state = "none" /\ zombies'[p] \subseteq retained'[p]
      BY <2>3 DEF TaskLingers, Typed, TasksTyped, NoChild, Held, Holds
    <3>3. lease'[1] \in {"active", "cancelled"}
      BY <2>3 DEF TaskLingers, Grace, Held, Holds
    <3> QED
      BY <2>1, <3>1, <3>2, <3>3, HoldsFinishing DEF TasksHeld
  <2> QED
    BY <2>2, <2>3 DEF Grace
<1>4. receipt'.status \in {"completed", "failed", "cancelled"} =>
        receipt.status \in {"completed", "failed", "cancelled"} \/ Quiet'
  BY DEF Grace
<1>5. ckpt'.attempt # 0 => ckpt.attempt # 0 \/ Quiet'
  <2>1. CASE TaskStops(p)
    <3>1. pc[p] \in {"wait", "grace"} /\ zombies[p] = {}
      BY DEF Grace, Sole, Alone
    <3>2. pc'[p] = "cancelReceipt" /\ child'[p].state = "none" /\ zombies'[p] = {}
      BY <2>1, <3>1, GoToAt DEF Grace, TaskStops, Typed, TasksTyped, NoChild
    <3> QED
      BY <1>0, <3>1, <3>2, OwnerQuiet DEF Owner, Starting
  <2>2. CASE TaskLingers(p)
    BY <2>2 DEF TaskLingers
  <2> QED
    BY <2>1, <2>2 DEF Grace
<1>6. receipt.status # "absent" \/ UNCHANGED ckpt
  BY DEF Grace, Known, Knows
<1> QED
  BY <1>0, <1>1, <1>2, <1>3, <1>4, <1>5, <1>6, HeldKept

LEMMA CancelReceiptHeld ==
    ASSUME Typed, Known, Sole, Held, ~AllowResume, ~CancelTwice, NEW p \in Procs,
           CancelReceipt(p)
    PROVE  Held'
<1>0. Typed' /\ Known' /\ ReceiptLasts /\ OthersStay(p)
  BY CancelReceiptTyped, CancelReceiptKnown
<1>1. Quiet => Quiet'
  BY <1>0, QuietKept DEF Quiet, Starting, Typed, PlacesTyped, TasksTyped, CancelReceipt, Raise,
     EndCall, call, tasks, history
<1>2. LeaseKeeps
  BY DEF LeaseKeeps, CancelReceipt
<1>3. Holds(p)'
  BY <1>1, <1>2 DEF Held, Holds, LeaseKeeps, Known, Knows, Typed, PlacesTyped, CallsTyped,
     TasksTyped, CancelReceipt, Raise, EndCall, call, tasks, history
<1>4. receipt'.status \in {"completed", "failed", "cancelled"} =>
        receipt.status \in {"completed", "failed", "cancelled"} \/ Quiet'
  <2>1. receipt' = TerminalReceipt(p) => receipt'.status = out[p].status
    BY DEF TerminalReceipt, Typed, DurableTyped, ReceiptType
  <2>2. out[p].status \in {"completed", "failed", "cancelled"} => Quiet
    BY DEF CancelReceipt, Held, Holds
  <2> QED
    BY <1>1, <2>1, <2>2 DEF CancelReceipt
<1>5. ckpt'.attempt # 0 => ckpt.attempt # 0 \/ Quiet'
  BY DEF CancelReceipt
<1>6. receipt.status # "absent" \/ UNCHANGED ckpt
  BY DEF CancelReceipt, Known, Knows
<1> QED
  BY <1>0, <1>1, <1>2, <1>3, <1>4, <1>5, <1>6, HeldKept

LEMMA ReconcileHeld ==
    ASSUME Typed, Known, Sole, Held, ~AllowResume, ~CancelTwice, NEW p \in Procs, Reconcile(p)
    PROVE  Held'
<1>0. Typed' /\ Known' /\ ReceiptLasts /\ OthersStay(p)
  BY ReconcileTyped, ReconcileKnown
<1>1. Quiet => Quiet'
  BY <1>0, QuietKept DEF Quiet, Starting, Typed, PlacesTyped, TasksTyped, Reconcile, GoTo,
     EndCall, durable, call, tasks, history
<1>2. LeaseKeeps
  BY DEF LeaseKeeps, Reconcile, durable
<1>3. Holds(p)'
  <2>1. pc[p] = "reconcile" /\ TasksHeld(p) /\ Attempt(p) = 1
    BY <1>2, TasksStayHeld, CallOfOne DEF Reconcile
  <2>2. CASE /\ ckpt.attempt = Attempt(p)
             /\ out' = [out EXCEPT ![p] = ckpt.outcome]
             /\ \E label \in {"adopt", "finish"} : GoTo(p, label)
    <3>1. Quiet /\ ckpt.outcome.status # "manual"
      BY <2>1, <2>2 DEF Held, Known, CheckpointTells
    <3>2. pc'[p] \in {"adopt", "finish"} /\ out'[p].status # "manual"
      BY <2>2, <3>1, GoToAt DEF Typed, CallsTyped
    <3> QED
      BY <1>1, <2>1, <3>1, <3>2 DEF Holds, TasksHeld
  <2>3. CASE GoTo(p, "markManual") \/ EndCall(p, "in_progress")
    <3>1. pc'[p] \in {"markManual", "idle"}
      BY <2>3, GoToAt, EndCallAt DEF Typed
    <3> QED
      BY <2>1, <3>1, HoldsPassing
  <2> QED
    BY <2>2, <2>3 DEF Reconcile
<1>4. receipt'.status \in {"completed", "failed", "cancelled"} =>
        receipt.status \in {"completed", "failed", "cancelled"} \/ Quiet'
  BY DEF Reconcile, durable
<1>5. ckpt'.attempt # 0 => ckpt.attempt # 0 \/ Quiet'
  BY DEF Reconcile, durable
<1>6. receipt.status # "absent" \/ UNCHANGED ckpt
  BY DEF Reconcile, durable, Known, Knows
<1> QED
  BY <1>0, <1>1, <1>2, <1>3, <1>4, <1>5, <1>6, HeldKept

LEMMA AdoptHeld ==
    ASSUME Typed, Known, Sole, Held, ~AllowResume, ~CancelTwice, NEW p \in Procs, Adopt(p)
    PROVE  Held'
<1>0. Typed' /\ Known' /\ ReceiptLasts /\ OthersStay(p)
  BY AdoptTyped, AdoptKnown
<1>1. Quiet => Quiet'
  BY <1>0, QuietKept DEF Quiet, Starting, Typed, PlacesTyped, TasksTyped, Adopt, GoTo, Raise,
     EndCall, call, tasks, history
<1>2. LeaseKeeps
  BY DEF LeaseKeeps, Adopt
<1>3. Holds(p)'
  BY <1>1, <1>2 DEF Held, Holds, LeaseKeeps, Known, Knows, Typed, PlacesTyped, CallsTyped,
     TasksTyped, Adopt, GoTo, Raise, EndCall, call, tasks, history
<1>4. receipt'.status \in {"completed", "failed", "cancelled"} =>
        receipt.status \in {"completed", "failed", "cancelled"} \/ Quiet'
  BY RunningHolds DEF Adopt
<1>5. ckpt'.attempt # 0 => ckpt.attempt # 0 \/ Quiet'
  BY DEF Adopt
<1>6. receipt.status # "absent" \/ UNCHANGED ckpt
  BY DEF Adopt, Known, Knows
<1> QED
  BY <1>0, <1>1, <1>2, <1>3, <1>4, <1>5, <1>6, HeldKept

LEMMA FinishHeld ==
    ASSUME Typed, Known, Sole, Held, ~AllowResume, ~CancelTwice, NEW p \in Procs, Finish(p)
    PROVE  Held'
<1>0. Typed' /\ Known' /\ ReceiptLasts /\ OthersStay(p)
  BY FinishTyped, FinishKnown
<1>1. Quiet => Quiet'
  BY <1>0, QuietKept DEF Quiet, Starting, Typed, PlacesTyped, TasksTyped, Finish, GoTo, Raise,
     EndCall, call, tasks, history
<1>2. LeaseKeeps
  BY DEF LeaseKeeps, Finish
<1>3. Holds(p)'
  BY <1>1, <1>2 DEF Held, Holds, LeaseKeeps, Known, Knows, Typed, PlacesTyped, CallsTyped,
     TasksTyped, Finish, GoTo, Raise, EndCall, call, tasks, history
<1>4. receipt'.status \in {"completed", "failed", "cancelled"} =>
        receipt.status \in {"completed", "failed", "cancelled"} \/ Quiet'
  <2>1. receipt' = TerminalReceipt(p) => receipt'.status = out[p].status
    BY DEF TerminalReceipt, Typed, DurableTyped, ReceiptType
  <2>2. out[p].status \in {"completed", "failed", "cancelled"} => Quiet
    BY DEF Finish, Held, Holds
  <2> QED
    BY <1>1, <2>1, <2>2 DEF Finish
<1>5. ckpt'.attempt # 0 => ckpt.attempt # 0 \/ Quiet'
  BY DEF Finish
<1>6. receipt.status # "absent" \/ UNCHANGED ckpt
  BY DEF Finish, Known, Knows
<1> QED
  BY <1>0, <1>1, <1>2, <1>3, <1>4, <1>5, <1>6, HeldKept

LEMMA ReportHeld ==
    ASSUME Typed, Known, Sole, Held, ~AllowResume, ~CancelTwice, NEW p \in Procs, Report(p)
    PROVE  Held'
<1>0. Typed' /\ Known' /\ ReceiptLasts /\ OthersStay(p)
  BY ReportTyped, ReportKnown
<1>1. Quiet => Quiet'
  BY <1>0, QuietKept DEF Quiet, Starting, Typed, PlacesTyped, TasksTyped, Report, GoTo, durable,
     tasks, history
<1>2. LeaseKeeps
  BY DEF LeaseKeeps, Report, durable
<1>3. Holds(p)'
  BY <1>1, <1>2 DEF Held, Holds, LeaseKeeps, Known, Knows, Typed, PlacesTyped, CallsTyped,
     TasksTyped, Report, GoTo, durable, tasks, history
<1>4. receipt'.status \in {"completed", "failed", "cancelled"} =>
        receipt.status \in {"completed", "failed", "cancelled"} \/ Quiet'
  BY DEF Report, durable
<1>5. ckpt'.attempt # 0 => ckpt.attempt # 0 \/ Quiet'
  BY DEF Report, durable
<1>6. receipt.status # "absent" \/ UNCHANGED ckpt
  BY DEF Report, durable, Known, Knows
<1> QED
  BY <1>0, <1>1, <1>2, <1>3, <1>4, <1>5, <1>6, HeldKept

LEMMA SettleHeld ==
    ASSUME Typed, Known, Sole, Held, ~AllowResume, ~CancelTwice, NEW p \in Procs, Settle(p)
    PROVE  Held'
<1>0. Typed' /\ Known' /\ ReceiptLasts /\ OthersStay(p)
  BY SettleTyped, SettleKnown
<1>1. Quiet => Quiet'
  BY <1>0, QuietKept DEF Quiet, Starting, Typed, PlacesTyped, TasksTyped, Settle, EndCall,
     Raise, call, tasks
<1>2. LeaseKeeps
  <2>1. out[p].status # "manual"
    BY DEF Settle, Known, Knows
  <2>2. Quiet
    BY <2>1 DEF Settle, Held, Holds
  <2> QED
    BY <1>1, <2>2 DEF LeaseKeeps
<1>3. Holds(p)'
  <2>1. TasksHeld(p)
    BY <1>2, TasksStayHeld DEF Settle
  <2>2. CASE EndCall(p, "ok")
    BY <2>1, <2>2, EndCallAt, HoldsPassing DEF Typed
  <2>3. CASE \E answer \in {out[p].status, "error"} : Raise(p, answer)
    BY <2>1, <2>3, HoldsRaising
  <2> QED
    BY <2>2, <2>3 DEF Settle
<1>4. receipt'.status \in {"completed", "failed", "cancelled"} =>
        receipt.status \in {"completed", "failed", "cancelled"} \/ Quiet'
  BY DEF Settle
<1>5. ckpt'.attempt # 0 => ckpt.attempt # 0 \/ Quiet'
  BY DEF Settle, CleanUp, NoCheckpoint
<1>6. receipt.status # "absent" \/ UNCHANGED ckpt
  BY DEF Settle, Known, Knows
<1> QED
  BY <1>0, <1>1, <1>2, <1>3, <1>4, <1>5, <1>6, HeldKept

LEMMA ReplayHeld ==
    ASSUME Typed, Known, Sole, Held, ~AllowResume, ~CancelTwice, NEW p \in Procs, Replay(p)
    PROVE  Held'
<1>0. Typed' /\ Known' /\ ReceiptLasts /\ OthersStay(p)
  BY ReplayTyped, ReplayKnown
<1>1. Quiet => Quiet'
  BY <1>0, QuietKept DEF Quiet, Starting, Typed, PlacesTyped, TasksTyped, Replay, EndCall, tasks
<1>2. LeaseKeeps
  <2>1. receipt = seen[p] /\ seen[p].status = "completed"
    BY DEF Replay, Known, Knows, Closed
  <2> QED
    BY <1>1, <2>1 DEF LeaseKeeps, Held
<1>3. Holds(p)'
  <2>1. TasksHeld(p)
    BY <1>2, TasksStayHeld DEF Replay
  <2> QED
    BY <2>1, EndCallAt, HoldsPassing DEF Replay, Typed
<1>4. receipt'.status \in {"completed", "failed", "cancelled"} =>
        receipt.status \in {"completed", "failed", "cancelled"} \/ Quiet'
  BY DEF Replay
<1>5. ckpt'.attempt # 0 => ckpt.attempt # 0 \/ Quiet'
  BY DEF Replay, CleanUp, NoCheckpoint
<1>6. receipt.status # "absent" \/ UNCHANGED ckpt
  BY DEF Replay, Known, Knows
<1> QED
  BY <1>0, <1>1, <1>2, <1>3, <1>4, <1>5, <1>6, HeldKept

LEMMA ReleaseHeld ==
    ASSUME Typed, Known, Sole, Held, ~AllowResume, ~CancelTwice, NEW p \in Procs, Release(p)
    PROVE  Held'
<1>0. Typed' /\ Known' /\ ReceiptLasts /\ OthersStay(p)
  BY ReleaseTyped, ReleaseKnown
<1>1. Quiet => Quiet'
  BY <1>0, QuietKept DEF Quiet, Starting, Typed, PlacesTyped, TasksTyped, Release, EndCall,
     tasks, history
<1>2. LeaseKeeps
  <2>1. CASE UNCHANGED lease
    BY <2>1 DEF LeaseKeeps
  <2>2. CASE ~settled[p] /\ Attempt(p) \notin retained[p]
    <3>1. pc[p] = "release" /\ zombies[p] = {} /\ pc'[p] = "idle" /\ child[p].state = "none"
      BY <2>2, CallOfOne, EndCallAt DEF Release, Typed, Sole, Alone, Held, Holds, Known, Knows
    <3>2. CASE owns[p]
      BY <1>0, <3>1, <3>2, OwnerQuiet DEF Release, tasks, Owner, Starting, LeaseKeeps
    <3>3. CASE ~owns[p]
      BY <1>1, <2>2, <3>1, <3>3 DEF Held, Holds, LeaseKeeps
    <3> QED
      BY <3>2, <3>3
  <2> QED
    BY <2>1, <2>2 DEF Release
<1>3. Holds(p)'
  <2>1. TasksHeld(p)
    BY <1>2, TasksStayHeld DEF Release
  <2> QED
    BY <2>1, EndCallAt, HoldsPassing DEF Release, Typed
<1>4. receipt'.status \in {"completed", "failed", "cancelled"} =>
        receipt.status \in {"completed", "failed", "cancelled"} \/ Quiet'
  BY DEF Release
<1>5. ckpt'.attempt # 0 => ckpt.attempt # 0 \/ Quiet'
  BY DEF Release
<1>6. receipt.status # "absent" \/ UNCHANGED ckpt
  BY DEF Release, Known, Knows
<1> QED
  BY <1>0, <1>1, <1>2, <1>3, <1>4, <1>5, <1>6, HeldKept

LEMMA ChildEndsHeld ==
    ASSUME Typed, Known, Sole, Held, ~AllowResume, ~CancelTwice, NEW p \in Procs, ChildEnds(p)
    PROVE  Held'
<1>0. Typed' /\ Known' /\ ReceiptLasts /\ OthersStay(p)
  BY ChildEndsTyped, ChildEndsKnown
<1>1. Quiet => Quiet'
  BY <1>0, QuietKept DEF Quiet, Starting, Typed, PlacesTyped, TasksTyped, ChildEnds, history
<1>2. LeaseKeeps
  BY DEF LeaseKeeps, ChildEnds
<1>3. Holds(p)'
  <2>1. pc[p] \in {"wait", "grace"} /\ zombies[p] = {}
    BY DEF ChildEnds, Known, Knows, Sole, Alone
  <2>2. child'[p].state = "written" /\ zombies'[p] = {} /\ pc'[p] = pc[p]
    BY <2>1 DEF ChildEnds, Typed, TasksTyped, ChildType
  <2>3. Quiet'
    BY <1>0, <2>1, <2>2, OwnerQuiet DEF Owner, Starting
  <2> QED
    BY <2>1, <2>2, <2>3 DEF Holds
<1>4. receipt'.status \in {"completed", "failed", "cancelled"} =>
        receipt.status \in {"completed", "failed", "cancelled"} \/ Quiet'
  BY DEF ChildEnds
<1>5. ckpt'.attempt # 0 => ckpt.attempt # 0 \/ Quiet'
  <2>1. pc[p] \in {"wait", "grace"} /\ zombies[p] = {}
    BY DEF ChildEnds, Known, Knows, Sole, Alone
  <2>2. child'[p].state = "written" /\ zombies'[p] = {} /\ pc'[p] = pc[p]
    BY <2>1 DEF ChildEnds, Typed, TasksTyped, ChildType
  <2>3. Quiet'
    BY <1>0, <2>1, <2>2, OwnerQuiet DEF Owner, Starting
  <2> QED
    BY <2>3
<1>6. receipt.status # "absent" \/ UNCHANGED ckpt
  BY DEF ChildEnds, Known, Knows
<1> QED
  BY <1>0, <1>1, <1>2, <1>3, <1>4, <1>5, <1>6, HeldKept

LEMMA OutputRejectedHeld ==
    ASSUME Typed, Known, Sole, Held, ~AllowResume, ~CancelTwice, NEW p \in Procs,
           OutputRejected(p)
    PROVE  Held'
<1>0. Typed' /\ Known' /\ ReceiptLasts /\ OthersStay(p)
  BY OutputRejectedTyped, OutputRejectedKnown
<1>1. Quiet => Quiet'
  BY <1>0, QuietKept DEF Quiet, Starting, Typed, PlacesTyped, TasksTyped, OutputRejected,
     durable, tasks, history
<1>2. LeaseKeeps
  BY DEF LeaseKeeps, OutputRejected, durable
<1>3. Holds(p)'
  BY <1>1, <1>2 DEF Held, Holds, LeaseKeeps, Known, Knows, Typed, PlacesTyped, CallsTyped,
     TasksTyped, OutputRejected, durable, tasks, history
<1>4. receipt'.status \in {"completed", "failed", "cancelled"} =>
        receipt.status \in {"completed", "failed", "cancelled"} \/ Quiet'
  BY DEF OutputRejected, durable
<1>5. ckpt'.attempt # 0 => ckpt.attempt # 0 \/ Quiet'
  BY DEF OutputRejected, durable
<1>6. receipt.status # "absent" \/ UNCHANGED ckpt
  BY DEF OutputRejected, durable, Known, Knows
<1> QED
  BY <1>0, <1>1, <1>2, <1>3, <1>4, <1>5, <1>6, HeldKept

LEMMA CancelWaitHeld ==
    ASSUME Typed, Known, Sole, Held, ~AllowResume, ~CancelTwice, NEW p \in Procs, CancelWait(p)
    PROVE  Held'
<1>0. Typed' /\ Known' /\ ReceiptLasts /\ OthersStay(p)
  BY CancelWaitTyped, CancelWaitKnown
<1>1. Quiet => Quiet'
  BY <1>0, QuietKept DEF Quiet, Starting, Typed, PlacesTyped, TasksTyped, CancelWait, GoTo,
     durable, call, tasks, history
<1>2. LeaseKeeps
  BY DEF LeaseKeeps, CancelWait, durable
<1>3. Holds(p)'
  BY <1>1, <1>2 DEF Held, Holds, LeaseKeeps, Known, Knows, Typed, PlacesTyped, CallsTyped,
     TasksTyped, CancelWait, GoTo, durable, call, tasks, history
<1>4. receipt'.status \in {"completed", "failed", "cancelled"} =>
        receipt.status \in {"completed", "failed", "cancelled"} \/ Quiet'
  BY DEF CancelWait, durable
<1>5. ckpt'.attempt # 0 => ckpt.attempt # 0 \/ Quiet'
  BY DEF CancelWait, durable
<1>6. receipt.status # "absent" \/ UNCHANGED ckpt
  BY DEF CancelWait, durable, Known, Knows
<1> QED
  BY <1>0, <1>1, <1>2, <1>3, <1>4, <1>5, <1>6, HeldKept

LEMMA InterruptHeld ==
    ASSUME Typed, Known, Sole, Held, ~AllowResume, ~CancelTwice, NEW p \in Procs, Interrupt(p)
    PROVE  Held'
<1>0. Typed' /\ Known' /\ ReceiptLasts /\ OthersStay(p)
  BY InterruptTyped, InterruptKnown
<1>1. Quiet => Quiet'
  <2>1. child'[p].state = "none" /\ (Quiet => zombies' = zombies)
    BY DEF Interrupt, Typed, TasksTyped, NoChild, Quiet
  <2>2. ~Starting(p)'
    BY RaiseAt DEF Interrupt, Typed, Starting
  <2> QED
    BY <1>0, <2>1, <2>2, QuietKept
<1>2. LeaseKeeps
  <2>1. CASE pc[p] \in {"closeLease", "replay"}
    <3>1. receipt.status \in {"completed", "failed", "cancelled"}
      BY <2>1 DEF Known, Knows, Closed
    <3> QED
      BY <1>1, <3>1 DEF Held, LeaseKeeps
  <2>2. CASE pc[p] = "settle"
    <3>1. out[p].status # "manual"
      BY <2>2 DEF Known, Knows
    <3> QED
      BY <1>1, <2>2, <3>1 DEF Held, Holds, LeaseKeeps
  <2>3. CASE pc[p] \notin {"closeLease", "replay", "settle"}
    BY <2>3, OneIsAttempt, CallOfOne DEF Interrupt, LeaseWrite, LeaseKeeps, Typed, DurableTyped
  <2> QED
    BY <2>1, <2>2, <2>3
<1>3. Holds(p)'
  <2>1. child[p].state = "none" /\ UNCHANGED <<zombies, retained>>
    BY DEF Interrupt, Known, Knows
  <2>2. TasksHeld(p)
    BY <1>2, <2>1 DEF TasksHeld, Interrupt, Typed, TasksTyped, NoChild, Held, Holds, LeaseKeeps,
       Quiet
  <2> QED
    BY <2>2, HoldsRaising DEF Interrupt
<1>4. receipt'.status \in {"completed", "failed", "cancelled"} =>
        receipt.status \in {"completed", "failed", "cancelled"} \/ Quiet'
  <2>1. CASE receipt' = receipt
    BY <2>1
  <2>2. CASE receipt' = MarkedManual(receipt)
    BY <2>2 DEF MarkedManual, Typed, DurableTyped, ReceiptType
  <2>3. CASE CanRun(p) /\ receipt' = RunningReceipt(p)
    BY <2>3, RunningHolds DEF Interrupt
  <2>4. CASE pc[p] \in {"finish", "cancelReceipt"} /\ receipt' = TerminalReceipt(p)
    <3>1. receipt'.status = out[p].status
      BY <2>4 DEF TerminalReceipt, Typed, DurableTyped, ReceiptType
    <3>2. out[p].status \in {"completed", "failed", "cancelled"} => Quiet
      BY <2>4 DEF Held, Holds
    <3> QED
      BY <1>1, <3>1, <3>2
  <2>5. pc[p] # "resume"
    BY DEF Known, Knows
  <2> QED
    BY <2>1, <2>2, <2>3, <2>4, <2>5 DEF Interrupt, ReceiptWrite
<1>5. ckpt'.attempt # 0 => ckpt.attempt # 0 \/ Quiet'
  BY DEF Interrupt
<1>6. receipt.status # "absent" \/ UNCHANGED ckpt
  BY DEF Interrupt, Known, Knows
<1> QED
  BY <1>0, <1>1, <1>2, <1>3, <1>4, <1>5, <1>6, HeldKept

LEMMA CrashHeld ==
    ASSUME Typed, Known, Sole, Held, ~AllowResume, ~CancelTwice, NEW p \in Procs, Crash(p)
    PROVE  Held'
<1>0. Typed' /\ Known' /\ ReceiptLasts /\ OthersStay(p)
  BY CrashTyped, CrashKnown
<1>1. Quiet => Quiet'
  <2>1. child'[p].state = "none" /\ zombies'[p] = {} /\ pc'[p] = "idle"
    BY EndCallAt DEF Crash, Typed, TasksTyped, NoChild
  <2> QED
    BY <1>0, <2>1, QuietKept DEF Starting
<1>2. LeaseKeeps
  BY DEF LeaseKeeps, Crash, durable
<1>3. Holds(p)'
  <2>1. child'[p].state = "none" /\ zombies'[p] = {} /\ pc'[p] = "idle"
    BY EndCallAt DEF Crash, Typed, TasksTyped, NoChild
  <2> QED
    BY <2>1 DEF Holds
<1>4. receipt'.status \in {"completed", "failed", "cancelled"} =>
        receipt.status \in {"completed", "failed", "cancelled"} \/ Quiet'
  BY DEF Crash, durable
<1>5. ckpt'.attempt # 0 => ckpt.attempt # 0 \/ Quiet'
  BY DEF Crash, durable
<1>6. receipt.status # "absent" \/ UNCHANGED ckpt
  BY DEF Crash, durable, Known, Knows
<1> QED
  BY <1>0, <1>1, <1>2, <1>3, <1>4, <1>5, <1>6, HeldKept

LEMMA ZombieEndsHeld ==
    ASSUME Typed, Known, Sole, Held, ~AllowResume, ~CancelTwice, NEW p \in Procs, NEW a \in
           Attempts, ZombieEnds(p, a)
    PROVE  Held'
<1>0. Typed' /\ Known' /\ ReceiptLasts /\ OthersStay(p)
  BY ZombieEndsTyped, ZombieEndsKnown
<1>1. Quiet => Quiet'
  BY <1>0, QuietKept DEF Quiet, Starting, Typed, PlacesTyped, TasksTyped, ZombieEnds, call,
     history
<1>2. LeaseKeeps
  BY DEF LeaseKeeps, ZombieEnds
<1>3. Holds(p)'
  BY <1>1, <1>2 DEF Held, Holds, LeaseKeeps, Known, Knows, Typed, PlacesTyped, CallsTyped,
     TasksTyped, ZombieEnds, call, history
<1>4. receipt'.status \in {"completed", "failed", "cancelled"} =>
        receipt.status \in {"completed", "failed", "cancelled"} \/ Quiet'
  BY DEF ZombieEnds
<1>5. ckpt'.attempt # 0 => ckpt.attempt # 0 \/ Quiet'
  <2>1. zombies[p] = {1} /\ a = 1
    BY DEF ZombieEnds, Sole, Alone
  <2>2. pc[p] \notin {"reserve", "start", "invoke", "wait", "grace"} /\ child[p].state = "none"
    BY <2>1 DEF Sole, Alone, Starting, Known, Knows
  <2>3. Quiet'
    <3>1. zombies'[p] = {}
      BY <2>1 DEF ZombieEnds, Typed, TasksTyped
    <3> QED
      BY <1>0, <2>1, <2>2, <3>1, OwnerQuiet DEF ZombieEnds, Owner, Starting
  <2> QED
    BY <2>3
<1>6. receipt.status # "absent" \/ UNCHANGED ckpt
  BY DEF ZombieEnds, Sole, Owner
<1> QED
  BY <1>0, <1>1, <1>2, <1>3, <1>4, <1>5, <1>6, HeldKept

LEMMA ReleaseRetainedHeld ==
    ASSUME Typed, Known, Sole, Held, ~AllowResume, ~CancelTwice, NEW p \in Procs, NEW a \in
           Attempts, ReleaseRetained(p, a)
    PROVE  Held'
<1>0. Typed' /\ Known' /\ ReceiptLasts /\ OthersStay(p)
  BY ReleaseRetainedTyped, ReleaseRetainedKnown
<1>1. Quiet => Quiet'
  BY <1>0, QuietKept DEF Quiet, Starting, Typed, PlacesTyped, TasksTyped, ReleaseRetained,
     history
<1>2. LeaseKeeps
  <2>1. a = 1 /\ zombies[p] = {} /\ retained[p] # {}
    BY DEF ReleaseRetained, Sole, Alone
  <2>2. pc[p] \notin {"reserve", "start", "invoke", "wait", "grace"} /\ child[p].state = "none"
    BY <2>1 DEF Sole, Alone, Starting, Known, Knows
  <2>3. Quiet'
    BY <1>0, <2>1, <2>2, OwnerQuiet DEF ReleaseRetained, Owner, Starting
  <2> QED
    BY <2>3 DEF LeaseKeeps
<1>3. Holds(p)'
  <2>1. a = 1 /\ zombies[p] = {} /\ retained[p] # {}
    BY DEF ReleaseRetained, Sole, Alone
  <2>2. pc[p] \notin {"reserve", "start", "invoke", "wait", "grace"} /\ child[p].state = "none"
    BY <2>1 DEF Sole, Alone, Starting, Known, Knows
  <2>3. Quiet'
    BY <1>0, <2>1, <2>2, OwnerQuiet DEF ReleaseRetained, Owner, Starting
  <2>4. zombies'[p] = {} /\ child'[p] = child[p] /\ out'[p] = out[p] /\ pc'[p] = pc[p]
    BY <2>1 DEF ReleaseRetained
  <2> QED
    BY <2>2, <2>3, <2>4 DEF Holds, Held
<1>4. receipt'.status \in {"completed", "failed", "cancelled"} =>
        receipt.status \in {"completed", "failed", "cancelled"} \/ Quiet'
  BY DEF ReleaseRetained
<1>5. ckpt'.attempt # 0 => ckpt.attempt # 0 \/ Quiet'
  BY DEF ReleaseRetained
<1>6. receipt.status # "absent" \/ UNCHANGED ckpt
  BY DEF ReleaseRetained, Known, Knows
<1> QED
  BY <1>0, <1>1, <1>2, <1>3, <1>4, <1>5, <1>6, HeldKept

LEMMA CancelGroupHeld ==
    ASSUME Typed, Held, CancelGroup
    PROVE  Held'
<1>1. lease[1] \in {"active", "cancelled"} => lease'[1] \in {"active", "cancelled"}
  BY OneIsAttempt DEF CancelGroup, Typed, DurableTyped
<1> QED
  BY <1>1 DEF CancelGroup, call, tasks, history, Held, Holds, Quiet, Starting

LEMMA DeadlineHeld ==
    ASSUME Held, Deadline
    PROVE  Held'
BY DEF Deadline, durable, call, tasks, history, Held, Holds, Quiet, Starting

-----------------------------------------------------------------------------
(* Every step. *)
LEMMA StepKnown ==
    ASSUME Typed, Known, [Next]_vars
    PROVE  Typed' /\ Known' /\ ReceiptKeeps
<1>1. ASSUME NEW p \in Procs, Proceed(p) PROVE Typed' /\ Known' /\ ReceiptKeeps
  BY <1>1, InspectTyped, InspectKnown, CloseLeaseTyped, CloseLeaseKnown, MarkManualTyped,
     MarkManualKnown, ClaimResumeTyped, ClaimResumeKnown, ReserveTyped, ReserveKnown,
     UncertainTyped, UncertainKnown, StartTyped, StartKnown, InvokeTyped, InvokeKnown,
     ChildReturnsTyped, ChildReturnsKnown, TimeoutTyped, TimeoutKnown, GraceTyped, GraceKnown,
     CancelReceiptTyped, CancelReceiptKnown, ReconcileTyped, ReconcileKnown, AdoptTyped,
     AdoptKnown, FinishTyped, FinishKnown, ReportTyped, ReportKnown, SettleTyped, SettleKnown,
     ReplayTyped, ReplayKnown, ReleaseTyped, ReleaseKnown DEF Proceed
<1>2. ASSUME NEW p \in Procs,
             \/ Claim(p) \/ ChildEnds(p) \/ OutputRejected(p)
             \/ CancelWait(p) \/ Interrupt(p) \/ Crash(p)
      PROVE  Typed' /\ Known' /\ ReceiptKeeps
  BY <1>2, ClaimTyped, ClaimKnown, ChildEndsTyped, ChildEndsKnown, OutputRejectedTyped,
     OutputRejectedKnown, CancelWaitTyped, CancelWaitKnown, InterruptTyped, InterruptKnown,
     CrashTyped, CrashKnown
<1>3. ASSUME NEW p \in Procs, NEW a \in Attempts, ZombieEnds(p, a) \/ ReleaseRetained(p, a)
      PROVE  Typed' /\ Known' /\ ReceiptKeeps
  BY <1>3, ZombieEndsTyped, ZombieEndsKnown, ReleaseRetainedTyped, ReleaseRetainedKnown
<1>4. ASSUME CancelGroup \/ Deadline PROVE Typed' /\ Known' /\ ReceiptKeeps
  BY <1>4, CancelGroupTyped, CancelGroupKnown, DeadlineTyped, DeadlineKnown
<1>5. ASSUME UNCHANGED vars PROVE Typed' /\ Known' /\ ReceiptKeeps
  <2>1. Typed'
    BY <1>5 DEF vars, durable, call, tasks, history, Typed, PlacesTyped, CallsTyped, TasksTyped,
       DurableTyped, HistoryTyped
  <2>2. Known'
    BY <1>5 DEF vars, durable, call, tasks, history, Known, Knows, ReceiptTells,
       CheckpointTells, AnswersAreTheReceipt
  <2>3. ReceiptKeeps
    BY <1>5 DEF vars, durable, call, tasks, history, ReceiptKeeps
  <2> QED
    BY <2>1, <2>2, <2>3
<1> QED
  BY <1>1, <1>2, <1>3, <1>4, <1>5 DEF Next

LEMMA StepSole ==
    ASSUME ~AllowResume, Typed, Known, Sole, [Next]_vars
    PROVE  Sole'
<1>1. ASSUME NEW p \in Procs, Proceed(p) PROVE Sole'
  BY <1>1, InspectSole, CloseLeaseSole, MarkManualSole, ClaimResumeSole, ReserveSole,
     UncertainSole, StartSole, InvokeSole, ChildReturnsSole, TimeoutSole, GraceSole,
     CancelReceiptSole, ReconcileSole, AdoptSole, FinishSole, ReportSole, SettleSole,
     ReplaySole, ReleaseSole DEF Proceed
<1>2. ASSUME NEW p \in Procs,
             \/ Claim(p) \/ ChildEnds(p) \/ OutputRejected(p)
             \/ CancelWait(p) \/ Interrupt(p) \/ Crash(p)
      PROVE  Sole'
  BY <1>2, ClaimSole, ChildEndsSole, OutputRejectedSole, CancelWaitSole, InterruptSole,
     CrashSole
<1>3. ASSUME NEW p \in Procs, NEW a \in Attempts, ZombieEnds(p, a) \/ ReleaseRetained(p, a)
      PROVE  Sole'
  BY <1>3, ZombieEndsSole, ReleaseRetainedSole
<1>4. ASSUME CancelGroup \/ Deadline PROVE Sole'
  BY <1>4, CancelGroupSole, DeadlineSole
<1>5. ASSUME UNCHANGED vars PROVE Sole'
  <2>1. \A p \in Procs : Alone(p)' /\ (Owner(p)' <=> Owner(p))
    BY <1>5 DEF vars, durable, call, tasks, history, Sole, Alone, Owner, Starting
  <2>2. Once'
    BY <1>5 DEF vars, durable, call, tasks, history, Sole, Once
  <2> QED
    BY <1>5, <2>1, <2>2 DEF vars, durable, Sole
<1> QED
  BY <1>1, <1>2, <1>3, <1>4, <1>5 DEF Next

LEMMA StepHeld ==
    ASSUME ~AllowResume, ~CancelTwice, Typed, Known, Sole, Held, [Next]_vars
    PROVE  Held'
<1>1. ASSUME NEW p \in Procs, Proceed(p) PROVE Held'
  BY <1>1, ClaimResumeSole, InspectHeld, CloseLeaseHeld, MarkManualHeld, ReserveHeld,
     UncertainHeld, StartHeld, InvokeHeld, ChildReturnsHeld, TimeoutHeld, GraceHeld,
     CancelReceiptHeld, ReconcileHeld, AdoptHeld, FinishHeld, ReportHeld, SettleHeld,
     ReplayHeld, ReleaseHeld DEF Proceed
<1>2. ASSUME NEW p \in Procs,
             \/ Claim(p) \/ ChildEnds(p) \/ OutputRejected(p)
             \/ CancelWait(p) \/ Interrupt(p) \/ Crash(p)
      PROVE  Held'
  BY <1>2, ClaimHeld, ChildEndsHeld, OutputRejectedHeld, CancelWaitHeld, InterruptHeld,
     CrashHeld
<1>3. ASSUME NEW p \in Procs, NEW a \in Attempts, ZombieEnds(p, a) \/ ReleaseRetained(p, a)
      PROVE  Held'
  BY <1>3, ZombieEndsHeld, ReleaseRetainedHeld
<1>4. ASSUME CancelGroup \/ Deadline PROVE Held'
  BY <1>4, CancelGroupHeld, DeadlineHeld
<1>5. ASSUME UNCHANGED vars PROVE Held'
  BY <1>5 DEF vars, durable, call, tasks, history, Held, Holds, Quiet, Starting
<1> QED
  BY <1>1, <1>2, <1>3, <1>4, <1>5 DEF Next

LEMMA InitKnown == Init => Typed /\ Known
<1> SUFFICES ASSUME Init PROVE Typed /\ Known
  OBVIOUS
<1>1. Typed
  <2>1. PlacesTyped
    BY DEF Init, PlacesTyped, Labels, AnswerKinds
  <2>2. CallsTyped /\ TasksTyped
    BY ValuesTyped DEF Init, CallsTyped, TasksTyped
  <2>3. DurableTyped
    BY ValuesTyped DEF Init, DurableTyped, LeaseStatuses
  <2>4. HistoryTyped
    BY DelegationAssumption DEF Init, HistoryTyped
  <2> QED
    BY <2>1, <2>2, <2>3, <2>4 DEF Typed
<1>2. Known
  BY DEF Init, Known, Knows, ReceiptTells, CheckpointTells, AnswersAreTheReceipt, NoReceipt,
     NoCheckpoint, NoChild
<1> QED
  BY <1>1, <1>2

LEMMA InitSole == Init => Sole /\ Held
<1> SUFFICES ASSUME Init PROVE Sole /\ Held
  OBVIOUS
<1>1. \A p \in Procs : Alone(p) /\ ~Owner(p) /\ Holds(p)
  BY DEF Init, Alone, Owner, Starting, Holds, NoChild
<1>2. Once
  BY OneIsAttempt DEF Init, Once, NoReceipt, NoCheckpoint
<1>3. receipt.status = "absent" /\ ckpt.attempt = 0
  BY DEF Init, NoReceipt, NoCheckpoint
<1> QED
  BY <1>1, <1>2, <1>3 DEF Sole, Held

LEMMA KnownInvariant == Spec => [](Typed /\ Known)
<1> QED
  BY InitKnown, StepKnown, PTL DEF Spec

LEMMA SoleInvariant ==
    ASSUME ~AllowResume
    PROVE  Spec => []Sole
<1>1. Typed /\ Known /\ Sole /\ [Next]_vars => Sole'
  BY StepSole
<1> QED
  BY <1>1, InitSole, KnownInvariant, PTL DEF Spec

LEMMA HeldInvariant ==
    ASSUME ~AllowResume, ~CancelTwice
    PROVE  Spec => []Held
<1>1. Typed /\ Known /\ Sole /\ Held /\ [Next]_vars => Held'
  BY StepHeld
<1> QED
  BY <1>1, InitSole, KnownInvariant, SoleInvariant, PTL DEF Spec

-----------------------------------------------------------------------------
(* The type invariant, with any number of processes and resumptions. *)
THEOREM DelegationTypes == Spec => []TypeOK
<1>1. Typed => TypeOK
  BY DEF Typed, CallsTyped, TasksTyped, DurableTyped, HistoryTyped, TypeOK
<1> QED
  BY <1>1, KnownInvariant, PTL

(* Whatever a caller of delegate was given is the result that the receipt   *)
(* holds, with any number of processes, crashes, cancellations and          *)
(* resumptions (_handle_claim, _finish_outcome).                            *)
THEOREM AnswersComeFromReceipt == Spec => []AnswersAreTheReceipt
<1>1. Known => AnswersAreTheReceipt
  BY DEF Known
<1> QED
  BY <1>1, KnownInvariant, PTL

(* A terminal receipt changes only to the next attempt of a resumable       *)
(* failure (compare_and_swap of the receipt store, _claim_resume_attempt).  *)
THEOREM TerminalReceiptIsFinal == Spec => ReceiptIsFinal
<1>1. Typed /\ Known /\ [Next]_vars => [ReceiptKeeps]_vars
  BY StepKnown
<1> QED
  BY <1>1, KnownInvariant, PTL DEF Spec, ReceiptIsFinal

(* Without resume at most one child of the delegation executes, in whatever *)
(* process, and it is started at most once (delegate, _invoke).             *)
THEOREM ChildExecutesOnce ==
    ASSUME ~AllowResume
    PROVE  Spec => []OneChildExecutes
<1>1. Typed /\ Known /\ Sole => OneChildExecutes
  <2> SUFFICES ASSUME Typed, Known, Sole PROVE OneChildExecutes
    OBVIOUS
  <2>1. \A x \in Executing : x[1] \in Procs /\ Owner(x[1]) /\ x[2] = 1 /\ x = <<x[1], x[2]>>
    <3> SUFFICES ASSUME NEW x \in Executing
                 PROVE  x[1] \in Procs /\ Owner(x[1]) /\ x[2] = 1 /\ x = <<x[1], x[2]>>
      OBVIOUS
    <3>1. x \in Procs \X Attempts
      BY DEF Executing
    <3>2. CASE x[2] \in zombies[x[1]]
      BY <3>1, <3>2 DEF Sole, Alone, Owner
    <3>3. CASE child[x[1]] = [attempt |-> x[2], state |-> "running"]
      BY <3>1, <3>3 DEF Sole, Alone, Owner, Known, Knows
    <3> QED
      BY <3>2, <3>3 DEF Executing
  <2>2. \A x, y \in Executing : x = y
    BY <2>1 DEF Sole
  <2>3. Cardinality(Executing) <= 1
    <3>1. CASE Executing = {}
      BY <3>1, FS_EmptySet
    <3>2. CASE Executing # {}
      <4>1. PICK x : Executing = {x}
        BY <2>2, <3>2
      <4>2. Cardinality({x}) = 1
        BY FS_Singleton
      <4> QED
        BY <4>1, <4>2
    <3> QED
      BY <3>1, <3>2
  <2>4. \A a \in Attempts : runs[a] <= 1
    BY DEF Sole, Once
  <2> QED
    BY <2>3, <2>4 DEF OneChildExecutes
<1> QED
  BY <1>1, KnownInvariant, SoleInvariant, PTL

(* Without resume and second cancellations the ledger follows the receipt:  *)
(* a lease is completed only after the terminal receipt, and the lease of a *)
(* child that executes is not given back (_complete_lease,                  *)
(* _confirm_task_stopped, _best_effort_release).                            *)
THEOREM LedgerIsSettledAfter ==
    ASSUME ~AllowResume, ~CancelTwice
    PROVE  Spec => []LedgerFollowsReceipt
<1>1. Typed /\ Known /\ Sole => SettledAfterReceipt
  <2> SUFFICES ASSUME Typed, Known, Sole, NEW a \in Attempts, lease[a] = "completed"
               PROVE  receipt.attempt = a /\ receipt.status \in Closed
    BY DEF SettledAfterReceipt
  <2>1. a = 1 /\ receipt.status \in Closed
    BY DEF Sole, Once
  <2>2. receipt.attempt = 1
    BY <2>1, DelegationAssumption DEF Sole, Once, Known, ReceiptTells, Closed, Attempts
  <2> QED
    BY <2>1, <2>2
<1>2. Typed /\ Known /\ Sole /\ Held => ExecutingChildHoldsLease
  <2> SUFFICES ASSUME Typed, Known, Sole, Held, NEW x \in Executing
               PROVE  lease[x[2]] \in {"active", "cancelled"}
    BY DEF ExecutingChildHoldsLease
  <2>1. x \in Procs \X Attempts
    BY DEF Executing
  <2>2. CASE x[2] \in zombies[x[1]]
    BY <2>1, <2>2 DEF Sole, Alone, Held, Holds
  <2>3. CASE child[x[1]] = [attempt |-> x[2], state |-> "running"]
    BY <2>1, <2>3 DEF Sole, Alone, Held, Holds
  <2> QED
    BY <2>2, <2>3 DEF Executing
<1>3. Typed /\ Known /\ Sole /\ Held => LedgerFollowsReceipt
  BY <1>1, <1>2 DEF LedgerFollowsReceipt, Typed, CallsTyped, TasksTyped, DurableTyped,
     HistoryTyped, TypeOK
<1> QED
  BY <1>3, KnownInvariant, SoleInvariant, HeldInvariant, PTL

-----------------------------------------------------------------------------
(* How a call begun after the deadline may end. *)
LateEnd(p) ==
    pc[p] # "idle" /\ pc'[p] = "idle" /\ begunLate[p] /\ ans'[p] # "interrupted"
        => receipt'.status \in Closed

LEMMA LateEnding ==
    ASSUME ~AllowResume, Typed, Known, Sole, NEW p \in Procs, Proceed(p)
    PROVE  LateEnd(p)
<1> SUFFICES ASSUME pc[p] # "idle", pc'[p] = "idle", begunLate[p], ans'[p] # "interrupted"
             PROVE  receipt'.status \in Closed
  BY DEF LateEnd
<1>1. late /\ seen[p].status # "absent" /\ receipt.status # "absent"
  BY DEF Sole, Alone, Known, Knows
<1>2. seen[p].status \in Closed => receipt.status \in Closed
  BY DEF Known, Knows
<1>3. MarkedManual(receipt).status \in Closed
  BY <1>1 DEF MarkedManual, Typed, DurableTyped, ReceiptType, ReceiptStatuses, Open, Closed
<1>4. CASE Inspect(p)
  <2>1. Attempt(p) \in Attempts
    BY DEF Known, Knows, Attempt
  <2>2. \/ \E label \in {"closeLease", "markManual"} : GoTo(p, label)
        \/ Dispatch(p)
        \/ seen[p].status \notin Open
    BY <1>1, <1>4, <2>1 DEF Inspect, InvalidLease, Typed, CallsTyped, DurableTyped, ReceiptType,
       ReceiptStatuses, Open
  <2>3. seen[p].status \notin Open => seen[p].status \in Closed
    BY <1>1 DEF Typed, CallsTyped, ReceiptType, ReceiptStatuses, Open, Closed
  <2> QED
    BY <1>1, <1>2, <1>4, <2>2, <2>3, GoToAt, DispatchAt DEF Inspect, durable, Typed
<1>5. CASE CloseLease(p)
  BY <1>2, <1>5 DEF CloseLease, Known, Knows, Closed
<1>6. CASE MarkManual(p) \/ Uncertain(p)
  BY <1>3, <1>6 DEF MarkManual, Uncertain
<1>7. CASE Reconcile(p)
  BY <1>1, <1>7, GoToAt DEF Reconcile, Typed
<1>8. CASE Adopt(p)
  <2>1. ~CanRun(p) /\ receipt' = receipt
    BY <1>8, GoToAt DEF Adopt, Typed
  <2>2. receipt.attempt = Attempt(p) /\ receipt.owner = seen[p].owner
    BY DEF Sole, Alone, Attempt
  <2> QED
    BY <1>1, <2>1, <2>2 DEF CanRun, Typed, DurableTyped, ReceiptType, ReceiptStatuses, Closed
<1>9. CASE Finish(p)
  <2>1. receipt' = receipt /\ receipt.status # "running"
    BY <1>9, GoToAt DEF Finish, Typed
  <2>2. receipt.status \in {"running"} \cup Closed
    BY <1>9 DEF Finish, Sole, Alone
  <2> QED
    BY <2>1, <2>2
<1>10. CASE Settle(p) \/ Replay(p) \/ Release(p)
  BY <1>2, <1>10 DEF Settle, Replay, Release, Sole, Alone, Known, Knows, Closed
<1>11. CASE \/ ClaimResume(p) \/ Reserve(p) \/ Start(p) \/ Invoke(p) \/ ChildReturns(p)
            \/ Timeout(p) \/ Grace(p) \/ CancelReceipt(p) \/ Report(p)
  <2>1. ~ClaimResume(p)
    BY ClaimResumeSole
  <2>2. ~(Start(p) \/ Invoke(p) \/ Timeout(p) \/ Grace(p) \/ CancelReceipt(p))
    BY DEF Start, Invoke, Timeout, Grace, CancelReceipt, Sole, Alone
  <2>3. ~(Reserve(p) \/ ChildReturns(p) \/ Report(p))
    BY GoToAt DEF Reserve, ChildReturns, Report, Typed, PlacesTyped
  <2> QED
    BY <1>11, <2>1, <2>2, <2>3
<1> QED
  BY <1>4, <1>5, <1>6, <1>7, <1>8, <1>9, <1>10, <1>11 DEF Proceed

(* Without resume a call of delegate that was begun after the deadline and  *)
(* runs to its end leaves a closed receipt behind (_receipt_action,         *)
(* _handle_missing_or_invalid_lease).                                       *)
THEOREM LateCallsClose ==
    ASSUME ~AllowResume
    PROVE  Spec => LateCallsFailClosed
<1>1. ASSUME Typed, Known, Sole, Next PROVE \A q \in Procs : LateEnd(q)
  <2> SUFFICES ASSUME NEW q \in Procs PROVE LateEnd(q)
    OBVIOUS
  <2>1. CASE \E p \in Procs : Proceed(p)
    <3>1. PICK p \in Procs : Proceed(p)
      BY <2>1
    <3>2. CASE p = q
      BY <1>1, <3>1, <3>2, LateEnding
    <3>3. CASE p # q
      <4>1. OthersStay(p)
        BY <1>1, <3>1, InspectKnown, CloseLeaseKnown, MarkManualKnown, ClaimResumeKnown,
           ReserveKnown, UncertainKnown, StartKnown, InvokeKnown, ChildReturnsKnown,
           TimeoutKnown, GraceKnown, CancelReceiptKnown, ReconcileKnown, AdoptKnown,
           FinishKnown, ReportKnown, SettleKnown, ReplayKnown, ReleaseKnown DEF Proceed
      <4> QED
        BY <3>3, <4>1 DEF OthersStay, Same, LateEnd
    <3> QED
      BY <3>2, <3>3
  <2>2. CASE \E p \in Procs : Claim(p)
    <3>1. PICK p \in Procs : Claim(p)
      BY <2>2
    <3>2. OthersStay(p) /\ pc[p] = "idle"
      BY <1>1, <3>1, ClaimKnown DEF Claim
    <3> QED
      BY <3>2 DEF OthersStay, Same, LateEnd
  <2>3. CASE \E p \in Procs : ChildEnds(p) \/ OutputRejected(p)
    BY <2>3 DEF ChildEnds, OutputRejected, LateEnd
  <2>4. CASE \E p \in Procs : CancelWait(p)
    <3>1. PICK p \in Procs : CancelWait(p)
      BY <2>4
    <3>2. OthersStay(p) /\ pc'[p] = "grace"
      BY <1>1, <3>1, CancelWaitKnown, GoToAt DEF CancelWait, Typed
    <3> QED
      BY <3>2 DEF OthersStay, Same, LateEnd
  <2>5. CASE \E p \in Procs : Interrupt(p) \/ Crash(p)
    <3>1. PICK p \in Procs : Interrupt(p) \/ Crash(p)
      BY <2>5
    <3>2. OthersStay(p)
      BY <1>1, <3>1, InterruptKnown, CrashKnown
    <3>3. ans'[p] = "interrupted"
      BY <1>1, <3>1, RaiseAt, EndCallAt DEF Interrupt, Crash, Typed
    <3> QED
      BY <3>2, <3>3 DEF OthersStay, Same, LateEnd
  <2>6. CASE \E p \in Procs, a \in Attempts : ZombieEnds(p, a) \/ ReleaseRetained(p, a)
    BY <2>6 DEF ZombieEnds, ReleaseRetained, LateEnd
  <2>7. CASE CancelGroup \/ Deadline
    BY <2>7 DEF CancelGroup, Deadline, LateEnd
  <2> QED
    BY <1>1, <2>1, <2>2, <2>3, <2>4, <2>5, <2>6, <2>7 DEF Next
<1>2. Typed /\ Known /\ Sole /\ [Next]_vars
         => [\A p \in Procs : (pc[p] # "idle" /\ pc'[p] = "idle" /\ begunLate[p]
                 /\ ans'[p] # "interrupted") => receipt'.status \in Closed]_vars
  BY <1>1 DEF LateEnd
<1> QED
  BY <1>2, KnownInvariant, SoleInvariant, PTL DEF Spec, LateCallsFailClosed
=============================================================================
