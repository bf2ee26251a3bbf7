---------------------------- MODULE MCObservability ----------------------------
(***************************************************************************)
(* What the outside learns of a run: the delivery of its events to the     *)
(* stream, the sink and the checkpoint, what the sinks make of them, and   *)
(* the diagnostics that are captured and reported beside them.  The parts  *)
(* share nothing here: a behaviour exercises the one that `part` names.    *)
(* One delegation reports beside the engine; every queue holds one event,  *)
(* so that each of them fills.                                             *)
(***************************************************************************)
EXTENDS Integers, EventDelivery

VARIABLES
    part,
    faults, sent, shown, queue, sinksCircuit, now, hands, copy, op, mark, span, flying,
    records, spans,
    noop, diagTask, timers, diagPending, accounted, drops, kept, got, phase, primary,
    toolId, awaited, causes, report

CONSTANTS Nothing, r1, r2

MCKinds == <<"started", "delta", "ended">>
MCRunOf == [a \in {1, 2} |-> r1]

Sinks == INSTANCE EventSinks WITH
    Attempts <- {1, 2}, RunOf <- MCRunOf, Kinds <- MCKinds, MaxFaults <- 2,
    Writers <- {"audit", "logging"}, circuit <- sinksCircuit

Diag == INSTANCE Diagnostics WITH
    Runs <- {r1, r2}, MaxCaptures <- 2, MaxPending <- 1, MaxKept <- 1, task <- diagTask,
    pending <- diagPending

sinksVars == <<faults, sent, shown, queue, sinksCircuit, now, hands, copy, op, mark, span,
               flying, records, spans>>
diagVars == <<noop, diagTask, timers, diagPending, accounted, drops, kept, got, phase,
              primary, toolId, awaited, causes, report>>
allVars == <<part, vars, sinksVars, diagVars>>

(* The parts that a behaviour does not exercise rest. *)
(* A delivery that rests is one that was interrupted with no checkpoint. *)
MainRests ==
    /\ coord = "gone" /\ out = <<>>
    /\ eng = "none" /\ task = "none" /\ emission = 0
    /\ num = 0 /\ pub = [p \in Publishers |-> Free]
    /\ pending = <<>> /\ after = <<>>
    /\ sinkq = <<>> /\ worker = 0 /\ circuit = FALSE /\ given = <<>>
    /\ disk = 0 /\ epoch = 0
    /\ stream = <<>> /\ lost = {} /\ public = {}
SinksRests ==
    /\ faults = 0 /\ sent = 0 /\ shown = 0 /\ queue = 0 /\ sinksCircuit = 0 /\ now = 0
    /\ hands = 0 /\ copy = 0 /\ op = 0 /\ mark = 0 /\ span = 0 /\ flying = 0 /\ records = 0
    /\ spans = 0
DiagRests ==
    /\ noop = 0 /\ diagTask = 0 /\ timers = 0 /\ diagPending = 0 /\ accounted = 0
    /\ drops = 0 /\ kept = 0 /\ got = 0 /\ phase = 0 /\ primary = 0 /\ toolId = 0
    /\ awaited = 0 /\ causes = 0 /\ report = 0

MCInit ==
    /\ part \in {"delivery", "sinks", "diagnostics"}
    /\ IF part = "delivery" THEN Init ELSE MainRests
    /\ IF part = "sinks" THEN Sinks!Init ELSE SinksRests
    /\ IF part = "diagnostics" THEN Diag!Init ELSE DiagRests

MCNext ==
    /\ UNCHANGED part
    /\ \/ part = "delivery" /\ Next
          /\ UNCHANGED <<sinksVars, diagVars>>
       \/ part = "sinks" /\ Sinks!Next
          /\ UNCHANGED <<vars, diagVars>>
       \/ part = "diagnostics" /\ Diag!Next
          /\ UNCHANGED <<vars, sinksVars>>

MCSpec == MCInit /\ [][MCNext]_allVars /\ Fairness

(* Sinks do not disturb each other or the run, and every failure is        *)
(* reported as what caused it or counted as dropped.                       *)
ObservabilitySound ==
    /\ part = "sinks" => Sinks!EventSinksSound
    /\ part = "diagnostics" => Diag!DiagnosticsSound
====
