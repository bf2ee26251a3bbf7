---- MODULE EventSinks ----
(***************************************************************************)
(* The event sinks (observability/sinks.py) at the end of each run's queue *)
(* (the sink worker of runtime/coordinator.py): a composite hands an event *)
(* to a custom sink, a metrics sink and the writers (audit, logging), all  *)
(* at once, and every blocking call is made on a daemon thread that goes   *)
(* on when whoever awaited it was cancelled.                               *)
(*                                                                         *)
(* An event's data is the set of its fields: "code" may be recorded,       *)
(* "content" (a prompt, an output, an argument) may not, and "forged" is   *)
(* what the custom sink writes into the object it was given.               *)
(***************************************************************************)
EXTENDS Integers, Sequences, FiniteSets

CONSTANTS
    Attempts,     \* 1..n: a run may be resumed in a later attempt
    RunOf,        \* attempt -> run
    Kinds,        \* the events of an attempt, in their order
    MaxFaults,    \* bound: sinks that fail or are too slow
    Writers,      \* "audit", "logging"
    Nothing

Sinks == Writers \cup {"metrics", "custom"}
Runs == {RunOf[a] : a \in Attempts}
Data == {"code", "content"}

VARIABLES
    faults,
    sent,       \* per attempt: the number of events published so far
    shown,      \* per attempt: the objects the stream and the built-in sinks share
    queue,      \* per attempt: the sink queue
    circuit,    \* per attempt: timed_out
    now,        \* per attempt: the event the worker has handed over, or 0
    hands,      \* per attempt, per sink: "idle", "busy", "ok", "error"
    copy,       \* per attempt: the object of the custom sink
    op,         \* per attempt: recorder calls the metrics sink has made for the event
    mark,       \* MetricsEventSink._run_started_at: the attempt whose start it holds
    span,       \* per attempt: the start popped for the duration, or Nothing
    flying,     \* thread calls whose awaiter was cancelled
    records,    \* per attempt and writer, what was written
    spans       \* durations observed: of which end, from which start

heard == <<mark, span, flying, records, spans>>
sinkWork == <<now, hands, copy, op>>
sinkVars == <<faults, sent, shown, queue, circuit, sinkWork, heard>>

Kind(n) == Kinds[n]
Idle == [s \in Sinks |-> "idle"]

(* Filters and projections of the built-in sinks *)
Handles(s, n) ==
    CASE s = "audit" -> Kind(n) \in {"started", "tool", "ended"}
      [] s = "logging" -> Kind(n) # "delta"
      [] OTHER -> TRUE
Allowed == {"code"}
Projected(data) == data \cap Allowed

\* Mutant: a custom sink is given the event that the others hold.
RequiresNoCopy(s) == s \notin Sinks

\* _isolated_event_for_sink: custom sinks get a copy of their own.
RequiresCopy(s) == s \notin Writers \cup {"metrics"}
Given(s, a) == IF RequiresCopy(s) THEN copy[a] ELSE shown[a][now[a]]

----------------------------------------------------------------------------
(* The run *)

Over(a) == sent[a] = Len(Kinds)
Publish(a) ==
    /\ ~ Over(a)
    /\ \A b \in Attempts : b < a /\ RunOf[b] = RunOf[a] => Over(b) /\ queue[b] = <<>> /\ now[b] = 0
    /\ sent' = [sent EXCEPT ![a] = @ + 1]
    /\ shown' = [shown EXCEPT ![a] = Append(@, Data)]
    /\ queue' = [queue EXCEPT ![a] = Append(@, sent[a] + 1)]
    /\ UNCHANGED <<faults, circuit, sinkWork, heard>>

(* The sink worker and CompositeEventSink.publish *)
Take(a) ==
    /\ queue[a] # <<>> /\ now[a] = 0
    /\ queue' = [queue EXCEPT ![a] = Tail(@)]
    /\ IF circuit[a] THEN UNCHANGED sinkWork
       ELSE LET n == Head(queue[a]) IN
            /\ now' = [now EXCEPT ![a] = n]
            /\ copy' = [copy EXCEPT ![a] = shown[a][n]]
            /\ hands' = [hands EXCEPT ![a] = [s \in Sinks |-> IF Handles(s, n) THEN "busy" ELSE "ok"]]
            /\ op' = [op EXCEPT ![a] = 0]
    /\ UNCHANGED <<faults, sent, shown, circuit, heard>>

Return(s, a, how) == hands' = [hands EXCEPT ![a][s] = how]
Gathered(a) == \A s \in Sinks : hands[a][s] \in {"ok", "error"}
Done(a) ==
    /\ now[a] # 0 /\ Gathered(a)
    /\ now' = [now EXCEPT ![a] = 0]
    /\ hands' = [hands EXCEPT ![a] = Idle]
    /\ copy' = [copy EXCEPT ![a] = {}]
    /\ UNCHANGED <<faults, sent, shown, queue, circuit, op, heard>>

Record(s, a) == [n |-> now[a], data |-> Projected(Given(s, a))]

\* A thread call that nobody awaits any more.
Calls(a) ==
    {[sink |-> s, a |-> a, record |-> Record(s, a)] : s \in {w \in Writers : hands[a][w] = "busy"}}
\* The timeout opens the run's circuit and cancels the invocation.
TimedOut(a) ==
    /\ faults < MaxFaults /\ faults' = faults + 1
    /\ now[a] # 0 /\ ~ Gathered(a)
    /\ circuit' = [circuit EXCEPT ![a] = TRUE]
    /\ flying' = flying \cup Calls(a)
    /\ now' = [now EXCEPT ![a] = 0]
    /\ hands' = [hands EXCEPT ![a] = Idle]
    /\ UNCHANGED <<sent, shown, queue, copy, op, mark, span, records, spans>>
Land(c) ==
    /\ flying' = flying \ {c}
    /\ \/ records' = [records EXCEPT ![c.a][c.sink] = Append(@, c.record)]
       \/ records' = records
    /\ UNCHANGED <<faults, sent, shown, queue, circuit, sinkWork, mark, span, spans>>

Busy(s, a) == now[a] # 0 /\ hands[a][s] = "busy"
Fault(s, a) ==
    /\ Busy(s, a) /\ faults < MaxFaults
    /\ faults' = faults + 1
    /\ Return(s, a, "error")
    /\ UNCHANGED <<sent, shown, queue, circuit, now, copy, op, heard>>

Write(s, a) ==
    /\ s \in Writers /\ Busy(s, a)
    /\ records' = [records EXCEPT ![a][s] = Append(@, Record(s, a))]
    /\ Return(s, a, "ok")
    /\ UNCHANGED <<faults, sent, shown, queue, circuit, now, copy, op, mark, span, flying, spans>>

\* A custom sink may do as it likes with the object it was given.
Custom(a) ==
    /\ Busy("custom", a)
    /\ IF RequiresCopy("custom")
       THEN copy' = [copy EXCEPT ![a] = @ \cup {"forged"}] /\ UNCHANGED shown
       ELSE shown' = [shown EXCEPT ![a][now[a]] = @ \cup {"forged", "code"}] /\ UNCHANGED copy
    /\ Return("custom", a, "ok")
    /\ UNCHANGED <<faults, sent, queue, circuit, now, op, heard>>

(* MetricsEventSink.publish, one recorder call at a time *)
Last(a) == CASE Kind(now[a]) = "ended" -> 3 [] OTHER -> 1
Popped(a) == [mark EXCEPT ![RunOf[a]] = Nothing]
Measure(a) ==
    /\ Busy("metrics", a)
    /\ op' = [op EXCEPT ![a] = @ + 1]
    /\ IF op'[a] = Last(a) THEN Return("metrics", a, "ok") ELSE UNCHANGED hands
    /\ mark' = CASE op'[a] = 1 /\ Kind(now[a]) = "started" ->
                       [mark EXCEPT ![RunOf[a]] = a]
                 [] op'[a] = 2 -> Popped(a)
                 [] OTHER -> mark
    /\ span' = IF op'[a] = 2 THEN [span EXCEPT ![a] = mark[RunOf[a]]] ELSE span
    /\ spans' = IF op'[a] = 3 /\ span[a] # Nothing
                THEN Append(spans, [end |-> a, from |-> span[a]]) ELSE spans
    /\ UNCHANGED <<faults, sent, shown, queue, circuit, now, copy, flying, records>>

Init ==
    /\ faults = 0 /\ sent = [a \in Attempts |-> 0]
    /\ shown = [a \in Attempts |-> <<>>] /\ queue = shown
    /\ circuit = [a \in Attempts |-> FALSE]
    /\ now = [a \in Attempts |-> 0] /\ op = now
    /\ hands = [a \in Attempts |-> Idle]
    /\ copy = [a \in Attempts |-> {}]
    /\ mark = [r \in Runs |-> Nothing]
    /\ span = [a \in Attempts |-> Nothing]
    /\ flying = {} /\ records = [a \in Attempts |-> [s \in Writers |-> <<>>]] /\ spans = <<>>

Next ==
    \/ \E a \in Attempts :
          \/ Publish(a) \/ Take(a) \/ Done(a) \/ TimedOut(a) \/ Custom(a) \/ Measure(a)
          \/ \E s \in Sinks : Fault(s, a)
          \/ \E s \in Writers : Write(s, a)
    \/ \E c \in flying : Land(c)
Spec == Init /\ [][Next]_sinkVars

----------------------------------------------------------------------------
(* No sink changes what the stream shows, and a writer records the         *)
(* projection of what was published, whatever the other sinks do.          *)
SinksAreIsolated ==
    /\ \A a \in Attempts, n \in 1..Len(Kinds) : n <= Len(shown[a]) => shown[a][n] = Data
    /\ \A a \in Attempts, s \in Writers :
          \A i \in 1..Len(records[a][s]) : records[a][s][i].data = {"code"}

(* A writer's records of an attempt are in the order of its events, each   *)
(* once, although a call may land long after its timeout.                  *)
RecordsInOrder ==
    \A a \in Attempts, s \in Writers :
        \A i, j \in 1..Len(records[a][s]) : i < j => records[a][s][i].n < records[a][s][j].n

(* A duration is measured from a start of the same run, and a start is     *)
(* measured at most once, even when an end or a later start was lost.      *)
StartsMeasuredOnce ==
    /\ \A i, j \in 1..Len(spans) : i # j => spans[i].from # spans[j].from
    /\ \A i \in 1..Len(spans) :
          RunOf[spans[i].from] = RunOf[spans[i].end] /\ spans[i].from <= spans[i].end

(* As long as the circuit is closed, every sink has had every event.       *)
NobodyIsSkipped ==
    \A a \in Attempts : ~ circuit[a] /\ faults = 0 =>
        \A s \in Writers, n \in 1..Len(Kinds) :
            n <= sent[a] /\ Handles(s, n) /\ (\A i \in 1..Len(queue[a]) : queue[a][i] # n) /\ now[a] # n
            => \E i \in 1..Len(records[a][s]) : records[a][s][i].n = n

EventSinksSound == SinksAreIsolated /\ RecordsInOrder /\ StartsMeasuredOnce /\ NobodyIsSkipped
====
