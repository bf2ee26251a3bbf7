---- MODULE DocumentBackends ----
(***************************************************************************)
(* The index manager's calls to its services (backends.py): a document is  *)
(* converted by an asynchronous Docling task that is submitted, polled and *)
(* fetched; texts are embedded in batches; blocks are enriched several at  *)
(* a time.  All go through one retrying transport.  A request may fail     *)
(* before or after the service acted on it.                                *)
(*                                                                         *)
(* Time is a counter: a request takes from one tick to its timeout, a      *)
(* retry's delay and the pause between two polls take one.                 *)
(***************************************************************************)
EXTENDS Integers, Sequences, FiniteSets, SequencesExt

CONSTANTS
    MaxAttempts,      \* the transport's attempts per request
    RequestTimeout,   \* per request
    Deadline,         \* operation_timeout of a conversion
    Texts,            \* the number of texts to embed
    BatchSize,        \* texts per embedding request
    BlockIds,         \* the blocks to enrich
    MaxConcurrency,   \* VLLMEnrichmentClient.max_concurrency
    Nothing

VARIABLES
    work,      \* "convert", "embed" or "enrich"
    step,      \* the conversion's next request, or how the operation ended
    attempt,   \* attempts of the current request
    now,       \* ticks since the operation began
    started,   \* when the last request began
    task,      \* the task the client waits for
    tasks,     \* the service's tasks: how each stands
    answer,    \* the task whose result was accepted
    vectors,   \* the texts whose vectors were decoded, in the order kept
    calls      \* the enrichment calls: [BlockIds -> state]

backendVars == <<work, step, attempt, now, started, task, tasks, answer, vectors, calls>>

Ended == {"accepted", "failed", "late"}
Batches == (Texts + BatchSize - 1) \div BatchSize
Low(a, b) == IF a <= b THEN a ELSE b

----------------------------------------------------------------------------
(* The transport *)

Remaining == Deadline - now
InTime == work = "convert" => Remaining > 0
Timeout == IF work = "convert" THEN Low(RequestTimeout, Remaining) ELSE RequestTimeout

\* A request that begins now and takes d ticks.
Takes(d) == d \in 1..Timeout /\ started' = now /\ now' = now + d

\* The delay before the next attempt, after which the deadline is looked at again.
Retry(d) ==
    /\ attempt < MaxAttempts
    /\ attempt' = attempt + 1
    /\ d \in 1..Timeout
    /\ started' = now
    /\ IF work = "convert" /\ Remaining - d <= 0
       THEN step' = "failed" /\ now' = now + d
       ELSE now' = now + d + 1 /\ UNCHANGED step

\* Out of time before the request, out of attempts after it, or an answer the
\* transport or the client refuses.
OutOfTime ==
    /\ work = "convert" /\ step \notin Ended /\ ~InTime
    /\ step' = "failed"
    /\ UNCHANGED <<work, attempt, now, started, task, tasks, answer, vectors, calls>>

Refused(d) == Takes(d) /\ step' = "failed" /\ attempt' = attempt
GivesUp(d) == attempt = MaxAttempts /\ Refused(d)

----------------------------------------------------------------------------
(* DoclingServeClient.convert *)

NewTask == Len(tasks) + 1

\* The task may be accepted and the answer lost: the next attempt submits a
\* second one.
SubmitFails(d) ==
    /\ work = "convert" /\ step = "submit" /\ InTime
    /\ \/ UNCHANGED tasks
       \/ tasks' = Append(tasks, "pending")
    /\ Retry(d) \/ GivesUp(d)
    /\ UNCHANGED <<work, task, answer, vectors, calls>>

Submitted(d) ==
    /\ work = "convert" /\ step = "submit" /\ InTime
    /\ Takes(d)
    /\ attempt' = 1
    /\ \E status \in {"pending", "success", "failure"} :
         /\ tasks' = Append(tasks, status)
         /\ step' = CASE status = "pending" -> "poll"
                      [] status = "success" -> "fetch"
                      [] OTHER -> "failed"
    /\ task' = NewTask
    /\ UNCHANGED <<work, answer, vectors, calls>>

TaskMoves(t) ==
    /\ tasks[t] = "pending" /\ step \notin Ended
    /\ \E status \in {"success", "failure"} : tasks' = [tasks EXCEPT ![t] = status]
    /\ UNCHANGED <<work, step, attempt, now, started, task, answer, vectors, calls>>

\* _poll: the service may hold the request; a pause follows an answer that says
\* the task goes on.
Polled(d) ==
    /\ work = "convert" /\ step = "poll" /\ InTime
    /\ d \in 1..Timeout
    /\ started' = now
    /\ attempt' = 1
    /\ CASE tasks[task] = "pending" -> now' = now + d + 1 /\ UNCHANGED step
         [] tasks[task] = "success" -> now' = now + d /\ step' = "fetch"
         [] OTHER -> now' = now + d /\ step' = "failed"
    /\ UNCHANGED <<work, task, tasks, answer, vectors, calls>>

Fetched(d) ==
    /\ work = "convert" /\ step = "fetch" /\ InTime
    /\ Takes(d)
    /\ attempt' = attempt
    /\ \/ step' = "accepted" /\ answer' = task
       \/ step' = "failed" /\ UNCHANGED answer     \* not a complete DoclingDocument
    /\ UNCHANGED <<work, task, tasks, vectors, calls>>

PollOrFetchFails(d) ==
    /\ work = "convert" /\ step \in {"poll", "fetch"} /\ InTime
    /\ Retry(d) \/ GivesUp(d) \/ Refused(d)
    /\ UNCHANGED <<work, task, tasks, answer, vectors, calls>>

----------------------------------------------------------------------------
(* VLLMEmbeddingClient.embed: the batches one after another *)

Batch == LET first == Len(vectors) + 1
         IN  [k \in 1..Low(BatchSize, Texts - Len(vectors)) |-> first + k - 1]

\* The response names texts of the batch by index, in any order; an index out
\* of range, given twice or missing refuses it.
Ordered(response) ==
    [k \in DOMAIN response |-> response[CHOOSE j \in DOMAIN response : response[j].index = k].vector]
WellFormed(response) ==
    /\ Len(response) = Len(Batch)
    /\ {response[k].index : k \in DOMAIN response} = DOMAIN Batch

Responses ==   \* what the service says of the batch: each item an index and that text's vector
    UNION {[1..n -> {[index |-> k, vector |-> Batch[k]] : k \in DOMAIN Batch}] :
           n \in {Len(Batch) - 1, Len(Batch)} \ {0}}

Embedded(d) ==
    /\ work = "embed" /\ step \notin Ended
    /\ Takes(d)
    /\ attempt' = 1
    /\ \E response \in Responses :
         IF WellFormed(response)
         THEN /\ vectors' = vectors \o Ordered(response)
              /\ step' = IF Len(vectors') = Texts THEN "accepted" ELSE step
         ELSE step' = "failed" /\ UNCHANGED vectors
    /\ UNCHANGED <<work, task, tasks, answer, calls>>

EmbedFails(d) ==
    /\ work = "embed" /\ step \notin Ended
    /\ Retry(d) \/ GivesUp(d) \/ Refused(d)
    /\ UNCHANGED <<work, task, tasks, answer, vectors, calls>>

----------------------------------------------------------------------------
(* VLLMEnrichmentClient.enrich: a gather under a semaphore and a timeout *)

Running == {b \in BlockIds : calls[b] = "running"}
Stray == {b \in BlockIds : calls[b] = "stray"}

Begin(b) ==
    /\ work = "enrich" /\ step = "gather"
    /\ calls[b] = "waiting" /\ Cardinality(Running) < MaxConcurrency
    /\ calls' = [calls EXCEPT ![b] = "running"]
    /\ UNCHANGED <<work, step, attempt, now, started, task, tasks, answer, vectors>>

Answers(b) ==
    /\ work = "enrich" /\ step = "gather"
    /\ calls[b] = "running"
    /\ calls' = [calls EXCEPT ![b] = "done"]
    /\ step' = IF \A c \in BlockIds : calls'[c] = "done" THEN "accepted" ELSE step
    /\ UNCHANGED <<work, attempt, now, started, task, tasks, answer, vectors>>

\* The first failure is raised at once; gather leaves the other calls running.
Fails(b) ==
    /\ work = "enrich" /\ step = "gather"
    /\ calls[b] = "running"
    /\ calls' = [c \in BlockIds |-> IF c = b THEN "failed"
                                    ELSE IF calls[c] \in {"running", "waiting"} THEN "stray"
                                    ELSE calls[c]]
    /\ step' = "failed"
    /\ UNCHANGED <<work, attempt, now, started, task, tasks, answer, vectors>>

\* wait_for cancels the whole gather.
TimesOut ==
    /\ work = "enrich" /\ step = "gather"
    /\ calls' = [c \in BlockIds |-> IF calls[c] = "done" THEN "done" ELSE "cancelled"]
    /\ step' = "late"
    /\ UNCHANGED <<work, attempt, now, started, task, tasks, answer, vectors>>

StrayEnds(b) ==
    /\ calls[b] = "stray"
    /\ calls' = [calls EXCEPT ![b] = "done"]
    /\ UNCHANGED <<work, step, attempt, now, started, task, tasks, answer, vectors>>

----------------------------------------------------------------------------
Init ==
    /\ work \in {"convert", "embed", "enrich"}
    /\ step = CASE work = "convert" -> "submit" [] work = "embed" -> "batch" [] OTHER -> "gather"
    /\ attempt = 1 /\ now = 0 /\ started = 0
    /\ task = Nothing /\ tasks = <<>> /\ answer = Nothing
    /\ vectors = <<>>
    /\ calls = [b \in BlockIds |-> "waiting"]

Transport ==
    \E d \in 1..RequestTimeout :
        \/ SubmitFails(d) \/ Submitted(d) \/ Polled(d) \/ Fetched(d) \/ PollOrFetchFails(d)
        \/ Embedded(d) \/ EmbedFails(d)

Quiet == step \in Ended /\ Stray = {} /\ UNCHANGED backendVars

Next ==
    \/ OutOfTime
    \/ Transport
    \/ \E t \in DOMAIN tasks : TaskMoves(t)
    \/ \E b \in BlockIds : Begin(b) \/ Answers(b) \/ Fails(b) \/ StrayEnds(b)
    \/ TimesOut
    \/ Quiet

Spec == Init /\ [][Next]_backendVars

----------------------------------------------------------------------------
(* Whatever is retried, polled or lost, no request of a conversion begins  *)
(* after its deadline, and the conversion is over at most one poll's pause *)
(* after it.                                                               *)
OnTime ==
    work = "convert" => started < Deadline /\ now <= Deadline + 1

(* A lost answer makes the next attempt submit the document again, at most *)
(* once per attempt, and the result accepted is the one of the task the    *)
(* client was told of, which had succeeded when it was fetched.            *)
ResultIsTheTasks ==
    /\ Len(tasks) <= MaxAttempts
    /\ step = "fetch" => tasks[task] = "success"
    /\ work = "convert" /\ step = "accepted" => answer = task /\ tasks[answer] = "success"

(* However the service orders its answers, the vectors kept are those of   *)
(* the texts in the order they were given, and an accepted result has one  *)
(* for every text.                                                         *)
VectorsInOrder ==
    /\ \A k \in DOMAIN vectors : vectors[k] = k
    /\ work = "embed" /\ step = "accepted" => Len(vectors) = Texts

(* No more blocks are enriched at a time than the client allows, an        *)
(* accepted result has every block, and after a timeout nothing runs.      *)
EnrichmentIsWhole ==
    /\ Cardinality(Running) <= MaxConcurrency
    /\ work = "enrich" /\ step = "accepted" => \A b \in BlockIds : calls[b] = "done"
    /\ step = "late" => Running \cup Stray = {}

BackendsSound == OnTime /\ ResultIsTheTasks /\ VectorsInOrder /\ EnrichmentIsWhole

(* An enrichment that has failed makes no further calls.  It does not      *)
(* hold: gather leaves the others running, and a retry of the document     *)
(* adds its own to them.                                                   *)
NothingStrays == step = "failed" => Stray = {}
====
