---- MODULE ModelCalls ----
(***************************************************************************)
(* Model calls of a run (RuntimeServices._complete_model and stream_model) *)
(* down to the provider's answer as the clients read it                    *)
(* (models/openai_compatible.py, models/ollama.py): the reservation, its   *)
(* checkpoint and the started event, then the attempt, retries that stop   *)
(* once output was shown, tool calls put together from fragments, the      *)
(* terminal marker, usage, and the events of every attempt.                *)
(*                                                                         *)
(* A run may begin with the call of the memory's summary, whose failure    *)
(* the memory mostly does without; the engine's call then meets the guard  *)
(* as that call has left it.  The provider decides on an answer per        *)
(* attempt and sends its text and its tool calls' fragments in any order   *)
(* that keeps each one's own; the connection may break anywhere.           *)
(***************************************************************************)
EXTENDS Integers, Sequences, FiniteSets, SequencesExt

CONSTANTS
    Answers,       \* what a provider may answer: text, calls and finish
    MaxAttempts,   \* config.retry.max_attempts
    MaxTurns,      \* the model guard's limit
    Nothing

VARIABLES
    mode,      \* "complete" or "stream"
    aux,       \* the call of the memory's summary, not the engine's
    pc,        \* "idle" between attempts; "saving" the reservation, "starting" the attempt,
               \* "open" during it; "done"
    attempt,   \* the next or current attempt
    turns,     \* guard: model turns reserved
    held,      \* guard: an attempt is reserved and not settled
    answer,    \* what the provider means to answer in this attempt
    sent,      \* how much of it was sent: text pieces, fragments per call, marker
    parts,     \* content_parts of this attempt
    frags,     \* _StreamingToolCalls: index -> name and argument parts
    shown,     \* deltas given to the consumer, over all attempts
    usage,     \* answers counted in the run's usage
    events,    \* the calls' queued events: type, and of which call
    outcome,   \* how the call ended
    result,    \* the response it returned
    primary    \* run.primary_failure: whether it says retryable

callVars == <<mode, aux, pc, attempt, turns, held, answer, sent, parts, frags, shown,
              usage, events, outcome, result, primary>>

NoFragment == [name |-> Nothing, args |-> <<>>]
Transient == {"timeout", "connection", "http_5xx"}
AttemptFaults == Transient \cup {"http_4xx", "protocol"}

----------------------------------------------------------------------------
(* Before the provider is asked *)

Stop(reason) == pc' = "done" /\ outcome' = reason
Queued(types) == [k \in DOMAIN types |-> [type |-> types[k], aux |-> aux]]

\* _before_model_attempt: a turn of the execution group, whose ledger may
\* refuse or fail, then one of the guard, which refuses while an earlier
\* attempt is pending or the budget is spent.  All of it is raised past the
\* retry loop.
Reserve ==
    /\ pc = "idle"
    /\ \/ Stop("budget") /\ UNCHANGED <<turns, held>>
       \/ held /\ Stop("pending") /\ UNCHANGED <<turns, held>>
       \/ ~held /\ turns = MaxTurns /\ Stop("guard") /\ UNCHANGED <<turns, held>>
       \/ /\ ~held /\ turns < MaxTurns
          /\ turns' = turns + 1 /\ held' = TRUE
          /\ pc' = "saving" /\ UNCHANGED outcome
    /\ UNCHANGED <<mode, aux, attempt, answer, sent, parts, frags, shown, usage, events, result,
                   primary>>

\* The BEFORE_MODEL checkpoint.  One that fails is raised before there is a
\* handler that would abandon the attempt.
Save ==
    /\ pc = "saving"
    /\ \/ pc' = "starting" /\ UNCHANGED outcome
       \/ Stop("unsaved")
    /\ UNCHANGED <<mode, aux, attempt, turns, held, answer, sent, parts, frags, shown, usage,
                   events, result, primary>>

\* MODEL_STARTED is in the queue, the request goes out.
Begin ==
    /\ pc = "starting"
    /\ \E a \in Answers :
         /\ answer' = a
         /\ sent' = [text |-> 0, calls |-> [c \in DOMAIN a.calls |-> 0], end |-> FALSE]
    /\ parts' = <<>> /\ frags' = [c \in {} |-> NoFragment]
    /\ events' = events \o Queued(<<"started">>)
    /\ pc' = "open"
    /\ UNCHANGED <<mode, aux, attempt, turns, held, shown, usage, outcome, result, primary>>

----------------------------------------------------------------------------
(* Attempts *)

\* The common end of a failed attempt.
Fail(kind) ==
    LET retryable == kind \in Transient /\ shown = <<>>
        terminal == ~retryable \/ attempt = MaxAttempts
    IN  /\ held' = FALSE
        /\ IF terminal
           THEN /\ events' = events \o Queued(<<"failed">>)
                /\ outcome' = IF kind \in {"timeout", "protocol", "incomplete"} THEN kind ELSE "invocation"
                /\ primary' = IF ~aux \/ kind \in {"protocol", "incomplete"} THEN retryable ELSE primary
                /\ pc' = "done"
                /\ UNCHANGED attempt
           ELSE /\ events' = events \o Queued(<<"failed", "retry">>)
                /\ attempt' = attempt + 1
                /\ pc' = "idle"
                /\ UNCHANGED <<outcome, primary>>

\* A complete response: counted, refused when cut short, then observed by the
\* guard, which may trip over what earlier turns answered; a summary starts a
\* history of its own.
Respond(r) ==
    /\ usage' = usage + 1
    /\ IF answer.finish = "length"
       THEN Fail("incomplete") /\ UNCHANGED result
       ELSE /\ events' = events \o Queued(<<"completed">>)
            /\ held' = FALSE
            /\ \/ Stop("answered") /\ result' = r
               \/ ~aux /\ Stop("guard") /\ UNCHANGED result
            /\ UNCHANGED <<attempt, primary>>

\* A fault of the connection, the service or what it sent.
Break ==
    /\ pc = "open"
    /\ \E kind \in AttemptFaults : Fail(kind)
    /\ UNCHANGED <<mode, aux, turns, answer, sent, parts, frags, shown, usage, result>>

\* Only an attempt that is under way has a handler that abandons it.
Cancel ==
    /\ pc # "done"
    /\ held' = (held /\ pc # "open")
    /\ Stop("cancelled")
    /\ UNCHANGED <<mode, aux, attempt, turns, answer, sent, parts, frags, shown, usage, events,
                   result, primary>>

\* The consumer closes the stream at a chunk: GeneratorExit passes the handlers.
Close ==
    /\ pc = "open" /\ mode = "stream" /\ (parts # <<>> \/ sent.end)
    /\ Stop("closed")
    /\ UNCHANGED <<mode, aux, attempt, turns, held, answer, sent, parts, frags, shown, usage,
                   events, result, primary>>

\* The memory has its summary, or does without one; a protocol error and a
\* guard that trips end the run.  The engine's call follows.
Proceed ==
    /\ pc = "done" /\ aux
    /\ outcome \in {"answered", "invocation", "timeout", "budget", "unsaved"}
    /\ aux' = FALSE /\ mode' \in {"complete", "stream"}
    /\ pc' = "idle" /\ attempt' = 1
    /\ answer' = Nothing /\ sent' = Nothing
    /\ outcome' = Nothing /\ result' = Nothing
    /\ UNCHANGED <<turns, held, parts, frags, shown, usage, events, primary>>

----------------------------------------------------------------------------
(* One whole answer *)

Complete ==
    /\ pc = "open" /\ mode = "complete"
    /\ Respond([text |-> answer.text, calls |-> answer.calls])
    /\ UNCHANGED <<mode, aux, turns, answer, sent, parts, frags, shown>>

----------------------------------------------------------------------------
(* A stream of events *)

Streaming == pc = "open" /\ mode = "stream" /\ ~sent.end

Delta ==
    /\ Streaming /\ sent.text < Len(answer.text)
    /\ LET piece == answer.text[sent.text + 1]
       IN  parts' = Append(parts, piece) /\ shown' = Append(shown, piece)
    /\ sent' = [sent EXCEPT !.text = @ + 1]
    /\ UNCHANGED <<mode, aux, pc, attempt, turns, held, answer, frags, usage, events, outcome,
                   result, primary>>

\* The first fragment of a call brings its name, the others parts of its
\* arguments; each says the call's index.
Fragment(c) ==
    /\ Streaming /\ sent.calls[c] <= Len(answer.calls[c].args)
    /\ LET known == IF c \in DOMAIN frags THEN frags[c] ELSE NoFragment
           more == IF sent.calls[c] = 0
                   THEN [known EXCEPT !.name = answer.calls[c].name]
                   ELSE [known EXCEPT !.args = Append(@, answer.calls[c].args[sent.calls[c]])]
       IN  frags' = [i \in DOMAIN frags \cup {c} |-> IF i = c THEN more ELSE frags[i]]
    /\ sent' = [sent EXCEPT !.calls[c] = @ + 1]
    /\ UNCHANGED <<mode, aux, pc, attempt, turns, held, answer, parts, shown, usage, events,
                   outcome, result, primary>>

SentAll == /\ sent.text = Len(answer.text)
           /\ \A c \in DOMAIN answer.calls : sent.calls[c] = Len(answer.calls[c].args) + 1

Marker ==
    /\ Streaming
    /\ SentAll \/ answer.finish = "length"     \* a model cut short says so where it stopped
    /\ sent' = [sent EXCEPT !.end = TRUE]
    /\ UNCHANGED <<mode, aux, pc, attempt, turns, held, answer, parts, frags, shown, usage,
                   events, outcome, result, primary>>

\* build(): the calls by index; one without a name is a protocol error.
Built == LET at == SetToSortSeq(DOMAIN frags, LAMBDA i, j : i < j)
         IN  [k \in DOMAIN at |-> frags[at[k]]]

\* The lines end: without a marker, a protocol error.
End ==
    /\ pc = "open" /\ mode = "stream"
    /\ IF sent.end /\ \A i \in DOMAIN frags : frags[i].name # Nothing
       THEN Respond([text |-> parts, calls |-> Built])
       ELSE Fail("protocol") /\ UNCHANGED <<usage, result>>
    /\ UNCHANGED <<mode, aux, turns, answer, sent, parts, frags, shown>>

----------------------------------------------------------------------------
Init ==
    /\ mode \in {"complete", "stream"}
    /\ aux \in (IF mode = "complete" THEN BOOLEAN ELSE {FALSE})
    /\ pc = "idle" /\ attempt = 1 /\ turns = 0 /\ held = FALSE
    /\ answer = Nothing /\ sent = Nothing
    /\ parts = <<>> /\ frags = [c \in {} |-> NoFragment] /\ shown = <<>>
    /\ usage = 0 /\ events = <<>>
    /\ outcome = Nothing /\ result = Nothing /\ primary = Nothing

Finished == pc = "done" /\ UNCHANGED callVars

Next ==
    \/ Reserve \/ Save \/ Begin
    \/ Break \/ Cancel \/ Close \/ Proceed
    \/ Complete
    \/ Delta \/ Marker \/ End
    \/ \E c \in 1..Cardinality(UNION {DOMAIN a.calls : a \in Answers}) :
         /\ pc = "open" /\ c \in DOMAIN answer.calls
         /\ Fragment(c)
    \/ Finished

Spec == Init /\ [][Next]_callVars

----------------------------------------------------------------------------
(* What a streaming consumer was shown over all attempts is the text of    *)
(* the response the call returns, and until then a beginning of what the   *)
(* provider is sending now: no attempt is retried after output was shown.  *)
ShownOnce ==
    /\ mode = "stream" /\ outcome = "answered" => shown = result.text
    /\ pc = "open" /\ mode = "stream" => shown = SubSeq(answer.text, 1, sent.text)

(* However text and fragments interleave, and whatever earlier attempts    *)
(* left behind, the response is the provider's answer in full.             *)
Assembled ==
    outcome = "answered" =>
        /\ result = [text |-> answer.text, calls |-> answer.calls]
        /\ answer.finish = "stop"

(* Every turn the guard counts is an attempt that began, but for one: a    *)
(* reservation that was not followed by its attempt stays pending, and no  *)
(* provider is asked again in that run.  An attempt that began is settled  *)
(* unless the consumer closed its stream, it ends at most once, and a      *)
(* retry follows a failure and precedes the next attempt of its call.      *)
Count(types, calls) == Len(SelectSeq(events, LAMBDA e : e.type \in types /\ e.aux \in calls))
AttemptsSettled ==
    /\ LET begun == Count({"started"}, BOOLEAN)
           ended == Count({"failed", "completed"}, BOOLEAN)
           unbegun == held /\ pc # "open" /\ outcome # "closed"
       IN  /\ turns - begun = (IF unbegun THEN 1 ELSE 0)
           /\ outcome \notin {"cancelled", "closed"} =>
                 begun - ended = (IF pc = "open" THEN 1 ELSE 0)
    /\ pc = "open" => held /\ Count({"retry"}, {aux}) = Count({"started"}, {aux}) - 1
    /\ \A a \in BOOLEAN : Count({"started"}, {a}) <= MaxAttempts
    /\ \A k \in DOMAIN events : events[k].type = "retry" => events[k - 1].type = "failed"

(* The failure the run keeps is never called retryable after output was    *)
(* shown, and a summary the memory can do without leaves none.             *)
PrimaryHonest ==
    /\ primary = TRUE => shown = <<>> /\ ~aux
    /\ aux /\ primary # Nothing => outcome \in {"protocol", "incomplete"}
    /\ outcome \in {"timeout", "invocation"} /\ ~aux => primary # Nothing

ModelCallSound == ShownOnce /\ Assembled /\ AttemptsSettled /\ PrimaryHonest

(* A summary that the memory does without does not decide over the run     *)
(* (runtime/services.py:661: a non-protocol failure of the optional        *)
(* summarizer can be recovered by the memory policy's recent-only view).   *)
(* It does not hold: when the checkpoint of the summary's reservation      *)
(* fails, the attempt stays pending and the guard refuses the engine's.    *)
SummaryIsOptional == outcome # "pending"
====
