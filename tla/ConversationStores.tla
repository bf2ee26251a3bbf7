-------------------------- MODULE ConversationStores --------------------------
(***************************************************************************)
(* The conversation stores under concurrent runs: the bounded store in     *)
(* memory (expiry, capacity, least recently used eviction, idempotent      *)
(* batches), Redis lists with an idempotency hash, and the Redis blob      *)
(* fallback that reads, extends and writes a whole conversation under a    *)
(* lock of the store instance.                                             *)
(***************************************************************************)
EXTENDS Integers, Sequences, FiniteSets, FiniteSetsExt, SequencesExt

CONSTANTS
    Conversations,  \* session ids
    Batches,        \* batches of messages, each with its idempotency key
    Bytes,          \* the size of each batch
    MaxSessions,    \* max_sessions
    MaxTotal,       \* max_total_bytes
    Ttl,            \* ttl_seconds
    SweepEvery,     \* ttl_sweep_interval_seconds
    MaxRows,        \* bound: batches of a conversation in Redis
    MaxTime         \* bound: the clock

VARIABLES
    backend,   \* "memory", "list" or "blob"
    rows,      \* batches of each conversation, in order
    keys,      \* idempotency keys recorded for each conversation
    dies,      \* when its rows expire, 0 for never
    keysDie,   \* when its keys expire (Redis), 0 for never
    recent,    \* conversations, least recently used first
    total,     \* _total_bytes
    sweepAt,   \* _next_sweep_at
    time,
    lock,      \* blob: the lock object of each conversation, 0 for none
    users,     \* blob: _fallback_lock_users
    job,       \* what each batch's writer is doing
    clearing,  \* list: conversations between the two deletes of clear
    kept,      \* history: batches acknowledged and not cleared, expired or evicted
    raced      \* history: a clear overlapped an append

storeVars == <<backend, rows, keys, dies, keysDie, recent, total, sweepAt, time, lock, users,
               job, clearing, kept, raced>>

NoJob == [at |-> "idle", conv |-> "none", lock |-> 0, read |-> <<>>]

Init ==
    /\ backend \in {"memory", "list", "blob"}
    /\ rows = [c \in Conversations |-> <<>>]
    /\ keys = [c \in Conversations |-> {}]
    /\ dies = [c \in Conversations |-> 0]
    /\ keysDie = [c \in Conversations |-> 0]
    /\ recent = <<>> /\ total = 0 /\ sweepAt = 0 /\ time = 1
    /\ lock = [c \in Conversations |-> 0]
    /\ users = [c \in Conversations |-> 0]
    /\ job = [b \in Batches |-> NoJob]
    /\ clearing = {}
    /\ kept = [c \in Conversations |-> {}]
    /\ raced = FALSE

Weight(s) == MapThenSumSet(LAMBDA i : Bytes[s[i]], DOMAIN s)
Gone(f, S, zero) == [c \in Conversations |-> IF c \in S THEN zero ELSE f[c]]

-----------------------------------------------------------------------------
(* In memory every operation holds the store's lock.  A store is the record *)
(* of what they change.                                                     *)
Store == [rows |-> rows, keys |-> keys, dies |-> dies, recent |-> recent, total |-> total,
          sweepAt |-> sweepAt]

(* Mutant: the bytes of a deleted conversation stay counted. *)
DeleteKeepsBytes(st, S) ==
    [st EXCEPT !.rows = Gone(@, S, <<>>), !.keys = Gone(@, S, {}), !.dies = Gone(@, S, 0),
               !.recent = SelectSeq(@, LAMBDA c : c \notin S)]

(* _delete_session, for each of S. *)
Delete(st, S) ==
    [st EXCEPT !.rows = Gone(@, S, <<>>), !.keys = Gone(@, S, {}), !.dies = Gone(@, S, 0),
               !.recent = SelectSeq(@, LAMBDA c : c \notin S),
               !.total = @ - MapThenSumSet(LAMBDA c : Weight(st.rows[c]), S)]

Expired(st) == {c \in Conversations : st.dies[c] # 0 /\ st.dies[c] <= time}

(* What every operation on a conversation begins with: the sweep if it is   *)
(* due, and its own expiry.                                                 *)
Swept(st, c) ==
    LET due == time >= st.sweepAt
        first == IF due THEN [Delete(st, Expired(st)) EXCEPT !.sweepAt = time + SweepEvery] ELSE st
    IN Delete(first, {c} \cap Expired(first))

Touch(st, c) == [st EXCEPT !.recent = Append(SelectSeq(@, LAMBDA d : d # c), c)]

Stored(st) == {c \in Conversations : st.rows[c] # <<>>}
Exceeded(st) == Cardinality(Stored(st)) > MaxSessions \/ st.total > MaxTotal

(* The least recently used conversation but the one at hand. *)
Victim(st, c) == SelectSeq(st.recent, LAMBDA d : d # c)[1]

(* _enforce_capacity: expired conversations go first, then others. *)
Enforced(st, c) ==
    LET evict[n \in 0..Cardinality(Conversations)] ==
            IF n = 0 THEN IF Exceeded(st) THEN Delete(st, Expired(st)) ELSE st
            ELSE LET prior == evict[n - 1]
                 IN IF Exceeded(prior) /\ Stored(prior) # {c} THEN Delete(prior, {Victim(prior, c)})
                    ELSE prior
    IN evict[Cardinality(Conversations)]

(* A refused batch changes nothing but what the sweep removed. *)
Extended(st, c, b) ==
    IF b \in st.keys[c] THEN [store |-> Touch(st, c), ok |-> TRUE]
    ELSE IF Weight(st.rows[c]) + Bytes[b] > MaxTotal THEN [store |-> st, ok |-> FALSE]
    ELSE LET next == [Touch(st, c) EXCEPT !.rows[c] = Append(@, b), !.keys[c] = @ \cup {b},
                                          !.dies[c] = time + Ttl, !.total = @ + Bytes[b]]
         IN [store |-> Enforced(next, c), ok |-> ~Exceeded(Enforced(next, c))]

SetStore(st) ==
    /\ rows' = st.rows /\ keys' = st.keys /\ dies' = st.dies /\ recent' = st.recent
    /\ total' = st.total /\ sweepAt' = st.sweepAt

(* What the deletions leave of the batches that count. *)
Survive(st) == [c \in Conversations |-> IF st.rows[c] = <<>> THEN {} ELSE kept[c]]

(* append_once *)
AppendInMemory(c, b) ==
    /\ backend = "memory"
    /\ LET r == Extended(Swept(Store, c), c, b)
       IN /\ SetStore(r.store)
          /\ kept' = [Survive(r.store) EXCEPT ![c] =
                        (IF Swept(Store, c).rows[c] = <<>> THEN {} ELSE @) \cup (IF r.ok THEN {b} ELSE {})]
    /\ UNCHANGED <<backend, keysDie, time, lock, users, job, clearing, raced>>

(* load, load_tail *)
LoadInMemory(c) ==
    /\ backend = "memory"
    /\ LET st == Swept(Store, c)
       IN SetStore(IF st.rows[c] = <<>> THEN st ELSE Touch(st, c)) /\ kept' = Survive(st)
    /\ UNCHANGED <<backend, keysDie, time, lock, users, job, clearing, raced>>

ClearInMemory(c) ==
    /\ backend = "memory"
    /\ SetStore(Delete(Store, {c}))
    /\ kept' = [kept EXCEPT ![c] = {}]
    /\ UNCHANGED <<backend, keysDie, time, lock, users, job, clearing, raced>>

-----------------------------------------------------------------------------
(* Redis lists: one script appends a batch unless its key is recorded, and  *)
(* renews the expiry of the rows and of the keys.                           *)
AppendOnce(c, b) ==
    /\ backend = "list" /\ Len(rows[c]) < MaxRows
    /\ raced' = (raced \/ c \in clearing)
    /\ kept' = [kept EXCEPT ![c] = @ \cup {b}]
    /\ IF b \in keys[c] THEN UNCHANGED <<rows, keys, dies, keysDie>>
       ELSE /\ rows' = [rows EXCEPT ![c] = Append(@, b)]
            /\ keys' = [keys EXCEPT ![c] = @ \cup {b}]
            /\ dies' = [dies EXCEPT ![c] = time + Ttl]
            /\ keysDie' = [keysDie EXCEPT ![c] = time + Ttl]
    /\ UNCHANGED <<backend, recent, total, sweepAt, time, lock, users, job, clearing>>

(* clear deletes the rows and then the keys; it may stop in between. *)
ClearRows(c) ==
    /\ backend \in {"list", "blob"} /\ c \notin clearing
    /\ rows' = [rows EXCEPT ![c] = <<>>] /\ dies' = [dies EXCEPT ![c] = 0]
    /\ kept' = [kept EXCEPT ![c] = {}]
    /\ clearing' = clearing \cup {c}
    /\ raced' = (raced \/ \E b \in Batches : job[b].conv = c)
    /\ UNCHANGED <<backend, keys, keysDie, recent, total, sweepAt, time, lock, users, job>>

ClearKeys(c) ==
    /\ c \in clearing
    /\ clearing' = clearing \ {c}
    /\ keys' = [keys EXCEPT ![c] = {}] /\ keysDie' = [keysDie EXCEPT ![c] = 0]
    /\ lock' = [lock EXCEPT ![c] = 0] /\ users' = [users EXCEPT ![c] = 0]
    /\ raced' = (raced \/ \E b \in Batches : job[b].conv = c)
    /\ UNCHANGED <<backend, rows, dies, recent, total, sweepAt, time, job, kept>>

-----------------------------------------------------------------------------
(* The blob fallback: a lock object per conversation, made on demand, kept  *)
(* while it has users, and dropped by a clear whoever uses it.              *)
FreshLock == CHOOSE n \in 1..(Cardinality(Batches) + 1) :
                \A b \in Batches : job[b].lock # n

Queue(c, b) ==
    /\ backend = "blob" /\ job[b].at = "idle" /\ b \notin ToSet(rows[c])
    /\ LET l == IF lock[c] = 0 THEN FreshLock ELSE lock[c]
       IN /\ lock' = [lock EXCEPT ![c] = l]
          /\ job' = [job EXCEPT ![b] = [at |-> "wait", conv |-> c, lock |-> l, read |-> <<>>]]
    /\ users' = [users EXCEPT ![c] = @ + 1]
    /\ raced' = (raced \/ c \in clearing)
    /\ UNCHANGED <<backend, rows, keys, dies, keysDie, recent, total, sweepAt, time, clearing, kept>>

ReadBlob(b) ==
    /\ job[b].at = "wait"
    /\ \A d \in Batches : job[d].at = "write" => job[d].lock # job[b].lock
    /\ job' = [job EXCEPT ![b].at = "write", ![b].read = rows[job[b].conv]]
    /\ UNCHANGED <<backend, rows, keys, dies, keysDie, recent, total, sweepAt, time, lock, users,
                   clearing, kept, raced>>

WriteBlob(b) ==
    /\ job[b].at = "write" /\ Len(job[b].read) < MaxRows
    /\ LET c == job[b].conv
           last == users[c] <= 1
       IN /\ rows' = [rows EXCEPT ![c] = Append(job[b].read, b)]
          /\ dies' = [dies EXCEPT ![c] = time + Ttl]
          /\ kept' = [kept EXCEPT ![c] = @ \cup {b}]
          /\ users' = [users EXCEPT ![c] = IF last THEN 0 ELSE @ - 1]
          /\ lock' = [lock EXCEPT ![c] = IF last /\ @ = job[b].lock THEN 0 ELSE @]
    /\ job' = [job EXCEPT ![b] = NoJob]
    /\ UNCHANGED <<backend, keys, keysDie, recent, total, sweepAt, time, clearing, raced>>

(* Time passes.  Redis drops what expired; the store in memory is lazy. *)
Tick ==
    /\ time < MaxTime
    /\ time' = time + 1
    /\ IF backend = "memory" THEN UNCHANGED <<rows, dies, keys, keysDie, kept>>
       ELSE LET dead(f) == {c \in Conversations : f[c] # 0 /\ f[c] <= time + 1}
            IN /\ rows' = Gone(rows, dead(dies), <<>>) /\ dies' = Gone(dies, dead(dies), 0)
               /\ keys' = Gone(keys, dead(keysDie), {}) /\ keysDie' = Gone(keysDie, dead(keysDie), 0)
               /\ kept' = Gone(kept, dead(dies), {})
    /\ raced' = (raced \/ \E b \in Batches : job[b].at = "write")
    /\ UNCHANGED <<backend, recent, total, sweepAt, lock, users, job, clearing>>

Next ==
    \/ Tick
    \/ \E c \in Conversations :
          \/ LoadInMemory(c) \/ ClearInMemory(c) \/ ClearRows(c) \/ ClearKeys(c)
          \/ \E b \in Batches : AppendInMemory(c, b) \/ AppendOnce(c, b) \/ Queue(c, b)
    \/ \E b \in Batches : ReadBlob(b) \/ WriteBlob(b)

Spec == Init /\ [][Next]_storeVars

-----------------------------------------------------------------------------
TypeOK ==
    /\ \A c \in Conversations : keys[c] \subseteq Batches /\ ToSet(rows[c]) \subseteq Batches
    /\ total \in Nat /\ time \in 1..MaxTime

(* An acknowledged batch is in its conversation, once, until the            *)
(* conversation is cleared, expires or is evicted.  (Only a clear that      *)
(* overlaps an append, or an expiry within a read and write, excuses more.) *)
OnceAndKept ==
    ~raced =>
        \A c \in Conversations :
            /\ kept[c] \subseteq ToSet(rows[c])
            /\ IsInjective(rows[c])

(* The bounds of the store in memory: what is counted is what is stored, it *)
(* is within the capacity, and what can still be read was not swept early.  *)
WithinCapacity ==
    backend = "memory" =>
        /\ total = MapThenSumSet(LAMBDA c : Weight(rows[c]), Conversations)
        /\ ~Exceeded(Store)
        /\ ToSet(recent) = Stored(Store)
        /\ \A c \in Conversations : keys[c] = ToSet(rows[c])

ConversationsSound == TypeOK /\ OnceAndKept /\ WithinCapacity

(* "Atomically append once; return False for an identical replay." *)
AppendedOnce == \A c \in Conversations : IsInjective(rows[c])
=============================================================================
