--------------------------- MODULE CheckpointStores ---------------------------
(* The checkpoint of one run in the two stores of persistence/checkpoint.py.   *)
(* The in-memory store holds a lock over each operation.  The Redis store      *)
(* keeps the run under one key per schema version and issues one command at a  *)
(* time, so operations of several workers interleave and a worker may die      *)
(* between two commands; a load that finds only an older version copies it     *)
(* forward and leaves the older key for a rollback.  A payload is the number   *)
(* of the save that wrote it.                                                  *)
EXTENDS Naturals, FiniteSets

CONSTANTS Workers,      \* processes using the store
          Nobody,
          Ttl,          \* lifetime of a key, in clock steps
          MaxSaves,     \* bound: saves and imports
          MaxTime       \* bound: the clock

ASSUME StoreBounds == Ttl \in Nat \ {0} /\ MaxSaves \in Nat \ {0} /\ MaxTime \in Nat

Versions == {"v5", "v4", "legacy"}
Missing  == 0

VARIABLES engine,       \* which store: "memory" or "redis"
          alone,        \* the workers take turns: one operation at a time
          slots,        \* Versions -> the payload stored, Missing if none
          gone,         \* Versions -> when the key expires (0: no key)
          clock,
          serial,       \* saves and imports so far
          op,           \* worker -> the operation it is in the middle of
          answer,       \* the last completed load: what it read, and from whom
          loaded,       \* the newest payload a load has returned
          torn          \* a delete died between two of its commands

storeVars == <<engine, alone, slots, gone, clock, serial, op, answer, loaded, torn>>

Quiet == [step |-> "none", seen |-> Missing]

\* A key is there until it expires.
LiveIn(s, g, v) == IF s[v] # Missing /\ g[v] > clock THEN s[v] ELSE Missing
Live(v) == LiveIn(slots, gone, v)

\* What a load looks for: the newest schema first.
FoundIn(s, g) == IF LiveIn(s, g, "v5") # Missing THEN LiveIn(s, g, "v5")
                 ELSE IF LiveIn(s, g, "v4") # Missing THEN LiveIn(s, g, "v4")
                 ELSE LiveIn(s, g, "legacy")
Found == FoundIn(slots, gone)

\* A worker may start unless the workers take turns and another is busy.
MayStart(w) == /\ op[w] = Quiet
               /\ alone => \A x \in Workers : op[x] = Quiet

\* A write renews its key in Redis, and the whole run in the in-memory store.
Put(v, n) == /\ slots' = [slots EXCEPT ![v] = n]
             /\ gone' = [u \in Versions |->
                           IF u = v \/ (engine = "memory" /\ slots[u] # Missing)
                           THEN clock + Ttl ELSE gone[u]]

Answers(w, n) == /\ answer' = [by |-> w, value |-> n, now |-> FoundIn(slots', gone')]
                 /\ loaded' = IF n > loaded THEN n ELSE loaded

StoresInit ==
    /\ engine \in {"memory", "redis"}
    /\ alone \in BOOLEAN
    /\ slots \in {[v \in Versions |-> IF v = u THEN 1 ELSE Missing] : u \in Versions}
                   \cup {[v \in Versions |-> Missing]}
    /\ engine = "memory" => slots["v4"] = Missing
    /\ gone = [v \in Versions |-> IF slots[v] = Missing THEN 0 ELSE Ttl]
    /\ clock = 0
    /\ serial = 1
    /\ op = [w \in Workers |-> Quiet]
    /\ answer = [by |-> Nobody, value |-> Missing, now |-> Missing]
    /\ loaded = Missing
    /\ torn = FALSE

\* save_snapshot: one write of the newest version in either store.
Save(w) == /\ MayStart(w)
           /\ serial < MaxSaves
           /\ serial' = serial + 1
           /\ Put("v5", serial')
           /\ UNCHANGED <<engine, alone, clock, op, answer, loaded, torn>>

\* save_legacy_payload: the in-memory store also drops the newer snapshot and
\* shares one expiry; the Redis store only writes the old key.
Import(w) ==
    /\ MayStart(w)
    /\ serial < MaxSaves
    /\ serial' = serial + 1
    /\ IF engine = "memory"
       THEN /\ slots' = [slots EXCEPT !["legacy"] = serial', !["v5"] = Missing]
            /\ gone' = [gone EXCEPT !["legacy"] = clock + Ttl, !["v5"] = 0]
       ELSE Put("legacy", serial')
    /\ UNCHANGED <<engine, alone, clock, op, answer, loaded, torn>>

\* The in-memory load: migrate if need be, under the lock; an expired run is
\* deleted; the migrated copy keeps the run's expiry.
LoadMemory(w) ==
    /\ engine = "memory"
    /\ MayStart(w)
    /\ slots' = [v \in Versions |-> IF v = "v5" THEN Found ELSE Live(v)]
    /\ gone' = [v \in Versions |-> IF Found = Missing THEN 0
                                   ELSE IF v = "v5" /\ Live(v) = Missing THEN gone["legacy"]
                                   ELSE gone[v]]
    /\ Answers(w, Found)
    /\ UNCHANGED <<engine, alone, clock, serial, op, torn>>

DeleteMemory(w) ==
    /\ engine = "memory"
    /\ MayStart(w)
    /\ slots' = [v \in Versions |-> Missing]
    /\ gone' = [v \in Versions |-> 0]
    /\ loaded' = Missing
    /\ UNCHANGED <<engine, alone, clock, serial, op, answer, torn>>

StartLoad(w) ==
    /\ engine = "redis"
    /\ MayStart(w)
    /\ op' = [op EXCEPT ![w] = [Quiet EXCEPT !.step = "v5"]]
    /\ UNCHANGED <<engine, alone, slots, gone, clock, serial, answer, loaded, torn>>

\* Mutant: the reader of the legacy key skips the key in between.
AfterLegacy(v) == "legacy"

After(v) == IF v = "v5" THEN "v4" ELSE "legacy"

\* One GET: the newest version is the answer, an older one is to be copied
\* forward, and the last miss answers that there is no checkpoint.
Look(w) ==
    /\ op[w].step \in Versions
    /\ LET v == op[w].step
           hit == Live(v) # Missing
       IN /\ op' = [op EXCEPT ![w] =
                      IF hit /\ v # "v5" THEN [step |-> "write", seen |-> Live(v)]
                      ELSE IF hit \/ v = "legacy" THEN Quiet
                      ELSE [Quiet EXCEPT !.step = After(v)]]
          /\ UNCHANGED <<slots, gone>>
          /\ IF (hit /\ v = "v5") \/ (~hit /\ v = "legacy")
             THEN Answers(w, Live(v))
             ELSE UNCHANGED <<answer, loaded>>
    /\ UNCHANGED <<engine, alone, clock, serial, torn>>

CopyForward(w) ==
    /\ op[w].step = "write"
    /\ Put("v5", op[w].seen)
    /\ op' = [op EXCEPT ![w] = [step |-> "verify", seen |-> op[w].seen]]
    /\ UNCHANGED <<engine, alone, clock, serial, answer, loaded, torn>>

\* The read-back must equal what was written, else the load raises.
Verify(w) ==
    /\ op[w].step = "verify"
    /\ op' = [op EXCEPT ![w] = Quiet]
    /\ UNCHANGED <<slots, gone>>
    /\ IF Live("v5") = op[w].seen
       THEN Answers(w, op[w].seen)
       ELSE UNCHANGED <<answer, loaded>>
    /\ UNCHANGED <<engine, alone, clock, serial, torn>>

DeleteStep(v) == IF v = "v5" THEN "delete v4" ELSE "delete legacy"

StartDelete(w) ==
    /\ engine = "redis"
    /\ MayStart(w)
    /\ op' = [op EXCEPT ![w] = [Quiet EXCEPT !.step = "delete v5"]]
    /\ UNCHANGED <<engine, alone, slots, gone, clock, serial, answer, loaded, torn>>

\* Three DELs, newest version first.
DeleteKey(w) ==
    \E v \in Versions :
      /\ op[w].step = (CASE v = "v5" -> "delete v5" [] v = "v4" -> "delete v4"
                         [] v = "legacy" -> "delete legacy")
      /\ slots' = [slots EXCEPT ![v] = Missing]
      /\ gone' = [gone EXCEPT ![v] = 0]
      /\ op' = [op EXCEPT ![w] = IF v = "legacy" THEN Quiet ELSE [Quiet EXCEPT !.step = DeleteStep(v)]]
      /\ loaded' = IF v = "legacy" THEN Missing ELSE loaded
      /\ UNCHANGED <<engine, alone, clock, serial, answer, torn>>

\* The worker dies, or its command fails: what it has done stays done.
Dies(w) ==
    /\ op[w] # Quiet
    /\ op' = [op EXCEPT ![w] = Quiet]
    /\ torn' = (torn \/ op[w].step \in {"delete v4", "delete legacy"})
    /\ UNCHANGED <<engine, alone, slots, gone, clock, serial, answer, loaded>>

Tick == /\ clock < MaxTime
        /\ clock' = clock + 1
        /\ UNCHANGED <<engine, alone, slots, gone, serial, op, answer, loaded, torn>>

StoresNext ==
    \/ \E w \in Workers : \/ Save(w) \/ Import(w) \/ LoadMemory(w) \/ DeleteMemory(w)
                          \/ StartLoad(w) \/ Look(w) \/ CopyForward(w) \/ Verify(w)
                          \/ StartDelete(w) \/ DeleteKey(w) \/ Dies(w)
    \/ Tick

StoresSpec == StoresInit /\ [][StoresNext]_storeVars
----------------------------------------------------------------------------
StoresTypeOK ==
    /\ slots \in [Versions -> 0..MaxSaves]
    /\ gone \in [Versions -> 0..MaxTime + Ttl]
    /\ op \in [Workers -> [step : Versions \cup {"none", "write", "verify", "delete v5",
                                                 "delete v4", "delete legacy"},
                           seen : 0..MaxSaves]]

\* A load that answers with a checkpoint answers with the one the store holds
\* at that moment, migrated or not, whatever the other workers do; while the
\* workers take turns, one that answers with none is right as well.
LoadsAreCurrent == answer.value # Missing \/ alone => answer.now = answer.value

\* While the workers take turns, a copy kept for rollback never comes back in
\* place of a newer checkpoint that was read, although it is older and every
\* key expires by itself.
NothingOlderReturns ==
    alone /\ ~torn /\ (\A w \in Workers : op[w] = Quiet) /\ Found # Missing =>
      Found >= loaded

\* The in-memory store never shows two versions with different lifetimes.
OneLifetime == engine = "memory" => \A u, v \in Versions :
                 slots[u] # Missing /\ slots[v] # Missing => gone[u] = gone[v]

\* What load_snapshot promises over both stores: it answers with the checkpoint
\* of its moment, never goes back behind one that was read, and in memory the
\* versions of a run live and expire together.
StoresSound == StoresTypeOK /\ LoadsAreCurrent /\ NothingOlderReturns /\ OneLifetime
=============================================================================
