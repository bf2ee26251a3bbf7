----------------------------- MODULE PlanRunProofs -----------------------------
(***************************************************************************)
(* Proofs about a run with the plan engine, for any plans, tools, recovery *)
(* configuration and limits, and any number of resumptions.  The engine's  *)
(* state, the last snapshot and the checkpoint hold plans whose committed  *)
(* steps come first; the checkpoint has the progress of the last snapshot, *)
(* and the last snapshot that of the engine but for one call of the policy *)
(* that is about to be saved.                                              *)
(***************************************************************************)
EXTENDS PlanRun, FiniteSetTheorems, WellFoundedInduction, TLAPS

(* What two states of the engine have in common when no progress is between *)
(* them.                                                                    *)
Alike(a, b) ==
    /\ a.plan = b.plan /\ a.done = b.done /\ a.tried = b.tried
    /\ a.replans = b.replans /\ a.version = b.version

(* The committed steps are the first steps of the plan, and the phase fits  *)
(* the steps that are left, their attempts and the answer.                  *)
CommittedFirst(e) ==
    /\ IsInjective(e.plan)
    /\ Cardinality(e.done) \in 0..Len(e.plan)
    /\ e.done = {e.plan[k] : k \in 1..Cardinality(e.done)}

Formed(e) ==
    /\ CommittedFirst(e)
    /\ e.phase \in {"act", "result", "recovery"} => ~Complete(e)
    /\ e.phase \in {"verify", "finalize", "done"} => Complete(e)
    /\ e.phase \in {"finalize", "done"} => Len(e.plan) <= MaxSteps
    /\ e.phase # "failed" => \A s \in Steps : e.tried[s] < MaxStepAttempts
    /\ e.resp # 0 => e.phase \in {"finalize", "done", "failed"}

Sound(e) ==
    /\ Formed(e)
    /\ e.resp <= drafts
    /\ e.persisted => stored # {}

(* Calls that succeeded were of earlier versions of the plan or of steps    *)
(* that are committed; while the result of a step is awaited, they may be   *)
(* of that step.                                                            *)
Strict(e) ==
    \A w \in worked : w[2] <= e.version /\ (w[2] = e.version => w[1] \in e.done)

Fresh(e) ==
    \A w \in worked :
        /\ w[2] <= e.version
        /\ w[2] = e.version => w[1] \in e.done \/ (e.phase = "result" /\ w[1] = Current(e))

(* Nothing has happened yet that a checkpoint would have to keep. *)
Unbegun == worked = {} /\ ~partial /\ stored = {} /\ shown = 0

(* What a checkpoint promises to the process that resumes the run. *)
Durable(d) ==
    /\ d \in [run : RunState, eng : EngineState]
    /\ d.run.init => d.eng.phase # None
    /\ ~d.run.init => Unbegun
    /\ d.run.safety = "resumable" /\ d.eng.phase # "failed" => Fresh(d.eng)
    /\ partial => d.run.safety # "resumable"
    /\ stored # {} => d.eng.phase \in {"finalize", "done"} /\ d.eng.resp \in stored
    /\ shown = 1 => d.eng.phase = "done"
    /\ Sound(d.eng)

DiskIsSound == (\A d, c \in disk : d = c) /\ \A d \in disk : Durable(d)

(* Where the process is, what it asks the model for, and in which phase the *)
(* engine is then.                                                          *)
Asking == pc \in {"reserve", "provider"}

Placed ==
    /\ pc = "idle" => call = None /\ out = None /\ run = FreshRun /\ eng = NoPlan /\ last = NoPlan
    /\ starts = 0 => pc = "idle" /\ disk = {} /\ Unbegun
    /\ Asking => call # None
    /\ Asking /\ call = "plan" => eng = NoPlan
    /\ Asking /\ call \in {"step", "revise"} => eng.phase \in {"act", "result"}
    /\ Asking /\ call = "revise" => eng.replans < MaxReplans
    /\ Asking /\ call = "final" => eng.phase = "finalize" /\ eng.resp = 0
    /\ Asking /\ out # None => call = "revise" /\ eng.phase = "result"
    /\ pc = "save_ask" => call = "step" /\ eng.phase \in {"act", "result"}
    /\ pc = "save_final" => call = "final" /\ eng.phase = "finalize" /\ eng.resp = 0
    /\ pc = "fail" => call \in {None, "revise"} /\ eng.phase # None
    /\ pc \notin {"reserve", "provider", "save_ask", "save_final", "fail"} => call = None
    /\ pc \notin {"reserve", "provider", "fail", "save_outcome", "observe"} => out = None
    /\ pc \in {"save_outcome", "observe"} => out # None
    /\ pc \in {"save_start", "save_begin"} => eng.phase = "prepare"
    /\ pc = "loop" => eng.phase # None
    /\ pc = "decide" => eng.phase \in {"act", "result"}
    /\ pc \in {"intent", "save_intent", "tools", "save_outcome", "observe"} => eng.phase = "result"
    /\ pc = "save" => eng.phase \in {"prepare", "act", "result", "recovery", "verify"}
    /\ pc = "save_repair" => eng.phase = "recovery"
    /\ pc \in {"save_answer", "persist", "save_stored"} => eng.phase = "finalize" /\ eng.resp # 0
    /\ pc \in {"save_emit", "show", "finish"} => eng.phase = "done"

(* What the checkpoint knows of the engine: its progress, but for the last  *)
(* call of the policy; and nothing before the engine has its plan.          *)
Tracked ==
    /\ pc # "idle" => (run.init <=> ~(call = "plan" \/ pc = "save_start"))
    /\ Initializing => Unbegun /\ \A d \in disk : ~d.run.init
    /\ pc # "idle" /\ ~Initializing =>
          /\ Later(last, eng) /\ last.phase # None
          /\ pc \notin {"save", "fail"} => Alike(last, eng)
          /\ \A d \in disk : d.run.init => Alike(d.eng, last)
    /\ pc = "save_begin" => Alike(last, eng)
    /\ pc \in {"reserve", "provider", "decide", "observe"} /\ call # "plan" =>
          last.phase = eng.phase

(* Tools are reached only for steps that no call has succeeded for, and     *)
(* while they run the checkpoint cannot be resumed.                         *)
WorkedOnce ==
    /\ eng.phase \notin {None, "failed"} => Fresh(eng)
    /\ pc \in {"intent", "save_intent", "tools"} => Strict(eng)
    /\ pc \in {"save_outcome", "observe"} /\ out \notin {"ok", "partial"} => Strict(eng)
    /\ pc \in {"save_intent", "tools"} => run.safety = "manual"
    /\ pc = "tools" => \A d \in disk : d.run.init /\ d.run.safety = "manual"

(* After a batch that succeeded in part the process can only fail. *)
PartialEnds ==
    partial =>
        /\ stored = {} /\ shown = 0
        /\ pc \in {"idle", "save_outcome", "observe", "reserve", "provider", "fail"}
        /\ pc # "idle" => run.safety = "manual"
        /\ pc \notin {"idle", "fail"} => out = "partial"

(* What is stored is the answer on record, in memory and on disk. *)
OneAnswer ==
    /\ stored # {} =>
          /\ pc # "idle" => eng.phase \in {"finalize", "done"} /\ eng.resp \in stored /\ pc # "fail"
          /\ \E r \in 1..drafts : stored = {r}
    /\ pc = "persist" \/ (pc = "loop" /\ eng.phase = "finalize") =>
          \A d \in disk : d.run.init /\ d.eng.phase = "finalize" /\ d.eng.resp = eng.resp
    /\ pc \in {"save_stored", "save_emit", "show"} => stored # {}
    /\ pc = "show" => \A d \in disk : d.eng.phase = "done"
    /\ shown <= 1
    /\ shown = 1 =>
          /\ stored # {}
          /\ pc \in {"idle", "loop", "finish"}
          /\ pc # "idle" => eng.phase = "done"

IInv ==
    /\ TypeOK /\ Sound(eng) /\ Sound(last) /\ DiskIsSound
    /\ Placed /\ Tracked /\ WorkedOnce /\ PartialEnds /\ OneAnswer

-----------------------------------------------------------------------------
(* The steps of a plan that are in a set, in the order of the plan. *)
LEMMA LeastNumber ==
    ASSUME NEW T \in SUBSET Nat, T # {}
    PROVE  \E m \in T : \A k \in T : m <= k
<1> DEFINE R == {pair \in Nat \X Nat : pair[1] < pair[2]}
<1>1. IsWellFoundedOn(R, Nat)
  BY NatLessThanWellFounded DEF OpToRel
<1>2. PICK m \in T : \A k \in T : ~(<<k, m>> \in R)
  <2> HIDE DEF R
  <2> QED
    BY <1>1, WFMin
<1>3. \A k \in T : m <= k
  <2> SUFFICES ASSUME NEW k \in T
               PROVE  m <= k
    OBVIOUS
  <2>1. <<k, m>> \in Nat \X Nat /\ <<k, m>>[1] = k /\ <<k, m>>[2] = m
    OBVIOUS
  <2>2. ~(k < m)
    BY <1>2, <2>1
  <2> QED
    BY <2>2
<1> QED
  BY <1>3

Enumerates(at, S) ==
    /\ at \in [1..Cardinality(S) -> S]
    /\ ToSet(at) = S
    /\ \A i, j \in 1..Cardinality(S) : i < j => at[i] < at[j]

LEMMA EnumerationExists ==
    ASSUME NEW n \in Nat, NEW S \in SUBSET (1..n)
    PROVE  \E at : Enumerates(at, S)
<1> DEFINE Bad == {m \in Nat : \E U \in SUBSET (1..m) : \A at : ~Enumerates(at, U)}
<1> SUFFICES ASSUME Bad # {} PROVE FALSE
  OBVIOUS
<1>1. PICK m \in Bad : \A k \in Bad : m <= k
  <2>1. Bad \in SUBSET Nat
    OBVIOUS
  <2> HIDE DEF Bad
  <2> QED
    BY <2>1, LeastNumber
<1>2. PICK U \in SUBSET (1..m) : \A at : ~Enumerates(at, U)
  OBVIOUS
<1>3. m \in Nat /\ IsFiniteSet(1..m) /\ IsFiniteSet(U) /\ Cardinality(U) \in Nat
  <2>1. m \in Nat
    OBVIOUS
  <2>2. IsFiniteSet(1..m)
    BY <2>1, FS_Interval
  <2>3. IsFiniteSet(U)
    BY <2>2, FS_Subset
  <2> QED
    BY <2>1, <2>2, <2>3, FS_CardinalityType
<1>4. CASE m = 0
  <2>1. U = {} /\ Cardinality(U) = 0
    <3>1. 1..m = {}
      BY <1>4
    <3>2. U = {}
      BY <3>1
    <3> QED
      BY <3>2, FS_EmptySet
  <2>2. Enumerates([i \in 1..0 |-> i], U)
    BY <2>1 DEF Enumerates, ToSet
  <2> QED
    BY <1>2, <2>2
<1>5. CASE m # 0
  <2>1. m - 1 \in Nat /\ m - 1 \notin Bad
    <3> HIDE DEF Bad
    <3> QED
      BY <1>1, <1>3, <1>5
  <2>2. CASE m \notin U
    <3>1. U \in SUBSET (1..(m - 1))
      BY <1>3, <2>2
    <3> QED
      BY <1>2, <2>1, <3>1
  <2>3. CASE m \in U
    <3> DEFINE V == U \ {m}
               c == Cardinality(U)
    <3>1. V \in SUBSET (1..(m - 1))
      BY <1>3
    <3>2. PICK f : Enumerates(f, V)
      BY <2>1, <3>1
    <3>3. Cardinality(V) = c - 1 /\ c \in Nat \ {0}
      BY <1>3, <2>3, FS_RemoveElement, FS_EmptySet
    <3> DEFINE at == [i \in 1..c |-> IF i = c THEN m ELSE f[i]]
    <3>4. \A i \in 1..(c - 1) : f[i] \in V /\ at[i] = f[i] /\ f[i] < m
      <4> SUFFICES ASSUME NEW i \in 1..(c - 1)
                   PROVE  f[i] \in V /\ at[i] = f[i] /\ f[i] < m
        OBVIOUS
      <4>1. f[i] \in V
        <5> HIDE DEF V, at
        <5> QED
          BY <3>2, <3>3 DEF Enumerates
      <4>2. f[i] < m
        <5> HIDE DEF V
        <5>1. f[i] \in 1..(m - 1)
          BY <3>1, <4>1
        <5> QED
          BY <1>3, <5>1
      <4>3. i \in 1..c /\ i # c
        <5> HIDE DEF V, c
        <5> QED
          BY <3>3
      <4> QED
        BY <4>1, <4>2, <4>3
    <3>5. at[c] = m
      BY <3>3
    <3>6. at \in [1..c -> U]
      <4>1. \A i \in 1..c : i = c \/ i \in 1..(c - 1)
        <5> HIDE DEF c
        <5> QED
          BY <3>3
      <4>2. \A i \in 1..c : at[i] \in U
        <5> HIDE DEF at
        <5> QED
          BY <2>3, <3>4, <3>5, <4>1
      <4> QED
        BY <4>2
    <3>7. \A i, j \in 1..c : i < j => at[i] < at[j]
      <4> SUFFICES ASSUME NEW i \in 1..c, NEW j \in 1..c, i < j
                   PROVE  at[i] < at[j]
        OBVIOUS
      <4>1. i \in 1..(c - 1)
        BY <3>3
      <4> HIDE DEF at, V
      <4> QED
        BY <3>2, <3>3, <3>4, <3>5, <4>1 DEF Enumerates
    <3>8. ToSet(at) = U
      <4>1. ToSet(at) \subseteq U
        BY <3>6 DEF ToSet
      <4>2. \A u \in V : \E i \in 1..(c - 1) : u = at[i]
        <5> HIDE DEF at, V
        <5> QED
          BY <3>2, <3>3, <3>4 DEF Enumerates, ToSet
      <4>3. \A u \in U : \E i \in 1..c : u = at[i]
        BY <3>3, <3>5, <4>2
      <4> HIDE DEF at
      <4> QED
        BY <3>6, <4>1, <4>3 DEF ToSet
    <3> HIDE DEF at
    <3> QED
      BY <1>2, <3>6, <3>7, <3>8 DEF Enumerates
  <2> QED
    BY <2>2, <2>3
<1> QED
  BY <1>4, <1>5

LEMMA AscendingFacts ==
    ASSUME NEW n \in Nat, NEW S \in SUBSET (1..n)
    PROVE  Enumerates(Ascending(S), S) /\ Cardinality(S) \in Nat
<1>1. \E at \in [1..Cardinality(S) -> S] :
          ToSet(at) = S /\ \A i, j \in 1..Cardinality(S) : i < j => at[i] < at[j]
  BY EnumerationExists DEF Enumerates
<1>2. Cardinality(S) \in Nat
  <2>1. IsFiniteSet(1..n)
    BY FS_Interval
  <2>2. IsFiniteSet(S)
    BY <2>1, FS_Subset
  <2> QED
    BY <2>2, FS_CardinalityType
<1> QED
  BY <1>1, <1>2 DEF Ascending, Enumerates

LEMMA ThoseFacts ==
    ASSUME NEW T, NEW p \in Seq(T), IsInjective(p), NEW S
    PROVE  /\ Those(p, S) \in Seq(T)
           /\ ToSet(Those(p, S)) = ToSet(p) \cap S
           /\ IsInjective(Those(p, S))
<1> DEFINE K == {k \in DOMAIN p : p[k] \in S}
           at == Ascending(K)
           c == Cardinality(K)
<1>1. Len(p) \in Nat /\ DOMAIN p = 1..Len(p) /\ \A k \in 1..Len(p) : p[k] \in T
  OBVIOUS
<1>2. Enumerates(at, K) /\ c \in Nat
  <2>1. K \in SUBSET (1..Len(p))
    BY <1>1
  <2> HIDE DEF K
  <2> QED
    BY <1>1, <2>1, AscendingFacts
<1>3. Those(p, S) = [i \in 1..c |-> p[at[i]]]
  <2>1. DOMAIN at = 1..c
    BY <1>2 DEF Enumerates
  <2> QED
    BY <2>1 DEF Those
<1> HIDE DEF at
<1>4. \A i \in 1..c : at[i] \in DOMAIN p /\ p[at[i]] \in T /\ p[at[i]] \in S /\ at[i] \in 1..Len(p)
  BY <1>1, <1>2 DEF Enumerates
<1>5. Those(p, S) \in Seq(T) /\ DOMAIN Those(p, S) = 1..c
  BY <1>2, <1>3, <1>4
<1>6. ToSet(Those(p, S)) = ToSet(p) \cap S
  <2>1. ToSet(Those(p, S)) \subseteq ToSet(p) \cap S
    BY <1>3, <1>4, <1>5 DEF ToSet
  <2>2. ASSUME NEW k \in DOMAIN p, p[k] \in S
        PROVE  p[k] \in ToSet(Those(p, S))
    <3>1. PICK i \in 1..c : at[i] = k
      BY <1>2, <2>2 DEF Enumerates, ToSet
    <3> QED
      BY <1>3, <1>5, <3>1 DEF ToSet
  <2> QED
    BY <2>1, <2>2 DEF ToSet
<1>7. IsInjective(Those(p, S))
  <2> SUFFICES ASSUME NEW i \in 1..c, NEW j \in 1..c, p[at[i]] = p[at[j]]
               PROVE  i = j
    BY <1>3, <1>5 DEF IsInjective
  <2>1. at[i] = at[j] /\ at[i] \in 1..Len(p) /\ at[j] \in 1..Len(p)
    BY <1>4 DEF IsInjective
  <2>2. i \in Int /\ j \in Int /\ ~(i < j) /\ ~(j < i)
    BY <1>2, <2>1 DEF Enumerates
  <2> QED
    BY <2>2
<1> QED
  BY <1>5, <1>6, <1>7

(* When these steps are the first n of the plan, they are its first n. *)
LEMMA ThosePrefix ==
    ASSUME NEW T, NEW p \in Seq(T), IsInjective(p), NEW n \in 0..Len(p), NEW S,
           S = {p[k] : k \in 1..n}
    PROVE  Len(Those(p, S)) = n /\ \A k \in 1..n : Those(p, S)[k] = p[k]
<1> DEFINE K == {k \in DOMAIN p : p[k] \in S}
           at == Ascending(K)
<1>1. Len(p) \in Nat /\ DOMAIN p = 1..Len(p) /\ n \in Nat /\ n <= Len(p)
  OBVIOUS
<1>2. K = 1..n
  BY <1>1 DEF IsInjective
<1>3. Cardinality(K) = n
  <2>1. Cardinality(1..n) = IF 1 > n THEN 0 ELSE n - 1 + 1
    BY <1>1, FS_Interval
  <2> HIDE DEF K
  <2> QED
    BY <1>1, <1>2, <2>1
<1>4. Enumerates(at, 1..n)
  BY <1>1, <1>2, AscendingFacts
<1>5. /\ at \in [1..n -> 1..n] /\ ToSet(at) = 1..n
      /\ \A i, j \in 1..n : i < j => at[i] < at[j]
  BY <1>2, <1>3, <1>4 DEF Enumerates
<1>6. Those(p, S) = [i \in DOMAIN at |-> p[at[i]]]
  BY DEF Those
<1> HIDE DEF at, K
<1>7. \A k \in 1..n : at[k] = k
  <2> DEFINE Off == {k \in 1..n : at[k] # k}
  <2> SUFFICES ASSUME Off # {}
               PROVE  FALSE
    OBVIOUS
  <2>1. PICK k \in Off : \A j \in Off : k <= j
    <3>1. Off \in SUBSET Nat
      OBVIOUS
    <3> HIDE DEF Off
    <3> QED
      BY <3>1, LeastNumber
  <2>2. k \in 1..n /\ at[k] # k /\ at[k] \in 1..n
    BY <1>5
  <2>3. \A j \in 1..n : j < k => at[j] = j
    BY <2>1, <2>2
  <2>4. PICK j \in 1..n : at[j] = k
    BY <1>5, <2>2 DEF ToSet
  <2>5. j # k /\ k < j
    BY <2>2, <2>3, <2>4
  <2>6. at[k] < k
    BY <1>5, <2>2, <2>4, <2>5
  <2>7. at[at[k]] = at[k]
    BY <2>2, <2>3, <2>6
  <2>8. at[at[k]] < at[k]
    BY <1>5, <2>2, <2>6
  <2> QED
    BY <2>2, <2>7, <2>8
<1>8. Those(p, S) = [k \in 1..n |-> p[k]]
  BY <1>5, <1>6, <1>7
<1>9. DOMAIN Those(p, S) = 1..n /\ \A k \in 1..n : Those(p, S)[k] = p[k]
  BY <1>8
<1>10. Those(p, S) \in Seq(T)
  BY ThoseFacts
<1> QED
  BY <1>1, <1>9, <1>10

-----------------------------------------------------------------------------
(* Plans and progress. *)
LEMMA PlanFacts ==
    ASSUME NEW e \in EngineState, CommittedFirst(e)
    PROVE  /\ Cardinality(e.done) \in Nat /\ Len(e.plan) \in Nat
           /\ Complete(e) <=> Cardinality(e.done) = Len(e.plan)
           /\ IsFiniteSet(e.done)
           /\ ~Complete(e) => /\ Cardinality(e.done) + 1 \in 1..Len(e.plan)
                              /\ Current(e) \in Steps /\ Current(e) \notin e.done
<1> DEFINE c == Cardinality(e.done)
<1>1. /\ e.plan \in Seq(Steps) /\ Len(e.plan) \in Nat /\ DOMAIN e.plan = 1..Len(e.plan)
      /\ c \in Nat /\ c <= Len(e.plan)
  BY DEF EngineState, CommittedFirst
<1>2. IsFiniteSet(e.done)
  <2>1. IsFiniteSet(1..c)
    <3> HIDE DEF c
    <3> QED
      BY <1>1, FS_Interval
  <2> DEFINE f == [k \in 1..c |-> e.plan[k]]
  <2>2. f \in Surjection(1..c, e.done)
    BY DEF Surjection, CommittedFirst
  <2> HIDE DEF f
  <2> QED
    BY <2>1, <2>2, FS_Surjection
<1>3. ASSUME c < Len(e.plan)
      PROVE  /\ c + 1 \in 1..Len(e.plan)
             /\ Current(e) \in Steps /\ Current(e) \notin e.done
             /\ ~Complete(e)
  <2>1. c + 1 \in 1..Len(e.plan)
    BY <1>1, <1>3
  <2>2. e.plan[c + 1] \in Steps
    BY <1>1, <2>1
  <2>3. e.plan[c + 1] \notin e.done
    BY <1>1, <2>1 DEF CommittedFirst, IsInjective
  <2> QED
    BY <1>1, <2>1, <2>2, <2>3 DEF Current, Complete, ToSet
<1>4. c = Len(e.plan) => Complete(e)
  BY <1>1 DEF CommittedFirst, Complete, ToSet
<1> QED
  BY <1>1, <1>2, <1>3, <1>4

LEMMA LaterIsReflexive ==
    ASSUME NEW e \in EngineState, CommittedFirst(e)
    PROVE  Later(e, e)
<1>1. /\ e.plan \in Seq(Steps) /\ Len(e.plan) \in Nat /\ e.tried \in [Steps -> 0..MaxStepAttempts]
      /\ e.replans \in Nat /\ e.version \in Nat /\ ToSet(e.plan) \subseteq Steps
  BY PlanRunAssumption DEF EngineState, ToSet
<1> DEFINE c == Cardinality(e.done)
<1>2. c \in Nat /\ c <= Len(e.plan)
  BY <1>1 DEF CommittedFirst
<1>3. IsPrefix(SubSeq(e.plan, 1, c), e.plan)
  BY <1>1, <1>2 DEF IsPrefix
<1> QED
  BY <1>1, <1>3, PlanRunAssumption DEF Later, Open

(* What keeps the steps of a plan, and takes back no attempt. *)
LEMMA LaterFromPrefix ==
    ASSUME NEW e \in EngineState, CommittedFirst(e), NEW f \in EngineState,
           e.done \subseteq f.done,
           Cardinality(e.done) <= Len(f.plan),
           \A k \in 1..Cardinality(e.done) : f.plan[k] = e.plan[k],
           \A s \in Open(e) \cap ToSet(f.plan) : e.tried[s] <= f.tried[s],
           e.replans <= f.replans, e.version <= f.version
    PROVE  Later(e, f)
<1> DEFINE c == Cardinality(e.done)
           h == SubSeq(e.plan, 1, c)
<1>1. /\ e.plan \in Seq(Steps) /\ Len(e.plan) \in Nat /\ c \in Nat /\ c <= Len(e.plan)
      /\ f.plan \in Seq(Steps) /\ Len(f.plan) \in Nat
  BY DEF EngineState, CommittedFirst
<1>2. Len(h) = c /\ h \in Seq(Steps)
  BY <1>1
<1>3. SubSeq(h, 1, c) = SubSeq(f.plan, 1, c)
  BY <1>1, <1>2
<1>4. IsPrefix(h, f.plan)
  BY <1>1, <1>2, <1>3 DEF IsPrefix
<1> QED
  BY <1>4 DEF Later

LEMMA LaterFacts ==
    ASSUME NEW a \in EngineState, NEW b \in EngineState, NEW c \in EngineState
    PROVE  /\ Alike(a, a)
           /\ Alike(a, b) => Alike(b, a)
           /\ Alike(a, b) /\ Alike(b, c) => Alike(a, c)
           /\ Alike(a, b) /\ Later(b, c) => Later(a, c)
           /\ Later(a, b) /\ Alike(b, c) => Later(a, c)
           /\ Alike(a, b) /\ CommittedFirst(a) => Later(a, b)
<1>1. Later(a, b) /\ Alike(b, c) => Later(a, c)
  BY DEF Later, Alike
<1>2. Alike(a, b) /\ Later(b, c) => Later(a, c)
  BY DEF Later, Alike, Open
<1>3. Alike(a, a)
  BY DEF Alike
<1>4. (Alike(a, b) => Alike(b, a)) /\ (Alike(a, b) /\ Alike(b, c) => Alike(a, c))
  BY DEF Alike
<1>5. ASSUME Alike(a, b), CommittedFirst(a)
      PROVE  Later(a, b)
  <2>1. Later(a, a)
    BY <1>5, LaterIsReflexive
  <2> QED
    BY <1>5, <2>1 DEF Later, Alike
<1> QED
  BY <1>1, <1>2, <1>3, <1>4, <1>5

-----------------------------------------------------------------------------
(* What the policy and the engine do to the engine's state. *)
Phases ==
    {None, "prepare", "act", "result", "recovery", "verify", "finalize", "done", "failed"}

(* Another phase, as far as it fits the steps that are left. *)
LEMMA PhaseFacts ==
    ASSUME NEW e \in EngineState, Formed(e), NEW f \in EngineState, Alike(e, f),
           f.phase # "failed" => e.phase # "failed",
           f.phase \in {"act", "result", "recovery"} => ~Complete(e),
           f.phase \in {"verify", "finalize", "done"} => Complete(e),
           f.phase \in {"finalize", "done"} => Len(e.plan) <= MaxSteps,
           f.resp # 0 => f.phase \in {"finalize", "done", "failed"}
    PROVE  Formed(f)
BY DEF Formed, CommittedFirst, Alike, Complete

LEMMA FailedFacts ==
    ASSUME NEW e \in EngineState, Formed(e)
    PROVE  /\ Failed(e) \in EngineState /\ Formed(Failed(e))
           /\ Alike(e, Failed(e)) /\ Alike(Failed(e), e) /\ Later(e, Failed(e))
           /\ Failed(e).phase = "failed" /\ Failed(e).resp = e.resp
           /\ Failed(e).persisted = e.persisted
<1>1. /\ Failed(e) \in EngineState
      /\ Failed(e).phase = "failed" /\ Failed(e).resp = e.resp
      /\ Failed(e).persisted = e.persisted
      /\ Alike(e, Failed(e))
  BY DEF Failed, EngineState, Alike
<1>2. Formed(Failed(e))
  BY <1>1, PhaseFacts
<1> QED
  BY <1>1, <1>2, LaterFacts DEF Formed

LEMMA PreparedFacts ==
    ASSUME NEW e \in EngineState, Formed(e), e.phase = "prepare", ~Complete(e)
    PROVE  /\ Prepared(e) \in EngineState /\ Formed(Prepared(e))
           /\ Alike(e, Prepared(e)) /\ Later(e, Prepared(e))
           /\ Prepared(e).phase \in {"act", "result"} /\ Prepared(e).resp = e.resp
           /\ Prepared(e).persisted = e.persisted
<1>1. /\ Prepared(e) \in EngineState
      /\ Prepared(e).phase \in {"act", "result"} /\ Prepared(e).resp = e.resp
      /\ Prepared(e).persisted = e.persisted
      /\ Alike(e, Prepared(e))
  BY DEF Prepared, EngineState, Alike
<1>2. Prepared(e).resp = 0
  BY <1>1 DEF Formed
<1>3. Formed(Prepared(e))
  BY <1>1, <1>2, PhaseFacts
<1> QED
  BY <1>1, <1>3, LaterFacts DEF Formed

LEMMA RecoveredFacts ==
    ASSUME NEW e \in EngineState, Formed(e), e.phase = "result", NEW o
    PROVE  /\ Recovered(e, o) \in EngineState /\ Formed(Recovered(e, o))
           /\ Alike(e, Recovered(e, o)) /\ Alike(Recovered(e, o), e) /\ Later(e, Recovered(e, o))
           /\ Recovered(e, o).phase = "result" /\ Recovered(e, o).resp = 0
           /\ Recovered(e, o).persisted = e.persisted
<1>1. /\ Recovered(e, o).phase = e.phase /\ Recovered(e, o).resp = e.resp
      /\ Recovered(e, o).persisted = e.persisted
      /\ Alike(e, Recovered(e, o))
  BY DEF Recovered, EngineState, Alike
<1>2. e.resp = 0 /\ ~Complete(e)
  BY DEF Formed
<1>3. Recovered(e, o) \in EngineState
  <2> DEFINE s == Current(e)
             x == IF Ruling(e, o) = "repair" THEN e.fixes[s] + 1 ELSE e.fixes[s]
  <2>1. s \in Steps /\ e.fixes \in [Steps -> 0..MaxRepairs] /\ MaxRepairs \in Nat
    BY <1>2, PlanFacts, PlanRunAssumption DEF Formed, EngineState
  <2>2. Ruling(e, o) = "repair" => e.fixes[s] < MaxRepairs
    BY DEF Ruling, CanRepair, Fallback
  <2>3. x \in 0..MaxRepairs
    BY <2>1, <2>2
  <2>4. [e.fixes EXCEPT ![s] = x] \in [Steps -> 0..MaxRepairs]
    <3> HIDE DEF x, s
    <3> QED
      BY <2>1, <2>3
  <2>5. Recovered(e, o) = [e EXCEPT !.pend = o # "ok", !.fixes = [e.fixes EXCEPT ![s] = x]]
    BY DEF Recovered
  <2> HIDE DEF x, s
  <2> QED
    BY <2>4, <2>5 DEF EngineState
<1>4. Formed(Recovered(e, o))
  BY <1>1, <1>2, <1>3, PhaseFacts
<1> QED
  BY <1>1, <1>2, <1>3, <1>4, LaterFacts DEF Formed

LEMMA CommittedFacts ==
    ASSUME NEW e \in EngineState, Formed(e), e.phase = "result"
    PROVE  /\ Committed(e) \in EngineState /\ Formed(Committed(e))
           /\ Later(e, Committed(e))
           /\ Committed(e).phase \in {"prepare", "verify"} /\ Committed(e).resp = 0
           /\ Committed(e).persisted = e.persisted
           /\ Committed(e).version = e.version
           /\ Committed(e).done = e.done \cup {Current(e)}
<1> DEFINE c == Committed(e)
           n == Cardinality(e.done)
<1>1. /\ e.resp = 0 /\ ~Complete(e) /\ CommittedFirst(e)
      /\ \A s \in Steps : e.tried[s] < MaxStepAttempts
  BY DEF Formed
<1>2. /\ n \in Nat /\ n + 1 \in 1..Len(e.plan) /\ IsFiniteSet(e.done)
      /\ Current(e) \in Steps /\ Current(e) \notin e.done
  BY <1>1, PlanFacts
<1>3. /\ c.phase \in {"prepare", "verify"} /\ c.resp = 0 /\ c.persisted = e.persisted
      /\ c.version = e.version /\ c.done = e.done \cup {Current(e)} /\ c.plan = e.plan
      /\ c.tried = e.tried /\ c.replans = e.replans
      /\ c.phase = "verify" => ToSet(e.plan) \subseteq e.done \cup {Current(e)}
  BY <1>1 DEF Committed, EngineState, Complete
<1>4. c \in EngineState
  BY <1>2 DEF Committed, EngineState
<1> HIDE DEF c
<1>5. Cardinality(c.done) = n + 1
  BY <1>2, <1>3, FS_AddElement
<1>6. c.done = {c.plan[k] : k \in 1..(n + 1)}
  BY <1>1, <1>2, <1>3 DEF CommittedFirst, Current
<1>7. CommittedFirst(c)
  <2>1. IsInjective(c.plan)
    BY <1>1, <1>3 DEF CommittedFirst
  <2>2. Cardinality(c.done) \in 0..Len(c.plan)
    <3> HIDE DEF n
    <3> QED
      BY <1>2, <1>3, <1>5
  <2> HIDE DEF n
  <2> QED
    BY <1>5, <1>6, <2>1, <2>2 DEF CommittedFirst
<1>8. Formed(c)
  BY <1>1, <1>3, <1>7 DEF Formed, Complete
<1>9. Later(e, c)
  <2>1. \A s \in Open(e) \cap ToSet(c.plan) : e.tried[s] <= c.tried[s]
    BY <1>3, PlanRunAssumption DEF EngineState, Open, ToSet
  <2>2. e.replans <= c.replans /\ e.version <= c.version
    BY <1>3, PlanRunAssumption DEF EngineState
  <2> QED
    BY <1>1, <1>2, <1>3, <1>4, <2>1, <2>2, LaterFromPrefix DEF CommittedFirst
<1> QED
  BY <1>3, <1>4, <1>8, <1>9 DEF c

LEMMA RetriedFacts ==
    ASSUME NEW e \in EngineState, Formed(e), e.phase \in {"act", "result"}
    PROVE  /\ Retried(e) \in EngineState /\ Formed(Retried(e))
           /\ Later(e, Retried(e))
           /\ Retried(e).phase \in {e.phase, "failed"} /\ Retried(e).resp = 0
           /\ Retried(e).persisted = e.persisted
           /\ Retried(e).version = e.version /\ Retried(e).done = e.done
           /\ Retried(e).plan = e.plan
<1> DEFINE s == Current(e)
           r == [e EXCEPT !.tried[s] = @ + 1]
           f == Retried(e)
<1>1. /\ e.resp = 0 /\ ~Complete(e) /\ CommittedFirst(e)
      /\ \A t \in Steps : e.tried[t] < MaxStepAttempts
  BY DEF Formed
<1>2. s \in Steps /\ e.tried \in [Steps -> 0..MaxStepAttempts] /\ MaxStepAttempts \in Nat
  BY <1>1, PlanFacts, PlanRunAssumption DEF EngineState
<1>3. /\ r.tried \in [Steps -> 0..MaxStepAttempts]
      /\ \A t \in Steps : r.tried[t] = IF t = s THEN e.tried[t] + 1 ELSE e.tried[t]
  <2> HIDE DEF s
  <2>1. r.tried = [e.tried EXCEPT ![s] = e.tried[s] + 1]
    BY DEF EngineState
  <2>2. e.tried[s] + 1 \in 0..MaxStepAttempts
    BY <1>1, <1>2
  <2> HIDE DEF r
  <2> QED
    BY <1>2, <2>1, <2>2
<1>4. /\ f.phase \in {e.phase, "failed"} /\ f.resp = 0 /\ f.persisted = e.persisted
      /\ f.version = e.version /\ f.done = e.done /\ f.plan = e.plan /\ f.replans = e.replans
      /\ f.tried = r.tried
      /\ f.phase # "failed" => r.tried[s] < MaxStepAttempts
  BY <1>1, <1>2, <1>3 DEF Retried, Failed, EngineState
<1>5. f \in EngineState
  BY <1>3 DEF Retried, Failed, EngineState
<1> HIDE DEF f, r, s
<1>6. \A t \in Steps : e.tried[t] <= f.tried[t]
  BY <1>2, <1>3, <1>4
<1>7. f.phase # "failed" => \A t \in Steps : f.tried[t] < MaxStepAttempts
  BY <1>1, <1>2, <1>3, <1>4
<1>8. Formed(f)
  BY <1>1, <1>4, <1>7 DEF Formed, CommittedFirst, Complete
<1>9. Later(e, f)
  <2>1. \A t \in Open(e) \cap ToSet(f.plan) : e.tried[t] <= f.tried[t]
    BY <1>4, <1>6 DEF EngineState, Open, ToSet
  <2>2. e.replans <= f.replans /\ e.version <= f.version
    BY <1>4, PlanRunAssumption DEF EngineState
  <2> QED
    BY <1>1, <1>4, <1>5, <2>1, <2>2, LaterFromPrefix DEF CommittedFirst
<1> QED
  BY <1>4, <1>5, <1>8, <1>9 DEF f

(* A revised plan starts with the committed steps of the old one. *)
LEMMA RevisedFacts ==
    ASSUME NEW e \in EngineState, Formed(e), e.phase \in {"act", "result"},
           e.replans < MaxReplans, NEW p \in Plans
    PROVE  /\ Revised(e, p) \in EngineState /\ Formed(Revised(e, p))
           /\ Later(e, Revised(e, p))
           /\ Revised(e, p).phase = "prepare" /\ Revised(e, p).resp = 0
           /\ Revised(e, p).persisted = e.persisted
           /\ Revised(e, p).version = e.version + 1
<1> DEFINE f == Revised(e, p)
           n == Cardinality(e.done)
           a == Those(e.plan, e.done)
           b == Those(p, ToSet(p) \ e.done)
           tried == [s \in Steps |->
                        IF s \in e.done \cup (ToSet(e.plan) \cap ToSet(p)) THEN e.tried[s] ELSE 0]
<1>1. /\ e.resp = 0 /\ ~Complete(e) /\ CommittedFirst(e)
      /\ \A t \in Steps : e.tried[t] < MaxStepAttempts
      /\ e.plan \in Seq(Steps) /\ IsInjective(e.plan)
      /\ e.done = {e.plan[k] : k \in 1..n}
  BY DEF Formed, CommittedFirst, EngineState
<1>2. n \in Nat /\ n \in 0..Len(e.plan)
  BY <1>1, PlanFacts DEF CommittedFirst
<1>3. p \in Seq(Steps) /\ IsInjective(p)
  <2>1. p \in Seq(ToSet(p)) /\ IsInjective(p)
    BY PlanRunAssumption
  <2>2. ToSet(p) \subseteq Steps
    BY DEF Steps
  <2> QED
    BY <2>1, <2>2
<1>4. /\ a \in Seq(Steps) /\ IsInjective(a) /\ ToSet(a) = ToSet(e.plan) \cap e.done
      /\ Len(a) = n /\ \A k \in 1..n : a[k] = e.plan[k]
  <2>1. /\ a \in Seq(Steps) /\ IsInjective(a) /\ ToSet(a) = ToSet(e.plan) \cap e.done
    BY <1>1, ThoseFacts
  <2> HIDE DEF n
  <2>2. Len(a) = n /\ \A k \in 1..n : a[k] = e.plan[k]
    BY <1>1, <1>2, ThosePrefix
  <2> QED
    BY <2>1, <2>2
<1>5. b \in Seq(Steps) /\ IsInjective(b) /\ ToSet(b) = ToSet(p) \ e.done
  BY <1>3, ThoseFacts
<1>6. /\ f.phase = "prepare" /\ f.resp = 0 /\ f.persisted = e.persisted
      /\ f.version = e.version + 1 /\ f.replans = e.replans + 1 /\ f.done = e.done
      /\ f.plan = a \o b /\ f.tried = tried
      /\ f = [e EXCEPT !.plan = a \o b, !.version = e.version + 1, !.replans = e.replans + 1,
                       !.tried = tried, !.pend = FALSE, !.phase = "prepare"]
  BY <1>1 DEF Revised, EngineState
<1>7. f.plan \in Seq(Steps)
  BY <1>4, <1>5, <1>6
<1>8. f.tried \in [Steps -> 0..MaxStepAttempts] /\ \A t \in Steps : f.tried[t] < MaxStepAttempts
  BY <1>1, <1>6, PlanRunAssumption DEF EngineState
<1>9. f \in EngineState
  <2>1. e.replans + 1 \in 0..MaxReplans /\ e.version + 1 \in Nat
    BY PlanRunAssumption DEF EngineState
  <2>2. a \o b \in Seq(Steps) /\ tried \in [Steps -> 0..MaxStepAttempts]
    BY <1>6, <1>7, <1>8
  <2> HIDE DEF f, a, b, n, tried
  <2> QED
    BY <1>6, <2>1, <2>2 DEF EngineState
<1> HIDE DEF f, a, b, n
<1>10. /\ Len(f.plan) = n + Len(b) /\ Len(b) \in Nat
       /\ \A k \in 1..n : f.plan[k] = e.plan[k]
       /\ \A k \in (n + 1)..(n + Len(b)) : f.plan[k] = b[k - n] /\ k - n \in 1..Len(b)
  <2>1. Len(f.plan) = n + Len(b) /\ Len(b) \in Nat
    <3>1. Len(a \o b) = Len(a) + Len(b) /\ Len(b) \in Nat
      BY <1>4, <1>5
    <3>2. f.plan = a \o b /\ Len(a) = n
      BY <1>4, <1>6
    <3> QED
      BY <3>1, <3>2
  <2>2. ASSUME NEW k \in 1..n
        PROVE  f.plan[k] = e.plan[k]
    BY <1>2, <1>4, <1>5, <1>6, <2>1
  <2>3. ASSUME NEW k \in (n + 1)..(n + Len(b))
        PROVE  f.plan[k] = b[k - n] /\ k - n \in 1..Len(b)
    BY <1>2, <1>4, <1>5, <1>6, <2>1
  <2> QED
    BY <2>1, <2>2, <2>3
<1>11. \A k \in 1..Len(b) : b[k] \notin e.done
  BY <1>5 DEF ToSet
<1>12. IsInjective(f.plan)
  <2> SUFFICES ASSUME NEW i \in 1..Len(f.plan), NEW j \in 1..Len(f.plan), f.plan[i] = f.plan[j]
               PROVE  i = j
    BY <1>7 DEF IsInjective
  <2>1. \A k \in 1..Len(f.plan) : k \in 1..n \/ k \in (n + 1)..(n + Len(b))
    BY <1>2, <1>10
  <2>2. \A k \in 1..n : f.plan[k] \in e.done
    BY <1>1, <1>10 DEF n
  <2>3. \A k \in (n + 1)..(n + Len(b)) : f.plan[k] \notin e.done
    BY <1>10, <1>11
  <2>4. CASE i \in 1..n /\ j \in 1..n
    BY <1>1, <1>2, <1>10, <2>4 DEF IsInjective
  <2>5. CASE i \in (n + 1)..(n + Len(b)) /\ j \in (n + 1)..(n + Len(b))
    <3>1. b[i - n] = b[j - n] /\ i - n \in DOMAIN b /\ j - n \in DOMAIN b
      BY <1>5, <1>10, <2>5
    <3> QED
      BY <1>2, <1>5, <3>1 DEF IsInjective
  <2> QED
    BY <2>1, <2>2, <2>3, <2>4, <2>5
<1>13. CommittedFirst(f)
  <2>1. e.done = {f.plan[k] : k \in 1..n}
    BY <1>1, <1>10 DEF n
  <2>2. Cardinality(f.done) = n /\ n \in 0..Len(f.plan)
    BY <1>2, <1>6, <1>10 DEF n
  <2> QED
    BY <1>6, <1>12, <2>1, <2>2 DEF CommittedFirst
<1>14. Formed(f)
  BY <1>6, <1>8, <1>13 DEF Formed
<1>15. Later(e, f)
  <2>1. ToSet(f.plan) \subseteq e.done \cup ToSet(p)
    <3>1. ASSUME NEW k \in 1..Len(f.plan)
          PROVE  f.plan[k] \in e.done \cup ToSet(p)
      <4>1. k \in 1..n \/ k \in (n + 1)..(n + Len(b))
        BY <1>2, <1>10
      <4>2. k \in 1..n => f.plan[k] \in e.done
        BY <1>1, <1>10 DEF n
      <4>3. \A j \in 1..Len(b) : b[j] \in ToSet(p)
        BY <1>5 DEF ToSet
      <4> QED
        BY <1>10, <4>1, <4>2, <4>3
    <3>2. \A s \in ToSet(f.plan) : \E k \in 1..Len(f.plan) : s = f.plan[k]
      BY <1>7 DEF ToSet
    <3> QED
      BY <3>1, <3>2
  <2>2. \A s \in Open(e) \cap ToSet(f.plan) : e.tried[s] <= f.tried[s]
    <3> SUFFICES ASSUME NEW s \in Open(e), s \in ToSet(f.plan)
                 PROVE  e.tried[s] <= f.tried[s]
      OBVIOUS
    <3>1. s \in Steps /\ s \in ToSet(e.plan) \cap ToSet(p)
      <4>1. s \in ToSet(e.plan) /\ s \notin e.done
        BY DEF Open
      <4>2. ToSet(e.plan) \subseteq Steps
        BY <1>1 DEF ToSet
      <4> QED
        BY <2>1, <4>1, <4>2
    <3>2. f.tried[s] = e.tried[s] /\ e.tried[s] \in Nat
      BY <1>6, <3>1, PlanRunAssumption DEF EngineState
    <3> QED
      BY <3>2
  <2>3. e.replans <= f.replans /\ e.version <= f.version
    BY <1>6, PlanRunAssumption DEF EngineState
  <2>4. \A k \in 1..Cardinality(e.done) : f.plan[k] = e.plan[k]
    BY <1>10 DEF n
  <2>5. Cardinality(e.done) <= Len(f.plan)
    BY <1>2, <1>10 DEF n
  <2>6. e.done \subseteq f.done
    BY <1>6
  <2> QED
    BY <1>1, <1>9, <2>2, <2>3, <2>4, <2>5, <2>6, LaterFromPrefix
<1> QED
  BY <1>6, <1>9, <1>14, <1>15 DEF f

LEMMA NoPlanFacts ==
    /\ NoPlan \in EngineState /\ Formed(NoPlan)
    /\ NoPlan.phase = None /\ NoPlan.resp = 0 /\ NoPlan.persisted = FALSE
    /\ NoPlan.replans = 0 /\ NoPlan.plan = <<>>
<1>1. NoPlan \in EngineState
  BY PlanRunAssumption DEF NoPlan, EngineState
<1>2. /\ NoPlan.phase = None /\ NoPlan.resp = 0 /\ NoPlan.persisted = FALSE
      /\ NoPlan.replans = 0 /\ NoPlan.plan = <<>> /\ NoPlan.done = {}
      /\ \A s \in Steps : NoPlan.tried[s] = 0
  BY DEF NoPlan
<1>3. CommittedFirst(NoPlan)
  <2>1. Cardinality(NoPlan.done) = 0
    BY <1>2, FS_EmptySet
  <2>2. 1..0 = {} /\ Len(<<>>) = 0 /\ DOMAIN <<>> = {}
    OBVIOUS
  <2> QED
    BY <1>2, <2>1, <2>2 DEF CommittedFirst, IsInjective
<1>4. Formed(NoPlan)
  BY <1>2, <1>3, PlanRunAssumption DEF Formed, None
<1> QED
  BY <1>1, <1>2, <1>4

LEMMA BegunFacts ==
    ASSUME NEW p \in Plans
    PROVE  /\ Begun(p) \in EngineState /\ Formed(Begun(p))
           /\ Begun(p).phase = "prepare" /\ Begun(p).resp = 0 /\ Begun(p).persisted = FALSE
<1>1. p \in Seq(Steps) /\ IsInjective(p)
  <2>1. p \in Seq(ToSet(p)) /\ IsInjective(p)
    BY PlanRunAssumption
  <2>2. ToSet(p) \subseteq Steps
    BY DEF Steps
  <2> QED
    BY <2>1, <2>2
<1>2. Begun(p) \in EngineState
  BY <1>1, NoPlanFacts DEF Begun, EngineState
<1>3. /\ Begun(p).phase = "prepare" /\ Begun(p).resp = 0 /\ Begun(p).persisted = FALSE
      /\ Begun(p).plan = p /\ Begun(p).done = {} /\ \A s \in Steps : Begun(p).tried[s] = 0
  BY DEF Begun, NoPlan
<1>4. CommittedFirst(Begun(p))
  <2>1. Cardinality(Begun(p).done) = 0
    BY <1>3, FS_EmptySet
  <2>2. 1..0 = {} /\ Len(p) \in Nat
    BY <1>1
  <2> QED
    BY <1>1, <1>3, <2>1, <2>2 DEF CommittedFirst
<1>5. Formed(Begun(p))
  BY <1>3, <1>4, PlanRunAssumption DEF Formed
<1> QED
  BY <1>2, <1>3, <1>5

(* What successful batches say of an engine state that goes on. *)
LEMMA FreshFacts ==
    ASSUME NEW e, NEW f, f.version = e.version, e.done \subseteq f.done
    PROVE  /\ Strict(e) => Strict(f) /\ Fresh(f)
           /\ Fresh(e) /\ e.phase # "result" => Strict(f) /\ Fresh(f)
           /\ Fresh(e) /\ f.phase = "result" /\ Current(f) = Current(e) => Fresh(f)
           /\ Fresh(e) /\ Current(e) \in f.done => Strict(f) /\ Fresh(f)
BY DEF Strict, Fresh

-----------------------------------------------------------------------------
(* The invariant: at the start, while the process works on its memory, and  *)
(* when it leaves.                                                          *)
LEMMA Types ==
    ASSUME IInv
    PROVE  /\ eng \in EngineState /\ Formed(eng) /\ CommittedFirst(eng)
           /\ last \in EngineState /\ Formed(last) /\ CommittedFirst(last)
           /\ run \in RunState /\ drafts \in Nat /\ worked \subseteq Steps \X Nat
           /\ eng.resp \in Nat /\ eng.version \in Nat
           /\ \A d \in disk : d.eng \in EngineState /\ d.run \in RunState /\ Formed(d.eng)
BY DEF IInv, TypeOK, Sound, DiskIsSound, Durable, EngineState, Formed

LEMMA InitInvariant ==
    ASSUME Init
    PROVE  IInv
<1>1. FreshRun \in RunState
  BY PlanRunAssumption DEF FreshRun, RunState
<1>2. TypeOK
  <2>1. /\ mode \in Modes /\ pc \in {"idle"} \cup Labels
        /\ call \in {None, "plan", "step", "revise", "final"}
        /\ out \in {None} \cup Outcomes
    BY DEF Init
  <2>2. run \in RunState /\ eng \in EngineState /\ last \in EngineState
    BY <1>1, NoPlanFacts DEF Init
  <2>3. partial \in BOOLEAN /\ broken \in BOOLEAN
    BY Zenon DEF Init
  <2>4. /\ drafts \in Nat /\ stored \subseteq 1..drafts /\ shown \in Nat
        /\ starts \in 0..(MaxResumes + 1)
    BY PlanRunAssumption DEF Init
  <2> QED
    BY <2>1, <2>2, <2>3, <2>4 DEF Init, TypeOK
<1>3. Sound(eng) /\ Sound(last)
  BY NoPlanFacts DEF Init, Sound
<1>4. DiskIsSound
  BY DEF Init, DiskIsSound
<1>5. Placed /\ Tracked
  BY NoPlanFacts DEF Init, Placed, Tracked, Asking, Unbegun, Initializing, None
<1>6. WorkedOnce /\ PartialEnds /\ OneAnswer
  BY NoPlanFacts DEF Init, WorkedOnce, PartialEnds, OneAnswer, None
<1> QED
  BY <1>2, <1>3, <1>4, <1>5, <1>6 DEF IInv

LEMMA DiskStays ==
    ASSUME IInv, UNCHANGED <<disk, worked, partial, stored, shown>>, drafts' \in Nat, drafts <= drafts'
    PROVE  DiskIsSound'
<1>1. ASSUME NEW d \in disk
      PROVE  Durable(d)'
  <2>1. Durable(d) /\ d.eng.resp \in Nat
    BY Types DEF IInv, DiskIsSound, EngineState
  <2>2. Sound(d.eng)'
    BY <2>1, Types DEF Durable, Sound
  <2> QED
    BY <2>1, <2>2 DEF Durable, Unbegun, Fresh
<1> QED
  BY <1>1 DEF IInv, DiskIsSound

(* A step of the engine that writes nothing. *)
LEMMA MoveInvariant ==
    ASSUME IInv, UNCHANGED <<disk, mode, worked, partial, drafts, stored, shown, last, starts>>,
           pc \in Labels, ~Initializing, pc \notin {"save", "fail"},
           pc' \in Labels \ {"save_start", "save_begin", "show", "tools"}, broken' \in BOOLEAN,
           call' \in {None, "step", "revise", "final"}, out' \in {None} \cup Outcomes,
           run' \in RunState, run'.init = run.init,
           eng' \in EngineState, Formed(eng'), eng'.resp = eng.resp,
           eng'.persisted = eng.persisted, Placed',
           Later(eng, eng'), pc' \notin {"save", "fail"} => Alike(eng, eng'),
           pc' \in {"reserve", "provider", "decide", "observe"} => last.phase = eng'.phase,
           eng'.phase # "failed" => Fresh(eng'),
           pc' \in {"intent", "save_intent"} => Strict(eng'),
           pc' \in {"save_outcome", "observe"} /\ out' \notin {"ok", "partial"} => Strict(eng'),
           pc' = "save_intent" => run'.safety = "manual",
           partial => /\ pc' \in {"observe", "reserve", "provider", "fail"}
                      /\ run'.safety = "manual"
                      /\ pc' # "fail" => out' = "partial",
           stored # {} => eng'.phase \in {"finalize", "done"} /\ pc' # "fail",
           shown = 1 => eng'.phase = "done" /\ pc' \in {"loop", "finish"},
           pc' = "persist" \/ (pc' = "loop" /\ eng'.phase = "finalize") =>
               \A d \in disk : d.run.init /\ d.eng.phase = "finalize" /\ d.eng.resp = eng.resp,
           pc' \in {"save_stored", "save_emit"} => stored # {}
    PROVE  IInv'
<1>1. pc # "idle" /\ pc' # "idle"
  BY DEF Labels, SaveLabels
<1>2. run.init /\ Alike(last, eng) /\ Later(last, eng) /\ last.phase # None
  BY <1>1 DEF IInv, Tracked, Initializing
<1>3. TypeOK'
  BY <1>1 DEF IInv, TypeOK
<1>4. Sound(eng)' /\ Sound(last)'
  BY DEF IInv, Sound
<1>5. DiskIsSound'
  BY Types, DiskStays
<1>6. Tracked'
  <2>1. ~Initializing' /\ call' # "plan" /\ pc' \notin {"save_start", "save_begin"}
    BY DEF Initializing, None
  <2>2. Later(last, eng')
    BY <1>2, Types, LaterFacts
  <2>3. pc' \notin {"save", "fail"} => Alike(last, eng')
    BY <1>2, Types, LaterFacts
  <2>4. \A d \in disk : d.run.init => Alike(d.eng, last)
    BY <1>1 DEF IInv, Tracked
  <2> QED
    BY <1>1, <1>2, <2>1, <2>2, <2>3, <2>4 DEF Tracked
<1>7. WorkedOnce'
  BY DEF WorkedOnce, Fresh, Strict
<1>8. PartialEnds'
  BY <1>1 DEF IInv, PartialEnds
<1>9. OneAnswer'
  BY <1>1 DEF IInv, OneAnswer
<1> QED
  BY <1>3, <1>4, <1>5, <1>6, <1>7, <1>8, <1>9 DEF IInv

(* What the process has in memory can be saved at any time. *)
LEMMA MemoryIsDurable ==
    ASSUME IInv, pc # "idle", ~Initializing
    PROVE  Durable([run |-> run, eng |-> eng])
<1>1. run.init /\ eng.phase # None
  <2>1. run.init
    BY DEF IInv, Tracked, Initializing
  <2>2. call # "plan" /\ pc \notin {"save_start", "save_begin"} /\ pc \in Labels
    BY DEF IInv, TypeOK, Initializing
  <2>3. Asking => call \in {"step", "revise", "final"}
    BY <2>2 DEF IInv, TypeOK, Placed
  <2>4. Asking => eng.phase # None
    BY <2>3 DEF IInv, Placed, None
  <2>5. ~Asking => eng.phase # None
    BY <2>2 DEF IInv, Placed, Labels, SaveLabels, Asking, None
  <2> QED
    BY <2>1, <2>4, <2>5
<1>2. eng.phase # "failed" => Fresh(eng)
  BY <1>1 DEF IInv, WorkedOnce
<1>3. partial => run.safety # "resumable"
  BY DEF IInv, PartialEnds
<1>4. /\ stored # {} => eng.phase \in {"finalize", "done"} /\ eng.resp \in stored
      /\ shown = 1 => eng.phase = "done"
  BY DEF IInv, OneAnswer
<1> QED
  BY <1>1, <1>2, <1>3, <1>4, Types DEF IInv, Durable

(* The process forgets the run, after a last write or none. *)
LEMMA LeaveInvariant ==
    ASSUME IInv, Leave, pc # "idle", UNCHANGED <<mode, partial, broken, drafts, shown, starts>>,
           worked' \subseteq Steps \X Nat, stored' \subseteq 1..drafts,
           DiskIsSound', stored \subseteq stored',
           stored' # stored => stored' = stored \cup {eng.resp} /\ pc = "persist"
    PROVE  IInv'
<1>1. FreshRun \in RunState
  BY PlanRunAssumption DEF FreshRun, RunState
<1>2. /\ pc' = "idle" /\ call' = None /\ out' = None /\ run' = FreshRun
      /\ eng' = NoPlan /\ last' = NoPlan
  BY DEF Leave
<1>3. TypeOK'
  <2>1. \A d \in disk' : d \in [run : RunState, eng : EngineState]
    BY DEF DiskIsSound, Durable
  <2> QED
    BY <1>1, <1>2, <2>1, NoPlanFacts DEF IInv, TypeOK
<1>4. Sound(eng)' /\ Sound(last)'
  BY <1>2, NoPlanFacts, Types DEF Sound
<1>5. Placed' /\ Tracked'
  BY <1>2 DEF IInv, Placed, Tracked, Asking, Initializing, None
<1>6. WorkedOnce' /\ PartialEnds'
  BY <1>2, NoPlanFacts DEF IInv, WorkedOnce, PartialEnds
<1>7. OneAnswer'
  <2>1. stored' # {} => \E r \in 1..drafts : stored' = {r}
    BY DEF IInv, OneAnswer
  <2> QED
    BY <1>2, <2>1 DEF IInv, OneAnswer
<1> QED
  BY <1>3, <1>4, <1>5, <1>6, <1>7 DEF IInv

-----------------------------------------------------------------------------
(* The engine's loop. *)
LEMMA EndOfRunInvariant ==
    ASSUME IInv, EndOfRun
    PROVE  IInv'
<1>1. /\ pc = "loop" /\ pc \in Labels /\ ~Initializing /\ call = None /\ out = None
      /\ run \in RunState /\ broken \in BOOLEAN /\ ~partial /\ eng.phase # None
  BY DEF EndOfRun, IInv, TypeOK, Placed, Tracked, PartialEnds, Initializing, Labels, SaveLabels, None
<1>2. UNCHANGED <<disk, mode, history, call, out, run, last, starts>>
  BY DEF EndOfRun
<1>3. CASE TooLong /\ Move(Failed(eng), "fail")
  <2>1. eng' = Failed(eng) /\ pc' = "fail"
    BY <1>3 DEF Move, Goto
  <2>2. eng.phase \notin {"finalize", "done"}
    BY <1>3, Types, PlanFacts, PlanRunAssumption DEF TooLong, Formed
  <2>3. stored = {} /\ shown # 1
    BY <1>1, <2>2 DEF IInv, OneAnswer
  <2>4. Placed'
    BY <1>1, <1>2, <2>1, Types, FailedFacts DEF IInv, Placed, Asking, None
  <2> QED
    BY <1>1, <1>2, <2>1, <2>3, <2>4, Types, FailedFacts, MoveInvariant
       DEF history, Labels, SaveLabels
<1>4. CASE ~TooLong /\ eng.phase = "failed" /\ Move(eng, "fail")
  <2>1. eng' = eng /\ pc' = "fail"
    BY <1>4 DEF Move, Goto
  <2>2. stored = {} /\ shown # 1
    BY <1>1, <1>4 DEF IInv, OneAnswer
  <2>3. Placed'
    BY <1>1, <1>2, <2>1 DEF IInv, Placed, Asking, None
  <2> QED
    BY <1>1, <1>2, <1>4, <2>1, <2>2, <2>3, Types, LaterFacts, LaterIsReflexive, MoveInvariant
       DEF history, Labels, SaveLabels
<1>5. CASE ~TooLong /\ eng.phase = "done" /\ Move(eng, "finish")
  <2>1. eng' = eng /\ pc' = "finish"
    BY <1>5 DEF Move, Goto
  <2>2. Placed'
    BY <1>1, <1>2, <1>5, <2>1 DEF IInv, Placed, Asking, None
  <2>3. Fresh(eng)
    BY <1>5 DEF IInv, WorkedOnce, None
  <2> QED
    BY <1>1, <1>2, <1>5, <2>1, <2>2, <2>3, Types, LaterFacts, LaterIsReflexive, MoveInvariant
       DEF history, Labels, SaveLabels
<1> QED
  BY <1>3, <1>4, <1>5 DEF EndOfRun

LEMMA RephasedFacts ==
    ASSUME NEW e \in EngineState, NEW x \in Phases
    PROVE  LET f == [e EXCEPT !.phase = x]
           IN  /\ f \in EngineState /\ Alike(e, f)
               /\ f.phase = x /\ f.resp = e.resp /\ f.persisted = e.persisted
               /\ Current(f) = Current(e) /\ f.version = e.version /\ f.done = e.done
BY DEF EngineState, Alike, Phases, Current

LEMMA AlikeFacts ==
    ASSUME NEW e \in EngineState, Formed(e), NEW f \in EngineState, Alike(e, f)
    PROVE  /\ Later(e, f) /\ f.version = e.version /\ f.done = e.done
           /\ Current(f) = Current(e)
BY LaterFacts DEF Formed, Alike, Current

(* Before the finalization there is no answer. *)
LEMMA Unanswered ==
    ASSUME IInv, pc # "idle", eng.phase \notin {"finalize", "done"}
    PROVE  stored = {} /\ shown = 0
BY DEF IInv, OneAnswer, TypeOK

LEMMA PrepareInvariant ==
    ASSUME IInv, Prepare
    PROVE  IInv'
<1>1. /\ pc = "loop" /\ pc \in Labels /\ ~Initializing /\ call = None /\ out = None
      /\ run \in RunState /\ broken \in BOOLEAN /\ ~partial
      /\ UNCHANGED <<disk, mode, history, call, out, run, last, starts>>
      /\ eng.phase \in {"prepare", "recovery"}
  BY DEF Prepare, IInv, TypeOK, Placed, Tracked, PartialEnds, Initializing, Labels, SaveLabels, None
<1>2. stored = {} /\ shown = 0 /\ Fresh(eng)
  BY <1>1, Unanswered DEF IInv, WorkedOnce, None
<1>3. CASE eng.phase = "prepare" /\ ~Complete(eng) /\ Move(Prepared(eng), "save")
  <2>1. eng' = Prepared(eng) /\ pc' = "save"
    BY <1>3 DEF Move, Goto
  <2>2. /\ eng' \in EngineState /\ Formed(eng') /\ Alike(eng, eng') /\ Later(eng, eng')
        /\ eng'.phase \in {"act", "result"} /\ eng'.resp = eng.resp
        /\ eng'.persisted = eng.persisted
    BY <1>3, <2>1, Types, PreparedFacts
  <2>3. Placed'
    BY <1>1, <2>1, <2>2 DEF IInv, Placed, Asking, None
  <2>4. Fresh(eng')
    BY <1>2, <1>3, <2>2, Types, AlikeFacts, FreshFacts
  <2> QED
    BY <1>1, <1>2, <2>1, <2>2, <2>3, <2>4, MoveInvariant DEF history, Labels, SaveLabels
<1>4. CASE eng.phase = "recovery" /\ Move(eng, "save_repair")
  <2>1. eng' = eng /\ pc' = "save_repair"
    BY <1>4 DEF Move, Goto
  <2>2. Placed'
    BY <1>1, <1>4, <2>1 DEF IInv, Placed, Asking, None
  <2> QED
    BY <1>1, <1>2, <2>1, <2>2, Types, LaterFacts, LaterIsReflexive, MoveInvariant
       DEF history, Labels, SaveLabels
<1> QED
  BY <1>3, <1>4 DEF Prepare

LEMMA AskInvariant ==
    ASSUME IInv, Ask
    PROVE  IInv'
<1>1. /\ pc = "loop" /\ pc \in Labels /\ ~Initializing /\ call = None /\ out = None
      /\ run \in RunState /\ broken \in BOOLEAN /\ ~partial
      /\ UNCHANGED <<disk, mode, history, out, run, eng, last, starts>>
      /\ eng.phase \in {"act", "result"} /\ call' = "step" /\ pc' = "save_ask"
  BY DEF Ask, Goto, IInv, TypeOK, Placed, Tracked, PartialEnds, Initializing, Labels, SaveLabels, None
<1>2. stored = {} /\ shown = 0 /\ Fresh(eng)
  BY <1>1, Unanswered DEF IInv, WorkedOnce, None
<1>3. Placed'
  BY <1>1 DEF IInv, Placed, Asking, None
<1> QED
  BY <1>1, <1>2, <1>3, Types, LaterFacts, LaterIsReflexive, MoveInvariant
     DEF history, Labels, SaveLabels

LEMMA RespondInvariant ==
    ASSUME IInv, Respond
    PROVE  IInv'
<1>1. /\ pc = "provider" /\ pc \in Labels /\ ~Initializing /\ call = "step" /\ out = None
      /\ run \in RunState /\ broken \in BOOLEAN /\ ~partial
      /\ UNCHANGED <<disk, mode, history, out, run, eng, last, starts>>
      /\ eng.phase \in {"act", "result"} /\ call' = None /\ pc' = "decide"
      /\ last.phase = eng.phase
  BY DEF Respond, Goto, IInv, TypeOK, Placed, Asking, Tracked, PartialEnds, Initializing, Labels,
         SaveLabels, None
<1>2. stored = {} /\ shown = 0 /\ Fresh(eng)
  BY <1>1, Unanswered DEF IInv, WorkedOnce, None
<1>3. Placed'
  BY <1>1 DEF IInv, Placed, Asking, None
<1> QED
  BY <1>1, <1>2, <1>3, Types, LaterFacts, LaterIsReflexive, MoveInvariant
     DEF history, Labels, SaveLabels

-----------------------------------------------------------------------------
(* The policy's decisions. *)
LEMMA Deciding ==
    ASSUME IInv, pc = "decide"
    PROVE  /\ pc \in Labels /\ ~Initializing /\ call = None /\ out = None
           /\ run \in RunState /\ broken \in BOOLEAN /\ ~partial
           /\ eng.phase \in {"act", "result"} /\ last.phase = eng.phase
           /\ stored = {} /\ shown = 0
           /\ Fresh(eng) /\ (eng.phase = "act" => Strict(eng))
<1>1. /\ pc \in Labels /\ ~Initializing /\ call = None /\ out = None
      /\ run \in RunState /\ broken \in BOOLEAN /\ ~partial
      /\ eng.phase \in {"act", "result"} /\ last.phase = eng.phase
  BY DEF IInv, TypeOK, Placed, Tracked, PartialEnds, Initializing, Labels, SaveLabels, None
<1>2. stored = {} /\ shown = 0
  BY <1>1, Unanswered
<1>3. Fresh(eng)
  BY <1>1 DEF IInv, WorkedOnce, None
<1> QED
  BY <1>1, <1>2, <1>3, FreshFacts

(* The policy asks for a new plan, or has had its replans. *)
LEMMA ReplanInvariant ==
    ASSUME IInv, Replan, Quiet, pc \in {"decide", "observe"}
    PROVE  IInv'
<1>1. /\ pc \in Labels /\ ~Initializing /\ call = None /\ out \in {None} \cup Outcomes
      /\ pc = "decide" => out = None
      /\ run \in RunState /\ broken \in BOOLEAN
      /\ partial => run.safety = "manual" /\ out = "partial"
      /\ eng.phase \in {"act", "result"} /\ last.phase = eng.phase
      /\ pc = "observe" => eng.phase = "result"
  BY DEF IInv, TypeOK, Placed, Tracked, PartialEnds, Initializing, Labels, SaveLabels, None
<1>2. stored = {} /\ shown = 0 /\ Fresh(eng)
  BY <1>1, Unanswered DEF IInv, WorkedOnce, None
<1>3. UNCHANGED <<disk, mode, history, run, last, starts>>
  BY DEF Quiet
<1>4. CASE eng.replans < MaxReplans
  <2>1. call' = "revise" /\ pc' = "reserve" /\ eng' = eng /\ out' = out
    BY <1>4 DEF Replan, Goto
  <2>2. Placed'
    BY <1>1, <1>3, <1>4, <2>1 DEF IInv, Placed, Asking, None
  <2> QED
    BY <1>1, <1>2, <1>3, <2>1, <2>2, Types, LaterFacts, LaterIsReflexive, MoveInvariant
       DEF history, Labels, SaveLabels
<1>5. CASE ~(eng.replans < MaxReplans)
  <2>1. call' = None /\ pc' = "fail" /\ eng' = Failed(eng) /\ out' = None
    BY <1>5 DEF Replan, Move, Goto
  <2>2. Placed'
    BY <1>1, <1>3, <2>1, Types, FailedFacts DEF IInv, Placed, Asking, None
  <2> QED
    BY <1>1, <1>2, <1>3, <2>1, <2>2, Types, FailedFacts, MoveInvariant
       DEF history, Labels, SaveLabels
<1> QED
  BY <1>4, <1>5

(* The step is failed, or raises without a change. *)
LEMMA FailingInvariant ==
    ASSUME IInv, pc = "decide", pc' = "fail", UNCHANGED <<disk, mode, history, call, out, last, starts>>,
           run' = run,
           eng' \in EngineState, Formed(eng'), Later(eng, eng'), eng'.resp = eng.resp,
           eng'.persisted = eng.persisted, eng'.phase = "failed" \/ eng' = eng
    PROVE  IInv'
<1>1. Placed'
  BY Deciding DEF IInv, Placed, Asking, None
<1> QED
  BY <1>1, Deciding, MoveInvariant DEF history, Labels, SaveLabels

LEMMA GiveUpRepairInvariant ==
    ASSUME IInv, GiveUpRepair
    PROVE  IInv'
<1>1. pc = "decide" /\ Quiet
  BY DEF GiveUpRepair
<1>2. CASE mode = "replan"
  BY <1>1, <1>2, ReplanInvariant DEF GiveUpRepair
<1>3. CASE mode # "replan"
  <2>1. /\ pc' = "fail" /\ eng' \in {eng, Failed(eng)}
        /\ UNCHANGED <<disk, mode, history, call, out, run, last, starts>>
    BY <1>1, <1>3 DEF GiveUpRepair, Move, Goto, Quiet
  <2> QED
    BY <1>1, <2>1, Types, FailedFacts, LaterIsReflexive, FailingInvariant
<1> QED
  BY <1>2, <1>3

LEMMA RetryInvariant ==
    ASSUME IInv, Retry
    PROVE  IInv'
<1>1. /\ pc = "decide" /\ eng' = Retried(eng)
      /\ pc' = IF Retried(eng).phase = "failed" THEN "fail" ELSE "save"
      /\ UNCHANGED <<disk, mode, history, call, out, run, last, starts>>
  BY DEF Retry, Move, Goto, Quiet
<1>2. /\ eng' \in EngineState /\ Formed(eng') /\ Later(eng, eng')
      /\ eng'.phase \in {eng.phase, "failed"} /\ eng'.resp = eng.resp
      /\ eng'.persisted = eng.persisted /\ eng'.version = eng.version /\ eng'.done = eng.done
      /\ Current(eng') = Current(eng)
  BY <1>1, Types, Deciding, RetriedFacts DEF Current, Formed
<1>3. CASE eng'.phase = "failed"
  BY <1>1, <1>2, <1>3, FailingInvariant
<1>4. CASE eng'.phase # "failed"
  <2>1. pc' = "save" /\ eng'.phase \in {"act", "result"}
    BY <1>1, <1>2, <1>4, Deciding
  <2>2. Placed'
    BY <1>1, <2>1, Deciding DEF IInv, Placed, Asking, None
  <2>3. Fresh(eng')
    <3>1. Fresh(eng) /\ eng'.phase = eng.phase
      BY <1>1, <1>2, <1>4, Deciding
    <3> QED
      BY <1>2, <3>1 DEF Fresh
  <2> QED
    BY <1>1, <1>2, <2>1, <2>2, <2>3, Deciding, MoveInvariant DEF history, Labels, SaveLabels
<1> QED
  BY <1>3, <1>4

LEMMA AskResultInvariant ==
    ASSUME IInv, AskResult
    PROVE  IInv'
<1>1. /\ pc = "decide" /\ eng' = [eng EXCEPT !.phase = "result"] /\ pc' = "save"
      /\ eng.phase = "act"
      /\ UNCHANGED <<disk, mode, history, call, out, run, last, starts>>
  BY DEF AskResult, Move, Goto, Quiet
<1>2. /\ eng' \in EngineState /\ Alike(eng, eng') /\ eng'.phase = "result"
      /\ eng'.resp = eng.resp /\ eng'.persisted = eng.persisted
  BY <1>1, Types, RephasedFacts DEF Phases
<1>3. Formed(eng') /\ Later(eng, eng')
  BY <1>1, <1>2, Types, PhaseFacts, AlikeFacts DEF Formed
<1>4. Placed'
  BY <1>1, <1>2, Deciding DEF IInv, Placed, Asking, None
<1>5. Fresh(eng')
  <2>1. eng'.version = eng.version /\ eng'.done = eng.done
    BY <1>2 DEF Alike
  <2>2. Strict(eng)
    BY <1>1, Deciding
  <2> QED
    BY <2>1, <2>2, FreshFacts
<1> QED
  BY <1>1, <1>2, <1>3, <1>4, <1>5, Deciding, MoveInvariant DEF history, Labels, SaveLabels

LEMMA CallToolsInvariant ==
    ASSUME IInv, CallTools
    PROVE  IInv'
<1>1. /\ pc = "decide" /\ eng.phase = "act"
      /\ UNCHANGED <<disk, mode, history, call, out, last, starts>>
  BY DEF CallTools
<1>2. CASE run.tools < MaxToolCalls
  <2>1. /\ run' = [run EXCEPT !.tools = @ + 1] /\ pc' = "intent"
        /\ eng' = [eng EXCEPT !.phase = "result"]
    BY <1>2 DEF CallTools, Move, Goto
  <2>2. /\ eng' \in EngineState /\ Alike(eng, eng') /\ eng'.phase = "result"
        /\ eng'.resp = eng.resp /\ eng'.persisted = eng.persisted
    BY <2>1, Types, RephasedFacts DEF Phases
  <2>3. Formed(eng') /\ Later(eng, eng')
    BY <1>1, <2>2, Types, PhaseFacts, AlikeFacts DEF Formed
  <2>4. run' \in RunState /\ run'.init = run.init
    BY <1>2, <2>1, Types, PlanRunAssumption DEF RunState
  <2>5. Placed'
    BY <1>1, <2>1, <2>2, Deciding DEF IInv, Placed, Asking, None
  <2>6. Fresh(eng') /\ Strict(eng')
    BY <1>1, <2>2, Types, Deciding, AlikeFacts, FreshFacts
  <2> QED
    BY <1>1, <2>1, <2>2, <2>3, <2>4, <2>5, <2>6, Deciding, MoveInvariant
       DEF history, Labels, SaveLabels
<1>3. CASE ~(run.tools < MaxToolCalls)
  <2>1. eng' = Failed(eng) /\ pc' = "fail" /\ run' = run
    BY <1>3 DEF CallTools, Move, Goto
  <2> QED
    BY <1>1, <2>1, Types, FailedFacts, FailingInvariant
<1> QED
  BY <1>2, <1>3

LEMMA RejectInvariant ==
    ASSUME IInv, Reject
    PROVE  IInv'
<1>1. /\ pc = "decide" /\ eng' = Failed(eng) /\ pc' = "fail"
      /\ UNCHANGED <<disk, mode, history, call, out, run, last, starts>>
  BY DEF Reject, Move, Goto, Quiet
<1> QED
  BY <1>1, Types, FailedFacts, FailingInvariant

LEMMA CommitInvariant ==
    ASSUME IInv, Commit
    PROVE  IInv'
<1>1. /\ pc = "decide" /\ eng' = Committed(eng) /\ pc' = "save" /\ eng.phase = "result"
      /\ run' = [run EXCEPT !.safety = "resumable"]
      /\ UNCHANGED <<disk, mode, history, call, out, last, starts>>
  BY DEF Commit, Move, Goto
<1>2. /\ eng' \in EngineState /\ Formed(eng') /\ Later(eng, eng')
      /\ eng'.phase \in {"prepare", "verify"} /\ eng'.resp = eng.resp
      /\ eng'.persisted = eng.persisted /\ eng'.version = eng.version
      /\ eng'.done = eng.done \cup {Current(eng)}
  BY <1>1, Types, CommittedFacts DEF Formed
<1>3. run' \in RunState /\ run'.init = run.init
  BY <1>1, Types DEF RunState
<1>4. Placed'
  BY <1>1, <1>2, Deciding DEF IInv, Placed, Asking, None
<1>5. Fresh(eng')
  BY <1>1, <1>2, Deciding, FreshFacts
<1> QED
  BY <1>1, <1>2, <1>3, <1>4, <1>5, Deciding, MoveInvariant DEF history, Labels, SaveLabels

LEMMA ReplanStepInvariant ==
    ASSUME IInv, ReplanStep
    PROVE  IInv'
BY ReplanInvariant DEF ReplanStep

-----------------------------------------------------------------------------
(* Tool batches and revisions. *)
LEMMA IntentInvariant ==
    ASSUME IInv, Intent
    PROVE  IInv'
<1>1. /\ pc = "intent" /\ pc \in Labels /\ ~Initializing /\ call = None /\ out = None
      /\ run \in RunState /\ broken \in BOOLEAN /\ ~partial
      /\ UNCHANGED <<disk, mode, history, call, out, eng, last, starts>>
      /\ run' = [run EXCEPT !.safety = "manual"] /\ pc' = "save_intent"
      /\ eng.phase = "result"
  BY DEF Intent, Goto, IInv, TypeOK, Placed, Tracked, PartialEnds, Initializing, Labels, SaveLabels,
         None
<1>2. stored = {} /\ shown = 0 /\ Fresh(eng) /\ Strict(eng)
  BY <1>1, Unanswered DEF IInv, WorkedOnce, None
<1>3. run' \in RunState /\ run'.init = run.init /\ run'.safety = "manual"
  BY <1>1 DEF RunState
<1>4. Placed'
  BY <1>1 DEF IInv, Placed, Asking, None
<1> QED
  BY <1>1, <1>2, <1>3, <1>4, Types, LaterFacts, LaterIsReflexive, MoveInvariant
     DEF history, Labels, SaveLabels

LEMMA RulingFacts ==
    ASSUME NEW e, NEW o
    PROVE  /\ Ruling(e, o) = "continue" => o = "ok"
           /\ Ruling(e, o) = "repair" => o = "repair"
           /\ Ruling(e, o) = "replan" => o # "partial"
BY DEF Ruling, Fallback

LEMMA ObserveInvariant ==
    ASSUME IInv, Observe
    PROVE  IInv'
<1>1. /\ pc = "observe" /\ pc \in Labels /\ ~Initializing /\ call = None
      /\ out \in {None} \cup Outcomes
      /\ run \in RunState /\ broken \in BOOLEAN
      /\ partial => run.safety = "manual" /\ out = "partial"
      /\ UNCHANGED <<disk, mode, history, run, last, starts>>
      /\ eng.phase = "result"
  BY DEF Observe, Quiet, IInv, TypeOK, Placed, Tracked, PartialEnds, Initializing, Labels, SaveLabels,
         None
<1>2. /\ stored = {} /\ shown = 0 /\ Fresh(eng)
      /\ out \notin {"ok", "partial"} => Strict(eng)
  BY <1>1, Unanswered DEF IInv, WorkedOnce, None
<1>3. CASE PolicyReplans(eng, out)
  BY <1>1, <1>3, ReplanInvariant DEF Observe
<1>4. CASE ~PolicyReplans(eng, out)
  <2> DEFINE next == Recovered(eng, out)
  <2>1. /\ next \in EngineState /\ Formed(next)
        /\ Alike(eng, next) /\ Later(eng, next)
        /\ next.phase = "result" /\ next.resp = eng.resp /\ next.persisted = eng.persisted
        /\ next.version = eng.version /\ next.done = eng.done /\ Current(next) = Current(eng)
    BY <1>1, Types, RecoveredFacts, AlikeFacts DEF Formed
  <2>2. /\ out' = None /\ call' = None
        /\ \/ Ruling(eng, out) = "continue" /\ eng' = next /\ pc' = "save"
           \/ Ruling(eng, out) = "repair" /\ eng' = [next EXCEPT !.phase = "recovery"] /\ pc' = "save"
           \/ eng' = Failed(next) /\ pc' = "fail"
    BY <1>1, <1>4 DEF Observe, Move, Goto
  <2> HIDE DEF next
  <2>3. CASE Ruling(eng, out) = "continue" /\ eng' = next /\ pc' = "save"
    <3>1. out = "ok" /\ ~partial
      BY <1>1, <2>3, RulingFacts
    <3>2. Placed'
      BY <1>1, <2>1, <2>2, <2>3 DEF IInv, Placed, Asking, None
    <3>3. Fresh(eng')
      BY <1>2, <2>1, <2>3, FreshFacts
    <3> QED
      BY <1>1, <1>2, <2>1, <2>2, <2>3, <3>1, <3>2, <3>3, MoveInvariant
         DEF history, Labels, SaveLabels
  <2>4. CASE Ruling(eng, out) = "repair" /\ eng' = [next EXCEPT !.phase = "recovery"] /\ pc' = "save"
    <3>1. out = "repair" /\ ~partial
      BY <1>1, <2>4, RulingFacts
    <3>2. /\ eng' \in EngineState /\ Alike(next, eng') /\ eng'.phase = "recovery"
          /\ eng'.resp = eng.resp /\ eng'.persisted = eng.persisted
          /\ eng'.version = eng.version /\ eng'.done = eng.done
      BY <2>1, <2>4, RephasedFacts DEF Phases
    <3>3. Alike(eng, eng') /\ Formed(eng') /\ Later(eng, eng')
      BY <1>1, <2>1, <3>2, Types, LaterFacts, PhaseFacts DEF Formed
    <3>4. Placed'
      BY <1>1, <2>2, <2>4, <3>2 DEF IInv, Placed, Asking, None
    <3>5. Fresh(eng')
      BY <1>2, <3>1, <3>2, FreshFacts
    <3> QED
      BY <1>1, <1>2, <2>2, <2>4, <3>1, <3>2, <3>3, <3>4, <3>5, MoveInvariant
         DEF history, Labels, SaveLabels
  <2>5. CASE eng' = Failed(next) /\ pc' = "fail"
    <3>1. /\ eng' \in EngineState /\ Formed(eng') /\ eng'.phase = "failed" /\ Alike(next, eng')
          /\ eng'.resp = eng.resp /\ eng'.persisted = eng.persisted
      BY <2>1, <2>5, FailedFacts
    <3>2. Later(eng, eng')
      BY <2>1, <3>1, Types, LaterFacts
    <3>3. Placed'
      BY <1>1, <2>2, <2>5, <3>1 DEF IInv, Placed, Asking, None
    <3> QED
      BY <1>1, <1>2, <2>2, <2>5, <3>1, <3>2, <3>3, MoveInvariant DEF history, Labels, SaveLabels
  <2> QED
    BY <2>2, <2>3, <2>4, <2>5
<1> QED
  BY <1>3, <1>4

LEMMA ReviseInvariant ==
    ASSUME IInv, Revise
    PROVE  IInv'
<1>1. /\ pc = "provider" /\ pc \in Labels /\ ~Initializing /\ call = "revise"
      /\ run \in RunState /\ broken \in BOOLEAN
      /\ partial => run.safety = "manual" /\ out = "partial"
      /\ UNCHANGED <<disk, mode, history, run, last, starts>> /\ call' = None /\ out' = None
      /\ eng.phase \in {"act", "result"} /\ eng.replans < MaxReplans
  BY DEF Revise, Quiet, IInv, TypeOK, Placed, Asking, Tracked, PartialEnds, Initializing, Labels,
         SaveLabels, None
<1>2. stored = {} /\ shown = 0 /\ Fresh(eng)
  BY <1>1, Unanswered DEF IInv, WorkedOnce, None
<1>3. PICK p \in Plans :
          \/ out = None /\ eng' = Revised(eng, p) /\ pc' = "save"
          \/ Ruling(eng, out) = "replan" /\ eng' = Revised(eng, p) /\ pc' = "save"
          \/ eng' = Failed(Revised(eng, p)) /\ pc' = "fail"
  BY DEF Revise, Reconciled, Move, Goto
<1> DEFINE r == Revised(eng, p)
<1>4. /\ r \in EngineState /\ Formed(r) /\ Later(eng, r) /\ r.phase = "prepare"
      /\ r.resp = eng.resp /\ r.persisted = eng.persisted /\ r.version = eng.version + 1
  BY <1>1, Types, RevisedFacts DEF Formed
<1> HIDE DEF r
<1>5. CASE eng' = r /\ pc' = "save" /\ (out = None \/ Ruling(eng, out) = "replan")
  <2>1. ~partial
    BY <1>1, <1>5, RulingFacts DEF None
  <2>2. Placed'
    BY <1>1, <1>4, <1>5 DEF IInv, Placed, Asking, None
  <2>3. Fresh(r)
    <3>1. \A w \in worked : w[2] \in Nat /\ eng.version \in Nat
      BY Types
    <3> QED
      BY <1>2, <1>4, <3>1 DEF Fresh
  <2> QED
    BY <1>1, <1>2, <1>4, <1>5, <2>1, <2>2, <2>3, MoveInvariant DEF history, Labels, SaveLabels
<1>6. CASE eng' = Failed(r) /\ pc' = "fail"
  <2>1. /\ eng' \in EngineState /\ Formed(eng') /\ eng'.phase = "failed" /\ Alike(r, eng')
        /\ eng'.resp = eng.resp /\ eng'.persisted = eng.persisted
    BY <1>4, <1>6, FailedFacts
  <2>2. Later(eng, eng')
    BY <1>4, <2>1, Types, LaterFacts
  <2>3. Placed'
    BY <1>1, <1>6, <2>1 DEF IInv, Placed, Asking, None
  <2> QED
    BY <1>1, <1>2, <1>6, <2>1, <2>2, <2>3, MoveInvariant DEF history, Labels, SaveLabels
<1> QED
  BY <1>3, <1>5, <1>6 DEF r

LEMMA RevisionFailsInvariant ==
    ASSUME IInv, RevisionFails
    PROVE  IInv'
<1>1. /\ pc \in {"reserve", "provider"} /\ pc \in Labels /\ ~Initializing /\ call = "revise"
      /\ run \in RunState /\ broken' \in BOOLEAN /\ out \in {None} \cup Outcomes
      /\ partial => run.safety = "manual" /\ out = "partial"
      /\ UNCHANGED <<disk, mode, worked, partial, drafts, stored, shown, memory, starts>>
      /\ pc' = "fail" /\ eng.phase \in {"act", "result"}
  BY DEF RevisionFails, Goto, IInv, TypeOK, Placed, Asking, Tracked, PartialEnds, Initializing,
         Labels, SaveLabels, None
<1>2. stored = {} /\ shown = 0 /\ Fresh(eng)
  BY <1>1, Unanswered DEF IInv, WorkedOnce, None
<1>3. Placed'
  BY <1>1 DEF IInv, Placed, Asking, memory, None
<1> QED
  BY <1>1, <1>2, <1>3, Types, LaterFacts, LaterIsReflexive, MoveInvariant
     DEF memory, Labels, SaveLabels

-----------------------------------------------------------------------------
(* Finalization. *)
LEMMA FinalizeInvariant ==
    ASSUME IInv, Finalize
    PROVE  IInv'
<1>1. /\ pc = "loop" /\ pc \in Labels /\ ~Initializing /\ call = None /\ out = None
      /\ run \in RunState /\ broken \in BOOLEAN /\ ~partial
      /\ UNCHANGED <<disk, mode, history, out, run, last, starts>>
      /\ eng.phase \in {"verify", "finalize", "prepare"} /\ ~TooLong
      /\ eng.phase = "prepare" => Complete(eng)
  BY DEF Finalize, IInv, TypeOK, Placed, Tracked, PartialEnds, Initializing, Labels, SaveLabels, None
<1>2. /\ shown # 1 /\ Fresh(eng) /\ (eng.persisted => stored # {})
      /\ eng.phase = "finalize" =>
            \A d \in disk : d.run.init /\ d.eng.phase = "finalize" /\ d.eng.resp = eng.resp
  BY <1>1 DEF IInv, OneAnswer, WorkedOnce, Sound, None
<1>3. Complete(eng) /\ Len(eng.plan) <= MaxSteps
  BY <1>1, Types, PlanFacts, PlanRunAssumption DEF Formed, TooLong
<1> DEFINE f == [eng EXCEPT !.phase = "finalize"]
           g == [f EXCEPT !.emitted = TRUE, !.phase = "done"]
<1>4. /\ f \in EngineState /\ Alike(eng, f) /\ f.phase = "finalize"
      /\ f.resp = eng.resp /\ f.persisted = eng.persisted
      /\ f.version = eng.version /\ f.done = eng.done
  BY Types, RephasedFacts DEF Phases
<1>5. /\ g \in EngineState /\ Alike(eng, g) /\ g.phase = "done"
      /\ g.resp = eng.resp /\ g.persisted = eng.persisted
      /\ g.version = eng.version /\ g.done = eng.done
  BY Types DEF EngineState, Alike
<1>6. /\ \/ f.resp = 0 /\ eng' = f /\ pc' = "save_final" /\ call' = "final"
         \/ f.resp # 0 /\ ~f.persisted /\ eng' = f /\ pc' = "persist" /\ call' = call
         \/ f.resp # 0 /\ f.persisted /\ eng' = g /\ pc' = "save_emit" /\ call' = call
  BY DEF Finalize, Move, Goto
<1> HIDE DEF f, g
<1>7. Formed(f) /\ Formed(g) /\ Later(eng, f) /\ Later(eng, g) /\ Fresh(f) /\ Fresh(g)
  <2>1. Formed(f) /\ Formed(g)
    BY <1>1, <1>3, <1>4, <1>5, Types, PhaseFacts
  <2>2. eng.phase # "result"
    BY <1>1
  <2> QED
    BY <1>2, <1>4, <1>5, <2>1, <2>2, Types, AlikeFacts, FreshFacts
<1>8. CASE f.resp = 0 /\ eng' = f /\ pc' = "save_final" /\ call' = "final"
  <2>1. Placed'
    BY <1>1, <1>4, <1>8 DEF IInv, Placed, Asking, None
  <2> QED
    BY <1>1, <1>2, <1>4, <1>7, <1>8, <2>1, MoveInvariant DEF history, Labels, SaveLabels
<1>9. CASE f.resp # 0 /\ ~f.persisted /\ eng' = f /\ pc' = "persist" /\ call' = call
  <2>1. eng.phase = "finalize"
    BY <1>1, <1>4, <1>9, Types DEF Formed
  <2>2. Placed'
    BY <1>1, <1>4, <1>9 DEF IInv, Placed, Asking, None
  <2> QED
    BY <1>1, <1>2, <1>4, <1>7, <1>9, <2>1, <2>2, MoveInvariant DEF history, Labels, SaveLabels
<1>10. CASE f.resp # 0 /\ f.persisted /\ eng' = g /\ pc' = "save_emit" /\ call' = call
  <2>1. stored # {}
    BY <1>2, <1>4, <1>10
  <2>2. Placed'
    BY <1>1, <1>5, <1>10 DEF IInv, Placed, Asking, None
  <2> QED
    BY <1>1, <1>2, <1>5, <1>7, <1>10, <2>1, <2>2, MoveInvariant DEF history, Labels, SaveLabels
<1> QED
  BY <1>6, <1>8, <1>9, <1>10

LEMMA AnswerInvariant ==
    ASSUME IInv, Answer
    PROVE  IInv'
<1>1. /\ pc = "provider" /\ pc \in Labels /\ ~Initializing /\ call = "final" /\ out = None
      /\ run \in RunState /\ run.init /\ ~partial
      /\ UNCHANGED <<disk, mode, worked, partial, broken, stored, shown, out, run, last, starts>>
      /\ eng.phase = "finalize" /\ eng.resp = 0
      /\ drafts' = drafts + 1 /\ drafts \in Nat
      /\ eng' = [eng EXCEPT !.resp = drafts + 1] /\ pc' = "save_answer" /\ call' = None
  BY DEF Answer, Move, Goto, IInv, TypeOK, Placed, Asking, Tracked, PartialEnds, Initializing,
         Labels, SaveLabels, None
<1>2. /\ eng' \in EngineState /\ Alike(eng, eng') /\ eng'.phase = "finalize"
      /\ eng'.resp = drafts + 1 /\ eng'.persisted = eng.persisted
  <2>1. eng \in EngineState /\ drafts + 1 \in Nat
    BY <1>1, Types
  <2>2. eng' = [eng EXCEPT !.resp = drafts + 1] /\ eng.phase = "finalize"
    BY <1>1
  <2> QED
    BY <2>1, <2>2 DEF EngineState, Alike
<1>3. Formed(eng')
  BY <1>1, <1>2, Types, PhaseFacts DEF Formed
<1>4. stored = {} /\ shown # 1
  BY <1>1 DEF IInv, OneAnswer, TypeOK
<1>5. TypeOK'
  <2>1. stored' \subseteq 1..drafts'
    BY <1>1, <1>4
  <2> QED
    BY <1>1, <1>2, <2>1 DEF IInv, TypeOK, Labels, SaveLabels
<1>6. Sound(eng)' /\ Sound(last)'
  BY <1>1, <1>2, <1>3, Types DEF IInv, Sound, EngineState
<1>7. DiskIsSound'
  BY <1>1, DiskStays
<1>8. Placed'
  BY <1>1, <1>2 DEF IInv, Placed, Asking, None
<1>9. Tracked'
  <2>1. /\ Alike(last, eng) /\ \A d \in disk : d.run.init => Alike(d.eng, last)
        /\ last.phase # None
    BY <1>1 DEF IInv, Tracked
  <2>2. Alike(last, eng') /\ Later(last, eng')
    BY <1>2, <2>1, Types, LaterFacts
  <2> QED
    BY <1>1, <2>1, <2>2 DEF Tracked, Initializing, None
<1>10. WorkedOnce'
  <2>1. Fresh(eng)
    BY <1>1 DEF IInv, WorkedOnce, None
  <2>2. eng'.version = eng.version /\ eng'.done = eng.done
    BY <1>2 DEF Alike
  <2> QED
    BY <1>1, <1>2, <2>1, <2>2 DEF WorkedOnce, Fresh
<1>11. PartialEnds' /\ OneAnswer'
  BY <1>1, <1>4 DEF IInv, PartialEnds, OneAnswer
<1> QED
  BY <1>5, <1>6, <1>7, <1>8, <1>9, <1>10, <1>11 DEF IInv

LEMMA PersistInvariant ==
    ASSUME IInv, Persist
    PROVE  IInv'
<1>1. /\ pc = "persist" /\ pc \in Labels /\ ~Initializing /\ call = None /\ out = None
      /\ run \in RunState /\ run.init /\ ~partial
      /\ UNCHANGED <<disk, mode, worked, partial, broken, drafts, shown, call, out, run, last, starts>>
      /\ eng.phase = "finalize" /\ eng.resp # 0 /\ eng.resp \in 1..drafts
      /\ stored' = stored \cup {eng.resp}
      /\ eng' = [eng EXCEPT !.persisted = TRUE] /\ pc' = "save_stored"
  BY Types DEF Persist, Move, Goto, IInv, TypeOK, Placed, Asking, Tracked, PartialEnds, Initializing,
               Labels, SaveLabels, Sound, None
<1>2. /\ eng' \in EngineState /\ Alike(eng, eng') /\ eng'.phase = "finalize"
      /\ eng'.resp = eng.resp
  BY <1>1, Types DEF EngineState, Alike
<1>3. Formed(eng')
  BY <1>1, <1>2, Types, PhaseFacts DEF Formed
<1>4. stored' # {} /\ stored' = {eng.resp} /\ shown # 1
  BY <1>1 DEF IInv, OneAnswer
<1>5. TypeOK'
  BY <1>1, <1>2, <1>4 DEF IInv, TypeOK, Labels, SaveLabels
<1>6. Sound(eng)' /\ Sound(last)'
  BY <1>1, <1>2, <1>3, <1>4, Types DEF IInv, Sound
<1>7. DiskIsSound'
  <2>1. ASSUME NEW d \in disk
        PROVE  Durable(d)'
    <3>1. d.run.init /\ d.eng.phase = "finalize" /\ d.eng.resp = eng.resp /\ Durable(d)
      BY <1>1 DEF IInv, OneAnswer, DiskIsSound
    <3> QED
      BY <1>1, <1>4, <3>1 DEF Durable, Sound, Fresh
  <2> QED
    BY <1>1, <2>1 DEF IInv, DiskIsSound
<1>8. Placed'
  BY <1>1, <1>2 DEF IInv, Placed, Asking, None
<1>9. Tracked'
  <2>1. /\ Alike(last, eng) /\ \A d \in disk : d.run.init => Alike(d.eng, last)
        /\ last.phase # None
    BY <1>1 DEF IInv, Tracked
  <2>2. Alike(last, eng') /\ Later(last, eng')
    BY <1>2, <2>1, Types, LaterFacts
  <2> QED
    BY <1>1, <2>1, <2>2 DEF Tracked, Initializing, None
<1>10. WorkedOnce'
  <2>1. Fresh(eng)
    BY <1>1 DEF IInv, WorkedOnce, None
  <2>2. eng'.version = eng.version /\ eng'.done = eng.done
    BY <1>2 DEF Alike
  <2> QED
    BY <1>1, <1>2, <2>1, <2>2 DEF WorkedOnce, Fresh
<1>11. PartialEnds' /\ OneAnswer'
  BY <1>1, <1>2, <1>4 DEF IInv, PartialEnds, OneAnswer
<1> QED
  BY <1>5, <1>6, <1>7, <1>8, <1>9, <1>10, <1>11 DEF IInv

LEMMA ShowInvariant ==
    ASSUME IInv, Show
    PROVE  IInv'
<1>1. /\ pc = "show" /\ ~Initializing /\ call = None /\ out = None /\ ~partial
      /\ UNCHANGED <<disk, mode, worked, partial, broken, drafts, stored, memory, starts>>
      /\ eng.phase = "done" /\ pc' = "finish" /\ shown' = shown + 1
  BY DEF Show, Goto, IInv, Placed, PartialEnds, Initializing, None
<1>2. UNCHANGED <<call, out, run, eng, last>>
  BY <1>1 DEF memory
<1>3. shown = 0 /\ stored # {} /\ \A d \in disk : d.eng.phase = "done"
  BY <1>1 DEF IInv, OneAnswer, TypeOK
<1>4. TypeOK' /\ Sound(eng)' /\ Sound(last)'
  BY <1>1, <1>2, <1>3 DEF IInv, TypeOK, Sound, Labels, SaveLabels
<1>5. DiskIsSound'
  <2>1. ASSUME NEW d \in disk
        PROVE  Durable(d)'
    <3>1. d.eng.phase = "done" /\ Durable(d) /\ d.run.init
      BY <1>3 DEF IInv, DiskIsSound, Durable, Unbegun
    <3> QED
      BY <1>1, <1>2, <3>1 DEF Durable, Sound, Fresh
  <2> QED
    BY <1>1, <2>1 DEF IInv, DiskIsSound
<1>6. Placed' /\ Tracked'
  BY <1>1, <1>2 DEF IInv, Placed, Tracked, Asking, Initializing, None
<1>7. WorkedOnce' /\ PartialEnds'
  BY <1>1, <1>2 DEF IInv, WorkedOnce, PartialEnds, Fresh
<1>8. OneAnswer'
  BY <1>1, <1>2, <1>3 DEF IInv, OneAnswer
<1> QED
  BY <1>4, <1>5, <1>6, <1>7, <1>8 DEF IInv

-----------------------------------------------------------------------------
(* Checkpoints. *)
LEMMA SnapshotFacts ==
    ASSUME IInv, pc \in SaveLabels \cup {"reserve"}
    PROVE  /\ Snapshot \in EngineState
           /\ Durable([run |-> run, eng |-> Snapshot])
           /\ pc \in SaveLabels /\ pc # "save_start" => Alike(Snapshot, eng) /\ Snapshot.phase # None
<1>1. pc # "idle"
  BY DEF SaveLabels
<1>2. CASE pc \in {"reserve", "save_intent"}
  <2>1. Snapshot = last
    BY <1>2 DEF Snapshot
  <2>2. CASE call = "plan"
    <3>1. ~run.init /\ Unbegun /\ pc = "reserve"
      BY <1>1, <1>2, <2>2 DEF IInv, Tracked, Initializing, Placed, None
    <3>2. Durable([run |-> run, eng |-> last])
      <4>1. Fresh(last) /\ ~partial /\ stored = {} /\ shown # 1
        BY <3>1 DEF Unbegun, Fresh
      <4>2. Sound(last)
        BY DEF IInv
      <4> QED
        BY <3>1, <4>1, <4>2, Types DEF Durable
    <3>3. "reserve" \notin SaveLabels
      BY DEF SaveLabels
    <3> QED
      BY <2>1, <3>1, <3>2, <3>3, Types
  <2>3. CASE call # "plan"
    <3>1. ~Initializing /\ run.init /\ Alike(last, eng) /\ last.phase # None
      BY <1>1, <1>2, <2>3 DEF IInv, Tracked, Initializing
    <3>2. /\ pc = "save_intent" => run.safety = "manual" /\ eng.phase = "result"
          /\ pc = "reserve" => /\ last.phase = eng.phase
                               /\ \/ eng.phase \in {"act", "result"}
                                  \/ eng.phase = "finalize" /\ eng.resp = 0
      BY <1>2, <2>3 DEF IInv, WorkedOnce, Tracked, Placed, Asking, TypeOK
    <3>3. stored = {} /\ shown # 1
      <4>1. stored # {} => eng.resp # 0
        <5>1. stored # {} => eng.resp \in stored /\ stored \subseteq 1..drafts
          BY <1>1 DEF IInv, OneAnswer, TypeOK
        <5> QED
          BY <5>1, Types
      <4>2. eng.phase \in {"act", "result", "finalize"} /\ (eng.phase = "finalize" => eng.resp = 0)
        BY <1>2, <3>2
      <4> QED
        BY <1>1, <4>1, <4>2 DEF IInv, OneAnswer
    <3>4. partial => run.safety # "resumable"
      BY <1>1 DEF IInv, PartialEnds
    <3>5. pc = "reserve" => Fresh(last)
      <4>1. Fresh(eng) \/ eng.phase \in {None, "failed"}
        BY DEF IInv, WorkedOnce
      <4> QED
        BY <3>1, <3>2, <4>1 DEF Alike, Fresh, Current, None
    <3> QED
      BY <1>2, <2>1, <3>1, <3>2, <3>3, <3>4, <3>5, Types DEF IInv, Durable
  <2> QED
    BY <2>2, <2>3
<1>3. CASE pc = "save_outcome"
  <2>1. Snapshot = Recovered(eng, out)
    BY <1>3 DEF Snapshot
  <2>2. ~Initializing /\ eng.phase = "result"
    BY <1>3 DEF IInv, Placed, Initializing, None
  <2>3. Durable([run |-> run, eng |-> eng])
    BY <1>1, <2>2, MemoryIsDurable
  <2>4. /\ Snapshot \in EngineState /\ Formed(Snapshot) /\ Alike(Snapshot, eng)
        /\ Snapshot.phase = "result" /\ Snapshot.resp = eng.resp
        /\ Snapshot.persisted = eng.persisted
        /\ Snapshot.version = eng.version /\ Snapshot.done = eng.done
        /\ Current(Snapshot) = Current(eng)
    BY <2>1, <2>2, Types, RecoveredFacts, AlikeFacts DEF Formed
  <2> QED
    BY <2>2, <2>3, <2>4, Types DEF Durable, Sound, Fresh, None
<1>4. CASE pc \in {"save_start", "save_begin"}
  <2>1. Snapshot = eng /\ Unbegun /\ eng.phase = "prepare"
    BY <1>4 DEF Snapshot, IInv, Tracked, Initializing, Placed
  <2> QED
    BY <2>1, Types, LaterFacts DEF IInv, Durable, Unbegun, Fresh, None
<1>5. CASE pc \notin {"reserve", "save_intent", "save_outcome", "save_start", "save_begin"}
  <2>1. Snapshot = eng
    BY <1>5 DEF Snapshot
  <2>2. ~Initializing /\ eng.phase # None
    BY <1>5 DEF IInv, Placed, Initializing, SaveLabels, None
  <2> QED
    BY <1>1, <2>1, <2>2, MemoryIsDurable, Types, LaterFacts
<1> QED
  BY <1>2, <1>3, <1>4, <1>5

LEMMA SavingIsSound ==
    ASSUME IInv, pc \in SaveLabels \cup {"reserve"}, disk' = Saved(Snapshot), UNCHANGED history
    PROVE  DiskIsSound'
<1>1. Durable([run |-> run, eng |-> Snapshot])
  BY SnapshotFacts
<1>2. ASSUME NEW d \in disk'
      PROVE  d = [run |-> run, eng |-> Snapshot] /\ Durable(d)'
  <2>1. d = [run |-> run, eng |-> Snapshot]
    BY DEF Saved
  <2> QED
    BY <1>1, <2>1 DEF Durable, Sound, Fresh, Unbegun, history
<1> QED
  BY <1>2 DEF DiskIsSound

LEMMA CheckpointInvariant ==
    ASSUME IInv, Checkpoint
    PROVE  IInv'
<1>1. /\ pc \in SaveLabels /\ pc # "idle" /\ pc # "fail"
      /\ disk' = {[run |-> run, eng |-> Snapshot]} /\ last' = Snapshot
      /\ run' = [run EXCEPT !.init = @ \/ pc = "save_start"]
      /\ eng' = AfterSaving
      /\ UNCHANGED <<mode, worked, partial, broken, drafts, stored, shown, call, out, starts>>
  BY DEF Checkpoint, Saved, SaveLabels, history
<1>2. \/ pc = "save_start" /\ pc' = "save_begin"
      \/ pc = "save_begin" /\ pc' = "loop"
      \/ pc = "save_ask" /\ pc' = "reserve"
      \/ pc = "save_intent" /\ pc' = "tools"
      \/ pc = "save_outcome" /\ pc' = "observe"
      \/ pc = "save_repair" /\ pc' = "loop"
      \/ pc = "save" /\ pc' = "loop"
      \/ pc = "save_final" /\ pc' = "reserve"
      \/ pc = "save_answer" /\ pc' = "persist"
      \/ pc = "save_stored" /\ pc' = "save_emit"
      \/ pc = "save_emit" /\ pc' = "show"
  <2>1. pc \in SaveLabels /\ pc' = AfterSave[pc]
    BY DEF Checkpoint, Goto
  <2> QED
    BY <2>1 DEF AfterSave, SaveLabels
<1>3. run' \in RunState /\ run'.safety = run.safety /\ (run'.init <=> run.init \/ pc = "save_start")
  BY <1>1, Types DEF RunState
<1>4. /\ Snapshot \in EngineState /\ Sound(Snapshot)
      /\ pc # "save_start" => Alike(Snapshot, eng) /\ Snapshot.phase # None
  BY <1>1, SnapshotFacts DEF Durable
<1>5. pc = "save_start" => Snapshot = eng /\ eng.phase = "prepare"
  BY DEF Snapshot, IInv, Placed
<1>6. Alike(Snapshot, eng) /\ Snapshot.phase # None
  BY <1>4, <1>5, Types, LaterFacts DEF None
<1>7. /\ eng' \in EngineState /\ Formed(eng') /\ Alike(eng, eng')
      /\ eng'.resp = eng.resp /\ eng'.persisted = eng.persisted
      /\ eng'.phase = CASE pc = "save_repair" -> "act"
                        [] pc = "save_stored" -> "done"
                        [] OTHER -> eng.phase
  <2>1. CASE pc = "save_repair"
    <3>1. eng' = [eng EXCEPT !.phase = "act"] /\ eng.phase = "recovery"
      BY <1>1, <2>1 DEF AfterSaving, IInv, Placed
    <3>2. /\ eng' \in EngineState /\ Alike(eng, eng') /\ eng'.phase = "act"
          /\ eng'.resp = eng.resp /\ eng'.persisted = eng.persisted
      BY <3>1, Types, RephasedFacts DEF Phases
    <3>3. Formed(eng')
      BY <3>1, <3>2, Types, PhaseFacts DEF Formed
    <3> QED
      BY <2>1, <3>2, <3>3
  <2>2. CASE pc = "save_stored"
    <3>1. eng' = [eng EXCEPT !.emitted = TRUE, !.phase = "done"] /\ eng.phase = "finalize"
      BY <1>1, <2>2 DEF AfterSaving, IInv, Placed
    <3>2. /\ eng' \in EngineState /\ Alike(eng, eng') /\ eng'.phase = "done"
          /\ eng'.resp = eng.resp /\ eng'.persisted = eng.persisted
      BY <3>1, Types DEF EngineState, Alike
    <3> QED
      BY <2>2, <3>1, <3>2, Types, PhaseFacts DEF Formed
  <2>3. CASE pc \notin {"save_repair", "save_stored"}
    <3>1. eng' = eng
      BY <1>1, <2>3 DEF AfterSaving
    <3> QED
      BY <2>3, <3>1, Types, LaterFacts
  <2> QED
    BY <2>1, <2>2, <2>3
<1>8. TypeOK'
  <2>1. \A d \in disk' : d \in [run : RunState, eng : EngineState]
    BY <1>1, <1>4, Types
  <2>2. pc' \in Labels
    BY <1>2 DEF Labels, SaveLabels
  <2> QED
    BY <1>1, <1>3, <1>4, <1>7, <2>1, <2>2 DEF IInv, TypeOK
<1>9. Sound(eng)' /\ Sound(last)'
  BY <1>1, <1>4, <1>7 DEF IInv, Sound
<1>10. DiskIsSound'
  BY <1>1, SavingIsSound DEF Checkpoint
<1>11. Placed'
  BY <1>1, <1>2, <1>7 DEF IInv, Placed, Asking, None
<1>12. Tracked'
  <2>1. run.init <=> ~(call = "plan" \/ pc = "save_start")
    BY <1>1 DEF IInv, Tracked
  <2>2. call # "plan" /\ (pc \in {"save_start", "save_begin"} => Unbegun)
    BY <1>1, <1>2 DEF IInv, Placed, Tracked, Initializing, None
  <2>3. run'.init /\ pc' \notin {"idle", "save_start"}
    BY <1>2, <1>3, <2>1, <2>2
  <2>4. Initializing' <=> pc = "save_start"
    BY <1>1, <1>2, <2>2 DEF Initializing
  <2>5. Alike(last', eng') /\ Later(last', eng') /\ Alike(Snapshot, last') /\ last'.phase # None
    BY <1>1, <1>4, <1>6, <1>7, Types, LaterFacts DEF Sound, Formed
  <2>6. \A d \in disk' : d.run.init <=> pc # "save_start"
    BY <1>1, <2>1, <2>2
  <2>7. \A d \in disk' : Alike(d.eng, last')
    BY <1>1, <2>5
  <2>8. pc' \in {"reserve", "observe"} => last'.phase = eng'.phase
    <3>1. pc \in {"save_ask", "save_final"} => Snapshot = eng
      BY DEF Snapshot
    <3>2. pc = "save_outcome" => Snapshot.phase = "result" /\ eng.phase = "result"
      BY Types, RecoveredFacts DEF Snapshot, IInv, Placed
    <3> QED
      BY <1>1, <1>2, <1>7, <3>1, <3>2
  <2> QED
    BY <1>1, <1>2, <2>2, <2>3, <2>4, <2>5, <2>6, <2>7, <2>8 DEF Tracked, Unbegun
<1>13. WorkedOnce'
  <2>1. /\ eng'.phase \notin {None, "failed"} => Fresh(eng')
        /\ Strict(eng) => Strict(eng')
    <3>1. eng'.version = eng.version /\ eng'.done = eng.done /\ Current(eng') = Current(eng)
      BY <1>7, Types, AlikeFacts
    <3>2. eng.phase # None
      BY <1>1, <1>2 DEF IInv, Placed, None
    <3>3. eng.phase # "failed" => Fresh(eng)
      BY <3>2 DEF IInv, WorkedOnce
    <3>4. eng'.phase # "failed" => eng.phase # "failed"
      BY <1>1, <1>2 , <1>7 DEF IInv, Placed
    <3>5. eng'.phase = eng.phase \/ eng.phase # "result"
      BY <1>2, <1>7 DEF IInv, Placed
    <3> QED
      BY <3>1, <3>3, <3>4, <3>5 DEF Fresh, Strict
  <2>2. pc' = "tools" => /\ Strict(eng) /\ run.safety = "manual"
                         /\ run.init
    BY <1>1, <1>2 DEF IInv, WorkedOnce, Placed, Tracked, None
  <2>3. pc' = "observe" /\ out \notin {"ok", "partial"} => Strict(eng)
    BY <1>2 DEF IInv, WorkedOnce
  <2>4. \A d \in disk' : d.run = run
    BY <1>1
  <2> QED
    BY <1>1, <1>2, <1>3, <2>1, <2>2, <2>3, <2>4 DEF WorkedOnce, Fresh, Strict
<1>14. PartialEnds'
  BY <1>1, <1>2, <1>3 DEF IInv, PartialEnds
<1>15. OneAnswer'
  <2>1. pc \in {"save_answer", "save_emit"} => \A d \in disk' : d.eng = eng
    BY <1>1 DEF Snapshot
  <2>2. pc = "save_answer" => run.init /\ \A d \in disk' : d.run = run
    BY <1>1 DEF IInv, Tracked, Placed, None
  <2>3. /\ pc = "save_answer" => eng.phase = "finalize"
        /\ pc = "save_emit" => eng.phase = "done"
        /\ pc' = "loop" => eng'.phase # "finalize"
    BY <1>2, <1>7 DEF IInv, Placed
  <2>4. shown # 1
    BY <1>1, <1>2 DEF IInv, OneAnswer
  <2>5. stored # {} => eng.phase \in {"finalize", "done"} /\ eng.resp \in stored
    BY <1>1 DEF IInv, OneAnswer
  <2>6. stored # {} => eng'.phase \in {"finalize", "done"} /\ eng'.resp \in stored
    <3>1. pc = "save_repair" => eng.phase = "recovery"
      BY DEF IInv, Placed
    <3> QED
      BY <1>7, <2>5, <3>1
  <2> QED
    BY <1>1, <1>2, <1>7, <2>1, <2>2, <2>3, <2>4, <2>6 DEF IInv, OneAnswer
<1> QED
  BY <1>8, <1>9, <1>10, <1>11, <1>12, <1>13, <1>14, <1>15 DEF IInv

LEMMA ReserveInvariant ==
    ASSUME IInv, Reserve
    PROVE  IInv'
<1>1. /\ pc = "reserve" /\ pc' = "provider" /\ disk' = {[run |-> run, eng |-> last]}
      /\ UNCHANGED <<mode, worked, partial, broken, drafts, stored, shown, starts>>
      /\ UNCHANGED <<call, out, run, eng, last>>
      /\ Snapshot = last
  BY DEF Reserve, Goto, Saved, Snapshot, memory, history
<1>2. TypeOK'
  <2>1. \A d \in disk' : d \in [run : RunState, eng : EngineState]
    BY <1>1, Types
  <2> QED
    BY <1>1, <2>1 DEF IInv, TypeOK, Labels
<1>3. Sound(eng)' /\ Sound(last)'
  BY <1>1 DEF IInv, Sound
<1>4. DiskIsSound'
  BY <1>1, SavingIsSound DEF Reserve
<1>5. Placed'
  BY <1>1 DEF IInv, Placed, Asking
<1>6. Tracked'
  <2>1. Initializing' <=> Initializing
    BY <1>1 DEF Initializing
  <2>2. Alike(last, last) /\ (run.init <=> call # "plan")
    BY <1>1, Types, LaterFacts DEF IInv, Tracked
  <2> QED
    BY <1>1, <2>1, <2>2 DEF IInv, Tracked, Unbegun, Initializing
<1>7. WorkedOnce' /\ PartialEnds' /\ OneAnswer'
  BY <1>1 DEF IInv, WorkedOnce, PartialEnds, OneAnswer, Fresh
<1> QED
  BY <1>2, <1>3, <1>4, <1>5, <1>6, <1>7 DEF IInv

LEMMA PlanInvariant ==
    ASSUME IInv, Plan
    PROVE  IInv'
<1>1. /\ pc = "provider" /\ call = "plan" /\ pc' = "save_start" /\ call' = None
      /\ UNCHANGED <<disk, mode, worked, partial, broken, drafts, stored, shown, starts>>
      /\ UNCHANGED <<out, run, last>>
  BY DEF Plan, Move, Goto, history
<1>2. PICK p \in Plans : eng' = Begun(p)
  BY DEF Plan, Move
<1>3. /\ eng' \in EngineState /\ Formed(eng') /\ eng'.phase = "prepare"
      /\ eng'.resp = 0 /\ ~eng'.persisted
  BY <1>2, BegunFacts
<1>4. Unbegun /\ out = None /\ (\A d \in disk : ~d.run.init) /\ ~run.init /\ starts # 0
  BY <1>1 DEF IInv, Tracked, Placed, Asking, Initializing, None
<1>5. TypeOK'
  BY <1>1, <1>3 DEF IInv, TypeOK, Labels, SaveLabels
<1>6. Sound(eng)' /\ Sound(last)'
  BY <1>1, <1>3, Types DEF IInv, Sound
<1>7. DiskIsSound'
  BY <1>1, Types, DiskStays
<1>8. Placed' /\ Tracked'
  BY <1>1, <1>3, <1>4 DEF Placed, Tracked, Asking, Initializing, Unbegun, None
<1>9. WorkedOnce' /\ PartialEnds' /\ OneAnswer'
  BY <1>1, <1>3, <1>4 DEF WorkedOnce, PartialEnds, OneAnswer, Unbegun, Fresh
<1> QED
  BY <1>5, <1>6, <1>7, <1>8, <1>9 DEF IInv

-----------------------------------------------------------------------------
(* Tools run: while they do, the checkpoint cannot be resumed. *)
LEMMA WorkInvariant ==
    ASSUME IInv, pc = "tools", worked' = worked \cup {<<Current(eng), eng.version>>},
           UNCHANGED <<disk, drafts, stored, shown>>
    PROVE  DiskIsSound' /\ worked' \subseteq Steps \X Nat
<1>1. /\ \A d \in disk : d.run.init /\ d.run.safety = "manual" /\ Durable(d)
      /\ stored = {} /\ shown = 0 /\ eng.phase = "result"
  BY Unanswered DEF IInv, WorkedOnce, DiskIsSound, Placed
<1>2. Current(eng) \in Steps /\ eng.version \in Nat
  BY <1>1, Types, PlanFacts DEF Formed
<1>3. worked' \subseteq Steps \X Nat
  BY <1>2, Types
<1>4. \A d \in disk : Durable(d)'
  BY <1>1 DEF Durable, Sound
<1>5. \A d, c \in disk' : d = c
  BY DEF IInv, DiskIsSound
<1>6. DiskIsSound'
  BY <1>4, <1>5 DEF DiskIsSound
<1> QED
  BY <1>3, <1>6

LEMMA RunToolsInvariant ==
    ASSUME IInv, RunTools
    PROVE  IInv'
<1>1. /\ pc = "tools" /\ pc' = "save_outcome" /\ eng.phase = "result" /\ ~partial
      /\ call = None /\ run.init /\ starts # 0 /\ run.safety = "manual" /\ Strict(eng)
      /\ \A d \in disk : d.run.init /\ d.run.safety = "manual"
      /\ UNCHANGED <<disk, mode, broken, drafts, stored, shown, call, eng, last, starts>>
  BY DEF RunTools, Goto, IInv, Placed, Tracked, WorkedOnce, PartialEnds, None
<1>2. stored = {} /\ shown = 0 /\ ~Initializing /\ Fresh(eng)
  BY <1>1, Unanswered DEF IInv, WorkedOnce, Initializing, None
<1>3. PICK o \in Outcomes :
          /\ out' = o /\ partial' = (partial \/ o = "partial")
          /\ IF o \in {"ok", "partial"}
             THEN Worked /\ UNCHANGED run
             ELSE run' = [run EXCEPT !.safety = "resumable"] /\ UNCHANGED worked
  BY DEF RunTools
<1>4. partial' \in BOOLEAN /\ (partial' <=> o = "partial")
  <2>1. partial = FALSE
    BY <1>1 DEF IInv, TypeOK
  <2> QED
    BY <1>3, <2>1, Zenon
<1>5. /\ worked' \in {worked, worked \cup {<<Current(eng), eng.version>>}}
      /\ o \notin {"ok", "partial"} => worked' = worked
      /\ o = "partial" => run' = run
  BY <1>3 DEF Worked
<1>6. run' \in RunState /\ run'.init
  BY <1>1, <1>3, Types DEF RunState
<1>7. DiskIsSound' /\ worked' \subseteq Steps \X Nat
  <2>1. CASE worked' = worked
    <3>1. \A d \in disk : Durable(d)'
      BY <1>1, <1>2, <2>1 DEF IInv, DiskIsSound, Durable, Sound
    <3> QED
      BY <1>1, <2>1, <3>1, Types DEF IInv, DiskIsSound
  <2>2. CASE worked' = worked \cup {<<Current(eng), eng.version>>}
    BY <1>1, <2>2, WorkInvariant
  <2> QED
    BY <1>5, <2>1, <2>2
<1>8. o # None
  BY PlanRunAssumption DEF Outcomes, None
<1>9. TypeOK'
  BY <1>1, <1>3, <1>4, <1>6, <1>7 DEF IInv, TypeOK, Labels, SaveLabels
<1>10. Sound(eng)' /\ Sound(last)'
  BY <1>1 DEF IInv, Sound
<1>11. Placed'
  BY <1>1, <1>3, <1>8 DEF Placed, Asking, None
<1>12. Tracked'
  BY <1>1, <1>2, <1>6 DEF IInv, Tracked, Initializing, None
<1>13. WorkedOnce'
  <2>1. Fresh(eng)'
    <3>1. eng.version \in Nat
      BY Types
    <3> QED
      BY <1>1, <1>2, <1>5, <3>1 DEF Fresh
  <2>2. o \notin {"ok", "partial"} => Strict(eng)'
    BY <1>1, <1>5 DEF Strict
  <2> QED
    BY <1>1, <1>3, <2>1, <2>2 DEF WorkedOnce
<1>14. PartialEnds' /\ OneAnswer'
  BY <1>1, <1>2, <1>3, <1>4, <1>5 DEF PartialEnds, OneAnswer
<1> QED
  BY <1>7, <1>9, <1>10, <1>11, <1>12, <1>13, <1>14 DEF IInv

LEMMA ToolsFailInvariant ==
    ASSUME IInv, ToolsFail
    PROVE  IInv'
<1>1. /\ pc \in {"intent", "save_intent", "tools"} /\ pc' = "fail" /\ pc # "idle"
      /\ eng' = Failed(eng)
      /\ UNCHANGED <<disk, mode, partial, broken, drafts, stored, shown>>
      /\ UNCHANGED <<call, out, run, last, starts>>
      /\ worked' = worked \/ (pc = "tools" /\ worked' = worked \cup {<<Current(eng), eng.version>>})
  BY DEF ToolsFail, Move, Goto, Worked
<1>2. /\ eng.phase = "result" /\ call = None /\ out = None /\ ~partial /\ starts # 0
      /\ ~Initializing
  BY <1>1 DEF IInv, Placed, PartialEnds, Initializing, None
<1>3. stored = {} /\ shown = 0
  BY <1>1, <1>2, Unanswered
<1>4. /\ eng' \in EngineState /\ Formed(eng') /\ Later(eng, eng') /\ eng'.phase = "failed"
      /\ eng'.resp = eng.resp /\ eng'.persisted = eng.persisted
  BY <1>1, Types, FailedFacts
<1>5. DiskIsSound' /\ worked' \subseteq Steps \X Nat
  <2>1. CASE worked' = worked
    BY <1>1, <2>1, Types, DiskStays
  <2>2. CASE pc = "tools" /\ worked' = worked \cup {<<Current(eng), eng.version>>}
    BY <1>1, <2>2, WorkInvariant
  <2> QED
    BY <1>1, <2>1, <2>2
<1>6. TypeOK'
  BY <1>1, <1>4, <1>5 DEF IInv, TypeOK, Labels
<1>7. Sound(eng)' /\ Sound(last)'
  BY <1>1, <1>4 DEF IInv, Sound
<1>8. Placed'
  BY <1>1, <1>2, <1>4 DEF Placed, Asking, None
<1>9. Tracked'
  <2>1. run.init /\ Alike(last, eng) /\ last.phase # None /\ \A d \in disk : d.run.init => Alike(d.eng, last)
    BY <1>1, <1>2 DEF IInv, Tracked, Initializing, None
  <2>2. Later(last, eng')
    BY <1>4, <2>1, Types, LaterFacts
  <2> QED
    BY <1>1, <1>2, <2>1, <2>2 DEF Tracked, Initializing, None
<1>10. WorkedOnce' /\ PartialEnds' /\ OneAnswer'
  BY <1>1, <1>2, <1>3, <1>4 DEF WorkedOnce, PartialEnds, OneAnswer
<1> QED
  BY <1>5, <1>6, <1>7, <1>8, <1>9, <1>10 DEF IInv

-----------------------------------------------------------------------------
(* Starting and resuming. *)
LEMMA LaunchInvariant ==
    ASSUME IInv, Launch
    PROVE  IInv'
<1>1. /\ pc = "idle" /\ starts = 0 /\ starts' = 1 /\ call' = "plan" /\ pc' = "reserve"
      /\ UNCHANGED <<disk, mode, worked, partial, broken, drafts, stored, shown>>
      /\ UNCHANGED <<out, run, eng, last>>
  BY DEF Launch, Goto, history
<1>2. disk = {} /\ Unbegun /\ out = None /\ run = FreshRun /\ eng = NoPlan /\ last = NoPlan
  BY <1>1 DEF IInv, Placed
<1>3. 1 \in 0..(MaxResumes + 1)
  BY PlanRunAssumption
<1>4. TypeOK'
  BY <1>1, <1>3 DEF IInv, TypeOK, Labels
<1>5. Sound(eng)' /\ Sound(last)' /\ DiskIsSound'
  BY <1>1, <1>2 DEF IInv, Sound, DiskIsSound
<1>6. Placed' /\ Tracked'
  BY <1>1, <1>2 DEF Placed, Tracked, Asking, Initializing, Unbegun, FreshRun, None
<1>7. WorkedOnce' /\ PartialEnds' /\ OneAnswer'
  BY <1>1, <1>2, NoPlanFacts DEF WorkedOnce, PartialEnds, OneAnswer, Unbegun, None
<1> QED
  BY <1>4, <1>5, <1>6, <1>7 DEF IInv

LEMMA ResumeInvariant ==
    ASSUME IInv, Resume
    PROVE  IInv'
<1>1. PICK d \in disk :
          /\ pc = "idle" /\ starts \in 1..MaxResumes /\ starts' = starts + 1
          /\ d.run.safety = "resumable" /\ run' = d.run /\ last' = d.eng
          /\ UNCHANGED <<disk, mode, worked, partial, broken, drafts, stored, shown, out>>
          /\ IF d.run.init
             THEN eng' = d.eng /\ pc' = "loop" /\ UNCHANGED call
             ELSE call' = "plan" /\ pc' = "reserve" /\ UNCHANGED eng
  BY DEF Resume, Goto, history
<1>2. /\ Durable(d) /\ \A c \in disk : c = d
      /\ call = None /\ out = None /\ eng = NoPlan /\ ~partial
  BY <1>1 DEF IInv, DiskIsSound, Durable, Placed
<1>3. d.eng \in EngineState /\ d.run \in RunState /\ Formed(d.eng) /\ Sound(d.eng)
  BY <1>2, Types DEF Durable
<1>4. starts' \in 0..(MaxResumes + 1) /\ starts' # 0
  BY <1>1, PlanRunAssumption
<1>5. DiskIsSound'
  BY <1>1, Types, DiskStays
<1>6. shown <= 1 /\ (shown = 1 => stored # {}) /\ (stored # {} => \E r \in 1..drafts : stored = {r})
  BY DEF IInv, OneAnswer
<1>7. CASE d.run.init
  <2>1. /\ eng' = d.eng /\ pc' = "loop" /\ call' = None /\ out' = None
        /\ d.eng.phase # None
    BY <1>1, <1>2, <1>7 DEF Durable
  <2>2. TypeOK' /\ Sound(eng)' /\ Sound(last)'
    BY <1>1, <1>3, <1>4, <2>1 DEF IInv, TypeOK, Labels, Sound
  <2>3. Placed'
    BY <1>4, <2>1 DEF Placed, Asking, None
  <2>4. Tracked'
    <3>1. Alike(d.eng, d.eng) /\ Later(d.eng, d.eng)
      BY <1>3, LaterFacts DEF Formed
    <3> QED
      BY <1>1, <1>2, <1>7, <2>1, <3>1 DEF Tracked, Initializing, None
  <2>5. WorkedOnce' /\ PartialEnds'
    BY <1>1, <1>2, <2>1 DEF WorkedOnce, PartialEnds, Durable, Fresh
  <2>6. OneAnswer'
    BY <1>1, <1>2, <1>6, <1>7, <2>1 DEF OneAnswer, Durable
  <2> QED
    BY <1>5, <2>2, <2>3, <2>4, <2>5, <2>6 DEF IInv
<1>8. CASE ~d.run.init
  <2>1. eng' = NoPlan /\ pc' = "reserve" /\ call' = "plan" /\ out' = None /\ Unbegun
    BY <1>1, <1>2, <1>8 DEF Durable
  <2>2. TypeOK' /\ Sound(eng)' /\ Sound(last)'
    BY <1>1, <1>2, <1>3, <1>4, <2>1 DEF IInv, TypeOK, Labels, Sound
  <2>3. Placed'
    BY <1>4, <2>1 DEF Placed, Asking, None
  <2>4. Tracked'
    BY <1>1, <1>2, <1>8, <2>1 DEF Tracked, Initializing, Unbegun, None
  <2>5. WorkedOnce' /\ PartialEnds' /\ OneAnswer'
    BY <1>1, <2>1, NoPlanFacts DEF WorkedOnce, PartialEnds, OneAnswer, Unbegun, None
  <2> QED
    BY <1>5, <2>2, <2>3, <2>4, <2>5 DEF IInv
<1> QED
  BY <1>7, <1>8

-----------------------------------------------------------------------------
(* Leaving the run, with what the except clauses or the call in progress    *)
(* wrote.                                                                   *)
LEMMA FinishInvariant ==
    ASSUME IInv, Finish
    PROVE  IInv'
<1>1. /\ pc # "idle" /\ disk' = {} /\ Leave
      /\ UNCHANGED <<mode, worked, partial, broken, drafts, stored, shown, starts>>
  BY DEF Finish, history
<1>2. DiskIsSound' /\ worked \subseteq Steps \X Nat /\ stored \subseteq 1..drafts
  BY <1>1 DEF IInv, TypeOK, DiskIsSound
<1> QED
  BY <1>1, <1>2, LeaveInvariant

LEMMA AnswerOnRecord ==
    ASSUME IInv, pc = "persist"
    PROVE  /\ eng.phase = "finalize" /\ eng.resp \in 1..drafts /\ shown # 1
           /\ ~Initializing /\ ~partial
<1>1. eng.phase = "finalize" /\ eng.resp # 0 /\ eng.resp <= drafts /\ call = None
  BY DEF IInv, Placed, Sound
<1>2. eng.resp \in 1..drafts
  BY <1>1, Types
<1> QED
  BY <1>1, <1>2 DEF IInv, OneAnswer, PartialEnds, Initializing, None

LEMMA OverwriteInvariant ==
    ASSUME IInv, Leave, pc # "idle", UNCHANGED <<mode, partial, broken, drafts, shown, starts>>,
           NEW d, disk' = {d}, Durable(d),
           \/ UNCHANGED <<worked, stored>>
           \/ /\ pc = "tools" /\ d.run.init /\ d.run.safety = "manual"
              /\ worked' = worked \cup {<<Current(eng), eng.version>>} /\ UNCHANGED stored
           \/ /\ pc = "persist" /\ d.run.init /\ d.eng = eng
              /\ stored' = stored \cup {eng.resp} /\ UNCHANGED worked
    PROVE  IInv'
<1>1. CASE UNCHANGED <<worked, stored>>
  <2>1. Durable(d)'
    BY <1>1 DEF Durable, Sound, Fresh, Unbegun
  <2>2. DiskIsSound' /\ worked' \subseteq Steps \X Nat /\ stored' \subseteq 1..drafts
    BY <1>1, <2>1 DEF IInv, TypeOK, DiskIsSound
  <2> QED
    BY <1>1, <2>2, LeaveInvariant
<1>2. CASE /\ pc = "tools" /\ d.run.init /\ d.run.safety = "manual"
           /\ worked' = worked \cup {<<Current(eng), eng.version>>} /\ UNCHANGED stored
  <2>1. Durable(d)'
    BY <1>2 DEF Durable, Sound
  <2>2. Current(eng) \in Steps /\ eng.version \in Nat
    <3>1. eng.phase = "result"
      BY <1>2 DEF IInv, Placed
    <3> QED
      BY <3>1, Types, PlanFacts DEF Formed
  <2>3. DiskIsSound' /\ worked' \subseteq Steps \X Nat /\ stored' \subseteq 1..drafts
    BY <1>2, <2>1, <2>2 DEF IInv, TypeOK, DiskIsSound
  <2> QED
    BY <1>2, <2>3, LeaveInvariant
<1>3. CASE /\ pc = "persist" /\ d.run.init /\ d.eng = eng
           /\ stored' = stored \cup {eng.resp} /\ UNCHANGED worked
  <2>1. Durable(d)'
    BY <1>3, AnswerOnRecord DEF Durable, Sound, Fresh
  <2>2. DiskIsSound' /\ worked' \subseteq Steps \X Nat /\ stored' \subseteq 1..drafts
    BY <1>3, <2>1, AnswerOnRecord DEF IInv, TypeOK, DiskIsSound
  <2> QED
    BY <1>3, <2>2, LeaveInvariant
<1> QED
  BY <1>1, <1>2, <1>3

LEMMA FailInvariant ==
    ASSUME IInv, Fail
    PROVE  IInv'
<1>1. /\ pc = "fail" /\ disk' = {[run |-> run, eng |-> eng]} /\ Leave
      /\ UNCHANGED <<mode, worked, partial, broken, drafts, stored, shown, starts>>
  BY DEF Fail, Saved, history
<1>2. ~Initializing
  BY <1>1 DEF IInv, Placed, Initializing, None
<1>3. PICK d : d = [run |-> run, eng |-> eng]
  OBVIOUS
<1>4. Durable(d)
  BY <1>1, <1>2, <1>3, MemoryIsDurable
<1> QED
  BY <1>1, <1>3, <1>4, OverwriteInvariant

LEMMA NeverFacts ==
    ASSUME NEW r \in RunState, NEW e
    PROVE  LET d == [run |-> r, eng |-> e]
               n == [r EXCEPT !.safety = "never"]
           IN /\ [d EXCEPT !.run.safety = "never"] = [run |-> n, eng |-> e]
              /\ n \in RunState /\ n.safety = "never" /\ n.init = r.init
<1> DEFINE n == [r EXCEPT !.safety = "never"]
<1>1. n \in RunState /\ n.safety = "never" /\ n.init = r.init
  BY DEF RunState
<1>2. [[run |-> r, eng |-> e] EXCEPT !.run.safety = "never"] = [run |-> n, eng |-> e]
  OBVIOUS
<1> QED
  BY <1>1, <1>2

LEMMA LeftIsDurable ==
    ASSUME IInv, pc # "idle", NEW d \in Left
    PROVE  /\ Durable(d) /\ Durable([d EXCEPT !.run.safety = "never"])
           /\ ~Initializing => d = [run |-> run, eng |-> eng] /\ run.init
<1>1. PICK r, e : d = [run |-> r, eng |-> e] /\ r = [run EXCEPT !.init = ~Initializing]
                  /\ e = IF pc = "save_begin" \/ ~Initializing THEN eng ELSE NoPlan
  BY DEF Left
<1> DEFINE n == [r EXCEPT !.safety = "never"]
<1>2. r \in RunState /\ r.safety = run.safety /\ (r.init <=> ~Initializing)
  BY <1>1, Types DEF RunState
<1>3. /\ [d EXCEPT !.run.safety = "never"] = [run |-> n, eng |-> e]
      /\ n \in RunState /\ n.safety = "never" /\ n.init = r.init
  BY <1>1, <1>2, NeverFacts
<1> HIDE DEF n
<1>4. CASE Initializing
  <2>1. Unbegun
    BY <1>4 DEF IInv, Tracked
  <2>2. e \in EngineState /\ Sound(e)
    BY <1>1, NoPlanFacts, Types DEF IInv, Sound
  <2>3. ASSUME NEW x \in {r, n}
        PROVE  Durable([run |-> x, eng |-> e])
    <3>1. x \in RunState /\ ~x.init
      BY <1>2, <1>3, <1>4
    <3> QED
      BY <2>1, <2>2, <3>1 DEF Durable, Unbegun, Fresh
  <2> QED
    BY <1>1, <1>3, <1>4, <2>3
<1>5. CASE ~Initializing
  <2>1. run.init /\ r.init /\ e = eng
    BY <1>1, <1>2, <1>5 DEF IInv, Tracked, Initializing
  <2>2. r = run
    <3>1. run.init = TRUE
      BY <2>1, Types DEF RunState
    <3>2. r = [run EXCEPT !.init = TRUE]
      BY <1>1, <1>5
    <3> QED
      BY <3>1, <3>2, Types DEF RunState
  <2>3. Durable([run |-> r, eng |-> e])
    BY <1>5, <2>1, <2>2, MemoryIsDurable
  <2>4. Durable([run |-> n, eng |-> e])
    BY <1>3, <2>1, <2>3 DEF Durable
  <2> QED
    BY <1>1, <1>3, <2>1, <2>2, <2>3, <2>4
<1> QED
  BY <1>4, <1>5

LEMMA InterruptInvariant ==
    ASSUME IInv, Interrupt
    PROVE  IInv'
<1>1. /\ pc # "idle" /\ disk' = Left /\ Leave
      /\ UNCHANGED <<mode, partial, broken, drafts, shown, starts>>
      /\ \/ UNCHANGED <<worked, stored>>
         \/ /\ pc = "tools" /\ worked' = worked \cup {<<Current(eng), eng.version>>}
            /\ UNCHANGED stored
         \/ /\ pc = "persist" /\ stored' = stored \cup {eng.resp} /\ UNCHANGED worked
  BY DEF Interrupt, Labels, SaveLabels
<1>2. PICK d : disk' = {d} /\ d \in Left
  BY <1>1 DEF Left
<1>3. Durable(d) /\ (~Initializing => d = [run |-> run, eng |-> eng] /\ run.init)
  BY <1>1, <1>2, LeftIsDurable
<1>4. pc = "tools" => ~Initializing /\ run.safety = "manual"
  BY DEF IInv, Placed, WorkedOnce, Initializing, None
<1>5. pc = "persist" => ~Initializing
  BY AnswerOnRecord
<1> QED
  BY <1>1, <1>2, <1>3, <1>4, <1>5, OverwriteInvariant

LEMMA GuardTripsInvariant ==
    ASSUME IInv, GuardTrips
    PROVE  IInv'
<1>1. /\ pc # "idle" /\ disk' = {[d EXCEPT !.run.safety = "never"] : d \in Left} /\ Leave
      /\ UNCHANGED <<mode, worked, partial, broken, drafts, stored, shown, starts>>
  BY DEF GuardTrips, history
<1>2. PICK d : Left = {d}
  BY DEF Left
<1>3. Durable([d EXCEPT !.run.safety = "never"])
  BY <1>1, <1>2, LeftIsDurable
<1>4. disk' = {[d EXCEPT !.run.safety = "never"]}
  BY <1>1, <1>2
<1> QED
  BY <1>1, <1>3, <1>4, OverwriteInvariant

LEMMA CrashInvariant ==
    ASSUME IInv, Crash
    PROVE  IInv'
<1>1. /\ pc # "idle" /\ Leave /\ UNCHANGED <<mode, starts>>
      /\ InFlight \/ UNCHANGED <<disk, history>>
  BY DEF Crash
<1>2. worked \subseteq Steps \X Nat /\ stored \subseteq 1..drafts /\ drafts \in Nat
  BY DEF IInv, TypeOK
<1>3. CASE UNCHANGED <<disk, history>>
  <2>1. DiskIsSound'
    BY <1>2, <1>3, DiskStays DEF history
  <2> QED
    BY <1>1, <1>2, <1>3, <2>1, LeaveInvariant DEF history
<1>4. CASE pc \in SaveLabels \cup {"reserve"} /\ disk' = Saved(Snapshot) /\ UNCHANGED history
  <2>1. DiskIsSound'
    BY <1>4, SavingIsSound
  <2> QED
    BY <1>1, <1>2, <1>4, <2>1, LeaveInvariant DEF history
<1>5. CASE /\ pc = "tools" /\ worked' = worked \cup {<<Current(eng), eng.version>>}
           /\ UNCHANGED <<disk, partial, broken, drafts, stored, shown>>
  <2>1. DiskIsSound' /\ worked' \subseteq Steps \X Nat
    BY <1>5, WorkInvariant
  <2> QED
    BY <1>1, <1>2, <1>5, <2>1, LeaveInvariant
<1>6. CASE /\ pc = "persist" /\ stored' = stored \cup {eng.resp}
           /\ UNCHANGED <<disk, worked, partial, broken, drafts, shown>>
  <2>1. /\ eng.resp \in 1..drafts
        /\ \A d \in disk : d.run.init /\ d.eng.phase = "finalize" /\ d.eng.resp = eng.resp
    BY <1>6, AnswerOnRecord DEF IInv, OneAnswer
  <2>2. shown # 1 /\ \A d \in disk : Durable(d)
    BY <1>6, AnswerOnRecord DEF IInv, DiskIsSound
  <2>3. \A d \in disk : Durable(d)'
    BY <1>6, <2>1, <2>2 DEF Durable, Sound, Fresh
  <2>4. DiskIsSound' /\ stored' \subseteq 1..drafts
    BY <1>2, <1>6, <2>1, <2>3 DEF IInv, DiskIsSound
  <2> QED
    BY <1>1, <1>2, <1>6, <2>4, LeaveInvariant
<1>7. CASE pc = "finish" /\ disk' = {} /\ UNCHANGED history
  <2>1. DiskIsSound'
    BY <1>7 DEF DiskIsSound
  <2> QED
    BY <1>1, <1>2, <1>7, <2>1, LeaveInvariant DEF history
<1> QED
  BY <1>1, <1>3, <1>4, <1>5, <1>6, <1>7 DEF InFlight

-----------------------------------------------------------------------------
(* The invariant holds. *)
LEMMA NextInvariant ==
    ASSUME IInv, [Next]_vars
    PROVE  IInv'
<1>1. CASE Step
  <2>1. CASE Checkpoint \/ Reserve \/ Plan \/ EndOfRun \/ Prepare \/ Ask \/ Respond
    BY <2>1, CheckpointInvariant, ReserveInvariant, PlanInvariant, EndOfRunInvariant,
       PrepareInvariant, AskInvariant, RespondInvariant
  <2>2. CASE GiveUpRepair \/ Retry \/ AskResult \/ CallTools \/ Reject \/ Commit \/ ReplanStep
    BY <2>2, GiveUpRepairInvariant, RetryInvariant, AskResultInvariant, CallToolsInvariant,
       RejectInvariant, CommitInvariant, ReplanStepInvariant
  <2>3. CASE Intent \/ RunTools \/ ToolsFail \/ Observe \/ Revise \/ RevisionFails
    BY <2>3, IntentInvariant, RunToolsInvariant, ToolsFailInvariant, ObserveInvariant,
       ReviseInvariant, RevisionFailsInvariant
  <2>4. CASE Finalize \/ Answer \/ Persist \/ Show \/ Finish \/ Fail
    BY <2>4, FinalizeInvariant, AnswerInvariant, PersistInvariant, ShowInvariant,
       FinishInvariant, FailInvariant
  <2> QED
    BY <1>1, <2>1, <2>2, <2>3, <2>4 DEF Step
<1>2. CASE Launch \/ Resume \/ Interrupt \/ GuardTrips \/ Crash
  BY <1>2, LaunchInvariant, ResumeInvariant, InterruptInvariant, GuardTripsInvariant,
     CrashInvariant
<1>3. CASE UNCHANGED vars
  BY <1>3 DEF vars, memory, history, IInv, TypeOK, Sound, DiskIsSound, Durable, Placed, Tracked,
              WorkedOnce, PartialEnds, OneAnswer, Fresh, Strict, Unbegun, Asking, Initializing
<1> QED
  BY <1>1, <1>2, <1>3 DEF Next

LEMMA PlanRunInvariant == Spec => []IInv
<1> QED
  BY InitInvariant, NextInvariant, PTL DEF Spec

-----------------------------------------------------------------------------
(* What follows. *)

(* A call that succeeded is of a committed step or of an older version of   *)
(* the plan when the engine reaches the tools, and the current step is      *)
(* never committed: the engine's state after a batch awaits the StepResult  *)
(* (decide, execute_tool_batch).                                            *)
THEOREM ToolsAreNotRepeated == Spec => []ToolsSucceedOnce
<1>1. IInv => ToolsSucceedOnce
  <2> SUFFICES ASSUME IInv, pc = "tools"
               PROVE  <<Current(eng), eng.version>> \notin worked
    BY DEF ToolsSucceedOnce
  <2>1. Strict(eng) /\ eng.phase = "result"
    BY DEF IInv, WorkedOnce, Placed
  <2>2. Current(eng) \notin eng.done
    BY <2>1, Types, PlanFacts DEF Formed
  <2> QED
    BY <2>1, <2>2 DEF Strict
<1> QED
  BY <1>1, PlanRunInvariant, PTL

(* After a batch that succeeded in part the common run state stays          *)
(* "manual", so that no checkpoint of the run can be resumed, and the live  *)
(* process gets no further than the failure of the step or the revision     *)
(* after which it fails it (ToolRecoveryController.decide,                  *)
(* _reconcile_recovery).                                                    *)
THEOREM PartialBatchIsFinal == Spec => []PartialBatchEndsRun
<1>1. IInv => PartialBatchEndsRun
  BY DEF IInv, DiskIsSound, Durable, PartialEnds, PartialBatchEndsRun
<1> QED
  BY <1>1, PlanRunInvariant, PTL

(* An answer is on record, in memory and in the checkpoint, before it is    *)
(* stored, so that whoever finalizes the run again stores the same one; and *)
(* the phases that finalize a run have a plan of committed steps            *)
(* (_finalize).                                                             *)
THEOREM OneAnswerForThePlan == Spec => []AnswerFollowsPlan
<1>1. IInv => AnswerFollowsPlan
  <2> SUFFICES ASSUME IInv
               PROVE  AnswerFollowsPlan
    OBVIOUS
  <2>1. Cardinality(stored) <= 1
    <3>1. CASE stored = {}
      BY <3>1, FS_EmptySet
    <3>2. CASE stored # {}
      <4>1. PICK r : stored = {r}
        BY <3>2 DEF IInv, OneAnswer
      <4>2. Cardinality({r}) = 1
        BY FS_Singleton
      <4> QED
        BY <4>1, <4>2
    <3> QED
      BY <3>1, <3>2
  <2>2. ASSUME stored # {}, NEW d \in disk
        PROVE  Complete(d.eng)
    BY <2>2, Types DEF IInv, DiskIsSound, Durable, Formed
  <2>3. shown <= 1 /\ (shown = 1 => stored # {})
    BY DEF IInv, OneAnswer
  <2> QED
    BY <2>1, <2>2, <2>3 DEF AnswerFollowsPlan
<1> QED
  BY <1>1, PlanRunInvariant, PTL

(* What the process writes over a checkpoint is the last snapshot or the    *)
(* engine's state, and both have the checkpoint's progress.                 *)
LEMMA WrittenIsLater ==
    ASSUME IInv, pc # "idle", NEW d \in disk, d.run.init
    PROVE  /\ ~Initializing
           /\ Later(d.eng, last) /\ Later(d.eng, eng)
           /\ pc \in SaveLabels \cup {"reserve"} => Later(d.eng, Snapshot)
<1>1. ~Initializing /\ Later(last, eng) /\ Alike(d.eng, last)
  BY DEF IInv, Tracked
<1>2. Later(last, last)
  BY Types, LaterIsReflexive
<1>3. Later(d.eng, last) /\ Later(d.eng, eng)
  BY <1>1, <1>2, Types, LaterFacts
<1>4. ASSUME pc \in SaveLabels \cup {"reserve"}
      PROVE  Later(d.eng, Snapshot)
  <2>1. CASE pc = "reserve"
    BY <1>3, <2>1 DEF Snapshot
  <2>2. CASE pc \in SaveLabels
    <3>1. pc # "save_start"
      BY <1>1 DEF Initializing
    <3>2. Snapshot \in EngineState /\ Alike(Snapshot, eng)
      BY <2>2, <3>1, SnapshotFacts
    <3> QED
      BY <1>3, <3>2, Types, LaterFacts
  <2> QED
    BY <1>4, <2>1, <2>2
<1> QED
  BY <1>1, <1>3, <1>4

LEMMA DiskIsLater ==
    ASSUME IInv, [Next]_vars, NEW d \in disk, NEW c \in disk', d.run.init
    PROVE  Later(d.eng, c.eng)
<1>1. CASE UNCHANGED disk
  <2>1. c = d
    BY <1>1 DEF IInv, DiskIsSound
  <2> QED
    BY <2>1, Types, LaterIsReflexive DEF Formed
<1>2. CASE pc \in SaveLabels \cup {"reserve"} /\ disk' = Saved(Snapshot)
  <2>1. pc # "idle" /\ c.eng = Snapshot
    BY <1>2 DEF SaveLabels, Saved
  <2> QED
    BY <1>2, <2>1, WrittenIsLater
<1>3. CASE Fail
  <2>1. pc # "idle" /\ c.eng = eng
    BY <1>3 DEF Fail, Saved
  <2> QED
    BY <2>1, WrittenIsLater
<1>4. CASE Interrupt \/ GuardTrips
  <2>1. pc # "idle" /\ (disk' = Left \/ disk' = {[x EXCEPT !.run.safety = "never"] : x \in Left})
    BY <1>4 DEF Interrupt, GuardTrips, Labels, SaveLabels
  <2>2. PICK x \in Left : c = x \/ c = [x EXCEPT !.run.safety = "never"]
    BY <2>1
  <2>3. c.eng = x.eng
    BY <2>2 DEF Left
  <2>4. ~Initializing /\ Later(d.eng, eng)
    BY <2>1, WrittenIsLater
  <2>5. x.eng = eng
    BY <2>4 DEF Left
  <2> QED
    BY <2>3, <2>4, <2>5
<1>5. CASE disk' = {}
  BY <1>5
<1>6. CASE Step
  <2>1. Checkpoint \/ Reserve => pc \in SaveLabels \cup {"reserve"} /\ disk' = Saved(Snapshot)
    BY DEF Checkpoint, Reserve, Snapshot
  <2>2. CASE Plan \/ EndOfRun \/ Prepare \/ Ask \/ Respond
    BY <1>1, <2>2 DEF Plan, EndOfRun, Prepare, Ask, Respond
  <2>3. CASE GiveUpRepair \/ Retry \/ AskResult \/ CallTools \/ Reject \/ Commit \/ ReplanStep
    BY <1>1, <2>3
       DEF GiveUpRepair, Retry, AskResult, CallTools, Reject, Commit, ReplanStep, Quiet
  <2>4. CASE Intent \/ RunTools \/ ToolsFail \/ Observe \/ Revise \/ RevisionFails
    BY <1>1, <2>4 DEF Intent, RunTools, ToolsFail, Observe, Revise, RevisionFails, Quiet
  <2>5. CASE Finalize \/ Answer \/ Persist \/ Show
    BY <1>1, <2>5 DEF Finalize, Answer, Persist, Show
  <2>6. Finish => disk' = {}
    BY DEF Finish
  <2> QED
    BY <1>2, <1>3, <1>5, <1>6, <2>1, <2>2, <2>3, <2>4, <2>5, <2>6 DEF Step
<1>7. CASE Launch \/ Resume
  BY <1>1, <1>7 DEF Launch, Resume
<1>8. CASE Crash
  <2>1. \/ UNCHANGED disk
        \/ pc \in SaveLabels \cup {"reserve"} /\ disk' = Saved(Snapshot)
        \/ disk' = {}
    BY <1>8 DEF Crash, InFlight
  <2> QED
    BY <1>1, <1>2, <1>5, <2>1
<1>9. CASE UNCHANGED vars
  BY <1>1, <1>9 DEF vars
<1> QED
  BY <1>4, <1>6, <1>7, <1>8, <1>9 DEF Next

(* A checkpoint is overwritten only by a later one: committed steps stay    *)
(* first in every revision, an open step keeps its attempts, and what an    *)
(* interrupted call of the policy did is lost as a whole (_apply_replan,    *)
(* commit_pending, _retry_invalid_result, the engine's snapshots).          *)
THEOREM ProgressSurvives == Spec => ProgressIsKept
<1>1. IInv /\ [Next]_vars => [\A d \in disk, c \in disk' : d.run.init => Later(d.eng, c.eng)]_vars
  BY DiskIsLater
<1> QED
  BY <1>1, PlanRunInvariant, PTL DEF Spec, ProgressIsKept
=============================================================================
