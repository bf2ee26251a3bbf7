-------------------------- MODULE EventDeliveryProofs --------------------------
(***************************************************************************)
(* Proofs about the delivery of events, for any delegations beside the     *)
(* engine, any queue lengths and any number of resumptions.  An event that *)
(* was published is in one place at a time on its way to the stream, and a *)
(* number that a checkpoint covers is below those of later processes.      *)
(***************************************************************************)
EXTENDS EventDelivery, FiniteSetTheorems, WellFoundedInduction, TLAPS

Ending == {"last", "lastafter", "terminal", "joining", "closing", "closed"}

(* Where the engine is when the coordinator is where it is, and who has a  *)
(* number then.                                                            *)
EngineFollows ==
    /\ coord \in {"new", "opening", "gone"} => eng = "none"
    /\ coord = "init" => eng \in {"init", "ready", "failed"}
    /\ coord \in {"loop", "wait", "check"} =>
          eng \in {"run", "tools", "yielded", "outcome", "failed"}
    /\ coord \in {"emitted", "restart"} => eng = "yielded"
    /\ coord \in Ending => eng \in {"outcome", "failed"}

NumbersAreHeld ==
    /\ \A p \in Publishers : pub[p].at = "idle" => pub[p] = Free
    /\ pub["coordinator"].at # "idle" <=> coord \in {"opening", "joining"}
    /\ pub["engine"].at # "idle" <=> task # "none"
    /\ task # "none" => eng \in {"init", "run"}
    /\ task = "emit" => eng = "run"
    /\ task = "save" => pub["engine"].at = "reserved"
    /\ eng # "tools" => Quiet
    /\ emission # 0 <=> eng = "yielded" /\ coord \in {"loop", "wait", "check"}

(* A number belongs to one publisher, and is new until it is dispatched. *)
NumbersAreNew ==
    /\ Own \subseteq 1..num
    /\ \A p \in Publishers :
          /\ pub[p].at # "idle" => pub[p].n \in 1..num
          /\ pub[p].at = "reserved" => pub[p].n \notin Own
    /\ \A p, q \in Publishers : p # q /\ pub[p].at # "idle" => pub[p].n # pub[q].n

(* The places of the events of this process that were published. *)
SentNow == {pub[p].n : p \in {p \in Publishers : pub[p].at = "sent"}}
Emission == {emission} \ {0}

Apart(A, B, C, D, E, F) ==
    /\ A \cap (B \cup C \cup D \cup E \cup F) = {}
    /\ B \cap (C \cup D \cup E \cup F) = {}
    /\ C \cap (D \cup E \cup F) = {}
    /\ D \cap (E \cup F) = {}
    /\ E \cap F = {}

InOnePlace ==
    /\ Own = ToSet(stream) \cup ToSet(out) \cup ToSet(pending) \cup ToSet(after)
                \cup Emission \cup SentNow
    /\ Apart(ToSet(stream), ToSet(out), ToSet(pending), ToSet(after), Emission, SentNow)

EachOnce == \A q \in {stream, out, pending, after, sinkq, given} : IsInjective(q)

Places == EachOnce /\ (coord # "gone" => InOnePlace)

(* What is left to yield when the engine has ended, and after the run. *)
RestIsTaken ==
    /\ coord = "gone" => out = <<>>
    /\ coord \in Ending \ {"last"} => pending = <<>>
    /\ coord \in Ending \ {"last", "lastafter"} => after = <<>>
    /\ coord = "joining" => pub["coordinator"].n = num
    /\ coord = "closing" => \/ out = <<num>>
                            \/ out = <<>> /\ stream # <<>> /\ stream[Len(stream)] = num
    /\ coord = "closed" => out = <<>> /\ stream # <<>> /\ stream[Len(stream)] = num

SinkOnce ==
    /\ ToSet(given) \subseteq Own /\ ToSet(sinkq) \subseteq Own
    /\ ToSet(given) \cap ToSet(sinkq) = {}
    /\ worker # 0 => ~circuit

(* What a checkpoint on disk covers; events of a process are numbered from *)
(* the checkpoint it was resumed from.                                     *)
CheckpointsCover ==
    /\ \A d \in public :
          /\ d[1] \in 0..epoch
          /\ d[3] => d[2] <= num /\ (disk > 0 => d[2] <= disk)
          /\ d[3] /\ d[1] < epoch => \A p \in Publishers : pub[p].at # "idle" => d[2] < pub[p].n
    /\ task = "saved" => 0 < disk /\ pub["engine"].n <= disk
    /\ disk <= num
    /\ CheckpointNumbersLast

Control == EngineFollows /\ NumbersAreHeld

IInv ==
    TypeOK /\ Control /\ NumbersAreNew /\ Places /\ RestIsTaken /\ SinkOnce /\ CheckpointsCover

-----------------------------------------------------------------------------
(* Sequences of numbers. *)
LEMMA AppendFacts ==
    ASSUME NEW q \in Seq(Numbers), NEW n \in Numbers
    PROVE  /\ Append(q, n) \in Seq(Numbers) /\ Len(Append(q, n)) = Len(q) + 1
           /\ Append(q, n)[Len(q) + 1] = n
           /\ ToSet(Append(q, n)) = ToSet(q) \cup {n}
           /\ IsInjective(q) /\ n \notin ToSet(q) => IsInjective(Append(q, n))
<1>1. /\ Append(q, n) \in Seq(Numbers) /\ Len(Append(q, n)) = Len(q) + 1 /\ Len(q) \in Nat
      /\ \A k \in 1..Len(q) : Append(q, n)[k] = q[k]
      /\ Append(q, n)[Len(q) + 1] = n
  OBVIOUS
<1>2. ToSet(Append(q, n)) = ToSet(q) \cup {n}
  BY <1>1 DEF ToSet
<1>3. IsInjective(q) /\ n \notin ToSet(q) => IsInjective(Append(q, n))
  BY <1>1 DEF ToSet, IsInjective
<1> QED
  BY <1>1, <1>2, <1>3

LEMMA HeadFacts ==
    ASSUME NEW q \in Seq(Numbers), q # <<>>
    PROVE  /\ Head(q) \in Numbers /\ Tail(q) \in Seq(Numbers) /\ Len(Tail(q)) = Len(q) - 1
           /\ ToSet(q) = ToSet(Tail(q)) \cup {Head(q)}
           /\ IsInjective(q) => IsInjective(Tail(q)) /\ Head(q) \notin ToSet(Tail(q))
<1>1. /\ Len(q) \in Nat \ {0} /\ Head(q) = q[1] /\ Tail(q) \in Seq(Numbers)
      /\ Len(Tail(q)) = Len(q) - 1
      /\ \A k \in 1..Len(q) - 1 : Tail(q)[k] = q[k + 1]
      /\ q[1] \in Numbers
  OBVIOUS
<1> DEFINE h == Head(q)
<1> DEFINE t == Tail(q)
<1>2. /\ t \in Seq(Numbers) /\ Len(t) = Len(q) - 1
      /\ \A k \in 1..Len(t) : k + 1 \in 1..Len(q) /\ t[k] = q[k + 1]
      /\ h = q[1] /\ h \in Numbers /\ 1 \in 1..Len(q)
  BY <1>1
<1> HIDE DEF h, t
<1>3. ToSet(q) = ToSet(t) \cup {h}
  <2>1. \A k \in 1..Len(q) : q[k] = h \/ (k - 1 \in 1..Len(t) /\ q[k] = t[k - 1])
    BY <1>1, <1>2
  <2>2. \A x : x \in ToSet(q) <=> \E k \in 1..Len(q) : q[k] = x
    BY DEF ToSet
  <2>3. \A x : x \in ToSet(t) <=> \E k \in 1..Len(t) : t[k] = x
    BY <1>2 DEF ToSet
  <2>4. \A x : x \in ToSet(q) => x \in ToSet(t) \cup {h}
    BY <2>1, <2>2, <2>3
  <2>5. \A x : x \in ToSet(t) \cup {h} => x \in ToSet(q)
    BY <1>2, <2>2, <2>3
  <2> QED
    BY <2>4, <2>5
<1>4. ASSUME IsInjective(q)
      PROVE  IsInjective(t) /\ h \notin ToSet(t)
  <2>1. DOMAIN q = 1..Len(q) /\ DOMAIN t = 1..Len(t)
    BY <1>2
  <2>2. \A i, j \in 1..Len(q) : q[i] = q[j] => i = j
    BY <1>4, <2>1 DEF IsInjective
  <2>3. \A i, j \in 1..Len(t) : t[i] = t[j] => i = j
    BY <1>1, <1>2, <2>2
  <2>4. \A k \in 1..Len(t) : t[k] # h
    BY <1>1, <1>2, <2>2
  <2> QED
    BY <2>1, <2>3, <2>4 DEF ToSet, IsInjective
<1> QED
  BY <1>1, <1>2, <1>3, <1>4 DEF h, t

LEMMA ShortFacts ==
    /\ <<>> \in Seq(Numbers) /\ Len(<<>>) = 0 /\ ToSet(<<>>) = {} /\ IsInjective(<<>>)
    /\ \A n \in Numbers : /\ <<n>> \in Seq(Numbers) /\ ToSet(<<n>>) = {n} /\ IsInjective(<<n>>)
                          /\ <<n>> # <<>>
<1>1. <<>> \in Seq(Numbers) /\ Len(<<>>) = 0 /\ ToSet(<<>>) = {} /\ IsInjective(<<>>)
  BY DEF ToSet, IsInjective
<1>2. ASSUME NEW n \in Numbers
      PROVE  <<n>> \in Seq(Numbers) /\ ToSet(<<n>>) = {n} /\ IsInjective(<<n>>) /\ <<n>> # <<>>
  BY DEF ToSet, IsInjective
<1> QED
  BY <1>1, <1>2

LEMMA LeastNumber ==
    ASSUME NEW T \in SUBSET Nat, T # {}
    PROVE  \E m \in T : \A k \in T : m <= k
<1> DEFINE R == {pair \in Nat \X Nat : pair[1] < pair[2]}
<1>1. IsWellFoundedOn(R, Nat)
  BY NatLessThanWellFounded, Zenon DEF OpToRel
<1>2. \A j, k \in Nat : j < k => <<j, k>> \in R
  OBVIOUS
<1> HIDE DEF R
<1>3. PICK m \in T : \A k \in T : <<k, m>> \notin R
  BY <1>1, WFMin
<1>4. m \in Nat /\ \A k \in T : k \in Nat /\ ~(k < m)
  BY <1>2, <1>3
<1> QED
  BY <1>4

(* Every set of numbers has its ascending sequence. *)
Sorted(q, S) ==
    /\ q \in [1..Cardinality(S) -> S] /\ ToSet(q) = S
    /\ \A i, j \in 1..Cardinality(S) : i < j => q[i] < q[j]

LEMMA SortedExists ==
    ASSUME NEW S \in SUBSET Nat, NEW b \in Nat, \A x \in S : x < b
    PROVE  IsFiniteSet(S) /\ \E q : Sorted(q, S)
<1> DEFINE Good(m) == \A T \in SUBSET Nat :
                         (\A x \in T : x < m) => IsFiniteSet(T) /\ \E q : Sorted(q, T)
<1> DEFINE Bad == {m \in Nat : ~Good(m)}
<1>1. Good(0)
  <2> SUFFICES ASSUME NEW T \in SUBSET Nat, \A x \in T : x < 0
               PROVE  IsFiniteSet(T) /\ \E q : Sorted(q, T)
    OBVIOUS
  <2>1. T = {}
    OBVIOUS
  <2>2. Sorted(<<>>, {})
    BY FS_EmptySet DEF Sorted, ToSet
  <2> QED
    BY <2>1, <2>2, FS_EmptySet
<1>2. ASSUME NEW m \in Nat, Good(m)
      PROVE  Good(m + 1)
  <2> SUFFICES ASSUME NEW T \in SUBSET Nat, \A x \in T : x < m + 1
               PROVE  IsFiniteSet(T) /\ \E q : Sorted(q, T)
    OBVIOUS
  <2>1. CASE m \notin T
    <3>1. \A x \in T : x < m
      BY <2>1
    <3> QED
      BY <1>2, <3>1
  <2>2. CASE m \in T
    <3> DEFINE U == T \ {m}
    <3>1. U \in SUBSET Nat /\ \A x \in U : x < m
      OBVIOUS
    <3>2. IsFiniteSet(U)
      BY <1>2, <3>1
    <3>3. PICK q : Sorted(q, U)
      BY <1>2, <3>1
    <3>4. T = U \cup {m} /\ m \notin U
      BY <2>2
    <3> HIDE DEF U
    <3>5. IsFiniteSet(T) /\ Cardinality(T) = Cardinality(U) + 1 /\ Cardinality(U) \in Nat
      BY <3>2, <3>4, FS_AddElement, FS_CardinalityType
    <3> DEFINE r == [k \in 1..Cardinality(U) + 1 |-> IF k = Cardinality(U) + 1 THEN m ELSE q[k]]
    <3>6. r \in [1..Cardinality(T) -> T]
      <4>1. \A k \in 1..Cardinality(U) : q[k] \in U
        BY <3>3 DEF Sorted
      <4>2. \A k \in 1..Cardinality(U) + 1 :
              (IF k = Cardinality(U) + 1 THEN m ELSE q[k]) \in T
        BY <3>4, <3>5, <4>1
      <4> QED
        BY <3>5, <4>2
    <3>7. ToSet(r) = T
      <4>1. \A x \in U : \E k \in 1..Cardinality(U) : q[k] = x
        BY <3>3 DEF Sorted, ToSet
      <4>2. \A k \in 1..Cardinality(U) : q[k] \in U /\ r[k] = q[k]
        BY <3>3, <3>5 DEF Sorted
      <4>3. r[Cardinality(U) + 1] = m
        BY <3>5
      <4>4. \A x \in T : \E k \in 1..Cardinality(T) : r[k] = x
        BY <3>4, <3>5, <4>1, <4>2, <4>3
      <4> HIDE DEF r
      <4> QED
        BY <3>6, <4>4 DEF ToSet
    <3>8. \A i, j \in 1..Cardinality(T) : i < j => r[i] < r[j]
      <4> SUFFICES ASSUME NEW i \in 1..Cardinality(T), NEW j \in 1..Cardinality(T), i < j
                   PROVE  r[i] < r[j]
        OBVIOUS
      <4>1. i \in 1..Cardinality(U) /\ r[i] = q[i] /\ q[i] \in U
        BY <3>3, <3>5 DEF Sorted
      <4>2. CASE j = Cardinality(U) + 1
        BY <3>1, <3>5, <4>1, <4>2
      <4>3. CASE j # Cardinality(U) + 1
        BY <3>3, <3>5, <4>1, <4>3 DEF Sorted
      <4> QED
        BY <4>2, <4>3
    <3> QED
      BY <3>5, <3>6, <3>7, <3>8 DEF Sorted
  <2> QED
    BY <2>1, <2>2
<1>3. Bad = {}
  <2> SUFFICES ASSUME Bad # {}
               PROVE  FALSE
    OBVIOUS
  <2> HIDE DEF Good
  <2>1. PICK m \in Bad : \A k \in Bad : m <= k
    BY LeastNumber
  <2>2. m \in Nat /\ m # 0 /\ ~Good(m)
    BY <1>1
  <2>3. m - 1 \in Nat /\ Good(m - 1)
    BY <2>1, <2>2
  <2> QED
    BY <1>2, <2>2, <2>3
<1> QED
  BY <1>3

LEMMA AscendingFacts ==
    ASSUME NEW S \in SUBSET Numbers
    PROVE  /\ Ascending(S) \in Seq(Numbers)
           /\ ToSet(Ascending(S)) = S /\ IsInjective(Ascending(S))
<1>1. IsFiniteSet(S) /\ \E q : Sorted(q, S)
  <2>1. MaxEvents + 1 \in Nat /\ S \in SUBSET Nat /\ \A x \in S : x < MaxEvents + 1
    BY DeliveryAssumption DEF Numbers
  <2> QED
    BY <2>1, SortedExists
<1>2. Sorted(Ascending(S), S) /\ Cardinality(S) \in Nat
  BY <1>1, FS_CardinalityType DEF Sorted, Ascending
<1>3. Ascending(S) \in [1..Cardinality(S) -> Numbers] /\ ToSet(Ascending(S)) = S
  BY <1>2 DEF Sorted
<1>4. Ascending(S) \in Seq(Numbers)
  BY <1>2, <1>3
<1>5. IsInjective(Ascending(S))
  <2>1. \A x \in S : x \in Int
    BY DEF Numbers
  <2> QED
    BY <1>2, <2>1 DEF Sorted, IsInjective
<1> QED
  BY <1>3, <1>4, <1>5

-----------------------------------------------------------------------------
(* What is published, and what is on its way out of a publisher. *)
LEMMA OwnGrows ==
    ASSUME NEW n, NEW b, public' = public \cup {<<epoch, n, b>>}, epoch' = epoch
    PROVE  Own' = Own \cup {n}
<1> DEFINE new == <<epoch, n, b>>
<1>1. /\ new[1] = epoch /\ new[2] = n
      /\ \A x : x \in public' <=> x \in public \/ x = new
  OBVIOUS
<1>2. \A k : k \in Own <=> \E x \in public : x[1] = epoch /\ k = x[2]
  BY DEF Own
<1>3. \A k : k \in Own' <=> \E x \in public' : x[1] = epoch /\ k = x[2]
  BY DEF Own
<1> HIDE DEF new
<1>4. \A k : k \in Own' <=> k \in Own \/ k = n
  BY <1>1, <1>2, <1>3
<1> QED
  BY <1>4

LEMMA OwnStays ==
    ASSUME UNCHANGED <<public, epoch>>
    PROVE  Own' = Own
BY DEF Own

LEMMA SentGrows ==
    ASSUME NEW p \in Publishers, TypeOK, pub[p].at = "reserved",
           pub' = [pub EXCEPT ![p].at = "sent"]
    PROVE  SentNow' = SentNow \cup {pub[p].n}
BY DEF TypeOK, SentNow

LEMMA SentShrinks ==
    ASSUME NEW p \in Publishers, TypeOK, NumbersAreNew, Sent(p)
    PROVE  SentNow' = SentNow \ {pub[p].n} /\ pub[p].n \in SentNow /\ pub[p].n \in Numbers
BY DEF TypeOK, NumbersAreNew, Sent, Free, SentNow

LEMMA SentStays ==
    ASSUME UNCHANGED pub
    PROVE  SentNow' = SentNow
BY DEF SentNow

LEMMA Names ==
    /\ "engine" \in Publishers /\ "coordinator" \in Publishers
    /\ \A c \in Callbacks : c \in Publishers /\ c # "engine" /\ c # "coordinator"
BY DeliveryAssumption DEF Publishers

(* A reservation takes a new number, and publishes nothing. *)
LEMMA ReserveFacts ==
    ASSUME IInv, NEW p \in Publishers, Reserve(p), UNCHANGED <<public, epoch>>
    PROVE  /\ num' = num + 1 /\ num' \in Numbers
           /\ pub' = [pub EXCEPT ![p] = [at |-> "reserved", n |-> num + 1]]
           /\ pub' \in [Publishers -> [at : {"idle", "reserved", "sent"}, n : Numbers]]
           /\ \A q \in Publishers :
                 pub'[q] = IF q = p THEN [at |-> "reserved", n |-> num + 1] ELSE pub[q]
           /\ SentNow' = SentNow
           /\ NumbersAreNew'
<1>1. /\ num' = num + 1 /\ num' \in Numbers
      /\ pub' = [pub EXCEPT ![p] = [at |-> "reserved", n |-> num + 1]]
      /\ pub' \in [Publishers -> [at : {"idle", "reserved", "sent"}, n : Numbers]]
  BY DeliveryAssumption DEF IInv, TypeOK, Numbers, Reserve
<1>2. SentNow' = SentNow
  BY <1>1 DEF IInv, TypeOK, Reserve, SentNow
<1>3. NumbersAreNew'
  <2>1. Own' = Own
    BY OwnStays
  <2>2. num \in Nat /\ \A q \in Publishers : pub[q].n \in Nat
    BY DeliveryAssumption DEF IInv, TypeOK, Numbers
  <2>3. \A q \in Publishers : pub[q].n <= num
    BY <2>2 DEF IInv, Control, NumbersAreHeld, NumbersAreNew, Free
  <2> QED
    BY <1>1, <2>1, <2>2, <2>3 DEF IInv, TypeOK, NumbersAreNew
<1>4. \A q \in Publishers :
        pub'[q] = IF q = p THEN [at |-> "reserved", n |-> num + 1] ELSE pub[q]
  BY <1>1 DEF IInv, TypeOK
<1> QED
  BY <1>1, <1>2, <1>3, <1>4

LEMMA ReserveKeepsCheckpoints ==
    ASSUME IInv, NEW p \in Publishers, Reserve(p), UNCHANGED <<public, epoch, disk>>,
           p = "engine" => task' # "saved", p # "engine" => task' = task
    PROVE  CheckpointsCover'
<1>1. /\ num' = num + 1 /\ num \in Nat
      /\ pub' = [pub EXCEPT ![p] = [at |-> "reserved", n |-> num + 1]]
  BY DeliveryAssumption DEF IInv, TypeOK, Numbers, Reserve
<1>2. disk \in Nat /\ \A d \in public : d[2] \in Nat
  BY DeliveryAssumption DEF IInv, TypeOK, Numbers
<1>3. "engine" \in Publishers
  BY DEF Publishers
<1> QED
  BY <1>1, <1>2, <1>3 DEF IInv, TypeOK, CheckpointsCover, CheckpointNumbersLast

(* What does not touch the numbers, the places or the sink keeps them. *)
LEMMA Frame ==
    /\ UNCHANGED <<num, pub, public, epoch>> /\ NumbersAreNew => NumbersAreNew'
    /\ UNCHANGED <<public, epoch, given, sinkq, worker, circuit>> /\ SinkOnce => SinkOnce'
    /\ UNCHANGED <<num, pub, public, epoch, disk>> /\ (task' = "saved" => task = "saved")
          /\ CheckpointsCover => CheckpointsCover'
    /\ UNCHANGED <<pub, public, epoch, stream, out, pending, after, emission>> /\ InOnePlace
          => InOnePlace'
    /\ UNCHANGED <<stream, out, pending, after, sinkq, given>> /\ EachOnce => EachOnce'
<1>1. UNCHANGED <<num, pub, public, epoch>> /\ NumbersAreNew => NumbersAreNew'
  BY OwnStays DEF NumbersAreNew
<1>2. UNCHANGED <<public, epoch, given, sinkq, worker, circuit>> /\ SinkOnce => SinkOnce'
  BY OwnStays DEF SinkOnce
<1>3. UNCHANGED <<num, pub, public, epoch, disk>> /\ (task' = "saved" => task = "saved")
          /\ CheckpointsCover => CheckpointsCover'
  BY DEF CheckpointsCover, CheckpointNumbersLast
<1>4. UNCHANGED <<pub, public, epoch, stream, out, pending, after, emission>> /\ InOnePlace
          => InOnePlace'
  BY OwnStays, SentStays DEF InOnePlace, Emission
<1>5. UNCHANGED <<stream, out, pending, after, sinkq, given>> /\ EachOnce => EachOnce'
  BY DEF EachOnce
<1> QED
  BY <1>1, <1>2, <1>3, <1>4, <1>5

-----------------------------------------------------------------------------
LEMMA InitInvariant == Init => IInv
<1> SUFFICES ASSUME Init
             PROVE  IInv
  OBVIOUS
<1>1. TypeOK
  <2>1. 0 \in Numbers /\ 0 \in 0..MaxResumes /\ 0 <= PendMax /\ 0 <= SinkMax
    BY DeliveryAssumption DEF Numbers
  <2>2. \A q \in {out, pending, after, sinkq, stream, given} : q \in Seq(Numbers)
    BY ShortFacts DEF Init
  <2>3. Len(pending) <= PendMax /\ Len(sinkq) <= SinkMax
    BY <2>1 DEF Init
  <2>4. pub \in [Publishers -> [at : {"idle", "reserved", "sent"}, n : Numbers]]
    BY <2>1 DEF Init, Free
  <2> QED
    BY <2>1, <2>2, <2>3, <2>4 DEF Init, TypeOK
<1>2. Control
  BY DEF Init, Control, EngineFollows, NumbersAreHeld, Quiet, Free, Publishers, Ending
<1>3. Own = {} /\ SentNow = {} /\ Emission = {}
  BY DEF Init, Own, SentNow, Emission, Free
<1>4. NumbersAreNew
  BY <1>3 DEF Init, NumbersAreNew, Free
<1>5. Places
  BY <1>3, ShortFacts DEF Init, Places, EachOnce, InOnePlace, Apart
<1>6. RestIsTaken
  BY DEF Init, RestIsTaken, Ending
<1>7. SinkOnce
  BY <1>3, ShortFacts DEF Init, SinkOnce
<1>8. CheckpointsCover
  BY DEF Init, CheckpointsCover, CheckpointNumbersLast
<1> QED
  BY <1>1, <1>2, <1>4, <1>5, <1>6, <1>7, <1>8 DEF IInv

LEMMA DispatchInvariant ==
    ASSUME IInv, NEW p \in Publishers, Dispatch(p)
    PROVE  IInv'
<1> DEFINE n == pub[p].n
<1> DEFINE b == p = "engine" /\ task = "saved"
<1>1. /\ n \in Numbers /\ n \in 1..num /\ n \notin Own /\ b \in BOOLEAN
      /\ pub' = [pub EXCEPT ![p].at = "sent"] /\ pub[p].at = "reserved"
      /\ sinkq' = Append(sinkq, n) \/ sinkq' = sinkq
      /\ public' = public \cup {<<epoch, n, b>>}
      /\ UNCHANGED <<coordVars, engVars, num, queueVars, worker, circuit, given, disk, epoch,
                     stream, lost>>
  BY DEF IInv, TypeOK, NumbersAreNew, Dispatch
<1>2. /\ coord # "gone"
      /\ Own' = Own \cup {n} /\ SentNow' = SentNow \cup {n}
  BY <1>1, OwnGrows, SentGrows
     DEF IInv, Control, EngineFollows, NumbersAreHeld, Quiet, Free, Publishers
<1> HIDE DEF n, b
<1>3. sinkq' \in Seq(Numbers) /\ Len(sinkq') <= SinkMax
  BY <1>1, AppendFacts, DeliveryAssumption DEF IInv, TypeOK, Dispatch
<1>4. TypeOK'
  <2>1. \A q \in {out, pending, after, sinkq, stream, given}' : q \in Seq(Numbers)
    BY <1>1, <1>3 DEF IInv, TypeOK, coordVars, queueVars
  <2>2. pub' \in [Publishers -> [at : {"idle", "reserved", "sent"}, n : Numbers]]
    BY <1>1 DEF IInv, TypeOK
  <2>3. public' \subseteq (0..MaxResumes) \X Numbers \X BOOLEAN
    BY <1>1 DEF IInv, TypeOK
  <2> QED
    BY <1>1, <1>3, <2>1, <2>2, <2>3 DEF IInv, TypeOK, coordVars, engVars, queueVars
<1>5. Control'
  BY <1>1 DEF IInv, TypeOK, Control, EngineFollows, NumbersAreHeld, Quiet, Free, Publishers,
              coordVars, engVars, n, Dispatch
<1>6. NumbersAreNew'
  BY <1>1, <1>2 DEF IInv, TypeOK, NumbersAreNew, n
<1>7. ToSet(sinkq') \subseteq ToSet(sinkq) \cup {n} /\ IsInjective(sinkq')
  <2>1. n \notin ToSet(sinkq) /\ IsInjective(sinkq) /\ sinkq \in Seq(Numbers)
    BY <1>1 DEF IInv, TypeOK, Places, EachOnce, SinkOnce
  <2> QED
    BY <1>1, <2>1, AppendFacts
<1>8. Places'
  <2>1. EachOnce'
    BY <1>1, <1>7 DEF IInv, Places, EachOnce, coordVars, queueVars
  <2>2. InOnePlace'
    BY <1>1, <1>2 DEF IInv, Places, InOnePlace, Apart, Emission, coordVars, engVars, queueVars
  <2> QED
    BY <2>1, <2>2 DEF Places
<1>9. RestIsTaken'
  BY <1>1 DEF IInv, TypeOK, RestIsTaken, coordVars, queueVars, Publishers
<1>10. SinkOnce'
  BY <1>1, <1>2, <1>7 DEF IInv, SinkOnce
<1>11. CheckpointsCover'
  <2>1. \A d \in public' : d \in public \/ (d[1] = epoch /\ d[2] = n /\ d[3] = b)
    BY <1>1
  <2>2. b => 0 < disk /\ n <= disk
    BY DEF IInv, CheckpointsCover, b, n
  <2>3. \A q \in Publishers : pub'[q].at # "idle" => pub[q].at # "idle" /\ pub'[q].n = pub[q].n
    BY <1>1 DEF IInv, TypeOK
  <2>4. epoch \in Nat /\ n \in Nat /\ disk \in Nat /\ num \in Nat
    BY <1>1, DeliveryAssumption DEF IInv, TypeOK, Numbers
  <2>5. CheckpointNumbersLast'
    BY <1>1, <2>1, <2>4 DEF IInv, CheckpointsCover, CheckpointNumbersLast, n
  <2>6. task' = "saved" => 0 < disk' /\ pub'["engine"].n <= disk'
    BY <1>1 DEF IInv, TypeOK, CheckpointsCover, engVars, Publishers
  <2> QED
    BY <1>1, <2>1, <2>2, <2>3, <2>4, <2>5, <2>6 DEF IInv, CheckpointsCover
<1> QED
  BY <1>4, <1>5, <1>6, <1>8, <1>9, <1>10, <1>11 DEF IInv

(* An event leaves its publisher: the number it held is given up. *)
LEMMA SentFacts ==
    ASSUME IInv, NEW p \in Publishers, Sent(p), UNCHANGED <<num, public, epoch>>
    PROVE  /\ pub[p].n \in Numbers /\ SentNow' = SentNow \ {pub[p].n} /\ pub[p].n \in SentNow
           /\ pub' \in [Publishers -> [at : {"idle", "reserved", "sent"}, n : Numbers]]
           /\ pub' = [pub EXCEPT ![p] = Free]
           /\ NumbersAreNew'
           /\ \A q \in Publishers :
                 pub'[q].at # "idle" => pub[q].at # "idle" /\ pub'[q].n = pub[q].n
<1>1. pub[p].n \in Numbers /\ SentNow' = SentNow \ {pub[p].n} /\ pub[p].n \in SentNow
  BY SentShrinks DEF IInv
<1>2. /\ pub' = [pub EXCEPT ![p] = Free]
      /\ pub' \in [Publishers -> [at : {"idle", "reserved", "sent"}, n : Numbers]]
  BY DeliveryAssumption DEF IInv, TypeOK, Numbers, Sent, Free
<1>3. \A q \in Publishers :
        pub'[q].at # "idle" => pub[q].at # "idle" /\ pub'[q].n = pub[q].n /\ q # p
  BY <1>2 DEF IInv, TypeOK, Free
<1>4. NumbersAreNew'
  <2>1. Own' = Own
    BY OwnStays
  <2>2. \A q \in Publishers : pub'[q] = IF q = p THEN Free ELSE pub[q]
    BY <1>2 DEF IInv, TypeOK
  <2> QED
    BY <2>1, <2>2 DEF IInv, NumbersAreNew, Free
<1> QED
  BY <1>1, <1>2, <1>3, <1>4

LEMMA SentKeepsCheckpoints ==
    ASSUME IInv, NEW p \in Publishers, Sent(p), UNCHANGED <<num, public, epoch, disk>>,
           p = "engine" => task' # "saved", p # "engine" => task' = task
    PROVE  CheckpointsCover'
<1>1. \A q \in Publishers : pub'[q].at # "idle" => pub[q].at # "idle" /\ pub'[q].n = pub[q].n
  BY SentFacts
<1>2. p # "engine" => pub'["engine"] = pub["engine"]
  BY SentFacts DEF IInv, TypeOK, Publishers
<1> QED
  BY <1>1, <1>2 DEF IInv, CheckpointsCover, CheckpointNumbersLast

LEMMA EnqueueInvariant ==
    ASSUME IInv, NEW p \in Publishers, Enqueue(p)
    PROVE  IInv'
<1> DEFINE n == pub[p].n
<1>1. /\ Sent(p) /\ p # "coordinator" /\ (p = "engine" => task # "none" /\ task # "emit")
      /\ pending' = Append(pending, n) /\ Len(pending) < PendMax
      /\ task' = IF p = "engine" THEN "none" ELSE task
      /\ UNCHANGED <<coord, out, eng, emission, num, after, stream, given, sinkq, worker, circuit,
                     disk, epoch, lost, public>>
  BY DEF Enqueue, coordVars, sinkVars
<1>2. /\ n \in Numbers /\ SentNow' = SentNow \ {n} /\ n \in SentNow /\ NumbersAreNew'
      /\ pub' \in [Publishers -> [at : {"idle", "reserved", "sent"}, n : Numbers]]
      /\ pub' = [pub EXCEPT ![p] = Free]
  BY <1>1, SentFacts
<1>3. Own' = Own /\ coord # "gone"
  BY <1>1, OwnStays
     DEF IInv, Control, EngineFollows, NumbersAreHeld, Quiet, Free, Publishers, Sent
<1> HIDE DEF n
<1>4. /\ pending' \in Seq(Numbers) /\ Len(pending') <= PendMax
      /\ ToSet(pending') = ToSet(pending) \cup {n}
  BY <1>1, <1>2, AppendFacts, DeliveryAssumption DEF IInv, TypeOK
<1>5. TypeOK'
  <2>1. \A q \in {out, pending, after, sinkq, stream, given}' : q \in Seq(Numbers)
    BY <1>1, <1>4 DEF IInv, TypeOK
  <2> QED
    BY <1>1, <1>2, <1>4, <2>1 DEF IInv, TypeOK
<1>6. Control'
  BY <1>1, <1>2
     DEF IInv, TypeOK, Control, EngineFollows, NumbersAreHeld, Quiet, Free, Publishers, Sent
<1>7. Places'
  <2>1. InOnePlace
    BY <1>3 DEF IInv, Places
  <2>2. IsInjective(pending')
    BY <1>1, <1>2, <2>1, AppendFacts DEF IInv, TypeOK, Places, EachOnce, InOnePlace, Apart
  <2>3. EachOnce'
    BY <1>1, <2>2 DEF IInv, Places, EachOnce
  <2>4. InOnePlace'
    BY <1>1, <1>2, <1>3, <1>4, <2>1 DEF InOnePlace, Apart, Emission
  <2> QED
    BY <2>3, <2>4 DEF Places
<1>8. RestIsTaken'
  <2>1. coord \notin Ending
    BY <1>1 DEF IInv, Control, EngineFollows, NumbersAreHeld, Quiet, Free, Publishers, Sent
  <2> QED
    BY <1>1, <1>3, <2>1 DEF RestIsTaken, Ending
<1>9. SinkOnce'
  BY <1>1, <1>3 DEF IInv, SinkOnce
<1>10. CheckpointsCover'
  BY <1>1, SentKeepsCheckpoints
<1> QED
  BY <1>2, <1>5, <1>6, <1>7, <1>8, <1>9, <1>10 DEF IInv

(* Whoever reserves a number leaves the places and the sink alone. *)
LEMMA ReserveKeepsPlaces ==
    ASSUME IInv, NEW p \in Publishers, Reserve(p), coord # "gone", coord' # "gone",
           UNCHANGED <<out, emission, pending, after, sinkVars, disk, epoch, stream, public>>
    PROVE  NumbersAreNew' /\ Places' /\ SinkOnce'
<1>1. NumbersAreNew' /\ SentNow' = SentNow
  BY ReserveFacts
<1>2. Own' = Own
  BY OwnStays
<1>3. Places'
  BY <1>1, <1>2 DEF IInv, Places, EachOnce, InOnePlace, Apart, Emission, sinkVars
<1>4. SinkOnce'
  BY <1>2 DEF IInv, SinkOnce, sinkVars
<1> QED
  BY <1>1, <1>3, <1>4

LEMMA ReserveKeepsTypes ==
    ASSUME IInv, NEW p \in Publishers, Reserve(p),
           coord' \in {"opening", "joining"} \/ coord' = coord,
           eng' \in {"run"} \/ eng' = eng,
           task' \in {"none", "defer", "emit", "save", "saved"},
           UNCHANGED <<out, emission, queueVars, sinkVars, disk, epoch, stream, public, lost>>
    PROVE  TypeOK'
<1>1. num' \in Numbers
      /\ pub' \in [Publishers -> [at : {"idle", "reserved", "sent"}, n : Numbers]]
  BY ReserveFacts
<1>2. \A q \in {out, pending, after, sinkq, stream, given}' : q \in Seq(Numbers)
  BY DEF IInv, TypeOK, queueVars, sinkVars
<1> QED
  BY <1>1, <1>2 DEF IInv, TypeOK, queueVars, sinkVars

LEMMA EngineInvariant ==
    ASSUME IInv, NEW t \in {"defer", "emit", "save"}, NEW where \in SUBSET {"init", "run"},
           Engine(t, where), t = "emit" => where = {"run"}
    PROVE  IInv'
<1>1. /\ "engine" \in Publishers /\ Reserve("engine") /\ task = "none" /\ task' = t
      /\ eng \in where
      /\ UNCHANGED <<coord, out, eng, emission, queueVars, sinkVars, disk, epoch, stream, lost,
                     public>>
  BY DEF Engine, coordVars, engVars, Publishers
<1>2. coord \notin Ending /\ coord # "gone"
  BY <1>1 DEF IInv, Control, EngineFollows
<1>3. NumbersAreNew' /\ Places' /\ SinkOnce'
  BY <1>1, <1>2, ReserveKeepsPlaces DEF queueVars
<1>4. TypeOK'
  BY <1>1, ReserveKeepsTypes
<1>5. Control'
  <2>1. \A q \in Publishers : q # "engine" => pub'[q] = pub[q]
    BY <1>1, ReserveFacts
  <2>2. pub'["engine"].at = "reserved"
    BY <1>1, ReserveFacts
  <2>3. EngineFollows'
    BY <1>1 DEF IInv, Control, EngineFollows, Ending
  <2>4. NumbersAreHeld'
    BY <1>1, <2>1, <2>2, Names DEF IInv, Control, NumbersAreHeld, Quiet
  <2> QED
    BY <2>3, <2>4 DEF Control
<1>6. RestIsTaken'
  BY <1>1, <1>2 DEF RestIsTaken, Ending
<1>7. CheckpointsCover'
  BY <1>1, ReserveKeepsCheckpoints
<1> QED
  BY <1>3, <1>4, <1>5, <1>6, <1>7 DEF IInv

LEMMA ToolsDoneInvariant ==
    ASSUME IInv, ToolsDone
    PROVE  IInv'
<1>1. /\ "engine" \in Publishers /\ Reserve("engine") /\ task = "none" /\ task' = "emit"
      /\ eng = "tools" /\ eng' = "run" /\ Quiet
      /\ UNCHANGED <<coord, out, emission, queueVars, sinkVars, disk, epoch, stream, lost, public>>
  BY DEF ToolsDone, coordVars, Publishers, Reserve, IInv, Control, NumbersAreHeld
<1>2. coord \in {"loop", "wait", "check"}
  BY <1>1 DEF IInv, TypeOK, Control, EngineFollows, Ending
<1>3. NumbersAreNew' /\ Places' /\ SinkOnce'
  BY <1>1, <1>2, ReserveKeepsPlaces DEF queueVars
<1>4. TypeOK'
  BY <1>1, ReserveKeepsTypes
<1>5. Control'
  <2>1. \A q \in Publishers : q # "engine" => pub'[q] = pub[q]
    BY <1>1, ReserveFacts
  <2>2. pub'["engine"].at = "reserved"
    BY <1>1, ReserveFacts
  <2>3. EngineFollows'
    BY <1>1, <1>2 DEF IInv, Control, EngineFollows, Ending
  <2>4. NumbersAreHeld'
    BY <1>1, <1>2, <2>1, <2>2, Names DEF IInv, Control, NumbersAreHeld, Quiet
  <2> QED
    BY <2>3, <2>4 DEF Control
<1>6. RestIsTaken'
  BY <1>1, <1>2 DEF RestIsTaken, Ending
<1>7. CheckpointsCover'
  BY <1>1, ReserveKeepsCheckpoints
<1> QED
  BY <1>3, <1>4, <1>5, <1>6, <1>7 DEF IInv

LEMMA ReportInvariant ==
    ASSUME IInv, NEW c \in Callbacks, Report(c)
    PROVE  IInv'
<1>1. /\ c \in Publishers /\ c # "engine" /\ c # "coordinator" /\ Reserve(c) /\ eng = "tools"
      /\ UNCHANGED <<coord, out, eng, task, emission, queueVars, sinkVars, disk, epoch, stream,
                     lost, public>>
  BY DeliveryAssumption DEF Report, coordVars, engVars, Publishers
<1>2. coord \in {"loop", "wait", "check"}
  BY <1>1 DEF IInv, TypeOK, Control, EngineFollows, Ending
<1>3. NumbersAreNew' /\ Places' /\ SinkOnce'
  BY <1>1, <1>2, ReserveKeepsPlaces DEF queueVars
<1>4. TypeOK'
  BY <1>1, ReserveKeepsTypes DEF IInv, TypeOK
<1>5. Control'
  BY <1>1, <1>2, ReserveFacts
     DEF IInv, TypeOK, Control, EngineFollows, NumbersAreHeld, Free, Publishers, Ending
<1>6. RestIsTaken'
  BY <1>1, <1>2 DEF RestIsTaken, Ending
<1>7. CheckpointsCover'
  BY <1>1, ReserveKeepsCheckpoints
<1> QED
  BY <1>3, <1>4, <1>5, <1>6, <1>7 DEF IInv

LEMMA YieldInvariant ==
    ASSUME IInv, Yield
    PROVE  IInv'
<1> DEFINE n == pub["engine"].n
<1>1. /\ "engine" \in Publishers /\ Sent("engine") /\ task = "emit" /\ task' = "none"
      /\ emission' = n /\ eng' = "yielded"
      /\ UNCHANGED <<coord, out, num, pending, after, sinkVars, disk, epoch, stream, lost, public>>
  BY Names DEF Yield, coordVars, queueVars
<1>2. /\ n \in Numbers /\ SentNow' = SentNow \ {n} /\ n \in SentNow /\ NumbersAreNew'
      /\ pub' \in [Publishers -> [at : {"idle", "reserved", "sent"}, n : Numbers]]
      /\ pub' = [pub EXCEPT !["engine"] = Free]
  BY <1>1, SentFacts
<1>3. /\ Own' = Own /\ coord \in {"loop", "wait", "check"} /\ eng = "run" /\ emission = 0
      /\ n # 0
  <2>1. Own' = Own
    BY <1>1, OwnStays
  <2>2. coord \in {"loop", "wait", "check"} /\ eng = "run" /\ emission = 0
    BY <1>1 DEF IInv, TypeOK, Control, EngineFollows, NumbersAreHeld, Ending
  <2>3. n # 0
    BY <1>1 DEF IInv, NumbersAreNew, Sent
  <2> QED
    BY <2>1, <2>2, <2>3
<1> HIDE DEF n
<1>4. TypeOK'
  <2>1. \A q \in {out, pending, after, sinkq, stream, given}' : q \in Seq(Numbers)
    BY <1>1 DEF IInv, TypeOK, sinkVars
  <2> QED
    BY <1>1, <1>2, <2>1 DEF IInv, TypeOK, sinkVars
<1>5. Control'
  <2>1. \A q \in Publishers : pub'[q] = IF q = "engine" THEN Free ELSE pub[q]
    BY <1>2 DEF IInv, TypeOK
  <2>2. EngineFollows'
    BY <1>1, <1>3 DEF IInv, Control, EngineFollows, Ending
  <2>3. NumbersAreHeld'
    BY <1>1, <1>3, <2>1, Names DEF IInv, Control, NumbersAreHeld, Quiet, Free
  <2> QED
    BY <2>2, <2>3 DEF Control
<1>6. Places'
  <2>1. InOnePlace
    BY <1>3 DEF IInv, Places
  <2>2. Emission = {} /\ Emission' = {n}
    BY <1>1, <1>3 DEF Emission
  <2>3. EachOnce'
    BY <1>1 DEF IInv, Places, EachOnce, sinkVars
  <2>4. InOnePlace'
    BY <1>1, <1>2, <1>3, <2>1, <2>2 DEF InOnePlace, Apart
  <2> QED
    BY <2>3, <2>4 DEF Places
<1>7. RestIsTaken'
  BY <1>1, <1>3 DEF RestIsTaken, Ending
<1>8. SinkOnce'
  BY <1>1, <1>3 DEF IInv, SinkOnce, sinkVars
<1>9. CheckpointsCover'
  BY <1>1, SentKeepsCheckpoints
<1> QED
  BY <1>2, <1>4, <1>5, <1>6, <1>7, <1>8, <1>9 DEF IInv

LEMMA DescribeInvariant ==
    ASSUME IInv, Describe
    PROVE  IInv'
<1> DEFINE n == num + 1
<1> DEFINE b == FALSE
<1>1. /\ task = "emit" /\ task' \in {"defer", "emit"} /\ pub["engine"].at = "sent"
      /\ num' = n /\ after' = Append(after, n)
      /\ Len(sinkq) < SinkMax /\ (sinkq' = Append(sinkq, n) \/ sinkq' = sinkq)
      /\ public' = public \cup {<<epoch, n, b>>}
      /\ UNCHANGED <<coord, out, eng, emission, pub, pending, worker, circuit, given, disk, epoch,
                     stream, lost>>
  BY DEF Describe, coordVars
<1>2. n \in Numbers /\ num \in Nat /\ epoch \in Nat
  BY DeliveryAssumption DEF Describe, Roomy, IInv, TypeOK, Numbers
<1>3. coord \in {"loop", "wait", "check"} /\ eng = "run"
  BY <1>1, Names DEF IInv, TypeOK, Control, EngineFollows, NumbersAreHeld, Ending
<1>4. Own' = Own \cup {n} /\ n \notin Own /\ SentNow' = SentNow
  <2>1. Own' = Own \cup {n}
    BY <1>1, OwnGrows
  <2> QED
    BY <1>1, <1>2, <2>1, SentStays DEF IInv, NumbersAreNew
<1>5. \A q \in Publishers : pub[q].at # "idle" => pub[q].n < n
  BY <1>2 DEF IInv, NumbersAreNew
<1>0. b \in BOOLEAN /\ ~b
  OBVIOUS
<1> HIDE DEF n, b
<1>6. n \notin ToSet(after) /\ n \notin ToSet(sinkq)
  BY <1>3, <1>4 DEF IInv, Places, InOnePlace, SinkOnce
<1>7. /\ after' \in Seq(Numbers) /\ ToSet(after') = ToSet(after) \cup {n} /\ IsInjective(after')
      /\ sinkq' \in Seq(Numbers) /\ ToSet(sinkq') \subseteq ToSet(sinkq) \cup {n}
      /\ IsInjective(sinkq') /\ Len(sinkq') <= SinkMax
  <2>1. /\ after \in Seq(Numbers) /\ sinkq \in Seq(Numbers) /\ IsInjective(after)
        /\ IsInjective(sinkq) /\ Len(sinkq) \in Nat /\ SinkMax \in Nat /\ Len(sinkq) <= SinkMax
    BY DeliveryAssumption DEF IInv, TypeOK, Places, EachOnce
  <2>2. /\ after' \in Seq(Numbers) /\ ToSet(after') = ToSet(after) \cup {n}
        /\ IsInjective(after')
    BY <1>1, <1>2, <1>6, <2>1, AppendFacts
  <2>3. CASE sinkq' = Append(sinkq, n)
    <3>1. /\ sinkq' \in Seq(Numbers) /\ Len(sinkq') = Len(sinkq) + 1
          /\ ToSet(sinkq') = ToSet(sinkq) \cup {n} /\ IsInjective(sinkq')
      BY <1>2, <1>6, <2>1, <2>3, AppendFacts
    <3> QED
      BY <1>1, <2>1, <2>2, <3>1
  <2>4. CASE sinkq' = sinkq
    BY <2>1, <2>2, <2>4
  <2> QED
    BY <1>1, <2>3, <2>4
<1>8. TypeOK'
  <2>1. \A q \in {out, pending, after, sinkq, stream, given}' : q \in Seq(Numbers)
    BY <1>1, <1>7 DEF IInv, TypeOK
  <2>2. public' \subseteq (0..MaxResumes) \X Numbers \X BOOLEAN
    BY <1>0, <1>1, <1>2 DEF IInv, TypeOK
  <2> QED
    BY <1>1, <1>2, <1>7, <2>1, <2>2 DEF IInv, TypeOK
<1>9. Control'
  BY <1>1, <1>3 DEF IInv, Control, EngineFollows, NumbersAreHeld, Quiet, Ending
<1>10. NumbersAreNew'
  <2>1. Own' \subseteq 1..num'
    BY <1>1, <1>2, <1>4 DEF IInv, NumbersAreNew, n
  <2>2. \A q \in Publishers : pub[q].at # "idle" => pub[q].n \in 1..num' /\ pub[q].n # n
    BY <1>1, <1>2, <1>5 DEF IInv, NumbersAreNew, n
  <2> QED
    BY <1>1, <1>4, <2>1, <2>2 DEF IInv, NumbersAreNew
<1>11. Places'
  <2>1. InOnePlace /\ Emission' = Emission
    BY <1>1, <1>3 DEF IInv, Places, Emission
  <2>2. EachOnce'
    BY <1>1, <1>7 DEF IInv, Places, EachOnce
  <2>3. InOnePlace'
    BY <1>1, <1>4, <1>7, <2>1 DEF InOnePlace, Apart
  <2> QED
    BY <2>2, <2>3 DEF Places
<1>12. RestIsTaken'
  BY <1>1, <1>3 DEF RestIsTaken, Ending
<1>13. SinkOnce'
  BY <1>1, <1>4, <1>7 DEF IInv, SinkOnce
<1>14. CheckpointsCover'
  <2>1. \A d \in public' : d \in public \/ (d[1] = epoch /\ d[2] = n /\ d[3] = b)
    BY <1>1
  <2>2. disk \in Nat /\ \A d \in public : d[2] \in Nat
    BY DeliveryAssumption DEF IInv, TypeOK, Numbers
  <2>3. CheckpointNumbersLast'
    BY <1>2, <2>1, <2>2 DEF IInv, CheckpointsCover, CheckpointNumbersLast, n
  <2> QED
    BY <1>0, <1>1, <1>2, <2>1, <2>2, <2>3 DEF IInv, CheckpointsCover, n
<1> QED
  BY <1>8, <1>9, <1>10, <1>11, <1>12, <1>13, <1>14 DEF IInv

LEMMA SaveInvariant ==
    ASSUME IInv, Save
    PROVE  IInv'
<1>1. /\ task = "save" /\ task' = "saved" /\ disk' = num
      /\ UNCHANGED <<coord, out, eng, emission, num, pub, pending, after, sinkq, worker, circuit,
                     given, epoch, stream, lost, public>>
  BY DEF Save, coordVars, queueVars, sinkVars
<1>2. TypeOK'
  BY <1>1 DEF IInv, TypeOK
<1>3. Control'
  BY <1>1 DEF IInv, Control, EngineFollows, NumbersAreHeld, Quiet
<1>4. NumbersAreNew' /\ Places' /\ SinkOnce'
  BY <1>1, Frame DEF IInv, Places
<1>5. RestIsTaken'
  BY <1>1 DEF IInv, RestIsTaken
<1>6. CheckpointsCover'
  <2>1. pub["engine"].n \in 1..num
    BY <1>1, Names DEF IInv, Control, NumbersAreHeld, NumbersAreNew
  <2>2. num \in Nat
    BY DeliveryAssumption DEF IInv, TypeOK, Numbers
  <2> QED
    BY <1>1, <2>1, <2>2 DEF IInv, CheckpointsCover, CheckpointNumbersLast
<1> QED
  BY <1>2, <1>3, <1>4, <1>5, <1>6 DEF IInv

(* The number of a checkpoint that failed was never published. *)
LEMMA SaveFailsInvariant ==
    ASSUME IInv, SaveFails
    PROVE  IInv'
<1>1. /\ task = "save" /\ task' = "none" /\ eng' = "failed"
      /\ pub' = [pub EXCEPT !["engine"] = Free] /\ lost' = lost \cup {pub["engine"].n}
      /\ UNCHANGED <<coord, out, emission, num, pending, after, sinkq, worker, circuit, given,
                     disk, epoch, stream, public>>
  BY DEF SaveFails, coordVars, queueVars, sinkVars
<1>2. \A q \in Publishers : pub'[q] = IF q = "engine" THEN Free ELSE pub[q]
  BY <1>1 DEF IInv, TypeOK
<1>3. pub["engine"].at = "reserved" /\ pub["engine"].n \in Numbers /\ eng \in {"init", "run"}
  BY <1>1, Names DEF IInv, TypeOK, Control, NumbersAreHeld
<1>4. TypeOK'
  <2>1. pub' \in [Publishers -> [at : {"idle", "reserved", "sent"}, n : Numbers]]
    <3>1. Free \in [at : {"idle", "reserved", "sent"}, n : Numbers]
      BY DeliveryAssumption DEF Free, Numbers
    <3> QED
      BY <1>1, <3>1 DEF IInv, TypeOK
  <2> QED
    BY <1>1, <1>3, <2>1 DEF IInv, TypeOK
<1>5. Control'
  BY <1>1, <1>2, <1>3, Names
     DEF IInv, Control, EngineFollows, NumbersAreHeld, Quiet, Free, Ending
<1>6. NumbersAreNew'
  <2>1. Own' = Own
    BY <1>1, OwnStays
  <2> QED
    BY <1>1, <1>2, <2>1 DEF IInv, NumbersAreNew, Free
<1>7. Places'
  <2>1. SentNow' = SentNow
    BY <1>1, <1>2, <1>3, Names DEF SentNow, Free
  <2> QED
    BY <1>1, <2>1, OwnStays DEF IInv, Places, EachOnce, InOnePlace, Emission
<1>8. RestIsTaken'
  BY <1>1, <1>2, Names DEF IInv, RestIsTaken
<1>9. SinkOnce'
  BY <1>1, Frame DEF IInv
<1>10. CheckpointsCover'
  BY <1>1, <1>2 DEF IInv, CheckpointsCover, CheckpointNumbersLast, Free
<1> QED
  BY <1>4, <1>5, <1>6, <1>7, <1>8, <1>9, <1>10 DEF IInv

(* The engine moves on without an event in hand. *)
LEMMA EngineMovesInvariant ==
    ASSUME IInv, NEW from, NEW to, EngineMoves(from, to),
           <<from, to>> \in {<<"init", "ready">>, <<"run", "outcome">>, <<"run", "failed">>,
                             <<"init", "failed">>, <<"run", "tools">>}
    PROVE  IInv'
<1>1. /\ task = "none" /\ eng = from /\ eng' = to
      /\ UNCHANGED <<coord, out, task, emission, num, pub, pending, after, sinkq, worker, circuit,
                     given, disk, epoch, stream, lost, public>>
  BY DEF EngineMoves, coordVars, queueVars, sinkVars
<1>2. TypeOK'
  BY <1>1 DEF IInv, TypeOK
<1>3. Control'
  BY <1>1 DEF IInv, Control, EngineFollows, NumbersAreHeld, Quiet
<1>4. NumbersAreNew' /\ Places' /\ SinkOnce' /\ CheckpointsCover'
  BY <1>1, Frame DEF IInv, Places
<1>5. RestIsTaken'
  BY <1>1 DEF IInv, RestIsTaken
<1> QED
  BY <1>2, <1>3, <1>4, <1>5 DEF IInv

-----------------------------------------------------------------------------
(* The coordinator.  Draining moves events to `out`, and nothing else. *)
Aside == <<task, num, pub, sinkVars, disk, epoch, lost, public>>

Coords == {"new", "opening", "init", "loop", "wait", "check", "emitted", "restart", "last",
           "lastafter", "terminal", "joining", "closing", "closed", "gone"}
Engs == {"none", "init", "ready", "run", "tools", "yielded", "outcome", "failed"}

LEMMA AsideKeeps ==
    ASSUME IInv, UNCHANGED Aside
    PROVE  NumbersAreNew' /\ SinkOnce' /\ CheckpointsCover'
BY Frame DEF IInv, Aside, sinkVars

LEMMA DrainKeeps ==
    ASSUME IInv, Drain, out = <<>>, coord # "gone", UNCHANGED <<Aside, emission, stream>>,
           coord' \in Coords, eng' \in Engs
    PROVE  TypeOK' /\ Places' /\ pending' = <<>>
<1>1. Related \subseteq ToSet(after) /\ pending' = <<>>
  BY DEF Drain, Related
<1>2. ToSet(pending) \in SUBSET Numbers /\ ToSet(after) \in SUBSET Numbers
  BY DEF IInv, TypeOK, ToSet
<1>3. /\ out' \in Seq(Numbers) /\ ToSet(out') = ToSet(pending) \cup Related /\ IsInjective(out')
      /\ after' \in Seq(Numbers) /\ ToSet(after') = ToSet(after) \ Related /\ IsInjective(after')
  <2>1. ToSet(pending) \cup Related \in SUBSET Numbers /\ ToSet(after) \ Related \in SUBSET Numbers
    BY <1>1, <1>2
  <2> QED
    BY <2>1, AscendingFacts DEF Drain
<1>4. TypeOK'
  <2>1. \A q \in {out, pending, after, sinkq, stream, given}' : q \in Seq(Numbers)
    BY <1>1, <1>3, ShortFacts DEF IInv, TypeOK, Aside, sinkVars
  <2>2. Len(pending') <= PendMax
    BY <1>1, DeliveryAssumption
  <2> QED
    BY <2>1, <2>2 DEF IInv, TypeOK, Aside, sinkVars, Coords, Engs
<1>5. EachOnce'
  BY <1>1, <1>3, ShortFacts DEF IInv, Places, EachOnce, Aside, sinkVars
<1>6. InOnePlace'
  <2>1. Own' = Own /\ SentNow' = SentNow /\ Emission' = Emission
    BY OwnStays, SentStays DEF Aside, Emission
  <2>2. InOnePlace /\ ToSet(out) = {} /\ ToSet(pending') = {}
    BY <1>1, ShortFacts DEF IInv, Places
  <2> QED
    BY <1>1, <1>3, <2>1, <2>2 DEF InOnePlace, Apart
<1> QED
  BY <1>1, <1>4, <1>5, <1>6 DEF Places

LEMMA DrainAfterKeeps ==
    ASSUME IInv, DrainAfter, out = <<>>, coord # "gone", UNCHANGED <<Aside, emission, stream>>,
           coord' \in Coords, eng' \in Engs
    PROVE  TypeOK' /\ Places' /\ after' = <<>> /\ pending' = pending
<1>1. out' = after /\ after' = <<>> /\ pending' = pending
  BY DEF DrainAfter
<1>2. TypeOK'
  <2>1. \A q \in {out, pending, after, sinkq, stream, given}' : q \in Seq(Numbers)
    BY <1>1, ShortFacts DEF IInv, TypeOK, Aside, sinkVars
  <2> QED
    BY <1>1, <2>1 DEF IInv, TypeOK, Aside, sinkVars, Coords, Engs
<1>3. EachOnce'
  BY <1>1, ShortFacts DEF IInv, Places, EachOnce, Aside, sinkVars
<1>4. InOnePlace'
  <2>1. Own' = Own /\ SentNow' = SentNow /\ Emission' = Emission
    BY OwnStays, SentStays DEF Aside, Emission
  <2>2. InOnePlace /\ ToSet(out) = {} /\ ToSet(after') = {}
    BY <1>1, ShortFacts DEF IInv, Places
  <2> QED
    BY <1>1, <2>1, <2>2 DEF InOnePlace, Apart
<1> QED
  BY <1>1, <1>2, <1>3, <1>4 DEF Places

LEMMA DeliverInvariant ==
    ASSUME IInv, Deliver
    PROVE  IInv'
<1> DEFINE n == Head(out)
<1>1. /\ out # <<>> /\ out' = Tail(out) /\ stream' = Append(stream, n)
      /\ UNCHANGED <<Aside, coord, eng, emission, pending, after>>
  BY DEF Deliver, Aside, engVars, queueVars
<1>2. /\ n \in Numbers /\ out' \in Seq(Numbers) /\ ToSet(out) = ToSet(out') \cup {n}
      /\ IsInjective(out') /\ n \notin ToSet(out') /\ Len(out') = Len(out) - 1
  BY <1>1, HeadFacts DEF IInv, TypeOK, Places, EachOnce
<1>3. coord # "gone" /\ coord # "closed"
  BY <1>1 DEF IInv, RestIsTaken
<1>4. n \notin ToSet(stream)
  BY <1>2, <1>3 DEF IInv, Places, InOnePlace, Apart
<1>5. /\ stream' \in Seq(Numbers) /\ ToSet(stream') = ToSet(stream) \cup {n}
      /\ IsInjective(stream') /\ stream' # <<>> /\ stream'[Len(stream')] = n
  <2>1. stream \in Seq(Numbers) /\ IsInjective(stream) /\ Len(stream) \in Nat
    BY DEF IInv, TypeOK, Places, EachOnce
  <2> QED
    BY <1>1, <1>2, <1>4, <2>1, AppendFacts
<1>6. RestIsTaken'
  <2>1. coord = "closing" => n = num /\ out' = <<>>
    <3>1. coord = "closing" => out = <<num>>
      BY <1>1 DEF IInv, RestIsTaken
    <3>2. out = <<num>> => Head(out) = num /\ Tail(out) = <<>>
      OBVIOUS
    <3> QED
      BY <1>1, <3>1, <3>2
  <2> QED
    BY <1>1, <1>3, <1>5, <2>1 DEF IInv, RestIsTaken, Aside
<1> HIDE DEF n
<1>7. TypeOK'
  <2>1. \A q \in {out, pending, after, sinkq, stream, given}' : q \in Seq(Numbers)
    BY <1>1, <1>2, <1>5 DEF IInv, TypeOK, Aside, sinkVars
  <2> QED
    BY <1>1, <2>1 DEF IInv, TypeOK, Aside, sinkVars
<1>8. Control'
  BY <1>1 DEF IInv, Control, EngineFollows, NumbersAreHeld, Quiet, Aside
<1>9. Places'
  <2>1. EachOnce'
    BY <1>1, <1>2, <1>5 DEF IInv, Places, EachOnce, Aside, sinkVars
  <2>2. Own' = Own /\ SentNow' = SentNow /\ Emission' = Emission /\ InOnePlace
    BY <1>1, <1>3, OwnStays, SentStays DEF IInv, Places, Aside, Emission
  <2>3. InOnePlace'
    BY <1>1, <1>2, <1>5, <2>2 DEF InOnePlace, Apart
  <2> QED
    BY <2>1, <2>3 DEF Places
<1> QED
  BY <1>1, <1>6, <1>7, <1>8, <1>9, AsideKeeps DEF IInv

(* A step of the coordinator that drains, or moves no event. *)
LEMMA DrainInvariant ==
    ASSUME IInv, Drain, out = <<>>, UNCHANGED <<Aside, emission, stream>>,
           \/ coord = "init" /\ coord' = "loop" /\ eng = "ready" /\ eng' = "run"
           \/ eng' = eng /\ <<coord, coord'>> \in {<<"loop", "wait">>, <<"wait", "check">>,
                                                   <<"last", "lastafter">>}
    PROVE  IInv'
<1>1. TypeOK' /\ Places' /\ pending' = <<>>
  BY DrainKeeps DEF Coords, Engs, IInv, TypeOK
<1>2. Control'
  BY DEF IInv, Control, EngineFollows, NumbersAreHeld, Quiet, Aside, Ending
<1>3. RestIsTaken'
  BY <1>1 DEF IInv, RestIsTaken, Aside, Ending
<1> QED
  BY <1>1, <1>2, <1>3, AsideKeeps DEF IInv

LEMMA DrainAfterInvariant ==
    ASSUME IInv, DrainAfter, out = <<>>, UNCHANGED <<Aside, emission, stream, eng>>,
           \/ coord = "emitted" /\ coord' = "restart"
           \/ coord = "check" /\ eng = "failed" /\ coord' = "last"
           \/ coord = "lastafter" /\ coord' = "terminal"
    PROVE  IInv'
<1>1. TypeOK' /\ Places' /\ after' = <<>> /\ pending' = pending
  BY DrainAfterKeeps DEF Coords, Engs, IInv, TypeOK
<1>2. Control'
  BY DEF IInv, Control, EngineFollows, NumbersAreHeld, Quiet, Aside, Ending
<1>3. RestIsTaken'
  BY <1>1 DEF IInv, RestIsTaken, Aside, Ending
<1> QED
  BY <1>1, <1>2, <1>3, AsideKeeps DEF IInv

LEMMA MoveInvariant ==
    ASSUME IInv, UNCHANGED <<Aside, emission, out, pending, after, stream>>, out = <<>>,
           \/ coord = "check" /\ coord' = "loop" /\ eng' = eng
           \/ coord = "restart" /\ coord' = "loop" /\ eng' = "run"
           \/ coord = "check" /\ eng = "outcome" /\ coord' = "last" /\ eng' = eng
           \/ coord = "init" /\ eng = "failed" /\ coord' = "last" /\ eng' = eng
    PROVE  IInv'
<1>1. TypeOK'
  BY DEF IInv, TypeOK, Aside, sinkVars
<1>2. Places'
  BY Frame DEF IInv, Places, Aside, sinkVars
<1>3. Control'
  BY DEF IInv, Control, EngineFollows, NumbersAreHeld, Quiet, Aside, Ending
<1>4. RestIsTaken'
  BY DEF IInv, RestIsTaken, Aside, Ending
<1> QED
  BY <1>1, <1>2, <1>3, <1>4, AsideKeeps DEF IInv

LEMMA TakeEventInvariant ==
    ASSUME IInv, TakeEvent
    PROVE  IInv'
<1>1. /\ coord = "check" /\ coord' = "emitted" /\ eng = "yielded" /\ eng' = eng
      /\ out = <<>> /\ out' = <<emission>> /\ emission' = 0
      /\ UNCHANGED <<Aside, pending, after, stream>>
  BY DEF TakeEvent, At, Aside, queueVars
<1>2. emission \in Numbers /\ emission # 0
  BY <1>1 DEF IInv, TypeOK, Control, NumbersAreHeld
<1>3. out' \in Seq(Numbers) /\ ToSet(out') = Emission /\ IsInjective(out') /\ Emission' = {}
  BY <1>1, <1>2, ShortFacts DEF Emission
<1>4. TypeOK'
  <2>1. \A q \in {out, pending, after, sinkq, stream, given}' : q \in Seq(Numbers)
    BY <1>1, <1>3 DEF IInv, TypeOK, Aside, sinkVars
  <2>2. 0 \in Numbers
    BY DeliveryAssumption DEF Numbers
  <2> QED
    BY <1>1, <2>1, <2>2 DEF IInv, TypeOK, Aside, sinkVars
<1>5. Control'
  BY <1>1 DEF IInv, Control, EngineFollows, NumbersAreHeld, Quiet, Aside, Ending
<1>6. Places'
  <2>1. EachOnce'
    BY <1>1, <1>3 DEF IInv, Places, EachOnce, Aside, sinkVars
  <2>2. Own' = Own /\ SentNow' = SentNow /\ InOnePlace /\ ToSet(out) = {}
    BY <1>1, OwnStays, SentStays, ShortFacts DEF IInv, Places, Aside
  <2>3. InOnePlace'
    BY <1>1, <1>3, <2>2 DEF InOnePlace, Apart
  <2> QED
    BY <2>1, <2>3 DEF Places
<1>7. RestIsTaken'
  BY <1>1 DEF RestIsTaken, Ending
<1> QED
  BY <1>1, <1>4, <1>5, <1>6, <1>7, AsideKeeps DEF IInv

(* RUN_STARTED and the terminal event. *)
LEMMA CoordinatorReserves ==
    ASSUME IInv, Reserve("coordinator"), out = <<>>,
           UNCHANGED <<out, engVars, queueVars, sinkVars, disk, epoch, stream, lost, public>>,
           \/ coord = "new" /\ coord' = "opening"
           \/ coord = "terminal" /\ coord' = "joining"
    PROVE  IInv'
<1>1. TypeOK'
  BY Names, ReserveKeepsTypes DEF engVars, IInv, TypeOK
<1>2. NumbersAreNew' /\ Places' /\ SinkOnce'
  BY Names, ReserveKeepsPlaces DEF engVars, queueVars
<1>3. CheckpointsCover'
  BY Names, ReserveKeepsCheckpoints DEF engVars
<1>4. Control'
  <2>1. \A q \in Publishers : q # "coordinator" => pub'[q] = pub[q]
    BY Names, ReserveFacts
  <2>2. pub'["coordinator"].at = "reserved"
    BY Names, ReserveFacts
  <2>3. EngineFollows'
    BY DEF IInv, Control, EngineFollows, Ending, engVars
  <2>4. NumbersAreHeld'
    BY <2>1, <2>2, Names DEF IInv, Control, NumbersAreHeld, Quiet, engVars
  <2> QED
    BY <2>3, <2>4 DEF Control
<1>5. RestIsTaken'
  <2>1. pub'["coordinator"].n = num'
    BY Names, ReserveFacts
  <2> QED
    BY <2>1 DEF IInv, RestIsTaken, Ending, queueVars
<1> QED
  BY <1>1, <1>2, <1>3, <1>4, <1>5 DEF IInv

LEMMA CoordinatorSends ==
    ASSUME IInv, Sent("coordinator"), out = <<>>, out' = <<pub["coordinator"].n>>,
           UNCHANGED <<task, emission, num, queueVars, sinkVars, epoch, stream, lost, public>>,
           \/ coord = "opening" /\ coord' = "init" /\ eng' = "init" /\ disk' = disk
           \/ /\ coord = "joining" /\ coord' = "closing" /\ eng' = eng
              /\ disk' \in {0, disk, num}
    PROVE  IInv'
<1> DEFINE n == pub["coordinator"].n
<1>1. /\ n \in Numbers /\ SentNow' = SentNow \ {n} /\ n \in SentNow
      /\ pub' \in [Publishers -> [at : {"idle", "reserved", "sent"}, n : Numbers]]
      /\ NumbersAreNew'
      /\ \A q \in Publishers : pub'[q] = IF q = "coordinator" THEN Free ELSE pub[q]
  BY Names, SentFacts DEF IInv, TypeOK
<1>2. out' \in Seq(Numbers) /\ ToSet(out') = {n} /\ IsInjective(out') /\ ToSet(out) = {}
  BY <1>1, ShortFacts
<1>3. disk' \in Numbers
  BY DeliveryAssumption DEF IInv, TypeOK, Numbers
<1>4. TypeOK'
  <2>1. \A q \in {out, pending, after, sinkq, stream, given}' : q \in Seq(Numbers)
    BY <1>2 DEF IInv, TypeOK, queueVars, sinkVars
  <2> QED
    BY <1>1, <1>3, <2>1 DEF IInv, TypeOK, queueVars, sinkVars
<1>5. Control'
  BY <1>1, Names DEF IInv, Control, EngineFollows, NumbersAreHeld, Quiet, Ending, Free
<1>6. Places'
  <2>1. EachOnce'
    BY <1>2 DEF IInv, Places, EachOnce, queueVars, sinkVars
  <2>2. Own' = Own /\ Emission' = Emission /\ InOnePlace
    BY OwnStays DEF IInv, Places, Emission
  <2>3. InOnePlace'
    BY <1>1, <1>2, <2>2 DEF InOnePlace, Apart, queueVars
  <2> QED
    BY <2>1, <2>3 DEF Places
<1>7. RestIsTaken'
  BY DEF IInv, RestIsTaken, Ending, queueVars
<1>8. SinkOnce'
  BY Frame DEF IInv, sinkVars
<1>9. CheckpointsCover'
  <2>1. coord = "joining" => task = "none"
    BY DEF IInv, Control, EngineFollows, NumbersAreHeld, Ending
  <2>2. coord = "opening" => task = "none"
    BY DEF IInv, Control, EngineFollows, NumbersAreHeld
  <2>3. num \in Nat /\ disk \in Nat
    BY DeliveryAssumption DEF IInv, TypeOK, Numbers
  <2> QED
    BY <1>1, <2>1, <2>2, <2>3 DEF IInv, CheckpointsCover, CheckpointNumbersLast, Free
<1> QED
  BY <1>1, <1>4, <1>5, <1>6, <1>7, <1>8, <1>9 DEF IInv

LEMMA CloseInvariant ==
    ASSUME IInv, Close
    PROVE  IInv'
<1>1. /\ coord = "closing" /\ coord' = "closed" /\ out = <<>> /\ sinkq' = <<>> /\ worker' = 0
      /\ UNCHANGED <<out, eng, task, emission, num, pub, pending, after, circuit, given, disk,
                     epoch, stream, lost, public>>
  BY DEF Close, At, engVars, queueVars
<1>2. TypeOK'
  <2>1. \A q \in {out, pending, after, sinkq, stream, given}' : q \in Seq(Numbers)
    BY <1>1, ShortFacts DEF IInv, TypeOK
  <2>2. Len(sinkq') <= SinkMax /\ 0 \in Numbers
    BY <1>1, DeliveryAssumption DEF Numbers
  <2> QED
    BY <1>1, <2>1, <2>2 DEF IInv, TypeOK
<1>3. Control'
  BY <1>1 DEF IInv, Control, EngineFollows, NumbersAreHeld, Quiet, Ending
<1>4. NumbersAreNew' /\ CheckpointsCover' /\ InOnePlace'
  BY <1>1, Frame DEF IInv, Places
<1>5. EachOnce'
  BY <1>1, ShortFacts DEF IInv, Places, EachOnce
<1>6. RestIsTaken'
  BY <1>1 DEF IInv, RestIsTaken, Ending
<1>7. SinkOnce'
  BY <1>1, OwnStays, ShortFacts DEF IInv, SinkOnce
<1> QED
  BY <1>2, <1>3, <1>4, <1>5, <1>6, <1>7 DEF IInv, Places

-----------------------------------------------------------------------------
(* A process that ends, one that starts, and the sink's worker. *)
LEMMA InterruptInvariant ==
    ASSUME IInv, Interrupt
    PROVE  IInv'
<1>1. /\ coord' = "gone" /\ disk' \in {disk, num} /\ Reset
      /\ UNCHANGED <<num, given, epoch, stream, lost, public>>
  BY DEF Interrupt
<1>2. /\ \A q \in Publishers : pub'[q] = Free
      /\ pub' \in [Publishers -> [at : {"idle", "reserved", "sent"}, n : Numbers]]
  <2>1. Free \in [at : {"idle", "reserved", "sent"}, n : Numbers]
    BY DeliveryAssumption DEF Free, Numbers
  <2> QED
    BY <1>1, <2>1 DEF Reset
<1>3. TypeOK'
  <2>1. \A q \in {out, pending, after, sinkq, stream, given}' : q \in Seq(Numbers)
    BY <1>1, ShortFacts DEF IInv, TypeOK, Reset
  <2>2. 0 \in Numbers /\ Len(pending') <= PendMax /\ Len(sinkq') <= SinkMax
    BY <1>1, DeliveryAssumption DEF Numbers, Reset
  <2> QED
    BY <1>1, <1>2, <2>1, <2>2 DEF IInv, TypeOK, Reset
<1>4. Control'
  BY <1>1, <1>2, Names
     DEF IInv, Control, EngineFollows, NumbersAreHeld, Quiet, Ending, Reset, Free
<1>5. NumbersAreNew'
  <2>1. Own' = Own
    BY <1>1, OwnStays
  <2> QED
    BY <1>1, <1>2, <2>1 DEF IInv, NumbersAreNew, Free
<1>6. Places'
  BY <1>1, ShortFacts DEF IInv, Places, EachOnce, Reset
<1>7. RestIsTaken'
  BY <1>1 DEF RestIsTaken, Ending, Reset
<1>8. SinkOnce'
  BY <1>1, OwnStays, ShortFacts DEF IInv, SinkOnce, Reset
<1>9. CheckpointsCover'
  <2>1. num \in Nat /\ disk \in Nat
    BY DeliveryAssumption DEF IInv, TypeOK, Numbers
  <2> QED
    BY <1>1, <1>2, <2>1 DEF IInv, CheckpointsCover, CheckpointNumbersLast, Reset, Free
<1> QED
  BY <1>3, <1>4, <1>5, <1>6, <1>7, <1>8, <1>9 DEF IInv

LEMMA ResumeInvariant ==
    ASSUME IInv, Resume
    PROVE  IInv'
<1>1. /\ coord' = "new" /\ disk > 0 /\ num' = disk /\ epoch' = epoch + 1 /\ epoch < MaxResumes
      /\ stream' = <<>> /\ given' = <<>> /\ lost' = {} /\ Reset /\ UNCHANGED <<disk, public>>
  BY DEF Resume
<1>2. /\ \A q \in Publishers : pub'[q] = Free
      /\ pub' \in [Publishers -> [at : {"idle", "reserved", "sent"}, n : Numbers]]
  <2>1. Free \in [at : {"idle", "reserved", "sent"}, n : Numbers]
    BY DeliveryAssumption DEF Free, Numbers
  <2> QED
    BY <1>1, <2>1 DEF Reset
<1>3. Own' = {} /\ SentNow' = {} /\ Emission' = {}
  <2>1. \A x \in public : x[1] # epoch + 1
    BY DeliveryAssumption DEF IInv, TypeOK, CheckpointsCover
  <2>2. Own' = {}
    BY <1>1, <2>1 DEF Own
  <2>3. SentNow' = {}
    BY <1>2 DEF SentNow, Free
  <2> QED
    BY <1>1, <2>2, <2>3 DEF Emission, Reset
<1>4. TypeOK'
  <2>1. \A q \in {out, pending, after, sinkq, stream, given}' : q \in Seq(Numbers)
    BY <1>1, ShortFacts DEF Reset
  <2>2. 0 \in Numbers /\ Len(pending') <= PendMax /\ Len(sinkq') <= SinkMax
    BY <1>1, DeliveryAssumption DEF Numbers, Reset
  <2>3. epoch' \in 0..MaxResumes
    BY <1>1, DeliveryAssumption DEF IInv, TypeOK
  <2> QED
    BY <1>1, <1>2, <2>1, <2>2, <2>3 DEF IInv, TypeOK, Reset
<1>5. Control'
  BY <1>1, <1>2, Names
     DEF IInv, Control, EngineFollows, NumbersAreHeld, Quiet, Ending, Reset, Free
<1>6. NumbersAreNew'
  BY <1>2, <1>3 DEF NumbersAreNew, Free
<1>7. Places'
  BY <1>1, <1>3, ShortFacts DEF Places, EachOnce, InOnePlace, Apart, Reset
<1>8. RestIsTaken'
  BY <1>1 DEF RestIsTaken, Ending, Reset
<1>9. SinkOnce'
  BY <1>1, <1>3, ShortFacts DEF SinkOnce, Reset
<1>10. CheckpointsCover'
  <2>1. \A d \in public : d[1] \in 0..epoch' /\ (d[3] => d[2] <= disk)
    BY <1>1, DeliveryAssumption DEF IInv, TypeOK, CheckpointsCover
  <2>2. disk \in Nat
    BY DeliveryAssumption DEF IInv, TypeOK, Numbers
  <2> QED
    BY <1>1, <1>2, <2>1, <2>2 DEF IInv, CheckpointsCover, CheckpointNumbersLast, Reset, Free
<1> QED
  BY <1>4, <1>5, <1>6, <1>7, <1>8, <1>9, <1>10 DEF IInv

LEMMA SinkInvariant ==
    ASSUME IInv, SinkTakes \/ SinkReturns \/ SinkTimesOut
    PROVE  IInv'
<1>1. /\ UNCHANGED <<coord, out, eng, task, emission, num, pub, pending, after, disk, epoch, stream,
                     lost, public>>
      /\ \/ UNCHANGED <<sinkq, given>> /\ worker' = 0
         \/ sinkq # <<>> /\ sinkq' = Tail(sinkq) /\ UNCHANGED <<worker, given, circuit>>
         \/ /\ sinkq # <<>> /\ sinkq' = Tail(sinkq) /\ ~circuit /\ UNCHANGED circuit
            /\ worker' = Head(sinkq) /\ given' = Append(given, Head(sinkq))
      /\ circuit' \in BOOLEAN
  BY DEF IInv, TypeOK, SinkTakes, SinkReturns, SinkTimesOut, coordVars, engVars, queueVars
<1>2. /\ sinkq \in Seq(Numbers) /\ given \in Seq(Numbers) /\ Len(sinkq) <= SinkMax
      /\ IsInjective(sinkq) /\ IsInjective(given) /\ ToSet(given) \cap ToSet(sinkq) = {}
      /\ ToSet(given) \cup ToSet(sinkq) \subseteq Own /\ worker \in Numbers
  BY DEF IInv, TypeOK, Places, EachOnce, SinkOnce
<1>3. /\ sinkq' \in Seq(Numbers) /\ given' \in Seq(Numbers) /\ Len(sinkq') <= SinkMax
      /\ IsInjective(sinkq') /\ IsInjective(given') /\ ToSet(given') \cap ToSet(sinkq') = {}
      /\ ToSet(given') \cup ToSet(sinkq') \subseteq Own /\ worker' \in Numbers
  <2>1. CASE UNCHANGED <<sinkq, given>> /\ worker' = 0
    BY <1>2, <2>1, DeliveryAssumption DEF Numbers
  <2>2. CASE sinkq # <<>> /\ sinkq' = Tail(sinkq)
    <3> DEFINE n == Head(sinkq)
    <3>1. /\ n \in Numbers /\ sinkq' \in Seq(Numbers) /\ Len(sinkq') = Len(sinkq) - 1
          /\ ToSet(sinkq) = ToSet(sinkq') \cup {n} /\ IsInjective(sinkq')
          /\ n \notin ToSet(sinkq')
      BY <1>2, <2>2, HeadFacts
    <3>2. \/ given' = given /\ worker' \in {worker, 0}
          \/ given' = Append(given, n) /\ worker' = n
      BY <1>1
    <3>3. /\ Append(given, n) \in Seq(Numbers) /\ IsInjective(Append(given, n))
          /\ ToSet(Append(given, n)) = ToSet(given) \cup {n}
      BY <1>2, <3>1, AppendFacts
    <3>4. Len(sinkq') <= SinkMax /\ 0 \in Numbers
      BY <1>2, <3>1, DeliveryAssumption DEF Numbers
    <3> HIDE DEF n
    <3> QED
      BY <1>2, <3>1, <3>2, <3>3, <3>4
  <2> QED
    BY <1>1, <2>1, <2>2
<1>4. TypeOK'
  <2>1. \A q \in {out, pending, after, sinkq, stream, given}' : q \in Seq(Numbers)
    BY <1>1, <1>3 DEF IInv, TypeOK
  <2> QED
    BY <1>1, <1>3, <2>1 DEF IInv, TypeOK
<1>5. Control'
  BY <1>1 DEF IInv, Control, EngineFollows, NumbersAreHeld, Quiet
<1>6. NumbersAreNew' /\ CheckpointsCover' /\ (InOnePlace => InOnePlace')
  BY <1>1, Frame DEF IInv
<1>7. Places'
  BY <1>1, <1>3, <1>6 DEF IInv, Places, EachOnce
<1>8. RestIsTaken'
  BY <1>1 DEF IInv, RestIsTaken
<1>9. SinkOnce'
  BY <1>1, <1>3, OwnStays DEF IInv, SinkOnce
<1> QED
  BY <1>4, <1>5, <1>6, <1>7, <1>8, <1>9 DEF IInv

-----------------------------------------------------------------------------
LEMMA CoordinatorInvariant ==
    ASSUME IInv, Coordinator
    PROVE  IInv'
<1>1. CASE Deliver
  BY <1>1, DeliverInvariant
<1>2. CASE Open \/ PublishTerminal
  BY <1>2, CoordinatorReserves DEF Open, PublishTerminal, At
<1>3. CASE Opened \/ Terminal
  BY <1>3, CoordinatorSends DEF Opened, Terminal, At, engVars
<1>4. CASE Launch
  BY <1>4, DrainInvariant DEF Launch, At, Aside
<1>5. CASE LoopTop \/ LoopWait \/ DrainRest
  BY <1>5, DrainInvariant DEF LoopTop, LoopWait, DrainRest, Step, At, Aside, engVars
<1>6. CASE TakeAfter \/ TakeError \/ DrainRestAfter
  BY <1>6, DrainAfterInvariant
     DEF TakeAfter, TakeError, DrainRestAfter, Step, At, Aside, engVars
<1>7. CASE LoopCheck \/ TakeOutcome \/ InitFails \/ Restart
  BY <1>7, MoveInvariant
     DEF LoopCheck, TakeOutcome, InitFails, Restart, Step, At, Aside, engVars, queueVars,
         IInv, Control, EngineFollows
<1>8. CASE TakeEvent
  BY <1>8, TakeEventInvariant
<1>9. CASE Close
  BY <1>9, CloseInvariant
<1> QED
  BY <1>1, <1>2, <1>3, <1>4, <1>5, <1>6, <1>7, <1>8, <1>9 DEF Coordinator

LEMMA DeliveryInvariant == Spec => []IInv
<1>1. Init => IInv
  BY InitInvariant
<1>2. IInv /\ [Next]_vars => IInv'
  <2> SUFFICES ASSUME IInv, [Next]_vars
               PROVE  IInv'
    OBVIOUS
  <2>1. CASE UNCHANGED vars
    <3>1. /\ UNCHANGED <<Aside, coord, out, eng, emission, pending, after, stream>>
      BY <2>1 DEF vars, coordVars, engVars, queueVars, Aside
    <3>2. TypeOK' /\ Control' /\ RestIsTaken'
      BY <3>1 DEF IInv, TypeOK, Control, EngineFollows, NumbersAreHeld, Quiet, RestIsTaken, Aside,
                  sinkVars
    <3>3. Places'
      BY <3>1, Frame DEF IInv, Places, Aside, sinkVars
    <3> QED
      BY <3>1, <3>2, <3>3, AsideKeeps DEF IInv
  <2>2. CASE Publication
    BY <2>2, DispatchInvariant, EnqueueInvariant DEF Publication
  <2>3. CASE Deferred \/ Emitted \/ Saving
    BY <2>3, EngineInvariant DEF Deferred, Emitted, Saving
  <2>4. CASE Tools \/ Initialized \/ Ends
    <3>1. Tools => EngineMoves("run", "tools")
      BY DEF Tools, EngineMoves
    <3> QED
      BY <2>4, <3>1, EngineMovesInvariant DEF Initialized, Ends
  <2>5. CASE ToolsDone \/ Describe \/ EngineGoesOn
    BY <2>5, ToolsDoneInvariant, DescribeInvariant, YieldInvariant, SaveInvariant,
       SaveFailsInvariant DEF EngineGoesOn
  <2>6. CASE \E c \in Callbacks : Report(c)
    BY <2>6, ReportInvariant
  <2>7. CASE Coordinator
    BY <2>7, CoordinatorInvariant
  <2>8. CASE SinkTakes \/ SinkReturns \/ SinkTimesOut \/ Interrupt \/ Resume
    BY <2>8, SinkInvariant, InterruptInvariant, ResumeInvariant
  <2> QED
    BY <2>1, <2>2, <2>3, <2>4, <2>5, <2>6, <2>7, <2>8 DEF Next, EngineStep
<1> QED
  BY <1>1, <1>2, PTL DEF Spec

(* The stream of a run that ends holds every event that its process         *)
(* published, once, and the terminal event last: however the engine,        *)
(* delegations, the consumer and the sink interleave, with crashes and      *)
(* resumptions in between.                                                  *)
THEOREM DeliveryIsSound == Spec => [](TypeOK /\ StreamIsComplete)
<1>1. IInv => TypeOK /\ StreamIsComplete
  <2> SUFFICES ASSUME IInv
               PROVE  StreamIsComplete
    BY DEF IInv
  <2>2. ASSUME coord = "closed"
        PROVE  ToSet(stream) = Own /\ IsInjective(stream) /\ Last(stream) = num
    <3>1. /\ out = <<>> /\ pending = <<>> /\ after = <<>>
          /\ stream[Len(stream)] = num
      BY <2>2 DEF IInv, RestIsTaken, Ending
    <3>2. Emission = {} /\ SentNow = {}
      <4>1. eng \in {"outcome", "failed"}
        BY <2>2 DEF IInv, Control, EngineFollows, Ending
      <4>2. \A p \in Publishers : pub[p].at = "idle"
        BY <2>2, <4>1, Names DEF IInv, Control, NumbersAreHeld, Quiet, Free, Publishers
      <4> QED
        BY <4>1, <4>2 DEF IInv, Control, NumbersAreHeld, Emission, SentNow
    <3>3. ToSet(stream) = Own
      BY <2>2, <3>1, <3>2, ShortFacts DEF IInv, Places, InOnePlace
    <3> QED
      BY <3>1, <3>3 DEF IInv, Places, EachOnce, Last
  <2> QED
    BY <2>2 DEF StreamIsComplete
<1> QED
  BY <1>1, DeliveryInvariant, PTL

(* The sink gets events that were published, none twice, and none once it   *)
(* has kept the worker waiting beyond its timeout (_SinkWorker).            *)
THEOREM SinkIsolation == Spec => []SinkIsIsolated
<1>1. IInv => SinkIsIsolated
  BY DEF IInv, Places, EachOnce, SinkOnce, SinkIsIsolated
<1> QED
  BY <1>1, DeliveryInvariant, PTL

(* What CHECKPOINT_SAVED reports is durable, and its number is below those  *)
(* of later processes: a resumed run reuses no number that a checkpoint     *)
(* covers (RunCoordinator.resume).                                          *)
THEOREM CheckpointNumbering == Spec => []CheckpointNumbersLast
<1>1. IInv => CheckpointNumbersLast
  BY DEF IInv, CheckpointsCover, CheckpointNumbersLast
<1> QED
  BY <1>1, DeliveryInvariant, PTL
=============================================================================
