-------------------------- MODULE PrimitivesProofs --------------------------
(***************************************************************************)
(* Proofs about what MCPrimitives checks on a small instance: the          *)
(* scheduler of synchronous tools, the session locks, the background pool  *)
(* and the batches of tool calls.  They share no state; each has an        *)
(* inductive invariant of its own.                                         *)
(***************************************************************************)
EXTENDS SyncToolScheduler, SessionLocks, BackgroundPool, ToolRuntime, FiniteSetTheorems,
        SequenceTheorems, TLAPS

-----------------------------------------------------------------------------
(* The scheduler, for any finite pool and any finite number of calls.  A    *)
(* call is in one place at a time: with its caller, in the queue once, held *)
(* by one worker, or completed.  The slots are counted over these places.   *)

InQueue(i) == \E k \in 1..Len(queue) : queue[k] = i

(* No call is queued or held twice, and a worker between two calls holds    *)
(* none.                                                                    *)
EachOnce ==
    /\ \A j, k \in 1..Len(queue) : queue[j] = queue[k] => j = k
    /\ \A v, w \in Workers : item[v] = item[w] /\ item[v] # NoItem => v = w
    /\ \A w \in Workers, k \in 1..Len(queue) : queue[k] # item[w]
    /\ \A w \in Workers : pc[w] = "get" <=> item[w] = NoItem

(* A call that is queued or held is still open; a call that is completed    *)
(* ran or was abandoned.                                                    *)
Open(i) == caller[i] \in {"waiting", "cancelled"} /\ ~done[i]

CallsAreOpen ==
    /\ \A i \in Items : abandoned[i] <=> caller[i] = "cancelled"
    /\ \A k \in 1..Len(queue) : Open(queue[k]) /\ queue[k] \notin ran
    /\ \A w \in Workers : item[w] # NoItem => Open(item[w])
    /\ \A i \in Items : done[i] => /\ caller[i] \in {"waiting", "returned", "cancelled"}
                                   /\ i \in ran \/ abandoned[i]
    /\ \A i \in ran : caller[i] \in {"waiting", "returned", "cancelled"}

(* What a worker has found out about the call it holds. *)
WorkersKnow ==
    \A w \in Workers :
        /\ pc[w] = "skip" => abandoned[item[w]]
        /\ pc[w] = "exit" => item[w] \in ran
        /\ pc[w] \in {"leave", "signal"} => item[w] \in ran \/ abandoned[item[w]]
        /\ pc[w] \in {"enter", "call", "exit"} => item[w] \notin doomed

DoomedStay == \A i \in doomed : abandoned[i] /\ i \notin ran

(* The invariant about where the calls are, without the counters. *)
Placed ==
    /\ TypeOK /\ EachOnce /\ CallsAreOpen /\ WorkersKnow /\ DoomedStay /\ ReturnedMeansRan

(* The counters. *)
Counted ==
    /\ OutstandingIsExact /\ outstanding <= Capacity
    /\ running = Cardinality(Running)

IInv == Placed /\ Counted

-----------------------------------------------------------------------------
(* What appending to the queue and taking its head do. *)
LEMMA QueueFacts ==
    ASSUME NEW q \in Seq(Items)
    PROVE  /\ Len(q) \in Nat
           /\ \A k \in 1..Len(q) : q[k] \in Items
           /\ \A i \in Items :
                 /\ Append(q, i) \in Seq(Items)
                 /\ Len(Append(q, i)) = Len(q) + 1
                 /\ \A k \in 1..Len(q) : Append(q, i)[k] = q[k]
                 /\ Append(q, i)[Len(q) + 1] = i
           /\ q # <<>> =>
                 /\ Len(q) >= 1
                 /\ Head(q) = q[1] /\ Head(q) \in Items
                 /\ Tail(q) \in Seq(Items)
                 /\ Len(Tail(q)) = Len(q) - 1
                 /\ \A k \in 1..Len(q) - 1 : Tail(q)[k] = q[k + 1]
<1>1. Len(q) \in Nat /\ \A k \in 1..Len(q) : q[k] \in Items
  BY LenProperties, ElementOfSeq
<1>2. \A i \in Items :
        /\ Append(q, i) \in Seq(Items)
        /\ Len(Append(q, i)) = Len(q) + 1
        /\ \A k \in 1..Len(q) : Append(q, i)[k] = q[k]
        /\ Append(q, i)[Len(q) + 1] = i
  BY AppendProperties
<1>3. ASSUME q # <<>>
      PROVE  /\ Len(q) >= 1
             /\ Head(q) = q[1] /\ Head(q) \in Items
             /\ Tail(q) \in Seq(Items)
             /\ Len(Tail(q)) = Len(q) - 1
             /\ \A k \in 1..Len(q) - 1 : Tail(q)[k] = q[k + 1]
  <2>1. Len(q) \in Nat \ {0}
    BY <1>3, EmptySeq
  <2>2. Head(q) = q[1]
    BY <2>1
  <2> QED
    BY <1>3, <2>1, <2>2, HeadTailProperties
<1> QED
  BY <1>1, <1>2, <1>3

LEMMA PlacedInit == Init => Placed
BY SchedulerAssumption, EmptySeq
   DEF Init, Placed, TypeOK, EachOnce, CallsAreOpen, WorkersKnow, DoomedStay,
       ReturnedMeansRan, Labels

LEMMA AdmitPlaced ==
    ASSUME Placed, NEW i \in Items, Admit(i)
    PROVE  Placed'
<1>1. /\ caller[i] = "new"
      /\ caller' = [caller EXCEPT ![i] = "rejected"] \/ caller' = [caller EXCEPT ![i] = "putting"]
      /\ UNCHANGED <<abandoned, done, queue, pc, item, running, finished, dropped, history>>
  BY DEF Admit
<1>2. ~InQueue(i) /\ (\A w \in Workers : item[w] # i) /\ i \notin ran
  BY <1>1, SchedulerAssumption DEF Placed, CallsAreOpen, Open, InQueue
<1>3. TypeOK'
  BY DEF Placed, TypeOK, Admit, stats, history
<1>4. EachOnce' /\ WorkersKnow' /\ DoomedStay' /\ ReturnedMeansRan'
  BY <1>1 DEF Placed, TypeOK, EachOnce, WorkersKnow, DoomedStay, ReturnedMeansRan, history
<1>5. CallsAreOpen'
  <2>1. \A j \in Items \ {i} : caller'[j] = caller[j]
    BY <1>1 DEF Placed, TypeOK
  <2>2. \A k \in 1..Len(queue) : queue[k] \in Items \ {i}
    BY <1>2, QueueFacts DEF Placed, TypeOK, InQueue
  <2> QED
    BY <1>1, <1>2, <2>1, <2>2 DEF Placed, TypeOK, CallsAreOpen, Open, history
<1> QED
  BY <1>3, <1>4, <1>5 DEF Placed

LEMMA PutPlaced ==
    ASSUME Placed, NEW i \in Items, Put(i)
    PROVE  Placed'
<1>1. /\ caller[i] = "putting"
      /\ UNCHANGED <<abandoned, done, pc, item, running, finished, dropped, history>>
  BY DEF Put
<1>2. ~InQueue(i) /\ (\A w \in Workers : item[w] # i) /\ ~done[i] /\ ~abandoned[i] /\ i \notin ran
  BY <1>1, SchedulerAssumption DEF Placed, CallsAreOpen, Open, InQueue
<1>3. /\ queue \in Seq(Items) /\ Len(queue) \in Nat
      /\ \A k \in 1..Len(queue) : queue[k] \in Items
  BY QueueFacts DEF Placed, TypeOK
<1>4. CASE UNCHANGED queue /\ caller' = [caller EXCEPT ![i] = "rejected"]
  <2>1. TypeOK'
    BY <1>1, <1>4 DEF Placed, TypeOK, Put, stats, history
  <2>2. EachOnce' /\ WorkersKnow' /\ DoomedStay' /\ ReturnedMeansRan'
    BY <1>1, <1>4 DEF Placed, TypeOK, EachOnce, WorkersKnow, DoomedStay, ReturnedMeansRan, history
  <2>3. CallsAreOpen'
    BY <1>1, <1>2, <1>3, <1>4 DEF Placed, TypeOK, CallsAreOpen, Open, InQueue, history
  <2> QED
    BY <2>1, <2>2, <2>3 DEF Placed
<1>5. CASE queue' = Append(queue, i) /\ caller' = [caller EXCEPT ![i] = "waiting"]
  <2>1. /\ queue' \in Seq(Items)
        /\ Len(queue') = Len(queue) + 1
        /\ \A k \in 1..Len(queue) : queue'[k] = queue[k]
        /\ queue'[Len(queue) + 1] = i
    BY <1>3, <1>5, QueueFacts
  <2>2. TypeOK'
    BY <1>1, <1>5, <2>1 DEF Placed, TypeOK, Put, stats, history
  <2>3. EachOnce' /\ WorkersKnow' /\ DoomedStay' /\ ReturnedMeansRan'
    BY <1>1, <1>2, <1>3, <1>5, <2>1
       DEF Placed, TypeOK, EachOnce, WorkersKnow, DoomedStay, ReturnedMeansRan, InQueue, history
  <2>4. CallsAreOpen'
    BY <1>1, <1>2, <1>3, <1>5, <2>1
       DEF Placed, TypeOK, CallsAreOpen, Open, InQueue, ReturnedMeansRan, history
  <2> QED
    BY <2>2, <2>3, <2>4 DEF Placed
<1> QED
  BY <1>4, <1>5 DEF Put

LEMMA ObservePlaced ==
    ASSUME Placed, NEW i \in Items, Observe(i)
    PROVE  Placed'
<1>1. TypeOK'
  BY DEF Placed, TypeOK, Labels, Observe, stats, history
<1>2. EachOnce'
  BY SchedulerAssumption DEF Placed, TypeOK, EachOnce, Observe
<1>3. CallsAreOpen'
  BY SchedulerAssumption, QueueFacts
     DEF Placed, TypeOK, EachOnce, CallsAreOpen, Open, Observe, history
<1>4. WorkersKnow' /\ DoomedStay' /\ ReturnedMeansRan'
  BY SchedulerAssumption
     DEF Placed, TypeOK, EachOnce, CallsAreOpen, Open, WorkersKnow, DoomedStay,
         ReturnedMeansRan, Observe, history
<1> QED
  BY <1>1, <1>2, <1>3, <1>4 DEF Placed

LEMMA AbandonPlaced ==
    ASSUME Placed, NEW i \in Items, Abandon(i)
    PROVE  Placed'
<1>1. TypeOK'
  BY DEF Placed, TypeOK, Labels, Abandon, stats, history
<1>2. EachOnce'
  BY SchedulerAssumption DEF Placed, TypeOK, EachOnce, Abandon
<1>3. CallsAreOpen'
  BY SchedulerAssumption, QueueFacts
     DEF Placed, TypeOK, EachOnce, CallsAreOpen, Open, Abandon, history
<1>4. WorkersKnow' /\ DoomedStay' /\ ReturnedMeansRan'
  BY SchedulerAssumption
     DEF Placed, TypeOK, EachOnce, CallsAreOpen, Open, WorkersKnow, DoomedStay,
         ReturnedMeansRan, Abandon, history
<1> QED
  BY <1>1, <1>2, <1>3, <1>4 DEF Placed

LEMMA GetPlaced ==
    ASSUME Placed, NEW w \in Workers, Get(w)
    PROVE  Placed'
<1>1. TypeOK'
  BY QueueFacts DEF Placed, TypeOK, Labels, Get, Step, stats, history
<1>2. EachOnce'
  <2>1. /\ queue' \in Seq(Items) /\ Len(queue) \in Nat /\ Len(queue') = Len(queue) - 1
        /\ \A k \in 1..Len(queue') : queue'[k] = queue[k + 1] /\ k + 1 \in 1..Len(queue)
        /\ 1 \in 1..Len(queue) /\ queue[1] \in Items
        /\ item' = [item EXCEPT ![w] = queue[1]]
    BY QueueFacts DEF Placed, TypeOK, Get, Step
  <2>2. /\ item \in [Workers -> Items \cup {NoItem}] /\ queue[1] # NoItem
        /\ pc' = [pc EXCEPT ![w] = "check"] /\ pc[w] = "get"
        /\ \A v \in Workers : pc[v] = "get" <=> item[v] = NoItem
        /\ \A v \in Workers, k \in 1..Len(queue) : queue[k] # item[v]
    BY <2>1, SchedulerAssumption DEF Placed, TypeOK, EachOnce, Get, Step
  <2>3. \A j, k \in 1..Len(queue) : queue[j] = queue[k] => j = k
    BY DEF Placed, EachOnce
  <2>4. \A j, k \in 1..Len(queue') : queue'[j] = queue'[k] => j = k
    BY <2>1, <2>3
  <2>5. \A u, v \in Workers : item'[u] = item'[v] /\ item'[u] # NoItem => u = v
    BY <2>1, <2>2 DEF Placed, EachOnce
  <2>6. \A v \in Workers, k \in 1..Len(queue') : queue'[k] # item'[v]
    <3> SUFFICES ASSUME NEW v \in Workers, NEW k \in 1..Len(queue')
                 PROVE  queue'[k] # item'[v]
      OBVIOUS
    <3>1. /\ queue'[k] = queue[k + 1] /\ k + 1 \in 1..Len(queue) /\ k + 1 # 1
          /\ queue[k + 1] # queue[1]
      BY <2>1, <2>3
    <3>2. item'[v] = queue[1] \/ item'[v] = item[v]
      BY <2>1, <2>2
    <3> QED
      BY <2>2, <3>1, <3>2
  <2>7. \A v \in Workers : pc'[v] = "get" <=> item'[v] = NoItem
    BY <2>1, <2>2 DEF Placed, TypeOK
  <2> QED
    BY <2>4, <2>5, <2>6, <2>7 DEF EachOnce
<1>3. CallsAreOpen'
  BY SchedulerAssumption, QueueFacts
     DEF Placed, TypeOK, EachOnce, CallsAreOpen, Open, Get, Step, history
<1>4. WorkersKnow' /\ DoomedStay' /\ ReturnedMeansRan'
  BY SchedulerAssumption
     DEF Placed, TypeOK, EachOnce, CallsAreOpen, Open, WorkersKnow, DoomedStay,
         ReturnedMeansRan, Get, Step, history
<1> QED
  BY <1>1, <1>2, <1>3, <1>4 DEF Placed

LEMMA CheckPlaced ==
    ASSUME Placed, NEW w \in Workers, Check(w)
    PROVE  Placed'
<1>1. TypeOK'
  BY DEF Placed, TypeOK, Labels, Check, Step, stats, history
<1>2. EachOnce'
  BY SchedulerAssumption DEF Placed, TypeOK, EachOnce, Check, Step
<1>3. CallsAreOpen'
  BY SchedulerAssumption, QueueFacts
     DEF Placed, TypeOK, EachOnce, CallsAreOpen, Open, Check, Step, history
<1>4. WorkersKnow' /\ DoomedStay' /\ ReturnedMeansRan'
  BY SchedulerAssumption
     DEF Placed, TypeOK, EachOnce, CallsAreOpen, Open, WorkersKnow, DoomedStay,
         ReturnedMeansRan, Check, Step, history
<1> QED
  BY <1>1, <1>2, <1>3, <1>4 DEF Placed

LEMMA SkipPlaced ==
    ASSUME Placed, NEW w \in Workers, Skip(w)
    PROVE  Placed'
<1>1. TypeOK'
  BY DEF Placed, TypeOK, Labels, Skip, Step, stats, history
<1>2. EachOnce'
  BY SchedulerAssumption DEF Placed, TypeOK, EachOnce, Skip, Step
<1>3. CallsAreOpen'
  BY SchedulerAssumption, QueueFacts
     DEF Placed, TypeOK, EachOnce, CallsAreOpen, Open, Skip, Step, history
<1>4. WorkersKnow' /\ DoomedStay' /\ ReturnedMeansRan'
  BY SchedulerAssumption
     DEF Placed, TypeOK, EachOnce, CallsAreOpen, Open, WorkersKnow, DoomedStay,
         ReturnedMeansRan, Skip, Step, history
<1> QED
  BY <1>1, <1>2, <1>3, <1>4 DEF Placed

LEMMA EnterPlaced ==
    ASSUME Placed, NEW w \in Workers, Enter(w)
    PROVE  Placed'
<1>1. TypeOK'
  BY DEF Placed, TypeOK, Labels, Enter, Step, stats, history
<1>2. EachOnce'
  BY SchedulerAssumption DEF Placed, TypeOK, EachOnce, Enter, Step
<1>3. CallsAreOpen'
  BY SchedulerAssumption, QueueFacts
     DEF Placed, TypeOK, EachOnce, CallsAreOpen, Open, Enter, Step, history
<1>4. WorkersKnow' /\ DoomedStay' /\ ReturnedMeansRan'
  BY SchedulerAssumption
     DEF Placed, TypeOK, EachOnce, CallsAreOpen, Open, WorkersKnow, DoomedStay,
         ReturnedMeansRan, Enter, Step, history
<1> QED
  BY <1>1, <1>2, <1>3, <1>4 DEF Placed

LEMMA CallPlaced ==
    ASSUME Placed, NEW w \in Workers, Call(w)
    PROVE  Placed'
<1>1. TypeOK'
  BY DEF Placed, TypeOK, Labels, Call, Step, stats, history
<1>2. EachOnce'
  BY SchedulerAssumption DEF Placed, TypeOK, EachOnce, Call, Step
<1>3. CallsAreOpen'
  BY SchedulerAssumption, QueueFacts
     DEF Placed, TypeOK, EachOnce, CallsAreOpen, Open, Call, Step, history
<1>4. WorkersKnow' /\ DoomedStay' /\ ReturnedMeansRan'
  BY SchedulerAssumption
     DEF Placed, TypeOK, EachOnce, CallsAreOpen, Open, WorkersKnow, DoomedStay,
         ReturnedMeansRan, Call, Step, history
<1> QED
  BY <1>1, <1>2, <1>3, <1>4 DEF Placed

LEMMA ExitPlaced ==
    ASSUME Placed, NEW w \in Workers, Exit(w)
    PROVE  Placed'
<1>1. TypeOK'
  BY DEF Placed, TypeOK, Labels, Exit, Step, stats, history
<1>2. EachOnce'
  BY SchedulerAssumption DEF Placed, TypeOK, EachOnce, Exit, Step
<1>3. CallsAreOpen'
  BY SchedulerAssumption, QueueFacts
     DEF Placed, TypeOK, EachOnce, CallsAreOpen, Open, Exit, Step, history
<1>4. WorkersKnow' /\ DoomedStay' /\ ReturnedMeansRan'
  BY SchedulerAssumption
     DEF Placed, TypeOK, EachOnce, CallsAreOpen, Open, WorkersKnow, DoomedStay,
         ReturnedMeansRan, Exit, Step, history
<1> QED
  BY <1>1, <1>2, <1>3, <1>4 DEF Placed

LEMMA LeavePlaced ==
    ASSUME Placed, NEW w \in Workers, Leave(w)
    PROVE  Placed'
<1>1. TypeOK'
  BY DEF Placed, TypeOK, Labels, Leave, Step, stats, history
<1>2. EachOnce'
  BY SchedulerAssumption DEF Placed, TypeOK, EachOnce, Leave, Step
<1>3. CallsAreOpen'
  BY SchedulerAssumption, QueueFacts
     DEF Placed, TypeOK, EachOnce, CallsAreOpen, Open, Leave, Step, history
<1>4. WorkersKnow' /\ DoomedStay' /\ ReturnedMeansRan'
  BY SchedulerAssumption
     DEF Placed, TypeOK, EachOnce, CallsAreOpen, Open, WorkersKnow, DoomedStay,
         ReturnedMeansRan, Leave, Step, history
<1> QED
  BY <1>1, <1>2, <1>3, <1>4 DEF Placed

LEMMA SignalPlaced ==
    ASSUME Placed, NEW w \in Workers, Signal(w)
    PROVE  Placed'
<1>1. TypeOK'
  BY DEF Placed, TypeOK, Labels, Signal, Step, stats, history
<1>2. EachOnce'
  BY SchedulerAssumption DEF Placed, TypeOK, EachOnce, Signal, Step
<1>3. CallsAreOpen'
  BY SchedulerAssumption, QueueFacts
     DEF Placed, TypeOK, EachOnce, CallsAreOpen, Open, WorkersKnow, Signal, Step, history
<1>4. WorkersKnow' /\ DoomedStay' /\ ReturnedMeansRan'
  BY SchedulerAssumption
     DEF Placed, TypeOK, EachOnce, CallsAreOpen, Open, WorkersKnow, DoomedStay,
         ReturnedMeansRan, Signal, Step, history
<1> QED
  BY <1>1, <1>2, <1>3, <1>4 DEF Placed

(* Where the calls are is an invariant. *)
LEMMA PlacedStep == Placed /\ [Next]_vars => Placed'
<1> SUFFICES ASSUME Placed, [Next]_vars
             PROVE  Placed'
  OBVIOUS
<1>1. CASE UNCHANGED vars
  BY <1>1 DEF vars, stats, history, Placed, TypeOK, EachOnce, CallsAreOpen, Open, WorkersKnow,
              DoomedStay, ReturnedMeansRan
<1>2. CASE \E i \in Items : Admit(i) \/ Put(i) \/ Observe(i) \/ Abandon(i)
  BY <1>2, AdmitPlaced, PutPlaced, ObservePlaced, AbandonPlaced
<1>3. CASE \E w \in Workers : Work(w)
  BY <1>3, GetPlaced, CheckPlaced, SkipPlaced, EnterPlaced, CallPlaced, ExitPlaced,
     LeavePlaced, SignalPlaced DEF Work
<1> QED
  BY <1>1, <1>2, <1>3 DEF Next

-----------------------------------------------------------------------------
(* The places are counted over finite sets. *)
LEMMA PlacesFinite ==
    /\ IsFiniteSet(Putting) /\ IsFiniteSet(Busy) /\ IsFiniteSet(Running)
    /\ Cardinality(Putting) \in Nat /\ Cardinality(Busy) \in Nat
    /\ Cardinality(Running) \in Nat
    /\ Cardinality(Running) <= MaxWorkers /\ MaxWorkers \in Nat /\ Capacity \in Nat
<1>1. Putting \in SUBSET Items /\ Busy \in SUBSET Workers /\ Running \in SUBSET Workers
  BY DEF Putting, Busy, Running
<1>2. IsFiniteSet(Putting) /\ IsFiniteSet(Busy) /\ IsFiniteSet(Running)
  BY <1>1, FS_Subset, SchedulerAssumption
<1>3. Cardinality(Workers) \in Nat /\ Cardinality(Running) <= Cardinality(Workers)
  BY <1>1, FS_Subset, FS_CardinalityType, SchedulerAssumption
<1> QED
  BY <1>2, <1>3, FS_CardinalityType, SchedulerAssumption DEF MaxWorkers, Capacity

LEMMA CountedInit == Init => Counted
<1> SUFFICES ASSUME Init PROVE Counted
  OBVIOUS
<1>1. Putting = {} /\ Busy = {} /\ Running = {} /\ Len(queue) = 0
  BY DEF Init, Putting, Busy, Running
<1> QED
  BY <1>1, PlacesFinite, FS_EmptySet DEF Init, Counted, OutstandingIsExact

(* A step that moves no call between two places that are counted. *)
LEMMA CountedKept ==
    ASSUME Counted, Putting' = Putting, Busy' = Busy, Running' = Running,
           Len(queue') = Len(queue), UNCHANGED <<outstanding, running>>
    PROVE  Counted'
BY DEF Counted, OutstandingIsExact, Capacity, MaxWorkers

(* A call is admitted, and later put into the queue or refused after all. *)
LEMMA CallerCounted ==
    ASSUME Placed, Counted, NEW i \in Items,
           Admit(i) \/ Put(i) \/ Observe(i) \/ Abandon(i)
    PROVE  Counted'
<1> USE DEF Placed, TypeOK
<1>1. CASE Admit(i)
  <2>1. Busy' = Busy /\ Running' = Running /\ Len(queue') = Len(queue)
    BY <1>1 DEF Admit, Busy, Running
  <2>2. CASE outstanding >= Capacity
    BY <1>1, <2>1, <2>2, CountedKept DEF Admit, Putting
  <2>3. CASE ~(outstanding >= Capacity)
    <3>1. Putting' = Putting \cup {i} /\ i \notin Putting
      BY <1>1, <2>3 DEF Admit, Putting
    <3>2. Cardinality(Putting') = Cardinality(Putting) + 1
      BY <3>1, FS_AddElement, PlacesFinite
    <3> QED
      BY <1>1, <2>1, <2>3, <3>2, PlacesFinite, QueueFacts
         DEF Admit, Counted, OutstandingIsExact, Capacity, MaxWorkers
  <2> QED
    BY <2>2, <2>3
<1>2. CASE Put(i)
  <2>1. Busy' = Busy /\ Running' = Running /\ running' = running
    BY <1>2 DEF Put, Busy, Running
  <2>2. Putting' = Putting \ {i} /\ i \in Putting
    BY <1>2 DEF Put, Putting
  <2>3. Cardinality(Putting') = Cardinality(Putting) - 1
    BY <2>2, FS_RemoveElement, PlacesFinite
  <2>4. \/ outstanding' = outstanding /\ Len(queue') = Len(queue) + 1
        \/ outstanding' = outstanding - 1 /\ Len(queue') = Len(queue)
    BY <1>2, QueueFacts DEF Put
  <2> QED
    BY <2>1, <2>3, <2>4, PlacesFinite, QueueFacts
       DEF Counted, OutstandingIsExact, Capacity, MaxWorkers
<1>3. CASE Observe(i) \/ Abandon(i)
  BY <1>3, CountedKept DEF Observe, Abandon, Putting, Busy, Running, stats
<1> QED
  BY <1>1, <1>2, <1>3

(* A worker takes a call out of the queue, and gives its slot back once. *)
LEMMA WorkerCounted ==
    ASSUME Placed, Counted, NEW w \in Workers, Work(w)
    PROVE  Counted'
<1> USE DEF Placed, TypeOK, Step
<1>1. CASE Get(w)
  <2>1. Putting' = Putting /\ Running' = Running /\ UNCHANGED <<outstanding, running>>
    BY <1>1 DEF Get, Putting, Running, stats
  <2>2. Busy' = Busy \cup {w} /\ w \notin Busy
    BY <1>1 DEF Get, Busy
  <2>3. Cardinality(Busy') = Cardinality(Busy) + 1
    BY <2>2, FS_AddElement, PlacesFinite
  <2>4. Len(queue') = Len(queue) - 1
    BY <1>1, QueueFacts DEF Get
  <2> QED
    BY <2>1, <2>3, <2>4, PlacesFinite, QueueFacts
       DEF Counted, OutstandingIsExact, Capacity, MaxWorkers
<1>2. CASE Check(w) \/ Skip(w) \/ Call(w) \/ Signal(w)
  BY <1>2, CountedKept DEF Check, Skip, Call, Signal, Putting, Busy, Running, stats
<1>3. CASE Enter(w)
  <2>1. Putting' = Putting /\ Busy' = Busy /\ UNCHANGED <<outstanding, queue>>
    BY <1>3 DEF Enter, Putting, Busy
  <2>2. Running' = Running \cup {w} /\ w \notin Running
    BY <1>3 DEF Enter, Running
  <2>3. Cardinality(Running') = Cardinality(Running) + 1
    BY <2>2, FS_AddElement, PlacesFinite
  <2> QED
    BY <1>3, <2>1, <2>3, PlacesFinite DEF Enter, Counted, OutstandingIsExact, Capacity, MaxWorkers
<1>4. CASE Exit(w)
  <2>1. Putting' = Putting /\ Busy' = Busy /\ UNCHANGED <<outstanding, queue>>
    BY <1>4 DEF Exit, Putting, Busy
  <2>2. Running' = Running \ {w} /\ w \in Running
    BY <1>4 DEF Exit, Running
  <2>3. Cardinality(Running') = Cardinality(Running) - 1
    BY <2>2, FS_RemoveElement, PlacesFinite
  <2> QED
    BY <1>4, <2>1, <2>3, PlacesFinite DEF Exit, Counted, OutstandingIsExact, Capacity, MaxWorkers
<1>5. CASE Leave(w)
  <2>1. Putting' = Putting /\ Running' = Running /\ UNCHANGED <<running, queue>>
    BY <1>5 DEF Leave, Putting, Running
  <2>2. Busy' = Busy \ {w} /\ w \in Busy
    BY <1>5 DEF Leave, Busy
  <2>3. Cardinality(Busy') = Cardinality(Busy) - 1
    BY <2>2, FS_RemoveElement, PlacesFinite
  <2> QED
    BY <1>5, <2>1, <2>3, PlacesFinite, QueueFacts
       DEF Leave, Counted, OutstandingIsExact, Capacity, MaxWorkers
<1> QED
  BY <1>1, <1>2, <1>3, <1>4, <1>5 DEF Work

LEMMA CountedStep == Placed /\ Counted /\ [Next]_vars => Counted'
<1> SUFFICES ASSUME Placed, Counted, [Next]_vars
             PROVE  Counted'
  OBVIOUS
<1>1. CASE UNCHANGED vars
  BY <1>1, CountedKept DEF vars, stats, Putting, Busy, Running
<1>2. CASE Next
  BY <1>2, CallerCounted, WorkerCounted DEF Next
<1> QED
  BY <1>1, <1>2

-----------------------------------------------------------------------------
(* IInv implies what the scheduler promises.  The queue has room for every  *)
(* admitted call because that call is counted, but not in the queue.        *)
LEMMA InvariantSuffices == IInv => SchedulerSound
<1> SUFFICES ASSUME IInv PROVE SchedulerSound
  OBVIOUS
<1>1. Putting # {} => Len(queue) < Capacity
  <2>1. Putting # {} => Cardinality(Putting) > 0
    BY PlacesFinite, FS_EmptySet
  <2> QED
    BY <2>1, PlacesFinite, QueueFacts
       DEF IInv, Placed, TypeOK, Counted, OutstandingIsExact
<1>2. SlotsAccounted
  BY <1>1, PlacesFinite DEF IInv, Counted, SlotsAccounted, CapacityHolds
<1>3. AbandonedInQueueNeverRuns
  BY DEF IInv, Placed, DoomedStay, AbandonedInQueueNeverRuns
<1>4. SlotFreedFirst
  BY SchedulerAssumption DEF IInv, Placed, CallsAreOpen, Open, SlotFreedFirst
<1> QED
  BY <1>2, <1>3, <1>4 DEF IInv, Placed, SchedulerSound

(* Whoever abandons what and whenever, in a pool of any size with any        *)
(* number of callers: every slot is accounted for, a caller that run()      *)
(* returns to has had its function called, a call abandoned in the queue    *)
(* never starts, and the slot is free before the completion is seen.        *)
THEOREM SchedulerIsSound == Spec => []SchedulerSound
<1>1. Init => IInv
  BY PlacedInit, CountedInit DEF IInv
<1>2. IInv /\ [Next]_vars => IInv'
  BY PlacedStep, CountedStep DEF IInv
<1> QED
  BY <1>1, <1>2, InvariantSuffices, PTL DEF Spec

-----------------------------------------------------------------------------
(* The session locks, for any finite number of runs and any sessions and    *)
(* locks.  A lock belongs to one session as long as somebody uses it, and   *)
(* who runs holds the lock that everybody present has found.                *)

(* Who is present has found a lock, and nobody else has one. *)
Attached == \A r \in Runs : phase[r] \in {"waiting", "running"} <=> mine[r] # NoLock

(* No two sessions use the same lock. *)
LocksApart ==
    \A s, t \in Sessions : table[s] = table[t] /\ table[s] # NoLock => s = t

(* Who runs has locked the lock it found, and nobody else runs under it. *)
RunnersHold ==
    /\ \A r \in Runs : phase[r] = "running" => taken[mine[r]]
    /\ \A q, r \in Runs :
          phase[q] = "running" /\ phase[r] = "running" /\ mine[q] = mine[r] => q = r

(* The waiters of a lock wait, for it, and once each. *)
WaitersWait ==
    \A l \in Locks :
        /\ \A k \in 1..Len(waiters[l]) :
              phase[waiters[l][k]] = "waiting" /\ mine[waiters[l][k]] = l
        /\ \A j, k \in 1..Len(waiters[l]) : waiters[l][j] = waiters[l][k] => j = k

LocksInv == LockTypeOK /\ Attached /\ LocksApart /\ RunnersHold /\ WaitersWait /\ TableIsExact

-----------------------------------------------------------------------------
(* What the operations on the waiters do.  Each element of the result is an *)
(* element of the argument at a place of its own, or the one appended.      *)
LEMMA WaitersFacts ==
    ASSUME NEW q \in Seq(Runs)
    PROVE  /\ Len(q) \in Nat
           /\ \A k \in 1..Len(q) : q[k] \in Runs
           /\ \A r \in Runs :
                 /\ Append(q, r) \in Seq(Runs)
                 /\ Len(Append(q, r)) = Len(q) + 1
                 /\ \A k \in 1..Len(q) : Append(q, r)[k] = q[k]
                 /\ Append(q, r)[Len(q) + 1] = r
           /\ q # <<>> =>
                 /\ Len(q) >= 1
                 /\ Head(q) = q[1]
                 /\ Tail(q) \in Seq(Runs)
                 /\ Len(Tail(q)) = Len(q) - 1
                 /\ \A k \in 1..Len(q) - 1 : Tail(q)[k] = q[k + 1]
<1>1. Len(q) \in Nat /\ \A k \in 1..Len(q) : q[k] \in Runs
  BY LenProperties, ElementOfSeq
<1>2. \A r \in Runs :
        /\ Append(q, r) \in Seq(Runs)
        /\ Len(Append(q, r)) = Len(q) + 1
        /\ \A k \in 1..Len(q) : Append(q, r)[k] = q[k]
        /\ Append(q, r)[Len(q) + 1] = r
  BY AppendProperties
<1>3. ASSUME q # <<>>
      PROVE  /\ Len(q) >= 1
             /\ Head(q) = q[1]
             /\ Tail(q) \in Seq(Runs)
             /\ Len(Tail(q)) = Len(q) - 1
             /\ \A k \in 1..Len(q) - 1 : Tail(q)[k] = q[k + 1]
  <2>1. Len(q) \in Nat \ {0}
    BY <1>3, EmptySeq
  <2>2. Head(q) = q[1]
    BY <2>1
  <2> QED
    BY <1>3, <2>1, <2>2, HeadTailProperties
<1> QED
  BY <1>1, <1>2, <1>3

LEMMA RemoveAtFacts ==
    ASSUME NEW q \in Seq(Runs), NEW n \in 1..Len(q)
    PROVE  /\ RemoveAt(q, n) \in Seq(Runs)
           /\ Len(RemoveAt(q, n)) = Len(q) - 1
           /\ \A k \in 1..Len(q) - 1 :
                 RemoveAt(q, n)[k] = IF k < n THEN q[k] ELSE q[k + 1]
<1> DEFINE a == SubSeq(q, 1, n - 1)
           b == SubSeq(q, n + 1, Len(q))
<1>1. Len(q) \in Nat /\ \A k \in 1..Len(q) : q[k] \in Runs
  BY LenProperties, ElementOfSeq
<1>2. /\ a \in Seq(Runs) /\ Len(a) = n - 1
      /\ \A k \in 1..n - 1 : a[k] = q[k]
  <2>1. \A k \in 1..n - 1 : q[k] \in Runs
    BY <1>1
  <2> QED
    BY <1>1, <2>1, SubSeqProperties
<1>3. /\ b \in Seq(Runs) /\ Len(b) = Len(q) - n
      /\ \A k \in 1..Len(q) - n : b[k] = q[n + k]
  <2>1. \A k \in n + 1..Len(q) : q[k] \in Runs
    BY <1>1
  <2>2. /\ b \in Seq(Runs)
        /\ Len(b) = IF n + 1 <= Len(q) THEN Len(q) - (n + 1) + 1 ELSE 0
        /\ \A k \in 1..Len(q) - (n + 1) + 1 : b[k] = q[n + 1 + k - 1]
    BY <1>1, <2>1, SubSeqProperties
  <2> QED
    BY <1>1, <2>2
<1> HIDE DEF a, b
<1>4. RemoveAt(q, n) = a \o b
  BY DEF RemoveAt, a, b
<1>5. /\ a \o b \in Seq(Runs) /\ Len(a \o b) = Len(q) - 1
      /\ \A k \in 1..Len(q) - 1 : (a \o b)[k] = IF k < n THEN a[k] ELSE b[k - (n - 1)]
  <2>1. /\ a \o b \in Seq(Runs)
        /\ Len(a \o b) = Len(a) + Len(b)
        /\ \A k \in 1..Len(a) + Len(b) :
              (a \o b)[k] = IF k <= Len(a) THEN a[k] ELSE b[k - Len(a)]
    BY <1>2, <1>3, ConcatProperties
  <2>2. n \in Nat
    BY <1>1
  <2> QED
    BY <1>1, <1>2, <1>3, <2>1, <2>2
<1> QED
  BY <1>1, <1>2, <1>3, <1>4, <1>5

-----------------------------------------------------------------------------
(* Who is present in a session can be counted. *)
LEMMA PresentFinite ==
    ASSUME NEW s
    PROVE  /\ IsFiniteSet(Present(s)) /\ Cardinality(Present(s)) \in Nat
           /\ Cardinality(Present(s)) <= Cardinality(Runs)
           /\ Cardinality(Runs) \in Nat
<1>1. IsFiniteSet(Runs) /\ Present(s) \in SUBSET Runs
  BY LockAssumption DEF Present
<1> QED
  BY <1>1, FS_Subset, FS_CardinalityType

LEMMA LocksInit ==
    ASSUME LockInit
    PROVE  LocksInv
<1>1. \A s \in Sessions : Present(s) = {}
  BY DEF LockInit, Present
<1>2. Cardinality({}) = 0 /\ Cardinality(Runs) \in Nat
  BY FS_EmptySet, FS_CardinalityType, LockAssumption
<1>3. <<>> \in Seq(Runs) /\ Len(<<>>) = 0
  BY EmptySeq
<1>4. LockTypeOK
  BY <1>2, <1>3 DEF LockInit, LockTypeOK
<1>5. TableIsExact
  BY <1>1, <1>2 DEF LockInit, TableIsExact
<1>6. Attached /\ LocksApart /\ RunnersHold /\ WaitersWait
  BY <1>3 DEF LockInit, Attached, LocksApart, RunnersHold, WaitersWait
<1> QED
  BY <1>4, <1>5, <1>6 DEF LocksInv

(* A run arrives: it finds the lock of its session, or makes one that no    *)
(* session and no run has.                                                  *)
LEMMA ArriveInvariant ==
    ASSUME LocksInv, NEW r \in Runs, Arrive(r)
    PROVE  LocksInv'
<1> DEFINE s == SessionOf[r]
<1>1. PICK l \in IF table[s] = NoLock THEN Fresh ELSE {table[s]} :
          /\ table' = [table EXCEPT ![s] = l]
          /\ mine' = [mine EXCEPT ![r] = l]
          /\ users' = [users EXCEPT ![s] = @ + 1]
          /\ Take(r, l)
  BY DEF Arrive
<1>2. s \in Sessions /\ phase[r] = "new" /\ mine[r] = NoLock
  BY LockAssumption DEF Arrive, LocksInv, Attached
<1>3. /\ l \in Locks /\ l # NoLock
      /\ table[s] # l => /\ table[s] = NoLock
                         /\ \A t \in Sessions : table[t] # l
                         /\ \A q \in Runs : mine[q] # l
  <2>1. CASE table[s] = NoLock
    BY <1>1, <2>1, LockAssumption DEF Fresh, Range, LocksInv, LockTypeOK
  <2>2. CASE table[s] # NoLock
    BY <1>1, <1>2, <2>2, LockAssumption DEF LocksInv, LockTypeOK
  <2> QED
    BY <2>1, <2>2
<1>4. waiters[l] \in Seq(Runs) /\ taken[l] \in BOOLEAN
  BY <1>3 DEF LocksInv, LockTypeOK
<1>5. /\ \A t \in Sessions \ {s} : Present(t)' = Present(t)
      /\ Present(s)' = Present(s) \cup {r} /\ r \notin Present(s)
  BY <1>1, <1>2 DEF Take, Present, LocksInv, LockTypeOK
<1>6. Cardinality(Present(s)') = Cardinality(Present(s)) + 1
  BY <1>5, PresentFinite, FS_AddElement
<1>7. \A t \in Sessions : r \notin Present(t) /\ Present(t) \subseteq Runs
  BY <1>2 DEF Present
<1>8. TableIsExact'
  <2> SUFFICES ASSUME NEW t \in Sessions
               PROVE  /\ users'[t] = Cardinality(Present(t)')
                      /\ Present(t)' = {} <=> table'[t] = NoLock
                      /\ \A q \in Present(t)' : mine'[q] = table'[t]
    BY DEF TableIsExact
  <2>1. /\ users[t] = Cardinality(Present(t))
        /\ Present(t) = {} <=> table[t] = NoLock
        /\ \A q \in Present(t) : mine[q] = table[t]
    BY DEF LocksInv, TableIsExact
  <2>2. CASE t = s
    BY <1>1, <1>2, <1>3, <1>5, <1>6, <1>7, <2>1, <2>2 DEF LocksInv, LockTypeOK
  <2>3. CASE t # s
    BY <1>1, <1>2, <1>5, <1>7, <2>1, <2>3 DEF LocksInv, LockTypeOK
  <2> QED
    BY <2>2, <2>3
<1>9. users' \in [Sessions -> 0..Cardinality(Runs)]
  <2>1. Cardinality(Present(s)') <= Cardinality(Runs) /\ Cardinality(Runs) \in Nat
    <3>1. Present(s)' \in SUBSET Runs
      BY <1>2, <1>5, <1>7
    <3> QED
      BY <3>1, FS_Subset, FS_CardinalityType, LockAssumption
  <2>2. users[s] = Cardinality(Present(s)) /\ users[s] \in 0..Cardinality(Runs)
    BY <1>2 DEF LocksInv, TableIsExact, LockTypeOK
  <2> QED
    BY <1>1, <1>2, <1>6, <2>1, <2>2 DEF LocksInv, LockTypeOK
<1>10. CASE ~taken[l] /\ waiters[l] = <<>>
  <2>1. /\ taken' = [taken EXCEPT ![l] = TRUE]
        /\ phase' = [phase EXCEPT ![r] = "running"]
        /\ waiters' = waiters
    BY <1>1, <1>10 DEF Take
  <2>2. LockTypeOK'
    BY <1>1, <1>3, <1>9, <2>1 DEF LocksInv, LockTypeOK
  <2>3. Attached' /\ LocksApart'
    BY <1>1, <1>3, <2>1 DEF LocksInv, LockTypeOK, Attached, LocksApart
  <2>4. RunnersHold'
    BY <1>1, <1>2, <1>3, <1>10, <2>1 DEF LocksInv, LockTypeOK, Attached, RunnersHold
  <2>5. WaitersWait'
    BY <1>1, <1>2, <2>1, WaitersFacts DEF LocksInv, LockTypeOK, WaitersWait
  <2> QED
    BY <1>8, <2>2, <2>3, <2>4, <2>5 DEF LocksInv
<1>11. CASE taken[l] \/ waiters[l] # <<>>
  <2>1. /\ waiters' = [waiters EXCEPT ![l] = Append(waiters[l], r)]
        /\ phase' = [phase EXCEPT ![r] = "waiting"]
        /\ taken' = taken
    BY <1>1, <1>11 DEF Take
  <2>2. /\ waiters'[l] \in Seq(Runs) /\ Len(waiters'[l]) = Len(waiters[l]) + 1
        /\ \A k \in 1..Len(waiters[l]) : waiters'[l][k] = waiters[l][k]
        /\ waiters'[l][Len(waiters[l]) + 1] = r
        /\ Len(waiters[l]) \in Nat
        /\ \A m \in Locks \ {l} : waiters'[m] = waiters[m]
    BY <1>3, <1>4, <2>1, WaitersFacts DEF LocksInv, LockTypeOK
  <2>3. LockTypeOK'
    BY <1>1, <1>3, <1>9, <2>1, <2>2 DEF LocksInv, LockTypeOK
  <2>4. Attached' /\ LocksApart' /\ RunnersHold'
    BY <1>1, <1>2, <1>3, <2>1 DEF LocksInv, LockTypeOK, Attached, LocksApart, RunnersHold
  <2>5. WaitersWait'
    BY <1>1, <1>2, <1>3, <2>1, <2>2, WaitersFacts DEF LocksInv, LockTypeOK, WaitersWait
  <2> QED
    BY <1>8, <2>3, <2>4, <2>5 DEF LocksInv
<1> QED
  BY <1>10, <1>11

(* The first waiter of a free lock gets it. *)
LEMMA AcquireInvariant ==
    ASSUME LocksInv, NEW r \in Runs, Acquire(r)
    PROVE  LocksInv'
<1> DEFINE l == mine[r]
<1>1. /\ phase[r] = "waiting" /\ ~taken[l] /\ Head(waiters[l]) = r
      /\ taken' = [taken EXCEPT ![l] = TRUE]
      /\ waiters' = [waiters EXCEPT ![l] = Tail(waiters[l])]
      /\ phase' = [phase EXCEPT ![r] = "running"]
      /\ UNCHANGED <<mine, table, users>>
  BY DEF Acquire
<1>2. l \in Locks /\ waiters[l] \in Seq(Runs)
  BY <1>1 DEF LocksInv, LockTypeOK, Attached
<1>3. \A t \in Sessions : Present(t)' = Present(t)
  BY <1>1 DEF Present, LocksInv, LockTypeOK
<1>4. TableIsExact' /\ Attached' /\ LocksApart'
  BY <1>1, <1>3 DEF LocksInv, LockTypeOK, TableIsExact, Attached, LocksApart
<1>5. CASE waiters[l] = <<>>
  <2>1. Tail(waiters[l]) = <<>>
    BY <1>5
  <2>2. waiters' = waiters
    BY <1>1, <1>2, <1>5, <2>1 DEF LocksInv, LockTypeOK
  <2> QED
    BY <1>1, <1>2, <1>4, <1>5, <2>2, WaitersFacts
       DEF LocksInv, LockTypeOK, RunnersHold, WaitersWait, Attached
<1>6. CASE waiters[l] # <<>>
  <2>1. /\ waiters'[l] \in Seq(Runs) /\ Len(waiters'[l]) = Len(waiters[l]) - 1
        /\ \A k \in 1..Len(waiters[l]) - 1 : waiters'[l][k] = waiters[l][k + 1]
        /\ waiters[l][1] = r
        /\ Len(waiters[l]) \in Nat \ {0}
        /\ \A m \in Locks \ {l} : waiters'[m] = waiters[m]
    BY <1>1, <1>2, <1>6, WaitersFacts DEF LocksInv, LockTypeOK
  <2>2. LockTypeOK'
    BY <1>1, <1>2, <2>1 DEF LocksInv, LockTypeOK
  <2>3. RunnersHold'
    BY <1>1, <1>2 DEF LocksInv, LockTypeOK, RunnersHold, Attached
  <2>4. WaitersWait'
    <3> SUFFICES ASSUME NEW m \in Locks
                 PROVE  /\ \A k \in 1..Len(waiters'[m]) :
                              phase'[waiters'[m][k]] = "waiting" /\ mine'[waiters'[m][k]] = m
                        /\ \A j, k \in 1..Len(waiters'[m]) :
                              waiters'[m][j] = waiters'[m][k] => j = k
      BY DEF WaitersWait
    <3>1. /\ \A k \in 1..Len(waiters[m]) :
                phase[waiters[m][k]] = "waiting" /\ mine[waiters[m][k]] = m
          /\ \A j, k \in 1..Len(waiters[m]) : waiters[m][j] = waiters[m][k] => j = k
          /\ \A k \in 1..Len(waiters[m]) : waiters[m][k] \in Runs
      BY WaitersFacts DEF LocksInv, LockTypeOK, WaitersWait
    <3>2. CASE m = l
      BY <1>1, <2>1, <3>1, <3>2 DEF LocksInv, LockTypeOK
    <3>3. CASE m # l
      BY <1>1, <2>1, <3>1, <3>3 DEF LocksInv, LockTypeOK
    <3> QED
      BY <3>2, <3>3
  <2> QED
    BY <1>4, <2>2, <2>3, <2>4 DEF LocksInv
<1> QED
  BY <1>5, <1>6

(* Who leaves is no longer counted, and the last one takes the lock out of  *)
(* the table.                                                               *)
LEMMA ForgetExact ==
    ASSUME LocksInv, NEW r \in Runs, phase[r] \in {"waiting", "running"},
           phase' = [phase EXCEPT ![r] = "ended"], mine' = [mine EXCEPT ![r] = NoLock],
           Forget(r)
    PROVE  /\ TableIsExact' /\ Attached' /\ LocksApart'
           /\ users' \in [Sessions -> 0..Cardinality(Runs)]
           /\ table' \in [Sessions -> Locks \cup {NoLock}]
<1> DEFINE s == SessionOf[r]
<1>1. /\ users' = [users EXCEPT ![s] = @ - 1]
      /\ table' = [table EXCEPT ![s] = IF users[s] = 1 /\ @ = mine[r] THEN NoLock ELSE @]
  BY DEF Forget
<1>2. s \in Sessions /\ r \in Present(s)
  BY LockAssumption DEF Present
<1>3. /\ users[s] = Cardinality(Present(s))
      /\ table[s] # NoLock /\ mine[r] = table[s]
  BY <1>2 DEF LocksInv, TableIsExact
<1>4. /\ \A t \in Sessions \ {s} : Present(t)' = Present(t)
      /\ Present(s)' = Present(s) \ {r}
      /\ \A t \in Sessions \ {s} : r \notin Present(t)
      /\ \A t \in Sessions : Present(t) \subseteq Runs
  BY <1>2 DEF Present, LocksInv, LockTypeOK
<1>5. /\ Cardinality(Present(s)') = Cardinality(Present(s)) - 1
      /\ Cardinality(Present(s)) \in Nat
      /\ Cardinality(Present(s)) <= Cardinality(Runs) /\ Cardinality(Runs) \in Nat
      /\ IsFiniteSet(Present(s)')
  BY <1>2, <1>4, PresentFinite, FS_RemoveElement
<1>6. /\ Present(s)' = {} <=> users[s] = 1
      /\ Cardinality(Present(s)') \in Nat
  BY <1>3, <1>5, FS_EmptySet, FS_CardinalityType
<1>7. TableIsExact'
  <2> SUFFICES ASSUME NEW t \in Sessions
               PROVE  /\ users'[t] = Cardinality(Present(t)')
                      /\ Present(t)' = {} <=> table'[t] = NoLock
                      /\ \A q \in Present(t)' : mine'[q] = table'[t]
    BY DEF TableIsExact
  <2>1. /\ users[t] = Cardinality(Present(t))
        /\ Present(t) = {} <=> table[t] = NoLock
        /\ \A q \in Present(t) : mine[q] = table[t]
    BY DEF LocksInv, TableIsExact
  <2>2. CASE t = s
    BY <1>1, <1>2, <1>3, <1>4, <1>5, <1>6, <2>1, <2>2 DEF LocksInv, LockTypeOK
  <2>3. CASE t # s
    BY <1>1, <1>2, <1>4, <2>1, <2>3 DEF LocksInv, LockTypeOK
  <2> QED
    BY <2>2, <2>3
<1>8. Attached' /\ LocksApart'
  BY <1>1, <1>2 DEF LocksInv, LockTypeOK, Attached, LocksApart
<1>9. users' \in [Sessions -> 0..Cardinality(Runs)]
  BY <1>1, <1>2, <1>3, <1>5, <1>6 DEF LocksInv, LockTypeOK
<1>10. table' \in [Sessions -> Locks \cup {NoLock}]
  BY <1>1, <1>2 DEF LocksInv, LockTypeOK
<1> QED
  BY <1>7, <1>8, <1>9, <1>10

LEMMA LeaveInvariant ==
    ASSUME LocksInv, NEW r \in Runs, LeaveSession(r)
    PROVE  LocksInv'
<1>1. /\ phase[r] = "running"
      /\ taken' = [taken EXCEPT ![mine[r]] = FALSE]
      /\ phase' = [phase EXCEPT ![r] = "ended"]
      /\ mine' = [mine EXCEPT ![r] = NoLock]
      /\ Forget(r)
      /\ waiters' = waiters
  BY DEF LeaveSession
<1>2. mine[r] \in Locks
  BY <1>1 DEF LocksInv, LockTypeOK, Attached
<1>3. /\ TableIsExact' /\ Attached' /\ LocksApart'
      /\ users' \in [Sessions -> 0..Cardinality(Runs)]
      /\ table' \in [Sessions -> Locks \cup {NoLock}]
  BY <1>1, ForgetExact
<1>4. LockTypeOK'
  BY <1>1, <1>2, <1>3 DEF LocksInv, LockTypeOK
<1>5. RunnersHold'
  BY <1>1, <1>2 DEF LocksInv, LockTypeOK, RunnersHold, Attached
<1>6. WaitersWait'
  BY <1>1, WaitersFacts DEF LocksInv, LockTypeOK, WaitersWait
<1> QED
  BY <1>3, <1>4, <1>5, <1>6 DEF LocksInv

LEMMA GiveUpInvariant ==
    ASSUME LocksInv, NEW r \in Runs, GiveUp(r)
    PROVE  LocksInv'
<1> DEFINE l == mine[r]
<1>1. /\ phase[r] = "waiting"
      /\ phase' = [phase EXCEPT ![r] = "ended"]
      /\ mine' = [mine EXCEPT ![r] = NoLock]
      /\ Forget(r)
      /\ taken' = taken
  BY DEF GiveUp
<1>2. l \in Locks /\ waiters[l] \in Seq(Runs)
  BY <1>1 DEF LocksInv, LockTypeOK, Attached
<1>3. PICK n \in 1..Len(waiters[l]) :
          waiters[l][n] = r /\ waiters' = [waiters EXCEPT ![l] = RemoveAt(waiters[l], n)]
  BY DEF GiveUp
<1>4. /\ waiters'[l] \in Seq(Runs) /\ Len(waiters'[l]) = Len(waiters[l]) - 1
      /\ \A k \in 1..Len(waiters[l]) - 1 :
            waiters'[l][k] = IF k < n THEN waiters[l][k] ELSE waiters[l][k + 1]
      /\ Len(waiters[l]) \in Nat
      /\ \A m \in Locks \ {l} : waiters'[m] = waiters[m]
  BY <1>2, <1>3, RemoveAtFacts, WaitersFacts DEF LocksInv, LockTypeOK
<1>5. /\ TableIsExact' /\ Attached' /\ LocksApart'
      /\ users' \in [Sessions -> 0..Cardinality(Runs)]
      /\ table' \in [Sessions -> Locks \cup {NoLock}]
  BY <1>1, ForgetExact
<1>6. LockTypeOK'
  BY <1>1, <1>2, <1>3, <1>4, <1>5 DEF LocksInv, LockTypeOK
<1>7. RunnersHold'
  BY <1>1, <1>2 DEF LocksInv, LockTypeOK, RunnersHold, Attached
<1>8. WaitersWait'
  <2> SUFFICES ASSUME NEW m \in Locks
               PROVE  /\ \A k \in 1..Len(waiters'[m]) :
                            phase'[waiters'[m][k]] = "waiting" /\ mine'[waiters'[m][k]] = m
                      /\ \A j, k \in 1..Len(waiters'[m]) :
                            waiters'[m][j] = waiters'[m][k] => j = k
    BY DEF WaitersWait
  <2>1. /\ \A k \in 1..Len(waiters[m]) :
              phase[waiters[m][k]] = "waiting" /\ mine[waiters[m][k]] = m
        /\ \A j, k \in 1..Len(waiters[m]) : waiters[m][j] = waiters[m][k] => j = k
        /\ \A k \in 1..Len(waiters[m]) : waiters[m][k] \in Runs
    BY WaitersFacts DEF LocksInv, LockTypeOK, WaitersWait
  <2>2. CASE m = l
    <3> DEFINE old(k) == IF k < n THEN k ELSE k + 1
    <3>1. \A k \in 1..Len(waiters[m]) - 1 :
            /\ old(k) \in 1..Len(waiters[m]) /\ old(k) # n
            /\ waiters'[m][k] = waiters[m][old(k)]
      <4> SUFFICES ASSUME NEW k \in 1..Len(waiters[m]) - 1
                   PROVE  /\ old(k) \in 1..Len(waiters[m]) /\ old(k) # n
                          /\ waiters'[m][k] = waiters[m][old(k)]
        OBVIOUS
      <4>1. Len(waiters[m]) \in Nat /\ n \in 1..Len(waiters[m])
        BY <1>4, <2>2
      <4>2. old(k) \in 1..Len(waiters[m]) /\ old(k) # n
        BY <4>1
      <4>3. waiters'[m][k] = IF k < n THEN waiters[m][k] ELSE waiters[m][k + 1]
        BY <1>4, <2>2
      <4> QED
        BY <4>2, <4>3
    <3>2. \A j, k \in 1..Len(waiters[m]) - 1 : old(j) = old(k) => j = k
      BY <1>4, <2>2
    <3> HIDE DEF old
    <3>3. \A k \in 1..Len(waiters[m]) - 1 : waiters'[m][k] # r /\ waiters'[m][k] \in Runs
      BY <1>3, <2>1, <2>2, <3>1
    <3>4. Len(waiters'[m]) = Len(waiters[m]) - 1
      BY <1>4, <2>2
    <3>5. \A k \in 1..Len(waiters'[m]) :
            phase'[waiters'[m][k]] = "waiting" /\ mine'[waiters'[m][k]] = m
      BY <1>1, <2>1, <3>1, <3>3, <3>4 DEF LocksInv, LockTypeOK
    <3>6. \A j, k \in 1..Len(waiters'[m]) : waiters'[m][j] = waiters'[m][k] => j = k
      <4> SUFFICES ASSUME NEW j \in 1..Len(waiters[m]) - 1, NEW k \in 1..Len(waiters[m]) - 1,
                          waiters'[m][j] = waiters'[m][k]
                   PROVE  j = k
        BY <3>4
      <4>1. waiters[m][old(j)] = waiters[m][old(k)]
        BY <3>1
      <4>2. old(j) = old(k)
        BY <2>1, <3>1, <4>1
      <4> QED
        BY <3>2, <4>2
    <3> QED
      BY <3>5, <3>6
  <2>3. CASE m # l
    BY <1>1, <1>4, <2>1, <2>3 DEF LocksInv, LockTypeOK
  <2> QED
    BY <2>2, <2>3
<1> QED
  BY <1>5, <1>6, <1>7, <1>8 DEF LocksInv

-----------------------------------------------------------------------------
(* Two runs of a session have found the same lock, and one of them at most  *)
(* holds it.                                                                *)
LEMMA InvariantSerializes ==
    ASSUME LocksInv
    PROVE  SessionsSerialized
<1>1. OneRunPerSession
  <2> SUFFICES ASSUME NEW q \in Runs, NEW r \in Runs, SessionOf[q] = SessionOf[r],
                      phase[q] = "running", phase[r] = "running"
               PROVE  q = r
    BY DEF OneRunPerSession
  <2>1. /\ SessionOf[r] \in Sessions
        /\ q \in Present(SessionOf[r]) /\ r \in Present(SessionOf[r])
    BY LockAssumption DEF Present
  <2>2. mine[q] = mine[r]
    BY <2>1 DEF LocksInv, TableIsExact
  <2> QED
    BY <2>2 DEF LocksInv, RunnersHold
<1> QED
  BY <1>1 DEF LocksInv, SessionsSerialized

(* However runs arrive, wait, give up, fail and end: one run of a session   *)
(* at a time, though its lock object is replaced when it falls idle, and a  *)
(* table that holds a lock exactly for the sessions somebody is present in. *)
THEOREM SessionsAreSerialized ==
    LockSpec => []SessionsSerialized
<1>1. LockInit => LocksInv
  BY LocksInit
<1>2. LocksInv /\ [LockNext]_lockVars => LocksInv'
  <2> SUFFICES ASSUME LocksInv, [LockNext]_lockVars
               PROVE  LocksInv'
    OBVIOUS
  <2>1. CASE UNCHANGED lockVars
    <3>1. \A s \in Sessions : Present(s)' = Present(s)
      BY <2>1 DEF lockVars, Present
    <3>2. LockTypeOK' /\ Attached' /\ LocksApart' /\ RunnersHold'
      BY <2>1 DEF lockVars, LocksInv, LockTypeOK, Attached, LocksApart, RunnersHold
    <3>3. WaitersWait'
      BY <2>1 DEF lockVars, LocksInv, WaitersWait
    <3>4. TableIsExact'
      BY <2>1, <3>1 DEF lockVars, LocksInv, TableIsExact
    <3> QED
      BY <3>2, <3>3, <3>4 DEF LocksInv
  <2>2. CASE LockNext
    BY <2>2, ArriveInvariant, AcquireInvariant, LeaveInvariant, GiveUpInvariant DEF LockNext
  <2> QED
    BY <2>1, <2>2
<1>3. LocksInv => SessionsSerialized
  BY InvariantSerializes DEF LocksInv
<1> QED
  BY <1>1, <1>2, <1>3, PTL DEF LockSpec

-----------------------------------------------------------------------------
(* The background pool, for any calls, threads and queue length, where      *)
(* functions return a value or raise an error that a future takes.  A call  *)
(* is run once at most, and its outcome is fixed when it is completed; what *)
(* is pending is known to the poller that is alive.                         *)

(* No call is queued or held twice; a thread that looks for work has none. *)
EachQueuedOnce ==
    /\ \A j, k \in 1..Len(backlog) : backlog[j] = backlog[k] => j = k
    /\ \A s, t \in Threads : held[s] = held[t] /\ held[s] # Idle => s = t
    /\ \A t \in Threads, k \in 1..Len(backlog) : backlog[k] # held[t]
    /\ \A t \in Threads : thread[t] = "get" <=> held[t] = Idle

(* A call in the system was submitted and is not completed; it has no       *)
(* outcome before a thread has called it.                                   *)
Submitted(c) == awaiter[c] \notin {"new", "refused"} /\ ~completed[c]

PoolCallsOpen ==
    /\ \A k \in 1..Len(backlog) : Submitted(backlog[k]) /\ outcome[backlog[k]] = "none"
    /\ \A t \in Threads :
          /\ held[t] # Idle => Submitted(held[t])
          /\ thread[t] \in {"check", "call"} => outcome[held[t]] = "none"
    /\ \A c \in Calls : awaiter[c] = "new" => ~completed[c] /\ outcome[c] = "none"

(* What a future or an awaiter was told is the outcome of a completed call. *)
ToldIsFinal ==
    /\ \A c \in Calls : future[c] \in {"value", "error"} =>
          completed[c] /\ outcome[c] = future[c]
    /\ \A c \in Calls : awaiter[c] \in {"returned", "raised"} => completed[c]
    /\ AnswersAreOutcomes

(* A call that was abandoned in the queue is not being called. *)
SkippedStay ==
    \A c \in skipped :
        /\ awaiter[c] = "cancelled" /\ forsaken[c] /\ outcome[c] = "none"
        /\ \A t \in Threads : held[t] = c => thread[t] # "call"

PoolInv ==
    /\ PoolTypeOK /\ EachQueuedOnce /\ PoolCallsOpen /\ ToldIsFinal /\ SkippedStay
    /\ WaitersAreWatched

-----------------------------------------------------------------------------
LEMMA PoolStart ==
    ASSUME FuturesTakeErrors, PoolInit
    PROVE  PoolInv
<1>1. <<>> \in Seq(Calls) /\ Len(<<>>) = 0
  OBVIOUS
<1>2. PoolTypeOK
  <2>1. backlog \in Seq(Calls) /\ Len(backlog) <= QueuedCalls
    BY PoolAssumption DEF PoolInit, FuturesTakeErrors
  <2> QED
    BY <2>1 DEF PoolInit, PoolTypeOK
<1>3. EachQueuedOnce /\ PoolCallsOpen /\ SkippedStay /\ WaitersAreWatched
  BY DEF PoolInit, EachQueuedOnce, PoolCallsOpen, SkippedStay, WaitersAreWatched
<1>4. ToldIsFinal
  BY DEF PoolInit, ToldIsFinal, AnswersAreOutcomes
<1> QED
  BY <1>2, <1>3, <1>4 DEF PoolInv

LEMMA SubmitInvariant ==
    ASSUME FuturesTakeErrors, PoolInv, NEW c \in Calls, Submit(c)
    PROVE  PoolInv'
<1>1. /\ awaiter[c] = "new" /\ ~completed[c] /\ outcome[c] = "none"
      /\ \A k \in 1..Len(backlog) : backlog[k] \in Calls /\ backlog[k] # c
      /\ \A t \in Threads : held[t] # c
      /\ Len(backlog) \in Nat
      /\ UNCHANGED <<skipped, threadVars>>
  BY PoolAssumption DEF Submit, PoolInv, PoolTypeOK, PoolCallsOpen, Submitted, FuturesTakeErrors
<1>2. WaitersAreWatched'
  BY DEF PoolInv, PoolTypeOK, WaitersAreWatched, Submit
<1>3. /\ poller' \in {"scan", "wait", "sleep", "ended"} /\ wake' \in BOOLEAN
      /\ entries' \subseteq Calls
  BY DEF Submit, PoolInv, PoolTypeOK
<1>4. CASE Len(backlog) < QueuedCalls
  <2>1. /\ backlog' = Append(backlog, c)
        /\ future' = [future EXCEPT ![c] = "pending"]
        /\ awaiter' = [awaiter EXCEPT ![c] = "waiting"]
        /\ forsaken' = forsaken
    BY <1>4 DEF Submit
  <2>2. /\ backlog' \in Seq(Calls)
        /\ Len(backlog') = Len(backlog) + 1
        /\ \A k \in 1..Len(backlog) : backlog'[k] = backlog[k]
        /\ backlog'[Len(backlog) + 1] = c
    BY <2>1 DEF PoolInv, PoolTypeOK
  <2>3. PoolTypeOK'
    BY <1>1, <1>3, <1>4, <2>1, PoolAssumption DEF PoolInv, PoolTypeOK, threadVars,
       FuturesTakeErrors
  <2>4. EachQueuedOnce'
    <3>1. \A j, k \in 1..Len(backlog') : backlog'[j] = backlog'[k] => j = k
      BY <1>1, <2>2 DEF PoolInv, EachQueuedOnce
    <3>2. \A t \in Threads, k \in 1..Len(backlog') : backlog'[k] # held'[t]
      BY <1>1, <2>2 DEF PoolInv, EachQueuedOnce, threadVars
    <3> QED
      BY <1>1, <3>1, <3>2 DEF PoolInv, EachQueuedOnce, threadVars
  <2>5. PoolCallsOpen'
    BY <1>1, <2>1 DEF PoolInv, PoolTypeOK, PoolCallsOpen, Submitted, threadVars
  <2>6. ToldIsFinal' /\ SkippedStay'
    BY <1>1, <2>1 DEF PoolInv, ToldIsFinal, AnswersAreOutcomes, SkippedStay, threadVars
  <2> QED
    BY <1>2, <2>3, <2>4, <2>5, <2>6 DEF PoolInv
<1>5. CASE ~(Len(backlog) < QueuedCalls)
  <2>1. /\ UNCHANGED <<backlog, future>>
        /\ awaiter' = [awaiter EXCEPT ![c] = "refused"]
        /\ forsaken' = [forsaken EXCEPT ![c] = TRUE]
    BY <1>5 DEF Submit
  <2>2. PoolTypeOK' /\ EachQueuedOnce'
    BY <1>1, <1>3, <2>1 DEF PoolInv, PoolTypeOK, EachQueuedOnce, threadVars
  <2>3. PoolCallsOpen'
    BY <1>1, <2>1 DEF PoolInv, PoolCallsOpen, Submitted, threadVars
  <2>4. ToldIsFinal' /\ SkippedStay'
    BY <1>1, <2>1 DEF PoolInv, ToldIsFinal, AnswersAreOutcomes, SkippedStay, threadVars
  <2> QED
    BY <1>2, <2>2, <2>3, <2>4 DEF PoolInv
<1> QED
  BY <1>4, <1>5

LEMMA ResumeInvariant ==
    ASSUME FuturesTakeErrors, PoolInv, NEW c \in Calls, Resume(c)
    PROVE  PoolInv'
<1>1. PoolTypeOK'
  BY DEF PoolInv, PoolTypeOK, Resume
<1>2. EachQueuedOnce'
  BY DEF PoolInv, EachQueuedOnce, Resume
<1>3. PoolCallsOpen'
  BY DEF PoolInv, PoolCallsOpen, Submitted, Resume
<1>4. ToldIsFinal'
  BY DEF PoolInv, ToldIsFinal, AnswersAreOutcomes, Resume
<1>5. SkippedStay'
  BY DEF PoolInv, SkippedStay, Resume
<1>6. WaitersAreWatched'
  BY DEF PoolInv, WaitersAreWatched, Resume
<1> QED
  BY <1>1, <1>2, <1>3, <1>4, <1>5, <1>6 DEF PoolInv

LEMMA CancelInvariant ==
    ASSUME FuturesTakeErrors, PoolInv, NEW c \in Calls, Cancel(c)
    PROVE  PoolInv'
<1>1. PoolTypeOK'
  BY DEF PoolInv, PoolTypeOK, Cancel, threadVars
<1>2. EachQueuedOnce'
  BY DEF PoolInv, EachQueuedOnce, Cancel, threadVars
<1>3. PoolCallsOpen'
  BY DEF PoolInv, PoolCallsOpen, Submitted, Cancel, threadVars
<1>4. ToldIsFinal'
  BY DEF PoolInv, ToldIsFinal, AnswersAreOutcomes, Cancel, threadVars
<1>5. SkippedStay'
  <2>1. \A d \in skipped' : d \in skipped \/ (d = c /\ \E k \in 1..Len(backlog) : backlog[k] = c)
    BY DEF Cancel, Queued, Range
  <2> QED
    BY <2>1 DEF PoolInv, PoolTypeOK, EachQueuedOnce, PoolCallsOpen, SkippedStay, Cancel,
       threadVars
<1>6. WaitersAreWatched'
  BY DEF PoolInv, PoolTypeOK, WaitersAreWatched, Cancel
<1> QED
  BY <1>1, <1>2, <1>3, <1>4, <1>5, <1>6 DEF PoolInv

LEMMA GetInvariant ==
    ASSUME FuturesTakeErrors, PoolInv, NEW t \in Threads, GetItem(t)
    PROVE  PoolInv'
<1>1. PoolTypeOK'
  BY PoolAssumption DEF PoolInv, PoolTypeOK, GetItem, pollerVars, FuturesTakeErrors
<1>2. EachQueuedOnce'
  BY DEF PoolInv, PoolTypeOK, EachQueuedOnce, GetItem
<1>3. PoolCallsOpen'
  BY DEF PoolInv, PoolTypeOK, PoolCallsOpen, Submitted, GetItem
<1>4. ToldIsFinal'
  BY DEF PoolInv, ToldIsFinal, AnswersAreOutcomes, GetItem
<1>5. SkippedStay'
  BY DEF PoolInv, SkippedStay, GetItem
<1>6. WaitersAreWatched'
  BY DEF PoolInv, WaitersAreWatched, GetItem, pollerVars
<1> QED
  BY <1>1, <1>2, <1>3, <1>4, <1>5, <1>6 DEF PoolInv

LEMMA CheckInvariant ==
    ASSUME FuturesTakeErrors, PoolInv, NEW t \in Threads, CheckItem(t)
    PROVE  PoolInv'
<1>1. PoolTypeOK'
  BY DEF PoolInv, PoolTypeOK, CheckItem, pollerVars
<1>2. EachQueuedOnce'
  BY DEF PoolInv, EachQueuedOnce, CheckItem
<1>3. PoolCallsOpen'
  BY DEF PoolInv, PoolCallsOpen, Submitted, CheckItem
<1>4. ToldIsFinal'
  BY DEF PoolInv, ToldIsFinal, AnswersAreOutcomes, CheckItem
<1>5. SkippedStay'
  BY DEF PoolInv, SkippedStay, CheckItem
<1>6. WaitersAreWatched'
  BY DEF PoolInv, WaitersAreWatched, CheckItem, pollerVars
<1> QED
  BY <1>1, <1>2, <1>3, <1>4, <1>5, <1>6 DEF PoolInv

LEMMA CallInvariant ==
    ASSUME FuturesTakeErrors, PoolInv, NEW t \in Threads, CallItem(t)
    PROVE  PoolInv'
<1>1. PoolTypeOK'
  BY DEF PoolInv, PoolTypeOK, CallItem, pollerVars
<1>2. EachQueuedOnce'
  BY DEF PoolInv, EachQueuedOnce, CallItem
<1>3. PoolCallsOpen'
  BY DEF PoolInv, PoolTypeOK, EachQueuedOnce, PoolCallsOpen, Submitted, CallItem
<1>4. ToldIsFinal'
  BY DEF PoolInv, PoolCallsOpen, ToldIsFinal, AnswersAreOutcomes, CallItem
<1>5. SkippedStay'
  BY DEF PoolInv, SkippedStay, CallItem
<1>6. WaitersAreWatched'
  BY DEF PoolInv, WaitersAreWatched, CallItem, pollerVars
<1> QED
  BY <1>1, <1>2, <1>3, <1>4, <1>5, <1>6 DEF PoolInv

LEMMA FinishInvariant ==
    ASSUME FuturesTakeErrors, PoolInv, NEW t \in Threads, Finish(t)
    PROVE  PoolInv'
<1>1. PoolTypeOK'
  BY DEF PoolInv, PoolTypeOK, Finish, pollerVars
<1>2. EachQueuedOnce'
  <2>1. /\ held[t] # Idle /\ thread[t] # "get" /\ backlog' = backlog
        /\ held' = [held EXCEPT ![t] = Idle] /\ thread' = [thread EXCEPT ![t] = "get"]
    BY DEF PoolInv, EachQueuedOnce, Finish
  <2>2. \A k \in 1..Len(backlog) : backlog[k] # Idle
    BY PoolAssumption DEF PoolInv, PoolTypeOK, FuturesTakeErrors
  <2> QED
    BY <2>1, <2>2 DEF PoolInv, PoolTypeOK, EachQueuedOnce
<1>3. PoolCallsOpen'
  BY DEF PoolInv, PoolTypeOK, EachQueuedOnce, PoolCallsOpen, Submitted, Finish
<1>4. ToldIsFinal'
  BY DEF PoolInv, ToldIsFinal, AnswersAreOutcomes, Finish
<1>5. SkippedStay'
  BY DEF PoolInv, SkippedStay, Finish
<1>6. WaitersAreWatched'
  BY DEF PoolInv, WaitersAreWatched, Finish, pollerVars
<1> QED
  BY <1>1, <1>2, <1>3, <1>4, <1>5, <1>6 DEF PoolInv

LEMMA ScanInvariant ==
    ASSUME FuturesTakeErrors, PoolInv, Scan
    PROVE  PoolInv'
<1>1. Poisoned = {}
  BY PoolAssumption DEF Poisoned, Ready, PoolInv, PoolTypeOK, FuturesTakeErrors
<1>2. /\ future' = [d \in Calls |-> IF d \in Ready /\ future[d] = "pending"
                                  THEN outcome[d] ELSE future[d]]
      /\ entries' = entries \ Ready
      /\ poller' \in {"scan", "sleep"}
      /\ UNCHANGED <<awaiter, forsaken, backlog, skipped, threadVars, wake>>
  BY <1>1 DEF Scan, Settled
<1>3. \A d \in Ready : completed[d]
  BY DEF Ready
<1>4. PoolTypeOK'
  BY <1>2 DEF PoolInv, PoolTypeOK, threadVars
<1>5. EachQueuedOnce' /\ PoolCallsOpen' /\ SkippedStay'
  BY <1>2 DEF PoolInv, EachQueuedOnce, PoolCallsOpen, Submitted, SkippedStay, threadVars
<1>6. ToldIsFinal'
  BY <1>2, <1>3 DEF PoolInv, ToldIsFinal, AnswersAreOutcomes, threadVars
<1>7. WaitersAreWatched'
  <2>1. \A d \in Calls : outcome[d] # "pending"
    BY PoolAssumption DEF PoolInv, PoolTypeOK, FuturesTakeErrors
  <2>2. \A d \in Calls : future'[d] = "pending" => future[d] = "pending" /\ d \notin Ready
    BY <1>2, <2>1
  <2> QED
    BY <1>2, <2>2 DEF PoolInv, WaitersAreWatched
<1> QED
  BY <1>4, <1>5, <1>6, <1>7 DEF PoolInv

LEMMA WaitInvariant ==
    ASSUME FuturesTakeErrors, PoolInv, Wait
    PROVE  PoolInv'
<1>1. PoolTypeOK'
  BY DEF PoolInv, PoolTypeOK, Wait, threadVars
<1>2. EachQueuedOnce'
  BY DEF PoolInv, EachQueuedOnce, Wait, threadVars
<1>3. PoolCallsOpen'
  BY DEF PoolInv, PoolCallsOpen, Submitted, Wait, threadVars
<1>4. ToldIsFinal'
  BY DEF PoolInv, ToldIsFinal, AnswersAreOutcomes, Wait, threadVars
<1>5. SkippedStay'
  BY DEF PoolInv, SkippedStay, Wait, threadVars
<1>6. WaitersAreWatched'
  BY DEF PoolInv, WaitersAreWatched, Wait
<1> QED
  BY <1>1, <1>2, <1>3, <1>4, <1>5, <1>6 DEF PoolInv

LEMMA WakeInvariant ==
    ASSUME FuturesTakeErrors, PoolInv, Wake
    PROVE  PoolInv'
<1>1. PoolTypeOK'
  BY DEF PoolInv, PoolTypeOK, Wake, threadVars
<1>2. EachQueuedOnce'
  BY DEF PoolInv, EachQueuedOnce, Wake, threadVars
<1>3. PoolCallsOpen'
  BY DEF PoolInv, PoolCallsOpen, Submitted, Wake, threadVars
<1>4. ToldIsFinal'
  BY DEF PoolInv, ToldIsFinal, AnswersAreOutcomes, Wake, threadVars
<1>5. SkippedStay'
  BY DEF PoolInv, SkippedStay, Wake, threadVars
<1>6. WaitersAreWatched'
  BY DEF PoolInv, WaitersAreWatched, Wake
<1> QED
  BY <1>1, <1>2, <1>3, <1>4, <1>5, <1>6 DEF PoolInv

LEMMA StopPollerInvariant ==
    ASSUME FuturesTakeErrors, PoolInv, StopPoller
    PROVE  PoolInv'
<1>1. PoolTypeOK'
  BY DEF PoolInv, PoolTypeOK, StopPoller, threadVars
<1>2. EachQueuedOnce'
  BY DEF PoolInv, EachQueuedOnce, StopPoller, threadVars
<1>3. PoolCallsOpen'
  BY DEF PoolInv, PoolCallsOpen, Submitted, StopPoller, threadVars
<1>4. ToldIsFinal'
  BY DEF PoolInv, ToldIsFinal, AnswersAreOutcomes, StopPoller, threadVars
<1>5. SkippedStay'
  BY DEF PoolInv, SkippedStay, StopPoller, threadVars
<1>6. WaitersAreWatched'
  BY DEF PoolInv, WaitersAreWatched, StopPoller
<1> QED
  BY <1>1, <1>2, <1>3, <1>4, <1>5, <1>6 DEF PoolInv

-----------------------------------------------------------------------------
(* Whatever is submitted, cancelled and refused, and whenever the poller    *)
(* ends: a coroutine that waits is watched by a poller that is alive and    *)
(* will be woken, it gets the outcome of its own call, and a call abandoned *)
(* in the queue is never run.  An error that a future refuses (StopIteration *)
(* before Python 3.12) is excluded: it ends the poller with futures pending. *)
THEOREM PoolIsSound ==
    ASSUME FuturesTakeErrors
    PROVE  PoolSpec => []PoolSound
<1>1. PoolInit => PoolInv
  BY PoolStart
<1>2. PoolInv /\ [PoolNext]_poolVars => PoolInv'
  <2> SUFFICES ASSUME PoolInv, [PoolNext]_poolVars
               PROVE  PoolInv'
    OBVIOUS
  <2>1. CASE UNCHANGED poolVars
    BY <2>1
       DEF poolVars, threadVars, pollerVars, PoolInv, PoolTypeOK, EachQueuedOnce,
           PoolCallsOpen, Submitted, ToldIsFinal, AnswersAreOutcomes, SkippedStay,
           WaitersAreWatched
  <2>2. CASE \E c \in Calls : Submit(c) \/ Resume(c) \/ Cancel(c)
    BY <2>2, SubmitInvariant, ResumeInvariant, CancelInvariant
  <2>3. CASE \E t \in Threads : ThreadStep(t)
    BY <2>3, GetInvariant, CheckInvariant, CallInvariant, FinishInvariant DEF ThreadStep
  <2>4. CASE Scan \/ Wait \/ Wake \/ StopPoller
    BY <2>4, ScanInvariant, WaitInvariant, WakeInvariant, StopPollerInvariant
  <2> QED
    BY <2>1, <2>2, <2>3, <2>4 DEF PoolNext
<1>3. PoolInv => PoolSound
  BY DEF PoolInv, ToldIsFinal, SkippedStay, PoolSound, AbandonedIsSkipped
<1> QED
  BY <1>1, <1>2, <1>3, PTL DEF PoolSpec

-----------------------------------------------------------------------------
(* The batch, for any calls, arguments, profiles and limits. *)

Batches == [calls : SUBSET BatchCalls \ {{}}, parallel : BOOLEAN,
            profile : [BatchCalls -> Profiles], repair : Constraint \cup {NoConstraint}]

Stages == {"queued", "authorize", "invoke", "delay", "done"}
UnderWay == {"authorize", "invoke", "delay"}

BatchTyped ==
    /\ policy \in Batches
    /\ stage \in [BatchCalls -> Stages]
    /\ answer \in [BatchCalls -> Answers]
    /\ attempts \in [BatchCalls -> 0..MaxAttempts]
    /\ batch \in {"new", "running", "done", "raised", "cancelled"}
    /\ live \in [BatchCalls -> Nat] /\ invoked \in [BatchCalls -> Nat]
    /\ late \in [BatchCalls -> Nat]

(* A call that was let through: nothing forbids it to run. *)
Cleared(c) == c \in policy.calls /\ ~ConstraintBroken /\ ~Refused(c)

(* What is known of a call at each of its stages. *)
CallKnown(c) ==
    /\ invoked[c] = attempts[c] /\ live[c] <= attempts[c] /\ late[c] <= attempts[c]
    /\ stage[c] # "done" => c \in policy.calls /\ answer[c] = "pending"
    /\ stage[c] # "done" /\ batch # "new" => ~ConstraintBroken
    /\ batch = "done" => stage[c] = "done"
    /\ batch = "new" => stage[c] = (IF c \in policy.calls THEN "queued" ELSE "done")
    /\ attempts[c] > 0 \/ stage[c] \in UnderWay => batch # "new" /\ Cleared(c)
    /\ stage[c] \in {"queued", "authorize"} => attempts[c] = 0
    /\ stage[c] = "invoke" => live[c] >= 1 /\ late[c] < attempts[c]
    /\ stage[c] = "delay" => Safe(c).retry /\ attempts[c] < MaxAttempts

(* Attempts are repeated where that is safe, and an execution that nobody   *)
(* waits for belongs to an attempt that was timed out, or to a batch that   *)
(* was cancelled.                                                           *)
CallRepeats(c) ==
    /\ attempts[c] > 1 => Safe(c).retry
    /\ late[c] > 0 /\ stage[c] # "done" => Safe(c).timeout
    /\ stage[c] # "done" => live[c] - (IF stage[c] = "invoke" THEN 1 ELSE 0) <= late[c]
    /\ live[c] > 1 => Safe(c).timeout

CallAnswered(c) ==
    /\ stage[c] = "done" /\ c \in policy.calls /\ batch # "cancelled" => answer[c] # "pending"
    /\ answer[c] = "ok" => attempts[c] > late[c]
    /\ answer[c] = "exhausted" => attempts[c] = MaxAttempts

BatchInv ==
    /\ BatchTyped
    /\ \A c \in BatchCalls : CallKnown(c) /\ CallRepeats(c) /\ CallAnswered(c)
    /\ Cardinality(Executing) <= Width

CallHolds(c) == CallKnown(c) /\ CallRepeats(c) /\ CallAnswered(c)

LEMMA WidthFacts ==
    ASSUME BatchTyped
    PROVE  /\ Width \in Nat \ {0}
           /\ IsFiniteSet(Executing) /\ Cardinality(Executing) \in Nat
           /\ Executing \subseteq BatchCalls
<1>1. Width \in Nat \ {0}
  BY BatchAssumption DEF Width
<1>2. Executing \subseteq BatchCalls
  BY DEF Executing
<1> QED
  BY <1>1, <1>2, BatchAssumption, FS_Subset, FS_CardinalityType

LEMMA FewerExecute ==
    ASSUME BatchInv, Executing' \subseteq Executing, policy' = policy
    PROVE  Cardinality(Executing') <= Width'
<1>1. /\ IsFiniteSet(Executing) /\ Width \in Nat /\ Cardinality(Executing) <= Width
      /\ Width' = Width /\ Cardinality(Executing) \in Nat
  BY WidthFacts DEF BatchInv, Width
<1>2. Cardinality(Executing') \in Nat /\ Cardinality(Executing') <= Cardinality(Executing)
  BY <1>1, FS_Subset, FS_CardinalityType
<1> QED
  BY <1>1, <1>2

(* A call that a step leaves alone stays as it was. *)
LEMMA OtherCalls ==
    ASSUME NEW d \in BatchCalls, CallHolds(d), UNCHANGED <<policy, asked, batch>>,
           stage'[d] = stage[d], answer'[d] = answer[d], attempts'[d] = attempts[d],
           live'[d] = live[d], invoked'[d] = invoked[d], late'[d] = late[d]
    PROVE  CallHolds(d)'
<1>1. CallKnown(d)'
  BY DEF CallHolds, CallKnown, Cleared, ConstraintBroken, Repairing, Refused, Safe
<1>2. CallRepeats(d)' /\ CallAnswered(d)'
  BY DEF CallHolds, CallRepeats, CallAnswered, Safe
<1> QED
  BY <1>1, <1>2 DEF CallHolds

LEMMA PrepareHolds ==
    ASSUME BatchInv, NEW c \in BatchCalls, Prepare(c) \/ NotFound(c)
    PROVE  BatchInv'
<1>1. /\ batch = "running" /\ stage[c] = "queued" /\ Cardinality(Executing) < Width
      /\ UNCHANGED <<policy, asked, attempts, batch, live, invoked, late>>
      /\ \/ /\ ~Refused(c) /\ stage' = [stage EXCEPT ![c] = "authorize"] /\ answer' = answer
         \/ /\ stage' = [stage EXCEPT ![c] = "done"] /\ answer' = [answer EXCEPT ![c] = "failed"]
  BY DEF Prepare, NotFound, Answer
<1>2. BatchTyped'
  BY <1>1 DEF BatchInv, BatchTyped, Stages, Answers
<1>3. CallHolds(c)'
  <2>1. CallHolds(c) /\ live[c] \in Nat /\ late[c] \in Nat /\ attempts[c] \in Nat
    BY DEF BatchInv, CallHolds, BatchTyped
  <2>2. /\ (stage'[c] = "authorize" /\ ~Refused(c) /\ answer'[c] = answer[c])
           \/ (stage'[c] = "done" /\ answer'[c] = "failed")
        /\ attempts'[c] = attempts[c] /\ live'[c] = live[c] /\ invoked'[c] = invoked[c]
        /\ late'[c] = late[c] /\ batch' = batch /\ policy' = policy /\ asked' = asked
    BY <1>1 DEF BatchInv, BatchTyped
  <2>3. CallKnown(c)'
    BY <1>1, <2>1, <2>2
       DEF CallHolds, CallKnown, Cleared, ConstraintBroken, Repairing, Refused, Safe, UnderWay
  <2>4. CallRepeats(c)' /\ CallAnswered(c)'
    BY <1>1, <2>1, <2>2 DEF CallHolds, CallKnown, CallRepeats, CallAnswered, Safe
  <2> QED
    BY <2>3, <2>4 DEF CallHolds
<1>4. \A d \in BatchCalls \ {c} : CallHolds(d)'
  <2> SUFFICES ASSUME NEW d \in BatchCalls \ {c}
               PROVE  CallHolds(d)'
    OBVIOUS
  <2>1. CallHolds(d)
    BY DEF BatchInv, CallHolds
  <2>2. stage'[d] = stage[d] /\ answer'[d] = answer[d]
    BY <1>1 DEF BatchInv, BatchTyped
  <2> QED
    BY <1>1, <2>1, <2>2, OtherCalls
<1>5. Cardinality(Executing') <= Width'
  <2>1. Executing' \subseteq Executing \cup {c} /\ c \notin Executing
    BY <1>1 DEF BatchInv, BatchTyped, Executing
  <2>2. /\ IsFiniteSet(Executing) /\ Cardinality(Executing) \in Nat
        /\ Width \in Nat /\ Width' = Width
    BY <1>1, WidthFacts DEF BatchInv, Width
  <2>3. /\ IsFiniteSet(Executing \cup {c})
        /\ Cardinality(Executing \cup {c}) = Cardinality(Executing) + 1
    BY <2>1, <2>2, FS_AddElement
  <2>4. Cardinality(Executing') <= Cardinality(Executing) + 1 /\ Cardinality(Executing') \in Nat
    BY <2>1, <2>3, FS_Subset, FS_CardinalityType
  <2> QED
    BY <1>1, <2>2, <2>4
<1> QED
  BY <1>2, <1>3, <1>4, <1>5 DEF BatchInv, CallHolds

(* Both ways to an attempt: the first, and another after a delay. *)
LEMMA InvokeHolds ==
    ASSUME BatchInv, NEW c \in BatchCalls, stage[c] \in {"authorize", "delay"}, Invoke(c),
           UNCHANGED <<policy, asked, answer, batch, late>>
    PROVE  BatchInv'
<1>1. /\ stage' = [stage EXCEPT ![c] = "invoke"]
      /\ attempts' = [attempts EXCEPT ![c] = attempts[c] + 1]
      /\ live' = [live EXCEPT ![c] = live[c] + 1]
      /\ invoked' = [invoked EXCEPT ![c] = invoked[c] + 1]
  BY DEF Invoke
<1>2. CallHolds(c) /\ live[c] \in Nat /\ late[c] \in Nat /\ attempts[c] \in 0..MaxAttempts
      /\ MaxAttempts \in Nat \ {0}
  BY BatchAssumption DEF BatchInv, CallHolds, BatchTyped
<1>3. attempts[c] < MaxAttempts
  BY <1>2, BatchAssumption DEF CallHolds, CallKnown
<1>4. BatchTyped'
  BY <1>1, <1>2, <1>3 DEF BatchInv, BatchTyped, Stages
<1>5. CallHolds(c)'
  <2>1. /\ stage'[c] = "invoke" /\ answer'[c] = answer[c]
        /\ attempts'[c] = attempts[c] + 1 /\ live'[c] = live[c] + 1
        /\ invoked'[c] = invoked[c] + 1 /\ late'[c] = late[c]
    BY <1>1 DEF BatchInv, BatchTyped
  <2>2. CallKnown(c)'
    BY <1>2, <2>1
       DEF CallHolds, CallKnown, Cleared, ConstraintBroken, Repairing, Refused, Safe, UnderWay
  <2>3. CallRepeats(c)'
    BY <1>2, <2>1 DEF CallHolds, CallKnown, CallRepeats, Safe
  <2>4. CallAnswered(c)'
    BY <1>2, <2>1 DEF CallHolds, CallKnown, CallAnswered
  <2> QED
    BY <2>2, <2>3, <2>4 DEF CallHolds
<1>6. \A d \in BatchCalls \ {c} : CallHolds(d)'
  <2> SUFFICES ASSUME NEW d \in BatchCalls \ {c}
               PROVE  CallHolds(d)'
    OBVIOUS
  <2>1. CallHolds(d)
    BY DEF BatchInv, CallHolds
  <2>2. stage'[d] = stage[d] /\ attempts'[d] = attempts[d] /\ live'[d] = live[d]
        /\ invoked'[d] = invoked[d]
    BY <1>1 DEF BatchInv, BatchTyped
  <2> QED
    BY <2>1, <2>2, OtherCalls
<1>7. Cardinality(Executing') <= Width'
  BY <1>1, FewerExecute DEF BatchInv, BatchTyped, Executing
<1> QED
  BY <1>4, <1>5, <1>6, <1>7 DEF BatchInv, CallHolds

LEMMA DeniedHolds ==
    ASSUME BatchInv, NEW c \in BatchCalls, stage[c] = "authorize", Answer(c, "failed"),
           UNCHANGED <<policy, asked, attempts, batch, live, invoked, late>>
    PROVE  BatchInv'
<1>1. /\ stage' = [stage EXCEPT ![c] = "done"] /\ answer' = [answer EXCEPT ![c] = "failed"]
  BY DEF Answer
<1>2. BatchTyped'
  BY <1>1 DEF BatchInv, BatchTyped, Stages, Answers
<1>3. \A d \in BatchCalls : CallHolds(d)'
  <2> SUFFICES ASSUME NEW d \in BatchCalls
               PROVE  CallHolds(d)'
    OBVIOUS
  <2>1. CallHolds(d) /\ live[d] \in Nat /\ late[d] \in Nat /\ attempts[d] \in Nat
    BY DEF BatchInv, CallHolds, BatchTyped
  <2>2. CASE d = c
    <3>1. stage'[d] = "done" /\ answer'[d] = "failed"
      BY <1>1, <2>2 DEF BatchInv, BatchTyped
    <3>2. CallKnown(d)'
      BY <2>1, <2>2, <3>1
         DEF CallHolds, CallKnown, Cleared, ConstraintBroken, Repairing, Refused, Safe, UnderWay
    <3>3. CallRepeats(d)' /\ CallAnswered(d)'
      BY <2>1, <2>2, <3>1 DEF CallHolds, CallRepeats, CallAnswered, Safe
    <3> QED
      BY <3>2, <3>3 DEF CallHolds
  <2>3. CASE d # c
    <3>1. stage'[d] = stage[d] /\ answer'[d] = answer[d]
      BY <1>1, <2>3 DEF BatchInv, BatchTyped
    <3> QED
      BY <2>1, <3>1, OtherCalls
  <2> QED
    BY <2>2, <2>3
<1>4. Cardinality(Executing') <= Width'
  BY <1>1, FewerExecute DEF BatchInv, BatchTyped, Executing
<1> QED
  BY <1>2, <1>3, <1>4 DEF BatchInv, CallHolds

(* An attempt is over: the call waits for another one, or has its answer.   *)
Closes(c) ==
    \/ answer' = [answer EXCEPT ![c] = "ok"] /\ stage' = [stage EXCEPT ![c] = "done"]
       /\ late'[c] = late[c]
    \/ answer' = [answer EXCEPT ![c] = "failed"] /\ stage' = [stage EXCEPT ![c] = "done"]
    \/ /\ answer' = [answer EXCEPT ![c] = "exhausted"] /\ stage' = [stage EXCEPT ![c] = "done"]
       /\ attempts[c] = MaxAttempts
    \/ /\ stage' = [stage EXCEPT ![c] = "delay"] /\ answer' = answer
       /\ Safe(c).retry /\ attempts[c] < MaxAttempts
       /\ late'[c] > late[c] => Safe(c).timeout

LEMMA FailureCloses ==
    ASSUME BatchInv, NEW c \in BatchCalls, NEW timedOut \in BOOLEAN,
           NEW e \in Classified(c, timedOut), AfterFailure(c, e),
           late'[c] \in Nat, ~timedOut => late'[c] = late[c]
    PROVE  Closes(c)
<1>1. attempts[c] \in 0..MaxAttempts /\ MaxAttempts \in Nat \ {0} /\ late[c] \in Nat
  BY BatchAssumption DEF BatchInv, BatchTyped
<1>2. CASE RetrySafe(c, e) /\ attempts[c] < Attempts(c)
  <2>1. Safe(c).retry /\ attempts[c] < MaxAttempts
    BY <1>2 DEF RetrySafe, Attempts
  <2>2. timedOut => Safe(c).timeout
    <3> SUFFICES ASSUME timedOut, ~Safe(c).timeout
                 PROVE  FALSE
      OBVIOUS
    <3>1. Classified(c, timedOut) = {Final(TRUE)}
      BY DEF Classified
    <3>2. e = [timeout |-> TRUE, retryable |-> FALSE, again |-> FALSE]
      BY <3>1 DEF Final
    <3>3. e.retryable = FALSE
      BY <3>2
    <3> QED
      BY <1>2, <3>3 DEF RetrySafe
  <2>3. stage' = [stage EXCEPT ![c] = "delay"] /\ answer' = answer
    BY <1>2 DEF AfterFailure
  <2> QED
    BY <1>1, <2>1, <2>2, <2>3 DEF Closes
<1>3. CASE ~(RetrySafe(c, e) /\ attempts[c] < Attempts(c))
  <2>1. Answer(c, IF RetrySafe(c, e) THEN "exhausted" ELSE "failed")
    BY <1>3 DEF AfterFailure
  <2>2. RetrySafe(c, e) => attempts[c] = MaxAttempts
    BY <1>1, <1>3 DEF RetrySafe, Attempts
  <2> QED
    BY <2>1, <2>2 DEF Closes, Answer
<1> QED
  BY <1>2, <1>3

LEMMA AttemptHolds ==
    ASSUME BatchInv, NEW c \in BatchCalls, stage[c] = "invoke", Closes(c),
           UNCHANGED <<policy, asked, attempts, batch, invoked>>,
           \/ late' = late /\ live' = [live EXCEPT ![c] = live[c] - 1]
           \/ /\ late' = [late EXCEPT ![c] = late[c] + 1]
              /\ live' = [live EXCEPT ![c] = live[c] - 1] \/ live' = live
    PROVE  BatchInv'
<1>1. /\ CallHolds(c) /\ live[c] \in Nat /\ late[c] \in Nat /\ attempts[c] \in 0..MaxAttempts
      /\ MaxAttempts \in Nat \ {0}
      /\ live[c] >= 1 /\ late[c] < attempts[c] /\ batch # "new" /\ Cleared(c)
      /\ answer[c] = "pending"
  BY BatchAssumption DEF BatchInv, CallHolds, BatchTyped, CallKnown, UnderWay
<1>2. /\ \/ stage'[c] = "done" /\ answer'[c] = "ok" /\ late'[c] = late[c]
         \/ stage'[c] = "done" /\ answer'[c] = "failed"
         \/ stage'[c] = "done" /\ answer'[c] = "exhausted" /\ attempts[c] = MaxAttempts
         \/ /\ stage'[c] = "delay" /\ answer'[c] = "pending"
            /\ Safe(c).retry /\ attempts[c] < MaxAttempts
            /\ late'[c] > late[c] => Safe(c).timeout
      /\ \/ late'[c] = late[c] /\ live'[c] = live[c] - 1
         \/ late'[c] = late[c] + 1 /\ live'[c] \in {live[c] - 1, live[c]}
      /\ live'[c] \in Nat /\ late'[c] \in Nat
  BY <1>1 DEF Closes, BatchInv, BatchTyped
<1>3. BatchTyped'
  <2>1. live' \in [BatchCalls -> Nat] /\ late' \in [BatchCalls -> Nat]
    BY <1>1 DEF BatchInv, BatchTyped
  <2>2. stage' \in [BatchCalls -> Stages] /\ answer' \in [BatchCalls -> Answers]
    BY DEF BatchInv, BatchTyped, Closes, Stages, Answers
  <2> QED
    BY <2>1, <2>2 DEF BatchInv, BatchTyped
<1>4. CallHolds(c)'
  <2>1. CallKnown(c)'
    BY <1>1, <1>2
       DEF CallHolds, CallKnown, Cleared, ConstraintBroken, Repairing, Refused, Safe, UnderWay
  <2>2. CallRepeats(c)'
    <3>1. Safe(c)' = Safe(c) /\ attempts' = attempts
      BY DEF Safe
    <3>2. /\ attempts[c] > 1 => Safe(c).retry
          /\ late[c] > 0 => Safe(c).timeout
          /\ live[c] - 1 <= late[c]
          /\ live[c] > 1 => Safe(c).timeout
      BY <1>1 DEF CallHolds, CallRepeats
    <3>3. late'[c] > 0 /\ stage'[c] # "done" => Safe(c).timeout
      BY <1>1, <1>2, <3>2
    <3>4. stage'[c] # "done" =>
              live'[c] - (IF stage'[c] = "invoke" THEN 1 ELSE 0) <= late'[c]
      BY <1>1, <1>2, <3>2
    <3>5. live'[c] > 1 => Safe(c).timeout
      BY <1>1, <1>2, <3>2
    <3> QED
      BY <3>1, <3>2, <3>3, <3>4, <3>5 DEF CallRepeats
  <2>3. CallAnswered(c)'
    BY <1>1, <1>2 DEF CallHolds, CallKnown, CallAnswered
  <2> QED
    BY <2>1, <2>2, <2>3 DEF CallHolds
<1>5. \A d \in BatchCalls \ {c} : CallHolds(d)'
  <2> SUFFICES ASSUME NEW d \in BatchCalls \ {c}
               PROVE  CallHolds(d)'
    OBVIOUS
  <2>1. CallHolds(d)
    BY DEF BatchInv, CallHolds
  <2>2. stage'[d] = stage[d] /\ answer'[d] = answer[d]
    BY DEF Closes, BatchInv, BatchTyped
  <2>3. live'[d] = live[d] /\ late'[d] = late[d]
    BY DEF BatchInv, BatchTyped
  <2> QED
    BY <2>1, <2>2, <2>3, OtherCalls
<1>6. Cardinality(Executing') <= Width'
  BY FewerExecute DEF BatchInv, BatchTyped, Executing, Closes
<1> QED
  BY <1>3, <1>4, <1>5, <1>6 DEF BatchInv, CallHolds

LEMMA ReturnsHolds ==
    ASSUME BatchInv, NEW c \in BatchCalls, Returns(c)
    PROVE  BatchInv'
<1>1. late' = late /\ late[c] \in Nat
  BY DEF Returns, BatchInv, BatchTyped
<1>2. CASE Answer(c, "ok") \/ Answer(c, "failed")
  BY <1>1, <1>2, AttemptHolds DEF Returns, Answer, Closes
<1>3. ASSUME NEW e \in Classified(c, FALSE), AfterFailure(c, e)
      PROVE  BatchInv'
  BY <1>1, <1>3, FailureCloses, AttemptHolds DEF Returns
<1> QED
  BY <1>2, <1>3 DEF Returns

LEMMA TimesOutHolds ==
    ASSUME BatchInv, NEW c \in BatchCalls, TimesOut(c)
    PROVE  BatchInv'
<1>1. late' = [late EXCEPT ![c] = late[c] + 1] /\ late'[c] \in Nat
  BY DEF TimesOut, BatchInv, BatchTyped
<1>2. PICK e \in Classified(c, TRUE) : AfterFailure(c, e)
  BY DEF TimesOut
<1>3. Closes(c)
  BY <1>1, <1>2, FailureCloses
<1> QED
  BY <1>1, <1>3, AttemptHolds DEF TimesOut

LEMMA ThreadEndsHolds ==
    ASSUME BatchInv, NEW c \in BatchCalls, ThreadEnds(c)
    PROVE  BatchInv'
<1>1. /\ live' = [live EXCEPT ![c] = live[c] - 1]
      /\ live[c] - (IF stage[c] = "invoke" THEN 1 ELSE 0) > 0
      /\ UNCHANGED <<policy, asked, stage, attempts, answer, batch, invoked, late>>
  BY DEF ThreadEnds, Abandoned
<1>2. CallHolds(c) /\ live[c] \in Nat /\ late[c] \in Nat /\ attempts[c] \in Nat
  BY DEF BatchInv, CallHolds, BatchTyped
<1>3. live'[c] = live[c] - 1 /\ live'[c] \in Nat
  BY <1>1, <1>2 DEF BatchInv, BatchTyped
<1>4. BatchTyped'
  BY <1>1, <1>3 DEF BatchInv, BatchTyped
<1>5. CallHolds(c)'
  <2>1. CallKnown(c)'
    BY <1>1, <1>2, <1>3
       DEF CallHolds, CallKnown, Cleared, ConstraintBroken, Repairing, Refused, Safe
  <2>2. CallRepeats(c)' /\ CallAnswered(c)'
    BY <1>1, <1>2, <1>3 DEF CallHolds, CallRepeats, CallAnswered, Safe
  <2> QED
    BY <2>1, <2>2 DEF CallHolds
<1>6. \A d \in BatchCalls \ {c} : CallHolds(d)'
  <2> SUFFICES ASSUME NEW d \in BatchCalls \ {c}
               PROVE  CallHolds(d)'
    OBVIOUS
  <2>1. CallHolds(d)
    BY DEF BatchInv, CallHolds
  <2>2. live'[d] = live[d]
    BY <1>1 DEF BatchInv, BatchTyped
  <2> QED
    BY <1>1, <2>1, <2>2, OtherCalls
<1>7. Cardinality(Executing') <= Width'
  BY <1>1, FewerExecute DEF Executing
<1> QED
  BY <1>4, <1>5, <1>6, <1>7 DEF BatchInv, CallHolds

LEMMA BeginHolds ==
    ASSUME BatchInv, Begin
    PROVE  BatchInv'
<1>1. /\ batch = "new" /\ batch' = "running"
      /\ UNCHANGED <<policy, asked, attempts, live, invoked, late>>
      /\ \/ /\ ConstraintBroken
            /\ answer' = [c \in BatchCalls |-> "failed"] /\ stage' = [c \in BatchCalls |-> "done"]
         \/ ~ConstraintBroken /\ answer' = answer /\ stage' = stage
  BY DEF Begin
<1>2. BatchTyped'
  BY <1>1 DEF BatchInv, BatchTyped, Stages, Answers
<1>3. \A c \in BatchCalls : CallHolds(c)'
  <2> SUFFICES ASSUME NEW c \in BatchCalls
               PROVE  CallHolds(c)'
    OBVIOUS
  <2>1. CallHolds(c) /\ live[c] \in Nat /\ late[c] \in Nat /\ attempts[c] \in Nat
    BY DEF BatchInv, CallHolds, BatchTyped
  <2>2. attempts[c] = 0 /\ stage[c] = (IF c \in policy.calls THEN "queued" ELSE "done")
    BY <1>1, <2>1 DEF CallHolds, CallKnown
  <2>3. \/ stage'[c] = "done" /\ answer'[c] = "failed"
        \/ ~ConstraintBroken /\ stage'[c] = stage[c] /\ answer'[c] = answer[c]
    BY <1>1
  <2>4. CallKnown(c)'
    BY <1>1, <2>1, <2>2, <2>3
       DEF CallHolds, CallKnown, Cleared, ConstraintBroken, Repairing, Refused, Safe, UnderWay
  <2>5. CallRepeats(c)' /\ CallAnswered(c)'
    BY <1>1, <2>1, <2>2, <2>3 DEF CallHolds, CallKnown, CallRepeats, CallAnswered, Safe
  <2> QED
    BY <2>4, <2>5 DEF CallHolds
<1>4. Cardinality(Executing') <= Width'
  BY <1>1, FewerExecute DEF Executing
<1> QED
  BY <1>2, <1>3, <1>4 DEF BatchInv, CallHolds

LEMMA CompleteHolds ==
    ASSUME BatchInv, Complete
    PROVE  BatchInv'
<1>1. /\ batch = "running" /\ batch' \in {"raised", "done"}
      /\ \A c \in BatchCalls : stage[c] = "done"
      /\ UNCHANGED <<policy, asked, stage, attempts, answer, live, invoked, late>>
  BY DEF Complete
<1>2. BatchTyped'
  BY <1>1 DEF BatchInv, BatchTyped
<1>3. \A c \in BatchCalls : CallHolds(c)'
  <2> SUFFICES ASSUME NEW c \in BatchCalls
               PROVE  CallHolds(c)'
    OBVIOUS
  <2>1. CallHolds(c)
    BY DEF BatchInv, CallHolds
  <2>2. CallKnown(c)'
    BY <1>1, <2>1
       DEF CallHolds, CallKnown, Cleared, ConstraintBroken, Repairing, Refused, Safe, UnderWay
  <2>3. CallRepeats(c)' /\ CallAnswered(c)'
    BY <1>1, <2>1 DEF CallHolds, CallRepeats, CallAnswered, Safe
  <2> QED
    BY <2>2, <2>3 DEF CallHolds
<1>4. Cardinality(Executing') <= Width'
  BY <1>1, FewerExecute DEF Executing
<1> QED
  BY <1>2, <1>3, <1>4 DEF BatchInv, CallHolds

LEMMA CancelHolds ==
    ASSUME BatchInv, CancelBatch
    PROVE  BatchInv'
<1>1. /\ batch = "running" /\ batch' = "cancelled"
      /\ stage' = [c \in BatchCalls |-> "done"]
      /\ UNCHANGED <<policy, asked, attempts, answer, invoked, late>>
  BY DEF CancelBatch
<1>2. PICK S \in SUBSET {c \in BatchCalls : stage[c] = "invoke"} :
          live' = [c \in BatchCalls |-> live[c] - (IF c \in S THEN 1 ELSE 0)]
  BY DEF CancelBatch
<1>3. ASSUME NEW c \in BatchCalls
      PROVE  /\ CallHolds(c) /\ live[c] \in Nat /\ late[c] \in Nat /\ attempts[c] \in Nat
             /\ live'[c] \in {live[c], live[c] - 1} /\ live'[c] \in Nat
  <2>1. CallHolds(c) /\ live[c] \in Nat /\ late[c] \in Nat /\ attempts[c] \in Nat
    BY DEF BatchInv, CallHolds, BatchTyped
  <2>2. c \in S => live[c] >= 1
    BY <1>2, <2>1 DEF CallHolds, CallKnown
  <2> QED
    BY <1>2, <2>1, <2>2
<1>4. BatchTyped'
  <2>1. live' \in [BatchCalls -> Nat]
    BY <1>2, <1>3
  <2> QED
    BY <1>1, <2>1 DEF BatchInv, BatchTyped, Stages
<1>5. \A c \in BatchCalls : CallHolds(c)'
  <2> SUFFICES ASSUME NEW c \in BatchCalls
               PROVE  CallHolds(c)'
    OBVIOUS
  <2>1. stage'[c] = "done"
    BY <1>1
  <2>2. CallKnown(c)'
    BY <1>1, <1>3, <2>1
       DEF CallHolds, CallKnown, Cleared, ConstraintBroken, Repairing, Refused, Safe, UnderWay
  <2>3. CallRepeats(c)' /\ CallAnswered(c)'
    BY <1>1, <1>3, <2>1 DEF CallHolds, CallRepeats, CallAnswered, Safe
  <2> QED
    BY <2>2, <2>3 DEF CallHolds
<1>6. Cardinality(Executing') <= Width'
  BY <1>1, FewerExecute DEF Executing
<1> QED
  BY <1>4, <1>5, <1>6 DEF BatchInv, CallHolds

LEMMA BatchStarts ==
    ASSUME BatchInit
    PROVE  BatchInv
<1>1. BatchTyped
  BY BatchAssumption DEF BatchInit, BatchTyped, Batches, Stages, Answers
<1>2. \A c \in BatchCalls : CallHolds(c)
  BY DEF BatchInit, CallHolds, CallKnown, CallRepeats, CallAnswered, UnderWay
<1>3. Executing = {}
  BY DEF BatchInit, Executing
<1> QED
  BY <1>1, <1>2, <1>3, WidthFacts, FS_EmptySet DEF BatchInv, CallHolds

LEMMA BatchFollows ==
    ASSUME BatchInv
    PROVE  BatchSound
<1>1. /\ MaxAttempts \in Nat
      /\ \A c \in BatchCalls :
            /\ CallKnown(c) /\ CallRepeats(c) /\ CallAnswered(c)
            /\ live[c] \in Nat /\ late[c] \in Nat /\ attempts[c] \in 0..MaxAttempts
  BY BatchAssumption DEF BatchInv, BatchTyped
<1>2. BatchTypeOK
  BY <1>1 DEF BatchInv, BatchTyped, BatchTypeOK, Stages, CallKnown
<1>3. RetriesAreDeclared
  BY <1>1 DEF RetriesAreDeclared, CallKnown, CallRepeats
<1>4. RepairsAreNew
  <2> SUFFICES ASSUME Repairing, NEW c \in BatchCalls, invoked[c] > 0
               PROVE  /\ policy.calls = {c} /\ Safe(c).repair
                      /\ Effective[asked[c]] # Effective[policy.repair.previous]
    BY DEF RepairsAreNew
  <2>1. c \in policy.calls /\ ~ConstraintBroken /\ ~Refused(c)
    BY <1>1 DEF CallKnown, Cleared
  <2>2. Cardinality(policy.calls) = 1 /\ IsFiniteSet(policy.calls)
    BY <2>1, BatchAssumption, FS_Subset DEF ConstraintBroken, BatchInv, BatchTyped, Batches
  <2>3. policy.calls = {c}
    BY <2>1, <2>2, FS_Singleton
  <2> QED
    BY <2>1, <2>3 DEF Refused
<1>5. OutcomeIsTrue
  <2> SUFFICES ASSUME batch = "done", NEW c \in policy.calls
               PROVE  /\ answer[c] # "pending"
                      /\ answer[c] = "ok" => invoked[c] >= 1 /\ invoked[c] > late[c]
                      /\ answer[c] = "exhausted" => invoked[c] = MaxAttempts
    BY DEF OutcomeIsTrue
  <2>1. c \in BatchCalls
    BY DEF BatchInv, BatchTyped, Batches
  <2>2. stage[c] = "done"
    BY <1>1, <2>1 DEF CallKnown
  <2> QED
    BY <1>1, <2>1, <2>2 DEF CallKnown, CallAnswered
<1> QED
  BY <1>2, <1>3, <1>4, <1>5 DEF BatchInv, BatchSound

(* However attempts, timeouts, the threads they leave behind and a          *)
(* cancellation of the batch interleave (ToolRuntime.execute_many and      *)
(* _execute_one): an attempt is repeated only where the tool says that is   *)
(* safe, repaired calls are new ones, no more calls execute at once than    *)
(* the batch allows, and every call of a batch that is done has the answer  *)
(* that tells what became of it.                                            *)
THEOREM BatchesAreSound ==
    BatchSpec => []BatchSound
<1>1. BatchInit => BatchInv
  BY BatchStarts
<1>2. BatchInv /\ [BatchNext]_batchVars => BatchInv'
  <2> SUFFICES ASSUME BatchInv, [BatchNext]_batchVars
               PROVE  BatchInv'
    OBVIOUS
  <2>1. CASE Begin
    BY <2>1, BeginHolds
  <2>2. CASE Complete
    BY <2>2, CompleteHolds
  <2>3. CASE CancelBatch
    BY <2>3, CancelHolds
  <2>4. ASSUME NEW c \in BatchCalls, CallStep(c)
        PROVE  BatchInv'
    <3>1. CASE Prepare(c) \/ NotFound(c)
      BY <3>1, PrepareHolds
    <3>2. CASE Authorize(c)
      BY <3>2, InvokeHolds, DeniedHolds DEF Authorize
    <3>3. CASE Returns(c)
      BY <3>3, ReturnsHolds
    <3>4. CASE TimesOut(c)
      BY <3>4, TimesOutHolds
    <3>5. CASE Again(c)
      BY <3>5, InvokeHolds DEF Again
    <3> QED
      BY <2>4, <3>1, <3>2, <3>3, <3>4, <3>5 DEF CallStep
  <2>5. ASSUME NEW c \in BatchCalls, ThreadEnds(c)
        PROVE  BatchInv'
    BY <2>5, ThreadEndsHolds
  <2>6. CASE UNCHANGED batchVars
    <3>1. BatchTyped' /\ Cardinality(Executing') <= Width'
      BY <2>6, FewerExecute DEF batchVars, BatchInv, BatchTyped, Executing
    <3>2. \A c \in BatchCalls : CallHolds(c)'
      BY <2>6, OtherCalls DEF batchVars, BatchInv, CallHolds
    <3> QED
      BY <3>1, <3>2 DEF BatchInv, CallHolds
  <2> QED
    BY <2>1, <2>2, <2>3, <2>4, <2>5, <2>6 DEF BatchNext
<1>3. BatchInv => BatchSound
  BY BatchFollows
<1> QED
  BY <1>1, <1>2, <1>3, PTL DEF BatchSpec
=============================================================================
