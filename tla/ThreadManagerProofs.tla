------------------------ MODULE ThreadManagerProofs ------------------------
(* Proofs about ThreadManager, for any number of workers, controllers and    *)
(* tasks.                                                                    *)
EXTENDS ThreadManager, FiniteSetTheorems, SequenceTheorems, WellFoundedInduction, TLAPS

-----------------------------------------------------------------------------
(* Lemmas about the operators of the model *)

\* A nonempty set of naturals has a least element.
LEMMA LeastNatural ==
  ASSUME NEW T \in SUBSET Nat, T # {}
  PROVE  \E x \in T : \A y \in T : x <= y
<1> DEFINE R == OpToRel(<, Nat)
<1>1. PICK x \in T : \A y \in T : <<y, x>> \notin R
  BY NatLessThanWellFounded, WFMin, Zenon
<1>2. ASSUME NEW y \in T PROVE x <= y
  <2>1. <<y, x>> \notin R
    BY <1>1
  <2>2. y \in Nat /\ x \in Nat
    OBVIOUS
  <2>3. <<y, x>> \in Nat \X Nat /\ <<y, x>>[1] = y /\ <<y, x>>[2] = x
    BY <2>2
  <2>4. ~(y < x)
    BY <2>1, <2>3 DEF OpToRel
  <2> QED BY <2>2, <2>4
<1> QED BY <1>1, <1>2

\* removeExpiredTasks pops a prefix of tasks_ that ends before the first task
\* that has not expired.
LEMMA ExpiredPrefixMeaning ==
  ASSUME tasks_ \in Seq(Tasks)
  PROVE  /\ ExpiredPrefix \in 0 .. Len(tasks_)
         /\ \A i \in 1 .. ExpiredPrefix : tasks_[i] \in overdue
         /\ ExpiredPrefix < Len(tasks_) => tasks_[ExpiredPrefix + 1] \notin overdue
<1> DEFINE P(k) == /\ \A i \in 1 .. k : tasks_[i] \in overdue
                   /\ k < Len(tasks_) => tasks_[k + 1] \notin overdue
           T == {i \in 1 .. Len(tasks_) : tasks_[i] \notin overdue}
<1>0. Len(tasks_) \in Nat
  OBVIOUS
<1>1. \E k \in 0 .. Len(tasks_) : P(k)
  <2>1. CASE T = {}
    <3>1. P(Len(tasks_))
      BY <1>0, <2>1
    <3> QED BY <1>0, <3>1
  <2>2. CASE T # {}
    <3>0. T \in SUBSET Nat
      BY <1>0
    <3>1. PICK x \in T : \A y \in T : x <= y
      BY <2>2, <3>0, LeastNatural
    <3>2. x - 1 \in 0 .. Len(tasks_) /\ P(x - 1)
      BY <1>0, <3>1
    <3> QED BY <3>2
  <2> QED BY <2>1, <2>2
<1>2. ExpiredPrefix = CHOOSE k \in 0 .. Len(tasks_) : P(k)
  BY DEF ExpiredPrefix
<1> HIDE DEF P
<1>3. ExpiredPrefix \in 0 .. Len(tasks_) /\ P(ExpiredPrefix)
  BY <1>1, <1>2
<1> QED BY <1>3 DEF P

\* What is left of the queue is a queue, no longer than before.
LEMMA UnexpiredType ==
  ASSUME tasks_ \in Seq(Tasks)
  PROVE  /\ Unexpired \in Seq(Tasks)
         /\ Len(Unexpired) = Len(tasks_) - ExpiredPrefix
         /\ Len(Unexpired) \in 0 .. Len(tasks_)
         /\ ExpiredPrefix \in Nat
<1>1. ExpiredPrefix \in 0 .. Len(tasks_) /\ Len(tasks_) \in Nat
  BY ExpiredPrefixMeaning
<1>2. CASE ExpiredPrefix = Len(tasks_)
  <2>1. Unexpired = <<>>
    BY <1>1, <1>2, SubSeqEmpty DEF Unexpired
  <2> QED BY <1>1, <1>2, <2>1
<1>3. CASE ExpiredPrefix < Len(tasks_)
  <2>1. /\ Unexpired \in Seq(Tasks)
        /\ Len(Unexpired) = Len(tasks_) - (ExpiredPrefix + 1) + 1
    BY <1>1, <1>3, SubSeqProperties DEF Unexpired
  <2> QED BY <1>1, <2>1
<1> QED BY <1>1, <1>2, <1>3

LEMMA MarkType ==
  ASSUME NEW D, NEW R, NEW f \in [D -> R], NEW S, NEW v \in R
  PROVE  Mark(f, S, v) \in [D -> R]
BY DEF Mark

\* notify() wakes nobody when nobody waits, and one waiter otherwise.
LEMMA OneOfMeaning ==
  ASSUME NEW W, NEW S \in OneOf(W)
  PROVE  /\ S \subseteq W
         /\ W # {} => \E x \in W : S = {x}
<1>1. CASE W = {}
  BY <1>1 DEF OneOf
<1>2. CASE W # {}
  BY <1>2 DEF OneOf
<1> QED BY <1>1, <1>2

\* Sets of workers are finite.
LEMMA InFinite ==
  ASSUME NEW S
  PROVE  IsFiniteSet(In(S)) /\ Cardinality(In(S)) \in Nat
<1>1. In(S) \in SUBSET Workers
  BY DEF In
<1>2. IsFiniteSet(In(S))
  BY <1>1, PoolAssumption, FS_Subset
<1> QED BY <1>2, FS_CardinalityType

\* How many workers are in a state of S after one of them has moved to p.
LEMMA MoveCount ==
  ASSUME wpc \in [Workers -> WorkerStates],
         NEW CONSTANT S, NEW w \in Workers, NEW p,
         wpc' = [wpc EXCEPT ![w] = p]
  PROVE  /\ Cardinality(In(S)') = Cardinality(In(S))
                + (IF p \in S THEN 1 ELSE 0) - (IF wpc[w] \in S THEN 1 ELSE 0)
         /\ wpc[w] \in S => Cardinality(In(S)) > 0
<1>1. w \in In(S) <=> wpc[w] \in S
  BY DEF In
<1>2. p \in S => In(S)' = In(S) \cup {w}
  BY DEF In
<1>3. p \notin S => In(S)' = In(S) \ {w}
  BY DEF In
<1>4. IsFiniteSet(In(S)) /\ Cardinality(In(S)) \in Nat
  BY InFinite
<1>5. /\ Cardinality(In(S) \cup {w}) =
            IF w \in In(S) THEN Cardinality(In(S)) ELSE Cardinality(In(S)) + 1
      /\ Cardinality(In(S) \ {w}) =
            IF w \in In(S) THEN Cardinality(In(S)) - 1 ELSE Cardinality(In(S))
  BY <1>4, FS_AddElement, FS_RemoveElement
<1>6. w \in In(S) => Cardinality(In(S)) > 0
  <2>1. Cardinality(In(S)) = 0 <=> In(S) = {}
    BY <1>4, FS_EmptySet
  <2> QED BY <1>4, <2>1
<1>7. CASE p \in S
  <2>1. Cardinality(In(S)') = Cardinality(In(S) \cup {w})
    BY <1>2, <1>7
  <2> QED BY <1>1, <1>4, <1>5, <1>6, <1>7, <2>1
<1>8. CASE p \notin S
  <2>1. Cardinality(In(S)') = Cardinality(In(S) \ {w})
    BY <1>3, <1>8
  <2> QED BY <1>1, <1>4, <1>5, <1>6, <1>8, <2>1
<1> QED BY <1>7, <1>8

\* Waking parked workers changes neither the registered nor the idle ones.
LEMMA WakeCount ==
  ASSUME wpc \in [Workers -> WorkerStates],
         NEW W \in SUBSET Parked,
         wpc' = Mark(wpc, W, "woken")
  PROVE  /\ wpc' \in [Workers -> WorkerStates]
         /\ Registered' = Registered
         /\ Idle' = Idle
         /\ Parked' = Parked \ W
         /\ Awake' = Awake \cup W
         /\ Cardinality(Awake') \in Nat
         /\ Cardinality(Awake') >= Cardinality(Awake)
         /\ \A x : W = {x} => Cardinality(Awake') = Cardinality(Awake) + 1
<1>0. "woken" \in WorkerStates
  BY DEF WorkerStates
<1>1. wpc' \in [Workers -> WorkerStates]
  BY <1>0, MarkType
<1>2. \A v \in Workers : wpc'[v] = IF v \in W THEN "woken" ELSE wpc[v]
  BY DEF Mark
<1>3. \A v \in W : v \in Workers /\ wpc[v] = "parked"
  BY DEF Parked, In
<1>4. Registered' = Registered
  BY <1>2, <1>3 DEF Registered, In
<1>5. Idle' = Idle
  BY <1>2, <1>3 DEF Idle, In
<1>6. Parked' = Parked \ W
  BY <1>2, <1>3 DEF Parked, In
<1>7. Awake' = Awake \cup W
  BY <1>2, <1>3 DEF Awake, In
<1>8. IsFiniteSet(Awake) /\ Cardinality(Awake) \in Nat
  BY InFinite DEF Awake
<1>9. Cardinality(Awake') \in Nat /\ Cardinality(Awake') >= Cardinality(Awake)
  <2>1. Awake' \in SUBSET Workers
    BY <1>3, <1>7 DEF Awake, In
  <2>2. IsFiniteSet(Awake')
    BY <2>1, PoolAssumption, FS_Subset
  <2>3. Cardinality(Awake) <= Cardinality(Awake')
    BY <1>7, <2>2, FS_Subset
  <2>4. Cardinality(Awake') \in Nat
    BY <2>2, FS_CardinalityType
  <2> QED BY <1>8, <2>3, <2>4
<1>10. ASSUME NEW x, W = {x}
       PROVE  Cardinality(Awake') = Cardinality(Awake) + 1
  <2>1. x \notin Awake
    BY <1>3, <1>10 DEF Awake, In
  <2> QED BY <1>7, <1>8, <1>10, <2>1, FS_AddElement
<1> QED BY <1>1, <1>4, <1>5, <1>6, <1>7, <1>9, <1>10

-----------------------------------------------------------------------------
(* The invariant of the pool *)

\* WorkersServeQueue is not inductive by itself: add relies on idleCount_ to see
\* a parked worker (CountsMatch), and a worker that retires with tasks pending
\* must leave no parked one behind (NoIdleSurplus).
PoolInv == TypeOK /\ CountsMatch /\ NoIdleSurplus /\ WorkersServeQueue

\* Worker w moves to state p, and no other worker moves.
Moves(w, p) == wpc' = [wpc EXCEPT ![w] = p]

\* The effect of one worker's move on the four sets the invariant counts.
LEMMA Moved ==
  ASSUME wpc \in [Workers -> WorkerStates], NEW w \in Workers, NEW p,
         Moves(w, p)
  PROVE  /\ Cardinality(Registered') = Cardinality(Registered)
              + (IF p \in {"greeting", "loop", "parked", "woken", "running"} THEN 1 ELSE 0)
              - (IF wpc[w] \in {"greeting", "loop", "parked", "woken", "running"} THEN 1 ELSE 0)
         /\ Cardinality(Awake') = Cardinality(Awake)
              + (IF p \in {"greeting", "loop", "woken"} THEN 1 ELSE 0)
              - (IF wpc[w] \in {"greeting", "loop", "woken"} THEN 1 ELSE 0)
         /\ Cardinality(Idle') = Cardinality(Idle)
              + (IF p \in {"parked", "woken"} THEN 1 ELSE 0)
              - (IF wpc[w] \in {"parked", "woken"} THEN 1 ELSE 0)
         /\ wpc[w] \in {"greeting", "loop", "woken"} => Cardinality(Awake) > 0
         /\ Parked' \subseteq Parked \cup (IF p = "parked" THEN {w} ELSE {})
<1> DEFINE reg == {"greeting", "loop", "parked", "woken", "running"}
           awake == {"greeting", "loop", "woken"}
           idle == {"parked", "woken"}
<1>1. /\ Registered = In(reg) /\ Awake = In(awake) /\ Idle = In(idle)
      /\ Registered' = In(reg)' /\ Awake' = In(awake)' /\ Idle' = In(idle)'
  BY DEF Registered, Awake, Idle
<1>2. \A S : Cardinality(In(S)) \in Nat
  BY InFinite
<1>3. /\ Cardinality(In(reg)') = Cardinality(In(reg))
             + (IF p \in reg THEN 1 ELSE 0) - (IF wpc[w] \in reg THEN 1 ELSE 0)
      /\ wpc[w] \in reg => Cardinality(In(reg)) > 0
  BY MoveCount DEF Moves
<1>4. /\ Cardinality(In(awake)') = Cardinality(In(awake))
             + (IF p \in awake THEN 1 ELSE 0) - (IF wpc[w] \in awake THEN 1 ELSE 0)
      /\ wpc[w] \in awake => Cardinality(In(awake)) > 0
  BY MoveCount DEF Moves
<1>5. /\ Cardinality(In(idle)') = Cardinality(In(idle))
             + (IF p \in idle THEN 1 ELSE 0) - (IF wpc[w] \in idle THEN 1 ELSE 0)
      /\ wpc[w] \in idle => Cardinality(In(idle)) > 0
  BY MoveCount DEF Moves
<1>6. Parked' \subseteq Parked \cup (IF p = "parked" THEN {w} ELSE {})
  BY DEF Parked, In, Moves
<1> QED BY <1>1, <1>3, <1>4, <1>5, <1>6

\* The counters can be decremented where the code does so.
LEMMA CountersPositive ==
  ASSUME TypeOK, CountsMatch, NEW w \in Workers, AtQueue(w)
  PROVE  IdleWithout(w) \in Nat /\ workerCount_ - 1 \in Nat
<1>1. wpc[w] = "woken" => w \in Idle
  BY DEF TypeOK, Idle, In
<1>2. w \in Registered
  BY DEF TypeOK, AtQueue, Registered, In
<1>3. IsFiniteSet(Idle) /\ IsFiniteSet(Registered)
  BY InFinite DEF Idle, Registered
<1>4. /\ Idle # {} => Cardinality(Idle) # 0
      /\ Registered # {} => Cardinality(Registered) # 0
  BY <1>3, FS_EmptySet
<1> QED BY <1>1, <1>2, <1>4 DEF TypeOK, CountsMatch, IdleWithout

LEMMA TypeInit == Init => TypeOK
BY PoolAssumption DEF Init, TypeOK, ManagerStates, WorkerStates, TaskStates,
   ControllerStates, Operations

LEMMA NotifyManagerType ==
  ASSUME TypeOK, NotifyManager
  PROVE  cpc' \in [Controllers -> ControllerStates]
<1>1. "woken" \in ControllerStates
  BY DEF ControllerStates
<1>2. PICK S : cpc' = Mark(cpc, S, "woken")
  BY DEF NotifyManager
<1> QED BY <1>1, <1>2, MarkType DEF TypeOK

\* Every step of a worker keeps the types.
LEMMA TypeWorkerStep ==
  ASSUME TypeOK, CountsMatch, NEW w \in Workers, WorkerStep(w) \/ WorkerWakesSpuriously(w)
  PROVE  TypeOK'
<1> USE DEF TypeOK, pool, counts, task, control, WorkerStates
<1>1. CASE WorkerEnters(w)
  BY <1>1 DEF WorkerEnters
<1>2. CASE WorkerUnneeded(w)
  BY <1>2 DEF WorkerUnneeded
<1>3. CASE WorkerGreets(w)
  BY <1>3, NotifyManagerType DEF WorkerGreets
<1>4. CASE WorkerParks(w)
  BY <1>4, CountersPositive DEF WorkerParks
<1>5. CASE WorkerFindsExpired(w)
  <2>1. IdleWithout(w) \in Nat
    BY <1>5, CountersPositive DEF WorkerFindsExpired
  <2>2. ExpiredPrefix \in Nat
    BY UnexpiredType
  <2>3. Mark(tstate, Expired, "expired") \in [Tasks -> TaskStates]
    BY MarkType DEF TaskStates
  <2> QED BY <1>5, <2>1, <2>2, <2>3 DEF WorkerFindsExpired
<1>6. CASE WorkerTakes(w)
  <2>1. IdleWithout(w) \in Nat
    BY <1>6, CountersPositive DEF WorkerTakes
  <2>2. ExpiredPrefix \in Nat /\ Unexpired \in Seq(Tasks)
    BY UnexpiredType
  <2>3. Head(Unexpired) \in Tasks /\ Tail(Unexpired) \in Seq(Tasks)
    BY <1>6, <2>2, HeadTailProperties DEF WorkerTakes
  <2>4. "expired" \in TaskStates /\ "woken" \in TaskStates /\ "running" \in TaskStates
    BY DEF TaskStates
  <2>5. tstate' \in [Tasks -> TaskStates]
    <3>1. PICK S : tstate' = [Mark(Mark(tstate, Expired, "expired"), S, "woken")
                                EXCEPT ![Head(Unexpired)] = "running"]
      BY <1>6 DEF WorkerTakes
    <3>2. Mark(tstate, Expired, "expired") \in [Tasks -> TaskStates]
      BY <2>4, MarkType
    <3>3. Mark(Mark(tstate, Expired, "expired"), S, "woken") \in [Tasks -> TaskStates]
      BY <2>4, <3>2, MarkType
    <3> QED BY <2>4, <3>1, <3>3
  <2> QED BY <1>6, <2>1, <2>2, <2>3, <2>5 DEF WorkerTakes
<1>7. CASE WorkerRetires(w)
  <2>1. IdleWithout(w) \in Nat /\ workerCount_ - 1 \in Nat
    BY <1>7, CountersPositive DEF WorkerRetires
  <2> QED BY <1>7, <2>1 DEF WorkerRetires
<1>8. CASE WorkerFinishes(w)
  BY <1>8 DEF WorkerFinishes, TaskStates
<1>9. CASE WorkerDies(w)
  BY <1>9, NotifyManagerType DEF WorkerDies
<1>10. CASE WorkerWakesSpuriously(w)
  BY <1>10 DEF WorkerWakesSpuriously
<1> QED BY <1>1, <1>2, <1>3, <1>4, <1>5, <1>6, <1>7, <1>8, <1>9, <1>10 DEF WorkerStep

\* Pushing a task keeps the types of what it writes.
LEMMA PushType ==
  ASSUME TypeOK, NEW t \in Tasks, NEW pending \in Seq(Tasks), Push(t, pending)
  PROVE  /\ tasks_' \in Seq(Tasks)
         /\ wpc' \in [Workers -> WorkerStates]
         /\ late' \subseteq Tasks
<1>1. PICK S : wpc' = Mark(wpc, S, "woken")
  BY DEF Push
<1>2. wpc' \in [Workers -> WorkerStates]
  BY <1>1, MarkType DEF TypeOK, WorkerStates
<1>3. tasks_' \in Seq(Tasks)
  BY AppendProperties DEF Push
<1> QED BY <1>2, <1>3 DEF TypeOK, Push

\* Every step of a caller of add, and time, keeps the types.
LEMMA TypeTaskStep ==
  ASSUME TypeOK, NEW t \in Tasks,
         Add(t) \/ AddStep(t) \/ AddGivesUp(t) \/ AddWakesSpuriously(t) \/ Expire(t)
  PROVE  TypeOK'
<1> USE DEF TypeOK, pool, counts, worker, control
<1>0. /\ ExpiredPrefix \in Nat /\ Unexpired \in Seq(Tasks)
      /\ Mark(tstate, Expired, "expired") \in [Tasks -> TaskStates]
  BY UnexpiredType, MarkType DEF TaskStates
<1>1. ASSUME NEW w \in Workers \cup {Nobody}, AddNotStarted(t, w)
      PROVE  TypeOK'
  BY <1>1 DEF AddNotStarted, TaskStates
<1>2. ASSUME NEW w \in Workers \cup {Nobody}, NEW timeout \in Timeouts,
             AddTimesOut(t, w, timeout)
      PROVE  TypeOK'
  BY <1>2 DEF AddTimesOut, TaskStates
<1>3. ASSUME NEW w \in Workers \cup {Nobody}, NEW timeout \in Timeouts,
             AddFull(t, w, timeout)
      PROVE  TypeOK'
  <2>1. tstate' \in [Tasks -> TaskStates]
    BY <1>0, <1>3 DEF AddFull, TaskStates
  <2>2. caller' \in [Tasks -> Workers \cup {Nobody}] /\ timed' \subseteq Tasks
    BY <1>3 DEF AddFull
  <2> QED BY <1>0, <1>3, <2>1, <2>2 DEF AddFull
<1>4. ASSUME NEW w \in Workers \cup {Nobody}, AddQueues(t, w)
      PROVE  TypeOK'
  <2>1. tstate' \in [Tasks -> TaskStates]
    BY <1>0, <1>4 DEF AddQueues, TaskStates
  <2>2. Push(t, Unexpired)
    BY <1>4 DEF AddQueues
  <2> QED BY <1>0, <1>4, <2>1, <2>2, PushType DEF AddQueues
<1>5. CASE AddWaitsAgain(t)
  BY <1>5 DEF AddWaitsAgain, TaskStates
<1>6. CASE AddResumes(t)
  <2>1. Push(t, tasks_)
    BY <1>6 DEF AddResumes
  <2>2. tstate' \in [Tasks -> TaskStates]
    BY <1>6 DEF AddResumes, TaskStates
  <2> QED BY <1>6, <2>1, <2>2, PushType DEF AddResumes
<1>7. CASE AddGivesUp(t)
  BY <1>7 DEF AddGivesUp, TaskStates
<1>8. CASE AddWakesSpuriously(t)
  BY <1>8 DEF AddWakesSpuriously, TaskStates
<1>9. CASE Expire(t)
  BY <1>9, PoolAssumption DEF Expire
<1> QED BY <1>1, <1>2, <1>3, <1>4, <1>5, <1>6, <1>7, <1>8, <1>9 DEF Add, AddStep

\* removeNextPending and expiredTaskCount keep the types.
LEMMA TypeOtherStep ==
  ASSUME TypeOK, removeNextPending \/ ExpiredTaskCount
  PROVE  TypeOK'
<1> USE DEF TypeOK, pool, counts, worker, task, control
<1>1. CASE removeNextPending
  <2>1. Head(tasks_) \in Tasks /\ Tail(tasks_) \in Seq(Tasks)
    BY <1>1, HeadTailProperties DEF removeNextPending
  <2> QED BY <1>1, <2>1 DEF removeNextPending, TaskStates
<1>2. CASE ExpiredTaskCount
  BY <1>2 DEF ExpiredTaskCount
<1> QED BY <1>1, <1>2

\* Every step of a controller keeps the types.
LEMMA TypeControllerStep ==
  ASSUME TypeOK, NEW c \in Controllers,
         Request(c) \/ ControllerStep(c) \/ ControllerWakesSpuriously(c)
  PROVE  TypeOK'
<1> USE DEF TypeOK, pool, counts, worker, task, control, ControllerStates, Operations, Leave
<1>1. CASE start(c)
  <2>1. Mark(wpc, Parked, "woken") \in [Workers -> WorkerStates]
    BY MarkType DEF WorkerStates
  <2> QED BY <1>1, <2>1 DEF start, ManagerStates
<1>2. ASSUME NEW S \in SUBSET Workers, addWorker(c, S)
      PROVE  TypeOK'
  <2>1. Cardinality(S) \in Nat
    BY PoolAssumption, FS_Subset, FS_CardinalityType
  <2> QED BY <1>2, <2>1 DEF addWorker
<1>3. ASSUME NEW value \in 0 .. Cardinality(Workers), removeWorker(c, value)
      PROVE  TypeOK'
  <2>1. value \in Nat
    BY PoolAssumption, FS_CardinalityType
  <2> QED BY <1>3, <2>1 DEF removeWorker
<1>4. ASSUME NEW join \in BOOLEAN, stopImpl(c, join)
      PROVE  TypeOK'
  BY <1>4 DEF stopImpl, ManagerStates
<1>5. ASSUME NEW w \in Workers, StartThread(c, w)
      PROVE  TypeOK'
  BY <1>5 DEF StartThread, WorkerStates
<1>6. ASSUME NEW w \in Workers, RecordId(c, w)
      PROVE  TypeOK'
  BY <1>6 DEF RecordId
<1>7. CASE StartFails(c)
  BY <1>7 DEF StartFails
<1>8. CASE AllStarted(c)
  BY <1>8 DEF AllStarted
<1>9. CASE Shrink(c)
  <2>1. PICK S : wpc' = Mark(wpc, S, "woken")
    BY <1>9 DEF Shrink
  <2>2. wpc' \in [Workers -> WorkerStates]
    BY <2>1, MarkType DEF WorkerStates
  <2> QED BY <1>9, <2>2 DEF Shrink
<1>10. CASE ShrinkThrows(c)
  BY <1>10 DEF ShrinkThrows
<1>11. CASE WaitForWorkers(c)
  BY <1>11 DEF WaitForWorkers
<1>12. CASE AddWorkerReturns(c)
  BY <1>12 DEF AddWorkerReturns
<1>13. CASE RemoveWorkerReturns(c)
  <2>1. /\ cpc' \in [Controllers -> ControllerStates]
        /\ cop' \in [Controllers -> Operations]
        /\ cval' \in [Controllers -> Nat]
    <3>1. CASE cop[c] = "stop"
      <4>1. cpc' = [cpc EXCEPT ![c] = "finishing"] /\ cop' = cop /\ cval' = cval
        BY <1>13, <3>1 DEF RemoveWorkerReturns
      <4> QED BY <4>1
    <3>2. CASE cop[c] # "stop"
      <4>1. Leave(c)
        BY <1>13, <3>2 DEF RemoveWorkerReturns
      <4> QED BY <4>1
    <3> QED BY <3>1, <3>2
  <2>2. idMap_' \subseteq Workers /\ workers_' \subseteq Workers /\ deadWorkers_' \subseteq Workers
    BY <1>13 DEF RemoveWorkerReturns
  <2>3. UNCHANGED <<state_, counts, expiredCount_, tasks_, worker, task, cnew>>
    BY <1>13 DEF RemoveWorkerReturns
  <2> QED BY <2>1, <2>2, <2>3
<1>14. CASE ReadWorkerCount(c)
  BY <1>14 DEF ReadWorkerCount
<1>15. CASE StopReturns(c)
  BY <1>15 DEF StopReturns, ManagerStates
<1>16. CASE ControllerWakesSpuriously(c)
  BY <1>16 DEF ControllerWakesSpuriously
<1> QED BY <1>1, <1>2, <1>3, <1>4, <1>5, <1>6, <1>7, <1>8, <1>9, <1>10, <1>11, <1>12,
           <1>13, <1>14, <1>15, <1>16 DEF Request, ControllerStep

-----------------------------------------------------------------------------
(* Every step keeps the counts, and a worker coming for every pending task *)

Counts == CountsMatch /\ NoIdleSurplus /\ WorkersServeQueue

\* A step that moves no worker and queues nothing.
LEMMA QuietStep ==
  ASSUME TypeOK, Counts, UNCHANGED <<wpc, workerCount_, idleCount_>>,
         workerMaxCount_' \in Nat, workerMaxCount_' >= workerMaxCount_,
         tasks_' \in Seq(Tasks), Len(tasks_') <= Len(tasks_)
  PROVE  Counts'
<1>1. /\ Registered' = Registered /\ Idle' = Idle
      /\ Parked' = Parked /\ Awake' = Awake
  BY DEF Registered, Idle, Parked, Awake, In
<1>2. Cardinality(Awake) \in Nat /\ Len(tasks_) \in Nat /\ Len(tasks_') \in Nat
  BY InFinite DEF Awake, TypeOK
<1>3. CountsMatch'
  BY <1>1 DEF Counts, CountsMatch
<1>4. NoIdleSurplus'
  BY <1>1 DEF Counts, NoIdleSurplus, TypeOK
<1>5. WorkersServeQueue'
  BY <1>1, <1>2 DEF Counts, WorkersServeQueue
<1> QED BY <1>3, <1>4, <1>5 DEF Counts

\* A step that wakes parked workers and queues nothing.
LEMMA WakingStep ==
  ASSUME TypeOK, Counts, NEW W \in SUBSET Parked, wpc' = Mark(wpc, W, "woken"),
         UNCHANGED <<workerCount_, idleCount_, tasks_>>,
         workerMaxCount_' = workerMaxCount_ \/ W = Parked
  PROVE  Counts'
<1>1. /\ Registered' = Registered /\ Idle' = Idle
      /\ Parked' = Parked \ W
      /\ Cardinality(Awake') >= Cardinality(Awake)
  BY WakeCount DEF TypeOK
<1>2. Cardinality(Awake) \in Nat /\ Cardinality(Awake') \in Nat /\ Len(tasks_) \in Nat
  BY InFinite, WakeCount DEF Awake, TypeOK
<1>3. CountsMatch'
  BY <1>1 DEF Counts, CountsMatch
<1>4. NoIdleSurplus'
  BY <1>1 DEF Counts, NoIdleSurplus
<1>5. WorkersServeQueue'
  BY <1>1, <1>2 DEF Counts, WorkersServeQueue
<1> QED BY <1>3, <1>4, <1>5 DEF Counts

\* A push makes the queue one longer and, if a worker is parked, wakes one.
LEMMA PushStep ==
  ASSUME TypeOK, Counts, NEW t \in Tasks, NEW pending \in Seq(Tasks),
         Len(pending) <= Len(tasks_), Push(t, pending), UNCHANGED counts
  PROVE  Counts'
<1>1. PICK S \in IF idleCount_ > 0 THEN OneOf(Parked) ELSE {{}} :
        wpc' = Mark(wpc, S, "woken")
  BY DEF Push
<1>2. S \in SUBSET Parked /\ (Parked # {} => \E x \in Parked : S = {x})
  <2>1. Parked # {} => idleCount_ > 0
    <3>1. Parked \in SUBSET Idle /\ IsFiniteSet(Idle)
      BY InFinite DEF Parked, Idle, In
    <3>2. Parked # {} => Cardinality(Idle) # 0
      BY <3>1, FS_EmptySet
    <3> QED BY <3>2 DEF Counts, CountsMatch, TypeOK
  <2>2. CASE idleCount_ > 0
    BY <1>1, <2>2, OneOfMeaning
  <2>3. CASE ~(idleCount_ > 0)
    BY <1>1, <2>1, <2>3
  <2> QED BY <2>2, <2>3
<1>3. /\ Registered' = Registered /\ Idle' = Idle
      /\ Parked' = Parked \ S
      /\ \A x : S = {x} => Cardinality(Awake') = Cardinality(Awake) + 1
  BY <1>1, <1>2, WakeCount DEF TypeOK
<1>4. Len(tasks_') = Len(pending) + 1
  BY AppendProperties DEF Push
<1>5. Cardinality(Awake) \in Nat /\ Len(tasks_) \in Nat /\ Len(pending) \in Nat
  BY InFinite DEF Awake, TypeOK
<1>6. CountsMatch'
  BY <1>3 DEF Counts, CountsMatch, counts
<1>7. NoIdleSurplus'
  BY <1>3 DEF Counts, NoIdleSurplus, counts
<1>8. WorkersServeQueue'
  <2>1. SUFFICES ASSUME Parked' # {}
                 PROVE  Len(tasks_') <= Cardinality(Awake')
    BY DEF WorkersServeQueue
  <2>2. Parked # {}
    BY <1>3, <2>1
  <2>3. Len(tasks_) <= Cardinality(Awake)
    BY <2>2 DEF Counts, WorkersServeQueue
  <2>4. Cardinality(Awake') = Cardinality(Awake) + 1
    BY <1>2, <1>3, <2>2
  <2> QED BY <1>4, <1>5, <2>3, <2>4
<1> QED BY <1>6, <1>7, <1>8 DEF Counts

\* Every step of a worker keeps the counts: an awake worker that takes a task
\* takes one off the queue, one that parks has found it empty, and one that
\* retires leaves no parked worker behind.
LEMMA CountsWorkerStep ==
  ASSUME TypeOK, Counts, NEW w \in Workers, WorkerStep(w) \/ WorkerWakesSpuriously(w)
  PROVE  Counts'
<1>0. /\ Cardinality(Registered) \in Nat /\ Cardinality(Awake) \in Nat
      /\ Cardinality(Idle) \in Nat /\ Len(tasks_) \in Nat
      /\ workerCount_ \in Nat /\ workerMaxCount_ \in Nat /\ idleCount_ \in Nat
      /\ wpc \in [Workers -> WorkerStates]
  BY InFinite DEF Registered, Awake, Idle, TypeOK
<1> USE DEF Counts, CountsMatch, NoIdleSurplus, WorkersServeQueue
<1>1. CASE WorkerEnters(w)
  <2>1. PICK p \in {"greeting", "loop"} : Moves(w, p)
    BY <1>1 DEF WorkerEnters, Moves
  <2>8. wpc[w] = "new"
    BY <1>1 DEF WorkerEnters
  <2>9. /\ Cardinality(Registered') = Cardinality(Registered) + 1
        /\ Cardinality(Awake') = Cardinality(Awake) + 1
        /\ Cardinality(Idle') = Cardinality(Idle)
        /\ Parked' \subseteq Parked
    BY <1>0, <2>1, <2>8, Moved
  <2> QED BY <1>0, <1>1, <2>9 DEF WorkerEnters
<1>2. CASE WorkerUnneeded(w)
  <2>8. Moves(w, "leaving") /\ wpc[w] = "new"
    BY <1>2 DEF WorkerUnneeded, Moves
  <2>9. /\ Cardinality(Registered') = Cardinality(Registered)
        /\ Cardinality(Awake') = Cardinality(Awake)
        /\ Cardinality(Idle') = Cardinality(Idle)
        /\ Parked' \subseteq Parked
    BY <1>0, <2>8, Moved
  <2> QED BY <1>0, <1>2, <2>9 DEF WorkerUnneeded, counts
<1>3. CASE WorkerGreets(w)
  <2>8. Moves(w, "loop") /\ wpc[w] = "greeting"
    BY <1>3 DEF WorkerGreets, AtQueue, Moves
  <2>9. /\ Cardinality(Registered') = Cardinality(Registered)
        /\ Cardinality(Awake') = Cardinality(Awake)
        /\ Cardinality(Idle') = Cardinality(Idle)
        /\ Parked' \subseteq Parked
    BY <1>0, <2>8, Moved
  <2> QED BY <1>0, <1>3, <2>9 DEF WorkerGreets, counts
<1>4. CASE WorkerParks(w)
  <2>1. workerCount_ <= workerMaxCount_
    BY <1>4 DEF WorkerParks, isActive
  <2>8. Moves(w, "parked") /\ wpc[w] \in {"loop", "woken"}
    BY <1>4 DEF WorkerParks, AtQueue, Moves
  <2>9. /\ Cardinality(Registered') = Cardinality(Registered)
        /\ Cardinality(Awake') = Cardinality(Awake) - 1
        /\ Cardinality(Idle') = Cardinality(Idle) + (IF wpc[w] = "woken" THEN 0 ELSE 1)
    BY <1>0, <2>8, Moved
  <2>10. Len(tasks_') = 0 /\ Cardinality(Awake') >= 0
    BY <1>0, <1>4, <2>8, <2>9, Moved DEF WorkerParks
  <2> QED BY <1>0, <1>4, <2>1, <2>9, <2>10 DEF WorkerParks, IdleWithout
<1>5. CASE WorkerFindsExpired(w)
  <2>1. Len(tasks_') = 0
    BY <1>5 DEF WorkerFindsExpired
  <2>8. Moves(w, "loop") /\ wpc[w] \in {"loop", "woken"}
    BY <1>5 DEF WorkerFindsExpired, AtQueue, Moves
  <2>9. /\ Cardinality(Registered') = Cardinality(Registered)
        /\ Cardinality(Awake') = Cardinality(Awake)
        /\ Cardinality(Idle') = Cardinality(Idle) - (IF wpc[w] = "woken" THEN 1 ELSE 0)
        /\ Parked' \subseteq Parked
    BY <1>0, <2>8, Moved
  <2> QED BY <1>0, <1>5, <2>9, <2>1 DEF WorkerFindsExpired, IdleWithout
<1>6. CASE WorkerTakes(w)
  <2>1. Len(tasks_') \in Nat /\ Len(tasks_') < Len(tasks_)
    <3>1. Unexpired \in Seq(Tasks) /\ Len(Unexpired) \in 0 .. Len(tasks_)
      BY UnexpiredType DEF TypeOK
    <3>2. Len(Tail(Unexpired)) = Len(Unexpired) - 1 /\ Tail(Unexpired) \in Seq(Tasks)
      BY <1>6, <3>1, HeadTailProperties DEF WorkerTakes
    <3> QED BY <1>0, <1>6, <3>1, <3>2 DEF WorkerTakes
  <2>8. Moves(w, "running") /\ wpc[w] \in {"loop", "woken"}
    BY <1>6 DEF WorkerTakes, AtQueue, Moves
  <2>9. /\ Cardinality(Registered') = Cardinality(Registered)
        /\ Cardinality(Awake') = Cardinality(Awake) - 1
        /\ Cardinality(Idle') = Cardinality(Idle) - (IF wpc[w] = "woken" THEN 1 ELSE 0)
        /\ Parked' \subseteq Parked
    <3>1. CASE wpc[w] = "loop"
      BY <1>0, <2>8, <3>1, Moved
    <3>2. CASE wpc[w] = "woken"
      BY <1>0, <2>8, <3>2, Moved
    <3> QED BY <2>8, <3>1, <3>2
  <2> QED BY <1>0, <1>6, <2>9, <2>1 DEF WorkerTakes, IdleWithout
<1>7. CASE WorkerRetires(w)
  <2>1. Parked = {}
    BY <1>0, <1>7 DEF WorkerRetires, isActive
  <2>2. PICK p \in {"leaving", "leavingLast"} : Moves(w, p)
    BY <1>7 DEF WorkerRetires, Moves
  <2>8. wpc[w] \in {"loop", "woken"}
    BY <1>7 DEF WorkerRetires, AtQueue
  <2>9. /\ Cardinality(Registered') = Cardinality(Registered) - 1
        /\ Cardinality(Idle') = Cardinality(Idle) - (IF wpc[w] = "woken" THEN 1 ELSE 0)
        /\ Parked' \subseteq Parked
    BY <1>0, <2>2, <2>8, Moved
  <2> QED BY <1>0, <1>7, <2>1, <2>9 DEF WorkerRetires, IdleWithout
<1>8. CASE WorkerFinishes(w)
  <2>8. Moves(w, "loop") /\ wpc[w] = "running"
    BY <1>8 DEF WorkerFinishes, AtQueue, Moves
  <2>9. /\ Cardinality(Registered') = Cardinality(Registered)
        /\ Cardinality(Awake') = Cardinality(Awake) + 1
        /\ Cardinality(Idle') = Cardinality(Idle)
        /\ Parked' \subseteq Parked
    BY <1>0, <2>8, Moved
  <2> QED BY <1>0, <1>8, <2>9 DEF WorkerFinishes, counts
<1>9. CASE WorkerDies(w)
  <2>8. Moves(w, "dead") /\ wpc[w] \in {"leaving", "leavingLast"}
    BY <1>9 DEF WorkerDies, Moves
  <2>9. /\ Cardinality(Registered') = Cardinality(Registered)
        /\ Cardinality(Awake') = Cardinality(Awake)
        /\ Cardinality(Idle') = Cardinality(Idle)
        /\ Parked' \subseteq Parked
    BY <1>0, <2>8, Moved
  <2> QED BY <1>0, <1>9, <2>9 DEF WorkerDies, counts
<1>10. CASE WorkerWakesSpuriously(w)
  <2>8. Moves(w, "woken") /\ wpc[w] = "parked"
    BY <1>10 DEF WorkerWakesSpuriously, Moves
  <2>9. /\ Cardinality(Registered') = Cardinality(Registered)
        /\ Cardinality(Awake') = Cardinality(Awake) + 1
        /\ Cardinality(Idle') = Cardinality(Idle)
        /\ Parked' \subseteq Parked
    BY <1>0, <2>8, Moved
  <2> QED BY <1>0, <1>10, <2>9 DEF WorkerWakesSpuriously, counts
<1> QED BY <1>1, <1>2, <1>3, <1>4, <1>5, <1>6, <1>7, <1>8, <1>9, <1>10 DEF WorkerStep

LEMMA CountsTaskStep ==
  ASSUME TypeOK, Counts, NEW t \in Tasks,
         Add(t) \/ AddStep(t) \/ AddGivesUp(t) \/ AddWakesSpuriously(t) \/ Expire(t)
  PROVE  Counts'
<1>0. /\ Unexpired \in Seq(Tasks) /\ Len(Unexpired) <= Len(tasks_)
      /\ tasks_ \in Seq(Tasks) /\ Len(tasks_) \in Nat /\ workerMaxCount_ \in Nat
  BY UnexpiredType DEF TypeOK
<1>1. ASSUME UNCHANGED <<counts, wpc, tasks_>>
      PROVE  Counts'
  BY <1>0, <1>1, QuietStep DEF counts
<1>2. ASSUME NEW w \in Workers \cup {Nobody}, AddNotStarted(t, w)
      PROVE  Counts'
  BY <1>1, <1>2 DEF AddNotStarted, worker
<1>3. ASSUME NEW w \in Workers \cup {Nobody}, NEW timeout \in Timeouts,
             AddTimesOut(t, w, timeout)
      PROVE  Counts'
  BY <1>1, <1>3 DEF AddTimesOut, worker
<1>4. ASSUME NEW w \in Workers \cup {Nobody}, NEW timeout \in Timeouts,
             AddFull(t, w, timeout)
      PROVE  Counts'
  BY <1>0, <1>4, QuietStep DEF AddFull, counts, worker
<1>5. ASSUME NEW w \in Workers \cup {Nobody}, AddQueues(t, w)
      PROVE  Counts'
  BY <1>0, <1>5, PushStep DEF AddQueues
<1>6. CASE AddWaitsAgain(t)
  BY <1>1, <1>6 DEF AddWaitsAgain, worker
<1>7. CASE AddResumes(t)
  BY <1>0, <1>7, PushStep DEF AddResumes
<1>8. CASE AddGivesUp(t)
  BY <1>1, <1>8 DEF AddGivesUp, worker
<1>9. CASE AddWakesSpuriously(t)
  BY <1>1, <1>9 DEF AddWakesSpuriously, worker
<1>10. CASE Expire(t)
  BY <1>1, <1>10 DEF Expire, worker
<1> QED BY <1>2, <1>3, <1>4, <1>5, <1>6, <1>7, <1>8, <1>9, <1>10 DEF Add, AddStep

LEMMA CountsOtherStep ==
  ASSUME TypeOK, Counts, removeNextPending \/ ExpiredTaskCount
  PROVE  Counts'
<1>0. tasks_ \in Seq(Tasks) /\ Len(tasks_) \in Nat /\ workerMaxCount_ \in Nat
  BY DEF TypeOK
<1>1. CASE removeNextPending
  <2>1. Tail(tasks_) \in Seq(Tasks) /\ Len(Tail(tasks_)) <= Len(tasks_)
    BY <1>0, <1>1, HeadTailProperties DEF removeNextPending
  <2> QED BY <1>0, <1>1, <2>1, QuietStep DEF removeNextPending, counts, worker
<1>2. CASE ExpiredTaskCount
  BY <1>0, <1>2, QuietStep DEF ExpiredTaskCount, counts, worker
<1> QED BY <1>1, <1>2

\* Every step of a controller keeps the counts: removeWorker, which alone lowers
\* workerMaxCount_, wakes every parked worker, whichever way it notifies.
LEMMA CountsControllerStep ==
  ASSUME TypeOK, Counts, NEW c \in Controllers,
         Request(c) \/ ControllerStep(c) \/ ControllerWakesSpuriously(c)
  PROVE  Counts'
<1>0. /\ tasks_ \in Seq(Tasks) /\ Len(tasks_) \in Nat /\ workerMaxCount_ \in Nat
      /\ wpc \in [Workers -> WorkerStates]
  BY DEF TypeOK
<1>1. ASSUME UNCHANGED <<counts, wpc, tasks_>>
      PROVE  Counts'
  BY <1>0, <1>1, QuietStep DEF counts
<1>2. CASE start(c)
  BY <1>2, WakingStep DEF start, counts
<1>3. ASSUME NEW S \in SUBSET Workers, addWorker(c, S)
      PROVE  Counts'
  <2>1. Cardinality(S) \in Nat
    BY PoolAssumption, FS_Subset, FS_CardinalityType
  <2> QED BY <1>0, <1>3, <2>1, QuietStep DEF addWorker, worker
<1>4. ASSUME NEW value \in 0 .. Cardinality(Workers), removeWorker(c, value)
      PROVE  Counts'
  BY <1>1, <1>4 DEF removeWorker, worker
<1>5. ASSUME NEW join \in BOOLEAN, stopImpl(c, join)
      PROVE  Counts'
  BY <1>1, <1>5 DEF stopImpl, worker
<1>6. ASSUME NEW w \in Workers, StartThread(c, w)
      PROVE  Counts'
  <2>1. Moves(w, "new") /\ wpc[w] = "unborn"
    BY <1>6 DEF StartThread, Moves
  <2>2. /\ Cardinality(Registered') = Cardinality(Registered)
        /\ Cardinality(Awake') = Cardinality(Awake)
        /\ Cardinality(Idle') = Cardinality(Idle)
        /\ Parked' \subseteq Parked
    <3>1. /\ Cardinality(Registered) \in Nat /\ Cardinality(Awake) \in Nat
          /\ Cardinality(Idle) \in Nat
      BY InFinite DEF Registered, Awake, Idle
    <3> QED BY <1>0, <2>1, <3>1, Moved
  <2> QED BY <1>6, <2>2 DEF StartThread, counts, Counts, CountsMatch, NoIdleSurplus,
                           WorkersServeQueue
<1>7. ASSUME NEW w \in Workers, RecordId(c, w)
      PROVE  Counts'
  BY <1>1, <1>7 DEF RecordId, worker
<1>8. CASE StartFails(c)
  BY <1>1, <1>8 DEF StartFails, worker
<1>9. CASE AllStarted(c)
  BY <1>1, <1>9 DEF AllStarted, worker
<1>10. CASE Shrink(c)
  <2>1. PICK S \in Notified(cval[c]) : wpc' = Mark(wpc, S, "woken")
    BY <1>10 DEF Shrink
  <2>2. S = Parked
    <3>1. Parked \in SUBSET Idle /\ IsFiniteSet(Idle) /\ IsFiniteSet(Parked)
      BY InFinite DEF Parked, Idle, In
    <3>2. Cardinality(Parked) <= idleCount_ /\ Cardinality(Parked) \in Nat
      BY <3>1, FS_Subset, FS_CardinalityType DEF Counts, CountsMatch
    <3>3. S \in SUBSET Parked /\ (S = Parked \/ Cardinality(S) = idleCount_)
      BY <2>1 DEF Notified
    <3>4. Cardinality(S) <= Cardinality(Parked)
          /\ (Cardinality(Parked) = Cardinality(S) => Parked = S)
      BY <3>1, <3>3, FS_Subset
    <3>5. idleCount_ \in Nat
      BY DEF TypeOK
    <3> QED BY <3>2, <3>3, <3>4, <3>5
  <2> QED BY <1>10, <2>1, <2>2, WakingStep DEF Shrink
<1>11. CASE ShrinkThrows(c)
  BY <1>1, <1>11 DEF ShrinkThrows, worker
<1>12. CASE WaitForWorkers(c)
  BY <1>1, <1>12 DEF WaitForWorkers, worker
<1>13. CASE AddWorkerReturns(c)
  BY <1>1, <1>13 DEF AddWorkerReturns, worker
<1>14. CASE RemoveWorkerReturns(c)
  BY <1>1, <1>14 DEF RemoveWorkerReturns, worker
<1>15. CASE ReadWorkerCount(c)
  BY <1>1, <1>15 DEF ReadWorkerCount, worker
<1>16. CASE StopReturns(c)
  BY <1>1, <1>16 DEF StopReturns, worker
<1>17. CASE ControllerWakesSpuriously(c)
  BY <1>1, <1>17 DEF ControllerWakesSpuriously, worker
<1> QED BY <1>2, <1>3, <1>4, <1>5, <1>6, <1>7, <1>8, <1>9, <1>10, <1>11, <1>12, <1>13,
           <1>14, <1>15, <1>16, <1>17 DEF Request, ControllerStep

LEMMA CountsInit == Init => Counts
<1> SUFFICES ASSUME Init PROVE Counts
  OBVIOUS
<1>1. Registered = {} /\ Idle = {} /\ Parked = {}
  BY DEF Init, Registered, Idle, Parked, In
<1> QED BY <1>1, FS_EmptySet DEF Init, Counts, CountsMatch, NoIdleSurplus, WorkersServeQueue

-----------------------------------------------------------------------------
(* Theorems *)

\* Every step of every thread keeps the invariant of the pool.
LEMMA PoolStep == PoolInv /\ [Next]_vars => PoolInv'
<1> SUFFICES ASSUME TypeOK, Counts, [Next]_vars
             PROVE  TypeOK' /\ Counts'
  BY DEF PoolInv, Counts
<1>1. ASSUME NEW w \in Workers, WorkerStep(w) \/ WorkerWakesSpuriously(w)
      PROVE  TypeOK' /\ Counts'
  BY <1>1, TypeWorkerStep, CountsWorkerStep DEF Counts
<1>2. ASSUME NEW t \in Tasks,
             Add(t) \/ AddStep(t) \/ AddGivesUp(t) \/ AddWakesSpuriously(t) \/ Expire(t)
      PROVE  TypeOK' /\ Counts'
  BY <1>2, TypeTaskStep, CountsTaskStep
<1>3. ASSUME NEW c \in Controllers,
             Request(c) \/ ControllerStep(c) \/ ControllerWakesSpuriously(c)
      PROVE  TypeOK' /\ Counts'
  BY <1>3, TypeControllerStep, CountsControllerStep
<1>4. CASE removeNextPending \/ ExpiredTaskCount
  BY <1>4, TypeOtherStep, CountsOtherStep
<1>5. CASE UNCHANGED vars
  BY <1>5 DEF vars, TypeOK, Counts, CountsMatch, NoIdleSurplus, WorkersServeQueue,
              Registered, Idle, Parked, Awake, In
<1> QED BY <1>1, <1>2, <1>3, <1>4, <1>5 DEF Next

\* The invariant of the pool holds in every behaviour.
THEOREM PoolInvariant == Spec => []PoolInv
<1>1. Init => PoolInv
  BY TypeInit, CountsInit DEF PoolInv, Counts
<1> QED BY <1>1, PoolStep, PTL DEF Spec

\* Every variable of the thread manager keeps its type, and no unsigned counter
\* is decremented at zero, however many threads start, stop and resize it.
THEOREM TypeCorrect == Spec => []TypeOK
<1>1. PoolInv => TypeOK
  BY DEF PoolInv
<1> QED BY <1>1, PoolInvariant, PTL

\* workerCount_ and idleCount_ always count the registered and the idle workers.
THEOREM CountsCorrect == Spec => []CountsMatch
<1>1. PoolInv => CountsMatch
  BY DEF PoolInv
<1> QED BY <1>1, PoolInvariant, PTL

\* removeWorker, stop and join never leave a surplus worker asleep, so the
\* threads that wait for the pool to shrink wait for workers that are awake.
THEOREM SurplusAwake == Spec => []NoIdleSurplus
<1>1. PoolInv => NoIdleSurplus
  BY DEF PoolInv
<1> QED BY <1>1, PoolInvariant, PTL

\* The pool has no lost wakeup: while a worker sleeps, every pending task has
\* a worker coming for it.
THEOREM NoLostWakeup == Spec => []WorkersServeQueue
<1>1. PoolInv => WorkersServeQueue
  BY DEF PoolInv
<1> QED BY <1>1, PoolInvariant, PTL

-----------------------------------------------------------------------------
(* The limit on pending tasks *)

\* The queue grows only by a push onto a queue that has room.
LEMMA QueueGrowth ==
  ASSUME TypeOK, Next
  PROVE  \/ Len(tasks_') <= Len(tasks_)
         \/ \E pending \in Seq(Tasks) : ~Full(pending) /\ Len(tasks_') = Len(pending) + 1
<1>0. /\ Unexpired \in Seq(Tasks) /\ Len(Unexpired) \in 0 .. Len(tasks_)
      /\ tasks_ \in Seq(Tasks) /\ Len(tasks_) \in Nat
  BY UnexpiredType DEF TypeOK
<1>1. CASE UNCHANGED tasks_
  BY <1>0, <1>1
<1>2. ASSUME NEW w \in Workers, WorkerFindsExpired(w)
      PROVE  Len(tasks_') <= Len(tasks_)
  BY <1>0, <1>2 DEF WorkerFindsExpired
<1>3. ASSUME NEW w \in Workers, WorkerTakes(w)
      PROVE  Len(tasks_') <= Len(tasks_)
  BY <1>0, <1>3, HeadTailProperties DEF WorkerTakes
<1>4. ASSUME NEW t \in Tasks, NEW w, NEW timeout, AddFull(t, w, timeout)
      PROVE  Len(tasks_') <= Len(tasks_)
  BY <1>0, <1>4 DEF AddFull
<1>5. ASSUME NEW t \in Tasks, NEW w, AddQueues(t, w)
      PROVE  ~Full(Unexpired) /\ Len(tasks_') = Len(Unexpired) + 1
  BY <1>0, <1>5, AppendProperties DEF AddQueues, Push
<1>6. ASSUME NEW t \in Tasks, AddResumes(t)
      PROVE  ~Full(tasks_) /\ Len(tasks_') = Len(tasks_) + 1
  BY <1>0, <1>6, AppendProperties DEF AddResumes, Push
<1>7. CASE removeNextPending
  BY <1>0, <1>7, HeadTailProperties DEF removeNextPending
<1>8. ASSUME NEW w \in Workers, WorkerStep(w) \/ WorkerWakesSpuriously(w)
      PROVE  UNCHANGED tasks_ \/ WorkerFindsExpired(w) \/ WorkerTakes(w)
  BY <1>8 DEF WorkerStep, WorkerWakesSpuriously, WorkerEnters, WorkerUnneeded, WorkerGreets,
              WorkerParks, WorkerRetires, WorkerFinishes, WorkerDies
<1>9. ASSUME NEW t \in Tasks,
             Add(t) \/ AddStep(t) \/ AddGivesUp(t) \/ AddWakesSpuriously(t) \/ Expire(t)
      PROVE  \/ UNCHANGED tasks_
             \/ \E w, timeout : AddFull(t, w, timeout)
             \/ \E w : AddQueues(t, w)
             \/ AddResumes(t)
  BY <1>9 DEF Add, AddStep, AddNotStarted, AddTimesOut, AddWaitsAgain, AddGivesUp,
              AddWakesSpuriously, Expire
<1>10. ASSUME NEW c \in Controllers,
              Request(c) \/ ControllerStep(c) \/ ControllerWakesSpuriously(c)
       PROVE  UNCHANGED tasks_
  BY <1>10 DEF Request, ControllerStep, ControllerWakesSpuriously, start, addWorker,
     removeWorker, stopImpl, StartThread, RecordId, StartFails, AllStarted, Shrink,
     ShrinkThrows, WaitForWorkers, AddWorkerReturns, RemoveWorkerReturns,
     ReadWorkerCount, StopReturns
<1>11. CASE ExpiredTaskCount
  BY <1>1, <1>11 DEF ExpiredTaskCount
<1> QED BY <1>0, <1>1, <1>2, <1>3, <1>4, <1>5, <1>6, <1>7, <1>8, <1>9, <1>10, <1>11 DEF Next

\* However many blocked callers of add are woken by one free place, or for no
\* reason, the queue never exceeds pendingTaskCountMax_.
THEOREM LimitKept == Spec => []PendingBound
<1>1. Init => PendingBound
  BY PoolAssumption DEF Init, PendingBound
<1>2. TypeOK /\ TypeOK' /\ PendingBound /\ [Next]_vars => PendingBound'
  <2> SUFFICES ASSUME TypeOK, TypeOK', PendingBound, [Next]_vars
               PROVE  PendingBound'
    OBVIOUS
  <2>0. Len(tasks_) \in Nat /\ Len(tasks_') \in Nat /\ PendingTaskCountMax \in Nat
    BY PoolAssumption DEF TypeOK
  <2>1. CASE Next
    <3>1. CASE Len(tasks_') <= Len(tasks_)
      BY <2>0, <3>1 DEF PendingBound
    <3>2. ASSUME NEW pending \in Seq(Tasks), ~Full(pending), Len(tasks_') = Len(pending) + 1
          PROVE  PendingBound'
      <4>1. Len(pending) \in Nat
        OBVIOUS
      <4> QED BY <2>0, <3>2, <4>1 DEF Full, PendingBound
    <3> QED BY <2>1, <3>1, <3>2, QueueGrowth
  <2>2. CASE UNCHANGED vars
    BY <2>2 DEF vars, PendingBound
  <2> QED BY <2>1, <2>2
<1> QED BY <1>1, <1>2, TypeCorrect, PTL DEF Spec
=============================================================================
