---------------------- MODULE ThreadManagerTaskProofs ----------------------
(* Proofs about what ThreadManager does with tasks: each is in one place, the *)
(* callers that wait for room are woken for it, and join() drains the queue.  *)
EXTENDS ThreadManagerProofs

-----------------------------------------------------------------------------
(* Queues without repetitions *)

Members(s) == {s[i] : i \in DOMAIN s}
Distinct(s) == \A i, j \in DOMAIN s : s[i] = s[j] => i = j

LEMMA TailMembers ==
  ASSUME NEW s \in Seq(Tasks), Distinct(s), s # <<>>
  PROVE  /\ Distinct(Tail(s)) /\ Head(s) \in Members(s)
         /\ Members(Tail(s)) = Members(s) \ {Head(s)}
<1>1. /\ Tail(s) \in Seq(Tasks) /\ Len(Tail(s)) = Len(s) - 1 /\ Head(s) = s[1]
      /\ \A i \in 1 .. Len(Tail(s)) : Tail(s)[i] = s[i + 1]
  BY HeadTailProperties
<1>2. Len(s) \in Nat /\ Len(s) > 0 /\ DOMAIN s = 1 .. Len(s) /\ DOMAIN Tail(s) = 1 .. Len(s) - 1
  BY <1>1
<1>3. Distinct(Tail(s))
  BY <1>1, <1>2 DEF Distinct
<1>4. Head(s) \in Members(s)
  BY <1>1, <1>2 DEF Members
<1>5. ASSUME NEW x \in Members(Tail(s)) PROVE x \in Members(s) \ {Head(s)}
  <2>1. PICK i \in 1 .. Len(s) - 1 : x = s[i + 1]
    BY <1>1, <1>2 DEF Members
  <2>2. i + 1 \in DOMAIN s /\ 1 \in DOMAIN s /\ i + 1 # 1
    BY <1>2
  <2> QED BY <1>1, <2>1, <2>2 DEF Members, Distinct
<1>6. ASSUME NEW x \in Members(s), x # Head(s) PROVE x \in Members(Tail(s))
  <2>1. PICK i \in 1 .. Len(s) : x = s[i]
    BY <1>2 DEF Members
  <2>2. i # 1
    BY <1>1, <1>6, <2>1
  <2>3. i - 1 \in 1 .. Len(s) - 1 /\ (i - 1) + 1 = i
    BY <1>2, <2>2
  <2>4. Tail(s)[i - 1] = x
    BY <1>1, <2>1, <2>3
  <2> QED BY <1>2, <2>3, <2>4 DEF Members
<1> QED BY <1>3, <1>4, <1>5, <1>6

LEMMA AppendMembers ==
  ASSUME NEW s \in Seq(Tasks), Distinct(s), NEW t \in Tasks, t \notin Members(s)
  PROVE  Distinct(Append(s, t)) /\ Members(Append(s, t)) = Members(s) \cup {t}
<1> DEFINE a == Append(s, t)
<1>1. /\ a \in Seq(Tasks) /\ Len(a) = Len(s) + 1 /\ a[Len(s) + 1] = t
      /\ \A i \in 1 .. Len(s) : a[i] = s[i]
  BY AppendProperties
<1>2. Len(s) \in Nat /\ DOMAIN s = 1 .. Len(s) /\ DOMAIN a = 1 .. Len(s) + 1
  BY <1>1
<1> HIDE DEF a
<1>3. \A i \in DOMAIN s : s[i] # t
  BY DEF Members
<1>4. DOMAIN a = DOMAIN s \cup {Len(s) + 1}
  BY <1>2
<1>5. \A i \in DOMAIN s : a[i] = s[i]
  BY <1>1, <1>2
<1>6. Distinct(a)
  BY <1>1, <1>3, <1>4, <1>5 DEF Distinct
<1>7. Members(a) = Members(s) \cup {t}
  BY <1>1, <1>4, <1>5 DEF Members
<1> QED BY <1>6, <1>7 DEF a

\* removeExpiredTasks takes the expired tasks, and no other, out of the queue.
LEMMA UnexpiredMembers ==
  ASSUME tasks_ \in Seq(Tasks), Distinct(tasks_)
  PROVE  /\ Distinct(Unexpired) /\ Expired \subseteq Members(tasks_)
         /\ Members(Unexpired) = Members(tasks_) \ Expired
<1> DEFINE k == ExpiredPrefix
<1>1. k \in 0 .. Len(tasks_) /\ Len(tasks_) \in Nat /\ k \in Nat
      /\ DOMAIN tasks_ = 1 .. Len(tasks_)
  BY ExpiredPrefixMeaning, UnexpiredType
<1>2. Unexpired \in Seq(Tasks) /\ Len(Unexpired) = Len(tasks_) - k
      /\ DOMAIN Unexpired = 1 .. Len(tasks_) - k
  BY UnexpiredType
<1>3. \A i \in 1 .. Len(tasks_) - k : Unexpired[i] = tasks_[i + k]
  <2> SUFFICES ASSUME NEW i \in 1 .. Len(tasks_) - k PROVE Unexpired[i] = tasks_[i + k]
    OBVIOUS
  <2>1. k + 1 \in 1 .. Len(tasks_) /\ k + 1 <= Len(tasks_)
    BY <1>1
  <2>2. SubSeq(tasks_, k + 1, Len(tasks_))[i] = tasks_[(k + 1) + i - 1]
    BY <1>1, <2>1, SubSeqProperties
  <2>3. (k + 1) + i - 1 = i + k
    BY <1>1
  <2> QED BY <2>2, <2>3 DEF Unexpired
<1>4. Expired = {tasks_[i] : i \in 1 .. k}
  BY DEF Expired
<1> HIDE DEF k
<1>5. Distinct(Unexpired)
  <2> SUFFICES ASSUME NEW i \in 1 .. Len(tasks_) - k, NEW j \in 1 .. Len(tasks_) - k,
                      Unexpired[i] = Unexpired[j]
               PROVE  i = j
    BY <1>2 DEF Distinct
  <2>1. i + k \in DOMAIN tasks_ /\ j + k \in DOMAIN tasks_ /\ tasks_[i + k] = tasks_[j + k]
    BY <1>1, <1>3
  <2>2. i + k = j + k
    BY <2>1 DEF Distinct
  <2> QED BY <1>1, <2>2
<1>6. Expired \subseteq Members(tasks_)
  BY <1>1, <1>4 DEF Members
<1>7. ASSUME NEW x \in Members(Unexpired) PROVE x \in Members(tasks_) \ Expired
  <2>1. PICK i \in 1 .. Len(tasks_) - k : x = tasks_[i + k]
    BY <1>2, <1>3 DEF Members
  <2>2. i + k \in DOMAIN tasks_
    BY <1>1
  <2>3. ASSUME NEW j \in 1 .. k, x = tasks_[j] PROVE FALSE
    <3>1. j \in DOMAIN tasks_
      BY <1>1
    <3>2. j = i + k
      BY <2>1, <2>2, <2>3, <3>1 DEF Distinct
    <3> QED BY <1>1, <3>2
  <2> QED BY <1>4, <2>1, <2>2, <2>3 DEF Members
<1>8. ASSUME NEW x \in Members(tasks_), x \notin Expired PROVE x \in Members(Unexpired)
  <2>1. PICK i \in 1 .. Len(tasks_) : x = tasks_[i]
    BY <1>1 DEF Members
  <2>2. i \notin 1 .. k
    BY <1>4, <1>8, <2>1
  <2>3. i - k \in 1 .. Len(tasks_) - k /\ (i - k) + k = i
    BY <1>1, <2>2
  <2>4. Unexpired[i - k] = x
    BY <1>3, <2>1, <2>3
  <2> QED BY <1>2, <2>3, <2>4 DEF Members
<1> QED BY <1>5, <1>6, <1>7, <1>8

-----------------------------------------------------------------------------
(* Each task is in one place *)

\* EachTaskOnce with what it needs to be inductive: a running worker has a task.
Queue == Distinct(tasks_) /\ {t \in Tasks : tstate[t] = "queued"} = Members(tasks_)
Running ==
  /\ \A w \in Workers : IF wpc[w] = "running"
                        THEN current[w] \in Tasks /\ tstate[current[w]] = "running"
                        ELSE current[w] = Nobody
  /\ \A v, w \in Workers : current[v] = current[w] => v = w \/ current[v] = Nobody
  /\ \A t \in Tasks : tstate[t] = "running" => \E w \in Workers : current[w] = t
Once == Queue /\ Running

LEMMA OnceInit == Init => Once
<1> SUFFICES ASSUME Init PROVE Once
  OBVIOUS
<1>1. Queue
  BY DEF Init, Queue, Distinct, Members
<1>2. Running
  BY DEF Init, Running
<1> QED BY <1>1, <1>2 DEF Once

\* Workers keep their tasks when nothing about running tasks changes.
LEMMA RunningKept ==
  ASSUME Running, UNCHANGED current,
         \A w \in Workers : wpc'[w] = "running" <=> wpc[w] = "running",
         \A t \in Tasks : tstate'[t] = "running" <=> tstate[t] = "running"
  PROVE  Running'
<1> USE DEF Running
<1>1. ASSUME NEW w \in Workers
      PROVE  IF wpc'[w] = "running"
             THEN current'[w] \in Tasks /\ tstate'[current'[w]] = "running"
             ELSE current'[w] = Nobody
  OBVIOUS
<1>2. ASSUME NEW t \in Tasks, tstate'[t] = "running"
      PROVE  \E w \in Workers : current'[w] = t
  BY <1>2
<1> QED BY <1>1, <1>2

\* The queue stays as it is when no task starts or stops being queued.
LEMMA QueueKept ==
  ASSUME Queue, UNCHANGED tasks_,
         \A t \in Tasks : tstate'[t] = "queued" <=> tstate[t] = "queued"
  PROVE  Queue'
<1>1. {t \in Tasks : tstate'[t] = "queued"} = {t \in Tasks : tstate[t] = "queued"}
  OBVIOUS
<1> QED BY <1>1 DEF Queue, Distinct, Members

\* Waking workers neither starts nor stops a task.
LEMMA WakeKeepsRunning ==
  ASSUME TypeOK, NEW S \in SUBSET Parked, wpc' = Mark(wpc, S, "woken")
  PROVE  \A w \in Workers : wpc'[w] = "running" <=> wpc[w] = "running"
<1>1. \A w \in S : w \in Workers /\ wpc[w] = "parked"
  BY DEF Parked, In
<1>2. \A w \in Workers : wpc'[w] = IF w \in S THEN "woken" ELSE wpc[w]
  BY DEF Mark, TypeOK
<1> QED BY <1>1, <1>2

LEMMA PushWakes ==
  ASSUME TypeOK, NEW t, NEW pending, Push(t, pending)
  PROVE  /\ tasks_' = Append(pending, t)
         /\ \A w \in Workers : wpc'[w] = "running" <=> wpc[w] = "running"
<1>1. PICK S \in IF idleCount_ > 0 THEN OneOf(Parked) ELSE {{}} : wpc' = Mark(wpc, S, "woken")
  BY DEF Push
<1>2. S \subseteq Parked
  BY <1>1, OneOfMeaning
<1> QED BY <1>1, <1>2, WakeKeepsRunning DEF Push

\* What a worker does to tasks: take one, finish one, or drop those that expired.
LEMMA OnceWorkerStep ==
  ASSUME TypeOK, Once, NEW w \in Workers, WorkerStep(w) \/ WorkerWakesSpuriously(w)
  PROVE  Once'
<1>0. /\ wpc \in [Workers -> WorkerStates] /\ current \in [Workers -> Tasks \cup {Nobody}]
      /\ tstate \in [Tasks -> TaskStates] /\ tasks_ \in Seq(Tasks)
  BY DEF TypeOK
<1>1. CASE \/ WorkerEnters(w) \/ WorkerUnneeded(w) \/ WorkerGreets(w) \/ WorkerParks(w)
           \/ WorkerRetires(w) \/ WorkerDies(w) \/ WorkerWakesSpuriously(w)
  <2>1. /\ UNCHANGED <<tasks_, tstate, current>>
        /\ wpc[w] # "running"
        /\ \E p \in WorkerStates \ {"running"} : wpc' = [wpc EXCEPT ![w] = p]
    BY <1>1 DEF WorkerEnters, WorkerUnneeded, WorkerGreets, WorkerParks, WorkerRetires,
       WorkerDies, WorkerWakesSpuriously, AtQueue, task, WorkerStates
  <2>2. \A v \in Workers : wpc'[v] = "running" <=> wpc[v] = "running"
    BY <1>0, <2>1
  <2> QED BY <2>1, <2>2, RunningKept, QueueKept DEF Once
<1>2. CASE WorkerFindsExpired(w)
  <2>1. /\ wpc[w] # "running" /\ wpc' = [wpc EXCEPT ![w] = "loop"]
        /\ Unexpired = <<>> /\ tasks_' = <<>> /\ UNCHANGED current
        /\ tstate' = Mark(tstate, Expired, "expired")
    BY <1>2 DEF WorkerFindsExpired, AtQueue
  <2>2. Members(Unexpired) = {} /\ Members(tasks_') = {} /\ Distinct(tasks_')
    BY <2>1 DEF Members, Distinct
  <2>3. Expired = Members(tasks_) /\ Expired = {t \in Tasks : tstate[t] = "queued"}
    BY <1>0, <2>2, UnexpiredMembers DEF Once, Queue
  <2>4. \A t \in Tasks : tstate'[t] = IF t \in Expired THEN "expired" ELSE tstate[t]
    BY <1>0, <2>1 DEF Mark
  <2>5. Queue'
    BY <2>2, <2>3, <2>4 DEF Queue
  <2>6. \A v \in Workers : wpc'[v] = "running" <=> wpc[v] = "running"
    BY <1>0, <2>1
  <2>7. \A t \in Tasks : tstate'[t] = "running" <=> tstate[t] = "running"
    BY <2>3, <2>4
  <2> QED BY <2>1, <2>5, <2>6, <2>7, RunningKept DEF Once
<1>3. CASE WorkerTakes(w)
  <2> DEFINE h == Head(Unexpired)
  <2>1. /\ wpc[w] # "running" /\ wpc' = [wpc EXCEPT ![w] = "running"]
        /\ Unexpired # <<>> /\ tasks_' = Tail(Unexpired)
        /\ current' = [current EXCEPT ![w] = h]
    BY <1>3 DEF WorkerTakes, AtQueue
  <2>2. PICK S \in AddersNotified(Len(Unexpired) - 1) :
          tstate' = [Mark(Mark(tstate, Expired, "expired"), S, "woken") EXCEPT ![h] = "running"]
    BY <1>3 DEF WorkerTakes
  <2>3. S \subseteq Blocked
    BY <2>2, OneOfMeaning DEF AddersNotified
  <2>4. /\ Distinct(Unexpired) /\ Unexpired \in Seq(Tasks)
        /\ Expired \subseteq Members(tasks_) /\ Members(Unexpired) = Members(tasks_) \ Expired
    BY <1>0, UnexpiredType, UnexpiredMembers DEF Once, Queue
  <2>5. /\ Distinct(tasks_') /\ h \in Members(Unexpired)
        /\ Members(tasks_') = Members(Unexpired) \ {h}
    BY <2>1, <2>4, TailMembers
  <2>6. /\ \A t \in Members(tasks_) : t \in Tasks /\ tstate[t] = "queued"
        /\ \A t \in Tasks : tstate[t] = "queued" => t \in Members(tasks_)
    BY DEF Once, Queue
  <2>7. h \in Tasks /\ h \notin Expired /\ tstate[h] = "queued"
    BY <2>4, <2>5, <2>6
  <2> HIDE DEF h
  <2>8. \A t \in Tasks : tstate'[t] = IF t = h THEN "running" ELSE IF t \in S THEN "woken"
                                       ELSE IF t \in Expired THEN "expired" ELSE tstate[t]
    BY <1>0, <2>2, <2>7 DEF Mark
  <2>9. \A t \in S : tstate[t] = "blocked"
    BY <2>3 DEF Blocked
  <2>10. Queue'
    <3>1. ASSUME NEW t \in Tasks PROVE tstate'[t] = "queued" <=> t \in Members(tasks_')
      BY <2>4, <2>5, <2>6, <2>8, <2>9
    <3>2. Members(tasks_') \subseteq Tasks
      BY <2>4, <2>5, <2>6
    <3> QED BY <2>5, <3>1, <3>2 DEF Queue
  <2>11. \A t \in Tasks : tstate'[t] = "running" <=> t = h \/ tstate[t] = "running"
    BY <2>4, <2>6, <2>8, <2>9
  <2>12. current[w] = Nobody /\ h # Nobody
    BY <2>1, <2>7, PoolAssumption DEF Once, Running
  <2>13. \A v \in Workers : current[v] # h
    BY <2>7, <2>12 DEF Once, Running
  <2>14. Running'
    <3>1. ASSUME NEW v \in Workers
          PROVE  IF wpc'[v] = "running"
                 THEN current'[v] \in Tasks /\ tstate'[current'[v]] = "running"
                 ELSE current'[v] = Nobody
      <4>1. CASE v = w
        BY <1>0, <2>1, <2>7, <2>11, <4>1
      <4>2. CASE v # w
        BY <1>0, <2>1, <2>11, <4>2 DEF Once, Running
      <4> QED BY <4>1, <4>2
    <3>2. ASSUME NEW u \in Workers, NEW v \in Workers, current'[u] = current'[v]
          PROVE  u = v \/ current'[u] = Nobody
      <4>1. \A x \in Workers : current'[x] = IF x = w THEN h ELSE current[x]
        BY <1>0, <2>1
      <4> QED BY <2>13, <3>2, <4>1 DEF Once, Running
    <3>3. ASSUME NEW t \in Tasks, tstate'[t] = "running"
          PROVE  \E v \in Workers : current'[v] = t
      <4>1. CASE t = h
        BY <1>0, <2>1, <4>1
      <4>2. CASE t # h
        <5>1. PICK v \in Workers : current[v] = t
          BY <2>11, <3>3, <4>2 DEF Once, Running
        <5>2. v # w
          BY <2>12, <5>1, PoolAssumption
        <5> QED BY <1>0, <2>1, <5>1, <5>2
      <4> QED BY <4>1, <4>2
    <3> QED BY <3>1, <3>2, <3>3 DEF Running
  <2> QED BY <2>10, <2>14 DEF Once
<1>4. CASE WorkerFinishes(w)
  <2> DEFINE t0 == current[w]
  <2>1. /\ wpc[w] = "running" /\ wpc' = [wpc EXCEPT ![w] = "loop"] /\ UNCHANGED tasks_
        /\ current' = [current EXCEPT ![w] = Nobody]
        /\ tstate' = [tstate EXCEPT ![t0] = "done"]
    BY <1>4 DEF WorkerFinishes
  <2>2. t0 \in Tasks /\ tstate[t0] = "running" /\ t0 # Nobody
    BY <2>1, PoolAssumption DEF Once, Running
  <2>3. \A t \in Tasks : tstate'[t] = IF t = t0 THEN "done" ELSE tstate[t]
    BY <1>0, <2>1, <2>2
  <2>4. Queue'
    BY <2>1, <2>2, <2>3, QueueKept DEF Once
  <2>5. \A v \in Workers : current'[v] = IF v = w THEN Nobody ELSE current[v]
    BY <1>0, <2>1
  <2>6. \A v \in Workers : v # w => current[v] # t0
    BY <2>2 DEF Once, Running
  <2> HIDE DEF t0
  <2>7. Running'
    <3>1. ASSUME NEW v \in Workers
          PROVE  IF wpc'[v] = "running"
                 THEN current'[v] \in Tasks /\ tstate'[current'[v]] = "running"
                 ELSE current'[v] = Nobody
      <4>1. CASE v = w
        BY <1>0, <2>1, <2>5, <4>1
      <4>2. CASE v # w
        BY <1>0, <2>1, <2>3, <2>5, <2>6, <4>2 DEF Once, Running
      <4> QED BY <4>1, <4>2
    <3>2. ASSUME NEW u \in Workers, NEW v \in Workers, current'[u] = current'[v]
          PROVE  u = v \/ current'[u] = Nobody
      BY <2>5, <3>2 DEF Once, Running
    <3>3. ASSUME NEW t \in Tasks, tstate'[t] = "running"
          PROVE  \E v \in Workers : current'[v] = t
      <4>1. t # t0 /\ tstate[t] = "running"
        BY <2>3, <3>3
      <4>2. PICK v \in Workers : current[v] = t
        BY <4>1 DEF Once, Running
      <4>3. v # w
        BY <4>1, <4>2 DEF t0
      <4> QED BY <2>5, <4>2, <4>3
    <3> QED BY <3>1, <3>2, <3>3 DEF Running
  <2> QED BY <2>4, <2>7 DEF Once
<1> QED BY <1>1, <1>2, <1>3, <1>4 DEF WorkerStep

\* What add does to tasks: it drops those that expired and queues its own once.
LEMMA OnceTaskStep ==
  ASSUME TypeOK, Once, NEW t \in Tasks,
         Add(t) \/ AddStep(t) \/ AddGivesUp(t) \/ AddWakesSpuriously(t) \/ Expire(t)
  PROVE  Once'
<1>0. /\ tstate \in [Tasks -> TaskStates] /\ tasks_ \in Seq(Tasks)
      /\ Unexpired \in Seq(Tasks) /\ Distinct(tasks_)
      /\ \A u \in Members(tasks_) : u \in Tasks /\ tstate[u] = "queued"
      /\ \A u \in Tasks : tstate[u] = "queued" => u \in Members(tasks_)
  BY UnexpiredType DEF TypeOK, Once, Queue
<1>1. /\ Distinct(Unexpired) /\ Expired \subseteq Members(tasks_)
      /\ Members(Unexpired) = Members(tasks_) \ Expired
  BY <1>0, UnexpiredMembers
<1>2. ASSUME UNCHANGED <<tasks_, wpc, current>>, tstate[t] \notin {"queued", "running"},
             NEW p \in TaskStates \ {"queued", "running"}, tstate' = [tstate EXCEPT ![t] = p]
      PROVE  Once'
  <2>1. \A u \in Tasks : /\ tstate'[u] = "queued" <=> tstate[u] = "queued"
                         /\ tstate'[u] = "running" <=> tstate[u] = "running"
    BY <1>0, <1>2
  <2> QED BY <1>2, <2>1, RunningKept, QueueKept DEF Once
<1>3. ASSUME NEW w, AddNotStarted(t, w)
      PROVE  Once'
  BY <1>2, <1>3 DEF AddNotStarted, Calls, worker, TaskStates
<1>4. ASSUME NEW w, NEW timeout, AddTimesOut(t, w, timeout)
      PROVE  Once'
  BY <1>2, <1>4 DEF AddTimesOut, Calls, worker, TaskStates
<1>5. ASSUME NEW w, NEW timeout, AddFull(t, w, timeout)
      PROVE  Once'
  <2>1. /\ tstate[t] = "unborn" /\ tasks_' = Unexpired /\ UNCHANGED <<wpc, current>>
        /\ \E p \in {"blocked", "lost"} :
             tstate' = [Mark(tstate, Expired, "expired") EXCEPT ![t] = p]
    BY <1>5 DEF AddFull, Calls, worker
  <2>2. \A u \in Tasks : tstate'[u] \in IF u = t THEN {"blocked", "lost"}
                                       ELSE IF u \in Expired THEN {"expired"} ELSE {tstate[u]}
    BY <1>0, <2>1 DEF Mark
  <2>3. \A u \in Tasks : tstate'[u] = "running" <=> tstate[u] = "running"
    BY <1>0, <1>1, <2>1, <2>2
  <2>4. Queue'
    <3>1. ASSUME NEW u \in Tasks PROVE tstate'[u] = "queued" <=> u \in Members(tasks_')
      BY <1>0, <1>1, <2>1, <2>2
    <3>2. Members(tasks_') \subseteq Tasks /\ Distinct(tasks_')
      BY <1>0, <1>1, <2>1
    <3> QED BY <3>1, <3>2 DEF Queue
  <2> QED BY <2>1, <2>3, <2>4, RunningKept DEF Once
<1>6. ASSUME NEW w, AddQueues(t, w)
      PROVE  Once'
  <2>1. /\ tstate[t] = "unborn" /\ UNCHANGED current /\ Push(t, Unexpired)
        /\ tstate' = [Mark(tstate, Expired, "expired") EXCEPT ![t] = "queued"]
    BY <1>6 DEF AddQueues, Calls
  <2>2. \A u \in Tasks : tstate'[u] = IF u = t THEN "queued"
                                     ELSE IF u \in Expired THEN "expired" ELSE tstate[u]
    BY <1>0, <2>1 DEF Mark
  <2>3. /\ tasks_' = Append(Unexpired, t)
        /\ \A v \in Workers : wpc'[v] = "running" <=> wpc[v] = "running"
    BY <2>1, PushWakes
  <2>4. \A u \in Tasks : tstate'[u] = "running" <=> tstate[u] = "running"
    BY <1>0, <1>1, <2>1, <2>2
  <2>5. Distinct(tasks_') /\ Members(tasks_') = Members(Unexpired) \cup {t}
    BY <1>0, <1>1, <2>1, <2>3, AppendMembers
  <2>6. Queue'
    <3>1. ASSUME NEW u \in Tasks PROVE tstate'[u] = "queued" <=> u \in Members(tasks_')
      BY <1>0, <1>1, <2>2, <2>5
    <3>2. Members(tasks_') \subseteq Tasks
      BY <1>0, <1>1, <2>5
    <3> QED BY <2>5, <3>1, <3>2 DEF Queue
  <2> QED BY <2>1, <2>3, <2>4, <2>6, RunningKept DEF Once
<1>7. CASE AddWaitsAgain(t)
  BY <1>2, <1>7 DEF AddWaitsAgain, worker, TaskStates
<1>8. CASE AddResumes(t)
  <2>1. /\ tstate[t] = "woken" /\ UNCHANGED current /\ Push(t, tasks_)
        /\ tstate' = [tstate EXCEPT ![t] = "queued"]
    BY <1>8 DEF AddResumes
  <2>2. /\ tasks_' = Append(tasks_, t)
        /\ \A v \in Workers : wpc'[v] = "running" <=> wpc[v] = "running"
    BY <2>1, PushWakes
  <2>3. \A u \in Tasks : tstate'[u] = IF u = t THEN "queued" ELSE tstate[u]
    BY <1>0, <2>1
  <2>4. Distinct(tasks_') /\ Members(tasks_') = Members(tasks_) \cup {t}
    BY <1>0, <2>1, <2>2, AppendMembers
  <2>5. \A u \in Tasks : tstate'[u] = "running" <=> tstate[u] = "running"
    BY <2>1, <2>3
  <2>6. Queue'
    <3>1. ASSUME NEW u \in Tasks PROVE tstate'[u] = "queued" <=> u \in Members(tasks_')
      BY <1>0, <2>3, <2>4
    <3>2. Members(tasks_') \subseteq Tasks
      BY <1>0, <2>4
    <3> QED BY <2>4, <3>1, <3>2 DEF Queue
  <2> QED BY <2>1, <2>2, <2>5, <2>6, RunningKept DEF Once
<1>9. CASE AddGivesUp(t)
  BY <1>2, <1>9 DEF AddGivesUp, worker, TaskStates
<1>10. CASE AddWakesSpuriously(t)
  BY <1>2, <1>10 DEF AddWakesSpuriously, worker, TaskStates
<1>11. CASE Expire(t)
  BY <1>11, RunningKept, QueueKept DEF Expire, worker, Once
<1> QED BY <1>3, <1>4, <1>5, <1>6, <1>7, <1>8, <1>9, <1>10, <1>11 DEF Add, AddStep

LEMMA OnceOtherStep ==
  ASSUME TypeOK, Once, removeNextPending \/ ExpiredTaskCount
  PROVE  Once'
<1>1. CASE removeNextPending
  <2> DEFINE h == Head(tasks_)
  <2>1. /\ tasks_ # <<>> /\ tasks_' = Tail(tasks_) /\ UNCHANGED <<wpc, current>>
        /\ tstate' = [tstate EXCEPT ![h] = "stolen"]
    BY <1>1 DEF removeNextPending, worker
  <2>2. /\ Distinct(tasks_') /\ h \in Members(tasks_) /\ Members(tasks_') = Members(tasks_) \ {h}
    BY <2>1, TailMembers DEF TypeOK, Once, Queue
  <2>3. /\ \A u \in Members(tasks_) : u \in Tasks /\ tstate[u] = "queued"
        /\ \A u \in Tasks : tstate[u] = "queued" => u \in Members(tasks_)
    BY DEF Once, Queue
  <2> HIDE DEF h
  <2>4. \A u \in Tasks : tstate'[u] = IF u = h THEN "stolen" ELSE tstate[u]
    BY <2>1, <2>2, <2>3 DEF TypeOK
  <2>5. \A u \in Tasks : tstate'[u] = "running" <=> tstate[u] = "running"
    BY <2>2, <2>3, <2>4
  <2>6. Queue'
    <3>1. ASSUME NEW u \in Tasks PROVE tstate'[u] = "queued" <=> u \in Members(tasks_')
      BY <2>2, <2>3, <2>4
    <3>2. Members(tasks_') \subseteq Tasks
      BY <2>2, <2>3
    <3> QED BY <2>2, <3>1, <3>2 DEF Queue
  <2> QED BY <2>1, <2>5, <2>6, RunningKept DEF Once
<1>2. CASE ExpiredTaskCount
  BY <1>2, RunningKept, QueueKept DEF ExpiredTaskCount, worker, task, Once
<1> QED BY <1>1, <1>2

\* What every step of a controller leaves alone.
LEMMA ControllerLeavesTasks ==
  ASSUME TypeOK, NEW c \in Controllers,
         Request(c) \/ ControllerStep(c) \/ ControllerWakesSpuriously(c)
  PROVE  /\ UNCHANGED <<tasks_, tstate, current, overdue, late>>
         /\ \A w \in Workers : wpc'[w] = "running" <=> wpc[w] = "running"
<1>1. UNCHANGED <<tasks_, tstate, current, overdue, late>>
  BY DEF Request, ControllerStep, ControllerWakesSpuriously, start, addWorker,
     removeWorker, stopImpl, StartThread, RecordId, StartFails, AllStarted, Shrink,
     ShrinkThrows, WaitForWorkers, AddWorkerReturns, RemoveWorkerReturns,
     ReadWorkerCount, StopReturns, worker, task
<1>2. \/ UNCHANGED wpc
      \/ \E S \in SUBSET Parked : wpc' = Mark(wpc, S, "woken")
      \/ \E w \in Workers : wpc[w] = "unborn" /\ wpc' = [wpc EXCEPT ![w] = "new"]
  <2>1. CASE start(c)
    BY <2>1 DEF start
  <2>2. CASE Shrink(c)
    <3>1. \A S \in Notified(cval[c]) : S \in SUBSET Parked
      BY DEF Notified
    <3> QED BY <2>2, <3>1 DEF Shrink
  <2>3. ASSUME NEW w \in Workers, StartThread(c, w)
        PROVE  wpc[w] = "unborn" /\ wpc' = [wpc EXCEPT ![w] = "new"]
    BY <2>3 DEF StartThread
  <2> QED BY <2>1, <2>2, <2>3 DEF Request, ControllerStep, ControllerWakesSpuriously,
     addWorker, removeWorker, stopImpl, RecordId, StartFails, AllStarted, ShrinkThrows,
     WaitForWorkers, AddWorkerReturns, RemoveWorkerReturns, ReadWorkerCount, StopReturns, worker
<1>3. CASE \E S \in SUBSET Parked : wpc' = Mark(wpc, S, "woken")
  BY <1>1, <1>3, WakeKeepsRunning
<1>4. CASE \E w \in Workers : wpc[w] = "unborn" /\ wpc' = [wpc EXCEPT ![w] = "new"]
  BY <1>1, <1>4 DEF TypeOK
<1> QED BY <1>1, <1>2, <1>3, <1>4

LEMMA OnceStep == TypeOK /\ Once /\ [Next]_vars => Once'
<1> SUFFICES ASSUME TypeOK, Once, [Next]_vars PROVE Once'
  OBVIOUS
<1>1. ASSUME NEW c \in Controllers,
             Request(c) \/ ControllerStep(c) \/ ControllerWakesSpuriously(c)
      PROVE  Once'
  BY <1>1, ControllerLeavesTasks, RunningKept, QueueKept DEF Once
<1>2. CASE UNCHANGED vars
  BY <1>2, RunningKept, QueueKept DEF vars, Once
<1> QED BY <1>1, <1>2, OnceWorkerStep, OnceTaskStep, OnceOtherStep DEF Next

\* Each accepted task is in one place in every behaviour, with the strengthening
\* that makes it inductive.
THEOREM OnceInvariant == Spec => []Once
BY OnceInit, OnceStep, TypeCorrect, PTL DEF Spec

\* add, removeExpiredTasks, removeNextPending and the workers never lose a task
\* that was accepted, never queue it twice and never run it twice at a time,
\* whatever the size of the pool and the number of tasks.
THEOREM TasksAccounted == Spec => []EachTaskOnce
<1>1. Once => EachTaskOnce
  BY DEF Once, Queue, Running, EachTaskOnce, Distinct, Members
<1> QED BY <1>1, OnceInvariant, PTL

-----------------------------------------------------------------------------
(* The callers of add that wait for room *)

\* NoStrandedAdder with the limit it relies on, and with what makes the counting
\* possible: the woken callers are finitely many, however many tasks there are.
AddersServed ==
  /\ overdue \subseteq Expiring
  /\ PendingBound
  /\ IsFiniteSet(Woken)
  /\ NoStrandedAdder

\* The conditions under which places in the queue are freed by workers only:
\* removeExpiredTasks frees several at once, removeNextPending one, and neither
\* notifies maxMonitor_.
OnlyWorkersDequeue == Expiring = {} /\ Stealing = FALSE

\* No task expires: removeExpiredTasks finds nothing.
LEMMA NothingExpires ==
  ASSUME tasks_ \in Seq(Tasks), overdue = {}
  PROVE  Unexpired = tasks_ /\ Expired = {}
<1>1. /\ ExpiredPrefix \in 0 .. Len(tasks_) /\ Len(tasks_) \in Nat
      /\ \A i \in 1 .. ExpiredPrefix : tasks_[i] \in overdue
  BY ExpiredPrefixMeaning
<1>2. ExpiredPrefix = 0
  <2>1. ~(1 \in 1 .. ExpiredPrefix)
    BY <1>1
  <2> QED BY <1>1, <2>1
<1>3. Expired = {}
  BY <1>2 DEF Expired
<1>4. Unexpired = tasks_
  <2>1. /\ Unexpired \in Seq(Tasks) /\ Len(Unexpired) = Len(tasks_)
    BY <1>1, <1>2, UnexpiredType
  <2>2. ASSUME NEW i \in 1 .. Len(tasks_) PROVE Unexpired[i] = tasks_[i]
    <3>1. 1 \in 1 .. Len(tasks_) + 1 /\ 1 + i - 1 = i /\ i \in 1 .. Len(tasks_) - 1 + 1
      BY <1>1
    <3>2. SubSeq(tasks_, 1, Len(tasks_))[i] = tasks_[1 + i - 1]
      BY <1>1, <3>1, SubSeqProperties
    <3> QED BY <1>2, <3>1, <3>2 DEF Unexpired
  <2> QED BY <2>1, <2>2, SeqEqual
<1> QED BY <1>3, <1>4

\* The woken callers after one of them has gone on, or one blocked has joined.
LEMMA WokenCount ==
  ASSUME IsFiniteSet(Woken), NEW t
  PROVE  /\ Cardinality(Woken) \in Nat
         /\ t \in Woken /\ Woken' = Woken \ {t}
              => IsFiniteSet(Woken') /\ Cardinality(Woken') = Cardinality(Woken) - 1
         /\ t \notin Woken /\ Woken' = Woken \cup {t}
              => IsFiniteSet(Woken') /\ Cardinality(Woken') = Cardinality(Woken) + 1
BY FS_CardinalityType, FS_AddElement, FS_RemoveElement

\* A step after which no caller waits that did not wait before, and after which
\* the queue and the woken callers together are no fewer.
LEMMA AddersKept ==
  ASSUME TypeOK, AddersServed, tasks_' \in Seq(Tasks), Len(tasks_') >= Len(tasks_),
         Blocked' \subseteq Blocked, Woken' = Woken
  PROVE  IsFiniteSet(Woken') /\ NoStrandedAdder'
<1>1. /\ Len(tasks_) \in Nat /\ Len(tasks_') \in Nat /\ PendingTaskCountMax \in Nat
      /\ Cardinality(Woken) \in Nat
  BY PoolAssumption, FS_CardinalityType DEF TypeOK, AddersServed
<1> QED BY <1>1 DEF AddersServed, NoStrandedAdder

LEMMA AddersWorkerStep ==
  ASSUME OnlyWorkersDequeue, TypeOK, Once, AddersServed,
         NEW w \in Workers, WorkerStep(w) \/ WorkerWakesSpuriously(w)
  PROVE  overdue' \subseteq Expiring /\ IsFiniteSet(Woken') /\ NoStrandedAdder'
<1>0. /\ tasks_ \in Seq(Tasks) /\ Len(tasks_) \in Nat /\ tstate \in [Tasks -> TaskStates]
      /\ PendingTaskCountMax \in Nat /\ overdue = {} /\ IsFiniteSet(Woken)
      /\ Cardinality(Woken) \in Nat
  BY PoolAssumption, FS_CardinalityType DEF TypeOK, AddersServed, OnlyWorkersDequeue
<1>1. Unexpired = tasks_ /\ Expired = {}
  BY <1>0, NothingExpires
<1>2. overdue' \subseteq Expiring
  BY DEF AddersServed, WorkerStep, WorkerWakesSpuriously, WorkerEnters, WorkerUnneeded,
     WorkerGreets, WorkerParks, WorkerFindsExpired, WorkerTakes, WorkerRetires,
     WorkerFinishes, WorkerDies, task
<1>3. CASE \/ WorkerEnters(w) \/ WorkerUnneeded(w) \/ WorkerGreets(w) \/ WorkerParks(w)
           \/ WorkerRetires(w) \/ WorkerDies(w) \/ WorkerWakesSpuriously(w)
  <2>1. UNCHANGED <<tasks_, tstate>>
    BY <1>3 DEF WorkerEnters, WorkerUnneeded, WorkerGreets, WorkerParks, WorkerRetires,
       WorkerDies, WorkerWakesSpuriously, task
  <2>2. Blocked' = Blocked /\ Woken' = Woken
    BY <2>1 DEF Blocked, Woken
  <2> QED BY <1>0, <1>2, <2>1, <2>2, AddersKept
<1>4. CASE WorkerFindsExpired(w)
  BY <1>1, <1>4 DEF WorkerFindsExpired
<1>5. CASE WorkerTakes(w)
  <2> DEFINE h == Head(tasks_)
  <2>1. /\ tasks_ # <<>> /\ tasks_' = Tail(tasks_)
        /\ \E S \in AddersNotified(Len(tasks_) - 1) :
             tstate' = [Mark(Mark(tstate, Expired, "expired"), S, "woken") EXCEPT ![h] = "running"]
    BY <1>1, <1>5 DEF WorkerTakes
  <2>2. PICK S \in AddersNotified(Len(tasks_) - 1) :
          tstate' = [Mark(Mark(tstate, Expired, "expired"), S, "woken") EXCEPT ![h] = "running"]
    BY <2>1
  <2>3. h \in Tasks /\ tstate[h] = "queued"
    BY <1>0, <2>1, TailMembers DEF Once, Queue
  <2>4. Len(tasks_') = Len(tasks_) - 1 /\ Len(tasks_) > 0
    BY <1>0, <2>1, HeadTailProperties
  <2> HIDE DEF h
  <2>5. S \subseteq Blocked
    BY OneOfMeaning DEF AddersNotified
  <2>6. \A u \in Tasks : tstate'[u] = IF u = h THEN "running"
                                     ELSE IF u \in S THEN "woken" ELSE tstate[u]
    BY <1>0, <1>1, <2>2, <2>3 DEF Mark
  <2>7. Woken' = Woken \cup S /\ Blocked' \subseteq Blocked
    BY <2>3, <2>5, <2>6 DEF Blocked, Woken
  <2>8. CASE PendingTaskCountMax = 0 \/ Blocked = {}
    <3>1. IsFiniteSet(Woken')
      <4>1. S = {} \/ \E x \in Blocked : S = {x}
        BY OneOfMeaning DEF AddersNotified
      <4>2. S = {} \/ \E x : x \notin Woken /\ S = {x}
        BY <4>1 DEF Blocked, Woken
      <4> QED BY <1>0, <2>7, <4>2, WokenCount
    <3>2. Cardinality(Woken') \in Nat
      BY <3>1, FS_CardinalityType
    <3>3. NoStrandedAdder'
      BY <1>0, <2>4, <2>7, <2>8, <3>2 DEF NoStrandedAdder
    <3> QED BY <1>2, <3>1, <3>3
  <2>9. CASE PendingTaskCountMax # 0 /\ Blocked # {}
    <3>1. Len(tasks_) - 1 <= PendingTaskCountMax - 1
      BY <1>0, <2>9 DEF AddersServed, PendingBound
    <3>2. PICK x \in Blocked : S = {x}
      BY <2>9, <3>1, OneOfMeaning DEF AddersNotified
    <3>3. x \notin Woken
      BY DEF Blocked, Woken
    <3>4. IsFiniteSet(Woken') /\ Cardinality(Woken') = Cardinality(Woken) + 1
      BY <1>0, <2>7, <3>2, <3>3, WokenCount
    <3>5. Len(tasks_) + Cardinality(Woken) >= PendingTaskCountMax
      BY <2>9 DEF AddersServed, NoStrandedAdder
    <3>6. Len(tasks_') + Cardinality(Woken') >= PendingTaskCountMax
      BY <1>0, <2>4, <3>4, <3>5
    <3> QED BY <1>2, <3>4, <3>6 DEF NoStrandedAdder
  <2> QED BY <2>8, <2>9
<1>6. CASE WorkerFinishes(w)
  <2>1. /\ UNCHANGED tasks_ /\ wpc[w] = "running"
        /\ tstate' = [tstate EXCEPT ![current[w]] = "done"]
    BY <1>6 DEF WorkerFinishes
  <2>2. current[w] \in Tasks /\ tstate[current[w]] = "running"
    BY <2>1 DEF Once, Running
  <2>3. Blocked' = Blocked /\ Woken' = Woken
    BY <1>0, <2>1, <2>2 DEF Blocked, Woken
  <2> QED BY <1>0, <1>2, <2>1, <2>3, AddersKept
<1> QED BY <1>3, <1>4, <1>5, <1>6 DEF WorkerStep

LEMMA AddersTaskStep ==
  ASSUME OnlyWorkersDequeue, TypeOK, AddersServed, NEW t \in Tasks,
         Add(t) \/ AddStep(t) \/ AddGivesUp(t) \/ AddWakesSpuriously(t) \/ Expire(t)
  PROVE  overdue' \subseteq Expiring /\ IsFiniteSet(Woken') /\ NoStrandedAdder'
<1>0. /\ tasks_ \in Seq(Tasks) /\ Len(tasks_) \in Nat /\ tstate \in [Tasks -> TaskStates]
      /\ PendingTaskCountMax \in Nat /\ overdue = {} /\ IsFiniteSet(Woken)
      /\ Cardinality(Woken) \in Nat
  BY PoolAssumption, FS_CardinalityType DEF TypeOK, AddersServed, OnlyWorkersDequeue
<1>1. Unexpired = tasks_ /\ Expired = {}
  BY <1>0, NothingExpires
<1>2. Mark(tstate, Expired, "expired") = tstate
  BY <1>0, <1>1 DEF Mark
<1>3. ASSUME UNCHANGED <<tasks_, overdue>>, tstate[t] # "woken",
             tstate' = [tstate EXCEPT ![t] = "lost"]
      PROVE  overdue' \subseteq Expiring /\ IsFiniteSet(Woken') /\ NoStrandedAdder'
  <2>1. Blocked' \subseteq Blocked /\ Woken' = Woken
    BY <1>0, <1>3 DEF Blocked, Woken
  <2> QED BY <1>0, <1>3, <2>1, AddersKept
<1>4. ASSUME NEW w, AddNotStarted(t, w) \/ \E timeout : AddTimesOut(t, w, timeout)
      PROVE  overdue' \subseteq Expiring /\ IsFiniteSet(Woken') /\ NoStrandedAdder'
  BY <1>3, <1>4 DEF AddNotStarted, AddTimesOut, Calls
<1>5. CASE AddGivesUp(t)
  BY <1>3, <1>5 DEF AddGivesUp
<1>6. ASSUME NEW w, NEW timeout, AddFull(t, w, timeout)
      PROVE  overdue' \subseteq Expiring /\ IsFiniteSet(Woken') /\ NoStrandedAdder'
  <2>1. /\ tstate[t] = "unborn" /\ Full(tasks_) /\ UNCHANGED <<tasks_, overdue>>
        /\ \E p \in {"blocked", "lost"} : tstate' = [tstate EXCEPT ![t] = p]
    BY <1>1, <1>2, <1>6 DEF AddFull, Calls
  <2>2. Woken' = Woken
    BY <1>0, <2>1 DEF Woken
  <2> QED BY <1>0, <2>1, <2>2 DEF Full, NoStrandedAdder
<1>7. ASSUME NEW w, AddQueues(t, w)
      PROVE  overdue' \subseteq Expiring /\ IsFiniteSet(Woken') /\ NoStrandedAdder'
  <2>1. /\ tstate[t] = "unborn" /\ UNCHANGED overdue /\ tasks_' = Append(tasks_, t)
        /\ tstate' = [tstate EXCEPT ![t] = "queued"]
    BY <1>1, <1>2, <1>7 DEF AddQueues, Calls, Push
  <2>2. tasks_' \in Seq(Tasks) /\ Len(tasks_') >= Len(tasks_)
    BY <1>0, <2>1, AppendProperties
  <2>3. Blocked' = Blocked /\ Woken' = Woken
    BY <1>0, <2>1 DEF Blocked, Woken
  <2> QED BY <1>0, <2>1, <2>2, <2>3, AddersKept
<1>8. CASE AddWaitsAgain(t)
  <2>1. /\ t \in Woken /\ Full(tasks_) /\ UNCHANGED <<tasks_, overdue>>
        /\ tstate' = [tstate EXCEPT ![t] = "blocked"]
    BY <1>8 DEF AddWaitsAgain, Woken
  <2>2. Woken' = Woken \ {t}
    BY <1>0, <2>1 DEF Woken
  <2>3. IsFiniteSet(Woken') /\ Cardinality(Woken') \in Nat
    BY <1>0, <2>1, <2>2, WokenCount, FS_CardinalityType
  <2> QED BY <1>0, <2>1, <2>3 DEF Full, NoStrandedAdder
<1>9. CASE AddResumes(t)
  <2>1. /\ t \in Woken /\ UNCHANGED overdue /\ tasks_' = Append(tasks_, t)
        /\ tstate' = [tstate EXCEPT ![t] = "queued"]
    BY <1>9 DEF AddResumes, Push, Woken
  <2>2. Len(tasks_') = Len(tasks_) + 1
    BY <1>0, <2>1, AppendProperties
  <2>3. Woken' = Woken \ {t} /\ Blocked' = Blocked
    BY <1>0, <2>1 DEF Woken, Blocked
  <2>4. IsFiniteSet(Woken') /\ Cardinality(Woken') = Cardinality(Woken) - 1
    BY <1>0, <2>1, <2>3, WokenCount
  <2>5. NoStrandedAdder'
    <3>1. SUFFICES ASSUME Blocked # {}
                   PROVE  Len(tasks_') + Cardinality(Woken') >= PendingTaskCountMax
      BY <2>3 DEF NoStrandedAdder
    <3>2. Len(tasks_) + Cardinality(Woken) >= PendingTaskCountMax
      BY <3>1 DEF AddersServed, NoStrandedAdder
    <3> QED BY <1>0, <2>2, <2>4, <3>2
  <2> QED BY <1>0, <2>1, <2>4, <2>5
<1>10. CASE AddWakesSpuriously(t)
  <2>1. /\ t \in Blocked /\ t \notin Woken /\ UNCHANGED <<tasks_, overdue>>
        /\ tstate' = [tstate EXCEPT ![t] = "woken"]
    BY <1>10 DEF AddWakesSpuriously, Blocked, Woken
  <2>2. Woken' = Woken \cup {t} /\ Blocked' \subseteq Blocked
    BY <1>0, <2>1 DEF Woken, Blocked
  <2>3. IsFiniteSet(Woken') /\ Cardinality(Woken') = Cardinality(Woken) + 1
    BY <1>0, <2>1, <2>2, WokenCount
  <2>4. Len(tasks_) + Cardinality(Woken) >= PendingTaskCountMax
    BY <2>1 DEF AddersServed, NoStrandedAdder
  <2>5. Len(tasks_') + Cardinality(Woken') >= PendingTaskCountMax
    BY <1>0, <2>1, <2>3, <2>4
  <2> QED BY <1>0, <2>1, <2>3, <2>5 DEF NoStrandedAdder
<1>11. CASE Expire(t)
  BY <1>11 DEF Expire, OnlyWorkersDequeue
<1> QED BY <1>4, <1>5, <1>6, <1>7, <1>8, <1>9, <1>10, <1>11 DEF Add, AddStep

LEMMA AddersStep ==
  ASSUME OnlyWorkersDequeue, TypeOK, Once, AddersServed, PendingBound', [Next]_vars
  PROVE  AddersServed'
<1>0. tasks_ \in Seq(Tasks) /\ Len(tasks_) \in Nat
  BY DEF TypeOK
<1>1. ASSUME UNCHANGED <<tasks_, tstate, overdue>>
      PROVE  AddersServed'
  <2>1. Blocked' = Blocked /\ Woken' = Woken
    BY <1>1 DEF Blocked, Woken
  <2> QED BY <1>0, <1>1, <2>1, AddersKept DEF AddersServed
<1>2. ASSUME NEW w \in Workers, WorkerStep(w) \/ WorkerWakesSpuriously(w)
      PROVE  AddersServed'
  BY <1>2, AddersWorkerStep DEF AddersServed
<1>3. ASSUME NEW t \in Tasks,
             Add(t) \/ AddStep(t) \/ AddGivesUp(t) \/ AddWakesSpuriously(t) \/ Expire(t)
      PROVE  AddersServed'
  BY <1>3, AddersTaskStep DEF AddersServed
<1>4. ASSUME NEW c \in Controllers,
             Request(c) \/ ControllerStep(c) \/ ControllerWakesSpuriously(c)
      PROVE  AddersServed'
  BY <1>1, <1>4, ControllerLeavesTasks
<1>5. CASE removeNextPending
  BY <1>5 DEF removeNextPending, OnlyWorkersDequeue
<1>6. CASE ExpiredTaskCount
  BY <1>1, <1>6 DEF ExpiredTaskCount, task
<1>7. CASE UNCHANGED vars
  BY <1>1, <1>7 DEF vars
<1> QED BY <1>2, <1>3, <1>4, <1>5, <1>6, <1>7 DEF Next

\* Where only workers take tasks out of the queue, a caller of add never sleeps
\* on maxMonitor_ beside a free place nobody is coming for: the one notify a
\* worker makes for the place it frees is enough, for any number of callers.
THEOREM AddersWoken == ASSUME OnlyWorkersDequeue PROVE Spec => []NoStrandedAdder
<1>1. Init => AddersServed
  <2> SUFFICES ASSUME Init PROVE AddersServed
    OBVIOUS
  <2>1. Woken = {} /\ Blocked = {}
    BY DEF Init, Woken, Blocked
  <2> QED BY <2>1, PoolAssumption, FS_EmptySet DEF Init, AddersServed, PendingBound, NoStrandedAdder
<1>2. TypeOK /\ Once /\ PendingBound' /\ AddersServed /\ [Next]_vars => AddersServed'
  BY AddersStep
<1>3. AddersServed => NoStrandedAdder
  BY DEF AddersServed
<1> QED BY <1>1, <1>2, <1>3, TypeCorrect, OnceInvariant, LimitKept, PTL DEF Spec

-----------------------------------------------------------------------------
(* join() by the only controller *)

\* The conditions under which the number of workers an operation of a controller
\* asks for is not changed by another one, nor out of reach because a thread
\* could not be created.
OneController == StartMayFail = FALSE /\ \A c, d \in Controllers : c = d

Queued == {t \in Tasks : tstate[t] = "queued"}

\* Where the pool has the size asked for, and where an operation waits for it.
Settled == {"out", "stopping", "shrinking", "finishing"}
Resizing == {"checking", "waiting", "woken"}

\* Which operation a controller is performing.
Phase(c) ==
  /\ cpc[c] = "out" => cop[c] = "none"
  /\ cpc[c] = "starting" => cop[c] = "addWorker"
  /\ cpc[c] = "shrinking" => cop[c] \in {"removeWorker", "stop"}
  /\ cpc[c] \in {"stopping", "finishing"} => cop[c] = "stop"
  /\ state_ \in {"STOPPING", "JOINING"} => cop[c] = "stop"

\* addWorker waits for workers to come, removeWorker and stop for workers to go.
Sizes(c) ==
  /\ cpc[c] \in Settled => workerCount_ = workerMaxCount_
  /\ cop[c] = "addWorker" => workerCount_ <= workerMaxCount_
  /\ cpc[c] \in Resizing /\ cop[c] # "addWorker" => workerCount_ >= workerMaxCount_

\* stop takes the pool down to no worker, and in a join the last worker to go
\* leaves only tasks that came too late.
Stops(c) ==
  /\ cpc[c] = "shrinking" /\ cop[c] = "stop" => cval[c] = workerCount_
  /\ cpc[c] \in Resizing \cup {"finishing"} /\ cop[c] = "stop" => workerMaxCount_ = 0
  /\ (cpc[c] \in Resizing \cup {"finishing"} /\ state_ = "JOINING"
        /\ cval[c] > 0 /\ workerCount_ = 0)
       => Queued \subseteq late

Alone == \A c \in Controllers : Phase(c) /\ Sizes(c) /\ Stops(c)

\* A step of a thread that is not a controller: it may wake one, a worker may come
\* while there is room, and one may go while there are too many, in a join only
\* when the queue is empty.
Bystanding ==
  /\ UNCHANGED <<state_, workerMaxCount_, cop, cval>>
  /\ \A c \in Controllers : cpc'[c] = cpc[c] \/ (cpc[c] = "waiting" /\ cpc'[c] = "woken")
  /\ \/ workerCount_' = workerCount_
     \/ workerCount_ < workerMaxCount_ /\ workerCount_' = workerCount_ + 1
     \/ /\ workerCount_ > workerMaxCount_
        /\ workerCount_' = workerCount_ - 1
        /\ state_ = "JOINING" => Queued = {}
  /\ late \subseteq late'
  /\ state_ = "JOINING" => Queued' \subseteq Queued \cup late'

LEMMA BystanderKeepsAlone ==
  ASSUME TypeOK, Alone, Bystanding
  PROVE  Alone'
<1> SUFFICES ASSUME NEW c \in Controllers PROVE Phase(c)' /\ Sizes(c)' /\ Stops(c)'
  BY DEF Alone
<1>0. /\ workerCount_ \in Nat /\ workerMaxCount_ \in Nat /\ cpc[c] \in ControllerStates
      /\ cop[c] \in Operations /\ Phase(c) /\ Sizes(c) /\ Stops(c)
  BY DEF TypeOK, Alone
<1>1. /\ UNCHANGED <<state_, workerMaxCount_>> /\ cop'[c] = cop[c] /\ cval'[c] = cval[c]
      /\ cpc'[c] = cpc[c] \/ (cpc[c] = "waiting" /\ cpc'[c] = "woken")
  BY DEF Bystanding
<1>2. Phase(c)'
  BY <1>0, <1>1 DEF Phase
<1>3. cpc[c] \in Settled \/ cpc[c] \in Resizing \/ cpc[c] = "starting"
  BY <1>0 DEF ControllerStates, Settled, Resizing
<1>4. /\ cpc'[c] \in Settled <=> cpc[c] \in Settled
      /\ cpc'[c] \in Resizing <=> cpc[c] \in Resizing
      /\ cpc'[c] = "shrinking" <=> cpc[c] = "shrinking"
      /\ cpc'[c] = "finishing" <=> cpc[c] = "finishing"
  BY <1>1 DEF Settled, Resizing
<1>5. /\ cpc[c] \in Settled => workerCount_' = workerCount_
      /\ cop[c] = "addWorker" => workerCount_' <= workerMaxCount_
      /\ cpc[c] \in Resizing /\ cop[c] # "addWorker" => workerCount_' >= workerMaxCount_
  BY <1>0 DEF Bystanding, Sizes
<1>6. Sizes(c)'
  BY <1>0, <1>1, <1>4, <1>5 DEF Sizes
<1>7. /\ cpc'[c] = "shrinking" /\ cop'[c] = "stop" => cval'[c] = workerCount_'
      /\ cpc'[c] \in Resizing \cup {"finishing"} /\ cop'[c] = "stop" => workerMaxCount_' = 0
  <2>1. "shrinking" \in Settled
    BY DEF Settled
  <2> QED BY <1>0, <1>1, <1>4, <1>5, <2>1 DEF Stops
<1>8. ASSUME cpc'[c] \in Resizing \cup {"finishing"}, state_' = "JOINING",
             cval'[c] > 0, workerCount_' = 0
      PROVE  Queued' \subseteq late'
  <2>1. cpc[c] \in Resizing \cup {"finishing"} /\ state_ = "JOINING" /\ cval[c] > 0
    BY <1>1, <1>4, <1>8
  <2>2. workerCount_ = 0 \/ Queued = {}
    BY <1>0, <1>8, <2>1 DEF Bystanding
  <2> QED BY <1>0, <2>1, <2>2 DEF Stops, Bystanding
<1>9. Stops(c)'
  BY <1>7, <1>8 DEF Stops
<1> QED BY <1>2, <1>6, <1>9

\* notify() on workerMonitor_ wakes controllers and does nothing else to them.
LEMMA NotifyWakes ==
  ASSUME TypeOK, NotifyManager
  PROVE  \A c \in Controllers : cpc'[c] = cpc[c] \/ (cpc[c] = "waiting" /\ cpc'[c] = "woken")
<1>1. PICK S \in OneOf({c \in Controllers : cpc[c] = "waiting"}) : cpc' = Mark(cpc, S, "woken")
  BY DEF NotifyManager
<1>2. \A c \in S : cpc[c] = "waiting"
  BY OneOfMeaning
<1>3. \A c \in Controllers : cpc'[c] = IF c \in S THEN "woken" ELSE cpc[c]
  BY <1>1 DEF Mark, TypeOK
<1> QED BY <1>2, <1>3

\* Workers and callers of add are bystanders to the controllers.
LEMMA WorkerBystands ==
  ASSUME TypeOK, Once, NEW w \in Workers, WorkerStep(w) \/ WorkerWakesSpuriously(w)
  PROVE  Bystanding
<1>0. /\ tstate \in [Tasks -> TaskStates] /\ tasks_ \in Seq(Tasks)
      /\ workerCount_ \in Nat /\ workerMaxCount_ \in Nat
  BY DEF TypeOK
<1>1. UNCHANGED <<state_, workerMaxCount_, cop, cval, late>>
  BY DEF WorkerStep, WorkerWakesSpuriously, WorkerEnters, WorkerUnneeded, WorkerGreets,
     WorkerParks, WorkerFindsExpired, WorkerTakes, WorkerRetires, WorkerFinishes, WorkerDies,
     counts, task, control
<1>2. \A c \in Controllers : cpc'[c] = cpc[c] \/ (cpc[c] = "waiting" /\ cpc'[c] = "woken")
  <2>1. UNCHANGED cpc \/ NotifyManager
    BY DEF WorkerStep, WorkerWakesSpuriously, WorkerEnters, WorkerUnneeded, WorkerGreets,
       WorkerParks, WorkerFindsExpired, WorkerTakes, WorkerRetires, WorkerFinishes, WorkerDies,
       control
  <2> QED BY <2>1, NotifyWakes
<1>3. \/ workerCount_' = workerCount_
      \/ workerCount_ < workerMaxCount_ /\ workerCount_' = workerCount_ + 1
      \/ /\ workerCount_ > workerMaxCount_
         /\ workerCount_' = workerCount_ - 1
         /\ state_ = "JOINING" => Queued = {}
  <2>1. CASE WorkerEnters(w)
    BY <2>1 DEF WorkerEnters
  <2>2. CASE WorkerRetires(w)
    <3>1. /\ ~(workerCount_ <= workerMaxCount_) /\ workerCount_' = workerCount_ - 1
          /\ state_ = "JOINING" => tasks_ = <<>>
      BY <2>2 DEF WorkerRetires, isActive
    <3>2. tasks_ = <<>> => Queued = {}
      BY DEF Once, Queue, Members, Queued
    <3> QED BY <1>0, <3>1, <3>2
  <2>3. CASE ~WorkerEnters(w) /\ ~WorkerRetires(w)
    BY <2>3 DEF WorkerStep, WorkerWakesSpuriously, WorkerUnneeded, WorkerGreets, WorkerParks,
       WorkerFindsExpired, WorkerTakes, WorkerFinishes, WorkerDies, counts
  <2> QED BY <2>1, <2>2, <2>3
<1>4. Queued' \subseteq Queued
  <2>1. CASE WorkerFindsExpired(w)
    BY <1>0, <2>1 DEF WorkerFindsExpired, Mark, Queued
  <2>2. CASE WorkerTakes(w)
    <3>1. PICK S, h : tstate' = [Mark(Mark(tstate, Expired, "expired"), S, "woken")
                                   EXCEPT ![h] = "running"]
      BY <2>2 DEF WorkerTakes
    <3> QED BY <1>0, <3>1 DEF Mark, Queued
  <2>3. CASE WorkerFinishes(w)
    <3>1. PICK h : tstate' = [tstate EXCEPT ![h] = "done"]
      BY <2>3 DEF WorkerFinishes
    <3> QED BY <1>0, <3>1 DEF Queued
  <2>4. CASE UNCHANGED tstate
    BY <2>4 DEF Queued
  <2> QED BY <2>1, <2>2, <2>3, <2>4 DEF WorkerStep, WorkerWakesSpuriously, WorkerEnters,
             WorkerUnneeded, WorkerGreets, WorkerParks, WorkerRetires, WorkerDies, task
<1> QED BY <1>1, <1>2, <1>3, <1>4 DEF Bystanding

LEMMA CallerBystands ==
  ASSUME TypeOK, NEW t \in Tasks,
         Add(t) \/ AddStep(t) \/ AddGivesUp(t) \/ AddWakesSpuriously(t) \/ Expire(t)
  PROVE  Bystanding
<1>0. tstate \in [Tasks -> TaskStates]
  BY DEF TypeOK
<1>1. UNCHANGED <<state_, workerCount_, workerMaxCount_, cop, cval, cpc>> /\ late \subseteq late'
  BY DEF Add, AddStep, AddNotStarted, AddTimesOut, AddFull, AddQueues, AddWaitsAgain, AddResumes,
     AddGivesUp, AddWakesSpuriously, Expire, Push, counts, control
<1>2. ASSUME state_ = "JOINING", NEW u \in Queued', u \notin late'
      PROVE  u \in Queued
  <2>1. CASE UNCHANGED tstate
    BY <1>2, <2>1 DEF Queued
  <2>2. ASSUME NEW p \in TaskStates \ {"queued"},
               \/ tstate' = [tstate EXCEPT ![t] = p]
               \/ tstate' = [Mark(tstate, Expired, "expired") EXCEPT ![t] = p]
        PROVE  u \in Queued
    BY <1>0, <1>2, <2>2 DEF Queued, Mark
  <2>3. CASE AddResumes(t)
    <3>1. /\ tstate' = [tstate EXCEPT ![t] = "queued"] /\ t \in late'
      BY <1>2, <2>3 DEF AddResumes, Push
    <3> QED BY <1>0, <1>2, <3>1 DEF Queued
  <2>4. ASSUME NEW w, AddQueues(t, w)
        PROVE  FALSE
    BY <1>2, <2>4 DEF AddQueues
  <2>5. CASE AddWakesSpuriously(t)
    BY <2>2, <2>5 DEF AddWakesSpuriously, TaskStates
  <2>6. CASE AddGivesUp(t) \/ AddWaitsAgain(t) \/ \E w : AddNotStarted(t, w)
    BY <2>2, <2>6 DEF AddGivesUp, AddWaitsAgain, AddNotStarted, TaskStates
  <2>7. ASSUME NEW w, NEW timeout, AddTimesOut(t, w, timeout) \/ AddFull(t, w, timeout)
        PROVE  u \in Queued
    BY <2>2, <2>7 DEF AddTimesOut, AddFull, TaskStates
  <2>8. CASE Expire(t)
    BY <2>1, <2>8 DEF Expire
  <2> QED BY <2>3, <2>4, <2>5, <2>6, <2>7, <2>8 DEF Add, AddStep
<1> QED BY <1>1, <1>2 DEF Bystanding

LEMMA OthersBystand ==
  ASSUME TypeOK, removeNextPending \/ ExpiredTaskCount \/ UNCHANGED vars
  PROVE  Bystanding
<1>1. UNCHANGED <<state_, workerCount_, workerMaxCount_, cop, cval, cpc, late>>
  BY DEF removeNextPending, ExpiredTaskCount, vars, counts, control, task
<1>2. Queued' \subseteq Queued
  <2>1. CASE removeNextPending
    <3>1. PICK h : tstate' = [tstate EXCEPT ![h] = "stolen"]
      BY <2>1 DEF removeNextPending
    <3> QED BY <3>1 DEF TypeOK, Queued
  <2>2. CASE UNCHANGED tstate
    BY <2>2 DEF Queued
  <2> QED BY <2>1, <2>2 DEF ExpiredTaskCount, vars, task
<1> QED BY <1>1, <1>2 DEF Bystanding

\* Every step of the only controller keeps the pool at, or on its way to, the size
\* its operation asks for.
LEMMA ControllerKeepsAlone ==
  ASSUME OneController, TypeOK, Alone, NEW c \in Controllers,
         Request(c) \/ ControllerStep(c) \/ ControllerWakesSpuriously(c)
  PROVE  Alone'
<1>0. /\ workerCount_ \in Nat /\ workerMaxCount_ \in Nat /\ cval \in [Controllers -> Nat]
      /\ cpc \in [Controllers -> ControllerStates] /\ cop \in [Controllers -> Operations]
      /\ Phase(c) /\ Sizes(c) /\ Stops(c)
  BY DEF TypeOK, Alone
<1>1. UNCHANGED <<tstate, late>> /\ Queued' = Queued
  BY ControllerLeavesTasks DEF Queued
<1> SUFFICES Phase(c)' /\ Sizes(c)' /\ Stops(c)'
  BY DEF Alone, OneController
<1> USE DEF Settled, Resizing, Phase, Sizes, Stops
<1>2. CASE start(c)
  BY <1>0, <1>1, <1>2 DEF start, counts, control
<1>3. ASSUME NEW S \in SUBSET Workers, addWorker(c, S)
      PROVE  Phase(c)' /\ Sizes(c)' /\ Stops(c)'
  <2>1. Cardinality(S) \in Nat
    BY PoolAssumption, FS_Subset, FS_CardinalityType
  <2> QED BY <1>0, <1>3, <2>1 DEF addWorker
<1>4. ASSUME NEW value, removeWorker(c, value)
      PROVE  Phase(c)' /\ Sizes(c)' /\ Stops(c)'
  BY <1>0, <1>4 DEF removeWorker, counts
<1>5. ASSUME NEW join, stopImpl(c, join)
      PROVE  Phase(c)' /\ Sizes(c)' /\ Stops(c)'
  BY <1>0, <1>5 DEF stopImpl, counts
<1>6. ASSUME NEW w, StartThread(c, w) \/ RecordId(c, w)
      PROVE  Phase(c)' /\ Sizes(c)' /\ Stops(c)'
  BY <1>0, <1>1, <1>6 DEF StartThread, RecordId, counts, control
<1>7. CASE StartFails(c)
  BY <1>7 DEF StartFails, OneController
<1>8. CASE AllStarted(c)
  BY <1>0, <1>8 DEF AllStarted, counts
<1>9. CASE Shrink(c)
  <2>1. /\ cpc[c] = "shrinking" /\ cval[c] <= workerMaxCount_
        /\ workerMaxCount_' = workerMaxCount_ - cval[c] /\ cpc'[c] = "checking"
        /\ UNCHANGED <<state_, workerCount_, cop, cval>>
    BY <1>0, <1>9 DEF Shrink
  <2>2. cval[c] \in Nat
    BY <1>0
  <2> QED BY <1>0, <2>1, <2>2
<1>10. CASE ShrinkThrows(c)
  BY <1>0, <1>10 DEF ShrinkThrows, Leave, counts
<1>11. CASE WaitForWorkers(c)
  BY <1>0, <1>1, <1>11 DEF WaitForWorkers, counts
<1>12. CASE AddWorkerReturns(c)
  BY <1>0, <1>12 DEF AddWorkerReturns, Leave, counts
<1>13. CASE RemoveWorkerReturns(c)
  <2>1. /\ cpc[c] \in {"checking", "woken"} /\ cop[c] # "addWorker"
        /\ workerCount_ = workerMaxCount_ /\ UNCHANGED <<state_, workerCount_, workerMaxCount_>>
    BY <1>13 DEF RemoveWorkerReturns, counts
  <2>2. CASE cop[c] = "stop"
    <3>1. cpc'[c] = "finishing" /\ UNCHANGED <<cop, cval>>
      BY <1>0, <1>13, <2>2 DEF RemoveWorkerReturns
    <3> QED BY <1>0, <1>1, <2>1, <2>2, <3>1
  <2>3. CASE cop[c] # "stop"
    <3>1. cpc'[c] = "out" /\ cop'[c] = "none" /\ cval'[c] = 0
      BY <1>0, <1>13, <2>3 DEF RemoveWorkerReturns, Leave
    <3> QED BY <1>0, <2>1, <2>3, <3>1
  <2> QED BY <2>2, <2>3
<1>14. CASE ReadWorkerCount(c)
  BY <1>0, <1>14 DEF ReadWorkerCount, counts
<1>15. CASE StopReturns(c)
  BY <1>0, <1>15 DEF StopReturns, Leave, counts
<1>16. CASE ControllerWakesSpuriously(c)
  BY <1>0, <1>1, <1>16 DEF ControllerWakesSpuriously, counts
<1> QED BY <1>2, <1>3, <1>4, <1>5, <1>6, <1>7, <1>8, <1>9, <1>10, <1>11, <1>12, <1>13,
           <1>14, <1>15, <1>16 DEF Request, ControllerStep

\* A pool without registered workers runs nothing.
LEMMA NobodyRuns ==
  ASSUME CountsMatch, Once, workerCount_ = 0
  PROVE  \A t \in Tasks : tstate[t] # "running"
<1>1. Registered = {}
  BY InFinite, FS_EmptySet DEF CountsMatch, Registered
<1>2. \A w \in Workers : current[w] = Nobody
  BY <1>1 DEF Registered, In, Once, Running
<1> QED BY <1>2, PoolAssumption DEF Once, Running

\* The states an operation of the only controller can be in, in every behaviour.
THEOREM AloneInvariant == ASSUME OneController PROVE Spec => []Alone
<1>1. Init => Alone
  BY DEF Init, Alone, Phase, Sizes, Stops, Settled, Resizing
<1>2. TypeOK /\ Once /\ Alone /\ [Next]_vars => Alone'
  BY WorkerBystands, CallerBystands, OthersBystand, BystanderKeepsAlone, ControllerKeepsAlone
     DEF Next
<1> QED BY <1>1, <1>2, TypeCorrect, OnceInvariant, PTL DEF Spec

\* Where one controller resizes the pool and threads can be created, join() drains
\* the manager: when it declares it STOPPED, no task that was accepted while it was
\* started is still queued or running, whatever the tasks, the workers and the
\* wakeups did in between.
THEOREM JoinWaitsForTasks == ASSUME OneController PROVE Spec => JoinDrains
<1> DEFINE A == (state_ = "JOINING" /\ state_' = "STOPPED"
                   /\ \E c \in Controllers : cpc[c] = "finishing" /\ cval[c] > 0)
                => \A t \in Tasks \ late : tstate'[t] \notin {"queued", "running"}
<1>1. TypeOK /\ CountsMatch /\ Once /\ Alone /\ [Next]_vars => [A]_vars
  <2> SUFFICES ASSUME TypeOK, CountsMatch, Once, Alone, Next,
                      state_ = "JOINING", state_' = "STOPPED",
                      NEW c \in Controllers, cpc[c] = "finishing", cval[c] > 0,
                      NEW t \in Tasks \ late
               PROVE  tstate'[t] \notin {"queued", "running"}
    OBVIOUS
  <2>1. UNCHANGED tstate
    <3>1. ASSUME Bystanding PROVE FALSE
      BY <3>1 DEF Bystanding
    <3> QED BY <3>1, WorkerBystands, CallerBystands, OthersBystand, ControllerLeavesTasks DEF Next
  <2>2. workerMaxCount_ = 0 /\ workerCount_ = 0 /\ Queued \subseteq late
    BY DEF Alone, Phase, Sizes, Stops, Settled
  <2>3. tstate[t] # "queued" /\ tstate[t] # "running"
    BY <2>2, NobodyRuns DEF Queued
  <2> QED BY <2>1, <2>3
<1> HIDE DEF A
<1>2. Spec => [][A]_vars
  BY <1>1, TypeCorrect, CountsCorrect, OnceInvariant, AloneInvariant, PTL DEF Spec
<1> QED BY <1>2 DEF JoinDrains, A
=============================================================================
