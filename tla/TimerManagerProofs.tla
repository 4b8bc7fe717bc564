------------------------- MODULE TimerManagerProofs -------------------------
(* Proofs about TimerManager, for any number of tasks, starters and stoppers *)
(* and any clock.                                                            *)
EXTENDS TimerManager, FiniteSetTheorems, WellFoundedInduction, TLAPS

\* Where the dispatcher can be in each state of the manager, and that one caller
\* of start() at most creates it.
Stages ==
  /\ state_ = "UNINITIALIZED" => dpc = "unborn" /\ doStop = {}
  /\ state_ = "STARTING" => dpc \in {"unborn", "new"} /\ doStop = {}
  /\ state_ = "STARTED" => dpc \in {"loop", "parked", "woken", "running"} /\ doStop = {}
  /\ state_ = "STOPPING" => dpc \notin {"parked", "done"}
  /\ state_ = "STOPPED" => dpc \in {"unborn", "done"} /\ (doStop # {} => dpc = "done")
  /\ \A c \in Starters :
       startpc[c] = "launching" => dpc = "unborn" /\ state_ \in {"STARTING", "STOPPING"}
  /\ \A c, d \in Starters :
       startpc[c] = "launching" /\ startpc[d] = "launching" => c = d

\* What a thread that waits on monitor_, or is past its wait, waits for.
Waiters ==
  /\ \A c \in Starters : startpc[c] = "parked" => state_ = "STARTING"
  /\ \A c \in Stoppers : stoppc[c] \in {"parked", "woken"} => state_ \in {"STOPPING", "STOPPED"}
  /\ \A c \in Stoppers : stoppc[c] = "cleaning" => c \in doStop /\ state_ = "STOPPED"
  /\ dpc = "parked" => state_ = "STARTED"

\* taskCount_ counts taskMap_ until the dispatcher is detached, and that happens
\* after it has gone.
Counts ==
  /\ attached => taskCount_ = Cardinality(taskMap_)
  /\ ~attached => taskMap_ = {} /\ state_ = "STOPPED" /\ dpc = "done"

\* The tasks in taskMap_ and in expiredTasks are the ones their states say, and
\* their keys are not before what was asked for.
Keys ==
  \A t \in Tasks :
    /\ t \in taskMap_ <=> tstate[t] = "WAITING"
    /\ t \in expiredTasks => tstate[t] = "EXECUTING"
    /\ tstate[t] = "calling" => toMilliseconds(asked[t]) <= currentTime + delay[t]
    /\ tstate[t] \in {"adding", "WAITING"} => toMilliseconds(asked[t]) <= due[t]
    /\ tstate[t] = "EXECUTING" => toMilliseconds(asked[t]) <= currentTime

\* What the dispatcher's deadline promises.
Sleep ==
  dpc = "parked" =>
    /\ deadline = Never => taskMap_ = {}
    /\ deadline # Never => \A t \in taskMap_ : deadline <= due[t] + Lag

TimerInv == TypeOK /\ Stages /\ Waiters /\ Counts /\ Keys /\ Sleep

-----------------------------------------------------------------------------
(* Lemmas about the operators of the model *)

\* Division with rest by the number of ticks to a millisecond.
LEMMA QuotientAndRest ==
  ASSUME NEW t \in Int
  PROVE  /\ t \div TicksPerMs \in Int /\ t % TicksPerMs \in Int
         /\ 0 <= t % TicksPerMs /\ t % TicksPerMs < TicksPerMs
         /\ t = TicksPerMs * (t \div TicksPerMs) + (t % TicksPerMs)
BY TimerAssumption

\* Half a millisecond, in ticks.
LEMMA HalfAMillisecond ==
  TicksPerMs \div 2 \in Nat /\ 0 < TicksPerMs \div 2 /\ TicksPerMs \div 2 < TicksPerMs
BY TimerAssumption

\* Different milliseconds are at least one millisecond apart.
LEMMA WholeMilliseconds ==
  ASSUME NEW q \in Int, NEW p \in Int, q < p
  PROVE  TicksPerMs * q + TicksPerMs <= TicksPerMs * p
<1>1. p - q \in Nat /\ p - q >= 1
  OBVIOUS
<1>2. TicksPerMs * (p - q) >= TicksPerMs
  BY <1>1, TimerAssumption
<1>3. TicksPerMs * (p - q) = TicksPerMs * p - TicksPerMs * q
  BY TimerAssumption
<1> QED BY <1>1, <1>2, <1>3, TimerAssumption

\* Rounding commutes with adding whole milliseconds.
LEMMA RoundingShifts ==
  ASSUME NEW t \in Int, NEW d \in Int
  PROVE toMilliseconds(t + TicksPerMs * d) = toMilliseconds(t) + d
<1> DEFINE u == t + TicksPerMs * d
           q == u \div TicksPerMs
           p == (t \div TicksPerMs) + d
           r == u % TicksPerMs
           s == t % TicksPerMs
<1>1. u \in Int
  BY TimerAssumption
<1>2. q \in Int /\ r \in Int /\ 0 <= r /\ r < TicksPerMs /\ u = TicksPerMs * q + r
  BY <1>1, QuotientAndRest
<1>3. p \in Int /\ s \in Int /\ 0 <= s /\ s < TicksPerMs
      /\ t = TicksPerMs * (t \div TicksPerMs) + s /\ t \div TicksPerMs \in Int
  BY QuotientAndRest
<1>4. TicksPerMs * p = TicksPerMs * (t \div TicksPerMs) + TicksPerMs * d
      /\ TicksPerMs * (t \div TicksPerMs) \in Int /\ TicksPerMs * d \in Int
  BY <1>3, TimerAssumption
<1>5. u = TicksPerMs * p + s
  BY <1>3, <1>4
<1>6. TicksPerMs * p \in Int /\ TicksPerMs * q \in Int
  BY <1>2, <1>3, TimerAssumption
<1>7. /\ q < p => TicksPerMs * q + TicksPerMs <= TicksPerMs * p
      /\ p < q => TicksPerMs * p + TicksPerMs <= TicksPerMs * q
  BY <1>2, <1>3, WholeMilliseconds
<1> HIDE DEF p, q, r, s, u
<1>8. q = p
  BY <1>2, <1>3, <1>5, <1>6, <1>7, TimerAssumption
<1>9. r = s
  BY <1>2, <1>3, <1>5, <1>6, <1>8
<1>10. toMilliseconds(u) = q + IF r >= TicksPerMs \div 2 THEN 1 ELSE 0
  BY DEF toMilliseconds, q, r
<1>11. toMilliseconds(t) = (t \div TicksPerMs) + IF s >= TicksPerMs \div 2 THEN 1 ELSE 0
  BY DEF toMilliseconds, s
<1>12. toMilliseconds(u) = p + IF s >= TicksPerMs \div 2 THEN 1 ELSE 0
  BY <1>8, <1>9, <1>10
<1> QED BY <1>11, <1>12, <1>3 DEF p, u

\* The rounding error: less than half a millisecond down, at most half of one up.
LEMMA RoundingError ==
  ASSUME NEW t \in Int
  PROVE  /\ toMilliseconds(t) \in Int /\ TicksPerMs * toMilliseconds(t) \in Int
         /\ t < TicksPerMs * toMilliseconds(t) + (TicksPerMs \div 2)
         /\ TicksPerMs * toMilliseconds(t) + (TicksPerMs \div 2) <= t + TicksPerMs
<1> DEFINE q == t \div TicksPerMs
           r == t % TicksPerMs
           h == TicksPerMs \div 2
<1>1. q \in Int /\ r \in Int /\ 0 <= r /\ r < TicksPerMs /\ t = TicksPerMs * q + r
      /\ TicksPerMs * q \in Int
  BY QuotientAndRest, TimerAssumption
<1>2. h \in Nat /\ 0 < h /\ h < TicksPerMs
  BY HalfAMillisecond
<1>3. toMilliseconds(t) = IF r >= h THEN q + 1 ELSE q
  BY <1>1 DEF toMilliseconds
<1>4. TicksPerMs * (q + 1) = TicksPerMs * q + TicksPerMs
  BY <1>1, TimerAssumption
<1> HIDE DEF q, r, h
<1>5. CASE r >= h
  <2>1. toMilliseconds(t) = q + 1 BY <1>3, <1>5
  <2>2. TicksPerMs * toMilliseconds(t) = TicksPerMs * q + TicksPerMs BY <2>1, <1>4
  <2> QED BY <2>1, <2>2, <1>1, <1>2, <1>5, TimerAssumption DEF h
<1>6. CASE ~(r >= h)
  <2>1. toMilliseconds(t) = q BY <1>3, <1>6
  <2>2. TicksPerMs * toMilliseconds(t) = TicksPerMs * q BY <2>1
  <2> QED BY <2>1, <2>2, <1>1, <1>2, <1>6, TimerAssumption DEF h
<1> QED BY <1>5, <1>6

\* A time that is not rounded to a later millisecond is less than one later.
LEMMA RoundingGap ==
  ASSUME NEW a \in Int, NEW b \in Int, toMilliseconds(a) <= toMilliseconds(b)
  PROVE a - b < TicksPerMs
<1> DEFINE x == TicksPerMs * toMilliseconds(a)
           y == TicksPerMs * toMilliseconds(b)
           h == TicksPerMs \div 2
<1>1. x \in Int /\ y \in Int /\ a < x + h /\ y + h <= b + TicksPerMs
  BY RoundingError
<1>2. x <= y
  <2>1. toMilliseconds(a) \in Int /\ toMilliseconds(b) \in Int
    BY RoundingError
  <2>2. CASE toMilliseconds(a) = toMilliseconds(b)
    BY <1>1, <2>2
  <2>3. CASE toMilliseconds(a) < toMilliseconds(b)
    <3>1. x + TicksPerMs <= y
      BY <2>1, <2>3, WholeMilliseconds
    <3> QED BY <3>1, <1>1, TimerAssumption
  <2> QED BY <2>1, <2>2, <2>3
<1>3. h \in Nat
  BY HalfAMillisecond
<1> HIDE DEF x, y, h
<1> QED BY <1>1, <1>2, <1>3, TimerAssumption

\* Rounding keeps the order of times.
LEMMA RoundingMonotone ==
  ASSUME NEW a \in Int, NEW b \in Int, a <= b
  PROVE toMilliseconds(a) <= toMilliseconds(b)
<1> SUFFICES ASSUME toMilliseconds(b) < toMilliseconds(a) PROVE FALSE
  BY RoundingError
<1> DEFINE x == TicksPerMs * toMilliseconds(a)
           y == TicksPerMs * toMilliseconds(b)
           h == TicksPerMs \div 2
<1>1. x \in Int /\ y \in Int /\ x + h <= a + TicksPerMs /\ b < y + h
  BY RoundingError
<1>2. y + TicksPerMs <= x
  BY RoundingError, WholeMilliseconds
<1>3. h \in Nat
  BY HalfAMillisecond
<1> HIDE DEF x, y, h
<1> QED BY <1>1, <1>2, <1>3, TimerAssumption

\* The time is a natural number of milliseconds, and later reads of it are not less.
LEMMA TimeMoves ==
  ASSUME TypeOK, NEW later \in Nat, clock <= later
  PROVE  /\ currentTime \in Nat /\ toMilliseconds(later) \in Nat
         /\ currentTime <= toMilliseconds(later)
<1>1. ASSUME NEW c \in Nat PROVE toMilliseconds(c) \in Nat
  <2>1. c \div TicksPerMs \in Nat
    BY TimerAssumption
  <2> QED BY <2>1 DEF toMilliseconds
<1>2. clock \in Nat
  BY DEF TypeOK
<1> QED BY <1>1, <1>2, RoundingMonotone DEF currentTime

\* The times of a task, rounded or not, are integers.
LEMMA TimesAreNumbers ==
  ASSUME TypeOK, NEW t \in Tasks
  PROVE  /\ currentTime \in Nat /\ clock \in Nat
         /\ asked[t] \in Int /\ due[t] \in Int /\ delay[t] \in Int
         /\ toMilliseconds(asked[t]) \in Int
<1>1. clock \in Nat /\ asked[t] \in Int /\ due[t] \in Int /\ delay[t] \in Int
  BY DEF TypeOK
<1>2. currentTime \in Nat
  BY <1>1, TimeMoves
<1>3. toMilliseconds(asked[t]) \in Int
  BY <1>1, RoundingError
<1> QED BY <1>1, <1>2, <1>3

\* Keys only gains from the passing of time.
LEMMA LaterKeepsKeys ==
  ASSUME TypeOK, Keys, clock' \in Nat, clock <= clock',
         UNCHANGED <<taskMap_, expiredTasks, tstate, delay, due, asked>>
  PROVE  Keys'
<1>1. currentTime \in Nat /\ currentTime' \in Nat /\ currentTime <= currentTime'
  BY TimeMoves DEF currentTime
<1> SUFFICES ASSUME NEW t \in Tasks
             PROVE  /\ tstate[t] = "calling" => toMilliseconds(asked[t]) <= currentTime' + delay[t]
                    /\ tstate[t] = "EXECUTING" => toMilliseconds(asked[t]) <= currentTime'
  BY DEF Keys
<1>2. toMilliseconds(asked[t]) \in Int /\ delay[t] \in Int
  BY RoundingError DEF TypeOK
<1> QED BY <1>1, <1>2 DEF Keys

\* A nonempty set of naturals has a least element.
LEMMA LeastOf ==
  ASSUME NEW T \in SUBSET Nat, T # {}
  PROVE  \E x \in T : \A y \in T : x <= y
<1> DEFINE R == OpToRel(<, Nat)
<1>1. PICK x \in T : \A y \in T : <<y, x>> \notin R
  BY NatLessThanWellFounded, WFMin, Zenon
<1>2. ASSUME NEW y \in T PROVE x <= y
  <2>1. <<y, x>> \notin R
    BY <1>1
  <2>2. y \in Nat /\ x \in Nat
    OBVIOUS
  <2>3. <<y, x>> \in Nat \X Nat /\ <<y, x>>[1] = y /\ <<y, x>>[2] = x
    BY <2>2
  <2>4. ~(y < x)
    BY <2>1, <2>3 DEF OpToRel
  <2> QED BY <2>2, <2>4
<1> QED BY <1>1, <1>2

\* When nothing is due and there are tasks, First is the smallest key of taskMap_.
LEMMA FirstIsLeast ==
  ASSUME TypeOK, Expired = {}, taskMap_ # {}
  PROVE  First \in Nat /\ \A t \in taskMap_ : First <= due[t]
<1> DEFINE D == {due[t] : t \in taskMap_}
<1>1. ASSUME NEW t \in taskMap_ PROVE due[t] \in Nat
  <2>1. t \notin Expired /\ t \in Tasks
    BY <1>1 DEF TypeOK
  <2> QED BY <1>1, <2>1, TimesAreNumbers DEF Expired
<1>2. D \in SUBSET Nat /\ D # {}
  BY <1>1
<1>3. PICK x \in D : \A y \in D : x <= y
  BY <1>2, LeastOf
<1>4. \A t \in taskMap_ : x <= due[t]
  BY <1>3
<1>5. First = CHOOSE d \in D : \A t \in taskMap_ : d <= due[t]
  BY DEF First
<1>6. First \in D /\ \A t \in taskMap_ : First <= due[t]
  BY <1>3, <1>4, <1>5
<1> QED BY <1>2, <1>6

\* Every subset of Tasks is finite.
LEMMA TasksFinite ==
  ASSUME NEW S \in SUBSET Tasks
  PROVE  IsFiniteSet(S) /\ Cardinality(S) \in Nat
BY TimerAssumption, FS_Subset, FS_CardinalityType

\* CountAfter is the size of what is left of taskMap_.
LEMMA CountAfterCounts ==
  ASSUME NEW S \in SUBSET taskMap_, TypeOK, taskCount_ = Cardinality(taskMap_)
  PROVE  CountAfter(S) = Cardinality(taskMap_ \ S) /\ CountAfter(S) \in Nat
<1>1. IsFiniteSet(taskMap_) /\ taskMap_ \cap S = S
  BY TasksFinite DEF TypeOK
<1>2. Cardinality(taskMap_ \ S) = Cardinality(taskMap_) - Cardinality(taskMap_ \cap S)
  BY <1>1, FS_Difference
<1>3. Cardinality(taskMap_ \ S) \in Nat
  BY TasksFinite, taskMap_ \ S \in SUBSET Tasks DEF TypeOK
<1> QED BY <1>1, <1>2, <1>3 DEF CountAfter

-----------------------------------------------------------------------------
(* Each action preserves the invariant *)

\* The dispatcher comes up.
LEMMA StartsKeeps ==
  ASSUME TimerInv, DispatcherStarts
  PROVE  TimerInv'
<1>1. TypeOK'
  BY DEF TimerInv, TypeOK, ManagerStates, DispatcherStates, TaskStates, StartStates,
     StopStates, DispatcherStarts, WokenStarters, ParkedStarters, task
<1>2. Stages'
  BY DEF TimerInv, TypeOK, Stages, DispatcherStarts, WokenStarters, ParkedStarters, task
<1>3. Waiters'
  BY DEF TimerInv, TypeOK, Waiters, DispatcherStarts, WokenStarters, ParkedStarters,
     task
<1>4. Counts'
  BY DEF TimerInv, TypeOK, Counts, DispatcherStarts, WokenStarters, ParkedStarters, task
<1>5. Keys'
  BY DEF TimerInv, TypeOK, Keys, currentTime, DispatcherStarts, WokenStarters, ParkedStarters, task
<1>6. Sleep'
  BY DEF TimerInv, Sleep, DispatcherStarts, WokenStarters, ParkedStarters, task
<1> QED BY <1>1, <1>2, <1>3, <1>4, <1>5, <1>6 DEF TimerInv

\* The dispatcher goes to sleep.
LEMMA WaitsKeeps ==
  ASSUME TimerInv, DispatcherWaits
  PROVE  TimerInv'
<1>1. TypeOK'
  <2>1. clock' \in Nat /\ deadline' \in Int
    <3>1. CASE taskMap_ = {}
      BY <3>1 DEF TimerInv, TypeOK, DispatcherWaits, Never
    <3>2. CASE taskMap_ # {}
      <4>1. First \in Nat
        BY <3>2, FirstIsLeast DEF TimerInv, DispatcherWaits
      <4>2. PICK lag \in 0 .. TicksPerMs * Lag :
              clock' = clock + lag
                /\ deadline' = toMilliseconds(clock + lag) + (First - currentTime)
        BY <3>2 DEF DispatcherWaits
      <4>3. clock + lag \in Nat /\ clock <= clock + lag
        BY TimerAssumption DEF TimerInv, TypeOK
      <4>4. currentTime \in Nat /\ toMilliseconds(clock + lag) \in Nat
        BY <4>3, TimeMoves DEF TimerInv
      <4> QED BY <4>1, <4>2, <4>3, <4>4
    <3> QED BY <3>1, <3>2
  <2> QED BY <2>1 DEF TimerInv, TypeOK, DispatcherWaits, DispatcherStates,
          manager, dispatcher, task, control, vars
<1>2. Stages'
  BY DEF TimerInv, TypeOK, Stages, DispatcherWaits, manager, task, control
<1>3. Waiters'
  BY DEF TimerInv, TypeOK, Waiters, DispatcherWaits, manager, task, control
<1>4. Counts'
  BY DEF TimerInv, TypeOK, Counts, DispatcherWaits, manager, task, control
<1>5. Keys'
  <2>1. clock' \in Nat /\ clock <= clock'
    BY TimerAssumption DEF TimerInv, TypeOK, DispatcherWaits
  <2> QED BY <2>1, LaterKeepsKeys DEF TimerInv, DispatcherWaits, manager, task
<1>6. Sleep'
  <2>1. CASE taskMap_ = {}
    BY <2>1 DEF TimerInv, TypeOK, DispatcherWaits, Sleep, Never,
            manager, dispatcher, task, control, vars
  <2>2. CASE taskMap_ # {}
    <3>1. PICK lag \in 0 .. TicksPerMs * Lag :
            /\ toMilliseconds(clock + lag) <= currentTime + Lag
            /\ deadline' = toMilliseconds(clock + lag) + (First - currentTime)
      BY <2>2 DEF DispatcherWaits
    <3>2. First \in Nat /\ \A t \in taskMap_ : First <= due[t]
      BY <2>2, FirstIsLeast DEF TimerInv, DispatcherWaits
    <3>3. clock + lag \in Nat /\ clock <= clock + lag
      BY TimerAssumption DEF TimerInv, TypeOK
    <3>4. /\ currentTime \in Nat /\ toMilliseconds(clock + lag) \in Nat
          /\ currentTime <= toMilliseconds(clock + lag)
      BY <3>3, TimeMoves DEF TimerInv
    <3>5. deadline' <= First + Lag /\ deadline' \in Nat
      BY <3>1, <3>2, <3>4, TimerAssumption
    <3>6. taskMap_' = taskMap_ /\ due' = due
      BY DEF DispatcherWaits, manager, dispatcher, task, control, vars
    <3> QED BY <3>2, <3>5, <3>6, TimerAssumption DEF TimerInv, TypeOK, Sleep, Never
  <2> QED BY <2>1, <2>2
<1> QED BY <1>1, <1>2, <1>3, <1>4, <1>5, <1>6 DEF TimerInv

\* The dispatcher takes the tasks that are due.
LEMMA CollectsKeeps ==
  ASSUME TimerInv, DispatcherCollects
  PROVE  TimerInv'
<1>1. TypeOK'
  <2>1. Expired \in SUBSET taskMap_
    BY DEF Expired
  <2>2. CASE state_ = "STARTED"
    <3>1. attached /\ taskCount_ = Cardinality(taskMap_)
      BY <2>2 DEF TimerInv, Counts
    <3>2. CountAfter(Expired) = Cardinality(taskMap_ \ Expired) /\ CountAfter(Expired) \in Nat
      BY <2>1, <3>1, CountAfterCounts DEF TimerInv
    <3> QED BY <2>1, <2>2, <3>1, <3>2 DEF TimerInv, TypeOK, Counts, DispatcherCollects,
               ManagerStates, DispatcherStates, TaskStates, StartStates, StopStates,
               manager, dispatcher, task, control, vars
  <2>3. CASE state_ # "STARTED"
    BY <2>3 DEF TimerInv, TypeOK, Counts, DispatcherCollects,
       ManagerStates, DispatcherStates, TaskStates, StartStates, StopStates,
       manager, dispatcher, task, control, vars
  <2> QED BY <2>2, <2>3
<1>2. Stages'
  BY DEF TimerInv, TypeOK, Stages, DispatcherCollects, Expired, control
<1>3. Waiters'
  BY DEF TimerInv, TypeOK, Waiters, DispatcherCollects, Expired, control
<1>4. Counts'
  <2>1. Expired \in SUBSET taskMap_
    BY DEF Expired
  <2>2. CASE state_ = "STARTED"
    <3>1. attached /\ taskCount_ = Cardinality(taskMap_)
      BY <2>2 DEF TimerInv, Counts
    <3>2. CountAfter(Expired) = Cardinality(taskMap_ \ Expired) /\ CountAfter(Expired) \in Nat
      BY <2>1, <3>1, CountAfterCounts DEF TimerInv
    <3> QED BY <2>1, <2>2, <3>1, <3>2 DEF TimerInv, TypeOK, Counts, DispatcherCollects,
               ManagerStates, DispatcherStates, TaskStates, StartStates, StopStates,
               manager, dispatcher, task, control, vars
  <2>3. CASE state_ # "STARTED"
    BY <2>3 DEF TimerInv, TypeOK, Counts, DispatcherCollects,
       ManagerStates, DispatcherStates, TaskStates, StartStates, StopStates,
       manager, dispatcher, task, control, vars
  <2> QED BY <2>2, <2>3
<1>5. Keys'
  <2> SUFFICES ASSUME NEW t \in Tasks, t \in Expired, state_ = "STARTED"
               PROVE  toMilliseconds(asked[t]) <= currentTime
    BY DEF TimerInv, TypeOK, Keys, currentTime, DispatcherCollects, Expired, control
  <2>1. toMilliseconds(asked[t]) <= due[t] /\ due[t] <= currentTime
    BY DEF TimerInv, Keys, Expired
  <2> QED BY <2>1, TimesAreNumbers DEF TimerInv
<1>6. Sleep'
  BY DEF TimerInv, Sleep, DispatcherCollects, Expired, control
<1> QED BY <1>1, <1>2, <1>3, <1>4, <1>5, <1>6 DEF TimerInv

\* A collected task runs.
LEMMA RunsKeeps ==
  ASSUME TimerInv, NEW t \in Tasks, DispatcherRuns(t)
  PROVE  TimerInv'
<1>1. TypeOK'
  BY DEF TimerInv, TypeOK, ManagerStates, DispatcherStates, TaskStates, StartStates,
     StopStates, DispatcherRuns, manager, control
<1>2. Stages'
  BY DEF TimerInv, TypeOK, Stages, DispatcherRuns, manager, control
<1>3. Waiters'
  BY DEF TimerInv, TypeOK, Waiters, DispatcherRuns, manager, control
<1>4. Counts'
  BY DEF TimerInv, TypeOK, Counts, DispatcherRuns, manager, control
<1>5. Keys'
  BY DEF TimerInv, TypeOK, Keys, currentTime, DispatcherRuns, manager, control
<1>6. Sleep'
  BY DEF TimerInv, Sleep, DispatcherRuns, manager, control
<1> QED BY <1>1, <1>2, <1>3, <1>4, <1>5, <1>6 DEF TimerInv

\* The dispatcher looks at state_ without monitor_.
LEMMA TestsKeeps ==
  ASSUME TimerInv, DispatcherTests
  PROVE  TimerInv'
<1>1. TypeOK'
  BY DEF TimerInv, TypeOK, ManagerStates, DispatcherStates, TaskStates, StartStates,
     StopStates, DispatcherTests, manager, task, control
<1>2. Stages'
  BY DEF TimerInv, TypeOK, Stages, DispatcherTests, manager, task, control
<1>3. Waiters'
  BY DEF TimerInv, TypeOK, Waiters, DispatcherTests, manager, task, control
<1>4. Counts'
  BY DEF TimerInv, TypeOK, Counts, DispatcherTests, manager, task, control
<1>5. Keys'
  BY DEF TimerInv, TypeOK, Keys, currentTime, DispatcherTests, manager, task, control
<1>6. Sleep'
  BY DEF TimerInv, Sleep, DispatcherTests, manager, task, control
<1> QED BY <1>1, <1>2, <1>3, <1>4, <1>5, <1>6 DEF TimerInv

\* The dispatcher goes.
LEMMA StopsKeeps ==
  ASSUME TimerInv, DispatcherStops
  PROVE  TimerInv'
<1>1. TypeOK'
  BY DEF TimerInv, TypeOK, ManagerStates, DispatcherStates, TaskStates, StartStates,
     StopStates, DispatcherStops, WokenStoppers, ParkedStoppers, task
<1>2. Stages'
  BY DEF TimerInv, TypeOK, Stages, DispatcherStops, WokenStoppers, ParkedStoppers, task
<1>3. Waiters'
  BY DEF TimerInv, TypeOK, Waiters, DispatcherStops, WokenStoppers, ParkedStoppers, task
<1>4. Counts'
  BY DEF TimerInv, TypeOK, Counts, DispatcherStops, WokenStoppers, ParkedStoppers, task
<1>5. Keys'
  BY DEF TimerInv, TypeOK, Keys, currentTime, DispatcherStops, WokenStoppers, ParkedStoppers, task
<1>6. Sleep'
  BY DEF TimerInv, Sleep, DispatcherStops, WokenStoppers, ParkedStoppers, task
<1> QED BY <1>1, <1>2, <1>3, <1>4, <1>5, <1>6 DEF TimerInv

\* The dispatcher's wait ends.
LEMMA TimesOutKeeps ==
  ASSUME TimerInv, DispatcherTimesOut
  PROVE  TimerInv'
<1>1. TypeOK'
  BY DEF TimerInv, TypeOK, ManagerStates, DispatcherStates, TaskStates, StartStates,
     StopStates, DispatcherTimesOut, Never, manager, task, control
<1>2. Stages'
  BY DEF TimerInv, TypeOK, Stages, DispatcherTimesOut, Never, manager, task, control
<1>3. Waiters'
  BY DEF TimerInv, TypeOK, Waiters, DispatcherTimesOut, Never, manager, task, control
<1>4. Counts'
  BY DEF TimerInv, TypeOK, Counts, DispatcherTimesOut, Never, manager, task, control
<1>5. Keys'
  BY DEF TimerInv, TypeOK, Keys, currentTime, DispatcherTimesOut, Never, manager, task, control
<1>6. Sleep'
  BY DEF TimerInv, Sleep, DispatcherTimesOut, Never, manager, task, control
<1> QED BY <1>1, <1>2, <1>3, <1>4, <1>5, <1>6 DEF TimerInv

\* start() is called.
LEMMA StartKeeps ==
  ASSUME TimerInv, NEW c \in Starters, Start(c)
  PROVE  TimerInv'
<1>1. TypeOK'
  BY DEF TimerInv, TypeOK, ManagerStates, DispatcherStates, TaskStates, StartStates,
     StopStates, Start, dispatcher, task
<1>2. Stages'
  BY DEF TimerInv, TypeOK, Stages, Start, dispatcher, task
<1>3. Waiters'
  BY DEF TimerInv, TypeOK, Waiters, Start, dispatcher, task
<1>4. Counts'
  BY DEF TimerInv, TypeOK, Counts, Start, dispatcher, task
<1>5. Keys'
  BY DEF TimerInv, TypeOK, Keys, currentTime, Start, dispatcher, task
<1>6. Sleep'
  BY DEF TimerInv, Sleep, Start, dispatcher, task
<1> QED BY <1>1, <1>2, <1>3, <1>4, <1>5, <1>6 DEF TimerInv

\* start() creates the thread.
LEMMA LaunchesKeeps ==
  ASSUME TimerInv, NEW c \in Starters, StartLaunches(c)
  PROVE  TimerInv'
<1>1. TypeOK'
  BY DEF TimerInv, TypeOK, ManagerStates, DispatcherStates, TaskStates, StartStates,
     StopStates, StartLaunches, manager, task
<1>2. Stages'
  BY DEF TimerInv, TypeOK, Stages, StartLaunches, manager, task
<1>3. Waiters'
  BY DEF TimerInv, TypeOK, Waiters, StartLaunches, manager, task
<1>4. Counts'
  BY DEF TimerInv, TypeOK, Counts, Stages, Waiters, StartLaunches, manager, task
<1>5. Keys'
  BY DEF TimerInv, TypeOK, Keys, currentTime, StartLaunches, manager, task
<1>6. Sleep'
  BY DEF TimerInv, Sleep, StartLaunches, manager, task
<1> QED BY <1>1, <1>2, <1>3, <1>4, <1>5, <1>6 DEF TimerInv

\* start() cannot create the thread.
LEMMA FailsKeeps ==
  ASSUME TimerInv, NEW c \in Starters, StartFails(c)
  PROVE  TimerInv'
<1>1. TypeOK'
  BY DEF TimerInv, TypeOK, ManagerStates, DispatcherStates, TaskStates, StartStates,
     StopStates, StartFails, manager, dispatcher, task
<1>2. Stages'
  BY DEF TimerInv, TypeOK, Stages, StartFails, manager, dispatcher, task
<1>3. Waiters'
  BY DEF TimerInv, TypeOK, Waiters, StartFails, manager, dispatcher, task
<1>4. Counts'
  BY DEF TimerInv, TypeOK, Counts, StartFails, manager, dispatcher, task
<1>5. Keys'
  BY DEF TimerInv, TypeOK, Keys, currentTime, StartFails, manager, dispatcher, task
<1>6. Sleep'
  BY DEF TimerInv, Sleep, StartFails, manager, dispatcher, task
<1> QED BY <1>1, <1>2, <1>3, <1>4, <1>5, <1>6 DEF TimerInv

\* start() waits or returns.
LEMMA StartWaitsKeeps ==
  ASSUME TimerInv, NEW c \in Starters, StartWaits(c)
  PROVE  TimerInv'
<1>1. TypeOK'
  BY DEF TimerInv, TypeOK, ManagerStates, DispatcherStates, TaskStates, StartStates,
     StopStates, StartWaits, manager, dispatcher, task
<1>2. Stages'
  BY DEF TimerInv, TypeOK, Stages, StartWaits, manager, dispatcher, task
<1>3. Waiters'
  BY DEF TimerInv, TypeOK, Waiters, StartWaits, manager, dispatcher, task
<1>4. Counts'
  BY DEF TimerInv, TypeOK, Counts, StartWaits, manager, dispatcher, task
<1>5. Keys'
  BY DEF TimerInv, TypeOK, Keys, currentTime, StartWaits, manager, dispatcher, task
<1>6. Sleep'
  BY DEF TimerInv, Sleep, StartWaits, manager, dispatcher, task
<1> QED BY <1>1, <1>2, <1>3, <1>4, <1>5, <1>6 DEF TimerInv

\* stop() is called.
LEMMA StopKeeps ==
  ASSUME TimerInv, NEW c \in Stoppers, Stop(c)
  PROVE  TimerInv'
<1>1. TypeOK'
  BY DEF TimerInv, TypeOK, ManagerStates, DispatcherStates, TaskStates, StartStates,
     StopStates, Stop, StopDone, ParkedStarters, ParkedStoppers, Never, task
<1>2. Stages'
  BY DEF TimerInv, TypeOK, Stages, Stop, StopDone, ParkedStarters, ParkedStoppers,
     Never, task
<1>3. Waiters'
  BY DEF TimerInv, TypeOK, Waiters, Stages, ManagerStates, Stop, StopDone,
     ParkedStarters, ParkedStoppers
<1>4. Counts'
  BY DEF TimerInv, TypeOK, Counts, Stop, StopDone, ParkedStarters, ParkedStoppers,
     Never, task
<1>5. Keys'
  BY DEF TimerInv, TypeOK, Keys, currentTime, Stop, StopDone, ParkedStarters, ParkedStoppers, Never,
     task
<1>6. Sleep'
  BY DEF TimerInv, Sleep, Stop, StopDone, ParkedStarters, ParkedStoppers, Never, task
<1> QED BY <1>1, <1>2, <1>3, <1>4, <1>5, <1>6 DEF TimerInv

\* stop() waits again or is done.
LEMMA StopWaitsKeeps ==
  ASSUME TimerInv, NEW c \in Stoppers, StopWaits(c)
  PROVE  TimerInv'
<1>1. TypeOK'
  BY DEF TimerInv, TypeOK, ManagerStates, DispatcherStates, TaskStates, StartStates,
     StopStates, StopWaits, StopDone, manager, dispatcher, task
<1>2. Stages'
  BY DEF TimerInv, TypeOK, Stages, StopWaits, StopDone, manager, dispatcher, task
<1>3. Waiters'
  BY DEF TimerInv, TypeOK, Waiters, StopWaits, StopDone, manager, dispatcher, task
<1>4. Counts'
  BY DEF TimerInv, TypeOK, Counts, StopWaits, StopDone, manager, dispatcher, task
<1>5. Keys'
  BY DEF TimerInv, TypeOK, Keys, currentTime, StopWaits, StopDone, manager, dispatcher, task
<1>6. Sleep'
  BY DEF TimerInv, Sleep, StopWaits, StopDone, manager, dispatcher, task
<1> QED BY <1>1, <1>2, <1>3, <1>4, <1>5, <1>6 DEF TimerInv

\* stop() clears taskMap_ and detaches the dispatcher.
LEMMA CleansKeeps ==
  ASSUME TimerInv, NEW c \in Stoppers, StopCleans(c)
  PROVE  TimerInv'
<1>1. TypeOK'
  <2>1. due' \in [Tasks -> Int] /\ asked' \in [Tasks -> Int]
    BY DEF TimerInv, TypeOK, StopCleans
  <2>2. tstate' \in [Tasks -> TaskStates] /\ stoppc' \in [Stoppers -> StopStates]
    BY DEF TimerInv, TypeOK, TaskStates, StopStates, StopCleans
  <2> QED BY <2>1, <2>2 DEF TimerInv, TypeOK, StopCleans
<1>2. Stages'
  BY DEF TimerInv, TypeOK, Stages, StopCleans
<1>3. Waiters'
  BY DEF TimerInv, TypeOK, Waiters, StopCleans
<1>4. Counts'
  BY DEF TimerInv, TypeOK, Counts, Stages, Waiters, StopCleans
<1>5. Keys'
  BY DEF TimerInv, TypeOK, Keys, currentTime, StopCleans
<1>6. Sleep'
  BY DEF TimerInv, Sleep, StopCleans
<1> QED BY <1>1, <1>2, <1>3, <1>4, <1>5, <1>6 DEF TimerInv

\* add is called with a timeout.
LEMMA DelayKeeps ==
  ASSUME TimerInv, NEW t \in Tasks, NEW d \in Delays, AddDelay(t, d)
  PROVE  TimerInv'
<1>1. TypeOK'
  BY TimerAssumption DEF TimerInv, TypeOK, ManagerStates, DispatcherStates, TaskStates,
     StartStates, StopStates, AddDelay, manager, dispatcher, control
<1>2. Stages'
  BY DEF TimerInv, TypeOK, Stages, AddDelay, manager, dispatcher, control
<1>3. Waiters'
  BY DEF TimerInv, TypeOK, Waiters, AddDelay, manager, dispatcher, control
<1>4. Counts'
  BY DEF TimerInv, TypeOK, Counts, AddDelay, manager, dispatcher, control
<1>5. Keys'
  <2>1. clock \in Int /\ d \in Int /\ currentTime \in Nat
    BY TimerAssumption, TimesAreNumbers DEF TimerInv
  <2>2. toMilliseconds(clock + TicksPerMs * d) = currentTime + d
    BY <2>1, RoundingShifts DEF currentTime
  <2> QED BY <2>1, <2>2 DEF TimerInv, TypeOK, Keys, currentTime, AddDelay,
          manager, dispatcher, control
<1>6. Sleep'
  BY DEF TimerInv, Sleep, AddDelay, manager, dispatcher, control
<1> QED BY <1>1, <1>2, <1>3, <1>4, <1>5, <1>6 DEF TimerInv

\* add is called with an absolute time.
LEMMA ExpirationKeeps ==
  ASSUME TimerInv, NEW t \in Tasks, NEW e \in Expirations, AddExpiration(t, e)
  PROVE  TimerInv'
<1>1. TypeOK'
  <2>1. e \in Int /\ toMilliseconds(e) \in Int /\ currentTime \in Nat
    BY TimerAssumption, TimesAreNumbers, RoundingError DEF TimerInv
  <2> QED BY <2>1 DEF TimerInv, TypeOK, ManagerStates, DispatcherStates, TaskStates,
     StartStates, StopStates, AddExpiration, manager, dispatcher, control
<1>2. Stages'
  BY DEF TimerInv, TypeOK, Stages, AddExpiration, manager, dispatcher, control
<1>3. Waiters'
  BY DEF TimerInv, TypeOK, Waiters, AddExpiration, manager, dispatcher, control
<1>4. Counts'
  BY DEF TimerInv, TypeOK, Counts, AddExpiration, manager, dispatcher, control
<1>5. Keys'
  <2>1. e \in Int /\ toMilliseconds(e) \in Int /\ currentTime \in Nat
    BY TimerAssumption, TimesAreNumbers, RoundingError DEF TimerInv
  <2> QED BY <2>1 DEF TimerInv, TypeOK, Keys, currentTime, AddExpiration,
          manager, dispatcher, control
<1>6. Sleep'
  BY DEF TimerInv, Sleep, AddExpiration, manager, dispatcher, control
<1> QED BY <1>1, <1>2, <1>3, <1>4, <1>5, <1>6 DEF TimerInv

\* add computes the key.
LEMMA ReadsClockKeeps ==
  ASSUME TimerInv, NEW t \in Tasks, AddReadsClock(t)
  PROVE  TimerInv'
<1>1. TypeOK'
  <2>1. currentTime + delay[t] \in Int
    BY TimesAreNumbers DEF TimerInv
  <2> QED BY <2>1 DEF TimerInv, TypeOK, ManagerStates, DispatcherStates, TaskStates, StartStates,
     StopStates, AddReadsClock, manager, dispatcher, control
<1>2. Stages'
  BY DEF TimerInv, TypeOK, Stages, AddReadsClock, manager, dispatcher, control
<1>3. Waiters'
  BY DEF TimerInv, TypeOK, Waiters, AddReadsClock, manager, dispatcher, control
<1>4. Counts'
  BY DEF TimerInv, TypeOK, Counts, AddReadsClock, manager, dispatcher, control
<1>5. Keys'
  BY DEF TimerInv, TypeOK, Keys, currentTime, AddReadsClock, manager, dispatcher, control
<1>6. Sleep'
  BY DEF TimerInv, Sleep, Stages, Waiters, TypeOK, Counts, Keys, AddReadsClock, manager,
     dispatcher, control
<1> QED BY <1>1, <1>2, <1>3, <1>4, <1>5, <1>6 DEF TimerInv

\* add puts the task into taskMap_ and kicks the dispatcher.
LEMMA InsertsKeeps ==
  ASSUME TimerInv, NEW t \in Tasks, AddInserts(t)
  PROVE  TimerInv'
<1>1. TypeOK'
  BY DEF TimerInv, TypeOK, ManagerStates, DispatcherStates, TaskStates, StartStates,
     StopStates, AddInserts, Kicked, ParkedStarters, ParkedStoppers, Never
<1>2. Stages'
  BY DEF TimerInv, TypeOK, Stages, AddInserts, Kicked, ParkedStarters, ParkedStoppers,
     Never
<1>3. Waiters'
  BY DEF TimerInv, TypeOK, Waiters, AddInserts, Kicked, ParkedStarters, ParkedStoppers,
     Never
<1>4. Counts'
  <2>1. CASE state_ # "STARTED"
    BY <2>1 DEF TimerInv, Counts, AddInserts, manager, dispatcher, task, control, vars
  <2>2. CASE state_ = "STARTED"
    <3>1. attached /\ taskCount_ = Cardinality(taskMap_) /\ t \notin taskMap_
      BY <2>2 DEF TimerInv, Counts, Keys, AddInserts
    <3>2. IsFiniteSet(taskMap_)
      BY TasksFinite DEF TimerInv, TypeOK
    <3>3. Cardinality(taskMap_ \cup {t}) = Cardinality(taskMap_) + 1
      BY <3>1, <3>2, FS_AddElement
    <3> QED BY <2>2, <3>1, <3>3 DEF Counts, AddInserts
  <2> QED BY <2>1, <2>2
<1>5. Keys'
  BY DEF TimerInv, TypeOK, Keys, currentTime, AddInserts, Kicked, ParkedStarters, ParkedStoppers,
     Never
<1>6. Sleep'
  <2>1. CASE state_ # "STARTED"
    BY <2>1 DEF TimerInv, Waiters, Sleep, AddInserts
  <2>2. CASE state_ = "STARTED" /\ dpc # "parked"
    <3>1. dpc' # "parked"
      BY <2>2 DEF AddInserts
    <3> QED BY <3>1 DEF Sleep
  <2>3. CASE state_ = "STARTED" /\ dpc = "parked" /\ NotifyRequired(t)
    <3>1. ParkedStarters = {} /\ ParkedStoppers = {}
      BY <2>3 DEF TimerInv, Waiters, ParkedStarters, ParkedStoppers
    <3>2. Kicked = {<<"dispatcher">>}
      BY <2>3, <3>1 DEF Kicked
    <3>3. dpc' = "woken"
      BY <2>3, <3>2 DEF AddInserts
    <3> QED BY <3>3 DEF Sleep
  <2>4. CASE state_ = "STARTED" /\ dpc = "parked" /\ ~NotifyRequired(t)
    <3>1. PICK u \in taskMap_ : ~(due[t] < due[u])
      BY <2>4 DEF NotifyRequired
    <3>2. deadline # Never /\ deadline <= due[u] + Lag
      BY <2>4, <3>1 DEF TimerInv, Sleep
    <3>3. due[u] \in Int /\ due[t] \in Int /\ deadline \in Int /\ Lag \in Int
      BY <3>1, TimerAssumption DEF TimerInv, TypeOK
    <3>4. deadline <= due[t] + Lag
      BY <3>1, <3>2, <3>3
    <3>5. taskMap_' = taskMap_ \cup {t} /\ deadline' = deadline /\ due' = due
      BY <2>4 DEF AddInserts
    <3> QED BY <2>4, <3>2, <3>4, <3>5 DEF TimerInv, Sleep
  <2> QED BY <2>1, <2>2, <2>3, <2>4
<1> QED BY <1>1, <1>2, <1>3, <1>4, <1>5, <1>6 DEF TimerInv

\* A condition variable wakes by itself.
LEMMA SpuriousKeeps ==
  ASSUME TimerInv, SpuriousWakeup
  PROVE  TimerInv'
<1>1. TypeOK'
  BY DEF TimerInv, TypeOK, ManagerStates, DispatcherStates, TaskStates, StartStates,
     StopStates, SpuriousWakeup, ParkedStarters, ParkedStoppers, Never, manager, task
<1>2. Stages'
  BY DEF TimerInv, TypeOK, Stages, SpuriousWakeup, ParkedStarters, ParkedStoppers,
     Never, manager, task
<1>3. Waiters'
  BY DEF TimerInv, TypeOK, Waiters, SpuriousWakeup, ParkedStarters, ParkedStoppers,
     Never, manager, task
<1>4. Counts'
  BY DEF TimerInv, TypeOK, Counts, SpuriousWakeup, ParkedStarters, ParkedStoppers,
     Never, manager, task
<1>5. Keys'
  BY DEF TimerInv, TypeOK, Keys, currentTime, SpuriousWakeup, ParkedStarters, ParkedStoppers, Never,
     manager, task
<1>6. Sleep'
  BY DEF TimerInv, Sleep, SpuriousWakeup, ParkedStarters, ParkedStoppers, Never,
     manager, task
<1> QED BY <1>1, <1>2, <1>3, <1>4, <1>5, <1>6 DEF TimerInv

\* Time passes.
LEMMA TickKeeps ==
  ASSUME TimerInv, Tick
  PROVE  TimerInv'
<1>1. TypeOK'
  BY TimerAssumption DEF TimerInv, TypeOK, ManagerStates, DispatcherStates, TaskStates,
     StartStates, StopStates, Tick, manager, dispatcher, task, control
<1>2. Stages'
  BY DEF TimerInv, TypeOK, Stages, Tick, manager, dispatcher, task, control
<1>3. Waiters'
  BY DEF TimerInv, TypeOK, Waiters, Tick, manager, dispatcher, task, control
<1>4. Counts'
  BY DEF TimerInv, TypeOK, Counts, Tick, manager, dispatcher, task, control
<1>5. Keys'
  <2>1. clock' \in Nat /\ clock <= clock'
    BY DEF TimerInv, TypeOK, Tick
  <2> QED BY <2>1, LaterKeepsKeys DEF TimerInv, Tick, manager, dispatcher, task
<1>6. Sleep'
  BY DEF TimerInv, Sleep, Tick, manager, dispatcher, task, control
<1> QED BY <1>1, <1>2, <1>3, <1>4, <1>5, <1>6 DEF TimerInv

-----------------------------------------------------------------------------
(* The theorems *)

\* Every step of the timer keeps the invariant.
LEMMA TimerStep ==
  ASSUME TimerInv, [Next]_vars
  PROVE  TimerInv'
<1>1. CASE UNCHANGED vars
  BY <1>1 DEF TimerInv, TypeOK, Stages, Waiters, Counts, Keys, Sleep, currentTime, vars
<1>2. CASE Dispatch
  BY <1>2, StartsKeeps, WaitsKeeps, CollectsKeeps, RunsKeeps, TestsKeeps, StopsKeeps,
     TimesOutKeeps DEF Dispatch
<1>3. CASE \E c \in Starters : Starting(c)
  BY <1>3, StartKeeps, LaunchesKeeps, FailsKeeps, StartWaitsKeeps DEF Starting
<1>4. CASE \E c \in Stoppers : Stopping(c)
  BY <1>4, StopKeeps, StopWaitsKeeps, CleansKeeps DEF Stopping
<1>5. CASE \E t \in Tasks : Adding(t)
  BY <1>5, DelayKeeps, ExpirationKeeps, ReadsClockKeeps, InsertsKeeps DEF Adding
<1>6. CASE SpuriousWakeup
  BY <1>6, SpuriousKeeps
<1>7. CASE Tick
  BY <1>7, TickKeeps
<1> QED BY <1>1, <1>2, <1>3, <1>4, <1>5, <1>6, <1>7 DEF Next

\* The inductive invariant: the stage the dispatcher has reached in each state of
\* the manager, what every waiter waits for, the counts, keys and deadline.
THEOREM TimerInvariant == Spec => []TimerInv
<1>1. Init => TimerInv
  BY TimerAssumption, FS_EmptySet
     DEF Init, TimerInv, TypeOK, Stages, Waiters, Counts, Keys, Sleep, Never,
         ManagerStates, DispatcherStates, TaskStates, StartStates, StopStates
<1>2. TimerInv /\ [Next]_vars => TimerInv'
  BY TimerStep
<1> QED BY <1>1, <1>2, PTL DEF Spec

\* Every variable keeps its type; taskCount_, a size_t, never wraps below zero.
THEOREM TimerTypeCorrect == Spec => []TypeOK
<1>1. TimerInv => TypeOK
  BY DEF TimerInv
<1> QED BY <1>1, TimerInvariant, PTL

\* The dispatcher's assertion holds: taskCount_ counts taskMap_ while it runs.
THEOREM CountCorrect == Spec => []CountMatches
<1>1. TimerInv => CountMatches
  BY DEF TimerInv, Counts, CountMatches
<1> QED BY <1>1, TimerInvariant, PTL

\* The dispatcher never sleeps past the first task.
THEOREM SleepBounded == Spec => []NoOversleep
<1>1. TimerInv => NoOversleep
  BY DEF TimerInv, Sleep, NoOversleep
<1> QED BY <1>1, TimerInvariant, PTL

\* add's notify can reach nobody but the dispatcher.
THEOREM NotifyNotLost == Spec => []NotifyReachesDispatcher
<1>1. TimerInv => NotifyReachesDispatcher
  BY DEF TimerInv, Waiters, NotifyReachesDispatcher, ParkedStarters, ParkedStoppers
<1> QED BY <1>1, TimerInvariant, PTL

\* stop() frees taskMap_ and detaches the dispatcher after its last use of them.
THEOREM StopSafe == Spec => []DetachedAfterLastUse
<1>1. TimerInv => DetachedAfterLastUse
  BY DEF TimerInv, Stages, Waiters, Counts, DetachedAfterLastUse
<1> QED BY <1>1, TimerInvariant, PTL

\* No task runs before the millisecond it was asked for, nor a millisecond or more
\* before the time it was asked for, however fine the clock is.
THEOREM TasksNotEarly == Spec => []NeverEarly
<1>1. TimerInv => NeverEarly
  <2> SUFFICES ASSUME TimerInv, NEW t \in Tasks, tstate[t] = "EXECUTING"
               PROVE  /\ toMilliseconds(asked[t]) <= currentTime
                      /\ asked[t] - clock < TicksPerMs
    BY DEF NeverEarly
  <2>1. toMilliseconds(asked[t]) <= currentTime
    BY DEF TimerInv, Keys
  <2>2. asked[t] \in Int /\ clock \in Int
    BY DEF TimerInv, TypeOK
  <2> QED BY <2>1, <2>2, RoundingGap DEF currentTime
<1> QED BY <1>1, TimerInvariant, PTL
=============================================================================
