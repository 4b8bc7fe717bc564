--------------------------- MODULE ThreadManager ---------------------------
(***************************************************************************)
(* concurrency/ThreadManager.cpp: a pool of worker threads, a bounded      *)
(* queue of tasks, and the threads that resize, start, stop and join it.   *)
(*                                                                         *)
(* mutex_ is shared by monitor_ (idle workers wait on it) and maxMonitor_  *)
(* (blocked callers of add wait on it); workerMonitor_ has a mutex of its  *)
(* own (resizing threads wait on it).  Code that runs under one of the two *)
(* mutexes is one action, and code between two such blocks is an action of *)
(* its own when it reads or writes shared state.  A waiting thread is      *)
(* "parked", "blocked" or "waiting" until a notify, or a spurious wakeup,  *)
(* makes it "woken"; it then has to take the mutex again.                  *)
(*                                                                         *)
(* Every task is passed to add once, by a thread of its own or, for the    *)
(* tasks of Inner, by a worker from within the task it is running.  So the *)
(* caller of add is known by its task, and a task is "blocked" or "woken"  *)
(* while its caller is inside maxMonitor_.wait.                            *)
(***************************************************************************)
EXTENDS Integers, Sequences, FiniteSets

CONSTANTS
  Workers,              \* thread objects addWorker may create
  Controllers,          \* threads that start, resize, stop and join
  Tasks,
  Expiring,             \* tasks added with an expiration
  Inner,                \* tasks added from within a running task
  Timeouts,             \* the timeout arguments of add: -1, 0 or positive
  PendingTaskCountMax,  \* SimpleThreadManager's limit; 0 means none
  StartMayFail,         \* thread creation may throw
  Stealing,             \* somebody calls removeNextPending
  Nobody                \* no worker, no task

ASSUME PoolAssumption ==
  /\ IsFiniteSet(Workers)
  /\ Nobody \notin Workers \cup Tasks
  /\ Expiring \subseteq Tasks
  /\ Inner \subseteq Tasks
  /\ Timeouts \subseteq Int
  /\ PendingTaskCountMax \in Nat
  /\ StartMayFail \in BOOLEAN
  /\ Stealing \in BOOLEAN

VARIABLES
  \* ThreadManager::Impl
  state_, workerCount_, workerMaxCount_, idleCount_, expiredCount_, tasks_,
  workers_, deadWorkers_, idMap_,
  \* the workers
  wpc,                  \* where each worker thread is
  current,              \* the task each worker is running
  \* the tasks and their callers
  tstate,               \* where each task is
  caller,               \* the worker that is adding a task of Inner
  timed,                \* tasks whose blocked caller gave a positive timeout
  overdue,              \* queued tasks whose expiration time has passed
  \* the controllers
  cpc,                  \* where each controller is
  cop,                  \* the operation it is performing
  cval,                 \* the number of workers to remove
  cnew,                 \* the threads addWorker still has to start
  \* history, read by no action
  late                  \* tasks queued when the manager was not started

pool == <<workers_, deadWorkers_, idMap_>>
counts == <<workerCount_, workerMaxCount_, idleCount_>>
worker == <<wpc, current>>
task == <<tstate, caller, timed, overdue, late>>
control == <<cpc, cop, cval, cnew>>
vars == <<state_, workerCount_, workerMaxCount_, idleCount_, expiredCount_, tasks_,
          workers_, deadWorkers_, idMap_, wpc, current, tstate, caller, timed,
          overdue, cpc, cop, cval, cnew, late>>

ManagerStates == {"UNINITIALIZED", "STARTED", "JOINING", "STOPPING", "STOPPED"}

\* A worker is "new" until its first block; "greeting" when it has still to tell
\* the manager that the pool is complete; at "loop" before it takes mutex_;
\* "parked" or "woken" around monitor_.wait; "leaving" when it has dropped out
\* of workerCount_ ("leavingLast" if it has to notify); then "dead".
WorkerStates == {"unborn", "new", "greeting", "loop", "parked", "woken", "running",
                 "leaving", "leavingLast", "dead"}

\* A task is "lost" when add threw, "stolen" when removeNextPending returned it.
TaskStates == {"unborn", "blocked", "woken", "queued", "running", "done",
               "expired", "stolen", "lost"}

ControllerStates == {"out", "starting", "stopping", "shrinking", "checking",
                     "waiting", "woken", "finishing"}
Operations == {"none", "addWorker", "removeWorker", "stop"}

In(S) == {w \in Workers : wpc[w] \in S}
Parked == In({"parked"})
Idle == In({"parked", "woken"})
Registered == In({"greeting", "loop", "parked", "woken", "running"})

\* The registered workers that are about to look at tasks_.
Awake == In({"greeting", "loop", "woken"})

Blocked == {t \in Tasks : tstate[t] = "blocked"}
Woken == {t \in Tasks : tstate[t] = "woken"}

\* The ways notify() on a monitor can choose among its waiters.
OneOf(waiters) == IF waiters = {} THEN {{}} ELSE {{x} : x \in waiters}

\* f with every member of S moved to state v.
Mark(f, S, v) == [x \in DOMAIN f |-> IF x \in S THEN v ELSE f[x]]

Init ==
  /\ state_ = "UNINITIALIZED"
  /\ workerCount_ = 0
  /\ workerMaxCount_ = 0
  /\ idleCount_ = 0
  /\ expiredCount_ = 0
  /\ tasks_ = <<>>
  /\ workers_ = {}
  /\ deadWorkers_ = {}
  /\ idMap_ = {}
  /\ wpc = [w \in Workers |-> "unborn"]
  /\ current = [w \in Workers |-> Nobody]
  /\ tstate = [t \in Tasks |-> "unborn"]
  /\ caller = [t \in Tasks |-> Nobody]
  /\ timed = {}
  /\ overdue = {}
  /\ cpc = [c \in Controllers |-> "out"]
  /\ cop = [c \in Controllers |-> "none"]
  /\ cval = [c \in Controllers |-> 0]
  /\ cnew = [c \in Controllers |-> {}]
  /\ late = {}

-----------------------------------------------------------------------------
(* Mutated forms of the definitions below: plausible slips in this code. *)

\* decrements idleCount_ for a worker that was not idle
EagerIdleWithout(w) == idleCount_ - 1

\* does not decrement idleCount_ after the wait
LazyIdleWithout(w) == idleCount_

\* forgets that join() drains the queue
JoinBlindIsActive == workerCount_ <= workerMaxCount_

\* does not tell the manager that the pool is complete
SilentWorkerGreets(w) ==
  /\ wpc[w] = "greeting"
  /\ wpc' = [wpc EXCEPT ![w] = "loop"]
  /\ UNCHANGED <<state_, counts, expiredCount_, tasks_, pool, current, task, control>>

\* "just dropped below it" is off by one
LateAddersNotified(size) ==
  IF PendingTaskCountMax # 0 /\ size < PendingTaskCountMax - 1 THEN OneOf(Blocked) ELSE {{}}

\* notifies only when the queue was empty
FirstOnlyPush(t, pending) ==
  /\ tasks_' = Append(pending, t)
  /\ \E S \in IF pending = <<>> THEN OneOf(Parked) ELSE {{}} : wpc' = Mark(wpc, S, "woken")
  /\ late' = IF state_ = "STARTED" THEN late ELSE late \cup {t}

\* does not notify
SilentPush(t, pending) ==
  /\ tasks_' = Append(pending, t)
  /\ UNCHANGED wpc
  /\ late' = IF state_ = "STARTED" THEN late ELSE late \cup {t}

\* tests the limit once instead of in a loop
IfNotWhileAddResumes(t) ==
  /\ tstate[t] = "woken"
  /\ tstate' = [tstate EXCEPT ![t] = "queued"]
  /\ caller' = [caller EXCEPT ![t] = Nobody]
  /\ timed' = timed \ {t}
  /\ tasks_' = Append(tasks_, t)
  /\ \E S \in OneOf(Parked) : wpc' = Mark(wpc, S, "woken")
  /\ UNCHANGED <<state_, counts, expiredCount_, pool, current, overdue, late, control>>

\* returns the task without popping it
PeekingRemoveNextPending ==
  /\ Stealing
  /\ state_ = "STARTED"
  /\ tasks_ # <<>>
  /\ tstate' = [tstate EXCEPT ![Head(tasks_)] = "stolen"]
  /\ UNCHANGED <<state_, counts, expiredCount_, tasks_, pool, worker, caller, timed,
                 overdue, late, control>>

\* wakes one idle worker, however many have to go
OneNotified(value) == OneOf(Parked)

-----------------------------------------------------------------------------
(* Tasks that expire *)

\* The number of tasks removeExpiredTasks pops: it stops at the first task that
\* has no expiration or has not reached it.
ExpiredPrefix ==
  CHOOSE k \in 0 .. Len(tasks_) :
    /\ \A i \in 1 .. k : tasks_[i] \in overdue
    /\ k < Len(tasks_) => tasks_[k + 1] \notin overdue

Expired == {tasks_[i] : i \in 1 .. ExpiredPrefix}
Unexpired == SubSeq(tasks_, ExpiredPrefix + 1, Len(tasks_))

\* Time passes: a queued task reaches its expiration.
Expire(t) ==
  /\ t \in Expiring \ overdue
  /\ tstate[t] = "queued"
  /\ overdue' = overdue \cup {t}
  /\ UNCHANGED <<state_, counts, expiredCount_, tasks_, pool, worker, tstate, caller,
                 timed, late, control>>

\* expiredTaskCount() returns the count and resets it.
ExpiredTaskCount ==
  /\ expiredCount_ > 0
  /\ expiredCount_' = 0
  /\ UNCHANGED <<state_, counts, tasks_, pool, worker, task, control>>

-----------------------------------------------------------------------------
(* Worker::run *)

isActive ==
  \/ workerCount_ <= workerMaxCount_
  \/ state_ = "JOINING" /\ tasks_ # <<>>

\* notify() on workerMonitor_.
NotifyManager ==
  \E S \in OneOf({c \in Controllers : cpc[c] = "waiting"}) :
    cpc' = Mark(cpc, S, "woken")

\* The first block, for a worker the pool still has room for.
WorkerEnters(w) ==
  /\ wpc[w] = "new"
  /\ workerCount_ < workerMaxCount_
  /\ workerCount_' = workerCount_ + 1
  /\ wpc' = [wpc EXCEPT ![w] = IF workerCount_ + 1 = workerMaxCount_
                              THEN "greeting" ELSE "loop"]
  /\ UNCHANGED <<state_, workerMaxCount_, idleCount_, expiredCount_, tasks_, pool,
                 current, task, control>>

\* The first block, for a worker removeWorker has made superfluous.
WorkerUnneeded(w) ==
  /\ wpc[w] = "new"
  /\ workerCount_ >= workerMaxCount_
  /\ wpc' = [wpc EXCEPT ![w] = "leaving"]
  /\ UNCHANGED <<state_, counts, expiredCount_, tasks_, pool, current, task, control>>

WorkerGreets(w) ==
  /\ wpc[w] = "greeting"
  /\ wpc' = [wpc EXCEPT ![w] = "loop"]
  /\ NotifyManager
  /\ UNCHANGED <<state_, counts, expiredCount_, tasks_, pool, current, task,
                 cop, cval, cnew>>

\* A worker that holds mutex_ in the loop, from its top or from monitor_.wait.
AtQueue(w) == wpc[w] \in {"loop", "woken"}

\* idleCount_ once w is no longer idle.
IdleWithout(w) == IF wpc[w] = "woken" THEN idleCount_ - 1 ELSE idleCount_

\* Nothing to do: wait on monitor_.
WorkerParks(w) ==
  /\ AtQueue(w)
  /\ isActive
  /\ tasks_ = <<>>
  /\ idleCount_' = IdleWithout(w) + 1
  /\ wpc' = [wpc EXCEPT ![w] = "parked"]
  /\ UNCHANGED <<state_, workerCount_, workerMaxCount_, expiredCount_, tasks_, pool,
                 current, task, control>>

\* Everything pending has expired: go round the loop again.
WorkerFindsExpired(w) ==
  /\ AtQueue(w)
  /\ isActive
  /\ tasks_ # <<>>
  /\ Unexpired = <<>>
  /\ idleCount_' = IdleWithout(w)
  /\ expiredCount_' = expiredCount_ + ExpiredPrefix
  /\ tstate' = Mark(tstate, Expired, "expired")
  /\ tasks_' = <<>>
  /\ wpc' = [wpc EXCEPT ![w] = "loop"]
  /\ UNCHANGED <<state_, workerCount_, workerMaxCount_, pool, current, caller, timed,
                 overdue, late, control>>

\* The callers of add that maxMonitor_.notify may wake when a worker has left
\* size tasks in the queue.
AddersNotified(size) ==
  IF PendingTaskCountMax # 0 /\ size <= PendingTaskCountMax - 1 THEN OneOf(Blocked) ELSE {{}}

\* Dequeue the first task that has not expired, and wake a blocked caller of
\* add if the queue is below its limit.
WorkerTakes(w) ==
  /\ AtQueue(w)
  /\ isActive
  /\ Unexpired # <<>>
  /\ idleCount_' = IdleWithout(w)
  /\ expiredCount_' = expiredCount_ + ExpiredPrefix
  /\ tasks_' = Tail(Unexpired)
  /\ \E S \in AddersNotified(Len(Unexpired) - 1) :
       tstate' = [Mark(Mark(tstate, Expired, "expired"), S, "woken")
                    EXCEPT ![Head(Unexpired)] = "running"]
  /\ current' = [current EXCEPT ![w] = Head(Unexpired)]
  /\ wpc' = [wpc EXCEPT ![w] = "running"]
  /\ UNCHANGED <<state_, workerCount_, workerMaxCount_, pool, caller, timed, overdue,
                 late, control>>

\* The pool has shrunk: leave it.
WorkerRetires(w) ==
  /\ AtQueue(w)
  /\ ~isActive
  /\ idleCount_' = IdleWithout(w)
  /\ workerCount_' = workerCount_ - 1
  /\ wpc' = [wpc EXCEPT ![w] = IF workerCount_ - 1 = workerMaxCount_
                              THEN "leavingLast" ELSE "leaving"]
  /\ UNCHANGED <<state_, workerMaxCount_, expiredCount_, tasks_, pool, current, task,
                 control>>

\* The task ends, or throws: both are the same to the worker.
WorkerFinishes(w) ==
  /\ wpc[w] = "running"
  /\ \A t \in Tasks : caller[t] # w
  /\ tstate' = [tstate EXCEPT ![current[w]] = "done"]
  /\ current' = [current EXCEPT ![w] = Nobody]
  /\ wpc' = [wpc EXCEPT ![w] = "loop"]
  /\ UNCHANGED <<state_, counts, expiredCount_, tasks_, pool, caller, timed, overdue,
                 late, control>>

\* The last block, on workerMonitor_.
WorkerDies(w) ==
  /\ wpc[w] \in {"leaving", "leavingLast"}
  /\ deadWorkers_' = deadWorkers_ \cup {w}
  /\ IF wpc[w] = "leavingLast" THEN NotifyManager ELSE UNCHANGED cpc
  /\ wpc' = [wpc EXCEPT ![w] = "dead"]
  /\ UNCHANGED <<state_, counts, expiredCount_, tasks_, workers_, idMap_, current, task,
                 cop, cval, cnew>>

WorkerWakesSpuriously(w) ==
  /\ wpc[w] = "parked"
  /\ wpc' = [wpc EXCEPT ![w] = "woken"]
  /\ UNCHANGED <<state_, counts, expiredCount_, tasks_, pool, current, task, control>>

-----------------------------------------------------------------------------
(* add, called for task t by worker w, or by a thread outside the pool when w
   is Nobody *)

canSleep(w) == w \notin idMap_

Calls(t, w) ==
  /\ tstate[t] = "unborn"
  /\ IF t \in Inner THEN /\ w \in Workers
                        /\ wpc[w] = "running"
                        /\ \A u \in Tasks : caller[u] # w
     ELSE w = Nobody

\* tasks_.push and the notify of monitor_, on the queue as pending has it.
Push(t, pending) ==
  /\ tasks_' = Append(pending, t)
  /\ \E S \in IF idleCount_ > 0 THEN OneOf(Parked) ELSE {{}} : wpc' = Mark(wpc, S, "woken")
  /\ late' = IF state_ = "STARTED" THEN late ELSE late \cup {t}

Full(pending) == PendingTaskCountMax > 0 /\ Len(pending) >= PendingTaskCountMax

\* The lock is not free for try_lock, or not in time.
AddTimesOut(t, w, timeout) ==
  /\ Calls(t, w)
  /\ timeout # 0
  /\ tstate' = [tstate EXCEPT ![t] = "lost"]
  /\ UNCHANGED <<state_, counts, expiredCount_, tasks_, pool, worker, caller, timed,
                 overdue, late, control>>

AddNotStarted(t, w) ==
  /\ Calls(t, w)
  /\ state_ # "STARTED"
  /\ tstate' = [tstate EXCEPT ![t] = "lost"]
  /\ UNCHANGED <<state_, counts, expiredCount_, tasks_, pool, worker, caller, timed,
                 overdue, late, control>>

\* removeExpiredTasks, and the queue is still full: wait on maxMonitor_ or throw
\* TooManyPendingTasksException.
AddFull(t, w, timeout) ==
  /\ Calls(t, w)
  /\ state_ = "STARTED"
  /\ Full(Unexpired)
  /\ expiredCount_' = expiredCount_ + ExpiredPrefix
  /\ tasks_' = Unexpired
  /\ IF canSleep(w) /\ timeout >= 0
     THEN /\ tstate' = [Mark(tstate, Expired, "expired") EXCEPT ![t] = "blocked"]
          /\ caller' = [caller EXCEPT ![t] = w]
          /\ timed' = IF timeout > 0 THEN timed \cup {t} ELSE timed
     ELSE /\ tstate' = [Mark(tstate, Expired, "expired") EXCEPT ![t] = "lost"]
          /\ UNCHANGED <<caller, timed>>
  /\ UNCHANGED <<state_, counts, pool, worker, overdue, late, control>>

AddQueues(t, w) ==
  /\ Calls(t, w)
  /\ state_ = "STARTED"
  /\ ~Full(Unexpired)
  /\ expiredCount_' = expiredCount_ + ExpiredPrefix
  /\ tstate' = [Mark(tstate, Expired, "expired") EXCEPT ![t] = "queued"]
  /\ Push(t, Unexpired)
  /\ UNCHANGED <<state_, counts, pool, current, caller, timed, overdue, control>>

\* Back from maxMonitor_.wait with mutex_: wait again, or push whatever state_
\* has become.
AddWaitsAgain(t) ==
  /\ tstate[t] = "woken"
  /\ Full(tasks_)
  /\ tstate' = [tstate EXCEPT ![t] = "blocked"]
  /\ UNCHANGED <<state_, counts, expiredCount_, tasks_, pool, worker, caller, timed,
                 overdue, late, control>>

AddResumes(t) ==
  /\ tstate[t] = "woken"
  /\ ~Full(tasks_)
  /\ tstate' = [tstate EXCEPT ![t] = "queued"]
  /\ caller' = [caller EXCEPT ![t] = Nobody]
  /\ timed' = timed \ {t}
  /\ Push(t, tasks_)
  /\ UNCHANGED <<state_, counts, expiredCount_, pool, current, overdue, control>>

\* maxMonitor_.wait(timeout) throws TimedOutException.
AddGivesUp(t) ==
  /\ tstate[t] = "blocked"
  /\ t \in timed
  /\ tstate' = [tstate EXCEPT ![t] = "lost"]
  /\ caller' = [caller EXCEPT ![t] = Nobody]
  /\ timed' = timed \ {t}
  /\ UNCHANGED <<state_, counts, expiredCount_, tasks_, pool, worker, overdue, late, control>>

AddWakesSpuriously(t) ==
  /\ tstate[t] = "blocked"
  /\ tstate' = [tstate EXCEPT ![t] = "woken"]
  /\ UNCHANGED <<state_, counts, expiredCount_, tasks_, pool, worker, caller, timed,
                 overdue, late, control>>

\* removeNextPending by a thread outside the pool.  remove(task) only checks
\* state_.
removeNextPending ==
  /\ Stealing
  /\ state_ = "STARTED"
  /\ tasks_ # <<>>
  /\ tstate' = [tstate EXCEPT ![Head(tasks_)] = "stolen"]
  /\ tasks_' = Tail(tasks_)
  /\ UNCHANGED <<state_, counts, expiredCount_, pool, worker, caller, timed, overdue,
                 late, control>>

-----------------------------------------------------------------------------
(* start, addWorker, removeWorker, stop and join, called by controller c *)

\* The operation is over, by a return or an exception.
Leave(c) ==
  /\ cpc' = [cpc EXCEPT ![c] = "out"]
  /\ cop' = [cop EXCEPT ![c] = "none"]
  /\ cval' = [cval EXCEPT ![c] = 0]

\* Impl::start.  SimpleThreadManager::start sets pendingTaskCountMax_ first, when
\* no task can be queued yet, and calls addWorker after it.
start(c) ==
  /\ cpc[c] = "out"
  /\ state_ = "UNINITIALIZED"
  /\ state_' = "STARTED"
  /\ wpc' = Mark(wpc, Parked, "woken")
  /\ UNCHANGED <<counts, expiredCount_, tasks_, pool, current, task, control>>

\* addWorker: create the threads of S and make room for them.
addWorker(c, S) ==
  /\ cpc[c] = "out"
  /\ S \subseteq In({"unborn"}) \ workers_
  /\ workerMaxCount_' = workerMaxCount_ + Cardinality(S)
  /\ workers_' = workers_ \cup S
  /\ cpc' = [cpc EXCEPT ![c] = "starting"]
  /\ cop' = [cop EXCEPT ![c] = "addWorker"]
  /\ cnew' = [cnew EXCEPT ![c] = S]
  /\ UNCHANGED <<state_, workerCount_, idleCount_, expiredCount_, tasks_, deadWorkers_,
                 idMap_, worker, task, cval>>

\* Thread::start for one of them.
StartThread(c, w) ==
  /\ cpc[c] = "starting"
  /\ w \in cnew[c]
  /\ \A v \in cnew[c] : wpc[v] = "unborn"
  /\ wpc' = [wpc EXCEPT ![w] = "new"]
  /\ UNCHANGED <<state_, counts, expiredCount_, tasks_, pool, current, task, control>>

\* The thread's id is recorded after it has started, under no lock.
RecordId(c, w) ==
  /\ cpc[c] = "starting"
  /\ w \in cnew[c]
  /\ wpc[w] # "unborn"
  /\ idMap_' = idMap_ \cup {w}
  /\ cnew' = [cnew EXCEPT ![c] = @ \ {w}]
  /\ UNCHANGED <<state_, counts, expiredCount_, tasks_, workers_, deadWorkers_, worker,
                 task, cpc, cop, cval>>

\* Thread::start throws: addWorker ends with workerMaxCount_ already raised.
StartFails(c) ==
  /\ StartMayFail
  /\ cpc[c] = "starting"
  /\ cnew[c] # {}
  /\ \A v \in cnew[c] : wpc[v] = "unborn"
  /\ cnew' = [cnew EXCEPT ![c] = {}]
  /\ Leave(c)
  /\ UNCHANGED <<state_, counts, expiredCount_, tasks_, pool, worker, task>>

AllStarted(c) ==
  /\ cpc[c] = "starting"
  /\ cnew[c] = {}
  /\ cpc' = [cpc EXCEPT ![c] = "checking"]
  /\ UNCHANGED <<state_, counts, expiredCount_, tasks_, pool, worker, task, cop, cval, cnew>>

removeWorker(c, value) ==
  /\ cpc[c] = "out"
  /\ cpc' = [cpc EXCEPT ![c] = "shrinking"]
  /\ cop' = [cop EXCEPT ![c] = "removeWorker"]
  /\ cval' = [cval EXCEPT ![c] = value]
  /\ UNCHANGED <<state_, counts, expiredCount_, tasks_, pool, worker, task, cnew>>

\* The idle workers the first block of removeWorker notifies: idleCount_ of
\* them, or all.
Notified(value) ==
  IF idleCount_ < value
  THEN {S \in SUBSET Parked : \/ Cardinality(S) = idleCount_
                              \/ S = Parked /\ Cardinality(Parked) < idleCount_}
  ELSE {Parked}

\* The first block of removeWorker.
Shrink(c) ==
  /\ cpc[c] = "shrinking"
  /\ cval[c] <= workerMaxCount_
  /\ workerMaxCount_' = workerMaxCount_ - cval[c]
  /\ \E S \in Notified(cval[c]) : wpc' = Mark(wpc, S, "woken")
  /\ cpc' = [cpc EXCEPT ![c] = "checking"]
  /\ UNCHANGED <<state_, workerCount_, idleCount_, expiredCount_, tasks_, pool, current,
                 task, cop, cval, cnew>>

\* It throws InvalidArgumentException, out of stopImpl too.
ShrinkThrows(c) ==
  /\ cpc[c] = "shrinking"
  /\ cval[c] > workerMaxCount_
  /\ Leave(c)
  /\ UNCHANGED <<state_, counts, expiredCount_, tasks_, pool, worker, task, cnew>>

\* The last block of addWorker and removeWorker, on workerMonitor_: wait until
\* the pool has the size asked for.
WaitForWorkers(c) ==
  /\ cpc[c] \in {"checking", "woken"}
  /\ workerCount_ # workerMaxCount_
  /\ cpc' = [cpc EXCEPT ![c] = "waiting"]
  /\ UNCHANGED <<state_, counts, expiredCount_, tasks_, pool, worker, task, cop, cval, cnew>>

AddWorkerReturns(c) ==
  /\ cpc[c] \in {"checking", "woken"}
  /\ cop[c] = "addWorker"
  /\ workerCount_ = workerMaxCount_
  /\ Leave(c)
  /\ UNCHANGED <<state_, counts, expiredCount_, tasks_, pool, worker, task, cnew>>

\* removeWorker forgets the dead workers; stopImpl goes on to its last block.
RemoveWorkerReturns(c) ==
  /\ cpc[c] \in {"checking", "woken"}
  /\ cop[c] # "addWorker"
  /\ workerCount_ = workerMaxCount_
  /\ idMap_' = idMap_ \ deadWorkers_
  /\ workers_' = workers_ \ deadWorkers_
  /\ deadWorkers_' = {}
  /\ IF cop[c] = "stop"
     THEN cpc' = [cpc EXCEPT ![c] = "finishing"] /\ UNCHANGED <<cop, cval>>
     ELSE Leave(c)
  /\ UNCHANGED <<state_, counts, expiredCount_, tasks_, worker, task, cnew>>

\* stop() and join(): the first block of stopImpl.  A manager that is already
\* stopping is not stopped again, but is not waited for either.
stopImpl(c, join) ==
  /\ cpc[c] = "out"
  /\ state_ # "STOPPED"
  /\ IF state_ \in {"STOPPING", "JOINING"}
     THEN /\ cpc' = [cpc EXCEPT ![c] = "finishing"]
          /\ UNCHANGED state_
     ELSE /\ cpc' = [cpc EXCEPT ![c] = "stopping"]
          /\ state_' = IF join THEN "JOINING" ELSE "STOPPING"
  /\ cop' = [cop EXCEPT ![c] = "stop"]
  /\ cval' = [cval EXCEPT ![c] = 0]
  /\ UNCHANGED <<counts, expiredCount_, tasks_, pool, worker, task, cnew>>

\* The argument of removeWorker is read under no lock.
ReadWorkerCount(c) ==
  /\ cpc[c] = "stopping"
  /\ cval' = [cval EXCEPT ![c] = workerCount_]
  /\ cpc' = [cpc EXCEPT ![c] = "shrinking"]
  /\ UNCHANGED <<state_, counts, expiredCount_, tasks_, pool, worker, task, cop, cnew>>

StopReturns(c) ==
  /\ cpc[c] = "finishing"
  /\ state_' = "STOPPED"
  /\ Leave(c)
  /\ UNCHANGED <<counts, expiredCount_, tasks_, pool, worker, task, cnew>>

ControllerWakesSpuriously(c) ==
  /\ cpc[c] = "waiting"
  /\ cpc' = [cpc EXCEPT ![c] = "woken"]
  /\ UNCHANGED <<state_, counts, expiredCount_, tasks_, pool, worker, task, cop, cval, cnew>>

-----------------------------------------------------------------------------
\* What a worker thread does next of its own accord.
WorkerStep(w) ==
  \/ WorkerEnters(w)
  \/ WorkerUnneeded(w)
  \/ WorkerGreets(w)
  \/ WorkerParks(w)
  \/ WorkerFindsExpired(w)
  \/ WorkerTakes(w)
  \/ WorkerRetires(w)
  \/ WorkerFinishes(w)
  \/ WorkerDies(w)

\* A call of add by a thread that is not waiting.
Add(t) ==
  \E w \in Workers \cup {Nobody} :
    \/ AddNotStarted(t, w)
    \/ AddQueues(t, w)
    \/ \E timeout \in Timeouts : \/ AddTimesOut(t, w, timeout)
                               \/ AddFull(t, w, timeout)

\* A caller of add back from maxMonitor_.wait.
AddStep(t) == AddWaitsAgain(t) \/ AddResumes(t)

\* A controller begins an operation.
Request(c) ==
  \/ start(c)
  \/ \E S \in SUBSET Workers : addWorker(c, S)
  \/ \E value \in 0 .. Cardinality(Workers) : removeWorker(c, value)
  \/ \E join \in BOOLEAN : stopImpl(c, join)

\* A controller goes on with the operation it has begun.
ControllerStep(c) ==
  \/ \E w \in Workers : StartThread(c, w) \/ RecordId(c, w)
  \/ StartFails(c)
  \/ AllStarted(c)
  \/ Shrink(c)
  \/ ShrinkThrows(c)
  \/ WaitForWorkers(c)
  \/ AddWorkerReturns(c)
  \/ RemoveWorkerReturns(c)
  \/ ReadWorkerCount(c)
  \/ StopReturns(c)

Next ==
  \/ \E w \in Workers : WorkerStep(w) \/ WorkerWakesSpuriously(w)
  \/ \E t \in Tasks : \/ Add(t) \/ AddStep(t) \/ AddGivesUp(t)
                     \/ AddWakesSpuriously(t) \/ Expire(t)
  \/ \E c \in Controllers : \/ Request(c) \/ ControllerStep(c)
                           \/ ControllerWakesSpuriously(c)
  \/ removeNextPending
  \/ ExpiredTaskCount

Spec == Init /\ [][Next]_vars

\* Threads that can run do run, and tasks end.  Nothing obliges anybody to call
\* an operation, a clock to reach an expiration or a wakeup to be spurious.
Fairness ==
  /\ \A w \in Workers : WF_vars(WorkerStep(w))
  /\ \A t \in Tasks : WF_vars(AddStep(t))
  /\ \A c \in Controllers : WF_vars(ControllerStep(c))

FairSpec == Spec /\ Fairness

-----------------------------------------------------------------------------
(* Properties *)

\* Every variable keeps its type; in particular the unsigned counters never go
\* below zero.
TypeOK ==
  /\ state_ \in ManagerStates
  /\ workerCount_ \in Nat
  /\ workerMaxCount_ \in Nat
  /\ idleCount_ \in Nat
  /\ expiredCount_ \in Nat
  /\ tasks_ \in Seq(Tasks)
  /\ workers_ \subseteq Workers
  /\ deadWorkers_ \subseteq Workers
  /\ idMap_ \subseteq Workers
  /\ wpc \in [Workers -> WorkerStates]
  /\ current \in [Workers -> Tasks \cup {Nobody}]
  /\ tstate \in [Tasks -> TaskStates]
  /\ caller \in [Tasks -> Workers \cup {Nobody}]
  /\ timed \subseteq Tasks
  /\ overdue \subseteq Tasks
  /\ cpc \in [Controllers -> ControllerStates]
  /\ cop \in [Controllers -> Operations]
  /\ cval \in [Controllers -> Nat]
  /\ cnew \in [Controllers -> SUBSET Workers]
  /\ late \subseteq Tasks

\* workerCount_ and idleCount_ count what they say, across the window in which
\* a notified worker has not yet taken mutex_ back.
CountsMatch ==
  /\ workerCount_ = Cardinality(Registered)
  /\ idleCount_ = Cardinality(Idle)

\* No worker sleeps on monitor_ when the pool is to shrink below it.
NoIdleSurplus == Parked # {} => workerCount_ <= workerMaxCount_

\* No lost wakeup: while some worker sleeps on monitor_, every pending task has
\* an awake worker coming for it, although add notifies once for each task
\* and may hit a worker that will find the task gone or have to retire.
WorkersServeQueue == Parked # {} => Len(tasks_) <= Cardinality(Awake)

\* Every accepted task is in exactly one place: once in tasks_, or with one
\* worker, or out of the manager.
EachTaskOnce ==
  /\ \A i, j \in DOMAIN tasks_ : tasks_[i] = tasks_[j] => i = j
  /\ {t \in Tasks : tstate[t] = "queued"} = {tasks_[i] : i \in DOMAIN tasks_}
  /\ \A w \in Workers : IF wpc[w] = "running"
                        THEN tstate[current[w]] = "running" ELSE current[w] = Nobody
  /\ \A v, w \in Workers : current[v] = current[w] => v = w \/ current[v] = Nobody
  /\ \A t \in Tasks : tstate[t] = "running" => \E w \in Workers : current[w] = t

\* However many blocked callers of add are woken, the queue keeps its limit.
PendingBound == PendingTaskCountMax > 0 => Len(tasks_) <= PendingTaskCountMax

\* While a caller of add sleeps, the queue is full, or as many callers as it has
\* free places are on their way: WorkerTakes wakes one for each place it frees.
NoStrandedAdder ==
  Blocked # {} => Len(tasks_) + Cardinality(Woken) >= PendingTaskCountMax

\* join() by the only controller leaves nothing undone: every task accepted by a
\* started manager that had workers has run, expired or been removed when the
\* state becomes STOPPED.
JoinDrains ==
  [][(state_ = "JOINING" /\ state_' = "STOPPED"
        /\ \E c \in Controllers : cpc[c] = "finishing" /\ cval[c] > 0)
     => \A t \in Tasks \ late : tstate'[t] \notin {"queued", "running"}]_vars

\* stop() "blocks for all worker threads to complete": once it has returned, no
\* worker has still to use the manager.
StopWaitsForWorkers ==
  state_ = "STOPPED" => In({"leaving", "leavingLast"}) = {}

\* A worker that calls add gets "a TooManyPendingTasksException" instead of
\* waiting for the place that only a worker can free.
AddNeverBlocksWorker == \A t \in Blocked \cup Woken : caller[t] = Nobody

\* A pending task leaves the queue as long as the manager stays started and has
\* a worker.
PendingServed ==
  \A t \in Tasks :
    tstate[t] = "queued" ~> \/ tstate[t] # "queued"
                           \/ state_ # "STARTED"
                           \/ Registered = {}

\* An operation of the only controller returns: the notify that tells it that
\* the pool has the right size is not lost.
OperationsReturn == \A c \in Controllers : cpc[c] # "out" ~> cpc[c] = "out"
=============================================================================
