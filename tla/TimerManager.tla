---------------------------- MODULE TimerManager ----------------------------
(***************************************************************************)
(* concurrency/TimerManager.cpp: a dispatcher thread that runs tasks when  *)
(* they fall due, and the threads that start it, stop it and add tasks.    *)
(*                                                                         *)
(* All of them share one monitor_: a starter waits on it for the           *)
(* dispatcher to come up, a stopper for it to go, the dispatcher itself    *)
(* for the next task to fall due.  A block under monitor_ is one action; a *)
(* thread is "parked" until a notify, a spurious wakeup or (the            *)
(* dispatcher) the end of its timed wait makes it "woken", and then has to *)
(* take monitor_ again.                                                    *)
(*                                                                         *)
(* Every task is added once, by a thread of its own, so the caller of add  *)
(* is known by its task.  A task that adds another task while it runs is a *)
(* special case: the dispatcher does not hold monitor_ then.               *)
(*                                                                         *)
(* The clock, and the absolute times given to add, have TicksPerMs ticks   *)
(* to the millisecond.  Everything the code computes with is in            *)
(* milliseconds, which Util gets by rounding to the nearest one.           *)
(***************************************************************************)
EXTENDS Integers, FiniteSets

CONSTANTS
  Tasks,
  Starters,       \* threads that call start() once
  Stoppers,       \* threads that call stop(), or the destructor, once
  TicksPerMs,     \* the resolution of the clock, of timeval and of timespec
  Delays,         \* the relative timeouts passed to add, in milliseconds
  Expirations,    \* the absolute times passed to add, in ticks
  Lag,            \* most currentTime moves between two reads in one block
  MaxTime         \* bound on the keys of tasks; the clock stops Lag later

ASSUME TimerAssumption ==
  /\ IsFiniteSet(Tasks)
  /\ TicksPerMs \in Nat \ {0, 1}
  /\ Delays \subseteq Int
  /\ Expirations \subseteq Nat
  /\ Lag \in Nat
  /\ MaxTime \in Nat

VARIABLES
  \* TimerManager
  state_, taskMap_, taskCount_,
  \* the dispatcher
  dpc,            \* where the dispatcher thread is
  deadline,       \* the millisecond its timed wait ends at; Never outside of one
  expiredTasks,   \* the tasks it has collected and not yet run
  attached,       \* dispatcher_->manager_ is not NULL
  \* the tasks and their callers
  tstate,         \* where each task is
  delay,          \* the timeout its caller passed, or computed, for add
  due,            \* the key of the task in taskMap_
  \* the other threads
  startpc, stoppc,
  doStop,         \* the stoppers whose stop() has to clean up
  clock,          \* the time, in ticks
  \* history, read by no action
  asked           \* the time each task was asked to run at, in ticks

manager == <<state_, taskMap_, taskCount_>>
dispatcher == <<dpc, deadline, expiredTasks, attached>>
task == <<tstate, delay, due, asked>>
control == <<startpc, stoppc, doStop>>
vars == <<state_, taskMap_, taskCount_, dpc, deadline, expiredTasks, attached,
          tstate, delay, due, startpc, stoppc, doStop, clock, asked>>

Never == -1

ManagerStates == {"UNINITIALIZED", "STARTING", "STARTED", "STOPPING", "STOPPED"}

\* The dispatcher is "new" until its first block, at "loop" before it scans
\* taskMap_, "running" expired tasks outside monitor_, "leaving" when it has
\* seen that the manager is no longer started.
DispatcherStates == {"unborn", "new", "loop", "parked", "woken", "running", "leaving",
                     "done"}

\* A caller of add is "calling" before it reads the clock and "adding" when it
\* has computed the key and not yet taken monitor_.  A task is "WAITING" in
\* taskMap_, "EXECUTING" in expiredTasks, then "COMPLETE"; add may refuse it and
\* stop may drop it.
TaskStates == {"unborn", "calling", "adding", "WAITING", "EXECUTING", "COMPLETE",
               "refused", "dropped"}

StartStates == {"out", "launching", "entering", "parked", "woken", "back", "failed"}
StopStates == {"out", "parked", "woken", "cleaning", "back"}

ParkedStarters == {c \in Starters : startpc[c] = "parked"}
ParkedStoppers == {c \in Stoppers : stoppc[c] = "parked"}

\* The thread creation of some start() threw.
Stillborn == \E c \in Starters : startpc[c] = "failed"

Init ==
  /\ state_ = "UNINITIALIZED"
  /\ taskMap_ = {}
  /\ taskCount_ = 0
  /\ dpc = "unborn"
  /\ deadline = Never
  /\ expiredTasks = {}
  /\ attached = TRUE
  /\ tstate = [t \in Tasks |-> "unborn"]
  /\ delay = [t \in Tasks |-> 0]
  /\ due = [t \in Tasks |-> 0]
  /\ startpc = [c \in Starters |-> "out"]
  /\ stoppc = [c \in Stoppers |-> "out"]
  /\ doStop = {}
  /\ clock = 0
  /\ asked = [t \in Tasks |-> 0]

-----------------------------------------------------------------------------
(* Util *)

\* toTicks from a finer unit: the nearest millisecond, halves upwards.
toMilliseconds(ticks) ==
  (ticks \div TicksPerMs) + IF ticks % TicksPerMs >= TicksPerMs \div 2 THEN 1 ELSE 0

currentTime == toMilliseconds(clock)

-----------------------------------------------------------------------------
(* Mutated forms of the definitions below: plausible slips in this code. *)

\* upper_bound of the next millisecond: also takes tasks that are not due yet
EagerExpired == {t \in taskMap_ : due[t] <= currentTime + 1}

\* decrements taskCount_ once for a batch
BatchCountAfter(S) == taskCount_ - 1

\* decrements taskCount_ for the next task as well
GreedyCountAfter(S) == taskCount_ - Cardinality(S) - 1

\* kicks the dispatcher only when there was no task
SleepyNotifyRequired(t) == taskCount_ = 0

\* kicks the dispatcher only when there is a first task to compare with
BlindNotifyRequired(t) == taskCount_ # 0 /\ \A u \in taskMap_ : due[t] < due[u]

\* becomes STARTED and tells nobody
SilentWokenStarters == {}

\* leaves stop() as soon as the manager is no longer started
HastyStopDone(s) == s # "STARTED"

\* tells nobody that the manager has stopped
SilentWokenStoppers == {{}}

-----------------------------------------------------------------------------
(* The dispatcher. *)

\* The range [begin, upper_bound(now)) of taskMap_.
Expired == {t \in taskMap_ : due[t] <= currentTime}

\* taskMap_.begin()->first
First == CHOOSE d \in {due[t] : t \in taskMap_} : \A t \in taskMap_ : d <= due[t]

\* taskCount_ after the dispatcher has taken the tasks of S.
CountAfter(S) == taskCount_ - Cardinality(S)

\* The starters notifyAll wakes, as a set of starters.
WokenStarters == ParkedStarters

\* The first block of Dispatcher::run.
DispatcherStarts ==
  /\ dpc = "new"
  /\ dpc' = "loop"
  /\ IF state_ = "STARTING"
     THEN /\ state_' = "STARTED"
          /\ startpc' = [c \in Starters |-> IF c \in WokenStarters THEN "woken" ELSE startpc[c]]
     ELSE UNCHANGED <<state_, startpc>>
  /\ UNCHANGED <<taskMap_, taskCount_, deadline, expiredTasks, attached, task, stoppc,
                 doStop, clock>>

\* Nothing is due: the dispatcher waits, for ever or until the first task falls
\* due.  wait() reads the clock again to make its timeout an absolute time.
DispatcherWaits ==
  /\ dpc \in {"loop", "woken"}
  /\ state_ = "STARTED"
  /\ Expired = {}
  /\ dpc' = "parked"
  /\ IF taskMap_ = {}
     THEN deadline' = Never /\ UNCHANGED clock
     ELSE \E lag \in 0 .. TicksPerMs * Lag :
            /\ toMilliseconds(clock + lag) <= currentTime + Lag
            /\ clock' = clock + lag
            /\ deadline' = toMilliseconds(clock + lag) + (First - currentTime)
  /\ UNCHANGED <<manager, expiredTasks, attached, task, control>>

\* The dispatcher takes what is due out of taskMap_, or nothing if the manager is
\* no longer started.
DispatcherCollects ==
  /\ dpc \in {"loop", "woken"}
  /\ dpc' = "running"
  /\ \/ /\ state_ = "STARTED"
        /\ Expired # {}
        /\ expiredTasks' = Expired
        /\ tstate' = [t \in Tasks |-> IF t \in Expired THEN "EXECUTING" ELSE tstate[t]]
        /\ taskCount_' = CountAfter(Expired)
        /\ taskMap_' = taskMap_ \ Expired
     \/ /\ state_ # "STARTED"
        /\ UNCHANGED <<expiredTasks, tstate, taskCount_, taskMap_>>
  /\ UNCHANGED <<state_, deadline, attached, delay, due, asked, control, clock>>

\* Task::run of one of the collected tasks; the set is ordered by address.  The
\* entry of the task and what was asked for it are history then.
DispatcherRuns(t) ==
  /\ dpc = "running"
  /\ t \in expiredTasks
  /\ expiredTasks' = expiredTasks \ {t}
  /\ tstate' = [tstate EXCEPT ![t] = "COMPLETE"]
  /\ due' = [due EXCEPT ![t] = 0]
  /\ asked' = [asked EXCEPT ![t] = 0]
  /\ UNCHANGED <<manager, dpc, deadline, attached, delay, control, clock>>

\* while (manager_->state_ == STARTED), read with no lock.
DispatcherTests ==
  /\ dpc = "running"
  /\ expiredTasks = {}
  /\ dpc' = IF state_ = "STARTED" THEN "loop" ELSE "leaving"
  /\ UNCHANGED <<manager, deadline, expiredTasks, attached, task, control, clock>>

\* The ways the last notify() can choose among the waiting stoppers.
WokenStoppers ==
  IF ParkedStoppers = {} THEN {{}} ELSE {{c} : c \in ParkedStoppers}

\* The last block of Dispatcher::run.
DispatcherStops ==
  /\ dpc = "leaving"
  /\ dpc' = "done"
  /\ IF state_ = "STOPPING"
     THEN /\ state_' = "STOPPED"
          /\ \E S \in WokenStoppers :
               stoppc' = [c \in Stoppers |-> IF c \in S THEN "woken" ELSE stoppc[c]]
     ELSE UNCHANGED <<state_, stoppc>>
  /\ UNCHANGED <<taskMap_, taskCount_, deadline, expiredTasks, attached, task, startpc,
                 doStop, clock>>

\* pthread_cond_timedwait returns at its deadline.
DispatcherTimesOut ==
  /\ dpc = "parked"
  /\ deadline # Never
  /\ clock >= TicksPerMs * deadline
  /\ dpc' = "woken"
  /\ deadline' = Never
  /\ UNCHANGED <<manager, expiredTasks, attached, task, control, clock>>

-----------------------------------------------------------------------------
(* start() *)

\* The first block: one caller becomes responsible for the thread.
Start(c) ==
  /\ startpc[c] = "out"
  /\ IF state_ = "UNINITIALIZED"
     THEN state_' = "STARTING" /\ startpc' = [startpc EXCEPT ![c] = "launching"]
     ELSE startpc' = [startpc EXCEPT ![c] = "entering"] /\ UNCHANGED state_
  /\ UNCHANGED <<taskMap_, taskCount_, dispatcher, task, stoppc, doStop, clock>>

\* newThread and Thread::start.
StartLaunches(c) ==
  /\ startpc[c] = "launching"
  /\ dpc' = "new"
  /\ startpc' = [startpc EXCEPT ![c] = "entering"]
  /\ UNCHANGED <<manager, deadline, expiredTasks, attached, task, stoppc, doStop, clock>>

\* newThread or Thread::start throws, and start() with it.
StartFails(c) ==
  /\ startpc[c] = "launching"
  /\ startpc' = [startpc EXCEPT ![c] = "failed"]
  /\ UNCHANGED <<manager, dispatcher, task, stoppc, doStop, clock>>

\* The second block: one round of the loop around monitor_.wait().
StartWaits(c) ==
  /\ startpc[c] \in {"entering", "woken"}
  /\ startpc' = [startpc EXCEPT ![c] = IF state_ = "STARTING" THEN "parked" ELSE "back"]
  /\ UNCHANGED <<manager, dispatcher, task, stoppc, doStop, clock>>

-----------------------------------------------------------------------------
(* stop(), which the destructor calls as well *)

\* The condition that ends the loop of stop().
StopDone(s) == s = "STOPPED"

\* stop() takes monitor_, ends a running manager and waits for the first time.
\* Its notifyAll wakes whoever waits on monitor_.
Stop(c) ==
  /\ stoppc[c] = "out"
  /\ LET ends == state_ \in {"STARTING", "STARTED"}
         now == IF state_ = "UNINITIALIZED" THEN "STOPPED"
                ELSE IF ends THEN "STOPPING"
                ELSE state_
     IN  /\ state_' = now
         /\ doStop' = IF ends THEN doStop \cup {c} ELSE doStop
         /\ startpc' = IF ends
                       THEN [x \in Starters |-> IF x \in ParkedStarters THEN "woken"
                                                ELSE startpc[x]]
                       ELSE startpc
         /\ dpc' = IF ends /\ dpc = "parked" THEN "woken" ELSE dpc
         /\ deadline' = IF ends THEN Never ELSE deadline
         /\ stoppc' = [x \in Stoppers |->
                         IF x = c
                         THEN IF ~StopDone(now) THEN "parked"
                              ELSE IF ends THEN "cleaning" ELSE "back"
                         ELSE IF ends /\ x \in ParkedStoppers THEN "woken"
                         ELSE stoppc[x]]
  /\ UNCHANGED <<taskMap_, taskCount_, expiredTasks, attached, task, clock>>

\* A woken stopper looks at state_ again.
StopWaits(c) ==
  /\ stoppc[c] = "woken"
  /\ stoppc' = [stoppc EXCEPT ![c] = IF ~StopDone(state_) THEN "parked"
                                     ELSE IF c \in doStop THEN "cleaning"
                                     ELSE "back"]
  /\ UNCHANGED <<manager, dispatcher, task, startpc, doStop, clock>>

\* taskMap_.clear() and manager_ = NULL, outside monitor_; taskCount_ is kept.
StopCleans(c) ==
  /\ stoppc[c] = "cleaning"
  /\ stoppc' = [stoppc EXCEPT ![c] = "back"]
  /\ tstate' = [t \in Tasks |-> IF t \in taskMap_ THEN "dropped" ELSE tstate[t]]
  /\ due' = [t \in Tasks |-> IF t \in taskMap_ THEN 0 ELSE due[t]]
  /\ asked' = [t \in Tasks |-> IF t \in taskMap_ THEN 0 ELSE asked[t]]
  /\ taskMap_' = {}
  /\ attached' = FALSE
  /\ UNCHANGED <<state_, taskCount_, dpc, deadline, expiredTasks, delay, startpc, doStop,
                 clock>>

-----------------------------------------------------------------------------
(* add() *)

\* add(task, timeout) is called.
AddDelay(t, d) ==
  /\ tstate[t] = "unborn"
  /\ currentTime + d <= MaxTime
  /\ tstate' = [tstate EXCEPT ![t] = "calling"]
  /\ delay' = [delay EXCEPT ![t] = d]
  /\ asked' = [asked EXCEPT ![t] = clock + TicksPerMs * d]
  /\ UNCHANGED <<manager, dispatcher, due, control, clock>>

\* add(task, value) turns an absolute time into a timeout, or throws.
AddExpiration(t, e) ==
  /\ tstate[t] = "unborn"
  /\ IF toMilliseconds(e) < currentTime
     THEN tstate' = [tstate EXCEPT ![t] = "refused"] /\ UNCHANGED <<delay, asked>>
     ELSE /\ tstate' = [tstate EXCEPT ![t] = "calling"]
          /\ delay' = [delay EXCEPT ![t] = toMilliseconds(e) - currentTime]
          /\ asked' = [asked EXCEPT ![t] = e]
  /\ UNCHANGED <<manager, dispatcher, due, control, clock>>

\* add reads the time, before it takes monitor_.
AddReadsClock(t) ==
  /\ tstate[t] = "calling"
  /\ currentTime + delay[t] <= MaxTime
  /\ tstate' = [tstate EXCEPT ![t] = "adding"]
  /\ due' = [due EXCEPT ![t] = currentTime + delay[t]]
  /\ delay' = [delay EXCEPT ![t] = 0]
  /\ UNCHANGED <<manager, dispatcher, asked, control, clock>>

\* Whether add has to kick the dispatcher, computed before the insertion.
NotifyRequired(t) == taskCount_ = 0 \/ \A u \in taskMap_ : due[t] < due[u]

\* The waiters notify() may choose: whoever waits on monitor_.
Kicked ==
  (IF dpc = "parked" THEN {<<"dispatcher">>} ELSE {})
    \cup {<<"starter", c>> : c \in ParkedStarters}
    \cup {<<"stopper", c>> : c \in ParkedStoppers}

\* add's block under monitor_.
AddInserts(t) ==
  /\ tstate[t] = "adding"
  /\ IF state_ # "STARTED"
     THEN /\ tstate' = [tstate EXCEPT ![t] = "refused"]
          /\ due' = [due EXCEPT ![t] = 0]
          /\ asked' = [asked EXCEPT ![t] = 0]
          /\ UNCHANGED <<taskMap_, taskCount_, dpc, deadline, startpc, stoppc>>
     ELSE /\ tstate' = [tstate EXCEPT ![t] = "WAITING"]
          /\ taskCount_' = taskCount_ + 1
          /\ taskMap_' = taskMap_ \cup {t}
          /\ UNCHANGED <<due, asked>>
          /\ IF NotifyRequired(t) /\ Kicked # {}
             THEN \E k \in Kicked :
                    /\ dpc' = IF k = <<"dispatcher">> THEN "woken" ELSE dpc
                    /\ deadline' = IF k = <<"dispatcher">> THEN Never ELSE deadline
                    /\ startpc' = [c \in Starters |-> IF k = <<"starter", c>> THEN "woken"
                                                      ELSE startpc[c]]
                    /\ stoppc' = [c \in Stoppers |-> IF k = <<"stopper", c>> THEN "woken"
                                                     ELSE stoppc[c]]
             ELSE UNCHANGED <<dpc, deadline, startpc, stoppc>>
  /\ UNCHANGED <<state_, expiredTasks, attached, delay, doStop, clock>>

-----------------------------------------------------------------------------
(* The environment: condition variables may wake by themselves, time passes. *)

SpuriousWakeup ==
  /\ \/ dpc = "parked" /\ dpc' = "woken" /\ deadline' = Never /\ UNCHANGED <<startpc, stoppc>>
     \/ \E c \in ParkedStarters :
          startpc' = [startpc EXCEPT ![c] = "woken"] /\ UNCHANGED <<dpc, deadline, stoppc>>
     \/ \E c \in ParkedStoppers :
          stoppc' = [stoppc EXCEPT ![c] = "woken"] /\ UNCHANGED <<dpc, deadline, startpc>>
  /\ UNCHANGED <<manager, expiredTasks, attached, task, doStop, clock>>

Tick ==
  /\ clock < TicksPerMs * (MaxTime + Lag)
  /\ clock' = clock + 1
  /\ UNCHANGED <<manager, dispatcher, task, control>>

Dispatch ==
  \/ DispatcherStarts
  \/ DispatcherWaits
  \/ DispatcherCollects
  \/ \E t \in Tasks : DispatcherRuns(t)
  \/ DispatcherTests
  \/ DispatcherStops
  \/ DispatcherTimesOut

Starting(c) == Start(c) \/ StartLaunches(c) \/ StartFails(c) \/ StartWaits(c)
Stopping(c) == Stop(c) \/ StopWaits(c) \/ StopCleans(c)
Adding(t) ==
  \/ \E d \in Delays : AddDelay(t, d)
  \/ \E e \in Expirations : AddExpiration(t, e)
  \/ AddReadsClock(t)
  \/ AddInserts(t)

Next ==
  \/ Dispatch
  \/ \E c \in Starters : Starting(c)
  \/ \E c \in Stoppers : Stopping(c)
  \/ \E t \in Tasks : Adding(t)
  \/ SpuriousWakeup
  \/ Tick

\* Threads that have something to do get to do it and time passes; nobody has
\* to call start, stop or add.
Fairness ==
  /\ WF_vars(Dispatch)
  /\ \A c \in Starters : WF_vars(StartLaunches(c) \/ StartFails(c)) /\ WF_vars(StartWaits(c))
  /\ \A c \in Stoppers : WF_vars(StopWaits(c)) /\ WF_vars(StopCleans(c))
  /\ \A t \in Tasks : WF_vars(AddInserts(t))
  /\ WF_vars(Tick)

Spec == Init /\ [][Next]_vars
FairSpec == Spec /\ Fairness

-----------------------------------------------------------------------------
(* Properties. *)

TypeOK ==
  /\ state_ \in ManagerStates
  /\ taskMap_ \subseteq Tasks
  /\ taskCount_ \in Nat
  /\ dpc \in DispatcherStates
  /\ deadline \in Int
  /\ expiredTasks \subseteq Tasks
  /\ attached \in BOOLEAN
  /\ tstate \in [Tasks -> TaskStates]
  /\ delay \in [Tasks -> Int]
  /\ due \in [Tasks -> Int]
  /\ startpc \in [Starters -> StartStates]
  /\ stoppc \in [Stoppers -> StopStates]
  /\ doStop \subseteq Stoppers
  /\ clock \in Nat
  /\ asked \in [Tasks -> Int]

\* taskCount_ is the size of taskMap_ as long as the dispatcher may look at them:
\* the assertion of its loop (line 102) holds although add, the dispatcher and
\* stop change the two separately.  Only stop() leaves taskCount_ behind, when the
\* dispatcher is gone.
CountMatches ==
  /\ attached => taskCount_ = Cardinality(taskMap_)
  /\ ~attached => taskMap_ = {} /\ state_ = "STOPPED"

\* The dispatcher never sleeps past the first task by more than currentTime moved
\* between its two readings, whatever was added while it slept: add kicks it
\* exactly when it has to.
NoOversleep ==
  dpc = "parked" /\ state_ = "STARTED" =>
    IF deadline = Never
    THEN taskMap_ = {}
    ELSE \A t \in taskMap_ : deadline <= due[t] + Lag

\* All waiters share monitor_ and add makes a single notify(): while tasks can be
\* added, nobody but the dispatcher may be waiting there, or the notify could be
\* spent on a thread it is not meant for.
NotifyReachesDispatcher ==
  state_ = "STARTED" => ParkedStarters = {} /\ ParkedStoppers = {}

\* A thread that is to stop the manager frees taskMap_ and detaches the dispatcher
\* without monitor_; by then the dispatcher has made its last access to them.
DetachedAfterLastUse ==
  /\ ~attached => dpc = "done"
  /\ (\E c \in Stoppers : stoppc[c] = "cleaning") => dpc = "done"

\* A task never runs before the millisecond it was asked for, as Util rounds times,
\* although the clock is read up to three times, none of them under monitor_, on
\* its way into taskMap_; and the two roundings, of the time asked for and of the
\* time it runs, never add up to a millisecond or more.
NeverEarly ==
  \A t \in Tasks :
    tstate[t] = "EXECUTING" =>
      /\ toMilliseconds(asked[t]) <= currentTime
      /\ asked[t] - clock < TicksPerMs

\* A task in taskMap_ is run unless somebody stops the manager.
DueTasksRun ==
  \A t \in Tasks :
    tstate[t] = "WAITING" ~> tstate[t] = "COMPLETE" \/ state_ # "STARTED"

\* start() returns, and of the concurrent callers of stop() one returns, unless the
\* dispatcher thread could not be created.  (The single notify() of line 132 may
\* leave the other callers waiting for ever.)
CallsReturn ==
  /\ \A c \in Starters :
       startpc[c] = "parked" ~> startpc[c] = "back" \/ Stillborn
  /\ state_ = "STOPPING" ~> (\E c \in Stoppers : stoppc[c] = "back") \/ Stillborn
=============================================================================
