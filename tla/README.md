# thrift-nacl in TLA+

thrift-nacl ports Apache Thrift 0.9.1 to Portable Native Client and lets a web
page and a native module exchange Thrift structs through `postMessage`. This
directory models the parts of it that carry its own logic: the bridge between
page and module, the protocol class and the generated code that put structs into
`pp::Var` values, and, of the C++ library, its three concurrent services: the
thread pool, the timer and the file transport.

Paths below are relative to `src/`; `thrift/` stands for
`src/thrift-0.9.1/lib/cpp/src/thrift/`.

## Inventory

| Part | State | Operations | Hard because |
|---|---|---|---|
| Page bridge, `examples/hello_world/thrift_nacl.js`, `hello_world.js` | `messageMap`, `nextMessageId`, `isLoaded` | `postMessage`, `handleMessage`, load and submit events | responses are matched by id only; the table never loses an entry; errors must reach the caller |
| Module bridge, `thrift_nacl.cc`, `thrift_nacl.h` | handler map | handler registration, `ParseMessage`, `HandleMessage`, handler wrapper | static initialisation order, exceptions nobody catches |
| `TNativeClientProtocol` | writer stack, reader stack, `root_var_` | begin, end and value operations, `skip`, `reset`, `setVar` | two stack machines that must stay in step with recursive generated code, and exceptions leave them as they are |
| Generated `read`/`write` (`t_cpp_generator.cc`, `tools/thrift-compiler.patch`) | activation records, `field_type_map` | field loop, container loops, required check | fields come in any order, unknown, null, or of the wrong type |
| `TBase64Utils` | none | encode, decode | groups of one and two bytes |
| `ThreadManager` | counters, task queue, worker sets, state | `start`, `addWorker`, `removeWorker`, `stop`, `join`, `add`, `removeNextPending`, expiry, `Worker::run` | three monitors over two mutexes, counted notifies, timeouts |
| `Monitor`, `Mutex`, thread factories | locks | wait, notify, start | spurious wakeups, a thread that does not start |
| `TimerManager` | task map, task count, dispatcher thread, clock | `start`, `stop`, `add` by delay and by time, `Dispatcher::run` | one monitor and single notifies for three sorts of waiters, a clock read outside the lock, a `stop` that cleans up without it |
| `TFileTransport`, writing | two event buffers, writer thread, `forceFlush_`, `closing_` | `write`, `flush`, destructor, writer loop | buffers that change places under their users, a notify without the mutex, I/O errors in the middle |
| `TFileTransport`, the log | chunks of length-prefixed events, `readState` | padding, `readEvent`, `performRecovery`, `seekToEnd` | readers follow a growing file that crashes have torn |
| `TSimpleServer`, `TThreadedServer`, `TThreadPoolServer`, `TNonblockingServer` | clients, tasks | accept, serve, stop | shutdown against running clients |
| Other protocols and transports, compiler, other languages | | | upstream code this port does not change, or I/O |

How they interact: the page posts a message, the browser queues it, the module's
`HandleMessage` finds a handler by type, the wrapper makes a
`TNativeClientProtocol` of the data, the generated `read()` drives it, the handler
runs, and the response goes back through `write()` and the other queue. The pool
is used by the servers and by applications, as are the timer and the file
transport; they share nothing with the bridge or with each other. The two sides of
the file transport meet in the file only, and are two models.

`PROJECT.json` lists every component, and under `hazards` what in each is hard to
test, with the properties that watch it.

## Modules

| Module | Models |
|---|---|
| `AsyncCall` | what the page's `NaClModule` promises its callers |
| `NaClBridge`, `MCNaClBridge` | page, module and the two browser queues |
| `NaClBridgeProofs` | its invariants and the refinement of `AsyncCall`, proved |
| `ThreadManager`, `MCThreadManager` | the pool with its workers, callers of `add`, and controllers |
| `ThreadManagerProofs` | counters, wakeups and limit of the pool, proved |
| `ThreadManagerTaskProofs` | what becomes of tasks, blocked callers and `join()`, proved |
| `Base64` | `TBase64Utils` as functions |
| `Base64Proofs` | decoding inverts encoding, proved |
| `NativeClientProtocol`, `MCNativeClientProtocol` | the protocol together with the generated code |
| `NativeClientProtocolProofs` | the stacks stay in step with the generated code, proved |
| `TimerManager`, `MCTimerManager` | the timer with its dispatcher, starters, stoppers and callers of `add` |
| `TimerManagerProofs` | its inductive invariant, proved |
| `TFileTransport`, `MCTFileTransport` | clients, writer thread and destructor of a file transport |
| `TFileTransportProofs` | its inductive invariant, proved |
| `FileLog`, `MCFileLog` | the bytes of the log, a writer that crashes and restarts, and a reader |
| `FileLogProofs` | types, chunk discipline and exact reading of the log, proved |

Every module has a section of mutated definitions: slips a programmer might make
in that code. Replacing the real definition by the mutated one has to violate the
property named in `PROJECT.json`, so that each property is known to say something
about the code.

### NaClBridge

The JavaScript event loop and the module's main thread run a handler to its end,
so each handler is one action: `onFormSubmit` (with `postMessage`),
`moduleDidLoad`, `handleMessage` on the page; `RegisterMessageHandler`,
`CreateInstance` and `HandleMessage` (with `ParseMessage` and the wrapper) in the
module. The queues are FIFO, as the browser's are. A request is what the code
tells apart: its type (or something that is not a string), data that `read()`
accepts, data it throws on, or data that is no dictionary, and the callbacks the
caller passed. The wrapper catches nothing, so `read()` on malformed data, and on
any data the handler and `write()` (which throws on an i64 beyond 2^53), may end the
module (`WrapperThrows`). `posted`, `calls` and `orphans` are history. `AsyncCall`
is the abstract specification. `CallsMade` and `CallsCompleted` map to it the
callbacks that callers passed and the log of their invocations: every invocation is
a step of `AsyncCall`, and a second one for the same call is none it allows.

### ThreadManager

Code under one of the two mutexes is one action; a thread between two such blocks
is in a program counter state of its own when it touches shared state outside
them. A waiting thread is parked, blocked or waiting until a notify or a spurious
wakeup makes it woken, and then it has to take the mutex again. Monitors are
modelled by what their users see. A task is known by its caller in `add`; tasks of
`Inner` are added by a worker from within another task. Abstractions: time is only
whether a deadline has passed; `WaitForWorkers` reads the two counters at once,
although the code reads them under `workerMonitor_` while one is written under
`mutex_` (with one controller only `workerCount_` can change meanwhile, so the
outcomes are the same; with two, a torn read could let an operation return at
another moment, on which none of the properties of `pool_races` depends); `pendingTaskCountMax` is a constant; the expire callback returns
without calling the manager.

### NativeClientProtocol and Base64

A `pp::Var` is a tag and a sequence of integers. Dictionaries and arrays live in a
heap, because a writer context inserts its container into the parent before it is
filled. `writer_stack_` and `reader_stack_` are the code's; `calls` holds the
activations of the generated code, which decide what is called next. One action is
one protocol call (`writeFieldBegin` is part of the write that follows it, as the
generated code has nothing in between). `GetKeys` returns the keys in any order.
An exception unwinds the activations and leaves the stacks; the client then calls
`reset` or `setVar`, as the repository's tests do. Integers are scaled down:
`Limit` gives the ranges, `MaxPrecise` stands for 2^53, and `ToDouble` rounds to
even beyond it as the hardware does. Doubles count halves, so that one can have a
fraction. Strings are sequences of base 64 characters and names are strings.
Base 64 itself is at full width: bytes are 0..255.

`Schema`, `Values` and `PageVars` are arbitrary but for what the two compilers and
the browser see to: `SchemaAssumption` (types refer to types that exist, field names
are not empty), `ValuesAssumption` (the parts of a value have the declared types) and
`PageAssumption` (a container the page sends is in its heap; containers may be shared
and even contain themselves).

A result counts the fields that were read; a default that the constructor put into
a field nobody sent is not part of it.

### TimerManager

Starters, stoppers, callers of `add` and the dispatcher share one `monitor_`. A
block under it is one action, and a thread in `wait` is parked until a notify, a
spurious wakeup or, for the dispatcher, the end of its timed wait makes it woken.
`notify` wakes any one parked thread, whichever it is. What happens without the
monitor has steps of its own: `add` reads the clock before it locks (and once more
before that when it is given a time), the dispatcher runs its tasks, and `stop`
clears `taskMap_` and `manager_`. The clock advances between actions, and by up to
`Lag` between two readings inside one. The clock, and the absolute times passed to
`add`, count ticks, `TicksPerMs` to a millisecond (the microseconds of a `timeval`,
the nanoseconds of a `timespec`); delays, keys and deadlines are milliseconds.
`toMilliseconds` and `currentTime` round to the nearest one, as `Util.h` 76-85 does,
so a task may run early by less than a millisecond. A failing `Thread::start` is an
action.
Each task is added once, by a thread of its own.

### TFileTransport

A block under `mutex_` is one action. The destructor sets `closing_` and notifies
without it, so the writer is `sleepy`, holding the mutex, between its decision to
wait and the wait. Events are numbered as they are accepted; the file is the
sequence of the numbers in it, of which `synced` have reached the disk. Besides an
ordinary event there is the one of kind `oversize`, which passes the length test of
`enqueueEvent` and not the writer's, where four bytes have been added. Opening,
seeking, writing, `fsync` and the start of the writer's thread may fail. The code
ignores the result of `fsync`; `syncFailed` is history that remembers a failure.
After a failed start `writerThread_` is set, so that later writes fill buffers which
nobody empties (`wpc` is `stillborn`); joining such a thread returns or is undefined,
and the destructor then may crash. The transport is used as its comments demand: no
thread enqueues an event while another is in `flush()`, and the destructor runs when
no other thread is inside. Several threads may be in `flush()` at once.
`getNextFlushTime` and the timeout of the wait are the choice whether the wait ends
by itself.

### FileLog

The file is a sequence of bytes, an event four bytes of length and its data. The
writer process pads a chunk or appends an event in one `write`, which appears at
once, may fail, and after a crash leaves a proper prefix. `Round` is one round of
the loops of `readEvent` (a read, a byte of a size, or a copy of data), `Settled`
what `readEvent` then does, with `performRecovery`. The reader process takes such
rounds; `tail` is its read timeout, chosen at the start. A start of the writer, and
its recovery from an error, run the same rounds in `scan` from the last chunk to the
end of the file (`seekToEnd`), where a start truncates the file and error recovery
does not; other processes go on in between. `numCorruptedEventsInChunk_` is counted
up to `maxCorruptedEvents_`, where the code only compares. `Data(n, l)` is the data
of the n-th event, any l bytes: a constant, which `MCFileLog` gives a value. Left
out of `Refill` are an error of `read()` (611-614, where `readEvent` throws), a
`read()` that returns less than there is, and a `readTimeout_` above 0, which is a
tail that ends after a time.
Assumed are (`LogAssumption`) positive sizes of chunks and of the read buffer, a chunk size
that fits the `int32_t` of the writer's `padding`, and events that fit in a
chunk (the writer drops others), and (`DataAssumption`) that data are bytes.

## Runs

| Run | Instance | What it shows |
|---|---|---|
| `bridge` | 3 requests, 3 types, one registered twice; 40,952 states | `InOrder`, `Correlated`, `UnknownMeansUnregistered`, `EveryAnswerSurfaces`, `Answered` (liveness), `ImplementsAsyncCall` (refinement) |
| `bridge_unknown_id` | same | violated: a refused message is answered without its id, and the caller's `onError` is never called |
| `pool_races` | 2 controllers, 2 workers, 2 tasks, limit 1, expiry, removal, failing thread starts; 5.6 million states | `CountsMatch`, `NoIdleSurplus`, `EachTaskOnce` |
| `pool_service` | 1 controller, 2 workers, 3 tasks, limit 2, fairness; 268,000 states | `WorkersServeQueue`, `PendingBound`, `NoStrandedAdder`, `JoinDrains`, `PendingServed`, `OperationsReturn` |
| `pool_stranded_adder` | 3 tasks, with expiry | violated: expiry frees a place and nobody wakes the blocked caller of `add` |
| `pool_stop_returns_early` | 1 controller | violated: `stop` returns before the workers are through |
| `pool_worker_blocks_in_add` | 2 workers, limit 1, one task added by a running task | violated: a worker not yet in `idMap_` blocks in `add` |
| `protocol` | a struct with i64, double, binary, map of structs, list of maps and set; 15 values, 28 page variables; 13,210 states | `InSync`, `RoundTrip`, `ReadMeans`, `OperationsEnd` |
| `protocol_precision` | the value 2^53 + 1 | violated: it is written and read back as 2^53 |
| `timer` | 2 tasks, 1 starter, 2 stoppers, 2 ticks to a millisecond, a delay of 2 ms, the time 1 tick, lag 1, fairness; 261,000 states | `CountMatches`, `NoOversleep`, `NotifyReachesDispatcher`, `DetachedAfterLastUse`, `NeverEarly`, `DueTasksRun`, `CallsReturn` |
| `file_transport` | 2 clients, buffers of 1, 3 events, I/O errors, a failing start, fairness; 198,000 states | `AssertionsHold`, `InOrder`, `Accounted`, `Durable`, `CallsReturn` |
| `file_log` | 3 events of 3 bytes, chunks of 12, reads of 8, 2 crashes, 1 error; 594,000 states | `ReadsBack`, `ChunksRespected`, `DamageIsLocal` |

The violations are described, with the lines of code and documentation that
disagree, under `findings`.

Why the bounds are enough. Three requests give two that overlap in every way and
one that follows. In the pool, two workers and limit one or two make every queue
state (empty, partly full, full with blocked callers) and every partial notify
happen; two controllers are needed for resizes that overlap, three tasks for a
full queue of two with a blocked caller behind it. The theorems remove these
bounds. The protocol's values cover each field kind, each group size of base 64,
containers nested three deep, a container that is shared, and each way in which a
variable can be refused at every depth.

For the timer, two tasks make each the first of the map before and after the other
is added, tasks fall due at the same and at different times, and two stoppers are
the least that compete for one notify. With two ticks to a millisecond half of all
times are rounded up and tasks do run early; times that are rounded down need four
ticks, and an instance with four (and the time 5 ticks; 744,000 states) was run once
with all the properties. In the file transport, buffers of one and three events are the
least with both buffers full and a client blocked behind them while the writer is
busy, which is what `CallsReturn` is about; two clients are needed for one to write
while the other waits, and for two in `flush()`. Partly filled buffers are left to
the theorems, which prove the invariants for buffers of any size, and to an instance
with buffers of two and four events (548,000 states up to symmetry of the clients) that was
run once for the invariants. In the code a blocked client may be overtaken by others
for ever, each time it wakes up; the bound on events excludes that, so `CallsReturn`
says that a write returns once the others write no more.

In the log a chunk of 12 bytes holds
one event, or one behind what a crash left, and needs padding of many lengths; an
event behind a stale `offset_` crosses its end; a read buffer of 8 does not divide
the chunk, so that lengths, data and padding are cut in many places; two crashes
tear one event after another, also in the same chunk. Chunks with several events
are left to the theorems, and to a larger instance (lengths 1 and 3, reads of 7, 1.7 million
states) that was run once.

`CHECK_DEADLOCK FALSE` appears wherever the system may rest: the user stops
submitting, a pool or a stopped timer has nothing to do, a closed transport is
gone, and a reader has read everything.

### Properties

* `InOrder`: callbacks are called in the order of the requests, at most once each,
  although `handleMessage` deletes the wrong entry and so never forgets a callback.
* `Correlated`, `UnknownMeansUnregistered`: an answer was computed from its own
  request by a handler registered for its type; `unknown type` is reported only
  for types nobody registered.
* `EveryAnswerSurfaces`, `Answered`: a request that has left the queues has called a
  callback (or had none for its outcome), was invalid and made the page throw, or is
  the one request that crashed the module; while the module lives, every good request
  is answered. `ImplementsAsyncCall`: callers see calls that complete in order, each
  at most once and by a callback it passed.
* `CountsMatch`, `NoIdleSurplus`, `WorkersServeQueue`: counters are exact; nobody
  who has to go sleeps; nobody sleeps on a task that has no awake worker.
* `EachTaskOnce`, `PendingBound`, `JoinDrains`, `NoStrandedAdder`, `PendingServed`,
  `OperationsReturn`: no task is lost or run twice, the limit holds, `join` drains
  the queue, blocked callers are not forgotten, and things end.
* `InSync`: contexts mirror the activations of the generated code; the assertions
  in `ReaderContext` and `WriterContext` hold; nothing stale is left between
  operations.
* `RoundTrip`: what was written is read back unchanged. It is checked for every
  value except i64 2^53 + 1 and its negative, which `protocol_precision` is about.
* `ReadMeans`: `read()` agrees with a recursive reference definition in
  `MCNativeClientProtocol`, whatever the order of keys, and throws exactly when the
  reference has no value. It is stated for strings without padding, which
  `TBase64Utils.h` demands of callers.
* Timer: `CountMatches` is the assertion at line 102 of `TimerManager.cpp`, although
  count and map change in different places; `NoOversleep` and `DueTasksRun` say that
  `add` kicks the dispatcher whenever it must, and `NotifyReachesDispatcher` that
  nobody else can catch that notify; `DetachedAfterLastUse` that the clean-up of
  `stop` outside the lock meets no dispatcher; `NeverEarly` that the several readings
  of the clock never add up to a task run before the millisecond it was asked for, and
  the two roundings never to a whole millisecond.
* File transport: `AssertionsHold` has the code's assertions; `InOrder` and
  `Accounted` say that events are written in order and once, and that without an I/O
  error or a failed start only oversize events are dropped; `Durable` that `flush()`
  and a clean destruction leave everything in the file, and on disk unless an `fsync`
  has failed; `CallsReturn` that writes, `flush()` and the destructor return, the
  first two unless there is an I/O error or the writer never started, and `flush()`
  unless other threads go on calling it. In `AssertionsHold`, that nobody is blocked
  while `forceFlush_` is set is due to the clients' contract.
* Log: `ReadsBack`: what is in an undamaged file is read exactly; `ChunksRespected`:
  events do not cross chunks unless an error was recovered from; `DamageIsLocal`: a
  torn or misplaced event never hides the events of another chunk.

### Fairness

Bridge: weak fairness of `HandleMessage` and `handleMessage`, since the browser
delivers queued messages; none of user input. Pool: weak fairness of the steps of
workers, of woken callers of `add` and of controllers, since runnable threads are
scheduled and tasks end; none of new calls, spurious wakeups or timeouts. Protocol:
weak fairness of the steps of an operation, since a called function runs. Timer:
weak fairness of the dispatcher, of threads inside `start`, `stop` and `add`, and of
the clock; none of new calls or spurious wakeups. File transport: weak fairness of
the writer and the destructor (of the writer's retry after an error only while
closing, when it no longer sleeps), and strong fairness of woken clients, who get
`mutex_` some day although the writer takes it again and again. Log: weak fairness
of the reader only; nothing obliges the writer to write, crash or restart.

## Proofs

All proofs hold for every value of the constants that the named assumptions allow.

**Pool** (`PoolAssumption`: finitely many workers, otherwise types only).
`PoolInv` is `TypeOK /\ CountsMatch /\ NoIdleSurplus /\ WorkersServeQueue`. The
parts need each other: `TypeOK` says the unsigned counters do not wrap, which needs
`CountsMatch` (a worker that decrements is one of those counted); `NoIdleSurplus`
needs the exact `idleCount_` that `removeWorker` compares with; and
`WorkersServeQueue` needs both, because `add` notifies only if `idleCount_ > 0` and
the awakened worker must be one that stays. The lemmas `MoveCount`, `WakeCount` and
`Moved` say how cardinalities change when threads move between program counter
states; every action is an instance of one of them. From `PoolInvariant` follow
`TypeCorrect`, `CountsCorrect`, `SurplusAwake`, `NoLostWakeup`; `LimitKept` is a
second induction over the queue's length.

`ThreadManagerTaskProofs` goes on from there with three more inductions.

* `Once` is `EachTaskOnce` in an inductive form: a worker that is `running` has a
  task, no two have the same, and the queue has no duplicates and holds exactly the
  tasks marked queued. `TailMembers`, `AppendMembers` and, for expiry, which takes
  tasks out of the middle of the queue, `UnexpiredMembers` say what the operations
  on the queue leave in it. `TasksAccounted` needs no assumption.
* `AddersWoken` is proved under `OnlyWorkersDequeue` (nothing expires and nobody
  calls `removeNextPending`). The assumption is needed: run `pool_stranded_adder`
  shows a blocked caller that expiry forgets. `AddersServed` counts the places that
  woken callers are coming for.
* `JoinWaitsForTasks` is proved under `OneController` (at most one thread calls
  `start`, `addWorker`, `removeWorker`, `stop` or `join`, and threads can be
  created): otherwise the number of workers an operation asked for is changed by
  another one, or out of reach. The invariant `Alone` describes each stage of the
  controller's operation (`Phase`), what it knows of the pool's size (`Sizes`) and
  what holds while it stops (`Stops`); a step of anybody else is `Bystanding`.
  Expiry, removal, time-outs and spurious wakeups are all allowed.

**Bridge** (`BridgeAssumption`). `BridgeInv` adds to `TypeOK` the `Pipeline`: the
ids in `calls`, in the queue to the page and in the queue to the module are
increasing, and each stage's are below the next stage's. `InOrder` is not inductive
without it, since the order of callbacks is decided when requests are queued.
`Contents` says what the queues carry: handlers are registered before the instance
exists, a request in the queue is the one that was posted, `messageMap` has its
callbacks, an answer in the queue was computed from its request, and a request that
is nowhere has had its outcome, which for the last one may be the crash of the
module (the parts `Registry` to `CrashCause`). `Correlated`, `UnknownMeansUnregistered` and
`EveryAnswerSurfaces` speak of callbacks only, when all this has already happened,
and none is inductive alone. The refinement maps the callbacks posted and the log of
those called; `Pipeline` makes the next callback one of a call with a higher id than
all that have completed, which is what `AsyncCall` asks of its next step.
Theorems: `BridgeInvariant`, `BridgeTypeCorrect`, `CallbacksInOrder`,
`ContentsInvariant`, `AnswersCorrelated`, `UnknownIsUnregistered`, `AnswersSurface`,
`BridgeImplements`.

**Protocol** (`SchemaAssumption`, `ValuesAssumption`, `PageAssumption`). `InStep` is
`Heap /\ Client /\ Stacks /\ Activations /\ InSync`. `InSync` relates tags, phases
and counts; to carry it through a step one has to know that the heap is well formed
(a `pp::Var` taken from a container is one of this heap, so `Heap`), that a context
has the keys of its own dictionary (`Stacks`), and that the activations hold values
of declared types and know the field or key they are reading for (`Activations`).
The steps that matter are those where the stacks grow and shrink: the outer context
has moved past a container before the inner one reads it (`OuterFits`), and its
activation catches up when the inner one ends (`InnerEnds`). A map key is never a
container, because `nextKey` returns a string. `ItemsTyped` says what the generated
`write()` enumerates; `Items` is defined without recursion for it, and its lemma
`KthIndex` is the one place that needs an induction, made by a least element. Theorems:
`InStepInvariant`, `ProtocolTypes`, `StacksMirrorCalls`.

**Base 64** (no assumptions). `Base64RoundTrip`: for every byte string, the
encoding has a length the decoder accepts and decodes to that string. The argument
goes group by group: `SizesAgree` and `CharsPresent` for the lengths,
`GroupInverse` for the arithmetic, `CharOfEncoding` and `DecodeEncoded` to put them
together.

**Timer** (`TimerAssumption`: finitely many tasks, and at least two ticks to a
millisecond). `TimerInv` is
`TypeOK /\ Stages /\ Waiters /\ Counts /\ Keys /\ Sleep`. `Stages` ties the
dispatcher's position to `state_` and to the position of whoever started or stops
it; `Waiters` says who may be parked in which state, from which
`NotifyReachesDispatcher` and, with `Stages` and `Counts`, `DetachedAfterLastUse`
follow; `Counts` is `CountMatches` and that a detached dispatcher is gone; `Keys` carries the time a caller asked for through the readings of
the clock to the key in `taskMap_`, as `NeverEarly` alone says nothing before a task
runs; `Sleep` is `NoOversleep`. The arithmetic of rounding is in lemmas of its own:
whole milliseconds shift it (`RoundingShifts`), later times do not round to earlier
ones (`RoundingMonotone`), and times that round in order are out of order by less
than a millisecond (`RoundingGap`). Theorems: `TimerTypeCorrect`, `CountCorrect`, `SleepBounded`,
`NotifyNotLost`, `StopSafe`, `TasksNotEarly`.

**File transport** (`FileAssumption`: buffers have room for an event). `FileInv` is
`TypeOK /\ Shape /\ Sessions /\ Numbered /\ InOrder /\ Accounted /\ Settlement`.
`Shape` says in which position of the writer the buffers are in which mode and the
event in hand exists; `Sessions` that the threads inside keep to the contract, so
that nobody waits to enqueue while others flush; `Numbered` bounds all event numbers by
`accepted`, so that a new event is above all others; `Settlement` names the moments
when everything accepted is dropped, or in the file and, if no `fsync` has failed, on
disk; among them is the destruction of a transport whose writer never started.
`Durable` is inductive only with it:
the writer decides to flush, syncs and releases its caller in three steps. Theorems:
`FileTypeCorrect`, `BuffersRespected`, `WrittenInOrder`, `NoEventVanishes`,
`FlushIsDurable`.

**Log** (`LogAssumption`, `DataAssumption`). `Inv` is
`TypeInv /\ WriterInv /\ DoomInv /\ ReadInv`.

* `TypeInv` strengthens `TypeOK` to `Sound`, for the reader and for the writer's scan:
  the buffer holds the bytes of the file at `offset_`, `lastDispatchPtr_` is not past
  `bufferPtr_`, and the parts of a size and of an event fit what is being read. It
  depends on the file only growing, hence on `WriterInv`.
* `WriterInv` is `ChunksRespected` and what the writer knows on its way to it. A start
  sets `offset_` to the end of the file because `seekToEnd` ends only there, after
  the end of the file was read (`lastDispatchPtr_` is 0) or an event that ends there
  (`EndOfScan`). So the `ftruncate` after it removes nothing (`NothingTruncated`).
* Error recovery does not add `lastDispatchPtr_`, and could break the chunks even
  without a failed write, after a start that threw. `DoomInv` shows that it cannot get
  that far: while no write has failed, the writer is in recovery only because of a bad event in the
  last chunk; its rounds up to there are a finite path (`Path`, `Doomed`) which a
  later attempt repeats, since rounds depend on everything but the count of bad
  events (`SameRound`, `SameSettled`), and that count is at its limit (`Exhausted`), so the attempt
  throws again (`NoWayOut`).
* `ReadInv` holds while `damaged` is empty. `Layout` describes the file: the events
  written, in order and within chunks, and between them zeros that reach to the end of
  a chunk. `Following` places the reader: what it is reading begins (`Start`) at an
  event or in a gap, it has the first bytes of that event's size and data, and it has
  returned exactly the events before. The steps that matter are the end of the file,
  where a reader without a tail timeout forgets what it has of an event and must
  have nothing (`NothingAtEnd`), the skipping of bytes at the end of a chunk where no
  size may begin (`FollowSkips`), and a size of zero, which must be padding
  (`SizeOf`, with `HeaderBytes` for the four bytes of a length).

Theorems: `LogInvariant`, `FileLogTypeCorrect`, `LogReadBack`, `ChunksKept`,
`NothingTruncated`, `NoWayOut`.

Only model checked: everything under fairness (`Answered`, `PendingServed`,
`OperationsReturn`, `OperationsEnd`, `DueTasksRun`, both `CallsReturn`,
`DamageIsLocal`), which the prover has no rules for; and `RoundTrip` and `ReadMeans`,
which compare whole values of any depth and would need an induction over them.

## What the code's own comments say and the models do not show

Besides the findings, modelling the timer and the file transport met these. They
are part of the models, recorded as hazards, and the properties are stated around
them.

* `TimerManager.cpp` 132: one `notify()` for all waiting stoppers; with two, the
  second may wait for ever. Line 188: a thread that fails to start leaves `STARTING`.
* `TFileTransport.cpp` 314, "throw away any partial events": `lastDispatchPtr_` is 0
  and `offset_` at the end of the file by then, so nothing is cut off
  (`NothingTruncated`), and a restarted writer goes on behind a torn event. If the last
  chunk is corrupt beyond `maxCorruptedEvents_`, `seekToEnd` throws at every retry
  (`NoWayOut`).
* 378: recovery from an I/O error does not add `lastDispatchPtr_` to `offset_`, and
  events may cross a chunk boundary until the next padding.
* 277: after its wait `swapEventBuffers` swaps when there is nothing to swap.
* 200 and 387 test `maxEventSize_` against different lengths.
* 175: `start()` is called after `writerThread_` is set; if it throws, the next write
  goes on without a writer, and `flush()` waits for ever.
* 344 and 491: the result of `fsync` is ignored, and `flush()` returns as if it had
  succeeded.
* 521: `flush()` waits for `forceFlush_` to be false and may find it set again by a
  later call each time.
* `Util.h` 82 rounds to the nearest millisecond, also the time of a task, which may
  run before that time by less than a millisecond.
* 438: after an I/O error the writer does not look at `forceFlush_` before another
  event comes, so `flush()` may hang.
* 425: a short write counts as a whole one (not modelled; a `write` here is complete,
  failed, or torn by a crash).

## Not modelled, and the plan

1. The two reads of `WaitForWorkers` as separate steps.
2. `TThreadedServer` and `TThreadPoolServer` on top of the pool, composed with
   `ThreadManager`; `TNonblockingServer`'s connection state machine.
3. Of the file transport: `resetOutputFile`, `seekToChunk` by a user, errors of `read()`,
   `readTimeout_` above 0, and `TFileProcessor`.

Most of the repository is Apache Thrift as it was released: a compiler with a
generator for each of some twenty languages, scanner and parser generated by flex
and bison, and libraries in those languages. None of it keeps state that more than
one step or actor could disturb, and the port builds little of it, so the share of
all source lines that is modelled stays small.

Left out for good: the lock implementations, sockets, pipes, SSL and HTTP (thin
layers over the operating system), the codecs of other protocols, the compiler
apart from the code it emits, libraries for other languages, build scripts. In the
protocol: enums (read as i32), exceptions as fields, maps whose keys are not
strings (the writer drops their entries; listed as a hazard), invalid UTF-8.
