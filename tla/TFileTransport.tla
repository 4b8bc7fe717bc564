--------------------------- MODULE TFileTransport ---------------------------
(***************************************************************************)
(* transport/TFileTransport.cpp, the writing side: client threads put      *)
(* events into enqueueBuffer_, a writer thread swaps it with               *)
(* dequeueBuffer_, writes the events to the file and fsyncs it; flush()    *)
(* waits for the writer, and the destructor for its end.                   *)
(*                                                                         *)
(* mutex_ is shared by the monitors notFull_, notEmpty_ and flushed_; a    *)
(* block under it is one action.  The destructor sets closing_ and         *)
(* notifies without it, so the writer's decision to wait and the wait are  *)
(* two actions: it is "sleepy", holding mutex_, in between.                *)
(*                                                                         *)
(* Events are numbered in the order enqueueEvent accepts them.  The file   *)
(* is the sequence of events in it, and `synced' of them are on disk; its  *)
(* layout in chunks is the subject of FileLog.  I/O calls, fsync among     *)
(* them, and the start of the writer thread may fail when MayFail allows   *)
(* it; the code does not look at what fsync returns.                       *)
(*                                                                         *)
(* The code has one contract with its clients ("We shouldn't be trying to  *)
(* enqueue new data while a forced flush is requested"): no thread is in   *)
(* enqueueEvent while others are in flush().  The transport is destroyed   *)
(* when no thread is inside it.                                            *)
(***************************************************************************)
EXTENDS Integers, Sequences, FiniteSets

CONSTANTS
  Clients,          \* threads that write and flush
  EventBufferSize,  \* eventBufferSize_
  MaxEvents,        \* bound on the number of events
  MayFail           \* open, seek, write, fsync and the writer's start may fail

ASSUME FileAssumption ==
  /\ EventBufferSize \in Nat \ {0}
  /\ MaxEvents \in Nat
  /\ MayFail \in BOOLEAN

VARIABLES
  \* TFileTransport
  enqueueBuffer_, dequeueBuffer_, closing_, forceFlush_,
  started,          \* bufferAndThreadInitialized_
  \* the writer thread
  wpc,              \* where it is; "unborn" while writerThread_ is null
  hasIOError,
  outEvent,         \* the event it is writing; None between two events
  unflushed,        \* it has written something since the last fsync
  \* the clients, and the thread that destroys the transport
  cpc,              \* where each client is
  ckind,            \* the kind of event a blocked client has in hand
  owner,            \* where the destructor is
  \* the file
  file, synced,
  \* history, read by no action except to number events
  accepted,         \* the number of events accepted
  oversize,         \* events enqueueEvent accepts and the writer refuses
  lost,             \* events that will never be in the file
  promised,         \* the number of events accepted before the last flush()
  failed,           \* open, seek, write or the writer's start has failed
  syncFailed        \* some fsync has failed

buffers == <<enqueueBuffer_, dequeueBuffer_>>
writer == <<wpc, hasIOError, outEvent, unflushed>>
client == <<cpc, ckind, owner>>
disk == <<file, synced>>
history == <<accepted, oversize, lost, promised, failed, syncFailed>>
vars == <<enqueueBuffer_, dequeueBuffer_, closing_, forceFlush_, started, wpc, hasIOError,
          outEvent, unflushed, cpc, ckind, owner, file, synced, accepted, oversize, lost,
          promised, failed, syncFailed>>

None == 0

\* enqueueEvent compares the length of the data with maxEventSize_, the writer the
\* length with its four-byte header, and then with chunkSize_: an "oversize" event
\* passes the first test and not the others.  What does not even pass the first
\* test, and empty events, change nothing.
Kinds == {"fits", "oversize"}

\* The writer is "new" until it has opened the file; at "top" of its loop;
\* "swapping" before it takes mutex_ in swapEventBuffers; "sleepy", "parked" or
\* "woken" around the wait; "writing" the events of dequeueBuffer_, "retrying"
\* to reopen the file or "emitting" one of them; "checking" forceFlush_;
\* "syncing", or "forced" to sync; "releasing" the callers of flush(); "gone".
\* It is "stillborn" when writerThread_ was set and its start() threw.
WriterStates == {"unborn", "stillborn", "new", "top", "swapping", "sleepy", "parked", "woken",
                 "writing", "retrying", "emitting", "checking", "syncing", "forced",
                 "releasing", "gone"}
ClientStates == {"idle", "full", "fullWoken", "flushing", "flushWoken"}
OwnerStates == {"using", "closing", "joining", "closed", "crashed"}

EmptyBuffer == [mode |-> "WRITE", events |-> <<>>, readPoint |-> 0]

isEmpty(b) == b.events = <<>>
isFull(b) == Len(b.events) = EventBufferSize

Full == {c \in Clients : cpc[c] = "full"}
Blocked == {c \in Clients : cpc[c] \in {"full", "fullWoken"}}
Flushing == {c \in Clients : cpc[c] = "flushing"}

\* The mutex is free: the writer is not between its decision to wait and the wait.
Unlocked == wpc # "sleepy"

Init ==
  /\ enqueueBuffer_ = EmptyBuffer
  /\ dequeueBuffer_ = EmptyBuffer
  /\ closing_ = FALSE
  /\ forceFlush_ = FALSE
  /\ started = FALSE
  /\ wpc = "unborn"
  /\ hasIOError = FALSE
  /\ outEvent = None
  /\ unflushed = FALSE
  /\ cpc = [c \in Clients |-> "idle"]
  /\ ckind = [c \in Clients |-> "fits"]
  /\ owner = "using"
  /\ file = <<>>
  /\ synced = 0
  /\ accepted = 0
  /\ oversize = {}
  /\ lost = {}
  /\ promised = 0
  /\ failed = FALSE
  /\ syncFailed = FALSE

-----------------------------------------------------------------------------
(* Mutated forms of the definitions below: plausible slips in this code. *)

\* clears the events and stays in READ mode
StuckReset(b) == [b EXCEPT !.events = <<>>, !.readPoint = 0]

\* takes a buffer for full one event too early, and drops the event
ShortAddEvent(b, e) ==
  IF Len(b.events) + 1 < EventBufferSize THEN [b EXCEPT !.events = Append(@, e)] ELSE b

\* returns the event and does not move on
RepeatingGetNext(b) == [b EXCEPT !.mode = "READ"]

\* counts the event in hand as synced
EagerSyncPoint == Len(file) + 1

\* lets a forced flush go although events are still queued
RashMustGoOn == FALSE

\* waits without a deadline
EndlessTimedWait == FALSE

-----------------------------------------------------------------------------
(* TFileTransportBuffer *)

addEvent(b, e) == [b EXCEPT !.events = Append(@, e)]

\* Takes the next event, which has to exist.
getNext(b) == [b EXCEPT !.mode = "READ", !.readPoint = @ + 1]

reset(b) == EmptyBuffer

NextEvent(b) == b.events[b.readPoint + 1]
HasNext(b) == b.readPoint < Len(b.events)

-----------------------------------------------------------------------------
(* The clients *)

\* notEmpty_.notify(): only the writer waits there.
WriterNotified == IF wpc = "parked" THEN "woken" ELSE wpc

\* The end of enqueueEvent: the event is numbered and added.  Before that,
\* initBufferAndWriteThread has created the thread unless there was one, be it
\* one that never started.
Accepts(c, k) ==
  /\ enqueueBuffer_' = addEvent(enqueueBuffer_, accepted + 1)
  /\ accepted' = accepted + 1
  /\ oversize' = IF k = "oversize" THEN oversize \cup {accepted + 1} ELSE oversize
  /\ wpc' = IF wpc = "unborn" THEN "new" ELSE WriterNotified
  /\ started' = TRUE
  /\ cpc' = [cpc EXCEPT ![c] = "idle"]
  /\ UNCHANGED ckind

\* Nobody is inside flush().
NobodyFlushes == \A c \in Clients : cpc[c] \notin {"flushing", "flushWoken"}

\* enqueueEvent: the first call creates the buffers and the writer thread.
enqueueEvent(c, k) ==
  /\ cpc[c] = "idle" /\ owner = "using" /\ NobodyFlushes
  /\ ~closing_
  /\ Unlocked
  /\ accepted + Cardinality(Blocked) < MaxEvents
  /\ IF isFull(enqueueBuffer_)
     THEN /\ cpc' = [cpc EXCEPT ![c] = "full"]
          /\ ckind' = [ckind EXCEPT ![c] = k]
          /\ UNCHANGED <<enqueueBuffer_, accepted, oversize, wpc, started>>
     ELSE Accepts(c, k)
  /\ UNCHANGED <<dequeueBuffer_, closing_, forceFlush_, hasIOError, outEvent, unflushed,
                 owner, disk, lost, promised, failed, syncFailed>>

\* The first call of enqueueEvent, when the start of the writer thread throws:
\* writerThread_ is already set and the buffers are not yet there.
StartFails(c) ==
  /\ MayFail
  /\ cpc[c] = "idle" /\ owner = "using" /\ NobodyFlushes
  /\ wpc = "unborn"
  /\ wpc' = "stillborn"
  /\ failed' = TRUE
  /\ UNCHANGED <<buffers, closing_, forceFlush_, started, hasIOError, outEvent, unflushed,
                 client, disk, accepted, oversize, lost, promised, syncFailed>>

\* notFull_.wait() returns.
EnqueueResumes(c) ==
  /\ cpc[c] = "fullWoken"
  /\ Unlocked
  /\ IF isFull(enqueueBuffer_)
     THEN /\ cpc' = [cpc EXCEPT ![c] = "full"]
          /\ UNCHANGED <<enqueueBuffer_, ckind, accepted, oversize, wpc, started>>
     ELSE Accepts(c, ckind[c])
  /\ UNCHANGED <<dequeueBuffer_, closing_, forceFlush_, hasIOError, outEvent, unflushed,
                 owner, disk, lost, promised, failed, syncFailed>>

\* flush(), when writerThread_ is set; other callers of flush() may be inside.
flush(c) ==
  /\ cpc[c] = "idle" /\ owner = "using" /\ Blocked = {}
  /\ wpc # "unborn"
  /\ Unlocked
  /\ forceFlush_' = TRUE
  /\ wpc' = WriterNotified
  /\ cpc' = [cpc EXCEPT ![c] = "flushing"]
  /\ UNCHANGED <<buffers, closing_, started, hasIOError, outEvent, unflushed, ckind, owner,
                 disk, history>>

\* flushed_.wait() returns.
FlushResumes(c) ==
  /\ cpc[c] = "flushWoken"
  /\ Unlocked
  /\ cpc' = [cpc EXCEPT ![c] = IF forceFlush_ THEN "flushing" ELSE "idle"]
  /\ promised' = IF forceFlush_ THEN promised ELSE accepted
  /\ UNCHANGED <<buffers, closing_, forceFlush_, started, writer, ckind, owner, disk,
                 accepted, oversize, lost, failed, syncFailed>>

-----------------------------------------------------------------------------
(* The destructor; it does not take mutex_ *)

CloseSets ==
  /\ owner = "using"
  /\ \A c \in Clients : cpc[c] = "idle"
  /\ closing_' = (wpc # "unborn")
  /\ owner' = IF wpc # "unborn" THEN "closing" ELSE "closed"
  /\ UNCHANGED <<buffers, forceFlush_, started, writer, cpc, ckind, disk, history>>

CloseNotifies ==
  /\ owner = "closing"
  /\ owner' = "joining"
  /\ wpc' = WriterNotified
  /\ UNCHANGED <<buffers, closing_, forceFlush_, started, hasIOError, outEvent, unflushed,
                 cpc, ckind, disk, history>>

\* What enqueueBuffer_ holds; it is lost when nobody will write it any more.
Queued == {enqueueBuffer_.events[i] : i \in DOMAIN enqueueBuffer_.events}

\* join() returns, the buffers are deleted and the file is closed.
CloseJoins ==
  /\ owner = "joining"
  /\ wpc = "gone"
  /\ owner' = "closed"
  /\ UNCHANGED <<buffers, closing_, forceFlush_, started, writer, cpc, ckind, disk, history>>

\* join() of a thread that never started: it returns, or, when the failure was
\* pthread_create's, it is pthread_join of an id that is none, which is undefined.
\* What was enqueued is deleted.
CloseJoinsStillborn ==
  /\ owner = "joining"
  /\ wpc = "stillborn"
  /\ owner' \in {"closed", "crashed"}
  /\ lost' = lost \cup Queued
  /\ UNCHANGED <<buffers, closing_, forceFlush_, started, writer, cpc, ckind, disk,
                 accepted, oversize, promised, failed, syncFailed>>

-----------------------------------------------------------------------------
(* The writer thread *)

\* What fsync makes durable: everything written so far.
SyncPoint == Len(file)

\* fsync, whose result is ignored.
Fsync ==
  \/ synced' = SyncPoint /\ UNCHANGED syncFailed
  \/ MayFail /\ syncFailed' = TRUE /\ UNCHANGED synced

IOError == hasIOError' = TRUE /\ failed' = TRUE

\* Opens the file if it is not open and goes to its end.
WriterOpens ==
  /\ wpc = "new"
  /\ wpc' = "top"
  /\ \/ UNCHANGED <<hasIOError, failed>>
     \/ MayFail /\ IOError
  /\ UNCHANGED <<buffers, closing_, forceFlush_, started, outEvent, unflushed, client, disk,
                 accepted, oversize, lost, promised, syncFailed>>

\* The top of the loop: when the transport is closing the thread ends as soon as
\* there is nothing to write, or nothing can be written.
WriterTops ==
  /\ wpc = "top"
  /\ IF closing_ /\ (hasIOError \/ (isEmpty(enqueueBuffer_) /\ isEmpty(dequeueBuffer_)))
     THEN /\ wpc' = "gone"
          /\ IF hasIOError THEN UNCHANGED <<synced, syncFailed>> ELSE Fsync
          /\ lost' = lost \cup Queued
     ELSE wpc' = "swapping" /\ UNCHANGED <<synced, lost, syncFailed>>
  /\ UNCHANGED <<buffers, closing_, forceFlush_, started, hasIOError, outEvent, unflushed,
                 client, file, accepted, oversize, promised, failed>>

\* Exchanges the buffers and wakes one client that waits for room.
Swap ==
  /\ enqueueBuffer_' = dequeueBuffer_
  /\ dequeueBuffer_' = enqueueBuffer_
  /\ wpc' = "writing"
  /\ IF Full = {} THEN UNCHANGED cpc
     ELSE \E c \in Full : cpc' = [cpc EXCEPT ![c] = "fullWoken"]

\* swapEventBuffers up to the wait.
WriterSwaps ==
  /\ wpc = "swapping"
  /\ IF ~isEmpty(enqueueBuffer_)
     THEN Swap
     ELSE /\ wpc' = IF closing_ THEN "checking" ELSE "sleepy"
          /\ UNCHANGED <<buffers, cpc>>
  /\ UNCHANGED <<closing_, forceFlush_, started, hasIOError, outEvent, unflushed, ckind,
                 owner, disk, history>>

WriterParks ==
  /\ wpc = "sleepy"
  /\ wpc' = "parked"
  /\ UNCHANGED <<buffers, closing_, forceFlush_, started, hasIOError, outEvent, unflushed,
                 client, disk, history>>

\* The wait has a deadline, the time of the next fsync.
TimedWait == TRUE

\* The wait reaches its deadline, or ends for no reason.
WriterTimesOut ==
  /\ wpc = "parked"
  /\ TimedWait
  /\ wpc' = "woken"
  /\ UNCHANGED <<buffers, closing_, forceFlush_, started, hasIOError, outEvent, unflushed,
                 client, disk, history>>

\* What swapEventBuffers returns after the wait.
SwapAfterWait(b) == isEmpty(b)

\* swapEventBuffers after the wait.
WriterWakes ==
  /\ wpc = "woken"
  /\ IF SwapAfterWait(enqueueBuffer_)
     THEN Swap
     ELSE wpc' = "checking" /\ UNCHANGED <<buffers, cpc>>
  /\ UNCHANGED <<closing_, forceFlush_, started, hasIOError, outEvent, unflushed, ckind,
                 owner, disk, history>>

\* Takes the next event out of dequeueBuffer_, or resets it at its end.
WriterTakes ==
  /\ wpc = "writing"
  /\ IF HasNext(dequeueBuffer_)
     THEN /\ outEvent' = NextEvent(dequeueBuffer_)
          /\ dequeueBuffer_' = getNext(dequeueBuffer_)
          /\ wpc' = IF hasIOError THEN "retrying" ELSE "emitting"
     ELSE /\ dequeueBuffer_' = reset(dequeueBuffer_)
          /\ wpc' = "checking"
          /\ UNCHANGED outEvent
  /\ UNCHANGED <<enqueueBuffer_, closing_, forceFlush_, started, hasIOError, unflushed,
                 client, disk, history>>

\* The events the writer has in hand or has still to take.
Unwritten ==
  {outEvent} \cup {dequeueBuffer_.events[i] :
                     i \in (dequeueBuffer_.readPoint + 1) .. Len(dequeueBuffer_.events)}

\* One round of the loop of error recovery.  Reopening the file may fail any
\* number of times; such a round changes nothing.
WriterRetries ==
  /\ wpc = "retrying"
  /\ IF closing_
     THEN /\ wpc' = "gone"
          /\ lost' = lost \cup Unwritten \cup Queued
          /\ outEvent' = None
          /\ UNCHANGED <<hasIOError, unflushed>>
     ELSE /\ wpc' = "emitting"
          /\ hasIOError' = FALSE
          /\ unflushed' = FALSE
          /\ UNCHANGED <<lost, outEvent>>
  /\ UNCHANGED <<buffers, closing_, forceFlush_, started, client, disk, accepted, oversize,
                 promised, failed, syncFailed>>

\* Writes the event, after padding the chunk if it has to; an event that is too
\* long is skipped and one that cannot be written is dropped.
WriterEmits ==
  /\ wpc = "emitting"
  /\ wpc' = "writing"
  /\ outEvent' = None
  /\ \/ /\ outEvent \in oversize
        /\ lost' = lost \cup {outEvent}
        /\ UNCHANGED <<file, unflushed, hasIOError, failed>>
     \/ /\ outEvent \notin oversize
        /\ file' = Append(file, outEvent)
        /\ unflushed' = TRUE
        /\ UNCHANGED <<lost, hasIOError, failed>>
     \/ /\ outEvent \notin oversize
        /\ MayFail /\ IOError
        /\ lost' = lost \cup {outEvent}
        /\ UNCHANGED <<file, unflushed>>
  /\ UNCHANGED <<buffers, closing_, forceFlush_, started, client, synced, accepted,
                 oversize, promised, syncFailed>>

\* A forced flush has to wait for another round of the loop.
MustGoOn == ~isEmpty(enqueueBuffer_)

\* Looks at forceFlush_, unless there was an I/O error.
WriterChecks ==
  /\ wpc = "checking"
  /\ wpc' = IF hasIOError THEN "top"
            ELSE IF ~forceFlush_ THEN "syncing"
            ELSE IF MustGoOn THEN "top"
            ELSE "forced"
  /\ UNCHANGED <<buffers, closing_, forceFlush_, started, hasIOError, outEvent, unflushed,
                 client, disk, history>>

\* fsync, forced or because enough was written or the deadline has passed.
WriterSyncs ==
  /\ wpc = "forced" \/ (wpc = "syncing" /\ unflushed)
  /\ wpc' = IF wpc = "forced" THEN "releasing" ELSE "top"
  /\ Fsync
  /\ unflushed' = FALSE
  /\ UNCHANGED <<buffers, closing_, forceFlush_, started, hasIOError, outEvent, client, file,
                 accepted, oversize, lost, promised, failed>>

\* It is not yet time for an fsync, or nothing was written.
WriterSkipsSync ==
  /\ wpc = "syncing"
  /\ wpc' = "top"
  /\ UNCHANGED <<buffers, closing_, forceFlush_, started, hasIOError, outEvent, unflushed,
                 client, disk, history>>

\* Clears forceFlush_ and wakes the callers of flush().
WriterReleases ==
  /\ wpc = "releasing"
  /\ wpc' = "top"
  /\ forceFlush_' = FALSE
  /\ cpc' = [c \in Clients |-> IF c \in Flushing THEN "flushWoken" ELSE cpc[c]]
  /\ UNCHANGED <<buffers, closing_, started, hasIOError, outEvent, unflushed, ckind, owner,
                 disk, history>>

\* notFull_.wait() or flushed_.wait() ends for no reason.
SpuriousWakeup(c) ==
  /\ \/ cpc[c] = "full" /\ cpc' = [cpc EXCEPT ![c] = "fullWoken"]
     \/ cpc[c] = "flushing" /\ cpc' = [cpc EXCEPT ![c] = "flushWoken"]
  /\ UNCHANGED <<buffers, closing_, forceFlush_, started, writer, ckind, owner, disk, history>>

WriterThread ==
  \/ WriterOpens \/ WriterTops \/ WriterSwaps \/ WriterParks \/ WriterTimesOut
  \/ WriterWakes \/ WriterTakes \/ WriterEmits \/ WriterChecks
  \/ WriterSyncs \/ WriterSkipsSync \/ WriterReleases

Next ==
  \/ \E c \in Clients :
       \/ \E k \in Kinds : enqueueEvent(c, k)
       \/ StartFails(c)
       \/ EnqueueResumes(c)
       \/ flush(c)
       \/ FlushResumes(c)
       \/ SpuriousWakeup(c)
  \/ CloseSets \/ CloseNotifies \/ CloseJoins \/ CloseJoinsStillborn
  \/ WriterThread
  \/ WriterRetries

Spec == Init /\ [][Next]_vars

\* The writer thread runs, its timed wait ends, mutex_ comes some day to every
\* client that waits for it, and the destructor goes on.  Nothing says that the
\* file can ever be reopened: the retry is only bound to notice closing_.
Fairness ==
  /\ WF_vars(WriterThread)
  /\ WF_vars(WriterRetries /\ closing_)
  /\ WF_vars(CloseNotifies) /\ WF_vars(CloseJoins) /\ WF_vars(CloseJoinsStillborn)
  /\ \A c \in Clients : SF_vars(FlushResumes(c)) /\ SF_vars(EnqueueResumes(c))

FairSpec == Spec /\ Fairness

-----------------------------------------------------------------------------
(* Properties. *)

Buffers == [mode : {"WRITE", "READ"}, events : Seq(Nat), readPoint : Nat]

TypeOK ==
  /\ enqueueBuffer_ \in Buffers
  /\ dequeueBuffer_ \in Buffers
  /\ closing_ \in BOOLEAN
  /\ forceFlush_ \in BOOLEAN
  /\ started \in BOOLEAN
  /\ wpc \in WriterStates
  /\ hasIOError \in BOOLEAN
  /\ outEvent \in Nat
  /\ unflushed \in BOOLEAN
  /\ cpc \in [Clients -> ClientStates]
  /\ ckind \in [Clients -> Kinds]
  /\ owner \in OwnerStates
  /\ file \in Seq(Nat)
  /\ synced \in 0 .. Len(file)
  /\ accepted \in Nat
  /\ oversize \in SUBSET Nat
  /\ lost \in SUBSET Nat
  /\ promised \in Nat
  /\ failed \in BOOLEAN
  /\ syncFailed \in BOOLEAN

\* The assertions of the code and the rule of TFileTransportBuffer: clients add
\* only to a buffer that is in WRITE mode and within its size (the two buffers
\* change places under them), no event is added during a forced flush, and both
\* buffers are empty when the writer clears forceFlush_ although it looked at them
\* in an earlier block.
AssertionsHold ==
  /\ enqueueBuffer_.mode = "WRITE" /\ enqueueBuffer_.readPoint = 0
  /\ Len(enqueueBuffer_.events) <= EventBufferSize
  /\ forceFlush_ => Blocked = {}
  /\ wpc \in {"forced", "releasing"} => isEmpty(enqueueBuffer_) /\ isEmpty(dequeueBuffer_)

Unread == {i \in DOMAIN dequeueBuffer_.events : i > dequeueBuffer_.readPoint}

\* Events reach the file in the order they were accepted and at most once, across
\* swaps, retries, drops and restarts of the loop: the file, the event in hand,
\* what is unread of dequeueBuffer_ and enqueueBuffer_ are increasing, one after
\* the other.
InOrder ==
  /\ \A i, j \in DOMAIN file : i < j => file[i] < file[j]
  /\ \A i, j \in Unread : i < j => dequeueBuffer_.events[i] < dequeueBuffer_.events[j]
  /\ \A i, j \in DOMAIN enqueueBuffer_.events :
       i < j => enqueueBuffer_.events[i] < enqueueBuffer_.events[j]
  /\ \A i \in DOMAIN file, j \in Unread : file[i] < dequeueBuffer_.events[j]
  /\ \A i \in DOMAIN file, j \in DOMAIN enqueueBuffer_.events :
       file[i] < enqueueBuffer_.events[j]
  /\ \A i \in Unread, j \in DOMAIN enqueueBuffer_.events :
       dequeueBuffer_.events[i] < enqueueBuffer_.events[j]
  /\ outEvent # None =>
       /\ \A i \in DOMAIN file : file[i] < outEvent
       /\ \A i \in Unread : outEvent < dequeueBuffer_.events[i]
       /\ \A i \in DOMAIN enqueueBuffer_.events : outEvent < enqueueBuffer_.events[i]

InFile(e, n) == \E i \in 1 .. n : file[i] = e

\* The event is in the file, and on disk if every fsync so far has succeeded.
Safe(e) == InFile(e, Len(file)) /\ (syncFailed \/ InFile(e, synced))

\* No accepted event vanishes: it is in the file, in a buffer, in the writer's
\* hand or was dropped; and without an I/O error or a writer that failed to start
\* only events that enqueueEvent should not have accepted are dropped.
Accounted ==
  \A e \in 1 .. accepted :
    /\ \/ InFile(e, Len(file))
       \/ e \in lost
       \/ e = outEvent
       \/ \E i \in Unread : dequeueBuffer_.events[i] = e
       \/ \E i \in DOMAIN enqueueBuffer_.events : enqueueBuffer_.events[i] = e
    /\ e \in lost => e \in oversize \/ failed

\* After flush() has returned, every event accepted before is in the file, and, as
\* long as no fsync has failed, on disk, unless it was dropped; after the destructor
\* has returned without a pending I/O error, that holds of all.  More cannot be
\* said: nobody looks at the result of fsync, and flush() returns all the same.
Durable ==
  /\ \A e \in 1 .. promised : e \in lost \/ Safe(e)
  /\ owner = "closed" /\ ~hasIOError => \A e \in 1 .. accepted : e \in lost \/ Safe(e)

\* A thread enters flush().
NewFlush(d) == cpc[d] = "idle" /\ cpc'[d] = "flushing"

\* The writer cannot serve its clients: it has met an I/O error (it then does not
\* look at forceFlush_ before the next event, and none comes), or never started.
NoService == hasIOError \/ wpc = "stillborn"

\* With a writer that can serve them, a write that waits for room returns (others
\* can overtake it only MaxEvents times), and so does flush() unless other threads
\* go on calling flush() (its loop waits for forceFlush_ to be false, and a later
\* call may have set it again each time it looks).  The destructor always returns,
\* although it notifies without mutex_, or crashes in the join of a writer that
\* never started.
CallsReturn ==
  /\ \A c \in Clients :
       /\ <>[][\A d \in Clients \ {c} : ~NewFlush(d)]_cpc =>
            (cpc[c] = "flushing" ~> cpc[c] = "idle" \/ NoService)
       /\ cpc[c] = "full" ~> cpc[c] = "idle" \/ NoService
  /\ owner = "closing" ~> owner = "closed" \/ (owner = "crashed" /\ wpc = "stillborn")
=============================================================================
