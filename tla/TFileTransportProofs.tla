------------------------ MODULE TFileTransportProofs ------------------------
(* Proofs about TFileTransport, for any number of clients and events and any *)
(* size of the buffers.                                                      *)
EXTENDS TFileTransport, SequenceTheorems, TLAPS

Inside == {c \in Clients : cpc[c] \in {"flushing", "flushWoken"}}

\* Which buffers and which event the writer has in each of its states.
Shape ==
  /\ enqueueBuffer_.mode = "WRITE" /\ enqueueBuffer_.readPoint = 0
  /\ Len(enqueueBuffer_.events) <= EventBufferSize
  /\ dequeueBuffer_.readPoint <= Len(dequeueBuffer_.events)
  /\ wpc \notin {"writing", "retrying", "emitting", "gone"} => dequeueBuffer_ = EmptyBuffer
  /\ outEvent # None <=> wpc \in {"retrying", "emitting"}
  /\ wpc = "retrying" => hasIOError
  /\ hasIOError => failed
  /\ ~started => wpc \in {"unborn", "stillborn"} /\ accepted = 0
  /\ wpc = "unborn" => ~started
  /\ wpc \in {"unborn", "stillborn"} => Len(file) = 0
  /\ wpc = "stillborn" => failed

\* Who may be inside the transport: nobody waits to enqueue while others are in
\* flush(), and the destructor is alone; the writer serves a forced flush with
\* nothing left to write.
Sessions ==
  /\ Inside # {} => Blocked = {}
  /\ forceFlush_ => Inside # {}
  /\ owner # "using" => \A c \in Clients : cpc[c] = "idle"
  /\ closing_ => owner # "using"
  /\ wpc = "gone" => closing_
  /\ wpc \in {"forced", "releasing"} =>
       forceFlush_ /\ isEmpty(enqueueBuffer_) /\ isEmpty(dequeueBuffer_)

\* Events are numbered from one up to accepted.
Numbered ==
  /\ \A i \in DOMAIN file : file[i] \in 1 .. accepted
  /\ \A i \in DOMAIN dequeueBuffer_.events : dequeueBuffer_.events[i] \in 1 .. accepted
  /\ \A i \in DOMAIN enqueueBuffer_.events : enqueueBuffer_.events[i] \in 1 .. accepted
  /\ outEvent \in 0 .. accepted
  /\ promised \in 0 .. accepted
  /\ lost \subseteq 1 .. accepted

\* Every accepted event is in the file, and on disk if no fsync has failed, or was
\* dropped.
Settled == \A e \in 1 .. accepted : e \in lost \/ Safe(e)

\* When that is the case: from the fsync of a forced flush until its caller has
\* returned, after the writer has gone with no error pending, and after the
\* transport whose writer never started was destroyed.
Settlement ==
  /\ wpc = "releasing" => Settled
  /\ Inside # {} /\ ~forceFlush_ => Settled
  /\ wpc = "gone" /\ ~hasIOError => Settled
  /\ owner = "closed" => wpc \in {"unborn", "gone", "stillborn"}
  /\ owner = "closed" /\ wpc = "stillborn" => Settled
  /\ \A e \in 1 .. promised : e \in lost \/ Safe(e)

FileInv == TypeOK /\ Shape /\ Sessions /\ Numbered /\ InOrder /\ Accounted /\ Settlement

-----------------------------------------------------------------------------
(* Lemmas about the operators of the model *)

\* Append as SMT needs it.
LEMMA AppendFacts ==
  ASSUME NEW s \in Seq(Nat), NEW e \in Nat
  PROVE  /\ Append(s, e) \in Seq(Nat)
         /\ Len(Append(s, e)) = Len(s) + 1
         /\ DOMAIN Append(s, e) = 1 .. (Len(s) + 1)
         /\ \A i \in 1 .. Len(s) : Append(s, e)[i] = s[i]
         /\ Append(s, e)[Len(s) + 1] = e
         /\ DOMAIN s = 1 .. Len(s) /\ Len(s) \in Nat
OBVIOUS

\* A buffer's fields.
LEMMA BufferFields ==
  ASSUME NEW b \in Buffers
  PROVE  /\ b.mode \in {"WRITE", "READ"}
         /\ b.events \in Seq(Nat)
         /\ b.readPoint \in Nat
         /\ b = [mode |-> b.mode, events |-> b.events, readPoint |-> b.readPoint]
         /\ DOMAIN b.events = 1 .. Len(b.events) /\ Len(b.events) \in Nat
BY DEF Buffers

\* addEvent appends one event and touches nothing else.
LEMMA AddEventFields ==
  ASSUME NEW b \in Buffers, NEW e \in Nat
  PROVE  /\ addEvent(b, e) \in Buffers
         /\ addEvent(b, e).events = Append(b.events, e)
         /\ addEvent(b, e).mode = b.mode
         /\ addEvent(b, e).readPoint = b.readPoint
<1>1. addEvent(b, e) = [mode |-> b.mode, events |-> Append(b.events, e), readPoint |-> b.readPoint]
  BY DEF addEvent, Buffers
<1>2. Append(b.events, e) \in Seq(Nat)
  BY BufferFields, AppendFacts
<1> QED BY <1>1, <1>2, BufferFields DEF Buffers

\* getNext moves readPoint by one and leaves the events alone.
LEMMA GetNextFields ==
  ASSUME NEW b \in Buffers
  PROVE  /\ getNext(b) \in Buffers
         /\ getNext(b).events = b.events
         /\ getNext(b).readPoint = b.readPoint + 1
<1> DEFINE opened == [b EXCEPT !.mode = "READ"]
<1>0. opened = [mode |-> "READ", events |-> b.events, readPoint |-> b.readPoint]
  BY DEF Buffers
<1>a. getNext(b) = [opened EXCEPT !.readPoint = opened.readPoint + 1]
  BY Zenon DEF getNext
<1> HIDE DEF opened
<1>1. getNext(b) = [mode |-> "READ", events |-> b.events, readPoint |-> b.readPoint + 1]
  BY <1>0, <1>a
<1> QED BY <1>1, BufferFields DEF Buffers

\* A buffer that was reset is empty.
LEMMA EmptyBufferFields ==
  /\ EmptyBuffer \in Buffers
  /\ EmptyBuffer.events = <<>> /\ EmptyBuffer.readPoint = 0 /\ EmptyBuffer.mode = "WRITE"
  /\ DOMAIN EmptyBuffer.events = {} /\ Len(EmptyBuffer.events) = 0
BY DEF EmptyBuffer, Buffers

\* What is safe stays so while the file and the part of it on disk grow.
LEMMA SafeStays ==
  ASSUME TypeOK, NEW e \in Nat, Safe(e),
         Len(file') \in Nat, Len(file) <= Len(file'),
         \A i \in 1 .. Len(file) : file'[i] = file[i],
         synced' \in Nat, synced <= synced', syncFailed => syncFailed'
  PROVE  Safe(e)'
<1>1. Len(file) \in Nat /\ synced \in 0 .. Len(file)
  BY DEF TypeOK
<1>2. InFile(e, Len(file))'
  <2>1. PICK i \in 1 .. Len(file) : file[i] = e
    BY DEF Safe, InFile
  <2>2. i \in 1 .. Len(file') /\ file'[i] = e
    BY <1>1, <2>1
  <2> QED BY <2>2 DEF InFile
<1>3. CASE InFile(e, synced)
  <2>1. PICK i \in 1 .. synced : file[i] = e
    BY <1>3 DEF InFile
  <2>2. i \in 1 .. synced' /\ i \in 1 .. Len(file)
    BY <1>1
  <2>3. InFile(e, synced)'
    BY <2>1, <2>2 DEF InFile
  <2> QED BY <1>2, <2>3 DEF Safe
<1>4. CASE syncFailed
  BY <1>2, <1>4 DEF Safe
<1> QED BY <1>3, <1>4 DEF Safe

\* The queued events are accepted ones.
LEMMA QueuedFacts ==
  ASSUME FileInv
  PROVE  Queued \in SUBSET Nat /\ Queued \subseteq 1 .. accepted
<1>1. Queued \in SUBSET Nat
  BY BufferFields DEF FileInv, TypeOK, Queued
<1>2. Queued \subseteq 1 .. accepted
  BY DEF FileInv, Numbered, Queued
<1> QED BY <1>1, <1>2

\* fsync syncs the whole file, or fails and changes nothing on disk.
LEMMA FsyncFacts ==
  ASSUME FileInv, Fsync
  PROVE  /\ synced' \in 0 .. Len(file) /\ synced' \in Nat /\ synced <= synced'
         /\ syncFailed' \in BOOLEAN /\ (syncFailed => syncFailed')
         /\ syncFailed' \/ synced' = Len(file)
<1>1. Len(file) \in Nat /\ synced \in 0 .. Len(file)
  BY DEF FileInv, TypeOK
<1>2. syncFailed' \in BOOLEAN
  BY DEF FileInv, TypeOK, Fsync
<1>3. (syncFailed => syncFailed') /\ (syncFailed' \/ synced' = Len(file))
  BY DEF Fsync, SyncPoint
<1>4. synced' = Len(file) \/ synced' = synced
  BY DEF Fsync, SyncPoint
<1> QED BY <1>1, <1>2, <1>3, <1>4

-----------------------------------------------------------------------------
(* Each action preserves the invariant *)

\* flush() is called.
LEMMA FlushKeeps ==
  ASSUME FileInv, NEW c \in Clients, flush(c)
  PROVE  FileInv'
<1>1. TypeOK'
  BY DEF FileInv, TypeOK, WriterStates, ClientStates, flush, WriterNotified, buffers,
     disk, history
<1>2. Shape'
  BY DEF FileInv, TypeOK, Shape, None, flush, WriterNotified, buffers, disk, history
<1>3. Sessions'
  BY DEF FileInv, TypeOK, Shape, Sessions, Inside, Blocked, isEmpty, flush, WriterNotified,
     buffers, disk, history
<1>4. Numbered'
  BY DEF FileInv, TypeOK, Shape, Numbered, None, flush, WriterNotified, buffers, disk,
     history
<1>5. InOrder'
  BY DEF FileInv, InOrder, Unread, flush, WriterNotified, buffers, disk, history
<1>6. Accounted'
  BY DEF FileInv, TypeOK, Accounted, InFile, Unread, flush, WriterNotified, buffers,
     disk, history
<1>7. Settlement'
  BY DEF FileInv, TypeOK, Shape, Sessions, Settlement, Settled, Safe, InFile, Inside, flush,
     WriterNotified, buffers, disk, history
<1> QED BY <1>1, <1>2, <1>3, <1>4, <1>5, <1>6, <1>7 DEF FileInv

\* flush() looks at forceFlush_ again.
LEMMA FlushResumesKeeps ==
  ASSUME FileInv, NEW c \in Clients, FlushResumes(c)
  PROVE  FileInv'
<1>1. TypeOK'
  BY DEF FileInv, TypeOK, ClientStates, FlushResumes, buffers, writer, disk
<1>2. Shape'
  BY DEF FileInv, TypeOK, Shape, None, FlushResumes, buffers, writer, disk
<1>3. Sessions'
  BY DEF FileInv, TypeOK, Shape, Sessions, Inside, Blocked, isEmpty, FlushResumes, buffers,
     writer, disk
<1>4. Numbered'
  BY DEF FileInv, TypeOK, Shape, Numbered, None, FlushResumes, buffers, writer, disk
<1>5. InOrder'
  BY DEF FileInv, InOrder, Unread, FlushResumes, buffers, writer, disk
<1>6. Accounted'
  BY DEF FileInv, TypeOK, Accounted, InFile, Unread, FlushResumes, buffers, writer, disk
<1>7. Settlement'
  BY DEF FileInv, TypeOK, Shape, Sessions, Settlement, Settled, Safe, InFile, Inside,
     FlushResumes, buffers, writer, disk
<1> QED BY <1>1, <1>2, <1>3, <1>4, <1>5, <1>6, <1>7 DEF FileInv

\* A client's wait ends for no reason.
LEMMA SpuriousKeeps ==
  ASSUME FileInv, NEW c \in Clients, SpuriousWakeup(c)
  PROVE  FileInv'
<1>1. TypeOK'
  BY DEF FileInv, TypeOK, ClientStates, SpuriousWakeup, buffers, writer, disk, history
<1>2. Shape'
  BY DEF FileInv, TypeOK, Shape, None, SpuriousWakeup, buffers, writer, disk, history
<1>3. Sessions'
  BY DEF FileInv, TypeOK, Shape, Sessions, Inside, Blocked, isEmpty, SpuriousWakeup, buffers,
     writer, disk, history
<1>4. Numbered'
  BY DEF FileInv, TypeOK, Shape, Numbered, None, SpuriousWakeup, buffers, writer, disk,
     history
<1>5. InOrder'
  BY DEF FileInv, InOrder, Unread, SpuriousWakeup, buffers, writer, disk, history
<1>6. Accounted'
  BY DEF FileInv, TypeOK, Accounted, InFile, Unread, SpuriousWakeup, buffers, writer,
     disk, history
<1>7. Settlement'
  BY DEF FileInv, TypeOK, Shape, Sessions, Settlement, Settled, Safe, InFile, Inside,
     SpuriousWakeup, buffers, writer, disk, history
<1> QED BY <1>1, <1>2, <1>3, <1>4, <1>5, <1>6, <1>7 DEF FileInv

\* The destructor sets closing_.
LEMMA CloseSetsKeeps ==
  ASSUME FileInv, CloseSets
  PROVE  FileInv'
<1>1. TypeOK'
  BY DEF FileInv, TypeOK, OwnerStates, CloseSets, buffers, writer, disk, history
<1>2. Shape'
  BY DEF FileInv, TypeOK, Shape, None, CloseSets, buffers, writer, disk, history
<1>3. Sessions'
  BY DEF FileInv, TypeOK, Shape, Sessions, Inside, Blocked, isEmpty, CloseSets, buffers, writer,
     disk, history
<1>4. Numbered'
  BY DEF FileInv, TypeOK, Shape, Numbered, None, CloseSets, buffers, writer, disk,
     history
<1>5. InOrder'
  BY DEF FileInv, InOrder, Unread, CloseSets, buffers, writer, disk, history
<1>6. Accounted'
  BY DEF FileInv, TypeOK, Accounted, InFile, Unread, CloseSets, buffers, writer, disk,
     history
<1>7. Settlement'
  BY DEF FileInv, TypeOK, Shape, Sessions, Settlement, Settled, Safe, InFile, Inside,
     CloseSets, buffers, writer, disk, history
<1> QED BY <1>1, <1>2, <1>3, <1>4, <1>5, <1>6, <1>7 DEF FileInv

\* The destructor notifies the writer.
LEMMA CloseNotifiesKeeps ==
  ASSUME FileInv, CloseNotifies
  PROVE  FileInv'
<1>1. TypeOK'
  BY DEF FileInv, TypeOK, WriterStates, OwnerStates, CloseNotifies, WriterNotified,
     buffers, disk, history
<1>2. Shape'
  BY DEF FileInv, TypeOK, Shape, None, CloseNotifies, WriterNotified, buffers, disk,
     history
<1>3. Sessions'
  BY DEF FileInv, TypeOK, Shape, Sessions, Inside, Blocked, isEmpty, CloseNotifies,
     WriterNotified, buffers, disk, history
<1>4. Numbered'
  BY DEF FileInv, TypeOK, Shape, Numbered, None, CloseNotifies, WriterNotified, buffers,
     disk, history
<1>5. InOrder'
  BY DEF FileInv, InOrder, Unread, CloseNotifies, WriterNotified, buffers, disk, history
<1>6. Accounted'
  BY DEF FileInv, TypeOK, Accounted, InFile, Unread, CloseNotifies, WriterNotified,
     buffers, disk, history
<1>7. Settlement'
  BY DEF FileInv, TypeOK, Shape, Sessions, Settlement, Settled, Safe, InFile, Inside,
     CloseNotifies, WriterNotified, buffers, disk, history
<1> QED BY <1>1, <1>2, <1>3, <1>4, <1>5, <1>6, <1>7 DEF FileInv

\* The destructor joins the writer.
LEMMA CloseJoinsKeeps ==
  ASSUME FileInv, CloseJoins
  PROVE  FileInv'
<1>1. TypeOK'
  BY DEF FileInv, TypeOK, OwnerStates, CloseJoins, buffers, writer, disk, history
<1>2. Shape'
  BY DEF FileInv, TypeOK, Shape, None, CloseJoins, buffers, writer, disk, history
<1>3. Sessions'
  BY DEF FileInv, TypeOK, Shape, Sessions, Inside, Blocked, isEmpty, CloseJoins, buffers, writer,
     disk, history
<1>4. Numbered'
  BY DEF FileInv, TypeOK, Shape, Numbered, None, CloseJoins, buffers, writer, disk,
     history
<1>5. InOrder'
  BY DEF FileInv, InOrder, Unread, CloseJoins, buffers, writer, disk, history
<1>6. Accounted'
  BY DEF FileInv, TypeOK, Accounted, InFile, Unread, CloseJoins, buffers, writer, disk,
     history
<1>7. Settlement'
  BY DEF FileInv, TypeOK, Shape, Sessions, Settlement, Settled, Safe, InFile, Inside,
     CloseJoins, buffers, writer, disk, history
<1> QED BY <1>1, <1>2, <1>3, <1>4, <1>5, <1>6, <1>7 DEF FileInv

\* The destructor joins a writer that never started.
LEMMA CloseJoinsStillbornKeeps ==
  ASSUME FileInv, CloseJoinsStillborn
  PROVE  FileInv'
<1>a. /\ UNCHANGED <<enqueueBuffer_, dequeueBuffer_, closing_, forceFlush_, started>>
      /\ UNCHANGED <<wpc, hasIOError, outEvent, unflushed, cpc, ckind, file, synced>>
      /\ UNCHANGED <<accepted, oversize, promised, failed, syncFailed>>
      /\ owner = "joining" /\ owner' \in {"closed", "crashed"} /\ wpc = "stillborn"
      /\ lost' = lost \cup Queued
  BY DEF CloseJoinsStillborn, buffers, writer, disk
<1>b. Unread' = Unread /\ failed
  BY <1>a DEF FileInv, Shape, Unread
<1>1. TypeOK'
  <2>1. lost' \in SUBSET Nat /\ owner' \in OwnerStates
    BY <1>a, QueuedFacts DEF FileInv, TypeOK, OwnerStates
  <2> QED BY <1>a, <2>1 DEF FileInv, TypeOK
<1>2. Shape'
  BY <1>a DEF FileInv, Shape
<1>3. Sessions'
  BY <1>a DEF FileInv, Sessions, Inside, Blocked
<1>4. Numbered'
  <2>1. lost' \subseteq 1 .. accepted
    BY <1>a, QueuedFacts DEF FileInv, Numbered
  <2> QED BY <1>a, <2>1 DEF FileInv, Numbered
<1>5. InOrder'
  BY <1>a, <1>b DEF FileInv, InOrder
<1>6. Accounted'
  BY <1>a, <1>b DEF FileInv, Accounted, InFile
<1>7. Settlement'
  <2>1. Unread = {} /\ outEvent = None
    BY <1>a, EmptyBufferFields DEF FileInv, Shape, Unread
  <2>2. \A e : ~InFile(e, Len(file))
    BY <1>a DEF FileInv, Shape, InFile
  <2>3. \A e \in 1 .. accepted : e \in lost'
    BY <1>a, <2>1, <2>2 DEF FileInv, Accounted, None, Queued
  <2>4. Settled'
    BY <1>a, <2>3 DEF Settled
  <2>5. \A e \in 1 .. promised : e \in lost' \/ Safe(e)'
    BY <1>a DEF FileInv, Settlement, Safe, InFile
  <2> QED BY <1>a, <2>4, <2>5 DEF FileInv, Settlement, Inside
<1> QED BY <1>1, <1>2, <1>3, <1>4, <1>5, <1>6, <1>7 DEF FileInv

\* The writer thread does not start.
LEMMA StartFailsKeeps ==
  ASSUME FileInv, NEW c \in Clients, StartFails(c)
  PROVE  FileInv'
<1>a. /\ UNCHANGED <<enqueueBuffer_, dequeueBuffer_, closing_, forceFlush_, started>>
      /\ UNCHANGED <<hasIOError, outEvent, unflushed, cpc, ckind, owner, file, synced>>
      /\ UNCHANGED <<accepted, oversize, lost, promised, syncFailed>>
      /\ wpc = "unborn" /\ wpc' = "stillborn" /\ failed' = TRUE
      /\ owner = "using"
  BY DEF StartFails, buffers, client, disk
<1>b. Unread' = Unread
  BY <1>a DEF Unread
<1>1. TypeOK'
  <2>1. wpc' \in WriterStates
    BY <1>a DEF WriterStates
  <2>2. failed' \in BOOLEAN
    BY <1>a
  <2> QED BY <1>a, <2>1, <2>2 DEF FileInv, TypeOK
<1>2. Shape'
  BY <1>a DEF FileInv, Shape
<1>3. Sessions'
  BY <1>a DEF FileInv, Sessions, Inside, Blocked
<1>4. Numbered'
  BY <1>a DEF FileInv, Numbered
<1>5. InOrder'
  BY <1>a, <1>b DEF FileInv, InOrder
<1>6. Accounted'
  BY <1>a, <1>b DEF FileInv, Accounted, InFile
<1>7. Settlement'
  BY <1>a DEF FileInv, Settlement, Settled, Safe, InFile, Inside
<1> QED BY <1>1, <1>2, <1>3, <1>4, <1>5, <1>6, <1>7 DEF FileInv

\* The writer opens the file.
LEMMA OpensKeeps ==
  ASSUME FileInv, WriterOpens
  PROVE  FileInv'
<1>1. TypeOK'
  BY DEF FileInv, TypeOK, WriterStates, WriterOpens, IOError, buffers, client, disk
<1>2. Shape'
  BY DEF FileInv, TypeOK, Shape, None, WriterOpens, IOError, buffers, client, disk
<1>3. Sessions'
  BY DEF FileInv, TypeOK, Shape, Sessions, Inside, Blocked, isEmpty, WriterOpens, IOError,
     buffers, client, disk
<1>4. Numbered'
  BY DEF FileInv, TypeOK, Shape, Numbered, None, WriterOpens, IOError, buffers, client,
     disk
<1>5. InOrder'
  BY DEF FileInv, InOrder, Unread, WriterOpens, IOError, buffers, client, disk
<1>6. Accounted'
  BY DEF FileInv, TypeOK, Accounted, InFile, Unread, WriterOpens, IOError, buffers,
     client, disk
<1>7. Settlement'
  BY DEF FileInv, TypeOK, Shape, Sessions, Settlement, Settled, Safe, InFile, Inside,
     WriterOpens, IOError, buffers, client, disk
<1> QED BY <1>1, <1>2, <1>3, <1>4, <1>5, <1>6, <1>7 DEF FileInv

\* The writer waits.
LEMMA ParksKeeps ==
  ASSUME FileInv, WriterParks
  PROVE  FileInv'
<1>1. TypeOK'
  BY DEF FileInv, TypeOK, WriterStates, WriterParks, buffers, client, disk, history
<1>2. Shape'
  BY DEF FileInv, TypeOK, Shape, None, WriterParks, buffers, client, disk, history
<1>3. Sessions'
  BY DEF FileInv, TypeOK, Shape, Sessions, Inside, Blocked, isEmpty, WriterParks, buffers,
     client, disk, history
<1>4. Numbered'
  BY DEF FileInv, TypeOK, Shape, Numbered, None, WriterParks, buffers, client, disk,
     history
<1>5. InOrder'
  BY DEF FileInv, InOrder, Unread, WriterParks, buffers, client, disk, history
<1>6. Accounted'
  BY DEF FileInv, TypeOK, Accounted, InFile, Unread, WriterParks, buffers, client, disk,
     history
<1>7. Settlement'
  BY DEF FileInv, TypeOK, Shape, Sessions, Settlement, Settled, Safe, InFile, Inside,
     WriterParks, buffers, client, disk, history
<1> QED BY <1>1, <1>2, <1>3, <1>4, <1>5, <1>6, <1>7 DEF FileInv

\* The writer's wait ends.
LEMMA TimesOutKeeps ==
  ASSUME FileInv, WriterTimesOut
  PROVE  FileInv'
<1>1. TypeOK'
  BY DEF FileInv, TypeOK, WriterStates, WriterTimesOut, buffers, client, disk, history
<1>2. Shape'
  BY DEF FileInv, TypeOK, Shape, None, WriterTimesOut, buffers, client, disk, history
<1>3. Sessions'
  BY DEF FileInv, TypeOK, Shape, Sessions, Inside, Blocked, isEmpty, WriterTimesOut, buffers,
     client, disk, history
<1>4. Numbered'
  BY DEF FileInv, TypeOK, Shape, Numbered, None, WriterTimesOut, buffers, client, disk,
     history
<1>5. InOrder'
  BY DEF FileInv, InOrder, Unread, WriterTimesOut, buffers, client, disk, history
<1>6. Accounted'
  BY DEF FileInv, TypeOK, Accounted, InFile, Unread, WriterTimesOut, buffers, client,
     disk, history
<1>7. Settlement'
  BY DEF FileInv, TypeOK, Shape, Sessions, Settlement, Settled, Safe, InFile, Inside,
     WriterTimesOut, buffers, client, disk, history
<1> QED BY <1>1, <1>2, <1>3, <1>4, <1>5, <1>6, <1>7 DEF FileInv

\* The writer looks at forceFlush_.
LEMMA ChecksKeeps ==
  ASSUME FileInv, WriterChecks
  PROVE  FileInv'
<1>1. TypeOK'
  BY DEF FileInv, TypeOK, WriterStates, WriterChecks, MustGoOn, buffers, client, disk,
     history
<1>2. Shape'
  BY DEF FileInv, TypeOK, Shape, None, WriterChecks, MustGoOn, buffers, client, disk,
     history
<1>3. Sessions'
  BY EmptyBufferFields DEF FileInv, TypeOK, Shape, Sessions, Inside, Blocked, isEmpty,
     WriterChecks, MustGoOn, buffers, client, disk, history
<1>4. Numbered'
  BY DEF FileInv, TypeOK, Shape, Numbered, None, WriterChecks, MustGoOn, buffers,
     client, disk, history
<1>5. InOrder'
  BY DEF FileInv, InOrder, Unread, WriterChecks, MustGoOn, buffers, client, disk,
     history
<1>6. Accounted'
  BY DEF FileInv, TypeOK, Accounted, InFile, Unread, WriterChecks, MustGoOn, buffers,
     client, disk, history
<1>7. Settlement'
  BY DEF FileInv, TypeOK, Shape, Sessions, Settlement, Settled, Safe, InFile, Inside,
     WriterChecks, MustGoOn, buffers, client, disk, history
<1> QED BY <1>1, <1>2, <1>3, <1>4, <1>5, <1>6, <1>7 DEF FileInv

\* The writer does not sync the file.
LEMMA SkipsSyncKeeps ==
  ASSUME FileInv, WriterSkipsSync
  PROVE  FileInv'
<1>1. TypeOK'
  BY DEF FileInv, TypeOK, WriterStates, WriterSkipsSync, buffers, client, disk, history
<1>2. Shape'
  BY DEF FileInv, TypeOK, Shape, None, WriterSkipsSync, buffers, client, disk, history
<1>3. Sessions'
  BY DEF FileInv, TypeOK, Shape, Sessions, Inside, Blocked, isEmpty, WriterSkipsSync, buffers,
     client, disk, history
<1>4. Numbered'
  BY DEF FileInv, TypeOK, Shape, Numbered, None, WriterSkipsSync, buffers, client, disk,
     history
<1>5. InOrder'
  BY DEF FileInv, InOrder, Unread, WriterSkipsSync, buffers, client, disk, history
<1>6. Accounted'
  BY DEF FileInv, TypeOK, Accounted, InFile, Unread, WriterSkipsSync, buffers, client,
     disk, history
<1>7. Settlement'
  BY DEF FileInv, TypeOK, Shape, Sessions, Settlement, Settled, Safe, InFile, Inside,
     WriterSkipsSync, buffers, client, disk, history
<1> QED BY <1>1, <1>2, <1>3, <1>4, <1>5, <1>6, <1>7 DEF FileInv

\* The writer releases the callers of flush().
LEMMA ReleasesKeeps ==
  ASSUME FileInv, WriterReleases
  PROVE  FileInv'
<1>1. TypeOK'
  BY DEF FileInv, TypeOK, WriterStates, ClientStates, WriterReleases, Flushing, buffers,
     disk, history
<1>2. Shape'
  BY DEF FileInv, TypeOK, Shape, None, WriterReleases, Flushing, buffers, disk, history
<1>3. Sessions'
  BY DEF FileInv, TypeOK, Shape, Sessions, Inside, Blocked, isEmpty, WriterReleases, Flushing,
     buffers, disk, history
<1>4. Numbered'
  BY DEF FileInv, TypeOK, Shape, Numbered, None, WriterReleases, Flushing, buffers,
     disk, history
<1>5. InOrder'
  BY DEF FileInv, InOrder, Unread, WriterReleases, Flushing, buffers, disk, history
<1>6. Accounted'
  BY DEF FileInv, TypeOK, Accounted, InFile, Unread, WriterReleases, Flushing, buffers,
     disk, history
<1>7. Settlement'
  BY DEF FileInv, TypeOK, Shape, Sessions, Settlement, Settled, Safe, InFile, Inside,
     WriterReleases, Flushing, buffers, disk, history
<1> QED BY <1>1, <1>2, <1>3, <1>4, <1>5, <1>6, <1>7 DEF FileInv

\* The writer takes over the events, or decides to wait.
LEMMA SwapsKeeps ==
  ASSUME FileInv, WriterSwaps
  PROVE  FileInv'
<1>1. TypeOK'
  BY DEF FileInv, TypeOK, WriterStates, ClientStates, WriterSwaps, Swap, Full, buffers,
     disk, history
<1>2. Shape'
  <2>1. enqueueBuffer_.events \in Seq(Nat) /\ Len(enqueueBuffer_.events) \in Nat
    BY BufferFields DEF FileInv, TypeOK
  <2>2. dequeueBuffer_ = EmptyBuffer /\ outEvent = None
    BY DEF FileInv, Shape, WriterSwaps
  <2>3. CASE wpc' = "writing"
    <3>1. /\ enqueueBuffer_' = EmptyBuffer /\ dequeueBuffer_' = enqueueBuffer_
          /\ UNCHANGED <<outEvent, hasIOError, failed, started, accepted>>
      BY <2>2, <2>3 DEF WriterSwaps, Swap, history
    <3> QED BY <2>1, <2>2, <2>3, <3>1, EmptyBufferFields, FileAssumption
            DEF FileInv, Shape, WriterSwaps
  <2>4. CASE wpc' # "writing"
    BY <2>2, <2>4 DEF FileInv, Shape, WriterSwaps, Swap, buffers, history
  <2> QED BY <2>3, <2>4
<1>3. Sessions'
  BY DEF FileInv, TypeOK, Shape, Sessions, Inside, Blocked, isEmpty, WriterSwaps, Swap, Full,
     buffers, disk, history
<1>4. Numbered'
  BY EmptyBufferFields DEF FileInv, TypeOK, Shape, Numbered, None, WriterSwaps, Swap,
     Full, buffers, disk, history
<1>5. InOrder'
  BY EmptyBufferFields, BufferFields DEF FileInv, InOrder, Unread, TypeOK, Shape,
     WriterSwaps, Swap, Full, buffers, disk, history
<1>6. Accounted'
  <2>1. CASE wpc' = "writing"
    <3>1. /\ enqueueBuffer_' = EmptyBuffer /\ dequeueBuffer_' = enqueueBuffer_
          /\ UNCHANGED <<outEvent, file, lost, oversize, failed, accepted>>
      BY <2>1 DEF FileInv, Shape, WriterSwaps, Swap, disk, history
    <3>2. Unread = {} /\ enqueueBuffer_.readPoint = 0 /\ dequeueBuffer_ = EmptyBuffer
      BY EmptyBufferFields DEF FileInv, Shape, Unread, WriterSwaps
    <3>3. Unread' = DOMAIN enqueueBuffer_.events
      BY <3>1, <3>2, BufferFields DEF FileInv, TypeOK, Unread
    <3> QED BY <3>1, <3>2, <3>3 DEF FileInv, Accounted, InFile
  <2>2. CASE wpc' # "writing"
    BY <2>2 DEF FileInv, Accounted, InFile, Unread, WriterSwaps, Swap, buffers, disk, history
  <2> QED BY <2>1, <2>2
<1>7. Settlement'
  BY DEF FileInv, TypeOK, Shape, Sessions, Settlement, Settled, Safe, InFile, Inside,
     WriterSwaps, Swap, Full, buffers, disk, history
<1> QED BY <1>1, <1>2, <1>3, <1>4, <1>5, <1>6, <1>7 DEF FileInv

\* The writer goes on after its wait.
LEMMA WakesKeeps ==
  ASSUME FileInv, WriterWakes
  PROVE  FileInv'
<1>1. TypeOK'
  BY DEF FileInv, TypeOK, WriterStates, ClientStates, WriterWakes, Swap, Full,
     SwapAfterWait, buffers, disk, history
<1>2. Shape'
  <2>1. enqueueBuffer_.events \in Seq(Nat) /\ Len(enqueueBuffer_.events) \in Nat
    BY BufferFields DEF FileInv, TypeOK
  <2>2. dequeueBuffer_ = EmptyBuffer /\ outEvent = None
    BY DEF FileInv, Shape, WriterWakes
  <2>3. CASE wpc' = "writing"
    <3>1. /\ enqueueBuffer_' = EmptyBuffer /\ dequeueBuffer_' = enqueueBuffer_
          /\ UNCHANGED <<outEvent, hasIOError, failed, started, accepted>>
      BY <2>2, <2>3 DEF WriterWakes, Swap, history
    <3> QED BY <2>1, <2>2, <2>3, <3>1, EmptyBufferFields, FileAssumption
            DEF FileInv, Shape, WriterWakes
  <2>4. CASE wpc' # "writing"
    BY <2>2, <2>4 DEF FileInv, Shape, WriterWakes, Swap, buffers, history
  <2> QED BY <2>3, <2>4
<1>3. Sessions'
  BY DEF FileInv, TypeOK, Shape, Sessions, Inside, Blocked, isEmpty, WriterWakes, Swap, Full,
     SwapAfterWait, buffers, disk, history
<1>4. Numbered'
  BY EmptyBufferFields DEF FileInv, TypeOK, Shape, Numbered, None, WriterWakes, Swap,
     Full, SwapAfterWait, buffers, disk, history
<1>5. InOrder'
  BY EmptyBufferFields, BufferFields DEF FileInv, InOrder, Unread, TypeOK, Shape,
     WriterWakes, Swap, Full, SwapAfterWait, buffers, disk, history
<1>6. Accounted'
  <2>1. CASE wpc' = "writing"
    <3>1. /\ enqueueBuffer_' = EmptyBuffer /\ dequeueBuffer_' = enqueueBuffer_
          /\ UNCHANGED <<outEvent, file, lost, oversize, failed, accepted>>
      BY <2>1 DEF FileInv, Shape, WriterWakes, Swap, disk, history
    <3>2. Unread = {} /\ enqueueBuffer_.readPoint = 0 /\ dequeueBuffer_ = EmptyBuffer
      BY EmptyBufferFields DEF FileInv, Shape, Unread, WriterWakes
    <3>3. Unread' = DOMAIN enqueueBuffer_.events
      BY <3>1, <3>2, BufferFields DEF FileInv, TypeOK, Unread
    <3> QED BY <3>1, <3>2, <3>3 DEF FileInv, Accounted, InFile
  <2>2. CASE wpc' # "writing"
    BY <2>2 DEF FileInv, Accounted, InFile, Unread, WriterWakes, Swap, buffers, disk, history
  <2> QED BY <2>1, <2>2
<1>7. Settlement'
  BY DEF FileInv, TypeOK, Shape, Sessions, Settlement, Settled, Safe, InFile, Inside,
     WriterWakes, Swap, Full, SwapAfterWait, buffers, disk, history
<1> QED BY <1>1, <1>2, <1>3, <1>4, <1>5, <1>6, <1>7 DEF FileInv

\* The writer begins a round of its loop, or ends.
LEMMA TopsKeeps ==
  ASSUME FileInv, WriterTops
  PROVE  FileInv'
<1>a. /\ UNCHANGED <<enqueueBuffer_, dequeueBuffer_, closing_, forceFlush_, started>>
      /\ UNCHANGED <<hasIOError, outEvent, unflushed, cpc, ckind, owner, file>>
      /\ UNCHANGED <<accepted, oversize, promised, failed>>
      /\ wpc = "top" /\ wpc' \in {"gone", "swapping"}
      /\ (wpc' = "gone" => closing_)
  BY DEF WriterTops, buffers, client
<1>b. /\ synced' \in 0 .. Len(file) /\ synced' \in Nat /\ synced <= synced'
      /\ syncFailed' \in BOOLEAN /\ (syncFailed => syncFailed')
  BY FsyncFacts DEF FileInv, TypeOK, WriterTops
<1>c. lost \subseteq lost' /\ lost' \subseteq lost \cup Queued /\ (wpc' # "gone" => lost' = lost)
  BY DEF WriterTops
<1>d. Unread' = Unread
  BY <1>a DEF Unread
<1>1. TypeOK'
  <2>1. lost' \in SUBSET Nat
    BY <1>c, QueuedFacts DEF FileInv, TypeOK
  <2>2. wpc' \in WriterStates
    BY <1>a DEF WriterStates
  <2>3. synced' \in 0 .. Len(file')
    BY <1>a, <1>b
  <2> QED BY <1>a, <1>b, <2>1, <2>2, <2>3 DEF FileInv, TypeOK
<1>2. Shape'
  BY <1>a DEF FileInv, Shape
<1>3. Sessions'
  BY <1>a DEF FileInv, Sessions, Inside, Blocked
<1>4. Numbered'
  <2>1. lost' \subseteq 1 .. accepted
    BY <1>c, QueuedFacts DEF FileInv, Numbered
  <2> QED BY <1>a, <2>1 DEF FileInv, Numbered
<1>5. InOrder'
  BY <1>a, <1>d DEF FileInv, InOrder
<1>6. Accounted'
  <2>1. ASSUME NEW e \in Queued, wpc' = "gone" PROVE failed
    BY <2>1 DEF FileInv, Shape, WriterTops, isEmpty, Queued
  <2>2. ASSUME NEW e \in lost', e \notin lost PROVE failed
    BY <1>c, <2>1, <2>2
  <2> QED BY <1>a, <1>c, <1>d, <2>2 DEF FileInv, Accounted, InFile
<1>7. Settlement'
  <2>1. \A e \in Nat : Safe(e) => Safe(e)'
    BY <1>a, <1>b, SafeStays DEF FileInv, TypeOK
  <2>2. Settled => Settled'
    BY <1>a, <1>c, <2>1 DEF FileInv, TypeOK, Settled
  <2>3. \A e \in 1 .. promised : e \in lost' \/ Safe(e)'
    BY <1>c, <2>1 DEF FileInv, TypeOK, Settlement
  <2>4. wpc' = "gone" /\ ~hasIOError => Settled'
    <3> SUFFICES ASSUME wpc' = "gone", ~hasIOError PROVE Settled'
      OBVIOUS
    <3>1. DOMAIN enqueueBuffer_.events = {} /\ Unread = {} /\ outEvent = None
      BY EmptyBufferFields DEF FileInv, Shape, Unread, None, WriterTops, isEmpty
    <3>2. syncFailed' \/ synced' = Len(file)
      BY FsyncFacts DEF WriterTops
    <3>3. \A e \in 1 .. accepted : e \in lost \/ InFile(e, Len(file))
      BY <3>1 DEF FileInv, Accounted, None
    <3> QED BY <1>a, <1>c, <3>2, <3>3 DEF Settled, Safe, InFile
  <2>5. owner # "closed"
    BY <1>a DEF FileInv, Settlement
  <2> QED BY <1>a, <2>2, <2>3, <2>4, <2>5 DEF FileInv, Settlement, Inside
<1> QED BY <1>1, <1>2, <1>3, <1>4, <1>5, <1>6, <1>7 DEF FileInv

\* The writer takes an event out of dequeueBuffer_.
LEMMA TakesOneKeeps ==
  ASSUME FileInv, WriterTakes, HasNext(dequeueBuffer_)
  PROVE  FileInv'
<1>a. /\ dequeueBuffer_.events \in Seq(Nat) /\ Len(dequeueBuffer_.events) \in Nat
      /\ DOMAIN dequeueBuffer_.events = 1 .. Len(dequeueBuffer_.events)
      /\ dequeueBuffer_.readPoint \in Nat
      /\ dequeueBuffer_.readPoint + 1 \in DOMAIN dequeueBuffer_.events
  BY BufferFields DEF FileInv, TypeOK, HasNext
<1>b. /\ dequeueBuffer_' \in Buffers
      /\ dequeueBuffer_'.events = dequeueBuffer_.events
      /\ dequeueBuffer_'.readPoint = dequeueBuffer_.readPoint + 1
      /\ outEvent' = dequeueBuffer_.events[dequeueBuffer_.readPoint + 1]
      /\ wpc' \in {"retrying", "emitting"} /\ (wpc' = "retrying" => hasIOError)
  BY GetNextFields DEF FileInv, TypeOK, WriterTakes, NextEvent
<1>c. /\ Unread' = Unread \ {dequeueBuffer_.readPoint + 1}
      /\ dequeueBuffer_.readPoint + 1 \in Unread
      /\ \A i \in Unread' : dequeueBuffer_.readPoint + 1 < i
      /\ outEvent = None
  BY <1>a, <1>b DEF FileInv, Shape, Unread, WriterTakes
<1>d. /\ UNCHANGED <<enqueueBuffer_, closing_, forceFlush_, started, hasIOError, unflushed>>
      /\ UNCHANGED <<cpc, ckind, owner, file, synced>>
      /\ UNCHANGED <<accepted, oversize, lost, promised, failed, syncFailed>>
  BY DEF WriterTakes, client, disk, history
<1> DEFINE p == dequeueBuffer_.readPoint + 1
<1>1. TypeOK'
  <2>1. outEvent' \in Nat
    BY <1>a, <1>b
  <2>2. wpc' \in WriterStates
    BY <1>b DEF WriterStates
  <2> QED BY <1>b, <1>d, <2>1, <2>2 DEF FileInv, TypeOK
<1>2. Shape'
  BY <1>a, <1>b, <1>d DEF FileInv, Shape, Numbered, None, WriterTakes
<1>3. Sessions'
  BY <1>b, <1>d DEF FileInv, Sessions, Inside, Blocked
<1>4. Numbered'
  <2>1. accepted \in Nat /\ dequeueBuffer_.events[dequeueBuffer_.readPoint + 1] \in 1 .. accepted
    BY <1>a DEF FileInv, TypeOK, Numbered
  <2>2. outEvent' \in 0 .. accepted
    BY <1>b, <2>1
  <2> QED BY <1>b, <1>d, <2>2 DEF FileInv, Numbered
<1>5. InOrder'
  BY <1>a, <1>b, <1>c, <1>d DEF FileInv, InOrder, Unread
<1>6. Accounted'
  BY <1>b, <1>c, <1>d DEF FileInv, Accounted, InFile, Numbered, None
<1>7. Settlement'
  BY <1>b, <1>d DEF FileInv, Settlement, Settled, Safe, InFile, Inside, WriterTakes
<1> QED BY <1>1, <1>2, <1>3, <1>4, <1>5, <1>6, <1>7 DEF FileInv

\* The writer resets dequeueBuffer_ at its end.
LEMMA TakesLastKeeps ==
  ASSUME FileInv, WriterTakes, ~HasNext(dequeueBuffer_)
  PROVE  FileInv'
<1>a. /\ dequeueBuffer_.events \in Seq(Nat) /\ Len(dequeueBuffer_.events) \in Nat
      /\ DOMAIN dequeueBuffer_.events = 1 .. Len(dequeueBuffer_.events)
      /\ dequeueBuffer_.readPoint \in Nat
      /\ dequeueBuffer_.readPoint >= Len(dequeueBuffer_.events)
  BY BufferFields DEF FileInv, TypeOK, HasNext
<1>b. dequeueBuffer_' = EmptyBuffer /\ wpc' = "checking" /\ outEvent' = outEvent
  BY DEF WriterTakes, reset
<1>c. Unread = {} /\ Unread' = {} /\ outEvent = None
  BY <1>a, <1>b, EmptyBufferFields DEF FileInv, Shape, Unread, WriterTakes
<1>d. /\ UNCHANGED <<enqueueBuffer_, closing_, forceFlush_, started, hasIOError, unflushed>>
      /\ UNCHANGED <<cpc, ckind, owner, file, synced>>
      /\ UNCHANGED <<accepted, oversize, lost, promised, failed, syncFailed>>
  BY DEF WriterTakes, client, disk, history
<1>1. TypeOK'
  BY <1>b, <1>d, EmptyBufferFields DEF FileInv, TypeOK, WriterStates
<1>2. Shape'
  BY <1>b, <1>c, <1>d, EmptyBufferFields DEF FileInv, Shape, None, WriterTakes
<1>3. Sessions'
  BY <1>b, <1>d DEF FileInv, Sessions, Inside, Blocked
<1>4. Numbered'
  BY <1>b, <1>d, EmptyBufferFields DEF FileInv, Numbered
<1>5. InOrder'
  BY <1>b, <1>c, <1>d DEF FileInv, InOrder
<1>6. Accounted'
  BY <1>b, <1>c, <1>d DEF FileInv, Accounted, InFile
<1>7. Settlement'
  BY <1>b, <1>d DEF FileInv, Settlement, Settled, Safe, InFile, Inside, WriterTakes
<1> QED BY <1>1, <1>2, <1>3, <1>4, <1>5, <1>6, <1>7 DEF FileInv

\* The writer reopens the file, or gives up.
LEMMA RetriesKeeps ==
  ASSUME FileInv, WriterRetries
  PROVE  FileInv'
<1>a. /\ UNCHANGED <<enqueueBuffer_, dequeueBuffer_, closing_, forceFlush_, started>>
      /\ UNCHANGED <<cpc, ckind, owner, file, synced>>
      /\ UNCHANGED <<accepted, oversize, promised, failed, syncFailed>>
  BY DEF WriterRetries, buffers, client, disk
<1>b. /\ wpc = "retrying" /\ failed /\ hasIOError /\ lost \subseteq lost'
      /\ \/ wpc' = "gone" /\ closing_ /\ outEvent' = None /\ hasIOError' = hasIOError
            /\ outEvent \in lost' /\ unflushed' = unflushed
         \/ wpc' = "emitting" /\ outEvent' = outEvent /\ lost' = lost /\ hasIOError' = FALSE
            /\ unflushed' = FALSE
  BY DEF FileInv, Shape, WriterRetries, Unwritten
<1>c. lost' \in SUBSET Nat
  <2>1. Queued \in SUBSET Nat
    BY QueuedFacts
  <2>2. {dequeueBuffer_.events[i] :
           i \in (dequeueBuffer_.readPoint + 1) .. Len(dequeueBuffer_.events)} \in SUBSET Nat
    BY BufferFields DEF FileInv, TypeOK
  <2> QED BY <2>1, <2>2 DEF FileInv, TypeOK, WriterRetries, Unwritten
<1>d. Unread' = Unread
  BY <1>a DEF Unread
<1>e. wpc' \in {"gone", "emitting"} /\ (outEvent' = outEvent \/ outEvent' = 0)
  BY DEF WriterRetries, None
<1>1. TypeOK'
  <2>1. hasIOError' \in BOOLEAN
    BY <1>b DEF FileInv, TypeOK
  <2>2. unflushed' \in BOOLEAN
    BY <1>b DEF FileInv, TypeOK
  <2>3. wpc' \in WriterStates /\ outEvent' \in Nat
    BY <1>e DEF FileInv, TypeOK, WriterStates
  <2> QED BY <1>a, <1>c, <2>1, <2>2, <2>3 DEF FileInv, TypeOK
<1>2. Shape'
  BY <1>a, <1>b DEF FileInv, Shape
<1>3. Sessions'
  BY <1>a, <1>b DEF FileInv, Sessions, Inside, Blocked
<1>4. Numbered'
  <2>1. outEvent' \in 0 .. accepted
    BY <1>e DEF FileInv, TypeOK, Numbered
  <2>2. Unwritten \subseteq 1 .. accepted
    <3>1. outEvent \in 1 .. accepted
      BY <1>b DEF FileInv, TypeOK, Shape, Numbered, None
    <3>2. (dequeueBuffer_.readPoint + 1) .. Len(dequeueBuffer_.events)
            \subseteq DOMAIN dequeueBuffer_.events
      BY BufferFields DEF FileInv, TypeOK
    <3> QED BY <3>1, <3>2 DEF FileInv, Numbered, Unwritten
  <2>3. lost' \subseteq 1 .. accepted
    <3>1. Queued \subseteq 1 .. accepted
      BY QueuedFacts
    <3>2. lost \subseteq 1 .. accepted
      BY DEF FileInv, Numbered
    <3> QED BY <2>2, <3>1, <3>2 DEF WriterRetries
  <2> QED BY <1>a, <2>1, <2>3 DEF FileInv, Numbered
<1>5. InOrder'
  BY <1>a, <1>b, <1>d DEF FileInv, InOrder
<1>6. Accounted'
  BY <1>a, <1>b, <1>d DEF FileInv, Accounted, InFile
<1>7. Settlement'
  BY <1>a, <1>b DEF FileInv, Settlement, Settled, Safe, InFile, Inside
<1> QED BY <1>1, <1>2, <1>3, <1>4, <1>5, <1>6, <1>7 DEF FileInv

\* The writer writes the event it has in hand, or drops it.
LEMMA EmitsKeeps ==
  ASSUME FileInv, WriterEmits
  PROVE  FileInv'
<1>a. /\ UNCHANGED <<enqueueBuffer_, dequeueBuffer_, closing_, forceFlush_, started>>
      /\ UNCHANGED <<cpc, ckind, owner, synced, accepted, oversize, promised, syncFailed>>
      /\ wpc = "emitting" /\ wpc' = "writing" /\ outEvent' = None /\ Unread' = Unread
  BY DEF WriterEmits, buffers, client, Unread
<1>b. /\ outEvent \in Nat /\ outEvent # None /\ file \in Seq(Nat)
      /\ DOMAIN file = 1 .. Len(file) /\ Len(file) \in Nat
  BY DEF FileInv, TypeOK, Shape, WriterEmits
<1>c. \/ /\ file' = Append(file, outEvent) /\ lost' = lost
         /\ UNCHANGED <<hasIOError, failed>> /\ unflushed' = TRUE
      \/ /\ file' = file /\ lost' = lost \cup {outEvent}
         /\ UNCHANGED unflushed
         /\ \/ outEvent \in oversize /\ UNCHANGED <<hasIOError, failed>>
            \/ hasIOError' = TRUE /\ failed' = TRUE
  BY DEF WriterEmits, IOError
<1>d. /\ file' \in Seq(Nat) /\ Len(file') \in Nat /\ Len(file) <= Len(file')
      /\ DOMAIN file' = 1 .. Len(file')
      /\ \A i \in 1 .. Len(file) : file'[i] = file[i]
      /\ \A i \in DOMAIN file' : i \in DOMAIN file \/ (i = Len(file) + 1 /\ file'[i] = outEvent)
      /\ outEvent \in lost' \/ \E i \in 1 .. Len(file') : file'[i] = outEvent
  <2>1. CASE file' = file /\ outEvent \in lost'
    BY <1>b, <2>1
  <2>2. CASE file' = Append(file, outEvent)
    <3>1. /\ file' \in Seq(Nat) /\ Len(file') = Len(file) + 1
          /\ DOMAIN file' = 1 .. (Len(file) + 1)
          /\ \A i \in 1 .. Len(file) : file'[i] = file[i]
          /\ file'[Len(file) + 1] = outEvent
      BY <1>b, <2>2, AppendFacts
    <3>2. \E i \in 1 .. Len(file') : file'[i] = outEvent
      BY <1>b, <3>1
    <3> QED BY <1>b, <3>1, <3>2
  <2> QED BY <1>c, <2>1, <2>2
<1>e. lost \subseteq lost' /\ lost' \in SUBSET Nat /\ (failed => failed')
      /\ (hasIOError' => failed') /\ hasIOError' \in BOOLEAN /\ failed' \in BOOLEAN
      /\ \A e \in lost' : e \in lost \/ e \in oversize \/ failed'
  <2>1. lost \subseteq lost' /\ lost' \in SUBSET Nat
    BY <1>b, <1>c DEF FileInv, TypeOK
  <2>2. (failed => failed') /\ (hasIOError' => failed')
    BY <1>c DEF FileInv, Shape
  <2>3. hasIOError' \in BOOLEAN
    BY <1>c DEF FileInv, TypeOK
  <2>4. failed' \in BOOLEAN
    BY <1>c DEF FileInv, TypeOK
  <2>5. \A e \in lost' : e \in lost \/ e \in oversize \/ failed'
    BY <1>c
  <2> QED BY <2>1, <2>2, <2>3, <2>4, <2>5
<1>f. ASSUME NEW e \in Nat, NEW n \in 0 .. Len(file), InFile(e, n)
      PROVE  \A m \in Nat : n <= m => \E i \in 1 .. m : file'[i] = e
  <2>1. PICK i \in 1 .. n : file[i] = e
    BY <1>f DEF InFile
  <2>2. i \in 1 .. Len(file) /\ file'[i] = e /\ \A m \in Nat : n <= m => i \in 1 .. m
    BY <1>b, <1>d, <2>1
  <2> QED BY <2>2
<1>1. TypeOK'
  <2>1. synced' \in 0 .. Len(file')
    BY <1>a, <1>b, <1>d DEF FileInv, TypeOK
  <2>2. unflushed' \in BOOLEAN
    BY <1>c DEF FileInv, TypeOK
  <2> QED BY <1>a, <1>d, <1>e, <2>1, <2>2 DEF FileInv, TypeOK, WriterStates, None
<1>2. Shape'
  BY <1>a, <1>e DEF FileInv, Shape
<1>3. Sessions'
  BY <1>a DEF FileInv, Sessions, Inside, Blocked
<1>4. Numbered'
  <2>1. outEvent \in 1 .. accepted
    BY <1>b DEF FileInv, Numbered, TypeOK, None
  <2>2. \A i \in DOMAIN file' : file'[i] \in 1 .. accepted
    BY <1>b, <1>d, <2>1 DEF FileInv, Numbered
  <2>3. lost' \subseteq 1 .. accepted
    BY <1>c, <2>1 DEF FileInv, Numbered
  <2>4. None \in 0 .. accepted
    BY DEF FileInv, TypeOK, None
  <2> QED BY <1>a, <2>2, <2>3, <2>4 DEF FileInv, Numbered
<1>5. InOrder'
  <2>1. \A i \in DOMAIN file : file[i] < outEvent
    BY <1>b DEF FileInv, InOrder
  <2>2. \A i, j \in DOMAIN file' : i < j => file'[i] < file'[j]
    BY <1>b, <1>d, <2>1 DEF FileInv, InOrder
  <2>3. \A i \in DOMAIN file', j \in Unread : file'[i] < dequeueBuffer_.events[j]
    BY <1>b, <1>d DEF FileInv, InOrder
  <2>4. \A i \in DOMAIN file', j \in DOMAIN enqueueBuffer_.events :
          file'[i] < enqueueBuffer_.events[j]
    BY <1>b, <1>d DEF FileInv, InOrder
  <2> QED BY <1>a, <2>2, <2>3, <2>4 DEF FileInv, InOrder
<1>6. Accounted'
  <2> SUFFICES ASSUME NEW e \in 1 .. accepted
                PROVE  /\ \/ InFile(e, Len(file))'
                          \/ e \in lost'
                          \/ \E i \in Unread : dequeueBuffer_.events[i] = e
                          \/ \E i \in DOMAIN enqueueBuffer_.events : enqueueBuffer_.events[i] = e
                       /\ e \in lost' => e \in oversize \/ failed'
    BY <1>a DEF Accounted
  <2>1. InFile(e, Len(file)) => InFile(e, Len(file))'
    <3> SUFFICES ASSUME InFile(e, Len(file)) PROVE \E i \in 1 .. Len(file') : file'[i] = e
      BY DEF InFile
    <3>1. e \in Nat /\ Len(file) \in 0 .. Len(file)
      BY <1>b DEF FileInv, TypeOK
    <3> QED BY <1>d, <1>f, <3>1
  <2>2. e = outEvent => e \in lost' \/ InFile(e, Len(file))'
    BY <1>d DEF InFile
  <2> QED BY <1>e, <2>1, <2>2 DEF FileInv, Accounted
<1>7. Settlement'
  <2>1. \A e \in Nat : e \in lost \/ Safe(e) => e \in lost' \/ Safe(e)'
    <3>1. synced' \in Nat /\ synced <= synced' /\ (syncFailed => syncFailed')
      BY <1>a, <1>b DEF FileInv, TypeOK
    <3>2. \A e \in Nat : Safe(e) => Safe(e)'
      BY <1>d, <3>1, SafeStays DEF FileInv
    <3> QED BY <1>e, <3>2
  <2>2. Settled => Settled'
    BY <1>a, <2>1 DEF FileInv, TypeOK, Settled
  <2>3. \A e \in 1 .. promised : e \in lost' \/ Safe(e)'
    BY <2>1 DEF FileInv, TypeOK, Settlement
  <2> QED BY <1>a, <2>2, <2>3 DEF FileInv, Settlement, Inside
<1> QED BY <1>1, <1>2, <1>3, <1>4, <1>5, <1>6, <1>7 DEF FileInv

\* The writer syncs the file.
LEMMA SyncsKeeps ==
  ASSUME FileInv, WriterSyncs
  PROVE  FileInv'
<1>a. /\ UNCHANGED <<enqueueBuffer_, dequeueBuffer_, closing_, forceFlush_, started, hasIOError>>
      /\ UNCHANGED <<outEvent, cpc, ckind, owner, file>>
      /\ UNCHANGED <<accepted, oversize, lost, promised, failed>>
      /\ unflushed' = FALSE
  BY DEF WriterSyncs, buffers, client
<1>b. /\ wpc \in {"forced", "syncing"} /\ wpc' \in {"releasing", "top"}
      /\ (wpc' = "releasing" => wpc = "forced")
  BY DEF WriterSyncs
<1>c. /\ synced' \in 0 .. Len(file) /\ synced' \in Nat /\ synced <= synced'
      /\ syncFailed' \in BOOLEAN /\ (syncFailed => syncFailed')
      /\ syncFailed' \/ synced' = Len(file)
  BY FsyncFacts DEF WriterSyncs
<1>1. TypeOK'
  <2>1. synced' \in 0 .. Len(file')
    BY <1>a, <1>c
  <2>2. wpc' \in WriterStates
    BY <1>b DEF WriterStates
  <2> QED BY <1>a, <1>c, <2>1, <2>2 DEF FileInv, TypeOK
<1>2. Shape'
  BY <1>a, <1>b DEF FileInv, Shape
<1>3. Sessions'
  BY <1>a, <1>b DEF FileInv, Sessions, Inside, Blocked
<1>4. Numbered'
  BY <1>a DEF FileInv, Numbered
<1>5. InOrder'
  BY <1>a DEF FileInv, InOrder, Unread
<1>6. Accounted'
  BY <1>a DEF FileInv, Accounted, InFile, Unread
<1>7. Settlement'
  <2>1. \A e \in Nat : Safe(e) => Safe(e)'
    BY <1>a, <1>c, SafeStays DEF FileInv, TypeOK
  <2>2. wpc' = "releasing" => Settled'
    <3> SUFFICES ASSUME wpc = "forced" PROVE Settled'
      BY <1>b
    <3>1. DOMAIN enqueueBuffer_.events = {} /\ Unread = {} /\ outEvent = None
      BY EmptyBufferFields DEF FileInv, Shape, Sessions, Unread, isEmpty
    <3>2. \A e \in 1 .. accepted : e \in lost \/ InFile(e, Len(file))
      BY <3>1 DEF FileInv, Accounted, None
    <3> QED BY <1>a, <1>c, <3>2 DEF Settled, Safe, InFile
  <2>3. Settled => Settled'
    BY <1>a, <2>1 DEF FileInv, TypeOK, Settled
  <2>4. \A e \in 1 .. promised : e \in lost' \/ Safe(e)'
    BY <1>a, <2>1 DEF FileInv, TypeOK, Settlement
  <2> QED BY <1>a, <1>b, <2>2, <2>3, <2>4 DEF FileInv, Settlement, Inside
<1> QED BY <1>1, <1>2, <1>3, <1>4, <1>5, <1>6, <1>7 DEF FileInv

\* enqueueEvent adds its event to a buffer that has room.
LEMMA AcceptsKeeps ==
  ASSUME FileInv, NEW c \in Clients, NEW k, Accepts(c, k),
         ~isFull(enqueueBuffer_), Inside = {}, owner = "using",
         UNCHANGED <<dequeueBuffer_, closing_, forceFlush_, hasIOError, outEvent, unflushed,
                     owner, disk, lost, promised, failed, syncFailed>>
  PROVE  FileInv'
<1>a. /\ enqueueBuffer_.events \in Seq(Nat) /\ Len(enqueueBuffer_.events) \in Nat
      /\ DOMAIN enqueueBuffer_.events = 1 .. Len(enqueueBuffer_.events)
      /\ accepted \in Nat /\ accepted + 1 \in Nat
  BY BufferFields DEF FileInv, TypeOK
<1>b. /\ enqueueBuffer_' \in Buffers
      /\ enqueueBuffer_'.mode = enqueueBuffer_.mode
      /\ enqueueBuffer_'.readPoint = enqueueBuffer_.readPoint
      /\ enqueueBuffer_'.events = Append(enqueueBuffer_.events, accepted + 1)
  BY <1>a, AddEventFields DEF FileInv, TypeOK, Accepts
<1>c. /\ Len(enqueueBuffer_'.events) = Len(enqueueBuffer_.events) + 1
      /\ DOMAIN enqueueBuffer_'.events = 1 .. (Len(enqueueBuffer_.events) + 1)
      /\ \A i \in DOMAIN enqueueBuffer_.events :
           enqueueBuffer_'.events[i] = enqueueBuffer_.events[i]
      /\ enqueueBuffer_'.events[Len(enqueueBuffer_.events) + 1] = accepted + 1
  BY <1>a, <1>b, AppendFacts
<1>d. /\ accepted' = accepted + 1 /\ started' = TRUE /\ ckind' = ckind
      /\ oversize \subseteq oversize' /\ oversize' \in SUBSET Nat
      /\ cpc' = [cpc EXCEPT ![c] = "idle"]
  BY <1>a DEF FileInv, TypeOK, Accepts
<1>e. /\ UNCHANGED <<dequeueBuffer_, closing_, forceFlush_, hasIOError, outEvent, unflushed>>
      /\ UNCHANGED <<owner, file, synced, lost, promised, failed, syncFailed>>
      /\ Unread' = Unread
  BY DEF disk, Unread
<1>f. \/ wpc = "unborn" /\ wpc' = "new"
      \/ wpc # "unborn" /\ wpc = "parked" /\ wpc' = "woken"
      \/ wpc # "unborn" /\ wpc' = wpc
  BY DEF FileInv, Shape, Accepts, WriterNotified
<1>g. /\ ~closing_ /\ ~forceFlush_ /\ wpc \notin {"gone", "forced", "releasing"}
      /\ wpc' \notin {"gone", "forced", "releasing"} /\ Inside' = {}
  BY <1>d, <1>f DEF FileInv, TypeOK, Sessions, Inside, Blocked
<1>h. \A i \in DOMAIN enqueueBuffer_'.events :
        \/ i \in DOMAIN enqueueBuffer_.events
        \/ i = Len(enqueueBuffer_.events) + 1 /\ i \notin DOMAIN enqueueBuffer_.events
  BY <1>a, <1>c
<1>1. TypeOK'
  <2>1. wpc' \in WriterStates
    BY <1>f DEF FileInv, TypeOK, WriterStates
  <2>2. cpc' \in [Clients -> ClientStates]
    BY <1>d DEF FileInv, TypeOK, ClientStates
  <2> QED BY <1>a, <1>b, <1>d, <1>e, <2>1, <2>2 DEF FileInv, TypeOK
<1>2. Shape'
  <2>1. Len(enqueueBuffer_'.events) <= EventBufferSize
    BY <1>a, <1>c, FileAssumption DEF FileInv, Shape, isFull
  <2> QED BY <1>b, <1>d, <1>e, <1>f, <2>1 DEF FileInv, Shape
<1>3. Sessions'
  BY <1>d, <1>e, <1>g DEF Sessions
<1>4. Numbered'
  <2>1. \A n : n \in 1 .. accepted => n \in 1 .. (accepted + 1)
    BY <1>a
  <2>2. \A i \in DOMAIN enqueueBuffer_'.events : enqueueBuffer_'.events[i] \in 1 .. (accepted + 1)
    <3>1. \A i \in DOMAIN enqueueBuffer_.events : enqueueBuffer_'.events[i] \in 1 .. (accepted + 1)
      BY <1>c, <2>1 DEF FileInv, Numbered
    <3>2. accepted + 1 \in 1 .. (accepted + 1)
      BY <1>a
    <3> QED BY <1>c, <1>h, <3>1, <3>2
  <2>3. \A n : n \in 0 .. accepted => n \in 0 .. (accepted + 1)
    BY <1>a
  <2> QED BY <1>d, <1>e, <2>1, <2>2, <2>3 DEF FileInv, Numbered
<1>5. InOrder'
  <2> DEFINE E == enqueueBuffer_.events
             F == enqueueBuffer_'.events
  <2>1. /\ \A i \in DOMAIN file : file[i] \in Nat /\ file[i] < accepted + 1
        /\ \A i \in Unread : dequeueBuffer_.events[i] \in Nat /\ dequeueBuffer_.events[i] < accepted + 1
        /\ \A i \in DOMAIN E : E[i] \in Nat /\ E[i] < accepted + 1
        /\ outEvent \in Nat /\ outEvent < accepted + 1
    BY <1>a DEF FileInv, Numbered, Unread
  <2>2. \A i, j \in DOMAIN F : i < j => F[i] < F[j]
    <3> SUFFICES ASSUME NEW i \in DOMAIN F, NEW j \in DOMAIN F, i < j PROVE F[i] < F[j]
      OBVIOUS
    <3>1. i \in DOMAIN E
      BY <1>a, <1>c
    <3>2. CASE j \in DOMAIN E
      BY <1>c, <3>1, <3>2 DEF FileInv, InOrder
    <3>3. CASE j = Len(E) + 1
      BY <1>c, <2>1, <3>1, <3>3
    <3> QED BY <1>h, <3>2, <3>3
  <2>3. \A i \in DOMAIN file, j \in DOMAIN F : file[i] < F[j]
    BY <1>c, <1>h, <2>1 DEF FileInv, InOrder
  <2>4. \A i \in Unread, j \in DOMAIN F : dequeueBuffer_.events[i] < F[j]
    BY <1>c, <1>h, <2>1 DEF FileInv, InOrder
  <2>5. outEvent # None => \A j \in DOMAIN F : outEvent < F[j]
    BY <1>c, <1>h, <2>1 DEF FileInv, InOrder
  <2> QED BY <1>e, <2>2, <2>3, <2>4, <2>5 DEF FileInv, InOrder
<1>6. Accounted'
  <2> SUFFICES ASSUME NEW e \in 1 .. (accepted + 1)
               PROVE  /\ \/ InFile(e, Len(file))
                         \/ e \in lost
                         \/ e = outEvent
                         \/ \E i \in Unread : dequeueBuffer_.events[i] = e
                         \/ \E i \in DOMAIN enqueueBuffer_'.events : enqueueBuffer_'.events[i] = e
                      /\ e \in lost => e \in oversize' \/ failed
    BY <1>d, <1>e DEF Accounted, InFile
  <2>1. CASE e \in 1 .. accepted
    <3>1. DOMAIN enqueueBuffer_.events \subseteq DOMAIN enqueueBuffer_'.events
      BY <1>a, <1>c
    <3> QED BY <1>c, <1>d, <2>1, <3>1 DEF FileInv, Accounted
  <2>2. CASE e = accepted + 1
    <3>1. e \notin lost
      BY <1>a, <2>2 DEF FileInv, Numbered
    <3>2. Len(enqueueBuffer_.events) + 1 \in DOMAIN enqueueBuffer_'.events
      BY <1>a, <1>c
    <3> QED BY <1>c, <2>2, <3>1, <3>2
  <2> QED BY <1>a, <2>1, <2>2
<1>7. Settlement'
  <2>1. \A e \in 1 .. promised : e \in lost' \/ Safe(e)'
    BY <1>e DEF FileInv, Settlement, Safe, InFile
  <2> QED BY <1>e, <1>g, <2>1 DEF FileInv, Settlement
<1> QED BY <1>1, <1>2, <1>3, <1>4, <1>5, <1>6, <1>7 DEF FileInv

\* enqueueEvent is called: the client waits for room or adds its event.
LEMMA EnqueueKeeps ==
  ASSUME FileInv, NEW c \in Clients, NEW k \in Kinds, enqueueEvent(c, k)
  PROVE  FileInv'
<1>1. CASE isFull(enqueueBuffer_)
  <2>a. /\ UNCHANGED <<enqueueBuffer_, dequeueBuffer_, closing_, forceFlush_, started, wpc>>
        /\ UNCHANGED <<hasIOError, outEvent, unflushed, owner, file, synced>>
        /\ UNCHANGED <<accepted, oversize, lost, promised, failed, syncFailed>>
        /\ cpc' = [cpc EXCEPT ![c] = "full"] /\ Unread' = Unread
    BY <1>1 DEF enqueueEvent, disk, Unread
  <2>b. ckind' \in [Clients -> Kinds]
    BY <1>1 DEF FileInv, TypeOK, enqueueEvent
  <2>c. Inside = {} /\ Inside' = {} /\ ~forceFlush_
    BY <2>a DEF FileInv, TypeOK, Sessions, Inside, Blocked, NobodyFlushes, enqueueEvent
  <2>1. TypeOK'
    BY <2>a, <2>b DEF FileInv, TypeOK, ClientStates
  <2>2. Shape'
    BY <2>a DEF FileInv, Shape
  <2>3. Sessions'
    BY <2>a, <2>c DEF FileInv, TypeOK, Sessions, enqueueEvent
  <2>4. Numbered'
    BY <2>a DEF FileInv, Numbered
  <2>5. InOrder'
    BY <2>a DEF FileInv, InOrder
  <2>6. Accounted'
    BY <2>a DEF FileInv, Accounted, InFile
  <2>7. Settlement'
    BY <2>a, <2>c DEF FileInv, Settlement, Settled, Safe, InFile
  <2> QED BY <2>1, <2>2, <2>3, <2>4, <2>5, <2>6, <2>7 DEF FileInv
<1>2. CASE ~isFull(enqueueBuffer_)
  <2>1. Inside = {} /\ owner = "using"
    BY DEF FileInv, TypeOK, Sessions, Inside, Blocked, NobodyFlushes, enqueueEvent
  <2>2. Accepts(c, k)
    BY <1>2 DEF enqueueEvent
  <2>3. UNCHANGED <<dequeueBuffer_, closing_, forceFlush_, hasIOError, outEvent, unflushed,
                    owner, disk, lost, promised, failed, syncFailed>>
    BY DEF enqueueEvent
  <2> QED BY <1>2, <2>1, <2>2, <2>3, AcceptsKeeps
<1> QED BY <1>1, <1>2

\* A client that waited for room looks again.
LEMMA EnqueueResumesKeeps ==
  ASSUME FileInv, NEW c \in Clients, EnqueueResumes(c)
  PROVE  FileInv'
<1>1. CASE isFull(enqueueBuffer_)
  <2>a. /\ UNCHANGED <<enqueueBuffer_, dequeueBuffer_, closing_, forceFlush_, started, wpc>>
        /\ UNCHANGED <<hasIOError, outEvent, unflushed, owner, file, synced>>
        /\ UNCHANGED <<accepted, oversize, lost, promised, failed, syncFailed>>
        /\ cpc' = [cpc EXCEPT ![c] = "full"] /\ Unread' = Unread
    BY <1>1 DEF EnqueueResumes, disk, Unread
  <2>b. ckind' \in [Clients -> Kinds]
    BY <1>1 DEF FileInv, TypeOK, EnqueueResumes
  <2>c. Inside = {} /\ Inside' = {} /\ ~forceFlush_
    BY <2>a DEF FileInv, TypeOK, Sessions, Inside, Blocked, EnqueueResumes
  <2>1. TypeOK'
    BY <2>a, <2>b DEF FileInv, TypeOK, ClientStates
  <2>2. Shape'
    BY <2>a DEF FileInv, Shape
  <2>3. Sessions'
    BY <2>a, <2>c DEF FileInv, TypeOK, Sessions, EnqueueResumes
  <2>4. Numbered'
    BY <2>a DEF FileInv, Numbered
  <2>5. InOrder'
    BY <2>a DEF FileInv, InOrder
  <2>6. Accounted'
    BY <2>a DEF FileInv, Accounted, InFile
  <2>7. Settlement'
    BY <2>a, <2>c DEF FileInv, Settlement, Settled, Safe, InFile
  <2> QED BY <2>1, <2>2, <2>3, <2>4, <2>5, <2>6, <2>7 DEF FileInv
<1>2. CASE ~isFull(enqueueBuffer_)
  <2>1. Inside = {} /\ owner = "using"
    BY DEF FileInv, TypeOK, Sessions, Inside, Blocked, EnqueueResumes
  <2>2. Accepts(c, ckind[c])
    BY <1>2 DEF EnqueueResumes
  <2>3. UNCHANGED <<dequeueBuffer_, closing_, forceFlush_, hasIOError, outEvent, unflushed,
                    owner, disk, lost, promised, failed, syncFailed>>
    BY DEF EnqueueResumes
  <2> QED BY <1>2, <2>1, <2>2, <2>3, AcceptsKeeps
<1> QED BY <1>1, <1>2

-----------------------------------------------------------------------------
(* The theorems *)

\* A step that changes nothing.
LEMMA StutterKeeps ==
  ASSUME FileInv, UNCHANGED vars
  PROVE  FileInv'
BY DEF FileInv, TypeOK, Shape, Sessions, Inside, Blocked, Numbered, InOrder, Accounted, Settlement,
       Settled, Safe, InFile, Unread, isEmpty, vars

\* The initial states satisfy the invariant.
LEMMA FileInit ==
  ASSUME Init
  PROVE  FileInv
<1>1. enqueueBuffer_ = EmptyBuffer /\ dequeueBuffer_ = EmptyBuffer /\ file = <<>>
  BY DEF Init
<1>2. /\ DOMAIN file = {} /\ Len(file) = 0 /\ file \in Seq(Nat) /\ Unread = {}
      /\ DOMAIN enqueueBuffer_.events = {} /\ DOMAIN dequeueBuffer_.events = {}
  BY <1>1, EmptyBufferFields DEF Unread
<1>3. TypeOK
  <2>1. cpc \in [Clients -> ClientStates] /\ ckind \in [Clients -> Kinds]
    BY DEF Init, ClientStates, Kinds
  <2>2. synced \in 0 .. Len(file) /\ oversize \in SUBSET Nat /\ lost \in SUBSET Nat
    BY <1>2 DEF Init
  <2> QED BY <1>1, <1>2, <2>1, <2>2, EmptyBufferFields
          DEF Init, TypeOK, WriterStates, OwnerStates, None
<1>4. Shape
  BY <1>1, EmptyBufferFields, FileAssumption DEF Init, Shape
<1>5. Sessions
  BY DEF Init, Sessions, Inside, Blocked
<1>6. Numbered
  BY <1>2 DEF Init, Numbered, None
<1>7. InOrder
  BY <1>2 DEF Init, InOrder
<1>8. Accounted
  BY DEF Init, Accounted
<1>9. Settlement
  BY DEF Init, Settlement, Inside
<1> QED BY <1>3, <1>4, <1>5, <1>6, <1>7, <1>8, <1>9 DEF FileInv

\* Every step preserves the invariant.
LEMMA FileStep ==
  ASSUME FileInv, [Next]_vars
  PROVE  FileInv'
<1>1. CASE \E c \in Clients, k \in Kinds : enqueueEvent(c, k)
  BY <1>1, EnqueueKeeps
<1>2. CASE \E c \in Clients : EnqueueResumes(c) \/ StartFails(c)
  BY <1>2, EnqueueResumesKeeps, StartFailsKeeps
<1>3. CASE \E c \in Clients : flush(c)
  BY <1>3, FlushKeeps
<1>4. CASE \E c \in Clients : FlushResumes(c)
  BY <1>4, FlushResumesKeeps
<1>5. CASE \E c \in Clients : SpuriousWakeup(c)
  BY <1>5, SpuriousKeeps
<1>6. CASE CloseSets \/ CloseNotifies \/ CloseJoins \/ CloseJoinsStillborn
  BY <1>6, CloseSetsKeeps, CloseNotifiesKeeps, CloseJoinsKeeps, CloseJoinsStillbornKeeps
<1>7. CASE WriterOpens \/ WriterTops \/ WriterSwaps \/ WriterParks \/ WriterTimesOut \/ WriterWakes
  BY <1>7, OpensKeeps, TopsKeeps, SwapsKeeps, ParksKeeps, TimesOutKeeps, WakesKeeps
<1>8. CASE WriterTakes
  BY <1>8, TakesOneKeeps, TakesLastKeeps
<1>9. CASE WriterRetries \/ WriterEmits
  BY <1>9, RetriesKeeps, EmitsKeeps
<1>10. CASE WriterChecks \/ WriterSyncs \/ WriterSkipsSync \/ WriterReleases
  BY <1>10, ChecksKeeps, SyncsKeeps, SkipsSyncKeeps, ReleasesKeeps
<1>11. CASE UNCHANGED vars
  BY <1>11, StutterKeeps
<1> QED BY <1>1, <1>2, <1>3, <1>4, <1>5, <1>6, <1>7, <1>8, <1>9, <1>10, <1>11
        DEF Next, WriterThread

\* The inductive invariant of the writing side of TFileTransport.
THEOREM FileInvariant == Spec => []FileInv
BY FileInit, FileStep, PTL DEF Spec

\* The buffers, the threads and the file have their types.
THEOREM FileTypeCorrect == Spec => []TypeOK
<1>1. FileInv => TypeOK
  BY DEF FileInv
<1> QED BY <1>1, FileInvariant, PTL

\* The assertions of the code hold: buffers are written only in WRITE mode and
\* within their size, nothing is enqueued during a forced flush, and both buffers
\* are empty when forceFlush_ is cleared.
THEOREM BuffersRespected == Spec => []AssertionsHold
<1>1. FileInv => AssertionsHold
  <2> SUFFICES ASSUME FileInv PROVE AssertionsHold
    OBVIOUS
  <2>1. forceFlush_ => Blocked = {}
    <3> SUFFICES ASSUME forceFlush_, NEW c \in Clients, cpc[c] \in {"full", "fullWoken"}
                 PROVE  FALSE
      BY DEF Blocked
    <3> QED BY DEF FileInv, Sessions, Inside, Blocked
  <2> QED BY <2>1 DEF FileInv, Shape, Sessions, AssertionsHold
<1> QED BY <1>1, FileInvariant, PTL

\* Events reach the file in the order enqueueEvent accepted them, at most once.
THEOREM WrittenInOrder == Spec => []InOrder
<1>1. FileInv => InOrder
  BY DEF FileInv
<1> QED BY <1>1, FileInvariant, PTL

\* No accepted event vanishes, and without an I/O error only oversize ones are dropped.
THEOREM NoEventVanishes == Spec => []Accounted
<1>1. FileInv => Accounted
  BY DEF FileInv
<1> QED BY <1>1, FileInvariant, PTL

\* What flush() promised is in the file, and on disk unless an fsync has failed; so
\* is everything once the transport is closed with no error pending.
THEOREM FlushIsDurable == Spec => []Durable
<1>1. FileInv => Durable
  <2> SUFFICES ASSUME FileInv PROVE Durable
    OBVIOUS
  <2>1. ASSUME owner = "closed", ~hasIOError PROVE Settled
    <3>1. CASE wpc = "gone"
      BY <2>1, <3>1 DEF FileInv, Settlement
    <3>2. CASE wpc = "unborn"
      BY <3>2 DEF FileInv, Shape, Settled
    <3> QED BY <2>1, <3>1, <3>2 DEF FileInv, Settlement
  <2> QED BY <2>1 DEF FileInv, Settlement, Settled, Durable
<1> QED BY <1>1, FileInvariant, PTL
=============================================================================
