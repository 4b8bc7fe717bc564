------------------------------ MODULE FileLog ------------------------------
(***************************************************************************)
(* transport/TFileTransport.cpp, the layout of the log file: a process     *)
(* appends events to it and may crash and start again, and another process *)
(* reads it at the same time.                                              *)
(*                                                                         *)
(* The file is a sequence of bytes.  An event is its length in four bytes, *)
(* the lowest first, and its data; it does not cross the boundary of a     *)
(* chunk, and zeros fill a chunk that has no room for it.  Offsets count   *)
(* from 0, so the byte at offset p is file[p + 1].                         *)
(*                                                                         *)
(* A write() appears in the file at once.  It may fail with nothing        *)
(* written, and a crash may leave any proper prefix of it.                 *)
(***************************************************************************)
EXTENDS Integers, Sequences, FiniteSetsExt

CONSTANTS
  ChunkSize,      \* chunkSize_
  ReadBuffSize,   \* readBuffSize_
  MaxCorrupted,   \* maxCorruptedEvents_
  Lengths,        \* the lengths of the data of events; longer ones are skipped
  Data(_, _),     \* Data(n, l) is the data of the n-th event, of length l
  MaxEvents,      \* bound on the events the writer takes
  MaxCrashes,     \* bound on crashes
  MaxErrors       \* bound on calls of write() that fail

Byte == 0 .. 255

ASSUME LogAssumption ==
  /\ ReadBuffSize \in Nat \ {0}
  /\ MaxCorrupted \in Nat
  /\ ChunkSize \in Nat \ {0} /\ ChunkSize <= 2147483647   \* the padding is an int32_t
  /\ Lengths \subseteq 1 .. (ChunkSize - 4)
  /\ MaxEvents \in Nat /\ MaxCrashes \in Nat /\ MaxErrors \in Nat

ASSUME DataAssumption ==
  \A n \in 1 .. MaxEvents, l \in Lengths : Data(n, l) \in [1 .. l -> Byte]

VARIABLES
  file,       \* the bytes of the log
  \* the writing process
  wstate,     \* "down", "starting", "up", "padding" or "appending" an event, in
              \* "error", or "reopening"
  offset_,    \* where the writer thinks the end of the file is
  scan,       \* its state as a reader, on its way to the end of the file
  inHand,     \* the length of the event it is writing
  \* the reading process
  tail,       \* readTimeout_ is TAIL_READ_TIMEOUT rather than NO_TAIL_READ_TIMEOUT
  reader,     \* its state, see Fresh
  \* history
  delivered,  \* the data of the events readEvent returned
  written,    \* the events that are in the file, whole
  taken,      \* the number of events the writer has taken
  stale,      \* offset_ comes from error recovery
  damaged,    \* the chunks with a torn write or with an event across their boundary
  crashes, errors

log == <<file, written, damaged>>
process == <<wstate, offset_, scan, inHand, stale>>
input == <<tail, reader, delivered>>
counts == <<taken, crashes, errors>>
vars == <<file, wstate, offset_, scan, inHand, tail, reader, delivered, written, taken,
          stale, damaged, crashes, errors>>

\* A TFileTransport just opened, as a reader: the data members of readState, with
\* readBuff_ up to bufferLen_ in buf, eventSize_ in size (0 while readingSize_), and
\* how readEvent came out in status.
Fresh == [offset |-> 0, buf |-> <<>>, ptr |-> 0, lastDispatch |-> 0, sizeBuff |-> <<>>,
          size |-> 0, event |-> <<>>, lastBad |-> 0, numBad |-> 0, status |-> "reading"]

Chunk(p) == p \div ChunkSize

Zeros(n) == [i \in 1 .. n |-> 0]
Event(n, l) ==
  <<l % 256, (l \div 256) % 256, (l \div 65536) % 256, (l \div 16777216) % 256>> \o Data(n, l)

getEventSize(b) == b[1] + 256 * b[2] + 65536 * b[3] + 16777216 * b[4]

getNumChunks(f) == IF f = <<>> THEN 0 ELSE Len(f) \div ChunkSize + 1

ftruncate(f, n) == [i \in 1 .. n |-> IF i <= Len(f) THEN f[i] ELSE 0]

-----------------------------------------------------------------------------
(* Mutated forms of the definitions below: plausible slips in this code. *)

\* keeps lastDispatchPtr_ of the buffer before
ForgetfulRefill(f, r) ==
  LET p == r.offset + Len(r.buf)
      b == SubSeq(f, p + 1, Min({p + ReadBuffSize, Len(f)}))
  IN [r EXCEPT !.offset = p, !.buf = b, !.ptr = 0,
               !.status = IF b = <<>> THEN "eof" ELSE @]

\* takes the last bytes of a chunk for the start of a size
GreedySkips(r) == FALSE

\* keeps the size of the bad event
CarelessResetAllValues(r) == [r EXCEPT !.buf = <<>>, !.ptr = 0, !.lastDispatch = 0]

\* forgets the bytes of the header
ShortPads(l) == Chunk(offset_) # Chunk(offset_ + l - 1)

-----------------------------------------------------------------------------
(* Reading *)

resetState(r, last) ==
  [r EXCEPT !.size = 0, !.sizeBuff = <<>>, !.event = <<>>, !.lastDispatch = last]

resetAllValues(r) == [resetState(r, 0) EXCEPT !.buf = <<>>, !.ptr = 0]

\* readEvent reads from the file when the read buffer is exhausted.  A read()
\* returns a full buffer, or what is left up to the end of the file: shorter reads
\* and errors of read(), which make readEvent throw, are left out, and so is a
\* readTimeout_ above zero, which ends the wait at the end of the file.
Refill(f, r) ==
  LET p == r.offset + Len(r.buf)
      b == SubSeq(f, p + 1, Min({p + ReadBuffSize, Len(f)}))
  IN [r EXCEPT !.offset = p, !.buf = b, !.ptr = 0, !.lastDispatch = 0,
               !.status = IF b = <<>> THEN "eof" ELSE @]

\* The size of an event does not begin within three bytes of the end of a chunk.
Skips(r) ==
  /\ r.sizeBuff = <<>>
  /\ Chunk(r.offset + r.ptr) # Chunk(r.offset + r.ptr + 3)

\* isEventCorrupted, after the size n has been read up to position p.
isEventCorrupted(p, n) == n > ChunkSize \/ Chunk(p - 4) # Chunk(p + n - 1)

\* One round of the loop of readEvent while it reads the size of an event.
SizeStep(r) ==
  LET b == Append(r.sizeBuff, r.buf[r.ptr + 1])
      q == [r EXCEPT !.ptr = @ + 1, !.sizeBuff = b]
      n == getEventSize(b)
  IN IF Skips(r) THEN [r EXCEPT !.ptr = @ + 1]
     ELSE IF Len(b) < 4 THEN q
     ELSE IF n = 0 THEN resetState(q, q.lastDispatch)
     ELSE [q EXCEPT !.size = n,
                    !.status = IF isEventCorrupted(q.offset + q.ptr, n) THEN "corrupt" ELSE @]

\* One round of the loop while it reads the data of an event.
DataStep(r) ==
  LET n == Min({Len(r.buf) - r.ptr, r.size - Len(r.event)})
      e == r.event \o SubSeq(r.buf, r.ptr + 1, r.ptr + n)
  IN [r EXCEPT !.ptr = @ + n, !.event = e,
               !.status = IF Len(e) = r.size THEN "event" ELSE @]

\* One round of the loops of readEvent, and how it comes out.
Round(f, r) ==
  IF r.ptr = Len(r.buf) THEN Refill(f, r)
  ELSE IF r.size = 0 THEN SizeStep(r) ELSE DataStep(r)

\* readEvent returns the event.
Returned(r) == [resetState(r, r.ptr) EXCEPT !.status = "reading"]

\* seekToChunk, for a chunk of the file.
seekToChunk(r, c) == [resetAllValues(r) EXCEPT !.offset = c * ChunkSize]

\* numCorruptedEventsInChunk_ with this bad event.
BadEvents(r) == IF r.lastBad = Chunk(r.offset) THEN r.numBad + 1 ELSE 1

\* performRecovery: the chunk again, or the next one; in the last chunk a reader that
\* tails the file waits for the next, and any other gets an exception.  numBad stops
\* counting at maxCorruptedEvents_.
performRecovery(f, r, tails) ==
  LET cur == Chunk(r.offset)
      q == [r EXCEPT !.lastBad = cur, !.numBad = Min({BadEvents(r), MaxCorrupted}),
                     !.status = "reading"]
  IN IF BadEvents(r) < MaxCorrupted THEN seekToChunk(q, cur)
     ELSE IF cur # getNumChunks(f) - 1 THEN seekToChunk(q, cur + 1)
     ELSE IF tails THEN [q EXCEPT !.status = "waiting"]
     ELSE [resetState(q, q.lastDispatch) EXCEPT !.status = "thrown"]

\* What readEvent does with the outcome of a round.  At the end of the file it sleeps
\* and reads on, or returns NULL and is called again.
Settled(f, q, tails) ==
  CASE q.status = "event" -> Returned(q)
    [] q.status = "corrupt" -> performRecovery(f, q, tails)
    [] q.status = "eof" -> [(IF tails THEN q ELSE resetState(q, 0)) EXCEPT !.status = "reading"]
    [] OTHER -> q

\* seekToEnd begins at the start of the last chunk.
seekToEnd(f, r) == IF f = <<>> THEN r ELSE seekToChunk(r, getNumChunks(f) - 1)

\* seekToChunk reads on to the end of the file, the length of which it has found before;
\* if it is there already, the outcome is that of one more read.
AtEnd(f, q) ==
  \/ q.status = "eof"
  \/ q.status = "event" /\ q.offset + q.ptr >= Len(f)

-----------------------------------------------------------------------------
(* The reading process *)

ReaderReads ==
  /\ reader.status = "reading"
  /\ \E q \in {Round(file, reader)} :
        /\ reader' = Settled(file, q, tail)
        /\ delivered' = IF q.status = "event" THEN Append(delivered, q.event) ELSE delivered
  /\ UNCHANGED <<log, process, tail, counts>>

\* The end of performRecovery's wait for the next chunk.
ReaderResumes ==
  /\ reader.status = "waiting"
  /\ Chunk(reader.offset) # getNumChunks(file) - 1
  /\ reader' = seekToChunk([reader EXCEPT !.status = "reading"], Chunk(reader.offset) + 1)
  /\ UNCHANGED <<log, process, tail, delivered, counts>>

-----------------------------------------------------------------------------
(* The writing process *)

\* A new TFileTransport, whose thread opens the file.
WriterStarts ==
  /\ wstate = "down"
  /\ wstate' = "starting"
  /\ scan' = seekToEnd(file, Fresh)
  /\ UNCHANGED <<log, offset_, inHand, stale, input, counts>>

\* Error recovery opens the file again.
WriterRecovers ==
  /\ wstate = "error"
  /\ wstate' = "reopening"
  /\ scan' = seekToEnd(file, scan)
  /\ UNCHANGED <<log, offset_, inHand, stale, input, counts>>

\* lastBadChunk_ and numCorruptedEventsInChunk_ are all that matters when the file is
\* opened another time.
Rested(r) == [Fresh EXCEPT !.lastBad = r.lastBad, !.numBad = r.numBad]

\* One round on the way to the end of the file; performRecovery may throw there.
ScanGoesOn ==
  /\ \E q \in {Round(file, scan)} :
        /\ ~AtEnd(file, q)
        /\ \E r \in {Settled(file, q, FALSE)} :
              /\ wstate' = IF r.status = "thrown" THEN "error" ELSE wstate
              /\ scan' = IF r.status = "thrown" THEN Rested(r) ELSE r
  /\ UNCHANGED <<file, offset_, stale>>

StartsAt(r) == r.offset + r.lastDispatch

\* The last round.  Error recovery adds nothing to offset_.
ScanEnds ==
  /\ \E q \in {Round(file, scan)} :
        /\ AtEnd(file, q)
        /\ \E r \in {Settled(file, q, FALSE)} :
              /\ offset_' = IF wstate = "starting" THEN StartsAt(r) ELSE r.offset
              /\ file' = IF wstate = "starting" THEN ftruncate(file, StartsAt(r)) ELSE file
              /\ scan' = Rested(r)
  /\ stale' = (wstate = "reopening")
  /\ wstate' = "up"

WriterScans ==
  /\ wstate \in {"starting", "reopening"}
  /\ ScanGoesOn \/ ScanEnds
  /\ UNCHANGED <<inHand, written, damaged, input, counts>>

\* An event of l bytes, with its header, would cross the end of the chunk.
Pads(l) == Chunk(offset_) # Chunk(offset_ + l + 4 - 1)

\* The writer takes the next event.
WriterTakes(l) ==
  /\ wstate = "up" /\ taken < MaxEvents
  /\ taken' = taken + 1
  /\ inHand' = l
  /\ wstate' = IF Pads(l) THEN "padding" ELSE "appending"
  /\ UNCHANGED <<log, offset_, scan, stale, input, crashes, errors>>

\* The zeros up to the end of the chunk; offset_ is fetched again from the file.
Padding == Zeros((Chunk(Len(file)) + 1) * ChunkSize - Len(file))

WriterPads ==
  /\ wstate = "padding"
  /\ wstate' = "appending"
  /\ file' = file \o Padding
  /\ offset_' = Len(file')
  /\ stale' = FALSE
  /\ UNCHANGED <<scan, inHand, written, damaged, input, counts>>

\* The chunks of n bytes at the end of the file.
Reach(n) == {Chunk(Len(file) + i) : i \in 0 .. (n - 1)}

WriterAppends ==
  /\ wstate = "appending"
  /\ wstate' = "up"
  /\ file' = file \o Event(taken, inHand)
  /\ offset_' = offset_ + inHand + 4
  /\ written' = Append(written, [id |-> taken, at |-> Len(file), len |-> inHand])
  /\ damaged' = IF Chunk(Len(file)) = Chunk(Len(file) + inHand + 3) THEN damaged
                ELSE damaged \cup Reach(inHand + 4)
  /\ UNCHANGED <<scan, inHand, stale, input, counts>>

\* write() returns -1: the event is dropped.
WriteFails ==
  /\ wstate \in {"padding", "appending"} /\ errors < MaxErrors
  /\ errors' = errors + 1
  /\ wstate' = "error"
  /\ offset_' = IF wstate = "padding" THEN Len(file) ELSE offset_
  /\ UNCHANGED <<log, scan, inHand, stale, input, taken, crashes>>

\* The process ends at any moment, with n bytes of its last write in the file.
Crash(n) ==
  /\ wstate # "down" /\ crashes < MaxCrashes
  /\ n > 0 => \/ wstate = "padding" /\ n < Len(Padding)
              \/ wstate = "appending" /\ n < inHand + 4
  /\ crashes' = crashes + 1
  /\ wstate' = "down"
  /\ scan' = Fresh
  /\ file' = file \o SubSeq(IF wstate = "padding" THEN Padding ELSE Event(taken, inHand), 1, n)
  /\ damaged' = damaged \cup Reach(n)
  /\ UNCHANGED <<offset_, inHand, stale, written, input, taken, errors>>

Init ==
  /\ file = <<>>
  /\ wstate = "down"
  /\ offset_ = 0
  /\ scan = Fresh
  /\ inHand = 0
  /\ tail \in BOOLEAN
  /\ reader = Fresh
  /\ delivered = <<>>
  /\ written = <<>>
  /\ taken = 0
  /\ stale = FALSE
  /\ damaged = {}
  /\ crashes = 0
  /\ errors = 0

Reader == ReaderReads \/ ReaderResumes

Writer ==
  \/ WriterStarts \/ WriterRecovers \/ WriterScans
  \/ WriterPads \/ WriterAppends \/ WriteFails
  \/ \E l \in Lengths : WriterTakes(l)
  \/ \E n \in 0 .. (ChunkSize - 1) : Crash(n)

Next == Reader \/ Writer

Spec == Init /\ [][Next]_vars /\ WF_vars(Reader)

-----------------------------------------------------------------------------
(* Properties. *)

TypeOK ==
  /\ file \in Seq(Byte)
  /\ wstate \in {"down", "starting", "up", "padding", "appending", "error", "reopening"}
  /\ offset_ \in Nat
  /\ inHand \in Lengths \cup {0}
  /\ tail \in BOOLEAN
  /\ reader.status \in {"reading", "waiting", "thrown"}
  /\ reader.offset + Len(reader.buf) \in 0 .. Len(file)
  /\ reader.ptr \in 0 .. Len(reader.buf)
  /\ reader.lastDispatch \in 0 .. Len(reader.buf)
  /\ Len(reader.sizeBuff) <= 4
  /\ delivered \in Seq(Seq(Byte))
  /\ stale \in BOOLEAN
  /\ damaged \subseteq 0 .. Chunk(Len(file))

\* As long as no write was torn and no event lies across a boundary, readEvent
\* returns the events of the file in order, each once and with its own data, however
\* reads and writes interleave and wherever the read buffer cuts an event, padding or
\* a size; crashes between writes and failed writes do not disturb it.
ReadsBack ==
  damaged = {} =>
    /\ Len(delivered) <= Len(written)
    /\ \A i \in DOMAIN delivered : delivered[i] = Data(written[i].id, written[i].len)

Crosses(e) == Chunk(e.at) # Chunk(e.at + e.len + 3)

\* "If chunking is required, then make sure that msg does not cross chunk boundary":
\* so it is after every start, wherever the crash before left the end of the file.
\* Only error recovery, which does not add lastDispatchPtr_ to offset_, breaks it,
\* and only until a chunk is padded.
ChunksRespected ==
  /\ \A i \in DOMAIN written : Crosses(written[i]) => errors > 0
  /\ wstate \in {"up", "padding", "appending"} /\ ~stale => offset_ = Len(file)

InFileAndClean(i) == i \in DOMAIN written /\ Chunk(written[i].at) \notin damaged

\* Damage stays in its chunk: readEvent some day returns every event of a chunk that
\* is whole, whatever torn or misplaced events the chunks before hold; only a reader
\* that does not tail the file may stop with an exception before.
DamageIsLocal ==
  \A i \in 1 .. MaxEvents :
    InFileAndClean(i) ~>
      \/ reader.status = "thrown"
      \/ ~InFileAndClean(i)
      \/ \E j \in DOMAIN delivered : delivered[j] = Data(written[i].id, written[i].len)
=============================================================================
