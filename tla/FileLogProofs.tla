--------------------------- MODULE FileLogProofs ---------------------------
(***************************************************************************)
(* Proofs about FileLog.                                                   *)
(***************************************************************************)
EXTENDS FileLog, TLAPS

-----------------------------------------------------------------------------
(* Chunks *)

\* Multiplication by a positive number keeps the order.
LEMMA Times ==
  ASSUME NEW a \in Nat, NEW b \in Nat, NEW c \in Nat, a <= b
  PROVE  a * c \in Nat /\ a * c <= b * c /\ (a + 1) * c = a * c + c
  <1>1. PICK d \in Nat : b = a + d
    <2>1. b - a \in Nat /\ b = a + (b - a) OBVIOUS
    <2> QED BY <2>1
  <1>2. d * c \in Nat /\ a * c \in Nat OBVIOUS
  <1>3. (a + d) * c = a * c + d * c OBVIOUS
  <1>4. (a + 1) * c = a * c + c OBVIOUS
  <1> QED BY <1>1, <1>2, <1>3, <1>4

\* What the proofs use of LogAssumption.
LEMMA Constants ==
  /\ ChunkSize \in Nat /\ ChunkSize > 0
  /\ ReadBuffSize \in Nat /\ ReadBuffSize > 0
  /\ MaxCorrupted \in Nat
  /\ \A l \in Lengths : l \in Nat /\ l > 0 /\ l + 4 <= ChunkSize
  /\ MaxEvents \in Nat /\ MaxCrashes \in Nat /\ MaxErrors \in Nat
  <1>1. ChunkSize \in Nat /\ ChunkSize > 0 BY LogAssumption, SMT
  <1>2. ReadBuffSize \in Nat /\ ReadBuffSize > 0 BY LogAssumption, SMT
  <1>3. \A l \in Lengths : l \in Nat /\ l > 0 /\ l + 4 <= ChunkSize BY LogAssumption, SMT
  <1>4. MaxCorrupted \in Nat /\ MaxEvents \in Nat /\ MaxCrashes \in Nat /\ MaxErrors \in Nat
    BY LogAssumption, SMT
  <1> QED BY <1>1, <1>2, <1>3, <1>4

\* The chunk of a position, and the positions of a chunk.
LEMMA ChunkBounds ==
  ASSUME NEW p \in Nat
  PROVE  /\ Chunk(p) \in Nat
         /\ Chunk(p) * ChunkSize <= p
         /\ p < Chunk(p) * ChunkSize + ChunkSize
  BY Constants DEF Chunk

LEMMA DivDiv ==
  ASSUME NEW l \in Nat
  PROVE  /\ l \div 65536 = (l \div 256) \div 256
         /\ l \div 16777216 = ((l \div 256) \div 256) \div 256
  <1>1. l \div 65536 = (l \div 256) \div 256 BY SMT
  <1>2. l \div 16777216 = (l \div 65536) \div 256 BY SMT
  <1> QED BY <1>1, <1>2, SMT

LEMMA ByteFact ==
  ASSUME NEW n \in Nat, n < 256
  PROVE  n \in Byte
  BY SMT DEF Byte

LEMMA DivMod ==
  ASSUME NEW l \in Nat
  PROVE  /\ l \div 256 \in Nat
         /\ l % 256 \in Nat /\ l % 256 < 256
         /\ l = 256 * (l \div 256) + (l % 256)
  BY SMT

LEMMA HeaderBytes ==
  ASSUME NEW l \in Nat, l <= 2147483647
  PROVE  /\ l % 256 \in Byte /\ (l \div 256) % 256 \in Byte
         /\ (l \div 65536) % 256 \in Byte /\ (l \div 16777216) % 256 \in Byte
         /\ l = (l % 256) + 256 * ((l \div 256) % 256) + 65536 * ((l \div 65536) % 256)
                   + 16777216 * ((l \div 16777216) % 256)
  <1> DEFINE a == l \div 256
             b == a \div 256
             c == b \div 256
             x == l % 256
             y == a % 256
             z == b % 256
  <1>1. a \in Nat /\ x \in Nat /\ x < 256 /\ l = 256 * a + x BY DivMod
  <1>2. b \in Nat /\ y \in Nat /\ y < 256 /\ a = 256 * b + y BY <1>1, DivMod
  <1>3. c \in Nat /\ z \in Nat /\ z < 256 /\ b = 256 * c + z BY <1>2, DivMod
  <1>4. l \div 65536 = b /\ l \div 16777216 = c BY DivDiv
  <1>5. c < 128
    <2> HIDE DEF a, b, c, x, y, z
    <2> QED BY <1>1, <1>2, <1>3, SMT
  <1>6. c % 256 = c
    <2> HIDE DEF c
    <2> QED BY <1>3, <1>5, SMT
  <1>7. l = x + 256 * y + 65536 * z + 16777216 * c
    <2> HIDE DEF a, b, c, x, y, z
    <2> QED BY <1>1, <1>2, <1>3, SMT
  <1>8. x \in Byte /\ y \in Byte /\ z \in Byte /\ c \in Byte
    <2>1. c < 256
      <3> HIDE DEF c
      <3> QED BY <1>3, <1>5, SMT
    <2> HIDE DEF a, b, c, x, y, z
    <2> QED BY <1>1, <1>2, <1>3, <2>1, ByteFact
  <1> QED BY <1>4, <1>6, <1>7, <1>8

\* A later position is in the same chunk or in a later one.
LEMMA ChunkMonotone ==
  ASSUME NEW p \in Nat, NEW q \in Nat, p <= q
  PROVE  Chunk(p) <= Chunk(q)
  <1>1. SUFFICES ASSUME Chunk(q) + 1 <= Chunk(p) PROVE FALSE BY ChunkBounds
  <1>2. (Chunk(q) + 1) * ChunkSize <= Chunk(p) * ChunkSize
    BY <1>1, ChunkBounds, Constants, Times
  <1>3. (Chunk(q) + 1) * ChunkSize = Chunk(q) * ChunkSize + ChunkSize
    BY ChunkBounds, Constants, Times
  <1>4. Chunk(q) * ChunkSize \in Nat /\ Chunk(p) * ChunkSize \in Nat BY ChunkBounds, Constants, Times
  <1> HIDE DEF Chunk
  <1>5. Chunk(p) * ChunkSize <= p /\ q < Chunk(q) * ChunkSize + ChunkSize BY ChunkBounds
  <1> QED BY <1>2, <1>3, <1>4, <1>5, Constants

\* A position between two of one chunk is in that chunk.
LEMMA ChunkConvex ==
  ASSUME NEW p \in Nat, NEW q \in Nat, NEW r \in Nat, p <= q, q <= r, Chunk(p) = Chunk(r)
  PROVE  Chunk(q) = Chunk(p)
  <1>1. Chunk(p) <= Chunk(q) /\ Chunk(q) <= Chunk(r) BY ChunkMonotone
  <1>2. Chunk(p) \in Nat /\ Chunk(q) \in Nat BY ChunkBounds
  <1> QED BY <1>1, <1>2

\* The positions of the chunk with number c.
LEMMA ChunkUnique ==
  ASSUME NEW c \in Nat, NEW p \in Nat, c * ChunkSize <= p, p < c * ChunkSize + ChunkSize
  PROVE  Chunk(p) = c
  <1>1. Chunk(p) \in Nat /\ Chunk(p) * ChunkSize <= p /\ p < Chunk(p) * ChunkSize + ChunkSize
    BY ChunkBounds
  <1>2. c * ChunkSize \in Nat /\ Chunk(p) * ChunkSize \in Nat BY <1>1, Constants, Times
  <1>3. ~ (c < Chunk(p))
    <2>1. SUFFICES ASSUME c + 1 <= Chunk(p) PROVE FALSE BY <1>1
    <2>2. (c + 1) * ChunkSize <= Chunk(p) * ChunkSize BY <2>1, <1>1, Constants, Times
    <2>3. (c + 1) * ChunkSize = c * ChunkSize + ChunkSize BY Constants, Times
    <2> QED BY <2>2, <2>3, <1>1, <1>2, Constants
  <1>4. ~ (Chunk(p) < c)
    <2>1. SUFFICES ASSUME Chunk(p) + 1 <= c PROVE FALSE BY <1>1
    <2>2. (Chunk(p) + 1) * ChunkSize <= c * ChunkSize BY <2>1, <1>1, Constants, Times
    <2>3. (Chunk(p) + 1) * ChunkSize = Chunk(p) * ChunkSize + ChunkSize BY <1>1, Constants, Times
    <2> QED BY <2>2, <2>3, <1>1, <1>2, Constants
  <1> QED BY <1>1, <1>3, <1>4

-----------------------------------------------------------------------------
(* The inductive invariant *)

Outcomes == {"reading", "waiting", "thrown", "eof", "event", "corrupt"}

ReadStates ==
  [offset : Nat, buf : Seq(Byte), ptr : Nat, lastDispatch : Nat, sizeBuff : Seq(Byte),
   size : Nat, event : Seq(Byte), lastBad : Nat, numBad : Nat, status : Outcomes]

\* The read buffer r holds bytes of the file f, at its offset.
Buffered(f, r) ==
  /\ r \in ReadStates
  /\ r.offset + Len(r.buf) <= Len(f)
  /\ \A k \in 1 .. Len(r.buf) : r.buf[k] = f[r.offset + k]
  /\ r.ptr <= Len(r.buf)
  /\ r.lastDispatch <= r.ptr

\* What r has of the size and the data of an event, between rounds.
Partial(r) ==
  /\ r.size = 0 => Len(r.sizeBuff) < 4 /\ r.event = <<>>
  /\ r.size > 0 => Len(r.sizeBuff) = 4 /\ Len(r.event) < r.size

\* A reader of the file f between rounds.
Sound(f, r) ==
  /\ Buffered(f, r)
  /\ Partial(r)
  /\ r.status \in {"reading", "waiting", "thrown"}
  /\ r.status = "waiting" => 0 < r.ptr

Entries == [id : 1 .. MaxEvents, at : Nat, len : Lengths]

End(e) == e.at + e.len + 4

Inside(e, p) == e.at <= p /\ p < End(e)

\* The position p is not in an event.
Gap(w, p) == \A i \in DOMAIN w : ~Inside(w[i], p)

\* The bytes of the file f without damage, where w are its events: they are where
\* they should be, in order and within chunks; and what is not in an event is zero,
\* and so is the rest of its chunk.
EventsLaid(f, w) ==
  \A i \in DOMAIN w :
    /\ End(w[i]) <= Len(f)
    /\ ~Crosses(w[i])
    /\ \A k \in 1 .. w[i].len + 4 : f[w[i].at + k] = Event(w[i].id, w[i].len)[k]

InSequence(w) == \A i, j \in DOMAIN w : i < j => End(w[i]) <= w[j].at

GapsLaid(f, w) ==
  \A p \in 0 .. Len(f) - 1 :
    Gap(w, p) =>
      \A q \in Nat : p <= q /\ Chunk(q) = Chunk(p) =>
        q < Len(f) /\ f[q + 1] = 0 /\ Gap(w, q)

Layout(f, w) == EventsLaid(f, w) /\ InSequence(w) /\ GapsLaid(f, w)

\* Where what the reader is reading begins.
Start(r) == (r.offset + r.ptr) - Len(r.sizeBuff) - Len(r.event)

\* A reader of a file without damage: it is at the start of an event or in a gap, and
\* has returned the events before and no others.
Aligned(w, s) == \A i \in DOMAIN w : ~(w[i].at < s /\ s < End(w[i]))

SizeRead(f, r, s) ==
  /\ \A k \in 1 .. Len(r.sizeBuff) : r.sizeBuff[k] = f[s + k]
  /\ r.sizeBuff # <<>> => Chunk(s) = Chunk(s + 3)

DataRead(w, r, d, s) ==
  r.size > 0 =>
    /\ Len(d) + 1 \in DOMAIN w
    /\ LET e == w[Len(d) + 1]
       IN /\ s = e.at
          /\ r.size = e.len
          /\ \A k \in 1 .. Len(r.event) : r.event[k] = Data(e.id, e.len)[k]

Returns(w, d, s) ==
  /\ Len(d) <= Len(w)
  /\ \A i \in DOMAIN w : i <= Len(d) <=> w[i].at < s
  /\ \A i \in DOMAIN d : d[i] = Data(w[i].id, w[i].len)

Following(f, w, r, d) ==
  /\ r.status = "reading"
  /\ Start(r) \in Nat
  /\ Aligned(w, Start(r))
  /\ SizeRead(f, r, Start(r))
  /\ DataRead(w, r, d, Start(r))
  /\ Returns(w, d, Start(r))

\* What the writer relies on.
WriterInv ==
  /\ wstate \in {"up", "padding", "appending"} /\ ~stale => offset_ = Len(file)
  /\ stale => errors > 0
  /\ wstate = "appending" =>
       errors > 0 \/ Chunk(Len(file)) = Chunk(Len(file) + inHand + 3)
  /\ wstate \in {"padding", "appending"} => inHand \in Lengths /\ taken \in 1 .. MaxEvents
  /\ \A i \in DOMAIN written : Crosses(written[i]) => errors > 0
  /\ scan.status = "reading"
  /\ wstate \in {"starting", "reopening"} => Chunk(Len(file)) * ChunkSize <= scan.offset

TypeInv ==
  /\ file \in Seq(Byte)
  /\ wstate \in {"down", "starting", "up", "padding", "appending", "error", "reopening"}
  /\ offset_ \in Nat
  /\ inHand \in Lengths \cup {0}
  /\ tail \in BOOLEAN
  /\ Sound(file, reader)
  /\ Sound(file, scan)
  /\ delivered \in Seq(Seq(Byte))
  /\ written \in Seq(Entries)
  /\ taken \in 0 .. MaxEvents
  /\ stale \in BOOLEAN
  /\ damaged \subseteq 0 .. Chunk(Len(file))
  /\ crashes \in Nat /\ errors \in Nat

ReadInv == damaged = {} => Layout(file, written) /\ Following(file, written, reader, delivered)

-----------------------------------------------------------------------------
(* Sequences and records *)

\* The smaller of two numbers.
LEMMA MinOfTwo ==
  ASSUME NEW a \in Int, NEW b \in Int
  PROVE  Min({a, b}) = IF a <= b THEN a ELSE b
  <1> DEFINE m == IF a <= b THEN a ELSE b
  <1>1. m \in {a, b} /\ \A y \in {a, b} : m <= y OBVIOUS
  <1>2. \A x \in {a, b} : (\A y \in {a, b} : x <= y) => x = m OBVIOUS
  <1> HIDE DEF m
  <1>3. Min({a, b}) = m BY <1>1, <1>2 DEF Min
  <1> QED BY <1>3 DEF m

\* The bytes of two sequences, one after the other.
LEMMA Joined ==
  ASSUME NEW f \in Seq(Byte), NEW g \in Seq(Byte)
  PROVE  /\ f \o g \in Seq(Byte)
         /\ Len(f \o g) = Len(f) + Len(g)
         /\ \A k \in 1 .. Len(f) : (f \o g)[k] = f[k]
         /\ \A k \in 1 .. Len(g) : (f \o g)[Len(f) + k] = g[k]
  OBVIOUS

\* A part of a sequence.
LEMMA Part ==
  ASSUME NEW f \in Seq(Byte), NEW a \in Nat, NEW b \in Nat, a <= b, b <= Len(f)
  PROVE  /\ SubSeq(f, a + 1, b) \in Seq(Byte)
         /\ Len(SubSeq(f, a + 1, b)) = b - a
         /\ \A k \in 1 .. b - a : SubSeq(f, a + 1, b)[k] = f[a + k]
  OBVIOUS

LEMMA Slice ==
  ASSUME NEW f \in Seq(Byte), NEW a \in Nat, NEW n \in Nat, a + n <= Len(f)
  PROVE  /\ SubSeq(f, a + 1, a + n) \in Seq(Byte)
         /\ Len(SubSeq(f, a + 1, a + n)) = n
         /\ \A k \in 1 .. n : SubSeq(f, a + 1, a + n)[k] = f[a + k]
  OBVIOUS

\* A byte at the end of a sequence.
LEMMA Appended ==
  ASSUME NEW f \in Seq(Byte), NEW b \in Byte
  PROVE  /\ Append(f, b) \in Seq(Byte)
         /\ Len(Append(f, b)) = Len(f) + 1
         /\ \A k \in 1 .. Len(f) : Append(f, b)[k] = f[k]
         /\ Append(f, b)[Len(f) + 1] = b
  OBVIOUS

\* A sequence of bytes written as a function.
LEMMA FunctionSeq ==
  ASSUME NEW n \in Nat, NEW h \in [1 .. n -> Byte]
  PROVE  h \in Seq(Byte) /\ Len(h) = n
  OBVIOUS

LEMMA EmptySeq ==
  ASSUME NEW f \in Seq(Byte)
  PROVE  Len(f) \in Nat /\ (f = <<>> <=> Len(f) = 0)
  OBVIOUS

-----------------------------------------------------------------------------
(* The rounds of readEvent *)

\* The fields that a round leaves alone.
SameSize(q, r) == q.sizeBuff = r.sizeBuff /\ q.size = r.size /\ q.event = r.event

SameBad(q, r) == q.lastBad = r.lastBad /\ q.numBad = r.numBad

SameBuffer(q, r) == q.offset = r.offset /\ q.buf = r.buf /\ q.lastDispatch = r.lastDispatch

LEMMA ResetFields ==
  ASSUME NEW r \in ReadStates, NEW n \in Nat
  PROVE  LET q == resetState(r, n)
         IN /\ q \in ReadStates
            /\ q.offset = r.offset /\ q.buf = r.buf /\ q.ptr = r.ptr /\ q.lastDispatch = n
            /\ q.sizeBuff = <<>> /\ q.size = 0 /\ q.event = <<>>
            /\ SameBad(q, r) /\ q.status = r.status
  <1> DEFINE q == resetState(r, n)
  <1>1. <<>> \in Seq(Byte) OBVIOUS
  <1>2. q = [r EXCEPT !.size = 0, !.sizeBuff = <<>>, !.event = <<>>, !.lastDispatch = n]
    BY DEF resetState
  <1> HIDE DEF q
  <1>3. q \in ReadStates BY <1>1, <1>2 DEF ReadStates
  <1>4. /\ q.offset = r.offset /\ q.buf = r.buf /\ q.ptr = r.ptr /\ q.lastDispatch = n
        /\ q.sizeBuff = <<>> /\ q.size = 0 /\ q.event = <<>>
        /\ SameBad(q, r) /\ q.status = r.status
    BY <1>2 DEF ReadStates, SameBad
  <1> QED BY <1>3, <1>4 DEF q

LEMMA StatusFields ==
  ASSUME NEW r \in ReadStates, NEW s \in Outcomes
  PROVE  LET q == [r EXCEPT !.status = s]
         IN /\ q \in ReadStates
            /\ SameBuffer(q, r) /\ q.ptr = r.ptr
            /\ SameSize(q, r) /\ SameBad(q, r) /\ q.status = s
  BY DEF ReadStates, SameBad, SameSize, SameBuffer

LEMMA RefillFields ==
  ASSUME NEW f \in Seq(Byte), NEW r, Buffered(f, r)
  PROVE  LET q == Refill(f, r)
         IN /\ Buffered(f, q)
            /\ q.offset = r.offset + Len(r.buf) /\ q.ptr = 0 /\ q.lastDispatch = 0
            /\ SameSize(q, r) /\ SameBad(q, r)
            /\ q.buf = <<>> => q.offset = Len(f) /\ q.status = "eof"
            /\ q.buf # <<>> => q.status = r.status
  <1> DEFINE p == r.offset + Len(r.buf)
             m == Min({p + ReadBuffSize, Len(f)})
             b == SubSeq(f, p + 1, m)
             q == Refill(f, r)
  <1>1. r \in ReadStates /\ r.offset \in Nat /\ r.buf \in Seq(Byte) /\ p <= Len(f)
    BY DEF Buffered, ReadStates
  <1>2. Len(r.buf) \in Nat /\ Len(f) \in Nat BY <1>1, EmptySeq
  <1>3. p \in Nat BY <1>1, <1>2
  <1>4. m = IF p + ReadBuffSize <= Len(f) THEN p + ReadBuffSize ELSE Len(f)
    <2> HIDE DEF p
    <2> QED BY <1>2, <1>3, MinOfTwo, Constants
  <1> HIDE DEF m
  <1>5. m \in Nat /\ p <= m /\ m <= Len(f) /\ (m = p => p = Len(f))
    <2> HIDE DEF p
    <2> QED BY <1>1, <1>2, <1>3, <1>4, Constants
  <1>6. b \in Seq(Byte) /\ Len(b) = m - p /\ \A k \in 1 .. m - p : b[k] = f[p + k]
    <2> HIDE DEF p
    <2> QED BY <1>3, <1>5, Part
  <1> HIDE DEF b
  <1>7. q = [r EXCEPT !.offset = p, !.buf = b, !.ptr = 0, !.lastDispatch = 0,
                      !.status = IF b = <<>> THEN "eof" ELSE @]
    BY DEF Refill, b, m
  <1> HIDE DEF q, p
  <1>8. /\ q \in ReadStates
        /\ q.offset = p /\ q.buf = b /\ q.ptr = 0 /\ q.lastDispatch = 0
        /\ SameSize(q, r) /\ SameBad(q, r)
        /\ q.status = IF b = <<>> THEN "eof" ELSE r.status
    BY <1>1, <1>3, <1>6, <1>7 DEF ReadStates, Outcomes, SameSize, SameBad
  <1>9. b = <<>> => p = Len(f) BY <1>3, <1>5, <1>6, EmptySeq
  <1>10. p + Len(b) <= Len(f) /\ 0 <= Len(b) BY <1>2, <1>3, <1>5, <1>6
  <1>11. Buffered(f, q) BY <1>6, <1>8, <1>10 DEF Buffered
  <1> QED BY <1>8, <1>9, <1>11 DEF p, q

LEMMA ByteOf ==
  ASSUME NEW f \in Seq(Byte)
  PROVE  \A k \in 1 .. Len(f) : f[k] \in Byte
  OBVIOUS

\* One more byte of the buffer.
LEMMA BytesOn ==
  ASSUME NEW f \in Seq(Byte), NEW r, Buffered(f, r), r.ptr < Len(r.buf)
  PROVE  /\ r.buf[r.ptr + 1] \in Byte
         /\ r.buf[r.ptr + 1] = f[r.offset + r.ptr + 1]
         /\ r.offset + r.ptr < Len(f)
  <1>1. r.buf \in Seq(Byte) /\ r.ptr \in Nat /\ r.offset \in Nat /\ Len(r.buf) \in Nat
    BY EmptySeq DEF Buffered, ReadStates
  <1>2. r.ptr + 1 \in 1 .. Len(r.buf) BY <1>1
  <1>3. r.buf[r.ptr + 1] = f[r.offset + (r.ptr + 1)] BY <1>2 DEF Buffered
  <1>4. r.offset + (r.ptr + 1) = r.offset + r.ptr + 1 BY <1>1
  <1>5. r.buf[r.ptr + 1] \in Byte BY <1>1, <1>2
  <1>6. Len(f) \in Nat /\ r.offset + Len(r.buf) <= Len(f) BY EmptySeq DEF Buffered
  <1> QED BY <1>1, <1>3, <1>4, <1>5, <1>6

\* A size of four bytes is a number.
LEMMA SizeIsNat ==
  ASSUME NEW b \in Seq(Byte), Len(b) = 4
  PROVE  getEventSize(b) \in Nat
  <1>0. \A k \in 1 .. 4 : b[k] \in Byte BY ByteOf
  <1>1. b[1] \in Byte /\ b[2] \in Byte /\ b[3] \in Byte /\ b[4] \in Byte BY <1>0
  <1>2. b[1] \in Nat /\ b[2] \in Nat /\ b[3] \in Nat /\ b[4] \in Nat
    <2>1. \A x \in Byte : x \in Nat BY SMT DEF Byte
    <2> QED BY <1>1, <2>1
  <1> QED BY <1>2, SMT DEF getEventSize

\* A round that reads a byte of the size of an event, and its four outcomes: the byte
\* is skipped, the size is not complete, it is zero, or it is that of an event.
LEMMA SizeStepFields ==
  ASSUME NEW f \in Seq(Byte), NEW r, Buffered(f, r), Partial(r), r.ptr < Len(r.buf), r.size = 0,
         r.status = "reading"
  PROVE  LET q == SizeStep(r)
             b == Append(r.sizeBuff, r.buf[r.ptr + 1])
         IN /\ Buffered(f, q)
            /\ SameBuffer(q, r) /\ q.ptr = r.ptr + 1 /\ SameBad(q, r)
            /\ q.event = <<>>
            /\ \/ Skips(r) /\ SameSize(q, r) /\ q.status = "reading"
               \/ ~Skips(r) /\ Len(b) < 4 /\ q.sizeBuff = b /\ q.size = 0 /\ q.status = "reading"
               \/ /\ ~Skips(r) /\ Len(b) = 4 /\ getEventSize(b) = 0
                  /\ q.sizeBuff = <<>> /\ q.size = 0 /\ q.status = "reading"
               \/ /\ ~Skips(r) /\ Len(b) = 4 /\ getEventSize(b) > 0
                  /\ q.sizeBuff = b /\ q.size = getEventSize(b)
                  /\ q.status = IF isEventCorrupted(q.offset + q.ptr, q.size)
                                THEN "corrupt" ELSE "reading"
  <1> DEFINE b == Append(r.sizeBuff, r.buf[r.ptr + 1])
             t == [r EXCEPT !.ptr = @ + 1, !.sizeBuff = b]
             n == getEventSize(b)
             q == SizeStep(r)
  <1>1. r \in ReadStates /\ r.sizeBuff \in Seq(Byte) /\ r.ptr \in Nat /\ r.offset \in Nat
        /\ r.buf \in Seq(Byte) /\ Len(r.buf) \in Nat /\ r.lastDispatch \in Nat
    BY EmptySeq DEF Buffered, ReadStates
  <1>2. b \in Seq(Byte) /\ Len(b) = Len(r.sizeBuff) + 1 BY <1>1, BytesOn, Appended
  <1>3. Len(b) \in Nat /\ Len(b) <= 4 /\ r.event = <<>>
    <2>1. Len(r.sizeBuff) \in Nat BY <1>1, EmptySeq
    <2> QED BY <1>2, <2>1 DEF Partial
  <1> HIDE DEF b
  <1>4. /\ t \in ReadStates /\ SameBuffer(t, r) /\ t.ptr = r.ptr + 1 /\ SameBad(t, r)
        /\ t.sizeBuff = b /\ t.size = 0 /\ t.event = <<>> /\ t.status = "reading"
    <2>1. r.ptr + 1 \in Nat BY <1>1
    <2>2. t = [r EXCEPT !.ptr = r.ptr + 1, !.sizeBuff = b] BY <1>1 DEF ReadStates
    <2> HIDE DEF t
    <2>3. t \in ReadStates BY <1>1, <1>2, <2>1, <2>2 DEF ReadStates
    <2>4. SameBuffer(t, r) /\ t.ptr = r.ptr + 1 /\ SameBad(t, r)
      BY <1>1, <2>2 DEF ReadStates, SameBuffer, SameBad
    <2>5. t.sizeBuff = b /\ t.size = r.size /\ t.event = r.event /\ t.status = r.status
      BY <1>1, <2>2 DEF ReadStates
    <2> QED BY <1>3, <2>3, <2>4, <2>5
  <1>5. q = IF Skips(r) THEN [r EXCEPT !.ptr = @ + 1]
            ELSE IF Len(b) < 4 THEN t
            ELSE IF n = 0 THEN resetState(t, t.lastDispatch)
            ELSE [t EXCEPT !.size = n,
                           !.status = IF isEventCorrupted(t.offset + t.ptr, n) THEN "corrupt" ELSE @]
    BY DEF SizeStep, b
  <1> HIDE DEF t, n, q
  <1>6. CASE Skips(r)
    <2>1. /\ q \in ReadStates /\ SameBuffer(q, r) /\ q.ptr = r.ptr + 1 /\ SameBad(q, r)
          /\ SameSize(q, r) /\ q.status = "reading"
      <3>1. q = [r EXCEPT !.ptr = r.ptr + 1] BY <1>1, <1>5, <1>6 DEF ReadStates
      <3>2. r.ptr + 1 \in Nat BY <1>1
      <3>3. q \in ReadStates BY <1>1, <3>1, <3>2 DEF ReadStates
      <3> QED BY <1>1, <3>1, <3>3 DEF ReadStates, SameBuffer, SameBad, SameSize
    <2>2. Buffered(f, q) BY <2>1, <1>1 DEF Buffered, SameBuffer
    <2>3. q.event = <<>> BY <2>1, <1>3 DEF SameSize
    <2> QED BY <1>6, <2>1, <2>2, <2>3 DEF q
  <1>7. CASE ~Skips(r) /\ Len(b) < 4
    <2>1. q = t BY <1>5, <1>7
    <2>2. Buffered(f, q) BY <2>1, <1>4, <1>1 DEF Buffered, SameBuffer
    <2> QED BY <1>7, <1>4, <2>1, <2>2 DEF q, b
  <1>8. CASE ~Skips(r) /\ ~(Len(b) < 4)
    <2>0. Len(b) = 4
      <3>1. Len(b) \in Nat /\ Len(b) <= 4 BY <1>3
      <3>2. ~(Len(b) < 4) BY <1>8
      <3>3. \A k \in Nat : k <= 4 /\ ~(k < 4) => k = 4 OBVIOUS
      <3> QED BY <3>1, <3>2, <3>3
    <2>1. Len(b) = 4 /\ n \in Nat
      <3>1. getEventSize(b) \in Nat BY <1>2, <2>0, SizeIsNat
      <3> QED BY <2>0, <3>1 DEF n
    <2>2. CASE n = 0
      <3>1. q = resetState(t, t.lastDispatch) BY <1>5, <1>8, <2>2
      <3>2. t.lastDispatch = r.lastDispatch /\ t.lastDispatch \in Nat BY <1>1, <1>4 DEF SameBuffer
      <3>3. /\ q \in ReadStates /\ SameBuffer(q, r) /\ q.ptr = r.ptr + 1 /\ SameBad(q, r)
            /\ q.sizeBuff = <<>> /\ q.size = 0 /\ q.event = <<>> /\ q.status = "reading"
        BY <1>4, <3>1, <3>2, ResetFields DEF SameBuffer, SameBad
      <3>4. Buffered(f, q) BY <3>3, <1>1 DEF Buffered, SameBuffer
      <3> QED BY <1>8, <2>1, <2>2, <3>3, <3>4 DEF q, b, n
    <2>3. CASE n # 0
      <3>1. q = [t EXCEPT !.size = n,
                   !.status = IF isEventCorrupted(t.offset + t.ptr, n) THEN "corrupt" ELSE @]
        BY <1>5, <1>8, <2>3
      <3>2. n > 0 BY <2>1, <2>3
      <3>3. /\ q \in ReadStates /\ SameBuffer(q, t) /\ q.ptr = t.ptr /\ SameBad(q, t)
            /\ q.sizeBuff = t.sizeBuff /\ q.size = n /\ q.event = t.event
            /\ q.status = IF isEventCorrupted(t.offset + t.ptr, n) THEN "corrupt" ELSE t.status
        BY <1>4, <2>1, <3>1 DEF ReadStates, Outcomes, SameBuffer, SameBad
      <3>4. /\ SameBuffer(q, r) /\ q.ptr = r.ptr + 1 /\ SameBad(q, r)
            /\ q.sizeBuff = b /\ q.event = <<>>
            /\ q.status = IF isEventCorrupted(q.offset + q.ptr, q.size) THEN "corrupt" ELSE "reading"
        BY <3>3, <1>4 DEF SameBuffer, SameBad
      <3>5. Buffered(f, q) BY <3>3, <3>4, <1>1 DEF Buffered, SameBuffer
      <3> QED BY <1>8, <2>1, <3>2, <3>3, <3>4, <3>5 DEF q, b, n
    <2> QED BY <2>2, <2>3
  <1> QED BY <1>6, <1>7, <1>8

\* A round that copies n bytes of the data of an event.
Copies(f, r, q, n) ==
  /\ n \in Nat /\ 0 < n
  /\ q.ptr = r.ptr + n
  /\ Len(q.event) = Len(r.event) + n
  /\ \A k \in 1 .. Len(r.event) : q.event[k] = r.event[k]
  /\ \A k \in 1 .. n : q.event[Len(r.event) + k] = f[r.offset + r.ptr + k]

LEMMA DataStepFields ==
  ASSUME NEW f \in Seq(Byte), NEW r, Buffered(f, r), Partial(r), r.ptr < Len(r.buf), r.size > 0,
         r.status = "reading"
  PROVE  LET q == DataStep(r)
         IN /\ Buffered(f, q)
            /\ SameBuffer(q, r) /\ SameBad(q, r)
            /\ q.sizeBuff = r.sizeBuff /\ q.size = r.size
            /\ \E n \in Nat : Copies(f, r, q, n)
            /\ Len(q.event) <= q.size
            /\ q.status = IF Len(q.event) = q.size THEN "event" ELSE "reading"
  <1> DEFINE n == Min({Len(r.buf) - r.ptr, r.size - Len(r.event)})
             g == SubSeq(r.buf, r.ptr + 1, r.ptr + n)
             e == r.event \o g
             q == DataStep(r)
  <1>1. /\ r \in ReadStates /\ r.ptr \in Nat /\ r.offset \in Nat /\ r.buf \in Seq(Byte)
        /\ r.event \in Seq(Byte) /\ r.size \in Nat
    BY DEF Buffered, ReadStates
  <1>2. Len(r.buf) \in Nat /\ Len(r.event) \in Nat /\ Len(f) \in Nat BY <1>1, EmptySeq
  <1>3. Len(r.event) < r.size BY DEF Partial
  <1>4. n \in Nat /\ 0 < n /\ r.ptr + n <= Len(r.buf) /\ Len(r.event) + n <= r.size
    <2>1. Len(r.buf) - r.ptr \in Int /\ r.size - Len(r.event) \in Int BY <1>1, <1>2
    <2>2. n = IF Len(r.buf) - r.ptr <= r.size - Len(r.event)
              THEN Len(r.buf) - r.ptr ELSE r.size - Len(r.event)
      BY <2>1, MinOfTwo
    <2> HIDE DEF n
    <2>3. \A b, p, s, v \in Nat :
            p < b /\ v < s /\ n = (IF b - p <= s - v THEN b - p ELSE s - v) =>
              n \in Nat /\ 0 < n /\ p + n <= b /\ v + n <= s
      OBVIOUS
    <2> QED BY <1>1, <1>2, <1>3, <2>2, <2>3
  <1> HIDE DEF n
  <1>5. /\ g \in Seq(Byte) /\ Len(g) = n
        /\ \A k \in 1 .. n : g[k] = r.buf[r.ptr + k]
    BY <1>1, <1>4, Slice
  <1> HIDE DEF g
  <1>6. /\ e \in Seq(Byte) /\ Len(e) = Len(r.event) + n
        /\ \A k \in 1 .. Len(r.event) : e[k] = r.event[k]
        /\ \A k \in 1 .. n : e[Len(r.event) + k] = g[k]
    BY <1>1, <1>5, Joined
  <1> HIDE DEF e
  <1>7. q = [r EXCEPT !.ptr = r.ptr + n, !.event = e,
                      !.status = IF Len(e) = r.size THEN "event" ELSE r.status]
    BY <1>1 DEF DataStep, e, g, n, ReadStates
  <1>8. r.ptr + n \in Nat BY <1>1, <1>4
  <1> HIDE DEF q
  <1>9. q \in ReadStates BY <1>1, <1>6, <1>7, <1>8 DEF ReadStates, Outcomes
  <1>10. SameBuffer(q, r) /\ SameBad(q, r) /\ q.sizeBuff = r.sizeBuff /\ q.size = r.size
    BY <1>1, <1>7 DEF ReadStates, SameBuffer, SameBad
  <1>11. /\ q.ptr = r.ptr + n /\ q.event = e
         /\ q.status = IF Len(e) = r.size THEN "event" ELSE "reading"
    BY <1>1, <1>7 DEF ReadStates
  <1>12. Buffered(f, q)
    <2>1. r.lastDispatch \in Nat /\ r.lastDispatch <= r.ptr BY <1>1 DEF ReadStates, Buffered
    <2>2. r.lastDispatch <= r.ptr + n BY <2>1, <1>1, <1>4
    <2> QED BY <1>4, <1>9, <1>10, <1>11, <2>2 DEF Buffered, SameBuffer
  <1>13. \A k \in 1 .. n : r.buf[r.ptr + k] = f[r.offset + r.ptr + k]
    <2> TAKE k \in 1 .. n
    <2>1. r.ptr + k \in 1 .. Len(r.buf) /\ r.offset + (r.ptr + k) = r.offset + r.ptr + k
      BY <1>1, <1>2, <1>4
    <2> QED BY <2>1 DEF Buffered
  <1>14. Copies(f, r, q, n) BY <1>4, <1>5, <1>6, <1>11, <1>13 DEF Copies
  <1>15. Len(q.event) <= q.size BY <1>4, <1>6, <1>10, <1>11
  <1> QED BY <1>4, <1>10, <1>11, <1>12, <1>14, <1>15 DEF q

\* The state q after a round that began in r.
Outcome(f, r, q) ==
  /\ Buffered(f, q)
  /\ SameBad(q, r)
  /\ r.offset <= q.offset
  /\ q.status \in {"reading", "eof", "event", "corrupt"}
  /\ q.status # "event" => Partial(q)
  /\ q.status = "eof" => q.offset = Len(f) /\ q.ptr = 0
  /\ q.status = "corrupt" => 0 < q.ptr

LEMMA RoundOutcome ==
  ASSUME NEW f \in Seq(Byte), NEW r, Sound(f, r), r.status = "reading"
  PROVE  Outcome(f, r, Round(f, r))
  <1> DEFINE q == Round(f, r)
  <1>1. Buffered(f, r) /\ Partial(r) BY DEF Sound
  <1>2. /\ r \in ReadStates /\ r.offset \in Nat /\ r.ptr \in Nat /\ r.size \in Nat
        /\ Len(r.buf) \in Nat /\ r.ptr <= Len(r.buf)
    BY <1>1, EmptySeq DEF Buffered, ReadStates
  <1>3. CASE r.ptr = Len(r.buf)
    <2>1. q = Refill(f, r) BY <1>3 DEF Round
    <2> HIDE DEF q
    <2>2. /\ Buffered(f, q) /\ SameSize(q, r) /\ SameBad(q, r)
          /\ q.offset = r.offset + Len(r.buf) /\ q.ptr = 0
          /\ q.buf = <<>> => q.offset = Len(f) /\ q.status = "eof"
          /\ q.buf # <<>> => q.status = r.status
      BY <1>1, <2>1, RefillFields
    <2>3. Partial(q) BY <1>1, <2>2 DEF Partial, SameSize
    <2>4. r.offset <= q.offset BY <1>2, <2>2
    <2> QED BY <2>2, <2>3, <2>4 DEF Outcome, q
  <1>4. CASE r.ptr < Len(r.buf) /\ r.size = 0
    <2>1. q = SizeStep(r) BY <1>2, <1>4 DEF Round
    <2> DEFINE b == Append(r.sizeBuff, r.buf[r.ptr + 1])
    <2> HIDE DEF q
    <2>2. /\ Buffered(f, q)
          /\ SameBuffer(q, r) /\ q.ptr = r.ptr + 1 /\ SameBad(q, r)
          /\ q.event = <<>>
          /\ \/ Skips(r) /\ SameSize(q, r) /\ q.status = "reading"
             \/ ~Skips(r) /\ Len(b) < 4 /\ q.sizeBuff = b /\ q.size = 0 /\ q.status = "reading"
             \/ /\ ~Skips(r) /\ Len(b) = 4 /\ getEventSize(b) = 0
                /\ q.sizeBuff = <<>> /\ q.size = 0 /\ q.status = "reading"
             \/ /\ ~Skips(r) /\ Len(b) = 4 /\ getEventSize(b) > 0
                /\ q.sizeBuff = b /\ q.size = getEventSize(b)
                /\ q.status = IF isEventCorrupted(q.offset + q.ptr, q.size)
                              THEN "corrupt" ELSE "reading"
      BY <1>1, <1>4, <2>1, SizeStepFields
    <2> HIDE DEF b
    <2>3. q.size = 0 /\ q.size \in Nat => ~(q.size > 0) OBVIOUS
    <2>4. q.size \in Nat BY <2>2 DEF Buffered, ReadStates
    <2>5. Partial(q)
      <3>1. CASE SameSize(q, r) BY <1>1, <3>1 DEF Partial, SameSize
      <3>2. CASE q.sizeBuff = b /\ q.size = 0 /\ Len(b) < 4 BY <2>2, <2>3, <2>4, <3>2 DEF Partial
      <3>3. CASE q.sizeBuff = <<>> /\ q.size = 0
        <4>1. Len(<<>>) < 4 OBVIOUS
        <4> QED BY <2>2, <2>3, <2>4, <3>3, <4>1 DEF Partial
      <3>4. CASE q.sizeBuff = b /\ q.size > 0 /\ Len(b) = 4
        <4>1. Len(<<>>) = 0 /\ q.size # 0 BY <2>4, <3>4
        <4> QED BY <2>2, <3>4, <4>1 DEF Partial
      <3> QED BY <2>2, <3>1, <3>2, <3>3, <3>4
    <2>6. 0 < q.ptr /\ r.offset <= q.offset BY <1>2, <2>2 DEF SameBuffer
    <2>7. q.status \in {"reading", "corrupt"} BY <2>2
    <2> QED BY <2>2, <2>5, <2>6, <2>7 DEF Outcome, q
  <1>5. CASE r.ptr < Len(r.buf) /\ r.size > 0
    <2>1. q = DataStep(r) BY <1>2, <1>5 DEF Round
    <2> HIDE DEF q
    <2>2. /\ Buffered(f, q) /\ SameBuffer(q, r) /\ SameBad(q, r)
          /\ q.sizeBuff = r.sizeBuff /\ q.size = r.size
          /\ Len(q.event) <= q.size
          /\ q.status = IF Len(q.event) = q.size THEN "event" ELSE "reading"
      BY <1>1, <1>5, <2>1, DataStepFields
    <2>3. q.status # "event" => Partial(q)
      <3>1. Len(q.event) \in Nat BY <2>2, EmptySeq DEF Buffered, ReadStates
      <3>2. SUFFICES ASSUME Len(q.event) # q.size PROVE Partial(q) BY <2>2
      <3>3. Len(q.event) < q.size /\ q.size # 0 /\ q.size > 0 BY <1>2, <1>5, <2>2, <3>1, <3>2
      <3>4. Len(q.sizeBuff) = 4 BY <1>1, <1>5, <2>2 DEF Partial
      <3> QED BY <3>3, <3>4 DEF Partial
    <2>4. r.offset <= q.offset BY <1>2, <2>2 DEF SameBuffer
    <2> QED BY <2>2, <2>3, <2>4 DEF Outcome, q
  <1> QED BY <1>2, <1>3, <1>4, <1>5

-----------------------------------------------------------------------------
(* What follows a round *)

LEMMA SeekFields ==
  ASSUME NEW r \in ReadStates, NEW c \in Nat
  PROVE  LET q == seekToChunk(r, c)
         IN /\ q \in ReadStates
            /\ q.offset = c * ChunkSize /\ q.buf = <<>> /\ q.ptr = 0 /\ q.lastDispatch = 0
            /\ q.sizeBuff = <<>> /\ q.size = 0 /\ q.event = <<>>
            /\ SameBad(q, r) /\ q.status = r.status
  <1> DEFINE t == resetState(r, 0)
             q == seekToChunk(r, c)
             o == c * ChunkSize
  <1>1. /\ t \in ReadStates /\ t.sizeBuff = <<>> /\ t.size = 0 /\ t.event = <<>>
        /\ t.lastDispatch = 0 /\ SameBad(t, r) /\ t.status = r.status
    BY ResetFields
  <1>2. q = [[t EXCEPT !.buf = <<>>, !.ptr = 0] EXCEPT !.offset = o]
    BY DEF seekToChunk, resetAllValues
  <1>3. o \in Nat BY Constants
  <1>4. <<>> \in Seq(Byte) OBVIOUS
  <1> HIDE DEF t, q, o
  <1>5. q \in ReadStates BY <1>1, <1>2, <1>3, <1>4 DEF ReadStates
  <1>6. q.offset = o /\ q.buf = <<>> /\ q.ptr = 0 /\ q.lastDispatch = t.lastDispatch
    BY <1>1, <1>2 DEF ReadStates
  <1>7. /\ q.sizeBuff = t.sizeBuff /\ q.size = t.size /\ q.event = t.event
        /\ SameBad(q, t) /\ q.status = t.status
    BY <1>1, <1>2 DEF ReadStates, SameBad
  <1>8. SameBad(q, r) BY <1>1, <1>7 DEF SameBad
  <1> QED BY <1>1, <1>5, <1>6, <1>7, <1>8 DEF q, o

\* A reader at the start of a chunk of the file.
LEMMA SeekSound ==
  ASSUME NEW f \in Seq(Byte), NEW r \in ReadStates, r.status = "reading",
         NEW c \in Nat, c * ChunkSize <= Len(f)
  PROVE  Sound(f, seekToChunk(r, c)) /\ seekToChunk(r, c).status = "reading"
  <1> DEFINE q == seekToChunk(r, c)
  <1>1. /\ q \in ReadStates
        /\ q.offset = c * ChunkSize /\ q.buf = <<>> /\ q.ptr = 0 /\ q.lastDispatch = 0
        /\ q.sizeBuff = <<>> /\ q.size = 0 /\ q.event = <<>> /\ q.status = "reading"
    BY SeekFields
  <1> HIDE DEF q
  <1>2. Len(<<>>) = 0 OBVIOUS
  <1>3. c * ChunkSize \in Nat /\ Len(f) \in Nat BY Constants, EmptySeq
  <1>4. q.offset + 0 <= Len(f) BY <1>1, <1>3
  <1>5. Buffered(f, q) BY <1>1, <1>2, <1>4 DEF Buffered
  <1>6. Partial(q) BY <1>1, <1>2 DEF Partial
  <1> QED BY <1>1, <1>5, <1>6 DEF Sound, q

\* The number of the last chunk of a file.
LEMMA LastChunk ==
  ASSUME NEW f \in Seq(Byte), Len(f) > 0
  PROVE  getNumChunks(f) - 1 = Chunk(Len(f))
  <1>1. f # <<>> /\ Len(f) \in Nat BY EmptySeq
  <1>2. getNumChunks(f) = Chunk(Len(f)) + 1 BY <1>1 DEF getNumChunks, Chunk
  <1> QED BY <1>1, <1>2, ChunkBounds

\* performRecovery in state q, and what comes of it: the chunk again, the next one, a
\* wait for it, or an exception.
Retries(f, q, r) ==
  /\ BadEvents(q) < MaxCorrupted
  /\ r.offset = Chunk(q.offset) * ChunkSize /\ r.buf = <<>> /\ r.ptr = 0 /\ r.lastDispatch = 0
  /\ r.sizeBuff = <<>> /\ r.size = 0 /\ r.event = <<>> /\ r.status = "reading"

Throws(f, q, r) ==
  /\ Chunk(q.offset) = Chunk(Len(f))
  /\ r.lastBad = Chunk(q.offset) /\ r.numBad = MaxCorrupted
  /\ r.status = "thrown"

LEMMA RecoveryOutcome ==
  ASSUME NEW f \in Seq(Byte), NEW q, Buffered(f, q), Partial(q), 0 < q.ptr, NEW t \in BOOLEAN
  PROVE  LET r == performRecovery(f, q, t)
         IN /\ Sound(f, r)
            /\ ~t => r.status # "waiting"
            /\ \/ Retries(f, q, r)
               \/ Chunk(q.offset) # Chunk(Len(f))
               \/ t
               \/ Throws(f, q, r)
            /\ BadEvents(q) >= MaxCorrupted /\ Chunk(q.offset) = Chunk(Len(f)) /\ ~t => Throws(f, q, r)
  <1> DEFINE r == performRecovery(f, q, t)
             cur == Chunk(q.offset)
             m == Min({BadEvents(q), MaxCorrupted})
             s == [q EXCEPT !.lastBad = cur, !.numBad = m, !.status = "reading"]
  <1>1. /\ q \in ReadStates /\ q.offset \in Nat /\ q.ptr \in Nat /\ Len(q.buf) \in Nat
        /\ q.lastDispatch \in Nat /\ q.numBad \in Nat
    BY EmptySeq DEF Buffered, ReadStates
  <1>2. /\ q.offset + Len(q.buf) <= Len(f) /\ q.ptr <= Len(q.buf) /\ q.lastDispatch <= q.ptr
        /\ Len(f) \in Nat
    BY EmptySeq DEF Buffered
  <1>3. Len(f) > 0 /\ q.offset <= Len(f) BY <1>1, <1>2
  <1>4. cur \in Nat /\ Chunk(Len(f)) \in Nat /\ cur <= Chunk(Len(f)) /\ cur * ChunkSize <= q.offset
    BY <1>1, <1>2, <1>3, ChunkBounds, ChunkMonotone
  <1>5. BadEvents(q) \in Nat BY <1>1 DEF BadEvents
  <1>6. m = (IF BadEvents(q) <= MaxCorrupted THEN BadEvents(q) ELSE MaxCorrupted) /\ m \in Nat
    BY <1>5, Constants, MinOfTwo
  <1> HIDE DEF m, cur
  <1>7. s \in ReadStates BY <1>1, <1>4, <1>6 DEF ReadStates, Outcomes
  <1>8. /\ s.lastBad = cur /\ s.numBad = m /\ s.status = "reading"
        /\ SameBuffer(s, q) /\ s.ptr = q.ptr /\ SameSize(s, q)
    BY <1>1 DEF ReadStates, SameBuffer, SameSize
  <1>9. r = IF BadEvents(q) < MaxCorrupted THEN seekToChunk(s, cur)
            ELSE IF cur # getNumChunks(f) - 1 THEN seekToChunk(s, cur + 1)
            ELSE IF t THEN [s EXCEPT !.status = "waiting"]
            ELSE [resetState(s, s.lastDispatch) EXCEPT !.status = "thrown"]
    BY DEF performRecovery, s, m, cur
  <1>10. getNumChunks(f) - 1 = Chunk(Len(f)) BY <1>3, LastChunk
  <1> HIDE DEF s, r
  <1>11. CASE BadEvents(q) < MaxCorrupted
    <2>1. r = seekToChunk(s, cur) BY <1>9, <1>11
    <2>2. cur * ChunkSize <= Len(f) /\ cur * ChunkSize \in Nat BY <1>1, <1>2, <1>3, <1>4, Constants
    <2>3. Sound(f, r) /\ r.status = "reading" BY <1>4, <1>7, <1>8, <2>1, <2>2, SeekSound
    <2>4. Retries(f, q, r) BY <1>4, <1>7, <1>8, <1>11, <2>1, SeekFields DEF Retries, cur
    <2>5. ~(BadEvents(q) >= MaxCorrupted) BY <1>5, <1>11, Constants
    <2> QED BY <2>3, <2>4, <2>5 DEF r
  <1>12. CASE ~(BadEvents(q) < MaxCorrupted) /\ cur # Chunk(Len(f))
    <2>1. r = seekToChunk(s, cur + 1) BY <1>9, <1>10, <1>12
    <2>2. cur + 1 <= Chunk(Len(f)) /\ cur + 1 \in Nat BY <1>4, <1>12
    <2>3. (cur + 1) * ChunkSize <= Chunk(Len(f)) * ChunkSize BY <1>4, <2>2, Constants, Times
    <2>4. Chunk(Len(f)) * ChunkSize <= Len(f) BY <1>2, ChunkBounds
    <2>5. (cur + 1) * ChunkSize <= Len(f)
      <3>1. (cur + 1) * ChunkSize \in Nat /\ Chunk(Len(f)) * ChunkSize \in Nat
        BY <1>4, <2>2, Constants
      <3> QED BY <1>2, <2>3, <2>4, <3>1
    <2>6. Sound(f, r) /\ r.status = "reading" BY <1>7, <1>8, <2>1, <2>2, <2>5, SeekSound
    <2> QED BY <1>12, <2>6 DEF r, cur
  <1>13. CASE ~(BadEvents(q) < MaxCorrupted) /\ cur = Chunk(Len(f)) /\ t
    <2>1. r = [s EXCEPT !.status = "waiting"] BY <1>9, <1>10, <1>13
    <2>2. "waiting" \in Outcomes BY DEF Outcomes
    <2>3. /\ r \in ReadStates /\ SameBuffer(r, s) /\ r.ptr = s.ptr /\ SameSize(r, s)
          /\ r.status = "waiting"
      BY <1>7, <2>1, <2>2, StatusFields
    <2>4. Buffered(f, r) BY <1>8, <2>3 DEF Buffered, SameBuffer
    <2>5. Partial(r) BY <1>8, <2>3 DEF Partial, SameSize
    <2> QED BY <1>8, <1>13, <2>3, <2>4, <2>5 DEF Sound, r
  <1>14. CASE ~(BadEvents(q) < MaxCorrupted) /\ cur = Chunk(Len(f)) /\ ~t
    <2> DEFINE v == resetState(s, s.lastDispatch)
    <2>1. r = [v EXCEPT !.status = "thrown"] BY <1>9, <1>10, <1>14
    <2>2. s.lastDispatch = q.lastDispatch /\ s.offset = q.offset /\ s.buf = q.buf
      BY <1>8 DEF SameBuffer
    <2>3. /\ v \in ReadStates /\ v.offset = s.offset /\ v.buf = s.buf /\ v.ptr = s.ptr
          /\ v.lastDispatch = s.lastDispatch
          /\ v.sizeBuff = <<>> /\ v.size = 0 /\ v.event = <<>> /\ SameBad(v, s)
      BY <1>1, <1>7, <2>2, ResetFields
    <2> HIDE DEF v
    <2>4. "thrown" \in Outcomes BY DEF Outcomes
    <2>5. /\ r \in ReadStates /\ SameBuffer(r, v) /\ r.ptr = v.ptr /\ SameSize(r, v)
          /\ SameBad(r, v) /\ r.status = "thrown"
      BY <2>1, <2>3, <2>4, StatusFields
    <2>6. r.lastBad = cur /\ r.numBad = m BY <1>8, <2>3, <2>5 DEF SameBad
    <2>7. m = MaxCorrupted BY <1>5, <1>6, <1>14, Constants
    <2>8. Buffered(f, r) BY <1>8, <2>2, <2>3, <2>5 DEF Buffered, SameBuffer
    <2>9. Partial(r)
      <3>1. Len(<<>>) < 4 /\ ~(0 > 0) OBVIOUS
      <3> QED BY <2>3, <2>5, <3>1 DEF Partial, SameSize
    <2>10. Throws(f, q, r) BY <1>14, <2>5, <2>6, <2>7 DEF Throws, cur
    <2> QED BY <2>5, <2>8, <2>9, <2>10 DEF Sound, r
  <1> QED BY <1>11, <1>12, <1>13, <1>14

\* The four ways to go on after a round.
LEMMA SettledCases ==
  ASSUME NEW f, NEW q, NEW t,
         q.status \in {"reading", "eof", "event", "corrupt"}
  PROVE  /\ q.status = "reading" => Settled(f, q, t) = q
         /\ q.status = "event" => Settled(f, q, t) = Returned(q)
         /\ q.status = "corrupt" => Settled(f, q, t) = performRecovery(f, q, t)
         /\ q.status = "eof" => Settled(f, q, t) =
              [(IF t THEN q ELSE resetState(q, 0)) EXCEPT !.status = "reading"]
  BY DEF Settled

\* An event is returned.
LEMMA ReturnedFields ==
  ASSUME NEW f \in Seq(Byte), NEW q, Buffered(f, q)
  PROVE  LET r == Returned(q)
         IN /\ Buffered(f, r) /\ Partial(r)
            /\ r.offset = q.offset /\ r.buf = q.buf /\ r.ptr = q.ptr /\ r.lastDispatch = q.ptr
            /\ r.sizeBuff = <<>> /\ r.size = 0 /\ r.event = <<>>
            /\ SameBad(r, q) /\ r.status = "reading"
  <1> DEFINE v == resetState(q, q.ptr)
             r == Returned(q)
  <1>1. q \in ReadStates /\ q.ptr \in Nat BY DEF Buffered, ReadStates
  <1>2. /\ v \in ReadStates /\ v.offset = q.offset /\ v.buf = q.buf /\ v.ptr = q.ptr
        /\ v.lastDispatch = q.ptr
        /\ v.sizeBuff = <<>> /\ v.size = 0 /\ v.event = <<>> /\ SameBad(v, q)
    BY <1>1, ResetFields
  <1>3. r = [v EXCEPT !.status = "reading"] BY DEF Returned
  <1> HIDE DEF v, r
  <1>4. "reading" \in Outcomes BY DEF Outcomes
  <1>5. /\ r \in ReadStates /\ SameBuffer(r, v) /\ r.ptr = v.ptr /\ SameSize(r, v)
        /\ SameBad(r, v) /\ r.status = "reading"
    BY <1>2, <1>3, <1>4, StatusFields
  <1>6. q.ptr <= q.ptr BY <1>1
  <1>7. Buffered(f, r) BY <1>2, <1>5, <1>6 DEF Buffered, SameBuffer
  <1>8. Partial(r)
    <2>1. Len(<<>>) < 4 /\ ~(0 > 0) OBVIOUS
    <2> QED BY <1>2, <1>5, <2>1 DEF Partial, SameSize
  <1> QED BY <1>2, <1>5, <1>7, <1>8 DEF r, SameBuffer, SameSize, SameBad

\* The end of the file: a reader that tails it keeps what it has of an event.
LEMMA EofFields ==
  ASSUME NEW f \in Seq(Byte), NEW q, Buffered(f, q), Partial(q), q.ptr = 0, NEW t \in BOOLEAN
  PROVE  LET r == [(IF t THEN q ELSE resetState(q, 0)) EXCEPT !.status = "reading"]
         IN /\ Buffered(f, r) /\ Partial(r)
            /\ r.offset = q.offset /\ r.buf = q.buf /\ r.ptr = q.ptr /\ r.lastDispatch = 0
            /\ t => SameSize(r, q)
            /\ ~t => r.sizeBuff = <<>> /\ r.size = 0 /\ r.event = <<>>
            /\ SameBad(r, q) /\ r.status = "reading"
  <1> DEFINE v == IF t THEN q ELSE resetState(q, 0)
             r == [v EXCEPT !.status = "reading"]
  <1>1. q \in ReadStates /\ q.lastDispatch \in Nat /\ q.lastDispatch <= 0 BY DEF Buffered, ReadStates
  <1>2. q.lastDispatch = 0 BY <1>1
  <1>3. /\ v \in ReadStates /\ v.offset = q.offset /\ v.buf = q.buf /\ v.ptr = q.ptr
        /\ v.lastDispatch = 0 /\ SameBad(v, q)
        /\ t => SameSize(v, q)
        /\ ~t => v.sizeBuff = <<>> /\ v.size = 0 /\ v.event = <<>>
    <2>1. CASE t BY <1>1, <1>2, <2>1 DEF SameBad, SameSize
    <2>2. CASE ~t
      <3>1. v = resetState(q, 0) BY <2>2
      <3> HIDE DEF v
      <3> QED BY <1>1, <2>2, <3>1, ResetFields
    <2> QED BY <2>1, <2>2
  <1> HIDE DEF v
  <1>4. "reading" \in Outcomes BY DEF Outcomes
  <1>5. /\ r \in ReadStates /\ SameBuffer(r, v) /\ r.ptr = v.ptr /\ SameSize(r, v)
        /\ SameBad(r, v) /\ r.status = "reading"
    BY <1>3, <1>4, StatusFields
  <1> HIDE DEF r
  <1>6. Buffered(f, r)
    <2>1. r.lastDispatch <= r.ptr BY <1>3, <1>5 DEF SameBuffer
    <2> QED BY <1>3, <1>5, <2>1 DEF Buffered, SameBuffer
  <1>7. Partial(r)
    <2>1. CASE t BY <1>3, <1>5, <2>1 DEF Partial, SameSize
    <2>2. CASE ~t
      <3>1. Len(<<>>) < 4 /\ ~(0 > 0) OBVIOUS
      <3> QED BY <1>3, <1>5, <2>2, <3>1 DEF Partial, SameSize
    <2> QED BY <2>1, <2>2
  <1>8. t => SameSize(r, q) BY <1>3, <1>5 DEF SameSize
  <1>9. ~t => r.sizeBuff = <<>> /\ r.size = 0 /\ r.event = <<>> BY <1>3, <1>5 DEF SameSize
  <1>10. SameBad(r, q) BY <1>3, <1>5 DEF SameBad
  <1>11. r.offset = q.offset /\ r.buf = q.buf /\ r.ptr = q.ptr /\ r.lastDispatch = 0
    BY <1>3, <1>5 DEF SameBuffer
  <1> QED BY <1>5, <1>6, <1>7, <1>8, <1>9, <1>10, <1>11 DEF r, v

LEMMA SettledSound ==
  ASSUME NEW f \in Seq(Byte), NEW r, NEW q, Outcome(f, r, q), NEW t \in BOOLEAN
  PROVE  Sound(f, Settled(f, q, t)) /\ (~t => Settled(f, q, t).status # "waiting")
  <1>1. /\ Buffered(f, q) /\ q.status \in {"reading", "eof", "event", "corrupt"}
        /\ q.status # "event" => Partial(q)
        /\ q.status = "eof" => q.ptr = 0
        /\ q.status = "corrupt" => 0 < q.ptr
    BY DEF Outcome
  <1>2. CASE q.status = "reading"
    <2>1. Settled(f, q, t) = q BY <1>1, <1>2, SettledCases
    <2> QED BY <1>1, <1>2, <2>1 DEF Sound
  <1>3. CASE q.status = "event"
    <2> DEFINE v == Returned(q)
    <2>1. Settled(f, q, t) = v BY <1>1, <1>3, SettledCases
    <2>2. Buffered(f, v) /\ Partial(v) /\ v.status = "reading" BY <1>1, ReturnedFields
    <2> HIDE DEF v
    <2> QED BY <2>1, <2>2 DEF Sound
  <1>4. CASE q.status = "corrupt"
    <2>1. Settled(f, q, t) = performRecovery(f, q, t) BY <1>1, <1>4, SettledCases
    <2>2. Buffered(f, q) /\ Partial(q) /\ 0 < q.ptr BY <1>1, <1>4
    <2> QED BY <2>1, <2>2, RecoveryOutcome
  <1>5. CASE q.status = "eof"
    <2> DEFINE v == [(IF t THEN q ELSE resetState(q, 0)) EXCEPT !.status = "reading"]
    <2>1. Settled(f, q, t) = v BY <1>1, <1>5, SettledCases
    <2>2. Partial(q) /\ q.ptr = 0 BY <1>1, <1>5
    <2>3. Buffered(f, v) /\ Partial(v) /\ v.status = "reading" BY <1>1, <2>2, EofFields
    <2> HIDE DEF v
    <2> QED BY <2>1, <2>3 DEF Sound
  <1> QED BY <1>1, <1>2, <1>3, <1>4, <1>5

\* A reader is not disturbed when the file grows.
LEMMA SoundGrows ==
  ASSUME NEW f \in Seq(Byte), NEW g \in Seq(Byte), NEW r, Sound(f, r)
  PROVE  Sound(f \o g, r)
  <1>1. Buffered(f, r) BY DEF Sound
  <1>2. /\ r.offset \in Nat /\ Len(r.buf) \in Nat /\ r.offset + Len(r.buf) <= Len(f)
        /\ Len(f) \in Nat /\ Len(g) \in Nat /\ Len(f \o g) = Len(f) + Len(g)
    BY <1>1, EmptySeq, Joined DEF Buffered, ReadStates
  <1>3. \A k \in 1 .. Len(r.buf) : r.buf[k] = (f \o g)[r.offset + k]
    <2> TAKE k \in 1 .. Len(r.buf)
    <2>1. r.offset + k \in 1 .. Len(f) BY <1>2
    <2>2. (f \o g)[r.offset + k] = f[r.offset + k] BY <2>1, Joined
    <2> QED BY <1>1, <2>2 DEF Buffered
  <1>4. r.offset + Len(r.buf) <= Len(f \o g) BY <1>2
  <1>5. Buffered(f \o g, r) BY <1>1, <1>3, <1>4 DEF Buffered
  <1> QED BY <1>5 DEF Sound

\* A TFileTransport just opened, and one that goes to the end of the file.
LEMMA FreshSound ==
  ASSUME NEW f \in Seq(Byte)
  PROVE  Fresh \in ReadStates /\ Sound(f, Fresh) /\ Fresh.status = "reading"
  <1>1. <<>> \in Seq(Byte) /\ Len(<<>>) = 0 OBVIOUS
  <1>2. Fresh \in ReadStates BY <1>1 DEF Fresh, ReadStates, Outcomes
  <1>3. Len(f) \in Nat BY EmptySeq
  <1>4. Buffered(f, Fresh) BY <1>1, <1>2, <1>3 DEF Buffered, Fresh
  <1>5. Partial(Fresh) BY <1>1 DEF Partial, Fresh
  <1>6. Fresh.status = "reading" BY DEF Fresh
  <1> QED BY <1>2, <1>4, <1>5, <1>6 DEF Sound

LEMMA RestedSound ==
  ASSUME NEW f \in Seq(Byte), NEW r \in ReadStates
  PROVE  /\ Rested(r) \in ReadStates /\ Sound(f, Rested(r)) /\ Rested(r).status = "reading"
         /\ SameBad(Rested(r), r) /\ Rested(r).offset = 0
  <1> DEFINE q == Rested(r)
  <1>1. Fresh \in ReadStates /\ Sound(f, Fresh) /\ Fresh.status = "reading" BY FreshSound
  <1>2. r.lastBad \in Nat /\ r.numBad \in Nat BY DEF ReadStates
  <1>3. q = [Fresh EXCEPT !.lastBad = r.lastBad, !.numBad = r.numBad] BY DEF Rested
  <1> HIDE DEF q
  <1>4. q \in ReadStates BY <1>1, <1>2, <1>3 DEF ReadStates
  <1>5. /\ SameBuffer(q, Fresh) /\ q.ptr = Fresh.ptr /\ SameSize(q, Fresh) /\ SameBad(q, r)
        /\ q.status = Fresh.status
    BY <1>1, <1>3 DEF ReadStates, SameBuffer, SameSize, SameBad
  <1>6. Buffered(f, q) BY <1>1, <1>4, <1>5 DEF Buffered, Sound, SameBuffer
  <1>7. Partial(q) BY <1>1, <1>5 DEF Partial, Sound, SameSize
  <1>8. Fresh.offset = 0 BY DEF Fresh
  <1> QED BY <1>1, <1>4, <1>5, <1>6, <1>7, <1>8 DEF Sound, q, SameBuffer

LEMMA SeekToEndSound ==
  ASSUME NEW f \in Seq(Byte), NEW r, Sound(f, r), r.status = "reading"
  PROVE  LET q == seekToEnd(f, r)
         IN /\ Sound(f, q) /\ q.status = "reading" /\ SameBad(q, r)
            /\ Chunk(Len(f)) * ChunkSize <= q.offset
            /\ Len(f) > 0 => /\ q.offset = Chunk(Len(f)) * ChunkSize
                             /\ q.buf = <<>> /\ q.ptr = 0 /\ q.lastDispatch = 0
                             /\ q.sizeBuff = <<>> /\ q.size = 0 /\ q.event = <<>>
  <1> DEFINE q == seekToEnd(f, r)
  <1>1. Len(f) \in Nat /\ r \in ReadStates /\ r.offset \in Nat
    BY EmptySeq DEF Sound, Buffered, ReadStates
  <1>2. /\ Chunk(Len(f)) \in Nat /\ Chunk(Len(f)) * ChunkSize <= Len(f)
        /\ Chunk(Len(f)) * ChunkSize \in Nat
    <2>1. Chunk(Len(f)) \in Nat /\ Chunk(Len(f)) * ChunkSize <= Len(f) BY <1>1, ChunkBounds
    <2> QED BY <2>1, Constants, Times
  <1>3. CASE f = <<>>
    <2>1. q = r BY <1>3 DEF seekToEnd
    <2>2. Len(f) = 0 BY <1>3, EmptySeq
    <2>3. Chunk(Len(f)) * ChunkSize = 0 BY <1>2, <2>2
    <2> QED BY <1>1, <2>1, <2>2, <2>3 DEF SameBad
  <1>4. CASE f # <<>>
    <2>1. Len(f) > 0 BY <1>1, <1>4, EmptySeq
    <2>2. q = seekToChunk(r, Chunk(Len(f))) BY <1>4, <2>1, LastChunk DEF seekToEnd
    <2> HIDE DEF q
    <2>3. /\ q.offset = Chunk(Len(f)) * ChunkSize /\ q.buf = <<>> /\ q.ptr = 0 /\ q.lastDispatch = 0
          /\ q.sizeBuff = <<>> /\ q.size = 0 /\ q.event = <<>> /\ SameBad(q, r)
      BY <1>1, <1>2, <2>2, SeekFields
    <2>4. Sound(f, q) /\ q.status = "reading" BY <1>1, <1>2, <2>2, SeekSound
    <2>5. Chunk(Len(f)) * ChunkSize <= q.offset BY <1>2, <2>3
    <2> QED BY <2>3, <2>4, <2>5 DEF q
  <1> QED BY <1>3, <1>4

\* The end of seekToEnd: whatever it found, it is at the end of the file, so that
\* nothing is cut off.
LEMMA EndOfScan ==
  ASSUME NEW f \in Seq(Byte), NEW r, NEW q, Outcome(f, r, q), AtEnd(f, q)
  PROVE  LET t == Settled(f, q, FALSE)
         IN t \in ReadStates /\ t.offset \in Nat /\ StartsAt(t) = Len(f) /\ SameBad(t, r)
  <1> DEFINE t == Settled(f, q, FALSE)
  <1>1. /\ Buffered(f, q) /\ q.status \in {"reading", "eof", "event", "corrupt"} /\ SameBad(q, r)
        /\ q.status # "event" => Partial(q)
        /\ q.status = "eof" => q.offset = Len(f) /\ q.ptr = 0
    BY DEF Outcome
  <1>2. q.offset \in Nat /\ q.ptr \in Nat /\ Len(q.buf) \in Nat /\ Len(f) \in Nat
        /\ q.ptr <= Len(q.buf) /\ q.offset + Len(q.buf) <= Len(f)
    BY <1>1, EmptySeq DEF Buffered, ReadStates
  <1>3. CASE q.status = "event" /\ q.offset + q.ptr >= Len(f)
    <2>0. q.status = "event" BY <1>3
    <2>1. t = Returned(q) BY <2>0 DEF Settled
    <2> HIDE DEF t
    <2>2. Buffered(f, t) /\ t.offset = q.offset /\ t.lastDispatch = q.ptr /\ SameBad(t, q)
      BY <1>1, <2>1, ReturnedFields
    <2>3. t \in ReadStates BY <2>2 DEF Buffered
    <2>4. q.offset + q.ptr = Len(f) BY <1>2, <1>3
    <2> QED BY <1>1, <1>2, <2>2, <2>3, <2>4 DEF t, StartsAt, SameBad
  <1>4. CASE q.status = "eof"
    <2>1. t = [resetState(q, 0) EXCEPT !.status = "reading"] BY <1>4 DEF Settled
    <2>2. Partial(q) /\ q.ptr = 0 BY <1>1, <1>4
    <2> HIDE DEF t
    <2>3. Buffered(f, t) /\ t.offset = q.offset /\ t.lastDispatch = 0 /\ SameBad(t, q)
      BY <1>1, <2>1, <2>2, EofFields
    <2>4. t \in ReadStates BY <2>3 DEF Buffered
    <2>5. Len(f) + 0 = Len(f) BY <1>2
    <2> QED BY <1>1, <1>2, <1>4, <2>3, <2>4, <2>5 DEF t, StartsAt, SameBad
  <1> QED BY <1>3, <1>4 DEF AtEnd

LEMMA TruncateNothing ==
  ASSUME NEW f \in Seq(Byte)
  PROVE  ftruncate(f, Len(f)) = f
  <1> DEFINE g == [i \in 1 .. Len(f) |-> IF i <= Len(f) THEN f[i] ELSE 0]
  <1>1. \A i \in 1 .. Len(f) : g[i] = f[i] OBVIOUS
  <1>2. g \in [1 .. Len(f) -> Byte] BY ByteOf
  <1>3. g \in Seq(Byte) /\ Len(g) = Len(f) BY <1>2, EmptySeq, FunctionSeq
  <1> HIDE DEF g
  <1>4. g = f BY <1>1, <1>3
  <1> QED BY <1>4 DEF g, ftruncate

-----------------------------------------------------------------------------
(* What the writer appends *)

LEMMA EventFields ==
  ASSUME NEW n \in 1 .. MaxEvents, NEW l \in Lengths
  PROVE  /\ Event(n, l) \in Seq(Byte)
         /\ Len(Event(n, l)) = l + 4
         /\ getEventSize(Event(n, l)) = l
         /\ \A k \in 1 .. l : Event(n, l)[k + 4] = Data(n, l)[k]
  <1> DEFINE a == l % 256
             b == (l \div 256) % 256
             c == (l \div 65536) % 256
             d == (l \div 16777216) % 256
             h == <<a, b, c, d>>
  <1>1. l \in Nat /\ l <= 2147483647 BY LogAssumption, SMT
  <1>2. /\ a \in Byte /\ b \in Byte /\ c \in Byte /\ d \in Byte
        /\ l = a + 256 * b + 65536 * c + 16777216 * d
    BY <1>1, HeaderBytes
  <1>3. Event(n, l) = h \o Data(n, l) BY DEF Event
  <1> HIDE DEF a, b, c, d
  <1>4. h \in Seq(Byte) /\ Len(h) = 4 /\ h[1] = a /\ h[2] = b /\ h[3] = c /\ h[4] = d BY <1>2
  <1> HIDE DEF h
  <1>5. Data(n, l) \in [1 .. l -> Byte] BY DataAssumption
  <1>6. Data(n, l) \in Seq(Byte) /\ Len(Data(n, l)) = l BY <1>1, <1>5, FunctionSeq
  <1> DEFINE e == Event(n, l)
             v == Data(n, l)
  <1>7. v \in Seq(Byte) /\ Len(v) = l /\ e = h \o v BY <1>3, <1>6
  <1> HIDE DEF e, v
  <1>8. /\ e \in Seq(Byte) /\ Len(e) = 4 + l
        /\ \A k \in 1 .. 4 : e[k] = h[k]
        /\ \A k \in 1 .. l : e[4 + k] = v[k]
    <2>1. /\ e \in Seq(Byte) /\ Len(e) = Len(h) + Len(v)
          /\ \A k \in 1 .. Len(h) : e[k] = h[k]
          /\ \A k \in 1 .. Len(v) : e[Len(h) + k] = v[k]
      BY <1>4, <1>7, Joined
    <2> QED BY <1>4, <1>7, <2>1
  <1>9. e[1] = a /\ e[2] = b /\ e[3] = c /\ e[4] = d BY <1>4, <1>8
  <1>10. getEventSize(e) = a + 256 * b + 65536 * c + 16777216 * d BY <1>9, SMT DEF getEventSize
  <1>11. getEventSize(e) = l BY <1>2, <1>10
  <1>12. 4 + l = l + 4 /\ \A k \in 1 .. l : k + 4 = 4 + k BY <1>1
  <1> QED BY <1>8, <1>11, <1>12 DEF e, v

LEMMA PaddingFields ==
  ASSUME file \in Seq(Byte)
  PROVE  /\ Padding \in Seq(Byte)
         /\ Len(file) + Len(Padding) = (Chunk(Len(file)) + 1) * ChunkSize
         /\ Len(Padding) > 0
         /\ \A k \in 1 .. Len(Padding) : Padding[k] = 0
  <1> DEFINE c == Chunk(Len(file))
             o == (c + 1) * ChunkSize
             n == o - Len(file)
  <1>1. Len(file) \in Nat BY EmptySeq
  <1>2. c \in Nat /\ Len(file) < c * ChunkSize + ChunkSize BY <1>1, ChunkBounds
  <1>3. o = c * ChunkSize + ChunkSize /\ o \in Nat BY <1>2, Constants, Times
  <1>4. n \in Nat /\ n > 0 /\ Len(file) + n = o
    <2> HIDE DEF o, c
    <2> QED BY <1>1, <1>2, <1>3
  <1>5. Padding = [i \in 1 .. n |-> 0] BY DEF Padding, Zeros
  <1> HIDE DEF n
  <1>6. 0 \in Byte BY ByteFact
  <1>7. Padding \in [1 .. n -> Byte] /\ \A i \in 1 .. n : Padding[i] = 0 BY <1>5, <1>6
  <1>8. Padding \in Seq(Byte) /\ Len(Padding) = n BY <1>4, <1>7, FunctionSeq
  <1> QED BY <1>4, <1>7, <1>8

\* The chunks of n bytes at the end of the file.
LEMMA ReachBound ==
  ASSUME file \in Seq(Byte), NEW n \in Nat, NEW m \in Nat, n <= m
  PROVE  Reach(n) \subseteq 0 .. Chunk(Len(file) + m) /\ (n > 0 => Reach(n) # {})
  <1>1. Len(file) \in Nat BY EmptySeq
  <1>2. ASSUME NEW i \in 0 .. (n - 1)
        PROVE  Chunk(Len(file) + i) \in 0 .. Chunk(Len(file) + m)
    <2>1. Len(file) + i \in Nat /\ Len(file) + m \in Nat /\ Len(file) + i <= Len(file) + m
      BY <1>1
    <2>2. Chunk(Len(file) + i) \in Nat /\ Chunk(Len(file) + m) \in Nat BY <2>1, ChunkBounds
    <2>3. Chunk(Len(file) + i) <= Chunk(Len(file) + m) BY <2>1, ChunkMonotone
    <2> QED BY <2>2, <2>3
  <1>3. Reach(n) \subseteq 0 .. Chunk(Len(file) + m) BY <1>2 DEF Reach
  <1>4. n > 0 => Chunk(Len(file) + 0) \in Reach(n)
    <2>1. n > 0 => 0 \in 0 .. (n - 1) OBVIOUS
    <2> QED BY <2>1 DEF Reach
  <1> QED BY <1>3, <1>4

-----------------------------------------------------------------------------
(* Types *)

LEMMA TypeInit == Init => TypeInv
  <1> SUFFICES ASSUME Init PROVE TypeInv OBVIOUS
  <1>1. file = <<>> /\ file \in Seq(Byte) /\ Len(file) = 0 BY DEF Init
  <1>2. Sound(file, Fresh) BY <1>1, FreshSound
  <1>3. delivered \in Seq(Seq(Byte)) /\ written \in Seq(Entries) BY DEF Init
  <1>4. taken \in 0 .. MaxEvents BY Constants DEF Init
  <1>5. damaged \subseteq 0 .. Chunk(Len(file)) BY DEF Init
  <1> QED BY <1>1, <1>2, <1>3, <1>4, <1>5 DEF Init, TypeInv

\* The variables of the reader and of the writer when the other takes a step.
LEMMA ReaderRound ==
  ASSUME TypeInv, reader.status = "reading"
  PROVE  LET q == Round(file, reader)
         IN Outcome(file, reader, q) /\ Sound(file, Settled(file, q, tail))
  <1>1. file \in Seq(Byte) /\ tail \in BOOLEAN /\ Sound(file, reader) BY DEF TypeInv
  <1>2. Outcome(file, reader, Round(file, reader)) BY <1>1, RoundOutcome
  <1> QED BY <1>1, <1>2, SettledSound

LEMMA ScanRound ==
  ASSUME TypeInv, scan.status = "reading"
  PROVE  LET q == Round(file, scan)
         IN /\ Outcome(file, scan, q)
            /\ Sound(file, Settled(file, q, FALSE))
            /\ Settled(file, q, FALSE).status # "waiting"
  <1>1. file \in Seq(Byte) /\ Sound(file, scan) BY DEF TypeInv
  <1>2. Outcome(file, scan, Round(file, scan)) BY <1>1, RoundOutcome
  <1> QED BY <1>1, <1>2, SettledSound

\* The writer's last round leaves the file as it is.
LEMMA ScanEndsAtEnd ==
  ASSUME TypeInv, scan.status = "reading", ScanEnds
  PROVE  /\ file' = file
         /\ offset_' \in Nat
         /\ wstate = "starting" => offset_' = Len(file)
         /\ Sound(file, scan') /\ scan'.status = "reading"
  <1> DEFINE q == Round(file, scan)
             r == Settled(file, q, FALSE)
  <1>1. file \in Seq(Byte) /\ Len(file) \in Nat BY EmptySeq DEF TypeInv
  <1>2. Outcome(file, scan, q) BY ScanRound
  <1>3. /\ AtEnd(file, q)
        /\ offset_' = IF wstate = "starting" THEN StartsAt(r) ELSE r.offset
        /\ file' = IF wstate = "starting" THEN ftruncate(file, StartsAt(r)) ELSE file
        /\ scan' = Rested(r)
    BY DEF ScanEnds
  <1> HIDE DEF q
  <1>4. r \in ReadStates /\ r.offset \in Nat /\ StartsAt(r) = Len(file) BY <1>1, <1>2, <1>3, EndOfScan
  <1> HIDE DEF r
  <1>5. file' = file BY <1>1, <1>3, <1>4, TruncateNothing
  <1>6. Sound(file, scan') /\ scan'.status = "reading" BY <1>1, <1>3, <1>4, RestedSound
  <1> QED BY <1>1, <1>3, <1>4, <1>5, <1>6

LEMMA TypeReader ==
  ASSUME TypeInv, Reader
  PROVE  TypeInv'
  <1> USE DEF TypeInv
  <1>1. file \in Seq(Byte) OBVIOUS
  <1>2. UNCHANGED <<file, wstate, offset_, scan, inHand, stale, tail, written, damaged, taken,
                    crashes, errors>>
    BY DEF Reader, ReaderReads, ReaderResumes, log, process, counts
  <1>3. Sound(file, reader') /\ delivered' \in Seq(Seq(Byte))
    <2>1. CASE ReaderReads
      <3> DEFINE q == Round(file, reader)
      <3>1. /\ reader.status = "reading"
            /\ reader' = Settled(file, q, tail)
            /\ delivered' = IF q.status = "event" THEN Append(delivered, q.event) ELSE delivered
        BY <2>1 DEF ReaderReads
      <3>2. Outcome(file, reader, q) /\ Sound(file, Settled(file, q, tail)) BY <3>1, ReaderRound
      <3>3. q.event \in Seq(Byte) BY <3>2 DEF Outcome, Buffered, ReadStates
      <3> HIDE DEF q
      <3>4. \A e \in Seq(Byte) : Append(delivered, e) \in Seq(Seq(Byte)) OBVIOUS
      <3>5. delivered' \in Seq(Seq(Byte)) BY <3>1, <3>3, <3>4
      <3> QED BY <3>1, <3>2, <3>5
    <2>2. CASE ReaderResumes
      <3> DEFINE r == [reader EXCEPT !.status = "reading"]
                 c == Chunk(reader.offset)
      <3>1. /\ reader.status = "waiting" /\ c # getNumChunks(file) - 1
            /\ reader' = seekToChunk(r, c + 1) /\ delivered' = delivered
        BY <2>2 DEF ReaderResumes
      <3>2. Buffered(file, reader) /\ 0 < reader.ptr BY <3>1 DEF Sound
      <3>3. /\ reader \in ReadStates /\ reader.offset \in Nat /\ reader.ptr \in Nat
            /\ Len(reader.buf) \in Nat /\ reader.ptr <= Len(reader.buf)
            /\ reader.offset + Len(reader.buf) <= Len(file) /\ Len(file) \in Nat
        BY <3>2, EmptySeq DEF Buffered, ReadStates
      <3>4. Len(file) > 0 /\ reader.offset <= Len(file) BY <3>2, <3>3
      <3>5. c # Chunk(Len(file)) BY <3>1, <3>4, LastChunk
      <3>6. c \in Nat /\ Chunk(Len(file)) \in Nat /\ c <= Chunk(Len(file))
            /\ Chunk(Len(file)) * ChunkSize <= Len(file)
        BY <3>3, <3>4, ChunkBounds, ChunkMonotone
      <3> HIDE DEF c
      <3>7. c + 1 \in Nat /\ c + 1 <= Chunk(Len(file)) BY <3>5, <3>6
      <3>8. (c + 1) * ChunkSize <= Chunk(Len(file)) * ChunkSize BY <3>6, <3>7, Constants, Times
      <3>9. (c + 1) * ChunkSize \in Nat /\ Chunk(Len(file)) * ChunkSize \in Nat
        BY <3>6, <3>7, Constants, Times
      <3>10. (c + 1) * ChunkSize <= Len(file) BY <3>3, <3>6, <3>8, <3>9
      <3>11. r \in ReadStates /\ r.status = "reading"
        <4>1. "reading" \in Outcomes BY DEF Outcomes
        <4> QED BY <3>3, <4>1, StatusFields
      <3> HIDE DEF r
      <3>12. Sound(file, reader') BY <3>1, <3>7, <3>10, <3>11, SeekSound
      <3> QED BY <3>1, <3>12
    <2> QED BY <2>1, <2>2 DEF Reader
  <1> QED BY <1>2, <1>3

\* The file with g at its end.
LEMMA FileGrows ==
  ASSUME TypeInv, NEW g \in Seq(Byte), file' = file \o g
  PROVE  /\ file' \in Seq(Byte) /\ Len(file') = Len(file) + Len(g) /\ Len(file') \in Nat
         /\ Sound(file', reader) /\ \A r : Sound(file, r) => Sound(file', r)
         /\ damaged \subseteq 0 .. Chunk(Len(file'))
         /\ \A n \in Nat : n <= Len(g) => Reach(n) \subseteq 0 .. Chunk(Len(file'))
  <1>1. file \in Seq(Byte) /\ Sound(file, reader) /\ damaged \subseteq 0 .. Chunk(Len(file))
    BY DEF TypeInv
  <1> DEFINE h == file'
  <1>2. h = file \o g OBVIOUS
  <1> HIDE DEF h
  <1>3. Len(file) \in Nat /\ Len(g) \in Nat BY <1>1, EmptySeq
  <1>4. h \in Seq(Byte) /\ Len(h) = Len(file) + Len(g) BY <1>1, <1>2, Joined
  <1>5. Len(h) \in Nat /\ Len(file) <= Len(h) BY <1>3, <1>4
  <1>6. \A r : Sound(file, r) => Sound(h, r) BY <1>1, <1>2, SoundGrows
  <1>7. Chunk(Len(file)) <= Chunk(Len(h)) /\ Chunk(Len(file)) \in Nat /\ Chunk(Len(h)) \in Nat
    BY <1>3, <1>5, ChunkMonotone, ChunkBounds
  <1>8. damaged \subseteq 0 .. Chunk(Len(h)) BY <1>1, <1>7
  <1>9. \A n \in Nat : n <= Len(g) => Reach(n) \subseteq 0 .. Chunk(Len(h))
    BY <1>1, <1>3, <1>4, ReachBound
  <1> QED BY <1>1, <1>4, <1>5, <1>6, <1>8, <1>9 DEF h

\* What a crash leaves of a write.
LEMMA CrashBytes ==
  ASSUME TypeInv, WriterInv, NEW n \in 0 .. (ChunkSize - 1), Crash(n)
  PROVE  \E g \in Seq(Byte) : Len(g) = n /\ file' = file \o g
  <1> DEFINE g == SubSeq(IF wstate = "padding" THEN Padding ELSE Event(taken, inHand), 1, n)
  <1>1. /\ file \in Seq(Byte)
        /\ wstate \in {"padding", "appending"} => inHand \in Lengths /\ taken \in 1 .. MaxEvents
    BY DEF TypeInv, WriterInv
  <1>2. /\ n > 0 => \/ wstate = "padding" /\ n < Len(Padding)
                    \/ wstate = "appending" /\ n < inHand + 4
        /\ file' = file \o g
    BY DEF Crash
  <1>3. n \in Nat BY Constants
  <1>4. g \in Seq(Byte) /\ Len(g) = n
    <2>1. CASE n = 0
      <3>1. g = <<>> BY <2>1
      <3> QED BY <2>1, <3>1
    <2>2. CASE n > 0 /\ wstate = "padding"
      <3>1. n < Len(Padding) /\ Padding \in Seq(Byte) BY <1>1, <1>2, <2>2, PaddingFields
      <3>2. g = SubSeq(Padding, 0 + 1, 0 + n) BY <1>3, <2>2
      <3>3. 0 + n <= Len(Padding) BY <1>3, <3>1, EmptySeq
      <3> QED BY <1>3, <3>1, <3>2, <3>3, Slice
    <2>3. CASE n > 0 /\ wstate = "appending"
      <3> DEFINE e == Event(taken, inHand)
      <3>1. e \in Seq(Byte) /\ Len(e) = inHand + 4 BY <1>1, <2>3, EventFields
      <3>2. g = SubSeq(e, 0 + 1, 0 + n) BY <1>3, <2>3
      <3>3. n < inHand + 4 /\ inHand \in Nat BY <1>1, <1>2, <2>3, Constants
      <3> HIDE DEF e
      <3>4. 0 + n <= Len(e) BY <1>3, <3>1, <3>3
      <3> QED BY <1>3, <3>1, <3>2, <3>4, Slice
    <2> QED BY <1>2, <1>3, <2>1, <2>2, <2>3
  <1> QED BY <1>2, <1>4

LEMMA TypeWriter ==
  ASSUME TypeInv, WriterInv, Writer
  PROVE  TypeInv'
  <1>1. /\ file \in Seq(Byte) /\ Len(file) \in Nat /\ Sound(file, scan) /\ offset_ \in Nat
        /\ scan.status = "reading" /\ scan \in ReadStates
        /\ written \in Seq(Entries) /\ taken \in 0 .. MaxEvents /\ inHand \in Lengths \cup {0}
        /\ crashes \in Nat /\ errors \in Nat
        /\ wstate \in {"padding", "appending"} => inHand \in Lengths /\ taken \in 1 .. MaxEvents
    BY EmptySeq DEF TypeInv, WriterInv, Sound, Buffered
  <1>2. ASSUME WriterStarts PROVE TypeInv'
    <2>1. Sound(file, Fresh) /\ Fresh.status = "reading" BY <1>1, FreshSound
    <2>2. Sound(file, seekToEnd(file, Fresh)) BY <1>1, <2>1, SeekToEndSound
    <2> QED BY <1>2, <2>2 DEF WriterStarts, TypeInv, log, input, counts
  <1>3. ASSUME WriterRecovers PROVE TypeInv'
    <2>1. Sound(file, seekToEnd(file, scan)) BY <1>1, SeekToEndSound
    <2> QED BY <1>3, <2>1 DEF WriterRecovers, TypeInv, log, input, counts
  <1>4. ASSUME WriterScans PROVE TypeInv'
    <2>1. wstate \in {"starting", "reopening"} /\ (ScanGoesOn \/ ScanEnds)
          /\ UNCHANGED <<inHand, written, damaged, tail, reader, delivered, taken, crashes, errors>>
      BY <1>4 DEF WriterScans, input, counts
    <2>2. CASE ScanGoesOn
      <3> DEFINE q == Round(file, scan)
                 r == Settled(file, q, FALSE)
      <3>1. Sound(file, r) BY <1>1, ScanRound
      <3>2. /\ wstate' = IF r.status = "thrown" THEN "error" ELSE wstate
            /\ scan' = IF r.status = "thrown" THEN Rested(r) ELSE r
            /\ UNCHANGED <<file, offset_, stale>>
        BY <2>2 DEF ScanGoesOn
      <3> HIDE DEF r
      <3>3. r \in ReadStates BY <3>1 DEF Sound, Buffered
      <3>4. Sound(file, scan') BY <1>1, <3>1, <3>2, <3>3, RestedSound
      <3> QED BY <2>1, <3>2, <3>4 DEF TypeInv
    <2>3. CASE ScanEnds
      <3>1. file' = file /\ offset_' \in Nat /\ Sound(file, scan') BY <1>1, <2>3, ScanEndsAtEnd
      <3>2. stale' = (wstate = "reopening") /\ wstate' = "up" BY <2>3 DEF ScanEnds
      <3>3. stale' \in BOOLEAN BY <3>2
      <3> QED BY <2>1, <3>1, <3>2, <3>3 DEF TypeInv
    <2> QED BY <2>1, <2>2, <2>3
  <1>5. ASSUME NEW l \in Lengths, WriterTakes(l) PROVE TypeInv'
    <2>1. taken' = taken + 1 /\ taken < MaxEvents BY <1>5 DEF WriterTakes
    <2>2. taken' \in 0 .. MaxEvents BY <1>1, <2>1, Constants
    <2>3. wstate' \in {"padding", "appending"} BY <1>5 DEF WriterTakes
    <2> QED BY <1>5, <2>2, <2>3 DEF WriterTakes, TypeInv, log, input
  <1>6. ASSUME WriterPads PROVE TypeInv'
    <2>1. file' = file \o Padding BY <1>6 DEF WriterPads
    <2>2. Padding \in Seq(Byte) BY <1>1, PaddingFields
    <2>3. /\ file' \in Seq(Byte) /\ Len(file') \in Nat /\ Sound(file', reader) /\ Sound(file', scan)
          /\ damaged \subseteq 0 .. Chunk(Len(file'))
      BY <1>1, <2>1, <2>2, FileGrows
    <2> QED BY <1>6, <2>3 DEF WriterPads, TypeInv, input, counts
  <1>7. ASSUME WriterAppends PROVE TypeInv'
    <2>1. /\ wstate = "appending" /\ file' = file \o Event(taken, inHand)
          /\ offset_' = offset_ + inHand + 4
          /\ written' = Append(written, [id |-> taken, at |-> Len(file), len |-> inHand])
          /\ damaged' \in {damaged, damaged \cup Reach(inHand + 4)}
      BY <1>7 DEF WriterAppends
    <2>2. inHand \in Lengths /\ taken \in 1 .. MaxEvents /\ inHand \in Nat BY <1>1, <2>1, Constants
    <2>3. Event(taken, inHand) \in Seq(Byte) /\ Len(Event(taken, inHand)) = inHand + 4
      BY <2>2, EventFields
    <2>4. /\ file' \in Seq(Byte) /\ Sound(file', reader) /\ Sound(file', scan)
          /\ damaged \subseteq 0 .. Chunk(Len(file'))
          /\ Reach(inHand + 4) \subseteq 0 .. Chunk(Len(file'))
      <3>1. inHand + 4 \in Nat /\ inHand + 4 <= inHand + 4 BY <2>2
      <3> QED BY <1>1, <2>1, <2>3, <3>1, FileGrows
    <2>5. offset_' \in Nat BY <1>1, <2>1, <2>2
    <2>6. [id |-> taken, at |-> Len(file), len |-> inHand] \in Entries BY <1>1, <2>2 DEF Entries
    <2>7. \A e \in Entries : Append(written, e) \in Seq(Entries) BY <1>1
    <2>8. written' \in Seq(Entries) BY <2>1, <2>6, <2>7
    <2>9. damaged' \subseteq 0 .. Chunk(Len(file')) BY <2>1, <2>4
    <2> QED BY <1>7, <2>4, <2>5, <2>8, <2>9 DEF WriterAppends, TypeInv, input, counts
  <1>8. ASSUME WriteFails PROVE TypeInv'
    <2>1. offset_' \in Nat /\ errors' \in Nat BY <1>1, <1>8 DEF WriteFails
    <2> QED BY <1>8, <2>1 DEF WriteFails, TypeInv, log, input
  <1>9. ASSUME NEW n \in 0 .. (ChunkSize - 1), Crash(n) PROVE TypeInv'
    <2>1. crashes' = crashes + 1 /\ scan' = Fresh /\ damaged' = damaged \cup Reach(n)
      BY <1>9 DEF Crash
    <2>2. n \in Nat BY Constants
    <2>3. PICK g \in Seq(Byte) : Len(g) = n /\ file' = file \o g BY <1>9, CrashBytes
    <2>4. /\ file' \in Seq(Byte) /\ Sound(file', reader)
          /\ damaged \subseteq 0 .. Chunk(Len(file')) /\ Reach(n) \subseteq 0 .. Chunk(Len(file'))
      <3>1. n <= Len(g) BY <2>2, <2>3
      <3> QED BY <2>1, <2>2, <2>3, <3>1, FileGrows
    <2>5. Sound(file', scan') BY <2>1, <2>4, FreshSound
    <2>6. damaged' \subseteq 0 .. Chunk(Len(file')) BY <2>1, <2>4
    <2>7. crashes' \in Nat BY <1>1, <2>1
    <2> QED BY <1>9, <2>4, <2>5, <2>6, <2>7 DEF Crash, TypeInv, input
  <1> QED BY <1>2, <1>3, <1>4, <1>5, <1>6, <1>7, <1>8, <1>9 DEF Writer

LEMMA TypeNext ==
  ASSUME TypeInv, WriterInv, [Next]_vars
  PROVE  TypeInv'
  <1>1. CASE Reader BY <1>1, TypeReader
  <1>2. CASE Writer BY <1>2, TypeWriter
  <1>3. CASE UNCHANGED vars BY <1>3 DEF vars, TypeInv
  <1> QED BY <1>1, <1>2, <1>3 DEF Next

-----------------------------------------------------------------------------
(* A start that fails *)

\* Two states of a reader that agree in all but what they know of bad chunks.
Same(q, r) == SameBuffer(q, r) /\ q.ptr = r.ptr /\ SameSize(q, r) /\ q.status = r.status

\* They go on in the same way, until a bad event is met.
LEMMA SameRound ==
  ASSUME NEW f \in Seq(Byte), NEW q \in ReadStates, NEW r \in ReadStates, Same(q, r)
  PROVE  Same(Round(f, q), Round(f, r))
  <1> USE DEF Same, SameBuffer, SameSize
  <1>1. /\ q.offset = r.offset /\ q.buf = r.buf /\ q.lastDispatch = r.lastDispatch
        /\ q.ptr = r.ptr /\ q.sizeBuff = r.sizeBuff /\ q.size = r.size /\ q.event = r.event
        /\ q.status = r.status
    OBVIOUS
  <1>2. CASE r.ptr = Len(r.buf)
    <2> DEFINE p == r.offset + Len(r.buf)
               b == SubSeq(f, p + 1, Min({p + ReadBuffSize, Len(f)}))
               s == IF b = <<>> THEN "eof" ELSE r.status
    <2>1. /\ Round(f, q) = [q EXCEPT !.offset = p, !.buf = b, !.ptr = 0, !.lastDispatch = 0,
                                     !.status = s]
          /\ Round(f, r) = [r EXCEPT !.offset = p, !.buf = b, !.ptr = 0, !.lastDispatch = 0,
                                     !.status = s]
      BY <1>1, <1>2 DEF Round, Refill, ReadStates
    <2> HIDE DEF p, b, s
    <2> QED BY <1>1, <2>1 DEF ReadStates
  <1>3. CASE r.ptr # Len(r.buf) /\ r.size = 0
    <2> DEFINE b == Append(r.sizeBuff, r.buf[r.ptr + 1])
               n == getEventSize(b)
               x == r.ptr + 1
               s == IF isEventCorrupted(r.offset + x, n) THEN "corrupt" ELSE r.status
    <2>1. Round(f, q) = SizeStep(q) /\ Round(f, r) = SizeStep(r) BY <1>1, <1>3 DEF Round
    <2>2. Skips(q) = Skips(r) BY <1>1 DEF Skips
    <2>3. CASE Skips(r)
      <3>1. SizeStep(q) = [q EXCEPT !.ptr = x] /\ SizeStep(r) = [r EXCEPT !.ptr = x]
        BY <1>1, <2>2, <2>3 DEF SizeStep, ReadStates
      <3> HIDE DEF x
      <3> QED BY <1>1, <2>1, <3>1 DEF ReadStates
    <2>4. CASE ~Skips(r)
      <3> DEFINE v == [q EXCEPT !.ptr = x, !.sizeBuff = b]
                 w == [r EXCEPT !.ptr = x, !.sizeBuff = b]
      <3>1. /\ SizeStep(q) = IF Len(b) < 4 THEN v
                             ELSE IF n = 0 THEN resetState(v, v.lastDispatch)
                             ELSE [v EXCEPT !.size = n,
                                     !.status = IF isEventCorrupted(v.offset + v.ptr, n)
                                                THEN "corrupt" ELSE @]
            /\ SizeStep(r) = IF Len(b) < 4 THEN w
                             ELSE IF n = 0 THEN resetState(w, w.lastDispatch)
                             ELSE [w EXCEPT !.size = n,
                                     !.status = IF isEventCorrupted(w.offset + w.ptr, n)
                                                THEN "corrupt" ELSE @]
        <4>1. /\ v = [q EXCEPT !.ptr = @ + 1, !.sizeBuff = b]
              /\ w = [r EXCEPT !.ptr = @ + 1, !.sizeBuff = b]
              /\ b = Append(q.sizeBuff, q.buf[q.ptr + 1])
          BY <1>1 DEF ReadStates
        <4> HIDE DEF v, w
        <4> QED BY <2>2, <2>4, <4>1 DEF SizeStep
      <3>2. Same(v, w) /\ w.status = r.status /\ w.offset = r.offset /\ w.ptr = x
        <4> HIDE DEF b, x
        <4> QED BY <1>1 DEF ReadStates
      <3>3. DOMAIN v = DOMAIN q /\ DOMAIN w = DOMAIN r OBVIOUS
      <3> HIDE DEF v, w
      <3>4. CASE Len(b) < 4 BY <2>1, <3>1, <3>2, <3>4
      <3>5. CASE ~(Len(b) < 4) /\ n = 0
        <4>1. SizeStep(q) = resetState(v, v.lastDispatch) /\ SizeStep(r) = resetState(w, w.lastDispatch)
          BY <3>1, <3>5
        <4>2. Same(resetState(v, v.lastDispatch), resetState(w, w.lastDispatch))
          BY <3>2, <3>3 DEF resetState, ReadStates
        <4> QED BY <2>1, <4>1, <4>2
      <3>6. CASE ~(Len(b) < 4) /\ n # 0
        <4>1. /\ SizeStep(q) = [v EXCEPT !.size = n, !.status = s]
              /\ SizeStep(r) = [w EXCEPT !.size = n, !.status = s]
          BY <3>1, <3>2, <3>3, <3>6 DEF ReadStates
        <4> HIDE DEF n, s
        <4>2. Same(SizeStep(q), SizeStep(r)) BY <3>2, <3>3, <4>1 DEF ReadStates
        <4> QED BY <2>1, <4>2
      <3> QED BY <3>4, <3>5, <3>6
    <2> QED BY <2>3, <2>4
  <1>4. CASE r.ptr # Len(r.buf) /\ r.size # 0
    <2> DEFINE n == Min({Len(r.buf) - r.ptr, r.size - Len(r.event)})
               x == r.ptr + n
               e == r.event \o SubSeq(r.buf, r.ptr + 1, r.ptr + n)
               s == IF Len(e) = r.size THEN "event" ELSE r.status
    <2>1. Round(f, q) = DataStep(q) /\ Round(f, r) = DataStep(r) BY <1>1, <1>4 DEF Round
    <2>2. /\ DataStep(q) = [q EXCEPT !.ptr = x, !.event = e, !.status = s]
          /\ DataStep(r) = [r EXCEPT !.ptr = x, !.event = e, !.status = s]
      BY <1>1 DEF DataStep, ReadStates
    <2> HIDE DEF n, x, e, s
    <2> QED BY <1>1, <2>1, <2>2 DEF ReadStates
  <1> QED BY <1>2, <1>3, <1>4

LEMMA SameSettled ==
  ASSUME NEW f \in Seq(Byte), NEW q \in ReadStates, NEW r \in ReadStates, Same(q, r),
         q.status \in {"reading", "event"}
  PROVE  Same(Settled(f, q, FALSE), Settled(f, r, FALSE))
  <1> USE DEF Same, SameBuffer, SameSize
  <1>1. CASE q.status = "reading"
    <2>1. Settled(f, q, FALSE) = q /\ Settled(f, r, FALSE) = r BY <1>1 DEF Settled
    <2> QED BY <2>1
  <1>2. CASE q.status = "event"
    <2>1. Settled(f, q, FALSE) = Returned(q) /\ Settled(f, r, FALSE) = Returned(r)
      BY <1>2 DEF Settled
    <2>2. Same(Returned(q), Returned(r)) BY DEF Returned, resetState, ReadStates
    <2> QED BY <2>1, <2>2
  <1> QED BY <1>1, <1>2

\* The states seekToEnd goes through in the file f before its end or a bad event.
Path(f, n, tr) ==
  /\ n \in Nat
  /\ \A i \in 0 .. n : Sound(f, tr[i]) /\ tr[i].status = "reading"
  /\ Same(tr[0], seekToEnd(f, Fresh))
  /\ \A i \in 0 .. (n - 1) :
       /\ Round(f, tr[i]).status \in {"reading", "event"}
       /\ ~AtEnd(f, Round(f, tr[i]))
       /\ Same(tr[i + 1], Settled(f, Round(f, tr[i]), FALSE))

\* The path of seekToEnd leads to a bad event.
Doomed(f, n, tr) == Path(f, n, tr) /\ Round(f, tr[n]).status = "corrupt"

\* The number of bad events in the last chunk is at its limit.
Exhausted(f, r) == r.lastBad = Chunk(Len(f)) /\ r.numBad = MaxCorrupted

\* Without a failed write, only a bad event brings the writer into error recovery, and
\* it meets that event each time it opens the file again.
DoomInv ==
  errors = 0 =>
    /\ wstate = "starting" => \E n, tr : Path(file, n, tr) /\ Same(scan, tr[n])
    /\ wstate = "error" => Exhausted(file, scan) /\ \E n, tr : Doomed(file, n, tr)
    /\ wstate = "reopening" =>
         /\ Exhausted(file, scan)
         /\ \E n, tr : Doomed(file, n, tr) /\ \E j \in 0 .. n : Same(scan, tr[j])

\* A round of seekToEnd that is neither its last nor finds a bad event.
LEMMA PathGoesOn ==
  ASSUME NEW f \in Seq(Byte), NEW n, NEW tr, Path(f, n, tr), NEW r, Same(r, tr[n]), Sound(f, r),
         r.status = "reading", Round(f, r).status \in {"reading", "event"}, ~AtEnd(f, Round(f, r))
  PROVE  LET t == Settled(f, Round(f, r), FALSE)
         IN \E m, tq : Path(f, m, tq) /\ Same(t, tq[m])
  <1> DEFINE q == Round(f, r)
             t == Settled(f, q, FALSE)
             tq == [i \in 0 .. (n + 1) |-> IF i <= n THEN tr[i] ELSE t]
  <1>1. n \in Nat /\ n \in 0 .. n BY DEF Path
  <1>2. Sound(f, tr[n]) /\ tr[n].status = "reading" BY <1>1 DEF Path
  <1>3. r \in ReadStates /\ tr[n] \in ReadStates BY <1>2 DEF Sound, Buffered
  <1>4. Same(q, Round(f, tr[n])) BY <1>3, SameRound
  <1>5. Outcome(f, r, q) /\ Outcome(f, tr[n], Round(f, tr[n])) BY <1>2, RoundOutcome
  <1>6. q \in ReadStates /\ Round(f, tr[n]) \in ReadStates BY <1>5 DEF Outcome, Buffered
  <1>7. Same(t, Settled(f, Round(f, tr[n]), FALSE)) BY <1>4, <1>6, SameSettled
  <1>8. Round(f, tr[n]).status \in {"reading", "event"} /\ ~AtEnd(f, Round(f, tr[n]))
    BY <1>4 DEF Same, SameBuffer, AtEnd
  <1>9. Sound(f, t) /\ t.status = "reading"
    <2>1. Sound(f, t) BY <1>5, SettledSound
    <2>2. CASE q.status = "reading" BY <2>1, <2>2 DEF Settled
    <2>3. CASE q.status = "event"
      <3>1. t = Returned(q) BY <2>3 DEF Settled
      <3>2. Buffered(f, q) BY <1>5 DEF Outcome
      <3> QED BY <2>1, <3>1, <3>2, ReturnedFields
    <2> QED BY <2>2, <2>3
  <1> HIDE DEF t, q
  <1>10. n + 1 \in Nat /\ n + 1 \in 0 .. (n + 1) /\ 0 \in 0 .. (n + 1) /\ ~(n + 1 <= n) /\ 0 <= n
    BY <1>1
  <1>11. tq[n + 1] = t /\ tq[0] = tr[0] BY <1>10
  <1>12. \A i \in 0 .. n : tq[i] = tr[i]
    <2> TAKE i \in 0 .. n
    <2>1. i \in 0 .. (n + 1) /\ i <= n BY <1>1
    <2> QED BY <2>1
  <1> HIDE DEF tq
  <1>13. ASSUME NEW i \in 0 .. (n + 1) PROVE Sound(f, tq[i]) /\ tq[i].status = "reading"
    <2>1. CASE i \in 0 .. n BY <1>12, <2>1 DEF Path
    <2>2. CASE i = n + 1 BY <1>9, <1>11, <2>2
    <2> QED BY <1>1, <2>1, <2>2
  <1>14. ASSUME NEW i \in 0 .. ((n + 1) - 1)
         PROVE  /\ Round(f, tq[i]).status \in {"reading", "event"}
                /\ ~AtEnd(f, Round(f, tq[i]))
                /\ Same(tq[i + 1], Settled(f, Round(f, tq[i]), FALSE))
    <2>1. i \in 0 .. n BY <1>1
    <2>2. CASE i = n BY <1>7, <1>8, <1>11, <1>12, <2>1, <2>2
    <2>3. CASE i # n
      <3>1. i \in 0 .. (n - 1) /\ i + 1 \in 0 .. n BY <1>1, <2>1, <2>3
      <3> QED BY <1>12, <2>1, <3>1 DEF Path
    <2> QED BY <2>2, <2>3
  <1>15. Same(tq[0], seekToEnd(f, Fresh)) BY <1>11 DEF Path
  <1>16. Path(f, n + 1, tq)
    <2>1. \A i \in 0 .. (n + 1) : Sound(f, tq[i]) /\ tq[i].status = "reading" BY <1>13
    <2>2. \A i \in 0 .. ((n + 1) - 1) :
             /\ Round(f, tq[i]).status \in {"reading", "event"}
             /\ ~AtEnd(f, Round(f, tq[i]))
             /\ Same(tq[i + 1], Settled(f, Round(f, tq[i]), FALSE))
      BY <1>14
    <2>3. n + 1 \in Nat BY <1>10
    <2> QED BY <1>15, <2>1, <2>2, <2>3, Zenon DEF Path
  <1>17. Same(t, tq[n + 1]) BY <1>11 DEF Same, SameBuffer, SameSize
  <1> QED BY <1>16, <1>17 DEF t, q

\* seekToEnd at its start.
LEMMA PathStarts ==
  ASSUME NEW f \in Seq(Byte), NEW r, Sound(f, r), r.status = "reading", Same(r, seekToEnd(f, Fresh))
  PROVE  \E n, tr : Path(f, n, tr) /\ Same(r, tr[n])
  <1> DEFINE tr == [i \in 0 .. 0 |-> r]
  <1>1. tr[0] = r /\ 0 \in Nat /\ \A i \in 0 .. 0 : tr[i] = r OBVIOUS
  <1>2. 0 .. (0 - 1) = {} OBVIOUS
  <1> HIDE DEF tr
  <1>3. Path(f, 0, tr) BY <1>1, <1>2 DEF Path
  <1>4. Same(r, tr[0]) BY <1>1 DEF Same, SameBuffer, SameSize
  <1> QED BY <1>3, <1>4

\* One round of seekToEnd, all of which is in the last chunk of the file.
LEMMA ScanStep ==
  ASSUME TypeInv, WriterInv, wstate \in {"starting", "reopening"},
         NEW q, q = Round(file, scan), ~AtEnd(file, q),
         NEW r, r = Settled(file, q, FALSE)
  PROVE  /\ Outcome(file, scan, q) /\ Sound(file, r)
         /\ Chunk(q.offset) = Chunk(Len(file))
         /\ q.status \in {"reading", "event", "corrupt"}
         /\ q.status # "corrupt" =>
              r.status = "reading" /\ SameBad(r, scan) /\ Chunk(Len(file)) * ChunkSize <= r.offset
         /\ q.status = "corrupt" => Throws(file, q, r) \/ Retries(file, q, r)
         /\ q.status = "corrupt" /\ BadEvents(q) >= MaxCorrupted => Throws(file, q, r)
  <1>1. file \in Seq(Byte) /\ Len(file) \in Nat /\ scan.status = "reading"
        /\ Chunk(Len(file)) * ChunkSize <= scan.offset
    BY EmptySeq DEF TypeInv, WriterInv
  <1>2. Outcome(file, scan, q) /\ Sound(file, r) BY <1>1, ScanRound
  <1>3. /\ Buffered(file, q) /\ scan.offset <= q.offset /\ SameBad(q, scan)
        /\ q.status \in {"reading", "eof", "event", "corrupt"}
        /\ q.status = "corrupt" => Partial(q) /\ 0 < q.ptr
    BY <1>2 DEF Outcome
  <1>4. scan.offset \in Nat /\ q.offset \in Nat /\ q.offset <= Len(file)
    <2>1. scan.offset \in Nat /\ q.offset \in Nat /\ Len(q.buf) \in Nat
          /\ q.offset + Len(q.buf) <= Len(file)
      BY <1>3, EmptySeq DEF TypeInv, Sound, Buffered, ReadStates
    <2> QED BY <1>1, <2>1
  <1>5. Chunk(Len(file)) * ChunkSize \in Nat /\ Chunk(Len(file)) \in Nat
        /\ Len(file) < Chunk(Len(file)) * ChunkSize + ChunkSize
    <2>1. Chunk(Len(file)) \in Nat /\ Len(file) < Chunk(Len(file)) * ChunkSize + ChunkSize
      BY <1>1, ChunkBounds
    <2>2. Chunk(Len(file)) * ChunkSize \in Nat BY <2>1, Constants, Times
    <2> QED BY <2>1, <2>2
  <1>6. Chunk(Len(file)) * ChunkSize <= q.offset BY <1>1, <1>3, <1>4, <1>5
  <1>7. Chunk(q.offset) = Chunk(Len(file))
    <2>1. q.offset < Chunk(Len(file)) * ChunkSize + ChunkSize BY <1>1, <1>4, <1>5, Constants
    <2> QED BY <1>4, <1>5, <1>6, <2>1, ChunkUnique
  <1>8. q.status # "eof" BY DEF AtEnd
  <1>9. CASE q.status = "reading"
    <2>1. r = q BY <1>9 DEF Settled
    <2> QED BY <1>2, <1>3, <1>6, <1>7, <1>9, <2>1
  <1>10. CASE q.status = "event"
    <2>1. r = Returned(q) BY <1>10 DEF Settled
    <2>2. r.status = "reading" /\ SameBad(r, q) /\ r.offset = q.offset
      BY <1>1, <1>3, <2>1, ReturnedFields
    <2>3. SameBad(r, scan) BY <1>3, <2>2 DEF SameBad
    <2> QED BY <1>2, <1>6, <1>7, <1>10, <2>2, <2>3
  <1>11. CASE q.status = "corrupt"
    <2>1. r = performRecovery(file, q, FALSE) BY <1>11 DEF Settled
    <2>2. /\ Retries(file, q, r) \/ Throws(file, q, r)
          /\ BadEvents(q) >= MaxCorrupted => Throws(file, q, r)
      BY <1>1, <1>3, <1>7, <1>11, <2>1, RecoveryOutcome
    <2> QED BY <1>2, <1>7, <1>11, <2>2
  <1> QED BY <1>3, <1>8, <1>9, <1>10, <1>11

\* A second try is the first one again.
LEMMA RetryIsSame ==
  ASSUME NEW f \in Seq(Byte), Len(f) > 0, NEW q, Chunk(q.offset) = Chunk(Len(f)),
         NEW r, Retries(f, q, r)
  PROVE  Same(r, seekToEnd(f, Fresh))
  <1> DEFINE t == seekToEnd(f, Fresh)
  <1>1. Sound(f, Fresh) /\ Fresh.status = "reading" BY FreshSound
  <1>2. /\ t.offset = Chunk(Len(f)) * ChunkSize /\ t.buf = <<>> /\ t.ptr = 0 /\ t.lastDispatch = 0
        /\ t.sizeBuff = <<>> /\ t.size = 0 /\ t.event = <<>> /\ t.status = "reading"
    BY <1>1, SeekToEndSound
  <1> HIDE DEF t
  <1> QED BY <1>2 DEF Retries, Same, SameBuffer, SameSize, t

LEMMA DoomNext ==
  ASSUME TypeInv, WriterInv, DoomInv, [Next]_vars
  PROVE  DoomInv'
  <1>1. /\ file \in Seq(Byte) /\ Len(file) \in Nat /\ Sound(file, scan) /\ scan.status = "reading"
        /\ scan \in ReadStates /\ errors \in Nat
        /\ wstate \in {"down", "starting", "up", "padding", "appending", "error", "reopening"}
    BY EmptySeq DEF TypeInv, WriterInv, Sound, Buffered
  <1>2. ASSUME UNCHANGED <<file, wstate, scan, errors>> PROVE DoomInv'
    BY <1>2 DEF DoomInv
  <1>3. ASSUME wstate' \in {"down", "up", "padding", "appending"} PROVE DoomInv'
    BY <1>3 DEF DoomInv
  <1>4. CASE WriterStarts
    <2>1. UNCHANGED <<file, errors>> /\ wstate' = "starting" /\ scan' = seekToEnd(file, Fresh)
      BY <1>4 DEF WriterStarts, log, counts
    <2>2. Sound(file, scan') /\ scan'.status = "reading"
      BY <1>1, <2>1, FreshSound, SeekToEndSound
    <2>3. Same(scan', seekToEnd(file, Fresh)) BY <2>1 DEF Same, SameBuffer, SameSize
    <2> DEFINE s == scan'
    <2> HIDE DEF s
    <2>4. Sound(file, s) /\ s.status = "reading" /\ Same(s, seekToEnd(file, Fresh)) BY <2>2, <2>3 DEF s
    <2>5. \E n, tr : Path(file, n, tr) /\ Same(s, tr[n]) BY <1>1, <2>4, PathStarts
    <2>6. \E n, tr : Path(file, n, tr) /\ Same(scan', tr[n]) BY <2>5 DEF s
    <2> QED BY <2>1, <2>6 DEF DoomInv
  <1>5. CASE WriterRecovers
    <2>1. UNCHANGED <<file, errors>> /\ wstate = "error" /\ wstate' = "reopening"
          /\ scan' = seekToEnd(file, scan)
      BY <1>5 DEF WriterRecovers, log, counts
    <2>2. SUFFICES ASSUME errors = 0
                   PROVE  /\ Exhausted(file, scan')
                          /\ \E n, tr : Doomed(file, n, tr) /\ \E j \in 0 .. n : Same(scan', tr[j])
      BY <2>1 DEF DoomInv
    <2>3. Exhausted(file, scan) /\ \E n, tr : Doomed(file, n, tr) BY <2>1, <2>2 DEF DoomInv
    <2>4. PICK n, tr : Doomed(file, n, tr) BY <2>3
    <2>5. Path(file, n, tr) /\ n \in Nat /\ 0 \in 0 .. n
      <3>1. Path(file, n, tr) BY <2>4 DEF Doomed
      <3>2. n \in Nat BY <3>1 DEF Path
      <3> QED BY <3>1, <3>2
    <2> DEFINE t == seekToEnd(file, Fresh)
               s == seekToEnd(file, scan)
    <2>6. SameBad(s, scan) /\ s.status = "reading" BY <1>1, SeekToEndSound
    <2>7. Same(s, t)
      <3>1. CASE file = <<>>
        <4>1. s = scan /\ t = Fresh BY <3>1 DEF seekToEnd
        <4>2. Round(file, tr[n]).status = "corrupt" /\ Sound(file, tr[n]) /\ tr[n].status = "reading"
          <5>1. n \in 0 .. n BY <2>5
          <5> QED BY <2>4, <5>1 DEF Doomed, Path
        <4> DEFINE q == Round(file, tr[n])
        <4>3. Outcome(file, tr[n], q) BY <1>1, <4>2, RoundOutcome
        <4>4. Buffered(file, q) /\ 0 < q.ptr BY <4>2, <4>3 DEF Outcome
        <4>5. Len(file) = 0 BY <3>1, <1>1, EmptySeq
        <4>6. q.offset \in Nat /\ q.ptr \in Nat /\ Len(q.buf) \in Nat
              /\ q.offset + Len(q.buf) <= Len(file) /\ q.ptr <= Len(q.buf)
          BY <4>4, EmptySeq DEF Buffered, ReadStates
        <4> HIDE DEF q
        <4>7. FALSE BY <4>4, <4>5, <4>6
        <4> QED BY <4>7
      <3>2. CASE file # <<>>
        <4>1. Len(file) > 0 BY <1>1, <3>2, EmptySeq
        <4>2. Sound(file, Fresh) /\ Fresh.status = "reading" BY <1>1, FreshSound
        <4>3. /\ t.offset = Chunk(Len(file)) * ChunkSize
              /\ t.buf = <<>> /\ t.ptr = 0 /\ t.lastDispatch = 0
              /\ t.sizeBuff = <<>> /\ t.size = 0 /\ t.event = <<>> /\ t.status = "reading"
          BY <1>1, <4>1, <4>2, SeekToEndSound
        <4>4. /\ s.offset = Chunk(Len(file)) * ChunkSize
              /\ s.buf = <<>> /\ s.ptr = 0 /\ s.lastDispatch = 0
              /\ s.sizeBuff = <<>> /\ s.size = 0 /\ s.event = <<>> /\ s.status = "reading"
          BY <1>1, <4>1, SeekToEndSound
        <4> HIDE DEF s, t
        <4> QED BY <4>3, <4>4 DEF Same, SameBuffer, SameSize
      <3> QED BY <3>1, <3>2
    <2>8. Same(tr[0], t) BY <2>5 DEF Path
    <2> HIDE DEF s, t
    <2>9. Same(s, tr[0]) BY <2>7, <2>8 DEF Same, SameBuffer, SameSize
    <2>10. scan' = s BY <2>1 DEF s
    <2>11. Exhausted(file, scan') BY <2>3, <2>6, <2>10 DEF Exhausted, SameBad
    <2> QED BY <2>4, <2>5, <2>9, <2>10, <2>11
  <1>6. CASE WriterScans
    <2>1. wstate \in {"starting", "reopening"} /\ (ScanGoesOn \/ ScanEnds) /\ errors' = errors
      BY <1>6 DEF WriterScans, counts
    <2>2. CASE ScanEnds BY <1>3, <2>2 DEF ScanEnds
    <2>3. CASE ScanGoesOn
      <3> DEFINE q == Round(file, scan)
                 r == Settled(file, q, FALSE)
      <3>1. /\ ~AtEnd(file, q) /\ file' = file
            /\ wstate' = IF r.status = "thrown" THEN "error" ELSE wstate
            /\ scan' = IF r.status = "thrown" THEN Rested(r) ELSE r
        BY <2>3 DEF ScanGoesOn
      <3>2. /\ Outcome(file, scan, q) /\ Sound(file, r)
            /\ Chunk(q.offset) = Chunk(Len(file))
            /\ q.status \in {"reading", "event", "corrupt"}
            /\ q.status # "corrupt" => r.status = "reading" /\ SameBad(r, scan)
            /\ q.status = "corrupt" => Throws(file, q, r) \/ Retries(file, q, r)
            /\ q.status = "corrupt" /\ BadEvents(q) >= MaxCorrupted => Throws(file, q, r)
        BY <2>1, <3>1, ScanStep
      <3>3. q = Round(file, scan) /\ r = Settled(file, q, FALSE) OBVIOUS
      <3> HIDE DEF q, r
      <3>4. r \in ReadStates /\ q \in ReadStates BY <3>2 DEF Sound, Buffered, Outcome
      <3>5. SUFFICES ASSUME errors = 0 PROVE DoomInv' BY <2>1 DEF DoomInv
      <3>6. ASSUME Throws(file, q, r), NEW n, NEW tr, Doomed(file, n, tr) PROVE DoomInv'
        <4>1. wstate' = "error" /\ scan' = Rested(r) BY <3>1, <3>6 DEF Throws
        <4>2. SameBad(Rested(r), r) BY <1>1, <3>4, RestedSound
        <4>3. Exhausted(file, scan') BY <3>2, <3>6, <4>1, <4>2 DEF Throws, Exhausted, SameBad
        <4> QED BY <2>1, <3>1, <3>6, <4>1, <4>3 DEF DoomInv
      <3>7. CASE wstate = "starting"
        <4>1. PICK n, tr : Path(file, n, tr) /\ Same(scan, tr[n]) BY <3>5, <3>7 DEF DoomInv
        <4>2. CASE q.status # "corrupt"
          <5>1. \E m, tq : Path(file, m, tq) /\ Same(r, tq[m])
            BY <1>1, <3>1, <3>2, <3>3, <4>1, <4>2, PathGoesOn
          <5>2. scan' = r /\ wstate' = "starting" BY <3>1, <3>2, <3>7, <4>2
          <5> QED BY <3>1, <5>1, <5>2 DEF DoomInv
        <4>3. CASE q.status = "corrupt" /\ Throws(file, q, r)
          <5>1. n \in Nat /\ n \in 0 .. n BY <4>1 DEF Path
          <5>2. Sound(file, tr[n]) BY <4>1, <5>1 DEF Path
          <5>3. Same(q, Round(file, tr[n]))
            <6>1. tr[n] \in ReadStates BY <5>2 DEF Sound, Buffered
            <6> QED BY <1>1, <3>3, <4>1, <6>1, SameRound
          <5>4. Doomed(file, n, tr) BY <4>1, <4>3, <5>3 DEF Doomed, Same
          <5> QED BY <3>6, <4>3, <5>4
        <4>4. CASE q.status = "corrupt" /\ Retries(file, q, r)
          <5>1. Len(file) > 0
            <6>1. Buffered(file, q) /\ 0 < q.ptr BY <3>2, <4>4 DEF Outcome
            <6>2. q.offset \in Nat /\ q.ptr \in Nat /\ Len(q.buf) \in Nat
                  /\ q.offset + Len(q.buf) <= Len(file) /\ q.ptr <= Len(q.buf)
              BY <6>1, EmptySeq DEF Buffered, ReadStates
            <6> QED BY <1>1, <6>1, <6>2
          <5>2. Same(r, seekToEnd(file, Fresh)) BY <1>1, <3>2, <4>4, <5>1, RetryIsSame
          <5>3. r.status = "reading" BY <4>4 DEF Retries
          <5>4. \E m, tq : Path(file, m, tq) /\ Same(r, tq[m])
            BY <1>1, <3>2, <5>2, <5>3, PathStarts
          <5>5. scan' = r /\ wstate' = "starting" BY <3>1, <3>7, <5>3
          <5> QED BY <3>1, <5>4, <5>5 DEF DoomInv
        <4> QED BY <3>2, <4>2, <4>3, <4>4
      <3>8. CASE wstate = "reopening"
        <4>1. Exhausted(file, scan) BY <3>5, <3>8 DEF DoomInv
        <4>2. PICK n, tr : Doomed(file, n, tr) /\ \E j \in 0 .. n : Same(scan, tr[j])
          BY <3>5, <3>8 DEF DoomInv
        <4>3. PICK j \in 0 .. n : Same(scan, tr[j]) BY <4>2
        <4>4. Path(file, n, tr) /\ n \in Nat /\ j \in Nat /\ j <= n
          <5>1. Path(file, n, tr) BY <4>2 DEF Doomed
          <5>2. n \in Nat BY <5>1 DEF Path
          <5> QED BY <5>1, <5>2
        <4>5. Sound(file, tr[j]) /\ tr[j].status = "reading" /\ tr[j] \in ReadStates
          BY <4>4 DEF Path, Sound, Buffered
        <4>6. Same(q, Round(file, tr[j])) BY <1>1, <3>3, <4>3, <4>5, SameRound
        <4>7. CASE j = n
          <5>1. q.status = "corrupt" BY <4>2, <4>6, <4>7 DEF Doomed, Same
          <5>2. q.lastBad = Chunk(q.offset) /\ q.numBad = MaxCorrupted
            BY <3>2, <4>1 DEF Exhausted, Outcome, SameBad
          <5>3. BadEvents(q) = MaxCorrupted + 1 BY <5>2 DEF BadEvents
          <5>4. BadEvents(q) >= MaxCorrupted BY <5>3, Constants
          <5>5. Throws(file, q, r) BY <3>2, <5>1, <5>4
          <5> QED BY <3>6, <4>2, <5>5
        <4>8. CASE j # n
          <5>1. j \in 0 .. (n - 1) /\ j + 1 \in 0 .. n BY <4>4, <4>8
          <5>2. /\ Round(file, tr[j]).status \in {"reading", "event"}
                /\ Same(tr[j + 1], Settled(file, Round(file, tr[j]), FALSE))
            BY <4>4, <5>1 DEF Path
          <5>3. q.status \in {"reading", "event"} BY <4>6, <5>2 DEF Same
          <5>4. Round(file, tr[j]) \in ReadStates
            <6>1. Outcome(file, tr[j], Round(file, tr[j])) BY <1>1, <4>5, RoundOutcome
            <6> QED BY <6>1 DEF Outcome, Buffered
          <5>5. Same(r, Settled(file, Round(file, tr[j]), FALSE))
            BY <1>1, <3>3, <3>4, <4>6, <5>3, <5>4, SameSettled
          <5>6. Same(r, tr[j + 1]) BY <5>2, <5>5 DEF Same, SameBuffer, SameSize
          <5>7. r.status = "reading" /\ SameBad(r, scan) BY <3>2, <5>3
          <5>8. scan' = r /\ wstate' = "reopening" BY <3>1, <3>8, <5>7
          <5>9. Exhausted(file, r) BY <4>1, <5>7 DEF Exhausted, SameBad
          <5> QED BY <3>1, <4>2, <5>1, <5>6, <5>8, <5>9 DEF DoomInv
        <4> QED BY <4>7, <4>8
      <3> QED BY <2>1, <3>7, <3>8
    <2> QED BY <2>1, <2>2, <2>3
  <1>7. CASE WriteFails
    <2>1. errors' = errors + 1 BY <1>7 DEF WriteFails
    <2>2. errors' # 0 BY <1>1, <2>1
    <2> QED BY <2>2 DEF DoomInv
  <1>8. CASE WriterPads \/ WriterAppends BY <1>3, <1>8 DEF WriterPads, WriterAppends
  <1>9. ASSUME NEW l \in Lengths, WriterTakes(l) PROVE DoomInv'
    <2>1. wstate' \in {"padding", "appending"} BY <1>9 DEF WriterTakes
    <2> QED BY <1>3, <2>1
  <1>10. ASSUME NEW n \in 0 .. (ChunkSize - 1), Crash(n) PROVE DoomInv' BY <1>3, <1>10 DEF Crash
  <1>11. CASE Reader
    <2>1. UNCHANGED <<file, wstate, scan, errors>>
      BY <1>11 DEF Reader, ReaderReads, ReaderResumes, log, process, counts
    <2> QED BY <1>2, <2>1
  <1>12. CASE UNCHANGED vars BY <1>2, <1>12 DEF vars
  <1> QED BY <1>4, <1>5, <1>6, <1>7, <1>8, <1>9, <1>10, <1>11, <1>12 DEF Next, Writer

\* So a writer that has had no failed write does not get through error recovery.
LEMMA DoomedForEver ==
  ASSUME TypeInv, WriterInv, DoomInv, wstate = "reopening", AtEnd(file, Round(file, scan))
  PROVE  errors > 0
  <1>1. /\ file \in Seq(Byte) /\ Sound(file, scan) /\ scan.status = "reading" /\ errors \in Nat
        /\ scan \in ReadStates
    BY DEF TypeInv, WriterInv, Sound, Buffered
  <1>2. SUFFICES ASSUME errors = 0 PROVE FALSE BY <1>1
  <1>3. PICK n, tr : Doomed(file, n, tr) /\ \E j \in 0 .. n : Same(scan, tr[j])
    BY <1>2 DEF DoomInv
  <1>4. PICK j \in 0 .. n : Same(scan, tr[j]) BY <1>3
  <1>5. Path(file, n, tr) BY <1>3 DEF Doomed
  <1>6. n \in Nat BY <1>5 DEF Path
  <1>7. Sound(file, tr[j]) /\ tr[j] \in ReadStates BY <1>5 DEF Path, Sound, Buffered
  <1>8. Same(Round(file, scan), Round(file, tr[j])) BY <1>1, <1>4, <1>7, SameRound
  <1>9. AtEnd(file, Round(file, tr[j])) BY <1>8 DEF AtEnd, Same, SameBuffer
  <1>10. CASE j = n BY <1>3, <1>9, <1>10 DEF Doomed, AtEnd
  <1>11. CASE j # n
    <2>1. j \in 0 .. (n - 1) BY <1>6, <1>11
    <2> QED BY <1>5, <1>9, <2>1 DEF Path
  <1> QED BY <1>10, <1>11

-----------------------------------------------------------------------------
(* The writer and the chunks *)

LEMMA WriterInit == Init => WriterInv /\ DoomInv
  <1> SUFFICES ASSUME Init PROVE WriterInv /\ DoomInv OBVIOUS
  <1>1. DOMAIN written = {} BY DEF Init
  <1>2. scan.status = "reading" BY DEF Init, Fresh
  <1>3. WriterInv BY <1>1, <1>2 DEF Init, WriterInv
  <1>4. DoomInv BY DEF Init, DoomInv
  <1> QED BY <1>3, <1>4

LEMMA WriterNext ==
  ASSUME TypeInv, WriterInv, DoomInv, [Next]_vars
  PROVE  WriterInv'
  <1>1. /\ file \in Seq(Byte) /\ Len(file) \in Nat /\ Sound(file, scan) /\ scan \in ReadStates
        /\ errors \in Nat /\ offset_ \in Nat /\ taken \in 0 .. MaxEvents /\ written \in Seq(Entries)
        /\ stale \in BOOLEAN
    BY EmptySeq DEF TypeInv, Sound, Buffered
  <1>2. /\ wstate \in {"up", "padding", "appending"} /\ ~stale => offset_ = Len(file)
        /\ stale => errors > 0
        /\ wstate = "appending" =>
             errors > 0 \/ Chunk(Len(file)) = Chunk(Len(file) + inHand + 3)
        /\ wstate \in {"padding", "appending"} => inHand \in Lengths /\ taken \in 1 .. MaxEvents
        /\ \A i \in DOMAIN written : Crosses(written[i]) => errors > 0
        /\ scan.status = "reading"
    BY DEF WriterInv
  <1>3. ASSUME UNCHANGED <<file, wstate, offset_, scan, inHand, stale, written, taken, errors>>
        PROVE  WriterInv'
    BY <1>3 DEF WriterInv, Crosses
  <1>4. CASE WriterStarts
    <2>1. /\ UNCHANGED <<file, offset_, inHand, stale, written, taken, errors>>
          /\ wstate' = "starting" /\ scan' = seekToEnd(file, Fresh)
      BY <1>4 DEF WriterStarts, log, counts
    <2>2. Sound(file, Fresh) /\ Fresh.status = "reading" BY <1>1, FreshSound
    <2>3. scan'.status = "reading" /\ Chunk(Len(file)) * ChunkSize <= scan'.offset
      BY <1>1, <2>1, <2>2, SeekToEndSound
    <2> QED BY <1>2, <2>1, <2>3 DEF WriterInv, Crosses
  <1>5. CASE WriterRecovers
    <2>1. /\ UNCHANGED <<file, offset_, inHand, stale, written, taken, errors>>
          /\ wstate' = "reopening" /\ scan' = seekToEnd(file, scan)
      BY <1>5 DEF WriterRecovers, log, counts
    <2>2. scan'.status = "reading" /\ Chunk(Len(file)) * ChunkSize <= scan'.offset
      BY <1>1, <1>2, <2>1, SeekToEndSound
    <2> QED BY <1>2, <2>1, <2>2 DEF WriterInv, Crosses
  <1>6. CASE WriterScans
    <2>1. /\ wstate \in {"starting", "reopening"} /\ (ScanGoesOn \/ ScanEnds)
          /\ UNCHANGED <<inHand, written, taken, errors>>
      BY <1>6 DEF WriterScans, counts
    <2>2. CASE ScanEnds
      <3>1. /\ file' = file /\ scan'.status = "reading"
            /\ wstate = "starting" => offset_' = Len(file)
        BY <1>2, <2>2, ScanEndsAtEnd
      <3>2. /\ AtEnd(file, Round(file, scan)) /\ wstate' = "up" /\ stale' = (wstate = "reopening")
        BY <2>2 DEF ScanEnds
      <3>3. stale' => errors > 0 BY <3>2, DoomedForEver
      <3>4. ~stale' => offset_' = Len(file) BY <2>1, <3>1, <3>2
      <3> QED BY <1>2, <2>1, <3>1, <3>2, <3>3, <3>4 DEF WriterInv, Crosses
    <2>3. CASE ScanGoesOn
      <3> DEFINE q == Round(file, scan)
                 r == Settled(file, q, FALSE)
      <3>1. /\ ~AtEnd(file, q) /\ UNCHANGED <<file, offset_, stale>>
            /\ wstate' = IF r.status = "thrown" THEN "error" ELSE wstate
            /\ scan' = IF r.status = "thrown" THEN Rested(r) ELSE r
        BY <2>3 DEF ScanGoesOn
      <3>2. /\ Sound(file, r) /\ Chunk(q.offset) = Chunk(Len(file))
            /\ q.status \in {"reading", "event", "corrupt"}
            /\ q.status # "corrupt" =>
                 r.status = "reading" /\ Chunk(Len(file)) * ChunkSize <= r.offset
            /\ q.status = "corrupt" => Throws(file, q, r) \/ Retries(file, q, r)
        BY <2>1, <3>1, ScanStep
      <3> HIDE DEF q, r
      <3>3. r \in ReadStates /\ r.offset \in Nat BY <3>2 DEF Sound, Buffered, ReadStates
      <3>4. CASE r.status = "thrown"
        <4>1. scan'.status = "reading" BY <1>1, <3>1, <3>3, <3>4, RestedSound
        <4> QED BY <1>2, <2>1, <3>1, <3>4, <4>1 DEF WriterInv, Crosses
      <3>5. CASE r.status # "thrown"
        <4>1. r.status = "reading" /\ Chunk(Len(file)) * ChunkSize <= r.offset
          <5>1. CASE q.status # "corrupt" BY <3>2, <5>1
          <5>2. CASE q.status = "corrupt"
            <6>1. Retries(file, q, r) BY <3>2, <3>5, <5>2 DEF Throws
            <6>2. r.status = "reading" /\ r.offset = Chunk(Len(file)) * ChunkSize
              BY <3>2, <6>1 DEF Retries
            <6> QED BY <3>3, <6>2
          <5> QED BY <5>1, <5>2
        <4>2. scan' = r /\ wstate' = wstate BY <3>1, <3>5
        <4> QED BY <1>2, <2>1, <3>1, <4>1, <4>2 DEF WriterInv, Crosses
      <3> QED BY <3>4, <3>5
    <2> QED BY <2>1, <2>2, <2>3
  <1>7. ASSUME NEW l \in Lengths, WriterTakes(l) PROVE WriterInv'
    <2>1. /\ wstate = "up" /\ taken < MaxEvents /\ taken' = taken + 1 /\ inHand' = l
          /\ wstate' = IF Pads(l) THEN "padding" ELSE "appending"
          /\ UNCHANGED <<file, offset_, scan, stale, written, errors>>
      BY <1>7 DEF WriterTakes, log
    <2>2. taken' \in 1 .. MaxEvents BY <1>1, <2>1, Constants
    <2>3. l \in Nat /\ offset_ + l + 4 - 1 = offset_ + l + 3 BY <1>1, Constants
    <2>4. wstate' = "appending" => errors > 0 \/ Chunk(Len(file)) = Chunk(Len(file) + l + 3)
      <3>1. SUFFICES ASSUME wstate' = "appending", ~(errors > 0)
                     PROVE  Chunk(Len(file)) = Chunk(Len(file) + l + 3)
        OBVIOUS
      <3>2. offset_ = Len(file) BY <1>2, <2>1, <3>1
      <3>3. Chunk(offset_) = Chunk(offset_ + l + 3) BY <2>1, <2>3, <3>1 DEF Pads
      <3> QED BY <3>2, <3>3
    <2>5. wstate' \in {"padding", "appending"} BY <2>1
    <2> QED BY <1>2, <2>1, <2>2, <2>4, <2>5 DEF WriterInv, Crosses
  <1>8. CASE WriterPads
    <2>1. /\ wstate = "padding" /\ wstate' = "appending" /\ file' = file \o Padding
          /\ offset_' = Len(file') /\ stale' = FALSE
          /\ UNCHANGED <<scan, inHand, written, taken, errors>>
      BY <1>8 DEF WriterPads, counts
    <2> DEFINE c == Chunk(Len(file)) + 1
               o == c * ChunkSize
    <2>2. /\ Padding \in Seq(Byte) /\ Len(file) + Len(Padding) = o
      BY <1>1, PaddingFields
    <2>3. Len(file') = o
      <3>1. Len(file \o Padding) = Len(file) + Len(Padding) BY <1>1, <2>2, Joined
      <3> QED BY <2>1, <2>2, <3>1
    <2>4. c \in Nat
      <3>1. Chunk(Len(file)) \in Nat BY <1>1, ChunkBounds
      <3> QED BY <3>1
    <2> HIDE DEF c
    <2>5. o \in Nat BY <2>4, Constants
    <2>6. inHand \in Nat /\ inHand + 4 <= ChunkSize /\ ChunkSize \in Nat /\ ChunkSize > 0
      BY <1>2, <2>1, Constants
    <2>7. Chunk(o) = c
      <3>1. c * ChunkSize <= o /\ o < c * ChunkSize + ChunkSize BY <2>5, <2>6
      <3> QED BY <2>4, <2>5, <3>1, ChunkUnique
    <2>8. Chunk(o + inHand + 3) = c
      <3>1. /\ o + inHand + 3 \in Nat /\ c * ChunkSize <= o + inHand + 3
            /\ o + inHand + 3 < c * ChunkSize + ChunkSize
        BY <2>5, <2>6
      <3> QED BY <2>4, <3>1, ChunkUnique
    <2> HIDE DEF o
    <2>9. Chunk(Len(file')) = Chunk(Len(file') + inHand' + 3) BY <2>1, <2>3, <2>7, <2>8
    <2>10. inHand' \in Lengths /\ taken' \in 1 .. MaxEvents BY <1>2, <2>1
    <2> QED BY <1>2, <2>1, <2>9, <2>10 DEF WriterInv, Crosses
  <1>9. CASE WriterAppends
    <2> DEFINE e == [id |-> taken, at |-> Len(file), len |-> inHand]
    <2>1. /\ wstate = "appending" /\ wstate' = "up" /\ file' = file \o Event(taken, inHand)
          /\ offset_' = offset_ + inHand + 4
          /\ written' = Append(written, e)
          /\ UNCHANGED <<scan, inHand, stale, taken, errors>>
      BY <1>9 DEF WriterAppends, counts
    <2>2. inHand \in Lengths /\ taken \in 1 .. MaxEvents /\ inHand \in Nat BY <1>2, <2>1, Constants
    <2>3. Event(taken, inHand) \in Seq(Byte) /\ Len(Event(taken, inHand)) = inHand + 4
      BY <2>2, EventFields
    <2>4. Len(file') = Len(file) + (inHand + 4)
      <3>1. file' = file \o Event(taken, inHand) BY <2>1
      <3>2. Len(file \o Event(taken, inHand)) = Len(file) + Len(Event(taken, inHand))
        BY <1>1, <2>3, Joined
      <3> QED BY <2>3, <3>1, <3>2
    <2>5. ~stale => offset_' = Len(file')
      <3>1. ~stale => offset_ = Len(file) BY <1>2, <2>1
      <3>2. offset_' = offset_ + inHand + 4 BY <2>1
      <3> QED BY <1>1, <2>2, <2>4, <3>1, <3>2
    <2>6. Crosses(e) => errors > 0
      <3>1. e.at = Len(file) /\ e.len = inHand OBVIOUS
      <3> HIDE DEF e
      <3> QED BY <1>2, <2>1, <3>1 DEF Crosses
    <2>7. \A i \in DOMAIN written' : Crosses(written'[i]) => errors > 0
      <3> HIDE DEF e
      <3>1. \A i \in DOMAIN Append(written, e) :
              \/ Append(written, e)[i] = e
              \/ i \in DOMAIN written /\ Append(written, e)[i] = written[i]
        BY <1>1
      <3> QED BY <1>2, <2>1, <2>6, <3>1
    <2> QED BY <1>2, <2>1, <2>5, <2>7 DEF WriterInv, Crosses
  <1>10. CASE WriteFails
    <2>1. /\ wstate' = "error" /\ errors' = errors + 1
          /\ UNCHANGED <<file, scan, inHand, stale, written, taken>>
      BY <1>10 DEF WriteFails, log
    <2>2. errors' > 0 BY <1>1, <2>1
    <2> QED BY <1>2, <2>1, <2>2 DEF WriterInv, Crosses
  <1>11. ASSUME NEW n \in 0 .. (ChunkSize - 1), Crash(n) PROVE WriterInv'
    <2>1. /\ wstate' = "down" /\ scan' = Fresh
          /\ UNCHANGED <<stale, written, errors>>
      BY <1>11 DEF Crash
    <2>2. scan'.status = "reading" BY <2>1 DEF Fresh
    <2> QED BY <1>2, <2>1, <2>2 DEF WriterInv, Crosses
  <1>12. CASE Reader
    <2>1. UNCHANGED <<file, wstate, offset_, scan, inHand, stale, written, taken, errors>>
      BY <1>12 DEF Reader, ReaderReads, ReaderResumes, log, process, counts
    <2> QED BY <1>3, <2>1
  <1>13. CASE UNCHANGED vars BY <1>3, <1>13 DEF vars
  <1> QED BY <1>4, <1>5, <1>6, <1>7, <1>8, <1>9, <1>10, <1>11, <1>12, <1>13 DEF Next, Writer

-----------------------------------------------------------------------------
(* The layout of a file without damage *)

LEMMA EntryFacts ==
  ASSUME NEW e \in Entries
  PROVE  /\ e.id \in 1 .. MaxEvents /\ e.at \in Nat /\ e.len \in Lengths /\ e.len \in Nat
         /\ e.len > 0 /\ e.len + 4 <= ChunkSize
         /\ End(e) = e.at + e.len + 4 /\ End(e) \in Nat
  <1>1. e.id \in 1 .. MaxEvents /\ e.at \in Nat /\ e.len \in Lengths BY DEF Entries
  <1>2. e.len \in Nat /\ e.len > 0 /\ e.len + 4 <= ChunkSize BY <1>1, Constants
  <1> QED BY <1>1, <1>2 DEF End

LEMMA EntryOf ==
  ASSUME NEW w \in Seq(Entries)
  PROVE  Len(w) \in Nat /\ DOMAIN w = 1 .. Len(w) /\ \A i \in DOMAIN w : w[i] \in Entries
  OBVIOUS

LEMMA EntryAppended ==
  ASSUME NEW w \in Seq(Entries), NEW e \in Entries
  PROVE  LET u == Append(w, e)
         IN /\ u \in Seq(Entries) /\ Len(u) = Len(w) + 1
            /\ \A i \in DOMAIN w : i \in DOMAIN u /\ u[i] = w[i]
            /\ Len(w) + 1 \in DOMAIN u /\ u[Len(w) + 1] = e
            /\ \A i \in DOMAIN u : i \in DOMAIN w \/ i = Len(w) + 1
  OBVIOUS

\* The events keep their place when the file grows.
LEMMA EventsGrow ==
  ASSUME NEW f \in Seq(Byte), NEW g \in Seq(Byte), NEW w \in Seq(Entries), EventsLaid(f, w)
  PROVE  EventsLaid(f \o g, w)
  <1> DEFINE h == f \o g
  <1>1. /\ h \in Seq(Byte) /\ Len(h) = Len(f) + Len(g)
        /\ \A k \in 1 .. Len(f) : h[k] = f[k]
    BY Joined
  <1>2. Len(f) \in Nat /\ Len(g) \in Nat BY EmptySeq
  <1> HIDE DEF h
  <1>3. ASSUME NEW i \in DOMAIN w
        PROVE  /\ End(w[i]) <= Len(h)
               /\ ~Crosses(w[i])
               /\ \A k \in 1 .. w[i].len + 4 : h[w[i].at + k] = Event(w[i].id, w[i].len)[k]
    <2>1. w[i] \in Entries BY EntryOf
    <2>2. w[i].at \in Nat /\ w[i].len \in Nat /\ End(w[i]) = w[i].at + w[i].len + 4
      BY <2>1, EntryFacts
    <2>3. /\ End(w[i]) <= Len(f) /\ ~Crosses(w[i])
          /\ \A k \in 1 .. w[i].len + 4 : f[w[i].at + k] = Event(w[i].id, w[i].len)[k]
      BY DEF EventsLaid
    <2>4. End(w[i]) <= Len(h) BY <1>1, <1>2, <2>2, <2>3
    <2>5. ASSUME NEW k \in 1 .. w[i].len + 4
          PROVE  h[w[i].at + k] = Event(w[i].id, w[i].len)[k]
      <3>1. w[i].at + k \in 1 .. Len(f) BY <1>2, <2>2, <2>3
      <3>2. h[w[i].at + k] = f[w[i].at + k] BY <1>1, <3>1
      <3> QED BY <2>3, <3>2
    <2> QED BY <2>3, <2>4, <2>5
  <1>4. EventsLaid(h, w) BY <1>3 DEF EventsLaid
  <1> QED BY <1>4 DEF h

\* An old gap stays a gap.
LEMMA GapsGrow ==
  ASSUME NEW f \in Seq(Byte), NEW g \in Seq(Byte), NEW w \in Seq(Entries), GapsLaid(f, w),
         NEW p \in 0 .. Len(f) - 1, Gap(w, p), NEW q \in Nat, p <= q, Chunk(q) = Chunk(p)
  PROVE  q < Len(f) /\ q < Len(f \o g) /\ (f \o g)[q + 1] = 0 /\ Gap(w, q)
  <1>1. q < Len(f) /\ f[q + 1] = 0 /\ Gap(w, q) BY DEF GapsLaid
  <1>2. Len(f) \in Nat /\ Len(g) \in Nat BY EmptySeq
  <1>3. q + 1 \in 1 .. Len(f) BY <1>1, <1>2
  <1>4. (f \o g)[q + 1] = f[q + 1] /\ Len(f \o g) = Len(f) + Len(g) BY <1>3, Joined
  <1>5. q < Len(f \o g) BY <1>1, <1>2, <1>4
  <1> QED BY <1>1, <1>4, <1>5

LEMMA LayoutPads ==
  ASSUME NEW f \in Seq(Byte), NEW g \in Seq(Byte), NEW w \in Seq(Entries), Layout(f, w),
         Len(f) + Len(g) = (Chunk(Len(f)) + 1) * ChunkSize,
         \A k \in 1 .. Len(g) : g[k] = 0
  PROVE  Layout(f \o g, w)
  <1> DEFINE h == f \o g
             c == Chunk(Len(f))
  <1>1. /\ h \in Seq(Byte) /\ Len(h) = Len(f) + Len(g)
        /\ \A k \in 1 .. Len(g) : h[Len(f) + k] = g[k]
    BY Joined
  <1>2. Len(f) \in Nat /\ Len(g) \in Nat BY EmptySeq
  <1>3. EventsLaid(f, w) /\ InSequence(w) /\ GapsLaid(f, w) BY DEF Layout
  <1>4. EventsLaid(h, w) BY <1>3, EventsGrow
  <1>5. c \in Nat /\ c * ChunkSize <= Len(f) BY <1>2, ChunkBounds
  <1>6. c * ChunkSize \in Nat /\ Len(h) = c * ChunkSize + ChunkSize BY <1>1, <1>5, Constants, Times
  <1> HIDE DEF c
  <1>7. ASSUME NEW p \in 0 .. Len(h) - 1, Gap(w, p), NEW q \in Nat, p <= q, Chunk(q) = Chunk(p)
        PROVE  q < Len(h) /\ h[q + 1] = 0 /\ Gap(w, q)
    <2>1. CASE p < Len(f)
      <3>1. p \in 0 .. Len(f) - 1 BY <1>2, <2>1
      <3> QED BY <1>3, <1>7, <3>1, GapsGrow
    <2>2. CASE Len(f) <= p
      <3>1. p \in Nat /\ c * ChunkSize <= p /\ p < c * ChunkSize + ChunkSize
        <4>1. \A x, y, z \in Nat : x \in 0 .. y - 1 => x \in Nat /\ x < y OBVIOUS
        <4>2. p \in Nat /\ p < Len(h) BY <1>1, <1>2, <4>1
        <4> QED BY <1>2, <1>5, <1>6, <2>2, <4>2
      <3>2. Chunk(q) = c BY <1>5, <1>7, <3>1, ChunkUnique
      <3>3. q < c * ChunkSize + ChunkSize BY <3>2, ChunkBounds
      <3>4. q < Len(h) /\ Len(f) <= q BY <1>2, <1>6, <1>7, <2>2, <3>1, <3>3
      <3>5. h[q + 1] = 0
        <4>1. (q + 1) - Len(f) \in 1 .. Len(g) /\ Len(f) + ((q + 1) - Len(f)) = q + 1
          BY <1>1, <1>2, <3>4
        <4> QED BY <1>1, <4>1
      <3>6. Gap(w, q)
        <4> SUFFICES ASSUME NEW i \in DOMAIN w PROVE ~Inside(w[i], q) BY DEF Gap
        <4>1. End(w[i]) <= Len(f) BY <1>3 DEF EventsLaid
        <4>2. End(w[i]) \in Nat BY EntryOf, EntryFacts
        <4>3. ~(q < End(w[i])) BY <1>2, <3>4, <4>1, <4>2
        <4> QED BY <4>3 DEF Inside
      <3> QED BY <3>4, <3>5, <3>6
    <2> QED BY <1>2, <2>1, <2>2
  <1>8. GapsLaid(h, w) BY <1>7 DEF GapsLaid
  <1> QED BY <1>3, <1>4, <1>8 DEF Layout, h

LEMMA LayoutAppends ==
  ASSUME NEW f \in Seq(Byte), NEW w \in Seq(Entries), Layout(f, w),
         NEW e \in Entries, e.at = Len(f), ~Crosses(e)
  PROVE  Layout(f \o Event(e.id, e.len), Append(w, e))
  <1> DEFINE g == Event(e.id, e.len)
             h == f \o g
             u == Append(w, e)
  <1>1. /\ e.id \in 1 .. MaxEvents /\ e.at \in Nat /\ e.len \in Lengths /\ e.len \in Nat
        /\ End(e) = e.at + e.len + 4
    BY EntryFacts
  <1>2. g \in Seq(Byte) /\ Len(g) = e.len + 4 BY <1>1, EventFields
  <1> HIDE DEF g
  <1>3. /\ h \in Seq(Byte) /\ Len(h) = Len(f) + Len(g)
        /\ \A k \in 1 .. Len(g) : h[Len(f) + k] = g[k]
    BY <1>2, Joined
  <1>4. Len(f) \in Nat /\ Len(h) = End(e)
    <2>1. Len(f) \in Nat BY EmptySeq
    <2> QED BY <1>1, <1>2, <1>3, <2>1
  <1>5. EventsLaid(f, w) /\ InSequence(w) /\ GapsLaid(f, w) BY DEF Layout
  <1>6. /\ u \in Seq(Entries) /\ Len(u) = Len(w) + 1
        /\ \A i \in DOMAIN w : i \in DOMAIN u /\ u[i] = w[i]
        /\ Len(w) + 1 \in DOMAIN u /\ u[Len(w) + 1] = e
        /\ \A i \in DOMAIN u : i \in DOMAIN w \/ i = Len(w) + 1
    BY EntryAppended
  <1>7. Len(w) \in Nat /\ DOMAIN w = 1 .. Len(w) /\ \A i \in DOMAIN w : w[i] \in Entries BY EntryOf
  <1> HIDE DEF u
  <1>8. EventsLaid(h, u)
    <2>1. EventsLaid(h, w) BY <1>2, <1>5, EventsGrow
    <2> HIDE DEF h
    <2>2. ASSUME NEW i \in DOMAIN u
          PROVE  /\ End(u[i]) <= Len(h)
                 /\ ~Crosses(u[i])
                 /\ \A k \in 1 .. u[i].len + 4 : h[u[i].at + k] = Event(u[i].id, u[i].len)[k]
      <3>1. CASE i \in DOMAIN w BY <1>6, <2>1, <3>1 DEF EventsLaid
      <3>2. CASE i = Len(w) + 1
        <4>1. u[i] = e BY <1>6, <3>2
        <4>2. End(e) <= Len(h) BY <1>1, <1>4
        <4>3. \A k \in 1 .. e.len + 4 : h[e.at + k] = Event(e.id, e.len)[k]
          BY <1>2, <1>3 DEF g
        <4> QED BY <4>1, <4>2, <4>3
      <3> QED BY <1>6, <3>1, <3>2
    <2> QED BY <2>2 DEF EventsLaid
  <1>9. InSequence(u)
    <2> SUFFICES ASSUME NEW i \in DOMAIN u, NEW j \in DOMAIN u, i < j
                 PROVE  End(u[i]) <= u[j].at
      BY DEF InSequence
    <2>1. i \in DOMAIN w /\ (j \in DOMAIN w \/ j = Len(w) + 1)
      <3>1. j \in DOMAIN w \/ j = Len(w) + 1 BY <1>6
      <3>2. i \in DOMAIN w \/ i = Len(w) + 1 BY <1>6
      <3>3. i # Len(w) + 1 BY <1>7, <3>1
      <3> QED BY <3>1, <3>2, <3>3
    <2>2. CASE j \in DOMAIN w BY <1>5, <1>6, <2>1, <2>2 DEF InSequence
    <2>3. CASE j = Len(w) + 1
      <3>1. u[j] = e /\ u[i] = w[i] BY <1>6, <2>1, <2>3
      <3>2. End(w[i]) <= Len(f) BY <1>5, <2>1 DEF EventsLaid
      <3> QED BY <3>1, <3>2
    <2> QED BY <2>1, <2>2, <2>3
  <1>10. ASSUME NEW p \in 0 .. Len(h) - 1, Gap(u, p), NEW q \in Nat, p <= q, Chunk(q) = Chunk(p)
         PROVE  q < Len(h) /\ h[q + 1] = 0 /\ Gap(u, q)
    <2>0. p \in Nat /\ p < Len(h)
      <3>1. Len(h) \in Nat BY <1>3, EmptySeq
      <3> HIDE DEF h
      <3> QED BY <3>1
    <2>1. CASE p < Len(f)
      <3>1. p \in 0 .. Len(f) - 1 BY <1>4, <2>0, <2>1
      <3>2. Gap(w, p) BY <1>6, <1>10 DEF Gap
      <3>3. q < Len(f) /\ q < Len(h) /\ h[q + 1] = 0 /\ Gap(w, q)
        BY <1>2, <1>5, <1>10, <3>1, <3>2, GapsGrow
      <3>4. ~Inside(e, q) BY <1>4, <3>3 DEF Inside
      <3>5. Gap(u, q) BY <1>6, <3>3, <3>4 DEF Gap
      <3> QED BY <3>3, <3>5
    <2>2. CASE Len(f) <= p
      <3>1. Inside(e, p) BY <1>4, <2>0, <2>2 DEF Inside
      <3>2. FALSE BY <1>6, <1>10, <3>1 DEF Gap
      <3> QED BY <3>2
    <2> QED BY <1>4, <2>0, <2>1, <2>2
  <1>11. GapsLaid(h, u) BY <1>10 DEF GapsLaid
  <1> QED BY <1>8, <1>9, <1>11 DEF Layout, h, u, g

-----------------------------------------------------------------------------
(* A reader of a file without damage *)

LEMMA OneMore ==
  ASSUME NEW a \in Nat, NEW b \in Nat
  PROVE  a + (b + 1) = a + b + 1
  OBVIOUS

\* Where the reader is, and how much it has of an event.
LEMMA Place ==
  ASSUME NEW f \in Seq(Byte), NEW r, Buffered(f, r)
  PROVE  /\ r.offset \in Nat /\ r.ptr \in Nat /\ r.size \in Nat /\ Len(f) \in Nat
         /\ r.sizeBuff \in Seq(Byte) /\ Len(r.sizeBuff) \in Nat
         /\ r.event \in Seq(Byte) /\ Len(r.event) \in Nat
         /\ r.offset + r.ptr <= Len(f)
         /\ Start(r) \in Int
         /\ Start(r) + Len(r.sizeBuff) + Len(r.event) = r.offset + r.ptr
         /\ Start(r) + Len(r.sizeBuff) + Len(r.event) <= Len(f)
  <1>1. /\ r.offset \in Nat /\ r.ptr \in Nat /\ r.size \in Nat
        /\ r.sizeBuff \in Seq(Byte) /\ r.event \in Seq(Byte) /\ r.buf \in Seq(Byte)
    BY DEF Buffered, ReadStates
  <1>2. /\ Len(r.sizeBuff) \in Nat /\ Len(r.event) \in Nat /\ Len(r.buf) \in Nat /\ Len(f) \in Nat
    BY <1>1, EmptySeq
  <1>3. r.ptr <= Len(r.buf) /\ r.offset + Len(r.buf) <= Len(f) BY DEF Buffered
  <1>4. r.offset + r.ptr <= Len(f) BY <1>1, <1>2, <1>3
  <1>5. Start(r) \in Int /\ Start(r) + Len(r.sizeBuff) + Len(r.event) = r.offset + r.ptr
    BY <1>1, <1>2 DEF Start
  <1>6. Start(r) + Len(r.sizeBuff) + Len(r.event) <= Len(f) BY <1>4, <1>5
  <1> QED BY <1>1, <1>2, <1>4, <1>5, <1>6

\* What has been read of a size does not change when the file grows.
LEMMA SizeGrows ==
  ASSUME NEW f \in Seq(Byte), NEW g \in Seq(Byte), NEW r, Buffered(f, r), Start(r) \in Nat,
         SizeRead(f, r, Start(r))
  PROVE  SizeRead(f \o g, r, Start(r))
  <1> DEFINE s == Start(r)
             m == Len(r.sizeBuff)
             v == Len(r.event)
  <1>1. m \in Nat /\ v \in Nat /\ Len(f) \in Nat /\ s \in Nat /\ s + m + v <= Len(f) BY Place
  <1>2. SizeRead(f, r, s) OBVIOUS
  <1> HIDE DEF s
  <1>3. ASSUME NEW k \in 1 .. m PROVE r.sizeBuff[k] = (f \o g)[s + k]
    <2> HIDE DEF m, v
    <2>1. s + k \in 1 .. Len(f) BY <1>1
    <2>2. (f \o g)[s + k] = f[s + k] BY <2>1, Joined
    <2> QED BY <1>2, <2>2 DEF SizeRead, m
  <1>4. SizeRead(f \o g, r, s) BY <1>2, <1>3 DEF SizeRead
  <1> QED BY <1>4 DEF s

LEMMA FollowingGrows ==
  ASSUME NEW f \in Seq(Byte), NEW g \in Seq(Byte), NEW w, NEW r, NEW d,
         Buffered(f, r), Following(f, w, r, d)
  PROVE  Following(f \o g, w, r, d)
  BY SizeGrows DEF Following

\* An event at the end of the file is not yet the reader's concern.
LEMMA FollowingAppends ==
  ASSUME NEW f \in Seq(Byte), NEW g \in Seq(Byte), NEW w \in Seq(Entries), NEW r,
         NEW d \in Seq(Seq(Byte)), Buffered(f, r), Following(f, w, r, d),
         NEW e \in Entries, e.at = Len(f)
  PROVE  Following(f \o g, Append(w, e), r, d)
  <1> DEFINE s == Start(r)
             u == Append(w, e)
  <1>1. /\ r.status = "reading" /\ s \in Nat /\ Aligned(w, s) /\ SizeRead(f, r, s)
        /\ DataRead(w, r, d, s) /\ Returns(w, d, s)
    BY DEF Following
  <1>2. s <= Len(f) /\ Len(f) \in Nat
    <2> DEFINE m == Len(r.sizeBuff)
               v == Len(r.event)
    <2>1. m \in Nat /\ v \in Nat /\ Len(f) \in Nat /\ s + m + v <= Len(f) BY Place
    <2> HIDE DEF s, m, v
    <2> QED BY <1>1, <2>1
  <1>3. SizeRead(f \o g, r, s) BY <1>1, SizeGrows
  <1>4. /\ u \in Seq(Entries) /\ Len(u) = Len(w) + 1
        /\ \A i \in DOMAIN w : i \in DOMAIN u /\ u[i] = w[i]
        /\ \A i \in DOMAIN u : i \in DOMAIN w \/ i = Len(w) + 1
        /\ u[Len(w) + 1] = e
    BY EntryAppended
  <1>5. Len(w) \in Nat /\ DOMAIN w = 1 .. Len(w) BY EntryOf
  <1>6. Len(d) \in Nat /\ DOMAIN d = 1 .. Len(d) /\ Len(d) <= Len(w) BY <1>1 DEF Returns
  <1> HIDE DEF u, s
  <1>7. ~(e.at < s) BY <1>1, <1>2
  <1>8. Aligned(u, s) BY <1>1, <1>4, <1>7 DEF Aligned
  <1>9. DataRead(u, r, d, s) BY <1>1, <1>4 DEF DataRead
  <1>10. ~(Len(w) + 1 <= Len(d)) BY <1>5, <1>6
  <1>11. Len(d) <= Len(u) BY <1>4, <1>5, <1>6
  <1>12. \A i \in DOMAIN u : i <= Len(d) <=> u[i].at < s
    <2> TAKE i \in DOMAIN u
    <2>1. CASE i \in DOMAIN w BY <1>1, <1>4, <2>1 DEF Returns
    <2>2. CASE i = Len(w) + 1 BY <1>4, <1>7, <1>10, <2>2
    <2> QED BY <1>4, <2>1, <2>2
  <1>13. \A i \in DOMAIN d : d[i] = Data(u[i].id, u[i].len)
    <2> TAKE i \in DOMAIN d
    <2>1. i \in DOMAIN w BY <1>5, <1>6
    <2> QED BY <1>1, <1>4, <2>1 DEF Returns
  <1>14. Returns(u, d, s) BY <1>11, <1>12, <1>13 DEF Returns
  <1> QED BY <1>1, <1>3, <1>8, <1>9, <1>14 DEF Following, s, u

\* At an aligned position of the file there is the start of an event, or a gap.
LEMMA EventOrGap ==
  ASSUME NEW w \in Seq(Entries), NEW s \in Nat, Aligned(w, s)
  PROVE  (\E i \in DOMAIN w : w[i].at = s) \/ Gap(w, s)
  <1> SUFFICES ASSUME NEW i \in DOMAIN w, Inside(w[i], s) PROVE w[i].at = s BY DEF Gap
  <1>1. w[i].at \in Nat BY EntryOf, EntryFacts
  <1>2. ~(w[i].at < s) /\ w[i].at <= s BY DEF Aligned, Inside
  <1> QED BY <1>1, <1>2

\* The event at the reader's place is the next one to return.
LEMMA NextEvent ==
  ASSUME NEW w \in Seq(Entries), InSequence(w), NEW s \in Nat, NEW d \in Seq(Seq(Byte)),
         Returns(w, d, s), NEW i \in DOMAIN w, w[i].at = s
  PROVE  i = Len(d) + 1
  <1>1. Len(w) \in Nat /\ DOMAIN w = 1 .. Len(w) BY EntryOf
  <1>2. Len(d) \in Nat OBVIOUS
  <1>3. ~(i <= Len(d)) BY DEF Returns
  <1>4. SUFFICES ASSUME Len(d) + 1 < i PROVE FALSE BY <1>1, <1>2, <1>3
  <1> DEFINE j == Len(d) + 1
  <1>5. j \in DOMAIN w /\ ~(j <= Len(d)) /\ j < i BY <1>1, <1>2, <1>4
  <1> HIDE DEF j
  <1>6. End(w[j]) <= s BY <1>5 DEF InSequence
  <1>7. /\ w[j].at \in Nat /\ w[j].len \in Nat /\ End(w[j]) = w[j].at + w[j].len + 4
    BY <1>5, EntryOf, EntryFacts
  <1>8. w[j].at < s BY <1>6, <1>7
  <1> QED BY <1>5, <1>8 DEF Returns

\* The reader goes on over a gap.
LEMMA PassGap ==
  ASSUME NEW w \in Seq(Entries), NEW s \in Nat, NEW t \in Nat, s <= t, NEW d,
         Aligned(w, s), Returns(w, d, s),
         \A p \in Nat : s <= p /\ p < t => Gap(w, p)
  PROVE  Aligned(w, t) /\ Returns(w, d, t)
  <1>1. ASSUME NEW i \in DOMAIN w PROVE w[i].at < t <=> w[i].at < s
    <2>1. /\ w[i].at \in Nat /\ w[i].len \in Nat /\ End(w[i]) = w[i].at + w[i].len + 4
      BY EntryOf, EntryFacts
    <2>2. Inside(w[i], w[i].at) BY <2>1 DEF Inside
    <2>3. ~(s <= w[i].at /\ w[i].at < t) BY <2>1, <2>2 DEF Gap
    <2> QED BY <2>1, <2>3
  <1>2. ASSUME NEW i \in DOMAIN w, w[i].at < t, t < End(w[i]) PROVE FALSE
    <2>1. End(w[i]) \in Nat BY EntryOf, EntryFacts
    <2>2. s < End(w[i]) BY <1>2, <2>1
    <2> QED BY <1>1, <1>2, <2>2 DEF Aligned
  <1>3. Aligned(w, t) BY <1>2 DEF Aligned
  <1>4. Returns(w, d, t) BY <1>1 DEF Returns
  <1> QED BY <1>3, <1>4

\* The reader goes on over an event, which it returns.
LEMMA PassEvent ==
  ASSUME NEW w \in Seq(Entries), InSequence(w), NEW d \in Seq(Seq(Byte)), NEW v \in Seq(Byte),
         NEW s \in Nat, Returns(w, d, s),
         NEW i \in DOMAIN w, i = Len(d) + 1, w[i].at = s, v = Data(w[i].id, w[i].len)
  PROVE  Aligned(w, End(w[i])) /\ Returns(w, Append(d, v), End(w[i]))
  <1> DEFINE t == End(w[i])
             u == Append(d, v)
  <1>1. Len(w) \in Nat /\ DOMAIN w = 1 .. Len(w) BY EntryOf
  <1>2. /\ Len(d) \in Nat /\ Len(u) = Len(d) + 1 /\ DOMAIN u = 1 .. Len(u)
        /\ \A j \in DOMAIN d : u[j] = d[j]
        /\ DOMAIN d = 1 .. Len(d)
        /\ u[Len(d) + 1] = v
    OBVIOUS
  <1>3. w[i].len \in Nat /\ t = s + w[i].len + 4 BY EntryOf, EntryFacts
  <1> HIDE DEF u, t
  <1>4. t \in Nat /\ s < t BY <1>3
  <1>5. ASSUME NEW j \in DOMAIN w
        PROVE  /\ j <= Len(u) <=> w[j].at < t
               /\ ~(w[j].at < t /\ t < End(w[j]))
    <2>1. /\ w[j].at \in Nat /\ w[j].len \in Nat /\ End(w[j]) = w[j].at + w[j].len + 4
          /\ End(w[j]) \in Nat
      BY EntryOf, EntryFacts
    <2>2. CASE j < i
      <3>1. End(w[j]) <= s BY <2>2 DEF InSequence
      <3>2. j <= Len(u) BY <1>1, <1>2, <2>2
      <3> QED BY <1>4, <2>1, <3>1, <3>2
    <2>3. CASE j = i
      <3>1. j <= Len(u) BY <1>1, <1>2, <2>3
      <3>2. w[j].at = s /\ End(w[j]) = t BY <2>3 DEF t
      <3> QED BY <1>4, <3>1, <3>2
    <2>4. CASE i < j
      <3>1. t <= w[j].at BY <2>4 DEF InSequence, t
      <3>2. ~(j <= Len(u)) BY <1>1, <1>2, <2>4
      <3> QED BY <1>4, <2>1, <3>1, <3>2
    <2> QED BY <1>1, <2>2, <2>3, <2>4
  <1>6. Aligned(w, t) BY <1>5 DEF Aligned
  <1>7. Len(u) <= Len(w) BY <1>1, <1>2
  <1>8. ASSUME NEW j \in DOMAIN u PROVE u[j] = Data(w[j].id, w[j].len)
    <2>1. j \in DOMAIN d \/ j = Len(d) + 1 BY <1>2
    <2>2. CASE j \in DOMAIN d BY <1>2, <2>2 DEF Returns
    <2>3. CASE j = Len(d) + 1 BY <1>2, <2>3
    <2> QED BY <2>1, <2>2, <2>3
  <1>9. Returns(w, u, t) BY <1>5, <1>7, <1>8 DEF Returns
  <1> QED BY <1>6, <1>9 DEF t, u

\* An event has room for its size in its chunk.
LEMMA SizeFits ==
  ASSUME NEW e \in Entries, ~Crosses(e)
  PROVE  Chunk(e.at) = Chunk(e.at + 3)
  <1>1. e.at \in Nat /\ e.len \in Nat BY EntryFacts
  <1>2. Chunk(e.at) = Chunk(e.at + e.len + 3) BY DEF Crosses
  <1>3. /\ e.at + 3 \in Nat /\ e.at + e.len + 3 \in Nat
        /\ e.at <= e.at + 3 /\ e.at + 3 <= e.at + e.len + 3
    BY <1>1
  <1> QED BY <1>1, <1>2, <1>3, ChunkConvex

\* At the end of a file without damage the reader has nothing of an event.
LEMMA NothingAtEnd ==
  ASSUME NEW f \in Seq(Byte), NEW w \in Seq(Entries), NEW r, NEW d \in Seq(Seq(Byte)),
         Sound(f, r), Layout(f, w), Following(f, w, r, d), r.offset + r.ptr = Len(f)
  PROVE  r.sizeBuff = <<>> /\ r.size = 0 /\ r.event = <<>>
  <1> DEFINE s == Start(r)
             m == Len(r.sizeBuff)
             v == Len(r.event)
  <1>1. Buffered(f, r) /\ Partial(r) BY DEF Sound
  <1>2. /\ m \in Nat /\ v \in Nat /\ Len(f) \in Nat /\ r.size \in Nat
        /\ s + m + v = Len(f) /\ r.sizeBuff \in Seq(Byte)
    BY <1>1, Place
  <1>3. /\ s \in Nat /\ Aligned(w, s) /\ SizeRead(f, r, s) /\ DataRead(w, r, d, s)
    BY DEF Following
  <1>4. EventsLaid(f, w) /\ GapsLaid(f, w) BY DEF Layout
  <1>5. /\ r.size = 0 => m < 4 /\ r.event = <<>>
        /\ r.size > 0 => m = 4 /\ v < r.size
    BY <1>1 DEF Partial
  <1>6. ASSUME r.event = <<>> PROVE v = 0 BY <1>6
  <1>7. m = 0 => r.sizeBuff = <<>> BY <1>2, EmptySeq
  <1>8. ASSUME NEW i \in DOMAIN w, w[i].at = s PROVE s + w[i].len + 4 <= Len(f) /\ w[i].len \in Nat
    <2>1. End(w[i]) = w[i].at + w[i].len + 4 /\ w[i].len \in Nat BY EntryOf, EntryFacts
    <2>2. End(w[i]) <= Len(f) BY <1>4 DEF EventsLaid
    <2> QED BY <1>8, <2>1, <2>2
  <1>9. r.size = 0
    <2> SUFFICES ASSUME r.size > 0 PROVE FALSE BY <1>2
    <2> DEFINE i == Len(d) + 1
    <2>1. i \in DOMAIN w /\ w[i].at = s /\ r.size = w[i].len BY <1>3 DEF DataRead
    <2>2. s + r.size + 4 <= Len(f) BY <1>8, <2>1
    <2>3. m = 4 /\ v < r.size BY <1>5
    <2> HIDE DEF s, m, v
    <2> QED BY <1>2, <1>3, <2>2, <2>3
  <1>10. m < 4 /\ r.event = <<>> /\ v = 0 BY <1>5, <1>6, <1>9
  <1>11. r.sizeBuff = <<>>
    <2> SUFFICES ASSUME r.sizeBuff # <<>> PROVE FALSE OBVIOUS
    <2>1. m > 0 BY <1>2, <1>7
    <2>2. Chunk(s) = Chunk(s + 3) BY <1>3 DEF SizeRead
    <2> HIDE DEF s, m, v
    <2>3. s + m = Len(f) BY <1>2, <1>3, <1>10
    <2>4. CASE \E i \in DOMAIN w : w[i].at = s
      <3>1. PICK i \in DOMAIN w : w[i].at = s BY <2>4
      <3>2. s + w[i].len + 4 <= Len(f) /\ w[i].len \in Nat BY <1>8, <3>1
      <3> QED BY <1>2, <1>3, <1>10, <2>3, <3>2
    <2>5. CASE Gap(w, s)
      <3>1. s \in 0 .. Len(f) - 1 /\ s + 3 \in Nat /\ s <= s + 3 BY <1>2, <1>3, <2>1, <2>3
      <3>2. s + 3 < Len(f) BY <1>4, <2>2, <2>5, <3>1 DEF GapsLaid
      <3> QED BY <1>2, <1>3, <1>10, <2>3, <3>2
    <2> QED BY <1>3, <2>4, <2>5, EventOrGap
  <1> QED BY <1>9, <1>10, <1>11

\* A round that fills the buffer, or finds the end of the file.
LEMMA FollowRefill ==
  ASSUME NEW f \in Seq(Byte), NEW w \in Seq(Entries), NEW r, NEW d \in Seq(Seq(Byte)),
         Sound(f, r), Layout(f, w), Following(f, w, r, d), NEW t \in BOOLEAN,
         r.ptr = Len(r.buf)
  PROVE  LET q == Refill(f, r)
         IN q.status \in {"reading", "eof"} /\ Following(f, w, Settled(f, q, t), d)
  <1> DEFINE q == Refill(f, r)
             x == Settled(f, q, t)
  <1>1. Buffered(f, r) /\ Partial(r) /\ r.status = "reading" BY DEF Sound, Following
  <1>2. /\ Buffered(f, q)
        /\ q.offset = r.offset + Len(r.buf) /\ q.ptr = 0
        /\ SameSize(q, r)
        /\ q.buf = <<>> => q.offset = Len(f) /\ q.status = "eof"
        /\ q.buf # <<>> => q.status = r.status
    BY <1>1, RefillFields
  <1> HIDE DEF q
  <1>3. q.status \in {"reading", "eof"} BY <1>1, <1>2
  <1>4. x.status = "reading" /\ x.offset = q.offset /\ x.ptr = 0 /\ SameSize(x, r)
    <2>1. CASE q.buf # <<>>
      <3>1. x = q BY <1>1, <1>2, <2>1, SettledCases
      <3> QED BY <1>1, <1>2, <2>1, <3>1
    <2>2. CASE q.buf = <<>>
      <3>1. q.status = "eof" /\ q.offset = Len(f) BY <1>2, <2>2
      <3>2. x = [(IF t THEN q ELSE resetState(q, 0)) EXCEPT !.status = "reading"]
        BY <3>1, SettledCases
      <3>3. Partial(q) BY <1>1, <1>2 DEF Partial, SameSize
      <3> HIDE DEF x
      <3>4. /\ x.offset = q.offset /\ x.ptr = q.ptr /\ x.status = "reading"
            /\ t => SameSize(x, q)
            /\ ~t => x.sizeBuff = <<>> /\ x.size = 0 /\ x.event = <<>>
        BY <1>2, <3>2, <3>3, EofFields
      <3>5. r.sizeBuff = <<>> /\ r.size = 0 /\ r.event = <<>> BY <1>2, <3>1, NothingAtEnd
      <3>6. SameSize(x, r) BY <1>2, <3>4, <3>5 DEF SameSize
      <3> QED BY <1>2, <3>4, <3>6
    <2> QED BY <2>1, <2>2
  <1> HIDE DEF x
  <1>5. Start(x) = Start(r)
    <2>1. r.offset \in Nat /\ r.ptr \in Nat BY <1>1, Place
    <2>2. x.offset + x.ptr = r.offset + r.ptr BY <1>2, <1>4, <2>1
    <2>3. x.sizeBuff = r.sizeBuff /\ x.event = r.event BY <1>4 DEF SameSize
    <2> QED BY <2>2, <2>3, Zenon DEF Start
  <1>6. Following(f, w, x, d)
    BY <1>4, <1>5 DEF Following, SameSize, SizeRead, DataRead
  <1> QED BY <1>3, <1>6 DEF q, x

\* A round that skips a byte at the end of a chunk: no event begins there.
LEMMA FollowSkips ==
  ASSUME NEW f \in Seq(Byte), NEW w \in Seq(Entries), NEW r, NEW d \in Seq(Seq(Byte)), NEW q,
         Sound(f, r), Layout(f, w), Following(f, w, r, d), r.size = 0, r.ptr < Len(r.buf),
         Skips(r), Buffered(f, q), q.offset = r.offset, q.ptr = r.ptr + 1, SameSize(q, r),
         q.status = "reading"
  PROVE  Following(f, w, q, d)
  <1> DEFINE s == Start(r)
  <1>1. Buffered(f, r) /\ r.event = <<>> /\ r.sizeBuff = <<>> BY DEF Sound, Partial, Skips
  <1>2. r.offset \in Nat /\ r.ptr \in Nat /\ r.offset + r.ptr < Len(f) /\ Len(f) \in Nat
    BY <1>1, Place, BytesOn
  <1>3. Len(<<>>) = 0 OBVIOUS
  <1>4. s = r.offset + r.ptr BY <1>1, <1>2, <1>3 DEF Start
  <1>5. q.sizeBuff = <<>> /\ q.event = <<>> /\ q.size = 0 BY <1>1 DEF SameSize
  <1>6. Start(q) = s + 1 BY <1>2, <1>3, <1>4, <1>5 DEF Start
  <1>7. s \in Nat /\ Aligned(w, s) /\ Returns(w, d, s) BY DEF Following
  <1>8. Chunk(s) # Chunk(s + 3) BY <1>4 DEF Skips
  <1> HIDE DEF s
  <1>9. Gap(w, s)
    <2> SUFFICES ASSUME NEW i \in DOMAIN w, w[i].at = s PROVE FALSE BY <1>7, EventOrGap
    <2>1. w[i] \in Entries /\ ~Crosses(w[i]) BY EntryOf DEF Layout, EventsLaid
    <2>2. Chunk(s) = Chunk(s + 3) BY <2>1, SizeFits
    <2> QED BY <1>8, <2>2
  <1>10. \A p \in Nat : s <= p /\ p < s + 1 => Gap(w, p)
    <2> SUFFICES ASSUME NEW p \in Nat, s <= p, p < s + 1 PROVE Gap(w, p) OBVIOUS
    <2>1. p = s BY <1>7
    <2> QED BY <1>9, <2>1
  <1>11. Aligned(w, s + 1) /\ Returns(w, d, s + 1)
    <2>1. s + 1 \in Nat /\ s <= s + 1 BY <1>7
    <2> QED BY <1>7, <1>10, <2>1, PassGap
  <1>12. s + 1 \in Nat BY <1>7
  <1>13. SizeRead(f, q, s + 1)
    <2>1. \A k \in 1 .. Len(q.sizeBuff) : FALSE BY <1>3, <1>5
    <2> QED BY <1>5, <2>1 DEF SizeRead
  <1>14. DataRead(w, q, d, s + 1) BY <1>5 DEF DataRead
  <1> QED BY <1>6, <1>11, <1>12, <1>13, <1>14 DEF Following

\* A byte more of a size, which is not skipped.
ReadsSize(f, r) ==
  /\ Buffered(f, r) /\ r.event = <<>> /\ r.ptr < Len(r.buf) /\ ~Skips(r)
  /\ Start(r) \in Nat /\ SizeRead(f, r, Start(r))

SizeGets(f, r, b, s) ==
  /\ b \in Seq(Byte) /\ Len(b) \in Nat
  /\ s + Len(b) = r.offset + r.ptr + 1 /\ s + Len(b) <= Len(f)
  /\ Chunk(s) = Chunk(s + 3)
  /\ \A k \in 1 .. Len(b) : b[k] = f[s + k]

LEMMA SizeByte ==
  ASSUME NEW f \in Seq(Byte), NEW r, ReadsSize(f, r)
  PROVE  SizeGets(f, r, Append(r.sizeBuff, r.buf[r.ptr + 1]), Start(r))
  <1> DEFINE b == Append(r.sizeBuff, r.buf[r.ptr + 1])
             s == Start(r)
             m == Len(r.sizeBuff)
             p == r.offset + r.ptr
  <1>1. Buffered(f, r) /\ r.event = <<>> /\ r.ptr < Len(r.buf) BY DEF ReadsSize
  <1>2. Len(r.event) = 0
    <2>1. Len(<<>>) = 0 OBVIOUS
    <2> QED BY <1>1, <2>1
  <1>3. /\ m \in Nat /\ Len(f) \in Nat /\ r.sizeBuff \in Seq(Byte) /\ s \in Int
        /\ s + m + Len(r.event) = p /\ r.offset \in Nat /\ r.ptr \in Nat
    BY <1>1, Place
  <1>4. s \in Nat /\ SizeRead(f, r, s) BY DEF ReadsSize
  <1>5. /\ r.buf[r.ptr + 1] \in Byte /\ r.buf[r.ptr + 1] = f[p + 1] /\ p < Len(f)
    BY <1>1, BytesOn
  <1>6. /\ b \in Seq(Byte) /\ Len(b) = m + 1
        /\ \A k \in 1 .. m : b[k] = r.sizeBuff[k]
        /\ b[m + 1] = f[p + 1]
    BY <1>3, <1>5, Appended
  <1>7. p \in Nat BY <1>3
  <1>8. r.sizeBuff = <<>> <=> m = 0 BY <1>3, EmptySeq
  <1>9. r.sizeBuff = <<>> => Chunk(p) = Chunk(p + 3) BY DEF ReadsSize, Skips
  <1> HIDE DEF b, s, m, p
  <1>10. s + m = p BY <1>2, <1>3, <1>4, <1>7
  <1>11. s + Len(b) = p + 1 /\ s + Len(b) <= Len(f)
    <2>1. s + Len(b) = s + (m + 1) BY <1>6, Zenon
    <2>2. s + (m + 1) = s + m + 1 BY <1>3, <1>4, OneMore, Zenon
    <2>3. s + Len(b) = p + 1 BY <1>10, <2>1, <2>2, Zenon
    <2>4. p + 1 <= Len(f) BY <1>3, <1>5, <1>7
    <2> QED BY <2>3, <2>4, Zenon
  <1>12. Chunk(s) = Chunk(s + 3)
    <2>1. CASE r.sizeBuff = <<>>
      <3>1. p = s BY <1>4, <1>8, <1>10, <2>1
      <3> QED BY <1>9, <2>1, <3>1
    <2>2. CASE r.sizeBuff # <<>> BY <1>4, <2>2 DEF SizeRead
    <2> QED BY <2>1, <2>2
  <1>13. ASSUME NEW k \in 1 .. Len(b) PROVE b[k] = f[s + k]
    <2>1. CASE k \in 1 .. m BY <1>4, <1>6, <2>1 DEF SizeRead, m
    <2>2. CASE k = m + 1
      <3>1. s + k = p + 1 BY <1>3, <1>4, <1>10, <2>2
      <3> QED BY <1>6, <2>2, <3>1
    <2> QED BY <1>3, <1>6, <2>1, <2>2
  <1>14. Len(b) \in Nat BY <1>3, <1>6
  <1> QED BY <1>6, <1>11, <1>12, <1>13, <1>14 DEF SizeGets, b, s, p

\* The size of the event that begins at s, and of what begins there in a gap.
LEMMA SizeOf ==
  ASSUME NEW f \in Seq(Byte), NEW w \in Seq(Entries), Layout(f, w), NEW b \in Seq(Byte),
         NEW s \in Nat, Len(b) = 4, s + 4 <= Len(f), Chunk(s) = Chunk(s + 3),
         \A k \in 1 .. 4 : b[k] = f[s + k]
  PROVE  /\ \A i \in DOMAIN w : w[i].at = s => getEventSize(b) = w[i].len
         /\ Gap(w, s) => getEventSize(b) = 0 /\ \A p \in Nat : s <= p /\ p < s + 4 => Gap(w, p)
  <1>0. Len(f) \in Nat BY EmptySeq
  <1>1. b[1] = f[s + 1] /\ b[2] = f[s + 2] /\ b[3] = f[s + 3] /\ b[4] = f[s + 4]
    <2>1. 1 \in 1 .. 4 /\ 2 \in 1 .. 4 /\ 3 \in 1 .. 4 /\ 4 \in 1 .. 4 OBVIOUS
    <2> QED BY <2>1
  <1>2. ASSUME NEW i \in DOMAIN w, w[i].at = s PROVE getEventSize(b) = w[i].len
    <2> DEFINE e == Event(w[i].id, w[i].len)
    <2>1. /\ w[i].id \in 1 .. MaxEvents /\ w[i].len \in Lengths /\ w[i].len \in Nat
      BY EntryOf, EntryFacts
    <2>2. getEventSize(e) = w[i].len BY <2>1, EventFields
    <2>3. \A k \in 1 .. w[i].len + 4 : f[s + k] = e[k] BY <1>2 DEF Layout, EventsLaid
    <2>4. \A k \in 1 .. 4 : k \in 1 .. w[i].len + 4 BY <2>1
    <2> HIDE DEF e
    <2>5. \A k \in 1 .. 4 : f[s + k] = e[k] BY <2>3, <2>4
    <2>6. \A k \in 1 .. 4 : b[k] = e[k] BY <2>5
    <2>7. b[1] = e[1] /\ b[2] = e[2] /\ b[3] = e[3] /\ b[4] = e[4] BY <2>6
    <2>8. getEventSize(b) = getEventSize(e) BY <2>7 DEF getEventSize
    <2> QED BY <2>2, <2>8
  <1>3. ASSUME Gap(w, s) PROVE getEventSize(b) = 0 /\ \A p \in Nat : s <= p /\ p < s + 4 => Gap(w, p)
    <2>1. s \in 0 .. Len(f) - 1 BY <1>0
    <2>2. ASSUME NEW p \in Nat, s <= p, p < s + 4 PROVE f[p + 1] = 0 /\ Gap(w, p)
      <3>1. s + 3 \in Nat /\ p <= s + 3 BY <2>2
      <3>2. Chunk(p) = Chunk(s) BY <2>2, <3>1, ChunkConvex
      <3> QED BY <1>3, <2>1, <2>2, <3>2 DEF Layout, GapsLaid
    <2>3. ASSUME NEW k \in 1 .. 4 PROVE b[k] = 0
      <3> DEFINE p == s + k - 1
      <3>1. p \in Nat /\ s <= p /\ p < s + 4 /\ p + 1 = s + k OBVIOUS
      <3> HIDE DEF p
      <3>2. f[p + 1] = 0 BY <2>2, <3>1
      <3> QED BY <3>1, <3>2
    <2>4. b[1] = 0 /\ b[2] = 0 /\ b[3] = 0 /\ b[4] = 0 BY <2>3
    <2>5. getEventSize(b) = 0 BY <2>4, SMT DEF getEventSize
    <2> QED BY <2>2, <2>5
  <1> QED BY <1>2, <1>3

\* A round that reads a byte of a size.
LEMMA FollowSize ==
  ASSUME NEW f \in Seq(Byte), NEW w \in Seq(Entries), NEW r, NEW d \in Seq(Seq(Byte)),
         Sound(f, r), Layout(f, w), Following(f, w, r, d), r.size = 0, r.ptr < Len(r.buf)
  PROVE  SizeStep(r).status = "reading" /\ Following(f, w, SizeStep(r), d)
  <1> DEFINE q == SizeStep(r)
             b == Append(r.sizeBuff, r.buf[r.ptr + 1])
             s == Start(r)
  <1>1. Buffered(f, r) /\ Partial(r) /\ r.status = "reading" BY DEF Sound, Following
  <1>2. /\ Buffered(f, q) /\ SameBuffer(q, r) /\ q.ptr = r.ptr + 1 /\ q.event = <<>>
        /\ \/ Skips(r) /\ SameSize(q, r) /\ q.status = "reading"
           \/ ~Skips(r) /\ Len(b) < 4 /\ q.sizeBuff = b /\ q.size = 0 /\ q.status = "reading"
           \/ /\ ~Skips(r) /\ Len(b) = 4 /\ getEventSize(b) = 0
              /\ q.sizeBuff = <<>> /\ q.size = 0 /\ q.status = "reading"
           \/ /\ ~Skips(r) /\ Len(b) = 4 /\ getEventSize(b) > 0
              /\ q.sizeBuff = b /\ q.size = getEventSize(b)
              /\ q.status = IF isEventCorrupted(q.offset + q.ptr, q.size)
                            THEN "corrupt" ELSE "reading"
    BY <1>1, SizeStepFields
  <1> HIDE DEF q
  <1>3. q.offset = r.offset BY <1>2 DEF SameBuffer
  <1>4. CASE Skips(r)
    <2>1. SameSize(q, r) /\ q.status = "reading" BY <1>2, <1>4
    <2> QED BY <1>2, <1>3, <1>4, <2>1, FollowSkips DEF q
  <1>5. CASE ~Skips(r)
    <2>1. s \in Nat /\ Aligned(w, s) /\ Returns(w, d, s) BY DEF Following
    <2>2. /\ b \in Seq(Byte) /\ Len(b) \in Nat
          /\ s + Len(b) = r.offset + r.ptr + 1 /\ s + Len(b) <= Len(f)
          /\ Chunk(s) = Chunk(s + 3)
          /\ \A k \in 1 .. Len(b) : b[k] = f[s + k]
      <3>1. r.event = <<>> BY <1>1 DEF Partial
      <3>2. SizeRead(f, r, s) BY DEF Following
      <3>3. ReadsSize(f, r) BY <1>1, <1>5, <2>1, <3>1, <3>2 DEF ReadsSize
      <3>4. SizeGets(f, r, b, s) BY <3>3, SizeByte
      <3> HIDE DEF b, s
      <3> QED BY <3>4 DEF SizeGets
    <2>3. Len(q.event) = 0
      <3>1. Len(<<>>) = 0 OBVIOUS
      <3> QED BY <1>2, <3>1
    <2>4. q.offset + q.ptr = s + Len(b)
      <3>1. r.offset \in Nat /\ r.ptr \in Nat BY <1>1, Place
      <3>2. q.ptr = r.ptr + 1 BY <1>2
      <3>3. q.offset + q.ptr = r.offset + (r.ptr + 1) BY <1>3, <3>2, Zenon
      <3>4. r.offset + (r.ptr + 1) = r.offset + r.ptr + 1 BY <3>1, OneMore, Zenon
      <3> QED BY <2>2, <3>3, <3>4
    <2> HIDE DEF b, s
    <2>5. Start(q) = s + Len(b) - Len(q.sizeBuff)
      <3> DEFINE m == Len(q.sizeBuff)
                 p == q.offset + q.ptr
      <3>1. m \in Nat BY <1>2, Place
      <3>2. Start(q) = p - m - 0 BY <2>3 DEF Start
      <3>3. p = s + Len(b) BY <2>4
      <3> HIDE DEF m, p
      <3>4. Start(q) = s + Len(b) - m BY <2>1, <2>2, <3>1, <3>2, <3>3
      <3> QED BY <3>4 DEF m
    <2>6. ASSUME q.sizeBuff = b PROVE Start(q) = s /\ SizeRead(f, q, s)
      <3>1. Start(q) = s + Len(b) - Len(b) BY <2>5, <2>6
      <3>2. Start(q) = s BY <2>1, <2>2, <3>1
      <3> QED BY <2>2, <2>6, <3>2 DEF SizeRead
    <2>7. CASE Len(b) < 4
      <3>0. Len(b) # 4
        <4>1. ~(4 < 4) OBVIOUS
        <4> QED BY <2>7, <4>1, Zenon
      <3>1. q.sizeBuff = b /\ q.size = 0 /\ q.status = "reading" BY <1>2, <1>5, <3>0 DEF b
      <3>2. DataRead(w, q, d, s) BY <3>1 DEF DataRead
      <3>3. Start(q) = s /\ SizeRead(f, q, s) BY <2>6, <3>1
      <3> QED BY <2>1, <3>1, <3>2, <3>3 DEF Following, q
    <2>8. ASSUME Len(b) = 4
          PROVE  /\ \A i \in DOMAIN w : w[i].at = s => getEventSize(b) = w[i].len
                 /\ Gap(w, s) => /\ getEventSize(b) = 0
                                 /\ \A p \in Nat : s <= p /\ p < s + 4 => Gap(w, p)
      <3>1. s + 4 <= Len(f) BY <2>2, <2>8
      <3>2. \A k \in 1 .. 4 : b[k] = f[s + k] BY <2>2, <2>8
      <3> QED BY <2>1, <2>2, <2>8, <3>1, <3>2, SizeOf
    <2>9. CASE Len(b) = 4 /\ Gap(w, s)
      <3>1. getEventSize(b) = 0 /\ \A p \in Nat : s <= p /\ p < s + 4 => Gap(w, p) BY <2>8, <2>9
      <3>2. q.sizeBuff = <<>> /\ q.size = 0 /\ q.status = "reading" BY <1>2, <1>5, <2>9, <3>1
      <3>3. s + 4 \in Nat /\ s <= s + 4 BY <2>1
      <3>4. Aligned(w, s + 4) /\ Returns(w, d, s + 4) BY <2>1, <3>1, <3>3, PassGap
      <3>5. Len(q.sizeBuff) = 0
        <4>1. Len(<<>>) = 0 OBVIOUS
        <4> QED BY <3>2, <4>1
      <3>6. Start(q) = s + 4
        <4>1. Start(q) = s + 4 - 0 BY <2>5, <2>9, <3>5
        <4> QED BY <2>1, <4>1
      <3>7. SizeRead(f, q, s + 4)
        <4>1. \A k \in 1 .. Len(q.sizeBuff) : FALSE BY <3>5
        <4> QED BY <3>2, <4>1 DEF SizeRead
      <3>8. DataRead(w, q, d, s + 4) BY <3>2 DEF DataRead
      <3> QED BY <3>2, <3>3, <3>4, <3>6, <3>7, <3>8 DEF Following, q
    <2>10. CASE Len(b) = 4 /\ ~Gap(w, s)
      <3>1. PICK i \in DOMAIN w : w[i].at = s BY <2>1, <2>10, EventOrGap
      <3>2. i = Len(d) + 1 BY <2>1, <3>1, NextEvent DEF Layout
      <3>3. /\ w[i].len \in Nat /\ w[i].len > 0 /\ w[i].len + 4 <= ChunkSize
            /\ ~Crosses(w[i])
        BY EntryOf, EntryFacts DEF Layout, EventsLaid
      <3>4. getEventSize(b) = w[i].len BY <2>8, <2>10, <3>1
      <3>5. /\ q.sizeBuff = b /\ q.size = w[i].len
            /\ q.status = IF isEventCorrupted(q.offset + q.ptr, q.size) THEN "corrupt" ELSE "reading"
        BY <1>2, <1>5, <2>10, <3>3, <3>4
      <3>6. ~isEventCorrupted(q.offset + q.ptr, q.size)
        <4> DEFINE p == q.offset + q.ptr
                   n == w[i].len
        <4>1. p = s + 4 BY <2>4, <2>10
        <4>2. Chunk(s) = Chunk(s + n + 3) BY <3>1, <3>3 DEF Crosses
        <4>3. n \in Nat /\ n + 4 <= ChunkSize /\ q.size = n BY <3>3, <3>5
        <4> HIDE DEF p, n
        <4>4. p - 4 = s /\ p + n - 1 = s + n + 3 BY <2>1, <4>1, <4>3
        <4>5. ~(n > ChunkSize) BY <4>3, Constants
        <4>6. ~isEventCorrupted(p, n) BY <4>2, <4>4, <4>5 DEF isEventCorrupted
        <4> QED BY <4>3, <4>6 DEF p
      <3>7. q.status = "reading" BY <3>5, <3>6
      <3>8. Start(q) = s /\ SizeRead(f, q, s) BY <2>6, <3>5
      <3>9. DataRead(w, q, d, s)
        <4>1. \A k \in 1 .. Len(q.event) : FALSE BY <2>3
        <4> QED BY <3>1, <3>2, <3>5, <4>1 DEF DataRead
      <3> QED BY <2>1, <3>7, <3>8, <3>9 DEF Following, q
    <2>11. Len(b) < 4 \/ Len(b) = 4 BY <1>2, <1>5
    <2> QED BY <2>7, <2>9, <2>10, <2>11
  <1> QED BY <1>4, <1>5

\* A round that copies data of an event, and perhaps returns it.
LEMMA FollowData ==
  ASSUME NEW f \in Seq(Byte), NEW w \in Seq(Entries), NEW r, NEW d \in Seq(Seq(Byte)),
         Sound(f, r), Layout(f, w), Following(f, w, r, d), r.size > 0, r.ptr < Len(r.buf),
         NEW t \in BOOLEAN
  PROVE  LET q == DataStep(r)
         IN /\ q.status \in {"reading", "event"}
            /\ Following(f, w, Settled(f, q, t), IF q.status = "event" THEN Append(d, q.event) ELSE d)
  <1> DEFINE q == DataStep(r)
             s == Start(r)
             i == Len(d) + 1
             a == Len(r.event)
             p == r.offset + r.ptr
  <1>1. Buffered(f, r) /\ Partial(r) /\ r.status = "reading" BY DEF Sound, Following
  <1>2. /\ Buffered(f, q) /\ SameBuffer(q, r)
        /\ q.sizeBuff = r.sizeBuff /\ q.size = r.size
        /\ \E n \in Nat : Copies(f, r, q, n)
        /\ Len(q.event) <= q.size
        /\ q.status = IF Len(q.event) = q.size THEN "event" ELSE "reading"
    BY <1>1, DataStepFields
  <1> HIDE DEF q
  <1>3. PICK n \in Nat : Copies(f, r, q, n) BY <1>2
  <1>4. /\ s \in Nat /\ Aligned(w, s) /\ Returns(w, d, s) /\ SizeRead(f, r, s)
        /\ DataRead(w, r, d, s)
    BY DEF Following
  <1>5. /\ i \in DOMAIN w /\ s = w[i].at /\ r.size = w[i].len
        /\ \A k \in 1 .. a : r.event[k] = Data(w[i].id, w[i].len)[k]
    BY <1>4 DEF DataRead
  <1>6. /\ w[i].id \in 1 .. MaxEvents /\ w[i].len \in Lengths /\ w[i].len \in Nat
        /\ End(w[i]) = w[i].at + w[i].len + 4
    BY <1>5, EntryOf, EntryFacts
  <1> DEFINE l == w[i].len
             v == Data(w[i].id, l)
             e == Event(w[i].id, l)
  <1>7. /\ \A k \in 1 .. l + 4 : f[s + k] = e[k]
        /\ \A k \in 1 .. l : e[k + 4] = v[k]
    BY <1>5, <1>6, EventFields DEF Layout, EventsLaid
  <1>8. v \in Seq(Byte) /\ Len(v) = l
    <2>1. v \in [1 .. l -> Byte] BY <1>6, DataAssumption
    <2> QED BY <1>6, <2>1, FunctionSeq
  <1>9. /\ a \in Nat /\ r.offset \in Nat /\ r.ptr \in Nat /\ s + 4 + a = p
    <2>1. Len(r.sizeBuff) = 4 BY <1>1 DEF Partial
    <2>2. s + Len(r.sizeBuff) + a = p BY <1>1, Place
    <2>3. a \in Nat /\ r.offset \in Nat /\ r.ptr \in Nat BY <1>1, Place
    <2> HIDE DEF s, a, p
    <2> QED BY <2>1, <2>2, <2>3
  <1>10. /\ q.ptr = r.ptr + n /\ Len(q.event) = a + n
         /\ \A k \in 1 .. a : q.event[k] = r.event[k]
         /\ \A k \in 1 .. n : q.event[a + k] = f[p + k]
    BY <1>3 DEF Copies
  <1>11. a + n <= l /\ q.event \in Seq(Byte) /\ l \in Nat
    <2>1. Len(q.event) <= l BY <1>2, <1>5
    <2> QED BY <1>2, <1>6, <1>10, <2>1, Place
  <1> HIDE DEF s, a, p, i, v, e, l
  <1>12. ASSUME NEW k \in 1 .. a + n PROVE q.event[k] = v[k]
    <2>1. CASE k \in 1 .. a BY <1>5, <1>10, <2>1 DEF v, l
    <2>2. CASE k \notin 1 .. a
      <3> DEFINE j == k - a
      <3>1. j \in 1 .. n /\ a + j = k /\ p + j = s + (k + 4) /\ k \in 1 .. l /\ k + 4 \in 1 .. l + 4
        BY <1>4, <1>9, <1>11, <2>2
      <3> HIDE DEF j
      <3>2. q.event[k] = f[s + (k + 4)] BY <1>10, <3>1
      <3> QED BY <1>7, <3>1, <3>2
    <2> QED BY <2>1, <2>2
  <1>13. q.offset = r.offset BY <1>2 DEF SameBuffer
  <1>14. q.offset + q.ptr = p + n BY <1>9, <1>10, <1>13 DEF p
  <1>15. CASE Len(q.event) # q.size
    <2>1. q.status = "reading" BY <1>2, <1>15
    <2>2. Settled(f, q, t) = q BY <2>1, SettledCases
    <2>3. Start(q) = s
      <3>1. Len(q.sizeBuff) = 4 BY <1>1, <1>2 DEF Partial
      <3>2. Start(q) = (p + n) - 4 - (a + n) BY <1>10, <1>14, <3>1 DEF Start
      <3>3. p \in Nat BY <1>9 DEF p
      <3> QED BY <1>4, <1>9, <3>2, <3>3
    <2>4. SizeRead(f, q, s) BY <1>2, <1>4 DEF SizeRead
    <2>5. DataRead(w, q, d, s)
      <3>1. \A k \in 1 .. Len(q.event) : q.event[k] = v[k] BY <1>10, <1>12
      <3> QED BY <1>2, <1>5, <3>1 DEF DataRead, v, l, i
    <2>6. Following(f, w, q, d) BY <1>4, <2>1, <2>3, <2>4, <2>5 DEF Following
    <2> QED BY <2>1, <2>2, <2>6 DEF q
  <1>16. CASE Len(q.event) = q.size
    <2> DEFINE x == Returned(q)
    <2>1. q.status = "event" BY <1>2, <1>16
    <2>2. Settled(f, q, t) = x BY <2>1, SettledCases
    <2>3. /\ x.offset = q.offset /\ x.ptr = q.ptr /\ x.status = "reading"
          /\ x.sizeBuff = <<>> /\ x.size = 0 /\ x.event = <<>>
      BY <1>2, ReturnedFields
    <2> HIDE DEF x
    <2>4. q.event = v
      <3>1. Len(q.event) = l /\ a + n = l BY <1>2, <1>5, <1>10, <1>16 DEF l
      <3>2. \A k \in 1 .. l : q.event[k] = v[k] BY <1>12, <3>1
      <3> QED BY <1>8, <1>11, <3>1, <3>2
    <2>5. Len(<<>>) = 0 OBVIOUS
    <2>6. Start(x) = End(w[i])
      <3>1. x.offset + x.ptr = p + n BY <1>14, <2>3
      <3>2. Start(x) = (p + n) - 0 - 0 BY <2>3, <2>5, <3>1 DEF Start
      <3>3. a + n = l BY <1>2, <1>5, <1>10, <1>16 DEF l
      <3>4. p \in Nat BY <1>9 DEF p
      <3>5. End(w[i]) = s + l + 4 BY <1>5, <1>6 DEF l
      <3> QED BY <1>4, <1>9, <1>11, <3>2, <3>3, <3>4, <3>5
    <2>7. Aligned(w, End(w[i])) /\ Returns(w, Append(d, v), End(w[i]))
      <3>1. i = Len(d) + 1 BY DEF i
      <3>2. v = Data(w[i].id, w[i].len) BY DEF v, l
      <3> QED BY <1>4, <1>5, <1>8, <3>1, <3>2, PassEvent DEF Layout
    <2>8. SizeRead(f, x, End(w[i]))
      <3>1. \A k \in 1 .. Len(x.sizeBuff) : FALSE BY <2>3, <2>5
      <3> QED BY <2>3, <3>1 DEF SizeRead
    <2>9. DataRead(w, x, Append(d, v), End(w[i])) BY <2>3 DEF DataRead
    <2>10. End(w[i]) \in Nat BY <1>4, <1>5, <1>6
    <2>11. Following(f, w, x, Append(d, v)) BY <2>3, <2>6, <2>7, <2>8, <2>9, <2>10 DEF Following
    <2> QED BY <2>1, <2>2, <2>4, <2>11 DEF q
  <1> QED BY <1>15, <1>16

LEMMA FollowRound ==
  ASSUME NEW f \in Seq(Byte), NEW w \in Seq(Entries), NEW r, NEW d \in Seq(Seq(Byte)),
         Sound(f, r), Layout(f, w), Following(f, w, r, d), NEW t \in BOOLEAN,
         NEW q, q = Round(f, r)
  PROVE  Following(f, w, Settled(f, q, t), IF q.status = "event" THEN Append(d, q.event) ELSE d)
  <1>1. Buffered(f, r) BY DEF Sound
  <1>2. r.size \in Nat /\ r.ptr \in Nat /\ Len(r.buf) \in Nat /\ r.ptr <= Len(r.buf)
    BY <1>1, EmptySeq DEF Buffered, ReadStates
  <1>3. CASE r.ptr = Len(r.buf)
    <2>1. q = Refill(f, r) BY <1>3 DEF Round
    <2>2. q.status \in {"reading", "eof"} /\ Following(f, w, Settled(f, q, t), d)
      BY <1>3, <2>1, FollowRefill
    <2>3. q.status # "event" BY <2>2
    <2> QED BY <2>2, <2>3
  <1>4. CASE r.ptr < Len(r.buf) /\ r.size = 0
    <2>1. q = SizeStep(r) BY <1>2, <1>4 DEF Round
    <2>2. q.status = "reading" /\ Following(f, w, q, d) BY <1>4, <2>1, FollowSize
    <2>3. Settled(f, q, t) = q BY <2>2, SettledCases
    <2>4. q.status # "event" BY <2>2
    <2> QED BY <2>2, <2>3, <2>4
  <1>5. CASE r.ptr < Len(r.buf) /\ r.size > 0
    <2>1. q = DataStep(r) BY <1>2, <1>5 DEF Round
    <2> QED BY <1>5, <2>1, FollowData
  <1> QED BY <1>2, <1>3, <1>4, <1>5

-----------------------------------------------------------------------------
(* Reading back *)

LEMMA ReadInit == Init => ReadInv
  <1> SUFFICES ASSUME Init PROVE ReadInv OBVIOUS
  <1>1. file = <<>> /\ written = <<>> /\ delivered = <<>> /\ reader = Fresh BY DEF Init
  <1>2. Len(<<>>) = 0 /\ DOMAIN <<>> = {} /\ 1 .. 0 = {} /\ 0 .. 0 - 1 = {} OBVIOUS
  <1>3. Layout(<<>>, <<>>) BY <1>2 DEF Layout, EventsLaid, InSequence, GapsLaid
  <1>4. /\ Fresh.offset = 0 /\ Fresh.ptr = 0 /\ Fresh.sizeBuff = <<>> /\ Fresh.event = <<>>
        /\ Fresh.size = 0 /\ Fresh.status = "reading"
    BY DEF Fresh
  <1>5. Start(Fresh) = 0
    <2>1. Start(Fresh) = (0 + 0) - 0 - 0
      <3>1. Len(Fresh.sizeBuff) = 0 /\ Len(Fresh.event) = 0 BY <1>2, <1>4, Zenon
      <3> QED BY <1>4, <3>1, Zenon DEF Start
    <2> QED BY <2>1
  <1>6. Aligned(<<>>, 0) /\ Returns(<<>>, <<>>, 0) BY <1>2 DEF Aligned, Returns
  <1>7. SizeRead(<<>>, Fresh, 0) BY <1>2, <1>4 DEF SizeRead
  <1>8. DataRead(<<>>, Fresh, <<>>, 0) BY <1>4 DEF DataRead
  <1>9. Following(<<>>, <<>>, Fresh, <<>>) BY <1>4, <1>5, <1>6, <1>7, <1>8 DEF Following
  <1> QED BY <1>1, <1>3, <1>9 DEF ReadInv

LEMMA ReadNext ==
  ASSUME TypeInv, WriterInv, ReadInv, [Next]_vars
  PROVE  ReadInv'
  <1>1. /\ file \in Seq(Byte) /\ Len(file) \in Nat /\ written \in Seq(Entries)
        /\ delivered \in Seq(Seq(Byte)) /\ tail \in BOOLEAN
        /\ Sound(file, reader) /\ Buffered(file, reader)
    BY EmptySeq DEF TypeInv, Sound
  <1>2. damaged \subseteq damaged'
    BY DEF Next, Reader, ReaderReads, ReaderResumes, Writer, WriterStarts, WriterRecovers,
           WriterScans, WriterTakes, WriterPads, WriterAppends, WriteFails, Crash, vars, log
  <1>3. SUFFICES ASSUME damaged' = {}
                 PROVE  Layout(file', written') /\ Following(file', written', reader', delivered')
    BY DEF ReadInv
  <1>4. Layout(file, written) /\ Following(file, written, reader, delivered)
    <2>1. damaged = {} BY <1>2, <1>3
    <2> QED BY <2>1 DEF ReadInv
  <1>5. ASSUME UNCHANGED <<file, written, reader, delivered>>
        PROVE  Layout(file', written') /\ Following(file', written', reader', delivered')
    BY <1>4, <1>5
  <1>6. CASE ReaderReads
    <2> DEFINE q == Round(file, reader)
    <2>1. /\ UNCHANGED <<file, written>>
          /\ reader' = Settled(file, q, tail)
          /\ delivered' = IF q.status = "event" THEN Append(delivered, q.event) ELSE delivered
      BY <1>6 DEF ReaderReads, log
    <2>2. q = Round(file, reader) OBVIOUS
    <2> HIDE DEF q
    <2>3. Following(file, written, Settled(file, q, tail),
                    IF q.status = "event" THEN Append(delivered, q.event) ELSE delivered)
      BY <1>1, <1>4, <2>2, FollowRound
    <2> QED BY <1>4, <2>1, <2>3
  <1>7. CASE ReaderResumes
    <2>1. reader.status = "waiting" BY <1>7 DEF ReaderResumes
    <2>2. reader.status = "reading" BY <1>4 DEF Following
    <2> QED BY <2>1, <2>2
  <1>8. CASE WriterStarts BY <1>5, <1>8 DEF WriterStarts, log, input
  <1>9. CASE WriterRecovers BY <1>5, <1>9 DEF WriterRecovers, log, input
  <1>10. CASE WriterScans
    <2>1. UNCHANGED <<written, reader, delivered>> /\ (ScanGoesOn \/ ScanEnds)
      BY <1>10 DEF WriterScans, input
    <2>2. file' = file
      <3>1. scan.status = "reading" BY DEF WriterInv
      <3> QED BY <2>1, <3>1, ScanEndsAtEnd DEF ScanGoesOn
    <2> QED BY <1>5, <2>1, <2>2
  <1>11. ASSUME NEW l \in Lengths, WriterTakes(l)
         PROVE  Layout(file', written') /\ Following(file', written', reader', delivered')
    BY <1>5, <1>11 DEF WriterTakes, log, input
  <1>12. CASE WriterPads
    <2>1. file' = file \o Padding /\ UNCHANGED <<written, reader, delivered>>
      BY <1>12 DEF WriterPads, input
    <2>2. /\ Padding \in Seq(Byte)
          /\ Len(file) + Len(Padding) = (Chunk(Len(file)) + 1) * ChunkSize
          /\ \A k \in 1 .. Len(Padding) : Padding[k] = 0
      BY <1>1, PaddingFields
    <2>3. Layout(file \o Padding, written) BY <1>1, <1>4, <2>2, LayoutPads
    <2>4. Following(file \o Padding, written, reader, delivered)
      BY <1>1, <1>4, <2>2, FollowingGrows
    <2> QED BY <2>1, <2>3, <2>4
  <1>13. CASE WriterAppends
    <2> DEFINE e == [id |-> taken, at |-> Len(file), len |-> inHand]
               g == Event(taken, inHand)
    <2>1. /\ wstate = "appending" /\ file' = file \o g /\ written' = Append(written, e)
          /\ UNCHANGED <<reader, delivered>>
          /\ damaged' = IF Chunk(Len(file)) = Chunk(Len(file) + inHand + 3) THEN damaged
                        ELSE damaged \cup Reach(inHand + 4)
      BY <1>13 DEF WriterAppends, input
    <2>2. inHand \in Lengths /\ taken \in 1 .. MaxEvents BY <2>1 DEF WriterInv
    <2>3. inHand \in Nat /\ g \in Seq(Byte) BY <2>2, Constants, EventFields
    <2>4. Chunk(Len(file)) = Chunk(Len(file) + inHand + 3)
      <3>1. inHand + 4 \in Nat /\ inHand + 4 <= inHand + 4 /\ inHand + 4 > 0 BY <2>3
      <3>2. Reach(inHand + 4) # {} BY <1>1, <3>1, ReachBound
      <3> QED BY <1>3, <2>1, <3>2
    <2>5. /\ e \in Entries /\ e.id = taken /\ e.at = Len(file) /\ e.len = inHand
      BY <1>1, <2>2 DEF Entries
    <2> HIDE DEF e
    <2>6. ~Crosses(e) BY <2>4, <2>5 DEF Crosses
    <2>7. g = Event(e.id, e.len) BY <2>5
    <2> HIDE DEF g
    <2>8. Layout(file \o g, Append(written, e)) BY <1>1, <1>4, <2>5, <2>6, <2>7, LayoutAppends
    <2>9. Following(file \o g, Append(written, e), reader, delivered)
      BY <1>1, <1>4, <2>3, <2>5, FollowingAppends
    <2> QED BY <2>1, <2>8, <2>9
  <1>14. CASE WriteFails BY <1>5, <1>14 DEF WriteFails, log, input
  <1>15. ASSUME NEW n \in 0 .. (ChunkSize - 1), Crash(n)
         PROVE  Layout(file', written') /\ Following(file', written', reader', delivered')
    <2> DEFINE x == IF wstate = "padding" THEN Padding ELSE Event(taken, inHand)
    <2>1. /\ UNCHANGED <<written, reader, delivered>> /\ damaged' = damaged \cup Reach(n)
          /\ file' = file \o SubSeq(x, 1, n)
      BY <1>15 DEF Crash, input
    <2>2. n \in Nat BY Constants
    <2>3. n = 0
      <3>1. n <= n BY <2>2
      <3>2. n > 0 => Reach(n) # {} BY <1>1, <2>2, <3>1, ReachBound
      <3>3. ~(n > 0) BY <1>3, <2>1, <3>2
      <3> QED BY <2>2, <3>3
    <2> HIDE DEF x
    <2>4. SubSeq(x, 1, 0) = <<>> OBVIOUS
    <2>5. file \o <<>> = file BY <1>1
    <2>6. file' = file BY <2>1, <2>3, <2>4, <2>5
    <2> QED BY <1>5, <2>1, <2>6
  <1>16. CASE UNCHANGED vars BY <1>5, <1>16 DEF vars
  <1> QED BY <1>6, <1>7, <1>8, <1>9, <1>10, <1>11, <1>12, <1>13, <1>14, <1>15, <1>16
          DEF Next, Reader, Writer

-----------------------------------------------------------------------------
(* Theorems *)

Inv == TypeInv /\ WriterInv /\ DoomInv /\ ReadInv

\* The inductive invariant: the types of TypeInv, what the writer relies on, the path to
\* a bad event in the last chunk, and where the reader of a file without damage is.
THEOREM LogInvariant == Spec => []Inv
  <1>1. Init => Inv BY TypeInit, WriterInit, ReadInit DEF Inv
  <1>2. Inv /\ [Next]_vars => Inv'
    <2> SUFFICES ASSUME Inv, [Next]_vars PROVE Inv' OBVIOUS
    <2>1. TypeInv /\ WriterInv /\ DoomInv /\ ReadInv BY DEF Inv
    <2>2. TypeInv' BY <2>1, TypeNext
    <2>3. WriterInv' BY <2>1, WriterNext
    <2>4. DoomInv' BY <2>1, DoomNext
    <2>5. ReadInv' BY <2>1, ReadNext
    <2> QED BY <2>2, <2>3, <2>4, <2>5 DEF Inv
  <1> QED BY <1>1, <1>2, PTL DEF Spec

\* The log stays a sequence of bytes, and the read buffer of readEvent within it: no
\* pointer of readState_ leaves the buffer, the buffer never goes past the end of the
\* file, and a size never has more than four bytes.
THEOREM FileLogTypeCorrect == Spec => []TypeOK
  <1>1. Inv => TypeOK
    <2> SUFFICES ASSUME TypeInv PROVE TypeOK BY DEF Inv
    <2>1. file \in Seq(Byte) /\ Buffered(file, reader) /\ Partial(reader)
          /\ reader.status \in {"reading", "waiting", "thrown"}
      BY DEF TypeInv, Sound
    <2>2. /\ reader.offset \in Nat /\ reader.ptr \in Nat /\ reader.lastDispatch \in Nat
          /\ reader.size \in Nat /\ Len(reader.buf) \in Nat /\ Len(file) \in Nat
          /\ Len(reader.sizeBuff) \in Nat
      BY <2>1, EmptySeq DEF Buffered, ReadStates
    <2>3. reader.offset + Len(reader.buf) <= Len(file) BY <2>1 DEF Buffered
    <2>4. reader.offset + Len(reader.buf) \in 0 .. Len(file) BY <2>2, <2>3
    <2>5. reader.ptr <= Len(reader.buf) /\ reader.lastDispatch <= reader.ptr BY <2>1 DEF Buffered
    <2>6. reader.ptr \in 0 .. Len(reader.buf) /\ reader.lastDispatch \in 0 .. Len(reader.buf)
      BY <2>2, <2>5
    <2>7. Len(reader.sizeBuff) < 4 \/ Len(reader.sizeBuff) = 4
      <3>1. reader.size = 0 \/ reader.size > 0 BY <2>2
      <3> QED BY <2>1, <3>1 DEF Partial
    <2>8. Len(reader.sizeBuff) <= 4
      <3> DEFINE m == Len(reader.sizeBuff)
      <3>1. m \in Nat /\ (m < 4 \/ m = 4) BY <2>2, <2>7
      <3> HIDE DEF m
      <3>2. m <= 4 BY <3>1
      <3> QED BY <3>2 DEF m
    <2> QED BY <2>1, <2>4, <2>6, <2>8 DEF TypeInv, TypeOK
  <1> QED BY <1>1, LogInvariant, PTL

\* Whatever the size of a chunk, of the read buffer and of the events, and wherever the
\* buffer cuts an event, its size or the padding: while no write was torn and no event
\* crosses a chunk, readEvent returns the events in the file in order, each once and
\* with its own data.
THEOREM LogReadBack == Spec => []ReadsBack
  <1>1. Inv => ReadsBack
    <2> SUFFICES ASSUME ReadInv, damaged = {}
                 PROVE  /\ Len(delivered) <= Len(written)
                        /\ \A i \in DOMAIN delivered :
                             delivered[i] = Data(written[i].id, written[i].len)
      BY DEF Inv, ReadsBack
    <2>1. Following(file, written, reader, delivered) BY DEF ReadInv
    <2> QED BY <2>1 DEF Following, Returns
  <1> QED BY <1>1, LogInvariant, PTL

\* No event crosses the boundary of a chunk and offset_ is the end of the file, however
\* often the writer has crashed and started again, unless a write() has failed.
THEOREM ChunksKept == Spec => []ChunksRespected
  <1>1. Inv => ChunksRespected BY DEF Inv, WriterInv, ChunksRespected
  <1> QED BY <1>1, LogInvariant, PTL

\* The bytes of the file stay as they are.
FileKept == Len(file) <= Len(file') /\ \A i \in 1 .. Len(file) : file'[i] = file[i]

\* The ftruncate of a start never throws anything away: seekToEnd only comes back with
\* offset_ + lastDispatchPtr_ at the end of the file, a torn event before it included.
THEOREM NothingTruncated == Spec => [][FileKept]_vars
  <1>1. Inv /\ [Next]_vars => [FileKept]_vars
    <2> SUFFICES ASSUME Inv, Next PROVE FileKept BY DEF vars
    <2>1. TypeInv /\ WriterInv BY DEF Inv
    <2>2. file \in Seq(Byte) /\ Len(file) \in Nat BY <2>1, EmptySeq DEF TypeInv
    <2>3. file' = file \/ \E g \in Seq(Byte) : file' = file \o g
      <3>1. CASE Reader BY <3>1 DEF Reader, ReaderReads, ReaderResumes, log
      <3>2. CASE WriterStarts \/ WriterRecovers \/ WriteFails \/ \E l \in Lengths : WriterTakes(l)
        BY <3>2 DEF WriterStarts, WriterRecovers, WriteFails, WriterTakes, log
      <3>3. CASE WriterScans
        <4>1. scan.status = "reading" BY <2>1 DEF WriterInv
        <4> QED BY <2>1, <3>3, <4>1, ScanEndsAtEnd DEF WriterScans, ScanGoesOn
      <3>4. CASE WriterPads
        <4>1. Padding \in Seq(Byte) BY <2>2, PaddingFields
        <4> QED BY <3>4, <4>1 DEF WriterPads
      <3>5. CASE WriterAppends
        <4>1. inHand \in Lengths /\ taken \in 1 .. MaxEvents
          BY <2>1, <3>5 DEF WriterAppends, WriterInv
        <4>2. Event(taken, inHand) \in Seq(Byte) BY <4>1, EventFields
        <4> QED BY <3>5, <4>2 DEF WriterAppends
      <3>6. ASSUME NEW n \in 0 .. (ChunkSize - 1), Crash(n) PROVE \E g \in Seq(Byte) : file' = file \o g
        BY <2>1, <3>6, CrashBytes
      <3> QED BY <3>1, <3>2, <3>3, <3>4, <3>5, <3>6 DEF Next, Writer
    <2>4. CASE file' = file BY <2>2, <2>4 DEF FileKept
    <2>5. ASSUME NEW g \in Seq(Byte), file' = file \o g PROVE FileKept
      <3>1. Len(g) \in Nat BY EmptySeq
      <3>2. Len(file \o g) = Len(file) + Len(g) /\ \A k \in 1 .. Len(file) : (file \o g)[k] = file[k]
        BY <2>2, Joined
      <3>3. Len(file) <= Len(file \o g) BY <2>2, <3>1, <3>2
      <3> QED BY <2>5, <3>2, <3>3 DEF FileKept
    <2> QED BY <2>3, <2>4, <2>5
  <1> QED BY <1>1, LogInvariant, PTL DEF Spec

\* Error recovery comes to an end.
Recovered == wstate = "reopening" /\ wstate' = "up"

\* A writer that has not had a failed write, and is in error recovery because of the bad
\* event a crash left in the last chunk, never comes out of it: it meets the same event
\* each time it opens the file again.  Only another crash ends its attempts.
THEOREM NoWayOut == Spec => [][Recovered => errors > 0]_vars
  <1>1. Inv /\ [Next]_vars => [Recovered => errors > 0]_vars
    <2> SUFFICES ASSUME Inv, Next, Recovered PROVE errors > 0 OBVIOUS
    <2>1. TypeInv /\ WriterInv /\ DoomInv BY DEF Inv
    <2>2. wstate = "reopening" /\ wstate' = "up" BY DEF Recovered
    <2>3. WriterScans
      BY <2>2 DEF Next, Reader, ReaderReads, ReaderResumes, Writer, WriterStarts, WriterRecovers,
                  WriterTakes, WriterPads, WriterAppends, WriteFails, Crash, process
    <2>4. ScanEnds BY <2>2, <2>3 DEF WriterScans, ScanGoesOn
    <2>5. AtEnd(file, Round(file, scan)) BY <2>4 DEF ScanEnds
    <2> QED BY <2>1, <2>2, <2>5, DoomedForEver
  <1> QED BY <1>1, LogInvariant, PTL DEF Spec

=============================================================================
