------------------------------- MODULE Buffer -------------------------------
(***************************************************************************)
(* Buffer (app/util/hao_buffer.cpp): a vector of bytes and two indices     *)
(* into it.  What may be read lies between them; what is free lies before  *)
(* the first and behind the second, and is put together by moving the      *)
(* bytes, or enlarged, when more room is asked for than there is behind.   *)
(*                                                                         *)
(* Nothing in the program uses a Buffer yet.  Its caller here is any that  *)
(* asks before it prepends, takes back or reads a given number of bytes,   *)
(* which the functions do not check.                                       *)
(***************************************************************************)
EXTENDS Integers, Sequences

CONSTANTS
  kCheapPrepend,
  kInitialSize,
  ExtraSize,    \* sizeof extra_buf
  IntSizes,     \* sizes of int8_t, int16_t and int32_t
  Wide,         \* the size of int64_t
  Byte,         \* the bytes a caller puts in
  Zero,         \* what a vector fills itself with
  CR, LF,
  MaxLen,       \* bound: bytes passed to a call
  MaxReadable   \* bound: bytes in the buffer

ASSUME BufferAssumption ==
  /\ kCheapPrepend \in Nat /\ kInitialSize \in Nat /\ ExtraSize \in Nat
  /\ IntSizes \subseteq Nat
  /\ Wide \in Nat
  /\ MaxLen \in Nat /\ MaxReadable \in Nat

VARIABLES
  buffer,   \* the object: its vector, reader_index_ and writer_index_
  given,    \* the bytes passed to the last call, or read from the file
  result,   \* what the last call returned
  ensured   \* bytes a caller may write behind, after EnsureWritableBytes

vars == <<buffer, given, result, ensured>>

Lengths == 0 .. MaxReadable + MaxLen
Data == UNION {[1 .. n -> Byte] : n \in 0 .. MaxLen}

ReadableBytes(b) == b.writer - b.reader
WriteableBytes(b) == Len(b.bytes) - b.writer
PrependableBytes(b) == b.reader
ToStringView(b) == SubSeq(b.bytes, b.reader + 1, b.writer)

New(size) ==
  [bytes  |-> [i \in 1 .. kCheapPrepend + size |-> Zero],
   reader |-> kCheapPrepend,
   writer |-> kCheapPrepend]

\* Bytes copied to the offset at.
Overwritten(bytes, at, data) ==
  [i \in 1 .. Len(bytes) |-> IF i \in at + 1 .. at + Len(data) THEN data[i - at] ELSE bytes[i]]

\* std::copy within the vector, first byte first: when it copies upwards, it
\* reads again what it has written.
Moved(b, to) ==
  LET step == to - b.reader
      byte(k) == b.bytes[b.reader + 1 + (IF step > 0 THEN k % step ELSE k)]
  IN  [i \in 1 .. Len(b.bytes) |->
         IF i \in to + 1 .. to + ReadableBytes(b) THEN byte(i - to - 1) ELSE b.bytes[i]]

Resized(bytes, size) ==
  [i \in 1 .. size |-> IF i <= Len(bytes) THEN bytes[i] ELSE Zero]

\* All the free room together is less than asked for, but for the reserve in
\* front that is kept.
Grows(b, len) == WriteableBytes(b) + PrependableBytes(b) < len + kCheapPrepend

\* Mutant of MakeSpace: it always enlarges.
MutAlwaysGrow(b, len) == [b EXCEPT !.bytes = Resized(b.bytes, b.writer + len)]

MakeSpace(b, len) ==
  IF Grows(b, len)
  THEN [b EXCEPT !.bytes = Resized(b.bytes, b.writer + len)]
  ELSE [bytes  |-> Moved(b, kCheapPrepend),
        reader |-> kCheapPrepend,
        writer |-> kCheapPrepend + ReadableBytes(b)]

EnsureWritableBytes(b, len) == IF WriteableBytes(b) < len THEN MakeSpace(b, len) ELSE b

HasWritten(b, data) ==
  [b EXCEPT !.bytes = Overwritten(b.bytes, b.writer, data), !.writer = b.writer + Len(data)]

Appended(b, data) == HasWritten(EnsureWritableBytes(b, Len(data)), data)

Retrieve(b, len) ==
  IF len < ReadableBytes(b) THEN [b EXCEPT !.reader = @ + len]
  ELSE [b EXCEPT !.reader = kCheapPrepend, !.writer = kCheapPrepend]

\* htobe16, htobe32 and back; an integer is its bytes, the lowest first.
HtoBe(x) == [i \in 1 .. Len(x) |-> x[Len(x) + 1 - i]]

Peeked(b, len) == SubSeq(ToStringView(b), 1, len)

\* PeekInt64 takes the first half of the bytes it has copied through be32toh.
PeekInt64(b) ==
  [i \in 1 .. Wide |-> IF i <= Wide \div 2 THEN Peeked(b, Wide)[Wide \div 2 + 1 - i] ELSE Zero]

\* FindEOL and FindCRLF, as an offset from Peek.
IsEnd(b, n, end) == SubSeq(ToStringView(b), n + 1, n + Len(end)) = end
Find(b, end) ==
  {n \in 0 .. ReadableBytes(b) - Len(end) :
     IsEnd(b, n, end) /\ \A k \in 0 .. n - 1 : ~IsEnd(b, k, end)}

Init ==
  /\ buffer = New(kInitialSize)
  /\ given = <<>> /\ result = <<>> /\ ensured = 0

-----------------------------------------------------------------------------
\* What every call but EnsureWritableBytes does to a promise of room: the
\* caller does not rely on it any longer.
Returns(value) == result' = value /\ ensured' = 0

Room(len) == ReadableBytes(buffer) + len <= MaxReadable

AppendData(data) ==
  /\ Room(Len(data))
  /\ buffer' = Appended(buffer, data)
  /\ given' = data /\ Returns(<<>>)

AppendInt(x) ==
  /\ Room(Len(x))
  /\ buffer' = Appended(buffer, HtoBe(x))
  /\ given' = HtoBe(x) /\ Returns(<<>>)

PrependData(data) ==
  /\ Len(data) <= PrependableBytes(buffer) /\ Room(Len(data))
  /\ buffer' = [buffer EXCEPT !.reader = @ - Len(data),
                              !.bytes = Overwritten(@, buffer.reader - Len(data), data)]
  /\ given' = data /\ Returns(<<>>)

PromiseRoom(len) ==
  /\ buffer' = EnsureWritableBytes(buffer, len)
  /\ ensured' = len
  /\ given' = <<>> /\ result' = <<>>

\* The caller writes behind BeginWrite what it was promised room for, and
\* calls HasWritten.
WriteDirectly(data) ==
  /\ Len(data) <= ensured /\ Room(Len(data))
  /\ buffer' = HasWritten(buffer, data)
  /\ given' = data /\ Returns(<<>>)

UnWrite(len) ==
  /\ len <= ReadableBytes(buffer)
  /\ buffer' = [buffer EXCEPT !.writer = @ - len]
  /\ given' = <<>> /\ Returns(<<>>)

RetrieveSome(len) ==
  /\ buffer' = Retrieve(buffer, len)
  /\ given' = <<>> /\ Returns(<<>>)

RetrieveAsString(len) ==
  /\ len <= ReadableBytes(buffer)
  /\ buffer' = Retrieve(buffer, len)
  /\ given' = <<>> /\ Returns(Peeked(buffer, len))

ReadInt(size) ==
  /\ size <= ReadableBytes(buffer)
  /\ buffer' = Retrieve(buffer, size)
  /\ given' = <<>> /\ Returns(HtoBe(Peeked(buffer, size)))

ReadInt64 ==
  /\ Wide <= ReadableBytes(buffer)
  /\ buffer' = Retrieve(buffer, Wide)
  /\ given' = <<>> /\ Returns(PeekInt64(buffer))

\* RetrieveUtil, up to the end of the first line.
RetrieveLine(end) ==
  /\ \E n \in Find(buffer, end) : buffer' = Retrieve(buffer, n + Len(end))
  /\ given' = <<>> /\ Returns(<<>>)

\* A smaller vector with the same bytes, and room for as many as are reserved.
Shrink(reserve) ==
  /\ LET view == ToStringView(buffer)
         temp == EnsureWritableBytes(New(kInitialSize), ReadableBytes(buffer) + reserve)
     IN  buffer' = Appended(temp, view)
  /\ given' = <<>> /\ Returns(<<>>)

\* Mutant of ReadFd: all that was read is appended from extra_buf.
MutReadFd(data) ==
  LET writable == WriteableBytes(buffer)
  IN  /\ Len(data) <= (IF writable < ExtraSize THEN writable + ExtraSize ELSE writable)
      /\ Room(Len(data))
      /\ buffer' = IF Len(data) <= writable THEN HasWritten(buffer, data)
                   ELSE Appended(HasWritten(buffer, SubSeq(data, 1, writable)), data)
      /\ given' = data /\ Returns(<<>>)

\* readv fills the room behind first and then extra_buf, if there is less room
\* than that holds.  When it fails, nothing changes.
ReadFd(data) ==
  LET writable == WriteableBytes(buffer)
  IN  /\ Len(data) <= (IF writable < ExtraSize THEN writable + ExtraSize ELSE writable)
      /\ Room(Len(data))
      /\ buffer' = IF Len(data) <= writable THEN HasWritten(buffer, data)
                   ELSE Appended(HasWritten(buffer, SubSeq(data, 1, writable)),
                                 SubSeq(data, writable + 1, Len(data)))
      /\ given' = data /\ Returns(<<>>)

Ends == {<<LF>>, <<CR, LF>>}

Next ==
  \/ \E data \in Data :
       \/ AppendData(data) \/ PrependData(data) \/ WriteDirectly(data) \/ ReadFd(data)
       \/ Len(data) \in IntSizes \cup {Wide} /\ AppendInt(data)
  \/ \E len \in 0 .. MaxLen : PromiseRoom(len) \/ Shrink(len)
  \/ \E len \in Lengths : UnWrite(len) \/ RetrieveSome(len) \/ RetrieveAsString(len)
  \/ \E size \in IntSizes : ReadInt(size)
  \/ ReadInt64
  \/ \E end \in Ends : RetrieveLine(end)

Spec == Init /\ [][Next]_vars

-----------------------------------------------------------------------------
\* The indices stay in order and inside the vector, and the room a caller was
\* promised is there: what it writes behind BeginWrite, or a copy of the class
\* itself, stays inside the vector (hao_buffer.cpp:203-216, 368-371).
InBounds ==
  /\ 0 <= buffer.reader /\ buffer.reader <= buffer.writer
  /\ buffer.writer + ensured <= Len(buffer.bytes)

\* A Buffer whose content stays bounded does not grow for ever, although its
\* bytes wander backwards through the vector: room in front is used again
\* before the vector is enlarged (hao_buffer.cpp:330-345).
StaysSmall ==
  LET size == Len(buffer.bytes) - kCheapPrepend
  IN  size <= kInitialSize \/ size <= MaxReadable + 2 * MaxLen

\* A Buffer is a ByteQueue: whatever is moved, enlarged, shrunk or read in two
\* pieces, a reader gets the bytes that were put in, each once and in order.
Queue == INSTANCE ByteQueue WITH queue <- ToStringView(buffer), got <- result
IsByteQueue == Queue!Spec
=============================================================================
