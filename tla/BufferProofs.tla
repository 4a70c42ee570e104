---------------------------- MODULE BufferProofs ----------------------------
(***************************************************************************)
(* Theorems about Buffer, for every size of the vector, of the reserve in  *)
(* front of it and of the extra buffer, and for any bytes: nothing is      *)
(* written outside the vector, which does not grow for ever, and a Buffer  *)
(* implements ByteQueue.                                                   *)
(***************************************************************************)
EXTENDS Buffer, SequenceTheorems, TLAPS

Bytes == Byte \cup {Zero}

Good(b) ==
  /\ b \in [bytes : Seq(Bytes), reader : Nat, writer : Nat]
  /\ b.reader <= b.writer /\ b.writer <= Len(b.bytes)

-----------------------------------------------------------------------------
(* Sequences.                                                              *)

LEMMA FunctionSeq ==
  ASSUME NEW S, NEW n \in Nat, NEW f \in [1 .. n -> S]
  PROVE  f \in Seq(S) /\ Len(f) = n /\ DOMAIN f = 1 .. n
<1>1. f \in Seq(S)
  BY SeqDef
<1>2. DOMAIN f = 1 .. Len(f) /\ Len(f) \in Nat
  BY <1>1, LenProperties
<1> QED BY <1>1, <1>2

\* A part of a sequence.
LEMMA Part ==
  ASSUME NEW S, NEW s \in Seq(S), NEW m \in Nat, NEW n \in Nat, m <= n, n <= Len(s)
  PROVE  /\ SubSeq(s, m + 1, n) \in Seq(S)
         /\ Len(SubSeq(s, m + 1, n)) = n - m
         /\ \A i \in 1 .. n - m : SubSeq(s, m + 1, n)[i] = s[m + i]
<1>1. \A i \in m + 1 .. n : s[i] \in S
  BY ElementOfSeq
<1>2. /\ SubSeq(s, m + 1, n) \in Seq(S)
      /\ Len(SubSeq(s, m + 1, n)) = IF m + 1 <= n THEN n - (m + 1) + 1 ELSE 0
      /\ \A i \in 1 .. n - (m + 1) + 1 : SubSeq(s, m + 1, n)[i] = s[m + 1 + i - 1]
  BY <1>1, SubSeqProperties
<1>3. Len(SubSeq(s, m + 1, n)) = n - m
  BY <1>2
<1>4. \A i \in 1 .. n - m : SubSeq(s, m + 1, n)[i] = s[m + i]
  BY <1>2
<1> QED BY <1>2, <1>3, <1>4

LEMMA TwoParts ==
  ASSUME NEW S, NEW s \in Seq(S), NEW n \in Nat, n <= Len(s)
  PROVE  /\ SubSeq(s, 1, n) \in Seq(S) /\ Len(SubSeq(s, 1, n)) = n
         /\ SubSeq(s, n + 1, Len(s)) \in Seq(S) /\ Len(SubSeq(s, n + 1, Len(s))) = Len(s) - n
         /\ SubSeq(s, 1, n) \o SubSeq(s, n + 1, Len(s)) = s
<1>0. Len(s) \in Nat
  BY LenProperties
<1>1. 0 + 1 = 1 /\ n - 0 = n /\ 0 \in Nat /\ 0 <= n
  OBVIOUS
<1>2. SubSeq(s, 0 + 1, n) \in Seq(S) /\ Len(SubSeq(s, 0 + 1, n)) = n - 0
  BY <1>1, Part
<1>3. SubSeq(s, n + 1, Len(s)) \in Seq(S) /\ Len(SubSeq(s, n + 1, Len(s))) = Len(s) - n
  BY <1>0, Part
<1>4. 1 \in 1 .. Len(s) + 1 /\ n \in 1 - 1 .. Len(s) /\ Len(s) \in n .. Len(s)
  BY <1>0
<1>5. SubSeq(s, 1, n) \o SubSeq(s, n + 1, Len(s)) = SubSeq(s, 1, Len(s))
  BY <1>4, ConcatAdjacentSubSeq
<1>6. SubSeq(s, 1, Len(s)) = s
  BY SubSeqFull
<1> QED BY <1>1, <1>2, <1>3, <1>5, <1>6

\* A sequence that begins with s and goes on with t.
LEMMA Concatenation ==
  ASSUME NEW S, NEW s \in Seq(S), NEW t \in Seq(S), NEW r \in Seq(S),
         Len(r) = Len(s) + Len(t),
         \A i \in 1 .. Len(s) : r[i] = s[i],
         \A i \in 1 .. Len(t) : r[Len(s) + i] = t[i]
  PROVE  r = s \o t
<1>0. Len(s) \in Nat /\ Len(t) \in Nat
  BY LenProperties
<1>1. /\ s \o t \in Seq(S) /\ Len(s \o t) = Len(s) + Len(t)
      /\ \A i \in 1 .. Len(s) + Len(t) :
           (s \o t)[i] = IF i <= Len(s) THEN s[i] ELSE t[i - Len(s)]
  BY ConcatProperties
<1>2. ASSUME NEW i \in 1 .. Len(r) PROVE r[i] = (s \o t)[i]
  <2>1. CASE i <= Len(s)
    BY <1>0, <1>1, <2>1
  <2>2. CASE ~(i <= Len(s))
    <3>0. i - Len(s) \in 1 .. Len(t)
      BY <1>0, <2>2
    <3>1. PICK j \in 1 .. Len(t) : j = i - Len(s)
      BY <3>0
    <3>2. Len(s) + j = i
      BY <1>0, <3>1
    <3>3. r[i] = t[j]
      BY <3>2
    <3> QED BY <1>1, <2>2, <3>1, <3>3
  <2> QED BY <2>1, <2>2
<1> QED BY <1>1, <1>2, SeqEqual

-----------------------------------------------------------------------------
(* The operators of Buffer.                                                *)

LEMMA View ==
  ASSUME NEW b, Good(b)
  PROVE  /\ ToStringView(b) \in Seq(Bytes)
         /\ ReadableBytes(b) \in Nat
         /\ Len(ToStringView(b)) = ReadableBytes(b)
         /\ \A i \in 1 .. ReadableBytes(b) : ToStringView(b)[i] = b.bytes[b.reader + i]
<1>1. b.bytes \in Seq(Bytes) /\ b.reader \in Nat /\ b.writer \in Nat
  BY DEF Good
<1> QED BY <1>1, Part DEF Good, ToStringView, ReadableBytes

\* Two Buffers with the same bytes between their indices.
LEMMA SameView ==
  ASSUME NEW b, NEW c, Good(b), Good(c), ReadableBytes(b) = ReadableBytes(c),
         \A i \in 1 .. ReadableBytes(b) : c.bytes[c.reader + i] = b.bytes[b.reader + i]
  PROVE  ToStringView(c) = ToStringView(b)
<1>1. /\ ToStringView(b) \in Seq(Bytes) /\ ToStringView(c) \in Seq(Bytes)
      /\ Len(ToStringView(b)) = ReadableBytes(b) /\ Len(ToStringView(c)) = ReadableBytes(b)
      /\ \A i \in 1 .. ReadableBytes(b) : ToStringView(c)[i] = ToStringView(b)[i]
  BY View
<1> QED BY <1>1, SeqEqual

LEMMA NewGood ==
  ASSUME NEW size \in Nat
  PROVE  Good(New(size)) /\ Len(New(size).bytes) = kCheapPrepend + size
         /\ ReadableBytes(New(size)) = 0 /\ ToStringView(New(size)) = <<>>
<1>1. New(size).bytes \in [1 .. kCheapPrepend + size -> Bytes]
  BY DEF New, Bytes
<1>2. New(size).bytes \in Seq(Bytes) /\ Len(New(size).bytes) = kCheapPrepend + size
  BY <1>1, FunctionSeq, BufferAssumption
<1>3. Good(New(size)) /\ ReadableBytes(New(size)) = 0
  BY <1>2, BufferAssumption DEF Good, New, ReadableBytes
<1>4. Len(ToStringView(New(size))) = 0 /\ ToStringView(New(size)) \in Seq(Bytes)
  BY <1>3, View
<1>5. ToStringView(New(size)) = <<>>
  BY <1>4, EmptySeq
<1> QED BY <1>2, <1>3, <1>5

\* Copying into a sequence changes what it says.
LEMMA Overwriting ==
  ASSUME NEW s \in Seq(Bytes), NEW data \in Seq(Bytes), NEW at \in Nat
  PROVE  /\ Overwritten(s, at, data) \in Seq(Bytes)
         /\ Len(Overwritten(s, at, data)) = Len(s)
         /\ \A i \in 1 .. Len(s) :
              Overwritten(s, at, data)[i] =
                IF i \in at + 1 .. at + Len(data) THEN data[i - at] ELSE s[i]
<1>1. Len(s) \in Nat /\ Len(data) \in Nat
  BY LenProperties
<1>2. Overwritten(s, at, data) \in [1 .. Len(s) -> Bytes]
  <2>1. ASSUME NEW i \in 1 .. Len(s)
        PROVE  (IF i \in at + 1 .. at + Len(data) THEN data[i - at] ELSE s[i]) \in Bytes
    <3>1. s[i] \in Bytes
      BY ElementOfSeq
    <3>2. CASE i \in at + 1 .. at + Len(data)
      <4>1. i - at \in 1 .. Len(data)
        BY <1>1, <3>2
      <4>2. data[i - at] \in Bytes
        BY <4>1, ElementOfSeq
      <4> QED BY <3>2, <4>2
    <3> QED BY <3>1, <3>2
  <2> QED BY <2>1 DEF Overwritten
<1>3. /\ Overwritten(s, at, data) \in Seq(Bytes)
      /\ Len(Overwritten(s, at, data)) = Len(s)
  BY <1>1, <1>2, FunctionSeq
<1> QED BY <1>3 DEF Overwritten

-----------------------------------------------------------------------------
(* MakeSpace.                                                              *)

\* Enlarging: the bytes stay where they are.
LEMMA Enlarged ==
  ASSUME NEW b, Good(b), NEW len \in Nat, WriteableBytes(b) < len,
         NEW c, c = [b EXCEPT !.bytes = Resized(b.bytes, b.writer + len)]
  PROVE  /\ Good(c) /\ ToStringView(c) = ToStringView(b)
         /\ ReadableBytes(c) = ReadableBytes(b)
         /\ WriteableBytes(c) = len /\ Len(c.bytes) = b.writer + len
         /\ c.reader = b.reader
<1>0. b.bytes \in Seq(Bytes) /\ b.reader \in Nat /\ b.writer \in Nat /\ Len(b.bytes) \in Nat
      /\ b.reader <= b.writer /\ b.writer <= Len(b.bytes)
  BY LenProperties DEF Good
<1>1. Resized(b.bytes, b.writer + len) \in [1 .. b.writer + len -> Bytes]
  <2>1. ASSUME NEW i \in 1 .. b.writer + len
        PROVE  (IF i <= Len(b.bytes) THEN b.bytes[i] ELSE Zero) \in Bytes
    BY <1>0, ElementOfSeq DEF Bytes
  <2> QED BY <2>1 DEF Resized
<1>2. Resized(b.bytes, b.writer + len) \in Seq(Bytes)
      /\ Len(Resized(b.bytes, b.writer + len)) = b.writer + len
  BY <1>0, <1>1, FunctionSeq
<1>3. /\ c.bytes = Resized(b.bytes, b.writer + len) /\ c.reader = b.reader /\ c.writer = b.writer
      /\ c \in [bytes : Seq(Bytes), reader : Nat, writer : Nat]
  BY <1>2 DEF Good
<1>4. Good(c)
  BY <1>0, <1>2, <1>3 DEF Good
<1>5. \A i \in 1 .. ReadableBytes(b) : c.bytes[c.reader + i] = b.bytes[b.reader + i]
  BY <1>0, <1>3 DEF ReadableBytes, Resized
<1>6. ReadableBytes(c) = ReadableBytes(b)
  BY <1>3 DEF ReadableBytes
<1>7. ToStringView(c) = ToStringView(b)
  BY <1>4, <1>5, <1>6, SameView, Good(b)
<1>8. WriteableBytes(c) = len
  BY <1>0, <1>2, <1>3 DEF WriteableBytes
<1> QED BY <1>2, <1>3, <1>4, <1>6, <1>7, <1>8

\* Moving: there is room in front beyond the reserve, so that std::copy never
\* reads what it has written, and the room behind suffices.
LEMMA MovedDown ==
  ASSUME NEW b, Good(b), NEW len \in Nat, WriteableBytes(b) < len, ~Grows(b, len),
         NEW c, c = [bytes  |-> Moved(b, kCheapPrepend),
                     reader |-> kCheapPrepend,
                     writer |-> kCheapPrepend + ReadableBytes(b)]
  PROVE  /\ Good(c) /\ ToStringView(c) = ToStringView(b)
         /\ ReadableBytes(c) = ReadableBytes(b)
         /\ WriteableBytes(c) >= len /\ Len(c.bytes) = Len(b.bytes)
         /\ b.reader > kCheapPrepend
<1>0. b.bytes \in Seq(Bytes) /\ b.reader \in Nat /\ b.writer \in Nat /\ Len(b.bytes) \in Nat
      /\ b.reader <= b.writer /\ b.writer <= Len(b.bytes) /\ kCheapPrepend \in Nat
      /\ ReadableBytes(b) \in Nat /\ ReadableBytes(b) = b.writer - b.reader
  BY LenProperties, BufferAssumption DEF Good, ReadableBytes
<1>1. b.reader > kCheapPrepend
  BY <1>0 DEF Grows, WriteableBytes, PrependableBytes
<1>2. \A i \in 1 .. Len(b.bytes) :
        Moved(b, kCheapPrepend)[i] =
          IF i \in kCheapPrepend + 1 .. kCheapPrepend + ReadableBytes(b)
          THEN b.bytes[b.reader + 1 + (i - kCheapPrepend - 1)] ELSE b.bytes[i]
  BY <1>0, <1>1 DEF Moved
<1>3. Moved(b, kCheapPrepend) \in [1 .. Len(b.bytes) -> Bytes]
  <2>1. ASSUME NEW i \in 1 .. Len(b.bytes) PROVE Moved(b, kCheapPrepend)[i] \in Bytes
    <3>1. b.bytes[i] \in Bytes
      BY <1>0, ElementOfSeq
    <3>2. CASE i \in kCheapPrepend + 1 .. kCheapPrepend + ReadableBytes(b)
      <4>1. b.reader + 1 + (i - kCheapPrepend - 1) \in 1 .. Len(b.bytes)
        BY <1>0, <3>2, SMTT(30)
      <4>2. b.bytes[b.reader + 1 + (i - kCheapPrepend - 1)] \in Bytes
        BY <1>0, <4>1, ElementOfSeq
      <4> QED BY <1>2, <3>2, <4>2
    <3> QED BY <1>2, <3>1, <3>2
  <2>2. Moved(b, kCheapPrepend) = [i \in 1 .. Len(b.bytes) |-> Moved(b, kCheapPrepend)[i]]
    BY DEF Moved
  <2> QED BY <2>1, <2>2
<1>4. c.bytes \in Seq(Bytes) /\ Len(c.bytes) = Len(b.bytes)
  BY <1>0, <1>3, FunctionSeq
<1>5. c.reader = kCheapPrepend /\ c.writer = kCheapPrepend + ReadableBytes(b)
  OBVIOUS
<1>6. Good(c)
  BY <1>0, <1>1, <1>4, <1>5 DEF Good
<1>7. ReadableBytes(c) = ReadableBytes(b)
  BY <1>0, <1>5 DEF ReadableBytes
<1>8. ASSUME NEW i \in 1 .. ReadableBytes(b)
      PROVE  c.bytes[c.reader + i] = b.bytes[b.reader + i]
  <2> DEFINE n == kCheapPrepend + i
  <2>1. /\ n \in 1 .. Len(b.bytes)
        /\ n \in kCheapPrepend + 1 .. kCheapPrepend + ReadableBytes(b)
        /\ b.reader + 1 + (n - kCheapPrepend - 1) = b.reader + i
        /\ c.reader + i = n
    BY <1>0, <1>1, <1>5
  <2>2. c.bytes = Moved(b, kCheapPrepend)
    OBVIOUS
  <2> HIDE DEF n
  <2>3. Moved(b, kCheapPrepend)[n] = b.bytes[b.reader + 1 + (n - kCheapPrepend - 1)]
    BY <1>2, <2>1
  <2> QED BY <2>1, <2>2, <2>3
<1>9. ToStringView(c) = ToStringView(b)
  BY <1>6, <1>7, <1>8, SameView, Good(b)
<1>10. WriteableBytes(c) >= len
  BY <1>0, <1>4, <1>5 DEF WriteableBytes, Grows, PrependableBytes
<1> QED BY <1>1, <1>4, <1>6, <1>7, <1>9, <1>10

\* After EnsureWritableBytes there is the room asked for and the same to read,
\* and the vector is as large as it was or only as large as is needed.
LEMMA Ensured ==
  ASSUME NEW b, Good(b), NEW len \in Nat,
         NEW c, c = EnsureWritableBytes(b, len)
  PROVE  /\ Good(c) /\ ToStringView(c) = ToStringView(b)
         /\ ReadableBytes(c) = ReadableBytes(b)
         /\ WriteableBytes(c) >= len
         /\ Len(b.bytes) <= Len(c.bytes)
         /\ \/ Len(c.bytes) = Len(b.bytes)
            \/ /\ Len(c.bytes) = b.writer + len
               /\ Len(c.bytes) - kCheapPrepend < ReadableBytes(b) + 2 * len
<1>0. Len(b.bytes) \in Nat /\ b.reader \in Nat /\ b.writer \in Nat /\ kCheapPrepend \in Nat
      /\ b.writer <= Len(b.bytes) /\ WriteableBytes(b) \in Nat
  BY LenProperties, BufferAssumption DEF Good, WriteableBytes
<1>1. CASE WriteableBytes(b) >= len
  BY <1>0, <1>1 DEF EnsureWritableBytes
<1>2. CASE WriteableBytes(b) < len /\ Grows(b, len)
  <2>1. c = [b EXCEPT !.bytes = Resized(b.bytes, b.writer + len)]
    BY <1>0, <1>2 DEF EnsureWritableBytes, MakeSpace
  <2>2. /\ Good(c) /\ ToStringView(c) = ToStringView(b) /\ ReadableBytes(c) = ReadableBytes(b)
        /\ WriteableBytes(c) = len /\ Len(c.bytes) = b.writer + len
    BY <1>2, <2>1, Enlarged
  <2>3. b.writer + len - kCheapPrepend < ReadableBytes(b) + 2 * len
    BY <1>0, <1>2 DEF Grows, WriteableBytes, PrependableBytes, ReadableBytes
  <2>4. Len(c.bytes) - kCheapPrepend < ReadableBytes(b) + 2 * len
    BY <1>0, <2>2, <2>3
  <2>5. WriteableBytes(c) >= len
    BY <2>2
  <2>6. Len(b.bytes) <= Len(c.bytes)
    BY <1>0, <1>2, <2>2 DEF WriteableBytes
  <2> QED BY <2>2, <2>4, <2>5, <2>6
<1>3. CASE WriteableBytes(b) < len /\ ~Grows(b, len)
  <2>1. c = [bytes  |-> Moved(b, kCheapPrepend),
             reader |-> kCheapPrepend,
             writer |-> kCheapPrepend + ReadableBytes(b)]
    BY <1>0, <1>3 DEF EnsureWritableBytes, MakeSpace
  <2>2. /\ Good(c) /\ ToStringView(c) = ToStringView(b) /\ ReadableBytes(c) = ReadableBytes(b)
        /\ WriteableBytes(c) >= len /\ Len(c.bytes) = Len(b.bytes)
    BY <1>3, <2>1, MovedDown
  <2>3. Len(b.bytes) <= Len(c.bytes)
    BY <1>0, <2>2
  <2> QED BY <2>2, <2>3
<1> QED BY <1>0, <1>1, <1>2, <1>3

-----------------------------------------------------------------------------
(* Writing and retrieving.                                                 *)

LEMMA Written ==
  ASSUME NEW b, Good(b), NEW data \in Seq(Bytes), Len(data) <= WriteableBytes(b),
         NEW c, c = HasWritten(b, data)
  PROVE  /\ Good(c) /\ ToStringView(c) = ToStringView(b) \o data
         /\ ReadableBytes(c) = ReadableBytes(b) + Len(data)
         /\ Len(c.bytes) = Len(b.bytes)
<1>0. b.bytes \in Seq(Bytes) /\ b.reader \in Nat /\ b.writer \in Nat /\ Len(b.bytes) \in Nat
      /\ b.reader <= b.writer /\ b.writer + Len(data) <= Len(b.bytes) /\ Len(data) \in Nat
      /\ ReadableBytes(b) = b.writer - b.reader /\ ReadableBytes(b) \in Nat
  BY LenProperties DEF Good, WriteableBytes, ReadableBytes
<1>o. /\ Overwritten(b.bytes, b.writer, data) \in Seq(Bytes)
      /\ Len(Overwritten(b.bytes, b.writer, data)) = Len(b.bytes)
      /\ \A i \in 1 .. Len(b.bytes) :
           Overwritten(b.bytes, b.writer, data)[i] =
             IF i \in b.writer + 1 .. b.writer + Len(data) THEN data[i - b.writer] ELSE b.bytes[i]
  BY <1>0, Overwriting
<1>1. /\ c.bytes = Overwritten(b.bytes, b.writer, data)
      /\ c.reader = b.reader /\ c.writer = b.writer + Len(data)
      /\ c \in [bytes : Seq(Bytes), reader : Nat, writer : Nat]
  <2>1. b \in [bytes : Seq(Bytes), reader : Nat, writer : Nat] /\ b.writer + Len(data) \in Nat
    BY <1>0 DEF Good
  <2>2. c = [b EXCEPT !.bytes = Overwritten(b.bytes, b.writer, data),
                      !.writer = b.writer + Len(data)]
    BY DEF HasWritten
  <2> QED BY <1>o, <2>1, <2>2
<1>2. Good(c)
  BY <1>0, <1>1, <1>o DEF Good
<1>3. ReadableBytes(c) = ReadableBytes(b) + Len(data)
  BY <1>0, <1>1 DEF ReadableBytes
<1>4. /\ ToStringView(b) \in Seq(Bytes) /\ Len(ToStringView(b)) = ReadableBytes(b)
      /\ \A i \in 1 .. ReadableBytes(b) : ToStringView(b)[i] = b.bytes[b.reader + i]
  BY View
<1>5. /\ ToStringView(c) \in Seq(Bytes) /\ Len(ToStringView(c)) = ReadableBytes(c)
      /\ \A i \in 1 .. ReadableBytes(c) : ToStringView(c)[i] = c.bytes[c.reader + i]
  BY <1>2, View
<1>6. ASSUME NEW i \in 1 .. Len(ToStringView(b))
      PROVE  ToStringView(c)[i] = ToStringView(b)[i]
  <2>1. PICK n \in 1 .. Len(b.bytes) : n = b.reader + i
    BY <1>0, <1>4
  <2>2. i \in 1 .. ReadableBytes(b) /\ i \in 1 .. ReadableBytes(c)
    BY <1>0, <1>3, <1>4
  <2>3. n \notin b.writer + 1 .. b.writer + Len(data)
    BY <1>0, <2>1, <2>2
  <2>4. c.bytes[n] = b.bytes[n]
    BY <1>1, <1>o, <2>3
  <2> QED BY <1>1, <1>4, <1>5, <2>1, <2>2, <2>4
<1>7. ASSUME NEW i \in 1 .. Len(data)
      PROVE  ToStringView(c)[Len(ToStringView(b)) + i] = data[i]
  <2>1. PICK n \in 1 .. Len(b.bytes) : n = b.writer + i
    BY <1>0
  <2>2. PICK k \in 1 .. ReadableBytes(c) : k = ReadableBytes(b) + i
    BY <1>0, <1>3, SMTT(30)
  <2>3. n \in b.writer + 1 .. b.writer + Len(data) /\ n - b.writer = i
    BY <1>0, <2>1
  <2>5. c.reader + k = n
    BY <1>0, <1>1, <2>1, <2>2, SMTT(30)
  <2>4. c.bytes[n] = data[i]
    BY <1>1, <1>o, <2>3
  <2> QED BY <1>4, <1>5, <2>2, <2>4, <2>5
<1>8. Len(ToStringView(c)) = Len(ToStringView(b)) + Len(data)
  BY <1>3, <1>4, <1>5
<1>9. ToStringView(c) = ToStringView(b) \o data
  BY <1>4, <1>5, <1>6, <1>7, <1>8, Concatenation
<1> QED BY <1>1, <1>o, <1>2, <1>3, <1>9

LEMMA AppendedBytes ==
  ASSUME NEW b, Good(b), NEW data \in Seq(Bytes),
         NEW c, c = Appended(b, data)
  PROVE  /\ Good(c) /\ ToStringView(c) = ToStringView(b) \o data
         /\ ReadableBytes(c) = ReadableBytes(b) + Len(data)
         /\ Len(b.bytes) <= Len(c.bytes)
         /\ \/ Len(c.bytes) = Len(b.bytes)
            \/ Len(c.bytes) - kCheapPrepend < ReadableBytes(b) + 2 * Len(data)
<1> DEFINE e == EnsureWritableBytes(b, Len(data))
<1>1. Len(data) \in Nat
  BY LenProperties
<1>2. /\ Good(e) /\ ToStringView(e) = ToStringView(b)
      /\ ReadableBytes(e) = ReadableBytes(b)
      /\ WriteableBytes(e) >= Len(data)
      /\ Len(b.bytes) <= Len(e.bytes)
      /\ \/ Len(e.bytes) = Len(b.bytes)
         \/ Len(e.bytes) - kCheapPrepend < ReadableBytes(b) + 2 * Len(data)
  BY <1>1, Ensured
<1>3. Len(data) <= WriteableBytes(e)
  <2>1. WriteableBytes(e) \in Int
    BY <1>2, LenProperties DEF WriteableBytes, Good
  <2> QED BY <1>1, <1>2, <2>1
<1>4. c = HasWritten(e, data)
  BY DEF Appended
<1> HIDE DEF e
<1>5. /\ Good(c) /\ ToStringView(c) = ToStringView(e) \o data
      /\ ReadableBytes(c) = ReadableBytes(e) + Len(data)
      /\ Len(c.bytes) = Len(e.bytes)
  BY <1>2, <1>3, <1>4, Written
<1> QED BY <1>2, <1>5

LEMMA Prepended ==
  ASSUME NEW b, Good(b), NEW data \in Seq(Bytes), Len(data) <= PrependableBytes(b),
         NEW c, c = [b EXCEPT !.reader = b.reader - Len(data),
                              !.bytes = Overwritten(b.bytes, b.reader - Len(data), data)]
  PROVE  /\ Good(c) /\ ToStringView(c) = data \o ToStringView(b)
         /\ ReadableBytes(c) = ReadableBytes(b) + Len(data)
         /\ Len(c.bytes) = Len(b.bytes)
<1>0. b.bytes \in Seq(Bytes) /\ b.reader \in Nat /\ b.writer \in Nat /\ Len(b.bytes) \in Nat
      /\ b.reader <= b.writer /\ b.writer <= Len(b.bytes) /\ Len(data) \in Nat
      /\ ReadableBytes(b) = b.writer - b.reader /\ ReadableBytes(b) \in Nat
  BY LenProperties DEF Good, ReadableBytes
<1>a. PICK at \in Nat : at = b.reader - Len(data)
  BY <1>0 DEF PrependableBytes
<1>o. /\ Overwritten(b.bytes, at, data) \in Seq(Bytes)
      /\ Len(Overwritten(b.bytes, at, data)) = Len(b.bytes)
      /\ \A i \in 1 .. Len(b.bytes) :
           Overwritten(b.bytes, at, data)[i] =
             IF i \in at + 1 .. at + Len(data) THEN data[i - at] ELSE b.bytes[i]
  <2>1. b.bytes \in Seq(Bytes)
    BY <1>0
  <2> QED BY <2>1, Overwriting
<1>1. /\ c.bytes = Overwritten(b.bytes, at, data)
      /\ c.reader = at /\ c.writer = b.writer
      /\ c \in [bytes : Seq(Bytes), reader : Nat, writer : Nat]
  BY <1>0, <1>a, <1>o DEF Good
<1>2. Good(c)
  BY <1>0, <1>1, <1>a, <1>o DEF Good
<1>3. ReadableBytes(c) = ReadableBytes(b) + Len(data) /\ ReadableBytes(c) = Len(data) + ReadableBytes(b)
  BY <1>0, <1>1, <1>a DEF ReadableBytes
<1>4. /\ ToStringView(b) \in Seq(Bytes) /\ Len(ToStringView(b)) = ReadableBytes(b)
      /\ \A i \in 1 .. ReadableBytes(b) : ToStringView(b)[i] = b.bytes[b.reader + i]
  BY View
<1>5. /\ ToStringView(c) \in Seq(Bytes) /\ Len(ToStringView(c)) = ReadableBytes(c)
      /\ \A i \in 1 .. ReadableBytes(c) : ToStringView(c)[i] = c.bytes[c.reader + i]
  BY <1>2, View
<1>6. ASSUME NEW i \in 1 .. Len(data)
      PROVE  ToStringView(c)[i] = data[i]
  <2>1. PICK n \in 1 .. Len(b.bytes) : n = at + i
    BY <1>0, <1>a
  <2>2. i \in 1 .. ReadableBytes(c) /\ n \in at + 1 .. at + Len(data) /\ n - at = i
    BY <1>0, <1>3, <1>a, <2>1
  <2>3. c.bytes[n] = data[i]
    BY <1>1, <1>o, <2>2
  <2> QED BY <1>1, <1>5, <2>1, <2>2, <2>3
<1>7. ASSUME NEW i \in 1 .. Len(ToStringView(b))
      PROVE  ToStringView(c)[Len(data) + i] = ToStringView(b)[i]
  <2>1. PICK n \in 1 .. Len(b.bytes) : n = b.reader + i
    BY <1>0, <1>4
  <2>2. PICK k \in 1 .. ReadableBytes(c) : k = Len(data) + i
    BY <1>0, <1>3, <1>4
  <2>3. n \notin at + 1 .. at + Len(data)
    BY <1>0, <1>a, <2>1
  <2>5. i \in 1 .. ReadableBytes(b)
    BY <1>4
  <2>6. c.reader + k = n
    BY <1>0, <1>1, <1>a, <2>1, <2>2, <2>5
  <2>4. c.bytes[n] = b.bytes[n]
    BY <1>1, <1>o, <2>3
  <2> QED BY <1>4, <1>5, <2>1, <2>2, <2>4, <2>5, <2>6
<1>8. Len(ToStringView(c)) = Len(data) + Len(ToStringView(b))
  BY <1>3, <1>4, <1>5
<1>9. ToStringView(c) = data \o ToStringView(b)
  BY <1>4, <1>5, <1>6, <1>7, <1>8, Concatenation
<1> QED BY <1>1, <1>o, <1>2, <1>3, <1>9

LEMMA Retrieved ==
  ASSUME NEW b, Good(b), kCheapPrepend <= Len(b.bytes), NEW len \in Nat,
         NEW c, c = Retrieve(b, len)
  PROVE  /\ Good(c) /\ ReadableBytes(c) <= ReadableBytes(b)
         /\ ToStringView(c) = SubSeq(ToStringView(b), len + 1, Len(ToStringView(b)))
         /\ c.bytes = b.bytes
<1>0. b.bytes \in Seq(Bytes) /\ b.reader \in Nat /\ b.writer \in Nat /\ Len(b.bytes) \in Nat
      /\ b.reader <= b.writer /\ b.writer <= Len(b.bytes) /\ kCheapPrepend \in Nat
      /\ ReadableBytes(b) = b.writer - b.reader
  BY LenProperties, BufferAssumption DEF Good, ReadableBytes
<1>v. /\ ToStringView(b) \in Seq(Bytes) /\ Len(ToStringView(b)) = ReadableBytes(b)
      /\ \A i \in 1 .. ReadableBytes(b) : ToStringView(b)[i] = b.bytes[b.reader + i]
  BY View
<1>1. CASE len < ReadableBytes(b)
  <2>1. c.bytes = b.bytes /\ c.reader = b.reader + len /\ c.writer = b.writer
        /\ c \in [bytes : Seq(Bytes), reader : Nat, writer : Nat]
    BY <1>0, <1>1 DEF Retrieve, Good
  <2>2. Good(c) /\ ReadableBytes(c) = ReadableBytes(b) - len
    BY <1>0, <1>1, <2>1 DEF Good, ReadableBytes
  <2>3. /\ ToStringView(c) \in Seq(Bytes) /\ Len(ToStringView(c)) = ReadableBytes(b) - len
        /\ \A i \in 1 .. ReadableBytes(b) - len : ToStringView(c)[i] = b.bytes[c.reader + i]
    BY <2>1, <2>2, View
  <2> DEFINE rest == SubSeq(ToStringView(b), len + 1, Len(ToStringView(b)))
  <2>4. /\ rest \in Seq(Bytes) /\ Len(rest) = ReadableBytes(b) - len
        /\ \A i \in 1 .. ReadableBytes(b) - len : rest[i] = ToStringView(b)[len + i]
    BY <1>0, <1>1, <1>v, Part
  <2> HIDE DEF rest
  <2>5. ASSUME NEW i \in 1 .. ReadableBytes(b) - len PROVE ToStringView(c)[i] = rest[i]
    <3>1. len + i \in 1 .. ReadableBytes(b) /\ c.reader + i = b.reader + (len + i)
      BY <1>0, <1>1, <2>1
    <3>2. ToStringView(b)[len + i] = b.bytes[b.reader + (len + i)]
      BY <1>v, <3>1
    <3> QED BY <2>3, <2>4, <3>1, <3>2
  <2>6. ToStringView(c) = rest
    BY <2>3, <2>4, <2>5, SeqEqual
  <2>7. ReadableBytes(c) <= ReadableBytes(b)
    BY <1>0, <2>2
  <2>8. ToStringView(c) = SubSeq(ToStringView(b), len + 1, Len(ToStringView(b)))
    BY <2>6 DEF rest
  <2> QED BY <2>1, <2>2, <2>7, <2>8
<1>2. CASE ~(len < ReadableBytes(b))
  <2>1. c.bytes = b.bytes /\ c.reader = kCheapPrepend /\ c.writer = kCheapPrepend
        /\ c \in [bytes : Seq(Bytes), reader : Nat, writer : Nat]
    BY <1>0, <1>2 DEF Retrieve, Good
  <2>2. Good(c) /\ ReadableBytes(c) = 0
    BY <1>0, <2>1 DEF Good, ReadableBytes
  <2>3. ToStringView(c) = <<>>
    <3>1. ToStringView(c) \in Seq(Bytes) /\ Len(ToStringView(c)) = 0
      BY <2>2, View
    <3> QED BY <3>1, EmptySeq
  <2>4. SubSeq(ToStringView(b), len + 1, Len(ToStringView(b))) = <<>>
    <3>1. ReadableBytes(b) < len + 1 /\ ReadableBytes(b) \in Int /\ len + 1 \in Int
      BY <1>0, <1>2
    <3> QED BY <1>v, <3>1, SubSeqEmpty
  <2>5. ReadableBytes(c) <= ReadableBytes(b)
    BY <1>0, <2>2
  <2> QED BY <2>1, <2>2, <2>3, <2>4, <2>5
<1> QED BY <1>1, <1>2

-----------------------------------------------------------------------------
(* The inductive invariant.                                                *)

BInv ==
  /\ Good(buffer)
  /\ kCheapPrepend <= Len(buffer.bytes)
  /\ ensured \in Nat /\ ensured <= WriteableBytes(buffer)
  /\ ReadableBytes(buffer) <= MaxReadable
  /\ StaysSmall

\* The size of the vector after a step.
Small(b) ==
  LET size == Len(b.bytes) - kCheapPrepend
  IN  size <= kInitialSize \/ size <= MaxReadable + 2 * MaxLen

LEMMA DataSeq ==
  ASSUME NEW data \in Data
  PROVE  /\ data \in Seq(Byte) /\ data \in Seq(Bytes)
         /\ Len(data) \in Nat /\ Len(data) <= MaxLen
<1>1. PICK n \in 0 .. MaxLen : data \in [1 .. n -> Byte]
  BY DEF Data
<1>2. data \in Seq(Byte) /\ Len(data) = n
  BY <1>1, FunctionSeq, BufferAssumption
<1>3. data \in Seq(Bytes)
  BY <1>2, SeqMonotonic DEF Bytes
<1> QED BY <1>1, <1>2, <1>3, BufferAssumption

LEMMA HtoBeSeq ==
  ASSUME NEW S, NEW x \in Seq(S)
  PROVE  HtoBe(x) \in Seq(S) /\ Len(HtoBe(x)) = Len(x)
<1>1. Len(x) \in Nat
  BY LenProperties
<1>2. HtoBe(x) \in [1 .. Len(x) -> S]
  <2>1. ASSUME NEW i \in 1 .. Len(x) PROVE x[Len(x) + 1 - i] \in S
    <3>1. Len(x) + 1 - i \in 1 .. Len(x)
      BY <1>1
    <3> QED BY <3>1, ElementOfSeq
  <2> QED BY <2>1 DEF HtoBe
<1> QED BY <1>1, <1>2, FunctionSeq

\* What a step has to show of the new Buffer.
LEMMA Kept ==
  ASSUME Good(buffer'), kCheapPrepend <= Len(buffer'.bytes), ensured' = 0,
         ReadableBytes(buffer') <= MaxReadable, Small(buffer')
  PROVE  BInv'
<1>1. WriteableBytes(buffer') \in Nat
  BY LenProperties DEF Good, WriteableBytes
<1> QED BY <1>1 DEF BInv, Small, StaysSmall, WriteableBytes, ReadableBytes, Good

\* Bytes come in by a copy of the class, behind what is there.
LEMMA AppendStep ==
  ASSUME BInv, NEW data \in Seq(Bytes), Len(data) <= MaxLen,
         ReadableBytes(buffer) + Len(data) <= MaxReadable,
         buffer' = Appended(buffer, data), ensured' = 0
  PROVE  BInv' /\ ToStringView(buffer)' = ToStringView(buffer) \o data
<1>0. /\ Len(data) \in Nat /\ MaxReadable \in Nat /\ MaxLen \in Nat /\ kInitialSize \in Nat
      /\ kCheapPrepend \in Nat /\ ReadableBytes(buffer) \in Nat /\ Len(buffer.bytes) \in Nat
      /\ Good(buffer) /\ kCheapPrepend <= Len(buffer.bytes)
  BY LenProperties, BufferAssumption, View DEF BInv, Good
<1>1. /\ Good(buffer') /\ ToStringView(buffer') = ToStringView(buffer) \o data
      /\ ReadableBytes(buffer') = ReadableBytes(buffer) + Len(data)
      /\ Len(buffer.bytes) <= Len(buffer'.bytes)
      /\ \/ Len(buffer'.bytes) = Len(buffer.bytes)
         \/ Len(buffer'.bytes) - kCheapPrepend < ReadableBytes(buffer) + 2 * Len(data)
  BY <1>0, AppendedBytes
<1>2. Len(buffer'.bytes) \in Nat
  BY <1>1, LenProperties DEF Good
<1>3. Small(buffer')
  <2>1. CASE Len(buffer'.bytes) = Len(buffer.bytes)
    BY <2>1 DEF BInv, StaysSmall, Small
  <2>2. CASE Len(buffer'.bytes) - kCheapPrepend < ReadableBytes(buffer) + 2 * Len(data)
    <3>1. Len(buffer'.bytes) - kCheapPrepend <= MaxReadable + 2 * MaxLen
      BY <1>0, <1>2, <2>2
    <3> QED BY <3>1 DEF Small
  <2> QED BY <1>1, <2>1, <2>2
<1>4. kCheapPrepend <= Len(buffer'.bytes)
  BY <1>0, <1>1, <1>2
<1>5. ReadableBytes(buffer') <= MaxReadable
  BY <1>0, <1>1
<1>6. BInv'
  BY <1>1, <1>3, <1>4, <1>5, Kept
<1>7. ToStringView(buffer)' = ToStringView(buffer')
  BY DEF ToStringView
<1> QED BY <1>1, <1>6, <1>7

\* Bytes go in and out without a change to the vector's size.
LEMMA SameSizeStep ==
  ASSUME BInv, Good(buffer'), Len(buffer'.bytes) = Len(buffer.bytes), ensured' = 0,
         ReadableBytes(buffer') <= MaxReadable
  PROVE  BInv'
<1>1. Small(buffer') /\ kCheapPrepend <= Len(buffer'.bytes)
  BY DEF BInv, StaysSmall, Small
<1> QED BY <1>1, Kept

LEMMA RetrieveStep ==
  ASSUME BInv, NEW len \in Nat, buffer' = Retrieve(buffer, len), ensured' = 0
  PROVE  BInv' /\ ToStringView(buffer)' = Queue!Rest(len)
<1>1. /\ Good(buffer') /\ ReadableBytes(buffer') <= ReadableBytes(buffer)
      /\ ToStringView(buffer') =
           SubSeq(ToStringView(buffer), len + 1, Len(ToStringView(buffer)))
      /\ buffer'.bytes = buffer.bytes
  BY Retrieved DEF BInv
<1>2. ReadableBytes(buffer') \in Nat /\ ReadableBytes(buffer) \in Nat /\ MaxReadable \in Nat
  BY <1>1, View, BufferAssumption DEF BInv
<1>3. ReadableBytes(buffer') <= MaxReadable
  BY <1>1, <1>2 DEF BInv
<1>4. BInv'
  BY <1>1, <1>3, SameSizeStep
<1> QED BY <1>1, <1>4 DEF Queue!Rest, ToStringView

LEMMA Now ==
  ASSUME BInv
  PROVE  /\ ToStringView(buffer) \in Seq(Bytes)
         /\ Len(ToStringView(buffer)) = ReadableBytes(buffer)
         /\ ReadableBytes(buffer) \in Nat /\ ReadableBytes(buffer) <= MaxReadable
         /\ MaxReadable \in Nat /\ MaxLen \in Nat
BY View, BufferAssumption DEF BInv

\* The calls that change nothing a reader sees.
LEMMA KeepSteps ==
  ASSUME BInv, NEW len \in 0 .. MaxLen, PromiseRoom(len) \/ Shrink(len)
  PROVE  BInv' /\ Queue!Keep
<1>0. /\ len \in Nat /\ len <= MaxLen /\ MaxLen \in Nat /\ MaxReadable \in Nat /\ kInitialSize \in Nat
      /\ kCheapPrepend \in Nat /\ ReadableBytes(buffer) \in Nat /\ Len(buffer.bytes) \in Nat
      /\ ReadableBytes(buffer) <= MaxReadable
      /\ Good(buffer) /\ kCheapPrepend <= Len(buffer.bytes)
  BY LenProperties, BufferAssumption, View DEF BInv, Good
<1>1. CASE PromiseRoom(len)
  <2>1. buffer' = EnsureWritableBytes(buffer, len) /\ ensured' = len
        /\ given' = <<>> /\ result' = <<>>
    BY <1>1 DEF PromiseRoom
  <2>2. /\ Good(buffer') /\ ToStringView(buffer') = ToStringView(buffer)
        /\ ReadableBytes(buffer') = ReadableBytes(buffer)
        /\ WriteableBytes(buffer') >= len
        /\ Len(buffer.bytes) <= Len(buffer'.bytes)
        /\ \/ Len(buffer'.bytes) = Len(buffer.bytes)
           \/ Len(buffer'.bytes) - kCheapPrepend < ReadableBytes(buffer) + 2 * len
    BY <1>0, <2>1, Ensured
  <2>3. Len(buffer'.bytes) \in Nat /\ WriteableBytes(buffer') \in Nat
    BY <2>2, LenProperties DEF Good, WriteableBytes
  <2>4. Small(buffer')
    <3>1. CASE Len(buffer'.bytes) = Len(buffer.bytes)
      BY <3>1 DEF BInv, StaysSmall, Small
    <3>2. CASE Len(buffer'.bytes) - kCheapPrepend < ReadableBytes(buffer) + 2 * len
      <4>1. Len(buffer'.bytes) - kCheapPrepend <= MaxReadable + 2 * MaxLen
        BY <1>0, <2>3, <3>2
      <4> QED BY <4>1 DEF Small
    <3> QED BY <2>2, <3>1, <3>2
  <2>5. kCheapPrepend <= Len(buffer'.bytes) /\ ensured' <= WriteableBytes(buffer')
        /\ ReadableBytes(buffer') <= MaxReadable /\ ensured' \in Nat
    BY <1>0, <2>1, <2>2, <2>3
  <2>6. BInv'
    BY <2>2, <2>4, <2>5 DEF BInv, Small, StaysSmall, WriteableBytes, ReadableBytes, Good
  <2> QED BY <2>1, <2>2, <2>6 DEF Queue!Keep, ToStringView
<1>2. CASE Shrink(len)
  <2> DEFINE view == ToStringView(buffer)
             new == New(kInitialSize)
             temp == EnsureWritableBytes(new, ReadableBytes(buffer) + len)
  <2>1. buffer' = Appended(temp, view) /\ ensured' = 0 /\ given' = <<>> /\ result' = <<>>
    BY <1>2 DEF Shrink, Returns
  <2>2. /\ Good(new) /\ Len(new.bytes) = kCheapPrepend + kInitialSize
        /\ ReadableBytes(new) = 0 /\ ToStringView(new) = <<>> /\ new.writer = kCheapPrepend
    BY <1>0, NewGood DEF New
  <2>3. view \in Seq(Bytes) /\ Len(view) = ReadableBytes(buffer)
    BY Now
  <2> HIDE DEF view, new
  <2>4. /\ Good(temp) /\ ToStringView(temp) = <<>> /\ ReadableBytes(temp) = 0
        /\ WriteableBytes(temp) >= ReadableBytes(buffer) + len
        /\ Len(new.bytes) <= Len(temp.bytes)
        /\ \/ Len(temp.bytes) = Len(new.bytes)
           \/ Len(temp.bytes) = new.writer + (ReadableBytes(buffer) + len)
    <3>1. ReadableBytes(buffer) + len \in Nat
      BY <1>0
    <3> QED BY <2>2, <3>1, Ensured
  <2> HIDE DEF temp
  <2>5. Len(temp.bytes) \in Nat /\ WriteableBytes(temp) \in Nat
    BY <2>4, LenProperties DEF Good, WriteableBytes
  <2>6. Len(view) <= WriteableBytes(temp)
    BY <1>0, <2>3, <2>4, <2>5
  <2>7. buffer' = HasWritten(temp, view)
    <3>1. ~(WriteableBytes(temp) < Len(view))
      BY <1>0, <2>3, <2>5, <2>6
    <3> QED BY <2>1, <3>1 DEF Appended, EnsureWritableBytes
  <2>8. /\ Good(buffer') /\ ToStringView(buffer') = <<>> \o view
        /\ ReadableBytes(buffer') = 0 + Len(view)
        /\ Len(buffer'.bytes) = Len(temp.bytes)
    BY <2>3, <2>4, <2>6, <2>7, Written
  <2>9. ToStringView(buffer') = view
    BY <2>3, <2>8, ConcatEmptySeq
  <2>10. Small(buffer') /\ kCheapPrepend <= Len(buffer'.bytes)
    <3>1. CASE Len(temp.bytes) = Len(new.bytes)
      <4>1. Len(buffer'.bytes) - kCheapPrepend <= kInitialSize
        BY <1>0, <2>2, <2>8, <3>1
      <4> QED BY <1>0, <2>2, <2>8, <3>1, <4>1 DEF Small
    <3>2. CASE Len(temp.bytes) = new.writer + (ReadableBytes(buffer) + len)
      <4>1. Len(buffer'.bytes) = kCheapPrepend + (ReadableBytes(buffer) + len)
        BY <2>2, <2>8, <3>2
      <4>2. Len(buffer'.bytes) - kCheapPrepend <= MaxReadable + 2 * MaxLen
            /\ kCheapPrepend <= Len(buffer'.bytes)
        BY <1>0, <4>1
      <4> QED BY <4>2 DEF Small
    <3> QED BY <2>4, <3>1, <3>2
  <2>11. ReadableBytes(buffer') <= MaxReadable
    BY <1>0, <2>3, <2>8
  <2>12. BInv'
    BY <2>1, <2>8, <2>10, <2>11, Kept
  <2>13. ToStringView(buffer)' = ToStringView(buffer)
    BY <2>9 DEF view, ToStringView
  <2> QED BY <2>1, <2>12, <2>13 DEF Queue!Keep
<1> QED BY <1>1, <1>2

\* The calls that put bytes in.
LEMMA PutSteps ==
  ASSUME BInv, NEW data \in Data,
         \/ AppendData(data) \/ AppendInt(data) \/ WriteDirectly(data) \/ ReadFd(data)
  PROVE  BInv' /\ Queue!Put
<1>0. /\ data \in Seq(Bytes) /\ Len(data) \in Nat /\ Len(data) <= MaxLen
      /\ HtoBe(data) \in Seq(Bytes) /\ Len(HtoBe(data)) = Len(data)
      /\ Good(buffer) /\ ReadableBytes(buffer) \in Nat /\ WriteableBytes(buffer) \in Nat
      /\ MaxReadable \in Nat
  <2>1. WriteableBytes(buffer) \in Nat
    BY LenProperties DEF BInv, Good, WriteableBytes
  <2> QED BY <2>1, DataSeq, HtoBeSeq, Now DEF BInv
<1>1. CASE AppendData(data)
  BY <1>0, <1>1, AppendStep DEF AppendData, Room, Returns, Queue!Put
<1>2. CASE AppendInt(data)
  BY <1>0, <1>2, AppendStep DEF AppendInt, Room, Returns, Queue!Put
<1>3. ASSUME buffer' = HasWritten(buffer, data), Room(Len(data)), ensured' = 0,
             Len(data) <= WriteableBytes(buffer)
      PROVE  BInv' /\ ToStringView(buffer)' = ToStringView(buffer) \o data
  <2>1. /\ Good(buffer') /\ ToStringView(buffer') = ToStringView(buffer) \o data
        /\ ReadableBytes(buffer') = ReadableBytes(buffer) + Len(data)
        /\ Len(buffer'.bytes) = Len(buffer.bytes)
    BY <1>0, <1>3, Written
  <2>2. ReadableBytes(buffer') <= MaxReadable
    BY <1>0, <1>3, <2>1 DEF Room
  <2>3. BInv'
    BY <1>3, <2>1, <2>2, SameSizeStep
  <2> QED BY <2>1, <2>3 DEF ToStringView
<1>4. CASE WriteDirectly(data)
  <2>1. Len(data) <= WriteableBytes(buffer)
    BY <1>0, <1>4 DEF WriteDirectly, BInv
  <2> QED BY <1>3, <1>4, <2>1 DEF WriteDirectly, Returns, Queue!Put
<1>5. CASE ReadFd(data)
  <2> DEFINE writable == WriteableBytes(buffer)
             first == SubSeq(data, 1, writable)
             rest == SubSeq(data, writable + 1, Len(data))
             b == HasWritten(buffer, first)
  <2>1. CASE Len(data) <= writable
    <3>1. buffer' = HasWritten(buffer, data)
      BY <1>5, <2>1 DEF ReadFd
    <3> QED BY <1>3, <1>5, <2>1, <3>1 DEF ReadFd, Returns, Queue!Put
  <2>2. CASE ~(Len(data) <= writable)
    <3>1. buffer' = Appended(b, rest) /\ Room(Len(data)) /\ ensured' = 0
          /\ given' = data /\ result' = <<>>
      BY <1>5, <2>2 DEF ReadFd, Returns
    <3>2. /\ first \in Seq(Bytes) /\ Len(first) = writable
          /\ rest \in Seq(Bytes) /\ Len(rest) = Len(data) - writable
          /\ first \o rest = data
      <4>1. PICK w \in Nat : w = writable /\ w <= Len(data)
        BY <1>0, <2>2
      <4> HIDE DEF writable
      <4> QED BY <1>0, <4>1, TwoParts
    <3> HIDE DEF first, rest
    <3>3. /\ Good(b) /\ ToStringView(b) = ToStringView(buffer) \o first
          /\ ReadableBytes(b) = ReadableBytes(buffer) + writable
          /\ Len(b.bytes) = Len(buffer.bytes)
      <4>1. Good(buffer) /\ Len(first) <= WriteableBytes(buffer)
        BY <1>0, <3>2
      <4> QED BY <3>2, <4>1, Written, SMTT(30)
    <3> HIDE DEF b
    <3>4. /\ Good(buffer') /\ ToStringView(buffer') = ToStringView(b) \o rest
          /\ ReadableBytes(buffer') = ReadableBytes(b) + Len(rest)
          /\ Len(b.bytes) <= Len(buffer'.bytes)
          /\ \/ Len(buffer'.bytes) = Len(b.bytes)
             \/ Len(buffer'.bytes) - kCheapPrepend < ReadableBytes(b) + 2 * Len(rest)
      BY <3>1, <3>2, <3>3, AppendedBytes
    <3>5. /\ ReadableBytes(buffer) + Len(data) <= MaxReadable /\ kCheapPrepend \in Nat
          /\ Len(buffer'.bytes) \in Nat /\ Len(buffer.bytes) \in Nat /\ MaxLen \in Nat
          /\ kCheapPrepend <= Len(buffer.bytes)
      BY <3>1, <3>4, LenProperties, BufferAssumption DEF Room, Good, BInv
    <3>6. ReadableBytes(buffer') <= MaxReadable
      BY <1>0, <3>2, <3>3, <3>4, <3>5
    <3>7. Small(buffer')
      <4>1. CASE Len(buffer'.bytes) = Len(b.bytes)
        BY <3>3, <4>1 DEF BInv, StaysSmall, Small
      <4>2. CASE Len(buffer'.bytes) - kCheapPrepend < ReadableBytes(b) + 2 * Len(rest)
        <5>1. PICK k \in Nat, n \in Nat, w \in Nat :
                k = ReadableBytes(buffer) /\ n = Len(data) /\ w = writable
          BY <1>0
        <5>2. ReadableBytes(b) = k + w /\ Len(rest) = n - w /\ k + n <= MaxReadable
              /\ n <= MaxLen /\ w <= n
          BY <1>0, <2>2, <3>2, <3>3, <3>5, <5>1
        <5>3. k + w + 2 * (n - w) <= MaxReadable + 2 * MaxLen
          BY <1>0, <3>5, <5>2
        <5>4. Len(buffer'.bytes) - kCheapPrepend < k + w + 2 * (n - w)
          BY <4>2, <5>2
        <5>5. Len(buffer'.bytes) - kCheapPrepend <= MaxReadable + 2 * MaxLen
          BY <1>0, <3>5, <5>3, <5>4
        <5> QED BY <5>5 DEF Small
      <4> QED BY <3>4, <4>1, <4>2
    <3>8. kCheapPrepend <= Len(buffer'.bytes)
      BY <3>3, <3>4, <3>5
    <3>9. BInv'
      BY <3>1, <3>4, <3>6, <3>7, <3>8, Kept
    <3>10. ToStringView(buffer') = ToStringView(buffer) \o data
      <4>1. (ToStringView(buffer) \o first) \o rest = ToStringView(buffer) \o (first \o rest)
        <5>1. \A u, v, w \in Seq(Bytes) : (u \o v) \o w = u \o (v \o w)
          BY ConcatAssociative
        <5> QED BY <3>2, <5>1, Now
      <4> QED BY <3>2, <3>3, <3>4, <4>1
    <3> QED BY <3>1, <3>9, <3>10 DEF Queue!Put, ToStringView
  <2> QED BY <2>1, <2>2
<1> QED BY <1>1, <1>2, <1>4, <1>5

LEMMA PrependStep ==
  ASSUME BInv, NEW data \in Data, PrependData(data)
  PROVE  BInv' /\ Queue!PutFront
<1>0. /\ data \in Seq(Bytes) /\ Len(data) \in Nat /\ Good(buffer)
      /\ ReadableBytes(buffer) \in Nat /\ MaxReadable \in Nat
  BY DataSeq, Now DEF BInv
<1>1. /\ Good(buffer') /\ ToStringView(buffer') = data \o ToStringView(buffer)
      /\ ReadableBytes(buffer') = ReadableBytes(buffer) + Len(data)
      /\ Len(buffer'.bytes) = Len(buffer.bytes)
  BY <1>0, Prepended DEF PrependData
<1>2. ReadableBytes(buffer') <= MaxReadable
  BY <1>0, <1>1 DEF PrependData, Room
<1>3. BInv'
  BY <1>1, <1>2, SameSizeStep DEF PrependData, Returns
<1> QED BY <1>1, <1>3 DEF PrependData, Returns, Queue!PutFront, ToStringView

-----------------------------------------------------------------------------
(* Taking bytes out.                                                       *)

\* The first bytes of what may be read, as the function returns them.
LEMMA PeekedSeq ==
  ASSUME BInv, NEW len \in Nat, len <= ReadableBytes(buffer)
  PROVE  /\ Peeked(buffer, len) = Queue!First(len)
         /\ Peeked(buffer, len) \in Seq(Bytes)
         /\ Len(Peeked(buffer, len)) = len
BY Now, TwoParts DEF Peeked, Queue!First

LEMMA UnWriteStep ==
  ASSUME BInv, NEW len \in Lengths, UnWrite(len)
  PROVE  BInv' /\ Queue!Undo(len)
<1>1. /\ len <= ReadableBytes(buffer) /\ ensured' = 0 /\ given' = <<>> /\ result' = <<>>
      /\ buffer' = [buffer EXCEPT !.writer = @ - len]
  BY DEF UnWrite, Returns
<1>2. /\ buffer \in [bytes : Seq(Bytes), reader : Nat, writer : Nat] /\ Good(buffer)
      /\ buffer.bytes \in Seq(Bytes)
      /\ buffer.reader \in Nat /\ buffer.writer \in Nat /\ Len(buffer.bytes) \in Nat
      /\ buffer.reader <= buffer.writer /\ buffer.writer <= Len(buffer.bytes)
      /\ len \in Nat /\ MaxReadable \in Nat /\ ReadableBytes(buffer) <= MaxReadable
      /\ ReadableBytes(buffer) = buffer.writer - buffer.reader
      /\ ReadableBytes(buffer) \in Nat
  BY Now, LenProperties, BufferAssumption DEF BInv, Good, ReadableBytes, Lengths
<1>3. PICK k \in Nat : k = ReadableBytes(buffer) - len
  BY <1>1, <1>2
<1>4. /\ buffer'.bytes = buffer.bytes /\ buffer'.reader = buffer.reader
      /\ buffer'.writer = buffer.writer - len /\ buffer.writer - len \in Nat
      /\ buffer' \in [bytes : Seq(Bytes), reader : Nat, writer : Nat]
  BY <1>1, <1>2
<1>5. Good(buffer') /\ ReadableBytes(buffer') = k /\ k <= ReadableBytes(buffer)
  BY <1>1, <1>2, <1>3, <1>4, SMTT(30) DEF Good, ReadableBytes
<1>6. k <= MaxReadable
  BY <1>2, <1>5
<1>7. BInv'
  BY <1>1, <1>4, <1>5, <1>6, SameSizeStep
<1>8. ToStringView(buffer') = SubSeq(ToStringView(buffer), 1, k)
  <2> DEFINE view == ToStringView(buffer)
             part == SubSeq(view, 1, k)
  <2>1. /\ view \in Seq(Bytes) /\ Len(view) = ReadableBytes(buffer)
        /\ \A i \in 1 .. ReadableBytes(buffer) : view[i] = buffer.bytes[buffer.reader + i]
    BY <1>2, View
  <2>2. /\ ToStringView(buffer') \in Seq(Bytes) /\ Len(ToStringView(buffer')) = k
        /\ \A i \in 1 .. k : ToStringView(buffer')[i] = buffer.bytes[buffer.reader + i]
    BY <1>4, <1>5, View
  <2>3. 0 \in Nat /\ 0 <= k /\ 0 + 1 = 1 /\ k - 0 = k
    OBVIOUS
  <2> HIDE DEF view
  <2>4. /\ SubSeq(view, 0 + 1, k) \in Seq(Bytes) /\ Len(SubSeq(view, 0 + 1, k)) = k - 0
        /\ \A i \in 1 .. k - 0 : SubSeq(view, 0 + 1, k)[i] = view[0 + i]
    BY <1>5, <2>1, <2>3, Part
  <2>5. /\ part \in Seq(Bytes) /\ Len(part) = k
        /\ \A i \in 1 .. k : part[i] = view[i]
    BY <2>3, <2>4
  <2> HIDE DEF part
  <2>6. ASSUME NEW i \in 1 .. k PROVE ToStringView(buffer')[i] = part[i]
    <3>1. i \in 1 .. ReadableBytes(buffer)
      BY <1>2, <1>5
    <3> QED BY <2>1, <2>2, <2>5, <3>1
  <2>7. ToStringView(buffer') = part
    BY <2>2, <2>5, <2>6, SeqEqual
  <2> QED BY <2>7 DEF part, view
<1>9. Len(ToStringView(buffer)) - len = k /\ len <= Len(ToStringView(buffer))
  BY <1>1, <1>3, Now
<1> QED BY <1>1, <1>7, <1>8, <1>9 DEF Queue!Undo, Queue!First, ToStringView

LEMMA DropStep ==
  ASSUME BInv, NEW len \in Lengths, RetrieveSome(len)
  PROVE  BInv' /\ Queue!Drop(len)
<1>1. len \in Nat
  BY DEF Lengths
<1> QED BY <1>1, RetrieveStep DEF RetrieveSome, Returns, Queue!Drop

LEMMA GetStep ==
  ASSUME BInv, NEW len \in Lengths, RetrieveAsString(len)
  PROVE  BInv' /\ Queue!Get(len)
<1>1. len \in Nat
  BY DEF Lengths
<1>2. Peeked(buffer, len) = Queue!First(len) /\ len <= Len(ToStringView(buffer))
  BY <1>1, PeekedSeq, Now DEF RetrieveAsString
<1> QED BY <1>1, <1>2, RetrieveStep DEF RetrieveAsString, Returns, Queue!Get

LEMMA GetIntStep ==
  ASSUME BInv, NEW size \in IntSizes, ReadInt(size)
  PROVE  BInv' /\ Queue!GetInt(size)
<1>1. size \in Nat
  BY BufferAssumption
<1>2. Peeked(buffer, size) = Queue!First(size) /\ size <= Len(ToStringView(buffer))
  BY <1>1, PeekedSeq, Now DEF ReadInt
<1> QED BY <1>1, <1>2, RetrieveStep DEF ReadInt, Returns, Queue!GetInt, HtoBe, Queue!HtoBe

LEMMA GetWideStep ==
  ASSUME BInv, ReadInt64
  PROVE  BInv' /\ Queue!GetWide
<1>1. Wide \in Nat /\ Wide <= Len(ToStringView(buffer))
  BY BufferAssumption, Now DEF ReadInt64
<1> QED BY <1>1, RetrieveStep DEF ReadInt64, Returns, Queue!GetWide

LEMMA DropLineStep ==
  ASSUME BInv, NEW end \in Ends, RetrieveLine(end)
  PROVE  BInv' /\ Queue!DropLine
<1>1. PICK n \in Find(buffer, end) : buffer' = Retrieve(buffer, n + Len(end))
  BY DEF RetrieveLine
<1>2. Len(end) \in Nat /\ Len(end) >= 1
  BY DEF Ends
<1>3. /\ n \in Nat /\ n + Len(end) <= ReadableBytes(buffer)
      /\ IsEnd(buffer, n, end) /\ \A k \in 0 .. n - 1 : ~IsEnd(buffer, k, end)
  BY <1>1, <1>2, Now DEF Find
<1>4. n \in Lengths
  BY <1>2, <1>3, Now DEF Lengths
<1>5. ensured' = 0 /\ given' = <<>> /\ result' = <<>>
  BY DEF RetrieveLine, Returns
<1>6. n + Len(end) \in Nat
  BY <1>2, <1>3
<1>7. BInv' /\ ToStringView(buffer)' = Queue!Rest(n + Len(end))
  BY <1>1, <1>5, <1>6, RetrieveStep
<1>8. n + Len(end) <= Len(ToStringView(buffer))
  BY <1>3, Now
<1> QED BY <1>3, <1>4, <1>5, <1>7, <1>8 DEF Queue!DropLine, IsEnd

-----------------------------------------------------------------------------
(* The theorems.                                                           *)

LEMMA BInvInit ==
  ASSUME Init
  PROVE  BInv /\ Queue!Init
<1>1. /\ buffer = New(kInitialSize) /\ given = <<>> /\ result = <<>> /\ ensured = 0
  BY DEF Init
<1>2. /\ Good(buffer) /\ Len(buffer.bytes) = kCheapPrepend + kInitialSize
      /\ ReadableBytes(buffer) = 0 /\ ToStringView(buffer) = <<>>
      /\ kCheapPrepend \in Nat /\ kInitialSize \in Nat /\ MaxReadable \in Nat
  BY <1>1, NewGood, BufferAssumption
<1>3. WriteableBytes(buffer) \in Nat
  BY <1>2, LenProperties DEF Good, WriteableBytes
<1>4. BInv
  BY <1>1, <1>2, <1>3 DEF BInv, StaysSmall
<1> QED BY <1>1, <1>2, <1>4 DEF Queue!Init

\* Every call keeps the invariant and is a call of the queue.
LEMMA BInvStep ==
  ASSUME BInv, [Next]_vars
  PROVE  BInv' /\ [Queue!Next]_(Queue!vars)
<1>1. CASE UNCHANGED vars
  BY <1>1 DEF vars, BInv, Good, ReadableBytes, WriteableBytes, StaysSmall, ToStringView, Queue!vars
<1>2. ASSUME NEW data \in Data,
             \/ AppendData(data) \/ PrependData(data) \/ WriteDirectly(data) \/ ReadFd(data)
             \/ AppendInt(data)
      PROVE  BInv' /\ Queue!Next
  <2>1. CASE PrependData(data)
    BY <2>1, PrependStep DEF Queue!Next
  <2>2. CASE ~PrependData(data)
    BY <1>2, <2>2, PutSteps DEF Queue!Next
  <2> QED BY <2>1, <2>2
<1>3. ASSUME NEW len \in 0 .. MaxLen, PromiseRoom(len) \/ Shrink(len)
      PROVE  BInv' /\ Queue!Next
  BY <1>3, KeepSteps DEF Queue!Next
<1>4. ASSUME NEW len \in Lengths,
             UnWrite(len) \/ RetrieveSome(len) \/ RetrieveAsString(len)
      PROVE  BInv' /\ Queue!Next
  BY <1>4, UnWriteStep, DropStep, GetStep DEF Queue!Next
<1>5. ASSUME NEW size \in IntSizes, ReadInt(size)
      PROVE  BInv' /\ Queue!Next
  BY <1>5, GetIntStep DEF Queue!Next
<1>6. CASE ReadInt64
  BY <1>6, GetWideStep DEF Queue!Next
<1>7. ASSUME NEW end \in Ends, RetrieveLine(end)
      PROVE  BInv' /\ Queue!Next
  BY <1>7, DropLineStep DEF Queue!Next
<1>8. CASE Next
  BY <1>2, <1>3, <1>4, <1>5, <1>6, <1>7, <1>8 DEF Next
<1> QED BY <1>1, <1>8

\* The indices stay in order and inside the vector, and the room promised to
\* a caller is there (hao_buffer.cpp:203-216, 368-371).
THEOREM BufferInBounds == Spec => []InBounds
<1>1. BInv => InBounds
  <2> SUFFICES ASSUME BInv PROVE InBounds
    OBVIOUS
  <2>1. /\ buffer.reader \in Nat /\ buffer.writer \in Nat /\ Len(buffer.bytes) \in Nat
        /\ buffer.reader <= buffer.writer /\ ensured \in Nat
        /\ ensured <= Len(buffer.bytes) - buffer.writer
    BY LenProperties DEF BInv, Good, WriteableBytes
  <2> QED BY <2>1 DEF InBounds
<1>2. Init => BInv
  BY BInvInit
<1>3. BInv /\ [Next]_vars => BInv'
  BY BInvStep
<1> QED BY <1>1, <1>2, <1>3, PTL DEF Spec

\* Room in front is used again before the vector is enlarged, so that it does
\* not grow for ever under a bounded content (hao_buffer.cpp:330-345).
THEOREM BufferStaysSmall == Spec => []StaysSmall
<1>1. BInv => StaysSmall
  BY DEF BInv
<1>2. Init => BInv
  BY BInvInit
<1>3. BInv /\ [Next]_vars => BInv'
  BY BInvStep
<1> QED BY <1>1, <1>2, <1>3, PTL DEF Spec

\* A reader gets the bytes that were put in, each once and in order, wherever
\* they have been moved to (hao_buffer.cpp:112-376).
THEOREM BufferIsByteQueue == Spec => IsByteQueue
<1>1. Init => BInv /\ Queue!Init
  BY BInvInit
<1>2. BInv /\ [Next]_vars => BInv' /\ [Queue!Next]_(Queue!vars)
  BY BInvStep
<1> QED BY <1>1, <1>2, PTL DEF Spec, IsByteQueue, Queue!Spec
=============================================================================
