----------------------------- MODULE ByteQueue ------------------------------
(***************************************************************************)
(* What a Buffer promises whoever calls it: a queue of bytes that takes    *)
(* them at either end and gives them back from the front, in their order,  *)
(* wherever it keeps them in memory.                                       *)
(***************************************************************************)
EXTENDS Integers, Sequences

CONSTANTS
  Byte,     \* the bytes a caller puts in
  Lengths,  \* how many at a time
  Ends,     \* how a line may end
  IntSizes, \* sizes of the integers that are read back
  Wide      \* the size of those that are not

VARIABLES
  queue,
  given,    \* the bytes passed to the last call
  got       \* what the last call returned

vars == <<queue, given, got>>

\* An integer is the sequence of its bytes, the lowest first; in the queue it
\* has the order of the network.
HtoBe(x) == [i \in 1 .. Len(x) |-> x[Len(x) + 1 - i]]

First(n) == SubSeq(queue, 1, n)
Rest(n) == SubSeq(queue, n + 1, Len(queue))

Init == queue = <<>> /\ given = <<>> /\ got = <<>>

Put == queue' = queue \o given' /\ got' = <<>>

PutFront == queue' = given' \o queue /\ got' = <<>>

\* The last bytes put in, or less, are taken back.
Undo(n) ==
  /\ n <= Len(queue)
  /\ queue' = First(Len(queue) - n)
  /\ given' = <<>> /\ got' = <<>>

\* n bytes are dropped, or all when there are less.
Drop(n) == queue' = Rest(n) /\ given' = <<>> /\ got' = <<>>

DropAll == queue' = <<>> /\ given' = <<>> /\ got' = <<>>

Get(n) ==
  /\ n <= Len(queue)
  /\ queue' = Rest(n)
  /\ got' = First(n)
  /\ given' = <<>>

GetInt(n) ==
  /\ n <= Len(queue)
  /\ queue' = Rest(n)
  /\ got' = HtoBe(First(n))
  /\ given' = <<>>

\* Which number comes out is left open.
GetWide ==
  /\ Wide <= Len(queue)
  /\ queue' = Rest(Wide)
  /\ given' = <<>>

\* The first line, with its end, is dropped.
DropLine ==
  /\ \E n \in Lengths, end \in Ends :
       LET IsEnd(k) == SubSeq(queue, k + 1, k + Len(end)) = end
       IN  /\ n + Len(end) <= Len(queue)
           /\ IsEnd(n) /\ \A k \in 0 .. n - 1 : ~IsEnd(k)
           /\ queue' = Rest(n + Len(end))
  /\ given' = <<>> /\ got' = <<>>

\* The bytes stay, wherever they are moved to.
Keep == UNCHANGED queue /\ given' = <<>> /\ got' = <<>>

Next ==
  \/ Put \/ PutFront \/ DropAll \/ GetWide \/ DropLine \/ Keep
  \/ \E n \in Lengths : Undo(n) \/ Drop(n) \/ Get(n)
  \/ \E n \in IntSizes : GetInt(n)

Spec == Init /\ [][Next]_vars
=============================================================================
