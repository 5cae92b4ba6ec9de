---------------------------- MODULE ChannelLayout ----------------------------
(***************************************************************************)
(* The arithmetic of shm::Channel (channel.cc): where records start, how   *)
(* many payload bytes a stretch of free cache lines holds, and how write() *)
(* divides a payload between the tail and the head of the ring.            *)
(*                                                                         *)
(* Everything here is a pure operator over byte offsets and sizes; the     *)
(* state of a channel is in module Channel.                                *)
(***************************************************************************)
EXTENDS Integers

CONSTANTS
  Size,         \* m_size: bytes of the ring, without the Channel itself
  Word          \* 2^32: sizes and offsets are uint32_t

LineSize       == 64                \* cache_line_size (LT_SMP_CACHE_BYTES)
HeaderSize     == 8                 \* sizeof(header_type)
SplitThreshold == 4 * LineSize      \* split_threshold

\* initialize() insists on a positive multiple of the line size; segments are
\* whole pages, so that a ring always has more than two lines.
ASSUME SizeAssumption ==
  Size \in Nat /\ Size % LineSize = 0 /\ Size >= 3 * LineSize

ASSUME WordAssumption ==
  Word \in Nat /\ Word % LineSize = 0 /\ Size < Word

Lines   == {o \in 0 .. Size - 1 : o % LineSize = 0}   \* where a record can start
Offsets == Lines \cup {Size}                          \* what m_write_offset can be

Least(a, b)    == IF a <= b THEN a ELSE b
Greatest(a, b) == IF a >= b THEN a ELSE b

-----------------------------------------------------------------------------
(* Definitions named after a slip (...Without..., ...Ignoring..., and the  *)
(* like) are the wrong variants that show a property can fail; nothing     *)
(* uses them.                                                              *)

AlignSizeToCacheline(n) == ((n + (LineSize - 1)) \div LineSize) * LineSize

\* Offset of the line after a record of n payload bytes starting at o.
RecordEnd(o, n) == AlignSizeToCacheline(o + HeaderSize + n)

NextOffsetUnwrapped(o, n)     == RecordEnd(o, n)
NextOffsetWithoutHeader(o, n) ==
  IF AlignSizeToCacheline(o + n) = Size THEN 0 ELSE AlignSizeToCacheline(o + n)

\* Offset at which the reader looks for the next record.
NextOffset(o, n) == IF RecordEnd(o, n) = Size THEN 0 ELSE RecordEnd(o, n)

\* The lines a record of n payload bytes starting at o occupies.
RecordLines(o, n) == {l \in Lines : o <= l /\ l < RecordEnd(o, n)}

DefaultWriteThreshold == AlignSizeToCacheline(Size \div 8)

-----------------------------------------------------------------------------
(* The two lambdas of write(): the payload that fits in n bytes, and n     *)
(* without the line that keeps a full ring apart from an empty one.        *)
DataSizeWithoutHeader(n) == IF n >= LineSize THEN n ELSE 0
DataSize(n)              == IF n >= LineSize THEN n - HeaderSize ELSE 0

SizeWithoutPadding(n)    == n
SizeWithTwiceThePadding(n) == IF n >= 2 * LineSize THEN n - 2 * LineSize ELSE 0
SizeWithPadding(n)    == IF n >= LineSize THEN n - LineSize ELSE 0

IsFullIgnoringEnd(start, old) == start - old = LineSize

\* write() finds no free line at all: the write offset is at the end of the
\* ring and the reader at its start, or only the reserved line is left.
IsFull(start, old) ==
  IF old = Size THEN start = 0 ELSE start - old = LineSize

(* write(): the record (or the two records) that a payload of size bytes   *)
(* becomes when the reader is at start and the writer at old.  firstSize   *)
(* bytes go to firstAt, up to the end of the ring; secondSize bytes go to  *)
(* secondAt, at the start of the ring or behind the reader.                *)
Placement(start, old, size) ==
  LET end     == IF old = Size THEN 0 ELSE old
      toTail  == end >= start
      first   == IF toTail THEN Least(size, DataSize(Size - end)) ELSE 0
      second  == IF toTail
                   THEN Least(size - first, DataSize(SizeWithPadding(start)))
                   ELSE Least(size, DataSize(SizeWithPadding(start - end)))
      secondAt == IF toTail THEN 0 ELSE end
  IN  [ firstAt    |-> end,
        firstSize  |-> first,
        secondAt   |-> secondAt,
        secondSize |-> second,
        newOffset  |-> IF second > 0 THEN RecordEnd(secondAt, second)
                                     ELSE RecordEnd(end, first) ]

Accepted(p) == p.firstSize + p.secondSize

RefusesUnlessWhole(start, old, size, threshold) ==
  \/ IsFull(start, old)
  \/ Accepted(Placement(start, old, size)) < size

\* write() returns -1 with EAGAIN.
Refuses(start, old, size, threshold) ==
  \/ IsFull(start, old)
  \/ LET p == Placement(start, old, size)
     IN  /\ Accepted(p) < Least(size, threshold)
         /\ ~(p.firstAt = start)

\* write() throws internal_error: nothing fits although the ring is empty, or
\* one of the checks made before the new offset is published does not hold.
WriteFails(start, old, size, threshold) ==
  LET p      == Placement(start, old, size)
      toTail == p.firstAt >= start
  IN  /\ ~Refuses(start, old, size, threshold)
      /\ \/ Accepted(p) < Least(size, threshold)
         \/ toTail /\ p.secondSize > 0 /\ RecordEnd(p.firstAt, p.firstSize) # Size
         \/ p.newOffset % LineSize # 0
         \/ p.newOffset > Size
         \/ Accepted(p) = 0
         \/ Accepted(p) > size
         \/ p.firstSize = 0 /\ p.newOffset >= start

-----------------------------------------------------------------------------
(* available_write() and can_write(), for a writer at end.                 *)
AvailableWrite(start, end) ==
  LET tail  == Size - end
      split == tail + start
  IN  IF end < start
        THEN start - end - LineSize
      ELSE IF tail >= SplitThreshold
        THEN IF split <= LineSize THEN 0 ELSE split - LineSize
      ELSE IF start <= LineSize
        THEN tail
        ELSE Greatest(tail, start - LineSize)

CanWriteIgnoringOneLine(start, end, size) ==
  AvailableWrite(start, end) >= AlignSizeToCacheline(HeaderSize + size)

(* Nowhere but here does a sum pass 2^32: a wrap in one of the additions   *)
(* comes to the same as a wrap of the result, as Word is a number of lines. *)
CanWrite(start, end, size) ==
  AvailableWrite(start, end) >=
    (AlignSizeToCacheline(HeaderSize + size) + LineSize) % Word

\* The largest size that can_write() computes with without a wrap.
LargestSize == Word - (HeaderSize + 2 * LineSize)
=============================================================================
