---------------------------- MODULE ChannelProofs ----------------------------
(***************************************************************************)
(* Theorems about Channel that hold for every ring size, every set of ids, *)
(* payload sizes and write thresholds, and any number of writes and reads. *)
(***************************************************************************)
EXTENDS ChannelInvariant, FiniteSetTheorems, TLAPS

-----------------------------------------------------------------------------
(* Cache-line arithmetic.                                                  *)

\* align_size_to_cacheline() rounds up to the next multiple of the line size.
LEMMA AlignRoundsUp ==
  ASSUME NEW n \in Nat
  PROVE  /\ AlignSizeToCacheline(n) \in Nat
         /\ AlignSizeToCacheline(n) % LineSize = 0
         /\ n <= AlignSizeToCacheline(n)
         /\ AlignSizeToCacheline(n) < n + LineSize
BY DEF AlignSizeToCacheline, LineSize

\* Rounding up never passes a multiple of the line size.
LEMMA AlignStaysBelow ==
  ASSUME NEW n \in Nat, NEW m \in Nat, m % LineSize = 0, n <= m
  PROVE  AlignSizeToCacheline(n) <= m
BY DEF AlignSizeToCacheline, LineSize

\* A multiple of the line size rounds up to itself.
LEMMA AlignFixpoint ==
  ASSUME NEW m \in Nat, m % LineSize = 0
  PROVE  AlignSizeToCacheline(m) = m
BY DEF AlignSizeToCacheline, LineSize

\* Line offsets are multiples of the line size, at least a line below the end.
LEMMA LinesAreAligned ==
  /\ \A o \in Lines : o \in Nat /\ o % LineSize = 0 /\ o + LineSize <= Size
                     /\ o < Size
  /\ \A o \in Offsets : o \in Nat /\ o % LineSize = 0 /\ o <= Size
  /\ \A o \in Nat : o % LineSize = 0 /\ o <= Size => o \in Offsets
  /\ \A o \in Nat : o % LineSize = 0 /\ o < Size => o \in Lines
BY SizeAssumption DEF Lines, Offsets, LineSize

\* A record that fits before a line boundary ends at or before it.
LEMMA RecordEndStaysBelow ==
  ASSUME NEW o \in Nat, NEW n \in Nat, NEW m \in Nat,
         m % LineSize = 0, o + HeaderSize + n <= m
  PROVE  /\ RecordEnd(o, n) \in Nat
         /\ RecordEnd(o, n) % LineSize = 0
         /\ o < RecordEnd(o, n)
         /\ RecordEnd(o, n) <= m
<1>1. o + HeaderSize + n \in Nat
  BY DEF HeaderSize
<1>2. QED
  BY <1>1, AlignRoundsUp, AlignStaysBelow DEF RecordEnd, HeaderSize

-----------------------------------------------------------------------------
(* Where write() puts a payload.                                           *)

\* Whatever the two offsets are, a payload that is not refused is well placed.
LEMMA PlacementIsWellPlaced ==
  ASSUME NEW start \in Lines, NEW old \in Offsets, NEW size \in Nat \ {0},
         NEW threshold \in 1 .. Size - (LineSize + 2 * HeaderSize),
         ~Refuses(start, old, size, threshold)
  PROVE  WellPlaced(start, size, Placement(start, old, size))
<1> DEFINE p == Placement(start, old, size)
           end == IF old = Size THEN 0 ELSE old
           first == IF end >= start THEN Least(size, DataSize(Size - end)) ELSE 0
           second == IF end >= start
                       THEN Least(size - first, DataSize(SizeWithPadding(start)))
                       ELSE Least(size, DataSize(SizeWithPadding(start - end)))
<1>0. /\ start \in Nat /\ start % LineSize = 0 /\ start + LineSize <= Size
      /\ old \in Nat /\ old % LineSize = 0 /\ old <= Size
      /\ Size \in Nat /\ Size % LineSize = 0 /\ Size >= 3 * LineSize
  BY LinesAreAligned, SizeAssumption
<1>1. /\ end \in Nat /\ end % LineSize = 0 /\ end + LineSize <= Size
      /\ end \in Lines /\ 0 \in Lines
  BY <1>0, LinesAreAligned DEF LineSize
<1>2. /\ p.firstAt = end
      /\ p.firstSize = first
      /\ p.secondAt = (IF end >= start THEN 0 ELSE end)
      /\ p.secondSize = second
      /\ p.newOffset = IF second > 0
                         THEN RecordEnd(IF end >= start THEN 0 ELSE end, second)
                         ELSE RecordEnd(end, first)
  BY DEF Placement
<1>3. first \in Nat /\ second \in Nat /\ first + second <= size
  BY <1>0, <1>1 DEF Least, DataSize, SizeWithPadding, LineSize, HeaderSize
<1> HIDE DEF end, first, second
<1>4. CASE end >= start
  <2>1. first = Least(size, DataSize(Size - end)) /\ first > 0
    BY <1>0, <1>1, <1>4 DEF first, Least, DataSize, LineSize, HeaderSize
  <2>2. end + HeaderSize + first <= Size
    BY <2>1, <1>0, <1>1 DEF Least, DataSize, LineSize, HeaderSize
  <2>3. /\ RecordEnd(end, first) \in Nat /\ RecordEnd(end, first) % LineSize = 0
        /\ end < RecordEnd(end, first) /\ RecordEnd(end, first) <= Size
    BY <2>2, <1>0, <1>1, <1>3, RecordEndStaysBelow
  <2>4. RecordEnd(end, first) \in Offsets
    BY <2>3, LinesAreAligned
  <2>5. ASSUME second > 0
        PROVE  /\ RecordEnd(end, first) = Size
               /\ RecordEnd(0, second) \in Lines
               /\ 0 < RecordEnd(0, second)
               /\ RecordEnd(0, second) + LineSize <= start
    <3>1. second = Least(size - first, DataSize(SizeWithPadding(start)))
      BY <1>4 DEF second
    <3>2. first < size
      BY <3>1, <2>5, <1>3
    <3>3. first = Size - end - HeaderSize
      BY <3>2, <2>1, <1>0, <1>1, <1>3 DEF Least, DataSize, LineSize, HeaderSize
    <3>4. RecordEnd(end, first) = Size
      BY <3>3, <1>0, <1>1, AlignFixpoint DEF RecordEnd, HeaderSize
    <3>5. start >= 2 * LineSize /\ HeaderSize + second <= start - LineSize
      BY <3>1, <2>5, <1>0, <1>3 DEF Least, DataSize, SizeWithPadding, LineSize, HeaderSize
    <3>6. start - LineSize \in Nat /\ (start - LineSize) % LineSize = 0
      BY <3>5, <1>0 DEF LineSize
    <3>7. /\ RecordEnd(0, second) \in Nat /\ RecordEnd(0, second) % LineSize = 0
          /\ 0 < RecordEnd(0, second) /\ RecordEnd(0, second) <= start - LineSize
      <4>1. 0 + HeaderSize + second <= start - LineSize
        BY <3>5, <1>3 DEF HeaderSize
      <4>2. QED
        BY <4>1, <3>6, <1>3, RecordEndStaysBelow
    <3>8. RecordEnd(0, second) \in Lines /\ RecordEnd(0, second) + LineSize <= start
      BY <3>7, <1>0, LinesAreAligned DEF LineSize
    <3>9. QED
      BY <3>4, <3>7, <3>8
  <2>6. PlacedAtTail(start, p)
    BY <1>2, <1>3, <1>4, <2>1, <2>3, <2>4, <2>5 DEF PlacedAtTail
  <2>7. p.newOffset \in Offsets
    <3>1. p.secondSize = 0 \/ p.secondSize > 0
      BY <1>2, <1>3
    <3>2. QED
      BY <3>1, <2>6 DEF PlacedAtTail, Offsets
  <2>8. QED
    BY <1>1, <1>2, <1>3, <1>4, <2>1, <2>6, <2>7 DEF WellPlaced, Accepted
<1>5. CASE end < start
  <2>1. first = 0 /\ second = Least(size, DataSize(SizeWithPadding(start - end)))
    BY <1>0, <1>1, <1>5 DEF first, second
  <2>2. ~(Accepted(p) < Least(size, threshold))
    BY <1>0, <1>1, <1>2, <1>5 DEF Refuses
  <2>3. second > 0
    BY <2>1, <2>2, <1>2, <1>3, <1>0 DEF Accepted, Least
  <2>4. start - end >= 2 * LineSize /\ end + HeaderSize + second <= start - LineSize
    BY <2>1, <2>3, <1>0, <1>1, <1>3 DEF Least, DataSize, SizeWithPadding, LineSize, HeaderSize
  <2>5. start - LineSize \in Nat /\ (start - LineSize) % LineSize = 0
    BY <2>4, <1>0, <1>1 DEF LineSize
  <2>6. /\ RecordEnd(end, second) \in Nat /\ RecordEnd(end, second) % LineSize = 0
        /\ end < RecordEnd(end, second) /\ RecordEnd(end, second) <= start - LineSize
    BY <2>4, <2>5, <1>1, <1>3, RecordEndStaysBelow
  <2>7. RecordEnd(end, second) \in Lines /\ RecordEnd(end, second) + LineSize <= start
    BY <2>6, <1>0, LinesAreAligned DEF LineSize
  <2>8. ~(end >= start)
    BY <1>0, <1>1, <1>5
  <2>9. PlacedBehindReader(start, p)
    BY <1>2, <2>1, <2>3, <2>6, <2>7, <2>8, <1>5 DEF PlacedBehindReader
  <2>10. QED
    BY <1>1, <1>2, <1>3, <2>1, <2>3, <2>7, <2>8, <2>9 DEF WellPlaced, Accepted, Offsets
<1>6. QED
  BY <1>0, <1>1, <1>4, <1>5

\* An empty ring takes any payload up to two headers and a line below its size.
LEMMA EmptyRingAccepts ==
  ASSUME NEW start \in Lines, NEW old \in Offsets, NEW size \in Nat \ {0},
         Placement(start, old, size).firstAt = start
  PROVE  Accepted(Placement(start, old, size))
           >= Least(size, Size - (LineSize + 2 * HeaderSize))
<1> DEFINE first == Least(size, DataSize(Size - start))
           second == Least(size - first, DataSize(SizeWithPadding(start)))
<1>1. /\ start \in Nat /\ start % LineSize = 0 /\ start + LineSize <= Size
      /\ Size \in Nat /\ Size >= 3 * LineSize
  BY LinesAreAligned, SizeAssumption
<1>2. (IF old = Size THEN 0 ELSE old) = start
  BY DEF Placement
<1>3. Accepted(Placement(start, old, size)) = first + second
  BY <1>1, <1>2 DEF Placement, Accepted
<1>4. first + second >= Least(size, Size - (LineSize + 2 * HeaderSize))
  BY <1>1 DEF Least, DataSize, SizeWithPadding, LineSize, HeaderSize
<1>5. QED
  BY <1>3, <1>4

\* None of the checks of write() throws, whatever the offsets and the payload.
LEMMA WriteDoesNotFail ==
  ASSUME NEW start \in Lines, NEW old \in Offsets, NEW size \in Nat \ {0},
         NEW threshold \in 1 .. Size - (LineSize + 2 * HeaderSize)
  PROVE  ~WriteFails(start, old, size, threshold)
<1> DEFINE p == Placement(start, old, size)
<1> SUFFICES ASSUME ~Refuses(start, old, size, threshold)
             PROVE  ~WriteFails(start, old, size, threshold)
  BY DEF WriteFails
<1>1. WellPlaced(start, size, p)
  BY PlacementIsWellPlaced
<1>2. start \in Nat /\ Size \in Nat
  BY LinesAreAligned, SizeAssumption
<1>3. Accepted(p) >= Least(size, Size - (LineSize + 2 * HeaderSize)) \/ p.firstAt # start
  BY EmptyRingAccepts
<1> HIDE DEF p
<1>4. ~(Accepted(p) < Least(size, threshold))
  <2>1. ~(Accepted(p) < Least(size, threshold)) \/ p.firstAt = start
    BY DEF Refuses, p
  <2>2. Accepted(p) \in Nat
    BY <1>1 DEF WellPlaced
  <2>3. QED
    BY <2>1, <2>2, <1>2, <1>3 DEF Least, LineSize, HeaderSize
<1>5. ~(p.firstAt >= start /\ p.secondSize > 0 /\ RecordEnd(p.firstAt, p.firstSize) # Size)
  <2>1. p.firstAt \in Nat
    BY <1>1, LinesAreAligned DEF WellPlaced
  <2>2. CASE PlacedAtTail(start, p)
    BY <2>2 DEF PlacedAtTail
  <2>3. CASE PlacedBehindReader(start, p)
    BY <2>1, <2>3, <1>2 DEF PlacedBehindReader
  <2>4. QED
    BY <1>1, <2>2, <2>3 DEF WellPlaced
<1>6. p.newOffset % LineSize = 0 /\ ~(p.newOffset > Size)
  BY <1>1, <1>2, LinesAreAligned DEF WellPlaced
<1>7. ~(Accepted(p) = 0) /\ ~(Accepted(p) > size)
  BY <1>1 DEF WellPlaced
<1>8. ~(p.firstSize = 0 /\ p.newOffset >= start)
  <2>1. p.newOffset \in Nat /\ p.firstSize \in Nat
    BY <1>1, LinesAreAligned DEF WellPlaced
  <2>2. p.firstSize > 0 \/ p.newOffset + LineSize <= start
    BY <1>1 DEF WellPlaced, PlacedAtTail, PlacedBehindReader
  <2>3. QED
    BY <1>2, <2>1, <2>2 DEF LineSize
<1>9. QED
  BY <1>4, <1>5, <1>6, <1>7, <1>8 DEF WriteFails, p

\* A number below the modulus is its own remainder.
LEMMA SmallModulo ==
  ASSUME NEW n \in Nat, NEW m \in Nat, n < m
  PROVE  n % m = n
OBVIOUS

\* A payload that can_write() has room for is accepted as a whole: it leaves a
\* line free behind the record, and both headers of a split fit into that line.
LEMMA CanWriteAccepts ==
  ASSUME NEW start \in Lines, NEW old \in Offsets, NEW size \in Nat \ {0},
         size <= LargestSize, CanWrite(start, old, size)
  PROVE  /\ ~IsFull(start, old)
         /\ Accepted(Placement(start, old, size)) = size
<1> DEFINE end == IF old = Size THEN 0 ELSE old
           needed == AlignSizeToCacheline(HeaderSize + size)
<1>1. /\ start \in Nat /\ start % LineSize = 0 /\ start + LineSize <= Size
      /\ old \in Nat /\ old % LineSize = 0 /\ old <= Size
      /\ Size \in Nat /\ Size % LineSize = 0 /\ Size >= 3 * LineSize
  BY LinesAreAligned, SizeAssumption
<1>2. needed \in Nat /\ HeaderSize + size <= needed
  BY AlignRoundsUp DEF HeaderSize
<1>3. AvailableWrite(start, old) >= needed + LineSize
  <2>1. Word \in Nat /\ Word % LineSize = 0
    BY WordAssumption
  <2>2. HeaderSize + size + LineSize <= Word - LineSize /\ HeaderSize + size \in Nat
    BY <2>1 DEF LargestSize, HeaderSize, LineSize
  <2>3. needed + LineSize < Word
    <3>1. needed % LineSize = 0 /\ needed < HeaderSize + size + LineSize
      BY <2>2, AlignRoundsUp
    <3>2. QED
      BY <1>2, <2>1, <2>2, <3>1 DEF LineSize
  <2>4. (needed + LineSize) % Word = needed + LineSize
    BY <1>2, <2>1, <2>3, SmallModulo DEF LineSize
  <2>5. QED
    BY <2>4 DEF CanWrite
<1> HIDE DEF needed
<1>4. CASE old < start
  <2>1. start - old >= needed + 2 * LineSize
    BY <1>1, <1>2, <1>3, <1>4 DEF AvailableWrite, LineSize
  <2>2. /\ ~IsFull(start, old)
        /\ Least(size, DataSize(SizeWithPadding(start - old))) = size
    BY <1>1, <1>2, <1>4, <2>1
       DEF IsFull, Least, DataSize, SizeWithPadding, LineSize, HeaderSize
  <2>3. Accepted(Placement(start, old, size))
          = 0 + Least(size, DataSize(SizeWithPadding(start - old)))
    <3>1. old # Size /\ ~(old >= start)
      BY <1>1, <1>4 DEF LineSize
    <3>2. QED
      BY <3>1 DEF Accepted, Placement
  <2>4. QED
    BY <2>2, <2>3
<1>5. CASE old = Size
  <2>1. start >= needed + 2 * LineSize
    BY <1>1, <1>2, <1>3, <1>5 DEF AvailableWrite, SplitThreshold, Greatest, LineSize
  <2>2. /\ ~IsFull(start, old) /\ start > 0
        /\ Least(size, DataSize(SizeWithPadding(start))) = size
    BY <1>1, <1>2, <1>5, <2>1
       DEF IsFull, Least, DataSize, SizeWithPadding, LineSize, HeaderSize
  <2>3. Accepted(Placement(start, old, size))
          = 0 + Least(size, DataSize(SizeWithPadding(start)))
    <3>1. ~(0 >= start) /\ start - 0 = start
      BY <1>1, <2>2
    <3>2. QED
      BY <1>5, <3>1 DEF Accepted, Placement
  <2>4. QED
    BY <2>2, <2>3
<1>6. CASE start <= old /\ old < Size
  <2> DEFINE tail == Size - old
             first == Least(size, DataSize(tail))
             second == Least(size - first, DataSize(SizeWithPadding(start)))
  <2>1. tail \in Nat /\ tail >= LineSize
    BY <1>1, <1>6 DEF LineSize
  <2>2. \/ tail + start >= needed + 2 * LineSize
        \/ tail >= needed + LineSize
        \/ start >= needed + 2 * LineSize
    BY <1>1, <1>2, <1>3, <1>6, <2>1
       DEF AvailableWrite, SplitThreshold, Greatest, LineSize
  <2> HIDE DEF tail
  <2>3. first + second = size
    BY <1>1, <1>2, <2>1, <2>2 DEF Least, DataSize, SizeWithPadding, LineSize, HeaderSize
  <2>4. Accepted(Placement(start, old, size)) = first + second
    BY <1>1, <1>6 DEF Accepted, Placement, tail
  <2>5. ~IsFull(start, old)
    BY <1>1, <1>6 DEF IsFull, LineSize
  <2>6. QED
    BY <2>3, <2>4, <2>5
<1>7. QED
  BY <1>1, <1>4, <1>5, <1>6

\* For the next 64 sizes the sum in can_write() is 2^32, which wraps to 0: can_write()
\* answers true whatever the ring holds.
THEOREM CanWriteWraps ==
  ASSUME NEW start \in Lines, NEW old \in Offsets, NEW size \in Nat,
         LargestSize < size, size <= LargestSize + LineSize
  PROVE  CanWrite(start, old, size)
<1> DEFINE needed == AlignSizeToCacheline(HeaderSize + size)
<1>1. /\ start \in Nat /\ start % LineSize = 0 /\ start + LineSize <= Size
      /\ old \in Nat /\ old % LineSize = 0 /\ old <= Size
      /\ Size \in Nat /\ Size % LineSize = 0
      /\ Word \in Nat /\ Word % LineSize = 0 /\ Size < Word
  BY LinesAreAligned, SizeAssumption, WordAssumption
<1>2. HeaderSize + size \in Nat /\ HeaderSize + size > Word - 2 * LineSize
      /\ HeaderSize + size <= Word - LineSize
  BY <1>1 DEF LargestSize, HeaderSize, LineSize
<1>3. needed = Word - LineSize
  <2>1. /\ needed \in Nat /\ needed % LineSize = 0 /\ HeaderSize + size <= needed
        /\ needed < HeaderSize + size + LineSize
    BY <1>2, AlignRoundsUp
  <2> HIDE DEF needed
  <2>2. QED
    BY <1>1, <1>2, <2>1 DEF LineSize
<1>4. (needed + LineSize) % Word = 0
  <2>1. needed + LineSize = Word /\ Word \in Nat \ {0}
    BY <1>1, <1>3 DEF LineSize
  <2>2. \A n \in Nat \ {0} : n % n = 0
    OBVIOUS
  <2>3. QED
    BY <2>1, <2>2
<1>5. AvailableWrite(start, old) >= 0
  BY <1>1 DEF AvailableWrite, SplitThreshold, Greatest, LineSize
<1>6. QED
  BY <1>4, <1>5 DEF CanWrite

-----------------------------------------------------------------------------
(* How much free room there is, counted in lines.                          *)

\* A stretch of the ring has a line for each 64 bytes.
LEMMA LinesOfStretch ==
  ASSUME NEW from \in Nat, NEW to \in Nat, from <= to, to <= Size,
         from % LineSize = 0, to % LineSize = 0
  PROVE  LET n == Cardinality({l \in Lines : from <= l /\ l < to})
         IN  n \in Nat /\ n * LineSize = to - from
<1> DEFINE stretch == {l \in Lines : from <= l /\ l < to}
<1>1. PICK n \in Nat : to = from + n * LineSize
  <2>1. (to - from) \div LineSize \in Nat
        /\ to = from + ((to - from) \div LineSize) * LineSize
    BY DEF LineSize
  <2>2. QED
    BY <2>1
<1> DEFINE line == [i \in 1 .. n |-> from + (i - 1) * LineSize]
<1>2. line \in [1 .. n -> stretch]
  <2> SUFFICES ASSUME NEW i \in 1 .. n
               PROVE  from + (i - 1) * LineSize \in stretch
    OBVIOUS
  <2>1. /\ from + (i - 1) * LineSize \in Nat
        /\ (from + (i - 1) * LineSize) % LineSize = 0
        /\ from <= from + (i - 1) * LineSize
        /\ from + (i - 1) * LineSize < to
    BY <1>1 DEF LineSize
  <2>2. QED
    BY <2>1, SizeAssumption, LinesAreAligned
<1>3. \A i, j \in 1 .. n : line[i] = line[j] => i = j
  BY DEF LineSize
<1>4. \A l \in stretch : \E i \in 1 .. n : line[i] = l
  <2> SUFFICES ASSUME NEW l \in stretch PROVE \E i \in 1 .. n : line[i] = l
    OBVIOUS
  <2>1. l \in Nat /\ l % LineSize = 0 /\ from <= l /\ l < to
    BY LinesAreAligned
  <2> HIDE DEF stretch
  <2>2. PICK k \in 0 .. n - 1 : l = from + k * LineSize
    <3>1. /\ (l - from) \div LineSize \in 0 .. n - 1
          /\ l = from + ((l - from) \div LineSize) * LineSize
      BY <1>1, <2>1 DEF LineSize
    <3>2. QED
      BY <3>1
  <2>3. k + 1 \in 1 .. n /\ k + 1 - 1 = k
    BY <2>2
  <2>4. line[k + 1] = l
    BY <2>2, <2>3
  <2>5. QED
    BY <2>3, <2>4
<1> HIDE DEF line, stretch
<1>5. line \in Bijection(1 .. n, stretch)
  BY <1>2, <1>3, <1>4 DEF Bijection, Injection, Surjection, IsInjective
<1>6. Cardinality(stretch) = n
  BY <1>5, FS_CountingElements DEF ExistsBijection
<1>7. QED
  BY <1>1, <1>6 DEF stretch, LineSize

\* The free lines from the writer on are those up to the reader, or to the end of
\* the ring when the reader is behind the writer.
LEMMA FreeLines ==
  ASSUME readOffset \in Lines, writeOffset \in Offsets
  PROVE  LET end  == IF writeOffset = Size THEN 0 ELSE writeOffset
             to   == IF readOffset <= end /\ writeOffset # Size THEN Size ELSE readOffset
             free == FreeLinesFrom(end)
         IN  free \in Nat /\ free * LineSize = to - end
<1> DEFINE end == IF writeOffset = Size THEN 0 ELSE writeOffset
           to == IF readOffset <= end /\ writeOffset # Size THEN Size ELSE readOffset
           free == {l \in Lines : end <= l /\ \A m \in end .. l : m \notin UnreadLines}
           stretch == {l \in Lines : end <= l /\ l < to}
<1>1. /\ readOffset \in Nat /\ readOffset % LineSize = 0 /\ readOffset < Size
      /\ writeOffset \in Nat /\ writeOffset % LineSize = 0 /\ writeOffset <= Size
      /\ Size \in Nat /\ Size % LineSize = 0
  BY LinesAreAligned, SizeAssumption
<1>2. /\ end \in Nat /\ end % LineSize = 0 /\ to \in Nat /\ to % LineSize = 0
      /\ end <= to /\ to <= Size
  BY <1>1 DEF LineSize
<1>3. ASSUME NEW l \in stretch PROVE l \in free
  <2>1. l \in Nat /\ l \in Lines /\ end <= l /\ l < to
    BY LinesAreAligned
  <2>2. ASSUME NEW m \in end .. l PROVE m \notin UnreadLines
    <3>1. m \in Nat /\ end <= m /\ m < to
      BY <1>2, <2>1
    <3>2. QED
      BY <1>1, <3>1 DEF UnreadLines
  <2>3. QED
    BY <2>1, <2>2
<1>4. ASSUME NEW l \in free PROVE l \in stretch
  <2>1. l \in Nat /\ l \in Lines /\ end <= l /\ l < Size
        /\ \A m \in end .. l : m \notin UnreadLines
    BY LinesAreAligned
  <2>2. CASE to = Size
    BY <2>1, <2>2
  <2>3. CASE to = readOffset /\ ~(l < to)
    <3>1. readOffset \in end .. l
      BY <1>1, <1>2, <2>1, <2>3
    <3>2. readOffset \in UnreadLines
      <4>1. readOffset < writeOffset \/ writeOffset < readOffset \/ readOffset = writeOffset
        BY <1>1
      <4>2. CASE readOffset < writeOffset
        BY <1>1, <4>2 DEF UnreadLines
      <4>3. CASE writeOffset < readOffset
        BY <1>1, <4>3 DEF UnreadLines
      <4>4. CASE readOffset = writeOffset
        BY <1>1, <2>3, <4>4
      <4>5. QED
        BY <4>1, <4>2, <4>3, <4>4
    <3>3. QED
      BY <2>1, <3>1, <3>2
  <2>4. QED
    BY <2>1, <2>2, <2>3
<1>5. free = stretch
  BY <1>3, <1>4
<1> HIDE DEF end, to
<1>6. /\ Cardinality(stretch) \in Nat
      /\ Cardinality(stretch) * LineSize = to - end
  BY <1>2, LinesOfStretch
<1>7. FreeLinesFrom(end) = Cardinality(stretch)
  BY <1>5 DEF FreeLinesFrom
<1>8. QED
  BY <1>6, <1>7 DEF end, to

\* write() takes as much of a payload as the free lines have room for, and is only
\* refused when that is too little.
LEMMA RefusalMeansShort ==
  ASSUME readOffset \in Lines, writeOffset \in Offsets, NEW size \in Nat \ {0},
         NEW threshold \in Nat \ {0}, Refuses(readOffset, writeOffset, size, threshold)
  PROVE  LET end  == IF writeOffset = Size THEN 0 ELSE writeOffset
             room == IF readOffset <= end
                       THEN PayloadOfLines(FreeLinesFrom(end))
                            + PayloadOfLines(readOffset \div LineSize - 1)
                       ELSE PayloadOfLines(FreeLinesFrom(end) - 1)
         IN  room < Least(size, threshold)
<1> DEFINE end == IF writeOffset = Size THEN 0 ELSE writeOffset
           to == IF readOffset <= end /\ writeOffset # Size THEN Size ELSE readOffset
           n == FreeLinesFrom(end)
           behind == readOffset \div LineSize
           room == IF readOffset <= end
                     THEN PayloadOfLines(n) + PayloadOfLines(behind - 1)
                     ELSE PayloadOfLines(n - 1)
           accepted == Accepted(Placement(readOffset, writeOffset, size))
<1>1. /\ readOffset \in Nat /\ readOffset % LineSize = 0 /\ readOffset < Size
      /\ writeOffset \in Nat /\ writeOffset % LineSize = 0 /\ writeOffset <= Size
      /\ Size \in Nat
  BY LinesAreAligned, SizeAssumption
<1>2. n \in Nat /\ n * LineSize = to - end
  BY FreeLines
<1>3. behind \in Nat /\ behind * LineSize = readOffset
  BY <1>1 DEF LineSize
<1> HIDE DEF n, behind
<1>4. CASE writeOffset = Size /\ readOffset = 0
  <2>1. n = 0 /\ behind = 0
    BY <1>2, <1>3, <1>4 DEF LineSize
  <2>2. room = 0
    BY <1>4, <2>1 DEF PayloadOfLines
  <2>3. QED
    BY <2>2 DEF Least, n, behind
<1>5. CASE writeOffset < readOffset /\ readOffset - writeOffset = LineSize
  <2>1. n = 1 /\ ~(readOffset <= end)
    BY <1>1, <1>2, <1>5 DEF LineSize
  <2>2. room = 0
    BY <2>1 DEF PayloadOfLines
  <2>3. QED
    BY <2>2 DEF Least, n, behind
<1>6. CASE ~IsFull(readOffset, writeOffset)
  <2>1. accepted < Least(size, threshold)
    BY <1>6 DEF Refuses
  <2>2. room \in Nat /\ accepted = Least(size, room)
    <3>1. CASE readOffset <= writeOffset /\ writeOffset # Size
      <4>1. DataSize(Size - end) = PayloadOfLines(n)
        BY <1>1, <1>2, <3>1 DEF DataSize, PayloadOfLines, LineSize, HeaderSize
      <4>2. DataSize(SizeWithPadding(readOffset)) = PayloadOfLines(behind - 1)
        BY <1>1, <1>3 DEF DataSize, SizeWithPadding, PayloadOfLines, LineSize, HeaderSize
      <4>3. accepted = LET first == Least(size, PayloadOfLines(n))
                       IN  first + Least(size - first, PayloadOfLines(behind - 1))
        BY <3>1, <4>1, <4>2 DEF Accepted, Placement
      <4>4. PayloadOfLines(n) \in Nat /\ PayloadOfLines(behind - 1) \in Nat
        BY <1>2, <1>3 DEF PayloadOfLines, LineSize, HeaderSize
      <4>5. room = PayloadOfLines(n) + PayloadOfLines(behind - 1)
        BY <3>1
      <4>6. QED
        BY <4>3, <4>4, <4>5 DEF Least
    <3>2. CASE end < readOffset
      <4>1. n * LineSize = readOffset - end
        BY <1>1, <1>2, <3>2
      <4>2. DataSize(SizeWithPadding(readOffset - end)) = PayloadOfLines(n - 1)
        BY <1>1, <1>2, <3>2, <4>1
           DEF DataSize, SizeWithPadding, PayloadOfLines, LineSize, HeaderSize
      <4>3. accepted = 0 + Least(size, PayloadOfLines(n - 1))
        <5>1. ~(end >= readOffset)
          BY <1>1, <3>2
        <5>2. QED
          BY <4>2, <5>1 DEF Accepted, Placement
      <4>4. PayloadOfLines(n - 1) \in Nat
        BY <1>2 DEF PayloadOfLines, LineSize, HeaderSize
      <4>5. room = PayloadOfLines(n - 1)
        BY <1>1, <3>2
      <4>6. QED
        BY <4>3, <4>4, <4>5 DEF Least
    <3>3. QED
      BY <1>1, <1>6, <3>1, <3>2 DEF IsFull
  <2>3. room < Least(size, threshold)
    <3> HIDE DEF room, accepted
    <3> QED
      BY <2>1, <2>2 DEF Least
  <2>4. QED
    BY <2>3 DEF n, behind
<1>7. IsFull(readOffset, writeOffset) =>
        \/ writeOffset = Size /\ readOffset = 0
        \/ writeOffset < readOffset /\ readOffset - writeOffset = LineSize
  BY <1>1 DEF IsFull, LineSize
<1>8. QED
  BY <1>4, <1>5, <1>6, <1>7

-----------------------------------------------------------------------------
(* The channel is well-typed and write() never throws, with either kind of *)
(* reader: one that drains the ring at its end and one that does not.      *)

\* Copying a record into the ring leaves every line well-typed.
LEMMA WriteToHeaderType ==
  ASSUME NEW o, NEW rec \in [id : Nat, from : Nat, size : Nat],
         lines \in [Lines -> [rec : [id : Nat, from : Nat, size : Nat], header : BOOLEAN]]
  PROVE  WriteToHeader(lines, o, rec)
           \in [Lines -> [rec : [id : Nat, from : Nat, size : Nat], header : BOOLEAN]]
BY DEF WriteToHeader, Line

\* A ring fresh from initialize() is well-formed.
LEMMA InitWellFormed == Init => WellFormed
<1> SUFFICES ASSUME Init PROVE WellFormed
  OBVIOUS
<1>1. 0 \in Lines /\ 0 \in Offsets
  BY LinesAreAligned, SizeAssumption DEF LineSize
<1>2. TypeOK
  BY <1>1, ThresholdsAssumption
     DEF Init, TypeOK, ZeroLine, Line, NoRecord, Record, NoPlacement
<1>3. QED
  BY <1>2 DEF Init, WellFormed, WriterNeverFails, PlacementInv, Writing

\* Every step of writer and reader, the drain at the end included, keeps it so.
LEMMA NextWellFormed == WellFormed /\ [Next]_vars => WellFormed'
<1> SUFFICES ASSUME WellFormed, [Next]_vars PROVE WellFormed'
  OBVIOUS
<1> USE DEF WellFormed, Writing
<1>1. ASSUME NEW t \in Thresholds, SetWriteThreshold(t)
      PROVE  WellFormed'
  BY <1>1 DEF SetWriteThreshold, readerVars, TypeOK, WriterNeverFails, PlacementInv
<1>2. ASSUME NEW id \in Ids, NEW size \in Sizes, BeginWrite(id, size)
      PROVE  WellFormed'
  <2> DEFINE p == Placement(readOffset, writeOffset, size)
  <2>1. /\ readOffset \in Lines /\ writeOffset \in Offsets
        /\ size \in Nat \ {0} /\ id \in Nat
        /\ writeThreshold \in 1 .. Size - (LineSize + 2 * HeaderSize)
    BY SizesAssumption, IdsAssumption, ThresholdsAssumption DEF TypeOK
  <2>3. WellPlaced(readOffset, size, p)
    BY <1>2, <2>1, PlacementIsWellPlaced DEF BeginWrite
  <2>4. ~WriteFails(readOffset, writeOffset, size, writeThreshold)
    BY <2>1, WriteDoesNotFail
  <2> HIDE DEF p
  <2>5. /\ writer' = IF p.firstSize > 0 THEN "first" ELSE "second"
        /\ placement' =
             [id |-> id, size |-> size, start |-> readOffset,
              firstAt |-> p.firstAt, firstSize |-> p.firstSize,
              secondAt |-> p.secondAt, secondSize |-> p.secondSize,
              newOffset |-> p.newOffset]
        /\ UNCHANGED <<readOffset, writeOffset, writeThreshold, lines, reader, held>>
    BY <1>2, <2>4 DEF BeginWrite, readerVars, p
  <2>6. /\ p.firstAt \in Nat /\ p.firstSize \in Nat /\ p.secondAt \in Nat
        /\ p.secondSize \in Nat /\ p.newOffset \in Nat /\ readOffset \in Nat
    BY <2>1, <2>3, LinesAreAligned DEF WellPlaced
  <2>7. TypeOK'
    BY <2>1, <2>5, <2>6 DEF TypeOK
  <2>8. PlacementInv'
    <3>1. WellPlaced(readOffset, size, placement')
      BY <2>3, <2>5 DEF WellPlaced, PlacedAtTail, PlacedBehindReader, Accepted
    <3>2. QED
      BY <3>1, <2>1, <2>5 DEF PlacementInv
  <2>9. WriterNeverFails'
    BY <2>5 DEF WriterNeverFails
  <2>10. QED
    BY <2>7, <2>8, <2>9
<1>3. CASE CopyFirst
  <2>1. FirstRecord \in [id : Nat, from : Nat, size : Nat]
    BY DEF FirstRecord, Record, TypeOK
  <2>2. lines' \in [Lines -> [rec : [id : Nat, from : Nat, size : Nat], header : BOOLEAN]]
    BY <1>3, <2>1, WriteToHeaderType DEF CopyFirst, TypeOK
  <2>3. QED
    BY <1>3, <2>2 DEF CopyFirst, readerVars, TypeOK, WriterNeverFails, PlacementInv
<1>4. CASE CopySecond
  <2>1. SecondRecord \in [id : Nat, from : Nat, size : Nat]
    BY DEF SecondRecord, Record, TypeOK
  <2>2. lines' \in [Lines -> [rec : [id : Nat, from : Nat, size : Nat], header : BOOLEAN]]
    BY <1>4, <2>1, WriteToHeaderType DEF CopySecond, TypeOK
  <2>3. QED
    BY <1>4, <2>2 DEF CopySecond, readerVars, TypeOK, WriterNeverFails, PlacementInv
<1>5. CASE Publish
  <2>1. placement.newOffset \in Offsets
    BY <1>5 DEF Publish, PlacementInv, WellPlaced
  <2>2. QED
    BY <1>5, <2>1 DEF Publish, readerVars, TypeOK, WriterNeverFails, PlacementInv, NoPlacement
<1>6. CASE ReadHeader
  BY <1>6 DEF ReadHeader, writerVars, TypeOK, WriterNeverFails, PlacementInv
<1>7. CASE ConsumeHeader
  <2> DEFINE size == lines[readOffset].rec.size
  <2>1. size \in Nat /\ readOffset \in Lines /\ readOffset \in Nat
    BY LinesAreAligned DEF TypeOK
  <2>2. readOffset' \in Lines
    <3>1. CASE readOffset' = readOffset
      BY <3>1, <2>1
    <3>2. CASE /\ RecordEnd(readOffset, size) <= Size
               /\ readOffset' = NextOffset(readOffset, size)
      <4>1. readOffset + HeaderSize + size \in Nat
        BY <2>1 DEF HeaderSize
      <4>2. /\ RecordEnd(readOffset, size) \in Nat
            /\ RecordEnd(readOffset, size) % LineSize = 0
        BY <4>1, AlignRoundsUp DEF RecordEnd
      <4>3. 0 \in Lines
        BY LinesAreAligned, SizeAssumption DEF LineSize
      <4>4. RecordEnd(readOffset, size) # Size => RecordEnd(readOffset, size) \in Lines
        BY <3>2, <4>2, LinesAreAligned, SizeAssumption
      <4>5. QED
        BY <3>2, <4>3, <4>4 DEF NextOffset
    <3>3. QED
      <4>1. \/ readOffset' = readOffset
            \/ /\ ~(RecordEnd(readOffset, size) > Size)
               /\ readOffset' = NextOffset(readOffset, size)
        BY <1>7 DEF ConsumeHeader
      <4>2. RecordEnd(readOffset, size) \in Nat /\ Size \in Nat
        BY <2>1, AlignRoundsUp, SizeAssumption DEF RecordEnd, HeaderSize
      <4>3. QED
        BY <3>1, <3>2, <4>1, <4>2
  <2>3. /\ reader' \in {"idle", "failed", "garbage"}
        /\ held' = NoRecord
        /\ UNCHANGED <<writeOffset, lines, writeThreshold, writer, placement>>
    BY <1>7 DEF ConsumeHeader, writerVars
  <2>4. QED
    BY <2>2, <2>3 DEF TypeOK, WriterNeverFails, PlacementInv, NoRecord, Record
<1>8. CASE UNCHANGED vars
  BY <1>8 DEF vars, TypeOK, WriterNeverFails, PlacementInv
<1>9. QED
  BY <1>1, <1>2, <1>3, <1>4, <1>5, <1>6, <1>7, <1>8 DEF Next, Writer, Reader

\* The offsets always point at cache lines of the ring (m_write_offset also at
\* its end), and every variable keeps its type.
THEOREM TypeCorrect == Spec => []TypeOK
<1>1. WellFormed => TypeOK
  BY DEF WellFormed
<1>2. QED
  BY <1>1, InitWellFormed, NextWellFormed, PTL DEF Spec

\* No check inside write() ever throws: neither "start_offset == end_offset but
\* can't write" nor any of the checks made after the data is copied.
THEOREM WriterIsSafe == Spec => []WriterNeverFails
<1>1. WellFormed => WriterNeverFails
  BY DEF WellFormed
<1>2. QED
  BY <1>1, InitWellFormed, NextWellFormed, PTL DEF Spec

\* What can_write() promises: when it returns true, the write() that follows takes
\* the whole payload.
THEOREM CanWriteKeepsItsPromise == Spec => []CanWriteIsEnough
<1>1. WellFormed => CanWriteIsEnough
  <2> SUFFICES ASSUME WellFormed, NEW size \in Sizes, writer = "idle",
                      size <= LargestSize, CanWrite(readOffset, writeOffset, size)
               PROVE  /\ ~Refuses(readOffset, writeOffset, size, writeThreshold)
                      /\ Accepted(Placement(readOffset, writeOffset, size)) = size
    BY DEF CanWriteIsEnough
  <2>1. /\ readOffset \in Lines /\ writeOffset \in Offsets /\ size \in Nat \ {0}
        /\ writeThreshold \in Nat
    BY SizesAssumption, SizeAssumption, ThresholdsAssumption
       DEF WellFormed, TypeOK
  <2>2. /\ ~IsFull(readOffset, writeOffset)
        /\ Accepted(Placement(readOffset, writeOffset, size)) = size
    BY <2>1, CanWriteAccepts
  <2>3. ~(size < Least(size, writeThreshold))
    BY <2>1 DEF Least
  <2>4. QED
    BY <2>2, <2>3 DEF Refuses
<1>2. QED
  BY <1>1, InitWellFormed, NextWellFormed, PTL DEF Spec

\* EAGAIN means that the free lines have not enough room: write() leaves no line
\* unused but the one in front of the reader.
THEOREM RefusalsAreJustified == Spec => []RefusesOnlyWhenShort
<1>1. WellFormed => RefusesOnlyWhenShort
  <2> SUFFICES ASSUME WellFormed, NEW size \in Sizes,
                      Refuses(readOffset, writeOffset, size, writeThreshold)
               PROVE  LET end  == IF writeOffset = Size THEN 0 ELSE writeOffset
                          room == IF readOffset <= end
                                    THEN PayloadOfLines(FreeLinesFrom(end))
                                         + PayloadOfLines(readOffset \div LineSize - 1)
                                    ELSE PayloadOfLines(FreeLinesFrom(end) - 1)
                      IN  room < Least(size, writeThreshold)
    BY DEF RefusesOnlyWhenShort
  <2>1. /\ readOffset \in Lines /\ writeOffset \in Offsets /\ size \in Nat \ {0}
        /\ writeThreshold \in Nat \ {0}
    BY SizesAssumption, SizeAssumption, ThresholdsAssumption
       DEF WellFormed, TypeOK
  <2>2. QED
    BY <2>1, RefusalMeansShort
<1>2. QED
  BY <1>1, InitWellFormed, NextWellFormed, PTL DEF Spec
=============================================================================
