------------------------ MODULE ChannelSafetyProofs ------------------------
(***************************************************************************)
(* SafeInv is an invariant of SafeSpec, for every ring size: until the     *)
(* reader drains a ring whose last record ends at its end, no unread line  *)
(* is overwritten and the reader always finds whole records.  From it      *)
(* follows that shared memory implements the queue of MessageFifo.         *)
(***************************************************************************)
EXTENDS ChannelProofs, SequenceTheorems

-----------------------------------------------------------------------------
(* The four shapes of a write() in progress.  s is the sampled read offset *)
(* and n the offset that is going to be published.                         *)

FirstEnd  == RecordEnd(placement.firstAt, placement.firstSize)
SecondEnd == RecordEnd(placement.secondAt, placement.secondSize)

\* One record behind the writer, up to the end of the ring at most.
TailWrite(s, n) ==
  /\ placement.firstSize > 0 /\ placement.secondSize = 0
  /\ placement.firstAt = writeOffset /\ FirstEnd = n
  /\ s <= readOffset /\ readOffset <= writeOffset
  /\ writeOffset < n /\ n <= Size

\* Two records: one that fills the tail, one at the start of the ring.
SplitWrite(s, n) ==
  /\ placement.firstSize > 0 /\ placement.secondSize > 0
  /\ placement.firstAt = writeOffset /\ FirstEnd = Size
  /\ placement.secondAt = 0 /\ SecondEnd = n
  /\ s <= readOffset /\ readOffset <= writeOffset /\ writeOffset < Size
  /\ 0 < n /\ n < s

\* One record at the start of the ring, after one that ended at its end.
WrappedWrite(s, n) ==
  /\ placement.firstSize = 0 /\ placement.secondSize > 0
  /\ placement.secondAt = 0 /\ SecondEnd = n
  /\ writeOffset = Size /\ s <= readOffset
  /\ 0 < n /\ n < s

\* One record between the writer and the reader.
GapWrite(s, n) ==
  /\ placement.firstSize = 0 /\ placement.secondSize > 0
  /\ placement.secondAt = writeOffset /\ SecondEnd = n
  /\ s <= readOffset \/ readOffset <= writeOffset
  /\ writeOffset < n /\ n < s

\* The offsets are numbers on line boundaries within the ring.
LEMMA OffsetsAreNat ==
  ASSUME TypeOK
  PROVE  /\ readOffset \in Nat /\ readOffset < Size /\ readOffset \in Lines
         /\ writeOffset \in Nat /\ writeOffset <= Size /\ writeOffset \in Offsets
         /\ Size \in Nat
BY LinesAreAligned, SizeAssumption DEF TypeOK, LineSize

\* The shapes a write() in progress can have, and where the reader can be.
LEMMA WriteShapes ==
  ASSUME WellFormed, SampleInv, Writing
  PROVE  LET s == placement.start
             n == placement.newOffset
         IN  /\ s \in Nat /\ n \in Nat
             /\ \/ TailWrite(s, n)
                \/ SplitWrite(s, n)
                \/ WrappedWrite(s, n)
                \/ GapWrite(s, n)
<1> DEFINE s == placement.start
           n == placement.newOffset
<1>0. s \in Lines /\ WellPlaced(s, placement.size, placement)
  BY DEF WellFormed, PlacementInv
<1>1. s \in Nat /\ s < Size /\ WellPlaced(s, placement.size, placement)
  BY <1>0, LinesAreAligned
<1>2. /\ readOffset \in Nat /\ readOffset < Size
      /\ writeOffset \in Nat /\ writeOffset <= Size /\ Size \in Nat
  BY OffsetsAreNat DEF WellFormed
<1>3. /\ placement.firstAt = IF writeOffset = Size THEN 0 ELSE writeOffset
      /\ writeOffset = Size => s > 0
      /\ IF s <= writeOffset
           THEN s <= readOffset /\ readOffset <= writeOffset
           ELSE s <= readOffset \/ readOffset <= writeOffset
  BY DEF SampleInv
<1>4. /\ placement.firstSize \in Nat /\ placement.secondSize \in Nat
      /\ n \in Nat /\ n <= Size
      /\ placement.firstAt \in Nat /\ placement.firstAt < Size
      /\ placement.secondAt \in Nat
  BY <1>1, LinesAreAligned DEF WellPlaced
<1> HIDE DEF s, n
<1>5. CASE PlacedAtTail(s, placement)
  <2>1. writeOffset # Size /\ placement.firstAt = writeOffset /\ s <= writeOffset
    BY <1>1, <1>2, <1>3, <1>5 DEF PlacedAtTail
  <2>2. CASE placement.secondSize = 0
    <3>1. n = FirstEnd /\ writeOffset < n
      BY <1>5, <2>1, <2>2 DEF PlacedAtTail, FirstEnd, n
    <3>2. TailWrite(s, n)
      BY <1>3, <1>4, <1>5, <2>1, <2>2, <3>1 DEF PlacedAtTail, TailWrite
    <3>3. QED
      BY <1>1, <1>4, <3>2 DEF s, n
  <2>3. CASE placement.secondSize > 0
    <3>1. /\ FirstEnd = Size /\ n = SecondEnd /\ placement.secondAt = 0
          /\ 0 < n /\ n + LineSize <= s
      BY <1>5, <2>3 DEF PlacedAtTail, FirstEnd, SecondEnd, n
    <3>2. n < s /\ writeOffset < Size
      BY <1>1, <1>2, <1>4, <2>1, <3>1 DEF LineSize
    <3>3. SplitWrite(s, n)
      BY <1>3, <1>5, <2>1, <2>3, <3>1, <3>2 DEF PlacedAtTail, SplitWrite
    <3>4. QED
      BY <1>1, <1>4, <3>3 DEF s, n
  <2>4. QED
    BY <1>4, <2>2, <2>3
<1>6. CASE PlacedBehindReader(s, placement)
  <2>1. /\ placement.firstSize = 0 /\ placement.secondSize > 0
        /\ placement.secondAt = placement.firstAt /\ n = SecondEnd
        /\ placement.firstAt < s /\ placement.secondAt < n /\ n < s
    BY <1>1, <1>4, <1>6 DEF PlacedBehindReader, SecondEnd, n, LineSize
  <2>2. CASE writeOffset = Size
    <3>1. s <= readOffset /\ placement.secondAt = 0
      BY <1>1, <1>2, <1>3, <2>1, <2>2
    <3>2. WrappedWrite(s, n)
      BY <2>1, <2>2, <3>1 DEF WrappedWrite
    <3>3. QED
      BY <1>1, <1>4, <3>2 DEF s, n
  <2>3. CASE writeOffset # Size
    <3>1. /\ placement.secondAt = writeOffset
          /\ s <= readOffset \/ readOffset <= writeOffset
      BY <1>1, <1>2, <1>3, <2>1, <2>3
    <3>2. GapWrite(s, n)
      BY <2>1, <3>1 DEF GapWrite
    <3>3. QED
      BY <1>1, <1>4, <3>2 DEF s, n
  <2>4. QED
    BY <2>2, <2>3
<1>7. QED
  BY <1>1, <1>5, <1>6 DEF WellPlaced

-----------------------------------------------------------------------------
(* What a write() in progress writes to is apart from what is unread.      *)

FirstLines  == IF placement.firstSize > 0
                 THEN RecordLines(placement.firstAt, placement.firstSize) ELSE {}
SecondLines == IF placement.secondSize > 0
                 THEN RecordLines(placement.secondAt, placement.secondSize) ELSE {}

\* The lines a write() in progress covers are free, whatever was consumed since.
LEMMA WriteLinesAreFree ==
  ASSUME WellFormed, SampleInv, Writing
  PROVE  /\ FirstLines \cap UnreadLines = {}
         /\ SecondLines \cap UnreadLines = {}
         /\ FirstLines \cap SecondLines = {}
<1> DEFINE s == placement.start
           n == placement.newOffset
<1>1. /\ s \in Nat /\ n \in Nat
      /\ readOffset \in Nat /\ readOffset < Size
      /\ writeOffset \in Nat /\ writeOffset <= Size /\ Size \in Nat
  BY OffsetsAreNat, WriteShapes DEF WellFormed
<1>2. \/ TailWrite(s, n) \/ SplitWrite(s, n)
      \/ WrappedWrite(s, n) \/ GapWrite(s, n)
  BY WriteShapes
<1> HIDE DEF s, n
<1>3. \A l \in Lines : l \in Nat /\ l < Size
  BY LinesAreAligned, SizeAssumption DEF LineSize
<1>4. /\ \A l \in FirstLines :
           /\ placement.firstSize > 0 /\ l \in Lines
           /\ placement.firstAt <= l /\ l < FirstEnd
      /\ \A l \in SecondLines :
           /\ placement.secondSize > 0 /\ l \in Lines
           /\ placement.secondAt <= l /\ l < SecondEnd
  BY DEF FirstLines, SecondLines, RecordLines, FirstEnd, SecondEnd
<1>5. \A l \in UnreadLines :
        /\ l \in Lines
        /\ IF readOffset <= writeOffset
             THEN readOffset <= l /\ l < writeOffset
             ELSE readOffset <= l \/ l < writeOffset
  BY DEF UnreadLines
<1>6. ASSUME NEW l \in FirstLines PROVE l \notin UnreadLines
  <2>1. TailWrite(s, n) \/ SplitWrite(s, n)
    BY <1>2, <1>4, <1>6 DEF WrappedWrite, GapWrite
  <2>2. writeOffset <= l /\ readOffset <= writeOffset
    BY <1>4, <1>6, <2>1 DEF TailWrite, SplitWrite
  <2>3. QED
    BY <1>1, <1>3, <1>4, <1>5, <1>6, <2>2
<1>7. ASSUME NEW l \in SecondLines PROVE l \notin UnreadLines
  <2>1. l \in Nat /\ l < Size /\ placement.secondAt <= l /\ l < SecondEnd
    BY <1>3, <1>4, <1>7
  <2>2. CASE SplitWrite(s, n) \/ WrappedWrite(s, n)
    <3>1. l < readOffset /\ readOffset <= writeOffset
      BY <1>1, <2>1, <2>2 DEF SplitWrite, WrappedWrite
    <3>2. QED
      BY <1>1, <1>5, <2>1, <3>1
  <2>3. CASE GapWrite(s, n)
    <3>1. writeOffset <= l /\ (l < readOffset \/ readOffset <= writeOffset)
      BY <1>1, <2>1, <2>3 DEF GapWrite
    <3>2. QED
      BY <1>1, <1>5, <2>1, <3>1
  <2>4. QED
    BY <1>2, <1>4, <1>7, <2>2, <2>3 DEF TailWrite
<1>8. ASSUME NEW l \in FirstLines PROVE l \notin SecondLines
  <2>1. l \in SecondLines => SplitWrite(s, n)
    BY <1>2, <1>4, <1>8 DEF TailWrite, WrappedWrite, GapWrite
  <2>2. SplitWrite(s, n) => ~(l < SecondEnd)
    BY <1>1, <1>3, <1>4, <1>8 DEF SplitWrite
  <2>3. QED
    BY <1>4, <2>1, <2>2
<1>9. QED
  BY <1>6, <1>7, <1>8

-----------------------------------------------------------------------------
(* The chain of records.                                                   *)

\* The lines after an unread line, up to the end of its segment, are unread.
LEMMA SegmentIsUnread ==
  ASSUME TypeOK, NEW l \in UnreadLines, NEW m \in Lines,
         l < m, m < SegmentEnd(l)
  PROVE  m \in UnreadLines
<1>1. /\ l \in Nat /\ l \in Lines /\ m \in Nat /\ m < Size
      /\ readOffset \in Nat /\ writeOffset \in Nat
  BY LinesAreAligned, OffsetsAreNat DEF UnreadLines
<1>2. IF readOffset <= writeOffset
        THEN readOffset <= l /\ l < writeOffset
        ELSE readOffset <= l \/ l < writeOffset
  BY DEF UnreadLines
<1>3. IF readOffset <= writeOffset
        THEN readOffset <= m /\ m < writeOffset
        ELSE readOffset <= m \/ m < writeOffset
  BY <1>1, <1>2 DEF SegmentEnd
<1>4. QED
  BY <1>3 DEF UnreadLines

\* Where a record that starts at an unread line ends.
LEMMA RecordEndsInSegment ==
  ASSUME TypeOK, ChainInv, NEW l \in UnreadLines, lines[l].header
  PROVE  LET size == lines[l].rec.size
             end  == RecordEnd(l, size)
         IN  /\ l \in Nat /\ size \in Nat /\ end \in Nat
             /\ l < end /\ end <= Size /\ end \in Offsets
             /\ l + HeaderSize + size <= Size
             /\ end <= SegmentEnd(l)
             /\ end < SegmentEnd(l) => end \in UnreadLines
<1> DEFINE size == lines[l].rec.size
           end  == RecordEnd(l, size)
<1>1. /\ l \in Lines /\ l \in Nat /\ size \in Nat
      /\ Size \in Nat /\ Size % LineSize = 0
  BY LinesAreAligned, SizeAssumption DEF UnreadLines, TypeOK
<1>2. l + HeaderSize + size <= Size /\ end <= SegmentEnd(l)
  BY DEF ChainInv
<1>3. end \in Nat /\ end % LineSize = 0 /\ l < end /\ end <= Size
  BY <1>1, <1>2, RecordEndStaysBelow
<1>4. end \in Offsets
  BY <1>3, LinesAreAligned
<1>5. ASSUME end < SegmentEnd(l) PROVE end \in UnreadLines
  <2>1. SegmentEnd(l) <= Size
    BY OffsetsAreNat DEF SegmentEnd
  <2>2. SegmentEnd(l) \in Nat
    BY OffsetsAreNat DEF SegmentEnd
  <2>3. end \in Lines
    BY <1>1, <1>3, <1>5, <2>1, <2>2, LinesAreAligned
  <2>4. QED
    BY <1>3, <1>5, <2>3, SegmentIsUnread
<1>6. QED
  BY <1>1, <1>2, <1>3, <1>4, <1>5

\* The unread lines begin at the read offset and, after a wrap, at the start.
LEMMA EndsOfUnread ==
  ASSUME TypeOK, ChainInv
  PROVE  /\ readOffset # writeOffset => readOffset \in UnreadLines
         /\ writeOffset < readOffset => 0 \in UnreadLines
<1>1. /\ readOffset \in Nat /\ writeOffset \in Nat /\ readOffset \in Lines
      /\ 0 \in Lines
  BY OffsetsAreNat, LinesAreAligned, SizeAssumption DEF LineSize
<1>2. writeOffset = 0 => readOffset = 0
  BY DEF ChainInv
<1>3. QED
  BY <1>1, <1>2 DEF UnreadLines

\* The chain depends on nothing but the offsets and the unread lines.
LEMMA ChainDependsOnUnread ==
  ASSUME TypeOK, ChainInv, readOffset' = readOffset, writeOffset' = writeOffset,
         \A l \in UnreadLines : lines'[l] = lines[l]
  PROVE  ChainInv'
<1>1. UnreadLines' = UnreadLines /\ \A l : SegmentEnd(l)' = SegmentEnd(l)
  BY DEF UnreadLines, SegmentEnd
<1>2. /\ writeOffset = 0 => readOffset = 0
      /\ readOffset # writeOffset => lines[readOffset].header
      /\ writeOffset < readOffset => lines[0].header
  BY DEF ChainInv
<1>3. /\ writeOffset' = 0 => readOffset' = 0
      /\ readOffset' # writeOffset' => lines'[readOffset'].header
      /\ writeOffset' < readOffset' => lines'[0].header
  BY <1>2, EndsOfUnread
<1>4. ASSUME NEW l \in UnreadLines, lines'[l].header
      PROVE  LET size == lines'[l].rec.size
                 end  == RecordEnd(l, size)
             IN  /\ l + HeaderSize + size <= Size
                 /\ end <= SegmentEnd(l)
                 /\ end < SegmentEnd(l) => lines'[end].header
                 /\ \A m \in Lines :
                      l < m /\ m < end => lines'[m] = Line(lines'[l].rec, FALSE)
  <2> DEFINE size == lines[l].rec.size
             end  == RecordEnd(l, size)
  <2>1. lines'[l] = lines[l]
    OBVIOUS
  <2>2. /\ l \in Nat /\ end \in Nat /\ end <= SegmentEnd(l)
        /\ l + HeaderSize + size <= Size
        /\ end < SegmentEnd(l) => end \in UnreadLines
    BY <1>4, <2>1, RecordEndsInSegment
  <2>3. /\ end < SegmentEnd(l) => lines[end].header
        /\ \A m \in Lines : l < m /\ m < end => lines[m] = Line(lines[l].rec, FALSE)
    BY <1>4, <2>1 DEF ChainInv
  <2>4. end < SegmentEnd(l) => lines'[end].header
    BY <2>2, <2>3
  <2>5. ASSUME NEW m \in Lines, l < m, m < end
        PROVE  lines'[m] = Line(lines[l].rec, FALSE)
    <3>1. m \in Nat /\ SegmentEnd(l) \in Nat
      BY LinesAreAligned, OffsetsAreNat DEF SegmentEnd
    <3>2. m < SegmentEnd(l)
      BY <2>2, <2>5, <3>1
    <3>3. m \in UnreadLines
      BY <2>5, <3>2, SegmentIsUnread
    <3>4. QED
      BY <2>3, <2>5, <3>3
  <2>6. QED
    BY <2>1, <2>2, <2>4, <2>5
<1>5. QED
  BY <1>1, <1>3, <1>4 DEF ChainInv

-----------------------------------------------------------------------------
(* Each action of SafeNext preserves SafeInv.                              *)

\* An empty ring satisfies the invariant.
LEMMA InitSafe == Init => SafeInv
<1> SUFFICES ASSUME Init PROVE SafeInv
  OBVIOUS
<1>1. WellFormed
  BY InitWellFormed
<1>2. UnreadLines = {}
  BY LinesAreAligned DEF Init, UnreadLines
<1>3. SampleInv /\ ChainInv /\ CopiedInv /\ HeldInv /\ ReaderNeverFails
  BY <1>2 DEF Init, SampleInv, ChainInv, CopiedInv, HeldInv, ReaderNeverFails, Writing
<1>4. QED
  BY <1>1, <1>3 DEF SafeInv

\* The threshold is the writer's own and changes nothing else.
LEMMA SetWriteThresholdSafe ==
  ASSUME SafeInv, NEW t \in Thresholds, SetWriteThreshold(t)
  PROVE  SampleInv' /\ ChainInv' /\ CopiedInv' /\ HeldInv' /\ ReaderNeverFails'
<1>1. ChainInv'
  BY ChainDependsOnUnread DEF SafeInv, WellFormed, SetWriteThreshold
<1>2. QED
  BY <1>1 DEF SafeInv, SetWriteThreshold, readerVars, SampleInv, CopiedInv, HeldInv,
              ReaderNeverFails, Writing

\* What write() decides from its sample is a placement for that sample.
LEMMA BeginWriteSafe ==
  ASSUME SafeInv, NEW id \in Ids, NEW size \in Sizes, BeginWrite(id, size)
  PROVE  SampleInv' /\ ChainInv' /\ CopiedInv' /\ HeldInv' /\ ReaderNeverFails'
<1> DEFINE p == Placement(readOffset, writeOffset, size)
<1>1. /\ readOffset \in Lines /\ writeOffset \in Offsets /\ size \in Nat \ {0}
      /\ writeThreshold \in 1 .. Size - (LineSize + 2 * HeaderSize)
  BY SizesAssumption, ThresholdsAssumption DEF SafeInv, WellFormed, TypeOK
<1>2. /\ ~Refuses(readOffset, writeOffset, size, writeThreshold)
      /\ ~WriteFails(readOffset, writeOffset, size, writeThreshold)
  BY <1>1, WriteDoesNotFail DEF BeginWrite
<1>3. WellPlaced(readOffset, size, p)
  BY <1>1, <1>2, PlacementIsWellPlaced
<1>4. p.firstAt = IF writeOffset = Size THEN 0 ELSE writeOffset
  BY DEF Placement
<1>5. writeOffset = Size => readOffset # 0
  BY <1>2 DEF Refuses, IsFull
<1> HIDE DEF p
<1>6. /\ writer' = IF p.firstSize > 0 THEN "first" ELSE "second"
      /\ placement' =
           [id |-> id, size |-> size, start |-> readOffset,
            firstAt |-> p.firstAt, firstSize |-> p.firstSize,
            secondAt |-> p.secondAt, secondSize |-> p.secondSize,
            newOffset |-> p.newOffset]
      /\ UNCHANGED <<readOffset, writeOffset, lines, reader, held>>
  BY <1>2 DEF BeginWrite, readerVars, p
<1>7. SampleInv'
  BY <1>4, <1>5, <1>6, OffsetsAreNat DEF SampleInv, SafeInv, WellFormed
<1>8. ChainInv'
  BY <1>6, ChainDependsOnUnread DEF SafeInv, WellFormed
<1>9. CopiedInv'
  <2>1. p.firstSize \in Nat /\ (p.firstSize > 0 \/ p.secondSize > 0)
    BY <1>3 DEF WellPlaced, PlacedAtTail, PlacedBehindReader
  <2>2. QED
    BY <1>6, <2>1 DEF CopiedInv, Writing
<1>10. QED
  BY <1>6, <1>7, <1>8, <1>9 DEF SafeInv, HeldInv, ReaderNeverFails

\* Copying the first record touches no unread line and completes that record.
LEMMA CopyFirstSafe ==
  ASSUME SafeInv, CopyFirst
  PROVE  SampleInv' /\ ChainInv' /\ CopiedInv' /\ HeldInv' /\ ReaderNeverFails'
<1>1. /\ Writing /\ placement.firstSize > 0
      /\ writer' = IF placement.secondSize > 0 THEN "second" ELSE "publish"
      /\ UNCHANGED <<readOffset, writeOffset, placement, reader, held>>
  BY DEF SafeInv, CopiedInv, CopyFirst, Writing, readerVars
<1>2. \A l \in Lines : lines'[l] = IF l \in FirstLines
                                     THEN Line(FirstRecord, l = placement.firstAt)
                                     ELSE lines[l]
  BY <1>1 DEF CopyFirst, WriteToHeader, FirstRecord, Record, FirstLines
<1>3. \A l \in UnreadLines : l \in Lines /\ lines'[l] = lines[l]
  BY <1>1, <1>2, WriteLinesAreFree DEF SafeInv, UnreadLines
<1>4. ChainInv'
  BY <1>1, <1>3, ChainDependsOnUnread DEF SafeInv, WellFormed
<1>5. CopiedInv'
  <2>1. FirstRecord' = FirstRecord
    BY <1>1 DEF FirstRecord
  <2>2. Copied(placement.firstAt, FirstRecord)'
    BY <1>1, <1>2, <2>1 DEF Copied, FirstLines, FirstRecord, Record, RecordLines
  <2>3. QED
    BY <1>1, <2>2 DEF CopiedInv
<1>6. HeldInv'
  BY <1>1, <1>3, EndsOfUnread DEF SafeInv, HeldInv, WellFormed
<1>7. SampleInv' /\ ReaderNeverFails'
  BY <1>1 DEF SafeInv, SampleInv, ReaderNeverFails
<1>8. QED
  BY <1>4, <1>5, <1>6, <1>7

\* Copying the second record touches neither an unread line nor the first.
LEMMA CopySecondSafe ==
  ASSUME SafeInv, CopySecond
  PROVE  SampleInv' /\ ChainInv' /\ CopiedInv' /\ HeldInv' /\ ReaderNeverFails'
<1>1. /\ Writing /\ placement.secondSize > 0 /\ writer' = "publish"
      /\ writer # "first"
      /\ UNCHANGED <<readOffset, writeOffset, placement, reader, held>>
  BY DEF SafeInv, CopiedInv, CopySecond, Writing, readerVars
<1>2. \A l \in Lines : lines'[l] = IF l \in SecondLines
                                     THEN Line(SecondRecord, l = placement.secondAt)
                                     ELSE lines[l]
  BY <1>1 DEF CopySecond, WriteToHeader, SecondRecord, Record, SecondLines
<1>3. \A l \in UnreadLines : l \in Lines /\ lines'[l] = lines[l]
  BY <1>1, <1>2, WriteLinesAreFree DEF SafeInv, UnreadLines
<1>4. ChainInv'
  BY <1>1, <1>3, ChainDependsOnUnread DEF SafeInv, WellFormed
<1>5. CopiedInv'
  <2>1. FirstRecord' = FirstRecord /\ SecondRecord' = SecondRecord
    BY <1>1 DEF FirstRecord, SecondRecord
  <2>2. Copied(placement.secondAt, SecondRecord)'
    BY <1>1, <1>2, <2>1 DEF Copied, SecondLines, SecondRecord, Record, RecordLines
  <2>3. ASSUME placement.firstSize > 0
        PROVE  Copied(placement.firstAt, FirstRecord)'
    <3>1. Copied(placement.firstAt, FirstRecord)
      BY <1>1, <2>3 DEF SafeInv, CopiedInv
    <3>2. \A l \in FirstLines : l \in Lines /\ lines'[l] = lines[l]
      BY <1>1, <1>2, WriteLinesAreFree DEF SafeInv, FirstLines, RecordLines
    <3>3. FirstLines = RecordLines(placement.firstAt, FirstRecord.size)
      BY <2>3 DEF FirstLines, FirstRecord, Record
    <3>4. QED
      BY <1>1, <2>1, <3>1, <3>2, <3>3 DEF Copied
  <2>4. QED
    BY <1>1, <2>2, <2>3 DEF CopiedInv
<1>6. HeldInv'
  BY <1>1, <1>3, EndsOfUnread DEF SafeInv, HeldInv, WellFormed
<1>7. SampleInv' /\ ReaderNeverFails'
  BY <1>1 DEF SafeInv, SampleInv, ReaderNeverFails, Writing
<1>8. QED
  BY <1>4, <1>5, <1>6, <1>7

\* The lines that publishing adds to the unread ones hold whole records.
LEMMA PublishedRecords ==
  ASSUME SafeInv, writer = "publish"
  PROVE  /\ \A l \in FirstLines :
              /\ l \in Lines /\ placement.firstSize > 0
              /\ lines[l] = IF l = placement.firstAt THEN Line(FirstRecord, TRUE)
                                                ELSE Line(FirstRecord, FALSE)
         /\ \A l \in SecondLines :
              /\ l \in Lines /\ placement.secondSize > 0
              /\ lines[l] = IF l = placement.secondAt THEN Line(SecondRecord, TRUE)
                                                ELSE Line(SecondRecord, FALSE)
         /\ placement.firstSize > 0 =>
              /\ placement.firstAt \in FirstLines
              /\ lines[placement.firstAt].header
              /\ placement.firstAt + HeaderSize + placement.firstSize <= FirstEnd
         /\ placement.secondSize > 0 =>
              /\ placement.secondAt \in SecondLines
              /\ lines[placement.secondAt].header
              /\ placement.secondAt + HeaderSize + placement.secondSize <= SecondEnd
<1>1. Writing /\ writer # "first"
  BY DEF Writing
<1>2. /\ placement.firstAt \in Lines /\ placement.firstAt \in Nat
      /\ placement.secondAt \in Lines /\ placement.secondAt \in Nat
      /\ placement.firstSize \in Nat /\ placement.secondSize \in Nat
  BY <1>1, LinesAreAligned DEF SafeInv, WellFormed, PlacementInv, WellPlaced
<1>0. /\ \A l \in FirstLines :
           /\ l \in Lines /\ placement.firstSize > 0
           /\ lines[l] = Line(FirstRecord, l = placement.firstAt)
      /\ \A l \in SecondLines :
           /\ l \in Lines /\ placement.secondSize > 0
           /\ lines[l] = Line(SecondRecord, l = placement.secondAt)
  BY <1>1 DEF SafeInv, CopiedInv, Copied, FirstLines, SecondLines, RecordLines,
              FirstRecord, SecondRecord, Record
<1>3. /\ \A l \in FirstLines :
           lines[l] = IF l = placement.firstAt THEN Line(FirstRecord, TRUE)
                                               ELSE Line(FirstRecord, FALSE)
      /\ \A l \in SecondLines :
           lines[l] = IF l = placement.secondAt THEN Line(SecondRecord, TRUE)
                                                ELSE Line(SecondRecord, FALSE)
  <2>1. ASSUME NEW l \in FirstLines
        PROVE  lines[l] = IF l = placement.firstAt THEN Line(FirstRecord, TRUE)
                                                   ELSE Line(FirstRecord, FALSE)
    <3>1. lines[l] = Line(FirstRecord, l = placement.firstAt)
      BY <1>0
    <3>2. CASE l = placement.firstAt
      BY <3>1, <3>2 DEF Line
    <3>3. CASE l # placement.firstAt
      BY <3>1, <3>3 DEF Line
    <3>4. QED
      BY <3>2, <3>3
  <2>2. ASSUME NEW l \in SecondLines
        PROVE  lines[l] = IF l = placement.secondAt THEN Line(SecondRecord, TRUE)
                                                    ELSE Line(SecondRecord, FALSE)
    <3>1. lines[l] = Line(SecondRecord, l = placement.secondAt)
      BY <1>0
    <3>2. CASE l = placement.secondAt
      BY <3>1, <3>2 DEF Line
    <3>3. CASE l # placement.secondAt
      BY <3>1, <3>3 DEF Line
    <3>4. QED
      BY <3>2, <3>3
  <2>3. QED
    BY <2>1, <2>2
<1>4. /\ placement.firstAt + HeaderSize + placement.firstSize <= FirstEnd
      /\ placement.secondAt + HeaderSize + placement.secondSize <= SecondEnd
      /\ placement.firstAt < FirstEnd /\ placement.secondAt < SecondEnd
  BY <1>2, AlignRoundsUp DEF FirstEnd, SecondEnd, RecordEnd, HeaderSize
<1>5. /\ placement.firstSize > 0 => placement.firstAt \in FirstLines
      /\ placement.secondSize > 0 => placement.secondAt \in SecondLines
  BY <1>2, <1>4 DEF FirstLines, SecondLines, RecordLines, FirstEnd, SecondEnd
<1>6. ASSUME placement.firstSize > 0 PROVE lines[placement.firstAt].header
  <2>1. lines[placement.firstAt] = Line(FirstRecord, TRUE)
    BY <1>3, <1>5, <1>6
  <2>2. QED
    BY <2>1 DEF Line
<1>7. ASSUME placement.secondSize > 0 PROVE lines[placement.secondAt].header
  <2>1. lines[placement.secondAt] = Line(SecondRecord, TRUE)
    BY <1>3, <1>5, <1>7
  <2>2. QED
    BY <2>1 DEF Line
<1>8. QED
  BY <1>3, <1>4, <1>5, <1>6, <1>7, <1>0

\* Publishing makes unread what was written, and nothing else.
LEMMA PublishedLines ==
  ASSUME SafeInv, Publish
  PROVE  /\ UnreadLines' \subseteq UnreadLines \cup FirstLines \cup SecondLines
         /\ \A l \in UnreadLines :
              \/ SegmentEnd(l)' = SegmentEnd(l)
              \/ /\ SegmentEnd(l) = writeOffset
                 /\ writeOffset < SegmentEnd(l)'
                 /\ lines[writeOffset].header
         /\ \A l \in FirstLines :
              l = placement.firstAt => SegmentEnd(l)' = FirstEnd
         /\ \A l \in SecondLines :
              l = placement.secondAt => SegmentEnd(l)' = SecondEnd
         /\ placement.firstSize > 0 => FirstEnd <= Size
         /\ placement.secondSize > 0 => SecondEnd <= Size
<1> DEFINE s == placement.start
           n == placement.newOffset
<1>1. /\ Writing /\ writer = "publish" /\ writeOffset' = n
      /\ UNCHANGED <<readOffset, lines>>
  BY DEF Publish, Writing
<1>2. /\ s \in Nat /\ n \in Nat
      /\ readOffset \in Nat /\ readOffset < Size
      /\ writeOffset \in Nat /\ writeOffset <= Size /\ Size \in Nat
  BY <1>1, OffsetsAreNat, WriteShapes DEF SafeInv, WellFormed
<1>3. \/ TailWrite(s, n) \/ SplitWrite(s, n)
      \/ WrappedWrite(s, n) \/ GapWrite(s, n)
  BY <1>1, WriteShapes DEF SafeInv
<1>4. s < Size
  BY <1>1, LinesAreAligned DEF SafeInv, WellFormed, PlacementInv
<1> HIDE DEF s, n
<1>5. \A l \in Lines : l \in Nat /\ l < Size
  BY LinesAreAligned
<1>6. UnreadLines' = IF readOffset <= n
                       THEN {l \in Lines : readOffset <= l /\ l < n}
                       ELSE {l \in Lines : readOffset <= l \/ l < n}
  BY <1>1 DEF UnreadLines
<1>7. /\ \A l \in Lines : placement.firstSize > 0 /\ placement.firstAt <= l
                            /\ l < FirstEnd => l \in FirstLines
      /\ \A l \in Lines : placement.secondSize > 0 /\ placement.secondAt <= l
                            /\ l < SecondEnd => l \in SecondLines
  BY DEF FirstLines, SecondLines, RecordLines, FirstEnd, SecondEnd
<1>8. ASSUME NEW l \in UnreadLines', l \notin UnreadLines,
             l \notin FirstLines, l \notin SecondLines
      PROVE  FALSE
  <2>1. /\ l \in Lines /\ l \in Nat /\ l < Size
        /\ IF readOffset <= n THEN readOffset <= l /\ l < n
                              ELSE readOffset <= l \/ l < n
    BY <1>5, <1>6, <1>8
  <2>2. ~ IF readOffset <= writeOffset
            THEN readOffset <= l /\ l < writeOffset
            ELSE readOffset <= l \/ l < writeOffset
    BY <1>8, <2>1 DEF UnreadLines
  <2>3. CASE TailWrite(s, n)
    BY <1>2, <1>7, <1>8, <2>1, <2>2, <2>3 DEF TailWrite
  <2>4. CASE SplitWrite(s, n)
    BY <1>2, <1>7, <1>8, <2>1, <2>2, <2>4 DEF SplitWrite
  <2>5. CASE WrappedWrite(s, n)
    BY <1>2, <1>7, <1>8, <2>1, <2>2, <2>5 DEF WrappedWrite
  <2>6. CASE GapWrite(s, n)
    BY <1>2, <1>7, <1>8, <2>1, <2>2, <2>6 DEF GapWrite
  <2>7. QED
    BY <1>3, <2>3, <2>4, <2>5, <2>6
<1>9. \A l : SegmentEnd(l)' = IF l < n THEN n ELSE Size
  BY <1>1 DEF SegmentEnd
<1>11. ASSUME NEW l \in UnreadLines
       PROVE  \/ SegmentEnd(l)' = SegmentEnd(l)
              \/ /\ SegmentEnd(l) = writeOffset
                 /\ writeOffset < SegmentEnd(l)'
                 /\ lines[writeOffset].header
  <2>1. /\ l \in Nat /\ l < Size
        /\ IF readOffset <= writeOffset
             THEN readOffset <= l /\ l < writeOffset
             ELSE readOffset <= l \/ l < writeOffset
    BY <1>5 DEF UnreadLines
  <2>2. CASE TailWrite(s, n)
    <3>1. lines[writeOffset].header
      BY <1>1, <2>2, PublishedRecords DEF TailWrite
    <3>2. QED
      BY <1>2, <1>9, <2>1, <2>2, <3>1 DEF TailWrite, SegmentEnd
  <2>3. CASE SplitWrite(s, n)
    <3>1. lines[writeOffset].header
      BY <1>1, <2>3, PublishedRecords DEF SplitWrite
    <3>2. QED
      BY <1>2, <1>9, <2>1, <2>3, <3>1 DEF SplitWrite, SegmentEnd
  <2>4. CASE WrappedWrite(s, n)
    BY <1>2, <1>9, <2>1, <2>4 DEF WrappedWrite, SegmentEnd
  <2>5. CASE GapWrite(s, n)
    <3>1. lines[writeOffset].header
      BY <1>1, <2>5, PublishedRecords DEF GapWrite
    <3>2. QED
      BY <1>2, <1>9, <2>1, <2>5, <3>1 DEF GapWrite, SegmentEnd
  <2>6. QED
    BY <1>3, <2>2, <2>3, <2>4, <2>5
<1>12. ASSUME NEW l \in FirstLines, l = placement.firstAt
       PROVE  SegmentEnd(l)' = FirstEnd
  <2>1. placement.firstSize > 0
    BY <1>12 DEF FirstLines
  <2>2. TailWrite(s, n) \/ SplitWrite(s, n)
    BY <1>3, <2>1 DEF WrappedWrite, GapWrite
  <2>3. QED
    BY <1>2, <1>9, <1>12, <2>2 DEF TailWrite, SplitWrite
<1>13. ASSUME NEW l \in SecondLines, l = placement.secondAt
       PROVE  SegmentEnd(l)' = SecondEnd
  <2>1. placement.secondSize > 0
    BY <1>13 DEF SecondLines
  <2>2. SplitWrite(s, n) \/ WrappedWrite(s, n) \/ GapWrite(s, n)
    BY <1>3, <2>1 DEF TailWrite
  <2>3. QED
    BY <1>2, <1>9, <1>13, <2>2 DEF SplitWrite, WrappedWrite, GapWrite
<1>14. /\ placement.firstSize > 0 => FirstEnd <= Size
       /\ placement.secondSize > 0 => SecondEnd <= Size
  BY <1>2, <1>3, <1>4 DEF TailWrite, SplitWrite, WrappedWrite, GapWrite
<1>15. QED
  BY <1>8, <1>11, <1>12, <1>13, <1>14

\* Where the reader goes on after publishing, a header is waiting.
LEMMA PublishedEnds ==
  ASSUME SafeInv, Publish
  PROVE  /\ writeOffset' # 0
         /\ readOffset' # writeOffset' /\ lines'[readOffset'].header
         /\ writeOffset' < readOffset' => lines'[0].header
<1> DEFINE s == placement.start
           n == placement.newOffset
<1>1. /\ Writing /\ writer = "publish" /\ writeOffset' = n
      /\ UNCHANGED <<readOffset, lines>>
  BY DEF Publish, Writing
<1>2. /\ s \in Nat /\ n \in Nat
      /\ readOffset \in Nat /\ readOffset < Size
      /\ writeOffset \in Nat /\ writeOffset <= Size /\ Size \in Nat
  BY <1>1, OffsetsAreNat, WriteShapes DEF SafeInv, WellFormed
<1>3. \/ TailWrite(s, n) \/ SplitWrite(s, n)
      \/ WrappedWrite(s, n) \/ GapWrite(s, n)
  BY <1>1, WriteShapes DEF SafeInv
<1> HIDE DEF s, n
<1>4. /\ readOffset # writeOffset => lines[readOffset].header
      /\ writeOffset < readOffset => lines[0].header
  BY DEF SafeInv, ChainInv
<1>5. /\ placement.firstSize > 0 => lines[placement.firstAt].header
      /\ placement.secondSize > 0 => lines[placement.secondAt].header
  BY <1>1, PublishedRecords
<1>6. CASE TailWrite(s, n)
  BY <1>1, <1>2, <1>4, <1>5, <1>6 DEF TailWrite
<1>7. CASE SplitWrite(s, n)
  BY <1>1, <1>2, <1>4, <1>5, <1>7 DEF SplitWrite
<1>8. CASE WrappedWrite(s, n)
  BY <1>1, <1>2, <1>4, <1>5, <1>8 DEF WrappedWrite
<1>9. CASE GapWrite(s, n)
  BY <1>1, <1>2, <1>4, <1>5, <1>9 DEF GapWrite
<1>10. QED
  BY <1>3, <1>6, <1>7, <1>8, <1>9

\* Publishing turns complete records behind the last unread one into unread ones.
LEMMA PublishSafe ==
  ASSUME SafeInv, Publish
  PROVE  SampleInv' /\ ChainInv' /\ CopiedInv' /\ HeldInv' /\ ReaderNeverFails'
<1>1. /\ writer = "publish" /\ writer' = "idle"
      /\ UNCHANGED <<readOffset, lines, reader, held>>
  BY DEF Publish, readerVars
<1>2. /\ Size \in Nat /\ writeOffset \in Nat
      /\ \A l \in Lines : l \in Nat /\ l < Size
  BY OffsetsAreNat, LinesAreAligned DEF SafeInv, WellFormed
<1> DEFINE Follows(l) ==
             LET size == lines[l].rec.size
                 end  == RecordEnd(l, size)
             IN  /\ l + HeaderSize + size <= Size
                 /\ end <= SegmentEnd(l)'
                 /\ end < SegmentEnd(l)' => lines[end].header
                 /\ \A m \in Lines :
                      l < m /\ m < end => lines[m] = Line(lines[l].rec, FALSE)
<1>3. ASSUME NEW l \in UnreadLines, lines[l].header PROVE Follows(l)
  <2> DEFINE size == lines[l].rec.size
             end  == RecordEnd(l, size)
  <2>1. /\ end \in Nat /\ end <= SegmentEnd(l)
        /\ l + HeaderSize + size <= Size
        /\ end < SegmentEnd(l) => lines[end].header
        /\ \A m \in Lines : l < m /\ m < end => lines[m] = Line(lines[l].rec, FALSE)
    BY <1>3, RecordEndsInSegment DEF SafeInv, WellFormed, ChainInv
  <2>2. CASE SegmentEnd(l)' = SegmentEnd(l)
    BY <2>1, <2>2
  <2>3. CASE /\ SegmentEnd(l) = writeOffset
             /\ writeOffset < SegmentEnd(l)'
             /\ lines[writeOffset].header
    <3>1. SegmentEnd(l)' \in Nat
      <4>1. writeOffset' \in Nat
        BY <1>1, WriteShapes DEF SafeInv, Publish, Writing
      <4>2. QED
        BY <1>2, <4>1 DEF SegmentEnd
    <3>2. end <= SegmentEnd(l)'
      BY <1>2, <2>1, <2>3, <3>1
    <3>3. lines[end].header
      BY <1>2, <2>1, <2>3
    <3>4. QED
      BY <2>1, <3>2, <3>3
  <2>4. QED
    BY <2>2, <2>3, PublishedLines
<1>4. ASSUME NEW l \in FirstLines, lines[l].header PROVE Follows(l)
  <2>1. /\ placement.firstSize > 0
        /\ lines[l] = IF l = placement.firstAt THEN Line(FirstRecord, TRUE)
                                          ELSE Line(FirstRecord, FALSE)
    BY <1>1, PublishedRecords
  <2>2. l = placement.firstAt /\ lines[l].rec = FirstRecord
    BY <1>4, <2>1 DEF Line
  <2>3. lines[l].rec.size = placement.firstSize
        /\ RecordEnd(l, lines[l].rec.size) = FirstEnd
    BY <2>2 DEF FirstRecord, Record, FirstEnd
  <2>4. /\ l + HeaderSize + placement.firstSize <= FirstEnd /\ FirstEnd <= Size
        /\ SegmentEnd(l)' = FirstEnd
    BY <1>1, <2>1, <2>2, PublishedRecords, PublishedLines
  <2>5. placement.firstSize \in Nat /\ FirstEnd \in Nat /\ l \in Nat
    <3>1. placement.firstSize \in Nat /\ l \in Nat
      BY <1>2, <2>1, LinesAreAligned DEF FirstLines, RecordLines, SafeInv, WellFormed, TypeOK
    <3>2. QED
      BY <2>2, <3>1, AlignRoundsUp DEF FirstEnd, RecordEnd, HeaderSize
  <2>6. l + HeaderSize + placement.firstSize <= Size
    BY <1>2, <2>4, <2>5 DEF HeaderSize
  <2>7. ASSUME NEW m \in Lines, l < m, m < FirstEnd
        PROVE  lines[m] = Line(lines[l].rec, FALSE)
    <3>1. m \in FirstLines /\ m # placement.firstAt
      BY <1>2, <2>1, <2>2, <2>5, <2>7 DEF FirstLines, RecordLines, FirstEnd
    <3>2. QED
      BY <1>1, <2>2, <3>1, PublishedRecords
  <2> DEFINE end == RecordEnd(l, lines[l].rec.size)
  <2>8. l + HeaderSize + lines[l].rec.size <= Size
    BY <2>3, <2>6
  <2>9. end <= SegmentEnd(l)' /\ ~(end < SegmentEnd(l)')
    BY <2>3, <2>4, <2>5
  <2>10. \A m \in Lines : l < m /\ m < end => lines[m] = Line(lines[l].rec, FALSE)
    BY <2>3, <2>7
  <2>11. QED
    BY <2>8, <2>9, <2>10
<1>5. ASSUME NEW l \in SecondLines, lines[l].header PROVE Follows(l)
  <2>1. /\ placement.secondSize > 0
        /\ lines[l] = IF l = placement.secondAt THEN Line(SecondRecord, TRUE)
                                          ELSE Line(SecondRecord, FALSE)
    BY <1>1, PublishedRecords
  <2>2. l = placement.secondAt /\ lines[l].rec = SecondRecord
    BY <1>5, <2>1 DEF Line
  <2>3. lines[l].rec.size = placement.secondSize
        /\ RecordEnd(l, lines[l].rec.size) = SecondEnd
    BY <2>2 DEF SecondRecord, Record, SecondEnd
  <2>4. /\ l + HeaderSize + placement.secondSize <= SecondEnd /\ SecondEnd <= Size
        /\ SegmentEnd(l)' = SecondEnd
    BY <1>1, <2>1, <2>2, PublishedRecords, PublishedLines
  <2>5. placement.secondSize \in Nat /\ SecondEnd \in Nat /\ l \in Nat
    <3>1. placement.secondSize \in Nat /\ l \in Nat
      BY <1>2, <2>1, LinesAreAligned DEF SecondLines, RecordLines, SafeInv, WellFormed, TypeOK
    <3>2. QED
      BY <2>2, <3>1, AlignRoundsUp DEF SecondEnd, RecordEnd, HeaderSize
  <2>6. l + HeaderSize + placement.secondSize <= Size
    BY <1>2, <2>4, <2>5 DEF HeaderSize
  <2>7. ASSUME NEW m \in Lines, l < m, m < SecondEnd
        PROVE  lines[m] = Line(lines[l].rec, FALSE)
    <3>1. m \in SecondLines /\ m # placement.secondAt
      BY <1>2, <2>1, <2>2, <2>5, <2>7 DEF SecondLines, RecordLines, SecondEnd
    <3>2. QED
      BY <1>1, <2>2, <3>1, PublishedRecords
  <2> DEFINE end == RecordEnd(l, lines[l].rec.size)
  <2>8. l + HeaderSize + lines[l].rec.size <= Size
    BY <2>3, <2>6
  <2>9. end <= SegmentEnd(l)' /\ ~(end < SegmentEnd(l)')
    BY <2>3, <2>4, <2>5
  <2>10. \A m \in Lines : l < m /\ m < end => lines[m] = Line(lines[l].rec, FALSE)
    BY <2>3, <2>7
  <2>11. QED
    BY <2>8, <2>9, <2>10
<1>6. \A l \in UnreadLines' : lines[l].header => Follows(l)
  <2>1. UnreadLines' \subseteq UnreadLines \cup FirstLines \cup SecondLines
    BY PublishedLines
  <2> HIDE DEF Follows
  <2>2. QED
    BY <1>3, <1>4, <1>5, <2>1
<1>7. ChainInv'
  BY <1>1, <1>6, PublishedEnds DEF ChainInv
<1>8. HeldInv'
  BY <1>1, PublishedEnds DEF SafeInv, HeldInv
<1>9. SampleInv' /\ CopiedInv' /\ ReaderNeverFails'
  BY <1>1 DEF SafeInv, SampleInv, CopiedInv, ReaderNeverFails, Writing
<1>10. QED
  BY <1>7, <1>8, <1>9

\* read_header() finds a header with a size that passes its check.
LEMMA ReadHeaderSafe ==
  ASSUME SafeInv, ReadHeader
  PROVE  SampleInv' /\ ChainInv' /\ CopiedInv' /\ HeldInv' /\ ReaderNeverFails'
<1> DEFINE size == lines[readOffset].rec.size
<1>1. /\ readOffset # writeOffset
      /\ UNCHANGED <<readOffset, writeOffset, lines, writer, placement>>
  BY DEF ReadHeader, writerVars
<1>2. readOffset \in UnreadLines /\ lines[readOffset].header
  BY <1>1, EndsOfUnread DEF SafeInv, WellFormed, ChainInv
<1>3. /\ readOffset \in Nat /\ size \in Nat /\ Size \in Nat
      /\ readOffset + HeaderSize + size <= Size
  BY <1>2, RecordEndsInSegment, SizeAssumption DEF SafeInv, WellFormed
<1>4. VerifyReadHeader(readOffset, size)
  BY <1>3 DEF VerifyReadHeader, HeaderSize
<1>5. reader' = "held" /\ held' = lines[readOffset].rec
  BY <1>2, <1>4 DEF ReadHeader
<1>6. ChainInv'
  BY <1>1, ChainDependsOnUnread DEF SafeInv, WellFormed
<1>7. QED
  BY <1>1, <1>5, <1>6 DEF SafeInv, SampleInv, CopiedInv, HeldInv, ReaderNeverFails,
                          Writing, Copied, FirstRecord, SecondRecord

\* Consuming moves the reader to the end of its record, or back to the start.
LEMMA ConsumeMoves ==
  ASSUME SafeInv, ConsumeHeader, ~DrainsAtEnd
  PROVE  LET end == RecordEnd(readOffset, lines[readOffset].rec.size)
         IN  /\ reader' = "idle"
             /\ end \in Nat /\ readOffset < end
             /\ \/ /\ readOffset < writeOffset /\ end <= writeOffset
                   /\ readOffset' = end
                   /\ end # writeOffset => lines[end].header
                \/ /\ writeOffset < readOffset /\ end < Size
                   /\ readOffset' = end
                   /\ lines[end].header
                \/ /\ writeOffset < readOffset /\ 0 < writeOffset
                   /\ readOffset' = 0 /\ end = Size
                   /\ lines[0].header
<1> DEFINE size == lines[readOffset].rec.size
           end  == RecordEnd(readOffset, size)
<1>1. /\ readOffset \in Nat /\ readOffset < Size
      /\ writeOffset \in Nat /\ writeOffset <= Size /\ Size \in Nat
  BY OffsetsAreNat DEF SafeInv, WellFormed
<1>2. reader = "held" /\ readOffset # writeOffset
  BY DEF ConsumeHeader, SafeInv, HeldInv
<1>3. readOffset \in UnreadLines /\ lines[readOffset].header
  BY <1>2, EndsOfUnread DEF SafeInv, WellFormed, ChainInv
<1>4. /\ size \in Nat /\ end \in Nat /\ readOffset < end /\ end <= Size
      /\ readOffset + HeaderSize + size <= Size
      /\ end <= SegmentEnd(readOffset)
      /\ end < SegmentEnd(readOffset) => lines[end].header
  BY <1>3, RecordEndsInSegment DEF SafeInv, WellFormed, ChainInv
<1>5. VerifyReadHeader(readOffset, size) /\ ~(end > Size)
  BY <1>1, <1>4 DEF VerifyReadHeader, HeaderSize
<1>6. /\ reader' = "idle"
      /\ readOffset' = IF end = Size THEN 0 ELSE end
      /\ writeOffset' = writeOffset
  BY <1>3, <1>5 DEF ConsumeHeader, NextOffset
<1> HIDE DEF size, end
<1>7. CASE readOffset < writeOffset
  <2>1. end <= writeOffset /\ (end # writeOffset => lines[end].header)
    BY <1>1, <1>4, <1>7 DEF SegmentEnd
  <2>2. end # Size
    <3>1. SUFFICES ASSUME end = Size PROVE FALSE
      OBVIOUS
    <3>2. writeOffset = Size /\ readOffset' = 0
      BY <1>1, <1>6, <2>1, <3>1
    <3>3. QED
      BY <3>2 DEF DrainsAtEnd
  <2>3. QED
    BY <1>4, <1>6, <1>7, <2>1, <2>2 DEF end, size
<1>8. CASE writeOffset < readOffset
  <2>1. SegmentEnd(readOffset) = Size
    BY <1>1, <1>8 DEF SegmentEnd
  <2>2. lines[0].header /\ 0 < writeOffset
    BY <1>1, <1>8 DEF SafeInv, ChainInv
  <2>3. QED
    BY <1>1, <1>4, <1>6, <1>8, <2>1, <2>2 DEF end, size
<1>9. QED
  BY <1>1, <1>2, <1>7, <1>8

\* consume_header() moves to the next header, as the ring is not drained at its end.
LEMMA ConsumeHeaderSafe ==
  ASSUME SafeInv, ConsumeHeader, ~DrainsAtEnd
  PROVE  SampleInv' /\ ChainInv' /\ CopiedInv' /\ HeldInv' /\ ReaderNeverFails'
<1> DEFINE end == RecordEnd(readOffset, lines[readOffset].rec.size)
<1>1. /\ readOffset \in Nat /\ readOffset < Size
      /\ writeOffset \in Nat /\ writeOffset <= Size /\ Size \in Nat
  BY OffsetsAreNat DEF SafeInv, WellFormed
<1>2. UNCHANGED <<writeOffset, lines, writer, placement>>
  BY DEF ConsumeHeader, writerVars
<1>3. /\ reader' = "idle"
      /\ end \in Nat /\ readOffset < end
      /\ \/ /\ readOffset < writeOffset /\ end <= writeOffset
            /\ readOffset' = end
            /\ end # writeOffset => lines[end].header
         \/ /\ writeOffset < readOffset /\ end < Size
            /\ readOffset' = end
            /\ lines[end].header
         \/ /\ writeOffset < readOffset /\ 0 < writeOffset
            /\ readOffset' = 0
            /\ lines[0].header
  BY ConsumeMoves
<1> HIDE DEF end
<1>4. writeOffset < readOffset => lines[0].header /\ 0 < writeOffset
  BY <1>1 DEF SafeInv, ChainInv
<1>5. /\ readOffset' # writeOffset => lines[readOffset'].header
      /\ writeOffset < readOffset' => lines[0].header
      /\ writeOffset # 0
  BY <1>1, <1>3, <1>4
<1>6. UnreadLines' \subseteq UnreadLines
  <2>1. ASSUME NEW l \in UnreadLines' PROVE l \in UnreadLines
    <3>1. /\ l \in Lines /\ l \in Nat /\ l < Size
          /\ IF readOffset' <= writeOffset
               THEN readOffset' <= l /\ l < writeOffset
               ELSE readOffset' <= l \/ l < writeOffset
      BY <1>2, <2>1, LinesAreAligned DEF UnreadLines
    <3>2. IF readOffset <= writeOffset
            THEN readOffset <= l /\ l < writeOffset
            ELSE readOffset <= l \/ l < writeOffset
      BY <1>1, <1>3, <3>1
    <3>3. QED
      BY <3>1, <3>2 DEF UnreadLines
  <2>2. QED
    BY <2>1
<1>7. \A l : SegmentEnd(l)' = SegmentEnd(l)
  BY <1>2 DEF SegmentEnd
<1>8. ChainInv'
  BY <1>2, <1>5, <1>6, <1>7 DEF SafeInv, ChainInv
<1>9. SampleInv'
  <2>1. SUFFICES ASSUME Writing PROVE SampleInv'
    BY <1>2 DEF SampleInv, Writing
  <2>2. placement.start \in Nat
    BY <2>1, WriteShapes DEF SafeInv
  <2>3. IF placement.start <= writeOffset
          THEN placement.start <= readOffset /\ readOffset <= writeOffset
          ELSE placement.start <= readOffset \/ readOffset <= writeOffset
    BY <2>1 DEF SafeInv, SampleInv
  <2>4. IF placement.start <= writeOffset
          THEN placement.start <= readOffset' /\ readOffset' <= writeOffset
          ELSE placement.start <= readOffset' \/ readOffset' <= writeOffset
    BY <1>1, <1>3, <2>2, <2>3
  <2>5. QED
    BY <1>2, <2>1, <2>4 DEF SafeInv, SampleInv
<1>10. CopiedInv'
  BY <1>2 DEF SafeInv, CopiedInv, Copied, Writing, FirstRecord, SecondRecord
<1>11. HeldInv' /\ ReaderNeverFails'
  BY <1>3 DEF HeldInv, ReaderNeverFails
<1>12. QED
  BY <1>8, <1>9, <1>10, <1>11

\* Every step of SafeNext keeps the invariant.
LEMMA NextSafe == SafeInv /\ [SafeNext]_vars => SafeInv'
<1> SUFFICES ASSUME SafeInv, [SafeNext]_vars PROVE SafeInv'
  OBVIOUS
<1>1. WellFormed'
  BY NextWellFormed DEF SafeInv, SafeNext
<1>2. SampleInv' /\ ChainInv' /\ CopiedInv' /\ HeldInv' /\ ReaderNeverFails'
  <2>1. CASE \E t \in Thresholds : SetWriteThreshold(t)
    BY <2>1, SetWriteThresholdSafe
  <2>2. CASE \E id \in Ids, size \in Sizes : BeginWrite(id, size)
    BY <2>2, BeginWriteSafe
  <2>3. CASE CopyFirst
    BY <2>3, CopyFirstSafe
  <2>4. CASE CopySecond
    BY <2>4, CopySecondSafe
  <2>5. CASE Publish
    BY <2>5, PublishSafe
  <2>6. CASE ReadHeader
    BY <2>6, ReadHeaderSafe
  <2>7. CASE ConsumeHeader /\ ~DrainsAtEnd
    BY <2>7, ConsumeHeaderSafe
  <2>8. CASE UNCHANGED vars
    <3>1. UNCHANGED <<readOffset, writeOffset, lines, writer, placement, reader, held>>
      BY <2>8 DEF vars
    <3>2. ChainInv'
      BY <3>1, ChainDependsOnUnread DEF SafeInv, WellFormed
    <3>3. SampleInv' /\ CopiedInv'
      BY <3>1 DEF SafeInv, SampleInv, CopiedInv, Copied, Writing, FirstRecord, SecondRecord
    <3>4. HeldInv' /\ ReaderNeverFails'
      BY <3>1 DEF SafeInv, HeldInv, ReaderNeverFails
    <3>5. QED
      BY <3>2, <3>3, <3>4
  <2>9. QED
    BY <2>1, <2>2, <2>3, <2>4, <2>5, <2>6, <2>7, <2>8 DEF SafeNext, Next, Writer, Reader
<1>3. QED
  BY <1>1, <1>2 DEF SafeInv

-----------------------------------------------------------------------------
\* Until the reader drains a ring whose last record ends at its end, the unread
\* lines are a chain of whole records and writer and reader stay out of each
\* other's way.
THEOREM SafeInvariant == SafeSpec => []SafeInv
  BY InitSafe, NextSafe, PTL DEF SafeSpec

\* The read offset that write() sampled at its start may be out of date by any
\* number of records: it still never copies over an unread line.
THEOREM NeverOverwrites == SafeSpec => []NoOverwrite
<1>1. SafeInv => NoOverwrite
  <2> SUFFICES ASSUME SafeInv PROVE NoOverwrite
    OBVIOUS
  <2>1. CASE writer \in {"first", "second"}
    <3>1. LinesToCopy \subseteq FirstLines \cup SecondLines
      BY <2>1 DEF LinesToCopy, FirstLines, SecondLines, SafeInv, CopiedInv
    <3>2. QED
      BY <2>1, <3>1, WriteLinesAreFree DEF NoOverwrite, SafeInv, Writing
  <2>2. CASE writer \notin {"first", "second"}
    BY <2>2 DEF LinesToCopy, NoOverwrite
  <2>3. QED
    BY <2>1, <2>2
<1>2. QED
  BY <1>1, SafeInvariant, PTL

\* The reader always finds a header where it expects one, and the checks of
\* read_header() and consume_header() never throw.
THEOREM ReaderIsSafe == SafeSpec => []ReaderNeverFails
<1>1. SafeInv => ReaderNeverFails
  BY DEF SafeInv
<1>2. QED
  BY <1>1, SafeInvariant, PTL

\* A handler that works on a record in shared memory sees it whole and
\* unchanged until it is consumed.
THEOREM HeldStaysIntact == SafeSpec => []HeldIntact
<1>1. SafeInv => HeldIntact
  <2> SUFFICES ASSUME SafeInv, reader = "held",
                      NEW l \in RecordLines(readOffset, held.size)
               PROVE  lines[l] = Line(held, l = readOffset)
    BY DEF HeldIntact
  <2>1. /\ readOffset # writeOffset /\ held = lines[readOffset].rec
        /\ readOffset \in Lines /\ readOffset \in Nat
    BY OffsetsAreNat DEF SafeInv, HeldInv, WellFormed
  <2>2. readOffset \in UnreadLines /\ lines[readOffset].header
    BY <2>1, EndsOfUnread DEF SafeInv, WellFormed, ChainInv
  <2>3. l \in Lines /\ l \in Nat /\ readOffset <= l /\ l < RecordEnd(readOffset, held.size)
    BY LinesAreAligned DEF RecordLines
  <2>4. CASE l = readOffset
    <3>1. lines[readOffset] \in [rec : [id : Nat, from : Nat, size : Nat], header : BOOLEAN]
      BY <2>1 DEF SafeInv, WellFormed, TypeOK
    <3>2. lines[readOffset] = Line(held, TRUE)
      BY <2>1, <2>2, <3>1 DEF Line
    <3>3. (l = readOffset) = TRUE
      BY <2>4
    <3>4. QED
      BY <2>4, <3>2, <3>3
  <2>5. CASE l # readOffset
    <3>1. readOffset < l
      BY <2>1, <2>3, <2>5
    <3>2. \A m \in Lines :
            readOffset < m /\ m < RecordEnd(readOffset, lines[readOffset].rec.size)
              => lines[m] = Line(lines[readOffset].rec, FALSE)
      BY <2>2 DEF SafeInv, ChainInv
    <3>3. lines[l] = Line(held, FALSE)
      BY <2>1, <2>3, <3>1, <3>2
    <3>4. (l = readOffset) = FALSE
      BY <2>5
    <3>5. QED
      BY <3>3, <3>4
  <2>6. QED
    BY <2>4, <2>5
<1>2. QED
  BY <1>1, SafeInvariant, PTL

-----------------------------------------------------------------------------
(* Finite sets in the order of a distance.                                 *)

\* Those that come before x.
Before(S, distance, x) == {m \in S : distance[m] < distance[x]}

\* No two elements of S are at the same distance.
Distinct(S, distance) ==
  /\ \A l \in S : distance[l] \in Nat
  /\ \A l, m \in S : distance[l] = distance[m] => l = m

\* Counting those before it numbers the elements of a finite set.
LEMMA Ranks ==
  ASSUME NEW S, IsFiniteSet(S), NEW distance, Distinct(S, distance)
  PROVE  /\ Cardinality(S) \in Nat
         /\ \A l \in S : Cardinality(Before(S, distance, l)) \in 0 .. Cardinality(S) - 1
         /\ \A l, m \in S :
              Cardinality(Before(S, distance, l)) = Cardinality(Before(S, distance, m))
                => l = m
         /\ \A i \in 0 .. Cardinality(S) - 1 :
              \E l \in S : Cardinality(Before(S, distance, l)) = i
<1> DEFINE B(l) == Before(S, distance, l)
           rank == [l \in S |-> Cardinality(B(l))]
<1>1. PICK n \in Nat : n = Cardinality(S)
  BY FS_CardinalityType
<1>2. ASSUME NEW l \in S
      PROVE  /\ IsFiniteSet(B(l)) /\ Cardinality(B(l)) \in Nat
             /\ Cardinality(B(l)) < n
  <2>1. B(l) \subseteq S /\ l \notin B(l)
    BY DEF Before, Distinct
  <2>2. IsFiniteSet(B(l)) /\ Cardinality(B(l)) <= n
    BY <1>1, <2>1, FS_Subset
  <2>3. Cardinality(B(l)) # n
    BY <1>1, <2>1, FS_Subset
  <2>4. Cardinality(B(l)) \in Nat
    BY <2>2, FS_CardinalityType
  <2>5. QED
    BY <1>1, <2>2, <2>3, <2>4
<1>3. ASSUME NEW l \in S, NEW m \in S, distance[l] < distance[m]
      PROVE  Cardinality(B(l)) < Cardinality(B(m))
  <2>1. B(l) \subseteq B(m) /\ l \in B(m) /\ l \notin B(l)
    BY <1>3 DEF Before, Distinct
  <2>2. /\ Cardinality(B(l)) <= Cardinality(B(m))
        /\ Cardinality(B(l)) # Cardinality(B(m))
    BY <1>2, <2>1, FS_Subset
  <2>3. QED
    BY <1>2, <2>2
<1>4. ASSUME NEW l \in S, NEW m \in S, Cardinality(B(l)) = Cardinality(B(m))
      PROVE  l = m
  <2>1. ~(distance[l] < distance[m]) /\ ~(distance[m] < distance[l])
    <3>1. Cardinality(B(l)) \in Nat /\ Cardinality(B(m)) \in Nat
      BY <1>2
    <3>2. QED
      BY <1>3, <1>4, <3>1
  <2>2. distance[l] \in Nat /\ distance[m] \in Nat
    BY DEF Distinct
  <2>3. distance[l] = distance[m]
    BY <2>1, <2>2
  <2>4. QED
    BY <2>3 DEF Distinct
<1>5. rank \in Injection(S, 0 .. n - 1)
  <2>1. rank \in [S -> 0 .. n - 1]
    BY <1>1, <1>2
  <2>2. IsInjective(rank)
    BY <1>4 DEF IsInjective
  <2>3. QED
    BY <2>1, <2>2 DEF Injection
<1>6. IsFiniteSet(0 .. n - 1) /\ Cardinality(0 .. n - 1) = n
  <2>1. n - 1 \in Int /\ 0 \in Int
    BY <1>1
  <2>2. /\ IsFiniteSet(0 .. n - 1)
        /\ Cardinality(0 .. n - 1) = IF 0 > n - 1 THEN 0 ELSE n - 1 - 0 + 1
    BY <2>1, FS_Interval
  <2>3. QED
    BY <1>1, <2>2
<1>7. rank \in Surjection(S, 0 .. n - 1)
  BY <1>1, <1>5, <1>6, FS_Injection
<1>8. \A i \in 0 .. n - 1 : \E l \in S : Cardinality(B(l)) = i
  BY <1>7 DEF Surjection
<1>9. QED
  BY <1>1, <1>2, <1>4, <1>8

LEMMA InOrderNumbers ==
  ASSUME NEW S, IsFiniteSet(S), NEW distance, Distinct(S, distance)
  PROVE  /\ \A i \in 1 .. Cardinality(S) :
              /\ InOrder(S, distance)[i] \in S
              /\ Cardinality(Before(S, distance, InOrder(S, distance)[i])) = i - 1
         /\ \A i \in 1 .. Cardinality(S) : \A l \in S :
              Cardinality(Before(S, distance, l)) = i - 1 => InOrder(S, distance)[i] = l
<1> DEFINE B(l) == Before(S, distance, l)
<1>1. PICK n \in Nat : n = Cardinality(S)
  BY FS_CardinalityType
<1>2. ASSUME NEW i \in 1 .. n
      PROVE  InOrder(S, distance)[i] \in S /\ Cardinality(B(InOrder(S, distance)[i])) = i - 1
  <2>1. i - 1 \in 0 .. n - 1
    BY <1>1
  <2>2. \E l \in S : Cardinality(B(l)) = i - 1
    BY <1>1, <2>1, Ranks
  <2>3. InOrder(S, distance)[i] = CHOOSE l \in S : Cardinality(B(l)) = i - 1
    BY <1>1 DEF InOrder, Before
  <2>4. QED
    BY <2>2, <2>3
<1>3. ASSUME NEW i \in 1 .. n, NEW l \in S, Cardinality(B(l)) = i - 1
      PROVE  InOrder(S, distance)[i] = l
  BY <1>2, <1>3, Ranks
<1>4. QED
  BY <1>1, <1>2, <1>3

\* One more behind all others comes last.
LEMMA OneMore ==
  ASSUME NEW S, IsFiniteSet(S), NEW x, x \notin S, NEW distance,
         Distinct(S \cup {x}, distance), \A l \in S : distance[l] < distance[x]
  PROVE  LET T == S \cup {x}
         IN  /\ IsFiniteSet(T) /\ Cardinality(T) = Cardinality(S) + 1
             /\ \A i \in 1 .. Cardinality(S) :
                  InOrder(T, distance)[i] = InOrder(S, distance)[i]
             /\ InOrder(T, distance)[Cardinality(T)] = x
<1> DEFINE T == S \cup {x}
<1>1. PICK n \in Nat : n = Cardinality(S)
  BY FS_CardinalityType
<1>2. IsFiniteSet(T) /\ Cardinality(T) = n + 1
  BY <1>1, FS_AddElement
<1>3. Distinct(S, distance)
  BY DEF Distinct
<1>4. \A l \in S : Before(T, distance, l) = Before(S, distance, l)
  BY DEF Before, Distinct
<1>5. Before(T, distance, x) = S
  BY DEF Before, Distinct
<1>6. ASSUME NEW i \in 1 .. n
      PROVE  InOrder(T, distance)[i] = InOrder(S, distance)[i]
  <2> DEFINE l == InOrder(S, distance)[i]
  <2>1. l \in S /\ Cardinality(Before(S, distance, l)) = i - 1
    BY <1>1, <1>3, InOrderNumbers
  <2> HIDE DEF l
  <2>2. l \in T /\ Cardinality(Before(T, distance, l)) = i - 1 /\ i \in 1 .. n + 1
    BY <1>1, <1>4, <2>1
  <2>3. InOrder(T, distance)[i] = l
    BY <1>2, <2>2, InOrderNumbers
  <2>4. QED
    BY <2>3 DEF l
<1>7. InOrder(T, distance)[n + 1] = x
  <2>1. x \in T /\ Cardinality(Before(T, distance, x)) = (n + 1) - 1 /\ n + 1 \in 1 .. n + 1
    BY <1>1, <1>5
  <2>2. QED
    BY <1>2, <2>1, InOrderNumbers
<1>8. QED
  BY <1>1, <1>2, <1>6, <1>7

\* x comes before all others in S.
FirstIn(S, x, distance) == x \in S /\ \A l \in S \ {x} : distance[x] < distance[l]

\* A later distance leaves the elements of S in their order.
SameOrder(S, distance, later) ==
  \A l, m \in S : distance[l] < distance[m] <=> later[l] < later[m]

\* Without x, which came first, the others come in the order they had.
WithoutFirst(S, x, distance, later) ==
  LET T == S \ {x}
  IN  /\ IsFiniteSet(T) /\ Cardinality(T) = Cardinality(S) - 1
      /\ Cardinality(S) \in Nat \ {0}
      /\ InOrder(S, distance)[1] = x
      /\ \A i \in 1 .. Cardinality(T) : InOrder(T, later)[i] = InOrder(S, distance)[i + 1]

\* Without the first, the others keep their places, if no other distance changes that.
LEMMA OneLess ==
  ASSUME NEW S, IsFiniteSet(S), NEW x, NEW distance, NEW later,
         Distinct(S, distance), Distinct(S \ {x}, later),
         FirstIn(S, x, distance), SameOrder(S \ {x}, distance, later)
  PROVE  WithoutFirst(S, x, distance, later)
<1> DEFINE T == S \ {x}
<1>0. /\ x \in S /\ \A l \in T : distance[x] < distance[l]
      /\ \A l, m \in T : distance[l] < distance[m] <=> later[l] < later[m]
  BY DEF FirstIn, SameOrder
<1>1. PICK n \in Nat : n = Cardinality(S)
  BY FS_CardinalityType
<1>2. IsFiniteSet(T) /\ Cardinality(T) = n - 1
  BY <1>0, <1>1, FS_RemoveElement
<1>3. n # 0
  BY <1>0, <1>1, FS_EmptySet
<1>4. Before(S, distance, x) = {}
  BY <1>0 DEF Before, Distinct
<1>5. InOrder(S, distance)[1] = x
  <2>1. Cardinality(Before(S, distance, x)) = 1 - 1 /\ 1 \in 1 .. n
    BY <1>1, <1>3, <1>4, FS_EmptySet
  <2>2. QED
    BY <1>0, <1>1, <2>1, InOrderNumbers
<1>6. ASSUME NEW l \in T
      PROVE  /\ Before(T, later, l) = Before(S, distance, l) \ {x}
             /\ x \in Before(S, distance, l)
             /\ IsFiniteSet(Before(S, distance, l))
  <2>1. Before(S, distance, l) \subseteq S
    BY DEF Before
  <2>2. IsFiniteSet(Before(S, distance, l))
    BY <2>1, FS_Subset
  <2>3. QED
    BY <1>0, <2>2 DEF Before
<1>7. ASSUME NEW i \in 1 .. n - 1
      PROVE  InOrder(T, later)[i] = InOrder(S, distance)[i + 1]
  <2> DEFINE l == InOrder(S, distance)[i + 1]
  <2>1. i + 1 \in 1 .. n /\ (i + 1) - 1 = i
    BY <1>1
  <2>2. l \in S /\ Cardinality(Before(S, distance, l)) = i
    <3>1. l \in S /\ Cardinality(Before(S, distance, l)) = (i + 1) - 1
      BY <1>1, <2>1, InOrderNumbers
    <3>2. QED
      BY <2>1, <3>1
  <2> HIDE DEF l
  <2>3. l # x
    BY <1>4, <2>2, FS_EmptySet
  <2>4. Cardinality(Before(T, later, l)) = i - 1
    BY <1>6, <2>2, <2>3, FS_RemoveElement
  <2>5. InOrder(T, later)[i] = l
    BY <1>2, <2>2, <2>3, <2>4, InOrderNumbers
  <2>6. QED
    BY <2>5 DEF l
<1>8. QED
  BY <1>1, <1>2, <1>3, <1>5, <1>7 DEF WithoutFirst
-----------------------------------------------------------------------------
(* The queue in the ring.                                                  *)

Records == [id : Nat, from : Nat, size : Nat]

\* A reader comes to one header after the other.
LEMMA HeadersAreDistinct ==
  ASSUME TypeOK
  PROVE  /\ Headers \subseteq Lines /\ IsFiniteSet(Headers)
         /\ Distinct(Lines, Distances) /\ Distinct(Headers, Distances)
         /\ \A l \in Lines : Distances[l] = IF readOffset <= l THEN l - readOffset
                                                           ELSE l - readOffset + Size
<1>1. /\ readOffset \in Nat /\ readOffset < Size /\ Size \in Nat
      /\ \A l \in Lines : l \in Nat /\ l < Size
  BY OffsetsAreNat, LinesAreAligned
<1>2. Headers \subseteq Lines
  BY DEF Headers, UnreadLines
<1>3. IsFiniteSet(Headers)
  <2>1. IsFiniteSet(0 .. Size)
    BY <1>1, FS_Interval
  <2>2. Headers \subseteq 0 .. Size
    BY <1>1, <1>2
  <2>3. QED
    BY <2>1, <2>2, FS_Subset
<1>4. \A l \in Lines : Distances[l] = IF readOffset <= l THEN l - readOffset
                                                    ELSE l - readOffset + Size
  BY DEF Distances, Distance
<1>5. Distinct(Lines, Distances)
  <2>1. \A l \in Lines : Distances[l] \in Nat
    BY <1>1, <1>4
  <2>2. ASSUME NEW l \in Lines, NEW m \in Lines, Distances[l] = Distances[m]
        PROVE  l = m
    <3>1. l \in Nat /\ l < Size /\ m \in Nat /\ m < Size
      BY <1>1
    <3>2. QED
      BY <1>1, <1>4, <2>2, <3>1
  <2>3. QED
    BY <2>1, <2>2 DEF Distinct
<1>6. Distinct(Headers, Distances)
  BY <1>2, <1>5 DEF Distinct
<1>7. QED
  BY <1>2, <1>3, <1>4, <1>5, <1>6

\* The queue is a sequence of records, each in the ring.
LEMMA QueueOfHeaders ==
  ASSUME TypeOK
  PROVE  LET at == InOrder(Headers, Distances)
             n  == Cardinality(Headers)
         IN  /\ n \in Nat
             /\ RecordsInRing \in Seq(Records) /\ Len(RecordsInRing) = n
             /\ \A i \in 1 .. n : at[i] \in Headers /\ RecordsInRing[i] = lines[at[i]].rec
<1> DEFINE at == InOrder(Headers, Distances)
<1>1. PICK n \in Nat : n = Cardinality(Headers)
  BY HeadersAreDistinct, FS_CardinalityType
<1>2. \A i \in 1 .. n : at[i] \in Headers
  BY <1>1, HeadersAreDistinct, InOrderNumbers
<1>3. \A l \in Headers : lines[l].rec \in Records
  BY HeadersAreDistinct DEF TypeOK, Records
<1>4. RecordsInRing = [i \in 1 .. n |-> lines[at[i]].rec]
  BY <1>1 DEF RecordsInRing
<1> HIDE DEF at
<1>5. RecordsInRing \in [1 .. n -> Records]
  BY <1>2, <1>3, <1>4
<1>6. RecordsInRing \in Seq(Records) /\ Len(RecordsInRing) = n
  BY <1>5
<1>7. QED
  BY <1>1, <1>2, <1>4, <1>6 DEF at

\* The queue depends on nothing but the headers on unread lines and their order.
LEMMA SameQueue ==
  ASSUME TypeOK, UNCHANGED <<readOffset, writeOffset>>,
         \A l \in UnreadLines : lines'[l] = lines[l]
  PROVE  Headers' = Headers /\ RecordsInRing' = RecordsInRing
<1>1. UnreadLines' = UnreadLines
  BY DEF UnreadLines
<1>2. Headers' = Headers
  BY <1>1 DEF Headers
<1>3. Distances' = Distances
  BY DEF Distances, Distance
<1> DEFINE at == InOrder(Headers, Distances)
           n  == Cardinality(Headers)
<1>5. \A i \in 1 .. n : at[i] \in Headers
  BY QueueOfHeaders
<1>6. \A l \in Headers : lines'[l] = lines[l]
  BY DEF Headers
<1>7. \A i \in 1 .. n : lines'[at[i]].rec = lines[at[i]].rec
  BY <1>5, <1>6
<1>8. RecordsInRing = [i \in 1 .. n |-> lines[at[i]].rec]
  BY DEF RecordsInRing
<1>9. RecordsInRing' = [i \in 1 .. n |-> lines'[at[i]].rec]
  BY <1>2, <1>3 DEF RecordsInRing
<1>10. QED
  BY <1>2, <1>7, <1>8, <1>9

\* Append as a function.
LEMMA AppendIsFunction ==
  ASSUME NEW R, NEW q \in Seq(R), NEW n \in Nat, Len(q) = n, NEW r \in R
  PROVE  Append(q, r) = [i \in 1 .. n + 1 |-> IF i = n + 1 THEN r ELSE q[i]]
<1> DEFINE f == [i \in 1 .. n + 1 |-> IF i = n + 1 THEN r ELSE q[i]]
<1>1. /\ Append(q, r) \in Seq(R) /\ Len(Append(q, r)) = n + 1
      /\ \A i \in 1 .. n : Append(q, r)[i] = q[i]
      /\ Append(q, r)[n + 1] = r
  OBVIOUS
<1>2. Append(q, r) = [i \in 1 .. n + 1 |-> Append(q, r)[i]]
  <2>1. \A z \in Seq(R) : z = [i \in 1 .. Len(z) |-> z[i]]
    OBVIOUS
  <2>2. QED
    BY <1>1, <2>1
<1>3. \A i \in 1 .. n + 1 : Append(q, r)[i] = f[i]
  <2>1. \A i \in 1 .. n + 1 : i = n + 1 \/ (i # n + 1 /\ i \in 1 .. n)
    OBVIOUS
  <2>2. QED
    BY <1>1, <2>1
<1>4. QED
  BY <1>2, <1>3

\* The queue that a set of headers makes.
QueueOf(S) == [i \in 1 .. Cardinality(S) |-> lines[InOrder(S, Distances)[i]].rec]

\* A header behind all others adds its record at the end.
LEMMA QueueGrows ==
  ASSUME TypeOK, NEW S \in SUBSET Lines, IsFiniteSet(S), NEW x \in Lines,
         \A l \in S : Distances[l] < Distances[x]
  PROVE  /\ QueueOf(S) \in Seq(Records)
         /\ QueueOf(S \cup {x}) = Append(QueueOf(S), lines[x].rec)
         /\ IsFiniteSet(S \cup {x})
<1> DEFINE T == S \cup {x}
           s == InOrder(S, Distances)
           t == InOrder(T, Distances)
<1>1. PICK n \in Nat : n = Cardinality(S)
  BY FS_CardinalityType
<1>2. Distinct(S, Distances) /\ Distinct(T, Distances)
  BY HeadersAreDistinct DEF Distinct
<1>3. x \notin S
  BY <1>2 DEF Distinct
<1>4. /\ IsFiniteSet(T) /\ Cardinality(T) = n + 1
      /\ \A i \in 1 .. n : t[i] = s[i]
      /\ t[n + 1] = x
  <2>1. Distinct(S \cup {x}, Distances) /\ \A l \in S : Distances[l] < Distances[x]
    BY <1>2
  <2>2. /\ IsFiniteSet(S \cup {x}) /\ Cardinality(S \cup {x}) = Cardinality(S) + 1
        /\ \A i \in 1 .. Cardinality(S) :
             InOrder(S \cup {x}, Distances)[i] = InOrder(S, Distances)[i]
        /\ InOrder(S \cup {x}, Distances)[Cardinality(S \cup {x})] = x
    BY <1>3, <2>1, OneMore, Zenon
  <2>3. QED
    BY <1>1, <2>2
<1>5. \A i \in 1 .. n : s[i] \in S
  BY <1>1, <1>2, InOrderNumbers
<1>6. \A l \in Lines : lines[l].rec \in Records
  BY DEF TypeOK, Records
<1> DEFINE q == QueueOf(S)
<1>7. q = [i \in 1 .. n |-> lines[s[i]].rec]
  BY <1>1 DEF QueueOf
<1>8. QueueOf(T) = [i \in 1 .. n + 1 |-> lines[t[i]].rec]
  BY <1>4 DEF QueueOf
<1> HIDE DEF s, t
<1>9. q \in [1 .. n -> Records]
  BY <1>5, <1>6, <1>7
<1>10. q \in Seq(Records) /\ Len(q) = n
  BY <1>9
<1>11. \A i \in 1 .. n + 1 : lines[t[i]].rec = IF i = n + 1 THEN lines[x].rec ELSE q[i]
  <2>1. \A i \in 1 .. n : lines[t[i]].rec = q[i]
    BY <1>4, <1>7
  <2>2. \A i \in 1 .. n + 1 : i = n + 1 \/ (i # n + 1 /\ i \in 1 .. n)
    OBVIOUS
  <2>3. QED
    BY <1>4, <2>1, <2>2
<1>12. Append(q, lines[x].rec) = [i \in 1 .. n + 1 |-> IF i = n + 1 THEN lines[x].rec ELSE q[i]]
  BY <1>1, <1>6, <1>10, AppendIsFunction
<1>13. QED
  BY <1>4, <1>8, <1>10, <1>11, <1>12

\* Publishing puts one or two headers behind all others.
LEMMA PublishedHeaders ==
  ASSUME SafeInv, Publish
  PROVE  LET first  == IF placement.firstSize > 0 THEN {placement.firstAt} ELSE {}
             second == IF placement.secondSize > 0 THEN {placement.secondAt} ELSE {}
         IN  /\ Headers' = (Headers \cup first) \cup second
             /\ Distances' = Distances /\ lines' = lines
             /\ \A x \in first :
                  /\ x \in Lines /\ lines[x].rec = FirstRecord
                  /\ \A l \in Headers : Distances[l] < Distances[x]
             /\ \A x \in second :
                  /\ x \in Lines /\ lines[x].rec = SecondRecord
                  /\ \A l \in Headers \cup first : Distances[l] < Distances[x]
<1> DEFINE s == placement.start
           n == placement.newOffset
           f == placement.firstAt
           g == placement.secondAt
           first  == IF placement.firstSize > 0 THEN {f} ELSE {}
           second == IF placement.secondSize > 0 THEN {g} ELSE {}
<1>1. /\ Writing /\ writer = "publish" /\ writeOffset' = n
      /\ readOffset' = readOffset /\ lines' = lines
  BY DEF Publish, Writing
<1>2. /\ s \in Nat /\ n \in Nat
      /\ readOffset \in Nat /\ readOffset < Size
      /\ writeOffset \in Nat /\ writeOffset <= Size /\ Size \in Nat
  BY <1>1, OffsetsAreNat, WriteShapes DEF SafeInv, WellFormed
<1>3. \/ TailWrite(s, n) \/ SplitWrite(s, n)
      \/ WrappedWrite(s, n) \/ GapWrite(s, n)
  BY <1>1, WriteShapes DEF SafeInv
<1>4. s < Size /\ s \in Lines
  BY <1>1, LinesAreAligned DEF SafeInv, WellFormed, PlacementInv
<1>5. f \in Lines /\ f \in Nat /\ f < Size /\ g \in Lines /\ g \in Nat /\ g < Size
  BY <1>1, LinesAreAligned DEF SafeInv, WellFormed, PlacementInv, WellPlaced
<1> HIDE DEF s, n
<1>6. \A l \in Lines : l \in Nat /\ l < Size
  BY LinesAreAligned
<1>7. TypeOK
  BY DEF SafeInv, WellFormed
<1>8. \A l \in Lines : Distances[l] = IF readOffset <= l THEN l - readOffset
                                                    ELSE l - readOffset + Size
  BY <1>7, HeadersAreDistinct
<1>9. /\ UnreadLines = IF readOffset <= writeOffset
                         THEN {l \in Lines : readOffset <= l /\ l < writeOffset}
                         ELSE {l \in Lines : readOffset <= l \/ l < writeOffset}
      /\ UnreadLines' = IF readOffset <= n
                          THEN {l \in Lines : readOffset <= l /\ l < n}
                          ELSE {l \in Lines : readOffset <= l \/ l < n}
  BY <1>1 DEF UnreadLines
<1>10. UnreadLines \subseteq UnreadLines'
  <2> SUFFICES ASSUME NEW l \in UnreadLines PROVE l \in UnreadLines'
    OBVIOUS
  <2>1. /\ l \in Lines /\ l \in Nat /\ l < Size
        /\ IF readOffset <= writeOffset THEN readOffset <= l /\ l < writeOffset
                                        ELSE readOffset <= l \/ l < writeOffset
    BY <1>6, <1>9
  <2>2. IF readOffset <= n THEN readOffset <= l /\ l < n ELSE readOffset <= l \/ l < n
    BY <1>2, <1>3, <1>4, <2>1 DEF TailWrite, SplitWrite, WrappedWrite, GapWrite
  <2>3. QED
    BY <1>9, <2>1, <2>2
<1>11. first \subseteq UnreadLines' /\ second \subseteq UnreadLines'
  <2>1. placement.firstSize > 0 =>
          IF readOffset <= n THEN readOffset <= f /\ f < n ELSE readOffset <= f \/ f < n
    BY <1>2, <1>3, <1>4 DEF TailWrite, SplitWrite, WrappedWrite, GapWrite
  <2>2. placement.secondSize > 0 =>
          IF readOffset <= n THEN readOffset <= g /\ g < n ELSE readOffset <= g \/ g < n
    BY <1>2, <1>3, <1>4 DEF TailWrite, SplitWrite, WrappedWrite, GapWrite
  <2>3. QED
    BY <1>5, <1>9, <2>1, <2>2
<1>12. /\ \A x \in first : lines[x].header /\ lines[x].rec = FirstRecord
       /\ \A x \in second : lines[x].header /\ lines[x].rec = SecondRecord
  <2>1. placement.firstSize > 0 => lines[f] = Line(FirstRecord, TRUE)
    BY <1>1, PublishedRecords
  <2>2. placement.secondSize > 0 => lines[g] = Line(SecondRecord, TRUE)
    BY <1>1, PublishedRecords
  <2>3. QED
    BY <2>1, <2>2 DEF Line
<1>13. ASSUME NEW l \in Headers' PROVE l \in (Headers \cup first) \cup second
  <2>1. l \in UnreadLines' /\ lines[l].header
    BY <1>1 DEF Headers
  <2>2. l \in UnreadLines \cup FirstLines \cup SecondLines
    BY <2>1, PublishedLines
  <2>3. CASE l \in UnreadLines
    BY <2>1, <2>3 DEF Headers
  <2>4. CASE l \in FirstLines
    <3>1. /\ placement.firstSize > 0
          /\ lines[l] = IF l = f THEN Line(FirstRecord, TRUE) ELSE Line(FirstRecord, FALSE)
      BY <1>1, <2>4, PublishedRecords
    <3>2. l = f
      BY <2>1, <3>1 DEF Line
    <3>3. QED
      BY <3>1, <3>2
  <2>5. CASE l \in SecondLines
    <3>1. /\ placement.secondSize > 0
          /\ lines[l] = IF l = g THEN Line(SecondRecord, TRUE) ELSE Line(SecondRecord, FALSE)
      BY <1>1, <2>5, PublishedRecords
    <3>2. l = g
      BY <2>1, <3>1 DEF Line
    <3>3. QED
      BY <3>1, <3>2
  <2>6. QED
    BY <2>2, <2>3, <2>4, <2>5
<1>14. ASSUME NEW l \in (Headers \cup first) \cup second PROVE l \in Headers'
  <2>1. l \in UnreadLines'
    BY <1>10, <1>11 DEF Headers
  <2>2. lines[l].header
    BY <1>12 DEF Headers
  <2>3. QED
    BY <1>1, <2>1, <2>2 DEF Headers
<1>15. Headers' = (Headers \cup first) \cup second
  BY <1>13, <1>14
<1>16. Distances' = Distances
  BY <1>1 DEF Distances, Distance
<1>17. ASSUME NEW l \in UnreadLines
       PROVE  /\ placement.firstSize > 0 => Distances[l] < Distances[f]
              /\ placement.secondSize > 0 => Distances[l] < Distances[g]
  <2>1. /\ l \in Lines /\ l \in Nat /\ l < Size
        /\ IF readOffset <= writeOffset THEN readOffset <= l /\ l < writeOffset
                                        ELSE readOffset <= l \/ l < writeOffset
    BY <1>6, <1>9
  <2>2. Distances[l] = IF readOffset <= l THEN l - readOffset ELSE l - readOffset + Size
    BY <1>8, <2>1
  <2>3. Distances[f] = IF readOffset <= f THEN f - readOffset ELSE f - readOffset + Size
    BY <1>5, <1>8
  <2>4. Distances[g] = IF readOffset <= g THEN g - readOffset ELSE g - readOffset + Size
    BY <1>5, <1>8
  <2>5. placement.firstSize > 0 => Distances[l] < Distances[f]
    BY <1>2, <1>3, <1>4, <2>1, <2>2, <2>3 DEF TailWrite, SplitWrite, WrappedWrite, GapWrite
  <2>6. placement.secondSize > 0 => Distances[l] < Distances[g]
    BY <1>2, <1>3, <1>4, <2>1, <2>2, <2>4 DEF TailWrite, SplitWrite, WrappedWrite, GapWrite
  <2>7. QED
    BY <2>5, <2>6
<1>18. placement.firstSize > 0 /\ placement.secondSize > 0 => Distances[f] < Distances[g]
  <2>1. Distances[f] = IF readOffset <= f THEN f - readOffset ELSE f - readOffset + Size
    BY <1>5, <1>8
  <2>2. Distances[g] = IF readOffset <= g THEN g - readOffset ELSE g - readOffset + Size
    BY <1>5, <1>8
  <2>3. QED
    BY <1>2, <1>3, <1>4, <2>1, <2>2 DEF TailWrite, SplitWrite, WrappedWrite, GapWrite
<1>19. \A l \in Headers : l \in UnreadLines
  BY DEF Headers
<1>20. /\ \A x \in first : \A l \in Headers : Distances[l] < Distances[x]
       /\ \A x \in second : \A l \in Headers \cup first : Distances[l] < Distances[x]
  BY <1>17, <1>18, <1>19
<1>21. QED
  BY <1>1, <1>5, <1>12, <1>15, <1>16, <1>20
\* What one or two records behind a queue leave in front of them.
LEMMA AddedRecords ==
  ASSUME NEW R, NEW q \in Seq(R), NEW r1 \in R, NEW r2 \in R
  PROVE  LET q1 == Append(q, r1)
             q2 == Append(Append(q, r1), r2)
         IN  /\ q1 \in Seq(R) /\ Len(q1) > Len(q) /\ SubSeq(q1, 1, Len(q)) = q
             /\ SubSeq(q1, Len(q) + 1, Len(q1)) = <<r1>>
             /\ q2 \in Seq(R) /\ Len(q2) > Len(q) /\ SubSeq(q2, 1, Len(q)) = q
             /\ SubSeq(q2, Len(q) + 1, Len(q2)) = <<r1, r2>>
<1> DEFINE q1 == Append(q, r1)
           q2 == Append(q1, r2)
<1>1. PICK n \in Nat : n = Len(q)
  OBVIOUS
<1>2. /\ q1 \in Seq(R) /\ Len(q1) = n + 1 /\ q1[n + 1] = r1
      /\ \A i \in 1 .. n : q1[i] = q[i]
  BY <1>1
<1> HIDE DEF q1
<1>3. /\ q2 \in Seq(R) /\ Len(q2) = n + 2 /\ q2[n + 2] = r2 /\ q2[n + 1] = r1
      /\ \A i \in 1 .. n : q2[i] = q[i]
  BY <1>1, <1>2
<1> HIDE DEF q2
<1>4. ASSUME NEW z \in Seq(R), NEW m \in Nat, NEW k \in Nat, k >= 1, Len(z) >= m
      PROVE  /\ SubSeq(z, k, m) \in Seq(R)
             /\ Len(SubSeq(z, k, m)) = IF k <= m THEN m - k + 1 ELSE 0
             /\ \A i \in 1 .. m - k + 1 : SubSeq(z, k, m)[i] = z[k + i - 1]
  <2>1. \A i \in k .. m : z[i] \in R
    BY <1>4
  <2>2. QED
    BY <1>4, <2>1, SubSeqProperties
<1>5. ASSUME NEW z \in Seq(R), Len(z) >= n, \A i \in 1 .. n : z[i] = q[i]
      PROVE  SubSeq(z, 1, n) = q
  <2> DEFINE u == SubSeq(z, 1, n)
  <2>1. /\ u \in Seq(R) /\ Len(u) = IF 1 <= n THEN n - 1 + 1 ELSE 0
        /\ \A i \in 1 .. n - 1 + 1 : u[i] = z[1 + i - 1]
    BY <1>4, <1>5
  <2> HIDE DEF u
  <2>2. Len(u) = Len(q) /\ \A i \in 1 .. Len(u) : u[i] = q[i]
    BY <1>1, <1>5, <2>1
  <2>3. u = q
    BY <2>1, <2>2, SeqEqual
  <2>4. QED
    BY <2>3 DEF u
<1>6. SubSeq(q1, n + 1, n + 1) = <<r1>> /\ SubSeq(q2, n + 1, n + 2) = <<r1, r2>>
  <2> DEFINE u == SubSeq(q1, n + 1, n + 1)
             v == SubSeq(q2, n + 1, n + 2)
  <2>1. /\ u \in Seq(R) /\ Len(u) = IF n + 1 <= n + 1 THEN (n + 1) - (n + 1) + 1 ELSE 0
        /\ \A i \in 1 .. (n + 1) - (n + 1) + 1 : u[i] = q1[(n + 1) + i - 1]
    BY <1>2, <1>4
  <2>2. /\ v \in Seq(R) /\ Len(v) = IF n + 1 <= n + 2 THEN (n + 2) - (n + 1) + 1 ELSE 0
        /\ \A i \in 1 .. (n + 2) - (n + 1) + 1 : v[i] = q2[(n + 1) + i - 1]
    BY <1>3, <1>4
  <2> HIDE DEF u, v
  <2>3. Len(u) = 1 /\ u[1] = r1
    <3>1. Len(u) = 1 /\ 1 \in 1 .. (n + 1) - (n + 1) + 1 /\ (n + 1) + 1 - 1 = n + 1
      BY <2>1
    <3>2. QED
      BY <1>2, <2>1, <3>1
  <2>4. Len(v) = 2 /\ v[1] = r1 /\ v[2] = r2
    <3>1. /\ Len(v) = 2
          /\ 1 \in 1 .. (n + 2) - (n + 1) + 1 /\ (n + 1) + 1 - 1 = n + 1
          /\ 2 \in 1 .. (n + 2) - (n + 1) + 1 /\ (n + 1) + 2 - 1 = n + 2
      BY <2>2
    <3>2. QED
      BY <1>3, <2>2, <3>1
  <2>5. /\ <<r1>> \in Seq(R) /\ Len(<<r1>>) = 1 /\ <<r1>>[1] = r1
        /\ <<r1, r2>> \in Seq(R) /\ Len(<<r1, r2>>) = 2
        /\ <<r1, r2>>[1] = r1 /\ <<r1, r2>>[2] = r2
    OBVIOUS
  <2>6. u = <<r1>>
    <3>1. \A i \in 1 .. 1 : i = 1
      OBVIOUS
    <3>2. QED
      BY <2>1, <2>3, <2>5, <3>1, SeqEqual
  <2>7. v = <<r1, r2>>
    <3>1. \A i \in 1 .. 2 : i = 1 \/ i = 2
      OBVIOUS
    <3>2. Len(v) = Len(<<r1, r2>>) /\ \A i \in 1 .. Len(v) : v[i] = <<r1, r2>>[i]
      BY <2>4, <2>5, <3>1
    <3>3. QED
      BY <2>2, <2>5, <3>2, SeqEqual
  <2>8. QED
    BY <2>6, <2>7 DEF u, v
<1>7. SubSeq(q1, 1, n) = q /\ SubSeq(q2, 1, n) = q
  BY <1>2, <1>3, <1>5
<1>8. /\ Len(q1) > n /\ SubSeq(q1, n + 1, Len(q1)) = <<r1>>
      /\ Len(q2) > n /\ SubSeq(q2, n + 1, Len(q2)) = <<r1, r2>>
  BY <1>2, <1>3, <1>6
<1>9. QED
  BY <1>1, <1>2, <1>3, <1>7, <1>8 DEF q1, q2

\* The queue in the ring is the one its headers make.
LEMMA QueueInRing ==
  /\ RecordsInRing = QueueOf(Headers)
  /\ lines' = lines /\ Distances' = Distances => RecordsInRing' = QueueOf(Headers')
<1>1. RecordsInRing = QueueOf(Headers)
  BY DEF RecordsInRing, QueueOf
<1>2. ASSUME lines' = lines, Distances' = Distances
      PROVE  RecordsInRing' = QueueOf(Headers')
  BY <1>2 DEF RecordsInRing, QueueOf
<1>3. QED
  BY <1>1, <1>2

\* Publishing appends the accepted bytes, as one record or as two.
LEMMA PublishAccepts ==
  ASSUME FifoInv, Publish
  PROVE  Fifo!Accept
<1> DEFINE a == placement.firstSize
           b == placement.secondSize
           id == placement.id
           size == placement.size
           q == RecordsInRing
           first  == IF a > 0 THEN {placement.firstAt} ELSE {}
           second == IF b > 0 THEN {placement.secondAt} ELSE {}
<1>1. SafeInv /\ TypeOK /\ Writing /\ id \in Ids /\ size \in Sizes
  BY DEF FifoInv, SafeInv, WellFormed, RequestInv, Publish, Writing
<1>2. /\ a \in Nat /\ b \in Nat /\ a + b \in 1 .. size /\ size \in Nat
  BY <1>1, SizesAssumption DEF SafeInv, WellFormed, PlacementInv, WellPlaced, Accepted
<1>3. id \in Nat /\ FirstRecord \in Records /\ SecondRecord \in Records
  BY <1>1, <1>2 DEF TypeOK, FirstRecord, SecondRecord, Record, Records
<1>4. /\ Headers' = (Headers \cup first) \cup second
      /\ Distances' = Distances /\ lines' = lines
      /\ \A x \in first :
           /\ x \in Lines /\ lines[x].rec = FirstRecord
           /\ \A l \in Headers : Distances[l] < Distances[x]
      /\ \A x \in second :
           /\ x \in Lines /\ lines[x].rec = SecondRecord
           /\ \A l \in Headers \cup first : Distances[l] < Distances[x]
  BY <1>1, PublishedHeaders
<1>5. q = QueueOf(Headers) /\ RecordsInRing' = QueueOf((Headers \cup first) \cup second)
  BY <1>4, QueueInRing
<1>6. q \in Seq(Records) /\ Headers \in SUBSET Lines /\ IsFiniteSet(Headers)
  BY <1>1, QueueOfHeaders, HeadersAreDistinct
<1>7. a > 0 => /\ QueueOf(Headers \cup first) = Append(q, FirstRecord)
               /\ IsFiniteSet(Headers \cup first) /\ Headers \cup first \in SUBSET Lines
  <2> SUFFICES ASSUME a > 0
               PROVE  /\ QueueOf(Headers \cup first) = Append(q, FirstRecord)
                      /\ IsFiniteSet(Headers \cup first) /\ Headers \cup first \in SUBSET Lines
    OBVIOUS
  <2> DEFINE x == placement.firstAt
  <2>1. first = {x} /\ x \in Lines /\ lines[x].rec = FirstRecord
        /\ \A l \in Headers : Distances[l] < Distances[x]
    BY <1>4
  <2> HIDE DEF x
  <2>2. QED
    BY <1>1, <1>5, <1>6, <2>1, QueueGrows
<1>8. ASSUME b > 0, NEW S \in SUBSET Lines, IsFiniteSet(S), S = Headers \cup first
      PROVE  QueueOf(S \cup second) = Append(QueueOf(S), SecondRecord)
  <2> DEFINE x == placement.secondAt
  <2>1. second = {x} /\ x \in Lines /\ lines[x].rec = SecondRecord
        /\ \A l \in S : Distances[l] < Distances[x]
    BY <1>4, <1>8
  <2> HIDE DEF x
  <2>2. QED
    BY <1>1, <1>8, <2>1, QueueGrows
<1>9. UNCHANGED held
  BY DEF Publish, readerVars
<1> HIDE DEF first, second, q
<1>10. CASE a > 0 /\ b = 0
  <2>0. second = {} /\ (Headers \cup first) \cup second = Headers \cup first
    BY <1>10 DEF second
  <2>1. RecordsInRing' = Append(q, FirstRecord)
    BY <1>5, <1>7, <1>10, <2>0
  <2>2. /\ Len(RecordsInRing') > Len(q) /\ SubSeq(RecordsInRing', 1, Len(q)) = q
        /\ SubSeq(RecordsInRing', Len(q) + 1, Len(RecordsInRing')) = <<FirstRecord>>
    BY <1>3, <1>6, <2>1, AddedRecords
  <2>3. Fifo!CarriesPrefix(<<FirstRecord>>, id, size)
    BY <1>2, <1>10 DEF Fifo!CarriesPrefix, Fifo!FifoRecord, FirstRecord, Record
  <2>4. QED
    BY <1>1, <1>9, <2>2, <2>3 DEF Fifo!Accept, q
<1>11. CASE a = 0 /\ b > 0
  <2>1. first = {} /\ RecordsInRing' = Append(q, SecondRecord)
    BY <1>2, <1>5, <1>6, <1>8, <1>11 DEF first
  <2>2. /\ Len(RecordsInRing') > Len(q) /\ SubSeq(RecordsInRing', 1, Len(q)) = q
        /\ SubSeq(RecordsInRing', Len(q) + 1, Len(RecordsInRing')) = <<SecondRecord>>
    BY <1>3, <1>6, <2>1, AddedRecords
  <2>3. Fifo!CarriesPrefix(<<SecondRecord>>, id, size)
    BY <1>2, <1>11 DEF Fifo!CarriesPrefix, Fifo!FifoRecord, SecondRecord, Record
  <2>4. QED
    BY <1>1, <1>9, <2>2, <2>3 DEF Fifo!Accept, q
<1>12. CASE a > 0 /\ b > 0
  <2>1. RecordsInRing' = Append(Append(q, FirstRecord), SecondRecord)
    BY <1>5, <1>7, <1>8, <1>12
  <2>2. /\ Len(RecordsInRing') > Len(q) /\ SubSeq(RecordsInRing', 1, Len(q)) = q
        /\ SubSeq(RecordsInRing', Len(q) + 1, Len(RecordsInRing')) = <<FirstRecord, SecondRecord>>
    BY <1>3, <1>6, <2>1, AddedRecords
  <2>3. Fifo!CarriesPrefix(<<FirstRecord, SecondRecord>>, id, size)
    BY <1>2, <1>12 DEF Fifo!CarriesPrefix, Fifo!FifoRecord, FirstRecord, SecondRecord, Record
  <2>4. QED
    BY <1>1, <1>9, <2>2, <2>3 DEF Fifo!Accept, q
<1>13. QED
  BY <1>2, <1>10, <1>11, <1>12
\* Tail as a function.
LEMMA TailIsFunction ==
  ASSUME NEW R, NEW q \in Seq(R), NEW n \in Nat \ {0}, Len(q) = n
  PROVE  q # <<>> /\ Head(q) = q[1] /\ Tail(q) = [i \in 1 .. n - 1 |-> q[i + 1]]
<1>1. q # <<>> /\ Head(q) = q[1]
  OBVIOUS
<1>2. /\ Tail(q) \in Seq(R) /\ Len(Tail(q)) = n - 1
      /\ \A i \in 1 .. n - 1 : Tail(q)[i] = q[i + 1]
  BY <1>1, HeadTailProperties
<1>3. Tail(q) = [i \in 1 .. n - 1 |-> Tail(q)[i]]
  <2>1. \A z \in Seq(R) : z = [i \in 1 .. Len(z) |-> z[i]]
    OBVIOUS
  <2>2. QED
    BY <1>2, <2>1
<1>4. QED
  BY <1>1, <1>2, <1>3

\* The header at the read offset is the first of them.
LEMMA FirstHeader ==
  ASSUME TypeOK, ChainInv, readOffset # writeOffset
  PROVE  /\ readOffset \in Headers
         /\ \A l \in Headers \ {readOffset} : Distances[readOffset] < Distances[l]
         /\ RecordsInRing # <<>> /\ Head(RecordsInRing) = lines[readOffset].rec
<1> DEFINE x == readOffset
           n == Cardinality(Headers)
<1>1. x \in Headers
  BY EndsOfUnread DEF Headers, ChainInv
<1>2. /\ Headers \subseteq Lines /\ IsFiniteSet(Headers) /\ Distinct(Headers, Distances)
      /\ \A l \in Lines : Distances[l] = IF x <= l THEN l - x ELSE l - x + Size
  BY HeadersAreDistinct
<1>3. \A l \in Headers \ {x} : Distances[x] < Distances[l]
  <2> SUFFICES ASSUME NEW l \in Headers \ {x} PROVE Distances[x] < Distances[l]
    OBVIOUS
  <2>1. /\ l \in Nat /\ l < Size /\ l # x /\ l \in Lines
        /\ x \in Nat /\ x < Size /\ x \in Lines /\ Size \in Nat
    BY <1>1, <1>2, LinesAreAligned, OffsetsAreNat
  <2>2. /\ Distances[x] = IF x <= x THEN x - x ELSE x - x + Size
        /\ Distances[l] = IF x <= l THEN l - x ELSE l - x + Size
    BY <1>2, <2>1
  <2>3. QED
    BY <2>1, <2>2
<1>4. InOrder(Headers, Distances)[1] = x /\ n \in Nat \ {0}
  <2>1. Distinct(Headers \ {x}, Distances)
    BY <1>2 DEF Distinct
  <2>2. FirstIn(Headers, x, Distances) /\ SameOrder(Headers \ {x}, Distances, Distances)
    BY <1>1, <1>3 DEF FirstIn, SameOrder
  <2>3. WithoutFirst(Headers, x, Distances, Distances)
    BY <1>2, <2>1, <2>2, OneLess
  <2>4. QED
    BY <2>3 DEF WithoutFirst
<1>5. /\ RecordsInRing \in Seq(Records) /\ Len(RecordsInRing) = n
      /\ RecordsInRing[1] = lines[x].rec
  BY <1>4, QueueOfHeaders
<1>6. RecordsInRing # <<>> /\ Head(RecordsInRing) = RecordsInRing[1]
  BY <1>4, <1>5, TailIsFunction
<1>7. QED
  BY <1>1, <1>3, <1>5, <1>6

\* Consuming takes the first header away, and brings all others nearer alike.
LEMMA ConsumedHeaders ==
  ASSUME SafeInv, ConsumeHeader, ~DrainsAtEnd
  PROVE  /\ Headers' = Headers \ {readOffset} /\ lines' = lines
         /\ \E k \in Nat : \A l \in Headers' :
              Distances'[l] \in Nat /\ Distances[l] = Distances'[l] + k
<1> DEFINE rec == lines[readOffset].rec
           end == RecordEnd(readOffset, rec.size)
<1>1. /\ readOffset \in Nat /\ readOffset < Size /\ readOffset \in Lines
      /\ writeOffset \in Nat /\ writeOffset <= Size /\ Size \in Nat
  BY OffsetsAreNat DEF SafeInv, WellFormed
<1>2. writeOffset' = writeOffset /\ lines' = lines
  BY DEF ConsumeHeader
<1>3. readOffset \in UnreadLines /\ lines[readOffset].header
  BY EndsOfUnread DEF SafeInv, WellFormed, ChainInv, ConsumeHeader, HeldInv
<1>4. \A m \in Lines : readOffset < m /\ m < end => lines[m] = Line(rec, FALSE)
  BY <1>3 DEF SafeInv, ChainInv
<1>5. /\ end \in Nat /\ readOffset < end
      /\ \/ readOffset < writeOffset /\ end <= writeOffset /\ readOffset' = end
         \/ writeOffset < readOffset /\ end < Size /\ readOffset' = end
         \/ writeOffset < readOffset /\ readOffset' = 0 /\ end = Size
  BY ConsumeMoves
<1> HIDE DEF rec, end
<1>6. \A l \in Lines : l \in Nat /\ l < Size
  BY LinesAreAligned
<1>7. /\ UnreadLines = IF readOffset <= writeOffset
                         THEN {l \in Lines : readOffset <= l /\ l < writeOffset}
                         ELSE {l \in Lines : readOffset <= l \/ l < writeOffset}
      /\ UnreadLines' = IF readOffset' <= writeOffset
                          THEN {l \in Lines : readOffset' <= l /\ l < writeOffset}
                          ELSE {l \in Lines : readOffset' <= l \/ l < writeOffset}
  BY <1>2 DEF UnreadLines
<1>8. ASSUME NEW l \in UnreadLines'
      PROVE  /\ l \in UnreadLines /\ l # readOffset
             /\ Distances'[l] \in Nat
             /\ Distances[l] = Distances'[l] + (end - readOffset)
  <2>1. /\ l \in Lines /\ l \in Nat /\ l < Size
        /\ IF readOffset' <= writeOffset THEN readOffset' <= l /\ l < writeOffset
                                         ELSE readOffset' <= l \/ l < writeOffset
    BY <1>6, <1>7, <1>8
  <2>2. /\ IF readOffset <= writeOffset THEN readOffset <= l /\ l < writeOffset
                                        ELSE readOffset <= l \/ l < writeOffset
        /\ l # readOffset
    BY <1>1, <1>5, <2>1
  <2>3. /\ Distances[l] = IF readOffset <= l THEN l - readOffset ELSE l - readOffset + Size
        /\ Distances'[l] = IF readOffset' <= l THEN l - readOffset' ELSE l - readOffset' + Size
    BY <2>1 DEF Distances, Distance
  <2>4. Distances'[l] \in Nat /\ Distances[l] = Distances'[l] + (end - readOffset)
    BY <1>1, <1>5, <2>1, <2>2, <2>3
  <2>5. QED
    BY <1>7, <2>1, <2>2, <2>4
<1>9. ASSUME NEW l \in Headers, l # readOffset
      PROVE  l \in UnreadLines'
  <2>1. /\ l \in Lines /\ l \in Nat /\ l < Size
        /\ IF readOffset <= writeOffset THEN readOffset <= l /\ l < writeOffset
                                        ELSE readOffset <= l \/ l < writeOffset
        /\ lines[l].header
    BY <1>6, <1>7, <1>9 DEF Headers
  <2>2. ~(readOffset < l /\ l < end)
    BY <1>4, <2>1 DEF Line
  <2>3. IF readOffset' <= writeOffset THEN readOffset' <= l /\ l < writeOffset
                                      ELSE readOffset' <= l \/ l < writeOffset
    BY <1>1, <1>5, <1>9, <2>1, <2>2
  <2>4. QED
    BY <1>7, <2>1, <2>3
<1>10. Headers' = Headers \ {readOffset}
  <2>1. \A l : l \in Headers' <=> l \in UnreadLines' /\ lines[l].header
    BY <1>2 DEF Headers
  <2>2. \A l : l \in Headers <=> l \in UnreadLines /\ lines[l].header
    BY DEF Headers
  <2>3. QED
    BY <1>8, <1>9, <2>1, <2>2
<1>11. \A l \in Headers' : l \in UnreadLines'
  BY DEF Headers
<1>12. end - readOffset \in Nat
  BY <1>1, <1>5
<1>13. QED
  BY <1>2, <1>8, <1>10, <1>11, <1>12
\* Consuming frees the oldest record, which is the one the reader was given.
LEMMA ConsumeReleases ==
  ASSUME FifoInv, ConsumeHeader, ~DrainsAtEnd
  PROVE  Fifo!Release
<1> DEFINE x == readOffset
           n == Cardinality(Headers)
           q == RecordsInRing
           T == Headers \ {x}
<1>1. SafeInv /\ TypeOK /\ ChainInv /\ x # writeOffset /\ held = lines[x].rec
  BY DEF FifoInv, SafeInv, WellFormed, HeldInv, ConsumeHeader
<1>2. /\ x \in Headers /\ q # <<>> /\ Head(q) = held
      /\ \A l \in T : Distances[x] < Distances[l]
  BY <1>1, FirstHeader
<1>3. held # Fifo!Nothing
  <2>1. held.id \in Ids
    BY <1>1, <1>2 DEF FifoInv, NamedInv
  <2>2. held.id # 0
    BY <2>1, IdsAssumption
  <2>3. QED
    BY <2>2 DEF Fifo!Nothing, Fifo!FifoRecord
<1>4. held' = NoRecord
  BY DEF ConsumeHeader
<1>5. Headers' = T /\ lines' = lines
  BY <1>1, ConsumedHeaders
<1>6. PICK k \in Nat : \A l \in T : Distances'[l] \in Nat /\ Distances[l] = Distances'[l] + k
  BY <1>1, <1>5, ConsumedHeaders
<1>7. IsFiniteSet(Headers) /\ Distinct(Headers, Distances)
  BY <1>1, HeadersAreDistinct
<1>8. Distinct(T, Distances')
  BY <1>6, <1>7 DEF Distinct
<1>9. FirstIn(Headers, x, Distances) /\ SameOrder(T, Distances, Distances')
  BY <1>2, <1>6 DEF FirstIn, SameOrder
<1>10. /\ Cardinality(T) = n - 1 /\ n \in Nat \ {0}
       /\ \A i \in 1 .. Cardinality(T) :
            InOrder(T, Distances')[i] = InOrder(Headers, Distances)[i + 1]
  <2>1. WithoutFirst(Headers, x, Distances, Distances')
    BY <1>7, <1>8, <1>9, OneLess
  <2>2. QED
    BY <2>1 DEF WithoutFirst
<1>11. q \in Seq(Records) /\ Len(q) = n
       /\ \A i \in 1 .. n : q[i] = lines[InOrder(Headers, Distances)[i]].rec
  BY <1>1, QueueOfHeaders
<1>12. Tail(q) = [i \in 1 .. n - 1 |-> q[i + 1]]
  BY <1>10, <1>11, TailIsFunction
<1>13. RecordsInRing' = [i \in 1 .. Cardinality(T) |-> lines[InOrder(T, Distances')[i]].rec]
  BY <1>5 DEF RecordsInRing
<1> HIDE DEF q, n, T
<1>14. \A i \in 1 .. n - 1 : lines[InOrder(T, Distances')[i]].rec = q[i + 1]
  <2> SUFFICES ASSUME NEW i \in 1 .. n - 1
               PROVE  lines[InOrder(T, Distances')[i]].rec = q[i + 1]
    OBVIOUS
  <2>1. i \in 1 .. Cardinality(T) /\ i + 1 \in 1 .. n
    BY <1>10
  <2>2. QED
    BY <1>10, <1>11, <2>1
<1>15. RecordsInRing' = Tail(q)
  BY <1>10, <1>12, <1>13, <1>14
<1>16. QED
  BY <1>2, <1>3, <1>4, <1>15
  DEF Fifo!Release, Fifo!Nothing, Fifo!FifoRecord, NoRecord, Record, q

\* Reading gives the oldest record to a reader that holds none.
LEMMA ReadTakes ==
  ASSUME FifoInv, ReadHeader
  PROVE  Fifo!Take
<1>1. SafeInv /\ TypeOK /\ ChainInv /\ readOffset # writeOffset
  BY DEF FifoInv, SafeInv, WellFormed, ReadHeader
<1>2. held = Fifo!Nothing
  BY DEF FifoInv, IdleInv, ReadHeader, Fifo!Nothing, Fifo!FifoRecord, NoRecord, Record
<1>3. RecordsInRing # <<>> /\ Head(RecordsInRing) = lines[readOffset].rec
  BY <1>1, FirstHeader
<1>4. ReaderNeverFails'
  BY <1>1, ReadHeaderSafe
<1>5. held' = lines[readOffset].rec
  BY <1>4 DEF ReadHeader, ReaderNeverFails
<1>6. UNCHANGED <<readOffset, writeOffset>> /\ lines' = lines
  BY DEF ReadHeader
<1>7. RecordsInRing' = RecordsInRing
  BY <1>1, <1>6, SameQueue
<1>8. QED
  BY <1>2, <1>3, <1>5, <1>7 DEF Fifo!Take

\* The steps of a write() before it publishes leave the queue alone.
LEMMA WritingIsInvisible ==
  ASSUME SafeInv,
         \/ \E t \in Thresholds : SetWriteThreshold(t)
         \/ \E id \in Ids, size \in Sizes : BeginWrite(id, size)
         \/ CopyFirst
         \/ CopySecond
  PROVE  /\ UNCHANGED <<RecordsInRing, Headers, reader, held>>
         /\ \A l \in Headers : lines'[l] = lines[l]
<1>1. UNCHANGED <<readOffset, writeOffset, reader, held>>
  BY DEF SetWriteThreshold, BeginWrite, CopyFirst, CopySecond, readerVars
<1>2. \A l \in UnreadLines : lines'[l] = lines[l]
  <2>1. CASE (\E t \in Thresholds : SetWriteThreshold(t))
             \/ (\E id \in Ids, size \in Sizes : BeginWrite(id, size))
    BY <2>1 DEF SetWriteThreshold, BeginWrite
  <2>2. CASE CopyFirst
    <3>1. Writing /\ placement.firstSize > 0
      BY <2>2 DEF SafeInv, CopiedInv, CopyFirst, Writing
    <3>2. FirstLines = RecordLines(placement.firstAt, placement.firstSize)
      BY <3>1 DEF FirstLines
    <3>3. \A l \in UnreadLines : l \in Lines /\ l \notin FirstLines
      BY <3>1, WriteLinesAreFree DEF SafeInv, UnreadLines
    <3>4. QED
      BY <2>2, <3>2, <3>3 DEF CopyFirst, WriteToHeader, FirstRecord, Record
  <2>3. CASE CopySecond
    <3>1. Writing /\ placement.secondSize > 0
      BY <2>3 DEF SafeInv, CopiedInv, CopySecond, Writing
    <3>2. SecondLines = RecordLines(placement.secondAt, placement.secondSize)
      BY <3>1 DEF SecondLines
    <3>3. \A l \in UnreadLines : l \in Lines /\ l \notin SecondLines
      BY <3>1, WriteLinesAreFree DEF SafeInv, UnreadLines
    <3>4. QED
      BY <2>3, <3>2, <3>3 DEF CopySecond, WriteToHeader, SecondRecord, Record
  <2>4. QED
    BY <2>1, <2>2, <2>3
<1>3. Headers' = Headers /\ RecordsInRing' = RecordsInRing
  BY <1>1, <1>2, SameQueue DEF SafeInv, WellFormed
<1>4. QED
  BY <1>1, <1>2, <1>3 DEF Headers
-----------------------------------------------------------------------------
(* The refinement of MessageFifo.                                          *)

\* A new channel holds an empty queue, which nobody reads.
LEMMA InitQueue == Init => FifoInv /\ Fifo!FifoInit
<1> SUFFICES ASSUME Init PROVE FifoInv /\ Fifo!FifoInit
  OBVIOUS
<1>1. SafeInv /\ RequestInv /\ held = NoRecord
  BY InitSafe DEF Init, RequestInv, Writing
<1>2. Headers = {}
  BY LinesAreAligned DEF Init, UnreadLines, Headers
<1>3. Cardinality(Headers) = 0
  BY <1>2, FS_EmptySet
<1>4. RecordsInRing = <<>>
  <2>1. RecordsInRing \in Seq(Records) /\ Len(RecordsInRing) = 0
    BY <1>1, <1>3, QueueOfHeaders DEF SafeInv, WellFormed
  <2>2. QED
    BY <2>1
<1>5. QED
  BY <1>1, <1>2, <1>4
  DEF FifoInv, NamedInv, IdleInv, Fifo!FifoInit, Fifo!Nothing, Fifo!FifoRecord, NoRecord, Record

\* Every step keeps the invariant, and is one of the queue or leaves it alone.
LEMMA NextQueue ==
  ASSUME FifoInv, [SafeNext]_vars
  PROVE  FifoInv' /\ [Fifo!FifoNext]_(Fifo!fifoVars)
<1>1. SafeInv /\ SafeInv' /\ TypeOK
  BY NextSafe DEF FifoInv, SafeInv, WellFormed
<1>2. CASE \/ \E t \in Thresholds : SetWriteThreshold(t)
           \/ \E id \in Ids, size \in Sizes : BeginWrite(id, size)
           \/ CopyFirst
           \/ CopySecond
  <2>1. /\ UNCHANGED <<RecordsInRing, Headers, reader, held>>
        /\ \A l \in Headers : lines'[l] = lines[l]
    BY <1>1, <1>2, WritingIsInvisible
  <2>2. RequestInv'
    <3>1. CASE \/ \E t \in Thresholds : SetWriteThreshold(t)
               \/ CopyFirst
               \/ CopySecond
      BY <3>1 DEF FifoInv, RequestInv, Writing, SetWriteThreshold, CopyFirst, CopySecond
    <3>2. CASE \E id \in Ids, size \in Sizes : BeginWrite(id, size)
      BY <3>2 DEF FifoInv, RequestInv, Writing, BeginWrite
    <3>3. QED
      BY <1>2, <3>1, <3>2
  <2>3. NamedInv' /\ IdleInv'
    BY <2>1 DEF FifoInv, NamedInv, IdleInv
  <2>4. QED
    BY <1>1, <2>1, <2>2, <2>3 DEF FifoInv, Fifo!fifoVars
<1>3. CASE Publish
  <2> DEFINE first  == IF placement.firstSize > 0 THEN {placement.firstAt} ELSE {}
             second == IF placement.secondSize > 0 THEN {placement.secondAt} ELSE {}
  <2>1. Fifo!Accept
    BY <1>3, PublishAccepts
  <2>2. writer' = "idle" /\ UNCHANGED <<reader, held>> /\ placement.id \in Ids
    BY <1>3 DEF Publish, readerVars, FifoInv, RequestInv, Writing
  <2>3. /\ Headers' = (Headers \cup first) \cup second /\ lines' = lines
        /\ \A x \in first : lines[x].rec = FirstRecord
        /\ \A x \in second : lines[x].rec = SecondRecord
    BY <1>1, <1>3, PublishedHeaders
  <2> HIDE DEF first, second
  <2>4. NamedInv'
    BY <2>2, <2>3 DEF FifoInv, NamedInv, FirstRecord, SecondRecord, Record
  <2>5. RequestInv' /\ IdleInv'
    BY <2>2 DEF FifoInv, RequestInv, IdleInv, Writing
  <2>6. QED
    BY <1>1, <2>1, <2>4, <2>5 DEF FifoInv, Fifo!FifoNext
<1>4. CASE ReadHeader
  <2>1. Fifo!Take
    BY <1>4, ReadTakes
  <2>2. UNCHANGED <<readOffset, writeOffset, lines, writer, placement>>
    BY <1>4 DEF ReadHeader, writerVars
  <2>3. Headers' = Headers
    BY <2>2 DEF Headers, UnreadLines
  <2>4. reader' # "idle"
    BY <1>4 DEF ReadHeader
  <2>5. RequestInv' /\ NamedInv' /\ IdleInv'
    BY <2>2, <2>3, <2>4 DEF FifoInv, RequestInv, NamedInv, IdleInv, Writing
  <2>6. QED
    BY <1>1, <2>1, <2>5 DEF FifoInv, Fifo!FifoNext
<1>5. CASE ConsumeHeader /\ ~DrainsAtEnd
  <2>1. Fifo!Release
    BY <1>5, ConsumeReleases
  <2>2. UNCHANGED <<lines, writer, placement>> /\ held' = NoRecord
    BY <1>5 DEF ConsumeHeader, writerVars
  <2>3. Headers' \subseteq Headers
    BY <1>1, <1>5, ConsumedHeaders
  <2>4. RequestInv' /\ NamedInv' /\ IdleInv'
    BY <2>2, <2>3 DEF FifoInv, RequestInv, NamedInv, IdleInv, Writing
  <2>5. QED
    BY <1>1, <2>1, <2>4 DEF FifoInv, Fifo!FifoNext
<1>6. CASE UNCHANGED vars
  <2>1. UNCHANGED <<readOffset, writeOffset, lines, writer, placement, reader, held>>
    BY <1>6 DEF vars
  <2>2. Headers' = Headers /\ RecordsInRing' = RecordsInRing
    BY <1>1, <2>1, SameQueue
  <2>3. RequestInv' /\ NamedInv' /\ IdleInv'
    BY <2>1, <2>2 DEF FifoInv, RequestInv, NamedInv, IdleInv, Writing
  <2>4. QED
    BY <1>1, <2>1, <2>2, <2>3 DEF FifoInv, Fifo!fifoVars
<1>7. QED
  BY <1>2, <1>3, <1>4, <1>5, <1>6 DEF SafeNext, Next, Writer, Reader

\* Until the reader drains a ring whose last record ends at its end, the lines
\* between reader and writer are a chain of whole records, each of a message the
\* writer was asked for, and the reader holds the first of them or none.
THEOREM QueueInvariance == SafeSpec => []FifoInv
<1>1. Init => FifoInv
  BY InitQueue
<1>2. FifoInv /\ [SafeNext]_vars => FifoInv'
  BY NextQueue
<1>3. QED
  BY <1>1, <1>2, PTL DEF SafeSpec

\* Until then shared memory is a queue: publishing appends a prefix of the payload
\* as one record or two, the reader is given the oldest record and removes that one,
\* and no other step of either process adds, loses, reorders or changes a record.
THEOREM ChannelImplementsFifo == SafeSpec => ImplementsFifo
<1>1. Init => Fifo!FifoInit
  BY InitQueue
<1>2. FifoInv /\ [SafeNext]_vars => [Fifo!FifoNext]_(Fifo!fifoVars)
  BY NextQueue
<1>3. QED
  BY <1>1, <1>2, QueueInvariance, PTL DEF SafeSpec, ImplementsFifo, Fifo!FifoSpec
=============================================================================
