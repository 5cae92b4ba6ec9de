----------------------------- MODULE RouterProofs -----------------------------
(***************************************************************************)
(* RouterInv is an invariant of RouterSafeSpec, for every ring and any     *)
(* number of channels, texts and replies: neither process throws, both     *)
(* mean the same channel by its number, and the texts arrive in order.     *)
(***************************************************************************)
EXTENDS RouterInvariant, ChannelSafetyProofs, FiniteSetTheorems

-----------------------------------------------------------------------------
(* A message takes one line.                                               *)

\* Both kinds of messages fit the line that their header is on.
LEMMA OneLine ==
  ASSUME NEW o \in Lines, NEW size \in {AnnouncementSize, TextSize}
  PROVE  /\ RecordEnd(o, size) = o + LineSize
         /\ RecordLines(o, size) = {o}
<1>1. o \in Nat /\ o % LineSize = 0
  BY LinesAreAligned
<1>2. RecordEnd(o, size) = o + LineSize
  BY <1>1 DEF RecordEnd, AlignSizeToCacheline, LineSize, HeaderSize,
              AnnouncementSize, TextSize
<1>3. \A l \in Lines : l \in Nat /\ l % LineSize = 0
  BY LinesAreAligned
<1>4. \A l \in Lines : o <= l /\ l < o + LineSize => l = o
  BY <1>1, <1>3 DEF LineSize
<1>5. o <= o /\ o < o + LineSize
  BY <1>1 DEF LineSize
<1>6. QED
  BY <1>2, <1>4, <1>5 DEF RecordLines

\* A write() of such a message that is not refused takes all of it at once.
LEMMA SmallPlacement ==
  ASSUME NEW start \in Lines, NEW old \in Offsets,
         NEW size \in {AnnouncementSize, TextSize}, NEW threshold \in Nat \ {0},
         ~Refuses(start, old, size, threshold)
  PROVE  LET p == Placement(start, old, size)
         IN  /\ p.firstSize = 0 => p.secondSize = size
             /\ p.firstSize > 0 => p.firstSize = size /\ p.secondSize = 0
<1> DEFINE p   == Placement(start, old, size)
           end == IF old = Size THEN 0 ELSE old
<1>0. end \in Lines /\ Size \in Nat
  <2>1. 0 \in Lines /\ Size \in Nat
    BY LinesAreAligned, SizeAssumption DEF LineSize
  <2>2. QED
    BY <2>1 DEF Offsets
<1>1. /\ start \in Nat /\ start < Size /\ start % LineSize = 0
      /\ end \in Nat /\ end % LineSize = 0 /\ end + LineSize <= Size
      /\ Size \in Nat /\ size \in Nat /\ 0 < size /\ size + HeaderSize <= LineSize
  <2>1. size \in Nat /\ 0 < size /\ size + HeaderSize <= LineSize
    BY DEF LineSize, HeaderSize, AnnouncementSize, TextSize
  <2>2. QED
    BY <1>0, <2>1, LinesAreAligned
<1>2. /\ p.firstAt = end
      /\ p.firstSize = IF end >= start
                         THEN Least(size, DataSize(Size - end)) ELSE 0
      /\ p.secondSize =
           IF end >= start
             THEN Least(size - p.firstSize, DataSize(SizeWithPadding(start)))
             ELSE Least(size, DataSize(SizeWithPadding(start - end)))
  BY DEF Placement
<1> HIDE DEF p, end
<1>3. ASSUME end >= start PROVE p.firstSize = size /\ p.secondSize = 0
  <2>1. p.firstSize = size
    BY <1>1, <1>2, <1>3 DEF Least, DataSize, LineSize, HeaderSize
  <2>2. p.secondSize = 0
    BY <1>1, <1>2, <1>3, <2>1
       DEF Least, DataSize, SizeWithPadding, LineSize, HeaderSize
  <2>3. QED
    BY <2>1, <2>2
<1>4. ASSUME end < start PROVE p.firstSize = 0 /\ p.secondSize = size
  <2>1. p.firstSize = 0
    BY <1>1, <1>2, <1>4
  <2>2. CASE start - end = LineSize
    <3>1. p.secondSize = 0
      BY <1>1, <1>2, <1>4, <2>2
         DEF Least, DataSize, SizeWithPadding, LineSize, HeaderSize
    <3>2. Accepted(p) < Least(size, threshold)
      BY <1>1, <2>1, <3>1 DEF Accepted, Least
    <3>3. QED
      BY <1>1, <1>2, <1>4, <3>2 DEF Refuses, p
  <2>3. CASE start - end >= 2 * LineSize
    <3>1. p.secondSize = size
      BY <1>1, <1>2, <1>4, <2>3
         DEF Least, DataSize, SizeWithPadding, LineSize, HeaderSize
    <3>2. QED
      BY <2>1, <3>1
  <2>4. QED
    BY <1>1, <1>4, <2>2, <2>3 DEF LineSize
<1>5. \/ p.firstSize = size /\ p.secondSize = 0
      \/ p.firstSize = 0 /\ p.secondSize = size
  BY <1>1, <1>3, <1>4
<1>6. QED
  BY <1>1, <1>5 DEF p

\* As long as the free lines reach to the end, an announcement is not refused.
LEMMA AnnouncementFits ==
  ASSUME NEW start \in Lines, NEW old \in Lines, start <= old,
         NEW threshold \in Nat \ {0}
  PROVE  ~Refuses(start, old, AnnouncementSize, threshold)
<1> DEFINE p == Placement(start, old, AnnouncementSize)
<1>1. /\ start \in Nat /\ old \in Nat /\ old + LineSize <= Size /\ Size \in Nat
      /\ old # Size
  BY LinesAreAligned, SizeAssumption DEF LineSize
<1>2. ~IsFull(start, old)
  BY <1>1 DEF IsFull, LineSize
<1>3. p.firstSize = AnnouncementSize
  BY <1>1 DEF Placement, Least, DataSize, LineSize, HeaderSize, AnnouncementSize
<1>4. p.secondSize = 0
  BY <1>1, <1>3
     DEF Placement, Least, DataSize, SizeWithPadding, LineSize, HeaderSize,
         AnnouncementSize
<1>5. ~(Accepted(p) < Least(AnnouncementSize, threshold))
  BY <1>3, <1>4 DEF Accepted, Least, AnnouncementSize
<1>6. QED
  BY <1>2, <1>5 DEF Refuses

\* The line that the write() in progress is going to fill is not unread; what is
\* there once it is copied is the whole record.
LEMMA WriteLine ==
  ASSUME SafeInv, MessageInv, Writing
  PROVE  LET at == placement.firstAt
         IN  /\ at \in Lines /\ at \notin UnreadLines
             /\ placement.newOffset = at + LineSize
             /\ at = IF writeOffset = Size THEN 0 ELSE writeOffset
             /\ writeOffset = Size => LineSize < readOffset
             /\ writeOffset < readOffset => at + LineSize < readOffset
             /\ placement.firstSize = 0 => placement.secondAt = at
             /\ FirstLines \cup SecondLines = {at}
             /\ writer = "publish" =>
                  /\ lines[at].header
                  /\ lines[at].rec = Record(placement.id, 0, placement.size)
<1> DEFINE at == placement.firstAt
           n  == placement.newOffset
<1>1. /\ WellFormed /\ SampleInv /\ PlacementInv
      /\ placement.size \in {AnnouncementSize, TextSize}
      /\ \/ placement.firstSize = 0 /\ placement.secondSize = placement.size
         \/ placement.firstSize = placement.size /\ placement.secondSize = 0
      /\ placement.size \in Nat /\ 0 < placement.size
  <2>1. placement.size \in {AnnouncementSize, TextSize}
    BY DEF MessageInv
  <2>2. placement.firstSize \in Nat
    BY DEF SafeInv, WellFormed, PlacementInv, WellPlaced
  <2>3. QED
    BY <2>1, <2>2 DEF SafeInv, WellFormed, MessageInv, AnnouncementSize, TextSize
<1>2. /\ WellPlaced(placement.start, placement.size, placement)
      /\ at \in Lines /\ placement.secondAt \in Lines
  BY <1>1 DEF PlacementInv, WellPlaced
<1>3. placement.firstSize = 0 => placement.secondAt = at
  BY <1>2 DEF WellPlaced, PlacedAtTail, PlacedBehindReader
<1>4. n = at + LineSize /\ FirstLines \cup SecondLines = {at}
  <2>1. CASE placement.firstSize = 0
    <3>1. /\ placement.secondAt = at /\ placement.secondSize = placement.size
          /\ n = RecordEnd(at, placement.size)
      BY <1>1, <1>2, <2>1 DEF WellPlaced, PlacedAtTail, PlacedBehindReader
    <3>2. FirstLines = {} /\ SecondLines = RecordLines(at, placement.size)
      BY <1>1, <2>1, <3>1 DEF FirstLines, SecondLines
    <3>3. QED
      BY <1>1, <1>2, <3>1, <3>2, OneLine
  <2>2. CASE placement.firstSize = placement.size /\ placement.secondSize = 0
    <3>1. n = RecordEnd(at, placement.size)
      BY <1>1, <1>2, <2>2 DEF WellPlaced, PlacedAtTail, PlacedBehindReader
    <3>2. SecondLines = {} /\ FirstLines = RecordLines(at, placement.size)
      BY <1>1, <2>2 DEF FirstLines, SecondLines
    <3>3. QED
      BY <1>1, <1>2, <3>1, <3>2, OneLine
  <2>3. QED
    BY <1>1, <2>1, <2>2
<1>5. at \notin UnreadLines
  BY <1>1, <1>4, WriteLinesAreFree
<1>6. at = IF writeOffset = Size THEN 0 ELSE writeOffset
  BY <1>1 DEF SampleInv
<1>7. /\ readOffset \in Nat /\ readOffset < Size
      /\ writeOffset \in Nat /\ writeOffset <= Size /\ Size \in Nat
      /\ at \in Nat
  BY <1>1, <1>2, OffsetsAreNat, LinesAreAligned DEF WellFormed
<1>8. \/ TailWrite(placement.start, n) \/ SplitWrite(placement.start, n)
      \/ WrappedWrite(placement.start, n) \/ GapWrite(placement.start, n)
  BY <1>1, WriteShapes
<1>9. /\ writeOffset = Size => LineSize < readOffset
      /\ writeOffset < readOffset => at + LineSize < readOffset
  <2>1. placement.start \in Nat /\ placement.start < Size
    BY <1>1, LinesAreAligned DEF PlacementInv
  <2>2. QED
    BY <1>4, <1>6, <1>7, <1>8, <2>1
       DEF TailWrite, SplitWrite, WrappedWrite, GapWrite, LineSize
<1>10. ASSUME writer = "publish"
       PROVE  /\ lines[at].header
              /\ lines[at].rec = Record(placement.id, 0, placement.size)
  <2>1. CASE placement.firstSize = 0
    <3>1. at \in SecondLines /\ placement.secondAt = at
      BY <1>3, <1>4, <2>1 DEF FirstLines
    <3>2. lines[at] = Line(SecondRecord, TRUE)
      BY <1>10, <3>1, PublishedRecords
    <3>3. QED
      BY <1>1, <2>1, <3>2 DEF Line, SecondRecord
  <2>2. CASE placement.firstSize = placement.size /\ placement.secondSize = 0
    <3>1. at \in FirstLines
      BY <1>4, <2>2 DEF SecondLines
    <3>2. lines[at] = Line(FirstRecord, TRUE)
      BY <1>10, <3>1, PublishedRecords
    <3>3. QED
      BY <1>1, <2>2, <3>2 DEF Line, FirstRecord
  <2>3. QED
    BY <1>1, <2>1, <2>2
<1>11. QED
  BY <1>2, <1>3, <1>4, <1>5, <1>6, <1>9, <1>10

-----------------------------------------------------------------------------
(* What the invariant says of a state, in the form the steps need.         *)

\* The offsets and counters are numbers, and the announcements fit into the ring.
LEMMA Numbers ==
  ASSUME RouterInv
  PROVE  /\ Size \in Nat /\ readOffset \in Lines /\ writeOffset \in Offsets
         /\ readOffset \in Nat /\ readOffset < Size
         /\ writeOffset \in Nat /\ writeOffset <= Size
         /\ Len(parent.channels) \in Nat /\ Len(child.channels) \in Nat
         /\ parent.texts \in Nat /\ child.texts \in Nat /\ NewChannels \in Nat
         /\ Consumed \in Nat /\ Published \in Nat
         /\ TextsWritten \in Nat /\ TextsConsumed \in Int
         /\ \A l \in UnreadLines : l \in Lines /\ l \in Nat /\ l < Size
         /\ AnnouncementsEnd \in Nat /\ AnnouncementsEnd <= Size
<1>1. /\ Size \in Nat /\ readOffset \in Lines /\ writeOffset \in Offsets
      /\ readOffset \in Nat /\ readOffset < Size
      /\ writeOffset \in Nat /\ writeOffset <= Size
  BY OffsetsAreNat DEF RouterInv, SafeInv, WellFormed
<1>2. /\ Len(parent.channels) \in Nat /\ Len(child.channels) \in Nat
      /\ parent.channels # <<>> => Len(parent.channels) > 0
      /\ parent.texts \in Nat /\ child.texts \in Nat /\ NewChannels \in Nat
  BY RouterAssumption DEF RouterInv, RouterTypes
<1>3. Published \in Nat /\ TextsWritten \in Nat
  BY <1>2 DEF RouterInv, MessageInv, Announcing, Published, TextsWritten
<1>4. Consumed \in Nat
  <2>0. Consumed \in Int
    BY <1>2 DEF Consumed
  <2>1. Consumed \in Int /\ (Consumed < 0 => Consumed < NewChannels)
    BY <1>2, <2>0
  <2>2. Consumed < 0 => readOffset = LineSize * Consumed
    BY <2>1 DEF RouterInv, ProgressInv
  <2>3. QED
    BY <1>1, <2>1, <2>2 DEF LineSize
<1>5. TextsConsumed \in Int
  BY <1>2 DEF TextsConsumed
<1>6. \A l \in UnreadLines : l \in Lines /\ l \in Nat /\ l < Size
  BY LinesAreAligned DEF UnreadLines
<1>7. AnnouncementsEnd \in Nat /\ AnnouncementsEnd <= Size
  BY <1>2, ChannelsAssumption DEF AnnouncementsEnd, LineSize
<1>8. QED
  BY <1>1, <1>2, <1>3, <1>4, <1>5, <1>6, <1>7

\* The line at the read offset is an announcement exactly while some are left.
LEMMA NextMessage ==
  ASSUME RouterInv, reader = "held"
  PROVE  /\ readOffset \in UnreadLines /\ held = lines[readOffset].rec
         /\ held.size \in {AnnouncementSize, TextSize}
         /\ held.id = ControlId =>
              /\ Consumed < NewChannels /\ Consumed < Published
              /\ HoldsAnnouncement(readOffset)
              /\ contents[readOffset].n = Consumed + 2
         /\ held.id # ControlId =>
              /\ NewChannels <= Consumed
              /\ HoldsText(readOffset)
              /\ contents[readOffset].n = TextsConsumed + 1
<1>1. readOffset \in UnreadLines /\ held = lines[readOffset].rec
  BY EndsOfUnread DEF RouterInv, SafeInv, WellFormed, HeldInv
<1>2. /\ Size \in Nat /\ readOffset \in Nat /\ readOffset < Size
      /\ readOffset # writeOffset
      /\ NewChannels \in Nat /\ Consumed \in Nat /\ Published \in Nat
      /\ TextsConsumed \in Int /\ contents[readOffset].n \in Nat
      /\ Consumed < NewChannels => readOffset = LineSize * Consumed
  BY <1>1, Numbers DEF RouterInv, RouterTypes, ProgressInv, SafeInv, HeldInv
<1>3. CASE Consumed < NewChannels
  <2>1. readOffset = LineSize * Consumed /\ readOffset < AnnouncementsEnd
    BY <1>2, <1>3 DEF AnnouncementsEnd, LineSize
  <2>2. HoldsAnnouncement(readOffset)
    BY <1>1, <1>2, <1>3, <2>1 DEF RouterInv, ContentsInv
  <2>3. held.id = ControlId /\ held.size = AnnouncementSize
    BY <1>1, <2>2 DEF HoldsAnnouncement, Record
  <2>4. contents[readOffset].n = Consumed + 2
    BY <1>2, <2>1, <2>2 DEF HoldsAnnouncement, LineSize
  <2>5. Consumed < Published
    <3>1. Consumed <= Published
      BY DEF RouterInv, ProgressInv
    <3>2. ASSUME Consumed = Published PROVE FALSE
      <4>1. writeOffset = LineSize * Published
        BY <1>3, <3>2 DEF RouterInv, ProgressInv
      <4>2. QED
        BY <1>2, <2>1, <3>2, <4>1
    <3>3. QED
      BY <1>2, <3>1, <3>2
  <2>6. QED
    BY <1>1, <1>3, <2>2, <2>3, <2>4, <2>5
<1>4. CASE ~(Consumed < NewChannels)
  <2>1. HoldsText(readOffset)
    BY <1>1, <1>4 DEF RouterInv, ContentsInv
  <2>2. held.id # ControlId /\ held.size = TextSize
    BY <1>1, <1>2, <2>1 DEF HoldsText, ControlId
  <2>3. Distance(readOffset) = 0
    BY <1>2 DEF Distance
  <2>4. NewChannels = Consumed
    <3>1. Consumed <= Published /\ Len(parent.channels) <= NewChannels
      BY DEF RouterInv, ProgressInv, IdsInv
    <3>2. Published <= Len(parent.channels)
      <4>1. Len(parent.channels) \in Nat
        BY Numbers
      <4>2. CASE Announcing
        BY <4>1, <4>2 DEF Published
      <4>3. CASE ~Announcing
        BY <4>1, <4>3 DEF Published
      <4>4. QED
        BY <4>2, <4>3
    <3>3. QED
      BY <1>2, <1>4, <3>1, <3>2, Numbers
  <2>5. contents[readOffset].n = TextsConsumed + 1
    <3>1. 0 = LineSize * (NewChannels - Consumed + contents[readOffset].n
                            - 1 - TextsConsumed)
      BY <2>1, <2>3 DEF HoldsText
    <3>2. /\ NewChannels \in Nat /\ TextsConsumed \in Int
          /\ contents[readOffset].n \in Nat
      BY <1>2
    <3>3. NewChannels - Consumed + contents[readOffset].n - 1 - TextsConsumed = 0
      BY <2>4, <3>1, <3>2 DEF LineSize
    <3>4. QED
      BY <2>4, <3>2, <3>3
  <2>6. QED
    BY <1>1, <1>2, <1>4, <2>1, <2>2, <2>5
<1>5. QED
  BY <1>3, <1>4

\* What lies on the unread lines stays what it was for the reader.
LEMMA ContentsStay ==
  ASSUME RouterInv,
         UNCHANGED <<readOffset, Consumed, TextsConsumed>>,
         \A l \in UnreadLines' :
           l \in UnreadLines /\ lines'[l] = lines[l] /\ contents'[l] = contents[l]
  PROVE  ContentsInv'
<1> SUFFICES ASSUME NEW l \in UnreadLines'
             PROVE  /\ lines'[l].header
                    /\ IF Consumed' < NewChannels /\ readOffset' <= l
                            /\ l < AnnouncementsEnd
                         THEN HoldsAnnouncement(l)'
                         ELSE HoldsText(l)'
  BY DEF ContentsInv, AnnouncementsEnd
<1>1. /\ l \in UnreadLines /\ lines'[l] = lines[l] /\ contents'[l] = contents[l]
  OBVIOUS
<1>2. /\ HoldsAnnouncement(l) => HoldsAnnouncement(l)'
      /\ HoldsText(l) => HoldsText(l)'
  BY <1>1 DEF HoldsAnnouncement, HoldsText, Distance
<1>3. QED
  BY <1>1, <1>2 DEF RouterInv, ContentsInv

-----------------------------------------------------------------------------
(* The parent's steps.                                                     *)

\* The ids in use are 1 and those given out, so that the next one is free.
LEMMA FreshIdIsNext ==
  ASSUME RouterTypes, IdsInv
  PROVE  FreshId(parent) = Len(parent.channels) + 2
<1> DEFINE p == Len(parent.channels)
           Free(id) == /\ id \notin parent.handlers
                       /\ \A other \in parent.nextId .. id - 1 :
                            other \in parent.handlers
           Searched == parent.nextId .. parent.nextId + Cardinality(parent.handlers)
<1>1. /\ p \in Nat /\ parent.channels = <<>> <=> p = 0
      /\ parent.handlers = 1 .. p + 1
      /\ parent.nextId = IF p = 0 THEN 1 ELSE p + 2
  BY DEF RouterTypes, IdsInv
<1>2. Cardinality(parent.handlers) = p + 1
  <2>1. Cardinality(1 .. p + 1) = IF 1 > p + 1 THEN 0 ELSE p + 1 - 1 + 1
    BY <1>1, FS_Interval
  <2>2. QED
    BY <1>1, <2>1
<1>3. p + 2 \in Searched /\ Free(p + 2)
  BY <1>1, <1>2
<1>4. ASSUME NEW id \in Searched, Free(id) PROVE id = p + 2
  <2>1. id \in Nat /\ id \notin 1 .. p + 1 /\ parent.nextId <= id
    BY <1>1, <1>2, <1>4
  <2>2. id >= p + 2
    BY <1>1, <2>1
  <2>3. ~(id > p + 2)
    BY <1>1, <1>4, <2>1
  <2>4. QED
    BY <1>1, <2>1, <2>2, <2>3
<1>5. FreshId(parent) = CHOOSE id \in Searched : Free(id)
  BY DEF FreshId
<1> HIDE DEF Free, Searched
<1>6. QED
  BY <1>3, <1>4, <1>5

\* What the steps have to establish besides the invariant of the channel.
RouterPart ==
  RouterTypes /\ IdsInv /\ MessageInv /\ ProgressInv /\ ContentsInv /\ NobodyThrows

\* BeginWrite() leaves the ring alone and prepares one line.
LEMMA BeginsOneLine ==
  ASSUME RouterInv, SafeInv',
         NEW id \in Ids, NEW size \in {AnnouncementSize, TextSize},
         BeginWrite(id, size)
  PROVE  /\ Writing' /\ ~Writing /\ writer' # "publish"
         /\ placement'.id = id /\ placement'.size = size
         /\ placement'.firstSize = 0 => placement'.secondSize = size
         /\ placement'.firstSize > 0 =>
              placement'.firstSize = size /\ placement'.secondSize = 0
         /\ UNCHANGED <<readOffset, writeOffset, lines, reader, held>>
<1> DEFINE p == Placement(readOffset, writeOffset, size)
<1>1. /\ writer = "idle"
      /\ ~Refuses(readOffset, writeOffset, size, writeThreshold)
      /\ UNCHANGED <<readOffset, writeOffset, lines, reader, held>>
  BY DEF BeginWrite, readerVars
<1>2. writer' # "failed"
  BY DEF SafeInv, WellFormed, WriterNeverFails
<1>3. /\ writer' = IF p.firstSize > 0 THEN "first" ELSE "second"
      /\ placement' =
           [id |-> id, size |-> size, start |-> readOffset,
            firstAt |-> p.firstAt, firstSize |-> p.firstSize,
            secondAt |-> p.secondAt, secondSize |-> p.secondSize,
            newOffset |-> p.newOffset]
  BY <1>2 DEF BeginWrite
<1>4. writeThreshold \in Nat \ {0}
  BY ThresholdsAssumption, SizeAssumption
     DEF RouterInv, SafeInv, WellFormed, TypeOK, LineSize, HeaderSize
<1>5. /\ p.firstSize = 0 => p.secondSize = size
      /\ p.firstSize > 0 => p.firstSize = size /\ p.secondSize = 0
  BY <1>1, <1>4, Numbers, SmallPlacement
<1> HIDE DEF p
<1>6. QED
  BY <1>1, <1>3, <1>5 DEF Writing

\* create_new_channel() finds room, and tells the id it has just registered.
LEMMA CreateNewChannelKeeps ==
  ASSUME RouterInv, SafeInv', CreateNewChannel
  PROVE  RouterPart'
<1> DEFINE c == Len(parent.channels)
<1>1. /\ c \in Nat /\ NewChannels \in Nat /\ c < NewChannels
      /\ writer = "idle" /\ FreshId(parent) = c + 2
      /\ UNCHANGED <<child, contents, replies>>
  <2>1. /\ FreshId(parent) = c + 2 /\ c <= NewChannels
        /\ writer = "idle" /\ c # NewChannels /\ UNCHANGED <<child, contents, replies>>
    BY FreshIdIsNext DEF RouterInv, IdsInv, CreateNewChannel, SetUp
  <2>2. c \in Nat /\ NewChannels \in Nat
    BY Numbers
  <2>3. QED
    BY <2>1, <2>2
<1>2. ~Writing /\ ~Announcing
  BY <1>1 DEF Writing, Announcing
<1>3. Published = c /\ Consumed <= c
  <2>1. Published = c
    BY <1>1, <1>2 DEF Published
  <2>2. QED
    BY <2>1 DEF RouterInv, ProgressInv
<1>4. ~Refuses(readOffset, writeOffset, AnnouncementSize, writeThreshold)
  <2>1. Consumed \in Nat /\ Consumed < NewChannels
    BY <1>1, <1>3, Numbers
  <2>2. readOffset = LineSize * Consumed /\ writeOffset = LineSize * c
    BY <1>1, <1>3, <2>1 DEF RouterInv, ProgressInv
  <2>3. readOffset <= writeOffset /\ writeOffset < Size
    <3>1. Size \in Nat
      BY Numbers
    <3>2. QED
      BY <1>1, <1>3, <2>1, <2>2, <3>1, ChannelsAssumption DEF LineSize
  <2>4. readOffset \in Lines /\ writeOffset \in Lines
    BY <2>3, Numbers DEF Offsets
  <2>5. writeThreshold \in Nat \ {0}
    BY ThresholdsAssumption, SizeAssumption
       DEF RouterInv, SafeInv, WellFormed, TypeOK, LineSize, HeaderSize
  <2>6. QED
    BY <2>3, <2>4, <2>5, AnnouncementFits
<1>5. /\ BeginWrite(ControlId, AnnouncementSize)
      /\ parent' = [parent EXCEPT !.handlers = @ \cup {c + 2}, !.nextId = c + 3,
                                  !.channels = Append(@, c + 2),
                                  !.message = Announcement(c + 2)]
  BY <1>1, <1>4 DEF CreateNewChannel
<1>6. ControlId \in Ids
  BY <1>1, ChannelsAssumption DEF ControlId
<1>7. /\ Writing' /\ writer' # "publish"
      /\ placement'.id = ControlId /\ placement'.size = AnnouncementSize
      /\ placement'.firstSize = 0 => placement'.secondSize = AnnouncementSize
      /\ placement'.firstSize > 0 =>
           placement'.firstSize = AnnouncementSize /\ placement'.secondSize = 0
      /\ UNCHANGED <<readOffset, writeOffset, lines, reader, held>>
  BY <1>5, <1>6, BeginsOneLine
<1>8. /\ parent'.channels = Append(parent.channels, c + 2)
      /\ Len(parent'.channels) = c + 1
      /\ \A i \in 1 .. c : parent'.channels[i] = parent.channels[i]
      /\ parent'.channels[c + 1] = c + 2
      /\ parent'.channels # <<>>
      /\ parent'.handlers = parent.handlers \cup {c + 2}
      /\ parent'.nextId = c + 3 /\ parent'.message = Announcement(c + 2)
      /\ parent'.texts = parent.texts /\ parent'.threw = parent.threw
  <2>1. /\ parent'.channels = Append(parent.channels, c + 2)
        /\ parent'.handlers = parent.handlers \cup {c + 2}
        /\ parent'.nextId = c + 3 /\ parent'.message = Announcement(c + 2)
        /\ parent'.texts = parent.texts /\ parent'.threw = parent.threw
        /\ parent.channels \in Seq(Nat)
    BY <1>5 DEF RouterInv, RouterTypes
  <2>2. /\ Len(Append(parent.channels, c + 2)) = c + 1
        /\ \A i \in 1 .. c :
             Append(parent.channels, c + 2)[i] = parent.channels[i]
        /\ Append(parent.channels, c + 2)[c + 1] = c + 2
        /\ Append(parent.channels, c + 2) # <<>>
    BY <1>1, <2>1
  <2>3. QED
    BY <2>1, <2>2
<1>9. RouterTypes'
  <2>1. parent' \in [handlers : SUBSET Nat, nextId : Nat, channels : Seq(Nat),
                     message : [kind : {"nothing", "announcement", "text"}, n : Nat],
                     texts : Nat, threw : BOOLEAN]
    <3>1. /\ parent.handlers \cup {c + 2} \in SUBSET Nat /\ c + 3 \in Nat
          /\ Append(parent.channels, c + 2) \in Seq(Nat)
          /\ Announcement(c + 2) \in
               [kind : {"nothing", "announcement", "text"}, n : Nat]
      BY <1>1 DEF RouterInv, RouterTypes, Announcement
    <3>2. QED
      BY <1>5, <3>1 DEF RouterInv, RouterTypes
  <2>2. QED
    BY <1>1, <2>1 DEF RouterInv, RouterTypes
<1>10. IdsInv'
  <2>1. \A i \in 1 .. c + 1 : parent'.channels[i] = i + 1
    BY <1>1, <1>8 DEF RouterInv, IdsInv
  <2>2. parent'.handlers = 1 .. c + 2
    BY <1>1, <1>8 DEF RouterInv, IdsInv
  <2>3. Len(child'.channels) <= c + 1
    BY <1>1, Numbers DEF RouterInv, IdsInv
  <2>4. /\ c + 1 <= NewChannels
        /\ parent'.nextId = IF parent'.channels = <<>> THEN 1 ELSE (c + 1) + 2
    BY <1>1, <1>8
  <2>5. /\ child'.handlers = 1 .. Len(child'.channels) + 1
        /\ \A i \in 1 .. Len(child'.channels) : child'.channels[i] = i + 1
        /\ \A i \in 1 .. Len(replies') :
             replies'[i] \in 2 .. Len(child'.channels) + 1
    BY <1>1 DEF RouterInv, IdsInv
  <2>6. (c + 1) + 1 = c + 2
    BY <1>1
  <2>7. QED
    BY <1>8, <2>1, <2>2, <2>3, <2>4, <2>5, <2>6 DEF IdsInv
<1>11. Announcing' /\ MessageInv'
  <2>1. Announcing'
    BY <1>7 DEF Announcing
  <2>2. QED
    BY <1>1, <1>7, <1>8, <2>1 DEF MessageInv
<1>12. /\ Published' = Published /\ UNCHANGED <<Consumed, TextsConsumed>>
       /\ TextsWritten' = TextsWritten
  <2>1. Published' = c
    BY <1>1, <1>8, <1>11 DEF Published
  <2>2. TextsWritten' = parent.texts - 0 /\ TextsWritten = parent.texts - 0
    BY <1>2, <1>8, <1>11 DEF TextsWritten
  <2>3. QED
    BY <1>1, <1>3, <1>7, <2>1, <2>2 DEF Consumed, TextsConsumed, Told
<1>13. ProgressInv'
  BY <1>1, <1>7, <1>8, <1>12 DEF RouterInv, ProgressInv, Distance
<1>14. ContentsInv'
  BY <1>1, <1>7, <1>12, ContentsStay DEF UnreadLines
<1>15. NobodyThrows'
  BY <1>1, <1>8 DEF RouterInv, NobodyThrows
<1>16. QED
  BY <1>9, <1>10, <1>11, <1>13, <1>14, <1>15 DEF RouterPart

\* The channels that texts are written to are those that were given out.
LEMMA WriteTextKeeps ==
  ASSUME RouterInv, SafeInv', WriteText
  PROVE  RouterPart'
<1>1. /\ SetUp /\ UNCHANGED <<child, contents, replies>>
      /\ parent' = [parent EXCEPT !.texts = @ + 1,
                                  !.message = Text(parent.texts + 1)]
  BY DEF WriteText
<1>2. PICK id \in Targets : BeginWrite(id, TextSize)
  BY DEF WriteText
<1>3. id \in 2 .. NewChannels + 1 /\ id \in Ids
  <2>1. PICK i \in 1 .. NewChannels : id = parent.channels[i]
    BY <1>1 DEF Targets, SetUp
  <2>2. parent.channels[i] = i + 1
    BY <1>1 DEF RouterInv, IdsInv, SetUp
  <2>3. id \in 2 .. NewChannels + 1
    BY <2>1, <2>2, RouterAssumption
  <2>4. NewChannels \in Nat
    BY RouterAssumption
  <2>5. id \in 1 .. NewChannels + 1
    BY <2>3, <2>4
  <2>6. QED
    BY <2>3, <2>5, ChannelsAssumption
<1>4. /\ Writing' /\ ~Writing /\ writer' # "publish"
      /\ placement'.id = id /\ placement'.size = TextSize
      /\ placement'.firstSize = 0 => placement'.secondSize = TextSize
      /\ placement'.firstSize > 0 =>
           placement'.firstSize = TextSize /\ placement'.secondSize = 0
      /\ UNCHANGED <<readOffset, writeOffset, lines, reader, held>>
  BY <1>2, <1>3, BeginsOneLine
<1>5. /\ parent'.channels = parent.channels /\ parent'.handlers = parent.handlers
      /\ parent'.nextId = parent.nextId /\ parent'.threw = parent.threw
      /\ parent'.texts = parent.texts + 1 /\ parent'.message = Text(parent.texts + 1)
      /\ parent.texts \in Nat
  BY <1>1 DEF RouterInv, RouterTypes
<1>6. RouterTypes'
  <2>1. /\ parent.texts + 1 \in Nat
        /\ Text(parent.texts + 1) \in
             [kind : {"nothing", "announcement", "text"}, n : Nat]
    BY <1>5 DEF Text
  <2>2. parent' \in [handlers : SUBSET Nat, nextId : Nat, channels : Seq(Nat),
                     message : [kind : {"nothing", "announcement", "text"}, n : Nat],
                     texts : Nat, threw : BOOLEAN]
    BY <1>1, <2>1 DEF RouterInv, RouterTypes
  <2>3. QED
    BY <1>1, <2>2 DEF RouterInv, RouterTypes
<1>7. IdsInv'
  BY <1>1, <1>5 DEF RouterInv, IdsInv
<1>8. ~Announcing /\ ~Announcing' /\ MessageInv'
  <2>1. ~Announcing /\ ~Announcing'
    BY <1>3, <1>4 DEF Announcing, ControlId
  <2>2. SetUp'
    BY <1>1, <1>5 DEF SetUp
  <2>3. QED
    BY <1>3, <1>4, <1>5, <2>1, <2>2 DEF MessageInv
<1>9. UNCHANGED <<Published, Consumed, TextsWritten, TextsConsumed>>
  <2>1. TextsWritten' = parent.texts + 1 - 1 /\ TextsWritten = parent.texts - 0
    BY <1>4, <1>5, <1>8 DEF TextsWritten
  <2>2. Published' = Published
    BY <1>5, <1>8 DEF Published
  <2>3. QED
    BY <1>1, <1>4, <1>5, <2>1, <2>2 DEF Consumed, TextsConsumed, Told
<1>10. ProgressInv'
  <2>1. Published = NewChannels
    BY <1>1, <1>8, Numbers DEF Published, SetUp
  <2>2. QED
    BY <1>1, <1>4, <1>9, <2>1, Numbers DEF RouterInv, ProgressInv, Distance
<1>11. ContentsInv'
  BY <1>1, <1>4, <1>9, ContentsStay DEF UnreadLines
<1>12. NobodyThrows'
  BY <1>1, <1>5 DEF RouterInv, NobodyThrows
<1>13. QED
  BY <1>6, <1>7, <1>8, <1>10, <1>11, <1>12 DEF RouterPart

\* Copying fills the line that was prepared, which nobody reads yet.
LEMMA CopyKeeps ==
  ASSUME RouterInv, FinishWrite, CopyFirst \/ CopySecond
  PROVE  RouterPart'
<1> DEFINE at == placement.firstAt
<1>1. /\ Writing /\ Writing'
      /\ UNCHANGED <<readOffset, writeOffset, placement, reader, held, parent, child,
                     replies>>
  BY DEF FinishWrite, CopyFirst, CopySecond, Writing, readerVars
<1>2. /\ at \in Lines /\ at \notin UnreadLines
      /\ placement.firstSize = 0 => placement.secondAt = at
  BY <1>1, WriteLine DEF RouterInv
<1>3. contents' = [contents EXCEPT ![at] = parent.message]
  <2>1. CASE CopyFirst
    <3>1. writer = "first"
      BY <2>1 DEF CopyFirst
    <3>2. QED
      BY <2>1, <3>1 DEF FinishWrite, CopySecond, Publish
  <2>2. CASE CopySecond
    <3>1. writer = "second" /\ placement.secondSize > 0
      BY <2>2 DEF CopySecond, RouterInv, SafeInv, CopiedInv
    <3>2. placement.firstSize = 0
      <4>1. placement.firstSize \in Nat
        BY <1>1 DEF RouterInv, SafeInv, WellFormed, PlacementInv, WellPlaced
      <4>2. QED
        BY <1>1, <3>1, <4>1 DEF RouterInv, MessageInv
    <3>3. contents' = [contents EXCEPT ![placement.secondAt] = parent.message]
      BY <2>2, <3>1 DEF FinishWrite, CopyFirst, Publish
    <3>4. QED
      BY <1>2, <3>2, <3>3
  <2>3. QED
    BY <2>1, <2>2
<1>4. contents'[at] = parent.message
      /\ \A l \in Lines : l # at => contents'[l] = contents[l]
  BY <1>2, <1>3 DEF RouterInv, RouterTypes
<1>5. \A l \in UnreadLines : lines'[l] = lines[l] /\ contents'[l] = contents[l]
  <2>1. SUFFICES ASSUME NEW l \in UnreadLines
                 PROVE  lines'[l] = lines[l] /\ contents'[l] = contents[l]
    OBVIOUS
  <2>2. l \in Lines /\ l # at
    BY <1>2, Numbers
  <2>3. contents'[l] = contents[l]
    BY <1>4, <2>2
  <2>4. FirstLines \cup SecondLines = {at}
    BY <1>1, WriteLine DEF RouterInv
  <2>5. CASE CopyFirst
    <3>1. l \notin RecordLines(placement.firstAt, FirstRecord.size)
      <4>1. placement.firstSize > 0 /\ FirstRecord.size = placement.firstSize
        BY <2>5 DEF CopyFirst, RouterInv, SafeInv, CopiedInv, FirstRecord, Record
      <4>2. QED
        BY <2>2, <2>4, <4>1 DEF FirstLines
    <3>2. lines' = WriteToHeader(lines, placement.firstAt, FirstRecord)
      BY <2>5 DEF CopyFirst
    <3>3. QED
      BY <2>2, <2>3, <3>1, <3>2 DEF WriteToHeader
  <2>6. CASE CopySecond
    <3>1. l \notin RecordLines(placement.secondAt, SecondRecord.size)
      <4>1. placement.secondSize > 0 /\ SecondRecord.size = placement.secondSize
        BY <2>6 DEF CopySecond, RouterInv, SafeInv, CopiedInv, SecondRecord, Record
      <4>2. QED
        BY <2>2, <2>4, <4>1 DEF SecondLines
    <3>2. lines' = WriteToHeader(lines, placement.secondAt, SecondRecord)
      BY <2>6 DEF CopySecond
    <3>3. QED
      BY <2>2, <2>3, <3>1, <3>2 DEF WriteToHeader
  <2>7. QED
    BY <2>5, <2>6
<1>6. /\ Announcing' = Announcing
      /\ UNCHANGED <<Published, Consumed, TextsWritten, TextsConsumed>>
  <2>1. Announcing' = Announcing
    BY <1>1 DEF Announcing
  <2>2. UNCHANGED <<Consumed, TextsConsumed>>
    BY <1>1 DEF Consumed, TextsConsumed, Told
  <2>3. UNCHANGED <<Published, TextsWritten>>
    BY <1>1, <2>1 DEF Published, TextsWritten
  <2>4. QED
    BY <2>1, <2>2, <2>3
<1>7. RouterTypes'
  <2>1. parent.message \in [kind : {"nothing", "announcement", "text"}, n : Nat]
    BY DEF RouterInv, RouterTypes
  <2>2. contents' \in [Lines -> [kind : {"nothing", "announcement", "text"}, n : Nat]]
    BY <1>2, <1>3, <2>1 DEF RouterInv, RouterTypes
  <2>3. QED
    BY <1>1, <2>2 DEF RouterInv, RouterTypes
<1>8. IdsInv'
  BY <1>1 DEF RouterInv, IdsInv
<1>9. MessageInv'
  BY <1>1, <1>4, <1>6 DEF RouterInv, MessageInv, SetUp
<1>10. ProgressInv'
  BY <1>1, <1>6 DEF RouterInv, ProgressInv, Distance
<1>11. ContentsInv'
  BY <1>1, <1>5, <1>6, ContentsStay DEF UnreadLines
<1>12. NobodyThrows'
  BY <1>1 DEF RouterInv, NobodyThrows
<1>13. QED
  BY <1>7, <1>8, <1>9, <1>10, <1>11, <1>12 DEF RouterPart

\* The published line is the last one that the reader comes to.
LEMMA PublishMovesOn ==
  ASSUME RouterInv, Publish
  PROVE  LET at == placement.firstAt
         IN  /\ at \in Lines /\ at \in Nat
             /\ Distance(at) = Distance(writeOffset)
             /\ writeOffset # Size => at = writeOffset
             /\ writeOffset = Size => at < readOffset
             /\ writeOffset' = at + LineSize
             /\ Distance(writeOffset)' = Distance(writeOffset) + LineSize
             /\ UnreadLines' \subseteq UnreadLines \cup {at}
             /\ lines[at].header
             /\ lines[at].rec = Record(placement.id, 0, placement.size)
<1> DEFINE at == placement.firstAt
<1>1. /\ Writing /\ writer = "publish" /\ writeOffset' = placement.newOffset
      /\ UNCHANGED <<readOffset, lines>>
  BY DEF Publish, Writing
<1>2. /\ at \in Lines
      /\ placement.newOffset = at + LineSize
      /\ at = IF writeOffset = Size THEN 0 ELSE writeOffset
      /\ writeOffset = Size => LineSize < readOffset
      /\ writeOffset < readOffset => at + LineSize < readOffset
      /\ FirstLines \cup SecondLines = {at}
      /\ lines[at].header
      /\ lines[at].rec = Record(placement.id, 0, placement.size)
  BY <1>1, WriteLine DEF RouterInv
<1>3. at \in Nat
  BY <1>2, LinesAreAligned
<1>4. UnreadLines' \subseteq UnreadLines \cup {at}
  BY <1>2, PublishedLines DEF RouterInv
<1> HIDE DEF at
<1>5. writeOffset' = at + LineSize
  BY <1>1, <1>2
<1>6. /\ writeOffset # Size => at = writeOffset
      /\ writeOffset = Size => at < readOffset
      /\ Distance(at) = Distance(writeOffset)
      /\ Distance(writeOffset)' = Distance(writeOffset) + LineSize
  <2>1. /\ Size \in Nat /\ readOffset \in Nat /\ readOffset < Size
        /\ writeOffset \in Nat /\ readOffset' = readOffset
    BY <1>1, Numbers
  <2>2. CASE writeOffset = Size
    <3>1. at = 0 /\ at < readOffset /\ at + LineSize < readOffset
      BY <1>2, <2>1, <2>2 DEF LineSize
    <3>2. Distance(at) = Size - readOffset /\ Distance(writeOffset) = Size - readOffset
      BY <2>1, <2>2, <3>1 DEF Distance
    <3>3. Distance(writeOffset)' = LineSize - readOffset + Size
      BY <1>5, <2>1, <3>1 DEF Distance, LineSize
    <3>4. QED
      BY <2>1, <2>2, <3>1, <3>2, <3>3 DEF LineSize
  <2>3. CASE writeOffset # Size
    <3>1. at = writeOffset
      BY <1>2, <2>3
    <3>2. QED
      BY <1>2, <1>5, <2>1, <2>3, <3>1 DEF Distance, LineSize
  <2>4. QED
    BY <2>2, <2>3
<1>7. QED
  BY <1>2, <1>3, <1>4, <1>5, <1>6 DEF at

\* What is published is the next announcement or, once all are, a text.
LEMMA PublishKeeps ==
  ASSUME RouterInv, Publish, UNCHANGED <<parent, child, contents, replies>>
  PROVE  RouterPart'
<1> DEFINE at == placement.firstAt
<1>1. /\ Writing /\ ~Writing' /\ writer = "publish"
      /\ UNCHANGED <<readOffset, lines, reader, held>>
  BY DEF Publish, Writing, readerVars
<1>2. /\ at \in Lines /\ at \in Nat
      /\ Distance(at) = Distance(writeOffset)
      /\ writeOffset # Size => at = writeOffset
      /\ writeOffset = Size => at < readOffset
      /\ writeOffset' = at + LineSize
      /\ Distance(writeOffset)' = Distance(writeOffset) + LineSize
      /\ UnreadLines' \subseteq UnreadLines \cup {at}
      /\ lines[at].header
      /\ lines[at].rec = Record(placement.id, 0, placement.size)
  BY PublishMovesOn
<1>3. contents[at] = parent.message
  BY <1>1 DEF RouterInv, MessageInv
<1> HIDE DEF at
<1>4. UNCHANGED <<Consumed, TextsConsumed>>
  BY <1>1 DEF Consumed, TextsConsumed, Told
<1>5. /\ Size \in Nat /\ readOffset \in Nat /\ readOffset < Size
      /\ NewChannels \in Nat /\ Consumed \in Nat /\ Published \in Nat
      /\ TextsWritten \in Nat /\ TextsConsumed \in Int
      /\ Len(parent.channels) \in Nat /\ parent.texts \in Nat
      /\ Len(parent.channels) <= NewChannels
      /\ Consumed <= Published /\ Published <= NewChannels
  <2>1. Published <= Len(parent.channels)
    <3>1. Len(parent.channels) \in Nat
      BY Numbers
    <3>2. CASE Announcing
      BY <3>1, <3>2 DEF Published
    <3>3. CASE ~Announcing
      BY <3>1, <3>3 DEF Published
    <3>4. QED
      BY <3>2, <3>3
  <2>2. Len(parent.channels) <= NewChannels /\ Consumed <= Published
    BY DEF RouterInv, IdsInv, ProgressInv
  <2>3. QED
    BY <2>1, <2>2, Numbers
<1>6. ~Announcing'
  BY <1>1 DEF Announcing
<1>7. /\ Published' = Len(parent.channels)
      /\ TextsWritten' = parent.texts
  BY <1>1, <1>5, <1>6 DEF Published, TextsWritten
<1>8. ASSUME Announcing
      PROVE  /\ ProgressInv'
             /\ IF Consumed < NewChannels /\ readOffset <= at
                     /\ at < AnnouncementsEnd
                  THEN HoldsAnnouncement(at) ELSE HoldsText(at)
  <2>1. /\ Published' = Published + 1 /\ Published < NewChannels
        /\ TextsWritten' = TextsWritten
    <3>1. Published = Len(parent.channels) - 1 /\ TextsWritten = parent.texts - 0
      BY <1>8 DEF Published, TextsWritten
    <3>2. QED
      BY <1>5, <1>7, <3>1
  <2>2. /\ at = LineSize * Published /\ writeOffset # Size /\ parent.texts = 0
        /\ at < AnnouncementsEnd
    <3>1. writeOffset = LineSize * Published /\ parent.texts = 0
      BY <2>1 DEF RouterInv, ProgressInv
    <3>2. LineSize * Published < AnnouncementsEnd
      BY <1>5, <2>1 DEF AnnouncementsEnd, LineSize
    <3>3. AnnouncementsEnd \in Nat /\ AnnouncementsEnd <= Size
      BY Numbers
    <3>4. writeOffset # Size
      BY <1>5, <3>1, <3>2, <3>3
    <3>5. QED
      BY <1>2, <3>1, <3>2, <3>4
  <2>3. ProgressInv'
    <3>1. Consumed' <= Published'
      BY <1>4, <1>5, <2>1
    <3>2. Published' < NewChannels =>
            writeOffset' = LineSize * Published' /\ parent'.texts = 0
      BY <1>2, <1>5, <2>1, <2>2 DEF LineSize
    <3>3. Distance(writeOffset)' = LineSize *
            (Published' - Consumed' + TextsWritten' - TextsConsumed')
      <4>1. Distance(writeOffset) =
              LineSize * (Published - Consumed + TextsWritten - TextsConsumed)
        BY DEF RouterInv, ProgressInv
      <4>2. QED
        BY <1>2, <1>4, <1>5, <2>1, <4>1 DEF LineSize
    <3>4. /\ child'.dispatched => reader' = "held"
          /\ Consumed' < NewChannels =>
               readOffset' = LineSize * Consumed' /\ TextsConsumed' = 0
      BY <1>1, <1>4 DEF RouterInv, ProgressInv
    <3>5. QED
      BY <3>1, <3>2, <3>3, <3>4 DEF ProgressInv
  <2>4. /\ Consumed < NewChannels /\ readOffset <= at
        /\ HoldsAnnouncement(at)
    <3>1. Consumed < NewChannels
      BY <1>5, <2>1
    <3>2. readOffset = LineSize * Consumed
      BY <3>1 DEF RouterInv, ProgressInv
    <3>3. readOffset <= at
      BY <1>5, <2>2, <3>2 DEF LineSize
    <3>4. contents[at] = Announcement(Published + 2)
      <4>1. parent.message = Announcement(Len(parent.channels) + 1)
        BY <1>1, <1>8 DEF RouterInv, MessageInv
      <4>2. Len(parent.channels) + 1 = Published + 2
        BY <1>5, <1>7, <2>1
      <4>3. QED
        BY <1>3, <4>1, <4>2
    <3>5. lines[at].rec = Record(ControlId, 0, AnnouncementSize)
      BY <1>1, <1>2, <1>8 DEF RouterInv, MessageInv, Announcing
    <3>6. contents[at].kind = "announcement" /\ contents[at].n = Published + 2
      BY <3>4 DEF Announcement
    <3>7. at = LineSize * (contents[at].n - 2)
      BY <1>5, <2>2, <3>6 DEF LineSize
    <3>8. QED
      BY <3>1, <3>3, <3>5, <3>6, <3>7 DEF HoldsAnnouncement
  <2>5. QED
    BY <2>2, <2>3, <2>4
<1>9. ASSUME ~Announcing
      PROVE  /\ ProgressInv'
             /\ IF Consumed < NewChannels /\ readOffset <= at
                     /\ at < AnnouncementsEnd
                  THEN HoldsAnnouncement(at) ELSE HoldsText(at)
  <2>1. /\ SetUp /\ parent.texts > 0 /\ parent.message = Text(parent.texts)
        /\ placement.id \in 2 .. NewChannels + 1 /\ placement.size = TextSize
    BY <1>1, <1>9 DEF RouterInv, MessageInv
  <2>2. /\ Published = NewChannels /\ Published' = Published
        /\ TextsWritten = parent.texts - 1 /\ TextsWritten' = parent.texts
    <3>1. Published = Len(parent.channels) - 0 /\ TextsWritten = parent.texts - 1
      BY <1>1, <1>9 DEF Published, TextsWritten
    <3>2. Len(parent.channels) = NewChannels
      BY <2>1 DEF SetUp
    <3>3. QED
      BY <1>5, <1>7, <3>1, <3>2
  <2>3. Distance(writeOffset) =
          LineSize * (Published - Consumed + TextsWritten - TextsConsumed)
    BY DEF RouterInv, ProgressInv
  <2>4. ProgressInv'
    <3>1. Distance(writeOffset)' = LineSize *
            (Published' - Consumed' + TextsWritten' - TextsConsumed')
      <4>1. Published' - Consumed' + TextsWritten' - TextsConsumed' =
              (Published - Consumed + TextsWritten - TextsConsumed) + 1
        <5>1. /\ Published \in Nat /\ Consumed \in Nat
              /\ parent.texts \in Nat /\ TextsConsumed \in Int
          BY <1>5
        <5>2. QED
          BY <1>4, <2>2, <5>1
      <4>2. Published - Consumed + TextsWritten - TextsConsumed \in Int
        BY <1>5
      <4>3. QED
        BY <1>2, <2>3, <4>1, <4>2 DEF LineSize
    <3>2. Consumed' <= Published' /\ ~(Published' < NewChannels)
      BY <1>4, <1>5, <2>2
    <3>3. /\ child'.dispatched => reader' = "held"
          /\ Consumed' < NewChannels =>
               readOffset' = LineSize * Consumed' /\ TextsConsumed' = 0
      BY <1>1, <1>4 DEF RouterInv, ProgressInv
    <3>4. QED
      BY <3>1, <3>2, <3>3 DEF ProgressInv
  <2>5. ~(Consumed < NewChannels /\ readOffset <= at /\ at < AnnouncementsEnd)
    <3>1. SUFFICES ASSUME Consumed < NewChannels, readOffset <= at
                   PROVE  ~(at < AnnouncementsEnd)
      OBVIOUS
    <3>2. readOffset = LineSize * Consumed /\ TextsConsumed = 0
      BY <3>1 DEF RouterInv, ProgressInv
    <3>3. at = readOffset + Distance(writeOffset)
      BY <1>2, <1>5, <3>1 DEF Distance
    <3>4. at = LineSize * (NewChannels + TextsWritten)
      <4>1. Published - Consumed + TextsWritten - TextsConsumed =
              NewChannels - Consumed + TextsWritten
        BY <1>5, <2>2, <3>2
      <4>2. Distance(writeOffset) = LineSize * (NewChannels - Consumed + TextsWritten)
        BY <2>3, <4>1
      <4>3. NewChannels \in Nat /\ Consumed \in Nat /\ TextsWritten \in Nat
        BY <1>5
      <4>4. QED
        BY <3>2, <3>3, <4>2, <4>3 DEF LineSize
    <3>5. QED
      BY <1>5, <3>4 DEF AnnouncementsEnd, LineSize
  <2>6. HoldsText(at)
    <3>1. contents[at].kind = "text" /\ contents[at].n = parent.texts
      BY <1>3, <2>1 DEF Text
    <3>2. lines[at].rec.id \in 2 .. NewChannels + 1 /\ lines[at].rec.size = TextSize
      BY <1>2, <2>1 DEF Record
    <3>3. Published - Consumed + TextsWritten - TextsConsumed =
            NewChannels - Consumed + contents[at].n - 1 - TextsConsumed
      BY <1>5, <2>2, <3>1
    <3>4. Distance(at) = LineSize *
            (NewChannels - Consumed + contents[at].n - 1 - TextsConsumed)
      BY <1>2, <2>3, <3>3
    <3>5. QED
      BY <3>1, <3>2, <3>4 DEF HoldsText
  <2>7. QED
    BY <2>4, <2>5, <2>6
<1>10. ProgressInv'
  BY <1>8, <1>9
<1>11. ContentsInv'
  <2>1. SUFFICES ASSUME NEW l \in UnreadLines'
                 PROVE  /\ lines'[l].header
                        /\ IF Consumed' < NewChannels /\ readOffset' <= l
                                /\ l < AnnouncementsEnd
                             THEN HoldsAnnouncement(l)'
                             ELSE HoldsText(l)'
    BY DEF ContentsInv, AnnouncementsEnd
  <2>2. /\ HoldsAnnouncement(l) => HoldsAnnouncement(l)'
        /\ HoldsText(l) => HoldsText(l)'
    BY <1>1, <1>4 DEF HoldsAnnouncement, HoldsText, Distance
  <2>3. CASE l \in UnreadLines
    BY <1>1, <1>4, <2>2, <2>3 DEF RouterInv, ContentsInv
  <2>4. CASE l = at
    <3>1. IF Consumed < NewChannels /\ readOffset <= at /\ at < AnnouncementsEnd
            THEN HoldsAnnouncement(at) ELSE HoldsText(at)
      BY <1>8, <1>9
    <3>2. QED
      BY <1>1, <1>2, <1>4, <2>2, <2>4, <3>1
  <2>5. QED
    BY <1>2, <2>1, <2>3, <2>4
<1>12. RouterTypes' /\ IdsInv' /\ MessageInv' /\ NobodyThrows'
  BY <1>1 DEF RouterInv, RouterTypes, IdsInv, MessageInv, NobodyThrows
<1>13. QED
  BY <1>10, <1>11, <1>12 DEF RouterPart

\* The child only replies on channels that it was told of, and all of them are
\* the parent's.
LEMMA ReadReplyKeeps ==
  ASSUME RouterInv, ReadReply
  PROVE  RouterPart'
<1>1. /\ replies # <<>> /\ replies' = Tail(replies) /\ UNCHANGED <<vars, child, contents>>
      /\ parent' = [parent EXCEPT !.threw =
                      Head(replies) \notin parent.handlers \ {ControlId}]
  BY DEF ReadReply
<1>2. /\ replies \in Seq(Nat) /\ Head(replies) = replies[1] /\ 1 \in 1 .. Len(replies)
      /\ Tail(replies) \in Seq(Nat)
      /\ \A i \in 1 .. Len(Tail(replies)) :
           i + 1 \in 1 .. Len(replies) /\ Tail(replies)[i] = replies[i + 1]
  <2>1. replies \in Seq(Nat) /\ replies # <<>>
    BY <1>1 DEF RouterInv, RouterTypes
  <2>2. Head(replies) = replies[1] /\ 1 \in 1 .. Len(replies)
    BY <2>1
  <2>3. Tail(replies) \in Seq(Nat) /\ Len(Tail(replies)) = Len(replies) - 1
    BY <2>1
  <2>4. \A i \in 1 .. Len(Tail(replies)) :
          i + 1 \in 1 .. Len(replies) /\ Tail(replies)[i] = replies[i + 1]
    BY <2>1, <2>3
  <2>5. QED
    BY <2>1, <2>2, <2>3, <2>4
<1>3. Head(replies) \in parent.handlers \ {ControlId}
  <2>1. replies[1] \in 2 .. Len(child.channels) + 1
    BY <1>2 DEF RouterInv, IdsInv
  <2>2. /\ Len(child.channels) <= Len(parent.channels)
        /\ parent.handlers = 1 .. Len(parent.channels) + 1
    BY DEF RouterInv, IdsInv
  <2>3. replies[1] \in 1 .. Len(parent.channels) + 1 /\ replies[1] # 1
    <3>1. Len(child.channels) \in Nat /\ Len(parent.channels) \in Nat
      BY Numbers
    <3>2. QED
      BY <2>1, <2>2, <3>1
  <2>4. QED
    BY <1>2, <2>2, <2>3 DEF ControlId
<1>4. /\ parent'.channels = parent.channels /\ parent'.handlers = parent.handlers
      /\ parent'.nextId = parent.nextId /\ parent'.texts = parent.texts
      /\ parent'.message = parent.message /\ parent'.threw = FALSE
      /\ parent' \in [handlers : SUBSET Nat, nextId : Nat, channels : Seq(Nat),
                      message : [kind : {"nothing", "announcement", "text"}, n : Nat],
                      texts : Nat, threw : BOOLEAN]
  BY <1>1, <1>3 DEF RouterInv, RouterTypes
<1>5. /\ UNCHANGED <<readOffset, writeOffset, lines, writer, placement, reader, held>>
  BY <1>1 DEF vars
<1>6. Announcing' = Announcing /\ UNCHANGED <<Consumed, TextsConsumed>>
  BY <1>1, <1>5 DEF Announcing, Writing, Consumed, TextsConsumed, Told
<1>7. UNCHANGED <<Published, TextsWritten>>
  BY <1>4, <1>5, <1>6 DEF Published, TextsWritten, Writing
<1>8. RouterTypes'
  BY <1>1, <1>2, <1>4 DEF RouterInv, RouterTypes
<1>9. IdsInv'
  <2>1. \A i \in 1 .. Len(replies') : replies'[i] \in 2 .. Len(child'.channels) + 1
    BY <1>1, <1>2 DEF RouterInv, IdsInv
  <2>2. QED
    BY <1>1, <1>4, <2>1 DEF RouterInv, IdsInv
<1>10. MessageInv'
  BY <1>1, <1>4, <1>5, <1>6 DEF RouterInv, MessageInv, Writing, SetUp
<1>11. ProgressInv'
  BY <1>1, <1>4, <1>5, <1>6, <1>7 DEF RouterInv, ProgressInv, Distance
<1>12. ContentsInv'
  BY <1>1, <1>5, <1>6, ContentsStay DEF UnreadLines
<1>13. NobodyThrows'
  BY <1>1, <1>4 DEF RouterInv, NobodyThrows
<1>14. QED
  BY <1>8, <1>9, <1>10, <1>11, <1>12, <1>13 DEF RouterPart

-----------------------------------------------------------------------------
(* The child's steps.                                                      *)

\* read_header() only remembers which record it has found.
LEMMA FindHeaderKeeps ==
  ASSUME RouterInv, FindHeader
  PROVE  RouterPart'
<1>1. /\ reader = "idle" /\ ReadHeader
      /\ UNCHANGED <<readOffset, writeOffset, lines, writer, placement, parent, child,
                     contents, replies>>
  BY DEF FindHeader, ReadHeader, writerVars
<1>2. ~child.dispatched /\ ~child'.dispatched
  BY <1>1 DEF RouterInv, ProgressInv
<1>3. UNCHANGED <<Announcing, Consumed, TextsConsumed>>
  BY <1>1, <1>2 DEF Announcing, Writing, Consumed, TextsConsumed, Told
<1>4. UNCHANGED <<Published, TextsWritten>>
  BY <1>1, <1>3 DEF Published, TextsWritten, Writing
<1>5. RouterTypes' /\ IdsInv' /\ NobodyThrows'
  BY <1>1 DEF RouterInv, RouterTypes, IdsInv, NobodyThrows
<1>6. MessageInv'
  BY <1>1, <1>3 DEF RouterInv, MessageInv, Writing, SetUp
<1>7. ProgressInv'
  BY <1>1, <1>2, <1>3, <1>4 DEF RouterInv, ProgressInv, Distance
<1>8. ContentsInv'
  BY <1>1, <1>3, ContentsStay DEF UnreadLines
<1>9. QED
  BY <1>5, <1>6, <1>7, <1>8 DEF RouterPart

\* The handler is told an id that is new to it, or gets a text on one it knows.
LEMMA DispatchKeeps ==
  ASSUME RouterInv, Dispatch
  PROVE  RouterPart'
<1> DEFINE told == contents[readOffset].n
           c    == Len(child.channels)
<1>1. /\ reader = "held" /\ ~child.dispatched
      /\ UNCHANGED <<vars, parent, contents, replies>>
  BY DEF Dispatch
<1>2. UNCHANGED <<readOffset, writeOffset, lines, writer, placement, reader, held>>
  BY <1>1 DEF vars
<1>3. /\ c \in Nat /\ child.texts \in Nat /\ NewChannels \in Nat
      /\ Consumed = c - 0 /\ TextsConsumed = child.texts - 0
      /\ Len(parent.channels) \in Nat /\ Published <= Len(parent.channels)
      /\ Len(parent.channels) <= NewChannels
      /\ told \in Nat /\ child.handlers = 1 .. c + 1
  <2>1. Len(parent.channels) \in Nat
    BY Numbers
  <2>2. Published <= Len(parent.channels)
    <3>1. CASE Announcing
      BY <2>1, <3>1 DEF Published
    <3>2. CASE ~Announcing
      BY <2>1, <3>2 DEF Published
    <3>3. QED
      BY <3>1, <3>2
  <2>3. Consumed = c - 0 /\ TextsConsumed = child.texts - 0
    BY <1>1 DEF Consumed, TextsConsumed, Told
  <2>4. /\ told \in Nat /\ child.handlers = 1 .. c + 1
        /\ Len(parent.channels) <= NewChannels
    BY Numbers DEF RouterInv, RouterTypes, IdsInv
  <2>5. QED
    BY <2>1, <2>2, <2>3, <2>4, Numbers
<1>4. UNCHANGED <<Announcing, Published, TextsWritten>>
  <2>1. UNCHANGED Announcing
    BY <1>2 DEF Announcing, Writing
  <2>2. QED
    BY <1>1, <1>2, <2>1 DEF Published, TextsWritten, Writing
<1>5. ASSUME held.id = ControlId
      PROVE  /\ child'.channels = Append(child.channels, c + 2)
             /\ child'.handlers = child.handlers \cup {c + 2}
             /\ child'.threw = FALSE /\ child'.dispatched = TRUE
             /\ child'.texts = child.texts
             /\ child' \in [handlers : SUBSET Nat, channels : Seq(Nat),
                            dispatched : BOOLEAN, texts : Nat, threw : BOOLEAN]
             /\ c + 1 <= Len(parent.channels)
  <2>1. held.size = AnnouncementSize /\ told = c + 2 /\ c < Published
    BY <1>1, <1>3, <1>5, NextMessage DEF HoldsAnnouncement, Record
  <2>2. held.id \in child.handlers /\ told \notin child.handlers
    BY <1>3, <1>5, <2>1 DEF ControlId
  <2>3. c + 1 <= Len(parent.channels)
    <3>1. Published \in Nat
      BY Numbers
    <3>2. QED
      BY <1>3, <2>1, <3>1
  <2> DEFINE known == told \in child.handlers
  <2>4. /\ child' = [child EXCEPT !.channels = Append(@, told), !.threw = known,
                                  !.handlers = @ \cup {told}, !.dispatched = TRUE]
        /\ known \in BOOLEAN /\ ~known
    BY <1>5, <2>1, <2>2 DEF Dispatch
  <2> HIDE DEF known
  <2>5. /\ child \in [handlers : SUBSET Nat, channels : Seq(Nat),
                      dispatched : BOOLEAN, texts : Nat, threw : BOOLEAN]
        /\ Append(child.channels, told) \in Seq(Nat)
        /\ child.handlers \cup {told} \in SUBSET Nat
    BY <1>3 DEF RouterInv, RouterTypes
  <2>6. /\ child'.channels = Append(child.channels, told)
        /\ child'.handlers = child.handlers \cup {told}
        /\ child'.threw = known /\ child'.dispatched = TRUE
        /\ child'.texts = child.texts
        /\ child' \in [handlers : SUBSET Nat, channels : Seq(Nat),
                       dispatched : BOOLEAN, texts : Nat, threw : BOOLEAN]
    BY <2>4, <2>5
  <2>7. known = FALSE
    BY <2>4
  <2>8. QED
    BY <2>1, <2>3, <2>6, <2>7
<1>6. ASSUME held.id # ControlId
      PROVE  /\ child' = [child EXCEPT !.dispatched = TRUE,
                                       !.texts = child.texts + 1]
             /\ c = NewChannels
  <2>1. /\ told = child.texts + 1 /\ NewChannels <= c
        /\ held.id \in 2 .. NewChannels + 1
    <3>1. /\ held = lines[readOffset].rec
          /\ NewChannels <= Consumed /\ HoldsText(readOffset)
          /\ told = TextsConsumed + 1
      BY <1>1, <1>6, NextMessage
    <3>2. held.id \in 2 .. NewChannels + 1
      BY <3>1 DEF HoldsText
    <3>3. Consumed = c /\ TextsConsumed = child.texts
      BY <1>3
    <3>4. QED
      BY <3>1, <3>2, <3>3
  <2>2. c = NewChannels
    BY <1>3, <2>1, Numbers DEF RouterInv, IdsInv
  <2>3. held.id \in child.handlers
    BY <1>3, <2>1, <2>2
  <2>4. QED
    BY <1>6, <2>1, <2>2, <2>3 DEF Dispatch
<1> HIDE DEF told, c
<1>7. ASSUME held.id = ControlId
      PROVE  /\ RouterTypes' /\ IdsInv' /\ UNCHANGED <<Consumed, TextsConsumed>>
             /\ child'.threw = FALSE /\ child'.dispatched
  <2>1. /\ child'.channels = Append(child.channels, c + 2)
        /\ child'.threw = FALSE /\ child'.handlers = child.handlers \cup {c + 2}
        /\ child'.dispatched = TRUE /\ child'.texts = child.texts
        /\ child.channels \in Seq(Nat)
        /\ RouterTypes'
    BY <1>1, <1>5, <1>7 DEF RouterInv, RouterTypes
  <2>2. /\ Len(child'.channels) = c + 1
        /\ \A i \in 1 .. c : child'.channels[i] = child.channels[i]
        /\ child'.channels[c + 1] = c + 2
    BY <1>3, <2>1 DEF c
  <2>4. IdsInv'
    <3>1. \A i \in 1 .. c + 1 : child'.channels[i] = i + 1
      <4>1. \A i \in 1 .. c : child.channels[i] = i + 1
        BY DEF RouterInv, IdsInv, c
      <4>2. QED
        BY <1>3, <2>2, <4>1
    <3>2. child'.handlers = 1 .. (c + 1) + 1
      BY <1>3, <2>1
    <3>3. \A i \in 1 .. Len(replies') : replies'[i] \in 2 .. (c + 1) + 1
      <4>1. \A i \in 1 .. Len(replies) : replies[i] \in 2 .. c + 1
        BY DEF RouterInv, IdsInv, c
      <4>2. QED
        BY <1>1, <1>3, <4>1
    <3>4. QED
      BY <1>1, <1>5, <1>7, <2>2, <3>1, <3>2, <3>3 DEF RouterInv, IdsInv
  <2>5. UNCHANGED <<Consumed, TextsConsumed>>
    <3>1. Told'
      BY <1>2, <1>7, <2>1 DEF Told
    <3>2. Consumed' = (c + 1) - 1 /\ TextsConsumed' = child.texts - 0
      BY <2>1, <2>2, <3>1 DEF Consumed, TextsConsumed
    <3>3. QED
      BY <1>3, <3>2
  <2>6. QED
    BY <2>1, <2>4, <2>5
<1>8. ASSUME held.id # ControlId
      PROVE  /\ RouterTypes' /\ IdsInv' /\ UNCHANGED <<Consumed, TextsConsumed>>
             /\ child'.threw = FALSE /\ child'.dispatched
  <2>1. /\ child'.channels = child.channels /\ child'.handlers = child.handlers
        /\ child'.threw = child.threw
        /\ child'.dispatched = TRUE /\ child'.texts = child.texts + 1
    BY <1>6, <1>8 DEF RouterInv, RouterTypes
  <2>2. RouterTypes'
    <3>1. child' = [child EXCEPT !.dispatched = TRUE, !.texts = child.texts + 1]
      BY <1>6, <1>8
    <3>2. child.texts + 1 \in Nat
      BY <1>3
    <3>3. child' \in [handlers : SUBSET Nat, channels : Seq(Nat),
                      dispatched : BOOLEAN, texts : Nat, threw : BOOLEAN]
      BY <3>1, <3>2 DEF RouterInv, RouterTypes
    <3>4. QED
      BY <1>1, <3>3 DEF RouterInv, RouterTypes
  <2>3. IdsInv'
    BY <1>1, <2>1 DEF RouterInv, IdsInv
  <2>4. UNCHANGED <<Consumed, TextsConsumed>>
    <3>1. ~Told'
      BY <1>2, <1>8 DEF Told
    <3>2. Consumed' = c - 0 /\ TextsConsumed' = (child.texts + 1) - 1
      BY <2>1, <3>1 DEF Consumed, TextsConsumed, c
    <3>3. QED
      BY <1>3, <3>2
  <2>5. QED
    BY <2>1, <2>2, <2>3, <2>4 DEF RouterInv, NobodyThrows
<1>9. MessageInv'
  BY <1>1, <1>2, <1>4 DEF RouterInv, MessageInv, Writing, SetUp
<1>10. ProgressInv'
  BY <1>1, <1>2, <1>4, <1>7, <1>8 DEF RouterInv, ProgressInv, Distance
<1>11. ContentsInv'
  BY <1>1, <1>2, <1>7, <1>8, ContentsStay DEF UnreadLines
<1>12. NobodyThrows'
  BY <1>1, <1>7, <1>8 DEF RouterInv, NobodyThrows
<1>13. QED
  BY <1>7, <1>8, <1>9, <1>10, <1>11, <1>12 DEF RouterPart

\* Consuming brings the reader one line closer to everything that is left.
LEMMA ConsumeComesCloser ==
  ASSUME RouterInv, ConsumeHeader, ~DrainsAtEnd
  PROVE  /\ \/ readOffset' = readOffset + LineSize
            \/ /\ readOffset' = 0
               /\ readOffset + LineSize = Size
         /\ UnreadLines' \subseteq UnreadLines \ {readOffset}
         /\ \A l \in UnreadLines' :
              /\ Distance(l)' = Distance(l) - LineSize
              /\ readOffset + LineSize = Size => l < readOffset
         /\ Distance(writeOffset)' = Distance(writeOffset) - LineSize
         /\ reader = "held" /\ reader' = "idle"
<1> DEFINE size == lines[readOffset].rec.size
           end  == RecordEnd(readOffset, size)
<1>1. /\ Size \in Nat /\ readOffset \in Lines
      /\ readOffset \in Nat /\ readOffset < Size
      /\ writeOffset \in Nat /\ writeOffset <= Size
      /\ writeOffset' = writeOffset
  BY Numbers DEF ConsumeHeader
<1>2. end = readOffset + LineSize
  <2>1. reader = "held"
    BY DEF ConsumeHeader
  <2>2. size \in {AnnouncementSize, TextSize}
    BY <2>1, NextMessage
  <2>3. QED
    BY <1>1, <2>2, OneLine
<1>3. /\ reader = "held" /\ reader' = "idle"
      /\ \/ readOffset < writeOffset /\ end <= writeOffset /\ readOffset' = end
         \/ writeOffset < readOffset /\ end < Size /\ readOffset' = end
         \/ writeOffset < readOffset /\ 0 < writeOffset /\ readOffset' = 0
  BY ConsumeMoves DEF ConsumeHeader, RouterInv
<1>4. readOffset' = IF end = Size THEN 0 ELSE end
  BY <1>3 DEF ConsumeHeader, NextOffset
<1> HIDE DEF size, end
<1>5. end \in Nat /\ readOffset < end /\ end > 0 /\ LineSize \in Nat
  BY <1>1, <1>2 DEF LineSize
<1>6. \/ readOffset < writeOffset /\ end <= writeOffset /\ readOffset' = end
      \/ writeOffset < readOffset /\ end < Size /\ readOffset' = end
      \/ writeOffset < readOffset /\ end = Size /\ readOffset' = 0
  BY <1>1, <1>3, <1>4, <1>5
<1>7. \A l \in UnreadLines' :
        /\ l \in Lines /\ l \in Nat /\ l < Size
        /\ IF readOffset' <= writeOffset
             THEN readOffset' <= l /\ l < writeOffset
             ELSE readOffset' <= l \/ l < writeOffset
  BY <1>1, LinesAreAligned DEF UnreadLines
<1>8. ASSUME NEW l \in UnreadLines'
      PROVE  /\ l \in UnreadLines \ {readOffset}
             /\ Distance(l)' = Distance(l) - LineSize
             /\ readOffset + LineSize = Size => l < readOffset
  <2>1. /\ l \in Lines /\ l \in Nat /\ l < Size
        /\ IF readOffset' <= writeOffset
             THEN readOffset' <= l /\ l < writeOffset
             ELSE readOffset' <= l \/ l < writeOffset
    BY <1>7
  <2>2. l # readOffset
    BY <1>1, <1>5, <1>6, <2>1
  <2>3. IF readOffset <= writeOffset
          THEN readOffset <= l /\ l < writeOffset
          ELSE readOffset <= l \/ l < writeOffset
    BY <1>1, <1>5, <1>6, <2>1
  <2>4. Distance(l)' = Distance(l) - LineSize
    BY <1>1, <1>2, <1>5, <1>6, <2>1 DEF Distance
  <2>5. readOffset + LineSize = Size => l < readOffset
    BY <1>1, <1>2, <1>5, <1>6, <2>1
  <2>6. QED
    BY <2>1, <2>2, <2>3, <2>4, <2>5 DEF UnreadLines
<1>9. Distance(writeOffset)' = Distance(writeOffset) - LineSize
  BY <1>1, <1>2, <1>5, <1>6 DEF Distance
<1>10. QED
  BY <1>2, <1>3, <1>4, <1>8, <1>9

\* What was consumed is an announcement while some are left, and then a text.
LEMMA ConsumeKeeps ==
  ASSUME RouterInv, Consume, ~DrainsAtEnd
  PROVE  RouterPart'
<1>1. /\ child.dispatched /\ ConsumeHeader
      /\ child' = [child EXCEPT !.dispatched = FALSE]
      /\ UNCHANGED <<parent, contents, replies, writeOffset, lines, writer, placement>>
  BY DEF Consume, ConsumeHeader, writerVars
<1>2. /\ \/ readOffset' = readOffset + LineSize
         \/ /\ readOffset' = 0
            /\ readOffset + LineSize = Size
      /\ UnreadLines' \subseteq UnreadLines \ {readOffset}
      /\ \A l \in UnreadLines' :
           /\ Distance(l)' = Distance(l) - LineSize
           /\ readOffset + LineSize = Size => l < readOffset
      /\ Distance(writeOffset)' = Distance(writeOffset) - LineSize
      /\ reader = "held"
  BY <1>1, ConsumeComesCloser
<1>3. /\ child'.channels = child.channels /\ child'.handlers = child.handlers
      /\ child'.threw = child.threw /\ child'.texts = child.texts
      /\ child'.dispatched = FALSE /\ child.dispatched
      /\ child' \in [handlers : SUBSET Nat, channels : Seq(Nat),
                     dispatched : BOOLEAN, texts : Nat, threw : BOOLEAN]
  BY <1>1 DEF RouterInv, RouterTypes
<1>4. RouterTypes' /\ IdsInv' /\ NobodyThrows'
  BY <1>1, <1>3 DEF RouterInv, RouterTypes, IdsInv, NobodyThrows
<1>5. UNCHANGED <<Announcing, Published, TextsWritten>> /\ MessageInv'
  <2>1. UNCHANGED Announcing
    BY <1>1 DEF Announcing, Writing
  <2>2. QED
    BY <1>1, <2>1
       DEF Published, TextsWritten, RouterInv, MessageInv, Writing, SetUp
<1>6. /\ Size \in Nat /\ readOffset \in Nat /\ readOffset < Size
      /\ NewChannels \in Nat /\ Consumed \in Nat /\ Published \in Nat
      /\ TextsWritten \in Nat /\ TextsConsumed \in Int
      /\ Len(child.channels) \in Nat /\ child.texts \in Nat
      /\ AnnouncementsEnd \in Nat /\ AnnouncementsEnd <= Size
      /\ Consumed <= Published
      /\ \A l \in UnreadLines : l \in Lines /\ l \in Nat
  BY Numbers DEF RouterInv, ProgressInv
<1>7. Consumed' = Len(child.channels) - 0 /\ TextsConsumed' = child.texts - 0
  BY <1>3 DEF Consumed, TextsConsumed, Told
<1>8. Distance(writeOffset) =
        LineSize * (Published - Consumed + TextsWritten - TextsConsumed)
  BY DEF RouterInv, ProgressInv
<1>9. ASSUME NEW l \in UnreadLines'
      PROVE  /\ l \in UnreadLines /\ l # readOffset /\ l \in Nat
             /\ Distance(l)' = Distance(l) - LineSize
             /\ lines'[l] = lines[l] /\ contents'[l] = contents[l]
             /\ l >= readOffset => l >= readOffset + LineSize
  <2>1. l \in UnreadLines /\ l # readOffset /\ l \in Lines /\ l \in Nat
    BY <1>2, <1>6
  <2>2. l % LineSize = 0 /\ readOffset % LineSize = 0
    BY <2>1, Numbers, LinesAreAligned
  <2>3. l >= readOffset => l >= readOffset + LineSize
    BY <1>6, <2>1, <2>2 DEF LineSize
  <2>4. QED
    BY <1>1, <1>2, <2>1, <2>3
<1>10. ASSUME held.id = ControlId
       PROVE  ProgressInv' /\ ContentsInv'
  <2>1. /\ Consumed < NewChannels /\ Consumed < Published
        /\ readOffset = LineSize * Consumed /\ TextsConsumed = 0
    BY <1>2, <1>10, NextMessage DEF RouterInv, ProgressInv
  <2>2. Consumed' = Consumed + 1 /\ TextsConsumed' = TextsConsumed
    <3>1. Told
      BY <1>3, <1>10 DEF Told
    <3>2. Consumed = Len(child.channels) - 1 /\ TextsConsumed = child.texts - 0
      BY <3>1 DEF Consumed, TextsConsumed
    <3>3. QED
      BY <1>6, <1>7, <3>2
  <2>3. Consumed' < NewChannels => readOffset' = LineSize * Consumed'
    BY <1>2, <1>6, <2>1, <2>2 DEF AnnouncementsEnd, LineSize
  <2>4. Distance(writeOffset)' = LineSize *
          (Published' - Consumed' + TextsWritten' - TextsConsumed')
    <3>1. Published' - Consumed' + TextsWritten' - TextsConsumed' =
            (Published - Consumed + TextsWritten - TextsConsumed) - 1
      BY <1>5, <1>6, <2>2
    <3>2. Published - Consumed + TextsWritten - TextsConsumed \in Int
      BY <1>6
    <3>3. QED
      BY <1>2, <1>8, <3>1, <3>2 DEF LineSize
  <2>5. /\ Consumed' <= Published' /\ ~child'.dispatched
        /\ Published' < NewChannels =>
             writeOffset' = LineSize * Published' /\ parent'.texts = 0
    BY <1>1, <1>3, <1>5, <1>6, <2>1, <2>2 DEF RouterInv, ProgressInv
  <2>6. ProgressInv'
    BY <2>1, <2>2, <2>3, <2>4, <2>5 DEF ProgressInv
  <2>7. ASSUME NEW l \in UnreadLines'
        PROVE  /\ lines'[l].header
               /\ IF Consumed' < NewChannels /\ readOffset' <= l
                       /\ l < AnnouncementsEnd
                    THEN HoldsAnnouncement(l)' ELSE HoldsText(l)'
    <3>1. /\ lines[l].header
          /\ IF readOffset <= l /\ l < AnnouncementsEnd
               THEN HoldsAnnouncement(l) ELSE HoldsText(l)
      BY <1>9, <2>1 DEF RouterInv, ContentsInv
    <3>2. HoldsAnnouncement(l) => HoldsAnnouncement(l)'
      BY <1>9 DEF HoldsAnnouncement
    <3>3. HoldsText(l) => HoldsText(l)'
      <4>1. SUFFICES ASSUME HoldsText(l) PROVE HoldsText(l)'
        OBVIOUS
      <4>2. Distance(l) = LineSize *
              (NewChannels - Consumed + contents[l].n - 1 - TextsConsumed)
        BY <4>1 DEF HoldsText
      <4>3. contents[l].n \in Nat
        BY <1>6, <1>9 DEF RouterInv, RouterTypes
      <4>4. /\ NewChannels - Consumed + contents[l].n - 1 - TextsConsumed \in Int
            /\ NewChannels - Consumed' + contents'[l].n - 1 - TextsConsumed' =
                 (NewChannels - Consumed + contents[l].n - 1 - TextsConsumed) - 1
        <5>1. contents'[l].n = contents[l].n
          BY <1>9
        <5>2. NewChannels \in Nat /\ Consumed \in Nat /\ TextsConsumed \in Int
          BY <1>6
        <5>3. QED
          BY <2>2, <4>3, <5>1, <5>2
      <4>5. Distance(l)' = LineSize *
              (NewChannels - Consumed' + contents'[l].n - 1 - TextsConsumed')
        BY <1>9, <4>2, <4>4 DEF LineSize
      <4>6. QED
        BY <1>9, <4>1, <4>5 DEF HoldsText
    <3>4. CASE readOffset <= l /\ l < AnnouncementsEnd
      <4>1. readOffset + LineSize <= l /\ l < LineSize * NewChannels
        BY <1>6, <1>9, <3>4 DEF AnnouncementsEnd, LineSize
      <4>2. Consumed' < NewChannels
        BY <1>6, <1>9, <2>1, <2>2, <4>1 DEF LineSize
      <4>3. readOffset' <= l
        BY <1>6, <1>9, <2>1, <2>2, <2>3, <4>1, <4>2 DEF LineSize
      <4>4. QED
        BY <1>9, <3>1, <3>2, <3>4, <4>2, <4>3
    <3>5. CASE ~(readOffset <= l /\ l < AnnouncementsEnd)
      <4>1. ~(Consumed' < NewChannels /\ readOffset' <= l /\ l < AnnouncementsEnd)
        BY <1>6, <1>9, <2>1, <2>2, <2>3, <3>5 DEF LineSize
      <4>2. QED
        BY <1>9, <3>1, <3>3, <3>5, <4>1
    <3>6. QED
      BY <3>4, <3>5
  <2>8. QED
    BY <2>6, <2>7 DEF ContentsInv, AnnouncementsEnd
<1>11. ASSUME held.id # ControlId
       PROVE  ProgressInv' /\ ContentsInv'
  <2>1. NewChannels <= Consumed
    BY <1>2, <1>11, NextMessage
  <2>2. Consumed' = Consumed /\ TextsConsumed' = TextsConsumed + 1
    <3>1. ~Told
      BY <1>11 DEF Told
    <3>2. Consumed = Len(child.channels) - 0 /\ TextsConsumed = child.texts - 1
      BY <1>3, <3>1 DEF Consumed, TextsConsumed
    <3>3. QED
      BY <1>6, <1>7, <3>2
  <2>3. ~(Consumed < NewChannels) /\ ~(Consumed' < NewChannels)
    BY <1>6, <2>1, <2>2
  <2>4. Distance(writeOffset)' = LineSize *
          (Published' - Consumed' + TextsWritten' - TextsConsumed')
    <3>1. Published' - Consumed' + TextsWritten' - TextsConsumed' =
            (Published - Consumed + TextsWritten - TextsConsumed) - 1
      BY <1>5, <1>6, <2>2
    <3>2. Published - Consumed + TextsWritten - TextsConsumed \in Int
      BY <1>6
    <3>3. QED
      BY <1>2, <1>8, <3>1, <3>2 DEF LineSize
  <2>5. /\ Consumed' <= Published' /\ ~child'.dispatched
        /\ Published' < NewChannels =>
             writeOffset' = LineSize * Published' /\ parent'.texts = 0
    BY <1>1, <1>3, <1>5, <1>6, <2>2 DEF RouterInv, ProgressInv
  <2>6. ProgressInv'
    BY <2>3, <2>4, <2>5 DEF ProgressInv
  <2>7. ASSUME NEW l \in UnreadLines'
        PROVE  lines'[l].header /\ HoldsText(l)'
    <3>1. lines[l].header /\ HoldsText(l)
      BY <1>9, <2>3 DEF RouterInv, ContentsInv
    <3>2. Distance(l) = LineSize *
            (NewChannels - Consumed + contents[l].n - 1 - TextsConsumed)
      BY <3>1 DEF HoldsText
    <3>3. contents[l].n \in Nat
      BY <1>6, <1>9 DEF RouterInv, RouterTypes
    <3>4. /\ NewChannels - Consumed + contents[l].n - 1 - TextsConsumed \in Int
          /\ NewChannels - Consumed' + contents'[l].n - 1 - TextsConsumed' =
               (NewChannels - Consumed + contents[l].n - 1 - TextsConsumed) - 1
      <4>1. contents'[l].n = contents[l].n
        BY <1>9
      <4>2. NewChannels \in Nat /\ Consumed \in Nat /\ TextsConsumed \in Int
        BY <1>6
      <4>3. QED
        BY <2>2, <3>3, <4>1, <4>2
    <3>5. Distance(l)' = LineSize *
            (NewChannels - Consumed' + contents'[l].n - 1 - TextsConsumed')
      BY <1>9, <3>2, <3>4 DEF LineSize
    <3>6. QED
      BY <1>9, <3>1, <3>5 DEF HoldsText
  <2>8. QED
    BY <2>3, <2>6, <2>7 DEF ContentsInv
<1>12. QED
  BY <1>4, <1>5, <1>10, <1>11 DEF RouterPart

\* The child replies on channels that it was told of.
LEMMA WriteReplyKeeps ==
  ASSUME RouterInv, WriteReply
  PROVE  RouterPart'
<1>1. /\ reader = "idle" /\ UNCHANGED <<vars, parent, child, contents>>
  BY DEF WriteReply
<1>2. PICK i \in 1 .. Len(child.channels) :
        replies' = Append(replies, child.channels[i])
  BY DEF WriteReply
<1>3. UNCHANGED <<readOffset, writeOffset, lines, writer, placement, reader, held>>
  BY <1>1 DEF vars
<1>4. child.channels[i] \in 2 .. Len(child.channels) + 1
  <2>1. Len(child.channels) \in Nat
    BY Numbers
  <2>2. child.channels[i] = i + 1
    BY DEF RouterInv, IdsInv
  <2>3. QED
    BY <2>1, <2>2
<1>5. RouterTypes'
  <2>1. child.channels[i] \in Nat
    BY <1>4
  <2>2. QED
    BY <1>1, <1>2, <2>1 DEF RouterInv, RouterTypes
<1>6. IdsInv'
  <2>1. replies \in Seq(Nat)
    BY DEF RouterInv, RouterTypes
  <2>2. /\ Len(replies') = Len(replies) + 1
        /\ \A j \in 1 .. Len(replies) : replies'[j] = replies[j]
        /\ replies'[Len(replies) + 1] = child.channels[i]
    BY <1>2, <2>1
  <2>3. \A j \in 1 .. Len(replies') : replies'[j] \in 2 .. Len(child.channels) + 1
    <3>1. \A j \in 1 .. Len(replies) : replies[j] \in 2 .. Len(child.channels) + 1
      BY DEF RouterInv, IdsInv
    <3>2. \A j \in 1 .. Len(replies') :
            j \in 1 .. Len(replies) \/ j = Len(replies) + 1
      BY <2>1, <2>2
    <3>3. QED
      BY <1>4, <2>2, <3>1, <3>2
  <2>4. QED
    BY <1>1, <2>3 DEF RouterInv, IdsInv
<1>7. UNCHANGED <<Announcing, Consumed, TextsConsumed>>
  BY <1>1, <1>3 DEF Announcing, Writing, Consumed, TextsConsumed, Told
<1>8. UNCHANGED <<Published, TextsWritten>>
  BY <1>1, <1>3, <1>7 DEF Published, TextsWritten, Writing
<1>9. MessageInv'
  BY <1>1, <1>3, <1>7 DEF RouterInv, MessageInv, Writing, SetUp
<1>10. ProgressInv'
  BY <1>1, <1>3, <1>7, <1>8 DEF RouterInv, ProgressInv, Distance
<1>11. ContentsInv'
  BY <1>1, <1>3, <1>7, ContentsStay DEF UnreadLines
<1>12. NobodyThrows'
  BY <1>1 DEF RouterInv, NobodyThrows
<1>13. QED
  BY <1>5, <1>6, <1>9, <1>10, <1>11, <1>12 DEF RouterPart

\* A step of neither process.
LEMMA StutterKeeps ==
  ASSUME RouterInv, UNCHANGED routerVars
  PROVE  RouterPart'
<1>1. /\ UNCHANGED <<readOffset, writeOffset, lines, writer, placement, reader, held>>
      /\ UNCHANGED <<parent, child, contents, replies>>
  BY DEF routerVars, vars
<1>2. UNCHANGED <<Announcing, Consumed, TextsConsumed>>
  BY <1>1 DEF Announcing, Writing, Consumed, TextsConsumed, Told
<1>3. UNCHANGED <<Published, TextsWritten>>
  BY <1>1, <1>2 DEF Published, TextsWritten, Writing
<1>4. RouterTypes' /\ IdsInv' /\ NobodyThrows'
  BY <1>1 DEF RouterInv, RouterTypes, IdsInv, NobodyThrows
<1>5. MessageInv'
  BY <1>1, <1>2 DEF RouterInv, MessageInv, Writing, SetUp
<1>6. ProgressInv'
  BY <1>1, <1>2, <1>3 DEF RouterInv, ProgressInv, Distance
<1>7. ContentsInv'
  BY <1>1, <1>2, ContentsStay DEF UnreadLines
<1>8. QED
  BY <1>4, <1>5, <1>6, <1>7 DEF RouterPart

-----------------------------------------------------------------------------
(* The invariant.                                                          *)

\* Both Routers begin with a handler for id 1, and the ring is empty.
LEMMA RouterInitInv == RouterInit => RouterInv
<1> SUFFICES ASSUME RouterInit PROVE RouterInv
  OBVIOUS
<1>1. SafeInv
  BY InitSafe DEF RouterInit
<1>2. /\ readOffset = 0 /\ writeOffset = 0 /\ writer = "idle" /\ reader = "idle"
      /\ parent = [handlers |-> {ControlId}, nextId |-> 1, channels |-> <<>>,
                   message |-> Nothing, texts |-> 0, threw |-> FALSE]
      /\ child = [handlers |-> {ControlId}, channels |-> <<>>,
                  dispatched |-> FALSE, texts |-> 0, threw |-> FALSE]
      /\ contents = [l \in Lines |-> Nothing] /\ replies = <<>>
  BY DEF RouterInit, Init
<1>3. NewChannels \in Nat /\ {ControlId} = 1 .. 0 + 1
  BY RouterAssumption DEF ControlId
<1>4. RouterTypes
  BY <1>2 DEF RouterTypes, Nothing, ControlId
<1>5. IdsInv
  BY <1>2, <1>3 DEF IdsInv
<1>6. ~Writing /\ ~Announcing /\ ~Told /\ MessageInv
  BY <1>2 DEF Writing, Announcing, Told, MessageInv
<1>7. /\ Consumed = 0 - 0 /\ Published = 0 - 0
      /\ TextsWritten = 0 - 0 /\ TextsConsumed = 0 - 0
  BY <1>2, <1>6 DEF Consumed, Published, TextsWritten, TextsConsumed
<1>8. ProgressInv
  BY <1>2, <1>7 DEF ProgressInv, Distance, LineSize
<1>9. ContentsInv
  <2>1. UnreadLines = {}
    BY <1>2, LinesAreAligned DEF UnreadLines
  <2>2. QED
    BY <2>1 DEF ContentsInv
<1>10. NobodyThrows
  BY <1>2 DEF NobodyThrows
<1>11. QED
  BY <1>1, <1>4, <1>5, <1>6, <1>8, <1>9, <1>10 DEF RouterInv

\* Every step of the Routers is one of the channel, or leaves it alone.
LEMMA RouterStepsAreSafe ==
  ASSUME RouterInv, [RouterSafeNext]_routerVars
  PROVE  [SafeNext]_vars
<1>1. ASSUME RouterSafeNext PROVE [SafeNext]_vars
  <2>1. RouterNext /\ ~DrainsAtEnd
    BY <1>1 DEF RouterSafeNext
  <2>2. CASE CreateNewChannel
    <3>1. CASE UNCHANGED vars
      BY <3>1
    <3>2. CASE BeginWrite(ControlId, AnnouncementSize)
      <4>1. ControlId \in Ids /\ AnnouncementSize \in Sizes
        BY Numbers, RouterAssumption, ChannelsAssumption DEF ControlId
      <4>2. QED
        BY <2>1, <3>2, <4>1 DEF SafeNext, Next, Writer
    <3>3. QED
      BY <2>2, <3>1, <3>2 DEF CreateNewChannel
  <2>3. CASE WriteText
    <3>1. PICK id \in Targets : BeginWrite(id, TextSize)
      BY <2>3 DEF WriteText
    <3>2. id \in Ids
      <4>1. PICK i \in 1 .. Len(parent.channels) : id = parent.channels[i]
        BY DEF Targets
      <4>2. id = i + 1 /\ Len(parent.channels) <= NewChannels
        BY <4>1 DEF RouterInv, IdsInv
      <4>3. Len(parent.channels) \in Nat /\ NewChannels \in Nat
        BY Numbers
      <4>4. QED
        BY <4>2, <4>3, ChannelsAssumption
    <3>3. TextSize \in Sizes
      BY RouterAssumption
    <3>4. QED
      BY <2>1, <3>1, <3>2, <3>3 DEF SafeNext, Next, Writer
  <2>4. CASE FinishWrite
    BY <2>1, <2>4 DEF FinishWrite, SafeNext, Next, Writer
  <2>5. CASE ReadReply \/ WriteReply \/ Dispatch
    BY <2>5 DEF ReadReply, WriteReply, Dispatch
  <2>6. CASE FindHeader \/ Consume
    BY <2>1, <2>6 DEF FindHeader, Consume, SafeNext, Next, Reader
  <2>7. QED
    BY <2>1, <2>2, <2>3, <2>4, <2>5, <2>6 DEF RouterNext, Parent, Child
<1>2. ASSUME UNCHANGED routerVars PROVE [SafeNext]_vars
  BY <1>2 DEF routerVars
<1>3. QED
  BY <1>1, <1>2

\* Every step of the two Routers keeps the invariant.
LEMMA RouterNextInv == RouterInv /\ [RouterSafeNext]_routerVars => RouterInv'
<1> SUFFICES ASSUME RouterInv, [RouterSafeNext]_routerVars PROVE RouterInv'
  OBVIOUS
<1>1. SafeInv'
  BY RouterStepsAreSafe, NextSafe DEF RouterInv
<1>2. RouterPart'
  <2>1. CASE CreateNewChannel
    BY <1>1, <2>1, CreateNewChannelKeeps
  <2>2. CASE WriteText
    BY <1>1, <2>2, WriteTextKeeps
  <2>3. CASE FinishWrite
    <3>1. CASE CopyFirst \/ CopySecond
      BY <2>3, <3>1, CopyKeeps
    <3>2. CASE Publish
      <4>1. UNCHANGED <<parent, child, contents, replies>>
        BY <2>3, <3>2 DEF FinishWrite, CopyFirst, CopySecond, Publish
      <4>2. QED
        BY <3>2, <4>1, PublishKeeps
    <3>3. QED
      BY <2>3, <3>1, <3>2 DEF FinishWrite
  <2>4. CASE ReadReply
    BY <2>4, ReadReplyKeeps
  <2>5. CASE FindHeader
    BY <2>5, FindHeaderKeeps
  <2>6. CASE Dispatch
    BY <2>6, DispatchKeeps
  <2>7. CASE Consume /\ ~DrainsAtEnd
    BY <2>7, ConsumeKeeps
  <2>8. CASE WriteReply
    BY <2>8, WriteReplyKeeps
  <2>9. CASE UNCHANGED routerVars
    BY <2>9, StutterKeeps
  <2>10. QED
    BY <2>1, <2>2, <2>3, <2>4, <2>5, <2>6, <2>7, <2>8, <2>9
       DEF RouterSafeNext, RouterNext, Parent, Child
<1>3. QED
  BY <1>1, <1>2 DEF RouterInv, RouterPart

\* Until the reader drains a ring whose last record ends at its end, the lines
\* of the ring hold the announcements and then the texts, in their order, and
\* both processes have given the same ids to the same channels.
THEOREM RouterInvariance == RouterSafeSpec => []RouterInv
  BY RouterInitInv, RouterNextInv, PTL DEF RouterSafeSpec

\* Every handler finds its id registered and every new id is free: neither
\* register_handler() nor process_reads() throws, and a ring that has room for
\* all announcements refuses none of them.
THEOREM NeitherThrows == RouterSafeSpec => []NobodyThrows
<1>1. RouterInv => NobodyThrows
  BY DEF RouterInv
<1>2. QED
  BY <1>1, RouterInvariance, PTL

\* The parent and the child give the same id to their i-th channel.
THEOREM ChannelsAgree == RouterSafeSpec => []SameChannels
<1>1. RouterInv => SameChannels
  <2> SUFFICES ASSUME RouterInv PROVE SameChannels
    OBVIOUS
  <2>1. /\ Len(child.channels) \in Nat /\ Len(parent.channels) \in Nat
        /\ Len(child.channels) <= Len(parent.channels)
    BY Numbers DEF RouterInv, IdsInv
  <2>2. \A i \in 1 .. Len(child.channels) : i \in 1 .. Len(parent.channels)
    BY <2>1
  <2>3. QED
    BY <2>1, <2>2 DEF RouterInv, IdsInv, SameChannels
<1>2. QED
  BY <1>1, RouterInvariance, PTL

\* Distance is what a reader counts when it goes around the ring.
LEMMA DistanceWraps ==
  ASSUME RouterInv, NEW l \in Lines
  PROVE  (l - readOffset + Size) % Size = Distance(l)
<1>1. /\ Size \in Nat /\ Size > 0 /\ readOffset \in Nat /\ readOffset < Size
      /\ l \in Nat /\ l < Size
  BY Numbers, LinesAreAligned
<1>2. CASE readOffset <= l
  <2>1. l - readOffset \in 0 .. Size - 1
    BY <1>1, <1>2
  <2>2. (l - readOffset + Size) % Size = l - readOffset
    BY <1>1, <2>1
  <2>3. QED
    BY <1>2, <2>2 DEF Distance
<1>3. CASE ~(readOffset <= l)
  <2>1. l - readOffset + Size \in 0 .. Size - 1
    BY <1>1, <1>3
  <2>2. (l - readOffset + Size) % Size = l - readOffset + Size
    BY <1>1, <2>1
  <2>3. QED
    BY <1>3, <2>2 DEF Distance
<1>4. QED
  BY <1>2, <1>3

\* A text never overtakes the announcement of its id, wherever the ring wraps.
THEOREM AnnouncementsComeFirst == RouterSafeSpec => []AnnouncedAhead
<1>1. RouterInv => AnnouncedAhead
  <2> SUFFICES ASSUME RouterInv, NEW l \in UnreadLines
               PROVE  \/ lines[l].rec.id \in child.handlers
                      \/ \E other \in UnreadLines :
                           /\ Ahead(l, other)
                           /\ contents[other] = Announcement(lines[l].rec.id)
    BY DEF AnnouncedAhead
  <2> DEFINE id == lines[l].rec.id
             other == LineSize * (id - 2)
             c == Len(child.channels)
  <2>1. /\ Size \in Nat /\ Size % LineSize = 0 /\ readOffset \in Nat /\ readOffset < Size
        /\ writeOffset \in Nat /\ l \in Lines /\ l \in Nat /\ l < Size
        /\ NewChannels \in Nat /\ c \in Nat /\ Consumed \in Nat
        /\ AnnouncementsEnd <= Size /\ child.handlers = 1 .. c + 1
        /\ Consumed <= c
    <3>1. Consumed <= c
      <4>1. c \in Nat
        BY Numbers
      <4>2. CASE Told
        BY <4>1, <4>2 DEF Consumed
      <4>3. CASE ~Told
        BY <4>1, <4>3 DEF Consumed
      <4>4. QED
        BY <4>2, <4>3
    <3>2. QED
      BY <3>1, Numbers, SizeAssumption DEF RouterInv, IdsInv
  <2>2. CASE HoldsAnnouncement(l)
    BY <2>1, <2>2 DEF HoldsAnnouncement, Record, ControlId
  <2>3. CASE HoldsText(l) /\ id <= c + 1
    BY <2>1, <2>3 DEF HoldsText
  <2>4. CASE /\ HoldsText(l) /\ id > c + 1
             /\ ~(Consumed < NewChannels /\ readOffset <= l /\ l < AnnouncementsEnd)
    <3>1. id \in Nat /\ c + 2 <= id /\ id <= NewChannels + 1
      BY <2>1, <2>4 DEF HoldsText
    <3>2. Consumed < NewChannels
      BY <2>1, <3>1
    <3>3. readOffset = LineSize * Consumed
      BY <3>2 DEF RouterInv, ProgressInv
    <3>4. /\ other \in Nat /\ other % LineSize = 0
          /\ readOffset <= other /\ other < AnnouncementsEnd
      <4>1. PICK k \in Nat : id = k + 2
        <5>1. c \in Nat
          BY Numbers
        <5> HIDE DEF c
        <5>2. id - 2 \in Nat /\ id = (id - 2) + 2
          BY <3>1, <5>1
        <5>3. QED
          BY <5>2
      <4>2. other = LineSize * k
        BY <4>1
      <4>3. Consumed <= k /\ k < NewChannels
        BY <2>1, <3>1, <4>1
      <4> HIDE DEF other
      <4>4. QED
        BY <2>1, <3>3, <4>2, <4>3 DEF LineSize, AnnouncementsEnd
    <3>5. AnnouncementsEnd \in Nat
      BY Numbers
    <3>6. other \in Lines /\ other < Size
      BY <2>1, <3>4, <3>5, LinesAreAligned
    <3> HIDE DEF other
    <3>7. l < readOffset \/ AnnouncementsEnd <= l
      BY <2>1, <2>4, <3>2, <3>5
    <3>8. other \in UnreadLines
      <4>1. IF readOffset <= writeOffset
              THEN readOffset <= l /\ l < writeOffset
              ELSE readOffset <= l \/ l < writeOffset
        BY DEF UnreadLines
      <4>2. readOffset <= writeOffset => other < writeOffset
        BY <2>1, <3>4, <3>5, <3>7, <4>1
      <4>3. QED
        BY <3>4, <3>6, <4>2 DEF UnreadLines
    <3>9. Distance(other) < Distance(l)
      BY <2>1, <3>4, <3>5, <3>6, <3>7 DEF Distance
    <3>10. Ahead(l, other)
      BY <2>1, <3>6, <3>9, DistanceWraps DEF Ahead
    <3>11. contents[other] = Announcement(id)
      <4>1. HoldsAnnouncement(other)
        BY <3>2, <3>4, <3>8 DEF RouterInv, ContentsInv
      <4>2. /\ contents[other] \in [kind : {"nothing", "announcement", "text"}, n : Nat]
            /\ contents[other].n \in Nat
        BY <3>6 DEF RouterInv, RouterTypes
      <4>3. contents[other].kind = "announcement"
        BY <4>1 DEF HoldsAnnouncement
      <4>4. contents[other].n = id
        BY <3>1, <4>1, <4>2 DEF HoldsAnnouncement, LineSize, other
      <4>5. QED
        BY <4>2, <4>3, <4>4 DEF Announcement
    <3>12. QED
      BY <3>8, <3>10, <3>11
  <2>5. IF Consumed < NewChannels /\ readOffset <= l /\ l < AnnouncementsEnd
          THEN HoldsAnnouncement(l) ELSE HoldsText(l)
    BY DEF RouterInv, ContentsInv
  <2>6. HoldsText(l) => id \in Nat
    BY <2>1 DEF HoldsText
  <2>7. QED
    BY <2>1, <2>2, <2>3, <2>4, <2>5, <2>6
<1>2. QED
  BY <1>1, RouterInvariance, PTL

\* The child reads the texts one by one, in the order in which they were written.
THEOREM TextsComeInOrder == RouterSafeSpec => TextsInOrder
<1>1. RouterInv /\ [RouterSafeNext]_routerVars =>
        [child.texts' # child.texts => child.texts' = child.texts + 1]_routerVars
  <2> SUFFICES ASSUME RouterInv, [RouterSafeNext]_routerVars,
                      child.texts' # child.texts
               PROVE  child.texts' = child.texts + 1
    OBVIOUS
  <2>1. CASE Dispatch
    <3>1. reader = "held" /\ ~child.dispatched
      BY <2>1 DEF Dispatch
    <3>2. CASE held.id # ControlId
      <4>1. contents[readOffset].n = TextsConsumed + 1
        BY <3>1, <3>2, NextMessage
      <4>2. TextsConsumed = child.texts - 0 /\ child.texts \in Nat
        BY <3>1, Numbers DEF TextsConsumed
      <4>3. child'.texts = child.texts \/ child'.texts = contents[readOffset].n
        BY <2>1, <3>2 DEF Dispatch, RouterInv, RouterTypes
      <4>4. QED
        BY <4>1, <4>2, <4>3
    <3>3. CASE held.id = ControlId
      <4>1. child'.texts = child.texts
        BY <2>1, <3>3 DEF Dispatch, RouterInv, RouterTypes
      <4>2. QED
        BY <4>1
    <3>4. QED
      BY <3>2, <3>3
  <2>2. CASE Consume
    <3>1. child' = [child EXCEPT !.dispatched = FALSE]
      BY <2>2 DEF Consume
    <3>2. child'.texts = child.texts
      BY <3>1 DEF RouterInv, RouterTypes
    <3>3. QED
      BY <3>2
  <2>3. CASE child' = child
    BY <2>3
  <2>4. QED
    BY <2>1, <2>2, <2>3
       DEF RouterSafeNext, RouterNext, Parent, Child, CreateNewChannel, WriteText,
           FinishWrite, ReadReply, FindHeader, WriteReply, routerVars
<1>2. QED
  BY <1>1, RouterInvariance, PTL DEF RouterSafeSpec, TextsInOrder

\* What two Routers do with the shared channel is what a writer and a reader of
\* module Channel may do.
THEOREM RouterUsesChannel == RouterSafeSpec => SafeSpec
<1>1. RouterInit => Init
  BY DEF RouterInit
<1>2. RouterInv /\ [RouterSafeNext]_routerVars => [SafeNext]_vars
  BY RouterStepsAreSafe
<1>3. QED
  BY <1>1, <1>2, RouterInvariance, PTL DEF RouterSafeSpec, SafeSpec

\* The channel between two Routers is a queue of whole messages to both of them.
THEOREM RouterChannelIsFifo == RouterSafeSpec => ImplementsFifo
  BY RouterUsesChannel, ChannelImplementsFifo
=============================================================================
