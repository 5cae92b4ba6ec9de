------------------------------- MODULE Channel -------------------------------
(***************************************************************************)
(* shm::Channel (channel.h, channel.cc): a ring of cache lines in shared   *)
(* memory with one writing and one reading process.                        *)
(*                                                                         *)
(* The writer samples both offsets, decides where the payload goes, copies *)
(* one or two records and only then publishes the new write offset.  The   *)
(* reader takes the record at the read offset, hands its header to a       *)
(* handler that works on the shared memory itself, and then consumes it.   *)
(* Any of the reader's steps may fall between any two of the writer's.     *)
(*                                                                         *)
(* The payload is abstracted to the message id and the position of each    *)
(* byte range in the caller's buffer: a line of the ring holds which       *)
(* record it belongs to and whether it is the line with the header.        *)
(***************************************************************************)
EXTENDS ChannelLayout, Sequences, FiniteSets

CONSTANTS
  Ids,          \* the nonzero ids the writer uses
  Sizes,        \* the payload sizes the writer asks for
  Thresholds    \* the values of m_write_threshold

ASSUME IdsAssumption   == Ids \subseteq Nat \ {0}
ASSUME SizesAssumption == Sizes \subseteq Nat \ {0}

\* A threshold of 0, or one above what an empty ring can hold when the offsets
\* are in its middle, makes write() throw; nobody sets such a value.
ASSUME ThresholdsAssumption ==
  /\ Thresholds \subseteq 1 .. Size - (LineSize + 2 * HeaderSize)
  /\ DefaultWriteThreshold \in Thresholds

VARIABLES
  readOffset,        \* m_read_offset, stored by the reader only
  writeOffset,       \* m_write_offset, stored by the writer only
  writeThreshold,    \* m_write_threshold, the writer's own
  lines,             \* m_addr
  writer,            \* what the writing process does
  placement,         \* its local variables in write()
  reader,            \* what the reading process does
  held               \* the record whose header it was given

vars == <<readOffset, writeOffset, writeThreshold, lines,
          writer, placement, reader, held>>
writerVars == <<writeThreshold, writer, placement>>
readerVars == <<reader, held>>

-----------------------------------------------------------------------------
\* A record: id, payload bytes [from, from + size) of one write() call.
Record(id, from, size) == [id |-> id, from |-> from, size |-> size]
NoRecord == Record(0, 0, 0)

\* A line of the ring: the record it is part of, and whether its header is here.
Line(rec, header) == [rec |-> rec, header |-> header]

\* Fresh shared memory is all zeros, which reads as a header of size 0, id 0.
ZeroLine == Line(NoRecord, TRUE)

NoPlacement ==
  [id |-> 0, size |-> 0, start |-> 0, firstAt |-> 0, firstSize |-> 0,
   secondAt |-> 0, secondSize |-> 0, newOffset |-> 0]

\* write_to_header(): the ring after a record is written at offset o.
WriteToHeader(ring, o, rec) ==
  [l \in Lines |-> IF l \in RecordLines(o, rec.size)
                     THEN Line(rec, l = o)
                     ELSE ring[l]]

\* verify_read_header() of the line at the read offset.
VerifyReadHeader(o, size) == size <= Size - o - HeaderSize

Init ==
  /\ readOffset = 0
  /\ writeOffset = 0
  /\ writeThreshold = DefaultWriteThreshold
  /\ lines = [l \in Lines |-> ZeroLine]
  /\ writer = "idle"
  /\ placement = NoPlacement
  /\ reader = "idle"
  /\ held = NoRecord

-----------------------------------------------------------------------------
(* The writing process.  A refused write (EAGAIN) changes nothing.         *)

SetWriteThreshold(t) ==
  /\ writer = "idle"
  /\ writeThreshold' = t
  /\ UNCHANGED <<readOffset, writeOffset, lines, writer, placement, readerVars>>

(* write() up to the first copy: both offsets are sampled here, and the    *)
(* rest of the call works with the samples.                                *)
BeginWrite(id, size) ==
  /\ writer = "idle"
  /\ ~Refuses(readOffset, writeOffset, size, writeThreshold)
  /\ IF WriteFails(readOffset, writeOffset, size, writeThreshold)
       THEN writer' = "failed" /\ UNCHANGED placement
       ELSE LET p == Placement(readOffset, writeOffset, size)
            IN  /\ writer' = IF p.firstSize > 0 THEN "first" ELSE "second"
                /\ placement' =
                     [id |-> id, size |-> size, start |-> readOffset,
                      firstAt |-> p.firstAt, firstSize |-> p.firstSize,
                      secondAt |-> p.secondAt, secondSize |-> p.secondSize,
                      newOffset |-> p.newOffset]
  /\ UNCHANGED <<readOffset, writeOffset, writeThreshold, lines, readerVars>>

FirstRecord  == Record(placement.id, 0, placement.firstSize)
SecondRecord == Record(placement.id, placement.firstSize, placement.secondSize)

CopyFirst ==
  /\ writer = "first"
  /\ lines' = WriteToHeader(lines, placement.firstAt, FirstRecord)
  /\ writer' = IF placement.secondSize > 0 THEN "second" ELSE "publish"
  /\ UNCHANGED <<readOffset, writeOffset, writeThreshold, placement, readerVars>>

CopySecond ==
  /\ writer = "second"
  /\ lines' = WriteToHeader(lines, placement.secondAt, SecondRecord)
  /\ writer' = "publish"
  /\ UNCHANGED <<readOffset, writeOffset, writeThreshold, placement, readerVars>>

Publish ==
  /\ writer = "publish"
  /\ writeOffset' = placement.newOffset
  /\ writer' = "idle"
  /\ placement' = NoPlacement
  /\ UNCHANGED <<readOffset, writeThreshold, lines, readerVars>>

-----------------------------------------------------------------------------
(* The reading process.  read_header() on an empty ring returns nullptr    *)
(* and changes nothing.  Padding records are never written, so that branch *)
(* of read_header() is not taken.  A header that lies in the middle of a   *)
(* record is made of payload bytes: the reader is lost ("garbage").        *)

ReadHeaderBehindWriter ==
  /\ reader = "idle"
  /\ readOffset < writeOffset
  /\ reader' = "held"
  /\ held' = lines[readOffset].rec
  /\ UNCHANGED <<readOffset, writeOffset, lines, writerVars>>

ReadHeader ==
  /\ reader = "idle"
  /\ readOffset # writeOffset
  /\ reader' = IF ~lines[readOffset].header
                 THEN "garbage"
                 ELSE IF VerifyReadHeader(readOffset, lines[readOffset].rec.size)
                        THEN "held"
                        ELSE "failed"
  /\ held' = IF reader' = "held" THEN lines[readOffset].rec ELSE held
  /\ UNCHANGED <<readOffset, writeOffset, lines, writerVars>>

\* The header is looked at again: it is still in shared memory.
ConsumeHeader ==
  LET size == lines[readOffset].rec.size
  IN  /\ reader = "held"
      /\ held' = NoRecord
      /\ IF ~lines[readOffset].header
           THEN reader' = "garbage" /\ UNCHANGED readOffset
         ELSE IF \/ ~VerifyReadHeader(readOffset, size)
                 \/ RecordEnd(readOffset, size) > Size
           THEN reader' = "failed" /\ UNCHANGED readOffset
           ELSE reader' = "idle" /\ readOffset' = NextOffset(readOffset, size)
      /\ UNCHANGED <<writeOffset, lines, writerVars>>

-----------------------------------------------------------------------------
Writer ==
  \/ \E t \in Thresholds : SetWriteThreshold(t)
  \/ \E id \in Ids, size \in Sizes : BeginWrite(id, size)
  \/ CopyFirst
  \/ CopySecond
  \/ Publish

Reader ==
  \/ ReadHeader
  \/ ConsumeHeader

Next == Writer \/ Reader

Spec == Init /\ [][Next]_vars

(* A write that ends exactly at the end of the ring without wrapping       *)
(* leaves writeOffset = Size.  When the reader then consumes that last     *)
(* record its offset becomes 0, and 0 # Size: the empty ring looks full.   *)
(* SafeNext has every behaviour in which the reader never takes that step. *)
DrainsAtEnd ==
  /\ ConsumeHeader
  /\ writeOffset = Size
  /\ readOffset' = 0

SafeNext == Next /\ ~DrainsAtEnd

SafeSpec == Init /\ [][SafeNext]_vars

\* The reader process polls until the ring is empty; a write() runs to its end.
FairSafeSpec ==
  /\ SafeSpec
  /\ WF_vars(Reader /\ ~DrainsAtEnd)
  /\ WF_vars(CopyFirst \/ CopySecond \/ Publish)

-----------------------------------------------------------------------------
(* Properties.                                                             *)

\* Every variable holds a value of its type; offsets are line-aligned.
TypeOK ==
  /\ readOffset \in Lines
  /\ writeOffset \in Offsets
  /\ writeThreshold \in Thresholds
  /\ lines \in [Lines -> [rec : [id : Nat, from : Nat, size : Nat],
                          header : BOOLEAN]]
  /\ writer \in {"idle", "first", "second", "publish", "failed"}
  /\ placement \in [id : Nat, size : Nat, start : Nat,
                    firstAt : Nat, firstSize : Nat,
                    secondAt : Nat, secondSize : Nat, newOffset : Nat]
  /\ reader \in {"idle", "held", "failed", "garbage"}
  /\ held \in [id : Nat, from : Nat, size : Nat]

\* The lines between the reader and the writer: published and not consumed.
UnreadLines ==
  IF readOffset <= writeOffset
    THEN {l \in Lines : readOffset <= l /\ l < writeOffset}
    ELSE {l \in Lines : readOffset <= l \/ l < writeOffset}

\* The lines the current write() is still going to copy to.
LinesToCopy ==
  (IF writer = "first"
     THEN RecordLines(placement.firstAt, placement.firstSize) ELSE {})
  \cup
  (IF writer \in {"first", "second"} /\ placement.secondSize > 0
     THEN RecordLines(placement.secondAt, placement.secondSize) ELSE {})

\* The checks write() makes before it publishes (channel.cc:179-221) never
\* throw, whatever the reader did in between and whatever the payload sizes.
WriterNeverFails == writer # "failed"

\* The reader never finds payload where it expects a header, and the checks
\* of read_header() and consume_header() never throw.
ReaderNeverFails == reader \in {"idle", "held"}

\* write() copies over no line that is published and not yet consumed, though
\* the read offset it computed with may be long out of date.
NoOverwrite == LinesToCopy \cap UnreadLines = {}

\* While a handler works on the record in shared memory, all its lines stay
\* as they were when read_header() returned.
HeldIntact ==
  reader = "held" =>
    \A l \in RecordLines(readOffset, held.size) :
      lines[l] = Line(held, l = readOffset)

\* can_write(size) == true means that write() accepts all of the payload now,
\* up to the sizes at which can_write() wraps around.
CanWriteIsEnough ==
  \A size \in Sizes :
    size <= LargestSize /\ writer = "idle" /\ CanWrite(readOffset, writeOffset, size) =>
      /\ ~Refuses(readOffset, writeOffset, size, writeThreshold)
      /\ Accepted(Placement(readOffset, writeOffset, size)) = size

(* The payload bytes that fit in the n lines of a free stretch, and the    *)
(* number of free lines from offset o on.                                  *)
PayloadOfLines(n) == IF n > 0 THEN n * LineSize - HeaderSize ELSE 0

FreeLinesFrom(o) ==
  Cardinality({l \in Lines : /\ o <= l
                             /\ \A m \in o .. l : m \notin UnreadLines})

\* write() answers EAGAIN only when the free lines behind the writer, less the
\* one in front of the reader that stays free, cannot take the whole payload
\* nor write_threshold bytes of it.
RefusesOnlyWhenShort ==
  LET end  == IF writeOffset = Size THEN 0 ELSE writeOffset
      room == IF readOffset <= end
                THEN PayloadOfLines(FreeLinesFrom(end))
                     + PayloadOfLines(readOffset \div LineSize - 1)
                ELSE PayloadOfLines(FreeLinesFrom(end) - 1)
  IN  \A size \in Sizes :
        writer = "idle" /\ Refuses(readOffset, writeOffset, size, writeThreshold)
        => room < Least(size, writeThreshold)

-----------------------------------------------------------------------------
(* The queue in shared memory: the headers on unread lines, in the order   *)
(* in which a reader comes to them.                                        *)
Headers == {l \in UnreadLines : lines[l].header}

\* How far the reader has to go to an offset, around the end of the ring if need be.
Distance(o) == IF readOffset <= o THEN o - readOffset ELSE o - readOffset + Size

Distances == [l \in Lines |-> Distance(l)]

\* The elements of a finite set in the order of their distances.
InOrder(S, distance) ==
  [i \in 1 .. Cardinality(S) |->
     CHOOSE l \in S : Cardinality({m \in S : distance[m] < distance[l]}) = i - 1]

RecordsInRing ==
  LET at == InOrder(Headers, Distances)
  IN  [i \in 1 .. Cardinality(Headers) |-> lines[at[i]].rec]

\* A channel implements MessageFifo with the queue found in shared memory:
\* copying never changes what is queued, publishing appends the accepted
\* bytes, reading returns the oldest record and consuming removes it.
Fifo == INSTANCE MessageFifo WITH queue <- RecordsInRing, held <- held
ImplementsFifo == Fifo!FifoSpec

\* Under a reader that keeps polling, every accepted record is delivered.
DeliversEverything == Fifo!FifoFairSpec

\* The channel would accept any payload right now, or a write() is going on.
Accepting(size) ==
  \/ writer # "idle"
  \/ ~Refuses(readOffset, writeOffset, size, writeThreshold)

\* A writer that retries is not refused for ever while the reader keeps
\* reading, unless its last write ended exactly at the end of the ring.
RefusedForeverOnlyAtEnd ==
  \A size \in Sizes : []<>(Accepting(size) \/ writeOffset = Size)

-----------------------------------------------------------------------------
(* What a comment says, and the code does not do (see "findings").         *)

\* channel.cc:153 takes a write offset at the end of the ring and a read offset
\* of 0 for a full ring: consuming the last record must not lead there.
ConsumingLeavesTheRest ==
  [][reader = "held" /\ reader' = "idle" =>
       RecordsInRing' = Tail(RecordsInRing)]_vars
=============================================================================
