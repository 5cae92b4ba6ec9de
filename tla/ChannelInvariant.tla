-------------------------- MODULE ChannelInvariant --------------------------
(***************************************************************************)
(* Why a channel works: the inductive invariants behind the properties of  *)
(* module Channel.  TLC checks them on a small ring; module ChannelProofs  *)
(* proves them for every ring.                                             *)
(***************************************************************************)
EXTENDS Channel

-----------------------------------------------------------------------------
(* Where write() puts a payload that it does not refuse: either the free   *)
(* lines up to the end of the ring and, for a split payload, those at its  *)
(* start up to a line before the reader; or the free lines between the     *)
(* writer and a line before the reader.                                    *)

PlacedAtTail(start, p) ==
  /\ p.firstAt >= start
  /\ p.firstSize > 0
  /\ RecordEnd(p.firstAt, p.firstSize) \in Offsets
  /\ p.firstAt < RecordEnd(p.firstAt, p.firstSize)
  /\ p.secondAt = 0
  /\ p.secondSize = 0 => p.newOffset = RecordEnd(p.firstAt, p.firstSize)
  /\ p.secondSize > 0 =>
       /\ RecordEnd(p.firstAt, p.firstSize) = Size
       /\ p.newOffset = RecordEnd(0, p.secondSize)
       /\ p.newOffset \in Lines
       /\ 0 < p.newOffset
       /\ p.newOffset + LineSize <= start

PlacedBehindReader(start, p) ==
  /\ p.firstAt < start
  /\ p.firstSize = 0
  /\ p.secondAt = p.firstAt
  /\ p.secondSize > 0
  /\ p.newOffset = RecordEnd(p.secondAt, p.secondSize)
  /\ p.newOffset \in Lines
  /\ p.secondAt < p.newOffset
  /\ p.newOffset + LineSize <= start

WellPlaced(start, size, p) ==
  /\ p.firstAt \in Lines
  /\ p.firstSize \in Nat
  /\ p.secondAt \in Lines
  /\ p.secondSize \in Nat
  /\ p.newOffset \in Offsets
  /\ Accepted(p) \in 1 .. size
  /\ PlacedAtTail(start, p) \/ PlacedBehindReader(start, p)

Writing == writer \in {"first", "second", "publish"}

\* While a write() is going on its local variables are a placement for the
\* read offset it sampled.
PlacementInv ==
  Writing =>
    /\ placement.start \in Lines
    /\ placement.size \in Nat \ {0}
    /\ WellPlaced(placement.start, placement.size, placement)

\* Inductive for Spec.
WellFormed == TypeOK /\ WriterNeverFails /\ PlacementInv

-----------------------------------------------------------------------------
(* The reader only moves on through what was unread when the writer        *)
(* sampled its offset, so the sample is on the safe side.                  *)
SampleInv ==
  Writing =>
    /\ placement.firstAt = IF writeOffset = Size THEN 0 ELSE writeOffset
    /\ writeOffset = Size => placement.start > 0
    /\ IF placement.start <= writeOffset
         THEN placement.start <= readOffset /\ readOffset <= writeOffset
         ELSE placement.start <= readOffset \/ readOffset <= writeOffset

\* The end of the contiguous unread lines that line l is one of.
SegmentEnd(l) == IF l < writeOffset THEN writeOffset ELSE Size

\* From the read offset to the write offset one record follows another.
ChainInv ==
  /\ writeOffset = 0 => readOffset = 0
  /\ readOffset # writeOffset => lines[readOffset].header
  /\ writeOffset < readOffset => lines[0].header
  /\ \A l \in UnreadLines :
       lines[l].header =>
         LET size == lines[l].rec.size
             end  == RecordEnd(l, size)
         IN  /\ l + HeaderSize + size <= Size
             /\ end <= SegmentEnd(l)
             /\ end < SegmentEnd(l) => lines[end].header
             /\ \A m \in Lines :
                  l < m /\ m < end => lines[m] = Line(lines[l].rec, FALSE)

\* The record at offset o, not yet published, is complete.
Copied(o, rec) ==
  \A l \in RecordLines(o, rec.size) : lines[l] = Line(rec, l = o)

CopiedInv ==
  /\ Writing /\ writer # "first" /\ placement.firstSize > 0 =>
       Copied(placement.firstAt, FirstRecord)
  /\ writer = "publish" /\ placement.secondSize > 0 =>
       Copied(placement.secondAt, SecondRecord)
  /\ writer = "first"  => placement.firstSize > 0
  /\ writer = "second" => placement.secondSize > 0

\* What the reader was given is still the first unread record.
HeldInv ==
  reader = "held" =>
    /\ readOffset # writeOffset
    /\ held = lines[readOffset].rec

\* Inductive for SafeSpec.
SafeInv ==
  /\ WellFormed
  /\ SampleInv
  /\ ChainInv
  /\ CopiedInv
  /\ HeldInv
  /\ ReaderNeverFails

-----------------------------------------------------------------------------
(* What the refinement of MessageFifo needs besides: that the records in   *)
(* the ring are those somebody asked for, and that the reader lets go of   *)
(* what it consumed.                                                       *)
RequestInv == Writing => placement.id \in Ids /\ placement.size \in Sizes

NamedInv == \A l \in Headers : lines[l].rec.id \in Ids

IdleInv == reader = "idle" => held = NoRecord

\* Inductive for SafeSpec.
FifoInv == SafeInv /\ RequestInv /\ NamedInv /\ IdleInv
=============================================================================
