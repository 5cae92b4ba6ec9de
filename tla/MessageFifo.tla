----------------------------- MODULE MessageFifo -----------------------------
(***************************************************************************)
(* What a channel promises its two users: a queue of records.              *)
(*                                                                         *)
(* An accepted write() appends a prefix of the caller's payload, as one    *)
(* record or as two consecutive ones with the same id; the reader is given *)
(* the oldest record, unchanged, and frees it before it is given the next. *)
(***************************************************************************)
EXTENDS Integers, Sequences

CONSTANTS Ids, Sizes

VARIABLES queue,   \* accepted records the reader has not consumed, oldest first
          held     \* the record the reader works on

fifoVars == <<queue, held>>

FifoRecord(id, from, size) == [id |-> id, from |-> from, size |-> size]
Nothing == FifoRecord(0, 0, 0)

FifoInit ==
  /\ queue = <<>>
  /\ held = Nothing

\* recs carries a nonempty prefix of a payload of a message of this size.
CarriesPrefix(recs, id, size) ==
  \/ /\ Len(recs) = 1
     /\ recs[1] = FifoRecord(id, 0, recs[1].size)
     /\ recs[1].size \in 1 .. size
  \/ /\ Len(recs) = 2
     /\ recs[1] = FifoRecord(id, 0, recs[1].size)
     /\ recs[2] = FifoRecord(id, recs[1].size, recs[2].size)
     /\ recs[1].size \in 1 .. size
     /\ recs[2].size \in 1 .. size - recs[1].size

\* What is behind the old queue carries a prefix of one message.
Accept ==
  /\ Len(queue') > Len(queue)
  /\ SubSeq(queue', 1, Len(queue)) = queue
  /\ LET recs == SubSeq(queue', Len(queue) + 1, Len(queue'))
     IN  \E id \in Ids, size \in Sizes : CarriesPrefix(recs, id, size)
  /\ UNCHANGED held

Take ==
  /\ held = Nothing
  /\ queue # <<>>
  /\ held' = Head(queue)
  /\ UNCHANGED queue

Release ==
  /\ held # Nothing
  /\ held = Head(queue)
  /\ queue' = Tail(queue)
  /\ held' = Nothing

FifoNext ==
  \/ Accept
  \/ Take
  \/ Release

FifoSpec == FifoInit /\ [][FifoNext]_fifoVars

\* Every accepted record is eventually given to the reader.
FifoFairSpec == FifoSpec /\ WF_fifoVars(Take)
=============================================================================
