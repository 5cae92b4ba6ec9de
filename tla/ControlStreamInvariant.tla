----------------------- MODULE ControlStreamInvariant -----------------------
(***************************************************************************)
(* Why no message is lost or made up by a stream that keeps no boundaries: *)
(* the inductive invariant behind the properties of module ControlStream.  *)
(* It speaks of all bytes that were ever given to the socket, and of where *)
(* in them both ends are: `bytes' are these bytes, those of the message    *)
(* being sent included, and places count them from 0.                      *)
(***************************************************************************)
EXTENDS ControlStream

\* What there is at each place, or where each message starts.
Places == [Nat -> Nat]

\* From this place on come the bytes of s.
Holds(bytes, from, s) == \A i \in 1 .. Len(s) : bytes[from + i] = s[i]

\* The k-th message that was posted starts at start[k].  A message that was cut
\* left p of its bytes behind.
PostedEnd(start) == start[Len(posted) + 1]
LastStart(start, p) == IF cut THEN PostedEnd(start) + p ELSE PostedEnd(start)

Senders ==
  [pc : {"idle", "sending", "panic", "closed"}, msg : Messages \cup {<<>>},
   rest : Seq(Nat)]

Receivers ==
  [pc : {"idle", "length", "payload", "closed"}, got : Seq(Nat),
   size : 0 .. max_message_size,
   why : {"open", "end of file", "time out", "too long", "invalid", "left"}]

SenderInv ==
  /\ sender \in Senders
  /\ sender.pc = "idle" => sender.rest = <<>>
  /\ Sending => sender.rest # <<>>
  /\ sender.rest # <<>> => sender.msg \in Messages
  /\ Len(sender.rest) <= Len(sender.msg) + 2
  /\ cut => /\ sender.pc \in {"panic", "closed"}
            /\ \E n \in ReportSizes : sender.msg = Report(n)
            /\ sender.msg \in Messages
  /\ sender.pc = "panic" => \E n \in ReportSizes : sender.msg = Report(n)

HistoryInv ==
  /\ posted \in Seq(Messages)
  /\ delivered \in Seq(Seq(Nat))
  /\ cut \in BOOLEAN /\ late \in BOOLEAN

\* What was sent: the messages posted, then what is left of one that was cut,
\* then the message being sent, of which the last bytes are still to be sent.
SentInv(bytes, start, p, written) ==
  /\ \A k \in 1 .. Len(posted) :
       /\ start[k + 1] = start[k] + Len(posted[k]) + 2
       /\ start[k + 1] <= PostedEnd(start)
       /\ Holds(bytes, start[k], Frame(posted[k]))
  /\ cut => \E m \in Messages :
               /\ p \in 1 .. Len(m) + 1
               /\ Holds(bytes, PostedEnd(start), SubSeq(Frame(m), 1, p))
  /\ IF cut \/ sender.rest # <<>>
       THEN /\ Holds(bytes, LastStart(start, p), Frame(sender.msg))
            /\ written + Len(sender.rest)
                 = LastStart(start, p) + Len(sender.msg) + 2
       ELSE written = PostedEnd(start)
  /\ Holds(bytes, written, sender.rest)

\* What lies in the socket: the bytes between the receiver and the sender.
StreamInv(bytes, read, written) ==
  /\ stream \in Seq(Nat)
  /\ written = read + Len(stream)
  /\ Holds(bytes, read, stream)

\* The receiver took what follows `at' for the length of a message.
ReadInv(bytes, at, read) ==
  /\ receiver \in Receivers
  /\ receiver.pc = "closed" \/ receiver.why = "open"
  /\ receiver.pc = "idle" => receiver.got = <<>> /\ read = at
  /\ receiver.pc = "length" =>
       /\ read = at + Len(receiver.got) /\ Len(receiver.got) <= 2
       /\ Holds(bytes, at, receiver.got)
  /\ receiver.pc = "payload" =>
       /\ receiver.size = bytes[at + 1] * Base + bytes[at + 2]
       /\ read = at + 2 + Len(receiver.got) /\ Len(receiver.got) <= receiver.size
       /\ Holds(bytes, at + 2, receiver.got)

\* Where that is: at the start of the next message; or, too late, at that of its
\* text, which is too large for a length; or behind the fragment of a message.
AtMessage(start, at) ==
  /\ ~late
  /\ Len(delivered) <= Len(posted)
  /\ at = start[Len(delivered) + 1]

AtText(bytes, start, p, at) ==
  /\ late
  /\ receiver.pc \in {"idle", "length"}
  /\ Len(delivered) <= Len(posted)
  /\ at = start[Len(delivered) + 1] + 2
  /\ cut => at < PostedEnd(start) + p
  /\ bytes[at + 1] > max_message_size \div Base

AtJunk(start, p, at) ==
  /\ cut
  /\ Len(delivered) >= Len(posted)
  /\ at >= PostedEnd(start) + p

PlaceInv(bytes, start, p, at) ==
  \/ receiver.pc = "closed"
  \/ AtMessage(start, at)
  \/ AtText(bytes, start, p, at)
  \/ AtJunk(start, p, at)

WireInv(bytes, start, p, at, read, written) ==
  /\ SentInv(bytes, start, p, written)
  /\ StreamInv(bytes, read, written)
  /\ ReadInv(bytes, at, read)
  /\ PlaceInv(bytes, start, p, at)

\* Inductive for Spec.
ControlInv ==
  /\ SenderInv
  /\ HistoryInv
  /\ RefusesOnlyJunk
  /\ \E bytes, start \in Places :
       \E p, at, read, written \in Nat :
         WireInv(bytes, start, p, at, read, written)
=============================================================================
