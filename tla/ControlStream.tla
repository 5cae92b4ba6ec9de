---------------------------- MODULE ControlStream ----------------------------
(***************************************************************************)
(* One direction of the control socket: ControlFd::send_message_internal() *)
(* at one end and ControlFd::event_read() at the other, over a stream that *)
(* keeps no message boundaries.  A message travels as its length in two    *)
(* bytes and its payload; send() takes what fits in the socket's buffer,   *)
(* and recv() gives what is there.                                         *)
(*                                                                         *)
(* The bytes are integers below Base.  Of the payload only this matters:   *)
(* whether it starts with "SHUTDOWN:", what follows, and that the bytes of *)
(* a text are greater than the first byte of a length ever is, which is at *)
(* most 4.                                                                 *)
(***************************************************************************)
EXTENDS Integers, SequencesExt

CONSTANTS
  Base,              \* the values of a byte (256)
  max_message_size,  \* 1024
  Capacity,          \* bytes that the socket's buffer takes
  Prefix,            \* "SHUTDOWN:"
  Graceful,          \* "GRACEFUL"
  Forceful,          \* "FORCEFUL"
  Letter,            \* a byte of any other text
  ReportSizes,       \* sizes of the texts given to send_fatal_error()
  MaxMessages,       \* bound: messages begun outside of do_panic()
  Platforms,         \* "linux" and "bsd", or one of them
  Junk               \* no message

Shutdowns == {Prefix \o Graceful, Prefix \o Forceful}
Report(n) == [i \in 1 .. n |-> Letter]
Messages  == Shutdowns \cup
             {Report(n) : n \in {k \in ReportSizes : k <= max_message_size}}

ASSUME BytesAssumption ==
  /\ Base \in Nat \ {0} /\ max_message_size \in 1 .. Base * Base - 1
  /\ \A m \in Messages : \A i \in 1 .. Len(m) : m[i] \in 0 .. Base - 1
ASSUME TextAssumption ==
  \A m \in Messages : \A i \in 1 .. Len(m) : m[i] > max_message_size \div Base
\* The texts: a shutdown is short enough to be sent, its words are no words of a
\* report, and no report starts like a shutdown.
ASSUME WordsAssumption ==
  /\ {Prefix, Graceful, Forceful} \subseteq Seq(Nat) /\ Letter \in Nat
  /\ \A m \in Shutdowns : Len(m) <= max_message_size
  /\ \A m \in Shutdowns : \E i \in 2 .. Len(m) : m[i] # Letter
  /\ \E i \in 1 .. Len(Prefix) : Prefix[i] # Letter
ASSUME JunkAssumption == Junk \notin Messages
ASSUME ReportAssumption == ReportSizes \subseteq Nat \ {0, 1}
ASSUME CapacityAssumption == Capacity \in Nat \ {0}
ASSUME PlatformAssumption == Platforms \subseteq {"linux", "bsd"}

VARIABLES
  platform,   \* which build of event_read() this is
  sender,     \* send_message_internal()
  stream,     \* the bytes in the socket
  receiver,   \* event_read(), and why the link is closed
  posted,     \* the messages that went into the socket whole, and in order
  delivered,  \* the messages handed to m_slot_shutdown and m_slot_message
  cut,        \* a fatal signal came in the middle of a message
  late        \* event_read() returned between a length and its payload

history == <<posted, delivered, cut, late>>
vars == <<platform, sender, stream, receiver, history>>

\* send_buf: htons(size), then the payload.
Frame(m) == <<Len(m) \div Base, Len(m) % Base>> \o m

\* ntohs()
MessageSize(bytes) == bytes[1] * Base + bytes[2]

Init ==
  /\ platform \in Platforms
  /\ sender = [pc |-> "idle", msg |-> <<>>, rest |-> <<>>]
  /\ stream = <<>>
  /\ receiver = [pc |-> "idle", got |-> <<>>, size |-> 0, why |-> "open"]
  /\ posted = <<>> /\ delivered = <<>>
  /\ cut = FALSE /\ late = FALSE

-----------------------------------------------------------------------------
(* The sender.                                                             *)

Sending == sender.pc \in {"sending", "panic"}
SenderGone == sender' = [sender EXCEPT !.pc = "closed"]

BeginSend ==
  /\ sender.pc = "idle"
  /\ Len(posted) < MaxMessages
  /\ \E m \in Messages :
       sender' = [pc |-> "sending", msg |-> m, rest |-> Frame(m)]
  /\ UNCHANGED <<platform, stream, receiver, history>>

\* How much of what is left send() takes.
Taken == IF Capacity - Len(stream) < Len(sender.rest)
           THEN Capacity - Len(stream) ELSE Len(sender.rest)

\* Mutant: after a part was sent, the buffer is sent from its start.
SendPartFromStart ==
  /\ Sending /\ receiver.pc # "closed" /\ Len(stream) < Capacity
  /\ stream' = stream \o SubSeq(sender.rest, 1, Taken)
  /\ IF Taken < Len(sender.rest)
       THEN UNCHANGED <<sender, posted>>
       ELSE /\ sender' = [sender EXCEPT !.rest = <<>>,
                            !.pc = IF @ = "panic" THEN "closed" ELSE "idle"]
            /\ posted' = IF cut THEN posted ELSE Append(posted, sender.msg)
  /\ UNCHANGED <<platform, receiver, delivered, cut, late>>

\* One send().  After the report of do_panic() comes abort().
SendPart ==
  /\ Sending /\ receiver.pc # "closed" /\ Len(stream) < Capacity
  /\ stream' = stream \o SubSeq(sender.rest, 1, Taken)
  /\ IF Taken < Len(sender.rest)
       THEN /\ sender' = [sender EXCEPT
                 !.rest = SubSeq(@, Taken + 1, Len(@))]
            /\ UNCHANGED posted
       ELSE /\ sender' = [sender EXCEPT !.rest = <<>>,
                            !.pc = IF @ = "panic" THEN "closed" ELSE "idle"]
            /\ posted' = IF cut THEN posted ELSE Append(posted, sender.msg)
  /\ UNCHANGED <<platform, receiver, delivered, cut, late>>

\* EAGAIN, when the buffer stays full for SO_SNDTIMEO, or EPIPE: the exception
\* ends the loop of the process, which closes its descriptors.
SendFails ==
  /\ Sending
  /\ receiver.pc = "closed" \/ Len(stream) >= Capacity
  /\ SenderGone
  /\ UNCHANGED <<platform, stream, receiver, history>>

\* A fatal signal: do_panic() reports it, even from the middle of a message.
\* A report that is too long throws.
Panic ==
  /\ sender.pc \in {"idle", "sending"}
  /\ \E n \in ReportSizes :
       IF n > max_message_size
         THEN SenderGone /\ UNCHANGED cut
         ELSE /\ sender' = [pc |-> "panic", msg |-> Report(n),
                            rest |-> Frame(Report(n))]
              /\ cut' = (sender.pc = "sending" /\ sender.rest # Frame(sender.msg))
  /\ UNCHANGED <<platform, stream, receiver, posted, delivered, late>>

\* It leaves its loop, or is killed.
Vanish ==
  /\ sender.pc # "closed"
  /\ SenderGone
  /\ UNCHANGED <<platform, stream, receiver, history>>

-----------------------------------------------------------------------------
(* The receiver.                                                           *)

\* m_slot_closed() closes the descriptor; an exception does so on its way.
CloseLink(why) ==
  receiver' = [receiver EXCEPT !.pc = "closed", !.got = <<>>, !.why = why]

\* read_fn(): what it was called for, and that it has that.
Wanted == IF receiver.pc = "length" THEN 2 ELSE receiver.size
Reading == receiver.pc \in {"length", "payload"} /\ Len(receiver.got) < Wanted
HasRead == receiver.pc \in {"length", "payload"} /\ Len(receiver.got) = Wanted

\* The poll reports data or the end of file.
EventRead ==
  /\ receiver.pc = "idle"
  /\ stream # <<>> \/ sender.pc = "closed"
  /\ receiver' = [receiver EXCEPT !.pc = "length", !.got = <<>>]
  /\ UNCHANGED <<platform, sender, stream, history>>

ReadPart ==
  /\ Reading /\ stream # <<>>
  /\ LET missing == Wanted - Len(receiver.got)
         n == IF missing < Len(stream) THEN missing ELSE Len(stream)
     IN  /\ receiver' = [receiver EXCEPT !.got = @ \o SubSeq(stream, 1, n)]
         /\ stream' = SubSeq(stream, n + 1, Len(stream))
  /\ UNCHANGED <<platform, sender, history>>

\* Mutant: no byte counts as EAGAIN.
ReadEndReturns ==
  /\ Reading /\ stream = <<>> /\ sender.pc = "closed"
  /\ receiver' = [receiver EXCEPT !.pc = "idle", !.got = <<>>]
  /\ UNCHANGED <<platform, sender, stream, history>>

ReadEnd ==
  /\ Reading /\ stream = <<>> /\ sender.pc = "closed"
  /\ CloseLink("end of file")
  /\ UNCHANGED <<platform, sender, stream, history>>

\* EAGAIN before the first byte of a part: event_read() returns.
ReadNothing ==
  /\ Reading /\ stream = <<>> /\ sender.pc # "closed"
  /\ receiver.got = <<>>
  /\ receiver' = [receiver EXCEPT !.pc = "idle"]
  /\ late' = (late \/ receiver.pc = "payload")
  /\ UNCHANGED <<platform, sender, stream, posted, delivered, cut>>

\* EAGAIN after it: on Linux the loop sleeps and tries again; elsewhere
\* SO_RCVTIMEO has expired.
ReadTimesOut ==
  /\ Reading /\ stream = <<>> /\ sender.pc # "closed"
  /\ receiver.got # <<>> /\ platform = "bsd"
  /\ CloseLink("time out")
  /\ UNCHANGED <<platform, sender, stream, history>>

\* Mutant: refuses the longest message as well.
LengthReadStrictly ==
  /\ receiver.pc = "length" /\ HasRead
  /\ IF MessageSize(receiver.got) >= max_message_size
       THEN CloseLink("too long")
       ELSE receiver' = [receiver EXCEPT !.pc = "payload", !.got = <<>>,
                                         !.size = MessageSize(receiver.got)]
  /\ UNCHANGED <<platform, sender, stream, history>>

LengthRead ==
  /\ receiver.pc = "length" /\ HasRead
  /\ IF MessageSize(receiver.got) > max_message_size
       THEN CloseLink("too long")
       ELSE receiver' = [receiver EXCEPT !.pc = "payload", !.got = <<>>,
                                         !.size = MessageSize(receiver.got)]
  /\ UNCHANGED <<platform, sender, stream, history>>

\* What starts like a shutdown and is none throws.
PayloadRead ==
  /\ receiver.pc = "payload" /\ HasRead
  /\ IF IsPrefix(Prefix, receiver.got) /\ receiver.got \notin Shutdowns
       THEN CloseLink("invalid") /\ UNCHANGED delivered
       ELSE /\ delivered' = Append(delivered, receiver.got)
            /\ receiver' = [receiver EXCEPT !.pc = "idle", !.got = <<>>]
  /\ UNCHANGED <<platform, sender, stream, posted, cut, late>>

\* It leaves its loop.
Leave ==
  /\ receiver.pc = "idle"
  /\ CloseLink("left")
  /\ UNCHANGED <<platform, sender, stream, history>>

-----------------------------------------------------------------------------
SenderRuns == SendPart \/ SendFails

ReceiverRuns ==
  \/ EventRead
  \/ ReadPart
  \/ ReadEnd
  \/ ReadNothing
  \/ ReadTimesOut
  \/ LengthRead
  \/ PayloadRead

Next ==
  \/ BeginSend
  \/ SenderRuns
  \/ Panic
  \/ Vanish
  \/ ReceiverRuns
  \/ Leave

Spec == Init /\ [][Next]_vars

\* send_message_internal() and event_read() run to their ends, and the loop of
\* the receiver polls.  Nobody need send, and nobody need leave or crash.
FairSpec == Spec /\ WF_vars(SenderRuns) /\ WF_vars(ReceiverRuns)

-----------------------------------------------------------------------------
(* Properties.                                                             *)

\* What is under way, as the link's users see it.
UnderWay ==
  IF late
    THEN <<Junk>>
    ELSE SubSeq(posted, Len(delivered) + 1, Len(posted)) \o
         (IF cut THEN <<Junk>> ELSE <<>>)

Link == INSTANCE ControlLink WITH
  queue  <- UnderWay,
  taken  <- delivered,
  isOpen <- receiver.pc # "closed"

\* However send() and recv() divide the stream, the messages that were posted
\* are handed over in order, once and unchanged; a message that a fatal signal
\* cut, or whose payload came late, is never taken for a shutdown, nor is what
\* comes after it.
ImplementsLink == Link!LinkSpec

\* A length that is too long and a shutdown that is none are the remains of a
\* message that was cut or came late: nothing that a peer sends is refused.
RefusesOnlyJunk == receiver.why \in {"too long", "invalid"} => cut \/ late

\* Every message that was posted is handed over, and the end of the sender is
\* noticed, unless the receiver has closed the link for another reason.
LinkServes ==
  /\ \A n \in 1 .. MaxMessages + 1 :
       Len(posted) >= n ~> Len(delivered) >= n \/ receiver.pc = "closed"
  /\ sender.pc = "closed" ~> receiver.pc = "closed"
=============================================================================
