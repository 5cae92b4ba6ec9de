--------------------------- MODULE RouterInvariant ---------------------------
(***************************************************************************)
(* Why the child knows every id before it reads a message for it: the      *)
(* inductive invariant behind the properties of module Router.  The        *)
(* announcements lie on the first lines of the ring, one after the other,  *)
(* until they are consumed, and every line behind them holds a text.       *)
(* Module RouterProofs proves it for every ring and any number of channels.*)
(***************************************************************************)
EXTENDS Router, ChannelInvariant

\* The write() going on is that of create_new_channel().
Announcing == Writing /\ placement.id = ControlId

\* The handler of id 1 has returned; its message is not consumed yet.
Told == child.dispatched /\ held.id = ControlId

\* How many announcements are in the ring or were there, and how many of them
\* were consumed.
Published == Len(parent.channels) - (IF Announcing THEN 1 ELSE 0)
Consumed  == Len(child.channels) - (IF Told THEN 1 ELSE 0)

\* The same for texts.
TextsWritten  == parent.texts - (IF Writing /\ ~Announcing THEN 1 ELSE 0)
TextsConsumed == child.texts - (IF child.dispatched /\ ~Told THEN 1 ELSE 0)

AnnouncementsEnd == NewChannels * LineSize

RouterTypes ==
  /\ parent \in [handlers : SUBSET Nat, nextId : Nat, channels : Seq(Nat),
                 message : [kind : {"nothing", "announcement", "text"}, n : Nat],
                 texts : Nat, threw : BOOLEAN]
  /\ child \in [handlers : SUBSET Nat, channels : Seq(Nat),
                dispatched : BOOLEAN, texts : Nat, threw : BOOLEAN]
  /\ contents \in [Lines -> [kind : {"nothing", "announcement", "text"}, n : Nat]]
  /\ replies \in Seq(Nat)

\* Ids are given out from 2 on, and both processes have them in this order.
IdsInv ==
  /\ Len(parent.channels) <= NewChannels
  /\ Len(child.channels) <= Len(parent.channels)
  /\ parent.nextId = IF parent.channels = <<>> THEN 1 ELSE Len(parent.channels) + 2
  /\ parent.handlers = 1 .. Len(parent.channels) + 1
  /\ child.handlers = 1 .. Len(child.channels) + 1
  /\ \A i \in 1 .. Len(parent.channels) : parent.channels[i] = i + 1
  /\ \A i \in 1 .. Len(child.channels) : child.channels[i] = i + 1
  /\ \A i \in 1 .. Len(replies) : replies[i] \in 2 .. Len(child.channels) + 1

\* A write() is that of the parent's message, and takes one line.
MessageInv ==
  Writing =>
    /\ IF Announcing
         THEN /\ placement.size = AnnouncementSize
              /\ parent.channels # <<>>
              /\ parent.message = Announcement(Len(parent.channels) + 1)
         ELSE /\ placement.size = TextSize
              /\ placement.id \in 2 .. NewChannels + 1
              /\ SetUp /\ parent.texts > 0
              /\ parent.message = Text(parent.texts)
    /\ placement.firstSize = 0 => placement.secondSize = placement.size
    /\ placement.firstSize > 0 =>
         placement.firstSize = placement.size /\ placement.secondSize = 0
    /\ writer = "publish" => contents[placement.firstAt] = parent.message

\* Where both processes are in the ring while announcements are left, and how
\* many messages lie between them.
ProgressInv ==
  /\ child.dispatched => reader = "held"
  /\ Consumed <= Published
  /\ Consumed < NewChannels => readOffset = LineSize * Consumed /\ TextsConsumed = 0
  /\ Published < NewChannels => writeOffset = LineSize * Published /\ parent.texts = 0
  /\ Distance(writeOffset) =
       LineSize * (Published - Consumed + TextsWritten - TextsConsumed)

HoldsAnnouncement(l) ==
  /\ lines[l].rec = Record(ControlId, 0, AnnouncementSize)
  /\ contents[l].kind = "announcement"
  /\ l = LineSize * (contents[l].n - 2)

HoldsText(l) ==
  /\ lines[l].rec.id \in 2 .. NewChannels + 1
  /\ lines[l].rec.size = TextSize
  /\ contents[l].kind = "text"
  /\ Distance(l) = LineSize *
       (NewChannels - Consumed + contents[l].n - 1 - TextsConsumed)

\* What lies on the unread lines: every one is a record of its own.
ContentsInv ==
  \A l \in UnreadLines :
    /\ lines[l].header
    /\ IF Consumed < NewChannels /\ readOffset <= l /\ l < AnnouncementsEnd
         THEN HoldsAnnouncement(l)
         ELSE HoldsText(l)

\* Inductive for RouterSafeSpec.
RouterInv ==
  /\ SafeInv
  /\ RouterTypes
  /\ IdsInv
  /\ MessageInv
  /\ ProgressInv
  /\ ContentsInv
  /\ NobodyThrows
=============================================================================
