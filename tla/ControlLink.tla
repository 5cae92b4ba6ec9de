----------------------------- MODULE ControlLink -----------------------------
(***************************************************************************)
(* What one direction of the control socket promises its users: messages   *)
(* are handed over in the order in which they were posted, each once and   *)
(* unchanged, until the link is closed.  A sender that is torn out of a    *)
(* message may leave junk behind; nothing that comes after junk is         *)
(* promised, except that no shutdown is made of it.                        *)
(***************************************************************************)
EXTENDS Integers, Sequences

CONSTANTS
  Messages,    \* what may be posted
  Shutdowns,   \* the messages that tell the peer to stop
  Junk         \* stands for what is no message

VARIABLES
  queue,       \* what was posted and not yet handed over, oldest first
  taken,       \* what was handed over
  isOpen       \* the receiver still listens

linkVars == <<queue, taken, isOpen>>

LinkInit ==
  /\ queue = <<>>
  /\ taken = <<>>
  /\ isOpen = TRUE

HasJunk == \E i \in 1 .. Len(queue) : queue[i] = Junk

Post ==
  /\ ~HasJunk
  /\ \E m \in Messages : queue' = Append(queue, m)
  /\ UNCHANGED <<taken, isOpen>>

\* What is not handed over yet may be spoilt from some point on.
Spoil ==
  /\ \E n \in 0 .. Len(queue) : queue' = Append(SubSeq(queue, 1, n), Junk)
  /\ UNCHANGED <<taken, isOpen>>

Take ==
  /\ isOpen
  /\ queue # <<>> /\ Head(queue) # Junk
  /\ taken' = Append(taken, Head(queue))
  /\ queue' = Tail(queue)
  /\ UNCHANGED isOpen

TakeJunk ==
  /\ isOpen
  /\ queue # <<>> /\ Head(queue) = Junk
  /\ Len(taken') = Len(taken) + 1
  /\ SubSeq(taken', 1, Len(taken)) = taken
  /\ taken'[Len(taken')] \notin Shutdowns
  /\ UNCHANGED <<queue, isOpen>>

Close ==
  /\ isOpen' = FALSE
  /\ UNCHANGED <<queue, taken>>

LinkNext ==
  \/ Post
  \/ Spoil
  \/ Take
  \/ TakeJunk
  \/ Close

LinkSpec == LinkInit /\ [][LinkNext]_linkVars
=============================================================================
