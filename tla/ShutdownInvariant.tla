-------------------------- MODULE ShutdownInvariant --------------------------
(***************************************************************************)
(* The inductive invariant of module Shutdown: what each process holds at  *)
(* each label, why one of them may take its peer for gone, and how far the *)
(* channels were read when it found out.                                   *)
(***************************************************************************)
EXTENDS Shutdown

LoopLabels == {"check", "write", "pre", "poll", "handle", "post", "exiting"}
EndLabels  == {"waiting", "exited"}
Reasons    == {"start", "closed", "told", "timeout", "exception", "exit220", "crash"}
Batches    == {<<>>, <<"control">>, <<"wakeup">>,
               <<"control", "wakeup">>, <<"wakeup", "control">>}

ProcessType ==
  [pc : StartLabels \cup LoopLabels \cup EndLabels \cup {"none"},
   events : Batches,
   shutdown : BOOLEAN, kind : {"none", "graceful", "forceful"},
   closed : BOOLEAN, timer : {"off", "running", "expired"},
   heard : 0 .. MaxMessages,
   ended : {"no"} \cup Reasons]

MessageType == [kind : Kinds, written : 0 .. MaxMessages]

TypeInv ==
  /\ proc \in [Peers -> ProcessType]
  /\ held \in [Peers -> SUBSET Ends]
  /\ inbox \in [Peers -> Seq(MessageType)]
  /\ wakeups \in [Peers -> Nat]
  /\ polling \in [Segments -> BOOLEAN]
  /\ written \in [Segments -> 0 .. MaxMessages]
  /\ consumed \in [Segments -> 0 .. MaxMessages]
  /\ \A s \in Segments : consumed[s] <= written[s]

\* The child is there if and only if fork() has succeeded.
ForkInv ==
  /\ proc[Parent].pc # "none"
  /\ proc[Child].pc \notin {"initialize", "fork", "waiting"}
  /\ proc[Child].pc = "none" => proc[Parent].pc \in {"initialize", "fork", "exited"}
  /\ proc[Child].pc # "none" => proc[Parent].pc \notin {"initialize", "fork"}

Own(p) == {End(pair, p) : pair \in Pairs}

\* What a process holds is decided by where it is and whether it has seen the
\* end of file of the control socket.
HeldInv(p) ==
  /\ proc[p].pc \in {"none", "initialize", "exited"} => held[p] = {}
  /\ proc[p].pc \in {"fork", "router"} => held[p] = Ends
  /\ proc[p].pc = "wakeup" => held[p] = Own(p) \cup {End("wakeup", Other(p))}
  /\ proc[p].pc = "prepare" => held[p] = Own(p)
  /\ proc[p].pc \in LoopLabels \cup {"waiting"} =>
       held[p] \subseteq Own(p) /\ Holds(p, "keepalive")
  /\ proc[p].pc \in LoopLabels =>
       /\ Holds(p, "control") <=> ~proc[p].closed
       /\ Holds(p, "wakeup")  <=> (~proc[p].closed /\ proc[p].pc # "exiting")

\* The reason to leave is set when the loop, or the start, is left; a process
\* that has seen the end of file goes straight to the top of its loop.
EndedInv(p) ==
  /\ (proc[p].ended = "no") <=> proc[p].pc \notin EndLabels
  /\ proc[p].closed =>
       /\ proc[p].shutdown
       /\ proc[p].pc \in {"handle", "post", "check"} \cup EndLabels
  /\ proc[p].ended = "closed" => proc[p].closed
  /\ proc[p].ended = "told" => p = Child /\ proc[p].kind # "none"
  /\ proc[p].ended = "timeout" => proc[p].timer = "expired"

\* It has left its loop or is about to.
Gone(p) == proc[p].closed \/ proc[p].ended # "no"

\* Whoever takes its peer for gone is right.
GoneInv(p) ==
  (proc[p].closed \/ At(p, "exiting") \/ proc[p].ended = "exit220")
    => Gone(Other(p))

\* What the poll returned is still there when it is handled, or the peer is gone.
EventInv(p) ==
  At(p, "handle") =>
    /\ proc[p].events # <<>>
    /\ \A i \in 1 .. Len(proc[p].events) :
         /\ proc[p].events[i] = "control" => inbox[p] # <<>> \/ Gone(Other(p))
         /\ (proc[p].events[i] = "wakeup" /\ Holds(p, "wakeup")) =>
              wakeups[p] > 0 \/ Gone(Other(p))

\* The child is told to stop only when the parent has begun its own shutdown.
ToldInv ==
  \/ proc[Parent].timer # "off"
  \/ /\ proc[Child].kind = "none"
     /\ \A i \in 1 .. Len(inbox[Child]) : inbox[Child][i].kind = "fatal"

\* flag_polling of a channel is set while its reader polls, or died there.
PollingInv(p) ==
  polling[ReadSegment(p)] =>
    \/ proc[p].pc \in {"poll", "handle", "post", "exiting"}
    \/ proc[p].ended \in {"exit220", "crash"}

\* A control message follows no more than was published; what the last one
\* followed is consumed when its receiver is at the top of its loop, and so is
\* everything when the peer is gone.
HeardInv(p) ==
  /\ \A i \in 1 .. Len(inbox[p]) : inbox[p][i].written <= Sent(Other(p))
  /\ proc[p].heard <= Sent(Other(p))
  /\ (proc[p].pc \notin {"handle", "post", "exiting"} \cup EndLabels
      \/ proc[p].ended = "told") => Received(p) >= proc[p].heard
  /\ ((proc[p].closed /\ At(p, "check")) \/ proc[p].ended = "closed") =>
       Received(p) = Sent(Other(p))

\* An exception follows only something that CleanUnlessLate names.
Late ==
  \E p \in Peers : proc[p].ended \in {"start", "crash"} \/ proc[p].timer = "expired"

CleanInv == ~Late => \A p \in Peers : proc[p].ended # "exception"

\* The inductive invariant.
ShutdownInv ==
  /\ TypeInv
  /\ ForkInv
  /\ ToldInv
  /\ CleanInv
  /\ \A p \in Peers : HeldInv(p) /\ EndedInv(p)
  /\ \A p \in Peers : GoneInv(p) /\ EventInv(p)
  /\ \A p \in Peers : PollingInv(p)
  /\ \A p \in Peers : HeardInv(p)
=============================================================================
