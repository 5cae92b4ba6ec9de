------------------------------ MODULE Shutdown ------------------------------
(***************************************************************************)
(* The life of the two processes, from module Startup to their end: the    *)
(* flags that signal handlers and control messages set (main.cc), what     *)
(* parent.cc and child.cc do about them at the top of their loops, the     *)
(* messages and the end of file on the control socket (ControlFd), and the *)
(* end of file on the wakeup socket (WakeupFd, the socketpair build).      *)
(*                                                                         *)
(* The channels are numbers of messages as in module Wakeup; looking twice *)
(* around the store of flag_polling is one step here.  A control message   *)
(* is one element of a sequence: it is far smaller than a socket's buffer, *)
(* which takes it whole in one send().                                     *)
(***************************************************************************)
EXTENDS Startup, SequencesExt

CONSTANTS
  MaxMessages,      \* bound: how many messages each process writes
  MayCrash          \* the processes that a fatal signal may end

ASSUME CrashAssumption == MayCrash \subseteq Peers
ASSUME BoundAssumption == MaxMessages \in Nat

VARIABLES
  inbox,       \* the control messages on their way to a process
  wakeups,     \* the bytes on its wakeup socket
  polling,     \* consumer_state of a segment's channel is flag_polling
  written,     \* the messages published in it
  consumed     \* the messages consumed from it

channels == <<polling, written, consumed>>
vars == <<proc, held, inbox, wakeups, channels>>

\* Control messages; written is how many messages the sender had published,
\* which only the properties look at.
Message(kind, n) == [kind |-> kind, written |-> n]
Kinds == {"graceful", "forceful", "fatal"}

Init ==
  /\ StartInit
  /\ inbox = [p \in Peers |-> <<>>]
  /\ wakeups = [p \in Peers |-> 0]
  /\ polling = [s \in Segments |-> FALSE]
  /\ written = [s \in Segments |-> 0]
  /\ consumed = [s \in Segments |-> 0]

-----------------------------------------------------------------------------
(* Parts of actions.                                                       *)

Running(p) == Started(p) /\ ~At(p, "waiting")

\* What p has published, and what it has been sent.
Sent(p)     == written[WriteSegment(p)]
Received(p) == consumed[ReadSegment(p)]

\* Router::close_fds(); the keepalive socket stays open.
CloseFds(p) == Drop(p, {End("control", p), End("wakeup", p)})

\* The loop is left, by break or by an exception: the descriptors are closed
\* and main() returns, in the parent after wait().
Leave(p, why) ==
  \/ p = Child /\ Exit(p, why)
  \/ /\ p = Parent
     /\ proc' = [proc EXCEPT ![p].pc = "waiting", ![p].ended = why]
     /\ CloseFds(p)

\* send_message_internal() to a peer that has its end open; EPIPE throws.
Send(p, kind) ==
  inbox' = [inbox EXCEPT ![Other(p)] = Append(@, Message(kind, Sent(p)))]

\* do_panic() reports to the peer, but only the child has a g_router to do it
\* with, once it has one.  Without a poll the report itself ends in a fatal
\* signal, and is sent again.
MaxReports(p) ==
  IF p = Child /\ Holds(p, "control") /\ PeerOpen(p, "control")
    THEN IF Started(p) THEN 1 ELSE IF At(p, "prepare") THEN 2 ELSE 0
    ELSE 0

\* do_panic() and abort().  A reason too long for a control message is not sent.
Abort(p, why) ==
  /\ Exit(p, why)
  /\ \E n \in 0 .. MaxReports(p) :
       inbox' = [inbox EXCEPT ![Other(p)] =
         @ \o [i \in 1 .. n |-> Message("fatal", Sent(p))]]
  /\ UNCHANGED <<wakeups, channels>>

\* Mutant: everything published is counted again.
ConsumeAllAgain(p) ==
  consumed' = [consumed EXCEPT ![ReadSegment(p)] = @ + written[ReadSegment(p)]]

ConsumeAll(p) ==
  consumed' = [consumed EXCEPT ![ReadSegment(p)] = written[ReadSegment(p)]]

-----------------------------------------------------------------------------
(* The top of the loop.                                                    *)

CarryOn(p) ==
  /\ At(p, "check")
  /\ \/ ~proc[p].shutdown
     \/ /\ ~proc[p].closed
        /\ p = Child => proc[p].kind = "none"
        /\ proc[p].timer = "running"
  /\ Goto(p, "write")
  /\ UNCHANGED <<held, inbox, wakeups, channels>>

StopOnClosed(p) ==
  /\ At(p, "check")
  /\ proc[p].shutdown /\ proc[p].closed
  /\ Leave(p, "closed")
  /\ UNCHANGED <<inbox, wakeups, channels>>

\* Only the child leaves as soon as it is told to.
StopOnMessage ==
  /\ At(Child, "check")
  /\ proc[Child].shutdown /\ ~proc[Child].closed
  /\ proc[Child].kind # "none"
  /\ Leave(Child, "told")
  /\ UNCHANGED <<inbox, wakeups, channels>>

\* Mutant: tells the peer and does not wait for it.
StartShutdownAndLeave(p) ==
  /\ At(p, "check")
  /\ proc[p].shutdown /\ ~proc[p].closed
  /\ p = Child => proc[p].kind = "none"
  /\ proc[p].timer = "off"
  /\ IF PeerOpen(p, "control")
       THEN Send(p, "graceful") /\ Leave(p, "told")
       ELSE Leave(p, "exception") /\ UNCHANGED inbox
  /\ UNCHANGED <<wakeups, channels>>

\* Tells the peer and starts to wait for it.
StartShutdown(p) ==
  /\ At(p, "check")
  /\ proc[p].shutdown /\ ~proc[p].closed
  /\ p = Child => proc[p].kind = "none"
  /\ proc[p].timer = "off"
  /\ IF PeerOpen(p, "control")
       THEN /\ Send(p, "graceful")
            /\ proc' = [proc EXCEPT ![p].timer = "running"]
            /\ UNCHANGED held
       ELSE Leave(p, "exception") /\ UNCHANGED inbox
  /\ UNCHANGED <<wakeups, channels>>

GiveUp(p) ==
  /\ At(p, "check")
  /\ proc[p].shutdown /\ ~proc[p].closed
  /\ p = Child => proc[p].kind = "none"
  /\ proc[p].timer = "expired"
  /\ IF PeerOpen(p, "control")
       THEN Send(p, "forceful") /\ Leave(p, "timeout")
       ELSE Leave(p, "exception") /\ UNCHANGED inbox
  /\ UNCHANGED <<wakeups, channels>>

-----------------------------------------------------------------------------
(* The rest of the loop: Router::write(), process_reads_pre_polling(),     *)
(* do_poll() and process_reads_post_polling().                             *)

WriteNothing(p) ==
  /\ At(p, "write")
  /\ Goto(p, "pre")
  /\ UNCHANGED <<held, inbox, wakeups, channels>>

\* An interrupt to a peer that is gone is an error (EPIPE).
WriteMessage(p) ==
  /\ At(p, "write")
  /\ Sent(p) < MaxMessages
  /\ written' = [written EXCEPT ![WriteSegment(p)] = @ + 1]
  /\ IF polling[WriteSegment(p)]
       THEN /\ polling' = [polling EXCEPT ![WriteSegment(p)] = FALSE]
            /\ IF PeerOpen(p, "wakeup")
                 THEN /\ wakeups' = [wakeups EXCEPT ![Other(p)] = @ + 1]
                      /\ Goto(p, "pre")
                      /\ UNCHANGED held
                 ELSE Leave(p, "exception") /\ UNCHANGED wakeups
       ELSE Goto(p, "pre") /\ UNCHANGED <<polling, wakeups, held>>
  /\ UNCHANGED <<inbox, consumed>>

PrePolling(p) ==
  /\ At(p, "pre")
  /\ ConsumeAll(p)
  /\ polling' = [polling EXCEPT ![ReadSegment(p)] = TRUE]
  /\ Goto(p, "poll")
  /\ UNCHANGED <<held, inbox, wakeups, written>>

\* What is readable: data, or the end of file of a closed peer.
Readable(p) ==
  {e \in {"control", "wakeup"} :
     IF e = "control"
       THEN Holds(p, e) /\ (inbox[p] # <<>> \/ ~PeerOpen(p, e))
       ELSE Holds(p, e) /\ (wakeups[p] > 0 \/ ~PeerOpen(p, e))}

\* kevent() returns what is readable in any order, and nothing at its timeout.
Poll(p) ==
  /\ At(p, "poll")
  /\ \E events \in SetToSeqs(Readable(p)) :
       proc' = [proc EXCEPT ![p].events = events,
                            ![p].pc = IF events = <<>> THEN "post" ELSE "handle"]
  /\ UNCHANGED <<held, inbox, wakeups, channels>>

\* Mutant: the channel is not looked at again after the poll.
PostPollingUnread(p) ==
  /\ At(p, "post")
  /\ polling' = [polling EXCEPT ![ReadSegment(p)] = FALSE]
  /\ Goto(p, "check")
  /\ UNCHANGED <<held, inbox, wakeups, written, consumed>>

PostPolling(p) ==
  /\ At(p, "post")
  /\ ConsumeAll(p)
  /\ polling' = [polling EXCEPT ![ReadSegment(p)] = FALSE]
  /\ Goto(p, "check")
  /\ UNCHANGED <<held, inbox, wakeups, written>>

-----------------------------------------------------------------------------
(* Poll::process(): one event_read() for each event returned.              *)

NextEvent(p) == proc[p].events[1]

\* The state after this event is handled.
Handled(r) ==
  [r EXCEPT !.events = Tail(@), !.pc = IF Len(r.events) > 1 THEN @ ELSE "post"]

\* handle_control_shutdown() or, for a fatal error, only a line of output.
ControlMessage(p) ==
  /\ At(p, "handle") /\ NextEvent(p) = "control"
  /\ inbox[p] # <<>>
  /\ inbox' = [inbox EXCEPT ![p] = Tail(@)]
  /\ LET m == Head(inbox[p])
     IN  proc' = [proc EXCEPT ![p] =
           IF m.kind = "fatal"
             THEN Handled(@)
             ELSE [Handled(@) EXCEPT !.shutdown = TRUE, !.kind = m.kind,
                                     !.heard = m.written]]
  /\ UNCHANGED <<held, wakeups, channels>>

\* Mutant: a closed control socket does not make the process stop.
ControlClosedUnnoticed(p) ==
  /\ At(p, "handle") /\ NextEvent(p) = "control"
  /\ inbox[p] = <<>>
  /\ proc' = [proc EXCEPT ![p] = Handled(@)]
  /\ CloseFds(p)
  /\ UNCHANGED <<inbox, wakeups, channels>>

\* End of file: handle_control_closed() closes the router's descriptors.
ControlClosed(p) ==
  /\ At(p, "handle") /\ NextEvent(p) = "control"
  /\ inbox[p] = <<>>
  /\ proc' = [proc EXCEPT ![p] =
       [Handled(@) EXCEPT !.shutdown = TRUE, !.closed = TRUE]]
  /\ CloseFds(p)
  /\ UNCHANGED <<inbox, wakeups, channels>>

WakeupByte(p) ==
  /\ At(p, "handle") /\ NextEvent(p) = "wakeup"
  /\ Holds(p, "wakeup") /\ wakeups[p] > 0
  /\ wakeups' = [wakeups EXCEPT ![p] = @ - 1]
  /\ proc' = [proc EXCEPT ![p] = Handled(@)]
  /\ UNCHANGED <<held, inbox, channels>>

\* End of file: the thread that is to exit in five seconds is waited for by the
\* destructor of its future, before event_read() returns.
WakeupEof(p) ==
  /\ At(p, "handle") /\ NextEvent(p) = "wakeup"
  /\ Holds(p, "wakeup") /\ wakeups[p] = 0
  /\ Drop(p, {End("wakeup", p)})
  /\ Goto(p, "exiting")
  /\ UNCHANGED <<inbox, wakeups, channels>>

\* The poll skips the event of a descriptor that was closed meanwhile.
ClosedEvent(p) ==
  /\ At(p, "handle") /\ NextEvent(p) = "wakeup"
  /\ ~Holds(p, "wakeup")
  /\ proc' = [proc EXCEPT ![p] = Handled(@)]
  /\ UNCHANGED <<held, inbox, wakeups, channels>>

\* exit(220) from the other thread, without wait().  It destroys g_poll, which
\* still has the control descriptor in its table, so that the assertion in
\* ~Poll() fails.
ExitLate(p) == At(p, "exiting") /\ Abort(p, "exit220")

-----------------------------------------------------------------------------
(* What happens to a process at any time.                                  *)

\* do_signal_shutdown(), once it is registered; a poll it interrupts returns as from a timeout.
Signal(p) ==
  /\ Running(p)
  /\ proc' = [proc EXCEPT ![p].shutdown = TRUE]
  /\ UNCHANGED <<held, inbox, wakeups, channels>>

FiveSecondsPass(p) ==
  /\ Running(p)
  /\ proc[p].timer = "running"
  /\ proc' = [proc EXCEPT ![p].timer = "expired"]
  /\ UNCHANGED <<held, inbox, wakeups, channels>>

\* A fatal signal, SIGKILL, or SIGTERM before its handler is registered.
Crash(p) == Alive(p) /\ p \in MayCrash /\ Abort(p, "crash")

\* The parent's wait().
Reap ==
  /\ At(Parent, "waiting")
  /\ At(Child, "exited")
  /\ Exit(Parent, proc[Parent].ended)
  /\ UNCHANGED <<inbox, wakeups, channels>>

-----------------------------------------------------------------------------
\* What a process does when it is scheduled.
Run(p) ==
  \/ StartStep(p) /\ UNCHANGED <<inbox, wakeups, channels>>
  \/ CarryOn(p)
  \/ StopOnClosed(p)
  \/ p = Child /\ StopOnMessage
  \/ StartShutdown(p)
  \/ GiveUp(p)
  \/ WriteNothing(p)
  \/ WriteMessage(p)
  \/ PrePolling(p)
  \/ Poll(p)
  \/ PostPolling(p)
  \/ ControlMessage(p)
  \/ ControlClosed(p)
  \/ WakeupByte(p)
  \/ WakeupEof(p)
  \/ ClosedEvent(p)
  \/ ExitLate(p)
  \/ p = Parent /\ Reap

Next ==
  \E p \in Peers :
    \/ Run(p)
    \/ FiveSecondsPass(p)
    \/ Signal(p)
    \/ Crash(p)

Spec == Init /\ [][Next]_vars

\* Both processes are scheduled and every poll ends at its timeout; no signal
\* has to come, no process has to crash, and time need not run out.
FairSpec == Spec /\ \A p \in Peers : WF_vars(Run(p))

-----------------------------------------------------------------------------
(* Properties.                                                             *)

\* Every variable holds a value of its type, a batch of events names each
\* descriptor once, and no process has consumed more than was published.
TypeOK ==
  /\ proc \in [Peers ->
       [pc : StartLabels \cup {"none", "check", "write", "pre", "poll",
              "handle", "post", "exiting", "waiting", "exited"},
        events : {<<>>} \cup {<<e>> : e \in {"control", "wakeup"}}
                 \cup {<<"control", "wakeup">>, <<"wakeup", "control">>},
        shutdown : BOOLEAN, kind : {"none", "graceful", "forceful"},
        closed : BOOLEAN, timer : {"off", "running", "expired"},
        heard : 0 .. MaxMessages,
        ended : {"no", "start", "closed", "told", "timeout", "exception",
                 "exit220", "crash"}]]
  /\ held \in [Peers -> SUBSET Ends]
  /\ \A p \in Peers : \A i \in 1 .. Len(inbox[p]) :
       inbox[p][i] \in [kind : Kinds, written : 0 .. MaxMessages]
  /\ wakeups \in [Peers -> Nat]
  /\ polling \in [Segments -> BOOLEAN]
  /\ written \in [Segments -> 0 .. MaxMessages]
  /\ consumed \in [Segments -> 0 .. MaxMessages]
  /\ \A s \in Segments : consumed[s] <= written[s]

\* What was published before the shutdown message was sent, or before the
\* control socket was closed, is consumed before the loop is left: control and
\* data travel on different ways, and the channel is looked at again after the
\* control message and before the flags.
NothingLost ==
  /\ proc[Child].ended = "told" => Received(Child) >= proc[Child].heard
  /\ \A p \in Peers :
       proc[p].ended = "closed" => Received(p) = Sent(Other(p))

\* Without a crash or a failed start, and unless one of the two waited its five
\* seconds in vain, no process ends with an exception: nobody writes to a
\* descriptor that its peer has closed.
CleanUnlessLate ==
  (\A p \in Peers : /\ proc[p].ended \notin {"start", "crash"}
                    /\ proc[p].timer # "expired") =>
    \A p \in Peers : proc[p].ended # "exception"

\* A parent that could not prepare its poll waits for its child and holds the
\* control socket open, the end of which the child waits for.
WaitsForEachOther == At(Parent, "waiting") /\ Holds(Parent, "control")

\* Once one of them is to stop, could not start, or has crashed, both processes
\* come to an end, unless they wait for each other as above.
BothEnd ==
  (\E p \in Peers : proc[p].shutdown \/ proc[p].ended # "no")
    ~> ((\A p \in Peers : Ended(p)) \/ WaitsForEachOther)

-----------------------------------------------------------------------------
(* What a comment says, and the code does not do (see "findings").         *)

\* wakeup_fd.cc:141: "Close and then ignore as control or keepalive fd handles
\* shutdown for us."
WakeupEofIsIgnored == \A p \in Peers : proc[p].ended # "exit220"
=============================================================================
