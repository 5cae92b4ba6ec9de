------------------------------ MODULE Startup ------------------------------
(***************************************************************************)
(* From main() to the two loops: RouterFactory makes the segments and the  *)
(* socket pairs, fork() copies every descriptor, and each process closes   *)
(* the ends that are the other one's.  A socket tells its user that the    *)
(* peer is gone only if nobody holds the other end any more, so that what  *)
(* module Shutdown takes for an end of file is decided here.               *)
(***************************************************************************)
EXTENDS Integers, Sequences

CONSTANTS
  Parent, Child,    \* the two processes
  StartMayFail      \* the steps of the start may fail

ASSUME PeersAssumption == Parent # Child
ASSUME FailureAssumption == StartMayFail \in BOOLEAN

Peers == {Parent, Child}
Other(p) == IF p = Parent THEN Child ELSE Parent

\* The pairs of RouterFactory and the ends of each: m_control_fds.first is the
\* parent's, .second the child's.
Pairs == {"control", "keepalive", "wakeup"}
End(pair, p) == <<pair, p>>
Ends == Pairs \X Peers

\* m_segment_1 and m_segment_2, with the channels in them.
Segments == {1, 2}

ReadSegment(p)  == IF p = Parent THEN 1 ELSE 2
WriteSegment(p) == IF p = Parent THEN 2 ELSE 1

VARIABLES
  proc,   \* what each process knows and where it is
  held    \* the ends among its descriptors

\* A process before it does anything; "none" is one that is not there yet.
NewProcess(label) ==
  [pc |-> label,
   events |-> <<>>,          \* what kevent() returned, not yet handled
   shutdown |-> FALSE,       \* g_should_shutdown
   kind |-> "none",          \* g_should_graceful_ and _forced_shutdown
   closed |-> FALSE,         \* g_control_fd_closed
   timer |-> "off",          \* shutdown_timestamp and the 5 s since
   heard |-> 0,              \* how much the last shutdown message followed
   ended |-> "no"]           \* why it left its loop, or never came there

StartInit ==
  /\ proc = [p \in Peers |->
       NewProcess(IF p = Parent THEN "initialize" ELSE "none")]
  /\ held = [p \in Peers |-> {}]

-----------------------------------------------------------------------------
At(p, label)   == proc[p].pc = label
Goto(p, label) == proc' = [proc EXCEPT ![p].pc = label]

\* The process is gone, and the kernel has closed what it held.
Exit(p, why) ==
  /\ proc' = [proc EXCEPT ![p].pc = "exited", ![p].ended = why]
  /\ held' = [held EXCEPT ![p] = {}]

Drop(p, ends) == held' = [held EXCEPT ![p] = @ \ ends]

Holds(p, pair) == End(pair, p) \in held[p]

\* The peer's end is open, in whatever process.
PeerOpen(p, pair) == \E q \in Peers : End(pair, Other(p)) \in held[q]

-----------------------------------------------------------------------------
\* RouterFactory::initialize(): both segments with their channels, then the
\* three pairs.
Initialize ==
  /\ At(Parent, "initialize")
  /\ held' = [held EXCEPT ![Parent] = Ends]
  /\ Goto(Parent, "fork")

Fork ==
  /\ At(Parent, "fork")
  /\ held' = [held EXCEPT ![Child] = held[Parent]]
  /\ proc' = [p \in Peers |-> [proc[p] EXCEPT !.pc = "router"]]

\* Mutant: the peer's end of the keepalive socket stays open.
CreateRouterKeepingKeepalive(p) ==
  /\ At(p, "router")
  /\ Drop(p, {End("control", Other(p))})
  /\ Goto(p, "wakeup")

\* create_parent_router(), create_child_router(): the other one's ends.
CreateRouter(p) ==
  /\ At(p, "router")
  /\ Drop(p, {End("control", Other(p)), End("keepalive", Other(p))})
  /\ Goto(p, "wakeup")

\* Router::Router() and WakeupFd::open().
OpenWakeup(p) ==
  /\ At(p, "wakeup")
  /\ Drop(p, {End("wakeup", Other(p))})
  /\ Goto(p, "prepare")

\* Poll::create(), the signal handlers, Router::open_fds().
Prepare(p) ==
  /\ At(p, "prepare")
  /\ Goto(p, "check")
  /\ UNCHANGED held

\* An exception that main() does not catch: terminate() raises SIGABRT.
StartFails(p) ==
  /\ StartMayFail
  /\ proc[p].pc \in {"initialize", "fork", "router", "wakeup"}
  /\ Exit(p, "start")

\* Poll::create() throws before the try of parent_process() or child_process():
\* main() catches it, and no descriptor is closed.  The parent goes on to
\* wait() for the child, which is not told.
PollFails(p) ==
  /\ StartMayFail
  /\ At(p, "prepare")
  /\ \/ p = Child /\ Exit(p, "start")
     \/ /\ p = Parent
        /\ proc' = [proc EXCEPT ![p].pc = "waiting", ![p].ended = "start"]
        /\ UNCHANGED held

StartStep(p) ==
  \/ p = Parent /\ (Initialize \/ Fork)
  \/ CreateRouter(p)
  \/ OpenWakeup(p)
  \/ Prepare(p)
  \/ StartFails(p)
  \/ PollFails(p)

StartLabels == {"initialize", "fork", "router", "wakeup", "prepare"}
Alive(p)    == proc[p].pc \notin {"none", "exited"}
Started(p)  == Alive(p) /\ proc[p].pc \notin StartLabels
Ended(p)    == proc[p].pc \in {"none", "exited"}

-----------------------------------------------------------------------------
\* What the ends of file mean to a process that has started: when its peer is
\* gone, every socket says so; the keepalive socket says so only then, and the
\* control socket only when the peer has left its loop or has seen the end of
\* file itself.
EndOfFileIsTrue ==
  \A p \in Peers : Started(p) =>
    /\ At(Other(p), "exited") => \A pair \in Pairs : ~PeerOpen(p, pair)
    /\ ~PeerOpen(p, "keepalive") => At(Other(p), "exited")
    /\ ~PeerOpen(p, "control") =>
         proc[Other(p)].ended # "no" \/ proc[Other(p)].closed
=============================================================================
