------------------------------- MODULE Wakeup -------------------------------
(***************************************************************************)
(* How the two processes put each other to sleep and wake each other up:   *)
(* the event loops of parent.cc and child.cc, Router::write(),             *)
(* process_reads_pre_polling(), process_reads_post_polling(), WakeupFd and *)
(* the consumer_state word that each channel keeps in shared memory.       *)
(*                                                                         *)
(* A channel is abstracted to the number of messages its writer published  *)
(* and the number its reader consumed (module Channel has the rest).       *)
(* Every access to shared memory and every system call is a step.          *)
(***************************************************************************)
EXTENDS Integers

CONSTANTS
  Parent, Child,    \* the two processes
  MaxMessages,      \* bound: how many messages each process writes
  StoresDelayed,    \* a release store may become visible after later loads
  SharedEventFd     \* USE_EVENT_FD: both processes use one eventfd

ASSUME PeersAssumption  == Parent # Child
ASSUME BoundAssumption  == MaxMessages \in Nat
ASSUME OptionAssumption == StoresDelayed \in BOOLEAN /\ SharedEventFd \in BOOLEAN

Peers == {Parent, Child}
Other(p) == IF p = Parent THEN Child ELSE Parent

VARIABLES
  pc,               \* where each process is in its loop
  written,          \* the messages it has published
  consumed,         \* the messages of its peer it has consumed
  consumerState,    \* consumer_state of the channel it reads, in shared memory
  delayedStore,     \* its last store to that word, while only it can see it
  wakeups           \* what is to be read from its end of the wakeup fd

vars == <<pc, written, consumed, consumerState, delayedStore, wakeups>>

-----------------------------------------------------------------------------
Goto(p, label) == pc' = [pc EXCEPT ![p] = label]

Unread(p) == written[Other(p)] - consumed[p]

\* The end of the wakeup fd that p reads; an eventfd has only one.
EndOf(p) == IF SharedEventFd THEN Parent ELSE p

\* A socketpair end holds a byte per interrupt, read one by one; reading an
\* eventfd returns its counter and resets it.
AfterRead(n) == IF SharedEventFd \/ n = 0 THEN 0 ELSE n - 1

Init ==
  /\ pc = [p \in Peers |-> "loop"]
  /\ written = [p \in Peers |-> 0]
  /\ consumed = [p \in Peers |-> 0]
  /\ consumerState = [p \in Peers |-> "clear"]
  /\ delayedStore = [p \in Peers |-> "none"]
  /\ wakeups = [p \in Peers |-> 0]

-----------------------------------------------------------------------------
(* Router::write(): publish, compare-and-swap, write() to the wakeup fd.   *)

\* Router::write() is called when the message interval is over; a write that
\* the channel refuses has no effect.
PublishMessage(p) ==
  /\ pc[p] = "loop"
  /\ written[p] < MaxMessages
  /\ written' = [written EXCEPT ![p] = @ + 1]
  /\ Goto(p, "exchange")
  /\ UNCHANGED <<consumed, consumerState, delayedStore, wakeups>>

WriteNothing(p) ==
  /\ pc[p] = "loop"
  /\ Goto(p, "drain")
  /\ UNCHANGED <<written, consumed, consumerState, delayedStore, wakeups>>

\* Mutant: a compare-and-swap with the wrong expected value.
CompareExchangeExpectingClear(p) ==
  /\ pc[p] = "exchange"
  /\ delayedStore[p] = "none"
  /\ Goto(p, IF consumerState[Other(p)] = "clear" THEN "interrupt" ELSE "drain")
  /\ UNCHANGED <<written, consumed, consumerState, delayedStore, wakeups>>

\* Mutant: a load in place of the compare-and-swap.
LoadAndCompare(p) ==
  /\ pc[p] = "exchange"
  /\ delayedStore[p] = "none"
  /\ Goto(p, IF consumerState[Other(p)] = "polling" THEN "interrupt" ELSE "drain")
  /\ UNCHANGED <<written, consumed, consumerState, delayedStore, wakeups>>

\* A read-modify-write makes the process's earlier stores visible.
CompareExchange(p) ==
  /\ pc[p] = "exchange"
  /\ delayedStore[p] = "none"
  /\ IF consumerState[Other(p)] = "polling"
       THEN /\ consumerState' =
                 [consumerState EXCEPT ![Other(p)] = "interrupted"]
            /\ Goto(p, "interrupt")
       ELSE /\ Goto(p, "drain")
            /\ UNCHANGED consumerState
  /\ UNCHANGED <<written, consumed, delayedStore, wakeups>>

SendInterrupt(p) ==
  /\ pc[p] = "interrupt"
  /\ wakeups' = [wakeups EXCEPT ![EndOf(Other(p))] = @ + 1]
  /\ Goto(p, "drain")
  /\ UNCHANGED <<written, consumed, consumerState, delayedStore>>

-----------------------------------------------------------------------------
(* process_reads() runs until read_header() finds nothing, in four places  *)
(* of the loop; each is followed by a step of its own.                     *)

AfterDrain ==
  [drain   |-> "setPolling",      \* process_reads_pre_polling(), first call
   recheck |-> "poll",            \* ... second call
   post    |-> "clearPolling",    \* process_reads_post_polling(), first call
   last    |-> "loop"]            \* ... second call

\* Mutant: consume_header() without a look at the write offset.
ConsumeBlindly(p) ==
  /\ pc[p] \in DOMAIN AfterDrain
  /\ consumed[p] < MaxMessages
  /\ consumed' = [consumed EXCEPT ![p] = @ + 1]
  /\ UNCHANGED <<pc, written, consumerState, delayedStore, wakeups>>

ConsumeMessage(p) ==
  /\ pc[p] \in DOMAIN AfterDrain
  /\ Unread(p) > 0
  /\ consumed' = [consumed EXCEPT ![p] = @ + 1]
  /\ UNCHANGED <<pc, written, consumerState, delayedStore, wakeups>>

FindNothing(p) ==
  /\ pc[p] \in DOMAIN AfterDrain
  /\ Unread(p) = 0
  /\ Goto(p, AfterDrain[pc[p]])
  /\ UNCHANGED <<written, consumed, consumerState, delayedStore, wakeups>>

\* A store of this process to its consumer_state, visible now or later.
StoreState(p, value) ==
  /\ delayedStore[p] = "none"
  /\ \/ /\ consumerState' = [consumerState EXCEPT ![p] = value]
        /\ UNCHANGED delayedStore
     \/ /\ StoresDelayed
        /\ delayedStore' = [delayedStore EXCEPT ![p] = value]
        /\ UNCHANGED consumerState

\* Mutant: no second look at the channel after the flag is set.
SetPollingAndPoll(p) ==
  /\ pc[p] = "setPolling"
  /\ StoreState(p, "polling")
  /\ Goto(p, "poll")
  /\ UNCHANGED <<written, consumed, wakeups>>

SetPolling(p) ==
  /\ pc[p] = "setPolling"
  /\ StoreState(p, "polling")
  /\ Goto(p, "recheck")
  /\ UNCHANGED <<written, consumed, wakeups>>

ClearPolling(p) ==
  /\ pc[p] = "clearPolling"
  /\ StoreState(p, "clear")
  /\ Goto(p, "last")
  /\ UNCHANGED <<written, consumed, wakeups>>

StoreBecomesVisible(p) ==
  /\ delayedStore[p] # "none"
  /\ consumerState' = [consumerState EXCEPT ![p] = delayedStore[p]]
  /\ delayedStore' = [delayedStore EXCEPT ![p] = "none"]
  /\ UNCHANGED <<pc, written, consumed, wakeups>>

-----------------------------------------------------------------------------
(* Poll::do_poll(): kevent() returns with the wakeup event when there is   *)
(* something to read, with nothing when its timeout is over; event_read()  *)
(* then reads once.                                                        *)

PollFindsWakeup(p) ==
  /\ pc[p] = "poll"
  /\ wakeups[EndOf(p)] > 0
  /\ Goto(p, "handle")
  /\ UNCHANGED <<written, consumed, consumerState, delayedStore, wakeups>>

\* Mutant: poll again when the timeout is over.
PollAgain(p) ==
  /\ pc[p] = "poll"
  /\ wakeups[EndOf(p)] = 0
  /\ Goto(p, "poll")
  /\ UNCHANGED <<written, consumed, consumerState, delayedStore, wakeups>>

PollTimesOut(p) ==
  /\ pc[p] = "poll"
  /\ wakeups[EndOf(p)] = 0
  /\ Goto(p, "post")
  /\ UNCHANGED <<written, consumed, consumerState, delayedStore, wakeups>>

\* Nothing left to read (EAGAIN) is not an error.
EventRead(p) ==
  /\ pc[p] = "handle"
  /\ wakeups' = [wakeups EXCEPT ![EndOf(p)] = AfterRead(@)]
  /\ Goto(p, "post")
  /\ UNCHANGED <<written, consumed, consumerState, delayedStore>>

-----------------------------------------------------------------------------
\* What a running process does; only the timeout needs time to pass.
Run(p) ==
  \/ PublishMessage(p)
  \/ WriteNothing(p)
  \/ CompareExchange(p)
  \/ SendInterrupt(p)
  \/ ConsumeMessage(p)
  \/ FindNothing(p)
  \/ SetPolling(p)
  \/ ClearPolling(p)
  \/ PollFindsWakeup(p)
  \/ EventRead(p)

Next ==
  \E p \in Peers :
    \/ Run(p)
    \/ StoreBecomesVisible(p)
    \/ PollTimesOut(p)

Spec == Init /\ [][Next]_vars

\* Both processes are scheduled; a poll may wait for ever.
WakeupFairSpec ==
  /\ Spec
  /\ \A p \in Peers : WF_vars(Run(p)) /\ WF_vars(StoreBecomesVisible(p))

\* Every poll ends at its timeout, as both loops pass one of a few seconds.
TimeoutFairSpec ==
  /\ WakeupFairSpec
  /\ \A p \in Peers : WF_vars(PollTimesOut(p))

-----------------------------------------------------------------------------
(* Properties.                                                             *)

Labels == {"loop", "exchange", "interrupt", "drain", "setPolling", "recheck",
           "poll", "handle", "post", "clearPolling", "last"}

\* Every variable holds a value of its type, and no process has consumed more
\* than its peer has published.
TypeOK ==
  /\ pc \in [Peers -> Labels]
  /\ written \in [Peers -> 0 .. MaxMessages]
  /\ consumed \in [Peers -> 0 .. MaxMessages]
  /\ consumerState \in [Peers -> {"clear", "polling", "interrupted"}]
  /\ delayedStore \in [Peers -> {"none", "clear", "polling"}]
  /\ wakeups \in [Peers -> Nat]
  /\ \A p \in Peers : consumed[p] <= written[Other(p)]

\* No lost wakeup: a process that is about to sleep, or sleeps, in kevent()
\* with messages unread is woken by a wakeup it can read already, by one its
\* peer is about to send, or by a compare-and-swap that is going to succeed.
NoSleepWithUnread ==
  \A p \in Peers :
    pc[p] = "poll" /\ Unread(p) > 0 =>
      \/ wakeups[EndOf(p)] > 0
      \/ pc[Other(p)] = "interrupt"
      \/ pc[Other(p)] = "exchange" /\ consumerState[p] = "polling"

\* Wakeups do not pile up although event_read() takes one per poll and a late
\* one may be outrun by the next: at most two are left when a process goes back
\* to its loop.  So the socket's buffer never fills and send_interrupt() never
\* meets EAGAIN, whose comment (wakeup_fd.cc:110) has only the eventfd in mind.
WakeupsBounded ==
  \A p \in Peers :
    \/ wakeups[p] <= 2
    \/ wakeups[p] = 3 /\ pc[p] \in {"recheck", "poll", "handle"}

\* Every message is consumed, whether or not a poll ever times out.
EveryMessageRead ==
  \A p \in Peers, n \in 1 .. MaxMessages :
    (written[Other(p)] >= n) ~> (consumed[p] >= n)
=============================================================================
