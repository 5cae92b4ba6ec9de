---------------------------- MODULE WakeupProofs ----------------------------
(***************************************************************************)
(* Theorems about module Wakeup for any number of messages: where stores   *)
(* are seen in order and each process has its own end of the wakeup fd, no *)
(* process goes to sleep over unread messages and wakeups do not pile up.  *)
(***************************************************************************)
EXTENDS Wakeup, TLAPS

\* The labels between the store of flag_polling and the store that clears it.
Announced == {"recheck", "poll", "handle", "post", "clearPolling"}

\* The word in shared memory says where the process is.
StateInv ==
  \A p \in Peers :
    /\ delayedStore[p] = "none"
    /\ consumerState[p] = "clear" <=> pc[p] \notin Announced

\* Who was announced as interrupted before it polls has its wakeup coming.
InterruptInv ==
  \A p \in Peers :
    consumerState[p] = "interrupted" /\ pc[p] \in {"recheck", "poll"} =>
      wakeups[p] > 0 \/ pc[Other(p)] = "interrupt"

\* The wakeups of p, with the one its peer is about to send.
Pending(p) == wakeups[p] + (IF pc[Other(p)] = "interrupt" THEN 1 ELSE 0)

\* Whether the peer's compare-and-swap can still succeed in this round of p.
Credit(p) == IF consumerState[p] = "polling" THEN 1 ELSE 0

\* Each round of p allows one wakeup; p takes one from those it finds.
PendingInv ==
  \A p \in Peers :
    /\ pc[p] \notin Announced => Pending(p) <= 2
    /\ pc[p] \in {"recheck", "poll", "handle"} => Pending(p) + Credit(p) <= 3
    /\ pc[p] \in {"post", "clearPolling"} => Pending(p) + Credit(p) <= 2
    /\ pc[p] = "handle" => wakeups[p] > 0

\* Inductive for Spec without delayed stores and with separate ends.
WakeupInv ==
  /\ TypeOK
  /\ StateInv
  /\ InterruptInv
  /\ NoSleepWithUnread
  /\ PendingInv

-----------------------------------------------------------------------------
\* The two processes are each other's peer.
LEMMA OtherIsPeer ==
  \A p \in Peers : Other(p) \in Peers /\ Other(p) # p /\ Other(Other(p)) = p
BY PeersAssumption DEF Peers, Other

\* The initial state has no type error and no message.
LEMMA InitType == Init => TypeOK
BY BoundAssumption, OtherIsPeer DEF Init, TypeOK, Labels

\* Every step keeps the types, with delayed stores and with an eventfd too.
LEMMA NextType == ASSUME TypeOK, [Next]_vars PROVE TypeOK'
<1> USE OtherIsPeer, BoundAssumption
<1>1. CASE UNCHANGED vars
  BY <1>1 DEF vars, TypeOK
<1>2. ASSUME NEW p \in Peers, Run(p) PROVE TypeOK'
  <2>1. CASE PublishMessage(p)
    BY <2>1 DEF PublishMessage, Goto, TypeOK, Labels
  <2>2. CASE WriteNothing(p)
    BY <2>2 DEF WriteNothing, Goto, TypeOK, Labels
  <2>3. CASE CompareExchange(p)
    BY <2>3 DEF CompareExchange, Goto, TypeOK, Labels
  <2>4. CASE SendInterrupt(p)
    <3>1. EndOf(Other(p)) \in Peers
      BY DEF EndOf, Peers
    <3> QED
      BY <2>4, <3>1 DEF SendInterrupt, Goto, TypeOK, Labels
  <2>5. CASE ConsumeMessage(p)
    BY <2>5 DEF ConsumeMessage, Unread, TypeOK, Labels
  <2>6. CASE FindNothing(p)
    BY <2>6 DEF FindNothing, AfterDrain, Goto, TypeOK, Labels
  <2>7. CASE SetPolling(p)
    BY <2>7 DEF SetPolling, StoreState, Goto, TypeOK, Labels
  <2>8. CASE ClearPolling(p)
    BY <2>8 DEF ClearPolling, StoreState, Goto, TypeOK, Labels
  <2>9. CASE PollFindsWakeup(p)
    BY <2>9 DEF PollFindsWakeup, Goto, TypeOK, Labels
  <2>10. CASE EventRead(p)
    <3>1. EndOf(p) \in Peers
      BY DEF EndOf, Peers
    <3> QED
      BY <2>10, <3>1 DEF EventRead, AfterRead, Goto, TypeOK, Labels
  <2> QED
    BY <1>2, <2>1, <2>2, <2>3, <2>4, <2>5, <2>6, <2>7, <2>8, <2>9, <2>10 DEF Run
<1>3. ASSUME NEW p \in Peers, StoreBecomesVisible(p) PROVE TypeOK'
  BY <1>3 DEF StoreBecomesVisible, TypeOK, Labels
<1>4. ASSUME NEW p \in Peers, PollTimesOut(p) PROVE TypeOK'
  BY <1>4 DEF PollTimesOut, Goto, TypeOK, Labels
<1> QED
  BY <1>1, <1>2, <1>3, <1>4 DEF Next

\* The variables of the two event loops keep their types, and no process ever
\* consumes more messages than its peer has published.
THEOREM WakeupTypeCorrect == Spec => []TypeOK
BY InitType, NextType, PTL DEF Spec
-----------------------------------------------------------------------------
\* A configuration where loads do not overtake stores, on a socketpair.
OrderedSocketPair == StoresDelayed = FALSE /\ SharedEventFd = FALSE

\* Initially nobody is announced and nothing is pending.
LEMMA InitWakeup == Init => WakeupInv
<1> USE OtherIsPeer
<1>1. Init => StateInv /\ InterruptInv /\ NoSleepWithUnread
  BY DEF Init, StateInv, Announced, InterruptInv, NoSleepWithUnread
<1>2. Init => PendingInv
  BY DEF Init, PendingInv, Pending, Credit, Announced
<1> QED
  BY <1>1, <1>2, InitType DEF WakeupInv

\* A published message of a process whose peer sleeps is followed by a
\* compare-and-swap that succeeds, or the peer was interrupted before.
LEMMA PublishMessageSafe ==
  ASSUME OrderedSocketPair, WakeupInv, TypeOK', NEW r \in Peers, PublishMessage(r)
  PROVE  WakeupInv'
<1> USE OtherIsPeer DEF OrderedSocketPair, WakeupInv
<1>1. r \in Peers /\ Peers = {r, Other(r)}
  BY DEF Peers, Other
<1>2. StateInv'
  BY <1>1 DEF PublishMessage, Goto, TypeOK, StateInv, Announced
<1>3. InterruptInv'
  BY <1>1 DEF PublishMessage, Goto, TypeOK, InterruptInv, StateInv, Announced
<1>4. NoSleepWithUnread'
  BY <1>1 DEF PublishMessage, Goto, TypeOK, NoSleepWithUnread, InterruptInv, StateInv, Announced, Unread, EndOf
<1>5. PendingInv'
  BY <1>1 DEF PublishMessage, Goto, TypeOK, PendingInv, Pending, Credit, StateInv, Announced
<1> QED
  BY <1>2, <1>3, <1>4, <1>5

\* A loop without a write changes nothing but the label.
LEMMA WriteNothingSafe ==
  ASSUME OrderedSocketPair, WakeupInv, TypeOK', NEW r \in Peers, WriteNothing(r)
  PROVE  WakeupInv'
<1> USE OtherIsPeer DEF OrderedSocketPair, WakeupInv
<1>1. r \in Peers /\ Peers = {r, Other(r)}
  BY DEF Peers, Other
<1>2. StateInv'
  BY <1>1 DEF WriteNothing, Goto, TypeOK, StateInv, Announced
<1>3. InterruptInv'
  BY <1>1 DEF WriteNothing, Goto, TypeOK, InterruptInv, StateInv, Announced
<1>4. NoSleepWithUnread'
  BY <1>1 DEF WriteNothing, Goto, TypeOK, NoSleepWithUnread, InterruptInv, StateInv, Announced, Unread, EndOf
<1>5. PendingInv'
  BY <1>1 DEF WriteNothing, Goto, TypeOK, PendingInv, Pending, Credit, StateInv, Announced
<1> QED
  BY <1>2, <1>3, <1>4, <1>5

\* A compare-and-swap that succeeds uses up the credit of its peer's round.
LEMMA CompareExchangeSafe ==
  ASSUME OrderedSocketPair, WakeupInv, TypeOK', NEW r \in Peers, CompareExchange(r)
  PROVE  WakeupInv'
<1> USE OtherIsPeer DEF OrderedSocketPair, WakeupInv
<1>1. r \in Peers /\ Peers = {r, Other(r)}
  BY DEF Peers, Other
<1>2. StateInv'
  BY <1>1 DEF CompareExchange, Goto, TypeOK, StateInv, Announced
<1>3. InterruptInv'
  BY <1>1 DEF CompareExchange, Goto, TypeOK, InterruptInv, StateInv, Announced
<1>4. NoSleepWithUnread'
  BY <1>1 DEF CompareExchange, Goto, TypeOK, NoSleepWithUnread, InterruptInv, StateInv, Announced, Unread, EndOf
<1>5. PendingInv'
  BY <1>1 DEF CompareExchange, Goto, TypeOK, PendingInv, Pending, Credit, StateInv, Announced
<1> QED
  BY <1>2, <1>3, <1>4, <1>5

\* The interrupt becomes a wakeup: what is pending stays the same.
LEMMA SendInterruptSafe ==
  ASSUME OrderedSocketPair, WakeupInv, TypeOK', NEW r \in Peers, SendInterrupt(r)
  PROVE  WakeupInv'
<1> USE OtherIsPeer DEF OrderedSocketPair, WakeupInv
<1>1. r \in Peers /\ Peers = {r, Other(r)}
  BY DEF Peers, Other
<1>2. StateInv'
  BY <1>1 DEF SendInterrupt, Goto, EndOf, TypeOK, StateInv, Announced
<1>3. InterruptInv'
  BY <1>1 DEF SendInterrupt, Goto, EndOf, TypeOK, InterruptInv, StateInv, Announced
<1>4. NoSleepWithUnread'
  BY <1>1 DEF SendInterrupt, Goto, TypeOK, NoSleepWithUnread, InterruptInv, StateInv, Announced, Unread, EndOf
<1>5. PendingInv'
  BY <1>1 DEF SendInterrupt, Goto, EndOf, TypeOK, PendingInv, Pending, Credit, StateInv, Announced
<1> QED
  BY <1>2, <1>3, <1>4, <1>5

\* Consuming a message leaves fewer unread.
LEMMA ConsumeMessageSafe ==
  ASSUME OrderedSocketPair, WakeupInv, TypeOK', NEW r \in Peers, ConsumeMessage(r)
  PROVE  WakeupInv'
<1> USE OtherIsPeer DEF OrderedSocketPair, WakeupInv
<1>1. r \in Peers /\ Peers = {r, Other(r)}
  BY DEF Peers, Other
<1>2. StateInv'
  BY <1>1 DEF ConsumeMessage, Unread, TypeOK, StateInv, Announced
<1>3. InterruptInv'
  BY <1>1 DEF ConsumeMessage, Unread, TypeOK, InterruptInv, StateInv, Announced
<1>4. NoSleepWithUnread'
  BY <1>1 DEF ConsumeMessage, TypeOK, NoSleepWithUnread, InterruptInv, StateInv, Announced, Unread, EndOf
<1>5. PendingInv'
  BY <1>1 DEF ConsumeMessage, Unread, TypeOK, PendingInv, Pending, Credit, StateInv, Announced
<1> QED
  BY <1>2, <1>3, <1>4, <1>5

\* A process goes to poll only when it has seen everything.
LEMMA FindNothingSafe ==
  ASSUME OrderedSocketPair, WakeupInv, TypeOK', NEW r \in Peers, FindNothing(r)
  PROVE  WakeupInv'
<1> USE OtherIsPeer DEF OrderedSocketPair, WakeupInv
<1>1. r \in Peers /\ Peers = {r, Other(r)}
  BY DEF Peers, Other
<1>2. StateInv'
  BY <1>1 DEF FindNothing, Goto, AfterDrain, Unread, TypeOK, StateInv, Announced
<1>3. InterruptInv'
  BY <1>1 DEF FindNothing, Goto, AfterDrain, Unread, TypeOK, InterruptInv, StateInv, Announced
<1>4. NoSleepWithUnread'
  BY <1>1 DEF FindNothing, Goto, AfterDrain, TypeOK, NoSleepWithUnread, InterruptInv, StateInv, Announced, Unread, EndOf
<1>5. PendingInv'
  BY <1>1 DEF FindNothing, Goto, AfterDrain, Unread, TypeOK, PendingInv, Pending, Credit, StateInv, Announced
<1> QED
  BY <1>2, <1>3, <1>4, <1>5

\* A new round starts with a credit of one.
LEMMA SetPollingSafe ==
  ASSUME OrderedSocketPair, WakeupInv, TypeOK', NEW r \in Peers, SetPolling(r)
  PROVE  WakeupInv'
<1> USE OtherIsPeer DEF OrderedSocketPair, WakeupInv
<1>1. r \in Peers /\ Peers = {r, Other(r)}
  BY DEF Peers, Other
<1>2. StateInv'
  BY <1>1 DEF SetPolling, Goto, StoreState, TypeOK, StateInv, Announced
<1>3. InterruptInv'
  BY <1>1 DEF SetPolling, Goto, StoreState, TypeOK, InterruptInv, StateInv, Announced
<1>4. NoSleepWithUnread'
  BY <1>1 DEF SetPolling, Goto, StoreState, TypeOK, NoSleepWithUnread, InterruptInv, StateInv, Announced, Unread, EndOf
<1>5. PendingInv'
  BY <1>1 DEF SetPolling, Goto, StoreState, TypeOK, PendingInv, Pending, Credit, StateInv, Announced
<1> QED
  BY <1>2, <1>3, <1>4, <1>5

\* The end of a round takes its credit away.
LEMMA ClearPollingSafe ==
  ASSUME OrderedSocketPair, WakeupInv, TypeOK', NEW r \in Peers, ClearPolling(r)
  PROVE  WakeupInv'
<1> USE OtherIsPeer DEF OrderedSocketPair, WakeupInv
<1>1. r \in Peers /\ Peers = {r, Other(r)}
  BY DEF Peers, Other
<1>2. StateInv'
  BY <1>1 DEF ClearPolling, Goto, StoreState, TypeOK, StateInv, Announced
<1>3. InterruptInv'
  BY <1>1 DEF ClearPolling, Goto, StoreState, TypeOK, InterruptInv, StateInv, Announced
<1>4. NoSleepWithUnread'
  BY <1>1 DEF ClearPolling, Goto, StoreState, TypeOK, NoSleepWithUnread, InterruptInv, StateInv, Announced, Unread, EndOf
<1>5. PendingInv'
  BY <1>1 DEF ClearPolling, Goto, StoreState, TypeOK, PendingInv, Pending, Credit, StateInv, Announced
<1> QED
  BY <1>2, <1>3, <1>4, <1>5

\* A poll that finds a wakeup leaves it to event_read().
LEMMA PollFindsWakeupSafe ==
  ASSUME OrderedSocketPair, WakeupInv, TypeOK', NEW r \in Peers, PollFindsWakeup(r)
  PROVE  WakeupInv'
<1> USE OtherIsPeer DEF OrderedSocketPair, WakeupInv
<1>1. r \in Peers /\ Peers = {r, Other(r)}
  BY DEF Peers, Other
<1>2. StateInv'
  BY <1>1 DEF PollFindsWakeup, Goto, EndOf, TypeOK, StateInv, Announced
<1>3. InterruptInv'
  BY <1>1 DEF PollFindsWakeup, Goto, EndOf, TypeOK, InterruptInv, StateInv, Announced
<1>4. NoSleepWithUnread'
  BY <1>1 DEF PollFindsWakeup, Goto, TypeOK, NoSleepWithUnread, InterruptInv, StateInv, Announced, Unread, EndOf
<1>5. PendingInv'
  BY <1>1 DEF PollFindsWakeup, Goto, EndOf, TypeOK, PendingInv, Pending, Credit, StateInv, Announced
<1> QED
  BY <1>2, <1>3, <1>4, <1>5

\* event_read() takes one wakeup off those pending.
LEMMA EventReadSafe ==
  ASSUME OrderedSocketPair, WakeupInv, TypeOK', NEW r \in Peers, EventRead(r)
  PROVE  WakeupInv'
<1> USE OtherIsPeer DEF OrderedSocketPair, WakeupInv
<1>1. r \in Peers /\ Peers = {r, Other(r)}
  BY DEF Peers, Other
<1>2. StateInv'
  BY <1>1 DEF EventRead, Goto, EndOf, AfterRead, TypeOK, StateInv, Announced
<1>3. InterruptInv'
  BY <1>1 DEF EventRead, Goto, EndOf, AfterRead, TypeOK, InterruptInv, StateInv, Announced
<1>4. NoSleepWithUnread'
  BY <1>1 DEF EventRead, Goto, AfterRead, TypeOK, NoSleepWithUnread, InterruptInv, StateInv, Announced, Unread, EndOf
<1>5. PendingInv'
  BY <1>1 DEF EventRead, Goto, EndOf, AfterRead, TypeOK, PendingInv, Pending, Credit, StateInv, Announced
<1> QED
  BY <1>2, <1>3, <1>4, <1>5

\* A poll that times out had nothing to read.
LEMMA PollTimesOutSafe ==
  ASSUME OrderedSocketPair, WakeupInv, TypeOK', NEW r \in Peers, PollTimesOut(r)
  PROVE  WakeupInv'
<1> USE OtherIsPeer DEF OrderedSocketPair, WakeupInv
<1>1. r \in Peers /\ Peers = {r, Other(r)}
  BY DEF Peers, Other
<1>2. StateInv'
  BY <1>1 DEF PollTimesOut, Goto, EndOf, TypeOK, StateInv, Announced
<1>3. InterruptInv'
  BY <1>1 DEF PollTimesOut, Goto, EndOf, TypeOK, InterruptInv, StateInv, Announced
<1>4. NoSleepWithUnread'
  BY <1>1 DEF PollTimesOut, Goto, TypeOK, NoSleepWithUnread, InterruptInv, StateInv, Announced, Unread, EndOf
<1>5. PendingInv'
  BY <1>1 DEF PollTimesOut, Goto, EndOf, TypeOK, PendingInv, Pending, Credit, StateInv, Announced
<1> QED
  BY <1>2, <1>3, <1>4, <1>5

\* The invariant is inductive; without delayed stores none becomes visible later.
LEMMA NextWakeup ==
  ASSUME OrderedSocketPair, WakeupInv, [Next]_vars
  PROVE  WakeupInv'
<1>1. TypeOK'
  BY NextType DEF WakeupInv
<1>2. CASE UNCHANGED vars
  BY <1>2 DEF vars, WakeupInv, TypeOK, StateInv, InterruptInv, NoSleepWithUnread,
    PendingInv, Pending, Credit, Unread
<1>3. ASSUME NEW r \in Peers, Run(r) PROVE WakeupInv'
  BY <1>1, <1>3, PublishMessageSafe, WriteNothingSafe, CompareExchangeSafe,
    SendInterruptSafe, ConsumeMessageSafe, FindNothingSafe, SetPollingSafe,
    ClearPollingSafe, PollFindsWakeupSafe, EventReadSafe DEF Run
<1>4. ASSUME NEW r \in Peers, StoreBecomesVisible(r) PROVE WakeupInv'
  BY <1>4 DEF StoreBecomesVisible, WakeupInv, StateInv
<1>5. ASSUME NEW r \in Peers, PollTimesOut(r) PROVE WakeupInv'
  BY <1>1, <1>5, PollTimesOutSafe
<1> QED
  BY <1>2, <1>3, <1>4, <1>5 DEF Next

\* The invariant holds in every state of such a configuration.
LEMMA WakeupInvariant == OrderedSocketPair => (Spec => []WakeupInv)
<1> SUFFICES ASSUME OrderedSocketPair PROVE Spec => []WakeupInv
  OBVIOUS
<1>1. WakeupInv /\ [Next]_vars => WakeupInv'
  BY NextWakeup
<1> QED
  BY <1>1, InitWakeup, PTL DEF Spec

\* No lost wakeup: neither process goes to sleep over unread messages without
\* a wakeup being there or on its way.
THEOREM NoLostWakeup == OrderedSocketPair => (Spec => []NoSleepWithUnread)
BY WakeupInvariant, PTL DEF WakeupInv

\* At most two wakeups wait for a process that does not poll, three for one
\* that does, however long the processes run.
THEOREM WakeupsStayBounded == OrderedSocketPair => (Spec => []WakeupsBounded)
<1>1. WakeupInv => WakeupsBounded
  <2> SUFFICES ASSUME WakeupInv, NEW p \in Peers
               PROVE  \/ wakeups[p] <= 2
                      \/ wakeups[p] = 3 /\ pc[p] \in {"recheck", "poll", "handle"}
    BY DEF WakeupsBounded
  <2>1. wakeups[p] \in Nat /\ wakeups[p] <= Pending(p)
    BY DEF WakeupInv, TypeOK, Pending
  <2>2. Pending(p) \in Nat /\ Credit(p) \in Nat
    BY <2>1 DEF Pending, Credit
  <2> QED
    BY <2>1, <2>2 DEF WakeupInv, PendingInv, Announced
<1> QED
  BY <1>1, WakeupInvariant, PTL
=============================================================================
