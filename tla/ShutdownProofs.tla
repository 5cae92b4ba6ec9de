--------------------------- MODULE ShutdownProofs ---------------------------
(***************************************************************************)
(* Theorems about module Shutdown, for any number of messages and any      *)
(* choice of the processes that may crash and the steps that may fail.     *)
(***************************************************************************)
EXTENDS ShutdownInvariant, FiniteSetTheorems, TLAPS

\* The two processes and the two segments.
LEMMA TwoPeers ==
  ASSUME NEW p \in Peers
  PROVE  /\ Other(p) \in Peers /\ Other(p) # p /\ Other(Other(p)) = p
         /\ \A q \in Peers : q = p \/ q = Other(p)
         /\ ReadSegment(p) \in Segments /\ WriteSegment(p) \in Segments
         /\ ReadSegment(p) # WriteSegment(p)
         /\ ReadSegment(Other(p)) = WriteSegment(p)
         /\ WriteSegment(Other(p)) = ReadSegment(p)
BY PeersAssumption DEF Peers, Other, ReadSegment, WriteSegment, Segments

LEMMA InitInvariant == Init => ShutdownInv
<1> SUFFICES ASSUME Init PROVE ShutdownInv
  OBVIOUS
<1> USE PeersAssumption, BoundAssumption DEF Init, StartInit, NewProcess, Peers
<1>1. TypeInv
  BY DEF TypeInv, ProcessType, Batches, Reasons, StartLabels, LoopLabels,
         EndLabels, MessageType, Segments
<1>2. ForkInv /\ ToldInv /\ CleanInv
  BY DEF ForkInv, ToldInv, CleanInv
<1>3. \A p \in Peers : HeldInv(p) /\ EndedInv(p)
  BY DEF HeldInv, EndedInv, LoopLabels, EndLabels
<1>4. \A p \in Peers : GoneInv(p) /\ EventInv(p) /\ PollingInv(p)
  BY DEF GoneInv, EventInv, PollingInv, At, Segments, ReadSegment
<1>5. \A p \in Peers : HeardInv(p)
  BY DEF HeardInv, At, Segments, ReadSegment, WriteSegment, Received, Sent,
         EndLabels, Other
<1> QED
  BY <1>1, <1>2, <1>3, <1>4, <1>5 DEF ShutdownInv

-----------------------------------------------------------------------------
(* A step of p in terms of its peer: what the invariants of Other(p) depend *)
(* on changes in one direction only.                                        *)

PeerInv(p) ==
  /\ HeldInv(p) /\ EndedInv(p) /\ GoneInv(p)
  /\ EventInv(p) /\ PollingInv(p) /\ HeardInv(p)

\* The messages, wakeup bytes and channels of a step of p.
SharedStep(p) ==
  /\ Len(inbox'[Other(p)]) >= Len(inbox[Other(p)])
  /\ \A i \in 1 .. Len(inbox'[Other(p)]) :
       \/ i <= Len(inbox[Other(p)]) /\ inbox'[Other(p)][i] = inbox[Other(p)][i]
       \/ inbox'[Other(p)][i].written = Sent(p)
  /\ wakeups'[Other(p)] >= wakeups[Other(p)]
  /\ polling'[WriteSegment(p)] => polling[WriteSegment(p)]
  /\ written'[ReadSegment(p)] = written[ReadSegment(p)]
  /\ written'[WriteSegment(p)] >= written[WriteSegment(p)]
  /\ Gone(p) => written'[WriteSegment(p)] = written[WriteSegment(p)]
  /\ consumed'[WriteSegment(p)] = consumed[WriteSegment(p)]

StepOf(p) ==
  /\ proc'[Other(p)] = proc[Other(p)]
  /\ held'[Other(p)] = held[Other(p)]
  /\ Gone(p) => Gone(p)'
  /\ SharedStep(p)

\* The part of TypeInv about them.
SharedType ==
  /\ inbox \in [Peers -> Seq(MessageType)]
  /\ wakeups \in [Peers -> Nat]
  /\ polling \in [Segments -> BOOLEAN]
  /\ written \in [Segments -> 0 .. MaxMessages]
  /\ consumed \in [Segments -> 0 .. MaxMessages]
  /\ \A s \in Segments : consumed[s] <= written[s]

LEMMA PeerUndisturbed ==
  ASSUME ShutdownInv, TypeInv', NEW p \in Peers, StepOf(p)
  PROVE  PeerInv(Other(p))'
<1> DEFINE q == Other(p)
<1>0. /\ q \in Peers /\ Other(q) = p /\ q # p
      /\ ReadSegment(q) = WriteSegment(p) /\ WriteSegment(q) = ReadSegment(p)
      /\ ReadSegment(p) \in Segments /\ WriteSegment(p) \in Segments
  BY TwoPeers
<1> HIDE DEF q
<1>1. /\ proc'[q] = proc[q] /\ held'[q] = held[q]
      /\ Gone(p) => Gone(p)'
  BY DEF StepOf, SharedStep, q
<1>2. HeldInv(q)' /\ EndedInv(q)'
  BY <1>0, <1>1 DEF ShutdownInv, HeldInv, EndedInv, Holds
<1>3. GoneInv(q)'
  BY <1>0, <1>1 DEF ShutdownInv, GoneInv, At
<1>4. Len(inbox[q]) \in Nat /\ Len(inbox'[q]) \in Nat
  BY <1>0 DEF TypeInv, ShutdownInv
<1>5. inbox[q] # <<>> => inbox'[q] # <<>>
  <2>1. Len(inbox'[q]) >= Len(inbox[q])
    BY DEF StepOf, SharedStep, q
  <2>2. inbox[q] \in Seq(MessageType) /\ inbox'[q] \in Seq(MessageType)
    BY <1>0 DEF TypeInv, ShutdownInv
  <2>3. inbox[q] # <<>> => Len(inbox[q]) > 0
    BY <2>2
  <2> QED
    BY <2>1, <2>2, <2>3, <1>4
<1>6. wakeups[q] > 0 => wakeups'[q] > 0
  BY <1>0 DEF StepOf, SharedStep, q, TypeInv, ShutdownInv
<1>7. EventInv(q)'
  BY <1>0, <1>1, <1>5, <1>6 DEF ShutdownInv, EventInv, At, Holds
<1>8. PollingInv(q)'
  BY <1>0, <1>1 DEF ShutdownInv, PollingInv, StepOf, SharedStep, q
<1>9. HeardInv(q)'
  <2>1. /\ Sent(p)' >= Sent(p) /\ Sent(p) \in Nat /\ Sent(p)' \in Nat
        /\ Received(q)' = Received(q)
        /\ Gone(p) => Sent(p)' = Sent(p)
    BY <1>0 DEF StepOf, SharedStep, Sent, Received, TypeInv, ShutdownInv
  <2>2. \A i \in 1 .. Len(inbox'[q]) : inbox'[q][i].written <= Sent(p)'
    <3> SUFFICES ASSUME NEW i \in 1 .. Len(inbox'[q])
                 PROVE  inbox'[q][i].written <= Sent(p)'
      OBVIOUS
    <3>1. CASE i <= Len(inbox[q]) /\ inbox'[q][i] = inbox[q][i]
      <4>1. inbox[q][i].written <= Sent(p)
        BY <3>1, <1>0, <1>4 DEF ShutdownInv, HeardInv
      <4>2. inbox[q][i] \in MessageType
        <5>1. inbox[q] \in Seq(MessageType)
          BY <1>0 DEF ShutdownInv, TypeInv
        <5>2. i \in 1 .. Len(inbox[q])
          BY <3>1, <1>4
        <5> QED
          BY <5>1, <5>2
      <4>3. inbox[q][i].written \in Nat
        BY <4>2, BoundAssumption DEF MessageType
      <4> QED
        BY <3>1, <4>1, <4>3, <2>1
    <3>2. CASE inbox'[q][i].written = Sent(p)
      BY <3>2, <2>1
    <3> QED
      BY <3>1, <3>2 DEF StepOf, SharedStep, q
  <2>3. proc[q].heard \in Nat
    BY <1>0, BoundAssumption DEF ShutdownInv, TypeInv, ProcessType
  <2>4. GoneInv(q) /\ EndedInv(q) /\ HeardInv(q)
    BY <1>0 DEF ShutdownInv
  <2>5. proc[q].closed \/ proc[q].ended = "closed" => Gone(p)
    BY <2>4, <1>0 DEF GoneInv, EndedInv
  <2> QED
    BY <1>0, <1>1, <2>1, <2>2, <2>3, <2>4, <2>5 DEF HeardInv, At
<1> QED
  BY <1>2, <1>3, <1>7, <1>8, <1>9 DEF PeerInv, q

\* What is left to show of a step of p.
LEMMA StepInvariant ==
  ASSUME ShutdownInv, NEW p \in Peers, StepOf(p),
         TypeInv', ForkInv', ToldInv', CleanInv', PeerInv(p)'
  PROVE  ShutdownInv'
<1>1. PeerInv(Other(p))'
  BY PeerUndisturbed
<1> QED
  BY <1>1, TwoPeers DEF PeerInv, ShutdownInv

-----------------------------------------------------------------------------
(* Where a step leaves process p.                                           *)

Labels == StartLabels \cup LoopLabels \cup EndLabels \cup {"none"}

\* Everything but pc and ended of p is as it was.
Placed(p, label, why) ==
  /\ proc' \in [Peers -> ProcessType]
  /\ proc'[Other(p)] = proc[Other(p)]
  /\ proc'[p].pc = label
  /\ proc'[p].ended = why
  /\ proc'[p].events = proc[p].events
  /\ proc'[p].shutdown = proc[p].shutdown
  /\ proc'[p].kind = proc[p].kind
  /\ proc'[p].closed = proc[p].closed
  /\ proc'[p].timer = proc[p].timer
  /\ proc'[p].heard = proc[p].heard

LEMMA Became ==
  ASSUME TypeInv, NEW p \in Peers, NEW r \in ProcessType,
         proc' = [proc EXCEPT ![p] = r]
  PROVE  /\ proc' \in [Peers -> ProcessType]
         /\ proc'[Other(p)] = proc[Other(p)]
         /\ proc'[p] = r
BY TwoPeers DEF TypeInv

LEMMA Place ==
  ASSUME TypeInv, NEW p \in Peers, NEW label \in Labels,
         NEW why \in {"no"} \cup Reasons,
         proc' = [proc EXCEPT ![p].pc = label, ![p].ended = why]
  PROVE  Placed(p, label, why)
<1> DEFINE r == [proc[p] EXCEPT !.pc = label, !.ended = why]
<1>1. proc[p] \in ProcessType
  BY DEF TypeInv
<1>2. proc' = [proc EXCEPT ![p] = r]
  BY <1>1 DEF TypeInv
<1>3. r \in ProcessType
  BY <1>1 DEF ProcessType, Labels
<1>4. /\ r.pc = label
      /\ r.ended = why
      /\ r.events = proc[p].events
      /\ r.shutdown = proc[p].shutdown
      /\ r.kind = proc[p].kind
      /\ r.closed = proc[p].closed
      /\ r.timer = proc[p].timer
      /\ r.heard = proc[p].heard
  BY <1>1 DEF ProcessType
<1> HIDE DEF r
<1> QED
  BY <1>2, <1>3, <1>4, Became DEF Placed

LEMMA Move ==
  ASSUME TypeInv, NEW p \in Peers, NEW label \in Labels, Goto(p, label)
  PROVE  Placed(p, label, proc[p].ended)
<1>1. proc[p] \in ProcessType
  BY DEF TypeInv
<1>2. proc[p].ended \in {"no"} \cup Reasons
  BY <1>1 DEF ProcessType
<1>3. [proc[p] EXCEPT !.pc = label]
        = [proc[p] EXCEPT !.pc = label, !.ended = proc[p].ended]
  BY <1>1 DEF ProcessType
<1>4. proc' = [proc EXCEPT ![p].pc = label, ![p].ended = proc[p].ended]
  BY <1>3 DEF TypeInv, Goto
<1> QED
  BY <1>2, <1>4, Place

\* A step that drops some of the ends of p.
LEMMA Dropping ==
  ASSUME TypeInv, NEW p \in Peers, NEW ends, Drop(p, ends)
  PROVE  /\ held' \in [Peers -> SUBSET Ends]
         /\ held'[p] = held[p] \ ends
         /\ held'[Other(p)] = held[Other(p)]
BY TwoPeers DEF TypeInv, Drop

LEMMA Exiting ==
  ASSUME TypeInv, NEW p \in Peers, NEW why \in Reasons, Exit(p, why)
  PROVE  /\ Placed(p, "exited", why)
         /\ held' \in [Peers -> SUBSET Ends]
         /\ held'[p] = {}
         /\ held'[Other(p)] = held[Other(p)]
<1>1. Placed(p, "exited", why)
  BY Place DEF Exit, Labels, EndLabels
<1> QED
  BY <1>1, TwoPeers DEF Exit, TypeInv

\* The ends of p are three, and different.
LEMMA OwnEnds ==
  ASSUME NEW p \in Peers
  PROVE  /\ Own(p) = {End("control", p), End("keepalive", p), End("wakeup", p)}
         /\ \A e \in Own(p) : \A pair \in Pairs :
              /\ e # End(pair, Other(p))
              /\ \A other \in Pairs : End(pair, p) = End(other, p) => pair = other
BY TwoPeers DEF Own, End, Pairs

LEMMA Leaving ==
  ASSUME ShutdownInv, NEW p \in Peers, proc[p].pc \in LoopLabels,
         NEW why \in Reasons, Leave(p, why)
  PROVE  /\ \E label \in EndLabels : Placed(p, label, why)
         /\ held' \in [Peers -> SUBSET Ends]
         /\ held'[Other(p)] = held[Other(p)]
         /\ HeldInv(p)' /\ ForkInv'
<1> USE TwoPeers DEF ShutdownInv
<1>1. CASE p = Child /\ Exit(p, why)
  <2>1. /\ Placed(p, "exited", why)
        /\ held' \in [Peers -> SUBSET Ends]
        /\ held'[p] = {}
        /\ held'[Other(p)] = held[Other(p)]
    BY <1>1, Exiting
  <2>2. HeldInv(p)'
    BY <2>1 DEF HeldInv, Placed, LoopLabels
  <2>3. ForkInv'
    BY <1>1, <2>1, PeersAssumption DEF ForkInv, Placed, Peers, LoopLabels, Other
  <2> QED
    BY <2>1, <2>2, <2>3 DEF EndLabels
<1>2. CASE /\ p = Parent /\ CloseFds(p)
           /\ proc' = [proc EXCEPT ![p].pc = "waiting", ![p].ended = why]
  <2>1. Placed(p, "waiting", why)
    BY <1>2, Place DEF Labels, EndLabels
  <2>2. /\ held' \in [Peers -> SUBSET Ends]
        /\ held'[p] = held[p] \ {End("control", p), End("wakeup", p)}
        /\ held'[Other(p)] = held[Other(p)]
    BY <1>2, Dropping DEF CloseFds
  <2>3. HeldInv(p)'
    <3>1. held[p] \subseteq Own(p) /\ End("keepalive", p) \in held[p]
      BY DEF HeldInv, Holds
    <3>2. End("keepalive", p) \notin {End("control", p), End("wakeup", p)}
      BY DEF End
    <3> QED
      BY <2>1, <2>2, <3>1, <3>2 DEF HeldInv, Placed, LoopLabels, Holds
  <2>4. ForkInv'
    BY <1>2, <2>1, PeersAssumption DEF ForkInv, Placed, Peers, LoopLabels, Other
  <2> QED
    BY <2>1, <2>2, <2>3, <2>4 DEF EndLabels
<1> QED
  BY <1>1, <1>2 DEF Leave

LEMMA Sending ==
  ASSUME TypeInv, NEW p \in Peers, NEW kind \in Kinds, Send(p, kind)
  PROVE  /\ inbox' \in [Peers -> Seq(MessageType)]
         /\ inbox'[p] = inbox[p]
         /\ Len(inbox'[Other(p)]) = Len(inbox[Other(p)]) + 1
         /\ \A i \in 1 .. Len(inbox'[Other(p)]) :
              \/ i <= Len(inbox[Other(p)]) /\ inbox'[Other(p)][i] = inbox[Other(p)][i]
              \/ inbox'[Other(p)][i].written = Sent(p)
<1> DEFINE m == Message(kind, Sent(p))
           q == Other(p)
<1>0. q \in Peers /\ q # p
  BY TwoPeers
<1>1. m \in MessageType /\ m.written = Sent(p)
  BY TwoPeers DEF Message, MessageType, TypeInv, Sent
<1>2. inbox[q] \in Seq(MessageType) /\ inbox \in [Peers -> Seq(MessageType)]
  BY <1>0 DEF TypeInv
<1> HIDE DEF m, q
<1>3. inbox' = [inbox EXCEPT ![q] = Append(inbox[q], m)]
  BY DEF Send, m, q
<1>4. /\ Append(inbox[q], m) \in Seq(MessageType)
      /\ Len(Append(inbox[q], m)) = Len(inbox[q]) + 1
      /\ \A i \in 1 .. Len(inbox[q]) + 1 :
           Append(inbox[q], m)[i] = IF i <= Len(inbox[q]) THEN inbox[q][i] ELSE m
  BY <1>1, <1>2
<1> QED
  BY <1>0, <1>1, <1>2, <1>3, <1>4 DEF q

-----------------------------------------------------------------------------
(* The start.                                                               *)

LEMMA InitializeInvariant ==
  ASSUME ShutdownInv, Initialize, UNCHANGED <<inbox, wakeups, channels>>
  PROVE  ShutdownInv'
<1> DEFINE p == Parent
<1>0. p \in Peers /\ Other(p) = Child /\ Other(Child) = p
  BY PeersAssumption DEF Peers, Other
<1>1. Placed(p, "fork", proc[p].ended)
  BY <1>0, Move DEF Initialize, Labels, StartLabels, ShutdownInv
<1> HIDE DEF p
<1> USE <1>0, <1>1, TwoPeers DEF At, Placed, Gone, Holds, Sent, Received, channels, ShutdownInv
<1>2. /\ held' \in [Peers -> SUBSET Ends]
      /\ held'[p] = Ends /\ held'[Other(p)] = held[Other(p)]
  BY DEF Initialize, TypeInv, p
<1>3. TypeInv'
  BY <1>2 DEF TypeInv
<1>4. proc[p].pc = "initialize"
  BY DEF Initialize, p
<1>5. ForkInv' /\ ToldInv' /\ CleanInv'
  BY <1>4 DEF p, ForkInv, ToldInv, CleanInv, Late
<1>6. StepOf(p)
  BY <1>2 DEF StepOf, SharedStep, TypeInv
<1>7. HeldInv(p)' /\ EndedInv(p)'
  BY <1>2, <1>4 DEF HeldInv, EndedInv, LoopLabels, EndLabels
<1>8. GoneInv(p)' /\ EventInv(p)' /\ PollingInv(p)'
  BY <1>4 DEF GoneInv, EventInv, PollingInv
<1>9. HeardInv(p)'
  BY <1>4 DEF HeardInv, EndedInv, EndLabels
<1> QED
  BY <1>3, <1>5, <1>6, <1>7, <1>8, <1>9, StepInvariant DEF PeerInv

LEMMA ForkInvariant ==
  ASSUME ShutdownInv, Fork, UNCHANGED <<inbox, wakeups, channels>>
  PROVE  ShutdownInv'
<1> USE TwoPeers DEF At, Gone, Holds, Sent, Received, channels, ShutdownInv
<1>0. /\ Parent \in Peers /\ Child \in Peers
      /\ Other(Parent) = Child /\ Other(Child) = Parent
      /\ \A q \in Peers : q = Parent \/ q = Child
  BY PeersAssumption DEF Peers, Other
<1>1. /\ proc[Parent].pc = "fork" /\ proc[Child].pc = "none"
      /\ held[Parent] = Ends
  <2>1. proc[Parent].pc = "fork"
    BY DEF Fork
  <2>2. proc[Child].pc = "none"
    BY <2>1, <1>0 DEF ForkInv
  <2>3. held[Parent] = Ends
    BY <2>1, <1>0 DEF HeldInv
  <2> QED
    BY <2>1, <2>2, <2>3
<1>2. /\ proc' \in [Peers -> ProcessType]
      /\ \A q \in Peers :
           /\ proc'[q].pc = "router"
           /\ proc'[q].events = proc[q].events
           /\ proc'[q].shutdown = proc[q].shutdown
           /\ proc'[q].kind = proc[q].kind
           /\ proc'[q].closed = proc[q].closed
           /\ proc'[q].timer = proc[q].timer
           /\ proc'[q].heard = proc[q].heard
           /\ proc'[q].ended = proc[q].ended
  <2>1. \A q \in Peers : proc[q] \in ProcessType
    BY DEF TypeInv
  <2> SUFFICES ASSUME NEW q \in Peers
               PROVE  /\ [proc[q] EXCEPT !.pc = "router"] \in ProcessType
                      /\ proc'[q] = [proc[q] EXCEPT !.pc = "router"]
    BY <2>1 DEF Fork, ProcessType
  <2> QED
    BY <2>1 DEF Fork, ProcessType, StartLabels
<1>3. /\ held' \in [Peers -> SUBSET Ends]
      /\ \A q \in Peers : held'[q] = Ends
  BY <1>0, <1>1 DEF Fork, TypeInv
<1>4. TypeInv'
  BY <1>2, <1>3 DEF TypeInv
<1>5. ForkInv' /\ ToldInv' /\ CleanInv'
  BY <1>0, <1>2 DEF ForkInv, ToldInv, CleanInv, Late
<1>6. \A q \in Peers : HeldInv(q)' /\ EndedInv(q)'
  BY <1>0, <1>1, <1>2, <1>3 DEF HeldInv, EndedInv, LoopLabels, EndLabels
<1>7. \A q \in Peers : proc[q].ended = "no" /\ ~proc[q].closed
  BY <1>0, <1>1 DEF EndedInv, EndLabels
<1>8. \A q \in Peers : GoneInv(q)' /\ EventInv(q)' /\ PollingInv(q)'
  BY <1>0, <1>1, <1>2, <1>7 DEF GoneInv, EventInv, PollingInv
<1>9. \A q \in Peers : HeardInv(q)'
  BY <1>0, <1>1, <1>2, <1>7 DEF HeardInv, EndLabels
<1> QED
  BY <1>4, <1>5, <1>6, <1>8, <1>9

LEMMA CreateRouterInvariant ==
  ASSUME ShutdownInv, NEW p \in Peers, CreateRouter(p),
         UNCHANGED <<inbox, wakeups, channels>>
  PROVE  ShutdownInv'
<1> USE TwoPeers DEF At, Placed, Gone, Holds, Sent, Received, channels, ShutdownInv
<1>1. Placed(p, "wakeup", proc[p].ended)
  BY Move DEF CreateRouter, Labels, StartLabels
<1>2. proc[p].pc = "router" /\ held[p] = Ends
  BY DEF CreateRouter, HeldInv
<1>3. /\ held' \in [Peers -> SUBSET Ends]
      /\ held'[p] = Ends \ {End("control", Other(p)), End("keepalive", Other(p))}
      /\ held'[Other(p)] = held[Other(p)]
  BY <1>2, Dropping DEF CreateRouter
<1>4. TypeInv'
  BY <1>1, <1>3 DEF TypeInv
<1>5. ForkInv' /\ ToldInv' /\ CleanInv'
  BY <1>1, <1>2 DEF ForkInv, ToldInv, CleanInv, Late, Peers
<1>6. StepOf(p)
  BY <1>1, <1>3 DEF StepOf, SharedStep, TypeInv
<1>7. held'[p] = Own(p) \cup {End("wakeup", Other(p))}
  BY <1>3 DEF Own, End, Ends, Pairs
<1>8. HeldInv(p)' /\ EndedInv(p)'
  BY <1>1, <1>2, <1>7 DEF HeldInv, EndedInv, LoopLabels, EndLabels
<1>9. GoneInv(p)' /\ EventInv(p)' /\ PollingInv(p)' /\ HeardInv(p)'
  BY <1>1, <1>2 DEF GoneInv, EventInv, PollingInv, HeardInv, EndedInv, EndLabels
<1> QED
  BY <1>4, <1>5, <1>6, <1>8, <1>9, StepInvariant DEF PeerInv

LEMMA OpenWakeupInvariant ==
  ASSUME ShutdownInv, NEW p \in Peers, OpenWakeup(p),
         UNCHANGED <<inbox, wakeups, channels>>
  PROVE  ShutdownInv'
<1> USE TwoPeers DEF At, Placed, Gone, Holds, Sent, Received, channels, ShutdownInv
<1>1. Placed(p, "prepare", proc[p].ended)
  BY Move DEF OpenWakeup, Labels, StartLabels
<1>2. proc[p].pc = "wakeup" /\ held[p] = Own(p) \cup {End("wakeup", Other(p))}
  BY DEF OpenWakeup, HeldInv
<1>3. /\ held' \in [Peers -> SUBSET Ends]
      /\ held'[p] = held[p] \ {End("wakeup", Other(p))}
      /\ held'[Other(p)] = held[Other(p)]
  BY <1>2, Dropping DEF OpenWakeup
<1>4. TypeInv'
  BY <1>1, <1>3 DEF TypeInv
<1>5. ForkInv' /\ ToldInv' /\ CleanInv'
  BY <1>1, <1>2 DEF ForkInv, ToldInv, CleanInv, Late, Peers
<1>6. StepOf(p)
  BY <1>1, <1>3 DEF StepOf, SharedStep, TypeInv
<1>7. held'[p] = Own(p)
  BY <1>2, <1>3 DEF Own, End
<1>8. HeldInv(p)' /\ EndedInv(p)'
  BY <1>1, <1>2, <1>7 DEF HeldInv, EndedInv, LoopLabels, EndLabels
<1>9. GoneInv(p)' /\ EventInv(p)' /\ PollingInv(p)' /\ HeardInv(p)'
  BY <1>1, <1>2 DEF GoneInv, EventInv, PollingInv, HeardInv, EndedInv, EndLabels
<1> QED
  BY <1>4, <1>5, <1>6, <1>8, <1>9, StepInvariant DEF PeerInv

LEMMA PrepareInvariant ==
  ASSUME ShutdownInv, NEW p \in Peers, Prepare(p),
         UNCHANGED <<inbox, wakeups, channels>>
  PROVE  ShutdownInv'
<1> USE TwoPeers DEF At, Placed, Gone, Holds, Sent, Received, channels, ShutdownInv
<1>1. Placed(p, "check", proc[p].ended)
  BY Move DEF Prepare, Labels, LoopLabels
<1>2. proc[p].pc = "prepare" /\ held[p] = Own(p) /\ ~proc[p].closed
  BY DEF Prepare, HeldInv, EndedInv, EndLabels
<1>3. TypeInv'
  BY <1>1 DEF TypeInv, Prepare
<1>4. ForkInv' /\ ToldInv' /\ CleanInv'
  BY <1>1, <1>2 DEF ForkInv, ToldInv, CleanInv, Late, Peers
<1>5. StepOf(p)
  BY <1>1 DEF StepOf, SharedStep, TypeInv, Prepare
<1>6. HeldInv(p)' /\ EndedInv(p)'
  BY <1>1, <1>2, OwnEnds DEF HeldInv, EndedInv, LoopLabels, EndLabels, Prepare
<1>7. GoneInv(p)' /\ EventInv(p)' /\ PollingInv(p)' /\ HeardInv(p)'
  BY <1>1, <1>2 DEF GoneInv, EventInv, PollingInv, HeardInv, EndedInv, EndLabels
<1> QED
  BY <1>3, <1>4, <1>5, <1>6, <1>7, StepInvariant DEF PeerInv

\* A process that ends before its loop.
LEMMA FailedStartInvariant ==
  ASSUME ShutdownInv, NEW p \in Peers, proc[p].pc \in StartLabels,
         Exit(p, "start"), UNCHANGED <<inbox, wakeups, channels>>
  PROVE  ShutdownInv'
<1> USE TwoPeers DEF At, Placed, Gone, Holds, Sent, Received, channels, ShutdownInv
<1>1. Placed(p, "exited", "start")
  BY Exiting DEF Reasons
<1>2. /\ held' \in [Peers -> SUBSET Ends]
      /\ held'[p] = {} /\ held'[Other(p)] = held[Other(p)]
  BY Exiting DEF Reasons
<1>3. TypeInv'
  BY <1>1, <1>2 DEF TypeInv
<1>4. Late'
  BY <1>1 DEF Late
<1>5. ForkInv' /\ ToldInv' /\ CleanInv'
  BY <1>1, <1>4 DEF ForkInv, ToldInv, CleanInv, Peers, StartLabels
<1>6. StepOf(p)
  BY <1>1, <1>2 DEF StepOf, SharedStep, TypeInv
<1>7. HeldInv(p)' /\ EndedInv(p)'
  BY <1>1, <1>2 DEF HeldInv, EndedInv, LoopLabels, EndLabels, StartLabels
<1>8. GoneInv(p)' /\ EventInv(p)' /\ PollingInv(p)' /\ HeardInv(p)'
  BY <1>1 DEF GoneInv, EventInv, PollingInv, HeardInv, EndedInv, EndLabels, StartLabels
<1> QED
  BY <1>3, <1>5, <1>6, <1>7, <1>8, StepInvariant DEF PeerInv

LEMMA PollFailsInvariant ==
  ASSUME ShutdownInv, NEW p \in Peers, PollFails(p),
         UNCHANGED <<inbox, wakeups, channels>>
  PROVE  ShutdownInv'
<1> USE TwoPeers DEF At, Placed, Gone, Holds, Sent, Received, channels, ShutdownInv
<1>1. proc[p].pc = "prepare" /\ held[p] = Own(p) /\ ~proc[p].closed
  BY DEF PollFails, HeldInv, EndedInv, EndLabels
<1>2. CASE Exit(p, "start")
  BY <1>1, <1>2, FailedStartInvariant DEF StartLabels
<1>3. CASE /\ p = Parent /\ UNCHANGED held
           /\ proc' = [proc EXCEPT ![p].pc = "waiting", ![p].ended = "start"]
  <2>1. Placed(p, "waiting", "start")
    <3>1. "waiting" \in Labels /\ "start" \in {"no"} \cup Reasons
      BY DEF Labels, EndLabels, Reasons
    <3>2. TypeInv
      OBVIOUS
    <3> HIDE DEF ShutdownInv, Placed
    <3> QED
      BY <1>3, <3>1, <3>2, Place
  <2>2. TypeInv'
    BY <2>1, <1>3 DEF TypeInv
  <2>3. Late'
    BY <2>1 DEF Late
  <2>4. ForkInv' /\ ToldInv' /\ CleanInv'
    BY <2>1, <2>3, <1>1, <1>3, PeersAssumption DEF ForkInv, ToldInv, CleanInv, Peers, Other
  <2>5. StepOf(p)
    BY <2>1, <1>3 DEF StepOf, SharedStep, TypeInv
  <2>6. HeldInv(p)' /\ EndedInv(p)'
    BY <2>1, <1>1, <1>3, OwnEnds DEF HeldInv, EndedInv, LoopLabels, EndLabels
  <2>7. GoneInv(p)' /\ EventInv(p)' /\ PollingInv(p)' /\ HeardInv(p)'
    BY <2>1, <1>1 DEF GoneInv, EventInv, PollingInv, HeardInv, EndedInv, EndLabels
  <2> QED
    BY <2>2, <2>4, <2>5, <2>6, <2>7, StepInvariant DEF PeerInv
<1> QED
  BY <1>2, <1>3 DEF PollFails

-----------------------------------------------------------------------------
(* The top of the loop.                                                     *)

LEMMA NothingShared ==
  ASSUME ShutdownInv, NEW p \in Peers, UNCHANGED <<inbox, wakeups, channels>>
  PROVE  SharedStep(p) /\ SharedType' /\ (ToldInv /\ UNCHANGED proc => ToldInv')
BY TwoPeers DEF ShutdownInv, TypeInv, SharedStep, SharedType, channels, ToldInv

LEMMA LeaveInvariant ==
  ASSUME ShutdownInv, NEW p \in Peers, proc[p].pc \in {"check", "write"},
         NEW why \in {"closed", "told", "timeout", "exception"}, Leave(p, why),
         SharedStep(p), SharedType', inbox'[p] = inbox[p],
         polling'[ReadSegment(p)] = polling[ReadSegment(p)],
         consumed'[ReadSegment(p)] = consumed[ReadSegment(p)],
         ToldInv',
         why = "closed" => At(p, "check") /\ proc[p].closed,
         why = "told" => At(p, "check") /\ p = Child /\ proc[p].kind # "none",
         why = "timeout" => proc[p].timer = "expired",
         why = "exception" => Late
  PROVE  ShutdownInv'
<1> USE TwoPeers DEF At, Placed, Gone, Holds, Sent, Received, ShutdownInv
<1>1. PICK label \in EndLabels : Placed(p, label, why)
  BY Leaving DEF LoopLabels, Reasons
<1>2. /\ held' \in [Peers -> SUBSET Ends]
      /\ held'[Other(p)] = held[Other(p)]
      /\ HeldInv(p)' /\ ForkInv'
  BY Leaving DEF LoopLabels, Reasons
<1>3. TypeInv'
  BY <1>1, <1>2 DEF TypeInv, SharedType
<1>4. proc[p].ended = "no"
  BY DEF EndedInv, EndLabels
<1>5. Late => Late'
  BY <1>1, <1>4 DEF Late
<1>6. CleanInv'
  <2>1. CASE Late
    BY <2>1, <1>5 DEF CleanInv
  <2>2. CASE ~Late
    BY <2>2, <1>1 DEF CleanInv
  <2> QED
    BY <2>1, <2>2
<1>7. StepOf(p)
  BY <1>1, <1>2, <1>4 DEF StepOf
<1>8. EndedInv(p)'
  BY <1>1 DEF EndedInv, EndLabels
<1>9. GoneInv(p)' /\ EventInv(p)'
  BY <1>1 DEF GoneInv, EventInv, EndLabels
<1>10. PollingInv(p)' /\ HeardInv(p)'
  BY <1>1, <1>4 DEF PollingInv, HeardInv, EndLabels, SharedStep
<1> QED
  BY <1>2, <1>3, <1>6, <1>7, <1>8, <1>9, <1>10, StepInvariant DEF PeerInv

LEMMA CarryOnInvariant ==
  ASSUME ShutdownInv, NEW p \in Peers, CarryOn(p)
  PROVE  ShutdownInv'
<1> USE TwoPeers DEF At, Placed, Gone, Holds, Sent, Received, channels, ShutdownInv
<1>1. Placed(p, "write", proc[p].ended)
  BY Move DEF CarryOn, Labels, LoopLabels
<1>2. TypeInv'
  BY <1>1 DEF CarryOn, TypeInv
<1>3. ForkInv' /\ ToldInv' /\ CleanInv'
  BY <1>1 DEF CarryOn, ForkInv, ToldInv, CleanInv, Peers, Late
<1>4. StepOf(p)
  BY <1>1 DEF CarryOn, StepOf, SharedStep, TypeInv
<1>5. HeldInv(p)' /\ EndedInv(p)'
  BY <1>1 DEF CarryOn, HeldInv, EndedInv, LoopLabels, EndLabels
<1>6. GoneInv(p)' /\ EventInv(p)' /\ PollingInv(p)'
  BY <1>1 DEF CarryOn, GoneInv, EventInv, PollingInv
<1>7. HeardInv(p)'
  BY <1>1 DEF CarryOn, HeardInv, EndedInv, EndLabels
<1> QED
  BY <1>2, <1>3, <1>4, <1>5, <1>6, <1>7, StepInvariant DEF PeerInv

LEMMA StopOnClosedInvariant ==
  ASSUME ShutdownInv, NEW p \in Peers, StopOnClosed(p)
  PROVE  ShutdownInv'
<1>1. SharedStep(p) /\ SharedType'
  BY NothingShared DEF StopOnClosed
<1>2. PICK label \in EndLabels : Placed(p, label, "closed")
  BY Leaving DEF StopOnClosed, LoopLabels, Reasons, At, ShutdownInv
<1>3. ToldInv'
  BY <1>2, TwoPeers DEF ToldInv, Placed, StopOnClosed, ShutdownInv, Peers
<1> QED
  BY <1>1, <1>3, LeaveInvariant DEF StopOnClosed, At, channels

LEMMA StopOnMessageInvariant ==
  ASSUME ShutdownInv, StopOnMessage
  PROVE  ShutdownInv'
<1>0. Child \in Peers
  BY DEF Peers
<1>1. SharedStep(Child) /\ SharedType'
  BY <1>0, NothingShared DEF StopOnMessage
<1>2. PICK label \in EndLabels : Placed(Child, label, "told")
  BY <1>0, Leaving DEF StopOnMessage, LoopLabels, Reasons, At, ShutdownInv
<1>3. ToldInv'
  BY <1>0, <1>2, TwoPeers DEF ToldInv, Placed, StopOnMessage, ShutdownInv, Peers
<1> QED
  BY <1>0, <1>1, <1>3, LeaveInvariant DEF StopOnMessage, At, channels

\* Whoever finds the control socket of its peer closed while it runs has a peer
\* that crashed, did not start or waited in vain, or a peer that was told to stop.
LEMMA NobodyElseCloses ==
  ASSUME ShutdownInv, NEW p \in Peers, proc[p].pc \in LoopLabels,
         ~proc[p].closed, ~PeerOpen(p, "control"), ~Late
  PROVE  proc[Other(p)].ended = "told"
<1> DEFINE q == Other(p)
<1>0. q \in Peers /\ Other(q) = p
  BY TwoPeers
<1> HIDE DEF q
<1> USE <1>0 DEF At, Gone, Holds, ShutdownInv
<1>1. End("control", q) \notin held[q]
  BY DEF PeerOpen, q
<1>2. ~Gone(p)
  BY DEF EndedInv, LoopLabels, EndLabels
<1>3. ~proc[q].closed /\ proc[q].ended # "exit220" /\ proc[q].ended # "closed"
  BY <1>2 DEF GoneInv, EndedInv
<1>4. proc[q].ended # "no"
  <2>1. SUFFICES ASSUME proc[q].ended = "no" PROVE FALSE
    OBVIOUS
  <2>2. proc[q].pc \notin EndLabels
    BY <2>1 DEF EndedInv
  <2>3. proc[q].pc \in Labels
    BY DEF TypeInv, ProcessType, Labels
  <2>4. proc[q].pc \notin LoopLabels
    BY <1>1, <1>3 DEF HeldInv
  <2>5. proc[q].pc \notin {"fork", "router", "wakeup", "prepare"}
    <3>1. End("control", q) \in Own(q) /\ End("control", q) \in Ends
      BY DEF Own, Ends, End, Pairs
    <3> QED
      BY <1>1, <3>1 DEF HeldInv
  <2>6. proc[q].pc \notin {"none", "initialize"}
    BY PeersAssumption, TwoPeers DEF ForkInv, q, LoopLabels, Peers, Other
  <2> QED
    BY <2>2, <2>3, <2>4, <2>5, <2>6 DEF Labels, StartLabels
<1>5. proc[q].ended \in {"no"} \cup Reasons
  BY DEF TypeInv, ProcessType
<1>6. proc[q].ended \notin {"start", "crash", "timeout"}
  BY DEF Late, EndedInv
<1>7. proc[q].ended # "exception"
  BY DEF CleanInv
<1> QED
  BY <1>3, <1>4, <1>5, <1>6, <1>7 DEF Reasons, q

LEMMA StartShutdownInvariant ==
  ASSUME ShutdownInv, NEW p \in Peers, StartShutdown(p)
  PROVE  ShutdownInv'
<1> USE TwoPeers DEF At, Placed, Gone, Holds, Sent, Received, ShutdownInv
<1>0. /\ proc[p].pc = "check" /\ ~proc[p].closed /\ proc[p].timer = "off"
      /\ proc[p].shutdown /\ p = Child => proc[p].kind = "none"
      /\ proc[p].ended = "no"
      /\ UNCHANGED <<wakeups, channels>>
  BY DEF StartShutdown, EndedInv, EndLabels
<1>1. CASE /\ PeerOpen(p, "control") /\ Send(p, "graceful") /\ UNCHANGED held
           /\ proc' = [proc EXCEPT ![p].timer = "running"]
  <2> DEFINE r == [proc[p] EXCEPT !.timer = "running"]
  <2>0. proc[p] \in ProcessType
    BY DEF TypeInv
  <2>1. r \in ProcessType /\ proc' = [proc EXCEPT ![p] = r]
    <3>1. r \in ProcessType
      BY <2>0 DEF ProcessType
    <3> QED
      BY <1>1, <3>1
  <2>2. /\ r.pc = proc[p].pc /\ r.ended = proc[p].ended
        /\ r.events = proc[p].events /\ r.shutdown = proc[p].shutdown
        /\ r.kind = proc[p].kind /\ r.closed = proc[p].closed
        /\ r.timer = "running" /\ r.heard = proc[p].heard
    BY <2>0 DEF ProcessType
  <2> HIDE DEF r
  <2>3. /\ proc' \in [Peers -> ProcessType]
        /\ proc'[Other(p)] = proc[Other(p)] /\ proc'[p] = r
    BY <2>1, Became
  <2>4. /\ inbox' \in [Peers -> Seq(MessageType)]
        /\ inbox'[p] = inbox[p]
        /\ Len(inbox'[Other(p)]) = Len(inbox[Other(p)]) + 1
        /\ \A i \in 1 .. Len(inbox'[Other(p)]) :
             \/ i <= Len(inbox[Other(p)]) /\ inbox'[Other(p)][i] = inbox[Other(p)][i]
             \/ inbox'[Other(p)][i].written = Sent(p)
    BY <1>1, Sending DEF Kinds
  <2>5. TypeInv'
    BY <1>0, <1>1, <2>3, <2>4 DEF TypeInv, channels
  <2>6. ToldInv'
    <3>1. CASE p = Parent
      BY <3>1, <2>2, <2>3 DEF ToldInv
    <3>2. CASE p = Child
      BY <3>2, <2>2, <2>3, <2>4, PeersAssumption DEF ToldInv, Other
    <3> QED
      BY <3>1, <3>2 DEF Peers
  <2>7. ForkInv' /\ CleanInv'
    BY <2>2, <2>3, <1>0 DEF ForkInv, CleanInv, Peers, Late
  <2>8. StepOf(p)
    <3>1. Len(inbox'[Other(p)]) >= Len(inbox[Other(p)])
      BY <2>4 DEF TypeInv
    <3> QED
      BY <1>0, <1>1, <2>2, <2>3, <2>4, <3>1 DEF StepOf, SharedStep, TypeInv, channels
  <2>9. HeldInv(p)' /\ EndedInv(p)'
    BY <1>0, <1>1, <2>2, <2>3 DEF HeldInv, EndedInv, LoopLabels, EndLabels
  <2>10. GoneInv(p)' /\ EventInv(p)' /\ PollingInv(p)'
    BY <1>0, <2>2, <2>3 DEF GoneInv, EventInv, PollingInv, channels
  <2>11. HeardInv(p)'
    BY <1>0, <2>2, <2>3, <2>4 DEF HeardInv, EndLabels, channels
  <2> QED
    BY <2>5, <2>6, <2>7, <2>8, <2>9, <2>10, <2>11, StepInvariant DEF PeerInv
<1>2. CASE ~PeerOpen(p, "control") /\ Leave(p, "exception") /\ UNCHANGED inbox
  <2>1. Late
    <3> SUFFICES ASSUME ~Late PROVE FALSE
      OBVIOUS
    <3>1. proc[Other(p)].ended = "told"
      BY <1>0, <1>2, NobodyElseCloses DEF LoopLabels
    <3>2. Other(p) = Child /\ proc[Child].kind # "none"
      BY <3>1 DEF EndedInv
    <3>3. p = Parent
      BY <3>2 DEF Peers
    <3> QED
      BY <3>2, <3>3, <1>0 DEF ToldInv
  <2>2. SharedStep(p) /\ SharedType'
    BY <1>0, <1>2, NothingShared
  <2>3. PICK label \in EndLabels : Placed(p, label, "exception")
    BY <1>0, <1>2, Leaving DEF LoopLabels, Reasons
  <2>4. ToldInv'
    BY <1>2, <2>3 DEF ToldInv, Peers
  <2> QED
    BY <1>0, <1>2, <2>1, <2>2, <2>4, LeaveInvariant DEF channels
<1> QED
  BY <1>1, <1>2 DEF StartShutdown

LEMMA GiveUpInvariant ==
  ASSUME ShutdownInv, NEW p \in Peers, GiveUp(p)
  PROVE  ShutdownInv'
<1> USE TwoPeers DEF At, Placed, Gone, Holds, Sent, Received, ShutdownInv
<1>0. /\ proc[p].pc = "check" /\ proc[p].timer = "expired"
      /\ UNCHANGED <<wakeups, channels>> /\ Late
  BY DEF GiveUp, Late
<1>1. CASE Send(p, "forceful") /\ Leave(p, "timeout")
  <2>1. PICK label \in EndLabels : Placed(p, label, "timeout")
    BY <1>0, <1>1, Leaving DEF LoopLabels, Reasons
  <2>2. /\ inbox' \in [Peers -> Seq(MessageType)]
        /\ inbox'[p] = inbox[p]
        /\ Len(inbox'[Other(p)]) = Len(inbox[Other(p)]) + 1
        /\ \A i \in 1 .. Len(inbox'[Other(p)]) :
             \/ i <= Len(inbox[Other(p)]) /\ inbox'[Other(p)][i] = inbox[Other(p)][i]
             \/ inbox'[Other(p)][i].written = Sent(p)
    BY <1>1, Sending DEF Kinds
  <2>3. ToldInv'
    <3>1. CASE p = Parent
      BY <3>1, <2>1, <1>0 DEF ToldInv
    <3>2. CASE p = Child
      BY <3>2, <2>1, <2>2, PeersAssumption DEF ToldInv, Other
    <3> QED
      BY <3>1, <3>2 DEF Peers
  <2>4. Len(inbox'[Other(p)]) >= Len(inbox[Other(p)])
    BY <2>2 DEF TypeInv
  <2>5. SharedStep(p) /\ SharedType'
    BY <1>0, <2>2, <2>4, SMTT(30) DEF SharedStep, SharedType, TypeInv, channels
  <2> QED
    BY <1>0, <1>1, <2>2, <2>3, <2>5, LeaveInvariant DEF channels
<1>2. CASE Leave(p, "exception") /\ UNCHANGED inbox
  <2>1. SharedStep(p) /\ SharedType'
    BY <1>0, <1>2, NothingShared
  <2>2. PICK label \in EndLabels : Placed(p, label, "exception")
    BY <1>0, <1>2, Leaving DEF LoopLabels, Reasons
  <2>3. ToldInv'
    BY <1>2, <2>2 DEF ToldInv, Peers
  <2> QED
    BY <1>0, <1>2, <2>1, <2>3, LeaveInvariant DEF channels
<1> QED
  BY <1>1, <1>2 DEF GiveUp

-----------------------------------------------------------------------------
(* The rest of the loop.                                                    *)

LEMMA WriteNothingInvariant ==
  ASSUME ShutdownInv, NEW p \in Peers, WriteNothing(p)
  PROVE  ShutdownInv'
<1> USE TwoPeers DEF At, Placed, Gone, Holds, Sent, Received, channels, ShutdownInv
<1>1. Placed(p, "pre", proc[p].ended)
  BY Move DEF WriteNothing, Labels, LoopLabels
<1>2. TypeInv'
  BY <1>1 DEF WriteNothing, TypeInv
<1>3. ForkInv' /\ ToldInv' /\ CleanInv'
  BY <1>1 DEF WriteNothing, ForkInv, ToldInv, CleanInv, Peers, Late
<1>4. StepOf(p)
  BY <1>1 DEF WriteNothing, StepOf, SharedStep, TypeInv
<1>5. HeldInv(p)' /\ EndedInv(p)'
  BY <1>1 DEF WriteNothing, HeldInv, EndedInv, LoopLabels, EndLabels
<1>6. GoneInv(p)' /\ EventInv(p)' /\ PollingInv(p)'
  BY <1>1 DEF WriteNothing, GoneInv, EventInv, PollingInv
<1>7. HeardInv(p)'
  BY <1>1 DEF WriteNothing, HeardInv, EndedInv, EndLabels
<1> QED
  BY <1>2, <1>3, <1>4, <1>5, <1>6, <1>7, StepInvariant DEF PeerInv

LEMMA WriteMessageInvariant ==
  ASSUME ShutdownInv, NEW p \in Peers, WriteMessage(p)
  PROVE  ShutdownInv'
<1> USE TwoPeers DEF At, Placed, Gone, Holds, Sent, Received, ShutdownInv
<1> DEFINE w == WriteSegment(p)
           q == Other(p)
<1>0. /\ proc[p].pc = "write" /\ proc[p].ended = "no" /\ ~proc[p].closed
      /\ written' = [written EXCEPT ![w] = @ + 1] /\ written[w] < MaxMessages
      /\ UNCHANGED <<inbox, consumed>>
  BY DEF WriteMessage, EndedInv, EndLabels
<1>1. /\ w \in Segments /\ ReadSegment(p) # w /\ ReadSegment(q) = w
      /\ q \in Peers /\ Other(q) = p /\ p # q
  OBVIOUS
<1> HIDE DEF q, w
<1>2. /\ written' \in [Segments -> 0 .. MaxMessages]
      /\ written'[w] = written[w] + 1
      /\ \A s \in Segments : s # w => written'[s] = written[s]
      /\ \A s \in Segments : consumed'[s] <= written'[s]
  BY <1>0, <1>1, BoundAssumption DEF TypeInv
<1>3. /\ SharedStep(p) /\ SharedType' /\ polling'[ReadSegment(p)] = polling[ReadSegment(p)]
      /\ wakeups'[p] = wakeups[p]
  <2>1. /\ polling' \in [Segments -> BOOLEAN]
        /\ \A s \in Segments : polling'[s] => polling[s]
        /\ polling'[ReadSegment(p)] = polling[ReadSegment(p)]
    <3>1. polling' = polling \/ polling' = [polling EXCEPT ![w] = FALSE]
      BY DEF WriteMessage, w
    <3>2. polling \in [Segments -> BOOLEAN]
      BY DEF TypeInv
    <3> QED
      BY <1>1, <3>1, <3>2, ZenonT(30)
  <2>2. /\ wakeups' \in [Peers -> Nat]
        /\ wakeups'[q] >= wakeups[q] /\ wakeups'[p] = wakeups[p]
    BY <1>1, SMTT(30) DEF WriteMessage, TypeInv, q, w
  <2>3. written[w] \in Nat /\ written'[w] >= written[w]
    BY <1>1, <1>2 DEF TypeInv
  <2> QED
    BY <1>0, <1>1, <1>2, <2>1, <2>2, <2>3 DEF SharedStep, SharedType, TypeInv, w, q
<1>4. CASE Goto(p, "pre") /\ UNCHANGED held
  <2>1. Placed(p, "pre", proc[p].ended)
    BY <1>4, Move DEF Labels, LoopLabels
  <2>2. TypeInv'
    BY <1>3, <1>4, <2>1 DEF TypeInv, SharedType
  <2>3. ForkInv' /\ ToldInv' /\ CleanInv'
    BY <1>0, <2>1 DEF ForkInv, ToldInv, CleanInv, Peers, Late
  <2>4. StepOf(p)
    BY <1>3, <1>4, <2>1 DEF StepOf
  <2>5. HeldInv(p)' /\ EndedInv(p)'
    BY <1>0, <1>4, <2>1 DEF HeldInv, EndedInv, LoopLabels, EndLabels
  <2>6. GoneInv(p)' /\ EventInv(p)' /\ PollingInv(p)'
    BY <1>0, <1>3, <2>1 DEF GoneInv, EventInv, PollingInv
  <2>7. HeardInv(p)'
    BY <1>0, <1>1, <1>2, <2>1, SMTT(30) DEF HeardInv, EndLabels, w
  <2> QED
    BY <2>2, <2>3, <2>4, <2>5, <2>6, <2>7, StepInvariant DEF PeerInv
<1>5. CASE polling[w] /\ ~PeerOpen(p, "wakeup") /\ Leave(p, "exception")
  <2>1. Late
    <3> SUFFICES ASSUME ~Late PROVE FALSE
      OBVIOUS
    <3>1. ~proc[q].closed /\ ~At(q, "exiting") /\ proc[q].ended # "exit220"
      BY <1>0, <1>1 DEF GoneInv
    <3>2. proc[q].ended # "crash"
      BY <1>1 DEF Late
    <3>3. proc[q].pc \in {"poll", "handle", "post"}
      BY <1>1, <1>5, <3>1, <3>2 DEF PollingInv
    <3>4. End("wakeup", q) \in held[q]
      BY <1>1, <3>1, <3>3 DEF HeldInv, LoopLabels
    <3> QED
      BY <1>1, <1>5, <3>4 DEF PeerOpen, q
  <2>2. PICK label \in EndLabels : Placed(p, label, "exception")
    BY <1>0, <1>5, Leaving DEF LoopLabels, Reasons
  <2>3. ToldInv'
    BY <1>0, <2>2 DEF ToldInv, Peers
  <2> QED
    BY <1>0, <1>3, <1>5, <2>1, <2>3, LeaveInvariant
<1> QED
  BY <1>4, <1>5 DEF WriteMessage, w

LEMMA PrePollingInvariant ==
  ASSUME ShutdownInv, NEW p \in Peers, PrePolling(p)
  PROVE  ShutdownInv'
<1> USE TwoPeers DEF At, Placed, Gone, Holds, Sent, Received, ShutdownInv
<1> DEFINE s == ReadSegment(p)
           w == WriteSegment(p)
<1>0. s \in Segments /\ w \in Segments /\ s # w
  OBVIOUS
<1>1. Placed(p, "poll", proc[p].ended)
  BY Move DEF PrePolling, Labels, LoopLabels
<1>2. /\ consumed' = [consumed EXCEPT ![s] = written[s]]
      /\ polling' = [polling EXCEPT ![s] = TRUE]
      /\ proc[p].pc = "pre" /\ UNCHANGED <<held, inbox, wakeups, written>>
  BY DEF PrePolling, ConsumeAll
<1> HIDE DEF s, w
<1>3. /\ polling' \in [Segments -> BOOLEAN] /\ polling'[w] = polling[w]
      /\ consumed' \in [Segments -> 0 .. MaxMessages]
      /\ consumed'[w] = consumed[w] /\ consumed'[s] = written[s]
      /\ \A t \in Segments : consumed'[t] <= written[t]
  <2>1. polling' \in [Segments -> BOOLEAN] /\ polling'[w] = polling[w]
    BY <1>0, <1>2 DEF TypeInv
  <2>2. /\ consumed' \in [Segments -> 0 .. MaxMessages]
        /\ consumed'[w] = consumed[w] /\ consumed'[s] = written[s]
        /\ \A t \in Segments : consumed'[t] <= written[t]
    BY <1>0, <1>2, BoundAssumption DEF TypeInv
  <2> QED
    BY <2>1, <2>2
<1>4. TypeInv'
  BY <1>1, <1>2, <1>3 DEF TypeInv
<1>5. ForkInv' /\ ToldInv' /\ CleanInv'
  BY <1>1, <1>2 DEF ForkInv, ToldInv, CleanInv, Peers, Late
<1>6. StepOf(p)
  <2>1. SharedStep(p)
    BY <1>0, <1>2, <1>3 DEF SharedStep, TypeInv, w
  <2> QED
    BY <1>1, <1>2, <2>1 DEF StepOf
<1>7. HeldInv(p)' /\ EndedInv(p)'
  BY <1>1, <1>2 DEF HeldInv, EndedInv, LoopLabels, EndLabels
<1>8. GoneInv(p)' /\ EventInv(p)' /\ PollingInv(p)'
  BY <1>1, <1>2 DEF GoneInv, EventInv, PollingInv
<1>9. HeardInv(p)'
  BY <1>1, <1>2, <1>3 DEF HeardInv, EndedInv, EndLabels, s
<1> QED
  BY <1>4, <1>5, <1>6, <1>7, <1>8, <1>9, StepInvariant DEF PeerInv

LEMMA PostPollingInvariant ==
  ASSUME ShutdownInv, NEW p \in Peers, PostPolling(p)
  PROVE  ShutdownInv'
<1> USE TwoPeers DEF At, Placed, Gone, Holds, Sent, Received, ShutdownInv
<1> DEFINE s == ReadSegment(p)
           w == WriteSegment(p)
<1>0. s \in Segments /\ w \in Segments /\ s # w
  OBVIOUS
<1>1. Placed(p, "check", proc[p].ended)
  BY Move DEF PostPolling, Labels, LoopLabels
<1>2. /\ consumed' = [consumed EXCEPT ![s] = written[s]]
      /\ polling' = [polling EXCEPT ![s] = FALSE]
      /\ proc[p].pc = "post" /\ UNCHANGED <<held, inbox, wakeups, written>>
  BY DEF PostPolling, ConsumeAll
<1> HIDE DEF s, w
<1>3. /\ polling' \in [Segments -> BOOLEAN]
      /\ polling'[w] = polling[w] /\ ~polling'[s]
      /\ consumed' \in [Segments -> 0 .. MaxMessages]
      /\ consumed'[w] = consumed[w] /\ consumed'[s] = written[s]
      /\ \A t \in Segments : consumed'[t] <= written[t]
  <2>1. /\ polling' \in [Segments -> BOOLEAN]
        /\ polling'[w] = polling[w] /\ ~polling'[s]
    BY <1>0, <1>2 DEF TypeInv
  <2>2. /\ consumed' \in [Segments -> 0 .. MaxMessages]
        /\ consumed'[w] = consumed[w] /\ consumed'[s] = written[s]
        /\ \A t \in Segments : consumed'[t] <= written[t]
    BY <1>0, <1>2, BoundAssumption DEF TypeInv
  <2> QED
    BY <2>1, <2>2
<1>4. TypeInv'
  BY <1>1, <1>2, <1>3 DEF TypeInv
<1>5. ForkInv' /\ ToldInv' /\ CleanInv'
  BY <1>1, <1>2 DEF ForkInv, ToldInv, CleanInv, Peers, Late
<1>6. StepOf(p)
  <2>1. SharedStep(p)
    BY <1>0, <1>2, <1>3 DEF SharedStep, TypeInv, w
  <2> QED
    BY <1>1, <1>2, <2>1 DEF StepOf
<1>7. HeldInv(p)' /\ EndedInv(p)'
  BY <1>1, <1>2 DEF HeldInv, EndedInv, LoopLabels, EndLabels
<1>8. GoneInv(p)' /\ EventInv(p)' /\ PollingInv(p)'
  BY <1>1, <1>2, <1>3 DEF GoneInv, EventInv, PollingInv, s
<1>9. HeardInv(p)'
  <2>1. /\ Received(p)' = Sent(Other(p)) /\ Sent(Other(p))' = Sent(Other(p))
        /\ proc[p].heard <= Sent(Other(p))
    BY <1>2, <1>3 DEF s, HeardInv
  <2> QED
    BY <1>1, <1>2, <2>1 DEF HeardInv
<1> QED
  BY <1>4, <1>5, <1>6, <1>7, <1>8, <1>9, StepInvariant DEF PeerInv

\* What kevent() can return of a set of the two descriptors.
LEMMA BatchOf ==
  ASSUME NEW S \in SUBSET {"control", "wakeup"}, NEW events \in SetToSeqs(S)
  PROVE  events \in Batches /\ \A i \in 1 .. Len(events) : events[i] \in S
<1>1. events \in [1 .. Cardinality(S) -> S]
  BY DEF SetToSeqs
<1>2. \A i, j \in 1 .. Cardinality(S) : i # j => events[i] # events[j]
  BY DEF SetToSeqs
<1>3. CASE S = {}
  <2>1. Cardinality(S) = 0
    BY <1>3, FS_EmptySet
  <2>2. events = <<>>
    BY <1>1, <2>1
  <2> QED
    BY <2>2 DEF Batches
<1>4. ASSUME NEW x \in {"control", "wakeup"}, S = {x} PROVE events = <<x>>
  <2>1. Cardinality(S) = 1
    BY <1>4, FS_Singleton
  <2> QED
    BY <1>1, <1>4, <2>1
<1>5. CASE S = {"control", "wakeup"}
  <2>1. Cardinality(S) = 2
    <3>1. IsFiniteSet({"control"}) /\ Cardinality({"control"}) = 1
      BY FS_Singleton
    <3>2. S = {"control"} \cup {"wakeup"} /\ "wakeup" \notin {"control"}
      BY <1>5
    <3>3. Cardinality({"control"} \cup {"wakeup"}) = Cardinality({"control"}) + 1
      BY <3>1, <3>2, FS_AddElement
    <3> QED
      BY <3>1, <3>2, <3>3
  <2>2. events \in [1 .. 2 -> S] /\ events[1] # events[2]
    BY <1>1, <1>2, <2>1
  <2>3. events = <<events[1], events[2]>> /\ events[1] \in S /\ events[2] \in S
    BY <2>2
  <2>4. \/ events[1] = "control" /\ events[2] = "wakeup"
        \/ events[1] = "wakeup" /\ events[2] = "control"
    BY <2>2, <2>3, <1>5
  <2>5. events = <<"control", "wakeup">> \/ events = <<"wakeup", "control">>
    BY <2>3, <2>4
  <2> QED
    BY <2>5, <1>5 DEF Batches
<1>6. CASE \E x \in {"control", "wakeup"} : S = {x}
  <2>1. PICK x \in {"control", "wakeup"} : S = {x}
    BY <1>6
  <2>2. events = <<x>>
    BY <2>1, <1>4
  <2> QED
    BY <2>1, <2>2 DEF Batches
<1>7. S = {} \/ S = {"control", "wakeup"} \/ \E x \in {"control", "wakeup"} : S = {x}
  OBVIOUS
<1> QED
  BY <1>3, <1>5, <1>6, <1>7

LEMMA PollInvariant ==
  ASSUME ShutdownInv, NEW p \in Peers, Poll(p)
  PROVE  ShutdownInv'
<1> USE TwoPeers DEF At, Gone, Holds, Sent, Received, channels, ShutdownInv
<1>1. PICK events \in SetToSeqs(Readable(p)) :
        proc' = [proc EXCEPT ![p].events = events,
                   ![p].pc = IF events = <<>> THEN "post" ELSE "handle"]
  BY DEF Poll
<1>2. /\ events \in Batches
      /\ \A i \in 1 .. Len(events) : events[i] \in Readable(p)
  BY BatchOf DEF Readable
<1>3. /\ proc[p].pc = "poll" /\ ~proc[p].closed /\ proc[p].ended = "no"
      /\ proc[p] \in ProcessType
      /\ UNCHANGED <<held, inbox, wakeups, channels>>
  BY DEF Poll, EndedInv, EndLabels, TypeInv
<1> DEFINE label == IF events = <<>> THEN "post" ELSE "handle"
           r == [proc[p] EXCEPT !.events = events, !.pc = label]
<1>4. /\ r \in ProcessType
      /\ r.pc = label /\ r.events = events
      /\ r.shutdown = proc[p].shutdown /\ r.kind = proc[p].kind
      /\ r.closed = proc[p].closed /\ r.timer = proc[p].timer
      /\ r.heard = proc[p].heard /\ r.ended = proc[p].ended
  BY <1>2, <1>3 DEF ProcessType, LoopLabels
<1>5. proc' = [proc EXCEPT ![p] = r]
  BY <1>1 DEF TypeInv
<1> HIDE DEF r, label
<1>6. /\ proc' \in [Peers -> ProcessType]
      /\ proc'[Other(p)] = proc[Other(p)] /\ proc'[p] = r
  BY <1>4, <1>5, Became
<1>7. label \in {"post", "handle"} /\ (label = "handle" => events # <<>>)
  BY DEF label
<1>8. TypeInv'
  BY <1>3, <1>6 DEF TypeInv
<1>9. ForkInv' /\ ToldInv' /\ CleanInv'
  BY <1>3, <1>4, <1>6, <1>7 DEF ForkInv, ToldInv, CleanInv, Peers, Late
<1>10. StepOf(p)
  BY <1>3, <1>4, <1>6 DEF StepOf, SharedStep, TypeInv
<1>11. HeldInv(p)' /\ EndedInv(p)'
  BY <1>3, <1>4, <1>6, <1>7 DEF HeldInv, EndedInv, LoopLabels, EndLabels
<1>12. GoneInv(p)' /\ PollingInv(p)' /\ HeardInv(p)'
  BY <1>3, <1>4, <1>6, <1>7 DEF GoneInv, PollingInv, HeardInv
<1>13. EventInv(p)'
  <2>1. \A pair \in {"control", "wakeup"} :
          pair \in Readable(p) =>
            \/ pair = "control" /\ inbox[p] # <<>>
            \/ pair = "wakeup" /\ wakeups[p] > 0
            \/ ~PeerOpen(p, pair)
    BY DEF Readable
  <2>2. ASSUME NEW pair \in {"control", "wakeup"}, ~PeerOpen(p, pair)
        PROVE  Gone(Other(p))
    <3> DEFINE q == Other(p)
    <3>1. q \in Peers /\ Other(q) = p /\ End(pair, q) \notin held[q]
      BY <2>2 DEF PeerOpen
    <3>2. SUFFICES ASSUME ~Gone(q) PROVE FALSE
      OBVIOUS
    <3> HIDE DEF q
    <3>3. proc[q].pc \in Labels /\ proc[q].pc \notin EndLabels /\ ~proc[q].closed
      BY <3>1, <3>2 DEF EndedInv, TypeInv, ProcessType, Labels
    <3>4. proc[q].pc # "exiting"
      BY <3>1, <1>3 DEF GoneInv
    <3>5. proc[q].pc \notin LoopLabels
      BY <3>1, <3>3, <3>4 DEF HeldInv
    <3>6. proc[q].pc \notin {"fork", "router", "wakeup", "prepare"}
      <4>1. End(pair, q) \in Own(q) /\ End(pair, q) \in Ends
        BY <3>1 DEF Own, Ends, End, Pairs
      <4> QED
        BY <3>1, <4>1 DEF HeldInv
    <3>7. proc[q].pc \notin {"none", "initialize"}
      BY <1>3, <3>1, PeersAssumption DEF ForkInv, q, Peers, Other
    <3> QED
      BY <3>3, <3>5, <3>6, <3>7 DEF Labels, StartLabels
  <2> QED
    BY <1>2, <1>3, <1>4, <1>6, <1>7, <2>1, <2>2 DEF EventInv
<1> QED
  BY <1>8, <1>9, <1>10, <1>11, <1>12, <1>13, StepInvariant DEF PeerInv

-----------------------------------------------------------------------------
(* Poll::process().                                                         *)

\* What is left of a batch after its first event.
LEMMA RestOfBatch ==
  ASSUME NEW batch \in Batches, batch # <<>>
  PROVE  /\ Len(batch) > 1 <=> Tail(batch) # <<>>
         /\ Tail(batch) \in Batches
         /\ Len(batch) \in 1 .. 2
         /\ \A i \in 1 .. Len(Tail(batch)) :
              /\ Tail(batch)[i] = batch[i + 1]
              /\ i + 1 \in 1 .. Len(batch)
              /\ Tail(batch)[i] # batch[1]
<1>1. ASSUME NEW x, batch = <<x>>
      PROVE  Tail(batch) = <<>> /\ Len(batch) = 1 /\ Len(Tail(batch)) = 0
  BY <1>1
<1>2. ASSUME NEW x, NEW y, batch = <<x, y>>
      PROVE  /\ Tail(batch) = <<y>> /\ Len(batch) = 2
             /\ Tail(batch)[1] = batch[2] /\ Len(Tail(batch)) = 1
             /\ batch[1] = x /\ batch[2] = y
  BY <1>2
<1>3. CASE \E x \in {"control", "wakeup"} : batch = <<x>>
  BY <1>1, <1>3 DEF Batches
<1>4. CASE \E x, y \in {"control", "wakeup"} : x # y /\ batch = <<x, y>>
  <2>1. PICK x, y \in {"control", "wakeup"} : x # y /\ batch = <<x, y>>
    BY <1>4
  <2>2. /\ Tail(batch) = <<y>> /\ Len(batch) = 2
        /\ Tail(batch)[1] = batch[2] /\ Len(Tail(batch)) = 1
        /\ batch[1] = x /\ batch[2] = y
    BY <1>2, <2>1
  <2>3. <<y>> \in Batches /\ <<y>> # <<>>
    BY DEF Batches
  <2> QED
    BY <2>1, <2>2, <2>3
<1> QED
  BY <1>3, <1>4 DEF Batches

\* A step that handles the first event of the batch.
LEMMA HandleInvariant ==
  ASSUME ShutdownInv, NEW p \in Peers, At(p, "handle"),
         NEW r \in ProcessType, proc' = [proc EXCEPT ![p] = r],
         r.events = Tail(proc[p].events),
         r.pc = IF Len(proc[p].events) > 1 THEN "handle" ELSE "post",
         r.ended = proc[p].ended, r.timer = proc[p].timer,
         proc[p].closed => r.closed,
         r.closed => r.shutdown /\ Gone(Other(p)),
         r.heard <= Sent(Other(p)),
         held' \in [Peers -> SUBSET Ends],
         held'[Other(p)] = held[Other(p)],
         held'[p] \subseteq held[p], Holds(p, "keepalive")',
         Holds(p, "control")' <=> ~r.closed,
         Holds(p, "wakeup")' <=> ~r.closed,
         SharedStep(p), SharedType', UNCHANGED channels,
         NextEvent(p) # "control" => inbox'[p] = inbox[p],
         \A i \in 1 .. Len(inbox'[p]) : inbox'[p][i].written <= Sent(Other(p)),
         NextEvent(p) # "wakeup" => wakeups'[p] = wakeups[p],
         ToldInv'
  PROVE  ShutdownInv'
<1> USE TwoPeers DEF At, Gone, Holds, Sent, Received, channels, ShutdownInv
<1> DEFINE batch == proc[p].events
<1>1. /\ batch \in Batches /\ batch # <<>>
      /\ proc[p].pc = "handle" /\ proc[p].ended = "no"
  BY DEF TypeInv, ProcessType, EventInv, EndedInv, EndLabels
<1>2. /\ proc' \in [Peers -> ProcessType]
      /\ proc'[Other(p)] = proc[Other(p)] /\ proc'[p] = r
  BY Became
<1>3. /\ r.pc \in {"handle", "post"}
      /\ r.pc = "handle" => r.events # <<>>
      /\ \A i \in 1 .. Len(r.events) :
           /\ r.events[i] = batch[i + 1] /\ i + 1 \in 1 .. Len(batch)
           /\ r.events[i] # NextEvent(p)
  <2> HIDE DEF batch
  <2> QED
    BY <1>1, RestOfBatch DEF NextEvent, batch
<1>4. TypeInv'
  BY <1>2 DEF TypeInv, SharedType
<1>5. ForkInv' /\ CleanInv'
  BY <1>1, <1>2, <1>3 DEF ForkInv, CleanInv, Peers, Late
<1>6. StepOf(p)
  BY <1>1, <1>2 DEF StepOf
<1>7. HeldInv(p)' /\ EndedInv(p)'
  <2>1. held'[p] \subseteq Own(p)
    BY <1>1 DEF HeldInv, LoopLabels
  <2> QED
    BY <1>1, <1>2, <1>3, <2>1 DEF HeldInv, EndedInv, LoopLabels, EndLabels
<1>8. GoneInv(p)' /\ PollingInv(p)'
  BY <1>1, <1>2, <1>3 DEF GoneInv, PollingInv
<1>9. HeardInv(p)'
  BY <1>1, <1>2, <1>3 DEF HeardInv
<1>10. EventInv(p)'
  <2> SUFFICES ASSUME NEW i \in 1 .. Len(r.events)
               PROVE  /\ r.events[i] = "control" =>
                           inbox'[p] # <<>> \/ Gone(Other(p))
                      /\ (r.events[i] = "wakeup" /\ Holds(p, "wakeup")') =>
                           wakeups'[p] > 0 \/ Gone(Other(p))
    BY <1>2, <1>3 DEF EventInv
  <2>1. r.events[i] = batch[i + 1] /\ i + 1 \in 1 .. Len(batch)
    BY <1>3
  <2>2. /\ batch[i + 1] = "control" => inbox[p] # <<>> \/ Gone(Other(p))
        /\ (batch[i + 1] = "wakeup" /\ Holds(p, "wakeup")) =>
             wakeups[p] > 0 \/ Gone(Other(p))
    BY <1>1, <2>1 DEF EventInv
  <2>3. r.events[i] # NextEvent(p)
    BY <1>3
  <2> HIDE DEF batch
  <2> QED
    BY <2>1, <2>2, <2>3
<1> QED
  BY <1>4, <1>5, <1>6, <1>7, <1>8, <1>9, <1>10, StepInvariant DEF PeerInv

LEMMA HandledFields ==
  ASSUME NEW r \in ProcessType, r.events # <<>>, r.pc = "handle"
  PROVE  /\ Handled(r) \in ProcessType
         /\ Handled(r).pc = (IF Len(r.events) > 1 THEN "handle" ELSE "post")
         /\ Handled(r).events = Tail(r.events)
         /\ Handled(r).shutdown = r.shutdown /\ Handled(r).kind = r.kind
         /\ Handled(r).closed = r.closed /\ Handled(r).timer = r.timer
         /\ Handled(r).heard = r.heard /\ Handled(r).ended = r.ended
<1> DEFINE label == IF Len(r.events) > 1 THEN "handle" ELSE "post"
           rest  == Tail(r.events)
<1>1. rest \in Batches /\ label \in LoopLabels
  BY RestOfBatch DEF ProcessType, LoopLabels
<1>2. Handled(r) = [r EXCEPT !.events = rest, !.pc = label]
  BY DEF Handled, ProcessType
<1> HIDE DEF rest, label
<1>3. /\ Handled(r) \in ProcessType
      /\ Handled(r).pc = label /\ Handled(r).events = rest
      /\ Handled(r).shutdown = r.shutdown /\ Handled(r).kind = r.kind
      /\ Handled(r).closed = r.closed /\ Handled(r).timer = r.timer
      /\ Handled(r).heard = r.heard /\ Handled(r).ended = r.ended
  BY <1>1, <1>2 DEF ProcessType
<1> QED
  BY <1>3 DEF rest, label

\* What holds of a process that handles an event.
LEMMA AtHandle ==
  ASSUME ShutdownInv, NEW p \in Peers, At(p, "handle")
  PROVE  /\ proc[p] \in ProcessType /\ proc[p].pc = "handle"
         /\ proc[p].events \in Batches /\ proc[p].events # <<>>
         /\ 1 \in 1 .. Len(proc[p].events)
         /\ held[p] \subseteq Own(p) /\ Holds(p, "keepalive")
         /\ Holds(p, "control") <=> ~proc[p].closed
         /\ Holds(p, "wakeup") <=> ~proc[p].closed
         /\ proc[p].closed => proc[p].shutdown /\ Gone(Other(p))
         /\ proc[p].heard <= Sent(Other(p))
         /\ inbox[p] \in Seq(MessageType) /\ wakeups[p] \in Nat
         /\ held \in [Peers -> SUBSET Ends]
         /\ \A i \in 1 .. Len(inbox[p]) :
              inbox[p][i].written <= Sent(Other(p))
<1>1. /\ proc[p] \in ProcessType /\ proc[p].pc = "handle"
      /\ proc[p].events \in Batches /\ proc[p].events # <<>>
      /\ inbox[p] \in Seq(MessageType) /\ wakeups[p] \in Nat
      /\ held \in [Peers -> SUBSET Ends]
  BY DEF ShutdownInv, TypeInv, ProcessType, EventInv, At
<1>2. 1 \in 1 .. Len(proc[p].events)
  BY <1>1, RestOfBatch
<1> QED
  BY <1>1, <1>2 DEF ShutdownInv, HeldInv, EndedInv, GoneInv, HeardInv,
                    LoopLabels, EndLabels

LEMMA ControlMessageInvariant ==
  ASSUME ShutdownInv, NEW p \in Peers, ControlMessage(p)
  PROVE  ShutdownInv'
<1>0. At(p, "handle") /\ NextEvent(p) = "control" /\ inbox[p] # <<>>
      /\ UNCHANGED <<held, wakeups, channels>>
  BY DEF ControlMessage
<1> DEFINE m == Head(inbox[p])
           h == Handled(proc[p])
           r == IF m.kind = "fatal" THEN h
                ELSE [h EXCEPT !.shutdown = TRUE, !.kind = m.kind,
                               !.heard = m.written]
<1>1. m \in MessageType /\ m = inbox[p][1] /\ 1 \in 1 .. Len(inbox[p])
  BY <1>0, AtHandle
<1>2. /\ h \in ProcessType
      /\ h.pc = (IF Len(proc[p].events) > 1 THEN "handle" ELSE "post")
      /\ h.events = Tail(proc[p].events)
      /\ h.shutdown = proc[p].shutdown /\ h.kind = proc[p].kind
      /\ h.closed = proc[p].closed /\ h.timer = proc[p].timer
      /\ h.heard = proc[p].heard /\ h.ended = proc[p].ended
  BY <1>0, AtHandle, HandledFields
<1>3. /\ proc' = [proc EXCEPT ![p] = r]
      /\ inbox' = [inbox EXCEPT ![p] = Tail(inbox[p])]
  BY DEF ControlMessage
<1> HIDE DEF h, m
<1>4. /\ r \in ProcessType
      /\ r.pc = h.pc /\ r.events = h.events /\ r.closed = h.closed
      /\ r.timer = h.timer /\ r.ended = h.ended
      /\ r.shutdown = h.shutdown \/ r.shutdown = TRUE
      /\ r.heard = h.heard \/ r.heard = m.written
      /\ r.kind = h.kind \/ m.kind # "fatal"
  <2>1. CASE m.kind = "fatal"
    BY <2>1, <1>2
  <2>2. CASE m.kind # "fatal"
    <3>1. m.kind \in {"graceful", "forceful"} /\ m.written \in 0 .. MaxMessages
      BY <1>1, <2>2 DEF MessageType, Kinds
    <3> DEFINE x == [h EXCEPT !.shutdown = TRUE, !.kind = m.kind,
                              !.heard = m.written]
    <3>2. /\ x \in ProcessType
          /\ x.pc = h.pc /\ x.events = h.events /\ x.closed = h.closed
          /\ x.timer = h.timer /\ x.ended = h.ended
          /\ x.shutdown = TRUE /\ x.heard = m.written
      BY <1>2, <3>1 DEF ProcessType
    <3> QED
      BY <2>2, <3>2
  <2> QED
    BY <2>1, <2>2
<1> HIDE DEF r
<1>5. /\ inbox' \in [Peers -> Seq(MessageType)]
      /\ inbox'[Other(p)] = inbox[Other(p)]
      /\ inbox'[p] = Tail(inbox[p])
      /\ \A i \in 1 .. Len(inbox'[p]) :
           inbox'[p][i] = inbox[p][i + 1] /\ i + 1 \in 1 .. Len(inbox[p])
  <2>1. /\ Tail(inbox[p]) \in Seq(MessageType)
        /\ \A i \in 1 .. Len(Tail(inbox[p])) :
             /\ Tail(inbox[p])[i] = inbox[p][i + 1]
             /\ i + 1 \in 1 .. Len(inbox[p])
    BY <1>0, AtHandle
  <2> QED
    BY <1>3, <2>1, TwoPeers DEF ShutdownInv, TypeInv
<1>6. /\ r.heard <= Sent(Other(p))
      /\ \A i \in 1 .. Len(inbox'[p]) : inbox'[p][i].written <= Sent(Other(p))
  BY <1>0, <1>1, <1>2, <1>4, <1>5, AtHandle
<1>7. SharedStep(p) /\ SharedType'
  <2>1. TypeInv /\ SharedType
    BY DEF ShutdownInv, TypeInv, SharedType
  <2>2. UNCHANGED <<wakeups, channels>>
    BY <1>0
  <2>3. SharedType'
    BY <1>5, <2>1, <2>2 DEF SharedType, channels
  <2>4. SharedStep(p)
    BY <1>5, <2>1, <2>2, TwoPeers DEF SharedStep, channels, SharedType
  <2> QED
    BY <2>3, <2>4
<1>8. ToldInv'
  <2>1. /\ proc'[Other(p)] = proc[Other(p)] /\ proc'[p] = r
    BY <1>3, <1>4, Became DEF ShutdownInv
  <2>2. CASE proc[Parent].timer # "off"
    BY <2>1, <2>2, <1>2, <1>4, TwoPeers DEF ToldInv, Peers
  <2>3. CASE /\ proc[Child].kind = "none"
             /\ \A i \in 1 .. Len(inbox[Child]) : inbox[Child][i].kind = "fatal"
    <3>1. CASE p = Child
      BY <3>1, <2>1, <2>3, <1>1, <1>2, <1>4, <1>5 DEF ToldInv
    <3>2. CASE p = Parent
      BY <3>2, <2>1, <2>3, <1>5, PeersAssumption DEF ToldInv, Other
    <3> QED
      BY <3>1, <3>2 DEF Peers
  <2> QED
    BY <2>2, <2>3 DEF ShutdownInv, ToldInv
<1>9. /\ held' \in [Peers -> SUBSET Ends] /\ UNCHANGED channels
      /\ held'[Other(p)] = held[Other(p)] /\ held'[p] \subseteq held[p]
      /\ Holds(p, "keepalive")'
      /\ Holds(p, "control")' <=> ~r.closed
      /\ Holds(p, "wakeup")' <=> ~r.closed
      /\ r.closed => r.shutdown /\ Gone(Other(p))
      /\ proc[p].closed => r.closed
  BY <1>0, <1>2, <1>4, AtHandle DEF Holds
<1> QED
  BY <1>0, <1>2, <1>3, <1>4, <1>6, <1>7, <1>8, <1>9, HandleInvariant

LEMMA ControlClosedInvariant ==
  ASSUME ShutdownInv, NEW p \in Peers, ControlClosed(p)
  PROVE  ShutdownInv'
<1>0. /\ At(p, "handle") /\ NextEvent(p) = "control" /\ inbox[p] = <<>>
      /\ CloseFds(p) /\ UNCHANGED <<inbox, wakeups, channels>>
  BY DEF ControlClosed
<1> DEFINE h == Handled(proc[p])
           r == [h EXCEPT !.shutdown = TRUE, !.closed = TRUE]
<1>1. /\ h \in ProcessType
      /\ h.pc = (IF Len(proc[p].events) > 1 THEN "handle" ELSE "post")
      /\ h.events = Tail(proc[p].events)
      /\ h.shutdown = proc[p].shutdown /\ h.kind = proc[p].kind
      /\ h.closed = proc[p].closed /\ h.timer = proc[p].timer
      /\ h.heard = proc[p].heard /\ h.ended = proc[p].ended
  BY <1>0, AtHandle, HandledFields
<1>2. proc' = [proc EXCEPT ![p] = r]
  BY DEF ControlClosed
<1> HIDE DEF h
<1>3. /\ r \in ProcessType
      /\ r.pc = h.pc /\ r.events = h.events /\ r.closed = TRUE
      /\ r.timer = h.timer /\ r.ended = h.ended /\ r.kind = h.kind
      /\ r.shutdown = TRUE /\ r.heard = h.heard
  BY <1>1 DEF ProcessType
<1> HIDE DEF r
<1>4. Gone(Other(p))
  BY <1>0, AtHandle DEF ShutdownInv, EventInv, At, NextEvent
<1>5. SharedStep(p) /\ SharedType'
  BY <1>0, NothingShared
<1>6. ToldInv'
  <2>1. proc'[Other(p)] = proc[Other(p)] /\ proc'[p] = r
    BY <1>2, <1>3, Became DEF ShutdownInv
  <2> QED
    BY <2>1, <1>0, <1>1, <1>3, TwoPeers DEF ToldInv, Peers, ShutdownInv
<1>7. /\ held' \in [Peers -> SUBSET Ends]
      /\ held'[Other(p)] = held[Other(p)]
      /\ held'[p] = held[p] \ {End("control", p), End("wakeup", p)}
  BY <1>0, Dropping DEF CloseFds, ShutdownInv
<1>8. /\ held'[p] \subseteq held[p] /\ Holds(p, "keepalive")'
      /\ ~Holds(p, "control")' /\ ~Holds(p, "wakeup")'
  <2>1. End("keepalive", p) \notin {End("control", p), End("wakeup", p)}
    BY DEF End
  <2> QED
    BY <1>0, <1>7, <2>1, AtHandle DEF Holds
<1>9. /\ r.heard <= Sent(Other(p))
      /\ inbox'[p] = inbox[p] /\ wakeups'[p] = wakeups[p] /\ UNCHANGED channels
      /\ \A i \in 1 .. Len(inbox'[p]) : inbox'[p][i].written <= Sent(Other(p))
  BY <1>0, <1>1, <1>3, AtHandle
<1> QED
  BY <1>0, <1>1, <1>2, <1>3, <1>4, <1>5, <1>6, <1>7, <1>8, <1>9, HandleInvariant

LEMMA WakeupByteInvariant ==
  ASSUME ShutdownInv, NEW p \in Peers, WakeupByte(p)
  PROVE  ShutdownInv'
<1>0. /\ At(p, "handle") /\ NextEvent(p) = "wakeup" /\ wakeups[p] > 0
      /\ wakeups' = [wakeups EXCEPT ![p] = @ - 1]
      /\ UNCHANGED <<held, inbox, channels>>
  BY DEF WakeupByte
<1> DEFINE r == Handled(proc[p])
<1>1. /\ r \in ProcessType
      /\ r.pc = (IF Len(proc[p].events) > 1 THEN "handle" ELSE "post")
      /\ r.events = Tail(proc[p].events)
      /\ r.shutdown = proc[p].shutdown /\ r.kind = proc[p].kind
      /\ r.closed = proc[p].closed /\ r.timer = proc[p].timer
      /\ r.heard = proc[p].heard /\ r.ended = proc[p].ended
  BY <1>0, AtHandle, HandledFields
<1>2. proc' = [proc EXCEPT ![p] = r]
  BY DEF WakeupByte
<1> HIDE DEF r
<1>3. SharedStep(p) /\ SharedType'
  BY <1>0, TwoPeers
  DEF SharedStep, SharedType, channels, ShutdownInv, TypeInv
<1>4. ToldInv'
  <2>1. proc'[Other(p)] = proc[Other(p)] /\ proc'[p] = r
    BY <1>1, <1>2, Became DEF ShutdownInv
  <2> QED
    BY <2>1, <1>0, <1>1, TwoPeers DEF ToldInv, Peers, ShutdownInv
<1>5. /\ held' \in [Peers -> SUBSET Ends] /\ UNCHANGED channels
      /\ held'[Other(p)] = held[Other(p)] /\ held'[p] \subseteq held[p]
      /\ Holds(p, "keepalive")'
      /\ Holds(p, "control")' <=> ~r.closed
      /\ Holds(p, "wakeup")' <=> ~r.closed
      /\ r.closed => r.shutdown /\ Gone(Other(p))
      /\ r.heard <= Sent(Other(p)) /\ inbox'[p] = inbox[p]
      /\ \A i \in 1 .. Len(inbox'[p]) : inbox'[p][i].written <= Sent(Other(p))
  BY <1>0, <1>1, AtHandle DEF Holds
<1> QED
  BY <1>0, <1>1, <1>2, <1>3, <1>4, <1>5, HandleInvariant

LEMMA ClosedEventInvariant ==
  ASSUME ShutdownInv, NEW p \in Peers, ClosedEvent(p)
  PROVE  ShutdownInv'
<1>0. /\ At(p, "handle") /\ NextEvent(p) = "wakeup"
      /\ UNCHANGED <<held, inbox, wakeups, channels>>
  BY DEF ClosedEvent
<1> DEFINE r == Handled(proc[p])
<1>1. /\ r \in ProcessType
      /\ r.pc = (IF Len(proc[p].events) > 1 THEN "handle" ELSE "post")
      /\ r.events = Tail(proc[p].events)
      /\ r.shutdown = proc[p].shutdown /\ r.kind = proc[p].kind
      /\ r.closed = proc[p].closed /\ r.timer = proc[p].timer
      /\ r.heard = proc[p].heard /\ r.ended = proc[p].ended
  BY <1>0, AtHandle, HandledFields
<1>2. proc' = [proc EXCEPT ![p] = r]
  BY DEF ClosedEvent
<1> HIDE DEF r
<1>3. SharedStep(p) /\ SharedType'
  BY <1>0, NothingShared
<1>4. ToldInv'
  <2>1. proc'[Other(p)] = proc[Other(p)] /\ proc'[p] = r
    BY <1>1, <1>2, Became DEF ShutdownInv
  <2> QED
    BY <2>1, <1>0, <1>1, TwoPeers DEF ToldInv, Peers, ShutdownInv
<1>5. /\ held' \in [Peers -> SUBSET Ends] /\ UNCHANGED channels
      /\ held'[Other(p)] = held[Other(p)] /\ held'[p] \subseteq held[p]
      /\ Holds(p, "keepalive")'
      /\ Holds(p, "control")' <=> ~r.closed
      /\ Holds(p, "wakeup")' <=> ~r.closed
      /\ r.closed => r.shutdown /\ Gone(Other(p))
      /\ r.heard <= Sent(Other(p))
      /\ inbox'[p] = inbox[p] /\ wakeups'[p] = wakeups[p]
      /\ \A i \in 1 .. Len(inbox'[p]) : inbox'[p][i].written <= Sent(Other(p))
  BY <1>0, <1>1, AtHandle DEF Holds
<1> QED
  BY <1>0, <1>1, <1>2, <1>3, <1>4, <1>5, HandleInvariant

LEMMA WakeupEofInvariant ==
  ASSUME ShutdownInv, NEW p \in Peers, WakeupEof(p)
  PROVE  ShutdownInv'
<1> USE TwoPeers DEF At, Placed, Gone, Sent, Received, channels, ShutdownInv
<1>0. /\ proc[p].pc = "handle" /\ proc[p].ended = "no" /\ NextEvent(p) = "wakeup"
      /\ Holds(p, "wakeup") /\ wakeups[p] = 0 /\ ~proc[p].closed
      /\ UNCHANGED <<inbox, wakeups, channels>>
  BY AtHandle DEF WakeupEof, EndedInv, EndLabels
<1>1. Placed(p, "exiting", proc[p].ended)
  BY Move DEF WakeupEof, Labels, LoopLabels
<1>2. /\ held' \in [Peers -> SUBSET Ends]
      /\ held'[p] = held[p] \ {End("wakeup", p)}
      /\ held'[Other(p)] = held[Other(p)]
  BY Dropping DEF WakeupEof
<1>3. Gone(Other(p))
  <2>1. proc[p].events[1] = "wakeup" /\ 1 \in 1 .. Len(proc[p].events)
    BY <1>0, AtHandle DEF NextEvent
  <2> QED
    BY <1>0, <2>1 DEF EventInv
<1>4. TypeInv'
  BY <1>0, <1>1, <1>2 DEF TypeInv
<1>5. ForkInv' /\ ToldInv' /\ CleanInv'
  BY <1>0, <1>1 DEF ForkInv, ToldInv, CleanInv, Peers, Late
<1>6. StepOf(p)
  <2>1. SharedStep(p)
    BY <1>0, NothingShared
  <2> QED
    BY <1>0, <1>1, <1>2, <2>1 DEF StepOf
<1>7. HeldInv(p)' /\ EndedInv(p)'
  <2>1. /\ held'[p] \subseteq Own(p) /\ ~Holds(p, "wakeup")'
        /\ Holds(p, "control")' /\ Holds(p, "keepalive")'
    <3>1. /\ End("keepalive", p) # End("wakeup", p)
          /\ End("control", p) # End("wakeup", p)
      BY DEF End
    <3> QED
      BY <1>0, <1>2, <3>1, AtHandle DEF Holds
  <2> QED
    BY <1>0, <1>1, <2>1 DEF HeldInv, EndedInv, LoopLabels, EndLabels
<1>8. GoneInv(p)' /\ EventInv(p)' /\ PollingInv(p)' /\ HeardInv(p)'
  BY <1>0, <1>1, <1>3 DEF GoneInv, EventInv, PollingInv, HeardInv
<1> QED
  BY <1>4, <1>5, <1>6, <1>7, <1>8, StepInvariant DEF PeerInv

-----------------------------------------------------------------------------
(* What happens to a process at any time.                                   *)

LEMMA AbortInvariant ==
  ASSUME ShutdownInv, NEW p \in Peers, NEW why \in {"exit220", "crash"},
         Alive(p), why = "exit220" => At(p, "exiting"), Abort(p, why)
  PROVE  ShutdownInv'
<1> USE TwoPeers DEF At, Placed, Gone, Holds, Received, ShutdownInv
<1> DEFINE q == Other(p)
           m == Message("fatal", Sent(p))
<1>0. q \in Peers /\ q # p
  OBVIOUS
<1>1. /\ Placed(p, "exited", why)
      /\ held' \in [Peers -> SUBSET Ends]
      /\ held'[p] = {} /\ held'[q] = held[q]
  BY Exiting DEF Abort, Reasons
<1>2. PICK n \in 0 .. MaxReports(p) :
        inbox' = [inbox EXCEPT ![q] = inbox[q] \o [i \in 1 .. n |-> m]]
  BY DEF Abort
<1>3. n \in Nat /\ (p = Parent => n = 0)
  BY PeersAssumption DEF MaxReports
<1>4. m \in MessageType /\ m.written = Sent(p) /\ m.kind = "fatal"
  BY DEF Message, MessageType, Kinds, Sent, TypeInv
<1>5. UNCHANGED <<wakeups, channels>>
  BY DEF Abort
<1> HIDE DEF q, m
<1>6. /\ inbox' \in [Peers -> Seq(MessageType)]
      /\ inbox'[p] = inbox[p]
      /\ Len(inbox'[q]) = Len(inbox[q]) + n
      /\ \A i \in 1 .. Len(inbox'[q]) :
           \/ i <= Len(inbox[q]) /\ inbox'[q][i] = inbox[q][i]
           \/ ~(i <= Len(inbox[q])) /\ inbox'[q][i] = m
  <2> DEFINE f == [i \in 1 .. n |-> m]
  <2>1. f \in Seq(MessageType) /\ Len(f) = n /\ \A i \in 1 .. n : f[i] = m
    BY <1>3, <1>4
  <2>2. inbox[q] \in Seq(MessageType)
    BY <1>0 DEF TypeInv
  <2> HIDE DEF f
  <2>3. /\ inbox[q] \o f \in Seq(MessageType)
        /\ Len(inbox[q] \o f) = Len(inbox[q]) + n
        /\ \A i \in 1 .. Len(inbox[q]) + n :
             (inbox[q] \o f)[i] =
               IF i <= Len(inbox[q]) THEN inbox[q][i] ELSE f[i - Len(inbox[q])]
    BY <1>3, <2>1, <2>2
  <2>4. \A i \in 1 .. Len(inbox[q]) + n :
          ~(i <= Len(inbox[q])) => f[i - Len(inbox[q])] = m
    BY <1>3, <2>1, <2>2
  <2>5. inbox' = [inbox EXCEPT ![q] = inbox[q] \o f]
    BY <1>2 DEF f
  <2>6. inbox' \in [Peers -> Seq(MessageType)] /\ inbox'[p] = inbox[p]
        /\ inbox'[q] = inbox[q] \o f
    BY <1>0, <2>3, <2>5 DEF TypeInv
  <2> QED
    BY <2>3, <2>4, <2>6
<1>7. TypeInv'
  BY <1>1, <1>5, <1>6 DEF TypeInv, channels
<1>8. ToldInv'
  <2>1. CASE p = Parent
    <3>1. n = 0 /\ q = Child /\ Len(inbox[q]) \in Nat
      BY <1>0, <1>3, <2>1 DEF q, Other, TypeInv
    <3>2. \A i \in 1 .. Len(inbox'[q]) :
            inbox'[q][i] = inbox[q][i] /\ i \in 1 .. Len(inbox[q])
      BY <1>6, <3>1
    <3> QED
      BY <1>1, <2>1, <3>1, <3>2 DEF ToldInv, q
  <2>2. CASE p = Child
    BY <1>1, <1>6, <2>2, PeersAssumption DEF ToldInv, q, Other
  <2> QED
    BY <2>1, <2>2 DEF Peers
<1>9. Late => Late'
  BY <1>1 DEF Late, EndedInv, EndLabels
<1>10. CleanInv'
  <2>1. CASE why = "crash"
    BY <2>1, <1>1 DEF CleanInv, Late
  <2>2. CASE why = "exit220"
    BY <2>2, <1>1, <1>9 DEF CleanInv, q
  <2> QED
    BY <2>1, <2>2
<1>11. ForkInv'
  BY <1>1 DEF ForkInv, Alive, Peers
<1>12. StepOf(p)
  <2>1. SharedStep(p)
    <3>1. Len(inbox'[q]) >= Len(inbox[q])
      BY <1>0, <1>3, <1>6 DEF TypeInv
    <3>2. \A i \in 1 .. Len(inbox'[q]) :
            \/ i <= Len(inbox[q]) /\ inbox'[q][i] = inbox[q][i]
            \/ inbox'[q][i].written = Sent(p)
      BY <1>4, <1>6
    <3> QED
      BY <1>0, <1>5, <3>1, <3>2 DEF SharedStep, channels, TypeInv, q
  <2> QED
    BY <1>1, <2>1 DEF StepOf, q
<1>13. HeldInv(p)' /\ EndedInv(p)'
  BY <1>1 DEF HeldInv, EndedInv, LoopLabels, EndLabels
<1>14. GoneInv(p)' /\ EventInv(p)' /\ PollingInv(p)'
  BY <1>1 DEF GoneInv, EventInv, PollingInv, q
<1>15. HeardInv(p)'
  BY <1>0, <1>1, <1>5, <1>6 DEF HeardInv, EndLabels, channels, Sent, q
<1> QED
  BY <1>7, <1>8, <1>10, <1>11, <1>12, <1>13, <1>14, <1>15, StepInvariant
  DEF PeerInv

\* A step that changes nothing but the flag or the timer of a running process.
LEMMA NotedInvariant ==
  ASSUME ShutdownInv, NEW p \in Peers, Running(p), NEW r \in ProcessType,
         proc' = [proc EXCEPT ![p] = r],
         r.pc = proc[p].pc, r.events = proc[p].events, r.kind = proc[p].kind,
         r.closed = proc[p].closed, r.heard = proc[p].heard,
         r.ended = proc[p].ended,
         r.shutdown = TRUE \/ r.shutdown = proc[p].shutdown,
         r.timer = proc[p].timer \/ r.timer = "expired",
         UNCHANGED <<held, inbox, wakeups, channels>>
  PROVE  ShutdownInv'
<1> USE TwoPeers DEF At, Gone, Holds, Sent, Received, ShutdownInv
<1>1. /\ proc' \in [Peers -> ProcessType]
      /\ proc'[Other(p)] = proc[Other(p)] /\ proc'[p] = r
  BY Became
<1>2. SharedStep(p) /\ SharedType' /\ UNCHANGED <<held, inbox, wakeups>>
      /\ UNCHANGED <<polling, written, consumed>>
  BY NothingShared DEF channels
<1>3. TypeInv'
  BY <1>1, <1>2 DEF TypeInv
<1>4. ForkInv' /\ ToldInv' /\ CleanInv'
  BY <1>1, <1>2 DEF ForkInv, ToldInv, CleanInv, Peers, Late
<1>5. StepOf(p)
  BY <1>1, <1>2 DEF StepOf
<1>6. proc[p].ended = "no" /\ proc[p].pc \notin EndLabels
  BY DEF Running, Started, Alive, EndedInv, EndLabels
<1>7. HeldInv(p)' /\ EndedInv(p)'
  BY <1>1, <1>2, <1>6 DEF HeldInv, EndedInv
<1>8. GoneInv(p)' /\ EventInv(p)' /\ PollingInv(p)'
  BY <1>1, <1>2 DEF GoneInv, EventInv, PollingInv
<1>9. HeardInv(p)'
  BY <1>1, <1>2 DEF HeardInv
<1> QED
  BY <1>3, <1>4, <1>5, <1>7, <1>8, <1>9, StepInvariant DEF PeerInv

LEMMA SignalInvariant ==
  ASSUME ShutdownInv, NEW p \in Peers, Signal(p)
  PROVE  ShutdownInv'
<1> DEFINE r == [proc[p] EXCEPT !.shutdown = TRUE]
<1>1. proc[p] \in ProcessType
  BY DEF ShutdownInv, TypeInv
<1>2. /\ r \in ProcessType
      /\ r.pc = proc[p].pc /\ r.events = proc[p].events
      /\ r.kind = proc[p].kind /\ r.closed = proc[p].closed
      /\ r.heard = proc[p].heard /\ r.ended = proc[p].ended
      /\ r.shutdown = TRUE /\ r.timer = proc[p].timer
  BY <1>1 DEF ProcessType
<1>3. proc' = [proc EXCEPT ![p] = r]
  BY DEF Signal
<1> HIDE DEF r
<1> QED
  BY <1>2, <1>3, NotedInvariant DEF Signal

LEMMA FiveSecondsPassInvariant ==
  ASSUME ShutdownInv, NEW p \in Peers, FiveSecondsPass(p)
  PROVE  ShutdownInv'
<1> DEFINE r == [proc[p] EXCEPT !.timer = "expired"]
<1>1. proc[p] \in ProcessType
  BY DEF ShutdownInv, TypeInv
<1>2. /\ r \in ProcessType
      /\ r.pc = proc[p].pc /\ r.events = proc[p].events
      /\ r.kind = proc[p].kind /\ r.closed = proc[p].closed
      /\ r.heard = proc[p].heard /\ r.ended = proc[p].ended
      /\ r.shutdown = proc[p].shutdown /\ r.timer = "expired"
  BY <1>1 DEF ProcessType
<1>3. proc' = [proc EXCEPT ![p] = r]
  BY DEF FiveSecondsPass
<1> HIDE DEF r
<1> QED
  BY <1>2, <1>3, NotedInvariant DEF FiveSecondsPass

LEMMA ReapInvariant ==
  ASSUME ShutdownInv, Reap
  PROVE  ShutdownInv'
<1> DEFINE p == Parent
<1>0. p \in Peers
  BY DEF Peers
<1> HIDE DEF p
<1> USE <1>0, TwoPeers DEF At, Placed, Gone, Holds, Sent, Received, ShutdownInv
<1>1. /\ proc[p].pc = "waiting" /\ proc[p].ended \in Reasons
      /\ Exit(p, proc[p].ended) /\ UNCHANGED <<inbox, wakeups, channels>>
  BY DEF Reap, p, EndedInv, EndLabels, TypeInv, ProcessType
<1>2. /\ Placed(p, "exited", proc[p].ended)
      /\ held' \in [Peers -> SUBSET Ends]
      /\ held'[p] = {} /\ held'[Other(p)] = held[Other(p)]
  BY <1>1, Exiting
<1>3. SharedStep(p) /\ SharedType'
  BY <1>1, NothingShared
<1>4. TypeInv'
  BY <1>2, <1>3 DEF TypeInv, SharedType
<1>5. ForkInv' /\ ToldInv' /\ CleanInv'
  BY <1>1, <1>2 DEF ForkInv, ToldInv, CleanInv, Peers, Late
<1>6. StepOf(p)
  BY <1>1, <1>2, <1>3 DEF StepOf
<1>7. HeldInv(p)' /\ EndedInv(p)'
  BY <1>1, <1>2 DEF HeldInv, EndedInv, LoopLabels, EndLabels
<1>8. GoneInv(p)' /\ EventInv(p)' /\ PollingInv(p)'
  BY <1>1, <1>2 DEF GoneInv, EventInv, PollingInv, channels
<1>9. HeardInv(p)'
  BY <1>1, <1>2 DEF HeardInv, EndLabels, channels
<1> QED
  BY <1>4, <1>5, <1>6, <1>7, <1>8, <1>9, StepInvariant DEF PeerInv

-----------------------------------------------------------------------------
(* The theorems.                                                            *)

LEMMA NextInvariant == ShutdownInv /\ [Next]_vars => ShutdownInv'
<1> SUFFICES ASSUME ShutdownInv, [Next]_vars PROVE ShutdownInv'
  OBVIOUS
<1>1. CASE UNCHANGED vars
  <2> USE <1>1 DEF vars, channels, ShutdownInv
  <2>1. TypeInv' /\ ForkInv' /\ ToldInv'
    BY DEF TypeInv, ForkInv, ToldInv
  <2>2. CleanInv'
    BY DEF CleanInv, Late
  <2>3. \A p \in Peers : HeldInv(p)'
    BY DEF HeldInv, Holds
  <2>4. \A p \in Peers : EndedInv(p)'
    BY DEF EndedInv
  <2>5. \A p \in Peers : GoneInv(p)'
    BY DEF GoneInv, Gone, At
  <2>6. \A p \in Peers : EventInv(p)'
    BY DEF EventInv, Gone, At, Holds
  <2>7. \A p \in Peers : PollingInv(p)'
    BY DEF PollingInv
  <2>8. \A p \in Peers : HeardInv(p)'
    BY DEF HeardInv, At, Sent, Received
  <2> QED
    BY <2>1, <2>2, <2>3, <2>4, <2>5, <2>6, <2>7, <2>8
<1>2. ASSUME NEW p \in Peers, StartStep(p), UNCHANGED <<inbox, wakeups, channels>>
      PROVE  ShutdownInv'
  <2>1. CASE StartFails(p)
    BY <1>2, <2>1, FailedStartInvariant DEF StartFails, StartLabels
  <2> QED
    BY <1>2, <2>1, InitializeInvariant, ForkInvariant, CreateRouterInvariant,
       OpenWakeupInvariant, PrepareInvariant, PollFailsInvariant DEF StartStep
<1>3. ASSUME NEW p \in Peers, Run(p)
      PROVE  ShutdownInv'
  <2>1. CASE ExitLate(p)
    BY <2>1, AbortInvariant DEF ExitLate, Alive, At
  <2>2. CASE CarryOn(p) \/ StopOnClosed(p) \/ StartShutdown(p) \/ GiveUp(p)
             \/ (p = Child /\ StopOnMessage)
    BY <2>2, CarryOnInvariant, StopOnClosedInvariant, StopOnMessageInvariant,
       StartShutdownInvariant, GiveUpInvariant
  <2>3. CASE WriteNothing(p) \/ WriteMessage(p) \/ PrePolling(p) \/ Poll(p)
             \/ PostPolling(p)
    BY <2>3, WriteNothingInvariant, WriteMessageInvariant, PrePollingInvariant,
       PollInvariant, PostPollingInvariant
  <2>4. CASE ControlMessage(p) \/ ControlClosed(p) \/ WakeupByte(p)
             \/ WakeupEof(p) \/ ClosedEvent(p)
    BY <2>4, ControlMessageInvariant, ControlClosedInvariant,
       WakeupByteInvariant, WakeupEofInvariant, ClosedEventInvariant
  <2> QED
    BY <1>2, <1>3, <2>1, <2>2, <2>3, <2>4, ReapInvariant DEF Run
<1>4. ASSUME NEW p \in Peers, Crash(p)
      PROVE  ShutdownInv'
  BY <1>4, AbortInvariant DEF Crash
<1> QED
  BY <1>1, <1>3, <1>4, SignalInvariant, FiveSecondsPassInvariant DEF Next

\* The invariant holds in every state of a run of the two processes.
THEOREM Invariance == Spec => []ShutdownInv
BY InitInvariant, NextInvariant, PTL DEF Spec

\* TypeOK: a batch names each descriptor once, and nothing is consumed that was
\* not published, whichever processes crash and wherever the start fails.
THEOREM TypeCorrect == Spec => []TypeOK
<1>1. ShutdownInv => TypeOK
  <2> SUFFICES ASSUME ShutdownInv PROVE TypeOK
    OBVIOUS
  <2>1. proc \in [Peers ->
          [pc : StartLabels \cup {"none", "check", "write", "pre", "poll",
                 "handle", "post", "exiting", "waiting", "exited"},
           events : {<<>>} \cup {<<e>> : e \in {"control", "wakeup"}}
                    \cup {<<"control", "wakeup">>, <<"wakeup", "control">>},
           shutdown : BOOLEAN, kind : {"none", "graceful", "forceful"},
           closed : BOOLEAN, timer : {"off", "running", "expired"},
           heard : 0 .. MaxMessages,
           ended : {"no", "start", "closed", "told", "timeout", "exception",
                    "exit220", "crash"}]]
    <3>1. StartLabels \cup LoopLabels \cup EndLabels \cup {"none"}
            = StartLabels \cup {"none", "check", "write", "pre", "poll",
                "handle", "post", "exiting", "waiting", "exited"}
      BY DEF LoopLabels, EndLabels
    <3>2. Batches = {<<>>} \cup {<<e>> : e \in {"control", "wakeup"}}
                    \cup {<<"control", "wakeup">>, <<"wakeup", "control">>}
      BY Zenon DEF Batches
    <3>3. {"no"} \cup Reasons = {"no", "start", "closed", "told", "timeout",
                                 "exception", "exit220", "crash"}
      BY DEF Reasons
    <3> QED
      BY <3>1, <3>2, <3>3, Zenon DEF ShutdownInv, TypeInv, ProcessType
  <2>2. \A p \in Peers : \A i \in 1 .. Len(inbox[p]) :
          inbox[p][i] \in MessageType
    BY DEF ShutdownInv, TypeInv
  <2> QED
    BY <2>1, <2>2, Zenon DEF ShutdownInv, TypeInv, TypeOK, MessageType
<1> QED
  BY <1>1, Invariance, PTL

\* EndOfFileIsTrue: a process that has started and sees an end of file draws the
\* right conclusion about its peer.
THEOREM EndOfFileMeansGone == Spec => []EndOfFileIsTrue
<1>1. ShutdownInv => EndOfFileIsTrue
  <2> SUFFICES ASSUME ShutdownInv, NEW p \in Peers, Started(p)
               PROVE  /\ At(Other(p), "exited") =>
                           \A pair \in Pairs : ~PeerOpen(p, pair)
                      /\ ~PeerOpen(p, "keepalive") => At(Other(p), "exited")
                      /\ ~PeerOpen(p, "control") =>
                           \/ proc[Other(p)].ended # "no"
                           \/ proc[Other(p)].closed
    BY Zenon DEF EndOfFileIsTrue
  <2> DEFINE q == Other(p)
  <2>0. q \in Peers /\ Other(q) = p /\ \A r \in Peers : r = p \/ r = q
    BY TwoPeers
  <2>1. proc[p].pc \in LoopLabels \cup {"waiting"}
    BY DEF Started, Alive, ShutdownInv, TypeInv, ProcessType, EndLabels
  <2>2. held[p] \subseteq Own(p)
    BY <2>1 DEF ShutdownInv, HeldInv
  <2>3. ASSUME NEW pair \in Pairs
        PROVE  PeerOpen(p, pair) <=> End(pair, q) \in held[q]
    BY <2>0, <2>2, OwnEnds DEF PeerOpen
  <2>4. proc[q].pc \in Labels /\ proc[q].pc \notin {"none", "initialize"}
    BY <2>0, <2>1, PeersAssumption
    DEF ShutdownInv, TypeInv, ProcessType, Labels, ForkInv, Peers, Other, LoopLabels
  <2>5. ASSUME NEW pair \in Pairs,
               proc[q].pc \in {"fork", "router", "wakeup", "prepare"}
        PROVE  End(pair, q) \in held[q]
    <3>1. End(pair, q) \in Own(q) /\ End(pair, q) \in Ends
      BY <2>0 DEF Own, Ends, End
    <3> QED
      BY <2>0, <2>5, <3>1 DEF ShutdownInv, HeldInv
  <2> HIDE DEF q
  <2>6. proc[q].pc = "exited" => held[q] = {}
    BY <2>0 DEF ShutdownInv, HeldInv
  <2>7. proc[q].pc \in LoopLabels \cup {"waiting"} => End("keepalive", q) \in held[q]
    BY <2>0 DEF ShutdownInv, HeldInv, Holds
  <2>8. proc[q].pc \in LoopLabels => (End("control", q) \in held[q] <=> ~proc[q].closed)
    BY <2>0 DEF ShutdownInv, HeldInv, Holds
  <2>9. proc[q].ended = "no" <=> proc[q].pc \notin EndLabels
    BY <2>0 DEF ShutdownInv, EndedInv
  <2>10. "keepalive" \in Pairs /\ "control" \in Pairs
    BY DEF Pairs
  <2> QED
    BY <2>3, <2>4, <2>5, <2>6, <2>7, <2>8, <2>9, <2>10
    DEF q, At, Labels, StartLabels, EndLabels
<1> QED
  BY <1>1, Invariance, PTL

\* NothingLost: whoever is told to stop, or finds its peer gone, has consumed what
\* was published before.
THEOREM ShutdownLosesNothing == Spec => []NothingLost
<1>1. ShutdownInv => NothingLost
  BY TwoPeers DEF ShutdownInv, HeardInv, NothingLost, Peers
<1> QED
  BY <1>1, Invariance, PTL

\* CleanUnlessLate: an exception needs a crash, a failed start or a timeout.
THEOREM OnlyTheLateThrow == Spec => []CleanUnlessLate
<1>1. ShutdownInv => CleanUnlessLate
  BY DEF ShutdownInv, CleanInv, Late, CleanUnlessLate
<1> QED
  BY <1>1, Invariance, PTL
=============================================================================
