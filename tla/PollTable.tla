----------------------------- MODULE PollTable -----------------------------
(***************************************************************************)
(* Poll (poll.h, poll_kqueue.cc): the table of events, their masks, the    *)
(* list of changes that the kernel has not seen yet, and the batch of      *)
(* events that process() walks while the handlers it calls open, close and *)
(* change events, the one being handled included.                          *)
(*                                                                         *)
(* A PollEvent lives as long as a shared_ptr to it does.  The kernel, the  *)
(* list of changes and the batch hold plain pointers (udata), and the      *)
(* memory of a PollEvent that was freed may become another one.            *)
(***************************************************************************)
EXTENDS Integers, Sequences, FiniteSets

CONSTANTS
  Events,       \* Event objects
  Fds,          \* file descriptors
  PollEvents,   \* the memory a PollEvent may be in
  MaxChanges,   \* m_max_events
  MaxBatch,     \* bound: how many events kevent() returns
  None

ASSUME NoneAssumption  == None \notin Events \cup Fds \cup PollEvents
ASSUME BoundAssumption == MaxChanges \in Nat \ {0} /\ MaxBatch \in Nat

Filters   == {"read", "write"}      \* EVFILT_READ, EVFILT_WRITE
Interests == Filters \cup {"error"} \* flag_read, flag_write, flag_error

VARIABLES
  fd,            \* Event::m_fileDesc
  pollEvent,     \* Event::m_poll_event
  mask,          \* PollEvent::mask
  event,         \* PollEvent::event
  table,         \* m_table
  changes,       \* m_changes
  closedEvents,  \* m_closed_events
  processing,    \* m_processing
  batch,         \* what is left of m_events in process()
  handling,      \* the event whose handler runs
  inProcess,     \* process() is running
  filters        \* the kernel's filters, each with its udata

pollEvents == <<mask, event>>
batchVars  == <<processing, batch, handling, inProcess>>
vars == <<fd, pollEvent, pollEvents, table, changes, closedEvents, batchVars,
          filters>>

-----------------------------------------------------------------------------
(* The kernel: a list of changes is applied in its order, so that the last *)
(* one for a descriptor and a filter decides.                              *)

Change(f, filter, op, udata) ==
  [fd |-> f, filter |-> filter, op |-> op, udata |-> udata]

IsAbout(c, f, filter) == c.fd = f /\ c.filter = filter

\* The last change for a descriptor and a filter, if there is any.
Deciding(list, f, filter) ==
  {i \in 1 .. Len(list) :
     /\ IsAbout(list[i], f, filter)
     /\ \A j \in (i + 1) .. Len(list) : ~IsAbout(list[j], f, filter)}

\* What a change leaves as the filter.
Effect(c) == IF c.op = "add" THEN c.udata ELSE None

Applied(list, known) ==
  [f \in Fds |-> [filter \in Filters |->
     LET own == Deciding(list, f, filter)
     IN  IF own = {} THEN known[f][filter]
                     ELSE Effect(list[CHOOSE i \in own : TRUE])]]

-----------------------------------------------------------------------------
Range(f) == {f[x] : x \in DOMAIN f}

\* A shared_ptr to it is somewhere.
Live(p) == p \in Range(pollEvent) \cup Range(table) \cup closedEvents

\* The Poll is used outside of process() and by handlers.
MayCall == ~inProcess \/ handling # None

Polled(e) == pollEvent[e] # None

Init ==
  /\ fd = [e \in Events |-> None]
  /\ pollEvent = [e \in Events |-> None]
  /\ mask = [p \in PollEvents |-> {}]
  /\ event = [p \in PollEvents |-> None]
  /\ table = [f \in Fds |-> None]
  /\ changes = <<>>
  /\ closedEvents = {}
  /\ processing = FALSE
  /\ batch = <<>>
  /\ handling = None
  /\ inProcess = FALSE
  /\ filters = [f \in Fds |-> [filter \in Filters |-> None]]

-----------------------------------------------------------------------------
(* The descriptor of an event: ControlFd and WakeupFd set it before they   *)
(* are opened in the Poll and close it after (poll.h:26).                  *)

SetFileDescriptor(e, f) ==
  /\ MayCall
  /\ fd[e] = None /\ f \notin Range(fd)
  /\ fd' = [fd EXCEPT ![e] = f]
  /\ UNCHANGED <<pollEvent, pollEvents, table, changes, closedEvents, batchVars,
                 filters>>

\* Closing a descriptor removes its filters from the kernel.
CloseFileDescriptor(e) ==
  /\ MayCall
  /\ fd[e] # None /\ ~Polled(e)
  /\ fd' = [fd EXCEPT ![e] = None]
  /\ filters' = [filters EXCEPT ![fd[e]] = [filter \in Filters |-> None]]
  /\ UNCHANGED <<pollEvent, pollEvents, table, changes, closedEvents, batchVars>>

-----------------------------------------------------------------------------
(* The operations of Poll.                                                 *)

Open(e) ==
  /\ MayCall
  /\ fd[e] # None /\ ~Polled(e)
  /\ \E p \in PollEvents :
       /\ ~Live(p)
       /\ mask' = [mask EXCEPT ![p] = {}]
       /\ event' = [event EXCEPT ![p] = e]
       /\ pollEvent' = [pollEvent EXCEPT ![e] = p]
       /\ table' = [table EXCEPT ![fd[e]] = p]
  /\ UNCHANGED <<fd, changes, closedEvents, batchVars, filters>>

\* Mutant: a full list is begun anew.
ModifyDroppingFull(change) ==
  /\ changes' = IF Len(changes) = MaxChanges THEN <<change>>
                                             ELSE Append(changes, change)
  /\ UNCHANGED filters

\* PollInternal::modify(): a full list is flushed to the kernel first.
Modify(change) ==
  IF Len(changes) = MaxChanges
    THEN changes' = <<change>> /\ filters' = Applied(changes, filters)
    ELSE changes' = Append(changes, change) /\ UNCHANGED filters

\* insert_read(), insert_write(), insert_error(): the kernel always watches
\* for errors.
Insert(e, interest) ==
  LET p == pollEvent[e]
  IN  /\ MayCall
      /\ Polled(e) /\ interest \notin mask[p]
      /\ mask' = [mask EXCEPT ![p] = @ \cup {interest}]
      /\ IF interest \in Filters
           THEN Modify(Change(fd[e], interest, "add", p))
           ELSE UNCHANGED <<changes, filters>>
      /\ UNCHANGED <<fd, pollEvent, event, table, closedEvents, batchVars>>

\* Mutant: the mask is not looked at.
RemoveBlindly(e, interest) ==
  LET p == pollEvent[e]
  IN  /\ MayCall
      /\ Polled(e)
      /\ mask' = [mask EXCEPT ![p] = @ \ {interest}]
      /\ IF interest \in Filters
           THEN Modify(Change(fd[e], interest, "delete", p))
           ELSE UNCHANGED <<changes, filters>>
      /\ UNCHANGED <<fd, pollEvent, event, table, closedEvents, batchVars>>

Remove(e, interest) ==
  LET p == pollEvent[e]
  IN  /\ MayCall
      /\ Polled(e) /\ interest \in mask[p]
      /\ mask' = [mask EXCEPT ![p] = @ \ {interest}]
      /\ IF interest \in Filters
           THEN Modify(Change(fd[e], interest, "delete", p))
           ELSE UNCHANGED <<changes, filters>>
      /\ UNCHANGED <<fd, pollEvent, event, table, closedEvents, batchVars>>

\* Mutant: the PollEvent is freed at once.
ForgetAtOnce(e) ==
  LET p == pollEvent[e]
  IN  /\ table' = [table EXCEPT ![fd[e]] = None]
      /\ event' = [event EXCEPT ![p] = None]
      /\ pollEvent' = [pollEvent EXCEPT ![e] = None]
      /\ UNCHANGED closedEvents

\* The end of close(): while a batch is processed the PollEvent is kept.
Forget(e) ==
  LET p == pollEvent[e]
  IN  /\ table' = [table EXCEPT ![fd[e]] = None]
      /\ event' = [event EXCEPT ![p] = None]
      /\ pollEvent' = [pollEvent EXCEPT ![e] = None]
      /\ closedEvents' = IF processing THEN closedEvents \cup {p}
                                       ELSE closedEvents

\* Mutant: an event that is still active may be closed.
CloseActive(e) ==
  /\ MayCall
  /\ Polled(e)
  /\ Forget(e)
  /\ filters' = Applied(changes, filters) /\ changes' = <<>>
  /\ UNCHANGED <<fd, mask, batchVars>>

\* close() of an event whose mask is empty; it throws for any other.
Close(e) ==
  /\ MayCall
  /\ Polled(e) /\ mask[pollEvent[e]] = {}
  /\ Forget(e)
  /\ filters' = Applied(changes, filters) /\ changes' = <<>>
  /\ UNCHANGED <<fd, mask, batchVars>>

\* remove_and_close(): whatever flushes modify() makes on the way, close() ends
\* with one.
RemoveAndClose(e) ==
  LET p == pollEvent[e]
      deleted(filter) ==
        IF filter \in mask[p] THEN <<Change(fd[e], filter, "delete", p)>>
                              ELSE <<>>
  IN  /\ MayCall
      /\ Polled(e)
      /\ Forget(e)
      /\ filters' =
           Applied(changes \o deleted("read") \o deleted("write"), filters)
      /\ changes' = <<>>
      /\ mask' = [mask EXCEPT ![p] = {}]
      /\ UNCHANGED <<fd, batchVars>>

-----------------------------------------------------------------------------
(* do_poll().                                                              *)

\* kevent() applies the changes and returns some of the filters, in any order;
\* none when it times out.  process() begins.
DoPoll ==
  /\ ~inProcess
  /\ filters' = Applied(changes, filters)
  /\ changes' = <<>>
  /\ LET active == {[filter |-> filter, udata |-> filters'[f][filter]] :
                      f \in Fds, filter \in Filters}
         ready == {a \in active : a.udata # None}
     IN  \E n \in 0 .. MaxBatch : \E returned \in [1 .. n -> ready] :
           /\ \A i, j \in 1 .. n : i # j => returned[i] # returned[j]
           /\ batch' = returned
  /\ processing' = TRUE
  /\ closedEvents' = {}
  /\ inProcess' = TRUE
  /\ UNCHANGED <<fd, pollEvent, pollEvents, table, handling>>

\* kevent() is interrupted: it has taken the changes all the same, and
\* process() is not called.
DoPollInterrupted ==
  /\ ~inProcess
  /\ filters' = Applied(changes, filters)
  /\ changes' = <<>>
  /\ UNCHANGED <<fd, pollEvent, pollEvents, table, closedEvents, batchVars>>

\* The next of the batch: its handler is called if the mask still asks for it.
ProcessNext ==
  LET next == Head(batch)
  IN  /\ inProcess /\ handling = None
      /\ batch # <<>>
      /\ batch' = Tail(batch)
      /\ handling' = IF next.filter \in mask[next.udata]
                       THEN event[next.udata]
                       ELSE None
      /\ UNCHANGED <<fd, pollEvent, pollEvents, table, changes, closedEvents,
                     processing, inProcess, filters>>

HandlerReturns ==
  /\ handling # None
  /\ handling' = None
  /\ UNCHANGED <<fd, pollEvent, pollEvents, table, changes, closedEvents,
                 processing, batch, inProcess, filters>>

\* An exception leaves process() where it is: m_processing stays set and the
\* rest of the batch is dropped.
HandlerThrows ==
  /\ handling # None
  /\ handling' = None
  /\ batch' = <<>>
  /\ inProcess' = FALSE
  /\ UNCHANGED <<fd, pollEvent, pollEvents, table, changes, closedEvents,
                 processing, filters>>

ProcessEnd ==
  /\ inProcess /\ handling = None
  /\ batch = <<>>
  /\ closedEvents' = {}
  /\ processing' = FALSE
  /\ inProcess' = FALSE
  /\ UNCHANGED <<fd, pollEvent, pollEvents, table, changes, batch, handling,
                 filters>>

-----------------------------------------------------------------------------
Next ==
  \/ \E e \in Events :
       \/ \E f \in Fds : SetFileDescriptor(e, f)
       \/ CloseFileDescriptor(e)
       \/ Open(e)
       \/ \E interest \in Interests : Insert(e, interest) \/ Remove(e, interest)
       \/ Close(e)
       \/ RemoveAndClose(e)
  \/ DoPoll
  \/ DoPollInterrupted
  \/ ProcessNext
  \/ HandlerReturns
  \/ HandlerThrows
  \/ ProcessEnd

Spec == Init /\ [][Next]_vars

-----------------------------------------------------------------------------
(* Properties.                                                             *)

Pointers == PollEvents \cup {None}

\* Every variable holds a value of its type, and the list of changes fits in
\* its memory.
TypeOK ==
  /\ fd \in [Events -> Fds \cup {None}]
  /\ pollEvent \in [Events -> Pointers]
  /\ mask \in [PollEvents -> SUBSET Interests]
  /\ event \in [PollEvents -> Events \cup {None}]
  /\ table \in [Fds -> Pointers]
  /\ changes \in Seq([fd : Fds, filter : Filters, op : {"add", "delete"},
                      udata : PollEvents])
  /\ Len(changes) <= MaxChanges
  /\ closedEvents \subseteq PollEvents
  /\ processing \in BOOLEAN /\ inProcess \in BOOLEAN
  /\ batch \in Seq([filter : Filters, udata : PollEvents])
  /\ handling \in Events \cup {None}
  /\ filters \in [Fds -> [Filters -> Pointers]]

\* The table, the events and the PollEvents agree with each other, so that the
\* look-ups in event_mask(), open() and close() never throw.
TableMatches ==
  /\ \A e \in Events : Polled(e) =>
       /\ fd[e] # None
       /\ table[fd[e]] = pollEvent[e]
       /\ event[pollEvent[e]] = e
  /\ \A f \in Fds : table[f] # None =>
       \E e \in Events : fd[e] = f /\ pollEvent[e] = table[f]

\* Once the pending changes are applied the kernel watches exactly what the
\* masks say, and it will return the PollEvent that is in the table.
KernelAgrees ==
  \A f \in Fds, filter \in Filters :
    Applied(changes, filters)[f][filter] =
      IF table[f] # None /\ filter \in mask[table[f]] THEN table[f] ELSE None

\* The kernel refuses no change (which process() and flush() would throw at):
\* a filter is deleted only when it is there, and descriptors are open.
ChangesSucceed ==
  \A i \in 1 .. Len(changes) :
    LET c == changes[i]
    IN  /\ c.fd \in Range(fd)
        /\ c.op = "delete" =>
             Applied(SubSeq(changes, 1, i - 1), filters)[c.fd][c.filter] # None

\* No pointer that process() or the kernel will use leads to freed memory.
UdataLive ==
  /\ \A i \in 1 .. Len(batch) : Live(batch[i].udata)
  /\ \A i \in 1 .. Len(changes) : Live(changes[i].udata)
  /\ \A f \in Fds, filter \in Filters :
       filters[f][filter] # None => Live(filters[f][filter])

\* A handler that process() is still going to call is that of an event which is
\* open in the poll, whatever the handlers before it have closed and opened.
CallsOpenEvents ==
  \A i \in 1 .. Len(batch) :
    LET p == batch[i].udata
    IN  batch[i].filter \in mask[p] =>
          event[p] # None /\ pollEvent[event[p]] = p

-----------------------------------------------------------------------------
(* The inductive invariant.                                                *)

\* Two events have no descriptor in common.
FdsInv ==
  \A e1, e2 \in Events : fd[e1] # None /\ fd[e1] = fd[e2] => e1 = e2

\* There is a batch only while process() runs, which keeps what is closed.
PhaseInv ==
  /\ inProcess => processing
  /\ batch # <<>> \/ handling # None => inProcess

\* Only an open event has a mask.
MaskInv ==
  \A p \in PollEvents :
    mask[p] # {} => event[p] # None /\ pollEvent[event[p]] = p

\* What is pending or known to the kernel is about events in the table.
PendingInv ==
  /\ \A i \in 1 .. Len(changes) : table[changes[i].fd] = changes[i].udata
  /\ \A f \in Fds, filter \in Filters : filters[f][filter] \in {None, table[f]}

\* All of it: the poll's pointers, masks and filters are consistent.
PollInv ==
  /\ TypeOK /\ TableMatches /\ KernelAgrees /\ ChangesSucceed /\ UdataLive
  /\ FdsInv /\ PhaseInv /\ MaskInv /\ PendingInv
=============================================================================
