----------------------------- MODULE PollProofs -----------------------------
(***************************************************************************)
(* Theorems about module PollTable, for any events, descriptors and sizes  *)
(* of the list and of the batch: the kernel watches what the masks say, it *)
(* refuses no change, and no pointer to freed memory is used.              *)
(***************************************************************************)
EXTENDS PollTable, TLAPS

ChangeType == [fd : Fds, filter : Filters, op : {"add", "delete"},
               udata : PollEvents]

BatchType == [filter : Filters, udata : PollEvents]

KnownType == [Fds -> [Filters -> Pointers]]

\* The fields of what is pending and of what is left of the batch.
LEMMA Elements ==
  ASSUME TypeOK
  PROVE  /\ \A i \in 1 .. Len(changes) :
              /\ changes[i] \in ChangeType
              /\ changes[i].fd \in Fds /\ changes[i].udata \in PollEvents
              /\ changes[i].udata # None
         /\ \A i \in 1 .. Len(batch) :
              /\ batch[i] \in BatchType
              /\ batch[i].udata \in PollEvents /\ batch[i].udata # None
<1>1. changes \in Seq(ChangeType) /\ batch \in Seq(BatchType)
  BY DEF TypeOK, ChangeType, BatchType
<1>2. /\ \A i \in 1 .. Len(changes) : changes[i] \in ChangeType
      /\ \A i \in 1 .. Len(batch) : batch[i] \in BatchType
  BY <1>1
<1> QED
  BY <1>2, NoneAssumption DEF ChangeType, BatchType

\* An empty list of changes leaves the kernel's filters as they are.
LEMMA NothingApplied ==
  ASSUME NEW known \in KnownType
  PROVE  Applied(<<>>, known) = known
BY DEF Applied, Deciding, KnownType

\* The last change of a list decides for its descriptor and its filter.
LEMMA LastApplied ==
  ASSUME NEW list \in Seq(ChangeType), NEW c \in ChangeType,
         NEW known \in KnownType,
         NEW f \in Fds, NEW filter \in Filters
  PROVE  Applied(Append(list, c), known)[f][filter] =
           IF IsAbout(c, f, filter)
             THEN Effect(c) ELSE Applied(list, known)[f][filter]
<1> DEFINE longer == Append(list, c)
           n      == Len(list) + 1
<1>1. /\ longer \in Seq(ChangeType) /\ Len(longer) = n /\ longer[n] = c
      /\ n \in Nat /\ \A i \in 1 .. Len(list) : longer[i] = list[i]
  OBVIOUS
<1> HIDE DEF longer
<1>2. CASE IsAbout(c, f, filter)
  <2>1. Deciding(longer, f, filter) = {n}
    BY <1>1, <1>2 DEF Deciding
  <2>2. (CHOOSE i \in {n} : TRUE) = n
    OBVIOUS
  <2>3. Applied(longer, known)[f][filter] = Effect(longer[n])
    BY <2>1, <2>2 DEF Applied
  <2> QED
    BY <1>1, <1>2, <2>3 DEF longer
<1>3. CASE ~IsAbout(c, f, filter)
  <2> DEFINE own == Deciding(list, f, filter)
  <2>1. Deciding(longer, f, filter) = own
    BY <1>1, <1>3 DEF Deciding
  <2>2. own \subseteq 1 .. Len(list)
    BY DEF Deciding
  <2>3. own # {} => longer[CHOOSE i \in own : TRUE] = list[CHOOSE i \in own : TRUE]
    <3> HIDE DEF own
    <3>1. own # {} => (CHOOSE i \in own : TRUE) \in own
      OBVIOUS
    <3> QED
      BY <2>2, <3>1, <1>1
  <2>4. Applied(longer, known)[f][filter] = Applied(list, known)[f][filter]
    BY <2>1, <2>3 DEF Applied
  <2> QED
    BY <1>3, <2>4 DEF longer
<1> QED
  BY <1>2, <1>3

\* Applying changes gives filters.
LEMMA AppliedType ==
  ASSUME NEW list \in Seq(ChangeType), NEW known \in KnownType
  PROVE  Applied(list, known) \in KnownType
<1>1. ASSUME NEW f \in Fds, NEW filter \in Filters
      PROVE  Applied(list, known)[f][filter] \in Pointers
  <2> DEFINE own == Deciding(list, f, filter)
  <2>1. own \subseteq 1 .. Len(list)
    BY DEF Deciding
  <2>2. own # {} => Effect(list[CHOOSE i \in own : TRUE]) \in Pointers
    <3> HIDE DEF own
    <3>1. own # {} => (CHOOSE i \in own : TRUE) \in own
      OBVIOUS
    <3>2. \A i \in 1 .. Len(list) : list[i] \in ChangeType
      OBVIOUS
    <3>3. \A c \in ChangeType : Effect(c) \in Pointers
      BY DEF Effect, ChangeType, Pointers
    <3> QED
      BY <2>1, <3>1, <3>2, <3>3
  <2>3. known[f][filter] \in Pointers
    BY DEF KnownType
  <2> QED
    BY <2>2, <2>3 DEF Applied
<1>2. Applied(list, known) =
        [f \in Fds |-> [filter \in Filters |-> Applied(list, known)[f][filter]]]
  BY DEF Applied
<1> QED
  BY <1>1, <1>2 DEF KnownType

\* The part of the invariant that is not about the batch and follows from the
\* rest: what is pending or known leads to PollEvents in the table.
LEMMA PendingLive ==
  ASSUME TypeOK, PendingInv
  PROVE  /\ \A i \in 1 .. Len(changes) : Live(changes[i].udata)
         /\ \A f \in Fds, filter \in Filters :
              filters[f][filter] # None => Live(filters[f][filter])
<1>1. ASSUME NEW f \in Fds PROVE table[f] \in Range(table)
  BY DEF TypeOK, Range
<1> QED
  BY <1>1, Elements DEF PendingInv, Live

BatchLive == \A i \in 1 .. Len(batch) : Live(batch[i].udata)

\* So that the invariant is this much.
CoreInv ==
  /\ TypeOK /\ TableMatches /\ KernelAgrees /\ ChangesSucceed /\ BatchLive
  /\ FdsInv /\ PhaseInv /\ MaskInv /\ PendingInv

LEMMA CoreIsPollInv == CoreInv => PollInv
BY PendingLive DEF CoreInv, PollInv, UdataLive, BatchLive

-----------------------------------------------------------------------------
(* Modify(): one more change.                                              *)

\* Whether the list was flushed or not, what the kernel will know in the end
\* is what it would have known before, but for the change.
LEMMA ModifyApplies ==
  ASSUME TypeOK, NEW c \in ChangeType, Modify(c)
  PROVE  /\ changes' \in Seq(ChangeType) /\ Len(changes') <= MaxChanges
         /\ filters' \in KnownType
         /\ \A f \in Fds, filter \in Filters :
              Applied(changes', filters')[f][filter] =
                IF IsAbout(c, f, filter)
                  THEN Effect(c) ELSE Applied(changes, filters)[f][filter]
<1>1. changes \in Seq(ChangeType) /\ filters \in KnownType
  BY DEF TypeOK, ChangeType, KnownType
<1>2. CASE Len(changes) = MaxChanges
  <2>1. changes' = Append(<<>>, c) /\ filters' = Applied(changes, filters)
    BY <1>2 DEF Modify
  <2>2. filters' \in KnownType /\ <<>> \in Seq(ChangeType)
    BY <1>1, <2>1, AppliedType
  <2>3. \A f \in Fds, filter \in Filters :
          Applied(changes', filters')[f][filter] =
            IF IsAbout(c, f, filter)
              THEN Effect(c) ELSE Applied(<<>>, filters')[f][filter]
    <3> TAKE f \in Fds, filter \in Filters
    <3>1. Applied(Append(<<>>, c), filters')[f][filter] =
            IF IsAbout(c, f, filter)
              THEN Effect(c) ELSE Applied(<<>>, filters')[f][filter]
      BY <2>2, LastApplied
    <3> QED
      BY <2>1, <3>1
  <2>4. Applied(<<>>, filters') = Applied(changes, filters)
    BY <2>1, <2>2, NothingApplied
  <2>5. changes' \in Seq(ChangeType) /\ Len(changes') = 1
    BY <2>1
  <2> QED
    BY <2>2, <2>3, <2>4, <2>5, BoundAssumption
<1>3. CASE Len(changes) # MaxChanges
  <2>1. changes' = Append(changes, c) /\ filters' = filters
    BY <1>3 DEF Modify
  <2>2. Len(changes') <= MaxChanges /\ changes' \in Seq(ChangeType)
    BY <1>1, <1>3, <2>1, BoundAssumption DEF TypeOK
  <2> QED
    BY <1>1, <2>1, <2>2, LastApplied
<1> QED
  BY <1>2, <1>3

\* The kernel will take the list with the change, if it would take the change
\* after the list.
LEMMA ModifySucceeds ==
  ASSUME TypeOK, ChangesSucceed, NEW c \in ChangeType, Modify(c), fd' = fd,
         c.fd \in Range(fd),
         c.op = "delete" => Applied(changes, filters)[c.fd][c.filter] # None
  PROVE  ChangesSucceed'
<1>1. changes \in Seq(ChangeType) /\ filters \in KnownType
  BY DEF TypeOK, ChangeType, KnownType
<1>2. CASE Len(changes) = MaxChanges
  <2>1. changes' = <<c>> /\ filters' = Applied(changes, filters)
    BY <1>2 DEF Modify
  <2>2. filters' \in KnownType
    BY <1>1, <2>1, AppliedType
  <2>3. SubSeq(changes', 1, 1 - 1) = <<>>
    BY <2>1
  <2>4. Applied(SubSeq(changes', 1, 1 - 1), filters') = Applied(changes, filters)
    BY <2>1, <2>2, <2>3, NothingApplied
  <2>5. Len(changes') = 1 /\ changes'[1] = c
    BY <2>1
  <2>6. ASSUME NEW i \in 1 .. Len(changes') PROVE i = 1
    BY <2>5
  <2> QED
    BY <2>4, <2>5, <2>6 DEF ChangesSucceed
<1>3. CASE Len(changes) # MaxChanges
  <2>1. changes' = Append(changes, c) /\ filters' = filters
    BY <1>3 DEF Modify
  <2>2. ASSUME NEW i \in 1 .. Len(changes')
        PROVE  /\ changes'[i].fd \in Range(fd)
               /\ changes'[i].op = "delete" =>
                    Applied(SubSeq(changes', 1, i - 1), filters)
                      [changes'[i].fd][changes'[i].filter] # None
    <3>1. CASE i <= Len(changes)
      <4>1. i \in 1 .. Len(changes) /\ changes'[i] = changes[i]
        BY <1>1, <2>1, <3>1
      <4>2. SubSeq(changes', 1, i - 1) = SubSeq(changes, 1, i - 1)
        BY <1>1, <2>1, <4>1
      <4> QED
        BY <4>1, <4>2 DEF ChangesSucceed
    <3>2. CASE i > Len(changes)
      <4>1. i = Len(changes) + 1 /\ changes'[i] = c
        BY <1>1, <2>1, <3>2
      <4>2. SubSeq(changes', 1, i - 1) = changes
        BY <1>1, <2>1, <4>1
      <4> QED
        BY <4>1, <4>2
    <3> QED
      BY <1>1, <3>1, <3>2
  <2> QED
    BY <2>1, <2>2 DEF ChangesSucceed
<1> QED
  BY <1>2, <1>3

-----------------------------------------------------------------------------
(* Each action keeps the invariant.                                        *)

\* The descriptors of the events that are in the table are theirs alone.
LEMMA NotInTable ==
  ASSUME PollInv, NEW e \in Events, fd[e] # None, ~Polled(e)
  PROVE  /\ fd[e] \in Fds /\ table[fd[e]] = None
         /\ \A filter \in Filters : filters[fd[e]][filter] = None
         /\ \A i \in 1 .. Len(changes) : changes[i].fd # fd[e]
<1>1. fd[e] \in Fds
  BY DEF PollInv, TypeOK
<1>2. table[fd[e]] = None
  BY <1>1 DEF PollInv, TableMatches, FdsInv, Polled
<1> QED
  BY <1>1, <1>2, Elements DEF PollInv, PendingInv

\* An event that is open in the poll.
LEMMA InTable ==
  ASSUME PollInv, NEW e \in Events, Polled(e)
  PROVE  /\ pollEvent[e] \in PollEvents /\ fd[e] \in Fds
         /\ table[fd[e]] = pollEvent[e] /\ event[pollEvent[e]] = e
         /\ \A f \in Fds : table[f] = pollEvent[e] => f = fd[e]
         /\ \A e2 \in Events : pollEvent[e2] = pollEvent[e] => e2 = e
         /\ fd[e] \in Range(fd)
<1>1. pollEvent[e] \in PollEvents /\ fd[e] \in Fds
  BY DEF PollInv, TypeOK, TableMatches, Polled, Pointers
<1>2. table[fd[e]] = pollEvent[e] /\ event[pollEvent[e]] = e
  BY DEF PollInv, TableMatches
<1>3. \A e2 \in Events : pollEvent[e2] = pollEvent[e] => e2 = e
  BY <1>1, <1>2 DEF PollInv, TableMatches, Polled
<1>4. \A f \in Fds : table[f] = pollEvent[e] => f = fd[e]
  BY <1>3 DEF PollInv, TableMatches, Polled
<1>5. fd[e] \in Range(fd)
  BY DEF PollInv, TypeOK, Range
<1> QED
  BY <1>1, <1>2, <1>3, <1>4, <1>5

LEMMA SetFileDescriptorKeeps ==
  ASSUME PollInv, NEW e \in Events, NEW f \in Fds, SetFileDescriptor(e, f)
  PROVE  CoreInv'
<1> USE DEF PollInv, SetFileDescriptor, batchVars, pollEvents
<1>1. f # None
  BY NoneAssumption
<1>2. TypeOK'
  BY DEF TypeOK
<1>3. ~Polled(e) /\ \A e2 \in Events : e2 # e => fd'[e2] = fd[e2]
  BY DEF TableMatches, TypeOK
<1>4. TableMatches'
  <2>1. \A e2 \in Events : Polled(e2)' <=> Polled(e2)
    BY DEF Polled
  <2> QED
    BY <1>3, <2>1 DEF TableMatches, Polled
<1>5. KernelAgrees'
  BY DEF KernelAgrees
<1>6. ChangesSucceed'
  <2>1. ASSUME NEW i \in 1 .. Len(changes) PROVE changes[i].fd \in Range(fd')
    <3>1. table[changes[i].fd] # None /\ changes[i].fd \in Fds
      BY Elements DEF PendingInv
    <3>2. PICK e2 \in Events : fd[e2] = changes[i].fd /\ Polled(e2)
      BY <3>1 DEF TableMatches, Polled
    <3> QED
      BY <1>2, <1>3, <3>2 DEF Range, TypeOK
  <2> QED
    BY <2>1 DEF ChangesSucceed
<1>7. BatchLive' /\ PhaseInv' /\ MaskInv' /\ PendingInv'
  BY DEF UdataLive, BatchLive, Live, PhaseInv, MaskInv, PendingInv
<1>8. FdsInv'
  BY <1>3 DEF FdsInv, TypeOK, Range
<1> QED
  BY <1>2, <1>4, <1>5, <1>6, <1>7, <1>8 DEF CoreInv

LEMMA CloseFileDescriptorKeeps ==
  ASSUME PollInv, NEW e \in Events, CloseFileDescriptor(e)
  PROVE  CoreInv'
<1> USE DEF PollInv, CloseFileDescriptor, batchVars, pollEvents
<1>1. /\ fd[e] \in Fds /\ table[fd[e]] = None
      /\ \A filter \in Filters : filters[fd[e]][filter] = None
      /\ \A i \in 1 .. Len(changes) : changes[i].fd # fd[e]
  BY NotInTable
<1>2. filters' = filters
  BY <1>1 DEF TypeOK
<1>3. TypeOK'
  BY <1>2 DEF TypeOK
<1>4. \A e2 \in Events : e2 # e => fd'[e2] = fd[e2]
  BY DEF TypeOK
<1>5. TableMatches'
  <2>1. \A e2 \in Events : Polled(e2)' <=> Polled(e2)
    BY DEF Polled
  <2> QED
    BY <1>1, <1>4, <2>1 DEF TableMatches, Polled
<1>6. KernelAgrees'
  BY <1>2 DEF KernelAgrees
<1>7. ChangesSucceed'
  <2>1. ASSUME NEW i \in 1 .. Len(changes) PROVE changes[i].fd \in Range(fd')
    <3>1. PICK e2 \in Events : fd[e2] = changes[i].fd
      BY DEF ChangesSucceed, Range, TypeOK
    <3>2. e2 # e
      BY <1>1, <3>1
    <3> QED
      BY <1>3, <1>4, <3>1, <3>2 DEF Range, TypeOK
  <2> QED
    BY <1>2, <2>1 DEF ChangesSucceed
<1>8. BatchLive' /\ PhaseInv' /\ MaskInv' /\ PendingInv'
  BY <1>2 DEF UdataLive, BatchLive, Live, PhaseInv, MaskInv, PendingInv
<1>9. FdsInv'
  BY <1>4, NoneAssumption DEF FdsInv, TypeOK
<1> QED
  BY <1>3, <1>5, <1>6, <1>7, <1>8, <1>9 DEF CoreInv

LEMMA OpenKeeps ==
  ASSUME PollInv, NEW e \in Events, Open(e)
  PROVE  CoreInv'
<1> USE DEF PollInv, batchVars
<1>1. PICK p \in PollEvents :
        /\ ~Live(p)
        /\ mask' = [mask EXCEPT ![p] = {}]
        /\ event' = [event EXCEPT ![p] = e]
        /\ pollEvent' = [pollEvent EXCEPT ![e] = p]
        /\ table' = [table EXCEPT ![fd[e]] = p]
  BY DEF Open
<1>2. /\ fd[e] # None /\ ~Polled(e)
      /\ UNCHANGED <<fd, changes, closedEvents, processing, batch, handling,
                     inProcess, filters>>
  BY DEF Open
<1>3. /\ fd[e] \in Fds /\ table[fd[e]] = None
      /\ \A filter \in Filters : filters[fd[e]][filter] = None
      /\ \A i \in 1 .. Len(changes) : changes[i].fd # fd[e]
  BY <1>2, NotInTable
<1>4. p # None
  BY <1>1, NoneAssumption
<1>5. TypeOK'
  BY <1>1, <1>2, <1>3 DEF TypeOK, Pointers
<1>6. /\ table'[fd[e]] = p /\ pollEvent'[e] = p /\ event'[p] = e /\ mask'[p] = {}
      /\ \A f \in Fds : f # fd[e] => table'[f] = table[f]
      /\ \A e2 \in Events : e2 # e => pollEvent'[e2] = pollEvent[e2]
      /\ \A q \in PollEvents : q # p => mask'[q] = mask[q] /\ event'[q] = event[q]
  BY <1>1, <1>3 DEF TypeOK
<1>7. /\ \A f \in Fds : table[f] # p
      /\ \A e2 \in Events : pollEvent[e2] # p
  BY <1>1 DEF Live, Range, TypeOK
<1>8. TableMatches'
  <2>1. ASSUME NEW e2 \in Events, Polled(e2)'
        PROVE  /\ fd'[e2] # None /\ table'[fd'[e2]] = pollEvent'[e2]
               /\ event'[pollEvent'[e2]] = e2
    <3>1. CASE e2 = e
      BY <1>2, <1>6, <3>1
    <3>2. CASE e2 # e
      <4>1. Polled(e2)
        BY <1>6, <2>1, <3>2 DEF Polled
      <4>2. /\ fd[e2] # None /\ table[fd[e2]] = pollEvent[e2]
            /\ event[pollEvent[e2]] = e2
            /\ fd[e2] \in Fds /\ pollEvent[e2] \in PollEvents
        BY <4>1 DEF TableMatches, TypeOK, Polled, Pointers
      <4>3. fd[e2] # fd[e]
        BY <1>3, <4>1, <4>2 DEF Polled
      <4> QED
        BY <1>2, <1>6, <1>7, <3>2, <4>2, <4>3
    <3> QED
      BY <3>1, <3>2
  <2>2. ASSUME NEW f \in Fds, table'[f] # None
        PROVE  \E e2 \in Events : fd'[e2] = f /\ pollEvent'[e2] = table'[f]
    <3>1. CASE f = fd[e]
      BY <1>2, <1>6, <3>1
    <3>2. CASE f # fd[e]
      <4>1. PICK e2 \in Events : fd[e2] = f /\ pollEvent[e2] = table[f]
        BY <1>6, <2>2, <3>2 DEF TableMatches
      <4> QED
        BY <1>2, <1>6, <3>2, <4>1
    <3> QED
      BY <3>1, <3>2
  <2> QED
    BY <2>1, <2>2 DEF TableMatches
<1>9. KernelAgrees'
  <2>1. ASSUME NEW f \in Fds, NEW filter \in Filters
        PROVE  Applied(changes, filters)[f][filter] =
                 IF table'[f] # None /\ filter \in mask'[table'[f]]
                   THEN table'[f] ELSE None
    <3>1. CASE f = fd[e]
      BY <1>3, <1>6, <3>1 DEF KernelAgrees
    <3>2. CASE f # fd[e]
      <4>1. table[f] # None => table[f] \in PollEvents
        BY DEF TypeOK, Pointers
      <4> QED
        BY <1>6, <1>7, <3>2, <4>1 DEF KernelAgrees
    <3> QED
      BY <3>1, <3>2
  <2> QED
    BY <1>2, <2>1 DEF KernelAgrees
<1>10. ChangesSucceed'
  BY <1>2 DEF ChangesSucceed
<1>11. BatchLive'
  <2>1. ASSUME NEW q, Live(q), q # None PROVE Live(q)'
    <3>1. q \in Range(pollEvent) => q \in Range(pollEvent')
      BY <1>2, <1>5, <1>6, <2>1 DEF Range, TypeOK, Polled
    <3>2. q \in Range(table) => q \in Range(table')
      BY <1>3, <1>5, <1>6, <2>1 DEF Range, TypeOK
    <3> QED
      BY <1>2, <2>1, <3>1, <3>2 DEF Live
  <2> QED
    BY <1>2, <2>1, Elements DEF BatchLive, UdataLive
<1>12. FdsInv' /\ PhaseInv'
  BY <1>2 DEF FdsInv, PhaseInv
<1>13. MaskInv'
  <2>1. ASSUME NEW q \in PollEvents, mask'[q] # {}
        PROVE  event'[q] # None /\ pollEvent'[event'[q]] = q
    <3>1. q # p
      BY <1>6, <2>1
    <3>2. event[q] # None /\ pollEvent[event[q]] = q /\ event[q] \in Events
      BY <1>6, <2>1, <3>1 DEF MaskInv, TypeOK
    <3>3. event[q] # e
      BY <1>2, <3>2, NoneAssumption DEF Polled
    <3> QED
      BY <1>6, <3>1, <3>2, <3>3
  <2> QED
    BY <2>1 DEF MaskInv
<1>14. PendingInv'
  BY <1>2, <1>3, <1>6, Elements DEF PendingInv
<1> QED
  BY <1>5, <1>8, <1>9, <1>10, <1>11, <1>12, <1>13, <1>14 DEF CoreInv

\* The change is about the table as what was pending is.
LEMMA ModifyPending ==
  ASSUME PollInv, NEW c \in ChangeType, Modify(c), table' = table,
         table[c.fd] = c.udata
  PROVE  PendingInv'
<1> USE DEF PollInv
<1>1. CASE Len(changes) = MaxChanges
  <2>1. changes' = <<c>> /\ filters' = Applied(changes, filters)
    BY <1>1 DEF Modify
  <2>2. \A f \in Fds, filter \in Filters : filters'[f][filter] \in {None, table[f]}
    BY <2>1 DEF KernelAgrees
  <2>3. \A i \in 1 .. Len(changes') : changes'[i] = c
    BY <2>1
  <2> QED
    BY <2>2, <2>3 DEF PendingInv
<1>2. CASE Len(changes) # MaxChanges
  <2>1. changes' = Append(changes, c) /\ filters' = filters
    BY <1>2 DEF Modify
  <2>2. changes \in Seq(ChangeType)
    BY DEF TypeOK, ChangeType
  <2>3. ASSUME NEW i \in 1 .. Len(changes')
        PROVE  changes'[i] = c \/ (i \in 1 .. Len(changes) /\ changes'[i] = changes[i])
    BY <2>1, <2>2
  <2> QED
    BY <2>1, <2>3 DEF PendingInv
<1> QED
  BY <1>1, <1>2

\* An event that is open gets another mask, and the kernel is told.
LEMMA MaskKeeps ==
  ASSUME PollInv, NEW e \in Events, Polled(e), NEW m \in SUBSET Interests,
         mask' = [mask EXCEPT ![pollEvent[e]] = m],
         UNCHANGED <<fd, pollEvent, event, table, closedEvents, batchVars>>,
         changes' \in Seq(ChangeType), Len(changes') <= MaxChanges,
         filters' \in KnownType,
         \A f \in Fds, filter \in Filters :
           Applied(changes', filters')[f][filter] =
             IF f = fd[e] THEN IF filter \in m THEN pollEvent[e] ELSE None
                          ELSE Applied(changes, filters)[f][filter],
         ChangesSucceed', PendingInv'
  PROVE  CoreInv'
<1> USE DEF PollInv, batchVars
<1> DEFINE p == pollEvent[e]
<1>1. /\ p \in PollEvents /\ fd[e] \in Fds
      /\ table[fd[e]] = p /\ event[p] = e
      /\ \A f \in Fds : table[f] = p => f = fd[e]
  BY InTable
<1>2. mask'[p] = m /\ \A q \in PollEvents : q # p => mask'[q] = mask[q]
  BY <1>1 DEF TypeOK
<1>3. TypeOK'
  BY <1>1 DEF TypeOK, ChangeType, KnownType
<1>4. TableMatches'
  BY DEF TableMatches, Polled
<1>5. KernelAgrees'
  <2>1. ASSUME NEW f \in Fds, NEW filter \in Filters
        PROVE  Applied(changes', filters')[f][filter] =
                 IF table[f] # None /\ filter \in mask'[table[f]]
                   THEN table[f] ELSE None
    <3>1. CASE f = fd[e]
      BY <1>1, <1>2, <3>1, NoneAssumption
    <3>2. CASE f # fd[e]
      <4>1. table[f] # p /\ (table[f] # None => table[f] \in PollEvents)
        BY <1>1, <3>2 DEF TypeOK, Pointers
      <4> QED
        BY <1>2, <3>2, <4>1 DEF KernelAgrees
    <3> QED
      BY <3>1, <3>2
  <2> QED
    BY <2>1 DEF KernelAgrees
<1>6. BatchLive' /\ FdsInv' /\ PhaseInv'
  BY DEF UdataLive, BatchLive, Live, FdsInv, PhaseInv
<1>7. MaskInv'
  BY <1>1, <1>2, NoneAssumption DEF MaskInv
<1> QED
  BY <1>3, <1>4, <1>5, <1>6, <1>7 DEF CoreInv

LEMMA InsertKeeps ==
  ASSUME PollInv, NEW e \in Events, NEW interest \in Interests,
         Insert(e, interest)
  PROVE  CoreInv'
<1> USE DEF PollInv
<1> DEFINE p == pollEvent[e]
           m == mask[p] \cup {interest}
           c == Change(fd[e], interest, "add", p)
<1>1. /\ Polled(e) /\ interest \notin mask[p]
      /\ mask' = [mask EXCEPT ![p] = m]
      /\ IF interest \in Filters THEN Modify(c) ELSE UNCHANGED <<changes, filters>>
      /\ UNCHANGED <<fd, pollEvent, event, table, closedEvents, batchVars>>
  BY DEF Insert
<1>2. /\ p \in PollEvents /\ fd[e] \in Fds /\ fd[e] \in Range(fd)
      /\ table[fd[e]] = p
  BY <1>1, InTable
<1>3. m \in SUBSET Interests
  BY <1>2 DEF TypeOK
<1>4. \A filter \in Filters :
        Applied(changes, filters)[fd[e]][filter] =
          IF filter \in mask[p] THEN p ELSE None
  BY <1>2, NoneAssumption DEF KernelAgrees
<1>5. CASE interest \in Filters
  <2>1. Modify(c) /\ c \in ChangeType
    BY <1>1, <1>2, <1>5 DEF Change, ChangeType
  <2>2. /\ changes' \in Seq(ChangeType) /\ Len(changes') <= MaxChanges
        /\ filters' \in KnownType
        /\ \A f \in Fds, filter \in Filters :
             Applied(changes', filters')[f][filter] =
               IF IsAbout(c, f, filter)
                 THEN Effect(c) ELSE Applied(changes, filters)[f][filter]
    BY <2>1, ModifyApplies
  <2>3. \A f \in Fds, filter \in Filters :
          Applied(changes', filters')[f][filter] =
            IF f = fd[e] THEN IF filter \in m THEN p ELSE None
                         ELSE Applied(changes, filters)[f][filter]
    BY <2>2, <1>4 DEF IsAbout, Effect, Change
  <2>4. ChangesSucceed'
    BY <2>1, <1>1, <1>2, ModifySucceeds DEF Change
  <2>5. PendingInv'
    BY <2>1, <1>1, <1>2, ModifyPending DEF Change
  <2> HIDE DEF c, m
  <2> QED
    BY <1>1, <1>3, <2>2, <2>3, <2>4, <2>5, MaskKeeps
<1>6. CASE interest \notin Filters
  <2>1. UNCHANGED <<changes, filters>>
    BY <1>1, <1>6
  <2>2. /\ changes' \in Seq(ChangeType) /\ Len(changes') <= MaxChanges
        /\ filters' \in KnownType
    BY <2>1 DEF TypeOK, ChangeType, KnownType
  <2>3. \A f \in Fds, filter \in Filters :
          Applied(changes', filters')[f][filter] =
            IF f = fd[e] THEN IF filter \in m THEN p ELSE None
                         ELSE Applied(changes, filters)[f][filter]
    BY <2>1, <1>4, <1>6
  <2>4. ChangesSucceed' /\ PendingInv'
    BY <2>1, <1>1 DEF ChangesSucceed, PendingInv
  <2> HIDE DEF m
  <2> QED
    BY <1>1, <1>3, <2>2, <2>3, <2>4, MaskKeeps
<1> QED
  BY <1>5, <1>6

LEMMA RemoveKeeps ==
  ASSUME PollInv, NEW e \in Events, NEW interest \in Interests,
         Remove(e, interest)
  PROVE  CoreInv'
<1> USE DEF PollInv
<1> DEFINE p == pollEvent[e]
           m == mask[p] \ {interest}
           c == Change(fd[e], interest, "delete", p)
<1>1. /\ Polled(e) /\ interest \in mask[p]
      /\ mask' = [mask EXCEPT ![p] = m]
      /\ IF interest \in Filters THEN Modify(c) ELSE UNCHANGED <<changes, filters>>
      /\ UNCHANGED <<fd, pollEvent, event, table, closedEvents, batchVars>>
  BY DEF Remove
<1>2. /\ p \in PollEvents /\ fd[e] \in Fds /\ fd[e] \in Range(fd)
      /\ table[fd[e]] = p /\ p # None
  BY <1>1, InTable DEF Polled
<1>3. m \in SUBSET Interests
  BY <1>2 DEF TypeOK
<1>4. \A filter \in Filters :
        Applied(changes, filters)[fd[e]][filter] =
          IF filter \in mask[p] THEN p ELSE None
  BY <1>2 DEF KernelAgrees
<1>5. CASE interest \in Filters
  <2>1. Modify(c) /\ c \in ChangeType
    BY <1>1, <1>2, <1>5 DEF Change, ChangeType
  <2>2. /\ changes' \in Seq(ChangeType) /\ Len(changes') <= MaxChanges
        /\ filters' \in KnownType
        /\ \A f \in Fds, filter \in Filters :
             Applied(changes', filters')[f][filter] =
               IF IsAbout(c, f, filter)
                 THEN Effect(c) ELSE Applied(changes, filters)[f][filter]
    BY <2>1, ModifyApplies
  <2>3. \A f \in Fds, filter \in Filters :
          Applied(changes', filters')[f][filter] =
            IF f = fd[e] THEN IF filter \in m THEN p ELSE None
                         ELSE Applied(changes, filters)[f][filter]
    BY <2>2, <1>4 DEF IsAbout, Effect, Change
  <2>4. ChangesSucceed'
    <3>1. Applied(changes, filters)[c.fd][c.filter] # None
      BY <1>1, <1>2, <1>4, <1>5 DEF Change
    <3>2. c.fd \in Range(fd)
      BY <1>2 DEF Change
    <3> HIDE DEF c
    <3> QED
      BY <2>1, <1>1, <3>1, <3>2, ModifySucceeds
  <2>5. PendingInv'
    BY <2>1, <1>1, <1>2, ModifyPending DEF Change
  <2> HIDE DEF c, m
  <2> QED
    BY <1>1, <1>3, <2>2, <2>3, <2>4, <2>5, MaskKeeps
<1>6. CASE interest \notin Filters
  <2>1. UNCHANGED <<changes, filters>>
    BY <1>1, <1>6
  <2>2. /\ changes' \in Seq(ChangeType) /\ Len(changes') <= MaxChanges
        /\ filters' \in KnownType
    BY <2>1 DEF TypeOK, ChangeType, KnownType
  <2>3. \A f \in Fds, filter \in Filters :
          Applied(changes', filters')[f][filter] =
            IF f = fd[e] THEN IF filter \in m THEN p ELSE None
                         ELSE Applied(changes, filters)[f][filter]
    BY <2>1, <1>4, <1>6
  <2>4. ChangesSucceed' /\ PendingInv'
    BY <2>1, <1>1 DEF ChangesSucceed, PendingInv
  <2> HIDE DEF m
  <2> QED
    BY <1>1, <1>3, <2>2, <2>3, <2>4, MaskKeeps
<1> QED
  BY <1>5, <1>6

\* An event leaves the table, with its filters.
LEMMA ForgetKeeps ==
  ASSUME PollInv, NEW e \in Events, Polled(e), Forget(e),
         mask' = [mask EXCEPT ![pollEvent[e]] = {}],
         UNCHANGED <<fd, batchVars>>,
         changes' = <<>>, filters' \in KnownType,
         \A f \in Fds, filter \in Filters :
           filters'[f][filter] =
             IF f = fd[e] THEN None ELSE Applied(changes, filters)[f][filter]
  PROVE  CoreInv'
<1> USE DEF PollInv, batchVars
<1> DEFINE p == pollEvent[e]
<1>1. /\ p \in PollEvents /\ fd[e] \in Fds
      /\ table[fd[e]] = p /\ event[p] = e
      /\ \A f \in Fds : table[f] = p => f = fd[e]
      /\ \A e2 \in Events : pollEvent[e2] = p => e2 = e
  BY InTable
<1>2. TypeOK'
  <2>1. /\ table' \in [Fds -> Pointers] /\ pollEvent' \in [Events -> Pointers]
        /\ event' \in [PollEvents -> Events \cup {None}]
        /\ mask' \in [PollEvents -> SUBSET Interests]
    BY <1>1 DEF TypeOK, Forget, Pointers
  <2>2. closedEvents' \subseteq PollEvents
    BY <1>1 DEF TypeOK, Forget
  <2>3. /\ changes' \in Seq([fd : Fds, filter : Filters, op : {"add", "delete"},
                             udata : PollEvents])
        /\ Len(changes') <= MaxChanges
    BY BoundAssumption
  <2> QED
    BY <2>1, <2>2, <2>3 DEF TypeOK, KnownType
<1>3. /\ table'[fd[e]] = None /\ pollEvent'[e] = None /\ event'[p] = None
      /\ mask'[p] = {}
      /\ \A f \in Fds : f # fd[e] => table'[f] = table[f]
      /\ \A e2 \in Events : e2 # e => pollEvent'[e2] = pollEvent[e2]
      /\ \A q \in PollEvents : q # p => mask'[q] = mask[q] /\ event'[q] = event[q]
  BY <1>1 DEF TypeOK, Forget
<1>4. TableMatches'
  <2>1. ASSUME NEW e2 \in Events, Polled(e2)'
        PROVE  /\ fd'[e2] # None /\ table'[fd'[e2]] = pollEvent'[e2]
               /\ event'[pollEvent'[e2]] = e2
    <3>1. e2 # e /\ Polled(e2)
      BY <1>3, <2>1 DEF Polled
    <3>2. /\ fd[e2] # None /\ table[fd[e2]] = pollEvent[e2]
          /\ event[pollEvent[e2]] = e2
          /\ fd[e2] \in Fds /\ pollEvent[e2] \in PollEvents
      BY <3>1 DEF TableMatches, TypeOK, Polled, Pointers
    <3> QED
      BY <1>1, <1>3, <3>1, <3>2 DEF FdsInv
  <2>2. ASSUME NEW f \in Fds, table'[f] # None
        PROVE  \E e2 \in Events : fd'[e2] = f /\ pollEvent'[e2] = table'[f]
    <3>1. f # fd[e]
      BY <1>3, <2>2
    <3>2. PICK e2 \in Events : fd[e2] = f /\ pollEvent[e2] = table[f]
      BY <1>3, <2>2, <3>1 DEF TableMatches
    <3> QED
      BY <1>3, <3>1, <3>2
  <2> QED
    BY <2>1, <2>2 DEF TableMatches
<1>5. \A f \in Fds, filter \in Filters :
        filters'[f][filter] =
          IF table'[f] # None /\ filter \in mask'[table'[f]]
            THEN table'[f] ELSE None
  <2>1. ASSUME NEW f \in Fds, f # fd[e], table[f] # None
        PROVE  table[f] \in PollEvents /\ table[f] # p
    BY <1>1, <2>1 DEF TypeOK, Pointers
  <2> QED
    BY <1>3, <2>1 DEF KernelAgrees
<1>6. KernelAgrees'
  BY <1>5, NothingApplied DEF KernelAgrees
<1>7. ChangesSucceed' /\ FdsInv' /\ PhaseInv'
  BY DEF ChangesSucceed, FdsInv, PhaseInv
<1>8. PendingInv'
  BY <1>5 DEF PendingInv
<1>9. BatchLive'
  <2>1. ASSUME NEW q \in PollEvents, Live(q), processing PROVE Live(q)'
    <3>1. CASE q = p
      BY <2>1, <3>1 DEF Live, Forget
    <3>2. CASE q # p
      <4>1. q # None
        BY NoneAssumption
      <4>2. q \in Range(pollEvent) => q \in Range(pollEvent')
        BY <1>2, <1>3, <3>2, <4>1 DEF Range, TypeOK
      <4>3. q \in Range(table) => q \in Range(table')
        BY <1>1, <1>2, <1>3, <3>2, <4>1 DEF Range, TypeOK
      <4> QED
        BY <2>1, <4>2, <4>3 DEF Live, Forget
    <3> QED
      BY <3>1, <3>2
  <2>2. \A i \in 1 .. Len(batch) : processing
    <3>1. \A i \in 1 .. Len(batch) : batch # <<>>
      BY DEF TypeOK
    <3> QED
      BY <3>1 DEF PhaseInv
  <2> QED
    BY <2>1, <2>2, Elements DEF BatchLive, UdataLive
<1>10. MaskInv'
  <2>1. ASSUME NEW q \in PollEvents, mask'[q] # {}
        PROVE  event'[q] # None /\ pollEvent'[event'[q]] = q
    <3>1. q # p
      BY <1>3, <2>1
    <3>2. event[q] # None /\ pollEvent[event[q]] = q /\ event[q] \in Events
      BY <1>3, <2>1, <3>1 DEF MaskInv, TypeOK
    <3> QED
      BY <1>3, <3>1, <3>2
  <2> QED
    BY <2>1 DEF MaskInv
<1> QED
  BY <1>2, <1>4, <1>6, <1>7, <1>8, <1>9, <1>10 DEF CoreInv

\* Once the changes are applied the kernel watches what the masks say.
LEMMA FlushApplies ==
  ASSUME PollInv
  PROVE  /\ Applied(changes, filters) \in KnownType
         /\ \A e \in Events, filter \in Filters : Polled(e) =>
              Applied(changes, filters)[fd[e]][filter] =
                IF filter \in mask[pollEvent[e]] THEN pollEvent[e] ELSE None
<1>1. changes \in Seq(ChangeType) /\ filters \in KnownType
  BY DEF PollInv, TypeOK, ChangeType, KnownType
<1>2. Applied(changes, filters) \in KnownType
  BY <1>1, AppliedType
<1>3. ASSUME NEW e \in Events, NEW filter \in Filters, Polled(e)
      PROVE  Applied(changes, filters)[fd[e]][filter] =
               IF filter \in mask[pollEvent[e]] THEN pollEvent[e] ELSE None
  BY <1>3, InTable DEF PollInv, KernelAgrees, Polled
<1> QED
  BY <1>2, <1>3

LEMMA CloseKeeps ==
  ASSUME PollInv, NEW e \in Events, Close(e)
  PROVE  CoreInv'
<1> DEFINE p == pollEvent[e]
<1>1. /\ Polled(e) /\ mask[p] = {} /\ Forget(e)
      /\ filters' = Applied(changes, filters) /\ changes' = <<>>
      /\ UNCHANGED <<fd, mask, batchVars>>
  BY DEF Close
<1>2. p \in PollEvents
  BY <1>1, InTable
<1>3. mask' = [mask EXCEPT ![p] = {}]
  BY <1>1, <1>2 DEF PollInv, TypeOK
<1>4. \A f \in Fds, filter \in Filters :
        filters'[f][filter] =
          IF f = fd[e] THEN None ELSE Applied(changes, filters)[f][filter]
  BY <1>1, FlushApplies
<1>5. filters' \in KnownType
  BY <1>1, FlushApplies
<1>6. UNCHANGED <<fd, batchVars>>
  BY <1>1
<1> QED
  BY <1>1, <1>3, <1>4, <1>5, <1>6, ForgetKeeps

\* The changes that delete the filters of a descriptor, and no other, leave
\* none.
LEMMA DeletesApplied ==
  ASSUME NEW list \in Seq(ChangeType), NEW known \in KnownType,
         NEW g \in Fds, NEW p \in PollEvents, NEW deleted \in Filters,
         NEW d, d = <<>> \/ d = <<Change(g, deleted, "delete", p)>>
  PROVE  /\ list \o d \in Seq(ChangeType)
         /\ \A f \in Fds, filter \in Filters :
              Applied(list \o d, known)[f][filter] =
                IF d # <<>> /\ f = g /\ filter = deleted
                  THEN None ELSE Applied(list, known)[f][filter]
<1> DEFINE c == Change(g, deleted, "delete", p)
<1>1. c \in ChangeType /\ Effect(c) = None
      /\ \A f, filter : IsAbout(c, f, filter) <=> f = g /\ filter = deleted
  BY DEF ChangeType, Change, Effect, IsAbout
<1> HIDE DEF c
<1>2. CASE d = <<>>
  <2>1. list \o d = list
    BY <1>2
  <2> QED
    BY <1>2, <2>1
<1>3. CASE d = <<c>>
  <2>1. list \o d = Append(list, c)
    BY <1>3, <1>1
  <2>2. d # <<>>
    BY <1>3
  <2>3. Append(list, c) \in Seq(ChangeType)
    BY <1>1
  <2> QED
    BY <1>1, <2>1, <2>2, <2>3, LastApplied
<1> QED
  BY <1>2, <1>3 DEF c

LEMMA RemoveAndCloseKeeps ==
  ASSUME PollInv, NEW e \in Events, RemoveAndClose(e)
  PROVE  CoreInv'
<1> DEFINE p == pollEvent[e]
           deleted(filter) ==
             IF filter \in mask[p] THEN <<Change(fd[e], filter, "delete", p)>>
                                   ELSE <<>>
           read   == deleted("read")
           write  == deleted("write")
<1>1. /\ Polled(e) /\ Forget(e)
      /\ filters' = Applied(changes \o read \o write, filters)
      /\ changes' = <<>>
      /\ mask' = [mask EXCEPT ![p] = {}]
      /\ UNCHANGED <<fd, batchVars>>
  BY DEF RemoveAndClose
<1>2. p \in PollEvents /\ fd[e] \in Fds
  BY <1>1, InTable
<1>3. changes \in Seq(ChangeType) /\ filters \in KnownType
  BY DEF PollInv, TypeOK, ChangeType, KnownType
<1>4. \A filter \in Filters :
        Applied(changes, filters)[fd[e]][filter] =
          IF filter \in mask[p] THEN p ELSE None
  BY <1>1, FlushApplies
<1>5. /\ read # <<>> <=> "read" \in mask[p]
      /\ read = <<>> \/ read = <<Change(fd[e], "read", "delete", p)>>
      /\ write # <<>> <=> "write" \in mask[p]
      /\ write = <<>> \/ write = <<Change(fd[e], "write", "delete", p)>>
  OBVIOUS
<1> HIDE DEF read, write
<1>6. /\ "read" \in Filters /\ "write" \in Filters
      /\ \A filter \in Filters : filter = "read" \/ filter = "write"
  BY DEF Filters
<1>7. /\ changes \o read \in Seq(ChangeType)
      /\ \A f \in Fds, filter \in Filters :
           Applied(changes \o read, filters)[f][filter] =
             IF read # <<>> /\ f = fd[e] /\ filter = "read"
               THEN None ELSE Applied(changes, filters)[f][filter]
  BY <1>2, <1>3, <1>5, <1>6, DeletesApplied
<1>8. /\ changes \o read \o write \in Seq(ChangeType)
      /\ \A f \in Fds, filter \in Filters :
           Applied(changes \o read \o write, filters)[f][filter] =
             IF write # <<>> /\ f = fd[e] /\ filter = "write"
               THEN None ELSE Applied(changes \o read, filters)[f][filter]
  <2> DEFINE list == changes \o read
  <2>1. list \in Seq(ChangeType)
    BY <1>7
  <2> HIDE DEF list
  <2>2. /\ list \o write \in Seq(ChangeType)
        /\ \A f \in Fds, filter \in Filters :
             Applied(list \o write, filters)[f][filter] =
               IF write # <<>> /\ f = fd[e] /\ filter = "write"
                 THEN None ELSE Applied(list, filters)[f][filter]
    BY <1>2, <1>3, <1>5, <1>6, <2>1, DeletesApplied
  <2> QED
    BY <2>2 DEF list
<1>9. \A f \in Fds, filter \in Filters :
        filters'[f][filter] =
          IF f = fd[e] THEN None ELSE Applied(changes, filters)[f][filter]
  BY <1>1, <1>4, <1>5, <1>6, <1>7, <1>8
<1>10. filters' \in KnownType
  BY <1>1, <1>3, <1>8, AppliedType
<1>11. UNCHANGED <<fd, batchVars>>
  BY <1>1
<1> QED
  BY <1>1, <1>9, <1>10, <1>11, ForgetKeeps

\* The kernel takes the changes, and what it returns, if anything, is live.
LEMMA FlushKeeps ==
  ASSUME PollInv,
         filters' = Applied(changes, filters), changes' = <<>>,
         UNCHANGED <<fd, pollEvent, pollEvents, table>>,
         closedEvents' \subseteq PollEvents,
         batch' \in Seq(BatchType),
         \A i \in 1 .. Len(batch') : batch'[i].udata \in Range(table),
         processing' \in BOOLEAN, inProcess' \in BOOLEAN,
         handling' \in Events \cup {None}, PhaseInv'
  PROVE  CoreInv'
<1> USE DEF PollInv, pollEvents
<1>1. filters' \in KnownType
  BY FlushApplies
<1>2. TypeOK'
  <2>1. changes' \in Seq([fd : Fds, filter : Filters, op : {"add", "delete"},
                          udata : PollEvents])
        /\ Len(changes') <= MaxChanges
    BY BoundAssumption
  <2> QED
    BY <1>1, <2>1 DEF TypeOK, KnownType, BatchType
<1>3. TableMatches' /\ FdsInv' /\ MaskInv'
  BY DEF TableMatches, Polled, FdsInv, MaskInv
<1>4. KernelAgrees'
  <2>1. Applied(changes', filters') = Applied(changes, filters)
    BY <1>1, NothingApplied
  <2> QED
    BY <2>1 DEF KernelAgrees
<1>5. ChangesSucceed' /\ BatchLive'
  BY DEF ChangesSucceed, BatchLive, Live
<1>6. PendingInv'
  BY DEF PendingInv, KernelAgrees
<1> QED
  BY <1>2, <1>3, <1>4, <1>5, <1>6 DEF CoreInv

LEMMA DoPollKeeps ==
  ASSUME PollInv, DoPoll
  PROVE  CoreInv'
<1> DEFINE active == {[filter |-> filter, udata |-> filters'[f][filter]] :
                        f \in Fds, filter \in Filters}
           ready  == {a \in active : a.udata # None}
<1>1. /\ ~inProcess
      /\ filters' = Applied(changes, filters) /\ changes' = <<>>
      /\ processing' = TRUE /\ closedEvents' = {} /\ inProcess' = TRUE
      /\ UNCHANGED <<fd, pollEvent, pollEvents, table, handling>>
  BY DEF DoPoll
<1>2. PICK n \in 0 .. MaxBatch : batch' \in [1 .. n -> ready]
  BY DEF DoPoll
<1>3. ASSUME NEW a \in ready PROVE a \in BatchType /\ a.udata \in Range(table)
  <2>1. PICK f \in Fds, filter \in Filters :
          a = [filter |-> filter, udata |-> filters'[f][filter]]
    OBVIOUS
  <2>2. filters'[f][filter] = table[f] /\ table[f] # None
    BY <1>1, <2>1 DEF PollInv, KernelAgrees
  <2> QED
    BY <2>1, <2>2 DEF PollInv, TypeOK, Range, Pointers, BatchType
<1> HIDE DEF ready
<1>4. /\ batch' \in Seq(BatchType)
      /\ \A i \in 1 .. Len(batch') : batch'[i].udata \in Range(table)
  <2>1. n \in Nat /\ batch' \in [1 .. n -> BatchType]
    BY <1>2, <1>3, BoundAssumption
  <2>2. batch' \in Seq(BatchType) /\ Len(batch') = n
    BY <2>1
  <2> QED
    BY <1>2, <1>3, <2>2
<1>5. handling' \in Events \cup {None} /\ PhaseInv'
  BY <1>1 DEF PollInv, TypeOK, PhaseInv
<1> QED
  BY <1>1, <1>4, <1>5, FlushKeeps

LEMMA DoPollInterruptedKeeps ==
  ASSUME PollInv, DoPollInterrupted
  PROVE  CoreInv'
<1>1. /\ ~inProcess
      /\ filters' = Applied(changes, filters) /\ changes' = <<>>
      /\ UNCHANGED <<fd, pollEvent, pollEvents, table>>
      /\ UNCHANGED <<closedEvents, processing, batch, handling, inProcess>>
  BY DEF DoPollInterrupted, batchVars
<1>2. batch = <<>>
  BY <1>1 DEF PollInv, PhaseInv
<1>3. /\ closedEvents' \subseteq PollEvents /\ batch' \in Seq(BatchType)
      /\ \A i \in 1 .. Len(batch') : batch'[i].udata \in Range(table)
      /\ processing' \in BOOLEAN /\ inProcess' \in BOOLEAN
      /\ handling' \in Events \cup {None} /\ PhaseInv'
  BY <1>1, <1>2 DEF PollInv, TypeOK, PhaseInv
<1> QED
  BY <1>1, <1>3, FlushKeeps

\* The steps of process() touch nothing but the batch.
LEMMA ProcessKeeps ==
  ASSUME PollInv,
         UNCHANGED <<fd, pollEvent, pollEvents, table, changes, filters>>,
         batch' \in Seq(BatchType), handling' \in Events \cup {None},
         processing' \in BOOLEAN, inProcess' \in BOOLEAN,
         closedEvents' \subseteq PollEvents,
         BatchLive', PhaseInv'
  PROVE  CoreInv'
<1> USE DEF PollInv, pollEvents
<1>1. TypeOK'
  BY DEF TypeOK, BatchType
<1>2. TableMatches' /\ KernelAgrees' /\ FdsInv' /\ MaskInv' /\ PendingInv'
  BY DEF TableMatches, KernelAgrees, Polled, FdsInv, MaskInv, PendingInv
<1>3. ChangesSucceed'
  BY DEF ChangesSucceed
<1> QED
  BY <1>1, <1>2, <1>3 DEF CoreInv

LEMMA ProcessNextKeeps ==
  ASSUME PollInv, ProcessNext
  PROVE  CoreInv'
<1> USE DEF PollInv
<1> DEFINE next == Head(batch)
<1>1. /\ inProcess /\ batch # <<>> /\ batch' = Tail(batch)
      /\ handling' = IF next.filter \in mask[next.udata]
                       THEN event[next.udata] ELSE None
      /\ UNCHANGED <<fd, pollEvent, pollEvents, table, changes, closedEvents,
                     processing, inProcess, filters>>
  BY DEF ProcessNext
<1>2. batch \in Seq(BatchType)
  BY DEF TypeOK, BatchType
<1>3. /\ batch' \in Seq(BatchType) /\ Len(batch') = Len(batch) - 1
      /\ \A i \in 1 .. Len(batch') : batch'[i] = batch[i + 1] /\ i + 1 \in 1 .. Len(batch)
  BY <1>1, <1>2
<1>4. handling' \in Events \cup {None}
  <2>1. next = batch[1] /\ 1 \in 1 .. Len(batch)
    BY <1>1, <1>2
  <2>2. next.udata \in PollEvents
    BY <2>1, Elements
  <2> QED
    BY <1>1, <2>2 DEF TypeOK
<1>5. BatchLive'
  BY <1>1, <1>3 DEF BatchLive, UdataLive, Live
<1>6. PhaseInv'
  BY <1>1 DEF PhaseInv
<1>7. /\ processing' \in BOOLEAN /\ inProcess' \in BOOLEAN
      /\ closedEvents' \subseteq PollEvents
  BY <1>1 DEF TypeOK
<1> QED
  BY <1>1, <1>3, <1>4, <1>5, <1>6, <1>7, ProcessKeeps

LEMMA RestOfProcessKeeps ==
  ASSUME PollInv, HandlerReturns \/ HandlerThrows \/ ProcessEnd
  PROVE  CoreInv'
<1>1. /\ UNCHANGED <<fd, pollEvent, pollEvents, table, changes, filters>>
      /\ batch' = batch \/ batch' = <<>>
      /\ handling' = handling \/ handling' = None
      /\ processing' = processing \/ processing' = FALSE
      /\ inProcess' = inProcess \/ inProcess' = FALSE
      /\ closedEvents' = closedEvents \/ closedEvents' = {}
  BY DEF HandlerReturns, HandlerThrows, ProcessEnd
<1>2. /\ batch \in Seq(BatchType) /\ handling \in Events \cup {None}
      /\ processing \in BOOLEAN /\ inProcess \in BOOLEAN
      /\ closedEvents \subseteq PollEvents
  BY DEF PollInv, TypeOK, BatchType
<1>3. batch' \in Seq(BatchType) /\ handling' \in Events \cup {None}
  <2>1. <<>> \in Seq(BatchType)
    OBVIOUS
  <2> QED
    BY <1>1, <1>2, <2>1
<1>4. /\ processing' \in BOOLEAN /\ inProcess' \in BOOLEAN
      /\ closedEvents' \subseteq PollEvents
  BY <1>1, <1>2
<1>5. BatchLive'
  BY DEF BatchLive, PollInv, UdataLive, Live, HandlerReturns, HandlerThrows,
         ProcessEnd
<1>6. PhaseInv'
  BY DEF PollInv, PhaseInv, HandlerReturns, HandlerThrows, ProcessEnd
<1> QED
  BY <1>1, <1>3, <1>4, <1>5, <1>6, ProcessKeeps

-----------------------------------------------------------------------------
(* The theorems.                                                           *)

\* A poll that was just created is consistent.
LEMMA InitConsistent == Init => CoreInv
<1> SUFFICES ASSUME Init PROVE CoreInv
  OBVIOUS
<1> USE DEF Init
<1>1. filters \in KnownType
  BY DEF KnownType, Pointers
<1>2. TypeOK
  <2>1. changes \in Seq(ChangeType) /\ batch \in Seq(BatchType)
        /\ Len(changes) <= MaxChanges
    BY BoundAssumption
  <2>2. /\ fd \in [Events -> Fds \cup {None}]
        /\ pollEvent \in [Events -> Pointers]
        /\ mask \in [PollEvents -> SUBSET Interests]
        /\ event \in [PollEvents -> Events \cup {None}]
        /\ table \in [Fds -> Pointers]
    BY DEF Pointers
  <2> QED
    BY <1>1, <2>1, <2>2 DEF TypeOK, KnownType, ChangeType, BatchType
<1>3. KernelAgrees
  BY <1>1, NothingApplied DEF KernelAgrees
<1>4. TableMatches /\ ChangesSucceed /\ BatchLive
  BY DEF TableMatches, Polled, ChangesSucceed, BatchLive
<1>5. FdsInv /\ PhaseInv /\ MaskInv /\ PendingInv
  BY DEF FdsInv, PhaseInv, MaskInv, PendingInv
<1> QED
  BY <1>2, <1>3, <1>4, <1>5 DEF CoreInv

\* Every operation of the poll, made outside of process() or by a handler, and
\* every step of process() keeps the poll consistent.
LEMMA StepConsistent == PollInv /\ [Next]_vars => CoreInv'
<1> SUFFICES ASSUME PollInv, [Next]_vars PROVE CoreInv'
  OBVIOUS
<1>1. CASE UNCHANGED vars
  <2>1. UNCHANGED <<fd, pollEvent, pollEvents, table, changes, filters>>
        /\ UNCHANGED <<batch, handling, processing, inProcess, closedEvents>>
    BY <1>1 DEF vars, batchVars
  <2>2. /\ batch' \in Seq(BatchType) /\ handling' \in Events \cup {None}
        /\ processing' \in BOOLEAN /\ inProcess' \in BOOLEAN
        /\ closedEvents' \subseteq PollEvents /\ BatchLive' /\ PhaseInv'
    BY <2>1 DEF PollInv, TypeOK, BatchType, BatchLive, UdataLive, Live, PhaseInv
  <2> QED
    BY <2>1, <2>2, ProcessKeeps
<1>2. CASE Next
  <2>1. ASSUME NEW e \in Events, NEW f \in Fds, SetFileDescriptor(e, f)
        PROVE  CoreInv'
    BY <2>1, SetFileDescriptorKeeps
  <2>2. ASSUME NEW e \in Events, CloseFileDescriptor(e) PROVE CoreInv'
    BY <2>2, CloseFileDescriptorKeeps
  <2>3. ASSUME NEW e \in Events, Open(e) PROVE CoreInv'
    BY <2>3, OpenKeeps
  <2>4. ASSUME NEW e \in Events, NEW interest \in Interests, Insert(e, interest)
        PROVE  CoreInv'
    BY <2>4, InsertKeeps
  <2>5. ASSUME NEW e \in Events, NEW interest \in Interests, Remove(e, interest)
        PROVE  CoreInv'
    BY <2>5, RemoveKeeps
  <2>6. ASSUME NEW e \in Events, Close(e) PROVE CoreInv'
    BY <2>6, CloseKeeps
  <2>7. ASSUME NEW e \in Events, RemoveAndClose(e) PROVE CoreInv'
    BY <2>7, RemoveAndCloseKeeps
  <2>8. CASE DoPoll
    BY <2>8, DoPollKeeps
  <2>9. CASE DoPollInterrupted
    BY <2>9, DoPollInterruptedKeeps
  <2>10. CASE ProcessNext
    BY <2>10, ProcessNextKeeps
  <2>11. CASE HandlerReturns \/ HandlerThrows \/ ProcessEnd
    BY <2>11, RestOfProcessKeeps
  <2> QED
    BY <1>2, <2>1, <2>2, <2>3, <2>4, <2>5, <2>6, <2>7, <2>8, <2>9, <2>10, <2>11
    DEF Next
<1> QED
  BY <1>1, <1>2

\* The poll stays consistent, whatever handlers open, close and change while
\* their batch is processed, and wherever an exception leaves process().
THEOREM PollConsistent == Spec => []PollInv
<1>1. Init => PollInv
  BY InitConsistent, CoreIsPollInv
<1>2. PollInv /\ [Next]_vars => PollInv'
  <2>1. CoreInv' => PollInv'
    BY CoreIsPollInv, PTL
  <2> QED
    BY StepConsistent, <2>1
<1> QED
  BY <1>1, <1>2, PTL DEF Spec

\* The list of changes never overflows its memory, among the other types.
THEOREM PollTypeCorrect == Spec => []TypeOK
<1>1. PollInv => TypeOK
  BY DEF PollInv
<1> QED
  BY PollConsistent, <1>1, PTL

\* Once its list is applied the kernel watches what the masks in the table say.
THEOREM KernelStaysInAgreement == Spec => []KernelAgrees
<1>1. PollInv => KernelAgrees
  BY DEF PollInv
<1> QED
  BY PollConsistent, <1>1, PTL

\* No change is refused by the kernel, so that flush() never throws.
THEOREM NoChangeRefused == Spec => []ChangesSucceed
<1>1. PollInv => ChangesSucceed
  BY DEF PollInv
<1> QED
  BY PollConsistent, <1>1, PTL

\* process() and the kernel hold no pointer to a PollEvent that was freed.
THEOREM NoPointerDangles == Spec => []UdataLive
<1>1. PollInv => UdataLive
  BY DEF PollInv
<1> QED
  BY PollConsistent, <1>1, PTL

\* The look-ups of an open event in the table find its PollEvent.
THEOREM LookUpsSucceed == Spec => []TableMatches
<1>1. PollInv => TableMatches
  BY DEF PollInv
<1> QED
  BY PollConsistent, <1>1, PTL

\* process() calls handlers of open events only.
THEOREM OnlyOpenEventsCalled == Spec => []CallsOpenEvents
<1>1. PollInv => CallsOpenEvents
  <2> SUFFICES ASSUME PollInv PROVE CallsOpenEvents
    OBVIOUS
  <2>1. TypeOK /\ MaskInv
    BY DEF PollInv
  <2> QED
    BY <2>1, Elements DEF CallsOpenEvents, MaskInv
<1> QED
  BY PollConsistent, <1>1, PTL
=============================================================================
