------------------------------- MODULE Router -------------------------------
(***************************************************************************)
(* Router (router.cc) as parent.cc and child.cc use it, over a real ring:  *)
(* the parent registers handlers, tells the child their ids in messages on *)
(* id 1, and then writes texts to these ids; the child registers a handler *)
(* for every id it is told and may write to it in turn.                    *)
(*                                                                         *)
(* The ring from the parent to the child is the one of module Channel,     *)
(* step by step.  The one from the child to the parent is a queue, which   *)
(* is what a Channel promises (module MessageFifo).  Messages are shorter  *)
(* than a line, so that each is one record of one line.                    *)
(***************************************************************************)
EXTENDS Channel

CONSTANTS
  NewChannels,   \* how many channels the parent creates (two in parent.cc)
  MaxTexts,      \* bound: how many texts it writes to them
  MaxReplies     \* bound: how many messages of the child are under way

ControlId        == 1     \* the id of ParentHandler and ChildHandler
AnnouncementSize == 4     \* sizeof(NewChannelMessage)
TextSize         == 26    \* strlen("Hello from PARENT process!")

ASSUME RouterAssumption ==
  /\ NewChannels \in Nat /\ MaxTexts \in Nat /\ MaxReplies \in Nat
  /\ {AnnouncementSize, TextSize} \subseteq Sizes

\* The ids that the parent gives out may be written to, and the ring has room
\* for all announcements: nobody reads while the parent creates its channels.
ASSUME ChannelsAssumption ==
  /\ 1 .. NewChannels + 1 \subseteq Ids
  /\ NewChannels * LineSize <= Size

VARIABLES
  parent,     \* the parent's Router, and the message it is writing
  child,      \* the child's Router, and what its handlers have seen
  contents,   \* what the payload on each line of the ring says
  replies     \* the ids of the child's messages, not yet read

routerVars == <<vars, parent, child, contents, replies>>

Nothing          == [kind |-> "nothing", n |-> 0]
Announcement(id) == [kind |-> "announcement", n |-> id]
Text(number)     == [kind |-> "text", n |-> number]

RouterInit ==
  /\ Init
  /\ parent = [handlers |-> {ControlId},   \* the keys of m_handlers
               nextId |-> 1,               \* m_next_id
               channels |-> <<>>,          \* handler_1, handler_2
               message |-> Nothing,        \* what write() was called with
               texts |-> 0,
               threw |-> FALSE]
  /\ child = [handlers |-> {ControlId},
              channels |-> <<>>,           \* ChildHandler::channels
              dispatched |-> FALSE,        \* the handler of held has returned
              texts |-> 0,                 \* the number of the last text read
              threw |-> FALSE]
  /\ contents = [l \in Lines |-> Nothing]
  /\ replies = <<>>

-----------------------------------------------------------------------------
(* The parent.                                                             *)

\* Mutant: m_next_id is not compared with the ids registered explicitly.
NextId(r) == r.nextId

\* register_handler(): the first id from m_next_id on that is not taken.
FreshId(r) ==
  CHOOSE id \in r.nextId .. r.nextId + Cardinality(r.handlers) :
    /\ id \notin r.handlers
    /\ \A other \in r.nextId .. id - 1 : other \in r.handlers

SetUp == Len(parent.channels) = NewChannels

\* ParentHandler::create_new_channel(); it throws when the ring has no room.
CreateNewChannel ==
  LET id == FreshId(parent)
      registered == [parent EXCEPT !.handlers = @ \cup {id}, !.nextId = id + 1]
  IN  /\ ~parent.threw /\ ~SetUp /\ writer = "idle"
      /\ IF Refuses(readOffset, writeOffset, AnnouncementSize, writeThreshold)
           THEN parent' = [registered EXCEPT !.threw = TRUE] /\ UNCHANGED vars
           ELSE /\ BeginWrite(ControlId, AnnouncementSize)
                /\ parent' = [registered EXCEPT !.channels = Append(@, id),
                                                !.message = Announcement(id)]
      /\ UNCHANGED <<child, contents, replies>>

\* Mutant: the id that will be handed out next.
NextTargets == {parent.nextId}

\* The channels in turn, and a turn may pass without a text.
Targets == {parent.channels[i] : i \in 1 .. Len(parent.channels)}

\* The loop's write(); when it is refused the loop tries again.
WriteText ==
  /\ ~parent.threw /\ SetUp
  /\ parent.texts < MaxTexts
  /\ \E id \in Targets : BeginWrite(id, TextSize)
  /\ parent' = [parent EXCEPT !.texts = @ + 1, !.message = Text(parent.texts + 1)]
  /\ UNCHANGED <<child, contents, replies>>

\* The rest of write(): the payload is copied with its record.
FinishWrite ==
  /\ \/ /\ CopyFirst
        /\ contents' = [contents EXCEPT ![placement.firstAt] = parent.message]
     \/ /\ CopySecond
        /\ contents' = [contents EXCEPT ![placement.secondAt] = parent.message]
     \/ Publish /\ UNCHANGED contents
  /\ UNCHANGED <<parent, child, replies>>

\* process_reads() in the parent: ParentHandler throws whatever it is sent.
ReadReply ==
  /\ ~parent.threw /\ SetUp /\ writer = "idle"
  /\ replies # <<>>
  /\ replies' = Tail(replies)
  /\ parent' = [parent EXCEPT !.threw =
       Head(replies) \notin parent.handlers \ {ControlId}]
  /\ UNCHANGED <<vars, child, contents>>

-----------------------------------------------------------------------------
(* The child: process_reads(), taken apart at its calls of the channel.    *)

FindHeader ==
  /\ ~child.threw
  /\ ReadHeader
  /\ UNCHANGED <<parent, child, contents, replies>>

\* Mutant: the message's own id is remembered, not the one it tells.
DispatchOwnId ==
  /\ reader = "held" /\ ~child.dispatched /\ ~child.threw
  /\ child' = [child EXCEPT !.dispatched = TRUE,
                            !.channels = Append(@, held.id)]
  /\ UNCHANGED <<vars, parent, contents, replies>>

\* The handler of the record's id: ChildHandler::on_read() registers the id it
\* is told, TestHandler::on_read() looks at the text.
Dispatch ==
  LET told == contents[readOffset].n
  IN  /\ reader = "held" /\ ~child.dispatched /\ ~child.threw
      /\ child' =
           IF held.id \notin child.handlers
             THEN [child EXCEPT !.threw = TRUE]
           ELSE IF held.id # ControlId
             THEN [child EXCEPT !.dispatched = TRUE, !.texts = told]
           ELSE IF held.size # AnnouncementSize
             THEN [child EXCEPT !.threw = TRUE]
             ELSE [child EXCEPT !.channels = Append(@, told),
                                !.threw = told \in child.handlers,
                                !.handlers = @ \cup {told},
                                !.dispatched = TRUE]
      /\ UNCHANGED <<vars, parent, contents, replies>>

\* Mutant: the next record counts as dispatched.
ConsumeKeepingDispatched ==
  /\ child.dispatched /\ ~child.threw
  /\ ConsumeHeader
  /\ UNCHANGED <<parent, child, contents, replies>>

Consume ==
  /\ child.dispatched /\ ~child.threw
  /\ ConsumeHeader
  /\ child' = [child EXCEPT !.dispatched = FALSE]
  /\ UNCHANGED <<parent, contents, replies>>

\* The child's loop writes to a channel it was told of.
WriteReply ==
  /\ ~child.threw /\ reader = "idle"
  /\ Len(replies) < MaxReplies
  /\ \E i \in 1 .. Len(child.channels) :
       replies' = Append(replies, child.channels[i])
  /\ UNCHANGED <<vars, parent, child, contents>>

-----------------------------------------------------------------------------
Parent == CreateNewChannel \/ WriteText \/ FinishWrite \/ ReadReply
Child  == FindHeader \/ Dispatch \/ Consume \/ WriteReply

RouterNext == Parent \/ Child
RouterSpec == RouterInit /\ [][RouterNext]_routerVars

\* Without the step after which an empty ring looks full (module Channel).
RouterSafeNext == RouterNext /\ ~DrainsAtEnd

\* Both loops go on: a write() that has begun ends, the parent creates its
\* channels, and the child reads what it finds.
RouterSafeSpec ==
  /\ RouterInit /\ [][RouterSafeNext]_routerVars
  /\ WF_routerVars(CreateNewChannel \/ FinishWrite)
  /\ WF_routerVars((FindHeader \/ Dispatch \/ Consume) /\ ~DrainsAtEnd)

-----------------------------------------------------------------------------
(* Properties.                                                             *)

\* No message arrives for an id without a handler, no id is registered twice
\* and ParentHandler is sent nothing: neither process throws (router.cc:60,
\* router.cc:231, parent.cc:20).
NobodyThrows == ~parent.threw /\ ~child.threw

\* A text in the ring is for an id that the child knows, or that it will be
\* told of before it reads the text.
Ahead(l, other) ==
  (other - readOffset + Size) % Size < (l - readOffset + Size) % Size

AnnouncedAhead ==
  \A l \in UnreadLines :
    LET id == lines[l].rec.id
    IN  \/ id \in child.handlers
        \/ \E other \in UnreadLines :
             Ahead(l, other) /\ contents[other] = Announcement(id)

\* The handlers of the child read the texts in the order in which the parent
\* wrote them, each one once.
TextsInOrder ==
  [][child.texts' # child.texts => child.texts' = child.texts + 1]_routerVars

\* The two processes give the same meaning to "the i-th channel".
SameChannels ==
  /\ Len(child.channels) <= Len(parent.channels)
  /\ \A i \in 1 .. Len(child.channels) : child.channels[i] = parent.channels[i]

\* The child comes to know every channel that the parent creates.
ChannelsOpen == <>(Len(child.channels) = NewChannels)
=============================================================================
