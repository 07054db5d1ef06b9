----------------------------- MODULE SessionStream -----------------------------
(***************************************************************************)
(* How the engine serves the events of one session to one client           *)
(* (packages/domain/src/engine/session-domain.ts and the queries it        *)
(* reads): the committed log with the message rows projected from it in    *)
(* the same transaction, the publisher that copies committed events to the *)
(* in-memory hub, and synchronizedEvents, the stream that brings a client  *)
(* up to date and then follows the hub.                                    *)
(*                                                                         *)
(* An event persists a message, rolls the transcript back, or settles a    *)
(* turn; the last stands for every event that touches no message.  The     *)
(* version of an event is its place in the log, and the content of a       *)
(* message is the version that wrote it.  A version 0 is content that only *)
(* a client knows.                                                         *)
(*                                                                         *)
(* The client is the only subscriber, so the publisher stands still        *)
(* without it.  reconcileDurableEvents inside synchronizedEvents may give  *)
(* up on a read error, so it is the publisher's steps at any time and no   *)
(* guard.  Rows that do not decode, and decoding errors sent through the   *)
(* hub, are left out.                                                      *)
(***************************************************************************)
EXTENDS Integers, SequencesExt

CONSTANTS Messages,    \* message ids
          None,        \* an absent cursor or projection
          PageSize,    \* LATEST_TIMELINE_MESSAGE_LIMIT
          MaxDelta,    \* maxDeltaEvents
          MaxEvents,   \* bound: events of the log
          MaxEpoch     \* bound: restorations of the database

ASSUME StreamConstants ==
    /\ PageSize \in Nat \ {0}
    /\ MaxDelta \in Nat
    /\ MaxEvents \in Nat
    /\ MaxEpoch \in Nat

VARIABLES epoch,      \* session_stream_epoch of the database
          log,        \* events of the session, in order of their version, each
                      \* with the message rows that its transaction left
          published,  \* durableCursor of the publisher
          stream      \* the client's synchronizedEvents stream

streamVars == <<epoch, log, published, stream>>

Versions == 0..MaxEvents
Event == [kind : {"message"}, id : Messages]
         \cup [kind : {"rollback"}, after : Versions]
         \cup [kind : {"settled"}]
Row == [seq : Versions, ver : Versions]
Transaction == [event : Event, rows : [Messages -> Row]]
Shown == [id : Messages, ver : Versions]
Cursor == [epoch : 0..MaxEpoch, version : Versions]
MaybeCursor == Cursor \cup {None}
Projection == [msgs : Seq(Shown), older : 0..(MaxEvents + 1)]

\* Absence is none of the things that may be absent.
ASSUME NoneIsNothing == None \notin Cursor \cup Projection

\* The elements of s at the positions P, in order.
Selected(s, P) ==
    LET upTo[i \in 0..Len(s)] ==
            IF i = 0 THEN <<>>
            ELSE IF i \in P THEN Append(upTo[i - 1], s[i])
            ELSE upTo[i - 1]
    IN  upTo[Len(s)]

(***************************************************************************)
(* The messages table.  A row keeps the sequence of the event that created *)
(* it; sequence 0 is an absent row.  Only the last table is stored; the    *)
(* earlier ones are history.                                               *)
(***************************************************************************)
NoRow == [seq |-> 0, ver |-> 0]
NoRows == [m \in Messages |-> NoRow]

\* The projection of event e of version i.
Project(rows, e, i) ==
    CASE e.kind = "message" ->
            [rows EXCEPT ![e.id] =
                [seq |-> IF @.seq = 0 THEN i ELSE @.seq, ver |-> i]]
      [] e.kind = "rollback" ->
            [m \in Messages |->
                IF rows[m].seq > e.after THEN NoRow ELSE rows[m]]
      [] OTHER -> rows

\* The table as of version n of the log.
RowsAt(n) == IF n = 0 THEN NoRows ELSE log[n].rows

Rows == RowsAt(Len(log))
Present(rows) == {m \in Messages : rows[m].seq > 0}

\* The message that a row of sequence i holds.
Holds(rows, i) == LET m == log[i].event.id IN [id |-> m, ver |-> rows[m].ver]

\* The newest PageSize of the rows with the sequences below, and the sequence
\* to continue from.
Page(rows, below) ==
    LET items == SubSeq(below, IF Len(below) > PageSize
                               THEN Len(below) - PageSize + 1 ELSE 1, Len(below))
    IN  [msgs  |-> [i \in DOMAIN items |-> Holds(rows, items[i])],
         older |-> IF Len(below) > PageSize THEN items[1] ELSE 0]

\* The sequences of the rows below before, in order.
Below(rows, before) ==
    Selected([i \in 1..Len(log) |-> i],
             {rows[m].seq : m \in Messages} \cap 1..(before - 1))

PageOf(rows, before) == Page(rows, Below(rows, before))

MessagePage(before) == PageOf(Rows, before)

\* The byte budget may leave out the first `cut` messages of the newest page.
Bounded(rows, page, cut) ==
    LET kept == SubSeq(page.msgs, cut + 1, Len(page.msgs))
    IN  [msgs  |-> kept,
         older |-> IF cut = 0 THEN page.older
                   ELSE IF kept = <<>> THEN rows[Last(page.msgs).id].seq + 1
                   ELSE rows[kept[1].id].seq]

NewestPage(cut) == Bounded(Rows, MessagePage(MaxEvents + 1), cut)

(***************************************************************************)
(* Frames, each with the cursor it speaks for.                             *)
(***************************************************************************)
At(v) == [epoch |-> epoch, version |-> v]

EventFrame(v) == [kind |-> "event", cursor |-> At(v), event |-> log[v].event,
                  rolled |-> IF log[v].event.kind # "rollback" THEN {}
                             ELSE {m \in Messages :
                                     RowsAt(v - 1)[m].seq > log[v].event.after}]
ResetFrame(v) == [kind |-> "reset", cursor |-> At(v)]
SyncFrame(v) == [kind |-> "synchronized", cursor |-> At(v)]
ChunkFrame(v, page) == [kind |-> "chunk", cursor |-> At(v),
                        msgs |-> page.msgs, older |-> page.older]
SnapshotFrame(v, head, background) ==
    [kind |-> "snapshot", cursor |-> At(v), msgs |-> head.msgs,
     older |-> head.older, total |-> Cardinality(Present(Rows)),
     background |-> background]

Closed == [phase |-> "closed", ask |-> None, pend |-> <<>>, history |-> 0,
           through |-> 0, live |-> 0, hub |-> <<>>]
Opened(ask) == [Closed EXCEPT !.phase = "opened", !.ask = ask]

StreamInit ==
    /\ epoch = 0
    /\ log = <<>>
    /\ published = 0
    /\ stream = Closed

(***************************************************************************)
(* Commits, each with its projection, and the publisher.                   *)
(***************************************************************************)
Append1(e) ==
    /\ Len(log) < MaxEvents
    /\ log' = Append(log, [event |-> e, rows |-> Project(Rows, e, Len(log) + 1)])
    /\ UNCHANGED <<epoch, published, stream>>

PersistMessage(m) == Append1([kind |-> "message", id |-> m])

\* The restore removed every row above the message of its checkpoint.
RollBack(s) ==
    LET seqs == {Rows[m].seq : m \in Messages} IN
    /\ Append1([kind |-> "rollback", after |-> s])
    /\ s \in {0} \cup seqs
    /\ \E seq \in seqs : seq > s

SettleTurn == Append1([kind |-> "settled"])

Listening == stream.phase \in {"subscribed", "catching", "tail"}
Heard == [stream EXCEPT !.hub = Append(@, published + 1)]

\* Mutant: one past the head.
Publish_PastHead ==
    /\ Listening
    /\ published <= Len(log)
    /\ published' = published + 1
    /\ stream' = Heard
    /\ UNCHANGED <<epoch, log>>

Publish ==
    /\ Listening
    /\ published < Len(log)
    /\ published' = published + 1
    /\ stream' = Heard
    /\ UNCHANGED <<epoch, log>>

\* The fiber that published is interrupted before it moves durableCursor.
PublishInterrupted ==
    /\ Listening
    /\ published < Len(log)
    /\ stream' = Heard
    /\ UNCHANGED <<epoch, log, published>>

(***************************************************************************)
(* synchronizedEvents.                                                     *)
(***************************************************************************)
Subscribe ==
    /\ stream.phase = "opened"
    /\ stream' = [stream EXCEPT !.phase = "subscribed", !.hub = <<>>]
    /\ UNCHANGED <<epoch, log, published>>

Retained == IF stream.ask.cursor = None THEN 0 ELSE stream.ask.cursor.version
\* Mutant: the epoch is not compared.
EpochMismatch_Ignored == FALSE
EpochMismatch == stream.ask.cursor # None /\ stream.ask.cursor.epoch # epoch

\* One transaction reads the head and what the client misses of it; the bytes
\* of the events may exceed the delta's budget.
Capture(large, cut) ==
    LET through == Len(log)
        invalid == EpochMismatch \/ Retained > through
        needsSnapshot == \/ ~stream.ask.hasProjection
                         \/ stream.ask.cursor = None
                         \/ invalid
                         \/ through - Retained > MaxDelta
                         \/ large
        head == NewestPage(cut)
        delta == [i \in 1..(through - Retained) |-> EventFrame(Retained + i)]
    IN  /\ stream.phase = "subscribed"
        /\ ~needsSnapshot => cut = 0
        /\ cut \in 0..Len(MessagePage(MaxEvents + 1).msgs)
        /\ large => Retained < through
        /\ stream' = [stream EXCEPT
               !.phase = "catching",
               !.pend = (IF invalid THEN <<ResetFrame(through)>> ELSE <<>>)
                        \o (IF needsSnapshot
                            THEN <<SnapshotFrame(through, head,
                                                 stream.ask.background)>>
                            ELSE delta),
               !.history = IF needsSnapshot /\ ~stream.ask.background
                           THEN head.older ELSE 0,
               !.through = through,
               !.live = through]
        /\ UNCHANGED <<epoch, log, published>>

\* What a pull of a catching stream returns, and the stream after it: the
\* captured prefix, then the history page by page, then the barrier.
NextFrame ==
    CASE stream.pend # <<>> -> stream.pend[1]
      [] stream.pend = <<>> /\ stream.history # 0 ->
            ChunkFrame(stream.through, MessagePage(stream.history))
      [] OTHER -> SyncFrame(stream.through)

\* Mutant: the hub is attached to at the barrier.
Pulled_LateAttach ==
    CASE stream.pend # <<>> -> [stream EXCEPT !.pend = Tail(@)]
      [] stream.pend = <<>> /\ stream.history # 0 ->
            [stream EXCEPT !.history = MessagePage(@).older]
      [] OTHER -> [stream EXCEPT !.phase = "tail", !.hub = <<>>]

Pulled ==
    CASE stream.pend # <<>> -> [stream EXCEPT !.pend = Tail(@)]
      [] stream.pend = <<>> /\ stream.history # 0 ->
            [stream EXCEPT !.history = MessagePage(@).older]
      [] OTHER -> [stream EXCEPT !.phase = "tail"]

\* What the tail does with the first notification of the hub.
Repeated == stream.hub[1] <= stream.live
Gap == stream.hub[1] > stream.live + 1
Followed == [stream EXCEPT !.hub = Tail(@),
                           !.live = IF Repeated THEN @ ELSE stream.hub[1]]

\* Another database takes the place of this one, with an earlier history.
Restored(n) ==
    /\ epoch < MaxEpoch
    /\ n \in 0..Len(log)
    /\ epoch' = epoch + 1
    /\ log' = SubSeq(log, 1, n)
    /\ published' = n
    /\ stream' = Closed

\* The engine restarts on its own database.
Rebooted ==
    /\ published' = Len(log)
    /\ stream' = Closed
    /\ UNCHANGED <<epoch, log>>
=============================================================================
