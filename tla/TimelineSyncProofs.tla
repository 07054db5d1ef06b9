-------------------------- MODULE TimelineSyncProofs --------------------------
(*****************************************************************************)
(* Proofs, for every log, page size, kind of client and number of faults,    *)
(* that the stream of a session never skips a version, and that what a client *)
(* shows under its cursor was committed.                                     *)
(*                                                                           *)
(* The first inductive invariant speaks of the log, the publisher and the    *)
(* stream alone: the client's part of a step either leaves the stream alone, *)
(* opens or closes it, or makes one of the steps of SessionStream.  The      *)
(* second, Shape, types everything that is captured, stored or shown.  The   *)
(* third, Faith, says of the cell, of the cache, of the driver's optimistic  *)
(* messages and of the history still to be streamed that they show what was  *)
(* committed.                                                                *)
(*****************************************************************************)
EXTENDS TimelineLemmas, FiniteSetTheorems

-----------------------------------------------------------------------------
(* The stream *)

\* The stream is a record; nothing is said of what it carries for the client.
StreamShape ==
    /\ {"phase", "ask", "pend", "history", "through", "live", "hub"}
          \subseteq DOMAIN stream
    /\ stream.live \in Nat
    /\ stream.hub \in Seq(Nat)

\* A version that was heard is committed; each is at most one above the version
\* heard before it; and the publisher is not ahead of the last one.
HubInOrder ==
    /\ \A i \in 1..Len(stream.hub) : stream.hub[i] <= Len(log)
    /\ \A i \in 1..(Len(stream.hub) - 1) :
          stream.hub[i + 1] <= stream.hub[i] + 1
    /\ stream.hub # <<>> => published <= stream.hub[Len(stream.hub)]

\* Nothing is missing between the captured head and what the hub will bring.
HubJoinsHead ==
    /\ stream.hub = <<>> => published <= stream.live
    /\ stream.hub # <<>> => stream.hub[1] <= stream.live + 1

IInv ==
    /\ log \in Seq(Transaction)
    /\ published \in Nat
    /\ published <= Len(log)
    /\ StreamShape
    /\ Listening => HubInOrder
    /\ stream.phase \in {"catching", "tail"} => HubJoinsHead

\* One more notification at the end.
LEMMA AppendFacts ==
    ASSUME NEW s \in Seq(Nat), NEW x \in Nat
    PROVE  /\ Append(s, x) \in Seq(Nat)
           /\ Append(s, x) # <<>>
           /\ Len(Append(s, x)) = Len(s) + 1
           /\ Append(s, x)[Len(s) + 1] = x
           /\ \A i \in 1..Len(s) : Append(s, x)[i] = s[i]
OBVIOUS

\* One notification less at the front.
LEMMA TailFacts ==
    ASSUME NEW s \in Seq(Nat), s # <<>>
    PROVE  /\ Tail(s) \in Seq(Nat)
           /\ Len(Tail(s)) = Len(s) - 1
           /\ \A i \in 1..(Len(s) - 1) : Tail(s)[i] = s[i + 1] /\ s[i + 1] \in Nat
           /\ \/ Len(s) = 1 /\ Tail(s) = <<>>
              \/ Len(s) > 1 /\ Tail(s) # <<>>
<1>1. /\ Tail(s) \in Seq(Nat)
      /\ Len(Tail(s)) = Len(s) - 1
      /\ \A i \in 1..Len(Tail(s)) : Tail(s)[i] = s[i + 1]
  BY HeadTailProperties
<1>2. Len(s) \in Nat /\ Len(s) # 0
  BY EmptySeq
<1>3. \A i \in 1..(Len(s) - 1) : s[i + 1] \in Nat
  BY <1>2
<1>4. Tail(s) # <<>> => Len(Tail(s)) # 0
  BY <1>1, EmptySeq
<1>5. Tail(s) = <<>> => Len(Tail(s)) = 0
  BY EmptySeq
<1>6. \A n \in Nat : n # 0 => n = 1 \/ n > 1
  OBVIOUS
<1>7. Len(s) = 1 => Tail(s) = <<>>
  BY <1>1, <1>4
<1>8. Len(s) > 1 => Tail(s) # <<>>
  BY <1>1, <1>2, <1>5
<1>9. Len(s) = 1 \/ Len(s) > 1
  BY <1>2, <1>6
<1> QED BY <1>1, <1>3, <1>7, <1>8, <1>9

\* What a commit appends.
LEMMA CommitIsTyped ==
    ASSUME log \in Seq(Transaction), NEW e \in Event, Append1(e)
    PROVE  log' \in Seq(Transaction) /\ Len(log') = Len(log) + 1
<1>1. Len(log) + 1 \in Versions /\ Len(log) \in 0..Len(log)
  BY StreamConstants DEF Append1, Versions
<1>2. Rows \in [Messages -> Row]
  BY <1>1, TablesAreTyped DEF Rows
<1>3. [event |-> e, rows |-> Project(Rows, e, Len(log) + 1)] \in Transaction
  BY <1>1, <1>2, ProjectIsTyped DEF Transaction
<1> QED BY <1>3 DEF Append1

\* At the start there is no stream.
LEMMA InitEstablishes == Init => IInv
<1> SUFFICES ASSUME Init PROVE IInv
  OBVIOUS
<1> USE DEF Init, StreamInit, Closed
<1>1. log \in Seq(Transaction) /\ published \in Nat /\ published <= Len(log)
  OBVIOUS
<1>2. StreamShape
  BY DEF StreamShape
<1>3. ~Listening
  BY DEF Listening
<1> QED BY <1>1, <1>2, <1>3 DEF IInv, Listening

\* A stream that is not attached asks for nothing but its shape.
LEMMA Unattached ==
    ASSUME IInv, stream' = Closed \/ (\E ask : stream' = Opened(ask)),
           log' \in Seq(Transaction), published' \in Nat, published' <= Len(log')
    PROVE  IInv'
<1>1. ASSUME stream' = Closed
      PROVE  stream'.phase \in {"closed", "opened"} /\ StreamShape'
  BY <1>1 DEF Closed, StreamShape
<1>2. ASSUME NEW ask, stream' = Opened(ask)
      PROVE  stream'.phase \in {"closed", "opened"} /\ StreamShape'
  <2>1. stream' = [phase |-> "opened", ask |-> ask, pend |-> <<>>,
                   history |-> 0, through |-> 0, live |-> 0, hub |-> <<>>]
    BY <1>2 DEF Closed, Opened
  <2> QED BY <2>1 DEF StreamShape
<1>3. stream'.phase \in {"closed", "opened"} /\ StreamShape'
  BY <1>1, <1>2
<1> QED BY <1>3 DEF IInv, Listening

\* A step that leaves log, publisher and stream alone.
LEMMA Idle ==
    ASSUME IInv, UNCHANGED <<log, published, stream>>
    PROVE  IInv'
BY DEF IInv, StreamShape, HubInOrder, HubJoinsHead, Listening

\* A commit only makes the log longer.
LEMMA CommitKeeps ==
    ASSUME IInv, NEW e \in Event, Append1(e)
    PROVE  IInv'
<1>1. log' \in Seq(Transaction) /\ Len(log') = Len(log) + 1
  BY CommitIsTyped DEF IInv
<1>2. UNCHANGED <<published, stream>>
  BY DEF Append1
<1>3. StreamShape' /\ published' \in Nat /\ published' <= Len(log')
  BY <1>1, <1>2 DEF IInv, StreamShape
<1>4. Listening' => HubInOrder'
  BY <1>1, <1>2 DEF IInv, Listening, HubInOrder, StreamShape
<1>5. stream'.phase \in {"catching", "tail"} => HubJoinsHead'
  BY <1>2 DEF IInv, HubJoinsHead
<1> QED BY <1>1, <1>3, <1>4, <1>5 DEF IInv

\* Publishing the next version, whether or not the publisher remembers it.
LEMMA PublishKeeps ==
    ASSUME IInv, Listening, published < Len(log), stream' = Heard,
           UNCHANGED log, published' \in {published, published + 1}
    PROVE  IInv'
<1> DEFINE h == stream.hub
<1>1. h \in Seq(Nat) /\ published \in Nat /\ Len(log) \in Nat /\ Len(h) \in Nat
  BY DEF IInv, StreamShape
<1>2. /\ stream'.hub = Append(h, published + 1)
      /\ stream'.live = stream.live
      /\ stream'.phase = stream.phase
      /\ StreamShape'
  BY <1>1 DEF IInv, StreamShape, Heard
<1>3. /\ Len(stream'.hub) = Len(h) + 1
      /\ stream'.hub[Len(h) + 1] = published + 1
      /\ \A i \in 1..Len(h) : stream'.hub[i] = h[i]
      /\ stream'.hub # <<>>
  BY <1>1, <1>2, AppendFacts
<1>4. HubInOrder
  BY DEF IInv
<1>5. \A i \in 1..Len(stream'.hub) : stream'.hub[i] <= Len(log')
  <2> SUFFICES ASSUME NEW i \in 1..(Len(h) + 1)
               PROVE  stream'.hub[i] <= Len(log)
    BY <1>3
  <2>1. CASE i = Len(h) + 1
    BY <2>1, <1>1, <1>3
  <2>2. CASE i \in 1..Len(h)
    BY <2>2, <1>3, <1>4 DEF HubInOrder
  <2> QED BY <2>1, <2>2, <1>1
<1>6. \A i \in 1..(Len(stream'.hub) - 1) :
         stream'.hub[i + 1] <= stream'.hub[i] + 1
  <2> SUFFICES ASSUME NEW i \in 1..Len(h)
               PROVE  stream'.hub[i + 1] <= stream'.hub[i] + 1
    BY <1>1, <1>3
  <2>1. CASE i < Len(h)
    <3>1. i \in 1..(Len(h) - 1) /\ i + 1 \in 1..Len(h)
      BY <2>1, <1>1
    <3>2. stream'.hub[i + 1] = h[i + 1] /\ stream'.hub[i] = h[i]
      BY <3>1, <1>1, <1>3
    <3> QED BY <3>1, <3>2, <1>4 DEF HubInOrder
  <2>2. CASE i = Len(h)
    <3>1. h # <<>> /\ published <= h[Len(h)] /\ h[Len(h)] \in Nat
      BY <2>2, <1>1, <1>4 DEF HubInOrder
    <3>2. stream'.hub[i + 1] = published + 1 /\ stream'.hub[i] = h[Len(h)]
      BY <2>2, <1>3
    <3>3. \A x, y \in Nat : x <= y => x + 1 <= y + 1
      OBVIOUS
    <3> QED BY <1>1, <3>1, <3>2, <3>3
  <2> QED BY <2>1, <2>2, <1>1
<1>7. published' <= stream'.hub[Len(stream'.hub)]
  BY <1>1, <1>3
<1>8. HubInOrder'
  BY <1>5, <1>6, <1>7 DEF HubInOrder
<1>9. ASSUME stream'.phase \in {"catching", "tail"} PROVE HubJoinsHead'
  <2>1. HubJoinsHead /\ stream.live \in Nat
    BY <1>2, <1>9 DEF IInv, StreamShape
  <2>2. CASE h = <<>>
    BY <2>1, <2>2, <1>1, <1>2, <1>3 DEF HubJoinsHead
  <2>3. CASE h # <<>>
    BY <2>1, <2>3, <1>1, <1>2, <1>3 DEF HubJoinsHead
  <2> QED BY <2>2, <2>3
<1> QED BY <1>1, <1>2, <1>8, <1>9 DEF IInv

\* The attachment starts with an empty hub.
LEMMA SubscribeKeeps ==
    ASSUME IInv, Subscribe
    PROVE  IInv'
<1>1. /\ stream'.hub = <<>>
      /\ stream'.phase = "subscribed"
      /\ StreamShape'
  BY DEF IInv, Subscribe, StreamShape
<1>2. HubInOrder'
  BY <1>1 DEF HubInOrder
<1> QED BY <1>1, <1>2 DEF IInv, Subscribe

\* The head is read after the attachment: all that was heard is in it, and all
\* that was published.
LEMMA CaptureKeeps ==
    ASSUME IInv, NEW large, NEW cut, Capture(large, cut)
    PROVE  IInv'
<1>1. /\ stream.phase = "subscribed"
      /\ stream'.hub = stream.hub
      /\ stream'.live = Len(log)
      /\ stream'.phase = "catching"
      /\ UNCHANGED <<log, published>>
  BY DEF IInv, Capture, StreamShape
<1>2. StreamShape'
  BY DEF IInv, Capture, StreamShape
<1>3. HubInOrder /\ stream.hub \in Seq(Nat) /\ Len(log) \in Nat
  BY <1>1 DEF IInv, Listening, StreamShape
<1>4. HubInOrder'
  BY <1>1, <1>3 DEF HubInOrder
<1>5. HubJoinsHead'
  BY <1>1, <1>3 DEF IInv, HubJoinsHead, HubInOrder
<1> QED BY <1>1, <1>2, <1>4, <1>5 DEF IInv

\* The prefix, the history and the barrier leave the hub alone.
LEMMA PulledKeeps ==
    ASSUME IInv, stream.phase = "catching", stream' = Pulled,
           UNCHANGED <<log, published>>
    PROVE  IInv'
<1>1. /\ stream'.hub = stream.hub
      /\ stream'.live = stream.live
      /\ stream'.phase \in {"catching", "tail"}
      /\ StreamShape'
  <2>1. CASE stream.pend # <<>>
    BY <2>1 DEF IInv, Pulled, StreamShape
  <2>2. CASE stream.pend = <<>> /\ stream.history # 0
    BY <2>2 DEF IInv, Pulled, StreamShape
  <2>3. CASE stream.pend = <<>> /\ stream.history = 0
    BY <2>3 DEF IInv, Pulled, StreamShape
  <2> QED BY <2>1, <2>2, <2>3
<1>2. HubInOrder' /\ HubJoinsHead'
  BY <1>1 DEF IInv, Listening, HubInOrder, HubJoinsHead
<1> QED BY <1>1, <1>2 DEF IInv

\* The tail takes the first version heard; the next one follows on it.
LEMMA FollowedKeeps ==
    ASSUME IInv, stream.phase = "tail", stream.hub # <<>>, ~Gap,
           stream' = Followed, UNCHANGED <<log, published>>
    PROVE  IInv'
<1> DEFINE h == stream.hub
<1>1. /\ h \in Seq(Nat) /\ h # <<>> /\ Len(h) \in Nat /\ Len(h) > 0
      /\ stream.live \in Nat /\ published \in Nat /\ Len(log) \in Nat
      /\ h[1] \in Nat
  BY DEF IInv, StreamShape
<1>2. HubInOrder /\ HubJoinsHead
  BY DEF IInv, Listening
<1>3. /\ stream'.hub = Tail(h)
      /\ stream'.live = IF h[1] <= stream.live THEN stream.live ELSE h[1]
      /\ stream'.phase = "tail"
      /\ StreamShape'
  BY <1>1 DEF IInv, StreamShape, Followed, Repeated
<1>4. /\ Len(Tail(h)) = Len(h) - 1
      /\ \A i \in 1..(Len(h) - 1) : Tail(h)[i] = h[i + 1] /\ h[i + 1] \in Nat
      /\ Tail(h) \in Seq(Nat)
      /\ \/ Len(h) = 1 /\ Tail(h) = <<>>
         \/ Len(h) > 1 /\ Tail(h) # <<>>
  BY <1>1, TailFacts
<1>5. HubInOrder'
  <2>1. \A i \in 1..Len(stream'.hub) : stream'.hub[i] <= Len(log')
    BY <1>1, <1>2, <1>3, <1>4 DEF HubInOrder
  <2>2. \A i \in 1..(Len(stream'.hub) - 1) :
           stream'.hub[i + 1] <= stream'.hub[i] + 1
    <3> SUFFICES ASSUME NEW i \in 1..(Len(h) - 2)
                 PROVE  Tail(h)[i + 1] <= Tail(h)[i] + 1
      BY <1>1, <1>3, <1>4
    <3>1. Tail(h)[i] = h[i + 1] /\ Tail(h)[i + 1] = h[(i + 1) + 1]
      BY <1>1, <1>4
    <3>2. h[(i + 1) + 1] <= h[i + 1] + 1
      BY <1>1, <1>2 DEF HubInOrder
    <3> QED BY <3>1, <3>2
  <2>3. stream'.hub # <<>> => published' <= stream'.hub[Len(stream'.hub)]
    <3> SUFFICES ASSUME Tail(h) # <<>>
                 PROVE  published <= Tail(h)[Len(h) - 1]
      BY <1>3, <1>4
    <3>1. Len(h) - 1 \in 1..(Len(h) - 1)
      BY <1>1, <1>4
    <3>2. Tail(h)[Len(h) - 1] = h[Len(h)]
      BY <3>1, <1>1, <1>4
    <3> QED BY <3>2, <1>1, <1>2 DEF HubInOrder
  <2> QED BY <2>1, <2>2, <2>3 DEF HubInOrder
<1>6. h[1] <= stream'.live /\ stream'.live \in Nat
  BY <1>1, <1>3
<1>7. HubJoinsHead'
  <2>1. CASE Len(h) = 1
    <3>1. stream'.hub = <<>>
      BY <2>1, <1>3, <1>4
    <3>2. published <= h[1]
      BY <2>1, <1>1, <1>2 DEF HubInOrder
    <3> QED BY <3>1, <3>2, <1>1, <1>6 DEF HubJoinsHead
  <2>2. CASE Len(h) > 1
    <3>0. 1 \in 1..(Len(h) - 1)
      BY <2>2, <1>1
    <3>1. stream'.hub # <<>> /\ stream'.hub[1] = h[2] /\ h[2] \in Nat
      BY <3>0, <2>2, <1>3, <1>4
    <3>2. h[2] <= h[1] + 1
      BY <3>0, <1>2 DEF HubInOrder
    <3>3. stream'.hub[1] <= stream'.live + 1
      <4>1. \A x, y, l \in Nat : x <= y + 1 /\ y <= l => x <= l + 1
        OBVIOUS
      <4> QED BY <4>1, <3>1, <3>2, <1>1, <1>6
    <3> QED BY <3>1, <3>3 DEF HubJoinsHead
  <2> QED BY <2>1, <2>2, <1>4
<1> QED BY <1>3, <1>5, <1>7 DEF IInv

\* The invariant excludes a jump.
LEMMA InvariantImpliesNoGap == IInv => NoGap
<1> SUFFICES ASSUME IInv, stream.phase = "tail", stream.hub # <<>>
             PROVE  ~Gap
  BY DEF NoGap
<1>1. /\ stream.hub \in Seq(Nat) /\ stream.live \in Nat
      /\ stream.hub[1] \in Nat /\ stream.hub[1] <= stream.live + 1
  BY DEF IInv, StreamShape, HubJoinsHead
<1> QED BY <1>1 DEF Gap

\* The events that are appended are events.
LEMMA EventsAreTyped ==
    /\ \A m \in Messages : [kind |-> "message", id |-> m] \in Event
    /\ \A v \in Versions : [kind |-> "rollback", after |-> v] \in Event
    /\ [kind |-> "settled"] \in Event
BY DEF Event

\* Every step of the composition preserves the invariant.
LEMMA NextKeeps == IInv /\ [Next]_vars => IInv'
<1> SUFFICES ASSUME IInv, [Next]_vars
             PROVE  IInv'
  OBVIOUS
<1>a. log \in Seq(Transaction) /\ published \in Nat /\ published <= Len(log)
  BY DEF IInv
<1>1. CASE Commit
  <2>1. ASSUME NEW m \in Messages \ Users, PersistMessage(m) PROVE IInv'
    BY <2>1, CommitKeeps, EventsAreTyped DEF PersistMessage
  <2>2. ASSUME NEW v \in Versions, RollBack(v) PROVE IInv'
    BY <2>2, CommitKeeps, EventsAreTyped DEF RollBack
  <2>3. CASE SettleTurn
    BY <2>3, CommitKeeps, EventsAreTyped DEF SettleTurn
  <2> QED BY <1>1, <2>1, <2>2, <2>3 DEF Commit
<1>2. ASSUME NEW m \in Users, CommitSent(m) PROVE IInv'
  <2>1. m \in Messages
    BY TimelineConstants
  <2> QED BY <2>1, <1>2, CommitKeeps, EventsAreTyped DEF CommitSent, PersistMessage
<1>3. ASSUME NEW m \in Users, Stage(m) \/ Acknowledge(m) \/ Refuse(m) PROVE IInv'
  BY <1>3, Idle DEF Stage, Acknowledge, Refuse, overlayRest, streamVars
<1>4. CASE PublishNext
  BY <1>4, PublishKeeps DEF PublishNext, Publish
<1>5. CASE PublishTwice
  BY <1>5, PublishKeeps DEF PublishTwice, PublishInterrupted
<1>6. CASE Attach
  BY <1>6, SubscribeKeeps DEF Attach
<1>7. CASE CatchUp
  BY <1>7, CaptureKeeps DEF CatchUp
<1>8. CASE Pull
  BY <1>8, PulledKeeps DEF Pull
<1>9. CASE Follow
  <2>1. CASE Gap
    BY <2>1, <1>9, <1>a, Unattached DEF Follow
  <2>2. CASE ~Gap
    BY <2>2, <1>9, FollowedKeeps DEF Follow
  <2> QED BY <2>1, <2>2
<1>10. CASE ReceiveRuntime \/ Checkpoint
  BY <1>10, Idle DEF ReceiveRuntime, Checkpoint, streamVars
<1>11. CASE ReportFailure \/ MissedEvent \/ Relaunch
  BY <1>11, <1>a, Unattached DEF ReportFailure, MissedEvent, Relaunch
<1>12. CASE Connect
  <2>1. CASE hydrated
    BY <2>1, <1>12, <1>a, Unattached DEF Connect, Start
  <2>2. CASE ~hydrated
    BY <2>2, <1>12, Idle DEF Connect
  <2> QED BY <2>1, <2>2
<1>13. CASE Hydrate
  <2>1. CASE link
    BY <2>1, <1>13, <1>a, Unattached DEF Hydrate, Start
  <2>2. CASE ~link
    BY <2>2, <1>13, Idle DEF Hydrate
  <2> QED BY <2>1, <2>2
<1>14. CASE LoseLink
  <2>1. CASE stream' = Closed /\ UNCHANGED <<epoch, log, published>>
    BY <2>1, <1>a, Unattached
  <2>2. CASE Rebooted
    BY <2>2, <1>a, Unattached DEF Rebooted
  <2>3. ASSUME NEW n \in Versions, Restored(n) PROVE IInv'
    <3>1. n \in 0..Len(log) /\ log' = SubSeq(log, 1, n)
      BY <2>3 DEF Restored
    <3>2. log' \in Seq(Transaction) /\ Len(log') = n /\ n \in Nat
      BY <3>1, <1>a
    <3> QED BY <3>2, <2>3, Unattached DEF Restored
  <2> QED BY <1>14, <2>1, <2>2, <2>3 DEF LoseLink
<1>15. CASE RestoreOptimistic
  BY <1>15, Idle DEF RestoreOptimistic, overlayRest, streamVars
<1>16. CASE AskPage \/ ReadPage \/ ApplyPage
  BY <1>16, Idle DEF AskPage, ReadPage, ApplyPage, pagerRest, streamVars
<1>17. CASE UNCHANGED vars
  BY <1>17, Idle DEF vars, streamVars
<1> QED BY <1>1, <1>2, <1>3, <1>4, <1>5, <1>6, <1>7, <1>8, <1>9, <1>10, <1>11,
           <1>12, <1>13, <1>14, <1>15, <1>16, <1>17 DEF Next

\* Whatever is committed, published once or twice, lost or restarted while a
\* client synchronizes, the tail of synchronizedEvents never meets a version
\* jump: its "Session stream gap" error is unreachable.
THEOREM StreamHasNoGap == Spec => []NoGap
<1>1. Init => IInv
  BY InitEstablishes
<1>2. IInv /\ [Next]_vars => IInv'
  BY NextKeeps
<1>3. IInv => NoGap
  BY InvariantImpliesNoGap
<1> QED BY <1>1, <1>2, <1>3, PTL DEF Spec

-----------------------------------------------------------------------------
(* The shape of the state *)

\* The client's other variables.
Plain ==
    /\ platform \in Platforms
    /\ link \in BOOLEAN
    /\ hydrated \in BOOLEAN
    /\ restored \in BOOLEAN
    /\ misplaced \in BOOLEAN
    /\ outbox \subseteq staged
    /\ staged \subseteq Users
    /\ IsFiniteSet(outbox)
    /\ faults \in 0..MaxFaults

\* A captured frame speaks for a committed version of this database.
FrameOK(f) ==
    /\ f.cursor = At(f.cursor.version)
    /\ f.cursor.version \in 0..Len(log)
    /\ f.kind \in {"event", "snapshot", "reset"}
    /\ f.kind = "event" => /\ f.cursor.version # 0
                           /\ f = EventFrame(f.cursor.version)
    /\ f.kind = "snapshot" => /\ f.msgs \in Seq(Shown)
                              /\ f.older \in 0..(MaxEvents + 1)
                              /\ Faithful(f.msgs, f.older, f.cursor.version)

\* History is streamed to foreground clients only, and after the snapshot that it
\* precedes.
StreamOK ==
    /\ stream.phase \in {"closed", "opened", "subscribed", "catching", "tail"}
    /\ stream.phase # "closed" =>
          /\ stream.ask.background = platform.background
          /\ stream.ask.cursor \in MaybeCursor
    /\ \E S : stream.pend \in Seq(S) /\ \A f \in S : FrameOK(f)
    /\ stream.phase = "catching" => stream.through \in 0..Len(log)
    /\ stream.history \in 0..(MaxEvents + 1)
    /\ stream.history # 0 => ~platform.background
    /\ stream.phase \notin {"catching", "tail"}
          => stream.pend = <<>> /\ stream.history = 0
    /\ stream.history # 0 /\ stream.pend # <<>> =>
          LET f == stream.pend[Len(stream.pend)] IN
          /\ f.kind = "snapshot"
          /\ f.older = stream.history
          /\ f.cursor = At(stream.through)

\* A cursor of this database names a committed version.
CursorOK(c) ==
    /\ c.epoch <= epoch
    /\ c.epoch = epoch => c.version <= Len(log)

\* Without a cursor there is nothing but what the user wrote.
StoredOK(v) ==
    /\ v = [data |-> v.data, cursor |-> v.cursor]
    /\ v.data \in Projection \cup {None}
    /\ v.cursor \in MaybeCursor
    /\ v.cursor # None => v.data # None /\ CursorOK(v.cursor)
    /\ v.cursor = None /\ v.data # None
          => Drafts(v.data.msgs) /\ v.data.older = 0

\* What is stored is a view.
CacheOK == cache # None => StoredOK(cache) /\ cache.data # None

\* A driver runs exactly while the client is connected and hydrated, at the
\* cursor of the cell.
DriverOK ==
    /\ driver = [phase |-> driver.phase, proj |-> driver.proj,
                 cursor |-> driver.cursor, reset |-> driver.reset,
                 opt |-> driver.opt, count |-> driver.count,
                 due |-> driver.due]
    /\ driver.phase \in {"off", "empty", "cached", "synchronizing", "live",
                         "stale", "failed"}
    /\ driver.proj \in Projection \cup {None}
    /\ driver.opt \in Seq(Shown)
    /\ driver.due \in BOOLEAN
    /\ driver.phase # "off" <=> link /\ hydrated
    /\ driver.phase = "off" => driver = Off
    /\ driver.phase # "off" =>
          /\ driver.cursor = view.cursor
          /\ driver.cursor # None => driver.proj # None
          /\ driver.proj # None => view.data # None
    /\ view.cursor # None => hydrated

\* A page that was read is the table of some version since the request.
FlightOK ==
    flight # None =>
        /\ flight = [before |-> flight.before, cursor |-> flight.cursor,
                     page |-> flight.page]
        /\ platform.background
        /\ link
        /\ hydrated
        /\ flight.before \in 1..(MaxEvents + 1)
        /\ flight.cursor \in Cursor
        /\ CursorOK(flight.cursor)
        /\ flight.page # None =>
              \E n \in 0..Len(log) :
                 /\ flight.cursor.epoch = epoch => flight.cursor.version <= n
                 /\ PageFacts(flight.page, flight.before, RowsAt(n))

Shape ==
    /\ LogOK
    /\ epoch \in 0..MaxEpoch
    /\ Plain
    /\ IInv
    /\ StreamOK
    /\ StoredOK(view)
    /\ CacheOK
    /\ DriverOK
    /\ FlightOK

\* A projection is something.
LEMMA NothingIsNone ==
    /\ \A p \in Projection : p # None
    /\ \A c \in Cursor : c # None
    /\ \A p \in Projection :
          /\ p.msgs \in Seq(Shown)
          /\ p.older \in 0..(MaxEvents + 1)
          /\ p = [msgs |-> p.msgs, older |-> p.older]
    /\ \A c \in Cursor :
          /\ c.epoch \in 0..MaxEpoch
          /\ c.version \in Versions
          /\ c.version \in Nat
          /\ c.epoch \in Nat
          /\ c = [epoch |-> c.epoch, version |-> c.version]
<1>1. /\ \A p \in Projection : p # None
      /\ \A c \in Cursor : c # None
  BY NoneIsNothing
<1>2. \A p \in Projection :
          /\ p.msgs \in Seq(Shown)
          /\ p.older \in 0..(MaxEvents + 1)
          /\ p = [msgs |-> p.msgs, older |-> p.older]
  BY DEF Projection
<1>3. \A c \in Cursor :
          /\ c.epoch \in 0..MaxEpoch
          /\ c.version \in Versions
          /\ c = [epoch |-> c.epoch, version |-> c.version]
  BY DEF Cursor
<1>4. \A i \in 0..MaxEpoch : i \in Nat
  BY StreamConstants
<1>5. \A i \in Versions : i \in Nat
  BY StreamConstants DEF Versions
<1> QED BY <1>1, <1>2, <1>3, <1>4, <1>5

\* The frames of a stream stay what they are while the log becomes longer.
LEMMA FrameStays ==
    ASSUME LogOK, Longer, UNCHANGED epoch, NEW f, FrameOK(f)
    PROVE  FrameOK(f)'
<1>1. /\ f.cursor = At(f.cursor.version)
      /\ f.cursor.version \in 0..Len(log)
      /\ f.kind \in {"event", "snapshot", "reset"}
  BY DEF FrameOK
<1>2. /\ f.cursor = At(f.cursor.version)'
      /\ f.cursor.version \in 0..Len(log')
  BY <1>1, LongerFacts DEF At
<1>3. ASSUME f.kind = "event"
      PROVE  f.cursor.version # 0 /\ f = EventFrame(f.cursor.version)'
  <2>0. f.cursor.version # 0 /\ f = EventFrame(f.cursor.version)
    BY <1>3 DEF FrameOK
  <2> DEFINE v == f.cursor.version
  <2>1. /\ \A n \in 0..Len(log) : RowsAt(n)' = RowsAt(n)
        /\ Len(log) \in Nat
    BY LongerFacts
  <2>2. v \in 1..Len(log) /\ v - 1 \in 0..Len(log)
    BY <2>0, <2>1, <1>1
  <2>3. log'[v] = log[v] /\ RowsAt(v - 1)' = RowsAt(v - 1)
    BY <2>1, <2>2 DEF Longer
  <2>4. At(v)' = At(v)
    BY DEF At
  <2>5. EventFrame(v)' = EventFrame(v)
    BY <2>3, <2>4 DEF EventFrame
  <2> QED BY <2>0, <2>5
<1>4. ASSUME f.kind = "snapshot"
      PROVE  /\ f.msgs \in Seq(Shown)
             /\ f.older \in 0..(MaxEvents + 1)
             /\ Faithful(f.msgs, f.older, f.cursor.version)'
  <2>1. /\ f.msgs \in Seq(Shown)
        /\ f.older \in 0..(MaxEvents + 1)
        /\ Faithful(f.msgs, f.older, f.cursor.version)
    BY <1>4 DEF FrameOK
  <2> QED BY <2>1, <1>1, FaithfulForLonger
<1> QED BY <1>1, <1>2, <1>3, <1>4 DEF FrameOK

\* A stream that is left alone.
LEMMA StreamStays ==
    ASSUME LogOK, Longer, StreamOK, UNCHANGED <<epoch, platform, stream>>
    PROVE  StreamOK'
<1>1. PICK S : stream.pend \in Seq(S) /\ \A f \in S : FrameOK(f)
  BY DEF StreamOK
<1>2. \A f \in S : FrameOK(f)'
  BY <1>1, FrameStays
<1>3. stream'.pend \in Seq(S)
  BY <1>1
<1>4. stream'.phase = "catching" => stream'.through \in 0..Len(log')
  BY LongerFacts DEF StreamOK
<1>5. At(stream.through)' = At(stream.through)
  BY DEF At
<1> QED BY <1>2, <1>3, <1>4, <1>5 DEF StreamOK

\* A cursor still points into its log when the log becomes longer or another
\* epoch begins.
LEMMA CursorStays ==
    ASSUME LogOK, LogOK', NEW c \in Cursor, CursorOK(c),
           \/ Longer /\ UNCHANGED epoch
           \/ epoch' = epoch + 1 /\ epoch \in 0..MaxEpoch
    PROVE  CursorOK(c)'
<1>1. c.epoch \in Nat /\ c.version \in Nat
  BY NothingIsNone
<1>2. Len(log) \in Nat /\ Len(log') \in Nat
  BY DEF LogOK
<1>3. CASE Longer /\ UNCHANGED epoch
  BY <1>1, <1>2, <1>3 DEF CursorOK, Longer
<1>4. CASE epoch' = epoch + 1 /\ epoch \in 0..MaxEpoch
  BY <1>1, <1>4, StreamConstants DEF CursorOK
<1> QED BY <1>3, <1>4

\* What was stored keeps its form under the same changes.
LEMMA StoredStays ==
    ASSUME LogOK, LogOK', NEW v, StoredOK(v),
           \/ Longer /\ UNCHANGED epoch
           \/ epoch' = epoch + 1 /\ epoch \in 0..MaxEpoch
    PROVE  StoredOK(v)'
<1>1. v.cursor # None => v.cursor \in Cursor /\ CursorOK(v.cursor)
  BY DEF StoredOK, MaybeCursor
<1>2. v.cursor # None => CursorOK(v.cursor)'
  BY <1>1, CursorStays
<1> QED BY <1>2 DEF StoredOK, Drafts, Draft

\* A request that is left alone.
LEMMA FlightStays ==
    ASSUME LogOK, Longer, FlightOK,
           UNCHANGED <<epoch, platform, link, hydrated, flight>>
    PROVE  FlightOK'
<1> SUFFICES ASSUME flight # None PROVE FlightOK'
  BY DEF FlightOK
<1>1. CursorOK(flight.cursor)'
  <2>1. LogOK'
    BY DEF Longer
  <2>2. PICK c \in Cursor : c = flight.cursor /\ CursorOK(c)
    BY DEF FlightOK
  <2>3. CursorOK(c)'
    BY <2>1, <2>2, CursorStays
  <2> QED BY <2>2, <2>3
<1>2. ASSUME flight.page # None
      PROVE  \E n \in 0..Len(log') :
                 /\ flight.cursor.epoch = epoch => flight.cursor.version <= n
                 /\ PageFacts(flight.page, flight.before, RowsAt(n)')
  <2>1. PICK n \in 0..Len(log) :
                 /\ flight.cursor.epoch = epoch => flight.cursor.version <= n
                 /\ PageFacts(flight.page, flight.before, RowsAt(n))
    BY <1>2 DEF FlightOK
  <2>2. RowsAt(n)' = RowsAt(n) /\ n \in 0..Len(log')
    BY LongerFacts
  <2> QED BY <2>1, <2>2
<1>3. (flight.page # None =>
              \E n \in 0..Len(log) :
                 /\ flight.cursor.epoch = epoch => flight.cursor.version <= n
                 /\ PageFacts(flight.page, flight.before, RowsAt(n)))'
  BY <1>2 DEF PageFacts, Ids
<1> QED BY <1>1, <1>3 DEF FlightOK

-----------------------------------------------------------------------------
(* What the driver observes, and what a frame makes of it *)

\* What the driver put into the cell itself.
Known == IF driver.proj = None THEN <<>> ELSE driver.proj.msgs

\* From place k on, what is not known was written by the user.
NewAt(msgs, known, k) ==
    \A i \in 1..Len(msgs) :
       i >= k /\ msgs[i] \notin ToSet(known) => Draft(msgs[i])

\* What Observe takes for optimistic is.
KnownOK ==
    driver.phase # "off" /\ view.data # None =>
      \/ NewAt(view.data.msgs, Known, 1)
      \/ /\ platform.background
         /\ Known # <<>>
         /\ InLog(Known[1].id)
         /\ Known[1].id \in Ids(view.data.msgs)
         /\ NewAt(view.data.msgs, Known, IndexOf(view.data.msgs, Known[1].id))

\* The driver after Observe shows what the cell shows.
Observed(B) ==
    /\ B = [phase |-> driver.phase, proj |-> view.data,
            cursor |-> view.cursor, reset |-> driver.reset,
            opt |-> B.opt, count |-> driver.count, due |-> driver.due]
    /\ B.opt \in Seq(Shown)

\* Observe takes over what the cell shows; what it takes for optimistic is the
\* user's, when that was so before and the cell holds nothing else unknown.
LEMMA ObserveFacts ==
    ASSUME Shape, driver.phase # "off"
    PROVE  /\ Observed(Observe(driver))
           /\ KnownOK /\ Drafts(driver.opt) => Drafts(Observe(driver).opt)
<1> DEFINE known == Known
           start == IF platform.background /\ known # <<>>
                    THEN IndexOf(view.data.msgs, known[1].id) ELSE 1
           P == {i \in DOMAIN view.data.msgs :
                    i >= start /\ view.data.msgs[i] \notin ToSet(known)}
           news == Selected(view.data.msgs, P)
           B == Observe(driver)
<1>0. /\ driver = [phase |-> driver.phase, proj |-> driver.proj,
                   cursor |-> driver.cursor, reset |-> driver.reset,
                   opt |-> driver.opt, count |-> driver.count,
                   due |-> driver.due]
      /\ driver.opt \in Seq(Shown)
      /\ driver.cursor = view.cursor
      /\ driver.proj # None => view.data # None
      /\ view.data \in Projection \cup {None}
  BY DEF Shape, DriverOK, StoredOK
<1>1. B = IF view.data = None \/ view.data = driver.proj
             \/ view.cursor # driver.cursor
          THEN driver
          ELSE [driver EXCEPT !.proj = view.data,
                              !.opt = UpsertAll(@, news)]
  BY DEF Observe, Known
<1> HIDE DEF news, B
<1>2. CASE view.data = None \/ view.data = driver.proj
  <2>1. B = driver /\ driver.proj = view.data
    BY <1>0, <1>1, <1>2
  <2>2. Observed(B)
    BY <2>1, <1>0 DEF Observed
  <2> QED BY <2>1, <2>2 DEF B
<1>3. CASE view.data # None /\ view.data # driver.proj
  <2>1. /\ B.opt = UpsertAll(driver.opt, news)
        /\ B = [phase |-> driver.phase, proj |-> view.data,
                cursor |-> view.cursor, reset |-> driver.reset,
                opt |-> B.opt, count |-> driver.count, due |-> driver.due]
    BY <1>0, <1>1, <1>3
  <2>2. PICK msgs \in Seq(Shown) : msgs = view.data.msgs
    BY <1>0, <1>3, NothingIsNone
  <2>3. Len(msgs) \in Nat /\ DOMAIN msgs = 1..Len(msgs)
    BY <2>2
  <2>4. P \in SUBSET (1..Len(msgs))
    BY <2>2, <2>3
  <2>5. news = Selected(msgs, P)
    BY <2>2 DEF news
  <2>6. \A i \in P : /\ i \in 1..Len(msgs)
                     /\ i >= start
                     /\ msgs[i] \notin ToSet(known)
    BY <2>2, <2>3
  <2> HIDE DEF P, start
  <2>7. news \in Seq(Shown) /\ \E k : Picks(k, news, msgs, P)
    BY <2>2, <2>4, <2>5, SelectedFacts, Zenon
  <2>8. B.opt \in Seq(Shown)
        /\ (Drafts(driver.opt) /\ Drafts(news) => Drafts(B.opt))
    BY <2>1, <2>7, <1>0, UpsertAllFacts
  <2>9. ASSUME KnownOK PROVE Drafts(news)
    <3>1. PICK k : Picks(k, news, msgs, P)
      BY <2>7
    <3>2. \A j \in 1..Len(news) : k[j] \in P /\ news[j] = msgs[k[j]]
      BY <3>1 DEF Picks
    <3>3. \A i \in P : Draft(msgs[i])
      <4>1. CASE NewAt(msgs, known, 1)
        BY <4>1, <2>3, <2>6 DEF NewAt
      <4>2. CASE /\ platform.background
                 /\ known # <<>>
                 /\ NewAt(msgs, known, IndexOf(msgs, known[1].id))
        <5>1. start = IndexOf(msgs, known[1].id)
          BY <4>2, <2>2 DEF start
        <5> QED BY <4>2, <5>1, <2>6 DEF NewAt
      <4> QED BY <4>1, <4>2, <2>9, <2>2, <1>3 DEF KnownOK, Shape
    <3> QED BY <3>2, <3>3 DEF Drafts
  <2> QED BY <2>1, <2>8, <2>9 DEF Observed, B
<1> QED BY <1>2, <1>3

\* A driver's state, running or just stopped by a frame it cannot take.
StateOK(d) ==
    /\ d = [phase |-> d.phase, proj |-> d.proj, cursor |-> d.cursor,
            reset |-> d.reset, opt |-> d.opt, count |-> d.count, due |-> d.due]
    /\ d.phase \in {"empty", "cached", "synchronizing", "live", "stale", "failed"}
    /\ d.proj \in Projection \cup {None}
    /\ d.cursor \in MaybeCursor
    /\ d.cursor # None => d.proj # None
    /\ d.opt \in Seq(Shown)
    /\ d.due \in BOOLEAN

\* A frame of this database.
FrameTyped(f) ==
    /\ f.cursor \in Cursor
    /\ f.cursor = At(f.cursor.version)
    /\ f.cursor.version \in 0..Len(log)
    /\ f.kind \in {"snapshot", "chunk", "synchronized", "reset", "event"}
    /\ f.kind \in {"snapshot", "chunk"} => /\ f.msgs \in Seq(Shown)
                                           /\ f.older \in 0..(MaxEvents + 1)
    /\ f.kind = "event" => /\ f.cursor.version # 0
                           /\ f = EventFrame(f.cursor.version)

\* The cursor stays, or moves to that of the frame and not back.
Moves(d, r, f) ==
    \/ /\ r.cursor = d.cursor
       /\ d.cursor = None => r.proj = d.proj
    \/ /\ r.cursor = f.cursor
       /\ r.proj # None
       /\ \/ d.cursor = None
          \/ f.kind = "snapshot" /\ d.reset # None
          \/ /\ d.cursor.epoch = f.cursor.epoch
             /\ f.cursor.version >= d.cursor.version

Reduced(d, r, f) ==
    /\ StateOK(r)
    /\ r.proj = None => d.proj = None
    /\ r.due = d.due
    /\ Moves(d, r, f)

\* A stale driver shows what it showed.
LEMMA StaleFacts ==
    ASSUME NEW d, StateOK(d), NEW f
    PROVE  /\ Reduced(d, Stale(d), f)
           /\ Reduced(d, d, f)
           /\ Stale(d).phase = "stale" /\ Stale(d).proj = d.proj
           /\ Stale(d).cursor = d.cursor /\ Stale(d).opt = d.opt
BY DEF StateOK, Stale, Reduced, Moves

\* A snapshot is taken, ignored, or makes the driver stale.
LEMMA SnapshotReduced ==
    ASSUME NEW d, StateOK(d), NEW f, FrameTyped(f), f.kind = "snapshot"
    PROVE  Reduced(d, ReduceSnapshot(d, f), f)
<1> DEFINE new == [msgs |-> f.msgs, older |-> f.older]
           next == Preserve(d, new, f.cursor)
           kept == Without(d.opt, Ids(next.msgs))
           r == ReduceSnapshot(d, f)
           proj == [next EXCEPT !.msgs = @ \o kept]
<1>1. next \in Projection
  BY PreserveIsTyped DEF StateOK, FrameTyped
<1>2. r = IF \/ d.reset # None /\ f.cursor.epoch # d.reset
             \/ /\ d.reset = None /\ d.cursor # None
                /\ f.cursor.epoch # d.cursor.epoch
          THEN Stale(d)
          ELSE IF /\ d.reset = None
                  /\ d.cursor # None
                  /\ f.cursor.version < d.cursor.version
          THEN d
          ELSE [d EXCEPT !.proj = proj,
                         !.opt = kept,
                         !.cursor = f.cursor,
                         !.reset = None,
                         !.phase = "synchronizing",
                         !.count = IF f.background THEN None ELSE f.total]
  BY DEF ReduceSnapshot
<1> HIDE DEF next, r
<1>3. kept \in Seq(Shown)
  BY WithoutFacts DEF StateOK
<1> HIDE DEF kept
<1>4. proj \in Projection
  <2>1. next = [msgs |-> next.msgs, older |-> next.older]
        /\ next.msgs \in Seq(Shown) /\ next.older \in 0..(MaxEvents + 1)
    BY <1>1, NothingIsNone
  <2>2. next.msgs \o kept \in Seq(Shown)
    BY <2>1, <1>3, ConcatFacts
  <2>3. proj = [msgs |-> next.msgs \o kept, older |-> next.older]
    <3>1. PICK a, b : next = [msgs |-> a, older |-> b]
      BY <2>1
    <3>2. PICK joined : joined = next.msgs \o kept
      OBVIOUS
    <3>3. proj = [next EXCEPT !.msgs = joined]
      BY <3>2
    <3>4. proj = [msgs |-> joined, older |-> b] /\ next.older = b
      BY <3>1, <3>3
    <3> QED BY <3>2, <3>4
  <2> QED BY <2>1, <2>2, <2>3 DEF Projection
<1> HIDE DEF proj
<1>5. CASE \/ d.reset # None /\ f.cursor.epoch # d.reset
           \/ /\ d.reset = None /\ d.cursor # None
              /\ f.cursor.epoch # d.cursor.epoch
  BY <1>2, <1>5, StaleFacts DEF r
<1>6. CASE /\ d.reset = None
           /\ d.cursor # None
           /\ f.cursor.epoch = d.cursor.epoch
           /\ f.cursor.version < d.cursor.version
  BY <1>2, <1>6, StaleFacts DEF r
<1>7. CASE /\ ~(\/ d.reset # None /\ f.cursor.epoch # d.reset
                \/ /\ d.reset = None /\ d.cursor # None
                   /\ f.cursor.epoch # d.cursor.epoch)
           /\ ~(/\ d.reset = None
                /\ d.cursor # None
                /\ f.cursor.version < d.cursor.version)
  <2>1. r = [d EXCEPT !.proj = proj,
                         !.opt = kept,
                         !.cursor = f.cursor,
                         !.reset = None,
                         !.phase = "synchronizing",
                         !.count = IF f.background THEN None ELSE f.total]
    BY <1>2, <1>7
  <2>2. /\ r = [phase |-> r.phase, proj |-> r.proj, cursor |-> r.cursor,
                reset |-> r.reset, opt |-> r.opt, count |-> r.count,
                due |-> r.due]
        /\ r.phase = "synchronizing" /\ r.proj = proj /\ r.cursor = f.cursor
        /\ r.opt = kept /\ r.due = d.due
    BY <2>1 DEF StateOK
  <2>3. proj # None
    BY <1>4, NothingIsNone
  <2>4. f.cursor \in Cursor /\ d.due \in BOOLEAN
    BY DEF FrameTyped, StateOK
  <2>5. StateOK(r)
    BY <2>2, <2>3, <2>4, <1>3, <1>4 DEF StateOK, MaybeCursor
  <2>6. \/ d.cursor = None
        \/ f.kind = "snapshot" /\ d.reset # None
        \/ /\ d.cursor.epoch = f.cursor.epoch
           /\ f.cursor.version >= d.cursor.version
    <3>1. d.cursor # None => d.cursor.version \in Nat /\ f.cursor.version \in Nat
      BY NothingIsNone DEF StateOK, MaybeCursor, FrameTyped
    <3> QED BY <3>1, <1>7
  <2> QED BY <2>2, <2>3, <2>5, <2>6 DEF Reduced, Moves, r
<1> QED BY <1>5, <1>6, <1>7

\* A chunk of history leaves the cursor where it is.
LEMMA ChunkReduced ==
    ASSUME NEW d, StateOK(d), NEW f, FrameTyped(f), f.kind = "chunk"
    PROVE  Reduced(d, ReduceChunk(d, f), f)
<1>1. CASE d.proj = None \/ d.cursor # f.cursor
  BY <1>1, StaleFacts DEF ReduceChunk
<1>2. CASE d.proj # None /\ d.cursor = f.cursor
  <2> DEFINE r == ReduceChunk(d, f)
             proj == Prepend(d.proj, f)
  <2>1. r = [d EXCEPT !.proj = proj]
    BY <1>2 DEF ReduceChunk
  <2>2. proj \in Projection
    <3>1. d.proj \in Projection /\ f.msgs \in Seq(Shown)
          /\ f.older \in 0..(MaxEvents + 1)
      BY <1>2 DEF StateOK, FrameTyped
    <3>2. proj.msgs \in Seq(Shown) /\ proj = [msgs |-> proj.msgs, older |-> f.older]
      BY <3>1, PrependFacts
    <3> HIDE DEF proj
    <3> QED BY <3>1, <3>2 DEF Projection
  <2> HIDE DEF proj, r
  <2>3. proj # None
    BY <2>2, NothingIsNone
  <2>4. /\ r = [phase |-> r.phase, proj |-> r.proj, cursor |-> r.cursor,
                reset |-> r.reset, opt |-> r.opt, count |-> r.count,
                due |-> r.due]
        /\ r.phase = d.phase /\ r.proj = proj /\ r.cursor = d.cursor
        /\ r.opt = d.opt /\ r.due = d.due
    BY <2>1 DEF StateOK
  <2>5. StateOK(r)
    BY <2>2, <2>3, <2>4 DEF StateOK
  <2>6. d.cursor # None
    BY <1>2, NothingIsNone DEF FrameTyped
  <2> QED BY <2>3, <2>4, <2>5, <2>6 DEF Reduced, Moves, r
<1> QED BY <1>1, <1>2

\* An event moves the cursor by one, is ignored, or makes the driver stale.
LEMMA EventReduced ==
    ASSUME LogOK, NEW d, StateOK(d), NEW f, FrameTyped(f), f.kind = "event"
    PROVE  Reduced(d, ReduceEvent(d, f), f)
<1> DEFINE r == ReduceEvent(d, f)
           v == f.cursor.version
           proj == Applied(d.proj, f)
           opt == IF f.event.kind = "message"
                  THEN Without(d.opt, {f.event.id}) ELSE d.opt
<1>1. r = IF \/ d.reset # None
             \/ d.cursor # None /\ f.cursor.epoch # d.cursor.epoch
          THEN Stale(d)
          ELSE IF d.cursor # None /\ f.cursor.version <= d.cursor.version
          THEN d
          ELSE IF \/ d.proj = None
                  \/ f.cursor.version # (IF d.cursor = None THEN 0
                                         ELSE d.cursor.version) + 1
          THEN Stale(d)
          ELSE [d EXCEPT !.proj = Applied(@, f),
                         !.opt = IF f.event.kind = "message"
                                 THEN Without(@, {f.event.id}) ELSE @,
                         !.cursor = f.cursor,
                         !.phase = IF @ = "live" THEN @ ELSE "synchronizing"]
  BY DEF ReduceEvent
<1> HIDE DEF r
<1>2. CASE \/ d.reset # None
           \/ d.cursor # None /\ f.cursor.epoch # d.cursor.epoch
  BY <1>1, <1>2, StaleFacts DEF r
<1>3. CASE /\ ~(\/ d.reset # None
                \/ d.cursor # None /\ f.cursor.epoch # d.cursor.epoch)
           /\ d.cursor # None /\ f.cursor.version <= d.cursor.version
  BY <1>1, <1>3, StaleFacts DEF r
<1>4. CASE /\ ~(\/ d.reset # None
                \/ d.cursor # None /\ f.cursor.epoch # d.cursor.epoch)
           /\ ~(d.cursor # None /\ f.cursor.version <= d.cursor.version)
           /\ \/ d.proj = None
              \/ f.cursor.version # (IF d.cursor = None THEN 0
                                     ELSE d.cursor.version) + 1
  BY <1>1, <1>4, StaleFacts DEF r
<1>5. CASE /\ ~(\/ d.reset # None
                \/ d.cursor # None /\ f.cursor.epoch # d.cursor.epoch)
           /\ ~(d.cursor # None /\ f.cursor.version <= d.cursor.version)
           /\ ~(\/ d.proj = None
                \/ f.cursor.version # (IF d.cursor = None THEN 0
                                       ELSE d.cursor.version) + 1)
  <2>1. r = [d EXCEPT !.proj = proj,
                      !.opt = opt,
                      !.cursor = f.cursor,
                      !.phase = IF @ = "live" THEN @ ELSE "synchronizing"]
    BY <1>1, <1>5 DEF StateOK
  <2>2. d.proj \in Projection /\ Len(log) \in Nat /\ v \in 1..Len(log)
        /\ f = EventFrame(v)
    BY <1>5 DEF StateOK, FrameTyped, LogOK
  <2>3. proj \in Projection
    <3>1. PICK w \in 0..Len(log) : w + 1 = v
      <4>1. v - 1 \in 0..Len(log) /\ (v - 1) + 1 = v
        BY <2>2
      <4> QED BY <4>1
    <3>2. w + 1 <= Len(log)
      BY <2>2, <3>1
    <3>3. Applied(d.proj, EventFrame(w + 1)) \in Projection
      BY <2>2, <3>2, EventIsFaithful
    <3> QED BY <3>1, <3>3, <2>2
  <2>4. opt \in Seq(Shown)
    BY WithoutFacts DEF StateOK
  <2> HIDE DEF proj, opt
  <2>5. proj # None
    BY <2>3, NothingIsNone
  <2>6. /\ r = [phase |-> r.phase, proj |-> r.proj, cursor |-> r.cursor,
                reset |-> r.reset, opt |-> r.opt, count |-> r.count,
                due |-> r.due]
        /\ r.phase \in {d.phase, "synchronizing"} /\ r.proj = proj
        /\ r.cursor = f.cursor /\ r.opt = opt /\ r.due = d.due
    BY <2>1 DEF StateOK
  <2>7. f.cursor \in Cursor /\ d.due \in BOOLEAN
    BY DEF FrameTyped, StateOK
  <2>8. StateOK(r)
    BY <2>3, <2>4, <2>5, <2>6, <2>7 DEF StateOK, MaybeCursor
  <2>9. \/ d.cursor = None
        \/ /\ d.cursor.epoch = f.cursor.epoch
           /\ f.cursor.version >= d.cursor.version
    <3>1. d.cursor # None => d.cursor.version \in Nat /\ f.cursor.version \in Nat
      BY NothingIsNone DEF StateOK, MaybeCursor, FrameTyped
    <3> QED BY <3>1, <1>5
  <2> QED BY <2>5, <2>6, <2>8, <2>9 DEF Reduced, Moves, r
<1> QED BY <1>2, <1>3, <1>4, <1>5

\* Every frame leaves a driver's state, and its cursor does not go back.
LEMMA ReduceFacts ==
    ASSUME LogOK, NEW d, StateOK(d), NEW f, FrameTyped(f)
    PROVE  Reduced(d, Reduce(d, f), f)
<1>1. CASE f.kind = "snapshot"
  BY <1>1, SnapshotReduced DEF Reduce
<1>2. CASE f.kind = "chunk"
  BY <1>2, ChunkReduced DEF Reduce
<1>3. CASE f.kind = "event"
  BY <1>3, EventReduced DEF Reduce
<1>4. CASE f.kind = "synchronized"
  <2>1. Reduced(d, ReduceSynchronized(d, f), f)
    <3>1. ReduceSynchronized(d, f) \in
             {Stale(d), [d EXCEPT !.phase = "live", !.count = None]}
      BY DEF ReduceSynchronized
    <3> DEFINE r == [d EXCEPT !.phase = "live", !.count = None]
    <3>0. r = [d EXCEPT !.phase = "live", !.count = None]
      OBVIOUS
    <3> HIDE DEF r
    <3>2. /\ r = [phase |-> r.phase, proj |-> r.proj, cursor |-> r.cursor,
                  reset |-> r.reset, opt |-> r.opt, count |-> r.count,
                  due |-> r.due]
          /\ r.phase = "live" /\ r.proj = d.proj /\ r.cursor = d.cursor
          /\ r.opt = d.opt /\ r.due = d.due
      BY <3>0 DEF StateOK
    <3>3. StateOK(r)
      BY <3>2 DEF StateOK
    <3>4. Reduced(d, r, f)
      BY <3>2, <3>3 DEF Reduced, Moves
    <3> USE DEF r
    <3> QED BY <3>1, <3>4, StaleFacts
  <2> QED BY <1>4, <2>1 DEF Reduce
<1>5. CASE f.kind = "reset"
  <2>1. Reduced(d, ReduceReset(d, f), f)
    <3>1. ReduceReset(d, f) \in
             {d, [d EXCEPT !.reset = f.cursor.epoch, !.phase = "synchronizing"]}
      BY DEF ReduceReset
    <3> DEFINE r == [d EXCEPT !.reset = f.cursor.epoch, !.phase = "synchronizing"]
    <3>0. r = [d EXCEPT !.reset = f.cursor.epoch, !.phase = "synchronizing"]
      OBVIOUS
    <3> HIDE DEF r
    <3>2. /\ r = [phase |-> r.phase, proj |-> r.proj, cursor |-> r.cursor,
                  reset |-> r.reset, opt |-> r.opt, count |-> r.count,
                  due |-> r.due]
          /\ r.phase = "synchronizing" /\ r.proj = d.proj /\ r.cursor = d.cursor
          /\ r.opt = d.opt /\ r.due = d.due
      BY <3>0 DEF StateOK
    <3>3. StateOK(r)
      BY <3>2 DEF StateOK
    <3>4. Reduced(d, r, f)
      BY <3>2, <3>3 DEF Reduced, Moves
    <3> USE DEF r
    <3> QED BY <3>1, <3>4, StaleFacts
  <2> QED BY <1>5, <2>1 DEF Reduce
<1> QED BY <1>1, <1>2, <1>3, <1>4, <1>5 DEF FrameTyped

\* After Observe the driver shows what the cell shows.
LEMMA ObservedState ==
    ASSUME Shape, driver.phase # "off"
    PROVE  /\ StateOK(Observe(driver))
           /\ Observe(driver).proj = view.data
           /\ Observe(driver).cursor = view.cursor
           /\ Observe(driver).phase = driver.phase
<1> DEFINE d == Observe(driver)
<1>1. Observed(d)
  BY ObserveFacts
<1> HIDE DEF d
<1>2. /\ d = [phase |-> d.phase, proj |-> d.proj, cursor |-> d.cursor,
              reset |-> d.reset, opt |-> d.opt, count |-> d.count,
              due |-> d.due]
      /\ d.phase = driver.phase /\ d.proj = view.data /\ d.cursor = view.cursor
      /\ d.due = driver.due /\ d.opt \in Seq(Shown)
  BY <1>1 DEF Observed
<1>3. /\ driver.phase \in {"empty", "cached", "synchronizing", "live", "stale",
                           "failed"}
      /\ driver.due \in BOOLEAN
      /\ view.data \in Projection \cup {None}
      /\ view.cursor \in MaybeCursor
      /\ view.cursor # None => view.data # None
  BY DEF Shape, DriverOK, StoredOK
<1>4. StateOK(d)
  BY <1>2, <1>3 DEF StateOK
<1> QED BY <1>2, <1>4 DEF d

\* The cell accepts what the reducer makes of a frame.
LEMMA ReportFacts ==
    ASSUME StoredOK(view), NEW f, FrameTyped(f),
           NEW d, StateOK(d), d.proj = view.data, d.cursor = view.cursor,
           NEW r, Reduced(d, r, f), Report(f, d, r)
    PROVE  /\ view' = [data |-> r.proj, cursor |-> r.cursor]
           /\ driver' = [r EXCEPT !.due = driver'.due]
           /\ driver'.due \in BOOLEAN
           /\ cache' \in {cache, view'}
           /\ cache' # cache => view'.data # None
<1> DEFINE hasData == r.proj # d.proj /\ r.proj # None
           moved == IF r.cursor # d.cursor THEN r.cursor ELSE None
           accepted == CursorIsAccepted(view.cursor, moved,
                           f.kind = "snapshot" /\ d.reset # None, hasData)
           next == [data   |-> IF hasData THEN r.proj ELSE view.data,
                    cursor |-> IF moved # None THEN moved ELSE view.cursor]
           saves == \/ f.kind = "synchronized" /\ r.phase = "live"
                    \/ /\ f.kind = "event" /\ f.event.kind = "settled"
                       /\ d.phase = "live"
           counts == f.kind = "event" /\ d.phase = "live"
<1>0. /\ StateOK(r) /\ r.due = d.due /\ Moves(d, r, f)
      /\ r.proj = None => d.proj = None
      /\ r = [phase |-> r.phase, proj |-> r.proj, cursor |-> r.cursor,
              reset |-> r.reset, opt |-> r.opt, count |-> r.count,
              due |-> r.due]
      /\ view = [data |-> view.data, cursor |-> view.cursor]
      /\ d.due \in BOOLEAN
  BY DEF Reduced, StateOK, StoredOK
<1>1. IF r = d
      THEN driver' = d /\ UNCHANGED <<view, cache>>
      ELSE IF ~accepted
      THEN driver' = r /\ UNCHANGED <<view, cache>>
      ELSE /\ view' = next
           /\ driver' = [r EXCEPT !.due = ~saves /\ (@ \/ counts)]
           /\ cache' \in IF saves THEN Saved(next) ELSE {cache}
  BY DEF Report
<1>2. accepted
  <2>1. f.cursor \in Cursor /\ d.cursor \in MaybeCursor
    BY DEF FrameTyped, StateOK
  <2>2. CASE moved = None \/ d.cursor = None
    BY <2>2 DEF CursorIsAccepted
  <2>3. CASE moved # None /\ d.cursor # None
    <3>1. moved = f.cursor /\ f.cursor # d.cursor
          /\ \/ f.kind = "snapshot" /\ d.reset # None
             \/ /\ d.cursor.epoch = f.cursor.epoch
                /\ f.cursor.version >= d.cursor.version
      BY <2>3, <1>0 DEF Moves
    <3>2. /\ d.cursor \in Cursor
          /\ d.cursor.version \in Nat /\ f.cursor.version \in Nat
          /\ d.cursor = [epoch |-> d.cursor.epoch, version |-> d.cursor.version]
          /\ f.cursor = [epoch |-> f.cursor.epoch, version |-> f.cursor.version]
      BY <2>1, <2>3, NothingIsNone DEF MaybeCursor
    <3>3. CASE f.kind = "snapshot" /\ d.reset # None
      BY <3>3 DEF CursorIsAccepted
    <3>4. CASE /\ d.cursor.epoch = f.cursor.epoch
               /\ f.cursor.version >= d.cursor.version
      <4>1. f.cursor.version # d.cursor.version
        BY <3>1, <3>2, <3>4
      <4>2. f.cursor.version > d.cursor.version
        BY <3>2, <3>4, <4>1
      <4> HIDE DEF moved, hasData
      <4> QED BY <3>1, <3>4, <4>1, <4>2 DEF CursorIsAccepted
    <3> QED BY <3>1, <3>3, <3>4
  <2> QED BY <2>2, <2>3
<1>3. next = [data |-> r.proj, cursor |-> r.cursor]
  <2>1. (IF hasData THEN r.proj ELSE view.data) = r.proj
    BY <1>0
  <2>2. (IF moved # None THEN moved ELSE view.cursor) = r.cursor
    <3>1. CASE r.cursor = d.cursor
      BY <3>1
    <3>2. CASE r.cursor # d.cursor
      <4>1. r.cursor = f.cursor
        BY <3>2, <1>0 DEF Moves
      <4>2. f.cursor # None
        BY NothingIsNone DEF FrameTyped
      <4> QED BY <3>2, <4>1, <4>2
    <3> QED BY <3>1, <3>2
  <2> QED BY <2>1, <2>2
<1> HIDE DEF next, accepted, hasData, moved
<1>4. CASE r = d
  <2>1. driver' = r /\ UNCHANGED <<view, cache>>
    BY <1>1, <1>4
  <2>2. view' = [data |-> r.proj, cursor |-> r.cursor]
    BY <2>1, <1>4, <1>0
  <2>3. driver' = [r EXCEPT !.due = driver'.due]
    BY <2>1, <1>0
  <2> QED BY <2>1, <2>2, <2>3, <1>0, <1>4
<1>5. CASE r # d
  <2>1. /\ view' = next
        /\ driver' = [r EXCEPT !.due = ~saves /\ (@ \/ counts)]
        /\ cache' \in IF saves THEN Saved(next) ELSE {cache}
    BY <1>1, <1>2, <1>5
  <2>2. PICK due \in BOOLEAN : due = (~saves /\ (r.due \/ counts))
    OBVIOUS
  <2>3. driver' = [r EXCEPT !.due = due]
    BY <2>1, <2>2
  <2> HIDE DEF saves, counts
  <2>4. driver'.due = due
    BY <2>3, <1>0
  <2>5. cache' \in {cache, view'} /\ (cache' # cache => view'.data # None)
    BY <2>1 DEF Saved
  <2> QED BY <2>1, <2>3, <2>4, <2>5, <1>3
<1> QED BY <1>4, <1>5

\* A frame that is received moves the cell along with the driver: the fence of the
\* cell refuses nothing that the driver has accepted.
LEMMA ReceiveFacts ==
    ASSUME Shape, driver.phase # "off", NEW f, FrameTyped(f), Receive(f)
    PROVE  LET d == Observe(driver)
               r == Reduce(d, f)
           IN  /\ StateOK(d) /\ StateOK(r) /\ Moves(d, r, f)
               /\ view' = [data |-> r.proj, cursor |-> r.cursor]
               /\ driver' = [r EXCEPT !.due = driver'.due]
               /\ driver'.due \in BOOLEAN
               /\ cache' \in {cache, view'}
               /\ cache' # cache => view'.data # None
<1> DEFINE d == Observe(driver)
           r == Reduce(d, f)
<1>1. StateOK(d) /\ d.proj = view.data /\ d.cursor = view.cursor
  BY ObservedState
<1>2. Report(f, d, r)
  BY DEF Receive
<1> HIDE DEF d
<1>3. Reduced(d, r, f)
  BY <1>1, ReduceFacts DEF Shape
<1> HIDE DEF r
<1>4. StoredOK(view)
  BY DEF Shape
<1>5. /\ view' = [data |-> r.proj, cursor |-> r.cursor]
      /\ driver' = [r EXCEPT !.due = driver'.due]
      /\ driver'.due \in BOOLEAN
      /\ cache' \in {cache, view'}
      /\ cache' # cache => view'.data # None
  BY <1>1, <1>2, <1>3, <1>4, ReportFacts
<1>6. StateOK(r) /\ Moves(d, r, f)
  BY <1>3 DEF Reduced
<1> QED BY <1>1, <1>5, <1>6 DEF d, r

\* Off is the state of no driver.
LEMMA OffFacts ==
    /\ Off = [phase |-> Off.phase, proj |-> Off.proj, cursor |-> Off.cursor,
              reset |-> Off.reset, opt |-> Off.opt, count |-> Off.count,
              due |-> Off.due]
    /\ Off.phase = "off" /\ Off.proj = None /\ Off.cursor = None
    /\ Off.opt = <<>> /\ Off.opt \in Seq(Shown) /\ Off.due = FALSE
    /\ Drafts(Off.opt)
<1>1. /\ Off.phase = "off" /\ Off.proj = None /\ Off.cursor = None
      /\ Off.opt = <<>> /\ Off.opt \in Seq(Shown) /\ Off.due = FALSE
  BY DEF Off
<1>2. Off = [phase |-> Off.phase, proj |-> Off.proj, cursor |-> Off.cursor,
              reset |-> Off.reset, opt |-> Off.opt, count |-> Off.count,
              due |-> Off.due]
  BY DEF Off
<1>3. Len(Off.opt) = 0
  BY <1>1
<1> QED BY <1>1, <1>2, <1>3 DEF Drafts

\* A state of a running driver that agrees with the cell.
LEMMA DriverRuns ==
    ASSUME StateOK(driver)', driver'.cursor = view'.cursor,
           driver'.proj # None => view'.data # None, link', hydrated'
    PROVE  DriverOK'
BY DEF StateOK, DriverOK

\* The driver's own state while it runs.
LEMMA RunningState ==
    ASSUME Shape, driver.phase # "off"
    PROVE  /\ StateOK(driver)
           /\ driver.cursor = view.cursor
           /\ driver.proj # None => view.data # None
           /\ link /\ hydrated
BY DEF Shape, DriverOK, StateOK, StoredOK

\* A received frame keeps the shape of the cell, the cache and the driver.
LEMMA ReceiveShape ==
    ASSUME Shape, driver.phase # "off", NEW f, FrameTyped(f), Receive(f),
           UNCHANGED <<epoch, log, link, hydrated>>
    PROVE  /\ StoredOK(view)'
           /\ CacheOK'
           /\ DriverOK'
<1> DEFINE d == Observe(driver)
           r == Reduce(d, f)
<1>1. /\ StateOK(d) /\ StateOK(r) /\ Moves(d, r, f)
      /\ view' = [data |-> r.proj, cursor |-> r.cursor]
      /\ driver' = [r EXCEPT !.due = driver'.due]
      /\ driver'.due \in BOOLEAN
      /\ cache' \in {cache, view'}
      /\ cache' # cache => view'.data # None
  BY ReceiveFacts
<1>2. d.proj = view.data /\ d.cursor = view.cursor
  BY ObservedState
<1> HIDE DEF r, d
<1>3. StoredOK(view)
  BY DEF Shape
<1>4. /\ r.proj \in Projection \cup {None}
      /\ r.cursor \in MaybeCursor
      /\ r.cursor # None => r.proj # None
  BY <1>1 DEF StateOK
<1>5. r.cursor # None => CursorOK(r.cursor)
  <2>1. CASE r.cursor = d.cursor
    BY <2>1, <1>2, <1>3 DEF StoredOK
  <2>2. CASE r.cursor = f.cursor
    <3>1. f.cursor.epoch = epoch /\ f.cursor.version <= Len(log) /\ epoch \in Nat
      BY StreamConstants DEF FrameTyped, At, Shape
    <3> QED BY <2>2, <3>1 DEF CursorOK
  <2> QED BY <2>1, <2>2, <1>1 DEF Moves
<1>6. r.cursor = None /\ r.proj # None
      => r.proj = view.data /\ view.cursor = None
  <2>1. f.cursor # None
    BY NothingIsNone DEF FrameTyped
  <2> QED BY <2>1, <1>1, <1>2 DEF Moves
<1>7. StoredOK(view)'
  <2>1. view'.data = r.proj /\ view'.cursor = r.cursor
    BY <1>1
  <2>2. ASSUME r.cursor # None PROVE CursorOK(view.cursor)'
    <3>1. CursorOK(r.cursor)
      BY <2>2, <1>5
    <3> QED BY <2>1, <3>1 DEF CursorOK
  <2>4. view' = [data |-> view'.data, cursor |-> view'.cursor]
    BY <1>1
  <2>5. r.cursor = None /\ r.proj # None
        => Drafts(r.proj.msgs) /\ r.proj.older = 0
    BY <1>6, <1>3 DEF StoredOK
  <2> QED BY <2>1, <2>2, <2>4, <2>5, <1>4 DEF StoredOK, Drafts, Draft
<1>8. CacheOK'
  <2>1. CASE cache' = cache
    <3>1. ASSUME cache # None PROVE StoredOK(cache)' /\ cache'.data # None
      <4>1. StoredOK(cache) /\ cache.data # None
        BY <3>1 DEF Shape, CacheOK
      <4>2. CursorOK(cache.cursor)' <=> CursorOK(cache.cursor)
        BY <2>1 DEF CursorOK
      <4> QED BY <2>1, <4>1, <4>2 DEF StoredOK, Drafts, Draft
    <3> QED BY <2>1, <3>1 DEF CacheOK
  <2>2. CASE cache' # cache
    <3>1. cache' = view' /\ view'.data # None
      BY <2>2, <1>1
    <3>2. StoredOK(cache)'
      BY <3>1, <1>7 DEF StoredOK, CursorOK, Drafts, Draft
    <3> QED BY <3>1, <3>2 DEF CacheOK
  <2> QED BY <2>1, <2>2
<1>9. DriverOK'
  <2>1. /\ r = [phase |-> r.phase, proj |-> r.proj, cursor |-> r.cursor,
                reset |-> r.reset, opt |-> r.opt, count |-> r.count,
                due |-> r.due]
        /\ r.phase \in {"empty", "cached", "synchronizing", "live", "stale",
                        "failed"}
        /\ r.opt \in Seq(Shown)
    BY <1>1 DEF StateOK
  <2>2. /\ driver' = [phase |-> driver'.phase, proj |-> driver'.proj,
                      cursor |-> driver'.cursor, reset |-> driver'.reset,
                      opt |-> driver'.opt, count |-> driver'.count,
                      due |-> driver'.due]
        /\ driver'.phase = r.phase /\ driver'.proj = r.proj
        /\ driver'.cursor = r.cursor /\ driver'.opt = r.opt
    <3>1. PICK b : driver' = [r EXCEPT !.due = b]
      BY <1>1
    <3> QED BY <2>1, <3>1
  <2>3. StateOK(driver)'
    BY <2>1, <2>2, <1>1, <1>4 DEF StateOK
  <2>4. link' /\ hydrated'
    BY RunningState
  <2>5. view'.data = r.proj /\ view'.cursor = r.cursor
    BY <1>1
  <2> QED BY <2>2, <2>3, <2>4, <2>5, DriverRuns
<1> QED BY <1>7, <1>8, <1>9

-----------------------------------------------------------------------------
(* How the stream moves *)

\* A log that is left alone has only become longer.
LEMMA SameIsLonger == ASSUME LogOK, UNCHANGED log PROVE LogOK' /\ Longer
<1>1. \A n : RowsAt(n)' = RowsAt(n)
  BY DEF RowsAt
<1>2. \A n, m : RowOK(n, m)' <=> RowOK(n, m)
  BY <1>1 DEF RowOK
<1>3. \A m : ComesBack(m)' <=> ComesBack(m)
  BY <1>1 DEF ComesBack
<1>4. LogOK'
  BY <1>1, <1>2, <1>3 DEF LogOK, Project
<1> QED BY <1>4 DEF Longer, LogOK

\* Every commit makes the log longer.
LEMMA AppendIsLonger ==
    ASSUME LogOK, NEW e \in Event, Append1(e)
    PROVE  LogOK' /\ Longer /\ UNCHANGED <<epoch, published, stream>>
<1>1. LogOK' /\ Len(log') = Len(log) + 1 /\ \A i \in 1..Len(log) : log'[i] = log[i]
  BY CommitFacts
<1>2. UNCHANGED <<epoch, published, stream>>
  BY DEF Append1
<1>3. Len(log) \in Nat
  BY DEF LogOK
<1>4. Longer
  BY <1>1, <1>3 DEF Longer
<1> QED BY <1>1, <1>2, <1>4

\* A step of the stream that touches neither what is captured nor what was asked.
LEMMA StreamMoves ==
    ASSUME LogOK, Longer, StreamOK, UNCHANGED <<epoch, platform>>,
           stream'.ask = stream.ask, stream'.pend = stream.pend,
           stream'.history = stream.history, stream'.through = stream.through,
           stream'.phase \in {"opened", "subscribed", "catching", "tail"},
           stream.phase # "closed",
           stream'.phase = "catching" => stream.phase = "catching",
           stream'.phase \notin {"catching", "tail"}
              => stream.phase \notin {"catching", "tail"}
    PROVE  StreamOK'
<1>1. PICK S : stream.pend \in Seq(S) /\ \A f \in S : FrameOK(f)
  BY DEF StreamOK
<1>2. \A f \in S : FrameOK(f)'
  BY <1>1, FrameStays
<1>3. stream'.pend \in Seq(S)
  BY <1>1
<1>4. stream'.phase = "catching" => stream'.through \in 0..Len(log')
  BY LongerFacts DEF StreamOK
<1>5. At(stream.through)' = At(stream.through)
  <2>1. \A v : At(v)' = At(v)
    BY DEF At
  <2> QED BY <2>1 DEF At
<1> QED BY <1>2, <1>3, <1>4, <1>5 DEF StreamOK

\* A stream that has captured nothing yet.
LEMMA NoStream ==
    ASSUME \/ stream' = Closed
           \/ \E ask : /\ stream' = Opened(ask)
                       /\ ask.background = platform'.background
                       /\ ask.cursor \in MaybeCursor
    PROVE  StreamOK'
<1>1. /\ stream'.phase \in {"closed", "opened"}
      /\ stream'.phase # "closed" => /\ stream'.ask.background = platform'.background
                                     /\ stream'.ask.cursor \in MaybeCursor
      /\ stream'.pend = <<>> /\ stream'.history = 0
  <2>1. CASE stream' = Closed
    BY <2>1 DEF Closed
  <2>2. ASSUME NEW ask, stream' = Opened(ask),
               ask.background = platform'.background, ask.cursor \in MaybeCursor
        PROVE  /\ stream'.phase = "opened" /\ stream'.ask = ask
               /\ stream'.pend = <<>> /\ stream'.history = 0
    <3>1. stream' = [phase |-> "opened", ask |-> ask, pend |-> <<>>,
                     history |-> 0, through |-> 0, live |-> 0, hub |-> <<>>]
      BY <2>2 DEF Opened, Closed
    <3> QED BY <3>1
  <2> QED BY <2>1, <2>2
<1>2. <<>> \in Seq({})
  OBVIOUS
<1>3. 0 \in 0..(MaxEvents + 1)
  BY StreamConstants
<1>4. \E S : stream'.pend \in Seq(S) /\ \A f \in S : FrameOK(f)'
  <2>1. stream'.pend \in Seq({}) /\ \A f \in {} : FrameOK(f)'
    BY <1>1, <1>2
  <2> QED BY <2>1
<1> QED BY <1>1, <1>3, <1>4 DEF StreamOK

\* A sequence of frames without its first, and with one more.
LEMMA FrameSequences ==
    ASSUME NEW S, NEW p \in Seq(S)
    PROVE  /\ p # <<>> => /\ Tail(p) \in Seq(S)
                          /\ Tail(p) # <<>> => Tail(p)[Len(Tail(p))] = p[Len(p)]
           /\ \A x \in S : /\ p \o <<x>> \in Seq(S)
                            /\ (p \o <<x>>)[Len(p \o <<x>>)] = x
           /\ \A q \in Seq(S) : p \o q \in Seq(S)
<1>1. ASSUME p # <<>>
      PROVE  /\ Tail(p) \in Seq(S)
             /\ Tail(p) # <<>> => Tail(p)[Len(Tail(p))] = p[Len(p)]
  <2>1. /\ Tail(p) \in Seq(S) /\ Len(Tail(p)) = Len(p) - 1
        /\ \A i \in 1..Len(Tail(p)) : Tail(p)[i] = p[i + 1]
    BY <1>1, HeadTailProperties
  <2>2. PICK q \in Seq(S) : q = Tail(p)
    BY <2>1
  <2>3. q # <<>> => Len(q) # 0
    BY EmptySeq
  <2>4. Len(q) \in Nat /\ Len(p) \in Nat
    BY LenProperties
  <2>5. ASSUME q # <<>> PROVE q[Len(q)] = p[Len(p)]
    <3>1. Len(q) \in 1..Len(q) /\ Len(q) + 1 = Len(p)
      BY <2>1, <2>2, <2>3, <2>4, <2>5
    <3> QED BY <3>1, <2>1, <2>2
  <2> QED BY <2>1, <2>2, <2>5
<1>2. ASSUME NEW x \in S
      PROVE  /\ p \o <<x>> \in Seq(S)
             /\ (p \o <<x>>)[Len(p \o <<x>>)] = x
  BY <1>2
<1>3. \A q \in Seq(S) : p \o q \in Seq(S)
  BY ConcatProperties
<1> QED BY <1>1, <1>2, <1>3

\* A pull takes the next frame off the stream and keeps its shape.
LEMMA PullKeepsStream ==
    ASSUME LogOK, StreamOK, StreamShape, stream.phase = "catching",
           stream' = Pulled, UNCHANGED <<epoch, log, platform>>
    PROVE  StreamOK'
<1>0. Longer
  BY SameIsLonger
<1>1. PICK S : stream.pend \in Seq(S) /\ \A f \in S : FrameOK(f)
  BY DEF StreamOK
<1>2. \A f \in S : FrameOK(f)'
  BY <1>0, <1>1, FrameStays
<1>3. \A v : At(v)' = At(v)
  BY DEF At
<1>4. stream.history \in 0..(MaxEvents + 1) /\ MaxEvents \in Nat
  BY StreamConstants DEF StreamOK
<1>5. CASE stream.pend # <<>>
  <2> DEFINE p == stream.pend
             q == Tail(p)
  <2>1. stream' = [stream EXCEPT !.pend = q]
    BY <1>5 DEF Pulled
  <2>2. q \in Seq(S) /\ (q # <<>> => q[Len(q)] = p[Len(p)])
    BY <1>1, <1>5, FrameSequences
  <2> HIDE DEF q
  <2>4. /\ stream'.phase = "catching" /\ stream'.ask = stream.ask
        /\ stream'.pend = q /\ stream'.history = stream.history
        /\ stream'.through = stream.through
    BY <2>1 DEF StreamShape
  <2>5. q # <<>> => p # <<>>
    BY <1>5
  <2>6. q # <<>> /\ stream.history # 0
        => /\ q[Len(q)].kind = "snapshot"
           /\ q[Len(q)].older = stream.history
           /\ q[Len(q)].cursor = At(stream.through)
    BY <2>2, <2>5 DEF StreamOK
  <2>7. At(stream.through)' = At(stream.through)
    BY <2>4 DEF At
  <2>8. \E T : stream'.pend \in Seq(T) /\ \A f \in T : FrameOK(f)'
    BY <2>2, <2>4, <1>2
  <2>9. stream'.through \in 0..Len(log')
    BY <2>4 DEF StreamOK
  <2>10. stream'.ask.background = platform'.background
         /\ stream'.ask.cursor \in MaybeCursor
    BY <2>4 DEF StreamOK
  <2> QED BY <2>4, <2>6, <2>7, <2>8, <2>9, <2>10 DEF StreamOK
<1>6. CASE stream.pend = <<>> /\ stream.history # 0
  <2>1. stream' = [stream EXCEPT !.history = MessagePage(stream.history).older]
    BY <1>6 DEF Pulled
  <2>2. MessagePage(stream.history).older \in 0..(MaxEvents + 1)
    <3>1. stream.history \in 1..(MaxEvents + 1)
      BY <1>4, <1>6
    <3>2. MessagePage(stream.history).older \in 0..(stream.history - 1)
      BY <3>1, MessagePageFacts DEF PageFacts
    <3> QED BY <3>1, <3>2, <1>4
  <2>3. /\ stream'.phase = "catching" /\ stream'.ask = stream.ask
        /\ stream'.pend = <<>>
        /\ stream'.history = MessagePage(stream.history).older
        /\ stream'.through = stream.through
    BY <2>1, <1>6 DEF StreamShape
  <2> QED BY <2>2, <2>3, <1>1, <1>2, <1>6 DEF StreamOK
<1>7. CASE stream.pend = <<>> /\ stream.history = 0
  <2>1. stream' = [stream EXCEPT !.phase = "tail"]
    BY <1>7 DEF Pulled
  <2>2. /\ stream'.phase = "tail" /\ stream'.ask = stream.ask
        /\ stream'.pend = stream.pend /\ stream'.history = stream.history
        /\ stream'.through = stream.through
    BY <2>1 DEF StreamShape
  <2> QED BY <2>2, <1>0, StreamMoves
<1> QED BY <1>5, <1>6, <1>7

\* A capture puts frames of this database on the stream.
LEMMA CaptureKeepsStream ==
    ASSUME LogOK, StreamOK, StreamShape, epoch \in 0..MaxEpoch, NEW large,
           NEW cut, Capture(large, cut), UNCHANGED platform
    PROVE  StreamOK'
<1> DEFINE L == Len(log)
           invalid == EpochMismatch \/ Retained > L
           needs == \/ ~stream.ask.hasProjection
                    \/ stream.ask.cursor = None
                    \/ invalid
                    \/ L - Retained > MaxDelta
                    \/ large
           head == NewestPage(cut)
           snap == SnapshotFrame(L, head, stream.ask.background)
           delta == [i \in 1..(L - Retained) |-> EventFrame(Retained + i)]
           p == IF invalid THEN <<ResetFrame(L)>> ELSE <<>>
           q == IF needs THEN <<snap>> ELSE delta
           older == IF needs /\ ~stream.ask.background THEN head.older ELSE 0
           S == {f \in {ResetFrame(L), snap} \cup {EventFrame(v) : v \in 1..L} :
                   FrameOK(f)}
<1>0. /\ stream.phase = "subscribed"
      /\ cut \in 0..Len(MessagePage(MaxEvents + 1).msgs)
      /\ stream' = [stream EXCEPT !.phase = "catching",
                                  !.pend = p \o q,
                                  !.history = older,
                                  !.through = L,
                                  !.live = L]
      /\ UNCHANGED <<epoch, log, published>>
  BY DEF Capture
<1>1. L \in Nat /\ L \in 0..L /\ L \in Versions
  BY StreamConstants DEF LogOK, Versions
<1>2. /\ head.msgs \in Seq(Shown) /\ head.older \in 0..(MaxEvents + 1)
      /\ Faithful(head.msgs, head.older, L)
  <2>2. cut \in Nat /\ cut <= Len(MessagePage(MaxEvents + 1).msgs)
    <3>1. MaxEvents + 1 \in 1..(MaxEvents + 1)
      BY StreamConstants
    <3>2. MessagePage(MaxEvents + 1).msgs \in Seq(Shown)
      BY <3>1, MessagePageFacts DEF PageFacts
    <3>3. Len(MessagePage(MaxEvents + 1).msgs) \in Nat
      BY <3>2
    <3> QED BY <3>3, <1>0
  <2> QED BY <2>2, HeadIsFaithful
<1>3. Retained \in Nat
  BY <1>0, NothingIsNone DEF StreamOK, MaybeCursor, Retained
<1>4. FrameOK(ResetFrame(L)) /\ FrameOK(snap)
  <2>1. /\ ResetFrame(L).kind = "reset" /\ ResetFrame(L).cursor = At(L)
        /\ At(L).version = L
    BY DEF ResetFrame, At
  <2>2. /\ snap.kind = "snapshot" /\ snap.cursor = At(L)
        /\ snap.msgs = head.msgs /\ snap.older = head.older
    BY DEF SnapshotFrame
  <2> HIDE DEF snap, head
  <2> QED BY <2>1, <2>2, <1>1, <1>2 DEF FrameOK
<1>5. ASSUME NEW v \in 1..L PROVE FrameOK(EventFrame(v))
  <2>1. EventFrame(v).kind = "event" /\ EventFrame(v).cursor = At(v)
        /\ At(v).version = v
    BY DEF EventFrame, At
  <2> QED BY <2>1, <1>1 DEF FrameOK
<1> DEFINE reset == ResetFrame(L)
<1>x. reset \in S /\ snap \in S
  BY <1>4
<1>6. p \in Seq(S)
  <2> HIDE DEF S, reset
  <2>1. <<>> \in Seq(S) /\ <<reset>> \in Seq(S)
    BY <1>x
  <2> QED BY <2>1 DEF reset
<1>7. q \in Seq(S)
  <2>1. <<snap>> \in Seq(S)
    <3> HIDE DEF S, snap
    <3> QED BY <1>x
  <2>2. ASSUME ~needs PROVE delta \in Seq(S)
    <3>1. ~(Retained > L)
      BY <2>2
    <3>2. PICK k \in Nat : k = Retained
      BY <1>3
    <3>3. \A i \in 1..(L - k) : k + i \in 1..L
      BY <1>1, <3>1, <3>2
    <3>4. L - k \in Nat
      BY <1>1, <3>1, <3>2
    <3>5. \A i \in 1..(L - k) : EventFrame(k + i) \in S
      BY <3>3, <1>5
    <3>6. delta = [i \in 1..(L - k) |-> EventFrame(k + i)]
      BY <3>2
    <3> HIDE DEF S, L, delta
    <3> QED BY <3>4, <3>5, <3>6
  <2> HIDE DEF S, snap, delta, needs
  <2> QED BY <2>1, <2>2
<1>8. \A f \in S : FrameOK(f)'
  <2>1. Longer
    BY <1>0, SameIsLonger
  <2>2. \A f \in S : FrameOK(f)
    OBVIOUS
  <2> QED BY <2>1, <2>2, <1>0, FrameStays
<1>9. needs => (p \o q)[Len(p \o q)] = snap
  <2>1. needs => q = <<snap>>
    OBVIOUS
  <2> HIDE DEF S, p, q, snap, needs
  <2>2. (p \o <<snap>>)[Len(p \o <<snap>>)] = snap
    BY <1>6, <1>x, FrameSequences
  <2> QED BY <2>1, <2>2
<1>10. /\ snap.kind = "snapshot" /\ snap.cursor = At(L) /\ snap.older = head.older
  BY DEF SnapshotFrame
<1>11. older # 0 => needs /\ ~stream.ask.background /\ older = head.older
  OBVIOUS
<1>12. older \in 0..(MaxEvents + 1)
  BY <1>2, StreamConstants
<1> HIDE DEF p, q, older, S, snap, head, needs, invalid
<1>13. p \o q \in Seq(S)
  BY <1>6, <1>7, FrameSequences
<1>14. /\ stream'.phase = "catching" /\ stream'.ask = stream.ask
       /\ stream'.pend = p \o q /\ stream'.history = older
       /\ stream'.through = L
  BY <1>0 DEF StreamShape
<1>15. stream.ask.background = platform.background
       /\ stream.ask.cursor \in MaybeCursor
  BY <1>0 DEF StreamOK
<1>16. At(L)' = At(L) /\ L \in 0..Len(log')
  BY <1>0, <1>1 DEF At
<1>17. \E T : stream'.pend \in Seq(T) /\ \A f \in T : FrameOK(f)'
  BY <1>8, <1>13, <1>14
<1>18. stream'.history # 0 /\ stream'.pend # <<>>
       => /\ stream'.pend[Len(stream'.pend)].kind = "snapshot"
          /\ stream'.pend[Len(stream'.pend)].older = stream'.history
          /\ stream'.pend[Len(stream'.pend)].cursor = At(stream.through)'
  <2>1. At(stream.through)' = At(L)
    BY <1>0, <1>14 DEF At
  <2>2. stream'.history # 0 => /\ stream'.pend[Len(stream'.pend)] = snap
                               /\ head.older = stream'.history
    BY <1>9, <1>11, <1>14
  <2> QED BY <1>10, <2>1, <2>2
<1> QED BY <1>0, <1>11, <1>12, <1>14, <1>15, <1>16, <1>17, <1>18 DEF StreamOK

-----------------------------------------------------------------------------
(* What a step leaves alone *)

\* Nothing but the log, the epoch and the stream changes under the client.
LEMMA StoredWas ==
    ASSUME LogOK, LogOK', NEW v, StoredOK(v),
           \/ Longer /\ UNCHANGED epoch
           \/ epoch' = epoch + 1 /\ epoch \in 0..MaxEpoch
    PROVE  /\ view' = v => StoredOK(view)'
           /\ cache' = v /\ v.data # None => CacheOK'
<1>1. StoredOK(v)'
  BY StoredStays
<1> QED BY <1>1 DEF StoredOK, CacheOK, CursorOK, Drafts, Draft

\* The cache keeps its form while it is left alone.
LEMMA CacheStays ==
    ASSUME LogOK, LogOK', CacheOK, UNCHANGED cache,
           \/ Longer /\ UNCHANGED epoch
           \/ epoch' = epoch + 1 /\ epoch \in 0..MaxEpoch
    PROVE  CacheOK'
<1>1. CASE cache = None
  BY <1>1 DEF CacheOK
<1>2. CASE cache # None
  <2>1. PICK v : v = cache /\ StoredOK(v) /\ v.data # None
    BY <1>2 DEF CacheOK
  <2>2. cache' = v
    BY <2>1
  <2> QED BY <2>1, <2>2, StoredWas, Zenon
<1> QED BY <1>1, <1>2

\* The cell keeps its form while it is left alone.
LEMMA ViewStays ==
    ASSUME LogOK, LogOK', StoredOK(view), UNCHANGED view,
           \/ Longer /\ UNCHANGED epoch
           \/ epoch' = epoch + 1 /\ epoch \in 0..MaxEpoch
    PROVE  StoredOK(view)'
<1>1. PICK v : v = view /\ StoredOK(v)
  OBVIOUS
<1>2. view' = v
  BY <1>1
<1> QED BY <1>1, <1>2, StoredWas, Zenon

\* A write of the view to the cache, done or lost.
LEMMA SavedView ==
    ASSUME LogOK, LogOK', CacheOK, StoredOK(view)', cache' \in Saved(view'),
           Longer, UNCHANGED epoch
    PROVE  CacheOK'
<1>1. CASE cache' = cache
  BY <1>1, CacheStays
<1>2. CASE cache' # cache
  <2>1. cache' = view' /\ view'.data # None
    BY <1>2 DEF Saved
  <2> QED BY <2>1 DEF CacheOK, StoredOK, CursorOK, Drafts, Draft
<1> QED BY <1>1, <1>2

\* A driver that is left alone.
LEMMA DriverStays ==
    ASSUME DriverOK, UNCHANGED <<driver, link, hydrated>>,
           view'.cursor = view.cursor,
           view.data # None => view'.data # None
    PROVE  DriverOK'
BY DEF DriverOK, Off

\* The cell has the form of what is put into it.
LEMMA StoredAfter ==
    ASSUME NEW v, StoredOK(v), view' = v, UNCHANGED <<epoch, log>>
    PROVE  StoredOK(view)'
BY DEF StoredOK, CursorOK, Drafts, Draft

\* The simple variables keep their types.
LEMMA PlainStays ==
    ASSUME Plain,
           UNCHANGED <<platform, restored, outbox, staged>>,
           link' \in BOOLEAN, hydrated' \in BOOLEAN, misplaced' \in BOOLEAN,
           faults' \in {faults, faults + 1}, faults' # faults => faults < MaxFaults
    PROVE  Plain'
<1>1. faults' \in 0..MaxFaults
  BY TimelineConstants DEF Plain
<1> QED BY <1>1 DEF Plain

\* The commits.
LEMMA CommitShape ==
    ASSUME Shape, IInv', NEW e \in Event, Append1(e), UNCHANGED clientVars
    PROVE  Shape'
<1>1. LogOK' /\ Longer /\ UNCHANGED <<epoch, stream>>
  BY AppendIsLonger DEF Shape
<1>2. StreamOK'
  BY <1>1, StreamStays DEF Shape, clientVars
<1>3. StoredOK(view)' /\ CacheOK'
  BY <1>1, ViewStays, CacheStays DEF Shape, clientVars
<1>4. DriverOK'
  BY DriverStays DEF Shape, clientVars
<1>5. FlightOK'
  BY <1>1, FlightStays DEF Shape, clientVars
<1>6. Plain' /\ epoch' \in 0..MaxEpoch
  BY <1>1 DEF Shape, Plain, clientVars
<1> QED BY <1>1, <1>2, <1>3, <1>4, <1>5, <1>6 DEF Shape

\* A step of the stream alone.
LEMMA StreamShapeKept ==
    ASSUME Shape, IInv', StreamOK', UNCHANGED <<epoch, log>>,
           UNCHANGED <<platform, link, hydrated, view, driver, cache,
                       flight, staged, outbox, restored, misplaced>>,
           faults' \in {faults, faults + 1}, faults' # faults => faults < MaxFaults
    PROVE  Shape'
<1>1. LogOK' /\ Longer
  BY SameIsLonger DEF Shape
<1>3. StoredOK(view)' /\ CacheOK'
  BY <1>1, ViewStays, CacheStays DEF Shape
<1>4. DriverOK'
  BY DriverStays DEF Shape
<1>5. FlightOK'
  BY <1>1, FlightStays DEF Shape
<1>6. Plain'
  BY PlainStays DEF Shape, Plain
<1> QED BY <1>1, <1>3, <1>4, <1>5, <1>6 DEF Shape

-----------------------------------------------------------------------------
(* The driver *)

\* A version of the log has a cursor.
LEMMA CursorOfHere ==
    ASSUME LogOK, epoch \in 0..MaxEpoch, NEW v \in 0..Len(log)
    PROVE  At(v) \in Cursor /\ At(v).version = v /\ At(v).epoch = epoch
<1>1. v \in Versions
  BY StreamConstants DEF LogOK, Versions
<1> QED BY <1>1 DEF At, Cursor

\* A captured frame is a frame of this database.
LEMMA FrameIsTyped ==
    ASSUME LogOK, epoch \in 0..MaxEpoch, NEW f, FrameOK(f)
    PROVE  FrameTyped(f)
<1>1. At(f.cursor.version) \in Cursor
  BY CursorOfHere DEF FrameOK
<1> QED BY <1>1 DEF FrameOK, FrameTyped

\* The first of the captured frames is one.
LEMMA FirstFrame ==
    ASSUME StreamOK, stream.pend # <<>>
    PROVE  FrameOK(stream.pend[1])
<1>1. PICK S : stream.pend \in Seq(S) /\ \A f \in S : FrameOK(f)
  BY DEF StreamOK
<1>2. stream.pend[1] \in S
  BY <1>1, EmptySeq
<1> QED BY <1>1, <1>2

\* So is whatever is pulled next.
LEMMA NextFrameIsTyped ==
    ASSUME LogOK, epoch \in 0..MaxEpoch, StreamOK, stream.phase = "catching"
    PROVE  FrameTyped(NextFrame)
<1>0. stream.through \in 0..Len(log) /\ stream.history \in 0..(MaxEvents + 1)
  BY DEF StreamOK
<1>1. /\ At(stream.through) \in Cursor
      /\ At(stream.through) = At(At(stream.through).version)
      /\ At(stream.through).version \in 0..Len(log)
  BY <1>0, CursorOfHere
<1>2. CASE stream.pend # <<>>
  <2>1. NextFrame = stream.pend[1]
    BY <1>2 DEF NextFrame
  <2> QED BY <1>2, <2>1, FirstFrame, FrameIsTyped
<1>3. CASE stream.pend = <<>> /\ stream.history # 0
  <2> DEFINE page == MessagePage(stream.history)
             f == ChunkFrame(stream.through, page)
  <2>1. NextFrame = f
    BY <1>3 DEF NextFrame
  <2>2. stream.history \in 1..(MaxEvents + 1) /\ MaxEvents \in Nat
    BY <1>0, <1>3, StreamConstants
  <2>3. page.msgs \in Seq(Shown) /\ page.older \in 0..(stream.history - 1)
    BY <2>2, MessagePageFacts DEF PageFacts
  <2>4. page.older \in 0..(MaxEvents + 1)
    BY <2>2, <2>3
  <2> HIDE DEF page
  <2>5. /\ f.kind = "chunk" /\ f.cursor = At(stream.through)
        /\ f.msgs = page.msgs /\ f.older = page.older
    BY DEF ChunkFrame
  <2> HIDE DEF f
  <2>6. FrameTyped(f)
    BY <1>1, <2>3, <2>4, <2>5 DEF FrameTyped
  <2> QED BY <2>1, <2>6
<1>4. CASE stream.pend = <<>> /\ stream.history = 0
  <2> DEFINE f == SyncFrame(stream.through)
  <2>1. NextFrame = f
    BY <1>4 DEF NextFrame
  <2>2. f.kind = "synchronized" /\ f.cursor = At(stream.through)
    BY DEF SyncFrame
  <2> HIDE DEF f
  <2>3. FrameTyped(f)
    BY <1>1, <2>2 DEF FrameTyped
  <2> QED BY <2>1, <2>3
<1> QED BY <1>2, <1>3, <1>4

\* A running driver is not off.
LEMMA RunningIsOn == Running => driver.phase # "off"
BY DEF Running

\* The driver pulls a frame.
LEMMA PullShape ==
    ASSUME Shape, IInv', Pull
    PROVE  Shape'
<1>1. /\ driver.phase # "off" /\ stream.phase = "catching" /\ stream' = Pulled
      /\ UNCHANGED <<epoch, log, published, platform, link, hydrated, flight,
                     staged, outbox, restored, faults>>
  BY RunningIsOn DEF Pull, restVars
<1>2. PICK f : /\ f = NextFrame
               /\ Receive(f)
               /\ misplaced' = (misplaced \/ Displaces(Observe(driver), f))
  BY DEF Pull
<1>3. FrameTyped(f)
  BY <1>1, <1>2, NextFrameIsTyped DEF Shape
<1>4. StoredOK(view)' /\ CacheOK' /\ DriverOK'
  BY <1>1, <1>2, <1>3, ReceiveShape
<1>5. LogOK' /\ Longer
  BY <1>1, SameIsLonger DEF Shape
<1>6. StreamOK'
  BY <1>1, PullKeepsStream DEF Shape, IInv
<1>7. FlightOK'
  BY <1>1, <1>5, FlightStays DEF Shape
<1>8. misplaced' \in BOOLEAN
  BY <1>2 DEF Shape, Plain, Displaces
<1>9. Plain'
  BY <1>1, <1>8 DEF Shape, Plain
<1>10. epoch' \in 0..MaxEpoch
  BY <1>1 DEF Shape
<1> QED BY <1>4, <1>5, <1>6, <1>7, <1>9, <1>10 DEF Shape

\* What the hub has brought when the tail applies it.
LEMMA HeardIsCommitted ==
    ASSUME Shape, stream.phase = "tail", stream.hub # <<>>, ~Repeated
    PROVE  FrameTyped(EventFrame(stream.hub[1]))
<1> DEFINE v == stream.hub[1]
<1>1. /\ stream.hub \in Seq(Nat) /\ stream.live \in Nat /\ HubInOrder
  BY DEF Shape, IInv, StreamShape, Listening
<1>2. Len(stream.hub) \in Nat /\ Len(stream.hub) # 0
  BY <1>1, EmptySeq
<1>3. 1 \in 1..Len(stream.hub) /\ v \in Nat
  BY <1>1, <1>2
<1>4. v <= Len(log)
  BY <1>1, <1>3 DEF HubInOrder
<1>5. v \in 0..Len(log) /\ v # 0
  BY <1>1, <1>3, <1>4 DEF Repeated, Shape, LogOK
<1> HIDE DEF v
<1>6. At(v) \in Cursor /\ At(v).version = v
  BY <1>5, CursorOfHere DEF Shape
<1>7. EventFrame(v).kind = "event" /\ EventFrame(v).cursor = At(v)
  BY DEF EventFrame
<1>8. FrameTyped(EventFrame(v))
  BY <1>5, <1>6, <1>7 DEF FrameTyped
<1> QED BY <1>8 DEF v

\* The driver follows the tail.
LEMMA FollowShape ==
    ASSUME Shape, IInv', Follow
    PROVE  Shape'
<1>0. ~Gap
  BY InvariantImpliesNoGap DEF Shape, NoGap, Follow
<1>1. /\ driver.phase # "off" /\ stream.phase = "tail" /\ stream.hub # <<>>
      /\ stream' = Followed
      /\ IF Repeated THEN UNCHANGED <<view, driver, cache>>
         ELSE Receive(EventFrame(stream.hub[1]))
      /\ UNCHANGED <<epoch, log, published, platform, link, hydrated, flight,
                     staged, outbox, restored, faults, misplaced>>
  BY <1>0, RunningIsOn DEF Follow, restVars
<1>2. LogOK' /\ Longer
  BY <1>1, SameIsLonger DEF Shape
<1>3. StreamOK'
  <2>1. /\ stream'.ask = stream.ask /\ stream'.pend = stream.pend
        /\ stream'.history = stream.history
        /\ stream'.through = stream.through /\ stream'.phase = "tail"
    BY <1>1 DEF Followed, Shape, IInv, StreamShape
  <2> QED BY <1>1, <1>2, <2>1, StreamMoves DEF Shape
<1>4. CASE Repeated
  <2>1. UNCHANGED <<view, driver, cache>>
    BY <1>1, <1>4
  <2> QED BY <1>1, <1>3, <2>1, StreamShapeKept
<1>5. CASE ~Repeated
  <2>1. PICK f : f = EventFrame(stream.hub[1]) /\ Receive(f)
    BY <1>1, <1>5
  <2>2. FrameTyped(f)
    BY <1>1, <1>5, <2>1, HeardIsCommitted
  <2>3. StoredOK(view)' /\ CacheOK' /\ DriverOK'
    BY <1>1, <2>1, <2>2, ReceiveShape
  <2>4. FlightOK'
    BY <1>1, <1>2, FlightStays DEF Shape
  <2>5. Plain' /\ epoch' \in 0..MaxEpoch
    BY <1>1 DEF Shape, Plain
  <2> QED BY <1>2, <1>3, <2>3, <2>4, <2>5 DEF Shape
<1> QED BY <1>4, <1>5

\* A runtime frame makes the driver observe the cell.
LEMMA RuntimeShape ==
    ASSUME Shape, IInv', ReceiveRuntime
    PROVE  Shape'
<1>1. /\ driver.phase # "off" /\ driver' = Observe(driver)
      /\ UNCHANGED <<epoch, log, published, stream, platform, link, hydrated,
                     flight, staged, outbox, restored, faults, misplaced,
                     view, cache>>
  BY RunningIsOn DEF ReceiveRuntime, restVars, streamVars
<1>2. LogOK' /\ Longer
  BY <1>1, SameIsLonger DEF Shape
<1>3. StoredOK(view)' /\ CacheOK'
  BY <1>1, <1>2, ViewStays, CacheStays DEF Shape
<1>4. StreamOK' /\ FlightOK'
  BY <1>1, <1>2, StreamStays, FlightStays DEF Shape
<1>5. DriverOK'
  <2>1. PICK d : d = Observe(driver)
    OBVIOUS
  <2>2. StateOK(d) /\ d.proj = view.data /\ d.cursor = view.cursor
    BY <1>1, <2>1, ObservedState
  <2>3. StateOK(driver)'
    BY <1>1, <2>1, <2>2 DEF StateOK
  <2>4. link' /\ hydrated'
    BY <1>1, RunningState
  <2> QED BY <1>1, <2>1, <2>2, <2>3, <2>4, DriverRuns
<1>6. Plain' /\ epoch' \in 0..MaxEpoch
  BY <1>1 DEF Shape, Plain
<1> QED BY <1>2, <1>3, <1>4, <1>5, <1>6 DEF Shape

-----------------------------------------------------------------------------
(* The link and the application *)

\* What the driver saves is what the cell shows.
LEMMA PersistedIsView ==
    ASSUME Shape, driver.phase # "off"
    PROVE  Persisted = view
<1>1. driver.cursor = view.cursor
      /\ view = [data |-> view.data, cursor |-> view.cursor]
  BY DEF Shape, DriverOK, StoredOK
<1>2. [view EXCEPT !.cursor = driver.cursor] = view
  BY <1>1
<1> QED BY <1>2 DEF Persisted

\* A driver that stops leaves the cell as it is: its cursor and the cell's are the
\* same, so that persistCurrent has nothing to change.
LEMMA StoppedFacts ==
    ASSUME Shape, Stopped
    PROVE  /\ view' = view
           /\ cache' \in {cache, view}
           /\ cache' # cache => view.data # None
           /\ link' = FALSE /\ driver' = Off /\ flight' = None
<1>1. CASE driver.phase = "off" \/ driver.proj = None \/ driver.cursor = None
  BY <1>1 DEF Stopped
<1>2. CASE ~(driver.phase = "off" \/ driver.proj = None \/ driver.cursor = None)
  BY <1>2, PersistedIsView DEF Stopped, Saved
<1> QED BY <1>1, <1>2

\* The link is gone, whatever became of the engine and its database.
LEMMA StoppedShape ==
    ASSUME Shape, Stopped, LogOK',
           \/ Longer /\ UNCHANGED epoch
           \/ epoch' = epoch + 1 /\ epoch \in 0..MaxEpoch,
           UNCHANGED hydrated
    PROVE  StoredOK(view)' /\ CacheOK' /\ DriverOK' /\ FlightOK'
<1>1. /\ view' = view
      /\ cache' \in {cache, view}
      /\ cache' # cache => view.data # None
      /\ link' = FALSE /\ driver' = Off /\ flight' = None
  BY StoppedFacts
<1>2. StoredOK(view)'
  BY <1>1, ViewStays DEF Shape
<1>3. CacheOK'
  <2>1. CASE cache' = cache
    BY <2>1, CacheStays DEF Shape
  <2>2. CASE cache' # cache
    <3>1. PICK v : v = view /\ StoredOK(v)
      BY DEF Shape
    <3>2. cache' = v /\ v.data # None
      BY <2>2, <3>1, <1>1
    <3> QED BY <3>1, <3>2, StoredWas DEF Shape
  <2> QED BY <2>1, <2>2
<1>4. DriverOK'
  <2>1. view'.cursor # None => hydrated'
    BY <1>1 DEF Shape, DriverOK
  <2> QED BY <1>1, <2>1, OffFacts DEF DriverOK
<1>5. FlightOK'
  BY <1>1 DEF FlightOK
<1> QED BY <1>2, <1>3, <1>4, <1>5

\* A running driver that only changes its phase or its timer.
LEMMA DriverEdited ==
    ASSUME Shape, driver.phase # "off", UNCHANGED <<link, hydrated>>,
           view'.cursor = view.cursor,
           view.data # None => view'.data # None,
           \/ driver' = [driver EXCEPT !.phase = "failed"]
           \/ driver' = [driver EXCEPT !.due = FALSE]
    PROVE  DriverOK'
<1>1. /\ StateOK(driver) /\ driver.cursor = view.cursor
      /\ driver.proj # None => view.data # None
      /\ link /\ hydrated
  BY RunningState
<1>2. PICK p, b : driver' = [driver EXCEPT !.phase = p, !.due = b]
                  /\ p \in {"failed", driver.phase} /\ b \in {FALSE, driver.due}
  <2>1. CASE driver' = [driver EXCEPT !.phase = "failed"]
    <3>1. driver' = [driver EXCEPT !.phase = "failed", !.due = driver.due]
      BY <2>1, <1>1 DEF StateOK
    <3> QED BY <3>1
  <2>2. CASE driver' = [driver EXCEPT !.due = FALSE]
    <3>1. driver' = [driver EXCEPT !.phase = driver.phase, !.due = FALSE]
      BY <2>2, <1>1 DEF StateOK
    <3> QED BY <3>1
  <2> QED BY <2>1, <2>2
<1>3. /\ driver' = [phase |-> driver'.phase, proj |-> driver'.proj,
                    cursor |-> driver'.cursor, reset |-> driver'.reset,
                    opt |-> driver'.opt, count |-> driver'.count,
                    due |-> driver'.due]
      /\ driver'.phase = p /\ driver'.proj = driver.proj
      /\ driver'.cursor = driver.cursor /\ driver'.opt = driver.opt
      /\ driver'.due = b
  BY <1>1, <1>2 DEF StateOK
<1>4. StateOK(driver)'
  BY <1>1, <1>2, <1>3 DEF StateOK
<1> QED BY <1>1, <1>3, <1>4, DriverRuns

\* A failed stream is reported, or the driver gives up.
LEMMA FailureShape ==
    ASSUME Shape, IInv', ReportFailure \/ MissedEvent
    PROVE  Shape'
<1>1. /\ driver.phase # "off"
      /\ IF platform.repairs
         THEN Stopped
         ELSE /\ driver' = [driver EXCEPT !.phase = "failed"]
              /\ UNCHANGED <<link, flight, view, cache>>
      /\ stream' = Closed
      /\ UNCHANGED <<epoch, log, published, platform, hydrated, staged,
                     outbox, restored, misplaced, faults>>
  BY DEF ReportFailure, MissedEvent
<1>2. LogOK' /\ Longer
  BY <1>1, SameIsLonger DEF Shape
<1>3. StreamOK'
  BY <1>1, NoStream
<1>4. CASE platform.repairs
  <2>1. Stopped
    BY <1>1, <1>4
  <2>2. StoredOK(view)' /\ CacheOK' /\ DriverOK' /\ FlightOK'
    BY <1>1, <1>2, <2>1, StoppedShape
  <2>3. link' \in BOOLEAN
    BY <2>1 DEF Stopped
  <2>4. Plain' /\ epoch' \in 0..MaxEpoch
    BY <1>1, <2>3 DEF Shape, Plain
  <2> QED BY <1>2, <1>3, <2>2, <2>4 DEF Shape
<1>5. CASE ~platform.repairs
  <2>1. /\ driver' = [driver EXCEPT !.phase = "failed"]
        /\ UNCHANGED <<link, flight, view, cache>>
    BY <1>1, <1>5
  <2>2. StoredOK(view)' /\ CacheOK' /\ FlightOK'
    BY <1>1, <1>2, <2>1, ViewStays, CacheStays, FlightStays DEF Shape
  <2>3. DriverOK'
    BY <1>1, <2>1, DriverEdited
  <2>4. Plain' /\ epoch' \in 0..MaxEpoch
    BY <1>1, <2>1 DEF Shape, Plain
  <2> QED BY <1>2, <1>3, <2>2, <2>3, <2>4 DEF Shape
<1> QED BY <1>4, <1>5

\* A checkpoint saves the cell and leaves it as it is.
LEMMA CheckpointShape ==
    ASSUME Shape, IInv', Checkpoint
    PROVE  Shape' /\ view' = view /\ cache' \in Saved(view)
<1>1. /\ driver.phase # "off" /\ driver' = [driver EXCEPT !.due = FALSE]
      /\ view' = Persisted /\ cache' \in Saved(Persisted)
      /\ UNCHANGED <<epoch, log, published, stream, platform, link, hydrated,
                     flight, staged, outbox, restored, faults, misplaced>>
  BY DEF Checkpoint, streamVars, restVars
<1>2. view' = view /\ cache' \in Saved(view)
  BY <1>1, PersistedIsView
<1>3. LogOK' /\ Longer
  BY <1>1, SameIsLonger DEF Shape
<1>4. StoredOK(view)' /\ StreamOK' /\ FlightOK'
  BY <1>1, <1>2, <1>3, ViewStays, StreamStays, FlightStays DEF Shape
<1>5. CacheOK'
  BY <1>1, <1>2, <1>3, <1>4, SavedView DEF Shape
<1>6. DriverOK'
  BY <1>1, <1>2, DriverEdited
<1>7. Plain' /\ epoch' \in 0..MaxEpoch
  BY <1>1 DEF Shape, Plain
<1> QED BY <1>2, <1>3, <1>4, <1>5, <1>6, <1>7 DEF Shape

\* A driver starts from what the cell shows.
LEMMA StartFacts ==
    ASSUME NEW v, StoredOK(v), NEW running, Start(v, running)
    PROVE  /\ StateOK(driver)'
           /\ driver'.cursor = v.cursor
           /\ driver'.proj # None => driver'.proj = v.data
           /\ driver'.proj = None => v.data = None \/ v.cursor = None
           /\ driver'.opt = <<>>
           /\ driver'.phase \in {"empty", "cached"}
           /\ stream'.phase = "opened"
           /\ \E ask : /\ stream' = Opened(ask)
                       /\ ask.background = platform.background
                       /\ ask.cursor \in MaybeCursor
<1> DEFINE d == IF v.data = None \/ v.cursor = None
                THEN [Off EXCEPT !.phase = "empty"]
                ELSE [Off EXCEPT !.phase = "cached", !.proj = v.data,
                                 !.cursor = v.cursor]
           ask == [cursor |-> d.cursor,
                   background |-> platform.background,
                   hasProjection |-> /\ d.proj # None
                                     /\ d.proj.older = 0
                                     /\ platform.background \/ ~running]
<1>1. driver' = d /\ stream' = Opened(ask)
  BY DEF Start
<1>2. /\ v.data \in Projection \cup {None} /\ v.cursor \in MaybeCursor
      /\ v.cursor # None => v.data # None
  BY DEF StoredOK
<1>3. PICK p, q, c :
         /\ d = [Off EXCEPT !.phase = p, !.proj = q, !.cursor = c]
         /\ p \in {"empty", "cached"}
         /\ c = v.cursor
         /\ q \in Projection \cup {None}
         /\ q # None => q = v.data
         /\ q = None => v.data = None \/ v.cursor = None
         /\ c # None => q # None
  <2>1. CASE v.data = None \/ v.cursor = None
    <3>1. d = [Off EXCEPT !.phase = "empty"]
      BY <2>1
    <3> HIDE DEF d
    <3>2. v.cursor = None
      BY <2>1, <1>2
    <3>4. [Off EXCEPT !.phase = "empty"]
            = [Off EXCEPT !.phase = "empty", !.proj = None, !.cursor = None]
      <4>1. PICK o : o = Off
        OBVIOUS
      <4>2. o = [phase |-> o.phase, proj |-> o.proj, cursor |-> o.cursor,
                 reset |-> o.reset, opt |-> o.opt, count |-> o.count,
                 due |-> o.due]
            /\ o.proj = None /\ o.cursor = None
        BY <4>1, OffFacts
      <4>3. [o EXCEPT !.phase = "empty"]
              = [o EXCEPT !.phase = "empty", !.proj = None, !.cursor = None]
        BY <4>2
      <4> QED BY <4>1, <4>3
    <3>5. d = [Off EXCEPT !.phase = "empty", !.proj = None, !.cursor = None]
      BY <3>1, <3>4
    <3> QED BY <2>1, <3>5, <3>2
  <2>2. CASE ~(v.data = None \/ v.cursor = None)
    <3>1. d = [Off EXCEPT !.phase = "cached", !.proj = v.data,
                          !.cursor = v.cursor]
      BY <2>2
    <3> HIDE DEF d
    <3> QED BY <2>2, <3>1, <1>2
  <2> QED BY <2>1, <2>2
<1> HIDE DEF d
<1>4. /\ d = [phase |-> d.phase, proj |-> d.proj, cursor |-> d.cursor,
              reset |-> d.reset, opt |-> d.opt, count |-> d.count,
              due |-> d.due]
      /\ d.phase = p /\ d.proj = q /\ d.cursor = c /\ d.opt = <<>>
      /\ d.due = FALSE
  BY <1>3 DEF Off
<1>5. StateOK(driver)'
  <2>1. <<>> \in Seq(Shown)
    OBVIOUS
  <2> QED BY <2>1, <1>1, <1>2, <1>3, <1>4 DEF StateOK
<1>6. ask.background = platform.background /\ ask.cursor = d.cursor
  OBVIOUS
<1> HIDE DEF ask
<1>7. stream'.phase = "opened"
  <2>1. stream' = [phase |-> "opened", ask |-> ask, pend |-> <<>>,
                   history |-> 0, through |-> 0, live |-> 0, hub |-> <<>>]
    BY <1>1 DEF Opened, Closed
  <2> QED BY <2>1
<1> QED BY <1>1, <1>2, <1>3, <1>4, <1>5, <1>6, <1>7

\* A driver is started with what the cell holds.
LEMMA StartShape ==
    ASSUME NEW v, StoredOK(v), NEW running, Start(v, running), view' = v,
           UNCHANGED platform, link', hydrated'
    PROVE  StreamOK' /\ DriverOK'
<1>1. /\ StateOK(driver)'
      /\ driver'.cursor = v.cursor
      /\ driver'.proj # None => driver'.proj = v.data
      /\ \E ask : /\ stream' = Opened(ask)
                  /\ ask.background = platform.background
                  /\ ask.cursor \in MaybeCursor
  BY StartFacts
<1>2. StreamOK'
  BY <1>1, NoStream
<1>3. DriverOK'
  BY <1>1, DriverRuns
<1> QED BY <1>2, <1>3

\* The link comes up.
LEMMA ConnectShape ==
    ASSUME Shape, IInv', Connect
    PROVE  Shape'
<1>1. /\ ~link /\ link' = TRUE
      /\ IF hydrated
         THEN \E running \in BOOLEAN : Start(view, running)
         ELSE UNCHANGED <<driver, stream>>
      /\ UNCHANGED <<epoch, log, published, platform, hydrated, view, cache,
                     flight, staged, outbox, restored, misplaced, faults>>
  BY DEF Connect
<1>2. LogOK' /\ Longer
  BY <1>1, SameIsLonger DEF Shape
<1>3. StoredOK(view)' /\ CacheOK'
  BY <1>1, <1>2, ViewStays, CacheStays DEF Shape
<1>4. FlightOK'
  BY <1>1 DEF Shape, FlightOK
<1>5. StreamOK' /\ DriverOK'
  <2>1. CASE hydrated
    <3>1. PICK running \in BOOLEAN : Start(view, running)
      BY <1>1, <2>1
    <3>2. PICK v : v = view /\ StoredOK(v) /\ Start(v, running)
      BY <3>1 DEF Shape
    <3> QED BY <3>2, <1>1, <2>1, StartShape
  <2>2. CASE ~hydrated
    <3>1. StreamOK'
      BY <1>1, <1>2, <2>2, StreamStays DEF Shape
    <3>2. DriverOK'
      BY <1>1, <2>2 DEF Shape, DriverOK, Off
    <3> QED BY <3>1, <3>2
  <2> QED BY <2>1, <2>2
<1>6. Plain' /\ epoch' \in 0..MaxEpoch
  BY <1>1 DEF Shape, Plain
<1> QED BY <1>2, <1>3, <1>4, <1>5, <1>6 DEF Shape

\* The cache is loaded.
LEMMA HydrateShape ==
    ASSUME Shape, IInv', Hydrate
    PROVE  Shape'
<1>1. /\ ~hydrated /\ hydrated' = TRUE
      /\ view' = IF view.data = None /\ cache # None THEN cache ELSE view
      /\ IF link
         THEN \E running \in BOOLEAN : Start(view', running)
         ELSE UNCHANGED <<driver, stream>>
      /\ UNCHANGED <<epoch, log, published, platform, link, cache,
                     flight, staged, outbox, restored, misplaced, faults>>
  BY DEF Hydrate
<1>2. LogOK' /\ Longer
  BY <1>1, SameIsLonger DEF Shape
<1>3. PICK v : v = view' /\ StoredOK(v)
  BY <1>1 DEF Shape, CacheOK
<1>4. StoredOK(view)'
  BY <1>1, <1>3, StoredAfter
<1>5. CacheOK'
  BY <1>1, <1>2, CacheStays DEF Shape
<1>6. FlightOK'
  BY <1>1 DEF Shape, FlightOK
<1>7. StreamOK' /\ DriverOK'
  <2>1. CASE link
    <3>1. PICK running \in BOOLEAN : Start(view', running)
      BY <1>1, <2>1
    <3>2. Start(v, running)
      BY <3>1, <1>3
    <3> QED BY <3>2, <1>1, <1>3, <2>1, StartShape
  <2>2. CASE ~link
    <3>1. StreamOK'
      BY <1>1, <1>2, <2>2, StreamStays DEF Shape
    <3>2. DriverOK'
      BY <1>1, <2>2 DEF Shape, DriverOK, Off
    <3> QED BY <3>1, <3>2
  <2> QED BY <2>1, <2>2
<1>8. Plain' /\ epoch' \in 0..MaxEpoch
  BY <1>1 DEF Shape, Plain
<1> QED BY <1>2, <1>4, <1>5, <1>6, <1>7, <1>8 DEF Shape

\* The link goes, and perhaps the engine's memory or its newest commits.
LEMMA LoseLinkShape ==
    ASSUME Shape, IInv', LoseLink
    PROVE  Shape'
<1>1. /\ link /\ faults < MaxFaults /\ faults' = faults + 1 /\ Stopped
      /\ UNCHANGED <<platform, hydrated, staged, outbox, restored, misplaced>>
  BY DEF LoseLink
<1>2. /\ LogOK' /\ stream' = Closed /\ epoch' \in 0..MaxEpoch
      /\ \/ Longer /\ UNCHANGED epoch
         \/ epoch' = epoch + 1 /\ epoch \in 0..MaxEpoch
  <2>1. CASE stream' = Closed /\ UNCHANGED <<epoch, log, published>>
    BY <2>1, SameIsLonger DEF Shape
  <2>2. CASE Rebooted
    BY <2>2, SameIsLonger DEF Rebooted, Shape
  <2>3. ASSUME NEW n \in Versions, Restored(n)
        PROVE  /\ LogOK' /\ stream' = Closed
               /\ epoch' = epoch + 1 /\ epoch \in 0..MaxEpoch
               /\ epoch' \in 0..MaxEpoch
    <3>1. /\ n \in 0..Len(log) /\ log' = SubSeq(log, 1, n) /\ epoch < MaxEpoch
          /\ epoch' = epoch + 1 /\ stream' = Closed
      BY <2>3 DEF Restored
    <3>2. LogOK'
      BY <3>1, RestoredFacts DEF Shape
    <3>3. epoch \in 0..MaxEpoch /\ epoch' \in 0..MaxEpoch
      BY <3>1, StreamConstants DEF Shape
    <3> QED BY <3>1, <3>2, <3>3
  <2> QED BY <2>1, <2>2, <2>3 DEF LoseLink
<1>3. StoredOK(view)' /\ CacheOK' /\ DriverOK' /\ FlightOK'
  BY <1>1, <1>2, StoppedShape
<1>4. StreamOK'
  BY <1>2, NoStream
<1>5. Plain'
  BY <1>1, PlainStays DEF Shape, Plain, Stopped
<1> QED BY <1>2, <1>3, <1>4, <1>5 DEF Shape

\* The application is restarted.
LEMMA RelaunchShape ==
    ASSUME Shape, IInv', Relaunch
    PROVE  Shape'
<1>1. /\ faults < MaxFaults /\ faults' = faults + 1
      /\ link' = FALSE /\ hydrated' = FALSE /\ view' = EmptyView
      /\ driver' = Off /\ flight' = None /\ restored' = (outbox = {})
      /\ stream' = Closed
      /\ UNCHANGED <<epoch, log, published, platform, cache, staged, outbox,
                     misplaced>>
  BY DEF Relaunch
<1>2. LogOK' /\ Longer
  BY <1>1, SameIsLonger DEF Shape
<1>3. CacheOK' /\ StreamOK'
  BY <1>1, <1>2, CacheStays, NoStream DEF Shape
<1>4. StoredOK(view)'
  BY <1>1 DEF StoredOK, EmptyView, MaybeCursor
<1>5. DriverOK'
  <2>1. view'.cursor = None
    BY <1>1 DEF EmptyView
  <2> QED BY <1>1, <2>1, OffFacts DEF DriverOK
<1>6. FlightOK'
  BY <1>1 DEF FlightOK
<1>7. Plain' /\ epoch' \in 0..MaxEpoch
  <2>1. faults' \in 0..MaxFaults
    BY <1>1, TimelineConstants DEF Shape, Plain
  <2> QED BY <1>1, <2>1 DEF Shape, Plain
<1> QED BY <1>2, <1>3, <1>4, <1>5, <1>6, <1>7 DEF Shape

-----------------------------------------------------------------------------
(* The composer, the outbox and the pager *)

\* What the cell holds, and 0 or the place where what it holds begins.
LEMMA HeldFacts ==
    ASSUME NEW v, StoredOK(v)
    PROVE  /\ Messages0(v) \in Seq(Shown)
           /\ v.cursor = None => Drafts(Messages0(v))
<1>1. CASE v.data = None
  <2>1. Messages0(v) = <<>> /\ <<>> \in Seq(Shown) /\ Len(<<>>) = 0
    BY <1>1 DEF Messages0
  <2>2. Drafts(<<>>)
    BY <2>1 DEF Drafts
  <2> QED BY <2>1, <2>2
<1>2. CASE v.data # None
  <2>1. Messages0(v) = v.data.msgs /\ v.data \in Projection
    BY <1>2 DEF Messages0, StoredOK
  <2> QED BY <1>2, <2>1, NothingIsNone DEF StoredOK
<1> QED BY <1>1, <1>2

\* An overlay of the cell's messages leaves its cursor.
LEMMA OverlaidFacts ==
    ASSUME StoredOK(view), NEW msgs \in Seq(Shown),
           view.cursor = None => Drafts(msgs),
           view' = Overlaid(view, msgs), UNCHANGED <<epoch, log>>
    PROVE  /\ StoredOK(view)'
           /\ view'.cursor = view.cursor
           /\ view'.data.msgs = msgs
           /\ view'.data.older = IF view.data = None THEN 0 ELSE view.data.older
           /\ view'.data # None
<1> DEFINE older == IF view.data = None THEN 0 ELSE view.data.older
<1>1. view = [data |-> view.data, cursor |-> view.cursor]
  BY DEF StoredOK
<1>2. view' = [data |-> [msgs |-> msgs, older |-> older], cursor |-> view.cursor]
  <2>1. view' = [view EXCEPT !.data = [msgs |-> msgs, older |-> older]]
    BY DEF Overlaid
  <2> HIDE DEF older
  <2> QED BY <1>1, <2>1
<1>3. /\ older \in 0..(MaxEvents + 1)
      /\ view.cursor = None => older = 0
  <2>1. CASE view.data = None
    <3>1. MaxEvents + 1 \in Nat
      BY StreamConstants
    <3> QED BY <2>1, <3>1
  <2>2. CASE view.data # None
    <3>1. view.data \in Projection
      BY <2>2 DEF StoredOK
    <3> QED BY <2>2, <3>1, NothingIsNone DEF StoredOK
  <2> QED BY <2>1, <2>2
<1> HIDE DEF older
<1>4. [msgs |-> msgs, older |-> older] \in Projection
  BY <1>3 DEF Projection
<1>5. PICK v : /\ v = view'
               /\ v.data = [msgs |-> msgs, older |-> older]
               /\ v.cursor = view.cursor
               /\ v = [data |-> v.data, cursor |-> v.cursor]
  BY <1>2
<1>6. v.data # None /\ v.data \in Projection
  BY <1>4, <1>5, NothingIsNone
<1>7. v.cursor \in MaybeCursor /\ (v.cursor # None => CursorOK(v.cursor))
  BY <1>5 DEF StoredOK
<1>8. v.cursor = None => Drafts(v.data.msgs) /\ v.data.older = 0
  BY <1>3, <1>5
<1>9. StoredOK(v)
  BY <1>5, <1>6, <1>7, <1>8 DEF StoredOK
<1>10. StoredOK(view)'
  BY <1>5, <1>9, StoredAfter
<1> QED BY <1>5, <1>6, <1>10 DEF older

\* What the composer and its outbox do touches the cell's messages only.
LEMMA OverlayShape ==
    ASSUME Shape, IInv', UNCHANGED overlayRest,
           StoredOK(view)', view'.cursor = view.cursor,
           view.data # None => view'.data # None,
           outbox' \subseteq staged', staged' \subseteq Users,
           IsFiniteSet(outbox'), restored' \in BOOLEAN
    PROVE  Shape'
<1>1. UNCHANGED <<epoch, log, published, stream, platform, link, hydrated,
                  driver, cache, flight, misplaced, faults>>
  BY DEF overlayRest, streamVars
<1>2. LogOK' /\ Longer
  BY <1>1, SameIsLonger DEF Shape
<1>3. CacheOK' /\ StreamOK'
  BY <1>1, <1>2, CacheStays, StreamStays DEF Shape
<1>4. DriverOK'
  BY <1>1, DriverStays DEF Shape
<1>5. FlightOK'
  BY <1>1, <1>2, FlightStays DEF Shape
<1>6. Plain' /\ epoch' \in 0..MaxEpoch
  BY <1>1 DEF Shape, Plain
<1> QED BY <1>2, <1>3, <1>4, <1>5, <1>6 DEF Shape

\* An optimistic message.
LEMMA OptimisticFacts ==
    ASSUME NEW m \in Users
    PROVE  /\ Optimistic(m) \in Shown
           /\ Draft(Optimistic(m))
           /\ Optimistic(m).id = m /\ Optimistic(m).ver = 0
           /\ m \in Messages
<1>1. Optimistic(m) = [id |-> m, ver |-> 0]
  BY DEF Optimistic
<1>2. m \in Messages /\ 0 \in Versions
  BY TimelineConstants, StreamConstants DEF Versions
<1> QED BY <1>1, <1>2 DEF Shown, Draft

\* An optimistic message does not disturb what is optimistic already.
LEMMA DraftsUpsert ==
    ASSUME NEW msgs \in Seq(Shown), Drafts(msgs), NEW x \in Shown, Draft(x)
    PROVE  Drafts(Upsert(msgs, x))
<1>1. \A i \in 1..Len(Upsert(msgs, x)) :
                 \/ i \in 1..Len(msgs) /\ Upsert(msgs, x)[i] = msgs[i]
                 \/ Upsert(msgs, x)[i] = x
  BY UpsertFacts
<1> QED BY <1>1 DEF Drafts

\* The user writes a message.
LEMMA StageShape ==
    ASSUME Shape, IInv', NEW m \in Users, Stage(m)
    PROVE  Shape'
<1>1. /\ staged' = staged \cup {m}
      /\ outbox' = outbox \cup {m}
      /\ view' = Overlaid(view, Upsert(Messages0(view), Optimistic(m)))
      /\ UNCHANGED overlayRest /\ UNCHANGED restored
  BY DEF Stage
<1>2. /\ Messages0(view) \in Seq(Shown)
      /\ view.cursor = None => Drafts(Messages0(view))
  BY HeldFacts DEF Shape
<1>3. PICK new \in Seq(Shown) : /\ new = Upsert(Messages0(view), Optimistic(m))
                                /\ view.cursor = None => Drafts(new)
  BY <1>2, OptimisticFacts, DraftsUpsert, UpsertFacts
<1>4. UNCHANGED <<epoch, log>>
  BY <1>1 DEF overlayRest, streamVars
<1>5. /\ StoredOK(view)' /\ view'.cursor = view.cursor /\ view'.data # None
  BY <1>1, <1>3, <1>4, OverlaidFacts DEF Shape
<1>6. /\ outbox' \subseteq staged' /\ staged' \subseteq Users
      /\ restored' \in BOOLEAN /\ IsFiniteSet(outbox)
  BY <1>1 DEF Shape, Plain
<1>7. IsFiniteSet(outbox')
  BY <1>1, <1>6, FS_AddElement
<1> QED BY <1>1, <1>5, <1>6, <1>7, OverlayShape

\* A send is acknowledged.
LEMMA AcknowledgeShape ==
    ASSUME Shape, IInv', NEW m \in Users, Acknowledge(m)
    PROVE  Shape'
<1>1. /\ outbox' = outbox \ {m}
      /\ UNCHANGED overlayRest /\ UNCHANGED <<view, staged, restored>>
  BY DEF Acknowledge
<1>2. /\ outbox' \subseteq staged' /\ staged' \subseteq Users
      /\ restored' \in BOOLEAN /\ IsFiniteSet(outbox)
  BY <1>1 DEF Shape, Plain
<1>3. IsFiniteSet(outbox')
  BY <1>1, <1>2, FS_RemoveElement
<1>4. UNCHANGED <<epoch, log>>
  BY <1>1 DEF overlayRest, streamVars
<1>5. StoredOK(view)'
  BY <1>1, <1>4, StoredAfter DEF Shape
<1> QED BY <1>1, <1>2, <1>3, <1>5, OverlayShape

\* A send is refused.
LEMMA RefuseShape ==
    ASSUME Shape, IInv', NEW m \in Users, Refuse(m)
    PROVE  Shape'
<1>1. /\ outbox' = outbox \ {m}
      /\ view' = IF view.data = None THEN view
                 ELSE Overlaid(view, Without(view.data.msgs, {m}))
      /\ UNCHANGED overlayRest /\ UNCHANGED <<staged, restored>>
  BY DEF Refuse
<1>2. /\ outbox' \subseteq staged' /\ staged' \subseteq Users
      /\ restored' \in BOOLEAN /\ IsFiniteSet(outbox)
  BY <1>1 DEF Shape, Plain
<1>3. IsFiniteSet(outbox')
  BY <1>1, <1>2, FS_RemoveElement
<1>4. UNCHANGED <<epoch, log>>
  BY <1>1 DEF overlayRest, streamVars
<1>5. CASE view.data = None
  <2>1. view' = view
    BY <1>1, <1>5
  <2>2. StoredOK(view)'
    BY <2>1, <1>4, StoredAfter DEF Shape
  <2> QED BY <1>1, <1>2, <1>3, <2>1, <2>2, OverlayShape
<1>6. CASE view.data # None
  <2>1. /\ view.data.msgs \in Seq(Shown)
        /\ view.cursor = None => Drafts(view.data.msgs)
    BY <1>6, HeldFacts DEF Messages0, Shape
  <2>2. PICK new \in Seq(Shown) : /\ new = Without(view.data.msgs, {m})
                                  /\ view.cursor = None => Drafts(new)
    BY <2>1, WithoutFacts, WithoutDrafts
  <2>3. /\ StoredOK(view)' /\ view'.cursor = view.cursor /\ view'.data # None
    BY <1>1, <1>6, <2>2, <1>4, OverlaidFacts DEF Shape
  <2> QED BY <1>1, <1>2, <1>3, <2>3, OverlayShape
<1> QED BY <1>5, <1>6

\* The elements of a finite set, one after another.
LEMMA SetToSeqFacts ==
    ASSUME NEW S, IsFiniteSet(S)
    PROVE  SetToSeq(S) \in Seq(S)
<1>1. Cardinality(S) \in Nat /\ ExistsBijection(1..Cardinality(S), S)
  BY FS_CardinalityType
<1>2. \E f \in [1..Cardinality(S) -> S] : IsInjective(f)
  BY <1>1 DEF ExistsBijection, Bijection, Injection, IsInjective
<1>3. SetToSeq(S) \in [1..Cardinality(S) -> S]
  BY <1>2 DEF SetToSeq
<1> QED BY <1>1, <1>3

\* The messages that the outbox puts back are optimistic.
LEMMA RestoredMessages ==
    ASSUME NEW ms \in Seq(Users)
    PROVE  /\ [i \in DOMAIN ms |-> Optimistic(ms[i])] \in Seq(Shown)
           /\ Drafts([i \in DOMAIN ms |-> Optimistic(ms[i])])
<1> DEFINE new == [i \in DOMAIN ms |-> Optimistic(ms[i])]
<1>1. Len(ms) \in Nat /\ DOMAIN ms = 1..Len(ms)
  OBVIOUS
<1>2. \A i \in 1..Len(ms) : ms[i] \in Users
  OBVIOUS
<1>3. \A i \in 1..Len(ms) : new[i] \in Shown /\ Draft(new[i])
  BY <1>1, <1>2, OptimisticFacts
<1>4. new \in [1..Len(ms) -> Shown]
  <2>1. new = [i \in 1..Len(ms) |-> new[i]]
    BY <1>1
  <2> HIDE DEF new
  <2> QED BY <2>1, <1>3
<1> HIDE DEF new
<1>5. new \in Seq(Shown) /\ Len(new) = Len(ms)
  BY <1>1, <1>4
<1> QED BY <1>3, <1>5 DEF Drafts, new

\* The optimistic messages stand behind what is there.
LEMMA DraftsConcat ==
    ASSUME NEW s \in Seq(Shown), Drafts(s), NEW t \in Seq(Shown), Drafts(t)
    PROVE  s \o t \in Seq(Shown) /\ Drafts(s \o t)
<1>1. /\ s \o t \in Seq(Shown)
      /\ Len(s \o t) = Len(s) + Len(t)
      /\ \A i \in 1..Len(s) : (s \o t)[i] = s[i]
      /\ \A i \in 1..Len(t) : (s \o t)[Len(s) + i] = t[i]
      /\ Len(s) \in Nat /\ Len(t) \in Nat
  BY ConcatFacts
<1> DEFINE u == s \o t
<1> HIDE DEF u
<1>2. ASSUME NEW i \in 1..Len(u) PROVE Draft(u[i])
  <2>1. CASE i <= Len(s)
    BY <2>1, <1>1 DEF u, Drafts
  <2>2. CASE i > Len(s)
    <3>1. PICK j \in 1..Len(t) : i = Len(s) + j
      <4>1. i - Len(s) \in 1..Len(t) /\ i = Len(s) + (i - Len(s))
        BY <2>2, <1>1 DEF u
      <4> QED BY <4>1
    <3>2. u[i] = t[j]
      BY <3>1, <1>1 DEF u
    <3> QED BY <3>2 DEF Drafts
  <2> QED BY <2>1, <2>2, <1>1 DEF u
<1> QED BY <1>1, <1>2 DEF Drafts, u

\* What RestoreOptimistic does to the cell.
LEMMA RestoredView ==
    ASSUME Shape, RestoreOptimistic
    PROVE  \/ view' = view
           \/ \E new \in Seq(Shown) :
                 /\ Drafts(new)
                 /\ view' = Overlaid(view, Messages0(view) \o new)
<1> DEFINE missing == SetToSeq(outbox \ Ids(Messages0(view)))
           new == [i \in DOMAIN missing |-> Optimistic(missing[i])]
<1>1. view' = IF missing = <<>> THEN view
              ELSE Overlaid(view, Messages0(view) \o new)
  BY DEF RestoreOptimistic
<1>2. missing \in Seq(Users)
  <2>1. IsFiniteSet(outbox) /\ outbox \subseteq Users
    BY DEF Shape, Plain
  <2>2. PICK S : S = outbox \ Ids(Messages0(view))
    OBVIOUS
  <2>3. S \subseteq Users /\ IsFiniteSet(S)
    BY <2>1, <2>2, FS_Subset
  <2>4. SetToSeq(S) \in Seq(S)
    BY <2>3, SetToSeqFacts
  <2>5. SetToSeq(S) \in Seq(Users)
    BY <2>3, <2>4
  <2> QED BY <2>2, <2>5
<1>3. new \in Seq(Shown) /\ Drafts(new)
  <2> HIDE DEF missing
  <2> QED BY <1>2, RestoredMessages
<1> HIDE DEF new, missing
<1> QED BY <1>1, <1>3

\* The outbox puts its messages back.
LEMMA RestoreShape ==
    ASSUME Shape, IInv', RestoreOptimistic
    PROVE  Shape'
<1>1. /\ restored' = TRUE
      /\ UNCHANGED overlayRest /\ UNCHANGED <<staged, outbox>>
  BY DEF RestoreOptimistic
<1>2. /\ outbox' \subseteq staged' /\ staged' \subseteq Users
      /\ restored' \in BOOLEAN /\ IsFiniteSet(outbox')
  BY <1>1 DEF Shape, Plain
<1>3. UNCHANGED <<epoch, log>>
  BY <1>1 DEF overlayRest, streamVars
<1>4. CASE view' = view
  <2>1. StoredOK(view)'
    BY <1>3, <1>4, StoredAfter DEF Shape
  <2> QED BY <1>1, <1>2, <1>4, <2>1, OverlayShape
<1>5. ASSUME NEW new \in Seq(Shown), Drafts(new),
             view' = Overlaid(view, Messages0(view) \o new)
      PROVE  Shape'
  <2>1. /\ Messages0(view) \in Seq(Shown)
        /\ view.cursor = None => Drafts(Messages0(view))
    BY HeldFacts DEF Shape
  <2>2. PICK all \in Seq(Shown) : /\ all = Messages0(view) \o new
                                  /\ view.cursor = None => Drafts(all)
    BY <2>1, <1>5, DraftsConcat, ConcatFacts
  <2>3. /\ StoredOK(view)' /\ view'.cursor = view.cursor /\ view'.data # None
    BY <1>3, <1>5, <2>2, OverlaidFacts DEF Shape
  <2> QED BY <1>1, <1>2, <2>3, OverlayShape
<1> QED BY <1>4, <1>5, RestoredView

\* A step of the pager touches the request, the cell's messages and the cache.
LEMMA PagerShape ==
    ASSUME Shape, IInv', UNCHANGED pagerRest, misplaced' \in BOOLEAN,
           StoredOK(view)', CacheOK', FlightOK',
           view'.cursor = view.cursor,
           view.data # None => view'.data # None
    PROVE  Shape'
<1>1. UNCHANGED <<epoch, log, published, stream, platform, link, hydrated,
                  driver, staged, outbox, restored, faults>>
  BY DEF pagerRest, streamVars
<1>2. LogOK' /\ Longer
  BY <1>1, SameIsLonger DEF Shape
<1>3. StreamOK'
  BY <1>1, <1>2, StreamStays DEF Shape
<1>4. DriverOK'
  BY <1>1, DriverStays DEF Shape
<1>5. Plain' /\ epoch' \in 0..MaxEpoch
  BY <1>1 DEF Shape, Plain
<1> QED BY <1>2, <1>3, <1>4, <1>5 DEF Shape

\* The cell is left alone.
LEMMA SameView ==
    ASSUME Shape, UNCHANGED <<epoch, log, view, cache>>
    PROVE  StoredOK(view)' /\ CacheOK'
<1>1. LogOK' /\ Longer
  BY SameIsLonger DEF Shape
<1>2. StoredOK(view)'
  BY StoredAfter DEF Shape
<1>3. CacheOK'
  BY <1>1, CacheStays DEF Shape
<1> QED BY <1>2, <1>3

\* The pager asks for a page.
LEMMA AskShape ==
    ASSUME Shape, IInv', AskPage
    PROVE  Shape'
<1>1. /\ platform.background /\ link /\ view.data # None /\ view.data.older # 0
      /\ flight' = [before |-> view.data.older, cursor |-> view.cursor,
                    page |-> None]
      /\ UNCHANGED pagerRest /\ UNCHANGED <<view, cache, misplaced>>
  BY DEF AskPage
<1>2. UNCHANGED <<epoch, log, platform, link, hydrated>>
  BY <1>1 DEF pagerRest, streamVars
<1>3. /\ view.data \in Projection /\ view.cursor # None
      /\ view.cursor \in Cursor /\ CursorOK(view.cursor)
  BY <1>1 DEF Shape, StoredOK, MaybeCursor
<1>4. view.data.older \in 0..(MaxEvents + 1) /\ MaxEvents \in Nat
  BY <1>3, NothingIsNone, StreamConstants
<1>5. view.data.older \in 1..(MaxEvents + 1)
  BY <1>1, <1>4
<1>6. hydrated
  BY <1>3 DEF Shape, DriverOK
<1>7. PICK r : r = flight' /\ r = [before |-> view.data.older,
                                   cursor |-> view.cursor, page |-> None]
  BY <1>1
<1>8. /\ r = [before |-> r.before, cursor |-> r.cursor, page |-> r.page]
      /\ r.before = view.data.older /\ r.cursor = view.cursor /\ r.page = None
  BY <1>7
<1>9. FlightOK'
  <2>1. CursorOK(r.cursor)'
    BY <1>2, <1>3, <1>8 DEF CursorOK
  <2> QED BY <1>1, <1>2, <1>3, <1>5, <1>6, <1>7, <1>8, <2>1 DEF FlightOK
<1>10. StoredOK(view)' /\ CacheOK'
  BY <1>1, <1>2, SameView
<1>11. misplaced' \in BOOLEAN
  BY <1>1 DEF Shape, Plain
<1> QED BY <1>1, <1>9, <1>10, <1>11, PagerShape

\* The page is read.
LEMMA ReadShape ==
    ASSUME Shape, IInv', ReadPage
    PROVE  Shape'
<1>1. /\ flight # None
      /\ flight' = [flight EXCEPT !.page = MessagePage(flight.before)]
      /\ UNCHANGED pagerRest /\ UNCHANGED <<view, cache, misplaced>>
  BY DEF ReadPage
<1>2. UNCHANGED <<epoch, log, platform, link, hydrated>>
  BY <1>1 DEF pagerRest, streamVars
<1>3. /\ flight = [before |-> flight.before, cursor |-> flight.cursor,
                   page |-> flight.page]
      /\ platform.background /\ link /\ hydrated
      /\ flight.before \in 1..(MaxEvents + 1)
      /\ flight.cursor \in Cursor /\ CursorOK(flight.cursor)
  BY <1>1 DEF Shape, FlightOK
<1>4. PICK r, p : /\ r = flight' /\ p = MessagePage(flight.before)
                  /\ r = [before |-> flight.before, cursor |-> flight.cursor,
                          page |-> p]
  <2>1. PICK p : p = MessagePage(flight.before)
    OBVIOUS
  <2>2. flight' = [flight EXCEPT !.page = p]
    BY <1>1, <2>1
  <2> QED BY <1>3, <2>1, <2>2
<1>5. /\ r = [before |-> r.before, cursor |-> r.cursor, page |-> r.page]
      /\ r.before = flight.before /\ r.cursor = flight.cursor /\ r.page = p
  BY <1>4
<1>6. PageFacts(p, r.before, RowsAt(Len(log))) /\ Len(log) \in Nat
  BY <1>3, <1>4, <1>5, MessagePageFacts DEF Shape, LogOK, Rows
<1>7. \E n \in 0..Len(log) : /\ r.cursor.epoch = epoch => r.cursor.version <= n
                             /\ PageFacts(p, r.before, RowsAt(n))
  BY <1>3, <1>5, <1>6 DEF CursorOK
<1>8. FlightOK'
  <2>1. CursorOK(r.cursor)'
    BY <1>2, <1>3, <1>5 DEF CursorOK
  <2>2. \A n \in 0..Len(log) : RowsAt(n)' = RowsAt(n)
    BY <1>2 DEF RowsAt
  <2>3. \E n \in 0..Len(log') : /\ r.cursor.epoch = epoch' => r.cursor.version <= n
                                /\ PageFacts(p, r.before, RowsAt(n)')
    BY <1>2, <1>7, <2>2
  <2>4. (\E n \in 0..Len(log) : /\ r.cursor.epoch = epoch => r.cursor.version <= n
                                /\ PageFacts(r.page, r.before, RowsAt(n)))'
    BY <1>5, <2>3 DEF PageFacts, Ids
  <2> QED BY <1>2, <1>3, <1>4, <1>5, <2>1, <2>4 DEF FlightOK
<1>9. StoredOK(view)' /\ CacheOK'
  BY <1>1, <1>2, SameView
<1>10. misplaced' \in BOOLEAN
  BY <1>1 DEF Shape, Plain
<1> QED BY <1>1, <1>8, <1>9, <1>10, PagerShape

\* A page before what the cell holds.
LEMMA PageView ==
    ASSUME Shape, flight # None, flight.page # None, PageFits,
           view' = [view EXCEPT !.data = Prepend(@, flight.page)],
           UNCHANGED <<epoch, log>>
    PROVE  /\ StoredOK(view)'
           /\ view'.cursor = view.cursor
           /\ view'.cursor # None
           /\ view.data \in Projection
           /\ view'.data = Prepend(view.data, flight.page)
           /\ view'.data # None
<1>1. /\ view.data \in Projection /\ view.data # None
      /\ view = [data |-> view.data, cursor |-> view.cursor]
      /\ view.cursor \in MaybeCursor
      /\ view.cursor # None => CursorOK(view.cursor)
  BY DEF Shape, StoredOK, PageFits
<1>2. PICK p, n : /\ p = flight.page
                  /\ PageFacts(p, flight.before, RowsAt(n))
                  /\ flight.before \in 1..(MaxEvents + 1)
  BY DEF Shape, FlightOK
<1>3. p.msgs \in Seq(Shown) /\ p.older \in 0..(MaxEvents + 1)
  <2>1. p.msgs \in Seq(Shown) /\ p.older \in 0..(flight.before - 1)
    BY <1>2 DEF PageFacts
  <2>2. p.older \in 0..(MaxEvents + 1)
    BY <1>2, <2>1, StreamConstants
  <2> QED BY <2>1, <2>2
<1>4. PICK q : q = Prepend(view.data, p)
  OBVIOUS
<1>5. q.msgs \in Seq(Shown) /\ q = [msgs |-> q.msgs, older |-> p.older]
  BY <1>1, <1>3, <1>4, PrependFacts
<1>6. q \in Projection
  BY <1>3, <1>5 DEF Projection
<1>7. view' = [view EXCEPT !.data = q]
  BY <1>2, <1>4
<1>8. PICK v : /\ v = view'
               /\ v = [data |-> v.data, cursor |-> v.cursor]
               /\ v.data = q /\ v.cursor = view.cursor
  BY <1>1, <1>7
<1>9. view.cursor # None
  BY DEF PageFits, Fence
<1>10. StoredOK(v)
  BY <1>1, <1>6, <1>8, <1>9, NothingIsNone DEF StoredOK
<1>11. StoredOK(view)'
  BY <1>8, <1>10, StoredAfter
<1> QED BY <1>1, <1>2, <1>4, <1>6, <1>8, <1>9, <1>11, NothingIsNone

\* The page is applied, or dropped.
LEMMA ApplyShape ==
    ASSUME Shape, IInv', ApplyPage
    PROVE  Shape'
<1>1. /\ flight # None /\ flight.page # None /\ flight' = None
      /\ IF PageFits
         THEN /\ view' = [view EXCEPT !.data = Prepend(@, flight.page)]
              /\ misplaced' = (misplaced \/ ~InPlace)
              /\ cache' \in Saved(view')
         ELSE UNCHANGED <<view, cache, misplaced>>
      /\ UNCHANGED pagerRest
  BY DEF ApplyPage
<1>2. UNCHANGED <<epoch, log>>
  BY <1>1 DEF pagerRest, streamVars
<1>3. FlightOK'
  BY <1>1 DEF FlightOK
<1>4. CASE PageFits
  <2>1. StoredOK(view)' /\ view'.cursor = view.cursor /\ view'.data # None
    BY <1>1, <1>2, <1>4, PageView
  <2>2. CacheOK'
    <3>1. LogOK' /\ Longer
      BY <1>2, SameIsLonger DEF Shape
    <3> QED BY <1>1, <1>2, <1>4, <2>1, <3>1, SavedView DEF Shape
  <2>3. misplaced' \in BOOLEAN
    BY <1>1, <1>4 DEF Shape, Plain
  <2> QED BY <1>1, <1>3, <2>1, <2>2, <2>3, PagerShape
<1>5. CASE ~PageFits
  <2>1. UNCHANGED <<view, cache, misplaced>>
    BY <1>1, <1>5
  <2>2. StoredOK(view)' /\ CacheOK'
    BY <1>2, <2>1, SameView
  <2>3. misplaced' \in BOOLEAN
    BY <2>1 DEF Shape, Plain
  <2> QED BY <1>1, <1>3, <2>1, <2>2, <2>3, PagerShape
<1> QED BY <1>4, <1>5

-----------------------------------------------------------------------------
(* Every step keeps the shape *)

\* What the engine commits is an event.
LEMMA CommitIsAppend ==
    ASSUME Commit \/ (\E m \in Users : CommitSent(m))
    PROVE  \E e \in Event : Append1(e) /\ UNCHANGED clientVars
<1>1. ASSUME NEW m \in Messages, PersistMessage(m)
      PROVE  \E e \in Event : Append1(e)
  BY <1>1, EventsAreTyped DEF PersistMessage
<1>2. ASSUME NEW s \in Versions, RollBack(s)
      PROVE  \E e \in Event : Append1(e)
  BY <1>2, EventsAreTyped DEF RollBack
<1>3. SettleTurn => \E e \in Event : Append1(e)
  BY EventsAreTyped DEF SettleTurn
<1>4. CASE Commit
  BY <1>1, <1>2, <1>3, <1>4 DEF Commit
<1>5. ASSUME NEW m \in Users, CommitSent(m)
      PROVE  \E e \in Event : Append1(e) /\ UNCHANGED clientVars
  BY <1>1, <1>5, TimelineConstants DEF CommitSent
<1> QED BY <1>4, <1>5

\* The publisher and the stream, as long as no frame is pulled.
LEMMA EngineShape ==
    ASSUME Shape, IInv', PublishNext \/ PublishTwice \/ Attach \/ CatchUp
    PROVE  Shape'
<1>0. /\ LogOK /\ StreamOK /\ StreamShape /\ epoch \in 0..MaxEpoch
  BY DEF Shape, IInv
<1>1. \A x : LET s == [stream EXCEPT !.hub = x] IN
              /\ s.ask = stream.ask /\ s.pend = stream.pend
              /\ s.history = stream.history /\ s.through = stream.through
              /\ s.phase = stream.phase
  BY <1>0 DEF StreamShape
<1>2. ASSUME stream' = Heard, Listening, UNCHANGED <<epoch, log, platform>>
      PROVE  StreamOK'
  <2>1. stream.phase \in {"subscribed", "catching", "tail"}
    BY <1>2 DEF Listening
  <2>2. PICK x : stream' = [stream EXCEPT !.hub = x]
    BY <1>2 DEF Heard
  <2>3. /\ stream'.ask = stream.ask /\ stream'.pend = stream.pend
        /\ stream'.history = stream.history /\ stream'.through = stream.through
        /\ stream'.phase = stream.phase
    BY <1>1, <2>2
  <2>4. Longer
    BY <1>0, <1>2, SameIsLonger
  <2> QED BY <1>0, <1>2, <2>1, <2>3, <2>4, StreamMoves
<1>3. CASE PublishNext
  <2>1. StreamOK'
    BY <1>2, <1>3 DEF PublishNext, Publish, clientVars
  <2> QED BY <1>3, <2>1, StreamShapeKept DEF PublishNext, Publish, clientVars
<1>4. CASE PublishTwice
  <2>1. StreamOK'
    BY <1>2, <1>4 DEF PublishTwice, PublishInterrupted
  <2> QED BY <1>4, <2>1, StreamShapeKept DEF PublishTwice, PublishInterrupted
<1>5. CASE Attach
  <2>1. /\ stream.phase = "opened" /\ UNCHANGED <<epoch, log, platform>>
        /\ stream' = [stream EXCEPT !.phase = "subscribed", !.hub = <<>>]
    BY <1>5 DEF Attach, Subscribe, clientVars
  <2>2. /\ stream'.ask = stream.ask /\ stream'.pend = stream.pend
        /\ stream'.history = stream.history /\ stream'.through = stream.through
        /\ stream'.phase = "subscribed"
    BY <1>0, <2>1 DEF StreamShape
  <2>3. Longer
    BY <1>0, <2>1, SameIsLonger
  <2>4. StreamOK'
    BY <1>0, <2>1, <2>2, <2>3, StreamMoves
  <2> QED BY <1>5, <2>4, StreamShapeKept DEF Attach, Subscribe, clientVars
<1>6. CASE CatchUp
  <2>1. PICK large, cut : Capture(large, cut)
    BY <1>6 DEF CatchUp
  <2>2. UNCHANGED platform
    BY <1>6 DEF CatchUp, clientVars
  <2>3. StreamOK'
    BY <1>0, <2>1, <2>2, CaptureKeepsStream
  <2>4. UNCHANGED <<epoch, log, published>>
    BY <2>1 DEF Capture
  <2> QED BY <1>6, <2>3, <2>4, StreamShapeKept DEF CatchUp, clientVars
<1> QED BY <1>3, <1>4, <1>5, <1>6

\* Nothing changes.
LEMMA IdleShape ==
    ASSUME Shape, IInv', UNCHANGED vars
    PROVE  Shape'
<1>1. UNCHANGED <<epoch, log, published, stream>> /\ UNCHANGED clientVars
  BY DEF vars, streamVars
<1>2. StreamOK'
  <2>1. LogOK' /\ Longer
    BY <1>1, SameIsLonger DEF Shape
  <2> QED BY <1>1, <2>1, StreamStays DEF Shape, clientVars
<1> QED BY <1>1, <1>2, StreamShapeKept DEF clientVars

\* The client starts with nothing, on an empty log.
LEMMA InitShape == Init => Shape
<1> SUFFICES ASSUME Init PROVE Shape
  OBVIOUS
<1>1. /\ epoch = 0 /\ log = <<>> /\ stream = Closed
      /\ platform \in Platforms /\ link = FALSE /\ hydrated = FALSE
      /\ view = EmptyView /\ driver = Off /\ cache = None /\ flight = None
      /\ staged = {} /\ outbox = {} /\ restored = TRUE /\ misplaced = FALSE
      /\ faults = 0
  BY DEF Init, StreamInit
<1>2. LogOK
  <2>1. log \in Seq(Transaction) /\ Len(log) = 0
    BY <1>1
  <2>2. \A m \in Messages : RowsAt(0)[m] = NoRow
    BY DEF RowsAt, NoRows
  <2>3. \A n \in 0..Len(log), m \in Messages : RowOK(n, m)
    BY <2>1, <2>2 DEF RowOK
  <2>4. \A m \in Messages : ComesBack(m)
    BY <2>1, <2>2 DEF ComesBack, NoRow
  <2> QED BY <2>1, <2>3, <2>4, StreamConstants DEF LogOK
<1>3. IInv
  BY InitEstablishes
<1>4. StreamOK
  <2>1. stream.phase = "closed" /\ stream.pend = <<>> /\ stream.history = 0
    BY <1>1 DEF Closed
  <2>2. <<>> \in Seq({}) /\ 0 \in 0..(MaxEvents + 1)
    BY StreamConstants
  <2>3. \E S : stream.pend \in Seq(S) /\ \A f \in S : FrameOK(f)
    <3>1. stream.pend \in Seq({}) /\ \A f \in {} : FrameOK(f)
      BY <2>1, <2>2
    <3> QED BY <3>1
  <2> QED BY <2>1, <2>2, <2>3 DEF StreamOK
<1>5. StoredOK(view) /\ view.cursor = None
  BY <1>1 DEF StoredOK, EmptyView, MaybeCursor
<1>6. DriverOK
  BY <1>1, <1>5, OffFacts DEF DriverOK
<1>7. CacheOK /\ FlightOK
  BY <1>1 DEF CacheOK, FlightOK
<1>8. Plain /\ epoch \in 0..MaxEpoch
  <2>1. epoch \in 0..MaxEpoch /\ faults \in 0..MaxFaults
    BY <1>1, TimelineConstants, StreamConstants
  <2>2. IsFiniteSet(outbox)
    BY <1>1, FS_EmptySet, Zenon
  <2>3. /\ link \in BOOLEAN /\ hydrated \in BOOLEAN
        /\ restored \in BOOLEAN /\ misplaced \in BOOLEAN
    BY <1>1, Zenon
  <2>4. outbox \subseteq staged /\ staged \subseteq Users
    BY <1>1
  <2> QED BY <1>1, <2>1, <2>2, <2>3, <2>4 DEF Plain
<1> QED BY <1>2, <1>3, <1>4, <1>5, <1>6, <1>7, <1>8 DEF Shape

\* Every step of the composition keeps the shape of its state.
LEMMA NextKeepsShape == Shape /\ [Next]_vars => Shape'
<1> SUFFICES ASSUME Shape, [Next]_vars PROVE Shape'
  OBVIOUS
<1>0. IInv'
  BY NextKeeps DEF Shape
<1>1. CASE Commit \/ (\E m \in Users : CommitSent(m))
  BY <1>0, <1>1, CommitIsAppend, CommitShape
<1>2. ASSUME NEW m \in Users, Stage(m) \/ Acknowledge(m) \/ Refuse(m)
      PROVE  Shape'
  BY <1>0, <1>2, StageShape, AcknowledgeShape, RefuseShape
<1>3. CASE PublishNext \/ PublishTwice \/ Attach \/ CatchUp
  BY <1>0, <1>3, EngineShape
<1>4. CASE Pull
  BY <1>0, <1>4, PullShape
<1>5. CASE Follow
  BY <1>0, <1>5, FollowShape
<1>6. CASE ReceiveRuntime
  BY <1>0, <1>6, RuntimeShape
<1>7. CASE ReportFailure \/ MissedEvent
  BY <1>0, <1>7, FailureShape
<1>8. CASE Checkpoint
  BY <1>0, <1>8, CheckpointShape
<1>9. CASE Connect
  BY <1>0, <1>9, ConnectShape
<1>10. CASE Hydrate
  BY <1>0, <1>10, HydrateShape
<1>11. CASE LoseLink
  BY <1>0, <1>11, LoseLinkShape
<1>12. CASE Relaunch
  BY <1>0, <1>12, RelaunchShape
<1>13. CASE RestoreOptimistic
  BY <1>0, <1>13, RestoreShape
<1>14. CASE AskPage
  BY <1>0, <1>14, AskShape
<1>15. CASE ReadPage
  BY <1>0, <1>15, ReadShape
<1>16. CASE ApplyPage
  BY <1>0, <1>16, ApplyShape
<1>17. CASE UNCHANGED vars
  BY <1>0, <1>17, IdleShape
<1> QED BY <1>1, <1>2, <1>3, <1>4, <1>5, <1>6, <1>7, <1>8, <1>9, <1>10, <1>11,
           <1>12, <1>13, <1>14, <1>15, <1>16, <1>17 DEF Next

\* A state of that shape is typed.
LEMMA ShapeIsTyped == Shape => TypeOK
<1> SUFFICES ASSUME Shape PROVE TypeOK
  OBVIOUS
<1>1. published \in 0..Len(log)
  <2>1. published \in Nat /\ published <= Len(log) /\ Len(log) \in Nat
    BY DEF Shape, IInv, LogOK
  <2> QED BY <2>1
<1>2. log \in Seq(Transaction) /\ epoch \in 0..MaxEpoch
  BY DEF Shape, LogOK
<1>3. stream.phase \in {"closed", "opened", "subscribed", "catching", "tail"}
  BY DEF Shape, StreamOK
<1>4. /\ platform \in Platforms
      /\ link \in BOOLEAN /\ hydrated \in BOOLEAN
      /\ restored \in BOOLEAN /\ misplaced \in BOOLEAN
      /\ outbox \subseteq staged /\ staged \subseteq Users
      /\ faults \in 0..MaxFaults
  BY DEF Shape, Plain
<1>5. view.data \in Projection \cup {None} /\ view.cursor \in MaybeCursor
  BY DEF Shape, StoredOK
<1>6. /\ driver.phase \in {"off", "empty", "cached", "synchronizing", "live",
                         "stale", "failed"}
      /\ driver.proj \in Projection \cup {None}
      /\ driver.due \in BOOLEAN
  BY DEF Shape, DriverOK
<1>7. {link, hydrated, restored, misplaced, driver.due} \subseteq BOOLEAN
  BY <1>4, <1>6
<1> QED BY <1>1, <1>2, <1>3, <1>4, <1>5, <1>6, <1>7 DEF TypeOK

\* The variables of the stream and of its client keep their types.
THEOREM TimelineTypeCorrect == Spec => []TypeOK
<1>1. Init => Shape
  BY InitShape
<1>2. Shape /\ [Next]_vars => Shape'
  BY NextKeepsShape
<1>3. Shape => TypeOK
  BY ShapeIsTyped
<1> QED BY <1>1, <1>2, <1>3, PTL DEF Spec

-----------------------------------------------------------------------------
(* What a frame makes the driver show *)

\* What is stored under a cursor of this database is faithful to it.
FaithOf(v) ==
    v.cursor # None /\ v.cursor.epoch = epoch
    => Faithful(v.data.msgs, v.data.older, v.cursor.version)

\* The same of a driver's state, whose optimistic messages are the user's.
FaithAt(d) ==
    /\ d.cursor # None /\ d.cursor.epoch = epoch
       => Faithful(d.proj.msgs, d.proj.older, d.cursor.version)
    /\ d.cursor = None /\ d.proj # None => Drafts(d.proj.msgs)
    /\ Drafts(d.opt)

\* A state that shows what another one shows.
LEMMA SameFaith ==
    ASSUME NEW d, FaithAt(d), NEW r, r.proj = d.proj, r.cursor = d.cursor,
           r.opt = d.opt
    PROVE  FaithAt(r)
BY DEF FaithAt

\* A snapshot makes the driver show what was committed, and all of it from where
\* the snapshot begins.
LEMMA SnapshotFaith ==
    ASSUME LogOK, NEW d, StateOK(d), FaithAt(d),
           NEW f, FrameTyped(f), f.kind = "snapshot",
           Faithful(f.msgs, f.older, f.cursor.version),
           ~Displaces(d, f)
    PROVE  LET r == ReduceSnapshot(d, f) IN
           /\ FaithAt(r)
           /\ r.phase # "stale" /\ d.phase # "stale" /\ r.cursor = f.cursor
              => Faithful(r.proj.msgs, f.older, f.cursor.version)
<1> DEFINE new == [msgs |-> f.msgs, older |-> f.older]
           next == Preserve(d, new, f.cursor)
           kept == Without(d.opt, Ids(next.msgs))
           r == ReduceSnapshot(d, f)
           proj == [next EXCEPT !.msgs = @ \o kept]
           v == f.cursor.version
<1>0. /\ f.cursor \in Cursor /\ v \in 0..Len(log) /\ f.cursor.epoch = epoch
      /\ f.msgs \in Seq(Shown) /\ f.older \in 0..(MaxEvents + 1)
      /\ d.proj \in Projection \cup {None} /\ d.opt \in Seq(Shown)
      /\ f.cursor # None
  BY NothingIsNone DEF FrameTyped, StateOK, At
<1>1. next \in Projection
  BY PreserveIsTyped DEF StateOK, FrameTyped
<1>2. Faithful(next.msgs, next.older, v) /\ Faithful(next.msgs, f.older, v)
  <2>1. d.proj # None /\ d.cursor = f.cursor
        => Faithful(d.proj.msgs, d.proj.older, v)
    BY <1>0 DEF FaithAt
  <2> QED BY <1>0, <2>1, SnapshotIsFaithful
<1>3. r = IF \/ d.reset # None /\ f.cursor.epoch # d.reset
             \/ /\ d.reset = None /\ d.cursor # None
                /\ f.cursor.epoch # d.cursor.epoch
          THEN Stale(d)
          ELSE IF /\ d.reset = None
                  /\ d.cursor # None
                  /\ f.cursor.version < d.cursor.version
          THEN d
          ELSE [d EXCEPT !.proj = proj,
                         !.opt = kept,
                         !.cursor = f.cursor,
                         !.reset = None,
                         !.phase = "synchronizing",
                         !.count = IF f.background THEN None ELSE f.total]
  BY DEF ReduceSnapshot
<1> HIDE DEF next, r
<1>4. kept \in Seq(Shown) /\ Drafts(kept)
  BY <1>0, WithoutFacts, WithoutDrafts DEF FaithAt
<1> HIDE DEF kept
<1>5. /\ proj.msgs = next.msgs \o kept /\ proj.older = next.older
      /\ next.msgs \in Seq(Shown)
  <2>1. next = [msgs |-> next.msgs, older |-> next.older]
        /\ next.msgs \in Seq(Shown)
    BY <1>1, NothingIsNone
  <2>2. PICK a, b, joined : next = [msgs |-> a, older |-> b]
                            /\ joined = next.msgs \o kept
    BY <2>1
  <2>3. proj = [next EXCEPT !.msgs = joined]
    BY <2>2
  <2> HIDE DEF proj
  <2>4. proj = [msgs |-> joined, older |-> b] /\ next.older = b
    BY <2>2, <2>3
  <2> QED BY <2>1, <2>2, <2>4
<1> HIDE DEF proj
<1>6. Faithful(proj.msgs, proj.older, v) /\ Faithful(proj.msgs, f.older, v)
  BY <1>0, <1>2, <1>4, <1>5, DraftsAfter
<1> HIDE DEF v
<1>7. CASE \/ d.reset # None /\ f.cursor.epoch # d.reset
           \/ /\ d.reset = None /\ d.cursor # None
              /\ f.cursor.epoch # d.cursor.epoch
  <2>1. r = Stale(d) /\ r.phase = "stale"
    BY <1>3, <1>7, StaleFacts
  <2>2. FaithAt(r)
    BY <2>1, StaleFacts, SameFaith
  <2> QED BY <2>1, <2>2 DEF r
<1>8. CASE /\ d.reset = None
           /\ d.cursor # None
           /\ f.cursor.epoch = d.cursor.epoch
           /\ f.cursor.version < d.cursor.version
  <2>1. r = d
    BY <1>3, <1>8
  <2>2. d.cursor # f.cursor
    <3>1. d.cursor.version \in Nat /\ f.cursor.version \in Nat
      BY <1>8, NothingIsNone DEF StateOK, MaybeCursor, FrameTyped
    <3> QED BY <3>1, <1>8
  <2> QED BY <2>1, <2>2 DEF r
<1>9. CASE /\ ~(\/ d.reset # None /\ f.cursor.epoch # d.reset
                \/ /\ d.reset = None /\ d.cursor # None
                   /\ f.cursor.epoch # d.cursor.epoch)
           /\ ~(/\ d.reset = None
                /\ d.cursor # None
                /\ f.cursor.version < d.cursor.version)
  <2>1. r = [d EXCEPT !.proj = proj,
                         !.opt = kept,
                         !.cursor = f.cursor,
                         !.reset = None,
                         !.phase = "synchronizing",
                         !.count = IF f.background THEN None ELSE f.total]
    BY <1>3, <1>9
  <2>2. r.proj = proj /\ r.cursor = f.cursor /\ r.opt = kept
    BY <2>1 DEF StateOK
  <2>3. FaithAt(r)
    BY <1>0, <1>4, <1>6, <2>2 DEF FaithAt, v
  <2> QED BY <1>6, <2>2, <2>3 DEF r, v
<1> QED BY <1>7, <1>8, <1>9

\* A chunk extends what the driver shows down to where the chunk begins.
LEMMA ChunkFaith ==
    ASSUME LogOK, NEW d, StateOK(d), FaithAt(d),
           NEW f, FrameTyped(f), f.kind = "chunk",
           NEW before \in 1..(MaxEvents + 1), PageFacts(f, before, Rows),
           d.cursor = f.cursor => Faithful(d.proj.msgs, before, f.cursor.version)
    PROVE  LET r == ReduceChunk(d, f) IN
           /\ FaithAt(r)
           /\ r.phase # "stale" /\ r.cursor = f.cursor
              => Faithful(r.proj.msgs, f.older, f.cursor.version)
<1>1. CASE d.proj = None \/ d.cursor # f.cursor
  <2>1. ReduceChunk(d, f) = Stale(d)
    BY <1>1 DEF ReduceChunk
  <2>2. FaithAt(Stale(d)) /\ Stale(d).phase = "stale"
    BY StaleFacts, SameFaith
  <2> QED BY <2>1, <2>2
<1>2. CASE d.proj # None /\ d.cursor = f.cursor
  <2> DEFINE r == ReduceChunk(d, f)
             proj == Prepend(d.proj, f)
             v == f.cursor.version
  <2>1. r = [d EXCEPT !.proj = proj]
    BY <1>2 DEF ReduceChunk
  <2>2. d.proj \in Projection /\ v \in 0..Len(log) /\ Len(log) \in Nat
        /\ f.cursor.epoch = epoch /\ f.cursor # None /\ f.msgs \in Seq(Shown)
    BY <1>2, NothingIsNone DEF StateOK, FrameTyped, At, LogOK
  <2>3. PICK n : n = Len(log) /\ n \in v..Len(log) /\ PageFacts(f, before, RowsAt(n))
    BY <2>2 DEF Rows
  <2>4. before \in Nat
    BY StreamConstants
  <2>5. Faithful(d.proj.msgs, before, v)
    BY <1>2
  <2>6. Faithful(proj.msgs, f.older, v)
    <3> HIDE DEF v
    <3> QED BY <2>2, <2>3, <2>4, <2>5, PrependIsFaithful
  <2>7. proj.older = f.older
    <3>1. proj = [msgs |-> proj.msgs, older |-> f.older]
      BY <2>2, PrependFacts
    <3> HIDE DEF proj
    <3> QED BY <3>1
  <2> HIDE DEF proj, r, v
  <2>8. r.proj = proj /\ r.cursor = d.cursor /\ r.opt = d.opt
    BY <2>1 DEF StateOK
  <2>9. FaithAt(r)
    BY <1>2, <2>2, <2>6, <2>7, <2>8 DEF FaithAt, v
  <2> QED BY <2>6, <2>8, <2>9 DEF r, v
<1> QED BY <1>1, <1>2

\* An event takes what the driver shows to the next version.
LEMMA EventFaith ==
    ASSUME LogOK, NEW d, StateOK(d), FaithAt(d),
           NEW f, FrameTyped(f), f.kind = "event"
    PROVE  FaithAt(ReduceEvent(d, f))
<1> DEFINE r == ReduceEvent(d, f)
           v == f.cursor.version
           proj == Applied(d.proj, f)
           opt == IF f.event.kind = "message"
                  THEN Without(d.opt, {f.event.id}) ELSE d.opt
<1>1. r = IF \/ d.reset # None
             \/ d.cursor # None /\ f.cursor.epoch # d.cursor.epoch
          THEN Stale(d)
          ELSE IF d.cursor # None /\ f.cursor.version <= d.cursor.version
          THEN d
          ELSE IF \/ d.proj = None
                  \/ f.cursor.version # (IF d.cursor = None THEN 0
                                         ELSE d.cursor.version) + 1
          THEN Stale(d)
          ELSE [d EXCEPT !.proj = Applied(@, f),
                         !.opt = IF f.event.kind = "message"
                                 THEN Without(@, {f.event.id}) ELSE @,
                         !.cursor = f.cursor,
                         !.phase = IF @ = "live" THEN @ ELSE "synchronizing"]
  BY DEF ReduceEvent
<1> HIDE DEF r
<1>2. CASE r = Stale(d) \/ r = d
  BY <1>2, StaleFacts, SameFaith DEF r
<1>3. CASE /\ ~(\/ d.reset # None
                \/ d.cursor # None /\ f.cursor.epoch # d.cursor.epoch)
           /\ ~(d.cursor # None /\ f.cursor.version <= d.cursor.version)
           /\ ~(\/ d.proj = None
                \/ f.cursor.version # (IF d.cursor = None THEN 0
                                       ELSE d.cursor.version) + 1)
  <2>1. r = [d EXCEPT !.proj = proj,
                      !.opt = opt,
                      !.cursor = f.cursor,
                      !.phase = IF @ = "live" THEN @ ELSE "synchronizing"]
    BY <1>1, <1>3 DEF StateOK
  <2>2. /\ d.proj \in Projection /\ Len(log) \in Nat /\ v \in 1..Len(log)
        /\ f = EventFrame(v) /\ f.cursor.epoch = epoch /\ f.cursor # None
    BY <1>3, NothingIsNone DEF StateOK, FrameTyped, LogOK, At
  <2>3. PICK w \in 0..Len(log) : /\ w + 1 = v
                                 /\ w = IF d.cursor = None THEN 0
                                        ELSE d.cursor.version
    <3>1. (IF d.cursor = None THEN 0 ELSE d.cursor.version) \in Nat
      BY NothingIsNone DEF StateOK, MaybeCursor
    <3>2. PICK w \in Nat : w = IF d.cursor = None THEN 0 ELSE d.cursor.version
      BY <3>1
    <3>3. w + 1 = v
      BY <1>3, <3>2
    <3>4. w \in 0..Len(log)
      BY <2>2, <3>3
    <3> QED BY <3>2, <3>3, <3>4
  <2>4. Faithful(d.proj.msgs, d.proj.older, w)
    <3>1. CASE d.cursor = None
      <4>1. Drafts(d.proj.msgs) /\ d.proj.msgs \in Seq(Shown) /\ w = 0
        BY <1>3, <2>2, <2>3, <3>1, NothingIsNone DEF FaithAt
      <4> QED BY <4>1, DraftsAreFaithful
    <3>2. CASE d.cursor # None
      BY <1>3, <2>2, <2>3, <3>2 DEF FaithAt
    <3> QED BY <3>1, <3>2
  <2>5. Faithful(proj.msgs, proj.older, v)
    <3>1. w + 1 <= Len(log)
      BY <2>2, <2>3
    <3>2. /\ Applied(d.proj, EventFrame(w + 1)).older = d.proj.older
          /\ Faithful(Applied(d.proj, EventFrame(w + 1)).msgs, d.proj.older, w + 1)
      BY <2>2, <2>4, <3>1, EventIsFaithful
    <3> QED BY <2>2, <2>3, <3>2
  <2>6. Drafts(opt)
    BY WithoutDrafts DEF StateOK, FaithAt
  <2> HIDE DEF proj, opt
  <2>7. r.proj = proj /\ r.cursor = f.cursor /\ r.opt = opt
    BY <2>1 DEF StateOK
  <2>8. FaithAt(r)
    BY <2>2, <2>5, <2>6, <2>7 DEF FaithAt
  <2> QED BY <2>8 DEF r
<1> QED BY <1>1, <1>2, <1>3

\* The reducer keeps a client faithful, if a snapshot or a page that it applies
\* is, and no committed message is displaced.
LEMMA OtherFaith ==
    ASSUME NEW d, StateOK(d), FaithAt(d), NEW f,
           f.kind \in {"synchronized", "reset"}
    PROVE  FaithAt(Reduce(d, f))
<1>1. CASE f.kind = "synchronized"
  <2>1. Reduce(d, f) \in
             {Stale(d), [d EXCEPT !.phase = "live", !.count = None]}
    BY <1>1 DEF Reduce, ReduceSynchronized
  <2>2. ASSUME NEW r, r = [d EXCEPT !.phase = "live", !.count = None]
        PROVE  FaithAt(r)
    <3>1. r.proj = d.proj /\ r.cursor = d.cursor /\ r.opt = d.opt
      BY <2>2 DEF StateOK
    <3> QED BY <3>1, SameFaith
  <2> QED BY <2>1, <2>2, StaleFacts, SameFaith
<1>2. CASE f.kind = "reset"
  <2>1. Reduce(d, f) \in
             {d, [d EXCEPT !.reset = f.cursor.epoch, !.phase = "synchronizing"]}
    BY <1>2 DEF Reduce, ReduceReset
  <2>2. ASSUME NEW r, r = [d EXCEPT !.reset = f.cursor.epoch,
                                    !.phase = "synchronizing"]
        PROVE  FaithAt(r)
    <3>1. r.proj = d.proj /\ r.cursor = d.cursor /\ r.opt = d.opt
      BY <2>2 DEF StateOK
    <3> QED BY <3>1, SameFaith
  <2> QED BY <2>1, <2>2
<1> QED BY <1>1, <1>2

-----------------------------------------------------------------------------
(* What is shown was committed: the invariant *)

\* From the first message that the driver put into messages, or from the start
\* of them, all that the driver did not put there was written by the user.
KnownIn(msgs) ==
    \/ NewAt(msgs, Known, 1)
    \/ /\ platform.background
       /\ Known # <<>>
       /\ InLog(Known[1].id)
       /\ Known[1].id \in Ids(msgs)
       /\ NewAt(msgs, Known, IndexOf(msgs, Known[1].id))

\* While history is streamed, everything from where it continues is there.
HistoryOK ==
    /\ Running
    /\ stream.phase = "catching"
    /\ stream.history # 0
    /\ stream.pend = <<>>
    /\ view.cursor = At(stream.through)
    => Faithful(view.data.msgs, stream.history, stream.through)

Faith ==
    /\ FaithOf(view)
    /\ cache # None => FaithOf(cache)
    /\ Drafts(driver.opt)
    /\ KnownOK
    /\ HistoryOK

\* While nothing is out of place.
FaithInv == ~misplaced => Faith

\* The two ways to say what the driver knows.
LEMMA KnownInFacts ==
    /\ KnownOK <=> (driver.phase # "off" /\ view.data # None
                    => KnownIn(view.data.msgs))
    /\ driver.phase # "off" /\ KnownOK => KnownIn(Messages0(view))
<1>1. KnownOK <=> (driver.phase # "off" /\ view.data # None
                    => KnownIn(view.data.msgs))
  BY DEF KnownOK, KnownIn
<1>2. ASSUME driver.phase # "off", KnownOK PROVE KnownIn(Messages0(view))
  <2>1. CASE view.data = None
    <3>1. Messages0(view) = <<>> /\ Len(<<>>) = 0
      BY <2>1 DEF Messages0
    <3> QED BY <3>1 DEF KnownIn, NewAt
  <2>2. CASE view.data # None
    BY <1>1, <1>2, <2>2 DEF Messages0
  <2> QED BY <2>1, <2>2
<1> QED BY <1>1, <1>2

\* What is stored stays faithful while the log becomes longer, and when another
\* database takes its place.
LEMMA FaithStays ==
    ASSUME LogOK, LogOK', epoch \in 0..MaxEpoch,
           NEW v, StoredOK(v), FaithOf(v),
           \/ Longer /\ UNCHANGED epoch
           \/ epoch' = epoch + 1
    PROVE  FaithOf(v)'
<1> SUFFICES ASSUME v.cursor # None, v.cursor.epoch = epoch'
             PROVE  Faithful(v.data.msgs, v.data.older, v.cursor.version)'
  BY DEF FaithOf
<1>1. v.cursor \in Cursor /\ CursorOK(v.cursor) /\ v.data # None
  BY DEF StoredOK, MaybeCursor
<1>2. v.cursor.version \in Nat /\ v.cursor.epoch \in Nat /\ epoch \in Nat
      /\ Len(log) \in Nat
  BY <1>1, NothingIsNone, StreamConstants DEF LogOK
<1>3. Longer /\ UNCHANGED epoch
  BY <1>1, <1>2 DEF CursorOK
<1>4. PICK n \in 0..Len(log) : n = v.cursor.version
  BY <1>1, <1>2, <1>3 DEF CursorOK
<1>5. PICK msgs, older : msgs = v.data.msgs /\ older = v.data.older
  OBVIOUS
<1>6. Faithful(msgs, older, n)
  BY <1>3, <1>4, <1>5 DEF FaithOf
<1>7. Faithful(msgs, older, n)'
  BY <1>3, <1>6, FaithfulForLonger
<1> QED BY <1>4, <1>5, <1>7

\* As it is when the cell or the cache has become what was stored.
LEMMA FaithWas ==
    ASSUME LogOK, LogOK', epoch \in 0..MaxEpoch,
           NEW v, StoredOK(v), FaithOf(v),
           \/ Longer /\ UNCHANGED epoch
           \/ epoch' = epoch + 1
    PROVE  /\ view' = v => FaithOf(view)'
           /\ cache' = v => FaithOf(cache)'
<1>1. FaithOf(v)'
  BY FaithStays
<1> QED BY <1>1 DEF FaithOf

\* The cell is what it was, and the cache is what it or the cell was.
LEMMA FaithOfSame ==
    ASSUME Shape, Faith, LogOK', view' = view, cache' \in {cache, view},
           \/ Longer /\ UNCHANGED epoch
           \/ epoch' = epoch + 1
    PROVE  FaithOf(view)' /\ (cache # None => FaithOf(cache))'
<1>1. PICK v : v = view /\ StoredOK(v) /\ FaithOf(v)
  BY DEF Shape, Faith
<1>2. LogOK /\ epoch \in 0..MaxEpoch
  BY DEF Shape
<1>3. /\ view' = v => FaithOf(view)'
      /\ cache' = v => FaithOf(cache)'
  BY <1>1, <1>2, FaithWas
<1>4. ASSUME cache' = cache, cache # None PROVE FaithOf(cache)'
  <2>1. PICK c : c = cache /\ StoredOK(c) /\ FaithOf(c)
    BY <1>4 DEF Shape, CacheOK, Faith
  <2>2. cache' = c => FaithOf(cache)'
    BY <1>2, <2>1, FaithWas
  <2> QED BY <1>4, <2>1, <2>2
<1> QED BY <1>1, <1>3, <1>4

\* History that is streamed while the cell is left alone.
LEMMA HistoryStays ==
    ASSUME Shape, HistoryOK, Longer, UNCHANGED <<epoch, view>>,
           stream'.phase = stream.phase, stream'.pend = stream.pend,
           stream'.history = stream.history, stream'.through = stream.through,
           Running' => Running
    PROVE  HistoryOK'
<1> SUFFICES ASSUME Running', stream'.phase = "catching", stream'.history # 0,
                    stream'.pend = <<>>, view'.cursor = At(stream.through)
             PROVE  Faithful(view.data.msgs, stream.history, stream.through)'
  BY DEF HistoryOK, At
<1>1. stream.phase = "catching" /\ stream.through \in 0..Len(log) /\ LogOK
  BY DEF Shape, StreamOK
<1>2. PICK n \in 0..Len(log) : n = stream.through
  BY <1>1
<1>2a. PICK msgs, older : msgs = view.data.msgs /\ older = stream.history
  OBVIOUS
<1>3. Faithful(msgs, older, n)
  BY <1>1, <1>2, <1>2a DEF HistoryOK
<1>4. Faithful(msgs, older, n)'
  BY <1>1, <1>3, FaithfulForLonger
<1> QED BY <1>2, <1>2a, <1>4

\* No history is streamed.
LEMMA NoHistory ==
    ASSUME \/ stream'.phase # "catching"
           \/ stream'.history = 0
           \/ stream'.pend # <<>>
           \/ ~Running'
    PROVE  HistoryOK'
BY DEF HistoryOK

\* The driver and its cell are left alone while the log becomes longer.
LEMMA KnownStays ==
    ASSUME Shape, KnownOK, Longer,
           UNCHANGED <<platform, view>>,
           driver'.proj = driver.proj,
           driver'.phase # "off" => driver.phase # "off"
    PROVE  KnownOK'
<1>1. \A m : InLog(m) => InLog(m)'
  BY LongerFacts DEF Shape
<1>2. Known' = Known
  BY DEF Known
<1> SUFFICES ASSUME driver'.phase # "off", view'.data # None
             PROVE  KnownIn(view.data.msgs)'
  BY DEF KnownOK, KnownIn
<1>3. KnownIn(view.data.msgs)
  BY KnownInFacts
<1>4. CASE NewAt(view.data.msgs, Known, 1)
  BY <1>2, <1>4 DEF KnownIn, NewAt, Draft
<1>5. CASE /\ platform.background
           /\ Known # <<>>
           /\ InLog(Known[1].id)
           /\ Known[1].id \in Ids(view.data.msgs)
           /\ NewAt(view.data.msgs, Known, IndexOf(view.data.msgs, Known[1].id))
  <2>1. InLog(Known[1].id)'
    <3>1. PICK m : m = Known[1].id
      OBVIOUS
    <3>2. InLog(m)'
      BY <1>1, <1>5, <3>1
    <3> QED BY <1>2, <3>1, <3>2 DEF InLog
  <2>2. view' = view /\ platform' = platform
    OBVIOUS
  <2> QED BY <1>2, <1>5, <2>1, <2>2 DEF KnownIn
<1> QED BY <1>3, <1>4, <1>5 DEF KnownIn

\* A driver that knows all the cell's messages, or whose cell has no others than
\* the user's.
LEMMA KnownAll ==
    ASSUME view'.data # None =>
              \/ driver'.proj = view'.data
              \/ Drafts(view'.data.msgs)
    PROVE  KnownOK'
<1> SUFFICES ASSUME view'.data # None
             PROVE  NewAt(view'.data.msgs, Known', 1)
  BY DEF KnownOK, NewAt, Draft
<1>1. CASE driver'.proj = view'.data
  <2>1. PICK msgs : msgs = view'.data.msgs /\ Known' = msgs
    BY <1>1 DEF Known
  <2>2. \A i \in 1..Len(msgs) : msgs[i] \in ToSet(msgs)
    BY DEF ToSet
  <2> QED BY <2>1, <2>2 DEF NewAt
<1>2. CASE Drafts(view'.data.msgs)
  BY <1>2 DEF NewAt, Drafts
<1> QED BY <1>1, <1>2

-----------------------------------------------------------------------------
(* The driver, once more *)

\* What the driver shows once it has observed the cell.
LEMMA ObservedFaith ==
    ASSUME Shape, Faith, driver.phase # "off"
    PROVE  FaithAt(Observe(driver))
<1>1. /\ Observe(driver).proj = view.data /\ Observe(driver).cursor = view.cursor
  BY ObservedState
<1>2. Drafts(Observe(driver).opt)
  BY ObserveFacts DEF Faith
<1>3. /\ view.cursor # None /\ view.cursor.epoch = epoch
         => Faithful(view.data.msgs, view.data.older, view.cursor.version)
      /\ view.cursor = None /\ view.data # None => Drafts(view.data.msgs)
  BY DEF Faith, FaithOf, Shape, StoredOK
<1> QED BY <1>1, <1>2, <1>3 DEF FaithAt

\* A frame is received.
LEMMA ReceiveFaith ==
    ASSUME Shape, Faith, driver.phase # "off", NEW f, FrameTyped(f), Receive(f),
           FaithAt(Reduce(Observe(driver), f)),
           StoredOK(view)', UNCHANGED <<epoch, log>>
    PROVE  /\ FaithOf(view)' /\ (cache # None => FaithOf(cache))'
           /\ Drafts(driver.opt)' /\ KnownOK'
           /\ driver'.phase = Reduce(Observe(driver), f).phase
           /\ view'.data = Reduce(Observe(driver), f).proj
           /\ view'.cursor = Reduce(Observe(driver), f).cursor
<1>1. PICK r : /\ r = Reduce(Observe(driver), f)
               /\ StateOK(r)
               /\ view' = [data |-> r.proj, cursor |-> r.cursor]
               /\ driver' = [r EXCEPT !.due = driver'.due]
               /\ cache' \in {cache, view'}
               /\ FaithAt(r)
  BY ReceiveFacts
<1>2. view'.data = r.proj /\ view'.cursor = r.cursor
  BY <1>1
<1>3. /\ driver'.phase = r.phase /\ driver'.proj = r.proj /\ driver'.opt = r.opt
  <2>1. PICK b : driver' = [r EXCEPT !.due = b]
    BY <1>1
  <2> QED BY <2>1, <1>1 DEF StateOK
<1>4. FaithOf(view)'
  <2>1. PICK v : v = view'
    OBVIOUS
  <2>2. v.cursor # None /\ v.cursor.epoch = epoch
        => Faithful(v.data.msgs, v.data.older, v.cursor.version)
    BY <1>1, <1>2, <2>1 DEF FaithAt
  <2>3. ASSUME v.cursor # None, v.cursor.epoch = epoch'
        PROVE  Faithful(v.data.msgs, v.data.older, v.cursor.version)'
    <3>1. /\ v.cursor \in Cursor
          /\ v.cursor.version <= Len(log) /\ v.cursor.version \in Nat
      <4>1. v.cursor \in Cursor /\ v.cursor.version <= Len(log')
        BY <2>1, <2>3 DEF StoredOK, MaybeCursor, CursorOK
      <4> QED BY <4>1, NothingIsNone
    <3>2. LogOK /\ Longer /\ Len(log) \in Nat
      BY SameIsLonger DEF Shape, LogOK
    <3>3. PICK n \in 0..Len(log) : n = v.cursor.version
      BY <3>1, <3>2
    <3>4. PICK msgs, older : msgs = v.data.msgs /\ older = v.data.older
      OBVIOUS
    <3>5. Faithful(msgs, older, n)
      BY <2>2, <2>3, <3>3, <3>4
    <3>6. Faithful(msgs, older, n)'
      BY <3>2, <3>5, FaithfulForLonger
    <3> QED BY <3>3, <3>4, <3>6
  <2> QED BY <2>1, <2>3 DEF FaithOf
<1>5. (cache # None => FaithOf(cache))'
  <2>1. CASE cache' = view'
    BY <1>4, <2>1 DEF FaithOf
  <2>2. ASSUME cache' = cache, cache # None PROVE FaithOf(cache)'
    <3>1. PICK v : v = cache /\ FaithOf(v)
      BY <2>2 DEF Faith
    <3>2. StoredOK(v) /\ LogOK /\ epoch \in 0..MaxEpoch
      BY <2>2, <3>1 DEF Shape, CacheOK
    <3>3. LogOK' /\ Longer
      BY <3>2, SameIsLonger
    <3>4. cache' = v => FaithOf(cache)'
      BY <3>1, <3>2, <3>3, FaithWas
    <3> QED BY <2>2, <3>1, <3>4
  <2> QED BY <1>1, <2>1, <2>2
<1>6. Drafts(driver.opt)'
  <2>1. Drafts(r.opt)
    BY <1>1 DEF FaithAt
  <2> QED BY <1>3, <2>1 DEF Drafts, Draft
<1>7. KnownOK'
  BY <1>2, <1>3, KnownAll
<1> QED BY <1>1, <1>2, <1>3, <1>4, <1>5, <1>6, <1>7

\* A committed event is received, from the captured delta or from the hub.
LEMMA EventIsReceived ==
    ASSUME Shape, Faith, driver.phase # "off", NEW f, FrameTyped(f),
           f.kind = "event"
    PROVE  FaithAt(Reduce(Observe(driver), f))
<1>1. StateOK(Observe(driver)) /\ FaithAt(Observe(driver)) /\ LogOK
  BY ObservedState, ObservedFaith DEF Shape
<1>2. FaithAt(ReduceEvent(Observe(driver), f))
  BY <1>1, EventFaith
<1> QED BY <1>2 DEF Reduce

\* The driver follows the tail.
LEMMA FollowFaith ==
    ASSUME Shape, Shape', Faith, Follow
    PROVE  Faith'
<1>0. ~Gap
  BY InvariantImpliesNoGap DEF Shape, NoGap, Follow
<1>1. /\ driver.phase # "off" /\ stream.phase = "tail" /\ stream.hub # <<>>
      /\ stream' = Followed
      /\ IF Repeated THEN UNCHANGED <<view, driver, cache>>
         ELSE Receive(EventFrame(stream.hub[1]))
      /\ UNCHANGED <<epoch, log, published, platform, link, hydrated, flight,
                     staged, outbox, restored, faults, misplaced>>
  BY <1>0, RunningIsOn DEF Follow, restVars
<1>2. HistoryOK'
  <2>1. stream'.phase = "tail"
    BY <1>1 DEF Followed, Shape, IInv, StreamShape
  <2> QED BY <2>1, NoHistory
<1>3. CASE Repeated
  <2>1. UNCHANGED <<view, driver, cache>>
    BY <1>1, <1>3
  <2>2. LogOK' /\ Longer
    BY <1>1, SameIsLonger DEF Shape
  <2>3. FaithOf(view)' /\ (cache # None => FaithOf(cache))'
    BY <1>1, <2>1, <2>2, FaithOfSame
  <2>4. KnownOK'
    BY <1>1, <2>1, <2>2, KnownStays DEF Faith
  <2>5. Drafts(driver.opt)'
    BY <2>1 DEF Faith, Drafts, Draft
  <2> QED BY <1>2, <2>3, <2>4, <2>5 DEF Faith
<1>4. CASE ~Repeated
  <2>1. PICK f : f = EventFrame(stream.hub[1]) /\ Receive(f)
    BY <1>1, <1>4
  <2>2. FrameTyped(f) /\ f.kind = "event"
    BY <1>1, <1>4, <2>1, HeardIsCommitted DEF EventFrame
  <2>3. FaithAt(Reduce(Observe(driver), f))
    BY <1>1, <2>2, EventIsReceived
  <2>4. StoredOK(view)'
    BY DEF Shape
  <2> QED BY <1>1, <1>2, <2>1, <2>2, <2>3, <2>4, ReceiveFaith DEF Faith
<1> QED BY <1>3, <1>4

\* A runtime frame makes the driver observe the cell, which shows the same.
LEMMA RuntimeFaith ==
    ASSUME Shape, Faith, ReceiveRuntime
    PROVE  Faith'
<1>1. /\ driver.phase # "off" /\ driver' = Observe(driver)
      /\ UNCHANGED <<epoch, log, published, stream, platform, link, hydrated,
                     flight, staged, outbox, restored, faults, misplaced,
                     view, cache>>
  BY RunningIsOn DEF ReceiveRuntime, restVars, streamVars
<1>2. LogOK' /\ Longer
  BY <1>1, SameIsLonger DEF Shape
<1>3. FaithOf(view)' /\ (cache # None => FaithOf(cache))'
  BY <1>1, <1>2, FaithOfSame
<1>4. PICK d : /\ d = Observe(driver) /\ d.proj = view.data
               /\ d.phase = driver.phase /\ Drafts(d.opt)
  BY <1>1, ObservedState, ObservedFaith DEF FaithAt
<1>5. Drafts(driver.opt)'
  BY <1>1, <1>4 DEF Drafts, Draft
<1>6. KnownOK'
  BY <1>1, <1>4, KnownAll
<1>7. HistoryOK'
  <2>1. Running' => Running
    BY <1>1, <1>4 DEF Running
  <2> QED BY <1>1, <1>2, <2>1, HistoryStays DEF Faith
<1> QED BY <1>3, <1>5, <1>6, <1>7 DEF Faith

\* The cell after a frame of the captured stream.
LEMMA HistoryAfter ==
    ASSUME Shape, Shape', UNCHANGED <<epoch, log>>,
           NEW msgs, msgs = view'.data.msgs,
           NEW older, older = stream'.history,
           NEW v, v = stream'.through,
           /\ Running' /\ stream'.phase = "catching"
           /\ older # 0 /\ stream'.pend = <<>> /\ view'.cursor = At(v)
           => Faithful(msgs, older, v)
    PROVE  HistoryOK'
<1>0. LogOK /\ Longer
  BY SameIsLonger DEF Shape
<1>1. At(stream.through)' = At(v)
  BY DEF At
<1> SUFFICES ASSUME Running', stream'.phase = "catching", stream'.history # 0,
                    stream'.pend = <<>>, view'.cursor = At(v)
             PROVE  Faithful(view.data.msgs, stream.history, stream.through)'
  BY <1>1 DEF HistoryOK
<1>2. Faithful(msgs, older, v)
  OBVIOUS
<1>3. v \in 0..Len(log)
  BY DEF Shape, StreamOK
<1>4. Faithful(msgs, older, v)'
  BY <1>0, <1>2, <1>3, FaithfulForLonger
<1> QED BY <1>4

\* The next frame leaves the driver faithful, and says where history continues.
LEMMA NextFrameFaith ==
    ASSUME Shape, Faith, Running, stream.phase = "catching",
           ~Displaces(Observe(driver), NextFrame),
           NEW f, f = NextFrame,
           NEW r, r = Reduce(Observe(driver), f),
           stream' = Pulled
    PROVE  /\ FaithAt(r)
           /\ /\ r.phase # "stale" /\ stream'.phase = "catching"
              /\ stream'.history # 0 /\ stream'.pend = <<>>
              /\ r.cursor = At(stream'.through)
              => Faithful(r.proj.msgs, stream'.history, stream'.through)
<1> DEFINE d == Observe(driver)
<1>0. /\ driver.phase # "off" /\ LogOK /\ StreamOK /\ epoch \in 0..MaxEpoch
      /\ StreamShape /\ FrameTyped(f)
  BY RunningIsOn, NextFrameIsTyped DEF Shape, IInv
<1>1. /\ StateOK(d) /\ FaithAt(d) /\ d.proj = view.data
      /\ d.cursor = view.cursor /\ d.phase = driver.phase
  BY <1>0, ObservedState, ObservedFaith
<1>2. d.phase # "stale"
  BY <1>1 DEF Running
<1>3. ~Displaces(d, f) /\ r = Reduce(d, f)
  OBVIOUS
<1> HIDE DEF d
<1>4. CASE stream.pend # <<>>
  <2> DEFINE p == stream.pend
             q == Tail(p)
  <2>0. f = p[1] /\ FrameOK(f)
    BY <1>0, <1>4, FirstFrame DEF NextFrame
  <2>1. stream' = [stream EXCEPT !.pend = q]
    BY <1>4 DEF Pulled
  <2>2. q = <<>> => p[Len(p)] = p[1]
    <3>1. PICK S, t : t = p /\ t \in Seq(S)
      BY <1>0 DEF StreamOK
    <3>2. Len(t) \in Nat /\ t # <<>> /\ Len(t) # 0
      BY <1>4, <3>1, EmptySeq
    <3>3. PICK u : u = Tail(t)
      OBVIOUS
    <3>5. u \in Seq(S) /\ Len(u) = Len(t) - 1
      <4>1. Tail(t) \in Seq(S) /\ Len(Tail(t)) = Len(t) - 1
        BY <3>1, <3>2
      <4> QED BY <3>3, <4>1
    <3>4. ASSUME u = <<>> PROVE t[Len(t)] = t[1]
      <4>1. Len(u) = 0
        BY <3>4
      <4>2. Len(t) = 1
        BY <3>2, <3>5, <4>1
      <4> QED BY <4>2
    <3> QED BY <3>1, <3>3, <3>4
  <2> HIDE DEF q
  <2>3. /\ stream'.phase = "catching" /\ stream'.pend = q
        /\ stream'.history = stream.history /\ stream'.through = stream.through
    BY <1>0, <2>1 DEF StreamShape
  <2>4. stream'.history # 0 /\ stream'.pend = <<>>
        => /\ f.kind = "snapshot" /\ f.older = stream'.history
           /\ f.cursor = At(stream'.through)
    BY <1>0, <1>4, <2>0, <2>2, <2>3 DEF StreamOK
  <2>5. CASE f.kind = "snapshot"
    <3>1. Faithful(f.msgs, f.older, f.cursor.version)
      BY <2>0, <2>5 DEF FrameOK
    <3>2. r = ReduceSnapshot(d, f)
      BY <1>3, <2>5 DEF Reduce
    <3>3. /\ FaithAt(r)
          /\ r.phase # "stale" /\ d.phase # "stale" /\ r.cursor = f.cursor
             => Faithful(r.proj.msgs, f.older, f.cursor.version)
      BY <1>0, <1>1, <1>3, <2>5, <3>1, <3>2, SnapshotFaith
    <3>4. At(stream'.through).version = stream'.through
      BY DEF At
    <3> QED BY <1>2, <2>4, <3>3, <3>4
  <2>6. CASE f.kind = "event"
    BY <1>0, <2>4, <2>6, EventIsReceived
  <2>7. CASE f.kind = "reset"
    BY <1>1, <1>3, <2>4, <2>7, OtherFaith
  <2> QED BY <2>0, <2>5, <2>6, <2>7 DEF FrameOK
<1>5. CASE stream.pend = <<>> /\ stream.history # 0
  <2> DEFINE h == stream.history
             page == MessagePage(h)
  <2>1. stream' = [stream EXCEPT !.history = page.older]
    BY <1>5 DEF Pulled
  <2>2. h \in 1..(MaxEvents + 1)
    BY <1>0, <1>5, StreamConstants DEF StreamOK
  <2>3. PageFacts(page, h, Rows)
    BY <1>0, <2>2, MessagePageFacts
  <2>4. f = ChunkFrame(stream.through, page)
    BY <1>5 DEF NextFrame
  <2> HIDE DEF page
  <2>5. /\ f.kind = "chunk" /\ f.cursor = At(stream.through)
        /\ f.msgs = page.msgs /\ f.older = page.older
    BY <2>4 DEF ChunkFrame
  <2>6. PageFacts(f, h, Rows)
    BY <2>3, <2>5 DEF PageFacts
  <2>7. /\ stream'.phase = "catching" /\ stream'.pend = <<>>
        /\ stream'.history = f.older /\ stream'.through = stream.through
    BY <1>0, <1>5, <2>1, <2>5 DEF StreamShape
  <2>8. At(stream.through).version = stream.through
    BY DEF At
  <2>9. d.cursor = f.cursor => Faithful(d.proj.msgs, h, f.cursor.version)
    BY <1>1, <1>5, <2>5, <2>8 DEF Faith, HistoryOK
  <2>10. r = ReduceChunk(d, f)
    BY <1>3, <2>5 DEF Reduce
  <2> HIDE DEF h
  <2>11. /\ FaithAt(r)
         /\ r.phase # "stale" /\ r.cursor = f.cursor
            => Faithful(r.proj.msgs, f.older, f.cursor.version)
    BY <1>0, <1>1, <2>2, <2>5, <2>6, <2>9, <2>10, ChunkFaith
  <2> QED BY <2>5, <2>7, <2>8, <2>11
<1>6. CASE stream.pend = <<>> /\ stream.history = 0
  <2>1. stream' = [stream EXCEPT !.phase = "tail"]
    BY <1>6 DEF Pulled
  <2>2. stream'.phase = "tail"
    BY <1>0, <2>1 DEF StreamShape
  <2>3. f.kind = "synchronized"
    BY <1>6 DEF NextFrame, SyncFrame
  <2> QED BY <1>1, <1>3, <2>2, <2>3, OtherFaith
<1> QED BY <1>4, <1>5, <1>6

\* The driver pulls a frame that displaces nothing.
LEMMA PullFaith ==
    ASSUME Shape, Shape', Faith, ~misplaced', Pull
    PROVE  Faith'
<1>1. /\ Running /\ driver.phase # "off"
      /\ stream.phase = "catching" /\ stream' = Pulled
      /\ UNCHANGED <<epoch, log, published, platform, link, hydrated, flight,
                     staged, outbox, restored, faults>>
  BY RunningIsOn DEF Pull, restVars
<1>2. PICK f : /\ f = NextFrame
               /\ Receive(f)
               /\ ~Displaces(Observe(driver), f)
  BY DEF Pull
<1>3. FrameTyped(f)
  BY <1>1, <1>2, NextFrameIsTyped DEF Shape
<1>4. PICK r : r = Reduce(Observe(driver), f)
  OBVIOUS
<1>5. /\ FaithAt(r)
      /\ /\ r.phase # "stale" /\ stream'.phase = "catching"
         /\ stream'.history # 0 /\ stream'.pend = <<>>
         /\ r.cursor = At(stream'.through)
         => Faithful(r.proj.msgs, stream'.history, stream'.through)
  BY <1>1, <1>2, <1>4, NextFrameFaith
<1>6. /\ FaithOf(view)' /\ (cache # None => FaithOf(cache))'
      /\ Drafts(driver.opt)' /\ KnownOK'
      /\ driver'.phase = r.phase /\ view'.data = r.proj /\ view'.cursor = r.cursor
  <2>1. StoredOK(view)'
    BY DEF Shape
  <2> QED BY <1>1, <1>2, <1>3, <1>4, <1>5, <2>1, ReceiveFaith
<1>7. HistoryOK'
  <2>1. PICK msgs, older, v : msgs = view'.data.msgs /\ older = stream'.history
                              /\ v = stream'.through
    OBVIOUS
  <2>2. Running' => r.phase # "stale"
    BY <1>6 DEF Running
  <2>3. /\ Running' /\ stream'.phase = "catching"
        /\ older # 0 /\ stream'.pend = <<>> /\ view'.cursor = At(v)
        => Faithful(msgs, older, v)
    BY <1>5, <1>6, <2>1, <2>2
  <2> QED BY <1>1, <2>1, <2>3, HistoryAfter
<1> QED BY <1>6, <1>7 DEF Faith

-----------------------------------------------------------------------------
(* The composer, the outbox and the pager, once more *)

\* What the composer and its outbox put into the cell or take out of it.
LEMMA OverlayFaith ==
    ASSUME Shape, Shape', Faith, UNCHANGED overlayRest,
           NEW new \in Seq(Shown),
           view' = Overlaid(view, new),
           view.cursor = None => Drafts(new),
           KnownIn(Messages0(view)) => KnownIn(new),
           \A older : \A v \in 0..Len(log) :
              Faithful(Messages0(view), older, v) => Faithful(new, older, v)
    PROVE  Faith'
<1>0. /\ UNCHANGED <<epoch, log, published, stream, platform, link, hydrated,
                     driver, cache, flight, misplaced, faults>>
      /\ LogOK /\ Longer /\ StoredOK(view) /\ epoch \in 0..MaxEpoch
  BY SameIsLonger DEF overlayRest, streamVars, Shape
<1>1. /\ view'.cursor = view.cursor /\ view'.data.msgs = new
      /\ view'.data.older = IF view.data = None THEN 0 ELSE view.data.older
      /\ view'.data # None
  BY <1>0, OverlaidFacts
<1>2. view.cursor # None => /\ view.data # None
                            /\ Messages0(view) = view.data.msgs
                            /\ view'.data.older = view.data.older
                            /\ view.cursor \in Cursor /\ CursorOK(view.cursor)
  BY <1>0, <1>1 DEF StoredOK, Messages0, MaybeCursor
<1>3. ASSUME NEW older, NEW v \in 0..Len(log), view.cursor # None,
             Faithful(view.data.msgs, older, v)
      PROVE  Faithful(new, older, v)'
  <2>1. Faithful(new, older, v)
    BY <1>2, <1>3
  <2> QED BY <1>0, <2>1, FaithfulForLonger
<1>4. FaithOf(view)'
  <2> SUFFICES ASSUME view.cursor # None, view.cursor.epoch = epoch
               PROVE  Faithful(new, view.data.older, view.cursor.version)'
    BY <1>0, <1>1, <1>2 DEF FaithOf
  <2>1. PICK v \in 0..Len(log) : v = view.cursor.version
    BY <1>2, NothingIsNone DEF CursorOK
  <2>2. PICK older : older = view.data.older
    OBVIOUS
  <2>3. Faithful(view.data.msgs, older, v)
    BY <2>1, <2>2 DEF Faith, FaithOf
  <2>4. Faithful(new, older, v)'
    BY <1>3, <2>3
  <2>5. view.data.older = older /\ view.cursor.version = v
    BY <2>1, <2>2
  <2> QED BY <1>0, <1>1, <1>2, <2>4, <2>5
<1>5. (cache # None => FaithOf(cache))'
  <2> SUFFICES ASSUME cache # None PROVE FaithOf(cache)'
    BY <1>0
  <2>1. PICK c : c = cache /\ StoredOK(c) /\ FaithOf(c)
    BY DEF Shape, CacheOK, Faith
  <2>2. cache' = c => FaithOf(cache)'
    BY <1>0, <2>1, FaithWas DEF Longer
  <2> QED BY <1>0, <2>1, <2>2
<1>6. Drafts(driver.opt)'
  BY <1>0 DEF Faith, Drafts, Draft
<1>7. KnownOK'
  <2>1. ASSUME driver.phase # "off" PROVE KnownIn(new)
    BY <2>1, KnownInFacts DEF Faith
  <2>2. Known' = Known
    BY <1>0 DEF Known
  <2>3. \A m : InLog(m)' <=> InLog(m)
    BY <1>0 DEF InLog
  <2>4. ASSUME driver.phase # "off" PROVE KnownIn(new)'
    <3>1. CASE NewAt(new, Known, 1)
      BY <2>2, <3>1 DEF KnownIn
    <3>2. CASE /\ platform.background
               /\ Known # <<>>
               /\ InLog(Known[1].id)
               /\ Known[1].id \in Ids(new)
               /\ NewAt(new, Known, IndexOf(new, Known[1].id))
      <4>1. InLog(Known[1].id)'
        BY <2>2, <3>2, <1>0 DEF InLog
      <4> QED BY <1>0, <2>2, <3>2, <4>1 DEF KnownIn
    <3> QED BY <2>1, <2>4, <3>1, <3>2 DEF KnownIn
  <2> QED BY <1>0, <1>1, <2>4 DEF KnownOK, KnownIn
<1>8. HistoryOK'
  <2>1. PICK older, v : older = stream'.history /\ v = stream'.through
    OBVIOUS
  <2>2. ASSUME Running', stream'.phase = "catching", older # 0,
               stream'.pend = <<>>, view'.cursor = At(v)
        PROVE  Faithful(new, older, v)
    <3>1. /\ Running /\ stream.phase = "catching" /\ stream.history = older
          /\ stream.pend = <<>> /\ view.cursor = At(stream.through)
          /\ v = stream.through
      BY <1>0, <1>1, <2>1, <2>2 DEF Running, At
    <3>2. v \in 0..Len(log)
      BY <3>1 DEF Shape, StreamOK
    <3>3. view.cursor # None
      BY <1>0, <3>1, <3>2, CursorOfHere, NothingIsNone
    <3>4. Faithful(view.data.msgs, older, v)
      BY <2>2, <3>1 DEF Faith, HistoryOK
    <3> QED BY <1>2, <3>2, <3>3, <3>4
  <2> QED BY <1>0, <1>1, <2>1, <2>2, HistoryAfter
<1> QED BY <1>4, <1>5, <1>6, <1>7, <1>8 DEF Faith

\* Nothing is put into the cell.
LEMMA SameOverlay ==
    ASSUME Shape, Faith, UNCHANGED overlayRest, view' = view
    PROVE  Faith'
<1>0. /\ UNCHANGED <<epoch, log, published, stream, platform, link, hydrated,
                     driver, cache, flight, misplaced, faults>>
      /\ LogOK' /\ Longer
  BY SameIsLonger DEF overlayRest, streamVars, Shape
<1>1. FaithOf(view)' /\ (cache # None => FaithOf(cache))'
  BY <1>0, FaithOfSame
<1>2. KnownOK'
  BY <1>0, KnownStays DEF Faith
<1>3. Drafts(driver.opt)'
  BY <1>0 DEF Faith, Drafts, Draft
<1>4. HistoryOK'
  BY <1>0, HistoryStays DEF Faith, Running
<1> QED BY <1>1, <1>2, <1>3, <1>4 DEF Faith

\* What the cell's messages become if each of them is one that they were, or is
\* an optimistic one, and the place of the first known message stands.
LEMMA KnownKept ==
    ASSUME NEW msgs \in Seq(Shown), NEW new \in Seq(Shown), KnownIn(msgs),
           NEW gone, \A m \in gone : ~InLog(m),
           Ids(msgs) \ gone \subseteq Ids(new),
           \A i \in 1..Len(new) :
              \/ Draft(new[i])
              \/ \E q \in 1..Len(msgs) :
                    /\ new[i] = msgs[q]
                    /\ \A m \in Ids(msgs) \ gone :
                          IndexOf(new, m) <= i => IndexOf(msgs, m) <= q
    PROVE  KnownIn(new)
<1>1. CASE NewAt(msgs, Known, 1)
  <2>1. NewAt(new, Known, 1)
    <3> SUFFICES ASSUME NEW i \in 1..Len(new), new[i] \notin ToSet(Known)
                 PROVE  Draft(new[i])
      BY DEF NewAt
    <3>1. CASE \E q \in 1..Len(msgs) : new[i] = msgs[q]
      BY <1>1, <3>1 DEF NewAt
    <3> QED BY <3>1
  <2> QED BY <2>1 DEF KnownIn
<1>2. ASSUME platform.background, Known # <<>>, InLog(Known[1].id),
             Known[1].id \in Ids(msgs),
             NewAt(msgs, Known, IndexOf(msgs, Known[1].id))
      PROVE  KnownIn(new)
  <2>1. PICK m : m = Known[1].id
    OBVIOUS
  <2>2. m \in Ids(msgs) \ gone /\ m \in Ids(new)
    BY <1>2, <2>1
  <2>3. NewAt(new, Known, IndexOf(new, m))
    <3> SUFFICES ASSUME NEW i \in 1..Len(new), i >= IndexOf(new, m),
                        new[i] \notin ToSet(Known)
                 PROVE  Draft(new[i])
      BY DEF NewAt
    <3>1. ASSUME NEW q \in 1..Len(msgs), new[i] = msgs[q],
                 IndexOf(new, m) <= i => IndexOf(msgs, m) <= q
          PROVE  Draft(new[i])
      <4>1. Len(msgs) \in Nat /\ Len(new) \in Nat
        OBVIOUS
      <4>2. IndexOf(new, m) \in Nat /\ IndexOf(msgs, m) \in Nat
        <5>1. m \in Messages
          BY <2>2, ShownFacts
        <5>2. FirstAt(new, m, IndexOf(new, m)) /\ FirstAt(msgs, m, IndexOf(msgs, m))
          BY <2>2, <5>1, IndexFacts
        <5> QED BY <4>1, <5>2 DEF FirstAt
      <4>3. q >= IndexOf(msgs, m)
        BY <3>1, <4>1, <4>2
      <4> QED BY <1>2, <2>1, <3>1, <4>3 DEF NewAt
    <3> QED BY <3>1, <2>2
  <2> QED BY <1>2, <2>1, <2>2, <2>3 DEF KnownIn
<1> QED BY <1>1, <1>2 DEF KnownIn

\* The user writes a message.
LEMMA StageFaith ==
    ASSUME Shape, Shape', Faith, NEW m \in Users, Stage(m)
    PROVE  Faith'
<1>1. /\ view' = Overlaid(view, Upsert(Messages0(view), Optimistic(m)))
      /\ UNCHANGED overlayRest
  BY DEF Stage
<1>2. PICK msgs \in Seq(Shown) : /\ msgs = Messages0(view)
                                 /\ view.cursor = None => Drafts(msgs)
  BY HeldFacts DEF Shape
<1>3. PICK x \in Shown : x = Optimistic(m) /\ Draft(x)
  BY OptimisticFacts
<1>4. PICK new \in Seq(Shown) : new = Upsert(msgs, x)
  BY UpsertFacts
<1>5. view.cursor = None => Drafts(new)
  BY <1>2, <1>3, <1>4, DraftsUpsert
<1>6. KnownIn(msgs) => KnownIn(new)
  <2>1. /\ Ids(msgs) \subseteq Ids(new)
        /\ \A k \in Ids(msgs) : IndexOf(new, k) = IndexOf(msgs, k)
        /\ \A i \in 1..Len(new) : \/ i \in 1..Len(msgs) /\ new[i] = msgs[i]
                                  \/ new[i] = x
    BY <1>4, UpsertFacts
  <2>2. \A i \in 1..Len(new) :
              \/ Draft(new[i])
              \/ \E q \in 1..Len(msgs) :
                    /\ new[i] = msgs[q]
                    /\ \A k \in Ids(msgs) \ {} :
                          IndexOf(new, k) <= i => IndexOf(msgs, k) <= q
    BY <1>3, <2>1
  <2>3. Ids(msgs) \ {} \subseteq Ids(new) /\ \A k \in {} : ~InLog(k)
    BY <2>1
  <2>4. PICK gone : gone = {}
    OBVIOUS
  <2> QED BY <2>2, <2>3, <2>4, KnownKept
<1>7. \A older : \A v \in 0..Len(log) :
         Faithful(msgs, older, v) => Faithful(new, older, v)
  BY <1>3, <1>4, DraftIn DEF Shape
<1> QED BY <1>1, <1>2, <1>3, <1>4, <1>5, <1>6, <1>7, OverlayFaith

\* A send is refused, and its message is taken out.
LEMMA RefuseFaith ==
    ASSUME Shape, Shape', Faith, NEW m \in Users, Refuse(m)
    PROVE  Faith'
<1>1. /\ ~InLog(m)
      /\ view' = IF view.data = None THEN view
                 ELSE Overlaid(view, Without(view.data.msgs, {m}))
      /\ UNCHANGED overlayRest
  BY DEF Refuse
<1>2. CASE view.data = None
  BY <1>1, <1>2, SameOverlay
<1>3. CASE view.data # None
  <2>1. PICK msgs \in Seq(Shown) : /\ msgs = Messages0(view)
                                   /\ msgs = view.data.msgs
                                   /\ view.cursor = None => Drafts(msgs)
    BY <1>3, HeldFacts DEF Shape, Messages0
  <2>2. m \in Messages
    BY TimelineConstants
  <2>3. PICK new \in Seq(Shown) : new = Without(msgs, {m})
    BY WithoutFacts
  <2>4. view.cursor = None => Drafts(new)
    BY <2>1, <2>3, WithoutDrafts
  <2>5. KnownIn(msgs) => KnownIn(new)
    <3>1. /\ Ids(new) = Ids(msgs) \ {m}
          /\ \A i \in 1..Len(new) :
                \E q \in 1..Len(msgs) :
                   /\ new[i] = msgs[q]
                   /\ \A k \in Ids(new) :
                          IndexOf(new, k) <= i => IndexOf(msgs, k) <= q
      BY <2>3, WithoutFacts
    <3>2. \A i \in 1..Len(new) :
              \/ Draft(new[i])
              \/ \E q \in 1..Len(msgs) :
                    /\ new[i] = msgs[q]
                    /\ \A k \in Ids(msgs) \ {m} :
                          IndexOf(new, k) <= i => IndexOf(msgs, k) <= q
      BY <3>1
    <3>3. Ids(msgs) \ {m} \subseteq Ids(new) /\ \A k \in {m} : ~InLog(k)
      BY <1>1, <3>1
    <3> QED BY <3>2, <3>3, KnownKept
  <2>6. \A older : \A v \in 0..Len(log) :
           Faithful(msgs, older, v) => Faithful(new, older, v)
    BY <1>1, <2>2, <2>3, DraftOut DEF Shape
  <2>7. view' = Overlaid(view, new)
    BY <1>1, <1>3, <2>1, <2>3
  <2> QED BY <1>1, <2>1, <2>4, <2>5, <2>6, <2>7, OverlayFaith
<1> QED BY <1>2, <1>3

\* The outbox puts its messages back.
LEMMA RestoreFaith ==
    ASSUME Shape, Shape', Faith, RestoreOptimistic
    PROVE  Faith'
<1>0. UNCHANGED overlayRest
  BY DEF RestoreOptimistic
<1>1. CASE view' = view
  BY <1>0, <1>1, SameOverlay
<1>2. ASSUME NEW more \in Seq(Shown), Drafts(more),
             view' = Overlaid(view, Messages0(view) \o more)
      PROVE  Faith'
  <2>1. PICK msgs \in Seq(Shown) : /\ msgs = Messages0(view)
                                   /\ view.cursor = None => Drafts(msgs)
    BY HeldFacts DEF Shape
  <2>2. PICK new \in Seq(Shown) : new = msgs \o more
    BY ConcatFacts
  <2>3. view.cursor = None => Drafts(new)
    BY <1>2, <2>1, <2>2, DraftsConcat
  <2>4. /\ Len(new) = Len(msgs) + Len(more)
        /\ \A i \in 1..Len(msgs) : new[i] = msgs[i]
        /\ \A i \in 1..Len(more) : new[Len(msgs) + i] = more[i]
        /\ Ids(msgs) \subseteq Ids(new)
        /\ Len(msgs) \in Nat /\ Len(more) \in Nat
    BY <2>2, ConcatFacts
  <2>5. \A k \in Ids(msgs) : IndexOf(new, k) = IndexOf(msgs, k)
    <3>1. Ids(msgs) \subseteq Messages
      BY ShownFacts
    <3> QED BY <2>2, <3>1, <1>2, SeenConcat
  <2>6. KnownIn(msgs) => KnownIn(new)
    <3>0. PICK gone : gone = {}
      OBVIOUS
    <3>1. ASSUME NEW i \in 1..Len(new)
          PROVE  \/ Draft(new[i])
                 \/ \E q \in 1..Len(msgs) :
                       /\ new[i] = msgs[q]
                       /\ \A k \in Ids(msgs) \ gone :
                             IndexOf(new, k) <= i => IndexOf(msgs, k) <= q
      <4>1. CASE i <= Len(msgs)
        <5>1. i \in 1..Len(msgs) /\ new[i] = msgs[i]
          BY <2>4, <4>1
        <5> QED BY <5>1, <2>5
      <4>2. CASE i > Len(msgs)
        <5>1. PICK j \in 1..Len(more) : i = Len(msgs) + j
          <6>1. i - Len(msgs) \in 1..Len(more) /\ i = Len(msgs) + (i - Len(msgs))
            BY <2>4, <4>2
          <6> QED BY <6>1
        <5> QED BY <1>2, <2>4, <5>1 DEF Drafts
      <4> QED BY <2>4, <4>1, <4>2
    <3>2. Ids(msgs) \ gone \subseteq Ids(new) /\ \A k \in gone : ~InLog(k)
      BY <2>4, <3>0
    <3>3. \A i \in 1..Len(new) :
             \/ Draft(new[i])
             \/ \E q \in 1..Len(msgs) :
                   /\ new[i] = msgs[q]
                   /\ \A k \in Ids(msgs) \ gone :
                         IndexOf(new, k) <= i => IndexOf(msgs, k) <= q
      BY <3>1
    <3> QED BY <3>2, <3>3, KnownKept
  <2>7. \A older : \A v \in 0..Len(log) :
           Faithful(msgs, older, v) => Faithful(new, older, v)
    BY <1>2, <2>2, DraftsAfter DEF Shape
  <2> QED BY <1>0, <1>2, <2>1, <2>2, <2>3, <2>6, <2>7, OverlayFaith
<1> QED BY <1>1, <1>2, RestoredView

\* The driver and the stream are left alone, and no history is streamed or the
\* cell is left alone as well.
LEMMA RequestFaith ==
    ASSUME Shape, Faith, AskPage \/ ReadPage
    PROVE  Faith'
<1>0. /\ UNCHANGED <<epoch, log, published, stream, platform, link, hydrated,
                     driver, staged, outbox, restored, faults>>
      /\ UNCHANGED <<view, cache, misplaced>>
  BY DEF AskPage, ReadPage, pagerRest, streamVars
<1>1. LogOK' /\ Longer
  BY <1>0, SameIsLonger DEF Shape
<1>2. FaithOf(view)' /\ (cache # None => FaithOf(cache))'
  BY <1>0, <1>1, FaithOfSame
<1>3. KnownOK'
  BY <1>0, <1>1, KnownStays DEF Faith
<1>4. Drafts(driver.opt)'
  BY <1>0 DEF Faith, Drafts, Draft
<1>5. HistoryOK'
  BY <1>0, <1>1, HistoryStays DEF Faith, Running
<1> QED BY <1>2, <1>3, <1>4, <1>5 DEF Faith

\* A page in place is faithful, and what the driver knows is told from it.
LEMMA PageInPlace ==
    ASSUME Shape, Shape', Faith, flight # None, flight.page # None, PageFits,
           InPlace, view' = [view EXCEPT !.data = Prepend(@, flight.page)],
           UNCHANGED pagerRest
    PROVE  FaithOf(view)' /\ KnownOK'
<1>0. /\ UNCHANGED <<epoch, log, published, stream, platform, link, hydrated,
                     driver, staged, outbox, restored, faults>>
      /\ LogOK /\ Longer
  BY SameIsLonger DEF pagerRest, streamVars, Shape
<1>1. /\ view'.cursor = view.cursor
      /\ view'.cursor # None
      /\ view.data \in Projection
      /\ view'.data = Prepend(view.data, flight.page)
      /\ view'.data # None
  BY <1>0, PageView
<1>2. PICK n \in 0..Len(log) :
         /\ flight.cursor.epoch = epoch => flight.cursor.version <= n
         /\ PageFacts(flight.page, flight.before, RowsAt(n))
  BY DEF Shape, FlightOK
<1>2a. PICK page, before :
         /\ page = flight.page /\ before = flight.before
         /\ before \in 1..(MaxEvents + 1)
         /\ PageFacts(page, before, RowsAt(n))
  <2>1. flight.before \in 1..(MaxEvents + 1)
    BY DEF Shape, FlightOK
  <2> QED BY <1>2, <2>1
<1>3. /\ platform.background /\ driver.phase # "off"
      /\ view.cursor = flight.cursor /\ view.data.older = before
      /\ view.cursor \in Cursor /\ CursorOK(view.cursor)
  BY <1>1, <1>2, <1>2a DEF Shape, FlightOK, DriverOK, InPlace, PageFits, StoredOK,
                    MaybeCursor
<1>4. PICK proj \in Projection : proj = view.data
  BY <1>1
<1>5. PICK new : new = Prepend(proj, page)
  OBVIOUS
<1>6. /\ page.msgs \in Seq(Shown) /\ proj.msgs \in Seq(Shown)
      /\ proj.older = before /\ before \in Nat
  BY <1>2, <1>2a, <1>3, <1>4, NothingIsNone, StreamConstants DEF PageFacts
<1>7. /\ new.msgs \in Seq(Shown) /\ new.older = page.older
      /\ Ids(new.msgs) = Ids(page.msgs) \cup Ids(proj.msgs)
      /\ \A m \in Ids(proj.msgs) \ Ids(page.msgs) :
            \A i \in 1..Len(new.msgs) :
               IndexOf(new.msgs, m) <= i
               => \E q \in 1..Len(proj.msgs) :
                     IndexOf(proj.msgs, m) <= q /\ new.msgs[i] = proj.msgs[q]
  <2>1. new = [msgs |-> new.msgs, older |-> page.older]
    BY <1>5, <1>6, PrependFacts
  <2>2. new.older = page.older
    BY <2>1
  <2>3. /\ Prepend(proj, page).msgs \in Seq(Shown)
        /\ Ids(Prepend(proj, page).msgs) = Ids(page.msgs) \cup Ids(proj.msgs)
        /\ \A m \in Ids(proj.msgs) \ Ids(page.msgs) :
              \A i \in 1..Len(Prepend(proj, page).msgs) :
                 IndexOf(Prepend(proj, page).msgs, m) <= i
                 => \E q \in 1..Len(proj.msgs) :
                       /\ IndexOf(proj.msgs, m) <= q
                       /\ Prepend(proj, page).msgs[i] = proj.msgs[q]
    BY <1>6, PrependFacts
  <2> QED BY <1>5, <2>2, <2>3
<1>8. FaithOf(view)'
  <2> SUFFICES ASSUME view.cursor.epoch = epoch
               PROVE  Faithful(new.msgs, new.older, view.cursor.version)'
    BY <1>0, <1>1, <1>2, <1>2a, <1>4, <1>5 DEF FaithOf
  <2>1. PICK v \in 0..Len(log) : v = view.cursor.version
    BY <1>3, NothingIsNone DEF CursorOK
  <2>2. n \in v..Len(log)
    BY <1>2, <1>2a, <1>3, <2>1
  <2>3. Faithful(proj.msgs, before, v)
    BY <1>1, <1>3, <1>4, <2>1 DEF Faith, FaithOf
  <2>4. Faithful(new.msgs, page.older, v)
    BY <1>0, <1>2, <1>2a, <1>5, <1>6, <2>1, <2>2, <2>3, PrependIsFaithful
  <2>5. PICK msgs, older : msgs = new.msgs /\ older = page.older
    OBVIOUS
  <2>6. Faithful(msgs, older, v)'
    BY <1>0, <2>4, <2>5, FaithfulForLonger
  <2> QED BY <1>7, <2>1, <2>5, <2>6, <1>0
<1>9. KnownOK'
  <2>1. driver.proj # None
    BY <1>1, <1>3 DEF Shape, DriverOK
  <2>2. PICK m : /\ m = Known[1].id /\ Known # <<>> /\ InLog(m)
                 /\ m \in Ids(proj.msgs) \ Ids(page.msgs)
    BY <1>2, <1>2a, <1>4, <2>1 DEF InPlace, Known
  <2>3. m \in Ids(new.msgs)
    BY <1>7, <2>2
  <2>4. /\ m \in Messages
        /\ IndexOf(new.msgs, m) \in 1..Len(new.msgs)
        /\ IndexOf(proj.msgs, m) \in 1..Len(proj.msgs)
    <3>1. m \in Messages
      BY <1>6, <2>2, ShownFacts
    <3>2. FirstAt(new.msgs, m, IndexOf(new.msgs, m))
          /\ FirstAt(proj.msgs, m, IndexOf(proj.msgs, m))
      BY <1>6, <1>7, <2>2, <2>3, <3>1, IndexFacts
    <3> QED BY <3>1, <3>2 DEF FirstAt
  <2>5. NewAt(proj.msgs, Known, IndexOf(proj.msgs, m))
    <3>1. CASE NewAt(proj.msgs, Known, 1)
      BY <2>4, <3>1 DEF NewAt
    <3>2. CASE NewAt(proj.msgs, Known, IndexOf(proj.msgs, Known[1].id))
      BY <2>2, <3>2
    <3>3. \/ NewAt(view.data.msgs, Known, 1)
          \/ NewAt(view.data.msgs, Known, IndexOf(view.data.msgs, Known[1].id))
      <4>1. view.data # None
        BY <1>1, NothingIsNone
      <4> QED BY <1>3, <4>1 DEF Faith, KnownOK
    <3> QED BY <1>4, <3>1, <3>2, <3>3
  <2>6. NewAt(new.msgs, Known, IndexOf(new.msgs, m))
    <3> SUFFICES ASSUME NEW i \in 1..Len(new.msgs), i >= IndexOf(new.msgs, m),
                        new.msgs[i] \notin ToSet(Known)
                 PROVE  Draft(new.msgs[i])
      BY DEF NewAt
    <3>1. IndexOf(new.msgs, m) <= i
      BY <1>7, <2>4
    <3>2. PICK q \in 1..Len(proj.msgs) :
             IndexOf(proj.msgs, m) <= q /\ new.msgs[i] = proj.msgs[q]
      BY <1>7, <2>2, <3>1
    <3>3. q >= IndexOf(proj.msgs, m)
      BY <1>6, <2>4, <3>2
    <3> QED BY <2>5, <3>2, <3>3 DEF NewAt
  <2>7. Known' = Known /\ view'.data = new /\ platform' = platform
    BY <1>0, <1>1, <1>2, <1>2a, <1>4, <1>5 DEF Known
  <2>8. InLog(Known[1].id)'
    BY <1>0, <2>2, <2>7 DEF InLog
  <2> QED BY <1>3, <2>2, <2>3, <2>6, <2>7, <2>8 DEF KnownOK
<1> QED BY <1>8, <1>9

\* The page is applied where it belongs, or dropped.
LEMMA ApplyFaith ==
    ASSUME Shape, Shape', Faith, ~misplaced', ApplyPage
    PROVE  Faith'
<1>1. /\ flight # None /\ flight.page # None /\ flight' = None
      /\ IF PageFits
         THEN /\ view' = [view EXCEPT !.data = Prepend(@, flight.page)]
              /\ InPlace
              /\ cache' \in Saved(view')
         ELSE UNCHANGED <<view, cache, misplaced>>
      /\ UNCHANGED pagerRest
  BY DEF ApplyPage
<1>2. /\ UNCHANGED <<epoch, log, published, stream, platform, link, hydrated,
                     driver, staged, outbox, restored, faults>>
      /\ LogOK' /\ Longer /\ LogOK /\ epoch \in 0..MaxEpoch
  BY <1>1, SameIsLonger DEF pagerRest, streamVars, Shape
<1>3. Drafts(driver.opt)'
  BY <1>2 DEF Faith, Drafts, Draft
<1>4. HistoryOK'
  <2>1. platform.background
    BY <1>1 DEF Shape, FlightOK
  <2>2. stream'.history = 0
    BY <1>2, <2>1 DEF Shape, StreamOK
  <2> QED BY <2>2, NoHistory
<1>5. CASE PageFits
  <2>1. FaithOf(view)' /\ KnownOK'
    BY <1>1, <1>5, PageInPlace
  <2>2. (cache # None => FaithOf(cache))'
    <3>1. cache' \in {cache, view'}
      BY <1>1, <1>5 DEF Saved
    <3>2. CASE cache' = view'
      BY <2>1, <3>2 DEF FaithOf
    <3>3. ASSUME cache' = cache, cache # None PROVE FaithOf(cache)'
      <4>1. PICK c : c = cache /\ StoredOK(c) /\ FaithOf(c)
        BY <3>3 DEF Shape, CacheOK, Faith
      <4>2. cache' = c => FaithOf(cache)'
        BY <1>2, <4>1, FaithWas
      <4> QED BY <3>3, <4>1, <4>2
    <3> QED BY <3>1, <3>2, <3>3
  <2> QED BY <1>3, <1>4, <2>1, <2>2 DEF Faith
<1>6. CASE ~PageFits
  <2>1. UNCHANGED <<view, cache>>
    BY <1>1, <1>6
  <2>2. FaithOf(view)' /\ (cache # None => FaithOf(cache))'
    BY <1>2, <2>1, FaithOfSame
  <2>3. KnownOK'
    BY <1>2, <2>1, KnownStays DEF Faith
  <2> QED BY <1>3, <1>4, <2>2, <2>3 DEF Faith
<1> QED BY <1>5, <1>6

-----------------------------------------------------------------------------
(* The engine, the link and the application, once more *)

\* The client is left alone.
LEMMA QuietFaith ==
    ASSUME Shape, Faith, Longer,
           UNCHANGED <<epoch, platform, view, cache, driver>>, HistoryOK'
    PROVE  Faith'
<1>1. FaithOf(view)' /\ (cache # None => FaithOf(cache))'
  BY FaithOfSame DEF Longer
<1>2. KnownOK'
  BY KnownStays DEF Faith
<1>3. Drafts(driver.opt)'
  BY DEF Faith, Drafts, Draft
<1> QED BY <1>1, <1>2, <1>3 DEF Faith

\* The engine commits, and the client does not know yet.
LEMMA CommitFaith ==
    ASSUME Shape, Faith, NEW e \in Event, Append1(e), UNCHANGED clientVars
    PROVE  Faith'
<1>1. Longer /\ UNCHANGED <<epoch, stream>>
  BY AppendIsLonger DEF Shape
<1>2. HistoryOK'
  BY <1>1, HistoryStays DEF Faith, clientVars, Running
<1> QED BY <1>1, <1>2, QuietFaith DEF clientVars

\* A stream that has just captured what its client misses has it all before it.
LEMMA CaptureFacts ==
    ASSUME NEW large, NEW cut, StreamShape, Capture(large, cut)
    PROVE  stream'.history = 0 \/ stream'.pend # <<>>
<1>1. PICK A, x, B, snapshot, older :
         /\ stream' = [stream EXCEPT
               !.phase = "catching",
               !.pend = A \o (IF snapshot THEN <<x>> ELSE B),
               !.history = IF snapshot /\ ~stream.ask.background
                           THEN older ELSE 0,
               !.through = Len(log),
               !.live = Len(log)]
         /\ A = <<>> \/ \E y : A = <<y>>
  BY DEF Capture
<1>2. /\ stream'.pend = A \o (IF snapshot THEN <<x>> ELSE B)
      /\ stream'.history = IF snapshot /\ ~stream.ask.background
                           THEN older ELSE 0
  BY <1>1 DEF StreamShape
<1>3. A \o <<x>> # <<>>
  <2>1. PICK S : A \in Seq(S) /\ x \in S
    <3>1. CASE A = <<>>
      <4>1. A \in Seq({x}) /\ x \in {x}
        BY <3>1
      <4> QED BY <4>1
    <3>2. ASSUME NEW y, A = <<y>> PROVE \E S : A \in Seq(S) /\ x \in S
      <4>1. A \in Seq({x, y}) /\ x \in {x, y}
        BY <3>2
      <4> QED BY <4>1
    <3> QED BY <1>1, <3>1, <3>2
  <2>2. Len(A \o <<x>>) = Len(A) + 1 /\ Len(A) \in Nat
    BY <2>1
  <2>3. Len(A \o <<x>>) # 0
    BY <2>2
  <2> QED BY <2>3
<1> QED BY <1>2, <1>3

\* The publisher and the stream go on without a frame.
LEMMA EngineFaith ==
    ASSUME Shape, Faith, PublishNext \/ PublishTwice \/ Attach \/ CatchUp
    PROVE  Faith'
<1>0. LogOK /\ StreamShape
  BY DEF Shape, IInv
<1>1. ASSUME UNCHANGED <<epoch, log, platform, view, cache, driver>>,
             stream' = Heard
      PROVE  Faith'
  <2>1. Longer
    BY <1>0, <1>1, SameIsLonger
  <2>2. PICK x : stream' = [stream EXCEPT !.hub = x]
    BY <1>1 DEF Heard
  <2>3. /\ stream'.phase = stream.phase /\ stream'.pend = stream.pend
        /\ stream'.history = stream.history /\ stream'.through = stream.through
    BY <1>0, <2>2 DEF StreamShape
  <2>4. HistoryOK'
    BY <1>1, <2>1, <2>3, HistoryStays DEF Faith, Running
  <2> QED BY <1>1, <2>1, <2>4, QuietFaith
<1>2. CASE PublishNext
  BY <1>1, <1>2 DEF PublishNext, Publish, clientVars
<1>3. CASE PublishTwice
  BY <1>1, <1>3 DEF PublishTwice, PublishInterrupted
<1>4. CASE Attach
  <2>1. /\ stream' = [stream EXCEPT !.phase = "subscribed", !.hub = <<>>]
        /\ UNCHANGED <<epoch, log, platform, view, cache, driver>>
    BY <1>4 DEF Attach, Subscribe, clientVars
  <2>2. stream'.phase = "subscribed"
    BY <1>0, <2>1 DEF StreamShape
  <2> QED BY <1>0, <2>1, <2>2, NoHistory, SameIsLonger, QuietFaith
<1>5. CASE CatchUp
  <2>1. PICK large, cut : Capture(large, cut)
    BY <1>5 DEF CatchUp
  <2>2. UNCHANGED <<epoch, log, platform, view, cache, driver>>
    BY <1>5, <2>1 DEF CatchUp, Capture, clientVars
  <2>3. HistoryOK'
    BY <1>0, <2>1, CaptureFacts, NoHistory
  <2> QED BY <1>0, <2>2, <2>3, SameIsLonger, QuietFaith
<1> QED BY <1>2, <1>3, <1>4, <1>5

\* The driver has stopped.
LEMMA StoppedFaith ==
    ASSUME Shape, Faith, Stopped, stream' = Closed, LogOK',
           \/ Longer /\ UNCHANGED epoch
           \/ epoch' = epoch + 1
    PROVE  Faith'
<1>1. view' = view /\ cache' \in {cache, view} /\ driver' = Off
  BY StoppedFacts
<1>2. FaithOf(view)' /\ (cache # None => FaithOf(cache))'
  BY <1>1, FaithOfSame
<1>3. Drafts(driver.opt)' /\ KnownOK' /\ ~Running'
  BY <1>1, OffFacts DEF KnownOK, Running, Drafts, Draft
<1>4. HistoryOK'
  BY <1>3, NoHistory
<1> QED BY <1>2, <1>3, <1>4 DEF Faith

\* The driver has failed for good, or has nothing more to save.
LEMMA EditedFaith ==
    ASSUME Shape, Faith, driver.phase # "off",
           UNCHANGED <<epoch, log, platform, view>>, cache' \in {cache, view},
           \/ driver' = [driver EXCEPT !.phase = "failed"]
           \/ driver' = [driver EXCEPT !.due = FALSE] /\ UNCHANGED stream
    PROVE  Faith'
<1>0. LogOK' /\ Longer
  BY SameIsLonger DEF Shape
<1>1. /\ driver'.proj = driver.proj /\ driver'.opt = driver.opt
      /\ driver'.phase \in {driver.phase, "failed"}
      /\ driver'.phase # driver.phase => driver'.phase = "failed"
      /\ UNCHANGED stream \/ driver'.phase = "failed"
  BY RunningState DEF StateOK
<1>2. FaithOf(view)' /\ (cache # None => FaithOf(cache))'
  BY <1>0, FaithOfSame
<1>3. Drafts(driver.opt)'
  BY <1>1 DEF Faith, Drafts, Draft
<1>4. KnownOK'
  BY <1>0, <1>1, KnownStays DEF Faith
<1>5. HistoryOK'
  <2>1. CASE driver'.phase = "failed"
    BY <2>1, NoHistory DEF Running
  <2>2. CASE driver'.phase # "failed"
    BY <1>0, <1>1, <2>2, HistoryStays DEF Faith, Running
  <2> QED BY <2>1, <2>2
<1> QED BY <1>2, <1>3, <1>4, <1>5 DEF Faith

\* A failed stream is reported, or the driver gives up.
LEMMA FailureFaith ==
    ASSUME Shape, Faith, ReportFailure \/ MissedEvent
    PROVE  Faith'
<1>1. /\ driver.phase # "off"
      /\ \/ Stopped
         \/ /\ driver' = [driver EXCEPT !.phase = "failed"]
            /\ UNCHANGED <<link, flight, view, cache>>
      /\ stream' = Closed
      /\ UNCHANGED <<epoch, log, platform>>
  BY DEF ReportFailure, MissedEvent
<1>2. CASE Stopped
  <2>1. LogOK' /\ Longer
    BY <1>1, SameIsLonger DEF Shape
  <2> QED BY <1>1, <1>2, <2>1, StoppedFaith
<1>3. CASE /\ driver' = [driver EXCEPT !.phase = "failed"]
           /\ UNCHANGED <<link, flight, view, cache>>
  BY <1>1, <1>3, EditedFaith
<1> QED BY <1>1, <1>2, <1>3

\* A checkpoint leaves what is shown alone.
LEMMA CheckpointFaith ==
    ASSUME Shape, Faith, Checkpoint
    PROVE  Faith'
<1>1. /\ driver.phase # "off" /\ driver' = [driver EXCEPT !.due = FALSE]
      /\ view' = Persisted /\ cache' \in Saved(Persisted)
      /\ UNCHANGED <<epoch, log, stream, platform>>
  BY DEF Checkpoint, streamVars, restVars
<1>2. view' = view /\ cache' \in {cache, view}
  BY <1>1, PersistedIsView DEF Saved
<1> QED BY <1>1, <1>2, EditedFaith

\* A driver that starts knows all that the cell holds, or all of that is the
\* user's.
LEMMA StartFaith ==
    ASSUME NEW v, StoredOK(v), NEW running, Start(v, running), view' = v
    PROVE  Drafts(driver.opt)' /\ KnownOK' /\ HistoryOK'
<1>1. /\ driver'.proj # None => driver'.proj = v.data
      /\ driver'.proj = None => v.data = None \/ v.cursor = None
      /\ driver'.opt = <<>>
      /\ stream'.phase = "opened"
  BY StartFacts
<1>2. Drafts(driver.opt)'
  BY <1>1, OffFacts DEF Drafts, Draft
<1>3. HistoryOK'
  BY <1>1, NoHistory
<1>4. KnownOK'
  BY <1>1, KnownAll DEF StoredOK
<1> QED BY <1>2, <1>3, <1>4

\* No driver is started.
LEMMA NotStarted ==
    ASSUME Shape, Faith, UNCHANGED <<driver, stream>>, ~link \/ ~hydrated
    PROVE  Drafts(driver.opt)' /\ KnownOK' /\ HistoryOK'
<1>1. driver.phase = "off"
  BY DEF Shape, DriverOK
<1> QED BY <1>1 DEF Faith, KnownOK, HistoryOK, Running, Drafts, Draft

\* The link comes up.
LEMMA ConnectFaith ==
    ASSUME Shape, Faith, Connect
    PROVE  Faith'
<1>1. /\ ~link
      /\ IF hydrated
         THEN \E running \in BOOLEAN : Start(view, running)
         ELSE UNCHANGED <<driver, stream>>
      /\ UNCHANGED <<epoch, log, view, cache>>
  BY DEF Connect
<1>2. LogOK' /\ Longer
  BY <1>1, SameIsLonger DEF Shape
<1>3. FaithOf(view)' /\ (cache # None => FaithOf(cache))'
  BY <1>1, <1>2, FaithOfSame
<1>4. CASE hydrated
  <2>1. PICK running \in BOOLEAN : Start(view, running)
    BY <1>1, <1>4
  <2>2. PICK v : v = view /\ StoredOK(v) /\ Start(v, running) /\ view' = v
    BY <1>1, <2>1 DEF Shape
  <2> QED BY <1>3, <2>2, StartFaith DEF Faith
<1>5. CASE ~hydrated
  BY <1>1, <1>3, <1>5, NotStarted DEF Faith
<1> QED BY <1>4, <1>5

\* The cache is loaded: what was stored was shown once.
LEMMA HydrateFaith ==
    ASSUME Shape, Faith, Hydrate
    PROVE  Faith'
<1>1. /\ ~hydrated
      /\ view' = IF view.data = None /\ cache # None THEN cache ELSE view
      /\ IF link
         THEN \E running \in BOOLEAN : Start(view', running)
         ELSE UNCHANGED <<driver, stream>>
      /\ UNCHANGED <<epoch, log, cache>>
  BY DEF Hydrate
<1>2. LogOK' /\ Longer /\ LogOK /\ epoch \in 0..MaxEpoch
  BY <1>1, SameIsLonger DEF Shape
<1>3. PICK v : v = view' /\ StoredOK(v) /\ FaithOf(v)
  BY <1>1 DEF Shape, CacheOK, Faith
<1>4. FaithOf(view)'
  BY <1>1, <1>2, <1>3, FaithWas
<1>5. (cache # None => FaithOf(cache))'
  <2> SUFFICES ASSUME cache # None PROVE FaithOf(cache)'
    BY <1>1
  <2>1. PICK c : c = cache /\ StoredOK(c) /\ FaithOf(c)
    BY DEF Shape, CacheOK, Faith
  <2>2. cache' = c => FaithOf(cache)'
    BY <1>1, <1>2, <2>1, FaithWas
  <2> QED BY <1>1, <2>1, <2>2
<1>6. CASE link
  <2>1. PICK running \in BOOLEAN : Start(view', running)
    BY <1>1, <1>6
  <2>2. Start(v, running)
    BY <1>3, <2>1
  <2>3. Drafts(driver.opt)' /\ KnownOK' /\ HistoryOK'
    BY <1>3, <2>2, StartFaith
  <2> QED BY <1>4, <1>5, <2>3 DEF Faith
<1>7. CASE ~link
  BY <1>1, <1>4, <1>5, <1>7, NotStarted DEF Faith
<1> QED BY <1>6, <1>7

\* The link goes; a restored database begins another epoch.
LEMMA LoseLinkFaith ==
    ASSUME Shape, Shape', Faith, LoseLink
    PROVE  Faith'
<1>1. Stopped /\ LogOK'
  BY DEF LoseLink, Shape
<1>2. /\ stream' = Closed
      /\ \/ Longer /\ UNCHANGED epoch
         \/ epoch' = epoch + 1
  <2>1. CASE stream' = Closed /\ UNCHANGED <<epoch, log, published>>
    BY <2>1, SameIsLonger DEF Shape
  <2>2. CASE Rebooted
    BY <2>2, SameIsLonger DEF Rebooted, Shape
  <2>3. CASE \E n \in Versions : Restored(n)
    BY <2>3 DEF Restored
  <2> QED BY <2>1, <2>2, <2>3 DEF LoseLink
<1> QED BY <1>1, <1>2, StoppedFaith

\* The application is restarted with nothing shown.
LEMMA RelaunchFaith ==
    ASSUME Shape, Faith, Relaunch
    PROVE  Faith'
<1>1. /\ view' = EmptyView /\ driver' = Off
      /\ UNCHANGED <<epoch, log, cache>>
  BY DEF Relaunch
<1>2. LogOK' /\ Longer /\ LogOK /\ epoch \in 0..MaxEpoch
  BY <1>1, SameIsLonger DEF Shape
<1>3. FaithOf(view)'
  BY <1>1 DEF FaithOf, EmptyView
<1>4. (cache # None => FaithOf(cache))'
  <2> SUFFICES ASSUME cache # None PROVE FaithOf(cache)'
    BY <1>1
  <2>1. PICK c : c = cache /\ StoredOK(c) /\ FaithOf(c)
    BY DEF Shape, CacheOK, Faith
  <2>2. cache' = c => FaithOf(cache)'
    BY <1>1, <1>2, <2>1, FaithWas
  <2> QED BY <1>1, <2>1, <2>2
<1>5. Drafts(driver.opt)' /\ KnownOK' /\ ~Running'
  BY <1>1, OffFacts DEF KnownOK, Running, Drafts, Draft
<1>6. HistoryOK'
  BY <1>5, NoHistory
<1> QED BY <1>3, <1>4, <1>5, <1>6 DEF Faith

-----------------------------------------------------------------------------
(* Every step shows what was committed *)

\* Only a frame and a page are ever applied out of place, and that is not
\* forgotten.
LEMMA MisplacedStays ==
    ASSUME [Next]_vars, ~misplaced'
    PROVE  ~misplaced
<1>1. CASE Commit \/ (\E m \in Users : CommitSent(m))
  BY <1>1 DEF Commit, CommitSent, clientVars
<1>2. ASSUME NEW m \in Users, Stage(m) \/ Acknowledge(m) \/ Refuse(m)
      PROVE  ~misplaced
  BY <1>2 DEF Stage, Acknowledge, Refuse, overlayRest
<1>3. CASE PublishNext \/ PublishTwice \/ Attach \/ CatchUp
  BY <1>3 DEF PublishNext, PublishTwice, Attach, CatchUp, clientVars
<1>4. CASE Pull
  BY <1>4 DEF Pull
<1>5. CASE Follow \/ ReceiveRuntime \/ ReportFailure \/ MissedEvent \/ Checkpoint
  BY <1>5 DEF Follow, ReceiveRuntime, ReportFailure, MissedEvent, Checkpoint
<1>6. CASE Connect \/ Hydrate \/ LoseLink \/ Relaunch
  BY <1>6 DEF Connect, Hydrate, LoseLink, Relaunch
<1>7. CASE RestoreOptimistic
  BY <1>7 DEF RestoreOptimistic, overlayRest
<1>8. CASE AskPage \/ ReadPage
  BY <1>8 DEF AskPage, ReadPage
<1>9. CASE ApplyPage
  BY <1>9 DEF ApplyPage
<1>10. CASE UNCHANGED vars
  BY <1>10 DEF vars, clientVars
<1> QED BY <1>1, <1>2, <1>3, <1>4, <1>5, <1>6, <1>7, <1>8, <1>9, <1>10 DEF Next

\* Nothing changes.
LEMMA IdleFaith ==
    ASSUME Shape, Faith, UNCHANGED vars
    PROVE  Faith'
<1>1. UNCHANGED <<epoch, log, published, stream>> /\ UNCHANGED clientVars
  BY DEF vars, streamVars
<1>2. Longer
  BY <1>1, SameIsLonger DEF Shape
<1>3. HistoryOK'
  BY <1>1, <1>2, HistoryStays DEF Faith, clientVars, Running
<1> QED BY <1>1, <1>2, <1>3, QuietFaith DEF clientVars

\* Nothing is shown before the client has started.
LEMMA InitFaith == Init => FaithInv
<1> SUFFICES ASSUME Init PROVE Faith
  BY DEF FaithInv
<1>1. /\ stream = Closed /\ view = EmptyView /\ driver = Off /\ cache = None
  BY DEF Init, StreamInit
<1>2. FaithOf(view)
  BY <1>1 DEF FaithOf, EmptyView
<1>3. Drafts(driver.opt) /\ KnownOK /\ ~Running
  BY <1>1, OffFacts DEF KnownOK, Running
<1> QED BY <1>1, <1>2, <1>3 DEF Faith, HistoryOK

\* Every step that leaves nothing out of place shows what was committed.
LEMMA NextKeepsFaith == Shape /\ Shape' /\ FaithInv /\ [Next]_vars => FaithInv'
<1> SUFFICES ASSUME Shape, Shape', FaithInv, [Next]_vars, ~misplaced'
             PROVE  Faith'
  BY DEF FaithInv
<1>0. Faith
  BY MisplacedStays DEF FaithInv
<1>1. CASE Commit \/ (\E m \in Users : CommitSent(m))
  <2>1. PICK e \in Event : Append1(e) /\ UNCHANGED clientVars
    BY <1>1, CommitIsAppend
  <2> QED BY <1>0, <2>1, CommitFaith
<1>2. ASSUME NEW m \in Users, Stage(m) \/ Acknowledge(m) \/ Refuse(m)
      PROVE  Faith'
  <2>1. Acknowledge(m) => UNCHANGED overlayRest /\ view' = view
    BY DEF Acknowledge
  <2> QED BY <1>0, <1>2, <2>1, StageFaith, RefuseFaith, SameOverlay
<1>3. CASE PublishNext \/ PublishTwice \/ Attach \/ CatchUp
  BY <1>0, <1>3, EngineFaith
<1>4. CASE Pull
  BY <1>0, <1>4, PullFaith
<1>5. CASE Follow
  BY <1>0, <1>5, FollowFaith
<1>6. CASE ReceiveRuntime
  BY <1>0, <1>6, RuntimeFaith
<1>7. CASE ReportFailure \/ MissedEvent
  BY <1>0, <1>7, FailureFaith
<1>8. CASE Checkpoint
  BY <1>0, <1>8, CheckpointFaith
<1>9. CASE Connect
  BY <1>0, <1>9, ConnectFaith
<1>10. CASE Hydrate
  BY <1>0, <1>10, HydrateFaith
<1>11. CASE LoseLink
  BY <1>0, <1>11, LoseLinkFaith
<1>12. CASE Relaunch
  BY <1>0, <1>12, RelaunchFaith
<1>13. CASE RestoreOptimistic
  BY <1>0, <1>13, RestoreFaith
<1>14. CASE AskPage \/ ReadPage
  BY <1>0, <1>14, RequestFaith
<1>15. CASE ApplyPage
  BY <1>0, <1>15, ApplyFaith
<1>16. CASE UNCHANGED vars
  BY <1>0, <1>16, IdleFaith
<1> QED BY <1>1, <1>2, <1>3, <1>4, <1>5, <1>6, <1>7, <1>8, <1>9, <1>10, <1>11,
           <1>12, <1>13, <1>14, <1>15, <1>16 DEF Next

\* What a client shows under a cursor of the current epoch is what was
\* committed, at the cursor or later: the reducer (reduceSessionTimelineFrame),
\* the fence of the cell (client-bus.ts), its cache and the snapshot, delta,
\* history and reset of synchronizedEvents put nothing else on the screen, as
\* long as no page or refresh was applied out of place.
THEOREM WhatIsShownWasCommitted == Spec => []ShownFaithfully
<1>1. Init => Shape /\ FaithInv
  BY InitShape, InitFaith
<1>2. Shape /\ FaithInv /\ [Next]_vars => (Shape /\ FaithInv)'
  BY NextKeepsShape, NextKeepsFaith
<1>3. Shape /\ FaithInv => ShownFaithfully
  BY DEF FaithInv, Faith, FaithOf, ShownFaithfully
<1> QED BY <1>1, <1>2, <1>3, PTL DEF Spec
=============================================================================
