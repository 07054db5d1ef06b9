------------------------------ MODULE TimelineSync ------------------------------
(***************************************************************************)
(* A client's copy of one session timeline, composed with the stream that  *)
(* feeds it (SessionStream): the reducer and the driver of                 *)
(* packages/client-runtime (session-timeline.ts, session-timeline-driver), *)
(* the resource cell of the client bus with its cache (client-bus.ts), the *)
(* pager that loads older messages (session-message-pager.ts), and the     *)
(* optimistic messages of the composer with their outbox                   *)
(* (session-timeline-client-bus.ts of the renderer).                       *)
(*                                                                         *)
(* A frame is received in the step that pulls it: what is on the way when  *)
(* the link goes is lost, as if it had not been pulled.  An update of the  *)
(* cell is synchronous in the code and one step here.  Cache writes are    *)
(* queued and may be lost with the application.  Every start of a driver   *)
(* makes a driver of its own, and a stopped one ignores what still         *)
(* arrives, so the driver epoch and the connection generation hold by      *)
(* construction; the pager's request carries its own.  Left out: access    *)
(* denial, several retainers, R2 checkpoints, optimistic queue items.      *)
(***************************************************************************)
EXTENDS SessionStream

CONSTANTS Users,       \* the messages this client writes
          Platforms,   \* kinds of client, see Platform
          MaxFaults    \* bound: lost links, restarts, interrupted publishers

\* background: history is left to the pager; repairs: a stream that failed is
\* reported to the connection whatever the cause.
Platform == [background : BOOLEAN, repairs : BOOLEAN]

ASSUME TimelineConstants ==
    /\ Users \subseteq Messages
    /\ Platforms \subseteq Platform
    /\ MaxFaults \in Nat

VARIABLES platform,  \* the kind of client, fixed
          link,      \* the environment is connected
          hydrated,  \* entry.hydrated
          view,      \* entry.view: data and cursor
          driver,    \* the driver's reducer state, and its fate
          cache,     \* the stored view, or None
          flight,    \* the pager's request, or None
          staged,    \* user messages ever written
          outbox,    \* user messages whose command is not settled
          restored,  \* nothing of the outbox is left to put back on this start
          misplaced, \* history: a page or a refresh was applied out of place, see
                     \* InPlace and Displaces
          faults     \* faults so far

clientVars == <<platform, link, hydrated, view, driver, cache, flight,
                staged, outbox, restored, misplaced, faults>>
vars == <<streamVars, clientVars>>

EmptyView == [data |-> None, cursor |-> None]

\* emptySessionTimelineState, with the phase of a driver that is not running.
Off == [phase |-> "off", proj |-> None, cursor |-> None, reset |-> None,
        opt |-> <<>>, count |-> None, due |-> FALSE]

Running == driver.phase \in {"empty", "cached", "synchronizing", "live"}

(***************************************************************************)
(* Messages of a projection.                                               *)
(***************************************************************************)
InLog(m) ==
    \E i \in DOMAIN log : log[i].event.kind = "message" /\ log[i].event.id = m

Ids(msgs) == {msgs[i].id : i \in DOMAIN msgs}
IndexOf(msgs, m) == SelectInSeq(msgs, LAMBDA x : x.id = m)
Without(msgs, ids) ==
    Selected(msgs, {i \in DOMAIN msgs : msgs[i].id \notin ids})

Upsert(msgs, x) ==
    IF x.id \in Ids(msgs)
    THEN [msgs EXCEPT ![IndexOf(msgs, x.id)] = x]
    ELSE Append(msgs, x)

UpsertAll(msgs, xs) ==
    LET upTo[i \in 0..Len(xs)] ==
            IF i = 0 THEN msgs ELSE Upsert(upTo[i - 1], xs[i])
    IN  upTo[Len(xs)]

\* prependSessionTimelineMessages: the page's places, but what is held wins.
Prepend(proj, page) ==
    [msgs  |-> [i \in DOMAIN page.msgs |->
                   IF page.msgs[i].id \in Ids(proj.msgs)
                   THEN proj.msgs[IndexOf(proj.msgs, page.msgs[i].id)]
                   ELSE page.msgs[i]]
               \o Without(proj.msgs, Ids(page.msgs)),
     older |-> page.older]

(***************************************************************************)
(* The reducer: reduceSessionTimelineFrame.                                *)
(***************************************************************************)
Stale(d) == [d EXCEPT !.phase = "stale"]

\* preserveSessionTimelineHistory: at the driver's cursor, what stands before
\* the first message of the snapshot is kept.
FirstKept(d, next, cursor) ==
    IF \/ d.proj = None \/ d.reset # None \/ d.cursor # cursor
       \/ next.older = 0 \/ next.msgs = <<>>
    THEN 0
    ELSE IndexOf(d.proj.msgs, next.msgs[1].id)

Preserve(d, next, cursor) ==
    LET first == FirstKept(d, next, cursor)
    IN  IF first <= 1
        THEN next
        ELSE [msgs |-> SubSeq(d.proj.msgs, 1, first - 1) \o next.msgs,
              older |-> d.proj.older]

\* A committed message that stands behind the first message of the snapshot and
\* is not in it: an optimistic message was staged before it and committed after
\* it, so that the client's order is not the order of the rows.
Displaces(d, f) ==
    LET first == FirstKept(d, f, f.cursor)
    IN  /\ f.kind = "snapshot"
        /\ first > 1
        /\ \E i \in first..Len(d.proj.msgs) :
              InLog(d.proj.msgs[i].id) /\ d.proj.msgs[i].id \notin Ids(f.msgs)

\* Mutant: what was shown before stays beside the snapshot.
ReduceSnapshot_Merges(d, f) ==
    LET held == IF d.proj = None THEN <<>> ELSE d.proj.msgs
    IN  [d EXCEPT !.proj = [msgs  |-> Without(held, Ids(f.msgs)) \o f.msgs,
                            older |-> f.older],
                  !.cursor = f.cursor,
                  !.reset = None,
                  !.phase = "synchronizing"]

ReduceSnapshot(d, f) ==
    LET next == Preserve(d, [msgs |-> f.msgs, older |-> f.older], f.cursor)
        kept == Without(d.opt, Ids(next.msgs))
    IN  IF \/ d.reset # None /\ f.cursor.epoch # d.reset
           \/ d.reset = None /\ d.cursor # None /\ f.cursor.epoch # d.cursor.epoch
        THEN Stale(d)
        ELSE IF /\ d.reset = None
                /\ d.cursor # None
                /\ f.cursor.version < d.cursor.version
        THEN d
        ELSE [d EXCEPT !.proj = [next EXCEPT !.msgs = @ \o kept],
                       !.opt = kept,
                       !.cursor = f.cursor,
                       !.reset = None,
                       !.phase = "synchronizing",
                       !.count = IF f.background THEN None ELSE f.total]

ReduceChunk(d, f) ==
    IF d.proj = None \/ d.cursor # f.cursor
    THEN Stale(d)
    ELSE [d EXCEPT !.proj = Prepend(@, f)]

ReduceSynchronized(d, f) ==
    IF \/ d.reset # None
       \/ d.proj = None
       \/ d.cursor = None
       \/ d.cursor.epoch # f.cursor.epoch
       \/ d.cursor.version < f.cursor.version
       \/ d.count # None /\ Len(d.proj.msgs) # d.count
    THEN Stale(d)
    ELSE [d EXCEPT !.phase = "live", !.count = None]

ReduceReset(d, f) ==
    IF d.reset = f.cursor.epoch THEN d
    ELSE [d EXCEPT !.reset = f.cursor.epoch, !.phase = "synchronizing"]

\* Mutant: a rollback leaves its messages in place.
Applied_KeepsRolledBack(proj, f) ==
    IF f.event.kind = "message"
    THEN [proj EXCEPT !.msgs =
              Upsert(@, [id |-> f.event.id, ver |-> f.cursor.version])]
    ELSE proj

\* applyTimelineEvent, as far as it touches messages.
Applied(proj, f) ==
    CASE f.event.kind = "message" ->
            [proj EXCEPT !.msgs =
                Upsert(@, [id |-> f.event.id, ver |-> f.cursor.version])]
      [] f.event.kind = "rollback" ->
            [proj EXCEPT !.msgs = Without(@, f.rolled)]
      [] OTHER -> proj

ReduceEvent(d, f) ==
    IF \/ d.reset # None
       \/ d.cursor # None /\ f.cursor.epoch # d.cursor.epoch
    THEN Stale(d)
    ELSE IF d.cursor # None /\ f.cursor.version <= d.cursor.version
    THEN d
    ELSE IF \/ d.proj = None
            \/ f.cursor.version # (IF d.cursor = None THEN 0
                                   ELSE d.cursor.version) + 1
    THEN Stale(d)
    ELSE [d EXCEPT !.proj = Applied(@, f),
                   !.opt = IF f.event.kind = "message"
                           THEN Without(@, {f.event.id}) ELSE @,
                   !.cursor = f.cursor,
                   !.phase = IF @ = "live" THEN @ ELSE "synchronizing"]

Reduce(d, f) ==
    CASE f.kind = "snapshot" -> ReduceSnapshot(d, f)
      [] f.kind = "chunk" -> ReduceChunk(d, f)
      [] f.kind = "synchronized" -> ReduceSynchronized(d, f)
      [] f.kind = "reset" -> ReduceReset(d, f)
      [] f.kind = "event" -> ReduceEvent(d, f)

(***************************************************************************)
(* The cell.                                                               *)
(***************************************************************************)
CursorIsAccepted(current, next, resetEpoch, hasData) ==
    \/ next = None
    \/ current = None
    \/ resetEpoch
    \/ /\ next.epoch = current.epoch
       /\ IF next.version = current.version THEN ~hasData
          ELSE next.version > current.version

\* persist: the write is queued behind others.  Whether it gets to the cache
\* before the application ends is decided when it is queued; a later write
\* replaces it either way.
Saved(v) == IF v.data = None THEN {cache} ELSE {cache, v}

\* observeOptimisticTimelineProjection: what the driver finds in the cell and
\* did not put there is optimistic; a background driver takes what comes before
\* its first message for history.
Observe(d) ==
    LET known == IF d.proj = None THEN <<>> ELSE d.proj.msgs
        start == IF platform.background /\ known # <<>>
                 THEN IndexOf(view.data.msgs, known[1].id) ELSE 1
        news == Selected(view.data.msgs,
                         {i \in DOMAIN view.data.msgs :
                             i >= start /\ view.data.msgs[i] \notin ToSet(known)})
    IN  IF view.data = None \/ view.data = d.proj \/ view.cursor # d.cursor
        THEN d
        ELSE [d EXCEPT !.proj = view.data,
                       !.opt = UpsertAll(@, news)]

\* The driver's state has gone from before to after with frame f.  A stale state
\* throws; what a catching driver applies is not saved before the barrier.
Report(f, before, after) ==
    LET hasData == after.proj # before.proj /\ after.proj # None
        moved == IF after.cursor # before.cursor THEN after.cursor ELSE None
        accepted == CursorIsAccepted(view.cursor, moved,
                        f.kind = "snapshot" /\ before.reset # None, hasData)
        next == [data   |-> IF hasData THEN after.proj ELSE view.data,
                 cursor |-> IF moved # None THEN moved ELSE view.cursor]
        saves == \/ f.kind = "synchronized" /\ after.phase = "live"
                 \/ /\ f.kind = "event" /\ f.event.kind = "settled"
                    /\ before.phase = "live"
        counts == f.kind = "event" /\ before.phase = "live"
    IN  IF after = before
        THEN driver' = before /\ UNCHANGED <<view, cache>>
        ELSE IF ~accepted
        THEN driver' = after /\ UNCHANGED <<view, cache>>
        ELSE /\ view' = next
             /\ driver' = [after EXCEPT !.due = ~saves /\ (@ \/ counts)]
             /\ cache' \in IF saves THEN Saved(next) ELSE {cache}

\* The callback of runForEach, for a frame of the event stream.  (The singletons
\* let TLC evaluate a state once, however often Report mentions it.)
Receive(f) ==
    \E before \in {Observe(driver)} :
        \E after \in {Reduce(before, f)} : Report(f, before, after)

\* persistCurrent: the cell's data under the driver's cursor.
Persisted ==
    IF /\ driver.proj # None
       /\ driver.cursor # None
       /\ CursorIsAccepted(view.cursor, driver.cursor, FALSE, FALSE)
    THEN [view EXCEPT !.cursor = driver.cursor]
    ELSE view

\* restoreSessionTimelineState, and the request that goes with it; a turn that
\* the projection shows as running makes a foreground client ask for a snapshot.
Start(v, running) ==
    LET d == IF v.data = None \/ v.cursor = None
             THEN [Off EXCEPT !.phase = "empty"]
             ELSE [Off EXCEPT !.phase = "cached", !.proj = v.data,
                              !.cursor = v.cursor]
    IN  /\ driver' = d
        /\ stream' = Opened([cursor |-> d.cursor,
                             background |-> platform.background,
                             hasProjection |->
                                /\ d.proj # None
                                /\ d.proj.older = 0
                                /\ platform.background \/ ~running])

\* The link goes: onConnection stops the driver, which saves on its way out.
Stopped ==
    /\ link' = FALSE
    /\ driver' = Off
    /\ flight' = None
    /\ IF driver.phase = "off" \/ driver.proj = None \/ driver.cursor = None
       THEN UNCHANGED <<view, cache>>
       ELSE view' = Persisted /\ cache' \in Saved(Persisted)

(***************************************************************************)
(* Initially nothing has been shown or sent.                               *)
(***************************************************************************)
Init ==
    /\ StreamInit
    /\ platform \in Platforms
    /\ link = FALSE
    /\ hydrated = FALSE
    /\ view = EmptyView
    /\ driver = Off
    /\ cache = None
    /\ flight = None
    /\ staged = {}
    /\ outbox = {}
    /\ restored = TRUE
    /\ misplaced = FALSE
    /\ faults = 0

(***************************************************************************)
(* The engine.                                                             *)
(***************************************************************************)
Commit ==
    /\ \/ \E m \in Messages \ Users : PersistMessage(m)
       \/ \E s \in Versions : RollBack(s)
       \/ SettleTurn
    /\ UNCHANGED clientVars

\* messages.send of the outbox reaches the engine, which admits it once.
CommitSent(m) ==
    /\ link
    /\ m \in outbox
    /\ ~InLog(m)
    /\ PersistMessage(m)
    /\ UNCHANGED clientVars

PublishNext == Publish /\ UNCHANGED clientVars

PublishTwice ==
    /\ faults < MaxFaults
    /\ faults' = faults + 1
    /\ PublishInterrupted
    /\ UNCHANGED <<platform, link, hydrated, view, driver, cache,
                   flight, staged, outbox, restored, misplaced>>

Attach == Subscribe /\ UNCHANGED clientVars

CatchUp ==
    /\ \E large \in BOOLEAN, cut \in 0..PageSize : Capture(large, cut)
    /\ UNCHANGED clientVars

(***************************************************************************)
(* The driver.                                                             *)
(***************************************************************************)
restVars == <<platform, link, hydrated, flight, staged, outbox, restored,
              faults>>

Pull ==
    /\ Running
    /\ stream.phase = "catching"
    /\ stream' = Pulled
    /\ \E f \in {NextFrame} :
          /\ Receive(f)
          /\ misplaced' = (misplaced \/ Displaces(Observe(driver), f))
    /\ UNCHANGED <<epoch, log, published, restVars>>

Follow ==
    /\ Running
    /\ stream.phase = "tail"
    /\ stream.hub # <<>>
    /\ IF Gap
       THEN /\ stream' = Closed
            /\ driver' = Stale(driver)
            /\ UNCHANGED <<view, cache>>
       ELSE /\ stream' = Followed
            /\ IF Repeated THEN UNCHANGED <<view, driver, cache>>
               ELSE Receive(EventFrame(stream.hub[1]))
    /\ UNCHANGED <<epoch, log, published, restVars, misplaced>>

\* A runtime frame carries nothing for the messages, but the callback folds
\* the cell's changes into the driver's state first.
ReceiveRuntime ==
    /\ Running
    /\ stream.phase \in {"catching", "tail"}
    /\ driver' = Observe(driver)
    /\ UNCHANGED <<streamVars, restVars, misplaced, view, cache>>

\* reportFailure of a stream that ended in an error.
ReportFailure ==
    /\ driver.phase = "stale"
    /\ IF platform.repairs
       THEN Stopped
       ELSE /\ driver' = [driver EXCEPT !.phase = "failed"]
            /\ UNCHANGED <<link, flight, view, cache>>
    /\ stream' = Closed
    /\ UNCHANGED <<epoch, log, published, platform, hydrated, staged,
                   outbox, restored, misplaced, faults>>

\* The continuity timer: a runtime frame named a version that has not come.
MissedEvent ==
    /\ driver.phase = "live"
    /\ driver.cursor.epoch = epoch
    /\ driver.cursor.version < Len(log)
    /\ IF platform.repairs
       THEN Stopped
       ELSE /\ driver' = [driver EXCEPT !.phase = "failed"]
            /\ UNCHANGED <<link, flight, view, cache>>
    /\ stream' = Closed
    /\ UNCHANGED <<epoch, log, published, platform, hydrated, staged,
                   outbox, restored, misplaced, faults>>

Checkpoint ==
    /\ driver.phase # "off"
    /\ driver.due
    /\ driver' = [driver EXCEPT !.due = FALSE]
    /\ view' = Persisted
    /\ cache' \in Saved(Persisted)
    /\ UNCHANGED <<streamVars, restVars, misplaced>>

(***************************************************************************)
(* The link and the application.                                           *)
(***************************************************************************)
Connect ==
    /\ ~link
    /\ link' = TRUE
    /\ IF hydrated
       THEN \E running \in BOOLEAN : Start(view, running)
       ELSE UNCHANGED <<driver, stream>>
    /\ UNCHANGED <<epoch, log, published, platform, hydrated, view, cache, flight,
                   staged, outbox, restored, misplaced, faults>>

Hydrate ==
    /\ ~hydrated
    /\ hydrated' = TRUE
    /\ view' = IF view.data = None /\ cache # None THEN cache ELSE view
    /\ IF link
       THEN \E running \in BOOLEAN : Start(view', running)
       ELSE UNCHANGED <<driver, stream>>
    /\ UNCHANGED <<epoch, log, published, platform, link, cache,
                   flight, staged, outbox, restored, misplaced, faults>>

LoseLink ==
    /\ link
    /\ faults < MaxFaults
    /\ faults' = faults + 1
    /\ Stopped
    /\ \/ stream' = Closed /\ UNCHANGED <<epoch, log, published>>
       \/ Rebooted
       \/ \E n \in Versions : Restored(n)
    /\ UNCHANGED <<platform, hydrated, staged, outbox, restored, misplaced>>

Relaunch ==
    /\ faults < MaxFaults
    /\ faults' = faults + 1
    /\ link' = FALSE
    /\ hydrated' = FALSE
    /\ view' = EmptyView
    /\ driver' = Off
    /\ flight' = None
    /\ restored' = (outbox = {})
    /\ stream' = Closed
    /\ UNCHANGED <<epoch, log, published, platform, cache, staged, outbox,
                   misplaced>>

(***************************************************************************)
(* Optimistic messages.                                                    *)
(***************************************************************************)
Overlaid(v, msgs) ==
    [v EXCEPT !.data = [msgs |-> msgs,
                        older |-> IF v.data = None THEN 0 ELSE v.data.older]]
Messages0(v) == IF v.data = None THEN <<>> ELSE v.data.msgs
Optimistic(m) == [id |-> m, ver |-> 0]

overlayRest == <<streamVars, platform, link, hydrated, driver, cache,
                 flight, misplaced, faults>>

Stage(m) ==
    /\ m \notin staged
    /\ staged' = staged \cup {m}
    /\ outbox' = outbox \cup {m}
    /\ view' = Overlaid(view, Upsert(Messages0(view), Optimistic(m)))
    /\ UNCHANGED <<overlayRest, restored>>

Acknowledge(m) ==
    /\ m \in outbox
    /\ InLog(m)
    /\ outbox' = outbox \ {m}
    /\ UNCHANGED <<overlayRest, view, staged, restored>>

Refuse(m) ==
    /\ m \in outbox
    /\ ~InLog(m)
    /\ outbox' = outbox \ {m}
    /\ view' = IF view.data = None THEN view
               ELSE Overlaid(view, Without(view.data.msgs, {m}))
    /\ UNCHANGED <<overlayRest, staged, restored>>

\* restoreDurableOptimisticSessionMessages, once the cell is hydrated.
RestoreOptimistic ==
    LET missing == SetToSeq(outbox \ Ids(Messages0(view))) IN
    /\ hydrated
    /\ ~restored
    /\ restored' = TRUE
    /\ view' = IF missing = <<>> THEN view
               ELSE Overlaid(view, Messages0(view)
                        \o [i \in DOMAIN missing |-> Optimistic(missing[i])])
    /\ UNCHANGED <<overlayRest, staged, outbox>>

(***************************************************************************)
(* The pager of a background client: one request, fenced by the pagination *)
(* head and by the epoch of the cursor; the version may have advanced.     *)
(***************************************************************************)
pagerRest == <<streamVars, platform, link, hydrated, driver, staged,
               outbox, restored, faults>>

AskPage ==
    /\ platform.background
    /\ link
    /\ flight = None
    /\ view.data # None
    /\ view.data.older # 0
    /\ flight' = [before |-> view.data.older, cursor |-> view.cursor,
                  page |-> None]
    /\ UNCHANGED <<pagerRest, view, cache, misplaced>>

ReadPage ==
    /\ flight # None
    /\ flight.page = None
    /\ flight' = [flight EXCEPT !.page = MessagePage(flight.before)]
    /\ UNCHANGED <<pagerRest, view, cache, misplaced>>

Fence == IF /\ view.cursor # None
            /\ flight.cursor # None
            /\ view.cursor.epoch = flight.cursor.epoch
            /\ view.cursor.version >= flight.cursor.version
         THEN view.cursor ELSE flight.cursor

PageFits ==
    /\ view.cursor = Fence
    /\ flight.cursor # None
    /\ view.data # None
    /\ view.data.older = flight.before

\* The cursor is still the one the page was asked for under, and the driver has
\* a committed first message in the cell, and not in the page, to tell history
\* from what the user adds.
InPlace ==
    /\ view.cursor = flight.cursor
    /\ driver.proj.msgs # <<>>
    /\ LET first == driver.proj.msgs[1].id IN
       /\ InLog(first)
       /\ first \in Ids(view.data.msgs)
       /\ first \notin Ids(flight.page.msgs)

ApplyPage ==
    /\ flight # None
    /\ flight.page # None
    /\ flight' = None
    /\ IF PageFits
       THEN /\ view' = [view EXCEPT !.data = Prepend(@, flight.page)]
            /\ misplaced' = (misplaced \/ ~InPlace)
            /\ cache' \in Saved(view')
       ELSE UNCHANGED <<view, cache, misplaced>>
    /\ UNCHANGED pagerRest

Next ==
    \/ Commit
    \/ \E m \in Users : \/ Stage(m) \/ CommitSent(m)
                        \/ Acknowledge(m) \/ Refuse(m)
    \/ PublishNext \/ PublishTwice \/ Attach \/ CatchUp
    \/ Pull \/ Follow \/ ReceiveRuntime \/ ReportFailure \/ MissedEvent
    \/ Checkpoint
    \/ Connect \/ Hydrate \/ LoseLink \/ Relaunch
    \/ RestoreOptimistic
    \/ AskPage \/ ReadPage \/ ApplyPage

\* The publisher and the stream run, whatever the stream's phase; the driver's
\* error handler runs; reconnecting is retried for ever, and loading the cache
\* settles.
StreamRuns == Attach \/ CatchUp \/ Pull \/ Follow

Fairness ==
    /\ WF_vars(PublishNext)
    /\ WF_vars(StreamRuns)
    /\ WF_vars(ReportFailure)
    /\ WF_vars(Connect)
    /\ WF_vars(Hydrate)

Spec == Init /\ [][Next]_vars
FairSpec == Spec /\ Fairness

TypeOK ==
    /\ epoch \in 0..MaxEpoch
    /\ log \in Seq(Transaction)
    /\ published \in 0..Len(log)
    /\ stream.phase \in {"closed", "opened", "subscribed", "catching", "tail"}
    /\ platform \in Platforms
    /\ {link, hydrated, restored, misplaced, driver.due} \subseteq BOOLEAN
    /\ view.data \in Projection \cup {None}
    /\ view.cursor \in MaybeCursor
    /\ driver.phase \in {"off", "empty", "cached", "synchronizing", "live",
                         "stale", "failed"}
    /\ driver.proj \in Projection \cup {None}
    /\ outbox \subseteq staged
    /\ staged \subseteq Users
    /\ faults \in 0..MaxFaults

(***************************************************************************)
(* Properties.                                                             *)
(***************************************************************************)
\* The tail of the stream never meets a version jump: the subscription, made
\* before the head was read, hears every event that the head does not contain,
\* whatever is committed, published or published twice in between
\* (synchronizedEvents attaches to the hub before its transaction).
NoGap == stream.phase = "tail" /\ stream.hub # <<>> => ~Gap

ShownVer(msgs, m) ==
    IF m \in Ids(msgs) THEN msgs[IndexOf(msgs, m)].ver ELSE 0

\* Message m is shown as it stood at version n.
ShownAsOf(msgs, m, n) ==
    LET row == RowsAt(n)[m] IN
    /\ (m \in Ids(msgs)) = (row.seq > 0)
    /\ ShownVer(msgs, m) = row.ver

\* A message of the user that is not committed yet.
OwnDraft(msgs, m) ==
    /\ m \in Users
    /\ m \in Ids(msgs)
    /\ ShownVer(msgs, m) = 0

\* Every message stands as it did at version v or at a later one, or it is what
\* the user has just written, or it is missing and older than what is loaded.
Faithful(msgs, older, v) ==
    \A m \in Messages :
        \/ \E n \in v..Len(log) : ShownAsOf(msgs, m, n)
        \/ OwnDraft(msgs, m)
        \/ m \notin Ids(msgs) /\ RowsAt(v)[m].seq < older

\* What a client shows under a cursor is what was committed: every message
\* stands as it did at the cursor or at a later version (never an earlier one),
\* a rolled back message is gone, and what is missing is history that the client
\* knows it has not loaded.  Only a page or a refresh applied out of place can
\* break this.
\* About the reducer, the cursor fence of the cell, the cache that outlives the
\* application, and the snapshot, delta and reset of synchronizedEvents.
ShownFaithfully ==
    /\ ~misplaced
    /\ view.data # None
    /\ view.cursor # None
    /\ view.cursor.epoch = epoch
    => Faithful(view.data.msgs, view.data.older, view.cursor.version)

CaughtUp == driver.phase = "live" /\ view.cursor = At(Len(log))

\* However links, engines and applications fail and databases are restored, a
\* client whose connection learns of every failure (the phone) comes to show the
\* whole log and stays there; any other one does, unless its stream failed for
\* a reason other than the transport, which its driver does not report
\* (reportFailure of session-timeline-client-bus.ts).
CatchesUp == <>[](CaughtUp \/ (driver.phase = "failed" /\ ~platform.repairs))
=============================================================================
