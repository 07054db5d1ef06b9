--------------------------- MODULE WorkspaceMailbox ---------------------------
(***************************************************************************)
(* The durable object that queues one cloud workspace's commands           *)
(* (infra/api/src/workspace-mailbox.ts).  Every handler is one synchronous *)
(* storage transaction behind the object's input gate, so each is one      *)
(* atomic action; only the alarm awaits an outside call (dispatchWake) and *)
(* so is cut in two: Alarm up to the call, DispatchDelivered or            *)
(* DispatchFailed after it.  The call itself is an action of the control   *)
(* plane (CloudCommands).                                                  *)
(*                                                                         *)
(* Data kept: a command is a model value with a lane and, once reserved, a *)
(* row.  A lease token is the ordinal of the lease (the code draws a fresh *)
(* UUID); 0 is NULL.  A deadline is the bit "late".  Of the row's category *)
(* only "fenced" is kept: a lease with a DESTRUCTIVE_LEASE_CATEGORIES one. *)
(* Wake revisions are kept as comparisons: whether the newest one is       *)
(* delivered, and whether a newer one appeared while one was being         *)
(* dispatched.  Left out: envelope sizes, the page limit of 16 leases,     *)
(* retention of results, identity collisions, and the change feed.  The    *)
(* per-command forms of block and unblock and a lifecycle call without a   *)
(* fence have no caller.                                                   *)
(***************************************************************************)
EXTENDS Naturals, FiniteSets

CONSTANTS Commands,        \* command ids
          LaneOf,          \* cloudCommandLane of each command
          Incarnations,    \* storage incarnation ids
          NoIncarnation,   \* no storage-incarnation row in mailbox_meta
          MaxNonterminal,  \* CLOUD_COMMAND_MAX_NONTERMINAL
          WakeDispatch     \* the object was given a dispatchWake

ASSUME MailboxConstants ==
    /\ IsFiniteSet(Commands)
    /\ NoIncarnation \notin Incarnations
    /\ MaxNonterminal \in Nat
    /\ WakeDispatch \in BOOLEAN

VARIABLES row,    \* mailbox_commands
          box,    \* mailbox_meta: sequence, runtime-generation,
                  \* destruction-fence, lifecycle-fence, storage-incarnation
          wake    \* the wake marker: armed and not delivered, the dispatch in
                  \* flight, and whether the marker moved since it started

mailboxVars == <<row, box, wake>>

-----------------------------------------------------------------------------
Terminal == {"applied", "rejected", "expired", "cancelled", "outcome-unknown"}
Waiting == {"accepted", "waiting-for-runtime"}
States == Terminal \cup Waiting
              \cup {"absent", "reserved", "blocked", "leased", "awaiting-fence"}

Rows == [state : States, seq : Nat, ever : BOOLEAN, token : Nat, issued : Nat,
         gen : Nat, inc : Incarnations \cup {NoIncarnation}, late : BOOLEAN,
         fenced : BOOLEAN, env : Nat]

NoRow == [state |-> "absent", seq |-> 0, ever |-> FALSE, token |-> 0,
          issued |-> 0, gen |-> 0, inc |-> NoIncarnation, late |-> FALSE,
          fenced |-> FALSE, env |-> 0]

Ended(r) == r.state \in Terminal
Open(r) == r.state # "absent" /\ ~Ended(r)

MailboxInit ==
    /\ row = [c \in Commands |-> NoRow]
    /\ box = [seq |-> 0, gen |-> 0, fence |-> 0, life |-> 0,
              inc |-> NoIncarnation]
    /\ wake = [due |-> FALSE, flight |-> "idle", moved |-> FALSE]

-----------------------------------------------------------------------------
\* Row transformations shared by the handlers.

GiveUp(r) == [r EXCEPT !.state = IF r.ever THEN "outcome-unknown" ELSE "cancelled",
                       !.token = 0, !.fenced = FALSE]

\* terminalizeUnsafe: a lease that has not expired may still be answered.
Terminalize(r) ==
    IF r.state = "leased" /\ ~r.late THEN [r EXCEPT !.fenced = TRUE]
                                     ELSE GiveUp(r)

BelowFence_Deletes(r, f) ==
    IF Open(r) /\ r.env < f THEN [r EXCEPT !.state = "deleted"] ELSE r

BelowFence(r, f) == IF Open(r) /\ r.env < f THEN Terminalize(r) ELSE r

\* observeDestructionFenceUnsafe: only a fence above the known one ends rows.
Observe(r, f) == IF f > box.fence THEN BelowFence(r, f) ELSE r

Expire(r) ==
    IF r.state = "leased" /\ r.late
        THEN IF r.fenced THEN GiveUp(r)
                         ELSE [r EXCEPT !.state = "awaiting-fence"]
        ELSE r

Arm == [wake EXCEPT !.due = TRUE, !.moved = (wake.flight # "idle")]

NonterminalCount(rows) == Cardinality({c \in Commands : Open(rows[c])})

-----------------------------------------------------------------------------
\* reserve: refused below the known fence; a higher fence is observed even
\* when the command is then a duplicate or over capacity.
ReserveStale(f) == f < box.fence

Reserve(c, f) ==
    LET seen == [d \in Commands |-> Observe(row[d], f)]
        room == /\ row[c].state = "absent"
                /\ NonterminalCount(seen) < MaxNonterminal
    IN  /\ ~ReserveStale(f)
        /\ row' = IF room
                    THEN [seen EXCEPT ![c] = [NoRow EXCEPT !.state = "reserved",
                                                           !.seq = box.seq + 1,
                                                           !.env = f]]
                    ELSE seen
        /\ box' = [box EXCEPT !.fence = f,
                              !.seq = IF room THEN box.seq + 1 ELSE box.seq]
        /\ UNCHANGED wake

Reserved(c, f) == /\ ~ReserveStale(f)
                  /\ \/ row[c].state # "absent"
                     \/ NonterminalCount([d \in Commands |-> Observe(row[d], f)])
                           < MaxNonterminal

\* commit: accept a reserved command, blocked when billing holds the
\* workspace, and arm the wake marker.  A repeated commit changes nothing
\* (it arms the marker only for rows older than the marker).
Commit(c, hold) ==
    /\ row[c].state # "absent"
    /\ row' = IF row[c].state = "reserved"
                THEN [row EXCEPT ![c].state = IF hold THEN "blocked" ELSE "accepted"]
                ELSE row
    /\ wake' = IF row[c].state = "reserved" THEN Arm ELSE wake
    /\ UNCHANGED box

\* block and unblock, for every command at once.
Block ==
    /\ row' = [c \in Commands |->
                 IF ~row[c].ever /\ row[c].state \in Waiting
                   THEN [row[c] EXCEPT !.state = "blocked"] ELSE row[c]]
    /\ UNCHANGED <<box, wake>>

SomeBlocked == \E c \in Commands : row[c].state = "blocked"

Unblock ==
    /\ row' = [c \in Commands |->
                 IF row[c].state = "blocked"
                   THEN [row[c] EXCEPT !.state = "waiting-for-runtime"] ELSE row[c]]
    /\ wake' = IF SomeBlocked THEN Arm ELSE wake
    /\ UNCHANGED box

Cancellable(r) == /\ ~r.ever
                  /\ r.state \in Waiting \cup {"reserved", "blocked"}

Cancel(c) ==
    /\ row' = IF Cancellable(row[c])
                THEN [row EXCEPT ![c].state = "cancelled"] ELSE row
    /\ UNCHANGED <<box, wake>>

-----------------------------------------------------------------------------
\* lease, by a runtime of generation g on storage i that was told fence f.

StaleGeneration(g) == g < box.gen
StaleFence(f) == f < box.fence

\* A lease from other storage ends every command the old storage was offered.
Orphaned(r, i) ==
    IF /\ box.inc \notin {NoIncarnation, i}
       /\ r.ever
       /\ Open(r)
      THEN GiveUp(r) ELSE r

Requeued_SameGeneration(r, g, i) ==
    IF r.state = "awaiting-fence" /\ r.inc = i /\ r.gen = g
      THEN [r EXCEPT !.state = "waiting-for-runtime", !.token = 0] ELSE r

\* A newer generation on the same storage has replaced the process that held
\* the lease, so the command may be offered again.
Requeued(r, g, i) ==
    IF r.state = "awaiting-fence" /\ r.inc = i /\ r.gen < g
      THEN [r EXCEPT !.state = "waiting-for-runtime", !.token = 0] ELSE r

Observed(g, i, f) ==
    [c \in Commands |->
       Requeued(Orphaned(Observe(Expire(row[c]), f), i), g, i)]

FenceRequired(rows, g, i) ==
    \E c \in Commands : /\ rows[c].state = "awaiting-fence"
                        /\ rows[c].gen = g
                        /\ rows[c].inc = i

LaneHead_PastLeases(rows, c) ==
    /\ rows[c].state \in Waiting
    /\ \A d \in Commands : /\ LaneOf[d] = LaneOf[c]
                           /\ rows[d].seq < rows[c].seq
                             => rows[d].state \notin Waiting \cup {"reserved", "blocked"}

LaneHead(rows, c) ==
    /\ rows[c].state \in Waiting
    /\ \A d \in Commands : /\ LaneOf[d] = LaneOf[c]
                           /\ rows[d].seq < rows[c].seq
                             => ~Open(rows[d])

Grants(g, i, f) ==
    IF StaleGeneration(g) \/ StaleFence(f) \/ FenceRequired(Observed(g, i, f), g, i)
      THEN {} ELSE {c \in Commands : LaneHead(Observed(g, i, f), c)}

Offer(r, g, i) == [r EXCEPT !.state = "leased", !.ever = TRUE,
                            !.token = r.issued + 1, !.issued = r.issued + 1,
                            !.gen = g, !.inc = i, !.late = FALSE]

Lease(g, i, f) ==
    /\ row' = IF StaleGeneration(g) \/ StaleFence(f)
                THEN [c \in Commands |-> Expire(row[c])]
                ELSE [c \in Commands |->
                        IF c \in Grants(g, i, f)
                          THEN Offer(Observed(g, i, f)[c], g, i)
                          ELSE Observed(g, i, f)[c]]
    /\ box' = IF StaleGeneration(g) THEN box
              ELSE IF StaleFence(f) THEN [box EXCEPT !.gen = g]
              ELSE [box EXCEPT !.gen = g, !.fence = f, !.inc = i]
    /\ UNCHANGED wake

\* The metadata a lease response carries.
LeaseSaysFence(g, i, f) == /\ ~StaleGeneration(g)
                           /\ ~StaleFence(f)
                           /\ FenceRequired(Observed(g, i, f), g, i)

-----------------------------------------------------------------------------
Answered_AnyToken(r, t, s) ==
    IF r.state \in {"leased", "awaiting-fence"}
      THEN [r EXCEPT !.state = s, !.token = 0, !.fenced = FALSE] ELSE r

\* acknowledge, of command c under lease token t with verdict s.
Answered(r, t, s) ==
    IF r.state \in {"leased", "awaiting-fence"} /\ r.token = t
      THEN [r EXCEPT !.state = s, !.token = 0, !.fenced = FALSE] ELSE r

Acknowledge(c, t, s) ==
    /\ row' = [d \in Commands |-> IF d = c THEN Answered(Expire(row[d]), t, s)
                                           ELSE Expire(row[d])]
    /\ UNCHANGED <<box, wake>>

\* lifecycle: the control plane archived or deleted the workspace at fence f.
Lifecycle(f) ==
    LET fresh == f > box.life /\ f >= box.fence
    IN  /\ row' = [c \in Commands |->
                     IF fresh THEN BelowFence(row[c], f) ELSE row[c]]
        /\ box' = IF fresh THEN [box EXCEPT !.fence = f, !.life = f] ELSE box
        /\ UNCHANGED wake

-----------------------------------------------------------------------------
\* alarm: drop the reservations in S, whose TTL is over, expire leases, and
\* start dispatching the wake marker if it is not delivered.
Lapsed(r) == IF r.state = "reserved" THEN [r EXCEPT !.state = "cancelled"] ELSE r

Alarm(S) ==
    /\ wake.flight = "idle"
    /\ row' = [c \in Commands |->
                 IF c \in S THEN Lapsed(row[c]) ELSE Expire(row[c])]
    /\ wake' = IF WakeDispatch /\ wake.due
                 THEN [wake EXCEPT !.flight = "calling", !.moved = FALSE] ELSE wake
    /\ UNCHANGED box

\* dispatchWake returned: the revision read before the call is delivered.
DispatchDelivered ==
    /\ wake.flight = "called"
    /\ wake' = [wake EXCEPT !.flight = "idle", !.due = wake.moved]
    /\ UNCHANGED <<row, box>>

\* dispatchWake failed, before or after its request took effect: retried.
DispatchFailed ==
    /\ wake.flight # "idle"
    /\ wake' = [wake EXCEPT !.flight = "idle"]
    /\ UNCHANGED <<row, box>>

\* A lease deadline passes.
DeadlinePasses(c) ==
    /\ row[c].state = "leased"
    /\ ~row[c].late
    /\ row' = [row EXCEPT ![c].late = TRUE]
    /\ UNCHANGED <<box, wake>>
=============================================================================
