----------------------------- MODULE SessionTurns -----------------------------
(***************************************************************************)
(* One session aggregate and the transaction that applies a command to it: *)
(* the decider (packages/domain/src/core/decider.ts), its replay           *)
(* (core/state.ts) and dispatchTransactionally (engine/session-domain.ts), *)
(* which appends the decided events, cancels the jobs the events supersede *)
(* and enqueues the jobs they imply, all in one SQLite transaction.        *)
(*                                                                         *)
(* Each command below is an action schema: its guard is the decider's      *)
(* success condition, its primed variables are what replaying the decided  *)
(* events changes.  A rejected command changes nothing and is no step.     *)
(*                                                                         *)
(* Data kept: a user message is a model value and names the one turn it    *)
(* can become (turn_queued_<queueId>, turn_<operationId>).  An attempt is  *)
(* its ordinal; the active attempt of a turn is its last.  Turn statuses   *)
(* "starting" and "running" are one value "active", the three terminal     *)
(* ones are "settled"; session statuses "booting" and "running" are        *)
(* "busy".  The queue is a set: no property depends on its order.          *)
(* Provider residency (reserve, attach, stop) and transcript events are    *)
(* left out.                                                               *)
(***************************************************************************)
EXTENDS Naturals, Sequences, FiniteSets

CONSTANTS Messages,     \* user messages, each the seed of one turn
          None,         \* no turn
          Commands,     \* ids of client commands that may be sent again
          MaxAttempts,  \* bound: attempts of one turn
          MaxJobs       \* bound: job rows of the session

ASSUME SessionConstants ==
    /\ None \notin Messages
    /\ MaxAttempts \in Nat \ {0}
    /\ MaxJobs \in Nat

VARIABLES current,      \* currentTurnId, or None
          turnStatus,   \* turns[m].status
          phase,        \* currentTurnPhase, "none" when null
          attempts,     \* turns[m].attempts.size
          bound,        \* attemptProviderTurns: attempts with native evidence
          recoveries,   \* attemptRecoveries: attempts started as recoveries
          queued,       \* queuedTurns
          held,         \* the queued turns that are not ready
          successor,    \* scheduledSuccessor.turnId, or None
          predecessor,  \* scheduledSuccessor.predecessorTurnId, or None
          gate,         \* queuePaused
          life,         \* archived
          status,       \* the session's status
          receipts,     \* what the receipt of a client command recorded
          jobs          \* this session's rows of the jobs table, oldest first

turnVars == <<current, turnStatus, phase, attempts>>
evidenceVars == <<bound, recoveries>>
queueVars == <<queued, held>>
successorVars == <<successor, predecessor>>
sessionVars == <<turnVars, evidenceVars, queueVars, successorVars, gate, life,
                 status, receipts, jobs>>

-----------------------------------------------------------------------------
Attempts == Messages \X (1..MaxAttempts)
Kinds == {"send", "recover", "interrupt", "successor", "capture"}
Outcomes == {"none", "ended", "error"}     \* "ended": completed or interrupted
JobStatuses ==
    {"pending", "waiting", "running", "succeeded", "failed", "cancelled"}
Unsettled == {"pending", "waiting", "running"}
Steps == {"none", "checked", "begun", "sending", "delivered", "unknown",
          "settled", "asked", "acked", "refused", "capturing"}
Journal == {"missing", "started", "completed", "unknown",     \* send
            "submitted", "requeued", "refused"}               \* successor

\* A row of the jobs table, with the durable mark its executor leaves (journal:
\* the row of reactor_effect_receipts of a send, the command receipt of a
\* successor start) and the position of the fiber executing it (step).
Jobs == [kind : Kinds, turn : Messages, attempt : 1..MaxAttempts,
         outcome : Outcomes, status : JobStatuses, step : Steps,
         journal : Journal]

NewJob(kind, m, a, outcome) ==
    [kind |-> kind, turn |-> m, attempt |-> a, outcome |-> outcome,
     status |-> "pending", step |-> "none", journal |-> "missing"]

\* jobs.enqueue of the jobs one command implies; MaxJobs bounds the instance.
Enqueue(js, job) == Append(js, job)
RoomFor(js) == Len(js) < MaxJobs

\* jobs.cancelUnsettled.  The row changes now; the fiber that runs the job, if
\* there is one, learns of it after the commit and keeps its step until then.
CancelUnsettled(js, kinds) ==
    [i \in DOMAIN js |->
        IF js[i].kind \in kinds /\ js[i].status \in Unsettled
        THEN [js[i] EXCEPT !.status = "cancelled"]
        ELSE js[i]]

Supersede(js) == CancelUnsettled(js, {"send", "interrupt", "recover"})
StopDelivery(js) == CancelUnsettled(js, {"send", "recover"})

\* activeAttempt of the session: null while it is archived.
Open(m) == turnStatus[m] \in {"active", "finalizing"}
IsActiveAttempt(m, a) == life = "live" /\ current = m /\ attempts[m] = a

\* The fence of a command that carries expectedAttempt; requireUninterrupted
\* also wants the turn's phase to be "running".
Owns(m, a) == IsActiveAttempt(m, a)
OwnsUninterrupted(m, a) == Owns(m, a) /\ phase = "running"

InterruptPending == phase \in {"interrupt-requested", "interrupt-acknowledged"}

-----------------------------------------------------------------------------
(* Replay of the events a command decides.                                 *)

TurnStarted(m) ==
    /\ current' = m
    /\ turnStatus' = [turnStatus EXCEPT ![m] = "active"]
    /\ phase' = "running"
    /\ attempts' = [attempts EXCEPT ![m] = 1]

\* AttemptStarted: the next attempt of the current turn, uninterrupted.
StartAttempt ==
    /\ attempts[current] < MaxAttempts
    /\ attempts' = [attempts EXCEPT ![current] = @ + 1]
    /\ phase' = "running"
    /\ status' = "busy"
    /\ UNCHANGED <<current, turnStatus>>

\* withTurnPhase, for the three events of an interruption.
TurnPhase(to) ==
    /\ phase' = to
    /\ UNCHANGED <<current, turnStatus, attempts>>

TurnSettled ==
    /\ current' = None
    /\ turnStatus' = [turnStatus EXCEPT ![current] = "settled"]
    /\ phase' = "none"
    /\ UNCHANGED attempts

\* ScheduledSuccessorReady schedules nothing any more: (None, None).
SuccessorTurnScheduled(m, p) == successor' = m /\ predecessor' = p

\* QueuedTurnClaimed and QueuedTurnRemoved replay alike.
TakeFromQueue_KeepsHeld(m) ==
    /\ queued' = queued \ {m}
    /\ UNCHANGED held

TakeFromQueue(m) ==
    /\ queued' = queued \ {m}
    /\ held' = held \ {m}

-----------------------------------------------------------------------------
(* Commands on turns.  js are the job rows the transaction starts from.    *)

SubmitTurn_AnyTime(m, js) ==
    /\ turnStatus[m] = "absent"
    /\ RoomFor(js)
    /\ TurnStarted(m)
    /\ status' = "busy"
    /\ jobs' = Enqueue(js, NewJob("send", m, 1, "none"))
    /\ UNCHANGED <<evidenceVars, queueVars, successorVars, gate, life,
                   receipts>>

\* A message becomes a turn at most once; a message that is queued although it
\* already is one is the subject of NoMessageTwice and goes no further.
SubmitTurn(m, js) ==
    /\ current = None /\ turnStatus[m] = "absent"
    /\ RoomFor(js)
    /\ TurnStarted(m)
    /\ status' = "busy"
    /\ jobs' = Enqueue(js, NewJob("send", m, 1, "none"))
    /\ UNCHANGED <<evidenceVars, queueVars, successorVars, gate, life,
                   receipts>>

ReleaseInitialTurn(js) ==
    /\ life = "live" /\ gate = "paused"
    /\ current # None /\ phase = "running"
    /\ RoomFor(js)
    /\ gate' = "open"
    /\ jobs' = Enqueue(js, NewJob("send", current, attempts[current], "none"))
    /\ UNCHANGED <<turnVars, evidenceVars, queueVars, successorVars, life,
                   status, receipts>>

RetryTurn_SupersedesItself(js) ==
    /\ current # None /\ turnStatus[current] = "active"
    /\ RoomFor(js)
    /\ StartAttempt
    /\ jobs' = Supersede(Enqueue(js, NewJob("send", current,
                                            attempts[current] + 1, "none")))
    /\ UNCHANGED <<evidenceVars, queueVars, successorVars, gate, life,
                   receipts>>

RetryTurn(js) ==
    /\ current # None /\ turnStatus[current] = "active"
    /\ RoomFor(js)
    /\ StartAttempt
    /\ jobs' = Enqueue(Supersede(js),
                       NewJob("send", current, attempts[current] + 1, "none"))
    /\ UNCHANGED <<evidenceVars, queueVars, successorVars, gate, life,
                   receipts>>

Recoverable ==
    /\ life = "live" /\ current # None /\ phase = "running"
    /\ <<current, attempts[current]>> \in bound \cup recoveries
    /\ turnStatus[current] = "active"

RecoverTurn(js) ==
    /\ Recoverable
    /\ RoomFor(js)
    /\ StartAttempt
    /\ recoveries' = recoveries \cup {<<current, attempts[current] + 1>>}
    /\ jobs' = Enqueue(Supersede(js),
                       NewJob("recover", current, attempts[current] + 1,
                              "none"))
    /\ UNCHANGED <<bound, queueVars, successorVars, gate, life, receipts>>

BindAttemptProviderTurn(m, a) ==
    /\ Owns(m, a)
    /\ bound' = bound \cup {<<m, a>>}
    /\ UNCHANGED <<turnVars, recoveries, queueVars, successorVars, gate, life,
                   status, receipts, jobs>>

Finalize(outcome, js) ==
    /\ current # None
    /\ \/ /\ turnStatus[current] = "finalizing"
          /\ jobs' = js
          /\ UNCHANGED turnStatus
       \/ /\ turnStatus[current] = "active"
          /\ RoomFor(js)
          /\ turnStatus' = [turnStatus EXCEPT ![current] = "finalizing"]
          /\ jobs' = Enqueue(js, NewJob("capture", current, attempts[current],
                                        outcome))
    /\ UNCHANGED <<current, phase, attempts, evidenceVars, queueVars,
                   successorVars, gate, life, receipts>>

FinalizeTurn(outcome, js) == Finalize(outcome, js) /\ UNCHANGED status

SettleTurn_KeepsSuccessor(outcome, js) ==
    /\ current # None
    /\ TurnSettled
    /\ jobs' = js
    /\ status' = IF outcome = "error" THEN "error" ELSE "idle"
    /\ UNCHANGED <<successorVars, evidenceVars, queueVars, gate, life, receipts>>

SettleTurn(outcome, js) ==
    /\ current # None
    /\ TurnSettled
    /\ \/ /\ predecessor = current
          /\ RoomFor(js)
          /\ jobs' = Enqueue(js, NewJob("successor", successor, 1, "none"))
          /\ status' = "busy"
          /\ SuccessorTurnScheduled(None, None)
       \/ /\ predecessor # current
          /\ jobs' = js
          /\ status' = IF outcome = "error" THEN "error" ELSE "idle"
          /\ UNCHANGED successorVars
    /\ UNCHANGED <<evidenceVars, queueVars, gate, life, receipts>>

\* The sweeper's command.  Its transaction cancels the attempt's jobs even
\* when it settles the turn instead of starting a recovery.
ExpireAttempt(js) ==
    \/ RecoverTurn(js)
    \/ /\ ~Recoverable
       /\ SettleTurn(IF phase # "running" \/ life # "live" THEN "ended"
                     ELSE "error", Supersede(js))

-----------------------------------------------------------------------------
(* Interruption, steering and the queue.                                   *)

RequestTurnInterrupt_NoJob(js) ==
    /\ current # None /\ ~InterruptPending
    /\ TurnPhase("interrupt-requested")
    /\ jobs' = StopDelivery(js)
    /\ UNCHANGED <<evidenceVars, queueVars, successorVars, life, status>>

RequestTurnInterrupt(js) ==
    /\ current # None /\ ~InterruptPending
    /\ RoomFor(js)
    /\ TurnPhase("interrupt-requested")
    /\ jobs' = Enqueue(StopDelivery(js),
                       NewJob("interrupt", current, attempts[current], "none"))
    /\ UNCHANGED <<evidenceVars, queueVars, successorVars, life, status>>

AcknowledgeTurnInterrupt(js) ==
    /\ current # None
    /\ TurnPhase("interrupt-acknowledged")
    /\ jobs' = js
    /\ UNCHANGED <<evidenceVars, queueVars, successorVars, gate, life, status,
                   receipts>>

FailTurnInterrupt(js) ==
    /\ current # None
    /\ TurnPhase("running")
    /\ jobs' = js
    /\ UNCHANGED <<evidenceVars, queueVars, successorVars, gate, life, status,
                   receipts>>

\* A message taken back into the queue keeps its identity; a queue id that is
\* already there is left as it is.
EnqueueTurn(m, ready, js) ==
    /\ queued' = queued \cup {m}
    /\ held' = IF m \in queued \/ ready THEN held ELSE held \cup {m}
    /\ jobs' = js
    /\ UNCHANGED <<turnVars, evidenceVars, successorVars, gate, life, status,
                   receipts>>

UpdateQueuedTurn(m) ==
    /\ m \in held
    /\ held' = held \ {m}
    /\ UNCHANGED <<turnVars, evidenceVars, queued, successorVars, gate, life,
                   status, receipts, jobs>>

SetQueuePaused(to) ==
    /\ gate' = to
    /\ UNCHANGED <<turnVars, evidenceVars, queueVars, successorVars, life,
                   status, receipts, jobs>>

\* The steered message becomes the successor of the running turn, whatever
\* successor was scheduled before.
SteerQueuedTurn(m, js) ==
    /\ current # None /\ m \in queued
    /\ TakeFromQueue(m)
    /\ SuccessorTurnScheduled(m, current)
    /\ \/ InterruptPending /\ jobs' = js /\ UNCHANGED turnVars
       \/ /\ ~InterruptPending
          /\ RoomFor(js)
          /\ TurnPhase("interrupt-requested")
          /\ jobs' = Enqueue(StopDelivery(js),
                             NewJob("interrupt", current, attempts[current],
                                    "none"))
    /\ UNCHANGED <<evidenceVars, gate, life, status>>

\* The turn to be interrupted settled between the caller's read and the
\* command: the successor is scheduled and ready in one transaction.
SteerAfterSettlement(m, js) ==
    /\ current = None /\ m \in queued
    /\ \E t \in Messages : turnStatus[t] = "settled"
    /\ RoomFor(js)
    /\ TakeFromQueue(m)
    /\ SuccessorTurnScheduled(None, None)
    /\ jobs' = Enqueue(js, NewJob("successor", m, 1, "none"))
    /\ UNCHANGED <<turnVars, evidenceVars, gate, life, status>>

ArchiveSession(to) ==
    /\ life # to
    /\ life' = to
    /\ UNCHANGED <<turnVars, evidenceVars, queueVars, successorVars, gate,
                   status, receipts, jobs>>
=============================================================================
