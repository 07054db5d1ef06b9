---------------------------- MODULE SessionRuntime ----------------------------
(***************************************************************************)
(* A session at work: clients and the queue service that command the       *)
(* aggregate of SessionTurns, the job executor that drives the provider    *)
(* (apps/server/src/conversation/core/provider-jobs.ts and                 *)
(* provider-turn-recovery.ts), the provider's events                       *)
(* (conversation-event-runtime.ts), the ingestion sweeper and the boot     *)
(* reconciliation after a process loss (startup-recovery.ts).              *)
(*                                                                         *)
(* JobWorker shows that a session has at most one running job and that a   *)
(* cancelled job's fiber is stopped; here a claim therefore needs an empty *)
(* lane, and the fiber of a cancelled send unwinds on its own, next to     *)
(* the job that runs after it.                                             *)
(***************************************************************************)
EXTENDS SessionTurns

CONSTANTS Faults,      \* the disturbances this instance admits
          MaxFaults    \* bound: disturbances in one behaviour

ASSUME RuntimeConstants == MaxFaults \in Nat

VARIABLES live,      \* the attempts the provider process is executing
          lease,     \* the attempt the ingestion lease row names, or <<>>
          sends,     \* how often each attempt's input reached the provider
          inbox,     \* what the user has done with each message
          claimed,   \* message taken from the queue, not yet submitted
          pausing,   \* an operation is about to pause the queue as well
          faults     \* disturbances so far

runtimeVars == <<live, lease, sends, inbox, claimed, pausing, faults>>
vars == <<sessionVars, runtimeVars>>

Disturb(kind) ==
    /\ kind \in Faults /\ faults < MaxFaults
    /\ faults' = faults + 1

-----------------------------------------------------------------------------
\* A session without turns, or one created with its first turn while the
\* workspace is prepared: the turn exists, its send is not yet requested.
Init ==
    /\ \/ current = None /\ gate = "open" /\ status = "idle"
          /\ turnStatus = [m \in Messages |-> "absent"] /\ phase = "none"
          /\ attempts = [m \in Messages |-> 0]
          /\ inbox = [m \in Messages |-> "new"]
       \/ \E first \in Messages :
          /\ inbox = [m \in Messages |->
                         IF m = first THEN "accepted" ELSE "new"]
          /\ current = first /\ gate = "paused" /\ status = "busy"
          /\ turnStatus = [m \in Messages |->
                              IF m = first THEN "active" ELSE "absent"]
          /\ phase = "running"
          /\ attempts = [m \in Messages |-> IF m = first THEN 1 ELSE 0]
    /\ bound = {} /\ recoveries = {} /\ queued = {} /\ held = {}
    /\ successor = None /\ predecessor = None /\ life = "live"
    /\ receipts = [c \in Commands |-> "new"] /\ jobs = <<>>
    /\ live = {} /\ lease = <<>>
    /\ sends = [p \in Attempts |-> 0]
    /\ claimed = None /\ pausing = "no" /\ faults = 0

-----------------------------------------------------------------------------
(* Clients.                                                                *)

Accept(m) ==
    /\ inbox[m] = "new"
    /\ inbox' = [inbox EXCEPT ![m] = "accepted"]
    /\ UNCHANGED <<live, lease, sends, claimed, pausing, faults>>

SendMessage(m) == SubmitTurn(m, jobs) /\ Accept(m)

ReleaseFirstTurn ==
    /\ \A i \in DOMAIN jobs : jobs[i].kind # "send"
    /\ ReleaseInitialTurn(jobs)
    /\ UNCHANGED runtimeVars

InterruptSession(c) ==
    /\ receipts[c] = "new"
    /\ \/ /\ RequestTurnInterrupt(jobs)
          /\ receipts' = [receipts EXCEPT ![c] = "interrupted"]
          /\ pausing' = "yes"
       \/ /\ current = None \/ InterruptPending
          /\ receipts' = [receipts EXCEPT ![c] = "quiet"]
          /\ pausing' = IF current = None THEN pausing ELSE "yes"
          /\ UNCHANGED <<turnVars, evidenceVars, queueVars, successorVars,
                         life, status, jobs>>
    /\ UNCHANGED <<gate, live, lease, sends, inbox, claimed, faults>>

\* The second command of interruptSession, and of a claim given back for want
\* of a working directory.
PauseAfterInterrupt ==
    /\ pausing = "yes" /\ pausing' = "no"
    /\ \/ queued = {} /\ UNCHANGED sessionVars
       \/ queued # {} /\ SetQueuePaused("paused")
    /\ UNCHANGED <<live, lease, sends, inbox, claimed, faults>>

RunQueuedMessageNext(c, m) ==
    /\ receipts[c] = "new"
    /\ \/ /\ SteerQueuedTurn(m, jobs)
          /\ receipts' = [receipts EXCEPT ![c] = IF InterruptPending
                                                 THEN "quiet"
                                                 ELSE "steered"]
       \/ /\ SteerAfterSettlement(m, jobs)
          /\ receipts' = [receipts EXCEPT ![c] = "quiet"]
    /\ claimed = None   \* flushLock
    /\ UNCHANGED runtimeVars

\* The same command id again, after an uncertain answer: the receipt is
\* returned, the events it names are read back, and the transaction's tail
\* runs on them once more.  Enqueueing collapses on the job ids.  A receipt
\* without events has an empty tail.
DispatchAgain(c) ==
    /\ \/ receipts[c] = "interrupted" /\ pausing' = "yes"
       \/ /\ receipts[c] = "steered" /\ claimed = None /\ current # None
          /\ UNCHANGED pausing
    /\ Disturb("duplicate")
    /\ jobs' = StopDelivery(jobs)
    /\ UNCHANGED <<turnVars, evidenceVars, queueVars, successorVars, gate,
                   life, status, receipts, live, lease, sends, inbox, claimed>>

UnsettledJob(kinds, m, a) ==
    \E i \in DOMAIN jobs : /\ jobs[i].kind \in kinds /\ jobs[i].turn = m
                           /\ jobs[i].attempt = a
                           /\ jobs[i].status \in Unsettled

Requested(m) == \E i \in DOMAIN jobs : /\ jobs[i].kind = "send"
                                       /\ jobs[i].turn = m

AwaitsJob == UnsettledJob({"send", "recover"}, current, attempts[current])

\* restartSession, after closing the provider: a turn whose input is known gets
\* a new attempt; any other is finalized and the provider opened without a
\* turn, which can fail and leave the status alone.
RestartSession ==
    \/ current # None /\ Requested(current) /\ RetryTurn(jobs)
    \/ /\ current # None /\ ~Requested(current)
       /\ Finalize("ended", jobs)
       /\ status' \in {"idle", status}
    \/ /\ current = None
       /\ status' \in {"idle", status}
       /\ UNCHANGED <<turnVars, evidenceVars, queueVars, successorVars, gate,
                      life, receipts, jobs>>

\* resumeSession returns at once when the session did not fail and somebody
\* works on the turn.
ResumeSession ==
    /\ \/ status = "error"
       \/ live = {} /\ ~(life = "live" /\ current # None /\ AwaitsJob)
    /\ RestartSession
    /\ live' = {}
    /\ UNCHANGED <<lease, sends, inbox, claimed, pausing, faults>>

Archive ==
    /\ Disturb("archive")
    /\ ArchiveSession("archived")
    /\ live' = {}
    /\ UNCHANGED <<lease, sends, inbox, claimed, pausing>>

Unarchive == ArchiveSession("live") /\ UNCHANGED runtimeVars

-----------------------------------------------------------------------------
(* The queue service.  It holds flushLock from the claim to the submission. *)

EnqueueMessage(m) == EnqueueTurn(m, TRUE, jobs) /\ Accept(m)

RemoveQueuedMessage(m) ==
    /\ m \in queued
    /\ TakeFromQueue(m)
    /\ inbox' = [inbox EXCEPT ![m] = "withdrawn"]
    /\ gate' = IF queued = {m} THEN "open" ELSE gate  \* clearPauseIfEmpty
    /\ UNCHANGED <<turnVars, evidenceVars, successorVars, life, status,
                   receipts, jobs, live, lease, sends, claimed, pausing,
                   faults>>

RegainAccess(m) == UpdateQueuedTurn(m) /\ UNCHANGED runtimeVars

\* resumeQueuedMessages, after the restart of a session that had failed.
ResumeQueue ==
    /\ gate = "paused"
    /\ SetQueuePaused("open")
    /\ UNCHANGED runtimeVars

ClaimQueuedTurn_KeepsRow(m) ==
    /\ m \in queued \ held
    /\ claimed' = m /\ gate' = "open"
    /\ UNCHANGED <<turnVars, evidenceVars, queueVars, successorVars, life,
                   status, receipts, jobs, live, lease, sends, inbox, pausing,
                   faults>>

\* claim: taken for submission, or refused to its actor, which pauses the queue.
ClaimQueuedTurn(m) ==
    /\ m \in queued \ held
    /\ \/ TakeFromQueue(m) /\ claimed' = m /\ gate' = "open"
       \/ gate' = "paused" /\ UNCHANGED <<queueVars, claimed>>
    /\ UNCHANGED <<turnVars, evidenceVars, successorVars, life, status,
                   receipts, jobs, live, lease, sends, inbox, pausing,
                   faults>>

\* flushAfterIdle and flushQueuedMessages: the latter looks at the status only.
FlushHead(m) ==
    /\ claimed = None
    /\ current = None \/ status = "idle"
    /\ status # "error" /\ gate = "open"
    /\ ClaimQueuedTurn(m)

\* runQueuedMessageWhileIdle unpauses first and does not mind a failed turn.
RunQueuedMessageWhileIdle(m) ==
    /\ claimed = None /\ current = None
    /\ \/ ClaimQueuedTurn(m)
       \/ m \notin queued \ held /\ SetQueuePaused("open")
          /\ UNCHANGED runtimeVars

SendClaimed_NoRestore ==
    /\ claimed # None
    /\ \/ SubmitTurn(claimed, jobs)
       \/ current # None /\ UNCHANGED sessionVars
    /\ claimed' = None
    /\ UNCHANGED <<live, lease, sends, inbox, pausing, faults>>

\* Submitted, or given back: a turn is running, an open question blocks input,
\* or the working directory is gone, which also pauses the queue afterwards.
SendClaimed ==
    /\ claimed # None
    /\ \/ SubmitTurn(claimed, jobs) /\ UNCHANGED pausing
       \/ EnqueueTurn(claimed, TRUE, jobs) /\ pausing' \in {pausing, "yes"}
    /\ claimed' = None
    /\ UNCHANGED <<live, lease, sends, inbox, faults>>

-----------------------------------------------------------------------------
(* The job worker and the executor.                                        *)

\* Row i after a step of its fiber: row status, fiber position, durable mark.
Row(i, st, step, mark) ==
    [jobs EXCEPT ![i] = [@ EXCEPT !.status = st, !.step = step,
                                  !.journal = mark]]
Step(i, step) == Row(i, jobs[i].status, step, jobs[i].journal)
Succeed(i) == Row(i, "succeeded", "none", jobs[i].journal)
At(i, kind, step) == /\ jobs[i].kind = kind /\ jobs[i].status = "running"
                     /\ jobs[i].step = step
Mine(i) == IsActiveAttempt(jobs[i].turn, jobs[i].attempt)
OnlyJobs == UNCHANGED <<turnVars, evidenceVars, queueVars, successorVars, gate,
                        life, status, receipts>>

\* The oldest pending job; a drain also takes the parked ones.
Claim(i) ==
    /\ \A k \in DOMAIN jobs : jobs[k].status # "running"
    /\ \/ jobs[i].status = "waiting"
       \/ /\ jobs[i].status = "pending"
          /\ \A k \in 1..(i - 1) : jobs[k].status # "pending"
    /\ jobs' = Row(i, "running", "none", jobs[i].journal)
    /\ OnlyJobs
    /\ UNCHANGED runtimeVars

\* The first step of every provider job but successor.start: the attempt must
\* still be the session's active one.
Check(i) ==
    /\ \E kind \in {"send", "recover", "interrupt", "capture"} :
          At(i, kind, "none")
    /\ \/ ~Mine(i) /\ jobs' = Succeed(i)
       \/ /\ Mine(i)
          /\ jobs' = Step(i, CASE jobs[i].kind = "send" -> "checked"
                              [] jobs[i].kind = "recover" -> "checked"
                              [] jobs[i].kind = "interrupt" -> "asked"
                              [] OTHER -> "capturing")
    /\ OnlyJobs
    /\ UNCHANGED runtimeVars

SendBegin_Resends(i) ==
    /\ At(i, "send", "checked")
    /\ \/ /\ jobs[i].journal \in {"missing", "started"}
          /\ jobs' = Row(i, "running", "begun", "started")
       \/ /\ jobs[i].journal \in {"completed", "unknown"}
          /\ jobs' = Succeed(i)
    /\ OnlyJobs
    /\ UNCHANGED runtimeVars

\* Without a failed baseline capture (JobParks): delivery.begin.
SendBegin(i) ==
    /\ At(i, "send", "checked")
    /\ \/ /\ jobs[i].journal = "missing"
          /\ jobs' = Row(i, "running", "begun", "started")
       \/ jobs[i].journal = "started" /\ jobs' = Step(i, "unknown")
       \/ /\ jobs[i].journal \in {"completed", "unknown"}
          /\ jobs' = Succeed(i)
    /\ OnlyJobs
    /\ UNCHANGED runtimeVars

JobParks_ForGood(i) ==
    /\ At(i, "send", "checked") \/ At(i, "capture", "capturing")
    /\ Disturb("capture")
    /\ jobs' = Row(i, "failed", "none", jobs[i].journal)
    /\ OnlyJobs
    /\ UNCHANGED <<live, lease, sends, inbox, claimed, pausing>>

\* The baseline capture of a send, a final capture or a native recovery fails:
\* the job is parked until a drain retries it.
JobParks(i) ==
    /\ \/ At(i, "send", "checked") \/ At(i, "capture", "capturing")
       \/ At(i, "recover", "checked")
    /\ Disturb("capture")
    /\ jobs' = Row(i, "waiting", "none", jobs[i].journal)
    /\ OnlyJobs
    /\ UNCHANGED <<live, lease, sends, inbox, claimed, pausing>>

\* setStatus running, fenced; on a conflict the job ends and the journal stays.
SendStatus(i) ==
    /\ At(i, "send", "begun")
    /\ \/ /\ OwnsUninterrupted(jobs[i].turn, jobs[i].attempt)
          /\ jobs' = Step(i, "sending")
          /\ status' = "busy"
       \/ /\ ~OwnsUninterrupted(jobs[i].turn, jobs[i].attempt)
          /\ jobs' = Succeed(i)
          /\ UNCHANGED status
    /\ UNCHANGED <<turnVars, evidenceVars, queueVars, successorVars, gate,
                   life, receipts, runtimeVars>>

\* acquireIngestionLease: for the active attempt of a starting or running turn
\* of a session in use, whatever attempt the row named before.
AcquireLease(m, a) ==
    lease' = IF Owns(m, a) /\ turnStatus[m] = "active" THEN <<m, a>> ELSE lease

\* The input reaches the provider, which starts to execute the attempt; the
\* event consumer takes the ingestion lease.
Deliver(m, a) ==
    /\ sends' = [sends EXCEPT ![<<m, a>>] = @ + 1]
    /\ live' = {<<m, a>>}
    /\ AcquireLease(m, a)

\* provider.send, with its restart of the provider when the send is proven
\* undelivered: accepted; lost without a proof, delivered or not; not started
\* because the attempt was superseded meanwhile; failed to start, with the
\* failure reported, the job failed for good and the journal released (or, when
\* the provider wants a login, the job done and the journal completed).
SendDeliver(i) ==
    LET m == jobs[i].turn
        a == jobs[i].attempt
    IN  /\ jobs[i].kind = "send" /\ jobs[i].step = "sending"
        /\ \/ /\ jobs[i].status = "running"
              /\ Deliver(m, a)
              /\ jobs' = Step(i, "delivered") /\ UNCHANGED status
           \/ Deliver(m, a) /\ jobs' = Step(i, "unknown") /\ UNCHANGED status
           \/ /\ jobs' = Step(i, "unknown")
              /\ UNCHANGED <<sends, live, lease, status>>
           \/ /\ jobs[i].status = "running" /\ ~OwnsUninterrupted(m, a)
              /\ jobs' = Succeed(i)
              /\ UNCHANGED <<sends, live, lease, status>>
           \/ /\ jobs[i].status = "running"
              /\ OwnsUninterrupted(m, a)
              /\ \/ jobs' = Row(i, "failed", "none", "missing")
                 \/ jobs' = Row(i, "succeeded", "none", "completed")
              /\ status' = "error"
              /\ UNCHANGED <<sends, live, lease>>
        /\ UNCHANGED <<turnVars, evidenceVars, queueVars, successorVars, gate,
                       life, receipts, inbox, claimed, pausing, faults>>

SendComplete(i) ==
    /\ At(i, "send", "delivered")
    /\ jobs' = Row(i, "succeeded", "none", "completed")
    /\ OnlyJobs
    /\ UNCHANGED runtimeVars

\* recoverUnknownDelivery, by the running job after a lost send or by the exit
\* handler of a cancelled one: a recovery attempt, or an explicit error.
Unwinding(i) == /\ jobs[i].kind = "send" /\ jobs[i].status = "cancelled"
                /\ jobs[i].step \in {"begun", "delivered", "unknown"}

RecoverUnknownDelivery(i) ==
    /\ At(i, "send", "unknown") \/ Unwinding(i)
    /\ \/ /\ ~OwnsUninterrupted(jobs[i].turn, jobs[i].attempt)
          /\ jobs' = IF Unwinding(i) THEN Step(i, "none") ELSE Succeed(i)
          /\ OnlyJobs
       \/ /\ OwnsUninterrupted(jobs[i].turn, jobs[i].attempt)
          /\ \/ RecoverTurn(Row(i, jobs[i].status, "none", "unknown"))
             \/ ~Recoverable /\ FinalizeTurn("error", Step(i, "settled"))
    /\ UNCHANGED runtimeVars

\* provider.interrupt answered, failed or timed out after five seconds.
InterruptAnswer(i) ==
    LET m == jobs[i].turn
        a == jobs[i].attempt
    IN  /\ At(i, "interrupt", "asked")
        /\ \/ /\ live' = live \ {<<m, a>>}
              /\ \/ Owns(m, a) /\ AcknowledgeTurnInterrupt(Step(i, "acked"))
                 \/ ~Owns(m, a) /\ jobs' = Succeed(i) /\ OnlyJobs
           \/ /\ UNCHANGED live
              /\ \/ Owns(m, a) /\ FailTurnInterrupt(Step(i, "refused"))
                 \/ ~Owns(m, a) /\ jobs' = Succeed(i) /\ OnlyJobs
        /\ UNCHANGED <<lease, sends, inbox, claimed, pausing, faults>>

\* An acknowledged interrupt finalizes the turn, a refused one settles it and
\* closes the provider.
InterruptSettle(i) ==
    LET m == jobs[i].turn
        a == jobs[i].attempt
    IN  /\ \/ /\ At(i, "interrupt", "acked") /\ Owns(m, a)
              /\ FinalizeTurn("ended", Step(i, "settled"))
              /\ UNCHANGED live
           \/ /\ At(i, "interrupt", "refused") /\ Owns(m, a)
              /\ SettleTurn("ended", Step(i, "settled"))
              /\ live' = {}
           \/ /\ At(i, "interrupt", "acked") \/ At(i, "interrupt", "refused")
              /\ ~Owns(m, a)
              /\ jobs' = Succeed(i) /\ OnlyJobs /\ UNCHANGED live
        /\ UNCHANGED <<lease, sends, inbox, claimed, pausing, faults>>

CaptureDone(i) ==
    LET m == jobs[i].turn
        a == jobs[i].attempt
    IN  /\ At(i, "capture", "capturing")
        /\ \/ Owns(m, a) /\ SettleTurn(jobs[i].outcome, Step(i, "settled"))
           \/ ~Owns(m, a) /\ jobs' = Succeed(i) /\ OnlyJobs
        /\ live' = live \ {<<m, a>>}
        /\ UNCHANGED <<lease, sends, inbox, claimed, pausing, faults>>

\* recoverProviderTurn reads the native transcript and settles by what it says.
RecoverSettle(i) ==
    /\ At(i, "recover", "checked")
    /\ \/ /\ OwnsUninterrupted(jobs[i].turn, jobs[i].attempt)
          /\ \E outcome \in {"ended", "error"} :
                FinalizeTurn(outcome, Step(i, "settled"))
       \/ /\ ~OwnsUninterrupted(jobs[i].turn, jobs[i].attempt)
          /\ jobs' = Succeed(i) /\ OnlyJobs
    /\ UNCHANGED runtimeVars

\* providerSuccessorStart.  Its commands carry ids derived from the job, so a
\* second execution finds their receipts (the mark) and changes nothing.
SuccessorStart(i) ==
    LET m == jobs[i].turn
        mark == jobs[i].journal
        done(to) == Row(i, "running", "settled", to)
    IN  /\ At(i, "successor", "none")
        /\ \/ mark # "refused" /\ EnqueueTurn(m, FALSE, done("refused"))
           \/ SubmitTurn(m, done("submitted"))
           \/ /\ turnStatus[m] = "absent" /\ current # None
              /\ mark # "requeued"
              /\ EnqueueTurn(m, TRUE, done("requeued"))
           \/ /\ \/ mark \in {"refused", "submitted"}
                 \/ mark = "requeued" /\ current # None
                 \/ turnStatus[m] # "absent"
              /\ jobs' = done(mark) /\ OnlyJobs
        /\ UNCHANGED runtimeVars

\* The worker records the success after the executor's last command.
Finish(i) ==
    /\ jobs[i].step = "settled"
    /\ jobs' = Row(i,
                   IF jobs[i].status = "running" THEN "succeeded"
                   ELSE jobs[i].status,
                   "none",
                   IF jobs[i].kind = "send" THEN "unknown" ELSE jobs[i].journal)
    /\ OnlyJobs
    /\ UNCHANGED runtimeVars

-----------------------------------------------------------------------------
(* The provider, the sweeper and process loss.                             *)

\* NativeTurnStarted.
ProviderBinds(m, a) ==
    /\ <<m, a>> \in live \ bound
    /\ BindAttemptProviderTurn(m, a)
    /\ UNCHANGED runtimeVars

\* Completed: the attempt's terminal event, dropped when it lost ownership.
ProviderEnds(m, a) ==
    /\ <<m, a>> \in live
    /\ live' = live \ {<<m, a>>}
    /\ \/ /\ Owns(m, a)
          /\ \E outcome \in {"ended", "error"} : FinalizeTurn(outcome, jobs)
       \/ ~Owns(m, a) /\ UNCHANGED sessionVars
    /\ UNCHANGED <<lease, sends, inbox, claimed, pausing, faults>>

\* A lease that was not renewed: the consumer is blocked, or renewal was
\* refused because the turn is no longer starting or running.
Sweep ==
    /\ Disturb("sweep")
    /\ \E m \in Messages, a \in 1..MaxAttempts :
          /\ lease = <<m, a>> /\ Owns(m, a)
          /\ ExpireAttempt(jobs)
    /\ lease' = <<>>
    /\ live' = {}
    /\ UNCHANGED <<sends, inbox, claimed, pausing>>

\* reconcileAfterProcessLoss on the session's rows.
Requeued ==
    [i \in DOMAIN jobs |->
        [jobs[i] EXCEPT !.status = IF @ \in {"running", "waiting"}
                                   THEN "pending" ELSE @,
                        !.step = "none"]]

FailedSend(m, a) ==
    \E i \in DOMAIN jobs : /\ jobs[i].kind = "send" /\ jobs[i].turn = m
                           /\ jobs[i].attempt = a
                           /\ jobs[i].status = "failed"

\* reconcileSessionRuntime: the cases it leaves alone,
AwaitsRelease == gate = "paused" /\ phase = "running" /\ ~Requested(current)
AwaitsUser == status = "error" /\ FailedSend(current, attempts[current])

\* and what it does to an open turn.
ReconcileTurn ==
    IF life = "archived" THEN SettleTurn("ended", Requeued)
    ELSE IF turnStatus[current] = "finalizing" \/ AwaitsRelease
      THEN jobs' = Requeued /\ OnlyJobs
    ELSE IF AwaitsJob
      THEN /\ jobs' = Requeued /\ status' = "busy"
           /\ UNCHANGED <<turnVars, evidenceVars, queueVars, successorVars,
                          gate, life, receipts>>
    ELSE IF AwaitsUser THEN jobs' = Requeued /\ OnlyJobs
    ELSE IF ~InterruptPending /\ <<current, attempts[current]>> \in bound
      THEN RecoverTurn(Requeued)
    ELSE SettleTurn(IF InterruptPending THEN "ended" ELSE "error", Requeued)

\* The process dies and the next one boots.  Between the two only the database
\* survives; reconciliation runs before any worker or client command.
ProcessLoss ==
    /\ Disturb("crash")
    /\ live' = {} /\ lease' = <<>> /\ claimed' = None /\ pausing' = "no"
    /\ \/ current # None /\ ReconcileTurn
       \/ /\ current = None
          /\ jobs' = Requeued
          /\ status' = IF status = "busy" /\ life = "live" THEN "error"
                       ELSE status
          /\ UNCHANGED <<turnVars, evidenceVars, queueVars, successorVars,
                         gate, life, receipts>>
    /\ UNCHANGED <<sends, inbox>>

-----------------------------------------------------------------------------
Client ==
    \/ \E m \in Messages : SendMessage(m)
    \/ ReleaseFirstTurn
    \/ \E c \in Commands : InterruptSession(c)
    \/ PauseAfterInterrupt
    \/ \E c \in Commands, m \in Messages : RunQueuedMessageNext(c, m)
    \/ \E c \in Commands : DispatchAgain(c)
    \/ ResumeSession
    \/ Archive
    \/ Unarchive

QueueService ==
    \/ \E m \in Messages : EnqueueMessage(m)
    \/ \E m \in Messages : RemoveQueuedMessage(m)
    \/ \E m \in Messages : RegainAccess(m)
    \/ ResumeQueue
    \/ \E m \in Messages : FlushHead(m)
    \/ \E m \in Messages : RunQueuedMessageWhileIdle(m)
    \/ SendClaimed

Execute(i) ==
    \/ Check(i)
    \/ SendBegin(i)
    \/ SendStatus(i)
    \/ SendDeliver(i)
    \/ SendComplete(i)
    \/ RecoverUnknownDelivery(i)
    \/ InterruptAnswer(i)
    \/ InterruptSettle(i)
    \/ CaptureDone(i)
    \/ RecoverSettle(i)
    \/ SuccessorStart(i)
    \/ Finish(i)

Environment ==
    \/ \E m \in Messages, a \in 1..MaxAttempts : ProviderBinds(m, a)
    \/ \E m \in Messages, a \in 1..MaxAttempts : ProviderEnds(m, a)
    \/ \E i \in DOMAIN jobs : JobParks(i)
    \/ Sweep
    \/ ProcessLoss

Next ==
    \/ Client
    \/ QueueService
    \/ \E i \in DOMAIN jobs : Claim(i)
    \/ \E i \in DOMAIN jobs : Execute(i)
    \/ Environment

Spec == Init /\ [][Next]_vars

\* The worker's loop keeps claiming pending jobs (parked ones wait for a drain,
\* which nobody promises) and a claimed job goes on: every provider call of the
\* interrupt has its timeout of five seconds, the other calls return or fail.
FairSpec ==
    /\ Spec
    /\ WF_vars(\E i \in DOMAIN jobs : jobs[i].status = "pending" /\ Claim(i))
    /\ WF_vars(\E i \in DOMAIN jobs : Execute(i))

-----------------------------------------------------------------------------
\* Every variable keeps its type.
TypeOK ==
    /\ current \in Messages \cup {None}
    /\ turnStatus \in
          [Messages -> {"absent", "active", "finalizing", "settled"}]
    /\ phase \in {"none", "running", "interrupt-requested",
                  "interrupt-acknowledged"}
    /\ attempts \in [Messages -> 0..MaxAttempts]
    /\ bound \subseteq Attempts /\ recoveries \subseteq Attempts
    /\ queued \subseteq Messages /\ held \subseteq queued
    /\ successor \in Messages \cup {None}
    /\ predecessor \in Messages \cup {None}
    /\ gate \in {"open", "paused"} /\ life \in {"live", "archived"}
    /\ status \in {"busy", "idle", "error"}
    /\ receipts \in [Commands -> {"new", "quiet", "interrupted", "steered"}]
    /\ jobs \in Seq(Jobs)
    /\ live \subseteq Attempts /\ lease \in Attempts \cup {<<>>}
    /\ sends \in [Attempts -> Nat]
    /\ inbox \in [Messages -> {"new", "accepted", "withdrawn"}]
    /\ claimed \in Messages \cup {None}
    /\ pausing \in {"no", "yes"} /\ faults \in 0..MaxFaults

\* currentTurnId is the one turn that is not terminal, and it has a phase: the
\* aggregate never carries two open turns, nor an open turn it forgot.
OneOpenTurn ==
    /\ \A m \in Messages : Open(m) <=> current = m
    /\ phase = "none" <=> current = None

\* A scheduled successor waits for the current turn and for no other: settling
\* a turn never leaves a successor behind that nothing will start.
SuccessorFollowsCurrent ==
    successor # None => predecessor = current /\ current # None

\* "Recovery never automatically resends uncertain input": whatever is lost,
\* interrupted or crashed, the input of an attempt reaches the provider at
\* most once, and that of a recovery attempt never.
AttemptSentOnce ==
    \A p \in Attempts : /\ sends[p] <= 1
                        /\ p \in recoveries => sends[p] = 0

Unwinds(m, a) ==
    \E i \in DOMAIN jobs : /\ jobs[i].kind = "send" /\ jobs[i].turn = m
                           /\ jobs[i].attempt = a
                           /\ jobs[i].step \in {"begun", "sending", "delivered",
                                               "unknown"}

BeingRefused(m, a) ==
    \E i \in DOMAIN jobs : /\ jobs[i].turn = m /\ jobs[i].attempt = a
                           /\ At(i, "interrupt", "refused")

\* The jobs of committed events are not lost: somebody is going to move the
\* current turn of a session that did not report an error.  Its send or
\* recovery is still to run or being unwound, the provider executes it, a lease
\* will expire it, or, once it is interrupted, the interrupt is still to run.
\* The first turn of a session that is still being prepared waits for its
\* release.
ActiveTurnIsDriven ==
    current # None /\ turnStatus[current] = "active" /\ life = "live" =>
        LET a == attempts[current]
        IN  IF InterruptPending
            THEN UnsettledJob({"interrupt"}, current, a)
            ELSE \/ AwaitsJob \/ ~Requested(current) \/ status = "error"
                 \/ <<current, a>> \in live \/ lease = <<current, a>>
                 \/ Unwinds(current, a) \/ BeingRefused(current, a)

\* A finalizing turn of a session in use has its capture still to run.
FinalizingIsCaptured ==
    current # None /\ turnStatus[current] = "finalizing" /\ life = "live" =>
        UnsettledJob({"capture"}, current, attempts[current])

\* A message the session accepted is queued, on its way or a turn; it does not
\* vanish between the queue, the scheduled successor and the successor's job.
NoMessageLost ==
    \A m \in Messages : inbox[m] = "accepted" =>
        \/ turnStatus[m] # "absent" \/ m \in queued
        \/ m = successor \/ m = claimed
        \/ UnsettledJob({"successor"}, m, 1)

\* A message that became a turn is not also waiting to become one.
NoMessageTwice ==
    \A m \in Messages : turnStatus[m] # "absent" => m \notin queued

\* A turn that entered finalization leaves it through its final capture.
CapturedBeforeSettled ==
    [][\A m \in Messages :
          turnStatus[m] = "finalizing" /\ turnStatus'[m] = "settled" =>
             \E i \in DOMAIN jobs : /\ jobs[i].turn = m
                                    /\ At(i, "capture", "capturing")]_vars

\* A requested interrupt is answered: acknowledged, failed or overtaken by the
\* end of its turn or by a new attempt.
InterruptsAreAnswered ==
    phase = "interrupt-requested" ~> phase # "interrupt-requested"
=============================================================================
