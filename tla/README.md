# Verification of the Zuse agent engine, its providers, cloud commands and timelines

Zuse runs coding agents: a user writes messages into a *session*, the server
turns each message into a *turn*, a turn is executed by a *provider* (a third
party agent process), and the user sees events as they arrive. The part that
is hard to get right is the agent engine of the server: an event-sourced
session aggregate, a durable table of jobs that carries the side effects of
the events, the fibers that execute the jobs, and the recovery that makes the
whole survive lost processes, lost answers and repeated commands. A workspace
may also live on a cloud machine that sleeps; then a message is a *command*
that a durable mailbox keeps until the machine's runtime leases and applies it.
What the user sees is a copy: every client keeps a timeline of the session that
a stream of events brings up to date, through lost links and restarts. This
directory models the engine, the path of a cloud command, and the way from a
committed event to a client's timeline, in TLA+.

## Components

| component | state it keeps | operations | hard behaviour |
|---|---|---|---|
| Job ledger (`packages/domain/src/agent-engine/job-ledger.ts`, `jobs.ts`) | one row per job: status, owner, lease, availability, attempt count | enqueue, claim, renew, settle, park, cancel, reclaim, reconcile | two claimers, expiry against a late settlement |
| Job worker (`agent-engine/job-worker.ts`) | fibers, the `cancellations` map, in-flight count | background loops, drains, heartbeat, cancellation, settlement | a claim lost in mid-execution, cancellation racing completion, a hung execution |
| Session aggregate (`domain/src/core/decider.ts`, `state.ts`) | current turn, its phase and attempts, queue, scheduled successor, pause, archive flag | one decision per command | legal sequences of commands that reach an illegal state |
| Dispatch transaction (`domain/src/engine/dispatch.ts`, `session-domain.ts`) | events, receipts, jobs | append events, supersede jobs, enqueue jobs, in one SQLite transaction | a command sent again, a fence that went stale |
| Provider job executor (`apps/server/src/conversation/core/provider-jobs.ts`, `provider-turn-recovery.ts`, `provider/reactor-effect-journal.ts`) | the delivery journal | send, recover, interrupt, start successor, capture | an input that may or may not have been delivered |
| Queue service (`core/queue-service-runtime.ts`) | the message taken under `flushLock` | add, remove, claim, restore, flush, run next, pause, resume | two commands where one was meant, a loss between them |
| Message, interrupt, resume and lifecycle operations (`core/message-operations.ts`, `core/session-operations.ts`) | none of their own | send, interrupt, resume, release, archive | state read before a command and used after it |
| Event ingestion, lease and sweeper (`core/conversation-event-runtime.ts`, `ingestion-lease.ts`, `ingestion-sweeper.ts`) | lease rows, consumers | bind, end, renew, sweep | a blocked consumer, a late terminal event |
| Startup recovery (`core/startup-recovery.ts`) | none | reconcile one session | every crash point of everything above |
| Workspace mailbox (`infra/api/src/workspace-mailbox.ts`, a durable object) | one row per command: state, sequence, lease token, generation, storage; the known fence, generation and storage; the wake marker | reserve, commit, block, unblock, cancel, lease, acknowledge, lifecycle, alarm | a lease that expires while it is being answered, a command offered to a second process |
| Mailbox coordinator and bookkeeping (`infra/api/src/cloud-mailbox-coordinator.ts`, `cloud-mailbox-bookkeeping.ts`, `index.ts`, `worker.ts`) | requests in flight | enqueue in four steps, billing policy, lease and what its answer obliges, lifecycle outbox | two stores and an await between each two steps |
| Workspace record and reconciler (`cloud-workspace-store.ts`, `-routes.ts`, `-reconciler.ts`) | wake and its revision, destruction fence, owed notification, runtime generation | wake, drain, restart, pause, archive | a drain that races an enqueue, a replaced machine that goes on |
| Cloud runtime consumer (`apps/server/src/api/cloud-workspace-runtime.ts`) | pending applications and acknowledgments, receipts of the session's database | lease, apply, acknowledge, exit | a process lost between effect and answer |
| Session event stream (`domain/src/engine/session-domain.ts`, `provider/handlers.ts`) | the publisher's cursor, the hub's queue of a subscriber, the captured head of a stream | publish, attach, capture, pull, follow | commits between attaching, reading the head and reading history; notifications sent twice |
| Read-model queries (`domain/src/projectors/`, `domain/src/queries/`) | the message rows | insert, rewrite, roll back, page, bounded snapshot | pages read outside the snapshot's transaction |
| Client timeline (`packages/client-runtime/src/session-timeline*.ts`, `client-bus.ts`, `session-message-pager.ts`, renderer and mobile adapters) | the driver's reducer state, the cell with its cursor, the cache, optimistic messages, a page in flight | one reduction per frame, checkpoint, continuity timer, hydrate, load a page, stage and restore a message | three copies of one projection, each behind another await |
| Client connections and outbox (`client-runtime/src/supervisor.ts`, `environment-runtime.ts`) | link, unsettled commands | connect, report a failure, send, settle | a failure that nobody reports |
| Provider residency (`apps/server/src/provider/provider-session-registry.ts`, `provider-startup.ts`, `provider-stop.ts`, `conversation/core/provider-session-runtime.ts`) | reservation and attachment of a session, registry of handles with generations, lifecycle lock | open, publish, attach, stop, close, retire, quiesce, shut down | a startup that outlives its reservation, a handle nobody owns, a stop that meets the next residency |
| Reactor and projector runners, admission gate, chat aggregate, permissions/questions/plans, checkpoints, the rest of the cloud control plane | | | not modelled, see the plan |
| Drivers, Git and worktrees, integrations, user interfaces | | | not modelled: adapters and presentation |

How they interact: a client operation dispatches a command. The decider
accepts or refuses it, and the transaction appends events, cancels the jobs
those events supersede and enqueues the jobs they imply. The worker claims the
oldest job of a session's lane and executes it; the executor reads the
aggregate, calls the provider and dispatches further commands, each fenced by
the attempt it acts for. Provider events come back through the ingestion
consumer and finalize the turn; its last job captures a checkpoint and settles
it. Cancelled rows are announced in the process, so that the fiber executing
one is stopped. After a process loss only the database is left, and the boot
reconciliation decides, per session, what every unfinished turn and job
becomes.

A cloud command goes another way. The client seals it with the workspace's
destruction fence; the API routes it against the workspace record, reserves it
in the mailbox, asks the control plane for a wake and commits it. The
reconciler sees the pending wake and resumes or restarts the machine under a
new runtime generation. The runtime polls; its lease request expires old
leases, ends or requeues what an earlier storage or generation held, and hands
out the head of every lane under a fresh token and a deadline. The runtime
looks for a receipt of the command in the session's database, sends the
message if there is none (message and receipt are one transaction), and
acknowledges with the token. Archiving moves the fence and owes the mailbox a
notification, which an outbox delivers.

A turn needs a provider process. The session reserves a residency and asks for
the stop of the one before, the opening is admitted under the session's
lifecycle lock, displaces the resident handle, starts the process (slowly, and
not under the lock), is admitted and published again under the lock, and then
attached in the session. Stops are jobs: each closes its residency if that is
still the resident one, and detaches it.

A committed event reaches a client through a publisher, which reads the log
behind its own cursor and copies new events into an in-memory hub, and through
a stream that attaches to the hub, reads the head in one transaction, sends
what the client misses (the events, or a snapshot and then its history page by
page), a barrier, and then what the hub has beyond that head. The client's
driver reduces these frames and hands each result to the resource cell, which
accepts it if its cursor is not older. The cell also takes messages the user
has just written and pages of history, which the driver folds into its state
before the next frame, and it is what the cache stores.

What makes it correct:

* a session's jobs run one at a time, whoever claims them, and a job is
  settled once, by an execution that still owned it;
* the aggregate has one open turn, and a message is either queued, on its way
  or a turn: never lost and never twice;
* an input that may have reached the provider is not sent again;
* a committed turn always has somebody that will move it, until it is settled;
* what was promised to happen (an interrupt, a capture) happens;
* a cloud command is applied at most once, on one storage, in the order of its
  lane, and its author reads one verdict that the storage does not contradict;
* a workspace does not go to sleep on an accepted command, and an archived one
  is not handed what was written before;
* no provider process is without an owner, a residency that was stopped does not
  come back, and in the end only the provider a session has reserved runs;
* a stream skips no event; what a client shows under a cursor is what was
  committed up to it; and a client does come to show the whole log.

## Modules

`JobLedger` - the jobs table. One action per SQL statement: `Enqueue`,
`ClaimNext`, `Renew`, `ReclaimExpired`, `Release` (succeed, retry, hold and
fail, which differ in the resulting status), `CancelUnsettled`,
`ReconcileAfterProcessLoss`. Jobs are their sequence numbers. Times are
relative to now, so that `Elapse` (one tick) is the only clock.

`JobWorker` EXTENDS `JobLedger` - the fibers. `pc` is a fiber's place in
`runOnce`: `idle` -> `Reclaim` -> `Claim` or `ClaimNothing` -> `Register`
(cancellation Deferred) -> `FirstRenew` -> `ExecuteEnds` or `ObserveCancel` or
`Heartbeat` (claim lost) -> `SettleJob` -> `Cleanup` (the finalizers). A drain
adds `DrainStart` and `DrainCheck`. `LedgerError`, `RenewError`,
`DrainInterrupted`, `Crash`, `Restart` and a `Tick` past the lease are the
faults. A fiber holds one acquisition at a time, so a fiber stands for the
fresh owner id of its acquisition. `ran` and `earned` are history variables:
the jobs some execution of which succeeded, and the fibers whose execution
succeeded under their present acquisition.

`JobLane` - what the worker over the ledger promises to whoever enqueues a job,
with leases, fibers, signals and processes left out: a job waits in the lane of
its session, is taken while no job of the lane runs, may be given back any number
of times, is finished only while somebody holds it and as succeeded only if it
ran, and once finished or cancelled keeps its state. `KeepsLane` is `JobWorker`'s
refinement mapping into it (`LaneJob`): pending and parked rows wait, only an
unexpired claim holds, a job was taken if it has an attempt. An execution that
lost its claim may still end, after the job was finished by another or
cancelled; the promise allows that and says that it changes nothing else.

`SessionTurns` - the aggregate and the transaction. Each command of the
decider is an action schema: its guard is the decider's success condition, its
primed variables what replaying the decided events changes, and its parameter
`js` the job rows the transaction starts from. A refused command is no step.

`SessionRuntime` EXTENDS `SessionTurns` - everything that issues commands:
clients (`SendMessage`, `InterruptSession`, `RunQueuedMessageNext`,
`ResumeSession`, `ReleaseFirstTurn`, `Archive`, `Unarchive`, and
`DispatchAgain`, which sends a command id a second time), the queue service
(`EnqueueMessage`, `RemoveQueuedMessage`, `FlushHead`,
`RunQueuedMessageWhileIdle`, `SendClaimed`, `ResumeQueue`), the executor
(`Check`, `SendBegin`, `SendStatus`, `SendDeliver`, `SendComplete`,
`RecoverUnknownDelivery`, `InterruptAnswer`, `InterruptSettle`, `CaptureDone`,
`JobParks`, `RecoverSettle`, `SuccessorStart`, `Finish`), the provider
(`ProviderBinds`, `ProviderEnds`), the sweeper (`Sweep`) and the loss of the
process with the reconciliation of the next one (`ProcessLoss`). An executor
is cut where the code dispatches a command or calls the provider, because
between two such points other actors may step. `journal` in a job row is its
durable mark (the delivery journal of a send, the receipt of a successor
start); `step` is where its fiber is and is lost with the process.

From `JobWorker` the session model takes three facts: one running job per
session (the guard of `Claim`), cancelled jobs are stopped (a cancelled send
unwinds, `Unwinding`), unfinished jobs are claimed again after a restart
(`Requeued`).

`CommandFate` - what the author of a cloud command is promised, with everything
else left out: per command the storages it was offered to (at most one), the
storages it changed (at most one, once), and its verdict (at most one).
`applied` needs the effect, `rejected` excludes it for ever, `cancelled` means
it was never offered; only `outcome-unknown` leaves the effect open.

`WorkspaceMailbox` - the durable object. Each handler is one synchronous storage
transaction and so one action: `Reserve`, `Commit`, `Block`, `Unblock`,
`Cancel`, `Lease`, `Acknowledge`, `Lifecycle`, `Alarm` with `DispatchDelivered`
and `DispatchFailed` around the one outside call it awaits. What a handler does
to one row is an operator on rows (`Expire`, `Observe`, `Orphaned`, `Requeued`,
`Offer`, `Answered`, `GiveUp`, `Terminalize`), and a lease composes them in the
order of `leaseUnsafe`.

`CloudCommands` EXTENDS `WorkspaceMailbox` - everybody who calls it. An enqueue
is `EnqueueRoute`, `EnqueueReserve`, `EnqueueWake` and `EnqueueCommit` or
`EnqueueDestroyed`, each behind an await, and may be repeated with the same
envelope. A status or watch request applies the billing policy (`PolicyRoute`,
`PolicyApply`, `PolicyWake`). A runtime's poll is `LeaseRoute`, `LeasePolicy`,
`LeaseGrant` and then `CompleteDrain` or `RecordFence` in the control plane.
The runtime's consumer is `BeginSend`, `SendCommits`, `Conclude`, `Refuse`,
`TryAgain`, `Abandon`, `SendAck`. The control plane has `Restart` (same machine
or new storage), `Boot`, `Pause`, `Reassert`, `BillingChanges`, `Archive`,
`Unarchive` and the outbox (`OutboxList`, `OutboxDeliver`,
`OutboxAcknowledge`). Faults: a request or its bookkeeping fails
(`RequestLost`, `LeaseLost`), a page is lost (`LeaseGrant`), acknowledgments
arrive late, again and in any order (`DeliverAck` from the set `net`) or are
refused for good and dropped (the second half of `SendAck`), a
deadline passes (`LeaseRunsOut`), a process dies (`Crash`), an outbox delivery
is lost at any point (`OutboxLost`), and the process of a replaced machine
goes on. `KeepsFate` is the refinement mapping into `CommandFate`: `granted`
is read off the row, `executed` off the receipts, `verdict` off a final state.

`SessionStream` - the engine's side of a timeline. `log` is the session's
transactions: an event, and the message rows that its transaction left
(`Project`). Only the last table is stored, the earlier ones are history; what
the client may have been told of version n is `RowsAt(n)`. `PersistMessage`, `RollBack` and
`SettleTurn` commit, `Publish` and `PublishInterrupted` are the publisher, and
the phases of `stream` are those of `synchronizedEvents`: `opened`,
`Subscribe`, `Capture` (the transaction that chooses delta, snapshot or reset),
`NextFrame` with `Pulled` (captured frames, history pages, barrier), and
`Followed` (the tail, which drops repeated versions and fails on a jump).

`TimelineSync` EXTENDS `SessionStream` - the client, as action schemas around
it. `driver` is the reducer's state with the driver's fate, `view` the cell,
`cache` what is stored of it. `Reduce` is `reduceSessionTimelineFrame` (one
operator per frame kind), `Observe` folds the cell's changes into the driver's
state, `Receive` is one frame through both and the cell's fence. Lists are
picked and merged by recursive functions (`Selected`, `UpsertAll`), which can be
reasoned about. `Pull` and
`Follow` join the stream to it; `ReceiveRuntime`, `Checkpoint`, `MissedEvent`
and `ReportFailure` are the driver's other callbacks; `Connect`, `Hydrate`,
`LoseLink` (which may come with a restart of the engine or with another
database) and `Relaunch` are the environment; `Stage`, `CommitSent`,
`Acknowledge`, `Refuse` and `RestoreOptimistic` the composer and its outbox;
`AskPage`, `ReadPage` and `ApplyPage` the pager. `misplaced` is a history
variable, see the disagreements.

`ProviderResidency` - which process serves a session. An opening, its residency
id, its registry generation and its handle are one element of `Opens`, because
every opening draws a fresh id; the registry's generation is current exactly
while `resid` names the opening that began it. `ReserveProviderSession`,
`ConfigureProvider`, `DropReservation` and `CloseProvider` are the commands;
`Admit`, `Begin`, `Acquire`, `PublishAdmit`, `Publish`, `GuardCurrent`,
`AttachProvider`, `Readmit`, `Accept` and `Sent` an opening, cut at its awaits
(status, subscription and first message each repeat `Readmit`, which looks at
the reservation without the lock; the last of them decides in `Accept`, under
the lock, which a first message keeps until it is `Sent`, whatever becomes of
the reservation meanwhile). `OpenFails` lets it fail or be interrupted at any of
them, and `Unwind`, `Unwound`, `Release`, `Abandon`, `AbandonClose` and
`AbandonClosed` are its finalizers. The
`provider.stop` job is `StopClose`, `StopClosed`, `StopDetach`; an unscoped
close `CloseAny`; the strict barrier of a final capture the `Quiesce` actions.
`SendRetires` and `Terminates` take a handle out of the registry without the
lock, `GitKeyChanges` under it; if the send that finds the change is the first
one of an opening, it holds the lock already and waits for itself (`stuck`)
until its fiber is `Interrupted`, which nothing promises. A handle that is being closed is in `closing` until `CloseHandle`; the lock
is held by its fiber meanwhile where the code does so.

`JobWorkerProofs` (the ledger's lemmas included), `SessionRuntimeProofs`,
`SessionDrivenProofs`, `SessionMessagesProofs`, `ProviderResidencyProofs`,
`CloudCommandsProofs`, `TimelineSyncProofs` - theorems and proofs.
`TimelineLemmas` - what the operators of the timeline compute, on which the last
one rests.
`MCJobWorker`, `MCSessionRuntime`, `MCCloudCommands`, `MCTimelineSync`,
`MCProviderResidency` -
symmetry sets and the values of set-valued constants, for TLC.

Abstractions of data. A message is a model value and names the one turn it can
become. An attempt is its ordinal. `starting` and `running` turns are both
`active`, the three terminal statuses are `settled`, session statuses
`booting` and `running` are `busy`. The queue is a set: which message is at
its head is left open. Transcripts, names, settings and permissions are left
out. Of a cloud command its lane is kept; a lease token is the ordinal of the
lease (the code draws a fresh UUID), a deadline the bit whether it has passed,
a wake revision whether what a request read is still current. The reads that
one request makes of the workspace record are one step; a runtime that asks for
its own end ends at once (what it might still do before, it may do before the
step). Deletion moves the fence as archiving does and is not a separate action.
Sealing a result does not fail. Of a timeline, the content of a message is the
version that wrote it, and every event that touches no message is `settled`;
the driver of a replaced connection is gone with it, so generations of
connections need no number. Mutations named `Definition_Change` stand before the definition they
change; they are not used by the specifications and serve to show that each
property can fail.

## Runs

Job worker (`MCJobWorker`):

* `job_worker` - one loop and one drain on one session, two jobs of two kinds
  (one of them blocked during bootstrap), leases of one tick, no background
  grace (so that the loop competes with the drain for every job), one fault. Two
  fibers and two jobs are the least with which a claim can be lost to another
  fiber, a lane can be contended and a late settlement can meet a new owner;
  `MaxAttempts = 2` reaches both a retry and an exhausted one: the ledger's and
  the worker's invariants, `SettledStays`, `RecordedByItsRunner` (a late success
  meets a job that was claimed again), and the refinement of `JobLane`. More of
  everything is covered by the proofs.
* `job_progress` - liveness with one loop, two jobs, a background grace of one
  tick and two faults. There is no drain: users who revive a parked job by drains
  for ever keep the next job of the lane waiting, because the older one is claimed
  first.

Session (`MCSessionRuntime`). Two messages are needed for a queue, a steered
successor and a next turn; two attempts for a retry or a recovery; four jobs
for send, interrupt, successor and the next send, or send, retry, interrupt
and capture. `Faults` names the disturbances an instance admits, and one of
them may happen, at any moment; in `session_driven` and `session_interrupts` two
may, because a recovery that fails was itself asked for by a disturbance. Every run allows the session to stop
(`CHECK_DEADLOCK FALSE`): users need not write, the bounds on jobs and
attempts end behaviours, and an archived session rests.

* `session_messages` - one client command (which may be an interrupt or a
  steering), and an archive, a repeated command, an expired lease or a failed
  capture: the aggregate's invariants and the conservation of messages.
* `session_driven` - crashes, expired leases, failed captures and failed
  recoveries: inputs are not delivered twice,
  an active turn always has somebody that moves it, a finalizing turn keeps
  its capture.
* `session_interrupts` - liveness: an interrupt is answered, across crashes, a
  failed capture or a failed recovery. One message and up to six jobs.
* `session_sweep_finalizing` - an expected violation, see the findings.

Which faults a run leaves out matters and is deliberate: each omitted
combination is one of the disagreements below, or a hazard noted in
PROJECT.json. `NoMessageLost` is checked with no crash and with one steering
command, `ActiveTurnIsDriven` without repeated commands, `FinalizingIsCaptured`
without archiving. `NoMessageTwice` too is checked without a
crash: a successor that is put back into the queue, lost with the process
before its job is settled and executed again can become a turn while it is
queued.

Cloud commands (`MCCloudCommands`; the commands share one lane, and one client
request is in flight at a time, which the code allows to stop after any step).
Users may stop and the bounds on generations, fences and billing holds end
behaviours, so none of these runs checks for deadlock. Faults stop with the
last generation, because the bound would otherwise leave them without the
restart that answers them.

* `cloud_fate` - one command, two generations, two machines, one archive. Two
  generations are the least with which a lease is granted again while the first
  holder's acknowledgment is under way, two machines the least with which a
  replaced process goes on: the refinement of `CommandFate`, and
  `ArchiveReachesMailbox`, where the four steps of an enqueue, the outbox and
  the archive interleave.
* `cloud_lane` - two commands of one lane, two generations, one machine, and the
  alarm's dispatch of the wake marker: `LaneOrder`, and `WakeNotLost` where the
  second enqueue races the drain of the first.
* `cloud_progress` - liveness with one command, a generation that may fail in
  every way and one that does not, and one billing hold.

Provider residency (`MCProviderResidency`):

* `provider_residency` - two openings, of which one may displace the other at
  any of its steps (a third one meets nothing that these two do not meet), any
  number of commands, closes and quiescences, one disturbance. Sessions may
  rest, so the run does not check for deadlock. The safety proofs below need no
  bound. The liveness property `OnlyTheReservedRuns` has two hypotheses that the
  code does not guarantee: that no request stops for ever between dropping the
  reservation and closing the provider, and that no first send hangs. Both are
  needed: without either of them TLC finds a process that is never stopped.

The limit of undecided commands is not reached at these bounds; the theorems
do not depend on it.

Timelines (`MCTimelineSync`; a desktop on its local engine, which loads the
whole history and reports only transport errors, and a phone, which leaves
history to the pager and reports every failure). One message of the agent and
one of the user, pages of one message and deltas of one event, so that a
second message means a second page and a second missed event a snapshot; one
fault. Users may stop and the log is bounded, so these runs do not check for
deadlock.

* `timeline_sync` - two events, the least with which a message is rewritten or
  rolled back, or history has two pages: `NoGap` and `ShownFaithfully`.
* `timeline_progress` - one event, and another database may take the place of
  the first: `ShownFaithfully`, and the liveness property `CatchesUp`. Here a
  rollback does not happen; the interesting part is what a client with an old
  cursor, cache or optimistic message makes of the database it meets.

## Fairness

`JobWorker!FairSpec` assumes weak fairness of each fiber's own steps, of
delivering a published cancellation, of a heartbeat that finds its claim gone,
of a drain's check, of the clock, of the restart and of the end of bootstrap.
The first four are what the Effect runtime gives runnable fibers, the loops
are `forever`, and the desktop shell or the host restarts a dead server. It
does not assume that `execute` returns: `LostClaimsStop` holds even if it
hangs. `JobsComeToRest` has `ExecutionsEnd` as a hypothesis: interrupts,
quiescence and closing have timeouts, while a send ends when its provider
answers or its fiber is stopped; one that waits for its own lock (see the
findings) does not end by itself.

`SessionRuntime!FairSpec` assumes that a pending job of an empty lane is
claimed and that some claimed job takes its next step. That is what
`job_progress` shows of the worker. Parked jobs wait for a drain, and nobody
promises one, so no fairness is assumed of claiming them. Nothing is assumed of
clients, the provider or the sweeper.

`CloudCommands!FairSpec` assumes that a runtime that may lease polls
(`runCloudMailboxPolling` is `forever`, and its sleeps are bounded), that a
routed lease request runs through, that the consumer applies what it holds and
ends a send, that a pending acknowledgment is sent and arrives once (it is
retried every cycle until it is answered), that lease deadlines pass, that the
reconciler restarts a workspace whose pending wake makes no progress
(`reconcileWorkspaceRecord` after the stall timeout; not after the terminal
failures listed under Not modelled), that a started process
enrolls and a resumed one reasserts itself, that the outbox is retried (its
delivery is strongly fair: each try may fail, not all of them), and that the
alarm fires where it changes a row (it is scheduled at lease deadlines,
`workspace-mailbox.ts:1043`). It assumes nothing of clients, billing, requests or bookkeeping. `EventuallyDecided`
has as its hypothesis that billing and the workspace are available from some
time on.

`ProviderResidency!FairSpec` assumes that an opening takes its next step and a
pending stop job the next one of its own, both strongly, because the lifecycle
lock is a FIFO semaphore and whoever waits for it gets it; that a handle being
closed is closed or given up (5 seconds, `closeProviderHandle`); and that a close
or a quiescence under the lock ends. A first send that is not stuck is a step of
its opening and so returns. It assumes nothing of clients: the request that
dropped a reservation may be interrupted before its second command, and then
`owed` stays true; nor of the interruption of a stuck send.

`TimelineSync!FairSpec` assumes that the publisher runs while somebody listens
(it is woken by commits and otherwise polls), that a stream's fiber takes its
next step in whatever phase it is, that the error handler of an ended stream
runs, that a lost link is connected again (the supervisor retries without end
where the environment is local) and that loading the cache settles. It assumes
nothing of commits, users, the outbox, checkpoints, the pager or the continuity
timer.

## Proofs

All theorems of `JobWorkerProofs` hold for every number of jobs, fibers and
sessions, all kinds, lease, grace and retry parameters, and any number of
faults, under `LedgerConstants` and `WorkerConstants`: the sizes are natural
numbers, a lease lasts at least a tick, replayable kinds are kinds, loops and
drains are disjoint.

The properties of the run `job_worker` are not inductive by themselves. `IInv`
adds what ties a fiber to its row:

* `WorkMatchesPc` - a fiber has a job exactly while it is between claim and
  cleanup, so a fiber without a claim cannot address a row;
* `LedgerInv` - a running row has an owner, a settled or pending one none, and
  a session has one running row; `ReclaimExpired` and reconciliation keep
  that;
* `EntriesAreCurrent` - an entry of the cancellations map belongs to the
  execution that registered it, hence a Deferred that is completed belongs to
  the job that was cancelled;
* `SignalsAreCancelled` and `SignalledLost` - only ids of cancelled rows are
  published, and a cancelled row never runs again, so a signal that arrives
  late finds a fiber that has lost its claim in any case;
* `SuccessIsEarned` - a fiber about to record a success has executed its job,
  under the acquisition it still has in hand;
* `DownHasNoFibers` - between crash and restart nobody holds anything.

`InductiveInvariant` proves `Spec => []IInv` action by action. `TypeCorrect`,
`LanesAreExclusive`, `SuccessMeansRun`, `CancellationIsSafe` and
`CancellationsDoNotLeak` follow from it, and two action properties from it and
the guards of each statement: `SettlementIsFinal`, and `SuccessIsItsRunners`.
`SuccessMeansRun` says that some execution of a succeeded job succeeded;
`SuccessIsItsRunners` says whose: the only step that records a success is the
settlement of the fiber that owns the row, and that fiber has earned it since it
acquired the job. What each statement of the ledger preserves is a lemma of its own, at
the head of the module.

`WorkerKeepsLane` (`Spec => KeepsLane`) is the refinement of `JobLane`. It needs
one more invariant, `TakenInv`: a row that has not been inserted is blank, so that
its insertion is that of an absent job, and a fiber between claim and cleanup has
a row with an attempt, so that an execution that ends is one of a job that was
taken. Every statement of the ledger is then an insertion, a taking, or a move of
each job on its own (`LaneMove`); the rest of the worker leaves the lanes alone
(`SameLanes`). `SuccessIsEarned` makes a recorded success one of a job that ran.

`SessionRuntimeProofs` proves the aggregate's invariants and the delivery
guarantee of `SessionRuntime` for every number of messages, attempts, job rows,
command ids and disturbances, under `SessionConstants` and `RuntimeConstants`
(the bounds are natural numbers, a turn may have an attempt). Its `IInv` has
three parts:

* `TurnInv` - `OneOpenTurn` and `SuccessorFollowsCurrent`, with two facts they
  need: a successor has a predecessor (else `SettleTurn` could start nobody),
  and a turn exists exactly when it has an attempt (so that a new turn's first
  attempt is new);
* `DeliveryInv` - why nothing is sent twice. An attempt that was started has at
  most one send row (`OneSendPerAttempt`, `SendsAreStarted`), a recovery attempt
  has none (`RecoveriesAreNotSent`), a delivery has its row (`DeliveredByJob`),
  and the row's journal is honest (`MarksAreHonest`): without an entry, or before
  the provider is called, nothing was delivered, and a fiber past
  `delivery.begin` has left its entry. `EvidenceFollowsSend` is needed by
  `ReleaseInitialTurn` alone, whose send must be the session's first;
* `RestType` - the types of the other variables.

The argument about rows is made once: every transaction and every fiber writes a
`Revision` of the table (the same jobs with honest marks) and appends at most
one job, which is either not a send (`Quiet`) or the send of a new attempt.
`SessionInvariant` proves `Spec => []IInv`; `SessionTypeCorrect`,
`TurnsAreExclusive`, `SuccessorsAreNotStranded` and `InputIsNotResent` follow.

`SessionDrivenProofs` proves that a turn is not forgotten, for the same
constants. `FinalizingTurnsAreCaptured` needs `"archive"` to be none of the
faults, `ActiveTurnsAreDriven` neither `"archive"` nor `"duplicate"`; every other
disturbance, a process loss at any point among them, is admitted. The
restrictions are those of the code (see the findings): a job that starts while
the session is archived finds that its attempt is not active and ends without a
trace, and the tail of a repeated command cancels the deliveries of whichever
attempt is active by then.

* `CaptureInv` says which capture row it is: unsettled, of the active attempt, and
  not past its capture. Nothing a transaction does to the table loses such a row
  (`Carries`), and the fiber that executes it either settles the turn or parks it.
* `DriveInv` says who drives an active turn, told from the rows alone, with the
  ingestion lease in place of the live provider: the lease outlives the process
  (`DeliveredIsLeased`). `NothingSettled` is the part that makes it inductive: no
  row of the active attempt has passed its settlement or carries the mark
  `unknown`, so a fiber that ends finds either another driver or nothing to do.
  `Interrupted` and `Driven` are the two branches of the property.

`SessionMessagesProofs` shows by a small refinement that a message is in one
place. The places are the queue, the claim of the queue service, the scheduled
successor, a `successor.start` that has not been executed, and the turn. Every
step of the runtime is one of nine `Moves` of at most one message between them
(`NextMoves`), which needs of the job table only that a successor start keeps its
claim from its execution to the recorded success (`Sound`). `OnePlace` is then
inductive, and gives `MessagesAreNotDoubled`; `SomePlace` as well, if the
successor a steering replaces is none, which holds when at most one command
steers (`SteeredByCommand`), and gives `MessagesAreNotLost`. A process loss is
excluded from both: it empties the claim, and repeats a successor start whose
first execution had put its message back.

`ProviderResidencyProofs` proves the four safety results of `ProviderResidency`
for every set of openings and number of disturbances. Its `IInv` says what a
fiber's position entails: between the two halves of a locked section it holds the
lifecycle lock (`LockIsHeld`); the resident entry is of the current generation
(`EntryIsCurrent`); an id is fresh when reserved, and whoever asks for a stop ends
the reservation (`FreshIsUnknown`, `ReservedIsWanted`, `StopsAreAsked`); a live
process has an owner from its acquisition on (`HandlesAreOwned`); a residency
stopped in the registry has no generation and no admitted opening (`StoppedIsGone`,
from which `StopsAreFinal`); a final capture is alone (`QuiesceIsAlone`); and an
opening that still has its reservation after attaching is the attached one
(`AcceptedIsAttached`, which is what lets `GivenUpIsStopped` survive the last step
of an opening).

`CloudCommandsProofs` proves the five safety results of `CloudCommands` for
every number of commands, lanes, requests, machines, generations, fences and
billing holds, any limit of undecided commands, with and without the alarm's
dispatch, under `MailboxConstants` and `CloudConstants` (finite sets of
commands, natural bounds, at least one generation, markers outside the sets they
mark).

* `TypeCorrect` from `Base`: types, what a row's state says of its other
  columns (`RowOK`: a token exactly while leased or awaiting a fence, and it is
  the last one issued; a storage and a generation once it was offered; ...), one
  storage per command (`OnePlace`), the mailbox's fence never ahead of the
  record's (`Fences`), and what a request in flight knows (`RequestsOK`).
* `ImplementsFate` (`Spec => KeepsFate`) from `Base` and `FateInv`. The
  difficulty is that an effect and its answer are far apart: `HeldOK` says that
  what a process holds was offered to its storage, and that a token other than
  the row's is out of use; `AckOK` that an acknowledgment `applied` under the
  row's token has its receipt and that one of `rejected` excludes any future
  one; `ReceiptsOK` and `AppliedOK` tie receipts to the storage and the verdict
  to the receipts. A late answer under an old token then changes nothing, and a
  requeued command finds its receipt. Every step is shown to be a `Grant`, an
  `Execute`, a `Decide` or a stutter of each command.
* `ArchiveIsKnown` from `ArchiveInv`: every open row below the mailbox's fence
  is a lease already marked as fenced, a record that owes nothing has the
  mailbox's fence, and a delivery marked done has reached the mailbox.
* `WakeIsKept` from `WakeInv`: whoever can still make a command undecided (an
  accepted row, or a request between its wake and its commit) is a demand, a
  demand keeps the record's wake, and no lease request that saw an empty mailbox
  still has the current revision while there is a demand.
* `LanesInOrder` (`Spec => LaneOrder`) from `LaneOrderInv`. The mailbox offers
  only the head of a lane (`OrderInv`: what is before an offered command has
  ended), but a command can end while a process still holds its lease, and its
  successor be offered to the next process on the same storage. `LaneInv` says
  that such a holder is harmless: it has a receipt, or its deadline has passed,
  so that it does not start to send (`Over`); or its machine was given up, and
  the mailbox will never again offer anything to that storage (`Gone`). That a
  lease ends otherwise than by its deadline in two ways only is `LeaseEnds`: by a
  lease call from other storage, or by an answer under the newest token, which
  nobody still holds (`Newer`). That a machine given up stays so is `PlaceInv`:
  the generations served by one machine are consecutive (`Contiguous`), and the
  mailbox's storage is not left and taken up again (`NoReturn`), over whatever
  processes and lease requests of earlier generations are still about. The run
  `cloud_lane` has one machine; the theorem has any number.

The effect of each mailbox operation on one row is a lemma of its own; actions
that leave the rows alone are treated together (`QuietActions`).

`TimelineSyncProofs` proves `StreamHasNoGap` (`Spec => []NoGap`) for every log,
set of messages, page and delta size, kind of client and number of faults,
under `StreamConstants` and `TimelineConstants`. `NoGap` speaks of the tail
alone; it holds because of what was true when the stream attached. `IInv`
therefore says of every listening stream that no version in its hub queue is
more than one above the version before it, and that a queue that is not empty
reaches the publisher's cursor (`HubInOrder`); and of one that has captured its
head that the queue starts at most one version above what has been delivered,
or, when it is empty, that the publisher's cursor is not ahead of that
(`HubJoinsHead`). Attaching before reading the head is what
establishes the second.

`TimelineTypeCorrect` (`Spec => []TypeOK`) needs `Shape`, which types whatever is
under way and relates it to the log: every transaction's table is the projection
of its event (`LogOK`); the frames still to be sent are those of a log that has
grown since they were captured, and history goes on from a page that was one
(`StreamOK`); what is stored, shown or in flight has a cursor of a database that
was, and of the present one not ahead of the log (`StoredOK`, `CacheOK`,
`FlightOK`); the driver reduces only what belongs together, a snapshot under
assembly among it (`DriverOK`). With `Shape` alone the fold over a list is known to
have a value at every step.

`WhatIsShownWasCommitted` (`Spec => []ShownFaithfully`): under a cursor of the
present database every message stands as it did at the cursor or later, unless
its user has just written it, or it is missing and older than what is loaded. The
property is about the cell; `Faith` adds what feeds it:

* the stored copy is faithful too, because a launch shows it;
* what the driver keeps as optimistic is the user's and has no version yet
  (`Drafts`), because a snapshot puts it back;
* what is in the cell and was not put there by the driver is the user's; on a
  phone only from the driver's first message on, because the pager's pages stand
  before it (`KnownOK`): that is what the driver will take for optimistic;
* while history is being streamed, whatever is not older than where it continues
  is there (`HistoryOK`), so that the next page fits in front of it.

`FaithInv` asserts `Faith` while `misplaced` is false, and so does the property;
what `misplaced` excludes are the three situations below, in which the code does
show something else. The proof has three layers. `TimelineLemmas` says what each
operator computes, for lists of every length: what selecting, upserting, removing
and prepending messages do to how each message is seen, and what an event, a
rollback, a page or a snapshot makes of a list that was faithful
(`SnapshotIsFaithful`, `PrependIsFaithful`, `EventIsFaithful`). Then each kind of
frame, and each action of the client, keeps `Faith`. `FaithfulForLonger` covers
the engine: what was true of a cursor stays true as the log grows. The theorems
hold for every set of messages, page and delta size, log bound, platform and
number of faults, and need `NoneIsNothing` besides the bounds: that the mark for
"no cursor" and "nothing shown" is neither a cursor nor a projection.

The provers cannot instantiate the library's induction theorems, whose hypothesis
is a predicate. The lemmas about lists use induction all the same, with a set of
numbers in the place of the predicate: every such set has a least member
(`LeastNumber`, from the well-foundedness of the natural numbers), so one that
contains zero and each successor contains them all (`CountUp`), and so a function
defined by recursion over the naturals exists (`RecursionExists`).

Only model-checked: the liveness properties (`LostClaimsStop`,
`JobsComeToRest`, `InterruptsAreAnswered`, `OnlyTheReservedRuns`,
`EventuallyDecided`, `CatchesUp`), which rest on fairness and ENABLED and are out
of the prover's reach. Every invariant and every action property that a passing
run checks is a theorem.

## Findings

One run ends with a counterexample; the quoted sentence and its place are in
PROJECT.json.

* `session_sweep_finalizing`: a finalizing turn cannot renew its ingestion
  lease, so the sweeper settles it without waiting for its capture.

More disagreements were met while modelling. They have no run of their own; the
first group can be seen in the models with other constants, and is the reason
for the restrictions named under Runs.

* Sending a command id again re-runs the cancellation tail of its transaction.
  If a new attempt was started after an interrupt, the repeated interrupt
  cancels that attempt's send, and nothing moves the turn (`ActiveTurnIsDriven`
  with `Faults = {"duplicate"}`; `dispatch.ts`).
* A queued message is taken from the queue and submitted in two commands; a
  crash between them loses it (`NoMessageLost` with `Faults = {"crash"}`;
  `queue-service-runtime.ts`).
* A second steered message replaces the scheduled successor, and the first is in
  no place any more (`NoMessageLost` with three messages and two commands;
  `decider.ts:991`).
* A capture job that runs while the session is archived succeeds without
  capturing, and after unarchiving the turn is finalizing for ever
  (`FinalizingIsCaptured` with `Faults = {"archive"}`;
  `conversation-services.ts:388`).
* Resuming or emptying the queue unpauses a session whose first turn waits for
  its workspace, and the release is then refused (`ResumeQueue` before
  `ReleaseFirstTurn`; `queue-service-runtime.ts:664`, `provider/handlers.ts:1056`).
* A drain asks for work and then, in another statement, whether the lane is
  busy; if the lane is freed in between it returns with claimable jobs left
  (`DrainCheck` after `ClaimNothing`; `job-worker.ts:266`). The background loops
  run those jobs.

In provider residency:

* `quiesceProviderSession` calls itself a strict barrier (`provider-stop.ts:73`)
  and `quiesceAndDetachProvider` says that a closed process and its residency
  must agree before the final capture (`provider-quiescence.ts:6`). Both look at
  the registry only: a handle that a send retired (`provider-send.ts:40`) or an
  unwinding startup has taken out is not resident, and quiescence succeeds while
  that process is still being closed.
* A send inside `guardCurrent` holds the lifecycle lock, and a changed Git key
  makes it ask for the same lock again (`provider-service.ts:1402`); the lock is
  not reentrant. The opening hangs, and with it every stop job of the session,
  until its fiber is interrupted (`OnlyTheReservedRuns` without its second
  hypothesis).
* Archiving, and changing the worktree, drop the reservation in one command and
  ask for the stop in another; a client's request that is interrupted in between
  leaves the provider attached and running (`OnlyTheReservedRuns` without its
  first hypothesis; `session-operations.ts:962`, `1094`).

In the timelines:

* `ClientBus.update` says that a reconnect or a live advance fences an update
  (`client-bus.ts:546`), and `realtime-and-storage.md` that an equal or older
  source cannot regress state. The pager hands in the newer cursor
  (`session-message-pager.ts:98`), so a page read before a rollback is applied
  after it and the rolled back message comes back. The driver also takes a page
  for messages the user wrote when the first message it knows is not in the
  cell (`session-timeline.ts:71`), or is in a page.
* "A same-cursor head refresh must not discard pages already read locally"
  (`session-timeline.ts:156`): the reducer keeps what stands before the first
  message of the snapshot. An optimistic message stands where it was staged. If
  another message is committed after that, and the optimistic one only then, the
  client's order is not that of the rows; a refresh whose page begins with the
  optimistic one then drops the other, which is older and no longer in the page,
  and nothing brings it back until the history is read again (a phone with pages
  of one message: a and b are committed, u is staged, then c and u are committed,
  the link is lost and comes back). The proof of `ShownFaithfully` failed on this
  step; the exploration had not reached it within its bounds.
* `misplaced` records these three situations (`InPlace`, `Displaces`), and
  `ShownFaithfully` excludes them. Without the exclusion TLC finds the first two.
* The desktop's `reportFailure` does nothing unless the error is one of the
  transport (`session-timeline-client-bus.ts:1389`), while the driver announces
  "Session stream missed a committed event; reconnecting to repair its cursor"
  (`session-timeline-driver.ts`). Such a timeline stands still until the link is
  lost for another reason: without its second disjunct `CatchesUp` fails for
  the desktop. An optimistic message in the cell while a snapshot is assembled,
  or a rollback between two of its history pages, makes the count of messages
  wrong (`session-timeline.ts:320`) and leads there too.
* A refused message is taken out of the cell but stays in the driver's state,
  and the next snapshot shows it again, whereas `session-message-intent.ts` says
  that terminal failures must not come back as optimistic prompts.
* The epoch of the streams is a row of the database (migration 0046), so a
  database restored from a copy keeps it; a client ahead of the copy notices
  only until the log has grown past its cursor. `Restored` assumes another
  epoch, as for another database.
* `startSynchronization` sets a view it built before an await
  (`client-bus.ts:1431`), over a connection that came up meanwhile; and a
  message row that does not decode is counted but not sent
  (`session-timeline-snapshot.ts:216`), so that a foreground client never
  completes a snapshot of its session. Neither is in the model.

## Not modelled

The optimistic retries of the dispatch engine (the commands of one session are
serialised by it), projector cursors, order and capacity of the queue, the clock arithmetic of the
ingestion lease, deletion and rollback, questions, permissions and plans.
Turns that a provider starts by itself (`StartTurn`, `decider.ts:691`, with
`conversation-event-runtime.ts:328`): every turn of the model begins with a
message. A submission from the queue that fails after its `SubmitTurn` was
committed: the queue service then restores the message although it became a
turn (`queue-service-runtime.ts:577`), which `NoMessageTwice` would not catch.
Repeated loss of one command's answer beyond the disturbances of a run is
outside the bounds. SQLite is trusted to be atomic and durable.

Of the cloud: the mailbox's change feed and the long poll on it. That includes
the polls that only wait (`waitOnly`, `cloud-workspace-routes.ts:3222`), which a
runtime in credit makes while no wake is pending; they change nothing. The
bookkeeping of a poll, which the code runs beside the response
(`cloud-mailbox-coordinator.ts:383`), ends or is lost here before the same
generation polls again: what it may write depends on the wake revision and the
generation, which no poll changes. A receipt that fails its verification
(`cloud-workspace-runtime.ts:1796`): the receipts of the model are the
consumer's own, and one of another origin would make the command rejected. The
failures that end the reconciler's restarts (`cloud-workspace-reconciler.ts:3623`,
`3681`: the provider rejects, or storage with sessions is lost); after them
nothing is decided until a user acts. Not modelled either are byte and page
limits, retention of results, identity collisions, enrollment and credentials,
activation and roll-back of runtime releases, provisioning of machines and
images, and the deletion of a workspace beyond its fence. `replaceProcess` is
trusted to have ended the machine's old process when the new one runs, and the
durable object's storage and Postgres to be atomic and durable.

Of provider residency: the identity of a handle beyond its residency (Git key,
MCP lease, model), the permits that limit concurrent startups, permission
authority, history checkpoints, and the restore of a checkpoint, which detaches
whatever is attached.

Of the timelines: access denial, several retainers of one cell, R2 checkpoints,
optimistic queue items, the other resource kinds (chats, lists, terminals),
messages that do not decode, the runtime frames' own contents (streamed text
before it is persisted), more than one subscriber of a hub, activation levels
and back-off of connections. A cloud environment gives up reconnecting after a
bounded number of tries; `Connect` is fair only for the others.

## Plan

1. `IngestionLease` - acquisition, renewal and sweep with the clock, composed
   with the consumer's cursor.
2. `SharedResourcePool` (`packages/agents/src/kernel/shared-resource-pool.ts`)
   and `Admission` (`engine/admission.ts`) - reference counting with failing
   acquisitions, and a gate that closes only when nothing is active.
3. `ReactorRunner` and `ProjectorRunner` - cursor commits against replay.
4. `CommandWatch` - the mailbox's change feed: trimming, resets and waiters
   against a client that follows it; no status missed.
5. `SessionRuntime` over `JobLane` in place of its own claim, now that the worker
   is shown to implement the lane.
6. Order and capacity of the queue, questions and plans, the chat aggregate,
   the client supervisor's activation and back-off, the outbox's lanes.
7. Theorems: the safety of the modules above as they are written.
