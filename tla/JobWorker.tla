------------------------------ MODULE JobWorker ------------------------------
(***************************************************************************)
(* The worker fibers of packages/domain/src/agent-engine/job-worker.ts on  *)
(* top of the job ledger: background loops, explicit drains, heartbeats,   *)
(* in-process cancellation, process loss and restart.                      *)
(*                                                                         *)
(* Each acquisition uses a fresh owner `${workerId}:${uuid}`.  A fiber     *)
(* holds one acquisition at a time and never addresses a row under an      *)
(* earlier one, so a fiber stands for its current acquisition's owner.     *)
(* Sleeps between iterations only delay a fiber and are left out.          *)
(***************************************************************************)
EXTENDS JobLedger

CONSTANTS
    Loops,          \* fibers forked by start
    Drains,         \* fibers that run drain or drainSession
    BlockedKinds,   \* excludedKinds() while the execution policy is not ready
    CancelSets,     \* kind sets that commands pass to cancelUnsettled
    MaxFaults       \* bound: stalls, ledger errors and crashes in a behaviour

ASSUME WorkerConstants ==
    /\ Owners = Loops \cup Drains /\ Loops \cap Drains = {}
    /\ BlockedKinds \subseteq Kinds /\ CancelSets \subseteq SUBSET Kinds
    /\ MaxFaults \in Nat

VARIABLES
    pc,             \* where a fiber is in makeDrain / loop / runOnce
    work,           \* job held by a fiber's runOnce, 0 when none
    exit,           \* Exit of the execution that the fiber is settling
    signalled,      \* fibers whose cancellation Deferred is completed
    cancellations,  \* the cancellations map: job -> fiber owning the Deferred
    signals,        \* ids published on jobCancellations and not yet taken
    scope,          \* sessionId of a drain, AnySession for a whole drain
    parked,         \* waiting jobs a drain may claim (parked before it began)
    process,        \* "down", "bootstrap" (execution policy not ready) or "ready"
    faults,         \* faults so far
    ran,            \* history: jobs whose execute returned success
    earned          \* history: fibers whose execute did, under this acquisition

workerVars == <<pc, work, exit, signalled, cancellations, signals, scope,
                parked, process, faults, ran, earned>>
vars == <<ledgerVars, workerVars>>

Fibers == Loops \cup Drains
Exits == {"success", "automatic", "on_demand", "never"}
\* A fiber between the claim and the end of its runOnce.
Holding == {"claimed", "registered", "executing", "settling", "settled"}
PCs == {"off", "idle", "reclaimed", "check"} \cup Holding

WorkerTypeOK ==
    /\ pc \in [Fibers -> PCs]
    /\ work \in [Fibers -> Jobs \cup {0}]
    /\ exit \in [Fibers -> Exits]
    /\ signalled \subseteq Fibers
    /\ cancellations \in [Jobs -> Fibers \cup {NoOwner}]
    /\ signals \subseteq Jobs
    /\ scope \in [Drains -> Sessions \cup {AnySession}]
    /\ parked \in [Drains -> SUBSET Jobs]
    /\ process \in {"down", "bootstrap", "ready"}
    /\ faults \in Nat
    /\ ran \subseteq Jobs
    /\ earned \subseteq Fibers

TypeOK == LedgerTypeOK /\ WorkerTypeOK

Init ==
    /\ LedgerInit
    /\ pc = [f \in Fibers |-> IF f \in Loops THEN "idle" ELSE "off"]
    /\ work = [f \in Fibers |-> 0]
    /\ exit = [f \in Fibers |-> "never"]
    /\ signalled = {}
    /\ cancellations = [j \in Jobs |-> NoOwner]
    /\ signals = {}
    /\ scope = [d \in Drains |-> AnySession]
    /\ parked = [d \in Drains |-> {}]
    /\ process \in {"bootstrap", "ready"}
    /\ faults = 0
    /\ ran = {}
    /\ earned = {}

HoldsLive(f) == pc[f] \in Holding /\ LiveClaim(work[f], f)

MinAge(f) == IF f \in Loops THEN GraceTicks ELSE 0
ScopeOf(f) == IF f \in Loops THEN AnySession ELSE scope[f]
ParkedFor(f) == IF f \in Loops THEN {} ELSE parked[f]
Excluded == IF process = "ready" THEN {} ELSE BlockedKinds

-----------------------------------------------------------------------------
(* Commands of the session domain, as the ledger sees them. *)

CommandEnqueues(s, k) ==
    /\ process # "down"
    /\ Enqueue(s, k)
    /\ UNCHANGED workerVars

\* A command cancels rows in its transaction and publishes their ids after
\* the commit; the publication is one more entry of an unbounded PubSub.
CommandCancels(s, ks) ==
    /\ process # "down"
    /\ UnsettledOf(s, ks) # {}
    /\ CancelUnsettled(s, ks)
    /\ signals' = signals \cup UnsettledOf(s, ks)
    /\ UNCHANGED <<pc, work, exit, signalled, cancellations, scope, parked,
                   process, faults, ran, earned>>

\* JobWorker.cancel, run by the fiber that drains jobCancellations.
Cancel(j) ==
    /\ process # "down"
    /\ j \in signals
    /\ signals' = signals \ {j}
    /\ signalled' = signalled \cup {f \in Fibers : cancellations[j] = f}
    /\ UNCHANGED <<ledgerVars, pc, work, exit, cancellations, scope, parked,
                   process, faults, ran, earned>>

MarkReady ==
    /\ process = "bootstrap"
    /\ process' = "ready"
    /\ UNCHANGED <<ledgerVars, pc, work, exit, signalled, cancellations,
                   signals, scope, parked, faults, ran, earned>>

-----------------------------------------------------------------------------
(* runOnce *)

\* A drain begins: it may claim the jobs parked so far.
DrainStart(d, s) ==
    /\ process # "down"
    /\ pc[d] = "off"
    /\ pc' = [pc EXCEPT ![d] = "idle"]
    /\ scope' = [scope EXCEPT ![d] = s]
    /\ parked' = [parked EXCEPT ![d] = {j \in Jobs : status[j] = "waiting"}]
    /\ UNCHANGED <<ledgerVars, work, exit, signalled, cancellations, signals,
                   process, faults, ran, earned>>

Reclaim(f) ==
    /\ pc[f] = "idle"
    /\ ReclaimExpired
    /\ pc' = [pc EXCEPT ![f] = "reclaimed"]
    /\ UNCHANGED <<work, exit, signalled, cancellations, signals, scope,
                   parked, process, faults, ran, earned>>

Claim(f) ==
    /\ pc[f] = "reclaimed"
    /\ \E j \in Jobs :
         /\ ClaimNext(j, f, MinAge(f), ScopeOf(f), ParkedFor(f), Excluded)
         /\ work' = [work EXCEPT ![f] = j]
    /\ pc' = [pc EXCEPT ![f] = "claimed"]
    /\ UNCHANGED <<exit, signalled, cancellations, signals, scope, parked, process,
                   faults, ran, earned>>

\* claimNext returned null: a loop sleeps and comes back, a drain checks
\* whether anything is still in flight.
ClaimNothing(f) ==
    /\ pc[f] = "reclaimed"
    /\ NothingClaimable(MinAge(f), ScopeOf(f), ParkedFor(f), Excluded)
    /\ pc' = [pc EXCEPT ![f] = IF f \in Loops THEN "idle" ELSE "check"]
    /\ UNCHANGED <<ledgerVars, work, exit, signalled, cancellations, signals,
                   scope, parked, process, faults, ran, earned>>

\* inFlight counts the runOnce calls between reclaimExpired and release.
InFlight == {f \in Fibers : pc[f] \in {"reclaimed"} \cup Holding}

StillPending(d) ==
    IF scope[d] = AnySession THEN InFlight # {} ELSE HasRunning(scope[d])

\* A drain that found nothing to claim waits for a settlement or returns.
DrainCheck(d) ==
    /\ pc[d] = "check"
    /\ pc' = [pc EXCEPT ![d] = IF StillPending(d) THEN "idle" ELSE "off"]
    /\ UNCHANGED <<ledgerVars, work, exit, signalled, cancellations, signals,
                   scope, parked, process, faults, ran, earned>>

Register(f) ==
    /\ pc[f] = "claimed"
    /\ pc' = [pc EXCEPT ![f] = "registered"]
    /\ cancellations' = [cancellations EXCEPT ![work[f]] = f]
    /\ UNCHANGED <<ledgerVars, work, exit, signalled, signals, scope, parked,
                   process, faults, ran, earned>>

\* The renewal in front of execute: with the claim gone the execution returns
\* normally without running the job.
FirstRenew(f) ==
    /\ pc[f] = "registered"
    /\ \/ /\ Renew(work[f], f)
          /\ pc' = [pc EXCEPT ![f] = "executing"]
          /\ UNCHANGED exit
       \/ /\ ~LiveClaim(work[f], f)
          /\ pc' = [pc EXCEPT ![f] = "settling"]
          /\ exit' = [exit EXCEPT ![f] = "success"]
          /\ UNCHANGED ledgerVars
    /\ UNCHANGED <<work, signalled, cancellations, signals, scope, parked,
                   process, faults, ran, earned>>

Heartbeat_IgnoresLoss(f) ==
    /\ pc[f] = "executing" /\ f \notin signalled
    /\ Renew(work[f], f)
    /\ UNCHANGED workerVars

Heartbeat(f) ==
    /\ pc[f] = "executing" /\ f \notin signalled
    /\ \/ Renew(work[f], f) /\ UNCHANGED signalled
       \/ /\ ~LiveClaim(work[f], f)
          /\ signalled' = signalled \cup {f}
          /\ UNCHANGED ledgerVars
    /\ UNCHANGED <<pc, work, exit, cancellations, signals, scope, parked,
                   process, faults, ran, earned>>

\* execute finishes; a defect or an interruption of the fiber counts "never".
ExecuteEnds(f, e) ==
    /\ pc[f] = "executing"
    /\ pc' = [pc EXCEPT ![f] = "settling"]
    /\ exit' = [exit EXCEPT ![f] = e]
    /\ ran' = IF e = "success" THEN ran \cup {work[f]} ELSE ran
    /\ earned' = IF e = "success" THEN earned \cup {f} ELSE earned
    /\ UNCHANGED <<ledgerVars, work, signalled, cancellations, signals, scope,
                   parked, process, faults>>

\* The cancellation Deferred wins the race against execute.
ObserveCancel(f) ==
    /\ pc[f] = "executing" /\ f \in signalled
    /\ pc' = [pc EXCEPT ![f] = "settling"]
    /\ exit' = [exit EXCEPT ![f] = "never"]
    /\ UNCHANGED <<ledgerVars, work, signalled, cancellations, signals, scope,
                   parked, process, faults, ran, earned>>

RetryDelay(n) ==
    LET d == BaseDelay * 2^(IF n > 1 THEN n - 1 ELSE 0) IN
    IF d < MaxDelay THEN d ELSE MaxDelay

\* The status settleJob asks for and the delay before the job is available.
SettledStatus(f) ==
    CASE exit[f] = "success" -> "succeeded"
      [] exit[f] = "on_demand" -> "waiting"
      [] exit[f] = "automatic" /\ attempts[work[f]] < MaxAttempts -> "pending"
      [] OTHER -> "failed"

SettleJob(f) ==
    /\ pc[f] = "settling"
    /\ pc' = [pc EXCEPT ![f] = "settled"]
    /\ \/ Release(work[f], f, SettledStatus(f),
                  IF SettledStatus(f) = "pending"
                  THEN RetryDelay(attempts[work[f]]) ELSE 0)
       \/ ~LiveClaim(work[f], f) /\ UNCHANGED ledgerVars
    /\ parked' = IF HoldsLive(f) /\ SettledStatus(f) = "waiting"
                 THEN [d \in Drains |-> parked[d] \ {work[f]}] ELSE parked
    /\ UNCHANGED <<work, exit, signalled, cancellations, signals, scope,
                   process, faults, ran, earned>>

Finalize_KeepsDeferred(f) ==
    /\ cancellations' = [j \in Jobs |-> IF cancellations[j] = f /\ work[f] = j
                                        THEN NoOwner ELSE cancellations[j]]
    /\ work' = [work EXCEPT ![f] = 0]
    /\ exit' = [exit EXCEPT ![f] = "never"]
    /\ earned' = earned \ {f}
    /\ UNCHANGED signalled

Finalize_KeepsEntry(f) ==
    /\ UNCHANGED cancellations
    /\ work' = [work EXCEPT ![f] = 0]
    /\ exit' = [exit EXCEPT ![f] = "never"]
    /\ signalled' = signalled \ {f}
    /\ earned' = earned \ {f}

\* The finalizers of runOnce; what the fiber knew of the execution is dropped.
Finalize(f) ==
    /\ cancellations' = [j \in Jobs |-> IF cancellations[j] = f /\ work[f] = j
                                        THEN NoOwner ELSE cancellations[j]]
    /\ work' = [work EXCEPT ![f] = 0]
    /\ exit' = [exit EXCEPT ![f] = "never"]
    /\ signalled' = signalled \ {f}
    /\ earned' = earned \ {f}

Cleanup(f) ==
    /\ pc[f] = "settled"
    /\ pc' = [pc EXCEPT ![f] = "idle"]
    /\ Finalize(f)
    /\ UNCHANGED <<ledgerVars, signals, scope, parked, process, faults, ran>>

-----------------------------------------------------------------------------
(* Faults and time *)

\* claimNext or a statement of settleJob fails: runOnce fails after its
\* finalizers, the row stays as it is.  A loop logs the failure and goes on, a
\* drain fails to its caller.
LedgerError(f) ==
    /\ pc[f] \in {"reclaimed", "settling"} /\ faults < MaxFaults
    /\ faults' = faults + 1
    /\ pc' = [pc EXCEPT ![f] = IF f \in Loops THEN "idle" ELSE "off"]
    /\ Finalize(f)
    /\ UNCHANGED <<ledgerVars, signals, scope, parked, process, ran>>

\* The caller of a drain is interrupted between two runOnce calls, which are
\* themselves uninterruptible (an interrupted execute exits "never").
DrainInterrupted(d) ==
    /\ pc[d] = "idle"
    /\ pc' = [pc EXCEPT ![d] = "off"]
    /\ UNCHANGED <<ledgerVars, work, exit, signalled, cancellations, signals,
                   scope, parked, process, faults, ran, earned>>

\* renew fails inside the execution: a defect, settled as "never".
RenewError(f) ==
    /\ pc[f] \in {"registered", "executing"} /\ faults < MaxFaults
    /\ faults' = faults + 1
    /\ pc' = [pc EXCEPT ![f] = "settling"]
    /\ exit' = [exit EXCEPT ![f] = "never"]
    /\ UNCHANGED <<ledgerVars, work, signalled, cancellations, signals, scope,
                   parked, process, ran, earned>>

\* A live claim whose holder is alive lapses only if the process stalls past
\* the heartbeat, which is a fault.
Lapsing == \E f \in Fibers : HoldsLive(f) /\ lease[work[f]] = 1

Tick ==
    /\ Elapse
    /\ \/ ~Lapsing /\ UNCHANGED faults
       \/ Lapsing /\ faults < MaxFaults /\ faults' = faults + 1
    /\ UNCHANGED <<pc, work, exit, signalled, cancellations, signals, scope,
                   parked, process, ran, earned>>

\* The process dies: fibers, the cancellations map and the hubs are gone.
Crash ==
    /\ process # "down" /\ faults < MaxFaults
    /\ process' = "down"
    /\ faults' = faults + 1
    /\ pc' = [f \in Fibers |-> "off"]
    /\ work' = [f \in Fibers |-> 0]
    /\ exit' = [f \in Fibers |-> "never"]
    /\ signalled' = {}
    /\ cancellations' = [j \in Jobs |-> NoOwner]
    /\ signals' = {}
    /\ earned' = {}
    /\ parked' = [d \in Drains |-> {}]
    /\ UNCHANGED <<ledgerVars, scope, ran>>

\* The next process reconciles the ledger before it starts the loops.
Restart ==
    /\ process = "down"
    /\ process' \in {"bootstrap", "ready"}
    /\ ReconcileAfterProcessLoss
    /\ pc' = [f \in Fibers |-> IF f \in Loops THEN "idle" ELSE "off"]
    /\ UNCHANGED <<work, exit, signalled, cancellations, signals, scope,
                   parked, faults, ran, earned>>

-----------------------------------------------------------------------------
Step(f) ==
    \/ Reclaim(f) \/ Claim(f) \/ ClaimNothing(f) \/ Register(f)
    \/ FirstRenew(f) \/ ObserveCancel(f) \/ SettleJob(f) \/ Cleanup(f)

Next ==
    \/ \E s \in Sessions, k \in Kinds : CommandEnqueues(s, k)
    \/ \E s \in Sessions, ks \in CancelSets : CommandCancels(s, ks)
    \/ \E j \in Jobs : Cancel(j)
    \/ MarkReady
    \/ \E d \in Drains, s \in Sessions \cup {AnySession} : DrainStart(d, s)
    \/ \E d \in Drains : DrainCheck(d) \/ DrainInterrupted(d)
    \/ \E f \in Fibers : Step(f)
    \/ \E f \in Fibers : Heartbeat(f)
    \/ \E f \in Fibers, e \in Exits : ExecuteEnds(f, e)
    \/ \E f \in Fibers : LedgerError(f) \/ RenewError(f)
    \/ Tick
    \/ Crash
    \/ Restart

Spec == Init /\ [][Next]_vars

\* Fairness of the process: fibers, heartbeats, the cancellation fiber and the
\* clock go on, a dead process is restarted, cloud bootstrap ends.  Nothing is
\* assumed of execute.
ProcessFairness ==
    /\ \A f \in Fibers : WF_vars(Step(f))
    /\ \A f \in Fibers : WF_vars(Heartbeat(f) /\ ~LiveClaim(work[f], f))
    /\ \A d \in Drains : WF_vars(DrainCheck(d))
    /\ \A j \in Jobs : WF_vars(Cancel(j))
    /\ WF_vars(Tick) /\ WF_vars(Restart) /\ WF_vars(MarkReady)

FairSpec == Spec /\ ProcessFairness

\* Every execute returns or is interrupted: an assumption on the executor, whose
\* first send of an opening, for one, has no timeout.
ExecutionsEnd == \A f \in Fibers : WF_vars(\E e \in Exits : ExecuteEnds(f, e))

-----------------------------------------------------------------------------
(* Properties *)

\* A success is recorded by the fiber that owns the row, under the acquisition
\* in which its own execute of that job succeeded: a late execution never records
\* a job that was claimed again, nor does the heir record what it has not run.
RecordedByItsRunner ==
    [][\A j \in Jobs : status[j] # "succeeded" /\ status'[j] = "succeeded" =>
          owner[j] \in earned /\ work[owner[j]] = j]_vars

\* A job is recorded as succeeded only if some execute of it succeeded; the
\* normal return of an execution that found its claim gone never counts.
SucceededJobsRan == \A j \in Jobs : status[j] = "succeeded" => j \in ran

\* A cancellation, however late it is delivered, never stops an execution
\* that still holds its claim.
CancelledFibersLostTheirClaim ==
    \A f \in Fibers : f \in signalled => ~HoldsLive(f)

\* The cancellations map never keeps an entry for an execution that is over,
\* so a job id can always be registered and found again.
NoLeakedCancellations ==
    \A j \in Jobs : cancellations[j] # NoOwner =>
        /\ work[cancellations[j]] = j
        /\ pc[cancellations[j]] \in Holding \ {"claimed"}

\* A settled job is settled for good: no expiry, cancellation, restart or late
\* settlement changes its row again.
SettledStays ==
    [][\A j \in Jobs : status[j] \in Settled => status'[j] = status[j]]_vars

\* What the promise of JobLane calls a job: pending and parked jobs wait, and
\* only a live claim holds.
LaneJob(j) ==
    [state  |-> IF status[j] = "pending" THEN "waiting" ELSE status[j],
     lane   |-> session[j],
     holder |-> IF status[j] = "running" /\ lease[j] > 0 THEN owner[j]
                ELSE NoOwner,
     taken  |-> attempts[j] > 0,
     ran    |-> j \in ran]

Lane == INSTANCE JobLane WITH job <- [j \in Jobs |-> LaneJob(j)]

\* Claims that expire, heartbeats, late settlements, cancellation signals,
\* failing statements and lost processes keep the promise of JobLane: a lane runs
\* one job at a time, only a live claim settles it, success means that it ran, a
\* job cancelled before it was claimed never runs, and what is settled stays
\* (job-worker.ts over job-ledger.ts).
KeepsLane == Lane!Spec

\* An execution that lost its claim is stopped even if the cancellation signal
\* was missed and execute itself never returns.
LostClaimsStop ==
    \A f \in Fibers :
        (pc[f] = "executing" /\ ~HoldsLive(f)) ~> (pc[f] # "executing")

\* If every execute returns, no job keeps a lane for ever: each enqueued job is
\* eventually settled, or parked for the user, across stalls, ledger errors and
\* crashes.
JobsComeToRest ==
    ExecutionsEnd =>
        \A j \in Jobs :
            (status[j] \in {"pending", "running"})
                ~> (status[j] \in Settled \cup {"waiting"})
=============================================================================
