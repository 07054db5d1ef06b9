-------------------------- MODULE JobWorkerProofs --------------------------
(***************************************************************************)
(* Proofs, for every number of sessions, jobs and fibers and any number of *)
(* faults, that the claims of the job worker are exclusive and fenced.     *)
(***************************************************************************)
EXTENDS JobWorker, TLAPS

-----------------------------------------------------------------------------
(* What each statement of the job ledger preserves *)

\* A row names an owner, and has lease time left, only while it is running.
IdleRowsUnowned ==
    \A j \in Jobs : status[j] # "running" => owner[j] = NoOwner /\ lease[j] = 0

\* What a step does not do to the table: give a live claim to somebody, reopen
\* a settled row, record a success.
NoClaimGained ==
    \A j \in Jobs, o \in Owners : LiveClaim(j, o)' => LiveClaim(j, o)
SettledKept ==
    \A j \in Jobs : status[j] \in Settled => status'[j] = status[j]
NoSuccess ==
    \A j \in Jobs : status'[j] = "succeeded" => status[j] = "succeeded"
Quiet == NoClaimGained /\ SettledKept /\ NoSuccess

LedgerInv == LedgerTypeOK /\ OneRunningPerSession /\ IdleRowsUnowned

\* An empty table satisfies the ledger's invariant.
LEMMA LedgerInitInv == LedgerInit => LedgerInv
  BY LedgerConstants DEF LedgerInit, LedgerInv, LedgerTypeOK, Statuses,
     Settled, Unsettled, OneRunningPerSession, IdleRowsUnowned

\* Inserting a row keeps the lanes exclusive: a new row is pending.
LEMMA EnqueueInv ==
    ASSUME LedgerInv, NEW s \in Sessions, NEW k \in Kinds, Enqueue(s, k)
    PROVE  LedgerInv' /\ Quiet
<1>1. PICK j \in Jobs :
        /\ status[j] = "absent"
        /\ status' = [status EXCEPT ![j] = "pending"]
        /\ session' = [session EXCEPT ![j] = s]
        /\ kind' = [kind EXCEPT ![j] = k]
        /\ avail' = [avail EXCEPT ![j] = 0]
        /\ UNCHANGED <<owner, lease, attempts>>
  BY DEF Enqueue
<1>2. LedgerTypeOK'
  BY <1>1 DEF LedgerInv, LedgerTypeOK, Statuses, Unsettled
<1>3. OneRunningPerSession'
  BY <1>1 DEF LedgerInv, LedgerTypeOK, OneRunningPerSession
<1>4. IdleRowsUnowned'
  BY <1>1 DEF LedgerInv, LedgerTypeOK, IdleRowsUnowned
<1>5. Quiet
  BY <1>1 DEF LedgerInv, LedgerTypeOK,
     Quiet, NoClaimGained, SettledKept, NoSuccess, LiveClaim, Settled, Unsettled
<1> QED
  BY <1>2, <1>3, <1>4, <1>5 DEF LedgerInv

\* A claim takes a row whose session has no running row.
LEMMA ClaimNextInv ==
    ASSUME LedgerInv, NEW j \in Jobs, NEW o \in Owners, NEW minAge, NEW scp,
           NEW prk, NEW exc, ClaimNext(j, o, minAge, scp, prk, exc)
    PROVE  /\ LedgerInv' /\ SettledKept /\ NoSuccess
           /\ \A i \in Jobs, p \in Owners : LiveClaim(i, p)' =>
                LiveClaim(i, p) \/ (i = j /\ p = o)
<1>1. LedgerTypeOK'
  BY LedgerConstants
     DEF LedgerInv, LedgerTypeOK, ClaimNext, Statuses, Unsettled
<1>2. \A i \in Jobs : session[i] = session[j] => status[i] # "running"
  BY DEF ClaimNext, Claimable, LaneFree
<1>3. OneRunningPerSession'
  BY <1>2 DEF LedgerInv, LedgerTypeOK, OneRunningPerSession, ClaimNext
<1>4. IdleRowsUnowned'
  BY DEF LedgerInv, LedgerTypeOK, IdleRowsUnowned, ClaimNext
<1>5. SettledKept /\ NoSuccess
  BY DEF LedgerInv, LedgerTypeOK, ClaimNext, Claimable, SettledKept, NoSuccess,
     Settled
<1>6. \A i \in Jobs, p \in Owners : LiveClaim(i, p)' =>
         LiveClaim(i, p) \/ (i = j /\ p = o)
  BY DEF LedgerInv, LedgerTypeOK, ClaimNext, LiveClaim
<1> QED
  BY <1>1, <1>3, <1>4, <1>5, <1>6 DEF LedgerInv

\* A renewal touches the lease of a running row only.
LEMMA RenewInv ==
    ASSUME LedgerInv, NEW j \in Jobs, NEW o, Renew(j, o)
    PROVE  LedgerInv' /\ Quiet
<1>1. LedgerTypeOK'
  BY LedgerConstants DEF LedgerInv, LedgerTypeOK, Renew
<1>2. OneRunningPerSession'
  BY DEF LedgerInv, OneRunningPerSession, Renew
<1>3. IdleRowsUnowned'
  BY DEF LedgerInv, LedgerTypeOK, IdleRowsUnowned, Renew, LiveClaim
<1>4. Quiet
  BY LedgerConstants DEF LedgerInv, LedgerTypeOK, Renew,
     Quiet, NoClaimGained, SettledKept, NoSuccess, LiveClaim, Settled, Unsettled
<1> QED
  BY <1>1, <1>2, <1>3, <1>4 DEF LedgerInv

\* Reclaiming takes rows out of "running".
LEMMA ReclaimExpiredInv ==
    ASSUME LedgerInv, ReclaimExpired
    PROVE  LedgerInv' /\ Quiet
<1>1. LedgerTypeOK'
  BY DEF LedgerInv, LedgerTypeOK, ReclaimExpired, Statuses, Unsettled
<1>2. OneRunningPerSession'
  BY DEF LedgerInv, OneRunningPerSession, ReclaimExpired
<1>3. IdleRowsUnowned'
  BY DEF LedgerInv, LedgerTypeOK, IdleRowsUnowned, ReclaimExpired
<1>4. Quiet
  BY LedgerConstants DEF LedgerInv, LedgerTypeOK, ReclaimExpired,
     Quiet, NoClaimGained, SettledKept, NoSuccess, LiveClaim, Settled, Unsettled
<1> QED
  BY <1>1, <1>2, <1>3, <1>4 DEF LedgerInv

\* A settlement takes its row out of "running".
LEMMA ReleaseInv ==
    ASSUME LedgerInv, NEW j \in Jobs, NEW o,
           NEW st \in Statuses \ {"running"}, NEW delay \in Int,
           Release(j, o, st, delay)
    PROVE  /\ LedgerInv' /\ NoClaimGained /\ SettledKept
           /\ \A i \in Jobs : status'[i] = "succeeded" =>
                \/ status[i] = "succeeded"
                \/ i = j /\ st = "succeeded"
<1>1. LedgerTypeOK'
  BY LedgerConstants DEF LedgerInv, LedgerTypeOK, Release
<1>2. OneRunningPerSession'
  BY DEF LedgerInv, LedgerTypeOK, OneRunningPerSession, Release
<1>3. IdleRowsUnowned'
  BY DEF LedgerInv, LedgerTypeOK, IdleRowsUnowned, Release
<1>4. NoClaimGained /\ SettledKept
  BY DEF LedgerInv, LedgerTypeOK, Release, NoClaimGained, SettledKept, LiveClaim,
     Settled
<1>5. \A i \in Jobs : status'[i] = "succeeded" =>
         status[i] = "succeeded" \/ (i = j /\ st = "succeeded")
  BY DEF LedgerInv, LedgerTypeOK, Release
<1> QED
  BY <1>1, <1>2, <1>3, <1>4, <1>5 DEF LedgerInv

\* Cancellation takes rows out of "running".
LEMMA CancelUnsettledInv ==
    ASSUME LedgerInv, NEW s, NEW ks, CancelUnsettled(s, ks)
    PROVE  LedgerInv' /\ Quiet
<1>1. LedgerTypeOK'
  BY LedgerConstants
     DEF LedgerInv, LedgerTypeOK, CancelUnsettled, Statuses, Settled
<1>2. OneRunningPerSession'
  BY DEF LedgerInv, OneRunningPerSession, CancelUnsettled
<1>3. IdleRowsUnowned'
  BY DEF LedgerInv, LedgerTypeOK, IdleRowsUnowned, CancelUnsettled
<1>4. Quiet
  BY LedgerConstants DEF LedgerInv, LedgerTypeOK, CancelUnsettled, UnsettledOf,
     Quiet, NoClaimGained, SettledKept, NoSuccess, LiveClaim, Settled, Unsettled
<1> QED
  BY <1>1, <1>2, <1>3, <1>4 DEF LedgerInv

\* The reconciliation after process loss leaves no row running.
LEMMA ReconcileInv ==
    ASSUME LedgerInv, ReconcileAfterProcessLoss
    PROVE  LedgerInv' /\ Quiet
<1>1. LedgerTypeOK'
  BY LedgerConstants DEF LedgerInv, LedgerTypeOK, ReconcileAfterProcessLoss,
     Statuses, Settled, Unsettled
<1>2. OneRunningPerSession'
  BY DEF LedgerInv, OneRunningPerSession, ReconcileAfterProcessLoss
<1>3. IdleRowsUnowned'
  BY DEF LedgerInv, LedgerTypeOK, IdleRowsUnowned, ReconcileAfterProcessLoss
<1>4. Quiet
  BY LedgerConstants DEF LedgerInv, LedgerTypeOK, ReconcileAfterProcessLoss,
     Quiet, NoClaimGained, SettledKept, NoSuccess, LiveClaim, Settled, Unsettled
<1> QED
  BY <1>1, <1>2, <1>3, <1>4 DEF LedgerInv

\* The clock shortens leases and delays.
LEMMA ElapseInv ==
    ASSUME LedgerInv, Elapse
    PROVE  LedgerInv' /\ Quiet
<1>1. lease' \in [Jobs -> 0..LeaseTicks]
  BY LedgerConstants DEF LedgerInv, LedgerTypeOK, Elapse
<1>2. avail' \in [Jobs -> Int]
  BY LedgerConstants DEF LedgerInv, LedgerTypeOK, Elapse
<1>3. LedgerTypeOK'
  BY <1>1, <1>2 DEF LedgerInv, LedgerTypeOK, Elapse
<1>4. OneRunningPerSession'
  BY DEF LedgerInv, OneRunningPerSession, Elapse
<1>5. IdleRowsUnowned'
  BY DEF LedgerInv, LedgerTypeOK, IdleRowsUnowned, Elapse
<1>6. Quiet
  BY LedgerConstants DEF LedgerInv, LedgerTypeOK, Elapse,
     Quiet, NoClaimGained, SettledKept, NoSuccess, LiveClaim, Settled, Unsettled
<1> QED
  BY <1>3, <1>4, <1>5, <1>6 DEF LedgerInv

\* A step that leaves the table alone keeps its invariant.
LEMMA LedgerStutterInv ==
    ASSUME LedgerInv, UNCHANGED ledgerVars
    PROVE  LedgerInv' /\ Quiet
  BY DEF LedgerInv, LedgerTypeOK, OneRunningPerSession, IdleRowsUnowned,
     ledgerVars, Quiet, NoClaimGained, SettledKept, NoSuccess, LiveClaim

-----------------------------------------------------------------------------
(* The inductive invariant *)

\* A fiber has a job exactly while it is between claim and finalizers.
WorkMatchesPc == \A f \in Fibers : pc[f] \in Holding <=> work[f] \in Jobs

\* Only cancelled rows have a cancellation on its way.
SignalsAreCancelled == \A j \in signals : status[j] = "cancelled"

\* A map entry belongs to an execution of that very job.
EntriesAreCurrent ==
    \A j \in Jobs, f \in Fibers :
        cancellations[j] = f => work[f] = j /\ pc[f] \in Holding \ {"claimed"}

\* A completed Deferred belongs to an execution whose claim is gone.
SignalledLost ==
    \A f \in signalled : pc[f] \in Holding /\ ~LiveClaim(work[f], f)

\* A fiber about to record success has itself run the job under this acquisition,
\* or has lost the claim.
SuccessIsEarned ==
    \A f \in Fibers :
        pc[f] = "settling" /\ exit[f] = "success"
        => \/ work[f] \in ran /\ f \in earned
           \/ ~LiveClaim(work[f], f)

\* A dead process has no fibers.
DownHasNoFibers == process = "down" => \A f \in Fibers : pc[f] = "off"

IInv ==
    /\ WorkerTypeOK
    /\ DownHasNoFibers
    /\ LedgerInv
    /\ WorkMatchesPc
    /\ SignalsAreCancelled
    /\ EntriesAreCurrent
    /\ SignalledLost
    /\ SuccessIsEarned
    /\ SucceededJobsRan

-----------------------------------------------------------------------------
\* The backoff of a retried job is a number of ticks.
LEMMA RetryDelayType ==
    ASSUME NEW n \in Nat
    PROVE  RetryDelay(n) \in Int
<1> DEFINE e == IF n > 1 THEN n - 1 ELSE 0
<1>1. e \in Nat
  OBVIOUS
<1>2. 2^e \in Int
  BY <1>1
<1>3. BaseDelay * 2^e \in Int
  BY <1>2, LedgerConstants
<1> QED
  BY <1>3, LedgerConstants DEF RetryDelay

\* Every step of the worker keeps the worker's variables in their types.
LEMMA WorkerTypeStep ==
    ASSUME WorkerTypeOK, WorkMatchesPc, [Next]_vars
    PROVE  WorkerTypeOK'
<1> USE WorkerConstants DEF WorkerTypeOK, Fibers, PCs, Holding, Exits
<1>1. ASSUME NEW s \in Sessions, NEW k \in Kinds, CommandEnqueues(s, k)
      PROVE  WorkerTypeOK'
  BY <1>1 DEF CommandEnqueues, workerVars
<1>2. ASSUME NEW s \in Sessions, NEW ks \in CancelSets, CommandCancels(s, ks)
      PROVE  WorkerTypeOK'
  BY <1>2 DEF CommandCancels, UnsettledOf
<1>3. ASSUME NEW j \in Jobs, Cancel(j)
      PROVE  WorkerTypeOK'
  BY <1>3 DEF Cancel
<1>4. CASE MarkReady
  BY <1>4 DEF MarkReady
<1>5. ASSUME NEW d \in Drains, NEW s \in Sessions \cup {AnySession},
             DrainStart(d, s)
      PROVE  WorkerTypeOK'
  BY <1>5 DEF DrainStart
<1>6. ASSUME NEW d \in Drains, DrainCheck(d) \/ DrainInterrupted(d)
      PROVE  WorkerTypeOK'
  BY <1>6 DEF DrainCheck, DrainInterrupted
<1>7. ASSUME NEW f \in Fibers, Step(f)
      PROVE  WorkerTypeOK'
  <2>1. CASE Reclaim(f)
    BY <2>1 DEF Reclaim
  <2>2. CASE Claim(f)
    BY <2>2 DEF Claim
  <2>3. CASE ClaimNothing(f)
    BY <2>3 DEF ClaimNothing
  <2>4. CASE Register(f)
    BY <2>4 DEF Register
  <2>5. CASE FirstRenew(f)
    BY <2>5 DEF FirstRenew
  <2>6. CASE ObserveCancel(f)
    BY <2>6 DEF ObserveCancel
  <2>7. CASE SettleJob(f)
    BY <2>7 DEF SettleJob
  <2>8. CASE Cleanup(f)
    BY <2>8 DEF Cleanup, Finalize
  <2> QED
    BY <1>7, <2>1, <2>2, <2>3, <2>4, <2>5, <2>6, <2>7, <2>8 DEF Step
<1>8. ASSUME NEW f \in Fibers, Heartbeat(f)
      PROVE  WorkerTypeOK'
  BY <1>8 DEF Heartbeat
<1>9. ASSUME NEW f \in Fibers, NEW e \in Exits, ExecuteEnds(f, e)
      PROVE  WorkerTypeOK'
  BY <1>9 DEF ExecuteEnds, WorkMatchesPc
<1>10. ASSUME NEW f \in Fibers, LedgerError(f) \/ RenewError(f)
       PROVE  WorkerTypeOK'
  <2>1. CASE LedgerError(f)
    BY <2>1 DEF LedgerError, Finalize
  <2>2. CASE RenewError(f)
    BY <2>2 DEF RenewError
  <2> QED
    BY <1>10, <2>1, <2>2
<1>11. CASE Tick
  BY <1>11 DEF Tick
<1>12. CASE Crash
  BY <1>12 DEF Crash
<1>13. CASE Restart
  BY <1>13 DEF Restart
<1>14. CASE UNCHANGED vars
  BY <1>14 DEF vars, workerVars
<1> QED
  BY <1>1, <1>2, <1>3, <1>4, <1>5, <1>6, <1>7, <1>8, <1>9, <1>10, <1>11,
     <1>12, <1>13, <1>14 DEF Next

-----------------------------------------------------------------------------
(* The ledger's side of every worker step *)

\* Every step keeps the ledger's invariant and reopens no settled row.
LEMMA LedgerStep ==
    ASSUME WorkerTypeOK, LedgerInv, WorkMatchesPc, [Next]_vars
    PROVE  LedgerInv' /\ SettledKept
<1>1. ASSUME NEW s \in Sessions, NEW k \in Kinds, CommandEnqueues(s, k)
      PROVE  LedgerInv' /\ SettledKept
  BY <1>1, EnqueueInv DEF CommandEnqueues, Quiet
<1>2. ASSUME NEW s \in Sessions, NEW ks \in CancelSets, CommandCancels(s, ks)
      PROVE  LedgerInv' /\ SettledKept
  BY <1>2, CancelUnsettledInv DEF CommandCancels, Quiet
<1>3. CASE UNCHANGED ledgerVars
  BY <1>3, LedgerStutterInv DEF Quiet
<1>4. ASSUME NEW f \in Fibers, Step(f)
      PROVE  LedgerInv' /\ SettledKept
  <2>1. CASE Reclaim(f)
    BY <2>1, ReclaimExpiredInv DEF Reclaim, Quiet
  <2>2. CASE Claim(f)
    BY <2>2, ClaimNextInv, WorkerConstants DEF Claim, Fibers
  <2>3. CASE FirstRenew(f)
    BY <2>3, <1>3, RenewInv DEF FirstRenew, WorkMatchesPc, Holding, Quiet
  <2>4. CASE SettleJob(f)
    <3>1. work[f] \in Jobs
      BY <2>4 DEF SettleJob, WorkMatchesPc, Holding
    <3>2. attempts[work[f]] \in Nat
      BY <3>1, LedgerConstants DEF LedgerInv, LedgerTypeOK
    <3>3. RetryDelay(attempts[work[f]]) \in Int
      BY <3>2, RetryDelayType
    <3>4. SettledStatus(f) \in Statuses \ {"running"}
      BY DEF SettledStatus, Statuses, Settled, Unsettled
    <3> DEFINE delay == IF SettledStatus(f) = "pending"
                        THEN RetryDelay(attempts[work[f]]) ELSE 0
    <3>5. delay \in Int
      BY <3>3
    <3>6. CASE Release(work[f], f, SettledStatus(f), delay)
      <4> HIDE DEF delay
      <4> QED
        BY <3>1, <3>4, <3>5, <3>6, ReleaseInv
    <3> QED
      BY <2>4, <1>3, <3>6 DEF SettleJob
  <2>5. CASE ClaimNothing(f) \/ Register(f) \/ ObserveCancel(f) \/ Cleanup(f)
    BY <2>5, <1>3 DEF ClaimNothing, Register, ObserveCancel, Cleanup
  <2> QED
    BY <1>4, <2>1, <2>2, <2>3, <2>4, <2>5 DEF Step
<1>5. ASSUME NEW f \in Fibers, Heartbeat(f)
      PROVE  LedgerInv' /\ SettledKept
  BY <1>5, <1>3, RenewInv DEF Heartbeat, WorkMatchesPc, Holding, Quiet
<1>6. CASE Tick
  BY <1>6, ElapseInv DEF Tick, Quiet
<1>7. CASE Restart
  BY <1>7, ReconcileInv DEF Restart, Quiet
<1>8. ASSUME NEW j \in Jobs, Cancel(j)
      PROVE  UNCHANGED ledgerVars
  BY <1>8 DEF Cancel
<1>9. CASE MarkReady \/ Crash \/ UNCHANGED vars
  BY <1>9, <1>3 DEF MarkReady, Crash, vars
<1>10. ASSUME NEW d \in Drains, NEW s \in Sessions \cup {AnySession},
              DrainStart(d, s)
       PROVE  UNCHANGED ledgerVars
  BY <1>10 DEF DrainStart
<1>11. ASSUME NEW d \in Drains, DrainCheck(d) \/ DrainInterrupted(d)
       PROVE  UNCHANGED ledgerVars
  BY <1>11 DEF DrainCheck, DrainInterrupted
<1>12. ASSUME NEW f \in Fibers, NEW e \in Exits, ExecuteEnds(f, e)
       PROVE  UNCHANGED ledgerVars
  BY <1>12 DEF ExecuteEnds
<1>13. ASSUME NEW f \in Fibers, LedgerError(f) \/ RenewError(f)
       PROVE  UNCHANGED ledgerVars
  BY <1>13 DEF LedgerError, RenewError
<1> QED
  BY <1>1, <1>2, <1>3, <1>4, <1>5, <1>6, <1>7, <1>8, <1>9, <1>10, <1>11,
     <1>12, <1>13 DEF Next

-----------------------------------------------------------------------------
(* The worker's side: what the fibers know of the table stays true *)

FiberInv ==
    /\ WorkMatchesPc
    /\ SignalsAreCancelled
    /\ EntriesAreCurrent
    /\ SignalledLost
    /\ SuccessIsEarned
    /\ SucceededJobsRan

\* A step that gains no claim, records no success and leaves the fibers alone
\* keeps what they know.
LEMMA QuietStep ==
    ASSUME IInv, Quiet, LedgerInv',
           UNCHANGED <<pc, work, exit, signalled, cancellations, signals, ran,
                       earned>>
    PROVE  FiberInv'
<1> USE WorkerConstants DEF IInv, FiberInv, WorkerTypeOK, Fibers
<1>1. WorkMatchesPc' /\ EntriesAreCurrent'
  BY DEF WorkMatchesPc, EntriesAreCurrent
<1>2. SignalsAreCancelled'
  BY DEF SignalsAreCancelled, Quiet, SettledKept, Settled
<1>3. SignalledLost'
  BY DEF SignalledLost, WorkMatchesPc, Quiet, NoClaimGained
<1>4. SuccessIsEarned'
  BY DEF SuccessIsEarned, WorkMatchesPc, Holding, Quiet, NoClaimGained
<1>5. SucceededJobsRan'
  BY DEF SucceededJobsRan, Quiet, NoSuccess
<1> QED
  BY <1>1, <1>2, <1>3, <1>4, <1>5

\* Every step of the worker keeps what the fibers know.
LEMMA FiberStep ==
    ASSUME IInv, LedgerInv', WorkerTypeOK', [Next]_vars
    PROVE  FiberInv'
<1> USE WorkerConstants DEF IInv, FiberInv, WorkerTypeOK, Fibers
<1>1. ASSUME NEW s \in Sessions, NEW k \in Kinds, CommandEnqueues(s, k)
      PROVE  FiberInv'
  BY <1>1, EnqueueInv, QuietStep DEF CommandEnqueues, workerVars
<1>2. ASSUME NEW s \in Sessions, NEW ks \in CancelSets, CommandCancels(s, ks)
      PROVE  FiberInv'
  <2>1. Quiet
    BY <1>2, CancelUnsettledInv DEF CommandCancels
  <2>2. WorkMatchesPc' /\ EntriesAreCurrent'
    BY <1>2 DEF CommandCancels, WorkMatchesPc, EntriesAreCurrent
  <2>3. SignalsAreCancelled'
    BY <1>2, <2>1 DEF CommandCancels, CancelUnsettled, UnsettledOf,
       SignalsAreCancelled, Quiet, SettledKept, Settled
  <2>4. SignalledLost' /\ SuccessIsEarned'
    BY <1>2, <2>1 DEF CommandCancels, SignalledLost, SuccessIsEarned,
       WorkMatchesPc, Holding, Quiet, NoClaimGained
  <2>5. SucceededJobsRan'
    BY <1>2, <2>1 DEF CommandCancels, SucceededJobsRan, Quiet, NoSuccess
  <2> QED
    BY <2>2, <2>3, <2>4, <2>5
<1>3. ASSUME NEW j \in Jobs, Cancel(j)
      PROVE  FiberInv'
  <2>1. WorkMatchesPc' /\ EntriesAreCurrent' /\ SignalsAreCancelled'
        /\ SuccessIsEarned' /\ SucceededJobsRan'
    BY <1>3 DEF Cancel, ledgerVars, WorkMatchesPc, EntriesAreCurrent,
       SignalsAreCancelled, SuccessIsEarned, SucceededJobsRan, LiveClaim
  <2>2. SignalledLost'
    BY <1>3 DEF Cancel, ledgerVars, SignalledLost, EntriesAreCurrent,
       SignalsAreCancelled, LiveClaim
  <2> QED
    BY <2>1, <2>2
<1>4. CASE MarkReady
  BY <1>4, LedgerStutterInv, QuietStep DEF MarkReady
<1>5. ASSUME NEW d \in Drains,
             \/ \E s \in Sessions \cup {AnySession} : DrainStart(d, s)
             \/ DrainCheck(d) \/ DrainInterrupted(d)
      PROVE  FiberInv'
  <2>1. /\ UNCHANGED <<ledgerVars, work, exit, signalled, cancellations, signals,
                       ran, earned>>
        /\ pc[d] \in {"off", "check", "idle"}
        /\ \E p \in {"off", "idle"} : pc' = [pc EXCEPT ![d] = p]
    BY <1>5 DEF DrainStart, DrainCheck, DrainInterrupted
  <2> QED
    BY <2>1 DEF WorkMatchesPc, EntriesAreCurrent, SignalsAreCancelled,
       SignalledLost, SuccessIsEarned, SucceededJobsRan, LiveClaim, Holding,
       ledgerVars
<1>6. ASSUME NEW f \in Fibers, Step(f)
      PROVE  FiberInv'
  <2>1. CASE Reclaim(f)
    <3>1. Quiet
      BY <2>1, ReclaimExpiredInv DEF Reclaim
    <3>2. WorkMatchesPc' /\ EntriesAreCurrent'
      BY <2>1 DEF Reclaim, WorkMatchesPc, EntriesAreCurrent, Holding
    <3>3. SignalsAreCancelled' /\ SucceededJobsRan'
      BY <2>1, <3>1 DEF Reclaim, SignalsAreCancelled, SucceededJobsRan, Quiet,
         SettledKept, NoSuccess, Settled
    <3>4. SignalledLost' /\ SuccessIsEarned'
      BY <2>1, <3>1 DEF Reclaim, SignalledLost, SuccessIsEarned, WorkMatchesPc,
         Holding, Quiet, NoClaimGained
    <3> QED
      BY <3>2, <3>3, <3>4
  <2>2. CASE Claim(f)
    <3>1. PICK j \in Jobs :
            /\ ClaimNext(j, f, MinAge(f), ScopeOf(f), ParkedFor(f), Excluded)
            /\ work' = [work EXCEPT ![f] = j]
      BY <2>2 DEF Claim
    <3>2. /\ SettledKept /\ NoSuccess
          /\ \A i \in Jobs, p \in Owners : LiveClaim(i, p)' =>
                LiveClaim(i, p) \/ (i = j /\ p = f)
      BY <3>1, ClaimNextInv
    <3>3. f \notin signalled /\ work[f] \notin Jobs
      BY <2>2 DEF Claim, SignalledLost, WorkMatchesPc, Holding
    <3>4. WorkMatchesPc' /\ EntriesAreCurrent'
      BY <2>2, <3>1, <3>3 DEF Claim, WorkMatchesPc, EntriesAreCurrent, Holding
    <3>5. SignalsAreCancelled' /\ SucceededJobsRan'
      BY <2>2, <3>2 DEF Claim, SignalsAreCancelled, SucceededJobsRan,
         SettledKept, NoSuccess, Settled
    <3>6. SignalledLost' /\ SuccessIsEarned'
      BY <2>2, <3>1, <3>2, <3>3 DEF Claim, SignalledLost, SuccessIsEarned,
         WorkMatchesPc, Holding
    <3> QED
      BY <3>4, <3>5, <3>6
  <2>3. CASE ClaimNothing(f)
    BY <2>3 DEF ClaimNothing, WorkMatchesPc, EntriesAreCurrent,
       SignalsAreCancelled, SignalledLost, SuccessIsEarned, SucceededJobsRan,
       LiveClaim, Holding, ledgerVars
  <2>4. CASE Register(f)
    BY <2>4 DEF Register, WorkMatchesPc, EntriesAreCurrent,
       SignalsAreCancelled, SignalledLost, SuccessIsEarned, SucceededJobsRan,
       LiveClaim, Holding, ledgerVars
  <2>5. CASE FirstRenew(f)
    <3>1. Quiet
      BY <2>5, RenewInv, LedgerStutterInv DEF FirstRenew, WorkMatchesPc, Holding
    <3>2. WorkMatchesPc' /\ EntriesAreCurrent'
      BY <2>5 DEF FirstRenew, WorkMatchesPc, EntriesAreCurrent, Holding
    <3>3. SignalsAreCancelled' /\ SucceededJobsRan'
      BY <2>5, <3>1 DEF FirstRenew, SignalsAreCancelled, SucceededJobsRan,
         Quiet, SettledKept, NoSuccess, Settled
    <3>4. SignalledLost'
      BY <2>5, <3>1 DEF FirstRenew, SignalledLost, WorkMatchesPc, Holding, Quiet,
         NoClaimGained
    <3>5. SuccessIsEarned'
      BY <2>5, <3>1 DEF FirstRenew, SuccessIsEarned, WorkMatchesPc, Holding,
         Quiet, NoClaimGained
    <3> QED
      BY <3>2, <3>3, <3>4, <3>5
  <2>6. CASE ObserveCancel(f)
    BY <2>6 DEF ObserveCancel, WorkMatchesPc, EntriesAreCurrent,
       SignalsAreCancelled, SignalledLost, SuccessIsEarned, SucceededJobsRan,
       LiveClaim, Holding, ledgerVars
  <2>7. CASE SettleJob(f)
    <3>1. work[f] \in Jobs
      BY <2>7 DEF SettleJob, WorkMatchesPc, Holding
    <3>2. attempts[work[f]] \in Nat
      BY <3>1, LedgerConstants DEF LedgerInv, LedgerTypeOK
    <3>3. RetryDelay(attempts[work[f]]) \in Int
      BY <3>2, RetryDelayType
    <3>4. SettledStatus(f) \in Statuses \ {"running"}
      BY DEF SettledStatus, Statuses, Settled, Unsettled
    <3> DEFINE delay == IF SettledStatus(f) = "pending"
                        THEN RetryDelay(attempts[work[f]]) ELSE 0
    <3>5. delay \in Int
      BY <3>3
    <3>6. /\ NoClaimGained /\ SettledKept
          /\ \A i \in Jobs : status'[i] = "succeeded" =>
               \/ status[i] = "succeeded"
               \/ /\ i = work[f] /\ SettledStatus(f) = "succeeded"
                  /\ LiveClaim(work[f], f)
      <4>1. CASE Release(work[f], f, SettledStatus(f), delay)
        <5> HIDE DEF delay
        <5>1. LiveClaim(work[f], f)
          BY <4>1 DEF Release
        <5> QED
          BY <3>1, <3>4, <3>5, <4>1, <5>1, ReleaseInv
      <4>2. CASE UNCHANGED ledgerVars
        BY <4>2, LedgerStutterInv DEF Quiet, NoSuccess
      <4> QED
        BY <2>7, <4>1, <4>2 DEF SettleJob
    <3>7. WorkMatchesPc' /\ EntriesAreCurrent'
      BY <2>7 DEF SettleJob, WorkMatchesPc, EntriesAreCurrent, Holding
    <3>8. SignalsAreCancelled'
      BY <2>7, <3>6 DEF SettleJob, SignalsAreCancelled, SettledKept, Settled
    <3>9. SignalledLost' /\ SuccessIsEarned'
      BY <2>7, <3>6 DEF SettleJob, SignalledLost, SuccessIsEarned,
         WorkMatchesPc, Holding, NoClaimGained
    <3>10. SucceededJobsRan'
      <4>1. SettledStatus(f) = "succeeded" => exit[f] = "success"
        BY DEF SettledStatus
      <4> QED
        BY <2>7, <3>6, <4>1 DEF SettleJob, SucceededJobsRan, SuccessIsEarned
    <3> QED
      BY <3>7, <3>8, <3>9, <3>10
  <2>8. CASE Cleanup(f)
    <3>1. WorkMatchesPc'
      BY <2>8 DEF Cleanup, Finalize, WorkMatchesPc, Holding, Jobs
    <3>2. EntriesAreCurrent'
      BY <2>8, LedgerConstants DEF Cleanup, Finalize, EntriesAreCurrent, Holding
    <3>3. SignalsAreCancelled' /\ SignalledLost' /\ SuccessIsEarned'
          /\ SucceededJobsRan'
      BY <2>8 DEF Cleanup, Finalize, SignalsAreCancelled, SignalledLost,
         SuccessIsEarned, SucceededJobsRan, LiveClaim, ledgerVars, Holding
    <3> QED
      BY <3>1, <3>2, <3>3
  <2> QED
    BY <1>6, <2>1, <2>2, <2>3, <2>4, <2>5, <2>6, <2>7, <2>8 DEF Step
<1>7. ASSUME NEW f \in Fibers, Heartbeat(f)
      PROVE  FiberInv'
  <2>1. Quiet
    BY <1>7, RenewInv, LedgerStutterInv DEF Heartbeat, WorkMatchesPc, Holding
  <2>2. WorkMatchesPc' /\ EntriesAreCurrent'
    BY <1>7 DEF Heartbeat, WorkMatchesPc, EntriesAreCurrent
  <2>3. SignalsAreCancelled' /\ SucceededJobsRan'
    BY <1>7, <2>1 DEF Heartbeat, SignalsAreCancelled, SucceededJobsRan, Quiet,
       SettledKept, NoSuccess, Settled
  <2>4. SignalledLost' /\ SuccessIsEarned'
    BY <1>7, <2>1 DEF Heartbeat, SignalledLost, SuccessIsEarned, WorkMatchesPc,
       Holding, Quiet, NoClaimGained
  <2> QED
    BY <2>2, <2>3, <2>4
<1>8. ASSUME NEW f \in Fibers, NEW e \in Exits, ExecuteEnds(f, e)
      PROVE  FiberInv'
  BY <1>8 DEF ExecuteEnds, WorkMatchesPc, EntriesAreCurrent,
     SignalsAreCancelled, SignalledLost, SuccessIsEarned, SucceededJobsRan,
     LiveClaim, Holding, ledgerVars
<1>9. ASSUME NEW f \in Fibers, LedgerError(f)
      PROVE  FiberInv'
  <2>1. WorkMatchesPc'
    BY <1>9 DEF LedgerError, Finalize, WorkMatchesPc, Holding, Jobs
  <2>2. EntriesAreCurrent'
    BY <1>9, LedgerConstants DEF LedgerError, Finalize, EntriesAreCurrent, Holding
  <2>3. SignalsAreCancelled' /\ SignalledLost' /\ SuccessIsEarned'
        /\ SucceededJobsRan'
    BY <1>9 DEF LedgerError, Finalize, SignalsAreCancelled, SignalledLost,
       SuccessIsEarned, SucceededJobsRan, LiveClaim, ledgerVars, Holding
  <2> QED
    BY <2>1, <2>2, <2>3
<1>10. ASSUME NEW f \in Fibers, RenewError(f)
       PROVE  FiberInv'
  BY <1>10 DEF RenewError, WorkMatchesPc, EntriesAreCurrent,
     SignalsAreCancelled, SignalledLost, SuccessIsEarned, SucceededJobsRan,
     LiveClaim, Holding, ledgerVars
<1>11. CASE Tick
  BY <1>11, ElapseInv, QuietStep DEF Tick
<1>12. CASE Crash
  BY <1>12, LedgerConstants DEF Crash, WorkMatchesPc, EntriesAreCurrent,
     SignalsAreCancelled, SignalledLost, SuccessIsEarned, SucceededJobsRan,
     Holding, ledgerVars, Jobs
<1>13. CASE Restart
  <2>1. Quiet
    BY <1>13, ReconcileInv DEF Restart
  <2>2. \A f \in Fibers : pc'[f] \notin Holding /\ pc[f] \notin Holding
    BY <1>13 DEF Restart, DownHasNoFibers, Holding
  <2> QED
    BY <1>13, <2>1, <2>2 DEF Restart, WorkMatchesPc, EntriesAreCurrent,
     SignalsAreCancelled, SignalledLost, SuccessIsEarned, SucceededJobsRan,
     Quiet, SettledKept, NoSuccess, Settled, Holding
<1>14. CASE UNCHANGED vars
  BY <1>14, LedgerStutterInv, QuietStep DEF vars, workerVars
<1> QED
  BY <1>1, <1>2, <1>3, <1>4, <1>5, <1>6, <1>7, <1>8, <1>9, <1>10, <1>11,
     <1>12, <1>13, <1>14 DEF Next

\* A process that is down stays without fibers until it is restarted.
LEMMA DownStep ==
    ASSUME WorkerTypeOK, DownHasNoFibers, [Next]_vars
    PROVE  DownHasNoFibers'
<1> USE DEF WorkerTypeOK, DownHasNoFibers, Fibers
<1>1. ASSUME NEW f \in Fibers,
             \/ Step(f) \/ Heartbeat(f) \/ (\E e \in Exits : ExecuteEnds(f, e))
             \/ LedgerError(f) \/ RenewError(f)
      PROVE  pc[f] # "off" /\ UNCHANGED process
  BY <1>1 DEF Step, Reclaim, Claim, ClaimNothing, Register, FirstRenew,
     ObserveCancel, SettleJob, Cleanup, Heartbeat, ExecuteEnds, LedgerError,
     RenewError
<1>2. ASSUME NEW d \in Drains, DrainCheck(d) \/ DrainInterrupted(d)
      PROVE  pc[d] # "off" /\ UNCHANGED process
  BY <1>2 DEF DrainCheck, DrainInterrupted
<1>3. ASSUME NEW d \in Drains, NEW s \in Sessions \cup {AnySession},
             DrainStart(d, s)
      PROVE  process # "down" /\ UNCHANGED process
  BY <1>3 DEF DrainStart
<1>4. ASSUME \/ \E s \in Sessions, k \in Kinds : CommandEnqueues(s, k)
             \/ \E s \in Sessions, ks \in CancelSets : CommandCancels(s, ks)
             \/ \E j \in Jobs : Cancel(j)
             \/ Tick \/ UNCHANGED vars
      PROVE  UNCHANGED <<pc, process>>
  BY <1>4 DEF CommandEnqueues, CommandCancels, Cancel, Tick, vars, workerVars
<1>5. CASE MarkReady
  BY <1>5 DEF MarkReady
<1>6. CASE Crash
  BY <1>6 DEF Crash
<1>7. CASE Restart
  BY <1>7 DEF Restart
<1> QED
  BY <1>1, <1>2, <1>3, <1>4, <1>5, <1>6, <1>7 DEF Next

-----------------------------------------------------------------------------
(* The theorems *)

\* Every conjunct of IInv holds throughout every behaviour of the worker.
THEOREM InductiveInvariant == Spec => []IInv
<1>1. Init => IInv
  <2>1. ASSUME Init PROVE WorkerTypeOK /\ DownHasNoFibers /\ FiberInv
    BY <2>1, LedgerConstants, WorkerConstants
       DEF Init, LedgerInit, WorkerTypeOK, DownHasNoFibers, FiberInv, Fibers,
           PCs, Exits, Holding, Jobs, WorkMatchesPc, SignalsAreCancelled,
           EntriesAreCurrent, SignalledLost, SuccessIsEarned, SucceededJobsRan
  <2> QED
    BY <2>1, LedgerInitInv DEF Init, IInv, FiberInv
<1>2. IInv /\ [Next]_vars => IInv'
  <2> SUFFICES ASSUME IInv, [Next]_vars PROVE IInv'
    OBVIOUS
  <2>1. WorkerTypeOK'
    BY WorkerTypeStep DEF IInv
  <2>2. LedgerInv'
    BY LedgerStep DEF IInv
  <2>3. DownHasNoFibers'
    BY DownStep DEF IInv
  <2>4. FiberInv'
    BY <2>1, <2>2, FiberStep
  <2> QED
    BY <2>1, <2>2, <2>3, <2>4 DEF IInv, FiberInv
<1> QED
  BY <1>1, <1>2, PTL DEF Spec

\* The variables of ledger and worker keep their types (job-ledger.ts and
\* job-worker.ts as a whole).
THEOREM TypeCorrect == Spec => []TypeOK
<1>1. IInv => TypeOK
  BY DEF IInv, LedgerInv, TypeOK
<1> QED
  BY <1>1, InductiveInvariant, PTL

\* claimNext keeps the lane of a session exclusive.
THEOREM LanesAreExclusive == Spec => []OneRunningPerSession
<1>1. IInv => OneRunningPerSession
  BY DEF IInv, LedgerInv
<1> QED
  BY <1>1, InductiveInvariant, PTL

\* Only a settlement records a success, and only one by the fiber that owns the
\* row and whose own execute of the job succeeded.
LEMMA SuccessStep ==
    ASSUME IInv, [Next]_vars, NEW j \in Jobs,
           status[j] # "succeeded", status'[j] = "succeeded"
    PROVE  owner[j] \in earned /\ work[owner[j]] = j
<1>0. /\ LedgerInv /\ WorkMatchesPc /\ SuccessIsEarned
      /\ Fibers = Owners
  BY WorkerConstants DEF IInv, Fibers
<1>1. ~NoSuccess /\ ~Quiet
  BY DEF NoSuccess, Quiet
<1>2. ~UNCHANGED ledgerVars
  BY <1>0, <1>1, LedgerStutterInv
<1>3. PICK f \in Fibers : SettleJob(f)
  <2>1. \A s \in Sessions, k \in Kinds : ~CommandEnqueues(s, k)
    BY <1>0, <1>1, EnqueueInv DEF CommandEnqueues
  <2>2. \A s \in Sessions, ks \in CancelSets : ~CommandCancels(s, ks)
    BY <1>0, <1>1, CancelUnsettledInv DEF CommandCancels
  <2>3. ~(\E i \in Jobs : Cancel(i)) /\ ~MarkReady /\ ~Crash /\ ~UNCHANGED vars
    BY <1>2 DEF Cancel, MarkReady, Crash, vars
  <2>4. \A d \in Drains : /\ ~DrainCheck(d) /\ ~DrainInterrupted(d)
                         /\ \A s \in Sessions \cup {AnySession} : ~DrainStart(d, s)
    BY <1>2 DEF DrainCheck, DrainInterrupted, DrainStart
  <2>5. ~Tick /\ ~Restart
    BY <1>0, <1>1, ElapseInv, ReconcileInv DEF Tick, Restart
  <2>6. ASSUME NEW f \in Fibers
        PROVE  /\ ~Reclaim(f) /\ ~Claim(f) /\ ~FirstRenew(f) /\ ~Heartbeat(f)
               /\ ~ClaimNothing(f) /\ ~Register(f) /\ ~ObserveCancel(f)
               /\ ~Cleanup(f) /\ ~LedgerError(f) /\ ~RenewError(f)
               /\ \A e \in Exits : ~ExecuteEnds(f, e)
    <3>1. ~Reclaim(f)
      BY <1>0, <1>1, ReclaimExpiredInv DEF Reclaim
    <3>2. ~Claim(f)
      BY <1>0, <1>1, ClaimNextInv DEF Claim
    <3>3. ~FirstRenew(f) /\ ~Heartbeat(f)
      BY <1>0, <1>1, <1>2, RenewInv DEF FirstRenew, Heartbeat, WorkMatchesPc,
         Holding
    <3>4. /\ ~ClaimNothing(f) /\ ~Register(f) /\ ~ObserveCancel(f)
          /\ ~Cleanup(f) /\ ~LedgerError(f) /\ ~RenewError(f)
          /\ \A e \in Exits : ~ExecuteEnds(f, e)
      BY <1>2 DEF ClaimNothing, Register, ObserveCancel, Cleanup, LedgerError,
         RenewError, ExecuteEnds
    <3> QED
      BY <3>1, <3>2, <3>3, <3>4
  <2> QED
    BY <2>1, <2>2, <2>3, <2>4, <2>5, <2>6 DEF Next, Step
<1>4. work[f] \in Jobs /\ attempts[work[f]] \in Nat
  BY <1>0, <1>3, LedgerConstants DEF SettleJob, WorkMatchesPc, Holding, LedgerInv,
     LedgerTypeOK
<1> DEFINE delay == IF SettledStatus(f) = "pending"
                    THEN RetryDelay(attempts[work[f]]) ELSE 0
<1>5. delay \in Int
  BY <1>4, RetryDelayType
<1>6. Release(work[f], f, SettledStatus(f), delay)
  BY <1>2, <1>3 DEF SettleJob
<1>7. /\ SettledStatus(f) \in Statuses \ {"running"}
      /\ SettledStatus(f) = "succeeded" => exit[f] = "success"
  BY DEF SettledStatus, Statuses, Settled, Unsettled
<1> HIDE DEF delay
<1>8. j = work[f] /\ SettledStatus(f) = "succeeded"
  BY <1>0, <1>4, <1>5, <1>6, <1>7, ReleaseInv
<1>9. LiveClaim(work[f], f) /\ owner[j] = f
  BY <1>6, <1>8 DEF Release, LiveClaim
<1> QED
  BY <1>0, <1>3, <1>7, <1>8, <1>9 DEF SuccessIsEarned, SettleJob

\* Settlement is fenced: a success is recorded only by the fiber that owns the
\* row, under the acquisition in which its own execute of that job succeeded,
\* whatever lapsed, was reclaimed or was executed twice before.
THEOREM SuccessIsItsRunners == Spec => RecordedByItsRunner
<1>1. IInv /\ [Next]_vars =>
        [\A j \in Jobs : status[j] # "succeeded" /\ status'[j] = "succeeded" =>
            owner[j] \in earned /\ work[owner[j]] = j]_vars
  BY SuccessStep
<1> QED
  BY <1>1, InductiveInvariant, PTL DEF Spec, RecordedByItsRunner

\* For every job recorded as succeeded some execution of it succeeded; which fiber
\* recorded it is what SuccessIsItsRunners says.
THEOREM SuccessMeansRun == Spec => []SucceededJobsRan
<1>1. IInv => SucceededJobsRan
  BY DEF IInv
<1> QED
  BY <1>1, InductiveInvariant, PTL

\* A cancellation signal never stops an execution that holds its claim.
THEOREM CancellationIsSafe == Spec => []CancelledFibersLostTheirClaim
<1>1. IInv => CancelledFibersLostTheirClaim
  BY DEF IInv, SignalledLost, CancelledFibersLostTheirClaim, HoldsLive
<1> QED
  BY <1>1, InductiveInvariant, PTL

\* The cancellations map holds only entries of running executions.
THEOREM CancellationsDoNotLeak == Spec => []NoLeakedCancellations
<1>1. IInv => NoLeakedCancellations
  BY WorkerConstants DEF IInv, WorkerTypeOK, EntriesAreCurrent,
     NoLeakedCancellations, Fibers
<1> QED
  BY <1>1, InductiveInvariant, PTL

\* No step reopens a settled job.
THEOREM SettlementIsFinal == Spec => SettledStays
<1>1. IInv /\ [Next]_vars => SettledKept
  BY LedgerStep DEF IInv
<1>2. SettledKept => [\A j \in Jobs :
                        status[j] \in Settled => status'[j] = status[j]]_vars
  BY DEF SettledKept
<1> QED
  BY <1>1, <1>2, InductiveInvariant, PTL DEF Spec, SettledStays
-----------------------------------------------------------------------------
(* The refinement of JobLane *)

\* What the promise says of taking: a row that has not been inserted is blank, and
\* whatever runs or is executed has been claimed.
TakenInv ==
    /\ \A j \in Jobs : status[j] = "absent" =>
          session[j] = AnySession /\ attempts[j] = 0 /\ j \notin ran
    /\ \A f \in Fibers : pc[f] \in Holding => attempts[work[f]] > 0

lane == [j \in Jobs |-> LaneJob(j)]

\* A step of the worker that inserts or claims one job, or moves any number.
LaneStep ==
    \/ \E j \in Jobs : Lane!Insert(j) \/ Lane!Take(j)
    \/ \A j \in Jobs : Lane!Moves(LaneJob(j), LaneJob(j)')

\* A row that neither changes its status nor its claim is the job it was.
LEMMA SameJob ==
    ASSUME NEW j, status'[j] = status[j], session'[j] = session[j],
           owner'[j] = owner[j], (lease'[j] > 0) = (lease[j] > 0),
           attempts'[j] = attempts[j], (j \in ran') = (j \in ran)
    PROVE  LaneJob(j)' = LaneJob(j)
  BY DEF LaneJob

\* A row whose session, attempts and executions stay is the same job in another
\* state.
LEMMA MovedJob ==
    ASSUME NEW j, session'[j] = session[j],
           attempts'[j] = attempts[j], (j \in ran') = (j \in ran),
           NEW st, st = (IF status'[j] = "pending" THEN "waiting" ELSE status'[j]),
           NEW h, h = (IF status'[j] = "running" /\ lease'[j] > 0 THEN owner'[j]
                       ELSE NoOwner)
    PROVE  LaneJob(j)' = Lane!Moved(LaneJob(j), st, h)
  BY DEF LaneJob, Lane!Moved

\* What can be read off a job.
LEMMA JobFields ==
    ASSUME NEW j
    PROVE  /\ LaneJob(j).state = IF status[j] = "pending" THEN "waiting" ELSE status[j]
           /\ LaneJob(j).lane = session[j]
           /\ LaneJob(j).holder = IF status[j] = "running" /\ lease[j] > 0
                                  THEN owner[j] ELSE NoOwner
           /\ LaneJob(j).taken = (attempts[j] > 0)
           /\ LaneJob(j).ran = (j \in ran)
  BY DEF LaneJob

\* A step that leaves the table alone leaves the lanes alone.
LEMMA SameLanes ==
    ASSUME UNCHANGED <<ledgerVars, ran>>
    PROVE  LaneStep
  BY DEF LaneStep, Lane!Moves, LaneJob, ledgerVars

\* A job of the promise is one of its records.
LEMMA LaneTyped == ASSUME IInv, NEW j \in Jobs PROVE LaneJob(j) \in Lane!JobRecords
<1>1. /\ status[j] \in Statuses /\ session[j] \in Sessions \cup {AnySession}
      /\ owner[j] \in Owners \cup {NoOwner}
      /\ attempts[j] \in Nat
  BY LedgerConstants DEF IInv, LedgerInv, LedgerTypeOK
<1>2. (IF status[j] = "pending" THEN "waiting" ELSE status[j])
         \in Lane!States
  BY <1>1 DEF Statuses, Settled, Unsettled, Lane!States
<1> QED
  BY <1>1, <1>2 DEF LaneJob, Lane!JobRecords

\* A new row is a job that begins to wait.
LEMMA EnqueueLane ==
    ASSUME IInv, TakenInv, NEW s \in Sessions, NEW k \in Kinds, Enqueue(s, k),
           UNCHANGED ran
    PROVE  LaneStep
<1>1. PICK j \in Jobs :
        /\ status[j] = "absent"
        /\ status' = [status EXCEPT ![j] = "pending"]
        /\ session' = [session EXCEPT ![j] = s]
        /\ UNCHANGED <<owner, lease, attempts>>
  BY DEF Enqueue
<1>0. /\ session[j] = AnySession /\ (attempts[j] > 0) = FALSE
      /\ (j \in ran) = FALSE
      /\ status'[j] = "pending" /\ session'[j] = s
      /\ (attempts'[j] > 0) = FALSE /\ (j \in ran') = FALSE
  BY <1>1 DEF TakenInv, IInv, LedgerInv, LedgerTypeOK
<1>2. lane[j] = Lane!Absent
  <2>1. LaneJob(j) = Lane!Absent
    BY <1>0, <1>1 DEF LaneJob, Lane!Absent
  <2> QED
    BY <2>1 DEF lane
<1>3. LaneJob(j)' = [state |-> "waiting", lane |-> s, holder |-> NoOwner,
                     taken |-> FALSE, ran |-> FALSE]
  BY <1>0 DEF LaneJob
<1>4. \A i \in Jobs : i # j => LaneJob(i)' = LaneJob(i)
  BY <1>1 DEF IInv, LedgerInv, LedgerTypeOK, LaneJob
<1>5. lane' = [lane EXCEPT ![j] = [state |-> "waiting", lane |-> s,
                                   holder |-> NoOwner, taken |-> FALSE,
                                   ran |-> FALSE]]
  BY <1>3, <1>4 DEF lane
<1> QED
  BY <1>2, <1>5 DEF LaneStep, Lane!Insert, lane

\* A claim takes a job of a free lane.
LEMMA ClaimLane ==
    ASSUME IInv, NEW j \in Jobs, NEW o \in Owners, NEW minAge, NEW scp, NEW prk,
           NEW exc, ClaimNext(j, o, minAge, scp, prk, exc), UNCHANGED ran
    PROVE  LaneStep
<1>1. /\ status[j] \in {"pending", "waiting"}
      /\ \A i \in Jobs : session[i] = session[j] => status[i] # "running"
      /\ status' = [status EXCEPT ![j] = "running"]
      /\ owner' = [owner EXCEPT ![j] = o]
      /\ lease' = [lease EXCEPT ![j] = LeaseTicks]
      /\ attempts' = [attempts EXCEPT ![j] = IF @ < MaxAttempts THEN @ + 1 ELSE @]
      /\ UNCHANGED session
  BY DEF ClaimNext, Claimable, LaneFree
<1>2. attempts'[j] > 0
  BY <1>1, LedgerConstants DEF IInv, LedgerInv, LedgerTypeOK
<1>3. /\ lane[j].state = "waiting"
      /\ \A i \in Jobs : lane[i].lane = lane[j].lane => lane[i].state # "running"
  BY <1>1 DEF lane, LaneJob
<1>4. LaneJob(j)' = [state |-> "running", lane |-> LaneJob(j).lane, holder |-> o,
                     taken |-> TRUE, ran |-> LaneJob(j).ran]
  <2>1. /\ status'[j] = "running" /\ owner'[j] = o /\ lease'[j] > 0
        /\ session'[j] = session[j] /\ (attempts'[j] > 0) = TRUE
        /\ (j \in ran') = (j \in ran)
    BY <1>1, <1>2, LedgerConstants DEF IInv, LedgerInv, LedgerTypeOK
  <2> QED
    BY <2>1, JobFields DEF LaneJob
<1>5. \A i \in Jobs : i # j => LaneJob(i)' = LaneJob(i)
  BY <1>1 DEF IInv, LedgerInv, LedgerTypeOK, LaneJob
<1>6. lane' = [lane EXCEPT ![j] = [state |-> "running", lane |-> @.lane,
                                   holder |-> o, taken |-> TRUE, ran |-> @.ran]]
  BY <1>4, <1>5 DEF lane
<1> QED
  BY <1>3, <1>6 DEF LaneStep, Lane!Take, lane

\* A renewal keeps the claim that it requires.
LEMMA RenewLane ==
    ASSUME IInv, NEW j \in Jobs, NEW o, Renew(j, o), UNCHANGED ran
    PROVE  LaneStep
<1>1. \A i \in Jobs : (lease'[i] > 0) = (lease[i] > 0)
  BY LedgerConstants DEF IInv, LedgerInv, LedgerTypeOK, Renew, LiveClaim
<1>2. \A i \in Jobs : LaneJob(i)' = LaneJob(i)
  BY <1>1, SameJob DEF Renew
<1> QED
  BY <1>2 DEF LaneStep, Lane!Moves

\* Reclaiming gives back what nobody holds.
LEMMA ReclaimLane ==
    ASSUME IInv, ReclaimExpired, UNCHANGED ran
    PROVE  LaneStep
<1>1. SUFFICES ASSUME NEW j \in Jobs
               PROVE  Lane!Moves(LaneJob(j), LaneJob(j)')
  BY DEF LaneStep
<1>2. CASE status[j] = "running" /\ lease[j] = 0
  <2>1. /\ status'[j] = "pending"
        /\ session'[j] = session[j] /\ attempts'[j] = attempts[j]
        /\ (j \in ran') = (j \in ran)
    BY <1>2 DEF ReclaimExpired
  <2>2. LaneJob(j)' = Lane!Moved(LaneJob(j), "waiting", NoOwner)
    BY <2>1, MovedJob
  <2> QED
    BY <1>2, <2>2, JobFields DEF Lane!Moves, Lane!GiveBack
<1>3. CASE ~(status[j] = "running" /\ lease[j] = 0)
  BY <1>3, SameJob DEF ReclaimExpired, Lane!Moves
<1> QED
  BY <1>2, <1>3

\* A settlement finishes the job or gives it back, and needs the claim.
LEMMA ReleaseLane ==
    ASSUME IInv, NEW j \in Jobs, NEW o \in Owners,
           NEW st \in {"succeeded", "failed", "pending", "waiting"}, NEW delay,
           Release(j, o, st, delay), st = "succeeded" => j \in ran, UNCHANGED ran
    PROVE  LaneStep
<1>1. /\ status[j] = "running" /\ owner[j] = o /\ lease[j] > 0
      /\ status'[j] = st /\ lease'[j] = 0
      /\ session'[j] = session[j] /\ attempts'[j] = attempts[j]
      /\ o # NoOwner
  BY LedgerConstants DEF IInv, LedgerInv, LedgerTypeOK, Release, LiveClaim
<1>2. \A i \in Jobs : i # j => LaneJob(i)' = LaneJob(i)
  BY DEF IInv, LedgerInv, LedgerTypeOK, Release, LaneJob
<1>3. Lane!Moves(LaneJob(j), LaneJob(j)')
  <2>1. LaneJob(j).state = "running" /\ LaneJob(j).holder # NoOwner
        /\ LaneJob(j).ran = (j \in ran)
    BY <1>1, JobFields
  <2>2. LaneJob(j)' = Lane!Moved(LaneJob(j),
           IF st = "pending" THEN "waiting" ELSE st, NoOwner)
    BY <1>1, MovedJob
  <2> QED
    BY <2>1, <2>2 DEF Lane!Moves, Lane!GiveBack, Lane!Finish
<1> QED
  BY <1>2, <1>3 DEF LaneStep, Lane!Moves

\* What a command supersedes is cancelled, held or not.
LEMMA CancelLane ==
    ASSUME IInv, NEW s, NEW ks, CancelUnsettled(s, ks), UNCHANGED ran
    PROVE  LaneStep
<1>1. SUFFICES ASSUME NEW j \in Jobs
               PROVE  Lane!Moves(LaneJob(j), LaneJob(j)')
  BY DEF LaneStep
<1>2. CASE j \in UnsettledOf(s, ks)
  <2>1. /\ status[j] \in Unsettled /\ status'[j] = "cancelled"
        /\ session'[j] = session[j] /\ attempts'[j] = attempts[j]
    BY <1>2 DEF CancelUnsettled, UnsettledOf
  <2>2. LaneJob(j)' = Lane!Moved(LaneJob(j), "cancelled", NoOwner)
    BY <2>1, MovedJob
  <2> QED
    BY <2>1, <2>2, JobFields DEF Lane!Moves, Lane!Cancel, Unsettled
<1>3. CASE j \notin UnsettledOf(s, ks)
  BY <1>3, SameJob DEF CancelUnsettled, Lane!Moves
<1> QED
  BY <1>2, <1>3

\* After a process loss what ran waits again, or is cancelled.
LEMMA ReconcileLane ==
    ASSUME IInv, ReconcileAfterProcessLoss, UNCHANGED ran
    PROVE  LaneStep
<1>1. SUFFICES ASSUME NEW j \in Jobs
               PROVE  Lane!Moves(LaneJob(j), LaneJob(j)')
  BY DEF LaneStep
<1>2. /\ session'[j] = session[j] /\ attempts'[j] = attempts[j]
      /\ (j \in ran') = (j \in ran)
  BY DEF ReconcileAfterProcessLoss
<1>3. CASE status[j] \in {"running", "waiting"} /\ kind[j] \in ReplayableKinds
  <2>1. status'[j] = "pending"
    BY <1>3 DEF ReconcileAfterProcessLoss
  <2>2. LaneJob(j)' = Lane!Moved(LaneJob(j), "waiting", NoOwner)
    BY <1>2, <2>1, MovedJob
  <2>3. CASE status[j] = "running"
    BY <2>2, <2>3, JobFields DEF Lane!Moves, Lane!GiveBack
  <2>4. CASE status[j] = "waiting"
    BY <1>2, <2>1, <2>4 DEF Lane!Moves, LaneJob
  <2> QED
    BY <1>3, <2>3, <2>4
<1>4. CASE status[j] \in Unsettled /\ kind[j] \notin ReplayableKinds
  <2>1. status'[j] = "cancelled"
    BY <1>4 DEF ReconcileAfterProcessLoss
  <2>2. LaneJob(j)' = Lane!Moved(LaneJob(j), "cancelled", NoOwner)
    BY <1>2, <2>1, MovedJob
  <2> QED
    BY <1>4, <2>2, JobFields DEF Lane!Moves, Lane!Cancel, Unsettled
<1>5. CASE ~(status[j] \in {"running", "waiting"} /\ kind[j] \in ReplayableKinds)
           /\ ~(status[j] \in Unsettled /\ kind[j] \notin ReplayableKinds)
  BY <1>2, <1>5, SameJob DEF ReconcileAfterProcessLoss, Lane!Moves
<1> QED
  BY <1>3, <1>4, <1>5

\* As time passes, claims lapse.
LEMMA ElapseLane ==
    ASSUME IInv, Elapse, UNCHANGED ran
    PROVE  LaneStep
<1>1. SUFFICES ASSUME NEW j \in Jobs
               PROVE  Lane!Moves(LaneJob(j), LaneJob(j)')
  BY DEF LaneStep
<1>2. /\ lease[j] \in Nat /\ lease'[j] \in Nat
      /\ lease'[j] > 0 => lease[j] > 0
      /\ status'[j] = status[j] /\ session'[j] = session[j]
      /\ owner'[j] = owner[j] /\ attempts'[j] = attempts[j]
      /\ (j \in ran') = (j \in ran)
  BY LedgerConstants DEF Elapse, IInv, LedgerInv, LedgerTypeOK
<1>3. CASE lease'[j] > 0 \/ ~(lease[j] > 0)
  <2>1. (lease'[j] > 0) = (lease[j] > 0)
    BY <1>2, <1>3
  <2> QED
    BY <1>2, <2>1, SameJob DEF Lane!Moves
<1>4. CASE ~(lease'[j] > 0) /\ status[j] # "running"
  BY <1>2, <1>4 DEF Lane!Moves, LaneJob
<1>5. CASE /\ ~(lease'[j] > 0) /\ lease[j] > 0
           /\ status[j] = "running"
  <2>1. CASE owner[j] = NoOwner
    BY <1>2, <1>5, <2>1 DEF Lane!Moves, LaneJob
  <2>2. CASE owner[j] # NoOwner
    <3>1. LaneJob(j)' = Lane!Moved(LaneJob(j), "running", NoOwner)
      BY <1>2, <1>5, MovedJob
    <3> QED
      BY <1>5, <2>2, <3>1, JobFields DEF Lane!Moves, Lane!Lapse
  <2> QED
    BY <2>1, <2>2
<1> QED
  BY <1>3, <1>4, <1>5

\* An execution that ends is one of a job that was taken.
LEMMA ExecuteLane ==
    ASSUME IInv, TakenInv, NEW f \in Fibers, NEW e \in Exits, ExecuteEnds(f, e)
    PROVE  LaneStep
<1>1. SUFFICES ASSUME NEW j \in Jobs
               PROVE  Lane!Moves(LaneJob(j), LaneJob(j)')
  BY DEF LaneStep
<1>2. /\ UNCHANGED ledgerVars /\ attempts[work[f]] > 0
      /\ ran' \in {ran, ran \cup {work[f]}}
  BY DEF ExecuteEnds, TakenInv, Holding
<1>3. CASE (j \in ran') = (j \in ran)
  BY <1>2, <1>3, SameJob DEF Lane!Moves, ledgerVars
<1>4. CASE (j \in ran') # (j \in ran)
  <2>1. j = work[f] /\ j \in ran'
    BY <1>2, <1>4
  <2>2. (attempts[j] > 0) = TRUE /\ (attempts'[j] > 0) = TRUE /\ (j \in ran') = TRUE
        /\ status'[j] = status[j] /\ session'[j] = session[j]
        /\ owner'[j] = owner[j] /\ lease'[j] = lease[j]
    BY <1>2, <2>1 DEF ledgerVars
  <2>3. LaneJob(j)' = [state |-> LaneJob(j).state, lane |-> LaneJob(j).lane,
                       holder |-> LaneJob(j).holder, taken |-> TRUE, ran |-> TRUE]
    BY <2>2, JobFields DEF LaneJob
  <2> QED
    BY <2>2, <2>3, JobFields DEF Lane!Moves, Lane!Run
<1> QED
  BY <1>3, <1>4

\* Whatever is not an insertion or a claim leaves the sessions and the attempts
\* of the table alone, and no row disappears from it.
RowsStay ==
    /\ UNCHANGED <<session, attempts>>
    /\ \A j \in Jobs : status'[j] = "absent" => status[j] = "absent"

LEMMA StatementsKeepRows ==
    ASSUME IInv,
           \/ UNCHANGED ledgerVars \/ ReclaimExpired \/ ReconcileAfterProcessLoss
           \/ Elapse
           \/ \E s \in Sessions, ks \in CancelSets : CancelUnsettled(s, ks)
           \/ \E j \in Jobs, o \in Fibers : Renew(j, o)
           \/ \E j \in Jobs, o \in Fibers, delay \in Int, st \in
                 {"succeeded", "failed", "pending", "waiting"} :
                 Release(j, o, st, delay)
    PROVE  RowsStay
<1>0. LedgerTypeOK
  BY DEF IInv, LedgerInv
<1>1. CASE UNCHANGED ledgerVars
  BY <1>1 DEF ledgerVars, RowsStay
<1>2. CASE ReclaimExpired
  BY <1>2 DEF ReclaimExpired, RowsStay
<1>3. CASE ReconcileAfterProcessLoss
  BY <1>3 DEF ReconcileAfterProcessLoss, RowsStay
<1>4. CASE Elapse
  BY <1>4 DEF Elapse, RowsStay
<1>5. CASE \E s \in Sessions, ks \in CancelSets : CancelUnsettled(s, ks)
  BY <1>5 DEF CancelUnsettled, RowsStay
<1>6. CASE \E j \in Jobs, o \in Fibers : Renew(j, o)
  BY <1>6 DEF Renew, RowsStay
<1>7. CASE \E j \in Jobs, o \in Fibers, delay \in Int, st \in
              {"succeeded", "failed", "pending", "waiting"} :
              Release(j, o, st, delay)
  BY <1>0, <1>7 DEF Release, RowsStay, LedgerTypeOK
<1> QED
  BY <1>1, <1>2, <1>3, <1>4, <1>5, <1>6, <1>7

\* A step that keeps the rows and gives no fiber a job keeps what is known of
\* taking.
LEMMA TakenKept ==
    ASSUME TakenInv, RowsStay, UNCHANGED ran,
           \A f \in Fibers : pc'[f] \in Holding =>
              pc[f] \in Holding /\ work'[f] = work[f]
    PROVE  TakenInv'
  BY DEF TakenInv, RowsStay

\* What a settlement asks for is one of the four ends of runOnce, and it asks for
\* success only if the execution succeeded.
LEMMA SettlementEnds ==
    ASSUME NEW f
    PROVE  /\ SettledStatus(f) \in {"succeeded", "failed", "pending", "waiting"}
           /\ SettledStatus(f) = "succeeded" => exit[f] = "success"
  BY DEF SettledStatus

\* At the start the table is blank and nobody works.
LEMMA TakenInit == Init => TakenInv
  BY DEF Init, LedgerInit, TakenInv, Holding, Fibers

\* Every step keeps blank rows blank and the jobs of the fibers taken.
LEMMA TakenStep ==
    ASSUME IInv, TakenInv, [Next]_vars
    PROVE  TakenInv'
<1> USE DEF Holding
<1>0. /\ LedgerTypeOK /\ WorkMatchesPc
      /\ pc \in [Fibers -> PCs] /\ work \in [Fibers -> Jobs \cup {0}]
  BY DEF IInv, LedgerInv, WorkerTypeOK
<1>1. ASSUME NEW s \in Sessions, NEW k \in Kinds, CommandEnqueues(s, k)
      PROVE  TakenInv'
  BY <1>0, <1>1 DEF CommandEnqueues, Enqueue, workerVars, TakenInv, LedgerTypeOK
<1>2. ASSUME NEW s \in Sessions, NEW ks \in CancelSets, CommandCancels(s, ks)
      PROVE  TakenInv'
  BY <1>2, StatementsKeepRows, TakenKept DEF CommandCancels
<1>3. ASSUME NEW j \in Jobs, Cancel(j)
      PROVE  TakenInv'
  BY <1>3, StatementsKeepRows, TakenKept DEF Cancel
<1>4. CASE MarkReady
  BY <1>4, StatementsKeepRows, TakenKept DEF MarkReady
<1>5. ASSUME NEW d \in Drains,
             \/ \E s \in Sessions \cup {AnySession} : DrainStart(d, s)
             \/ DrainCheck(d) \/ DrainInterrupted(d)
      PROVE  TakenInv'
  BY <1>0, <1>5, StatementsKeepRows, TakenKept
     DEF DrainStart, DrainCheck, DrainInterrupted
<1>6. ASSUME NEW f \in Fibers, Reclaim(f)
      PROVE  TakenInv'
  BY <1>0, <1>6, StatementsKeepRows, TakenKept DEF Reclaim
<1>7. ASSUME NEW f \in Fibers, Claim(f)
      PROVE  TakenInv'
  <2>1. PICK j \in Jobs :
          /\ ClaimNext(j, f, MinAge(f), ScopeOf(f), ParkedFor(f), Excluded)
          /\ work' = [work EXCEPT ![f] = j]
    BY <1>7 DEF Claim
  <2>2. /\ status[j] # "absent" /\ session' = session /\ ran' = ran
        /\ status' = [status EXCEPT ![j] = "running"]
        /\ attempts' = [attempts EXCEPT ![j] = IF @ < MaxAttempts THEN @ + 1 ELSE @]
    BY <1>7, <2>1 DEF ClaimNext, Claimable, Claim
  <2>3. /\ attempts'[j] > 0
        /\ \A i \in Jobs : attempts[i] > 0 => attempts'[i] > 0
    BY <1>0, <2>2, LedgerConstants DEF LedgerTypeOK
  <2>4. \A i \in Jobs : status'[i] = "absent" =>
           i # j /\ status[i] = "absent" /\ attempts'[i] = attempts[i]
    BY <1>0, <2>2 DEF LedgerTypeOK
  <2>5. \A g \in Fibers : pc'[g] \in Holding => attempts'[work'[g]] > 0
    <3>1. SUFFICES ASSUME NEW g \in Fibers, pc'[g] \in Holding
                   PROVE  attempts'[work'[g]] > 0
      OBVIOUS
    <3>2. CASE g = f
      BY <1>0, <2>1, <2>3, <3>2
    <3>3. CASE g # f
      <4>1. pc[g] \in Holding /\ work'[g] = work[g]
        BY <1>0, <1>7, <2>1, <3>1, <3>3 DEF Claim
      <4>2. work[g] \in Jobs
        BY <1>0, <4>1 DEF WorkMatchesPc
      <4> QED
        BY <2>3, <4>1, <4>2 DEF TakenInv
    <3> QED
      BY <3>2, <3>3
  <2> QED
    BY <2>2, <2>4, <2>5 DEF TakenInv
<1>8. ASSUME NEW f \in Fibers, ClaimNothing(f) \/ Register(f) \/ ObserveCancel(f)
      PROVE  TakenInv'
  BY <1>0, <1>8, StatementsKeepRows, TakenKept
     DEF ClaimNothing, Register, ObserveCancel
<1>9. ASSUME NEW f \in Fibers, FirstRenew(f)
      PROVE  TakenInv'
  <2>1. work[f] \in Jobs
    BY <1>0, <1>9 DEF FirstRenew, WorkMatchesPc
  <2>2. RowsStay
    BY <1>9, <2>1, StatementsKeepRows DEF FirstRenew
  <2> QED
    BY <1>0, <1>9, <2>2, TakenKept DEF FirstRenew
<1>10. ASSUME NEW f \in Fibers, Heartbeat(f)
       PROVE  TakenInv'
  <2>1. work[f] \in Jobs
    BY <1>0, <1>10 DEF Heartbeat, WorkMatchesPc
  <2>2. RowsStay
    BY <1>10, <2>1, StatementsKeepRows DEF Heartbeat
  <2> QED
    BY <1>0, <1>10, <2>2, TakenKept DEF Heartbeat
<1>11. ASSUME NEW f \in Fibers, NEW e \in Exits, ExecuteEnds(f, e)
       PROVE  TakenInv'
  <2>1. UNCHANGED <<session, attempts, status, work>>
    BY <1>11 DEF ExecuteEnds, ledgerVars
  <2>2. work[f] \in Jobs /\ attempts[work[f]] > 0
    BY <1>0, <1>11 DEF ExecuteEnds, WorkMatchesPc, TakenInv
  <2>3. \A j \in Jobs : status[j] = "absent" => attempts[j] = 0
    BY DEF TakenInv
  <2>4. \A j \in ran' : j \in ran \/ j = work[f]
    BY <1>11 DEF ExecuteEnds
  <2>5. \A g \in Fibers : pc'[g] \in Holding => pc[g] \in Holding
    BY <1>0, <1>11 DEF ExecuteEnds
  <2>6. status[work[f]] # "absent"
    BY <2>2, <2>3
  <2> QED
    BY <2>1, <2>4, <2>5, <2>6 DEF TakenInv
<1>12. ASSUME NEW f \in Fibers, SettleJob(f)
       PROVE  TakenInv'
  <2>1. work[f] \in Jobs
    BY <1>0, <1>12 DEF SettleJob, WorkMatchesPc
  <2>2. RowsStay
    <3>1. attempts[work[f]] \in Nat
      BY <1>0, <2>1, LedgerConstants DEF LedgerTypeOK
    <3> DEFINE delay == IF SettledStatus(f) = "pending"
                        THEN RetryDelay(attempts[work[f]]) ELSE 0
    <3>2. delay \in Int
      BY <3>1, RetryDelayType
    <3>3. Release(work[f], f, SettledStatus(f), delay) \/ UNCHANGED ledgerVars
      BY <1>12 DEF SettleJob
    <3> HIDE DEF delay
    <3> QED
      BY <2>1, <3>2, <3>3, SettlementEnds, StatementsKeepRows
  <2> QED
    BY <1>0, <1>12, <2>2, TakenKept DEF SettleJob
<1>13. ASSUME NEW f \in Fibers, Cleanup(f) \/ LedgerError(f) \/ RenewError(f)
       PROVE  TakenInv'
  <2>1. RowsStay
    BY <1>13, StatementsKeepRows DEF Cleanup, LedgerError, RenewError
  <2> QED
    BY <1>0, <1>13, <2>1, TakenKept DEF Cleanup, LedgerError, RenewError, Finalize
<1>14. CASE Tick
  BY <1>14, StatementsKeepRows, TakenKept DEF Tick
<1>15. CASE Crash
  BY <1>15, StatementsKeepRows, TakenKept DEF Crash
<1>16. CASE Restart
  <2>1. RowsStay
    BY <1>16, StatementsKeepRows DEF Restart
  <2> QED
    BY <1>16, <2>1, TakenKept DEF Restart
<1>17. CASE UNCHANGED vars
  BY <1>17, StatementsKeepRows, TakenKept DEF vars, workerVars
<1> QED
  BY <1>1, <1>2, <1>3, <1>4, <1>5, <1>6, <1>7, <1>8, <1>9, <1>10, <1>11, <1>12,
     <1>13, <1>14, <1>15, <1>16, <1>17 DEF Next, Step

\* Every step of the worker is a step of the promise, or none.
LEMMA LaneStepped ==
    ASSUME IInv, TakenInv, [Next]_vars
    PROVE  LaneStep
<1>0. /\ LedgerTypeOK /\ WorkMatchesPc /\ SuccessIsEarned
      /\ Fibers = Owners
  BY WorkerConstants DEF IInv, LedgerInv, Fibers
<1>1. ASSUME NEW s \in Sessions, NEW k \in Kinds, CommandEnqueues(s, k)
      PROVE  LaneStep
  BY <1>1, EnqueueLane DEF CommandEnqueues, workerVars
<1>2. ASSUME NEW s \in Sessions, NEW ks \in CancelSets, CommandCancels(s, ks)
      PROVE  LaneStep
  BY <1>2, CancelLane DEF CommandCancels
<1>3. ASSUME NEW f \in Fibers, Reclaim(f)
      PROVE  LaneStep
  BY <1>3, ReclaimLane DEF Reclaim
<1>4. ASSUME NEW f \in Fibers, Claim(f)
      PROVE  LaneStep
  <2>1. PICK j \in Jobs :
          ClaimNext(j, f, MinAge(f), ScopeOf(f), ParkedFor(f), Excluded)
    BY <1>4 DEF Claim
  <2>2. UNCHANGED ran
    BY <1>4 DEF Claim
  <2> QED
    BY <1>0, <2>1, <2>2, ClaimLane
<1>5. ASSUME NEW f \in Fibers, FirstRenew(f) \/ Heartbeat(f)
      PROVE  LaneStep
  <2>1. work[f] \in Jobs
    BY <1>0, <1>5 DEF FirstRenew, Heartbeat, WorkMatchesPc, Holding
  <2>2. UNCHANGED ran
    BY <1>5 DEF FirstRenew, Heartbeat
  <2>3. CASE Renew(work[f], f)
    BY <2>1, <2>2, <2>3, RenewLane
  <2>4. CASE UNCHANGED ledgerVars
    BY <2>2, <2>4, SameLanes
  <2> QED
    BY <1>5, <2>3, <2>4 DEF FirstRenew, Heartbeat
<1>6. ASSUME NEW f \in Fibers, NEW e \in Exits, ExecuteEnds(f, e)
      PROVE  LaneStep
  BY <1>6, ExecuteLane
<1>7. ASSUME NEW f \in Fibers, SettleJob(f)
      PROVE  LaneStep
  <2>1. work[f] \in Jobs
    BY <1>0, <1>7 DEF SettleJob, WorkMatchesPc, Holding
  <2>2. UNCHANGED ran
    BY <1>7 DEF SettleJob
  <2> DEFINE delay == IF SettledStatus(f) = "pending"
                      THEN RetryDelay(attempts[work[f]]) ELSE 0
  <2>3. Release(work[f], f, SettledStatus(f), delay) \/ UNCHANGED ledgerVars
    BY <1>7 DEF SettleJob
  <2> HIDE DEF delay
  <2>4. CASE Release(work[f], f, SettledStatus(f), delay)
    <3>1. LiveClaim(work[f], f)
      BY <2>4 DEF Release
    <3>2. SettledStatus(f) = "succeeded" => work[f] \in ran
      BY <1>0, <1>7, <3>1, SettlementEnds DEF SuccessIsEarned, SettleJob
    <3> QED
      BY <1>0, <2>1, <2>2, <2>4, <3>2, SettlementEnds, ReleaseLane
  <2>5. CASE UNCHANGED ledgerVars
    BY <2>2, <2>5, SameLanes
  <2> QED
    BY <2>3, <2>4, <2>5
<1>8. CASE Tick
  BY <1>8, ElapseLane DEF Tick
<1>9. CASE Restart
  BY <1>9, ReconcileLane DEF Restart
<1>10. ASSUME \/ \E j \in Jobs : Cancel(j)
              \/ MarkReady \/ Crash \/ UNCHANGED vars
       PROVE  LaneStep
  BY <1>10, SameLanes DEF Cancel, MarkReady, Crash, vars, workerVars
<1>11. ASSUME NEW d \in Drains,
              \/ \E s \in Sessions \cup {AnySession} : DrainStart(d, s)
              \/ DrainCheck(d) \/ DrainInterrupted(d)
       PROVE  LaneStep
  BY <1>11, SameLanes DEF DrainStart, DrainCheck, DrainInterrupted
<1>12. ASSUME NEW f \in Fibers,
              \/ ClaimNothing(f) \/ Register(f) \/ ObserveCancel(f)
              \/ Cleanup(f) \/ LedgerError(f) \/ RenewError(f)
       PROVE  LaneStep
  BY <1>12, SameLanes DEF ClaimNothing, Register, ObserveCancel, Cleanup,
     LedgerError, RenewError
<1> QED
  BY <1>1, <1>2, <1>3, <1>4, <1>5, <1>6, <1>7, <1>8, <1>9, <1>10, <1>11, <1>12
     DEF Next, Step

\* The worker's fibers and the ledger together - claims that expire, heartbeats,
\* late settlements, cancellation signals, failing statements, process losses -
\* implement JobLane: one job of a session at a time, settled only under a live
\* claim, as succeeded only after it ran, and never again afterwards.
THEOREM WorkerKeepsLane == Spec => KeepsLane
<1>0. IInv' => (\A j \in Jobs : LaneJob(j) \in Lane!JobRecords)'
  <2>1. IInv => \A j \in Jobs : LaneJob(j) \in Lane!JobRecords
    BY LaneTyped
  <2> QED
    BY <2>1, PTL
<1>1. Init => Lane!Init
  <2>1. SUFFICES ASSUME Init, NEW j \in Jobs PROVE LaneJob(j) = Lane!Absent
    BY DEF Lane!Init
  <2>2. /\ status[j] = "absent" /\ session[j] = AnySession
        /\ (attempts[j] > 0) = FALSE /\ (j \in ran) = FALSE
    BY <2>1 DEF Init, LedgerInit
  <2> QED
    BY <2>2 DEF LaneJob, Lane!Absent
<1>2. IInv /\ IInv' /\ TakenInv /\ [Next]_vars => [Lane!Next]_lane
  <2>1. SUFFICES ASSUME IInv, IInv', TakenInv, [Next]_vars PROVE Lane!Next
    OBVIOUS
  <2>2. LaneStep
    BY <2>1, LaneStepped
  <2>3. lane' \in [Jobs -> Lane!JobRecords]
    BY <1>0, <2>1 DEF lane
  <2>4. CASE \E j \in Jobs : Lane!Insert(j) \/ Lane!Take(j)
    BY <2>4 DEF Lane!Next
  <2>5. CASE \A j \in Jobs : Lane!Moves(LaneJob(j), LaneJob(j)')
    BY <2>3, <2>5 DEF Lane!Next, lane
  <2> QED
    BY <2>2, <2>4, <2>5 DEF LaneStep
<1>3. IInv /\ TakenInv /\ [Next]_vars => TakenInv'
  BY TakenStep
<1>4. Init => TakenInv
  BY TakenInit
<1> QED
  BY <1>1, <1>2, <1>3, <1>4, InductiveInvariant, PTL
     DEF Spec, KeepsLane, Lane!Spec, lane
=============================================================================
