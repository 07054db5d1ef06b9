------------------------------ MODULE JobLedger ------------------------------
(***************************************************************************)
(* The durable job table of packages/domain/src/agent-engine/job-ledger.ts *)
(* and jobs.ts.  Every operation is one SQL statement, so one action.      *)
(*                                                                         *)
(* A job is identified with its AUTOINCREMENT sequence number: jobs are    *)
(* numbered in insertion order.  Timestamps are kept relative to the       *)
(* present: lease[j] is lease_expires_at - now (0 = expired, or NULL when  *)
(* the row is not running) and avail[j] is available_at - now, cut off at  *)
(* -GraceTicks because no caller asks for a larger age.                    *)
(***************************************************************************)
EXTENDS Integers, FiniteSets

CONSTANTS
    Sessions,         \* session ids
    Kinds,            \* JOB_KINDS
    ReplayableKinds,  \* REPLAYABLE_JOB_KINDS (all of Kinds today)
    Owners,           \* claim owners: lease_owner values
    NoOwner,          \* lease_owner IS NULL
    AnySession,       \* claimNext without a sessionId
    MaxJobs,          \* bound: rows ever inserted
    LeaseTicks,       \* leaseMs
    GraceTicks,       \* backgroundGraceMs
    MaxAttempts,      \* maxAttempts
    BaseDelay,        \* first retry delay (100 ms)
    MaxDelay          \* retry delay cap (30 s)

ASSUME LedgerConstants ==
    /\ MaxJobs \in Nat /\ LeaseTicks \in Nat \ {0} /\ GraceTicks \in Nat
    /\ MaxAttempts \in Nat \ {0} /\ BaseDelay \in Nat /\ MaxDelay \in Nat
    /\ ReplayableKinds \subseteq Kinds
    /\ NoOwner \notin Owners /\ AnySession \notin Sessions

VARIABLES
    status,    \* status of the row, "absent" before its insertion
    session,   \* session_id, AnySession before insertion
    kind,      \* kind, "none" before insertion
    owner,     \* lease_owner
    lease,     \* remaining lease ticks
    avail,     \* ticks until available_at (negative: available that long)
    attempts   \* attempt_count, saturated at MaxAttempts

ledgerVars == <<status, session, kind, owner, lease, avail, attempts>>

Jobs == 1..MaxJobs
Settled == {"succeeded", "failed", "cancelled"}
Unsettled == {"pending", "waiting", "running"}
Statuses == {"absent"} \cup Settled \cup Unsettled

LedgerTypeOK ==
    /\ status \in [Jobs -> Statuses]
    /\ session \in [Jobs -> Sessions \cup {AnySession}]
    /\ kind \in [Jobs -> Kinds \cup {"none"}]
    /\ owner \in [Jobs -> Owners \cup {NoOwner}]
    /\ lease \in [Jobs -> 0..LeaseTicks]
    /\ avail \in [Jobs -> Int]
    /\ attempts \in [Jobs -> 0..MaxAttempts]

LedgerInit ==
    /\ status = [j \in Jobs |-> "absent"]
    /\ session = [j \in Jobs |-> AnySession]
    /\ kind = [j \in Jobs |-> "none"]
    /\ owner = [j \in Jobs |-> NoOwner]
    /\ lease = [j \in Jobs |-> 0]
    /\ avail = [j \in Jobs |-> 0]
    /\ attempts = [j \in Jobs |-> 0]

\* The claim that renew, succeed, retry, hold and fail all require.
LiveClaim(j, o) == status[j] = "running" /\ owner[j] = o /\ lease[j] > 0

\* Re-inserting an existing id is ignored, so only the next sequence number
\* changes the table.
Enqueue(s, k) ==
    \E j \in Jobs :
        /\ status[j] = "absent"
        /\ \A i \in Jobs : i < j => status[i] # "absent"
        /\ status' = [status EXCEPT ![j] = "pending"]
        /\ session' = [session EXCEPT ![j] = s]
        /\ kind' = [kind EXCEPT ![j] = k]
        /\ avail' = [avail EXCEPT ![j] = 0]
        /\ UNCHANGED <<owner, lease, attempts>>

LaneFree(s) == \A i \in Jobs : session[i] = s => status[i] # "running"

Claimable_BusyLane(j, minAge, scope, parked, excluded) ==
    /\ \/ status[j] = "pending" /\ avail[j] <= -minAge
       \/ status[j] = "waiting" /\ j \in parked
    /\ scope \in {AnySession, session[j]}
    /\ kind[j] \notin excluded

\* The WHERE clause of claimNext's candidate; parked is the set of jobs that
\* satisfy updated_at < includeWaitingBefore.
Claimable(j, minAge, scope, parked, excluded) ==
    /\ \/ status[j] = "pending" /\ avail[j] <= -minAge
       \/ status[j] = "waiting" /\ j \in parked
    /\ scope \in {AnySession, session[j]}
    /\ kind[j] \notin excluded
    /\ LaneFree(session[j])

\* available_at is read only while a row is pending and set whenever a row
\* becomes pending, so its value is dropped here.
ClaimNext(j, o, minAge, scope, parked, excluded) ==
    /\ Claimable(j, minAge, scope, parked, excluded)
    /\ \A i \in Jobs : i < j => ~Claimable(i, minAge, scope, parked, excluded)
    /\ status' = [status EXCEPT ![j] = "running"]
    /\ owner' = [owner EXCEPT ![j] = o]
    /\ lease' = [lease EXCEPT ![j] = LeaseTicks]
    /\ avail' = [avail EXCEPT ![j] = 0]
    /\ attempts' = [attempts EXCEPT ![j] = IF @ < MaxAttempts THEN @ + 1 ELSE @]
    /\ UNCHANGED <<session, kind>>

NothingClaimable(minAge, scope, parked, excluded) ==
    \A j \in Jobs : ~Claimable(j, minAge, scope, parked, excluded)

Renew_FromOldExpiry(j, o) ==
    /\ LiveClaim(j, o)
    /\ lease' = [lease EXCEPT ![j] = @ + LeaseTicks]
    /\ UNCHANGED <<status, session, kind, owner, avail, attempts>>

Renew(j, o) ==
    /\ LiveClaim(j, o)
    /\ lease' = [lease EXCEPT ![j] = LeaseTicks]
    /\ UNCHANGED <<status, session, kind, owner, avail, attempts>>

ReclaimExpired_Never == UNCHANGED ledgerVars

ReclaimExpired ==
    LET expired == {j \in Jobs : status[j] = "running" /\ lease[j] = 0} IN
    /\ status' = [j \in Jobs |-> IF j \in expired THEN "pending" ELSE status[j]]
    /\ owner' = [j \in Jobs |-> IF j \in expired THEN NoOwner ELSE owner[j]]
    /\ avail' = [j \in Jobs |-> IF j \in expired THEN 0 ELSE avail[j]]
    /\ UNCHANGED <<session, kind, lease, attempts>>

Release_Unfenced(j, o, st, delay) ==
    /\ status[j] = "running"
    /\ status' = [status EXCEPT ![j] = st]
    /\ owner' = [owner EXCEPT ![j] = NoOwner]
    /\ lease' = [lease EXCEPT ![j] = 0]
    /\ avail' = [avail EXCEPT ![j] = delay]
    /\ UNCHANGED <<session, kind, attempts>>

\* succeed, retry, hold and fail: the row leaves "running" for st.
Release(j, o, st, delay) ==
    /\ LiveClaim(j, o)
    /\ status' = [status EXCEPT ![j] = st]
    /\ owner' = [owner EXCEPT ![j] = NoOwner]
    /\ lease' = [lease EXCEPT ![j] = 0]
    /\ avail' = [avail EXCEPT ![j] = delay]
    /\ UNCHANGED <<session, kind, attempts>>

UnsettledOf_AnyStatus(s, ks) == {j \in Jobs : session[j] = s /\ kind[j] \in ks}
UnsettledOf(s, ks) ==
    {j \in Jobs : session[j] = s /\ kind[j] \in ks /\ status[j] \in Unsettled}

CancelUnsettled(s, ks) ==
    LET gone == UnsettledOf(s, ks) IN
    /\ status' = [j \in Jobs |-> IF j \in gone THEN "cancelled" ELSE status[j]]
    /\ owner' = [j \in Jobs |-> IF j \in gone THEN NoOwner ELSE owner[j]]
    /\ lease' = [j \in Jobs |-> IF j \in gone THEN 0 ELSE lease[j]]
    /\ avail' = [j \in Jobs |-> IF j \in gone THEN 0 ELSE avail[j]]
    /\ UNCHANGED <<session, kind, attempts>>

ReconcileAfterProcessLoss ==
    LET requeued == {j \in Jobs : status[j] \in {"running", "waiting"}
                                    /\ kind[j] \in ReplayableKinds}
        dropped  == {j \in Jobs : status[j] \in Unsettled
                                    /\ kind[j] \notin ReplayableKinds}
        touched  == requeued \cup dropped
    IN
    /\ status' = [j \in Jobs |-> IF j \in requeued THEN "pending"
                                 ELSE IF j \in dropped THEN "cancelled"
                                 ELSE status[j]]
    /\ owner' = [j \in Jobs |-> IF j \in touched THEN NoOwner ELSE owner[j]]
    /\ lease' = [j \in Jobs |-> IF j \in touched THEN 0 ELSE lease[j]]
    /\ avail' = [j \in Jobs |-> IF j \in touched THEN 0 ELSE avail[j]]
    /\ UNCHANGED <<session, kind, attempts>>

HasRunning(s) == ~LaneFree(s)

\* The wall clock advances by one tick.
Elapse ==
    /\ lease' = [j \in Jobs |-> IF lease[j] > 0 THEN lease[j] - 1 ELSE 0]
    /\ avail' = [j \in Jobs |->
                   IF status[j] = "pending" /\ avail[j] > -GraceTicks
                   THEN avail[j] - 1 ELSE avail[j]]
    /\ UNCHANGED <<status, session, kind, owner, attempts>>

\* A session has at most one running job: claimNext's NOT EXISTS clause keeps
\* a lane exclusive whatever expires, is cancelled or is reconciled.
OneRunningPerSession ==
    \A i, j \in Jobs :
        /\ status[i] = "running" /\ status[j] = "running"
        /\ session[i] = session[j]
        => i = j
=============================================================================
