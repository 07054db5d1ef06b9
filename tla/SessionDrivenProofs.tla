------------------------ MODULE SessionDrivenProofs ------------------------
(***************************************************************************)
(* Proofs, for any number of messages, attempts, jobs, commands and        *)
(* disturbances, that a turn is not forgotten: while it is finalizing its  *)
(* capture is still to run, and while it is active somebody is going to    *)
(* move it.  Neither survives an archive and its undoing (a job that       *)
(* starts in between finds its attempt not active and ends), the second    *)
(* not a command sent again (its tail cancels the deliveries of a newer    *)
(* attempt): the theorems exclude those disturbances and admit all others, *)
(* a process loss at any point among them.                                 *)
(***************************************************************************)
EXTENDS SessionRuntimeProofs

-----------------------------------------------------------------------------
(* The inductive invariant.  Rows of the session's active attempt:         *)

Own(r) == r.turn = current /\ r.attempt = attempts[current]

\* the capture that is still to run,
Captures(r) ==
    /\ r.kind = "capture" /\ r.status \in Unsettled
    /\ r.step \in {"none", "capturing"}

\* the interrupt that is still to be answered or to finalize the turn,
AsksAt(kind, st, step) ==
    /\ kind = "interrupt" /\ st \in Unsettled
    /\ step \in {"none", "asked", "acked"}

\* the job, waiting, running or being unwound, that moves the turn on.
WorksAt(kind, st, step) ==
    \/ kind \in {"send", "recover"} /\ st \in Unsettled /\ step # "settled"
    \/ kind = "send" /\ step \in {"begun", "sending", "delivered", "unknown"}
    \/ kind = "interrupt" /\ st = "running" /\ step = "refused"

Asks(r) == AsksAt(r.kind, r.status, r.step)
Works(r) == WorksAt(r.kind, r.status, r.step)

\* A job of an active turn's attempt has not settled the turn, nor given up
\* the delivery of its input.
PendingAt(kind, st, step, mark) ==
    /\ kind \in {"send", "recover", "interrupt"} => step # "settled"
    /\ kind = "send" => /\ mark # "unknown"
                        /\ mark = "completed" => st \notin Unsettled

Pending(r) == PendingAt(r.kind, r.status, r.step, r.journal)

Active == current # None /\ turnStatus[current] = "active"
LeaseIsOurs == lease = <<current, attempts[current]>>

CaptureInv ==
    /\ life = "live"
    /\ current # None /\ turnStatus[current] = "finalizing" =>
          \E i \in 1..Len(jobs) : Own(jobs[i]) /\ Captures(jobs[i])

\* Jobs but successor starts belong to attempts that were started.
RowsAreStarted ==
    \A i \in 1..Len(jobs) :
        jobs[i].kind # "successor" => jobs[i].attempt <= attempts[jobs[i].turn]

NothingSettled ==
    Active => \A i \in 1..Len(jobs) : Own(jobs[i]) => Pending(jobs[i])

\* What the provider accepted has the ingestion lease.
DeliveredIsLeased ==
    Active => \A i \in 1..Len(jobs) :
                  /\ Own(jobs[i]) /\ jobs[i].kind = "send"
                  /\ jobs[i].step = "delivered"
                  => LeaseIsOurs

Interrupted ==
    Active /\ phase # "running" =>
        \E i \in 1..Len(jobs) : Own(jobs[i]) /\ Asks(jobs[i])

Unrequested ==
    \A i \in 1..Len(jobs) : ~(jobs[i].kind = "send" /\ jobs[i].turn = current)

Driven ==
    Active /\ phase = "running" =>
        \/ Unrequested \/ status = "error" \/ LeaseIsOurs
        \/ \E i \in 1..Len(jobs) : Own(jobs[i]) /\ Works(jobs[i])

DriveInv ==
    /\ life = "live"
    /\ RowsAreStarted /\ NothingSettled /\ DeliveredIsLeased
    /\ Interrupted /\ Driven

-----------------------------------------------------------------------------
(* Job rows, field by field.                                               *)

\* The keys and the outcome of the rows of js are those of the table's.
SameKeys(js) ==
    /\ js \in Seq(Jobs)
    /\ \A k \in 1..Len(jobs) : /\ js[k].kind = jobs[k].kind
                               /\ js[k].turn = jobs[k].turn
                               /\ js[k].attempt = jobs[k].attempt

\* A fiber's step on its own row.
LEMMA RowFields ==
    ASSUME jobs \in Seq(Jobs), NEW i \in DOMAIN jobs, NEW st \in JobStatuses,
           NEW s \in Steps, NEW mark \in Journal
    PROVE  /\ SameKeys(Row(i, st, s, mark))
           /\ Len(Row(i, st, s, mark)) = Len(jobs)
           /\ Row(i, st, s, mark)[i].status = st
           /\ Row(i, st, s, mark)[i].step = s
           /\ Row(i, st, s, mark)[i].journal = mark
           /\ \A k \in 1..Len(jobs) : k # i => Row(i, st, s, mark)[k] = jobs[k]
<1> DEFINE r == [jobs[i] EXCEPT !.status = st, !.step = s, !.journal = mark]
<1>1. i \in 1..Len(jobs) /\ jobs[i] \in Jobs
  BY RowsAreJobs
<1>2. /\ r \in Jobs /\ r.kind = jobs[i].kind /\ r.turn = jobs[i].turn
      /\ r.attempt = jobs[i].attempt /\ r.status = st /\ r.step = s
      /\ r.journal = mark
  BY <1>1 DEF Jobs
<1>3. Row(i, st, s, mark) = [jobs EXCEPT ![i] = r]
  BY DEF Row
<1> HIDE DEF r
<1>4. /\ [jobs EXCEPT ![i] = r] \in Seq(Jobs)
      /\ Len([jobs EXCEPT ![i] = r]) = Len(jobs)
      /\ \A k \in 1..Len(jobs) :
            [jobs EXCEPT ![i] = r][k] = IF k = i THEN r ELSE jobs[k]
  BY <1>1, <1>2
<1> QED
  BY <1>1, <1>2, <1>3, <1>4 DEF SameKeys

\* Cancelling changes the status of unsettled rows of the given kinds.
LEMMA CancelFields ==
    ASSUME NEW js \in Seq(Jobs), NEW kinds
    PROVE  /\ CancelUnsettled(js, kinds) \in Seq(Jobs)
           /\ Len(CancelUnsettled(js, kinds)) = Len(js)
           /\ \A k \in 1..Len(js) :
                 LET r == CancelUnsettled(js, kinds)[k]
                 IN  /\ r.kind = js[k].kind /\ r.turn = js[k].turn
                     /\ r.attempt = js[k].attempt /\ r.step = js[k].step
                     /\ r.journal = js[k].journal
                     /\ js[k].kind \notin kinds => r = js[k]
                     /\ r.status \in {js[k].status, "cancelled"}
<1> DEFINE F(i) == IF js[i].kind \in kinds /\ js[i].status \in Unsettled
                   THEN [js[i] EXCEPT !.status = "cancelled"]
                   ELSE js[i]
           ks == [i \in DOMAIN js |-> F(i)]
<1>1. /\ DOMAIN js = 1..Len(js) /\ \A i \in 1..Len(js) : js[i] \in Jobs
  BY RowsAreJobs
<1>2. \A i \in 1..Len(js) :
        /\ F(i) \in Jobs /\ F(i).kind = js[i].kind
        /\ F(i).turn = js[i].turn /\ F(i).attempt = js[i].attempt
        /\ F(i).step = js[i].step /\ F(i).journal = js[i].journal
        /\ F(i).status \in {js[i].status, "cancelled"}
        /\ js[i].kind \notin kinds => F(i) = js[i]
  BY <1>1 DEF Jobs, JobStatuses
<1>3. \A i \in 1..Len(js) : ks[i] = F(i)
  BY <1>1
<1>4. ks = CancelUnsettled(js, kinds)
  BY DEF CancelUnsettled
<1> HIDE DEF F
<1>5. ks \in Seq(Jobs) /\ Len(ks) = Len(js)
  BY <1>1, <1>2
<1> QED
  BY <1>2, <1>3, <1>4, <1>5

\* Boot reconciliation keeps unsettled rows unsettled and forgets the fibers.
LEMMA RequeuedFields ==
    ASSUME jobs \in Seq(Jobs)
    PROVE  /\ SameKeys(Requeued) /\ Len(Requeued) = Len(jobs)
           /\ \A k \in 1..Len(jobs) :
                 /\ Requeued[k].step = "none"
                 /\ Requeued[k].journal = jobs[k].journal
                 /\ Requeued[k].status = IF jobs[k].status \in {"running",
                                                              "waiting"}
                                         THEN "pending" ELSE jobs[k].status
<1> DEFINE F(i) == [jobs[i] EXCEPT !.status = IF @ \in {"running", "waiting"}
                                             THEN "pending" ELSE @,
                                   !.step = "none"]
           ks == [i \in DOMAIN jobs |-> F(i)]
<1>1. /\ DOMAIN jobs = 1..Len(jobs) /\ \A i \in 1..Len(jobs) : jobs[i] \in Jobs
  BY RowsAreJobs
<1>2. \A i \in 1..Len(jobs) :
        /\ F(i) \in Jobs /\ F(i).kind = jobs[i].kind
        /\ F(i).turn = jobs[i].turn /\ F(i).attempt = jobs[i].attempt
        /\ F(i).step = "none" /\ F(i).journal = jobs[i].journal
        /\ F(i).status = IF jobs[i].status \in {"running", "waiting"}
                         THEN "pending" ELSE jobs[i].status
  BY <1>1 DEF Jobs, JobStatuses, Steps
<1>3. \A i \in 1..Len(jobs) : ks[i] = F(i)
  BY <1>1
<1>4. ks = Requeued
  BY DEF Requeued
<1> HIDE DEF F
<1>5. ks \in Seq(Jobs) /\ Len(ks) = Len(jobs)
  BY <1>1, <1>2
<1> QED
  BY <1>2, <1>3, <1>4, <1>5 DEF SameKeys

\* A new job is the last row.
LEMMA EnqueueFields ==
    ASSUME NEW js \in Seq(Jobs), NEW r \in Jobs
    PROVE  /\ Enqueue(js, r) \in Seq(Jobs)
           /\ Len(Enqueue(js, r)) = Len(js) + 1
           /\ Enqueue(js, r)[Len(js) + 1] = r
           /\ \A k \in 1..Len(js) : Enqueue(js, r)[k] = js[k]
  BY DEF Enqueue

-----------------------------------------------------------------------------
(* The capture of a finalizing turn.                                       *)

\* js still holds the capture of the current attempt, if there is one.
Carries(js) ==
    /\ js \in Seq(Jobs) /\ Len(js) >= Len(jobs)
    /\ \A k \in 1..Len(jobs) : Own(jobs[k]) /\ Captures(jobs[k]) =>
                                   Own(js[k]) /\ Captures(js[k])

\* A fiber's step on a row that is no capture, or that stays one to be run.
LEMMA RowCarries ==
    ASSUME jobs \in Seq(Jobs), NEW i \in DOMAIN jobs, NEW st \in JobStatuses,
           NEW s \in Steps, NEW mark \in Journal,
           Own(jobs[i]) /\ Captures(jobs[i]) =>
               st \in Unsettled /\ s \in {"none", "capturing"}
    PROVE  Carries(Row(i, st, s, mark))
<1>1. \A k \in 1..Len(jobs) : k = i \/ Row(i, st, s, mark)[k] = jobs[k]
  BY RowFields
<1>2. /\ Row(i, st, s, mark)[i].status = st
      /\ Row(i, st, s, mark)[i].step = s
      /\ SameKeys(Row(i, st, s, mark))
      /\ Len(Row(i, st, s, mark)) = Len(jobs) /\ Len(jobs) \in Nat
  BY RowFields, RowsAreJobs
<1> QED
  BY <1>1, <1>2 DEF Carries, SameKeys, Own, Captures

\* Commands that cancel leave captures alone.
LEMMA CancelCarries ==
    ASSUME jobs \in Seq(Jobs), NEW kinds, "capture" \notin kinds
    PROVE  Carries(CancelUnsettled(jobs, kinds))
<1>1. \A k \in 1..Len(jobs) :
          jobs[k].kind = "capture" => CancelUnsettled(jobs, kinds)[k] = jobs[k]
  BY CancelFields
<1>2. /\ CancelUnsettled(jobs, kinds) \in Seq(Jobs) /\ Len(jobs) \in Nat
      /\ Len(CancelUnsettled(jobs, kinds)) = Len(jobs)
  BY CancelFields, RowsAreJobs
<1> QED
  BY <1>1, <1>2 DEF Carries, Own, Captures

\* Boot reconciliation requeues them.
LEMMA RequeuedCarries ==
    ASSUME jobs \in Seq(Jobs)
    PROVE  Carries(Requeued)
<1>1. Len(jobs) \in Nat
  BY RowsAreJobs
<1> QED
  BY <1>1, RequeuedFields DEF Carries, SameKeys, Own, Captures, Unsettled

\* So does a command that asks for another job.
LEMMA EnqueueCarries ==
    ASSUME jobs \in Seq(Jobs), NEW js, Carries(js), NEW r \in Jobs
    PROVE  Carries(Enqueue(js, r))
<1>1. Len(jobs) \in Nat /\ Len(js) \in Nat /\ js \in Seq(Jobs)
  BY RowsAreJobs DEF Carries
<1>2. /\ Enqueue(js, r) \in Seq(Jobs) /\ Len(Enqueue(js, r)) = Len(js) + 1
      /\ \A k \in 1..Len(jobs) : Enqueue(js, r)[k] = js[k]
  <2>1. \A k \in 1..Len(jobs) : k \in 1..Len(js)
    BY <1>1 DEF Carries
  <2> QED
    BY <1>1, <2>1, EnqueueFields
<1> QED
  BY <1>1, <1>2 DEF Carries

\* A step that carries the capture and leaves the turn alone.
LEMMA CarriedKeepsCapture ==
    ASSUME CaptureInv, jobs \in Seq(Jobs), Carries(jobs'),
           UNCHANGED <<current, turnStatus, attempts, life>>
    PROVE  CaptureInv'
<1>1. Len(jobs) \in Nat /\ Len(jobs') \in Nat
  BY RowsAreJobs DEF Carries
<1>2. \A k \in 1..Len(jobs) : Own(jobs[k]) /\ Captures(jobs[k]) =>
          k \in 1..Len(jobs') /\ Own(jobs[k]') /\ Captures(jobs[k]')
  BY <1>1 DEF Carries
<1>3. \A k \in 1..Len(jobs) : Own(jobs[k]') => Own(jobs[k])'
  BY DEF Own
<1>4. \A k \in 1..Len(jobs) : Captures(jobs[k]') => Captures(jobs[k])'
  BY DEF Captures
<1> QED
  BY <1>2, <1>3, <1>4 DEF CaptureInv

\* FinalizeTurn enqueues the capture, or finds it there.
LEMMA FinalizeKeepsCapture ==
    ASSUME CaptureInv, TurnInv, jobs \in Seq(Jobs), NEW outcome \in Outcomes,
           NEW js, Carries(js), Finalize(outcome, js)
    PROVE  CaptureInv'
<1>1. UNCHANGED <<current, attempts, life>> /\ current # None
  BY DEF Finalize
<1>2. current \in Messages /\ attempts[current] \in 1..MaxAttempts
  BY <1>1, CurrentHasAttempt
<1>3. CASE turnStatus[current] = "finalizing"
  <2>1. jobs' = js /\ UNCHANGED turnStatus
    BY <1>3 DEF Finalize
  <2>2. Carries(jobs')
    BY <2>1, Zenon
  <2> QED
    BY <1>1, <2>1, <2>2, CarriedKeepsCapture
<1>4. CASE turnStatus[current] = "active"
  <2> DEFINE r == NewJob("capture", current, attempts[current], outcome)
  <2>1. jobs' = Enqueue(js, r)
    BY <1>4 DEF Finalize
  <2>2. r \in Jobs
    BY <1>2, NewJobType DEF Kinds
  <2>3. Own(r) /\ Captures(r)
    BY DEF Own, Captures, NewJob, Unsettled
  <2> HIDE DEF r
  <2>4. Len(jobs') = Len(js) + 1 /\ jobs'[Len(js) + 1] = r /\ Len(js) \in Nat
    BY <2>1, <2>2, EnqueueFields, RowsAreJobs DEF Carries
  <2>5. Own(jobs[Len(js) + 1])' /\ Captures(jobs[Len(js) + 1])'
    BY <1>1, <2>3, <2>4 DEF Own, Captures
  <2> QED
    BY <1>1, <2>4, <2>5 DEF CaptureInv
<1> QED
  BY <1>3, <1>4 DEF Finalize

\* Where no turn is finalizing there is nothing to capture.
LEMMA NotFinalizing ==
    ASSUME CaptureInv, UNCHANGED life,
           current' = None \/ turnStatus'[current'] # "finalizing"
    PROVE  CaptureInv'
  BY DEF CaptureInv

\* A submitted turn is active,
LEMMA SubmitKeepsCapture ==
    ASSUME CaptureInv, TurnInv, NEW m \in Messages, NEW js, SubmitTurn(m, js)
    PROVE  CaptureInv'
<1>1. current' = m /\ turnStatus'[m] = "active" /\ UNCHANGED life
  BY DEF SubmitTurn, TurnStarted, TurnInv, TurnType
<1> QED
  BY <1>1, NotFinalizing

\* a turn with a new attempt too,
LEMMA AttemptKeepsCapture ==
    ASSUME CaptureInv, NEW js, RetryTurn(js) \/ RecoverTurn(js)
    PROVE  CaptureInv'
<1>1. /\ UNCHANGED <<current, turnStatus, life>>
      /\ turnStatus[current] = "active"
  BY DEF RetryTurn, RecoverTurn, Recoverable, StartAttempt
<1> QED
  BY <1>1, NotFinalizing

\* and after a settlement there is no turn.
LEMMA SettleKeepsCapture ==
    ASSUME CaptureInv, NEW outcome, NEW js, SettleTurn(outcome, js)
    PROVE  CaptureInv'
<1>1. current' = None /\ UNCHANGED life
  BY DEF SettleTurn, TurnSettled
<1> QED
  BY <1>1, NotFinalizing

\* The table itself, and what StopDelivery makes of it, carry the capture.
LEMMA TableCarries ==
    ASSUME jobs \in Seq(Jobs)
    PROVE  Carries(jobs) /\ Carries(StopDelivery(jobs))
<1>1. Carries(jobs)
  <2>1. Len(jobs) \in Nat
    BY RowsAreJobs
  <2> QED
    BY <2>1 DEF Carries
<1>2. Carries(StopDelivery(jobs))
  BY CancelCarries DEF StopDelivery
<1> QED
  BY <1>1, <1>2

\* A command that asks for an interrupt or a successor carries the capture.
LEMMA QuietCarries ==
    ASSUME jobs \in Seq(Jobs), NEW js, Carries(js), Quiet(js)
    PROVE  Carries(jobs')
<1>1. CASE jobs' = js
  BY <1>1, Zenon
<1>2. CASE \E r \in Jobs : jobs' = Enqueue(js, r)
  <2>1. PICK r \in Jobs : jobs' = Enqueue(js, r)
    BY <1>2
  <2>2. Carries(Enqueue(js, r))
    BY EnqueueCarries
  <2> QED
    BY <2>1, <2>2, Zenon
<1> QED
  BY <1>1, <1>2 DEF Quiet

\* Clients' steps keep the capture.
LEMMA ClientKeepsCapture ==
    ASSUME CaptureInv, IInv, "archive" \notin Faults, Client
    PROVE  CaptureInv'
<1>0. /\ TurnInv /\ jobs \in Seq(Jobs)
      /\ Carries(jobs) /\ Carries(StopDelivery(jobs))
  BY TableCarries DEF IInv, DeliveryInv, DeliveryType
<1>1. ASSUME NEW m \in Messages, SendMessage(m)
      PROVE  CaptureInv'
  BY <1>0, <1>1, SubmitKeepsCapture DEF SendMessage
<1>2. CASE ReleaseFirstTurn
  <2> DEFINE r == NewJob("send", current, attempts[current], "none")
  <2>1. /\ UNCHANGED <<current, turnStatus, attempts, life>> /\ current # None
        /\ jobs' = Enqueue(jobs, r)
    BY <1>2 DEF ReleaseFirstTurn, ReleaseInitialTurn, turnVars
  <2>2. r \in Jobs
    BY <1>0, <2>1, CurrentHasAttempt, NewJobType DEF Kinds, Outcomes
  <2> HIDE DEF r
  <2>3. Carries(Enqueue(jobs, r))
    BY <1>0, <2>2, EnqueueCarries
  <2>4. Carries(jobs')
    BY <2>1, <2>3, Zenon
  <2> QED
    BY <1>0, <2>1, <2>4, CarriedKeepsCapture
<1>3. ASSUME NEW c \in Commands, InterruptSession(c)
      PROVE  CaptureInv'
  <2>1. UNCHANGED <<current, turnStatus, attempts, life>>
    BY <1>3 DEF InterruptSession, RequestTurnInterrupt, TurnPhase, turnVars
  <2>2. CASE RequestTurnInterrupt(jobs)
    BY <1>0, <2>1, <2>2, InterruptIsQuiet, QuietCarries, CarriedKeepsCapture
  <2>3. CASE UNCHANGED jobs
    <3>1. Carries(jobs')
      BY <1>0, <2>3, Zenon
    <3> QED
      BY <1>0, <2>1, <3>1, CarriedKeepsCapture
  <2> QED
    BY <1>3, <2>2, <2>3 DEF InterruptSession
<1>5. ASSUME NEW c \in Commands, NEW m \in Messages, RunQueuedMessageNext(c, m)
      PROVE  CaptureInv'
  <2>1. SteerQueuedTurn(m, jobs) \/ SteerAfterSettlement(m, jobs)
    BY <1>5 DEF RunQueuedMessageNext
  <2>2. UNCHANGED <<current, turnStatus, attempts, life>>
    BY <2>1 DEF SteerQueuedTurn, SteerAfterSettlement, turnVars, TurnPhase
  <2> QED
    BY <1>0, <2>1, <2>2, SteerIsQuiet, QuietCarries, CarriedKeepsCapture
<1>6. ASSUME NEW c \in Commands, DispatchAgain(c)
      PROVE  CaptureInv'
  <2>1. /\ jobs' = StopDelivery(jobs)
        /\ UNCHANGED <<current, turnStatus, attempts, life>>
    BY <1>6 DEF DispatchAgain, turnVars
  <2>2. Carries(jobs')
    BY <1>0, <2>1, Zenon
  <2> QED
    BY <1>0, <2>1, <2>2, CarriedKeepsCapture
<1>7. CASE ResumeSession
  <2>1. RestartSession
    BY <1>7 DEF ResumeSession
  <2>2. CASE RetryTurn(jobs)
    BY <2>2, AttemptKeepsCapture
  <2>3. CASE Finalize("ended", jobs)
    BY <1>0, <2>3, FinalizeKeepsCapture DEF Outcomes
  <2>4. CASE current = None /\ UNCHANGED <<turnVars, life>>
    BY <2>4, NotFinalizing DEF turnVars
  <2> QED
    BY <2>1, <2>2, <2>3, <2>4 DEF RestartSession
<1>8. ~Archive /\ ~Unarchive
  BY DEF Archive, Disturb, Unarchive, ArchiveSession, CaptureInv
<1>9. CASE PauseAfterInterrupt
  <2>1. UNCHANGED <<current, turnStatus, attempts, life, jobs>>
    BY <1>9 DEF PauseAfterInterrupt, SetQueuePaused, sessionVars, turnVars
  <2>2. Carries(jobs')
    BY <1>0, <2>1, Zenon
  <2> QED
    BY <1>0, <2>1, <2>2, CarriedKeepsCapture
<1> QED
  BY <1>1, <1>2, <1>3, <1>5, <1>6, <1>7, <1>8, <1>9 DEF Client

\* The queue service's steps keep the capture.
LEMMA QueueKeepsCapture ==
    ASSUME CaptureInv, IInv, QueueService
    PROVE  CaptureInv'
<1>0. /\ TurnInv /\ jobs \in Seq(Jobs) /\ Carries(jobs)
      /\ claimed \in Messages \cup {None}
  BY TableCarries DEF IInv, DeliveryInv, DeliveryType, RestType
<1>1. CASE UNCHANGED <<turnVars, life, jobs>>
  <2>1. UNCHANGED <<current, turnStatus, attempts, life, jobs>>
    BY <1>1 DEF turnVars
  <2>2. Carries(jobs')
    BY <1>0, <2>1, Zenon
  <2> QED
    BY <1>0, <2>1, <2>2, CarriedKeepsCapture
<1>2. CASE claimed # None /\ SubmitTurn(claimed, jobs)
  BY <1>0, <1>2, SubmitKeepsCapture
<1>3. \/ UNCHANGED <<turnVars, life, jobs>>
      \/ claimed # None /\ SubmitTurn(claimed, jobs)
  <2>1. ASSUME NEW m \in Messages,
               \/ EnqueueMessage(m) \/ RemoveQueuedMessage(m)
               \/ RegainAccess(m) \/ FlushHead(m)
               \/ RunQueuedMessageWhileIdle(m)
        PROVE  UNCHANGED <<turnVars, life, jobs>>
    BY <2>1 DEF EnqueueMessage, EnqueueTurn, RemoveQueuedMessage,
                RegainAccess, UpdateQueuedTurn, SetQueuePaused, FlushHead,
                ClaimQueuedTurn, RunQueuedMessageWhileIdle
  <2>2. ResumeQueue => UNCHANGED <<turnVars, life, jobs>>
    BY DEF ResumeQueue, SetQueuePaused
  <2>3. SendClaimed => \/ UNCHANGED <<turnVars, life, jobs>>
                       \/ claimed # None /\ SubmitTurn(claimed, jobs)
    BY DEF SendClaimed, EnqueueTurn
  <2> QED
    BY <2>1, <2>2, <2>3 DEF QueueService
<1> QED
  BY <1>1, <1>2, <1>3

\* The executor's steps keep the capture: the fiber of the capture itself ends
\* without settling the turn only if the attempt is no longer the active one.
LEMMA ExecuteKeepsCapture ==
    ASSUME CaptureInv, IInv, NEW i \in DOMAIN jobs, Claim(i) \/ Execute(i)
    PROVE  CaptureInv'
<1>0. /\ TurnInv /\ DeliveryInv /\ jobs \in Seq(Jobs)
      /\ jobs[i].status \in JobStatuses /\ jobs[i].journal \in Journal
      /\ jobs[i].turn \in Messages /\ jobs[i].outcome \in Outcomes
      /\ life = "live"
  BY OwnRow DEF IInv, DeliveryInv, DeliveryType, CaptureInv
<1>1. ASSUME NEW st \in JobStatuses, NEW s \in Steps, NEW mark \in Journal,
             jobs' = Row(i, st, s, mark),
             Own(jobs[i]) /\ Captures(jobs[i]) =>
                 st \in Unsettled /\ s \in {"none", "capturing"},
             UNCHANGED <<current, turnStatus, attempts, life>>
      PROVE  CaptureInv'
  <2>1. Carries(jobs')
    <3>1. Carries(Row(i, st, s, mark))
      BY <1>0, <1>1, RowCarries
    <3> QED
      BY <1>1, <3>1, Zenon
  <2> QED
    BY <1>0, <1>1, <2>1, CarriedKeepsCapture
<1>2. ASSUME jobs[i].kind # "capture", NEW st \in JobStatuses, NEW s \in Steps,
             NEW mark \in Journal
      PROVE  Carries(Row(i, st, s, mark))
  BY <1>0, <1>2, RowCarries DEF Captures
<1>3. ASSUME jobs[i].kind # "capture"
      PROVE  Carries(Step(i, "settled"))
  BY <1>0, <1>2, <1>3 DEF Step, Steps
<1>4. CASE Claim(i)
  <2>1. /\ jobs' = Row(i, "running", "none", jobs[i].journal)
        /\ UNCHANGED <<current, turnStatus, attempts, life>>
    BY <1>4 DEF Claim, OnlyJobs, turnVars
  <2> QED
    BY <1>0, <1>1, <2>1 DEF JobStatuses, Steps, Unsettled
<1>5. CASE Check(i)
  <2>1. /\ UNCHANGED <<current, turnStatus, attempts, life>>
        /\ jobs[i].status = "running"
    BY <1>5 DEF Check, OnlyJobs, turnVars, At
  <2>2. CASE ~Mine(i) /\ jobs' = Succeed(i)
    <3>1. ~Own(jobs[i])
      BY <1>0, <2>2 DEF Mine, IsActiveAttempt, Own
    <3> QED
      BY <1>0, <1>1, <2>1, <2>2, <3>1 DEF Succeed, JobStatuses, Steps
  <2>3. CASE \E s \in {"checked", "asked"} :
                jobs' = Step(i, s) /\ jobs[i].kind # "capture"
    BY <1>0, <1>1, <2>1, <2>3 DEF Step, Steps, Captures
  <2>4. CASE jobs' = Step(i, "capturing")
    BY <1>0, <1>1, <2>1, <2>4 DEF Step, Steps, Captures, Unsettled
  <2> QED
    BY <1>5, <2>2, <2>3, <2>4 DEF Check
<1>6. CASE SendBegin(i) \/ SendStatus(i) \/ SendDeliver(i) \/ SendComplete(i)
  <2>1. /\ UNCHANGED <<current, turnStatus, attempts, life>>
        /\ jobs[i].kind = "send"
    BY <1>6 DEF SendBegin, SendStatus, SendDeliver, SendComplete, OnlyJobs,
                turnVars, At
  <2>2. \E st \in JobStatuses, s \in Steps, mark \in Journal :
            jobs' = Row(i, st, s, mark)
    <3>1. /\ {"running", "succeeded", "failed"} \subseteq JobStatuses
          /\ {"begun", "unknown", "none", "sending", "delivered"}
                 \subseteq Steps
          /\ {"started", "completed", "missing"} \subseteq Journal
      BY DEF JobStatuses, Steps, Journal
    <3>2. CASE SendBegin(i)
      BY <1>0, <3>1, <3>2 DEF SendBegin, Step, Succeed
    <3>3. CASE SendStatus(i)
      BY <1>0, <3>1, <3>3 DEF SendStatus, Step, Succeed
    <3>4. CASE SendDeliver(i)
      BY <1>0, <3>1, <3>4 DEF SendDeliver, Step, Succeed
    <3>5. CASE SendComplete(i)
      BY <1>0, <3>1, <3>5 DEF SendComplete
    <3> QED
      BY <1>6, <3>2, <3>3, <3>4, <3>5
  <2> QED
    BY <1>1, <2>1, <2>2 DEF Captures
<1>7. CASE RecoverUnknownDelivery(i)
  <2>1. jobs[i].kind = "send"
    BY <1>7 DEF RecoverUnknownDelivery, At, Unwinding
  <2>2. CASE OnlyJobs /\ (jobs' = Step(i, "none") \/ jobs' = Succeed(i))
    <3>1. \E st \in JobStatuses : jobs' = Row(i, st, "none", jobs[i].journal)
      BY <1>0, <2>2 DEF Step, Succeed, JobStatuses
    <3> QED
      BY <1>0, <1>1, <2>1, <2>2, <3>1 DEF OnlyJobs, turnVars, Captures, Steps
  <2>3. CASE RecoverTurn(Row(i, jobs[i].status, "none", "unknown"))
    BY <2>3, AttemptKeepsCapture
  <2>4. CASE FinalizeTurn("error", Step(i, "settled"))
    BY <1>0, <1>3, <2>1, <2>4, FinalizeKeepsCapture DEF FinalizeTurn, Outcomes
  <2> QED
    BY <1>7, <2>2, <2>3, <2>4 DEF RecoverUnknownDelivery
<1>8. CASE InterruptAnswer(i)
  <2>1. /\ jobs[i].kind = "interrupt"
        /\ UNCHANGED <<current, turnStatus, attempts, life>>
    BY <1>8 DEF InterruptAnswer, At, AcknowledgeTurnInterrupt,
                FailTurnInterrupt, TurnPhase, OnlyJobs, turnVars
  <2>2. \E st \in JobStatuses, s \in Steps :
            jobs' = Row(i, st, s, jobs[i].journal)
    <3>1. /\ "succeeded" \in JobStatuses
          /\ {"none", "acked", "refused"} \subseteq Steps
      BY DEF JobStatuses, Steps
    <3> QED
      BY <1>0, <1>8, <3>1 DEF InterruptAnswer, AcknowledgeTurnInterrupt,
                              FailTurnInterrupt, Step, Succeed
  <2> QED
    BY <1>0, <1>1, <2>1, <2>2 DEF Captures
<1>9. CASE InterruptSettle(i)
  <2>1. jobs[i].kind = "interrupt"
    BY <1>9 DEF InterruptSettle, At
  <2>2. CASE FinalizeTurn("ended", Step(i, "settled"))
    BY <1>0, <1>3, <2>1, <2>2, FinalizeKeepsCapture DEF FinalizeTurn, Outcomes
  <2>3. CASE SettleTurn("ended", Step(i, "settled"))
    BY <2>3, SettleKeepsCapture
  <2>4. CASE jobs' = Succeed(i) /\ OnlyJobs
    BY <1>0, <1>1, <2>1, <2>4 DEF OnlyJobs, turnVars, Captures, Steps,
                                  JobStatuses, Succeed
  <2> QED
    BY <1>9, <2>2, <2>3, <2>4 DEF InterruptSettle
<1>10. CASE CaptureDone(i)
  <2>1. CASE SettleTurn(jobs[i].outcome, Step(i, "settled"))
    BY <2>1, SettleKeepsCapture
  <2>2. CASE /\ ~Owns(jobs[i].turn, jobs[i].attempt)
             /\ jobs' = Succeed(i) /\ OnlyJobs
    <3>1. ~Own(jobs[i])
      BY <1>0, <2>2 DEF Owns, IsActiveAttempt, Own
    <3> QED
      BY <1>0, <1>1, <2>2, <3>1 DEF OnlyJobs, turnVars, Steps, JobStatuses,
                                    Succeed
  <2> QED
    BY <1>10, <2>1, <2>2 DEF CaptureDone
<1>11. CASE RecoverSettle(i)
  <2>1. jobs[i].kind = "recover"
    BY <1>11 DEF RecoverSettle, At
  <2>2. CASE \E outcome \in {"ended", "error"} :
                FinalizeTurn(outcome, Step(i, "settled"))
    BY <1>0, <1>3, <2>1, <2>2, FinalizeKeepsCapture DEF FinalizeTurn, Outcomes
  <2>3. CASE jobs' = Succeed(i) /\ OnlyJobs
    BY <1>0, <1>1, <2>1, <2>3 DEF OnlyJobs, turnVars, Captures, Steps,
                                  JobStatuses, Succeed
  <2> QED
    BY <1>11, <2>2, <2>3 DEF RecoverSettle
<1>12. CASE SuccessorStart(i)
  <2>1. jobs[i].kind = "successor"
    BY <1>12 DEF SuccessorStart, At
  <2>2. CASE \E to \in Journal : SubmitTurn(jobs[i].turn,
                                            Row(i, "running", "settled", to))
    BY <1>0, <2>2, SubmitKeepsCapture
  <2>3. CASE /\ UNCHANGED <<turnVars, life>>
             /\ \E to \in Journal : jobs' = Row(i, "running", "settled", to)
    BY <1>1, <2>1, <2>3 DEF turnVars, JobStatuses, Steps, Captures
  <2>4. {"refused", "submitted", "requeued"} \subseteq Journal
    BY DEF Journal
  <2> QED
    BY <1>0, <1>12, <2>2, <2>3, <2>4 DEF SuccessorStart, EnqueueTurn, OnlyJobs
<1>13. CASE Finish(i)
  <2>1. ~Captures(jobs[i]) /\ UNCHANGED <<current, turnStatus, attempts, life>>
    BY <1>13 DEF Finish, Captures, OnlyJobs, turnVars
  <2>2. \E st \in JobStatuses, mark \in Journal :
            jobs' = Row(i, st, "none", mark)
    <3>1. "succeeded" \in JobStatuses /\ "unknown" \in Journal
      BY DEF JobStatuses, Journal
    <3> QED
      BY <1>0, <1>13, <3>1 DEF Finish
  <2> QED
    BY <1>1, <2>1, <2>2 DEF Steps
<1> QED
  BY <1>4, <1>5, <1>6, <1>7, <1>8, <1>9, <1>10, <1>11, <1>12, <1>13 DEF Execute

\* The provider, the sweeper and a process loss keep the capture.
LEMMA EnvironmentKeepsCapture ==
    ASSUME CaptureInv, IInv, Environment
    PROVE  CaptureInv'
<1>0. /\ TurnInv /\ jobs \in Seq(Jobs) /\ Carries(jobs) /\ Carries(Requeued)
      /\ life = "live"
  BY TableCarries, RequeuedCarries DEF IInv, DeliveryInv, DeliveryType,
                                       CaptureInv
<1>1. ASSUME NEW js, Carries(js), jobs' = js, UNCHANGED <<turnVars, life>>
      PROVE  CaptureInv'
  <2>1. Carries(jobs')
    BY <1>1, Zenon
  <2> QED
    BY <1>0, <1>1, <2>1, CarriedKeepsCapture DEF turnVars
<1>2. ASSUME NEW m \in Messages, NEW a \in 1..MaxAttempts, ProviderBinds(m, a)
      PROVE  CaptureInv'
  BY <1>0, <1>1, <1>2 DEF ProviderBinds, BindAttemptProviderTurn
<1>3. ASSUME NEW m \in Messages, NEW a \in 1..MaxAttempts, ProviderEnds(m, a)
      PROVE  CaptureInv'
  <2>1. CASE \E outcome \in {"ended", "error"} : FinalizeTurn(outcome, jobs)
    BY <1>0, <2>1, FinalizeKeepsCapture DEF FinalizeTurn, Outcomes
  <2>2. CASE UNCHANGED sessionVars
    BY <1>0, <1>1, <2>2 DEF sessionVars
  <2> QED
    BY <1>3, <2>1, <2>2 DEF ProviderEnds
<1>4. ASSUME NEW i \in DOMAIN jobs, JobParks(i)
      PROVE  CaptureInv'
  <2>1. jobs[i].journal \in Journal
    BY OwnRow DEF IInv
  <2>2. Carries(Row(i, "waiting", "none", jobs[i].journal))
    BY <1>0, <2>1, RowCarries DEF JobStatuses, Steps, Unsettled
  <2> QED
    BY <1>1, <1>4, <2>2 DEF JobParks, OnlyJobs
<1>5. CASE Sweep
  BY <1>5, AttemptKeepsCapture, SettleKeepsCapture DEF Sweep, ExpireAttempt
<1>6. CASE ProcessLoss
  <2>1. CASE jobs' = Requeued /\ UNCHANGED <<turnVars, life>>
    BY <1>0, <1>1, <2>1
  <2>2. CASE \E outcome : SettleTurn(outcome, Requeued)
    BY <2>2, SettleKeepsCapture
  <2>3. CASE RecoverTurn(Requeued)
    BY <2>3, AttemptKeepsCapture
  <2> QED
    BY <1>0, <1>6, <2>1, <2>2, <2>3 DEF ProcessLoss, ReconcileTurn, OnlyJobs
<1> QED
  BY <1>2, <1>3, <1>4, <1>5, <1>6 DEF Environment

-----------------------------------------------------------------------------
\* With no archive, a turn that is finalizing has its capture still to run,
\* whatever crashes, expires, is interrupted, sent again or parked: the session
\* cannot be left with a turn nobody settles.
THEOREM FinalizingTurnsAreCaptured ==
    ASSUME "archive" \notin Faults
    PROVE  Spec => []FinalizingIsCaptured
<1>1. Init => CaptureInv
  <2> SUFFICES ASSUME Init PROVE CaptureInv
    OBVIOUS
  <2>1. current # None => turnStatus[current] = "active"
    BY SessionConstants DEF Init
  <2> QED
    BY <2>1 DEF Init, CaptureInv
<1>2. IInv /\ CaptureInv /\ [Next]_vars => CaptureInv'
  <2> SUFFICES ASSUME IInv, CaptureInv, [Next]_vars PROVE CaptureInv'
    OBVIOUS
  <2>1. CASE UNCHANGED vars
    <3>1. Carries(jobs) /\ jobs \in Seq(Jobs)
      BY TableCarries DEF IInv, DeliveryInv, DeliveryType
    <3>2. UNCHANGED <<current, turnStatus, attempts, life, jobs>>
      BY <2>1 DEF vars, sessionVars, turnVars
    <3>3. Carries(jobs')
      BY <3>1, <3>2, Zenon
    <3> QED
      BY <3>1, <3>2, <3>3, CarriedKeepsCapture
  <2> QED
    BY <2>1, ClientKeepsCapture, QueueKeepsCapture, ExecuteKeepsCapture,
       EnvironmentKeepsCapture DEF Next
<1>3. IInv /\ CaptureInv => FinalizingIsCaptured
  <2> SUFFICES ASSUME IInv, CaptureInv, current # None,
                      turnStatus[current] = "finalizing"
               PROVE  UnsettledJob({"capture"}, current, attempts[current])
    BY DEF FinalizingIsCaptured
  <2>1. DOMAIN jobs = 1..Len(jobs)
    BY RowsAreJobs DEF IInv, DeliveryInv, DeliveryType
  <2> QED
    BY <2>1 DEF CaptureInv, Own, Captures, UnsettledJob
<1> QED
  BY <1>1, <1>2, <1>3, SessionInvariant, PTL DEF Spec

-----------------------------------------------------------------------------
(* The driver of an active turn.                                           *)

\* js is the table with other statuses, positions and marks.
Rewritten(js) == SameKeys(js) /\ Len(js) = Len(jobs)

\* Cancelling rewrites.
LEMMA CancelRewrites ==
    ASSUME jobs \in Seq(Jobs), NEW js, Rewritten(js), NEW kinds
    PROVE  Rewritten(CancelUnsettled(js, kinds))
<1>1. js \in Seq(Jobs) /\ Len(js) = Len(jobs)
  BY DEF Rewritten, SameKeys
<1>2. /\ CancelUnsettled(js, kinds) \in Seq(Jobs)
      /\ Len(CancelUnsettled(js, kinds)) = Len(js)
      /\ \A k \in 1..Len(js) :
            /\ CancelUnsettled(js, kinds)[k].kind = js[k].kind
            /\ CancelUnsettled(js, kinds)[k].turn = js[k].turn
            /\ CancelUnsettled(js, kinds)[k].attempt = js[k].attempt
  BY <1>1, CancelFields
<1> QED
  BY <1>1, <1>2 DEF Rewritten, SameKeys

\* The rows after a command that asks for a job.
LEMMA EnqueuedRows ==
    ASSUME jobs \in Seq(Jobs), NEW js, Rewritten(js), NEW r \in Jobs,
           jobs' = Enqueue(js, r)
    PROVE  /\ Len(jobs') = Len(jobs) + 1 /\ jobs'[Len(jobs) + 1] = r
           /\ \A k \in 1..Len(jobs) : jobs'[k] = js[k]
<1>1. js \in Seq(Jobs) /\ Len(js) = Len(jobs)
  BY DEF Rewritten, SameKeys
<1>2. /\ Len(Enqueue(js, r)) = Len(js) + 1 /\ Enqueue(js, r)[Len(js) + 1] = r
      /\ \A k \in 1..Len(js) : Enqueue(js, r)[k] = js[k]
  BY <1>1, EnqueueFields
<1>3. /\ Len(jobs') = Len(js) + 1 /\ jobs'[Len(js) + 1] = r
      /\ \A k \in 1..Len(js) : jobs'[k] = js[k]
  BY <1>2, Zenon
<1> QED
  BY <1>1, <1>3

\* Rows stay within the attempts started.
LEMMA KeepsRowsStarted ==
    ASSUME RowsAreStarted, jobs \in Seq(Jobs), NEW js, Rewritten(js),
           attempts \in [Messages -> 0..MaxAttempts], AttemptsGrow,
           \/ jobs' = js
           \/ \E r \in Jobs : /\ jobs' = Enqueue(js, r)
                              /\ \/ r.kind = "successor"
                                 \/ r.attempt <= attempts'[r.turn]
    PROVE  RowsAreStarted'
<1>1. /\ Len(jobs) \in Nat /\ js \in Seq(Jobs) /\ Len(js) = Len(jobs)
      /\ \A k \in 1..Len(jobs) : jobs[k] \in Jobs
  BY RowsAreJobs DEF Rewritten, SameKeys
<1>2. \A k \in 1..Len(jobs) :
          /\ jobs[k].turn \in Messages /\ jobs[k].attempt \in Nat
          /\ attempts[jobs[k].turn] \in Nat /\ attempts'[jobs[k].turn] \in Nat
          /\ attempts[jobs[k].turn] <= attempts'[jobs[k].turn]
  <2>1. SUFFICES ASSUME NEW k \in 1..Len(jobs)
                 PROVE  /\ jobs[k].turn \in Messages /\ jobs[k].attempt \in Nat
                        /\ attempts[jobs[k].turn] \in Nat
                        /\ attempts'[jobs[k].turn] \in Nat
                        /\ attempts[jobs[k].turn] <= attempts'[jobs[k].turn]
    OBVIOUS
  <2>2. jobs[k] \in Jobs
    BY <1>1
  <2>3. jobs[k].turn \in Messages /\ jobs[k].attempt \in 1..MaxAttempts
    BY <2>2 DEF Jobs
  <2>4. MaxAttempts \in Nat
    BY SessionConstants
  <2>5. /\ attempts[jobs[k].turn] \in 0..MaxAttempts
        /\ attempts'[jobs[k].turn] \in 0..MaxAttempts
        /\ attempts[jobs[k].turn] <= attempts'[jobs[k].turn]
    BY <2>3 DEF AttemptsGrow
  <2> QED
    BY <2>3, <2>4, <2>5
<1>3. \A k \in 1..Len(jobs) :
          js[k].kind # "successor" => js[k].attempt <= attempts'[js[k].turn]
  BY <1>2 DEF Rewritten, SameKeys, RowsAreStarted
<1>4. CASE jobs' = js
  BY <1>1, <1>3, <1>4 DEF RowsAreStarted
<1>5. CASE \E r \in Jobs : /\ jobs' = Enqueue(js, r)
                           /\ \/ r.kind = "successor"
                              \/ r.attempt <= attempts'[r.turn]
  <2>1. PICK r \in Jobs : /\ jobs' = Enqueue(js, r)
                          /\ \/ r.kind = "successor"
                             \/ r.attempt <= attempts'[r.turn]
    BY <1>5
  <2>2. /\ Len(jobs') = Len(jobs) + 1 /\ jobs'[Len(jobs) + 1] = r
        /\ \A k \in 1..Len(jobs) : jobs'[k] = js[k]
    BY <2>1, EnqueuedRows
  <2> QED
    BY <1>1, <1>3, <2>1, <2>2 DEF RowsAreStarted
<1> QED
  BY <1>4, <1>5

\* A step that touches nothing the invariant mentions.
LEMMA SameKeepsDrive ==
    ASSUME DriveInv, UNCHANGED <<turnVars, life, status, lease, jobs>>
    PROVE  DriveInv'
  BY DEF DriveInv, RowsAreStarted, NothingSettled, DeliveredIsLeased,
         Interrupted, Driven, Active, Unrequested, LeaseIsOurs, Own, Asks,
         Works, Pending, turnVars

\* Without an active turn nothing has to be driven.
LEMMA InactiveKeepsDrive ==
    ASSUME DriveInv, UNCHANGED life, RowsAreStarted', ~Active'
    PROVE  DriveInv'
  BY DEF DriveInv, NothingSettled, DeliveredIsLeased, Interrupted, Driven

\* FinalizeTurn leaves the turn inactive,
LEMMA FinalizeKeepsDrive ==
    ASSUME DriveInv, TurnInv, jobs \in Seq(Jobs), NEW outcome \in Outcomes,
           NEW js, Rewritten(js), Finalize(outcome, js)
    PROVE  DriveInv'
<1> DEFINE r == NewJob("capture", current, attempts[current], outcome)
<1>1. /\ current \in Messages /\ attempts[current] \in 1..MaxAttempts
      /\ attempts \in [Messages -> 0..MaxAttempts]
      /\ turnStatus \in
            [Messages -> {"absent", "active", "finalizing", "settled"}]
  BY CurrentHasAttempt DEF Finalize, TurnInv, TurnType
<1>2. /\ UNCHANGED <<current, attempts, life>>
      /\ turnStatus'[current] = "finalizing"
      /\ jobs' = js \/ jobs' = Enqueue(js, r)
  BY <1>1 DEF Finalize
<1>3. r \in Jobs
  BY <1>1, NewJobType DEF Kinds
<1>4. r.attempt = attempts[current] /\ r.turn = current
  BY DEF NewJob
<1> HIDE DEF r
<1>5. AttemptsGrow
  BY <1>1, <1>2, SessionConstants DEF AttemptsGrow
<1>6. r.attempt <= attempts'[r.turn]
  BY <1>1, <1>2, <1>4, SessionConstants
<1>7. RowsAreStarted'
  BY <1>1, <1>2, <1>3, <1>5, <1>6, KeepsRowsStarted DEF DriveInv
<1> QED
  BY <1>2, <1>7, InactiveKeepsDrive DEF Active

\* SettleTurn leaves none.
LEMMA SettleKeepsDrive ==
    ASSUME DriveInv, TurnInv, jobs \in Seq(Jobs), NEW outcome, NEW js,
           Rewritten(js), SettleTurn(outcome, js)
    PROVE  DriveInv'
<1> DEFINE r == NewJob("successor", successor, 1, "none")
<1>1. /\ current' = None /\ UNCHANGED <<attempts, life>> /\ current # None
      /\ \/ jobs' = js
         \/ predecessor = current /\ jobs' = Enqueue(js, r)
  BY DEF SettleTurn, TurnSettled
<1>2. attempts \in [Messages -> 0..MaxAttempts] /\ 1 \in 1..MaxAttempts
  BY SessionConstants DEF TurnInv, TurnType
<1>3. predecessor = current => r \in Jobs
  BY <1>1, <1>2, NewJobType DEF TurnInv, TurnType, SuccessorIsComplete, Kinds,
                                Outcomes
<1>4. r.kind = "successor"
  BY DEF NewJob
<1> HIDE DEF r
<1>5. AttemptsGrow
  BY <1>1, <1>2, SessionConstants DEF AttemptsGrow
<1>6. RowsAreStarted'
  BY <1>1, <1>2, <1>3, <1>4, <1>5, KeepsRowsStarted DEF DriveInv
<1> QED
  BY <1>1, <1>6, InactiveKeepsDrive DEF Active

\* A new attempt has its own job, and no other.
LEMMA FreshAttemptIsDriven ==
    ASSUME DriveInv, jobs \in Seq(Jobs), NEW js, Rewritten(js),
           NEW m \in Messages, NEW b \in 1..MaxAttempts,
           NEW kind \in {"send", "recover"},
           jobs' = Enqueue(js, NewJob(kind, m, b, "none")),
           attempts \in [Messages -> 0..MaxAttempts], AttemptsGrow,
           attempts[m] < b, attempts'[m] = b, current' = m,
           phase' = "running", UNCHANGED life
    PROVE  DriveInv'
<1> DEFINE r == NewJob(kind, m, b, "none")
<1>1. /\ Len(jobs) \in Nat /\ js \in Seq(Jobs) /\ Len(js) = Len(jobs)
      /\ \A k \in 1..Len(jobs) : jobs[k] \in Jobs
  BY RowsAreJobs DEF Rewritten, SameKeys
<1>2. r \in Jobs
  BY NewJobType DEF Kinds, Outcomes
<1>3. /\ r.kind = kind /\ r.turn = m /\ r.attempt = b /\ r.status = "pending"
      /\ r.step = "none" /\ r.journal = "missing"
  BY DEF NewJob
<1>4. jobs' = Enqueue(js, r)
  OBVIOUS
<1> HIDE DEF r
<1>5. /\ Len(jobs') = Len(jobs) + 1 /\ jobs'[Len(jobs) + 1] = r
      /\ \A k \in 1..Len(jobs) : jobs'[k] = js[k]
  BY <1>2, <1>4, EnqueuedRows
<1>6. RowsAreStarted'
  BY <1>2, <1>3, <1>4, SessionConstants, KeepsRowsStarted DEF DriveInv
<1>7. \A k \in 1..Len(jobs) :
          jobs'[k].kind # "successor" =>
              ~(jobs'[k].turn = m /\ jobs'[k].attempt = b)
  <2>1. \A k \in 1..Len(jobs) : /\ jobs'[k].kind = jobs[k].kind
                                /\ jobs'[k].turn = jobs[k].turn
                                /\ jobs'[k].attempt = jobs[k].attempt
    BY <1>5 DEF Rewritten, SameKeys
  <2>2. \A k \in 1..Len(jobs) : jobs[k].kind # "successor" =>
            jobs[k].attempt <= attempts[jobs[k].turn]
    BY DEF DriveInv, RowsAreStarted
  <2>3. b \in Nat /\ attempts[m] \in Nat
    BY SessionConstants
  <2> QED
    BY <2>1, <2>2, <2>3
<1>8. NothingSettled'
  BY <1>1, <1>3, <1>5, <1>7 DEF NothingSettled, Active, Own, Pending, PendingAt
<1>9. DeliveredIsLeased'
  BY <1>1, <1>3, <1>5, <1>7 DEF DeliveredIsLeased, Active, Own
<1>10. Driven'
  BY <1>1, <1>3, <1>5 DEF Driven, Own, Works, WorksAt, Unsettled
<1> QED
  BY <1>6, <1>8, <1>9, <1>10 DEF DriveInv, Interrupted

\* SubmitTurn starts the first attempt of a turn,
LEMMA SubmitKeepsDrive ==
    ASSUME DriveInv, TurnInv, jobs \in Seq(Jobs), NEW m \in Messages,
           NEW js, Rewritten(js), SubmitTurn(m, js)
    PROVE  DriveInv'
<1>1. /\ turnStatus[m] = "absent" /\ attempts' = [attempts EXCEPT ![m] = 1]
      /\ jobs' = Enqueue(js, NewJob("send", m, 1, "none"))
      /\ current' = m /\ phase' = "running" /\ UNCHANGED life
  BY DEF SubmitTurn, TurnStarted
<1>2. attempts[m] = 0 /\ attempts \in [Messages -> 0..MaxAttempts]
  BY <1>1 DEF TurnInv, TurnType, TurnsHaveAttempts
<1>3. 1 \in 1..MaxAttempts /\ MaxAttempts \in Nat
  BY SessionConstants
<1>4. AttemptsGrow /\ attempts'[m] = 1 /\ attempts[m] < 1
  BY <1>1, <1>2, <1>3 DEF AttemptsGrow
<1> QED
  BY <1>1, <1>2, <1>3, <1>4, FreshAttemptIsDriven

\* RetryTurn and RecoverTurn the next one.
LEMMA AttemptKeepsDrive ==
    ASSUME DriveInv, TurnInv, jobs \in Seq(Jobs), NEW js, Rewritten(js),
           RetryTurn(js) \/ RecoverTurn(js)
    PROVE  DriveInv'
<1>1. /\ current # None /\ StartAttempt /\ UNCHANGED <<current, life>>
      /\ phase' = "running"
      /\ \E kind \in {"send", "recover"} :
            jobs' = Enqueue(Supersede(js), NewJob(kind, current,
                                               attempts[current] + 1, "none"))
  BY DEF RetryTurn, RecoverTurn, Recoverable, StartAttempt
<1>2. /\ current \in Messages /\ attempts[current] + 1 \in 1..MaxAttempts
      /\ attempts'[current] = attempts[current] + 1 /\ AttemptsGrow
  BY <1>1, NextAttempt
<1>3. attempts \in [Messages -> 0..MaxAttempts]
  BY DEF TurnInv, TurnType
<1>4. attempts[current] < attempts[current] + 1
  BY <1>2, <1>3, SessionConstants
<1>5. Rewritten(Supersede(js))
  BY CancelRewrites DEF Supersede
<1> QED
  BY <1>1, <1>2, <1>3, <1>4, <1>5, FreshAttemptIsDriven

\* The table is one of its rewritings.
LEMMA JobsAreRewritten ==
    ASSUME jobs \in Seq(Jobs)
    PROVE  Rewritten(jobs)
  BY DEF Rewritten, SameKeys

\* A requested interrupt has its job.
LEMMA InterruptKeepsDrive ==
    ASSUME DriveInv, TurnInv, jobs \in Seq(Jobs), current # None,
           phase' = "interrupt-requested",
           UNCHANGED <<current, turnStatus, attempts, life, lease>>,
           jobs' = Enqueue(StopDelivery(jobs),
                           NewJob("interrupt", current, attempts[current],
                                  "none"))
    PROVE  DriveInv'
<1> DEFINE js == StopDelivery(jobs)
           r == NewJob("interrupt", current, attempts[current], "none")
<1>1. /\ Len(jobs) \in Nat
      /\ current \in Messages /\ attempts[current] \in 1..MaxAttempts
      /\ attempts \in [Messages -> 0..MaxAttempts]
  BY RowsAreJobs, CurrentHasAttempt DEF TurnInv, TurnType
<1>2. r \in Jobs
  BY <1>1, NewJobType DEF Kinds, Outcomes
<1>3. /\ r.kind = "interrupt" /\ r.turn = current
      /\ r.attempt = attempts[current] /\ r.status = "pending"
      /\ r.step = "none"
  BY DEF NewJob
<1>4. Rewritten(js)
  BY JobsAreRewritten, CancelRewrites DEF StopDelivery
<1>5. \A k \in 1..Len(jobs) :
          /\ js[k].step = jobs[k].step /\ js[k].journal = jobs[k].journal
          /\ js[k].status \in {jobs[k].status, "cancelled"}
  BY CancelFields DEF StopDelivery
<1>6. jobs' = Enqueue(js, r)
  OBVIOUS
<1> HIDE DEF r, js
<1>7. /\ Len(jobs') = Len(jobs) + 1 /\ jobs'[Len(jobs) + 1] = r
      /\ \A k \in 1..Len(jobs) : jobs'[k] = js[k]
  BY <1>2, <1>4, <1>6, EnqueuedRows
<1>8. \A k \in 1..Len(jobs) : /\ jobs'[k].kind = jobs[k].kind
                              /\ jobs'[k].turn = jobs[k].turn
                              /\ jobs'[k].attempt = jobs[k].attempt
  BY <1>4, <1>7 DEF Rewritten, SameKeys
<1>9. AttemptsGrow
  BY <1>1, SessionConstants DEF AttemptsGrow
<1>10. r.attempt <= attempts'[r.turn]
  BY <1>1, <1>3, SessionConstants
<1>11. RowsAreStarted'
  BY <1>1, <1>2, <1>4, <1>6, <1>9, <1>10, KeepsRowsStarted DEF DriveInv
<1>12. NothingSettled'
  BY <1>1, <1>3, <1>5, <1>7, <1>8
     DEF DriveInv, NothingSettled, Active, Own, Pending, PendingAt, Unsettled
<1>13. DeliveredIsLeased'
  BY <1>1, <1>3, <1>5, <1>7, <1>8
     DEF DriveInv, DeliveredIsLeased, Active, Own, LeaseIsOurs
<1>14. Interrupted'
  BY <1>1, <1>3, <1>7 DEF Interrupted, Own, Asks, AsksAt, Unsettled
<1> QED
  BY <1>11, <1>12, <1>13, <1>14 DEF DriveInv, Driven

\* A step that rewrites the table keeps the invariant if what asks goes on
\* asking and what works goes on working, or leaves the turn to its lease or
\* to an error the user sees.
LEMMA RewrittenKeepsDrive ==
    ASSUME DriveInv, jobs \in Seq(Jobs), Rewritten(jobs'),
           attempts \in [Messages -> 0..MaxAttempts],
           UNCHANGED <<current, turnStatus, attempts, life>>,
           Active => /\ \A k \in 1..Len(jobs) : Own(jobs[k]) =>
                           /\ Pending(jobs'[k])
                           /\ /\ jobs'[k].kind = "send"
                              /\ jobs'[k].step = "delivered"
                              => lease' = <<current, attempts[current]>>
                     /\ phase' # "running" => \E k \in 1..Len(jobs) :
                           Own(jobs[k]) /\ Asks(jobs'[k])
                     /\ phase' = "running" =>
                           \/ Unrequested \/ status' = "error"
                           \/ lease' = <<current, attempts[current]>>
                           \/ \E k \in 1..Len(jobs) :
                                 Own(jobs[k]) /\ Works(jobs'[k])
    PROVE  DriveInv'
<1>1. /\ Len(jobs) \in Nat /\ Len(jobs') = Len(jobs)
      /\ \A k \in 1..Len(jobs) : /\ jobs'[k].kind = jobs[k].kind
                                 /\ jobs'[k].turn = jobs[k].turn
                                 /\ jobs'[k].attempt = jobs[k].attempt
  BY RowsAreJobs DEF Rewritten, SameKeys
<1>2. AttemptsGrow
  BY SessionConstants DEF AttemptsGrow
<1>3. RowsAreStarted'
  BY <1>1 DEF DriveInv, RowsAreStarted
<1>4. NothingSettled'
  BY <1>1 DEF NothingSettled, Active, Own, Pending
<1>5. DeliveredIsLeased'
  BY <1>1 DEF DeliveredIsLeased, Active, Own, LeaseIsOurs
<1>6. Interrupted'
  BY <1>1 DEF Interrupted, Active, Own, Asks
<1>7. Driven'
  BY <1>1 DEF Driven, Active, Own, Works, Unrequested, LeaseIsOurs
<1> QED
  BY <1>3, <1>4, <1>5, <1>6, <1>7 DEF DriveInv

\* The same for a fiber's step on its own row.
LEMMA RowKeepsDrive ==
    ASSUME DriveInv, jobs \in Seq(Jobs),
           attempts \in [Messages -> 0..MaxAttempts],
           NEW i \in DOMAIN jobs, NEW st \in JobStatuses,
           NEW s \in Steps, NEW mark \in Journal, jobs' = Row(i, st, s, mark),
           UNCHANGED <<current, turnStatus, phase, attempts, life>>,
           Active /\ LeaseIsOurs => UNCHANGED lease,
           status = "error" =>
               \/ status' = "error"
               \/ Own(jobs[i]) /\ WorksAt(jobs[i].kind, st, s),
           Active /\ Own(jobs[i]) =>
               /\ PendingAt(jobs[i].kind, st, s, mark)
               /\ jobs[i].kind = "send" /\ s = "delivered" =>
                     lease' = <<current, attempts[current]>>
               /\ Asks(jobs[i]) => AsksAt(jobs[i].kind, st, s)
               /\ phase = "running" /\ Works(jobs[i]) =>
                     \/ WorksAt(jobs[i].kind, st, s) \/ status' = "error"
                     \/ lease' = <<current, attempts[current]>>
    PROVE  DriveInv'
<1> DEFINE js == Row(i, st, s, mark)
<1>1. /\ Rewritten(js) /\ js[i].status = st /\ js[i].step = s
      /\ js[i].journal = mark /\ js[i].kind = jobs[i].kind
      /\ i \in 1..Len(jobs)
      /\ \A k \in 1..Len(jobs) : k # i => js[k] = jobs[k]
  BY RowFields, RowsAreJobs DEF Rewritten, SameKeys
<1>2. jobs' = js
  OBVIOUS
<1> HIDE DEF js
<1>3. Rewritten(jobs')
  BY <1>1, <1>2, Zenon
<1>4. ASSUME Active
      PROVE  \A k \in 1..Len(jobs) : Own(jobs[k]) =>
                 /\ Pending(jobs'[k])
                 /\ jobs'[k].kind = "send" /\ jobs'[k].step = "delivered" =>
                       lease' = <<current, attempts[current]>>
                 /\ Asks(jobs[k]) => Asks(jobs'[k])
                 /\ phase = "running" /\ Works(jobs[k]) =>
                       \/ Works(jobs'[k]) \/ status' = "error"
                       \/ lease' = <<current, attempts[current]>>
  <2> SUFFICES ASSUME NEW k \in 1..Len(jobs), Own(jobs[k])
               PROVE  /\ Pending(js[k])
                      /\ js[k].kind = "send" /\ js[k].step = "delivered" =>
                            lease' = <<current, attempts[current]>>
                      /\ Asks(jobs[k]) => Asks(js[k])
                      /\ phase = "running" /\ Works(jobs[k]) =>
                            \/ Works(js[k]) \/ status' = "error"
                            \/ lease' = <<current, attempts[current]>>
    BY <1>2
  <2>1. CASE k = i
    BY <1>1, <1>4, <2>1 DEF Pending, Asks, Works
  <2>2. CASE k # i
    <3>1. js[k] = jobs[k]
      BY <1>1, <2>2
    <3> QED
      BY <1>4, <3>1 DEF DriveInv, NothingSettled, DeliveredIsLeased,
                        LeaseIsOurs
  <2> QED
    BY <2>1, <2>2
<1>5. ASSUME Active, phase' # "running"
      PROVE  \E k \in 1..Len(jobs) : Own(jobs[k]) /\ Asks(jobs'[k])
  BY <1>4, <1>5 DEF DriveInv, Interrupted
<1>6. ASSUME Active, phase' = "running"
      PROVE  \/ Unrequested \/ status' = "error"
             \/ lease' = <<current, attempts[current]>>
             \/ \E k \in 1..Len(jobs) : Own(jobs[k]) /\ Works(jobs'[k])
  <2>1. CASE LeaseIsOurs
    BY <1>6, <2>1 DEF LeaseIsOurs
  <2>2. CASE status = "error"
    BY <1>1, <1>2, <2>2 DEF Works
  <2>3. CASE Unrequested
    BY <2>3
  <2>4. CASE \E k \in 1..Len(jobs) : Own(jobs[k]) /\ Works(jobs[k])
    BY <1>4, <1>6, <2>4
  <2> QED
    BY <1>6, <2>1, <2>2, <2>3, <2>4 DEF DriveInv, Driven
<1> QED
  BY <1>3, <1>4, <1>5, <1>6, RewrittenKeepsDrive

\* The release asks for the send of the turn that waited for it.
LEMMA ReleaseKeepsDrive ==
    ASSUME DriveInv, TurnInv, jobs \in Seq(Jobs), ReleaseFirstTurn
    PROVE  DriveInv'
<1> DEFINE r == NewJob("send", current, attempts[current], "none")
<1>1. /\ current # None /\ phase = "running" /\ jobs' = Enqueue(jobs, r)
      /\ UNCHANGED <<current, turnStatus, phase, attempts, life, lease>>
  BY DEF ReleaseFirstTurn, ReleaseInitialTurn, turnVars, runtimeVars
<1>2. /\ Len(jobs) \in Nat /\ Rewritten(jobs)
      /\ current \in Messages /\ attempts[current] \in 1..MaxAttempts
      /\ attempts \in [Messages -> 0..MaxAttempts]
  BY <1>1, RowsAreJobs, CurrentHasAttempt, JobsAreRewritten
     DEF TurnInv, TurnType
<1>3. r \in Jobs
  BY <1>2, NewJobType DEF Kinds, Outcomes
<1>4. /\ r.kind = "send" /\ r.turn = current
      /\ r.attempt = attempts[current] /\ r.status = "pending"
      /\ r.step = "none" /\ r.journal = "missing"
  BY DEF NewJob
<1> HIDE DEF r
<1>5. /\ Len(jobs') = Len(jobs) + 1 /\ jobs'[Len(jobs) + 1] = r
      /\ \A k \in 1..Len(jobs) : jobs'[k] = jobs[k]
  BY <1>1, <1>2, <1>3, EnqueuedRows
<1>6. AttemptsGrow
  BY <1>1, <1>2, SessionConstants DEF AttemptsGrow
<1>7. r.attempt <= attempts'[r.turn]
  BY <1>1, <1>2, <1>4, SessionConstants
<1>8. RowsAreStarted'
  BY <1>1, <1>2, <1>3, <1>6, <1>7, KeepsRowsStarted DEF DriveInv
<1>9. NothingSettled'
  BY <1>1, <1>2, <1>4, <1>5
     DEF DriveInv, NothingSettled, Active, Own, Pending, PendingAt
<1>10. DeliveredIsLeased'
  BY <1>1, <1>2, <1>4, <1>5
     DEF DriveInv, DeliveredIsLeased, Active, Own, LeaseIsOurs
<1>11. Driven'
  BY <1>1, <1>2, <1>4, <1>5 DEF Driven, Own, Works, WorksAt, Unsettled
<1> QED
  BY <1>1, <1>8, <1>9, <1>10, <1>11 DEF DriveInv, Interrupted

\* Clients' steps keep the driver.
LEMMA ClientKeepsDrive ==
    ASSUME DriveInv, IInv, "archive" \notin Faults, "duplicate" \notin Faults,
           Client
    PROVE  DriveInv'
<1>0. /\ TurnInv /\ jobs \in Seq(Jobs) /\ Rewritten(jobs)
  BY JobsAreRewritten DEF IInv, DeliveryInv, DeliveryType
<1>1. ASSUME NEW m \in Messages, SendMessage(m)
      PROVE  DriveInv'
  BY <1>0, <1>1, SubmitKeepsDrive DEF SendMessage
<1>2. CASE ReleaseFirstTurn
  BY <1>0, <1>2, ReleaseKeepsDrive
<1>3. ASSUME NEW c \in Commands, InterruptSession(c)
      PROVE  DriveInv'
  <2>1. CASE RequestTurnInterrupt(jobs)
    BY <1>0, <1>3, <2>1, InterruptKeepsDrive
       DEF InterruptSession, RequestTurnInterrupt, TurnPhase
  <2>2. CASE UNCHANGED <<turnVars, life, status, lease, jobs>>
    BY <2>2, SameKeepsDrive
  <2> QED
    BY <1>3, <2>1, <2>2 DEF InterruptSession
<1>4. CASE PauseAfterInterrupt
  <2>1. UNCHANGED <<turnVars, life, status, lease, jobs>>
    BY <1>4 DEF PauseAfterInterrupt, SetQueuePaused, sessionVars
  <2> QED
    BY <2>1, SameKeepsDrive
<1>5. ASSUME NEW c \in Commands, NEW m \in Messages, RunQueuedMessageNext(c, m)
      PROVE  DriveInv'
  <2>1. UNCHANGED <<life, status, lease>>
    BY <1>5 DEF RunQueuedMessageNext, SteerQueuedTurn, SteerAfterSettlement,
                runtimeVars
  <2>2. CASE SteerQueuedTurn(m, jobs)
    <3>1. CASE jobs' = jobs /\ UNCHANGED turnVars
      BY <2>1, <3>1, SameKeepsDrive
    <3>2. CASE ~(jobs' = jobs /\ UNCHANGED turnVars)
      BY <1>0, <2>1, <2>2, <3>2, InterruptKeepsDrive
         DEF SteerQueuedTurn, TurnPhase
    <3> QED
      BY <3>1, <3>2
  <2>3. CASE SteerAfterSettlement(m, jobs)
    <3> DEFINE r == NewJob("successor", m, 1, "none")
    <3>1. /\ jobs' = Enqueue(jobs, r) /\ current = None
          /\ UNCHANGED <<current, attempts>>
      BY <2>3 DEF SteerAfterSettlement, turnVars
    <3>2. 1 \in 1..MaxAttempts /\ attempts \in [Messages -> 0..MaxAttempts]
      BY <1>0, SessionConstants DEF TurnInv, TurnType
    <3>3. r \in Jobs /\ r.kind = "successor"
      BY <3>2, NewJobType DEF Kinds, Outcomes
    <3> HIDE DEF r
    <3>4. AttemptsGrow
      BY <3>1, <3>2, SessionConstants DEF AttemptsGrow
    <3>5. RowsAreStarted'
      BY <1>0, <3>1, <3>2, <3>3, <3>4, KeepsRowsStarted DEF DriveInv
    <3> QED
      BY <2>1, <3>1, <3>5, InactiveKeepsDrive DEF Active
  <2> QED
    BY <1>5, <2>2, <2>3 DEF RunQueuedMessageNext
<1>6. CASE ResumeSession
  <2>1. RestartSession /\ UNCHANGED lease
    BY <1>6 DEF ResumeSession
  <2>2. CASE RetryTurn(jobs)
    BY <1>0, <2>2, AttemptKeepsDrive
  <2>3. CASE Finalize("ended", jobs)
    BY <1>0, <2>3, FinalizeKeepsDrive DEF Outcomes
  <2>4. CASE current = None /\ UNCHANGED <<turnVars, life, jobs>>
    <3>1. RowsAreStarted'
      BY <2>4 DEF DriveInv, RowsAreStarted, turnVars
    <3> QED
      BY <2>4, <3>1, InactiveKeepsDrive DEF Active, turnVars
  <2> QED
    BY <2>1, <2>2, <2>3, <2>4 DEF RestartSession
<1>7. /\ ~Archive /\ ~Unarchive
      /\ \A c \in Commands : ~DispatchAgain(c)
  BY DEF Archive, Disturb, Unarchive, ArchiveSession, DispatchAgain, DriveInv
<1> QED
  BY <1>1, <1>2, <1>3, <1>4, <1>5, <1>6, <1>7 DEF Client

\* The queue service's steps submit a turn or leave turns alone.
LEMMA QueueCommands ==
    ASSUME QueueService
    PROVE  \/ UNCHANGED <<turnVars, life, status, lease, jobs>>
           \/ claimed # None /\ SubmitTurn(claimed, jobs)
<1>1. ASSUME NEW m \in Messages,
             \/ EnqueueMessage(m) \/ RemoveQueuedMessage(m)
             \/ RegainAccess(m) \/ FlushHead(m)
             \/ RunQueuedMessageWhileIdle(m)
      PROVE  UNCHANGED <<turnVars, life, status, lease, jobs>>
  BY <1>1 DEF EnqueueMessage, EnqueueTurn, Accept, RemoveQueuedMessage,
              RegainAccess, UpdateQueuedTurn, SetQueuePaused, FlushHead,
              ClaimQueuedTurn, RunQueuedMessageWhileIdle, runtimeVars
<1>2. ResumeQueue => UNCHANGED <<turnVars, life, status, lease, jobs>>
  BY DEF ResumeQueue, SetQueuePaused, runtimeVars
<1>3. SendClaimed => \/ UNCHANGED <<turnVars, life, status, lease, jobs>>
                     \/ claimed # None /\ SubmitTurn(claimed, jobs)
  BY DEF SendClaimed, EnqueueTurn
<1> QED
  BY <1>1, <1>2, <1>3 DEF QueueService

\* They keep the driver.
LEMMA QueueKeepsDrive ==
    ASSUME DriveInv, IInv, QueueService
    PROVE  DriveInv'
<1>1. /\ TurnInv /\ jobs \in Seq(Jobs) /\ Rewritten(jobs)
      /\ claimed \in Messages \cup {None}
  BY JobsAreRewritten DEF IInv, DeliveryInv, DeliveryType, RestType
<1> QED
  BY <1>1, QueueCommands, SameKeepsDrive, SubmitKeepsDrive

\* What a send does up to and after its call of the provider: its place is
\* taken by the lease once the input is accepted, by the reported error when
\* the provider does not start.
LEMMA SendKeepsDrive ==
    ASSUME DriveInv, IInv, NEW i \in DOMAIN jobs,
           \/ SendBegin(i) \/ SendStatus(i) \/ SendDeliver(i)
           \/ SendComplete(i)
    PROVE  DriveInv'
<1>0. /\ jobs \in Seq(Jobs) /\ attempts \in [Messages -> 0..MaxAttempts]
      /\ i \in 1..Len(jobs)
      /\ jobs[i].status \in JobStatuses /\ jobs[i].journal \in Journal
      /\ jobs[i].turn \in Messages /\ life = "live"
      /\ Active /\ Own(jobs[i]) => Pending(jobs[i])
      /\ /\ Active /\ Own(jobs[i]) /\ jobs[i].kind = "send"
         /\ jobs[i].step = "delivered"
         => LeaseIsOurs
  <2>1. /\ DeliveryInv /\ jobs \in Seq(Jobs)
        /\ attempts \in [Messages -> 0..MaxAttempts]
    BY DEF IInv, TurnInv, TurnType, DeliveryInv, DeliveryType
  <2>2. /\ i \in 1..Len(jobs)
        /\ jobs[i].status \in JobStatuses /\ jobs[i].journal \in Journal
        /\ jobs[i].turn \in Messages
    BY <2>1, OwnRow
  <2>3. /\ life = "live" /\ NothingSettled /\ DeliveredIsLeased
    BY DEF DriveInv
  <2> QED
    BY <2>1, <2>2, <2>3 DEF NothingSettled, DeliveredIsLeased
<1>1. /\ UNCHANGED <<current, turnStatus, phase, attempts, life>>
      /\ jobs[i].kind = "send"
  BY DEF SendBegin, SendStatus, SendDeliver, SendComplete, OnlyJobs, turnVars,
         At
<1>2. /\ {"running", "succeeded", "failed"} \subseteq JobStatuses
      /\ {"begun", "unknown", "none", "sending", "delivered"} \subseteq Steps
      /\ {"started", "completed", "missing"} \subseteq Journal
      /\ "none" \in Steps \ {"settled"} /\ "succeeded" \notin Unsettled
      /\ "completed" \in Journal \ {"unknown"} /\ "failed" \notin Unsettled
      /\ "missing" \in Journal \ {"unknown"}
  BY DEF JobStatuses, Steps, Journal, Unsettled
<1>3. Own(jobs[i]) <=> Owns(jobs[i].turn, jobs[i].attempt)
  BY <1>0, SessionConstants DEF Own, Owns, IsActiveAttempt
<1>4. ASSUME NEW st \in JobStatuses, NEW s \in Steps \ {"settled"},
             NEW mark \in Journal \ {"unknown"}, jobs' = Row(i, st, s, mark),
             Active /\ LeaseIsOurs => UNCHANGED lease,
             status = "error" =>
                 \/ status' = "error"
                 \/ Own(jobs[i]) /\ WorksAt("send", st, s),
             Active /\ Own(jobs[i]) =>
                 /\ mark = "completed" => st \notin Unsettled
                 /\ s = "delivered" => lease' = <<current, attempts[current]>>
                 /\ phase = "running" =>
                       \/ WorksAt("send", st, s) \/ status' = "error"
                       \/ lease' = <<current, attempts[current]>>
      PROVE  DriveInv'
  <2>1. PendingAt("send", st, s, mark) <=>
            (mark = "completed" => st \notin Unsettled)
    BY DEF PendingAt
  <2>2. ~Asks(jobs[i])
    BY <1>1 DEF Asks, AsksAt
  <2> QED
    BY <1>0, <1>1, <1>4, <2>1, <2>2, RowKeepsDrive
<1>5. CASE SendBegin(i)
  <2>1. UNCHANGED <<lease, status>> /\ jobs[i].status = "running"
    BY <1>5 DEF SendBegin, OnlyJobs, runtimeVars, At
  <2>2. CASE jobs' = Row(i, "running", "begun", "started")
    BY <1>2, <1>4, <2>1, <2>2 DEF WorksAt
  <2>3. CASE jobs[i].journal = "started" /\ jobs' = Step(i, "unknown")
    BY <1>0, <1>2, <1>4, <2>1, <2>3 DEF WorksAt, Step
  <2>4. CASE /\ jobs[i].journal \in {"completed", "unknown"}
             /\ jobs' = Succeed(i)
    <3>1. ~(Active /\ Own(jobs[i]))
      BY <1>0, <1>1, <2>1, <2>4 DEF Pending, PendingAt, Unsettled
    <3> QED
      BY <1>0, <1>1, <1>2, <2>1, <2>4, <3>1, RowKeepsDrive DEF Succeed
  <2> QED
    BY <1>5, <2>2, <2>3, <2>4 DEF SendBegin
<1>6. CASE SendStatus(i)
  <2>1. UNCHANGED lease /\ jobs[i].status = "running"
    BY <1>6 DEF SendStatus, runtimeVars, At
  <2>2. CASE Active /\ Own(jobs[i])
    <3>1. jobs[i].journal # "unknown" /\ jobs[i].journal # "completed"
      BY <1>0, <1>1, <2>1, <2>2 DEF Pending, PendingAt, Unsettled
    <3>2. CASE phase = "running"
      <4>1. jobs' = Row(i, "running", "sending", jobs[i].journal)
        BY <1>3, <1>6, <2>1, <2>2, <3>2 DEF SendStatus, OwnsUninterrupted, Step
      <4> QED
        BY <1>0, <1>2, <1>4, <2>1, <2>2, <3>1, <4>1 DEF WorksAt, Unsettled
    <3>3. CASE phase # "running"
      <4>1. /\ jobs' = Row(i, "succeeded", "none", jobs[i].journal)
            /\ UNCHANGED status
        BY <1>6, <3>3 DEF SendStatus, OwnsUninterrupted, Succeed
      <4> QED
        <5>1. jobs[i].journal \in Journal \ {"unknown"}
          BY <1>0, <3>1
        <5> QED
          BY <1>2, <1>4, <2>1, <3>1, <3>3, <4>1, <5>1
    <3> QED
      BY <3>2, <3>3
  <2>3. CASE ~(Active /\ Own(jobs[i]))
    <3>1. \E st \in JobStatuses, s \in Steps :
              /\ jobs' = Row(i, st, s, jobs[i].journal)
              /\ \/ UNCHANGED status
                 \/ Own(jobs[i]) /\ WorksAt("send", st, s)
      BY <1>0, <1>2, <1>3, <1>6, <2>1
         DEF SendStatus, Step, Succeed, OwnsUninterrupted, WorksAt, Unsettled
    <3> QED
      BY <1>0, <1>1, <2>1, <2>3, <3>1, RowKeepsDrive
  <2> QED
    BY <2>2, <2>3
<1>7. CASE SendDeliver(i)
  <2> DEFINE p == <<jobs[i].turn, jobs[i].attempt>>
  <2>1. /\ \/ UNCHANGED lease
           \/ lease' = p /\ Own(jobs[i]) /\ turnStatus[jobs[i].turn] = "active"
        /\ UNCHANGED status \/ status' = "error"
        /\ jobs[i].step = "sending"
    BY <1>3, <1>7 DEF SendDeliver, Deliver, AcquireLease
  <2>2. Own(jobs[i]) => p = <<current, attempts[current]>>
    BY DEF Own
  <2>3. Active /\ LeaseIsOurs => UNCHANGED lease
    BY <2>1, <2>2 DEF LeaseIsOurs
  <2>4. Active /\ Own(jobs[i]) /\ Deliver(jobs[i].turn, jobs[i].attempt) =>
            lease' = <<current, attempts[current]>>
    BY <1>3, <2>2 DEF Deliver, AcquireLease, Active, Own
  <2>5. CASE Active /\ Own(jobs[i])
    <3>1. /\ jobs[i].journal # "unknown"
          /\ jobs[i].journal = "completed" => jobs[i].status \notin Unsettled
      BY <1>0, <1>1, <2>5 DEF Pending, PendingAt
    <3>2. CASE jobs' = Step(i, "unknown")
      BY <1>0, <1>2, <1>4, <2>1, <2>3, <3>1, <3>2 DEF Step, WorksAt
    <3>3. CASE /\ jobs' = Step(i, "delivered")
               /\ Deliver(jobs[i].turn, jobs[i].attempt)
      BY <1>0, <1>2, <1>4, <2>1, <2>3, <2>4, <2>5, <3>1, <3>3 DEF Step, WorksAt
    <3>4. CASE jobs' = Succeed(i) /\ phase # "running"
      <4>1. jobs[i].journal \in Journal \ {"unknown"}
        BY <1>0, <3>1
      <4>2. jobs' = Row(i, "succeeded", "none", jobs[i].journal)
        BY <3>4 DEF Succeed
      <4> QED
        BY <1>2, <1>4, <2>1, <2>3, <3>4, <4>1, <4>2
    <3>5. CASE /\ \/ jobs' = Row(i, "failed", "none", "missing")
                  \/ jobs' = Row(i, "succeeded", "none", "completed")
               /\ status' = "error"
      BY <1>2, <1>4, <2>1, <2>3, <3>5
    <3> QED
      BY <1>3, <1>7, <2>5, <3>2, <3>3, <3>4, <3>5
         DEF SendDeliver, OwnsUninterrupted
  <2>6. CASE ~(Active /\ Own(jobs[i]))
    <3>1. \E st \in JobStatuses, s \in Steps, mark \in Journal :
              jobs' = Row(i, st, s, mark)
      BY <1>0, <1>2, <1>7 DEF SendDeliver, Step, Succeed
    <3> QED
      BY <1>0, <1>1, <2>1, <2>3, <2>6, <3>1, RowKeepsDrive
  <2> QED
    BY <2>5, <2>6
<1>8. CASE SendComplete(i)
  <2>1. /\ UNCHANGED <<lease, status>> /\ jobs[i].step = "delivered"
        /\ jobs' = Row(i, "succeeded", "none", "completed")
    BY <1>8 DEF SendComplete, OnlyJobs, runtimeVars, At
  <2>2. Active /\ Own(jobs[i]) => lease' = <<current, attempts[current]>>
    BY <1>0, <1>1, <2>1 DEF LeaseIsOurs
  <2>3. status = "error" => status' = "error"
    BY <2>1
  <2>4. Active /\ LeaseIsOurs => UNCHANGED lease
    BY <2>1
  <2> QED
    BY <1>2, <1>4, <2>1, <2>2, <2>3, <2>4
<1> QED
  BY <1>5, <1>6, <1>7, <1>8

\* The rest of the executor.  A row that is not of the active attempt, or of
\* another kind than the driver's, may do anything but begin another attempt.
LEMMA ExecuteKeepsDrive ==
    ASSUME DriveInv, IInv, NEW i \in DOMAIN jobs, Claim(i) \/ Execute(i)
    PROVE  DriveInv'
<1>0. /\ TurnInv /\ jobs \in Seq(Jobs) /\ jobs[i] \in Jobs
      /\ attempts \in [Messages -> 0..MaxAttempts]
      /\ jobs[i].status \in JobStatuses /\ jobs[i].journal \in Journal
      /\ jobs[i].turn \in Messages /\ jobs[i].outcome \in Outcomes
      /\ life = "live"
      /\ Active /\ Own(jobs[i]) => Pending(jobs[i])
  <2>1. /\ TurnInv /\ DeliveryInv /\ jobs \in Seq(Jobs) /\ life = "live"
        /\ attempts \in [Messages -> 0..MaxAttempts] /\ NothingSettled
    BY DEF IInv, TurnInv, TurnType, DeliveryInv, DeliveryType, DriveInv
  <2>2. /\ i \in 1..Len(jobs) /\ jobs[i] \in Jobs
        /\ jobs[i].status \in JobStatuses /\ jobs[i].journal \in Journal
        /\ jobs[i].turn \in Messages /\ jobs[i].outcome \in Outcomes
    BY <2>1, OwnRow
  <2> QED
    BY <2>1, <2>2 DEF NothingSettled
<1>1. Own(jobs[i]) <=> Owns(jobs[i].turn, jobs[i].attempt)
  BY <1>0 DEF Own, Owns, IsActiveAttempt
<1>2. Own(jobs[i]) <=> Mine(i)
  BY <1>1 DEF Owns, Mine
<1>3. /\ {"running", "succeeded", "waiting"} \subseteq JobStatuses
      /\ {"none", "checked", "asked", "capturing", "acked", "refused",
          "settled"} \subseteq Steps
      /\ {"refused", "submitted", "requeued", "unknown"} \subseteq Journal
  BY DEF JobStatuses, Steps, Journal
<1>4. ASSUME NEW st \in JobStatuses, NEW s \in Steps, NEW mark \in Journal
      PROVE  Rewritten(Row(i, st, s, mark))
  BY <1>0, RowFields DEF Rewritten
<1>5. ASSUME NEW s \in Steps
      PROVE  Rewritten(Step(i, s))
  BY <1>0, <1>4 DEF Step
\* Only the row changes, and it keeps its place in the argument.
<1>6. ASSUME NEW st \in JobStatuses, NEW s \in Steps, NEW mark \in Journal,
             jobs' = Row(i, st, s, mark),
             UNCHANGED <<turnVars, life, status, lease>>,
             Active /\ Own(jobs[i]) =>
                 /\ PendingAt(jobs[i].kind, st, s, mark)
                 /\ ~(jobs[i].kind = "send" /\ s = "delivered")
                 /\ Asks(jobs[i]) => AsksAt(jobs[i].kind, st, s)
                 /\ phase = "running" /\ Works(jobs[i]) =>
                       WorksAt(jobs[i].kind, st, s)
      PROVE  DriveInv'
  <2>1. UNCHANGED <<current, turnStatus, phase, attempts, life>>
    BY <1>6 DEF turnVars
  <2> QED
    BY <1>0, <1>6, <2>1, RowKeepsDrive
<1>7. ASSUME jobs' = Succeed(i), OnlyJobs, UNCHANGED lease,
             \/ ~Own(jobs[i])
             \/ phase # "running" /\ jobs[i].kind # "interrupt",
             jobs[i].status = "running"
      PROVE  DriveInv'
  <2>1. UNCHANGED <<turnVars, life, status, lease>>
    BY <1>7 DEF OnlyJobs
  <2>2. Active /\ Own(jobs[i]) =>
            PendingAt(jobs[i].kind, "succeeded", "none", jobs[i].journal)
    BY <1>0, <1>7 DEF Pending, PendingAt, Unsettled
  <2>3. Active /\ Own(jobs[i]) => ~Asks(jobs[i])
    BY <1>7 DEF Asks, AsksAt
  <2> QED
    BY <1>0, <1>3, <1>6, <1>7, <2>1, <2>2, <2>3 DEF Succeed
<1>8. CASE Claim(i)
  <2>1. /\ jobs' = Row(i, "running", "none", jobs[i].journal)
        /\ UNCHANGED <<turnVars, life, status, lease>>
        /\ jobs[i].status \in {"pending", "waiting"}
    BY <1>8 DEF Claim, OnlyJobs, runtimeVars
  <2>2. Active /\ Own(jobs[i]) =>
            PendingAt(jobs[i].kind, "running", "none", jobs[i].journal)
    BY <1>0, <2>1 DEF Pending, PendingAt, Unsettled
  <2>3. /\ Asks(jobs[i]) => AsksAt(jobs[i].kind, "running", "none")
        /\ Works(jobs[i]) => WorksAt(jobs[i].kind, "running", "none")
    BY <2>1 DEF Asks, AsksAt, Works, WorksAt, Unsettled
  <2> QED
    BY <1>0, <1>3, <1>6, <2>1, <2>2, <2>3
<1>9. CASE Check(i)
  <2>1. /\ OnlyJobs /\ UNCHANGED <<turnVars, life, status, lease>>
        /\ jobs[i].status = "running" /\ jobs[i].step = "none"
        /\ jobs[i].kind \in {"send", "recover", "interrupt", "capture"}
    BY <1>9 DEF Check, OnlyJobs, runtimeVars, At
  <2>2. CASE ~Mine(i) /\ jobs' = Succeed(i)
    BY <1>2, <1>7, <2>1, <2>2
  <2>3. CASE Mine(i)
    <3>1. PICK s \in {"checked", "asked", "capturing"} :
              /\ jobs' = Row(i, "running", s, jobs[i].journal)
              /\ jobs[i].kind = "interrupt" => s = "asked"
      BY <1>9, <2>1, <2>3 DEF Check, Step
    <3>2. Active /\ Own(jobs[i]) =>
              PendingAt(jobs[i].kind, "running", s, jobs[i].journal)
      BY <1>0, <2>1, <3>1 DEF Pending, PendingAt, Unsettled
    <3>3. /\ Asks(jobs[i]) => AsksAt(jobs[i].kind, "running", s)
          /\ Works(jobs[i]) => WorksAt(jobs[i].kind, "running", s)
      BY <2>1, <3>1 DEF Asks, AsksAt, Works, WorksAt, Unsettled
    <3>4. s # "delivered" /\ s \in Steps
      BY <1>3, <3>1
    <3> QED
      BY <1>0, <1>3, <1>6, <2>1, <3>1, <3>2, <3>3, <3>4
  <2> QED
    BY <1>9, <2>2, <2>3 DEF Check
<1>10. CASE RecoverUnknownDelivery(i)
  <2>1. /\ jobs[i].kind = "send" /\ UNCHANGED lease
        /\ jobs[i].status = "running" \/ Unwinding(i)
    BY <1>10 DEF RecoverUnknownDelivery, At, Unwinding, runtimeVars
  <2>2. CASE /\ ~OwnsUninterrupted(jobs[i].turn, jobs[i].attempt)
             /\ jobs' = IF Unwinding(i) THEN Step(i, "none") ELSE Succeed(i)
             /\ OnlyJobs
    <3>1. ~Own(jobs[i]) \/ phase # "running"
      BY <1>1, <2>2 DEF OwnsUninterrupted
    <3>2. CASE ~Unwinding(i)
      BY <1>7, <2>1, <2>2, <3>1, <3>2
    <3>3. CASE Unwinding(i)
      <4>1. jobs' = Row(i, "cancelled", "none", jobs[i].journal)
        BY <2>2, <3>3 DEF Unwinding, Step
      <4>2. /\ Active /\ Own(jobs[i]) =>
                  PendingAt(jobs[i].kind, "cancelled", "none", jobs[i].journal)
            /\ "cancelled" \in JobStatuses
        BY <1>0, <3>3 DEF Pending, PendingAt, Unsettled, JobStatuses
      <4>3. ~Asks(jobs[i])
        BY <2>1 DEF Asks, AsksAt
      <4>4. UNCHANGED <<turnVars, life, status, lease>>
        BY <2>1, <2>2 DEF OnlyJobs
      <4> QED
        BY <1>0, <1>3, <1>6, <3>1, <4>1, <4>2, <4>3, <4>4
    <3> QED
      BY <3>2, <3>3
  <2>3. CASE RecoverTurn(Row(i, jobs[i].status, "none", "unknown"))
    BY <1>0, <1>3, <1>4, <2>3, AttemptKeepsDrive
  <2>4. CASE FinalizeTurn("error", Step(i, "settled"))
    BY <1>0, <1>3, <1>5, <2>4, FinalizeKeepsDrive DEF FinalizeTurn, Outcomes
  <2> QED
    BY <1>10, <2>2, <2>3, <2>4 DEF RecoverUnknownDelivery
<1>11. CASE InterruptAnswer(i)
  <2>1. /\ jobs[i].kind = "interrupt" /\ jobs[i].status = "running"
        /\ jobs[i].step = "asked" /\ UNCHANGED lease
    BY <1>11 DEF InterruptAnswer, At
  <2>2. CASE ~Own(jobs[i]) /\ jobs' = Succeed(i) /\ OnlyJobs
    BY <1>7, <2>1, <2>2
  <2>3. ASSUME NEW s \in {"acked", "refused"}, Own(jobs[i]),
               jobs' = Step(i, s),
               s = "acked" => phase' = "interrupt-acknowledged",
               s = "refused" => phase' = "running",
               UNCHANGED <<current, turnStatus, attempts, life, status>>
        PROVE  DriveInv'
    <3> DEFINE js == Row(i, "running", s, jobs[i].journal)
    <3>1. /\ Rewritten(js) /\ js[i].status = "running" /\ js[i].step = s
          /\ js[i].kind = "interrupt" /\ i \in 1..Len(jobs)
          /\ \A k \in 1..Len(jobs) : k # i => js[k] = jobs[k]
      <4>1. s \in Steps /\ i \in 1..Len(jobs) /\ "running" \in JobStatuses
        BY <1>0, <1>3, RowsAreJobs
      <4>2. /\ js[i].status = "running" /\ js[i].step = s
            /\ \A k \in 1..Len(jobs) : k # i => js[k] = jobs[k]
        BY <1>0, <4>1, RowFields
      <4>3. Rewritten(js)
        BY <1>0, <1>4, <4>1
      <4> QED
        BY <2>1, <4>1, <4>2, <4>3 DEF Rewritten, SameKeys
    <3>2. jobs' = js
      BY <2>1, <2>3 DEF Step
    <3> HIDE DEF js
    <3>3. Rewritten(jobs')
      BY <3>1, <3>2, Zenon
    <3>4. Pending(js[i]) /\ js[i].kind # "send"
      BY <2>3, <3>1 DEF Pending, PendingAt
    <3>5. ASSUME Active, NEW k \in 1..Len(jobs), Own(jobs[k])
          PROVE  /\ Pending(jobs'[k])
                 /\ jobs'[k].kind = "send" /\ jobs'[k].step = "delivered" =>
                       lease' = <<current, attempts[current]>>
      <4>1. CASE k = i
        BY <3>2, <3>4, <4>1
      <4>2. CASE k # i
        <5>1. jobs'[k] = jobs[k]
          BY <3>1, <3>2, <4>2
        <5> QED
          BY <2>1, <3>5, <5>1 DEF DriveInv, NothingSettled, DeliveredIsLeased,
                                  LeaseIsOurs
      <4> QED
        BY <4>1, <4>2
    <3>6. s = "acked" => Asks(jobs'[i])
      BY <3>1, <3>2 DEF Asks, AsksAt, Unsettled
    <3>7. s = "refused" => Works(jobs'[i])
      BY <3>1, <3>2 DEF Works, WorksAt
    <3> QED
      BY <1>0, <2>3, <3>1, <3>3, <3>5, <3>6, <3>7, RewrittenKeepsDrive
  <2>4. CASE /\ Own(jobs[i])
             /\ AcknowledgeTurnInterrupt(Step(i, "acked"))
    BY <2>3, <2>4 DEF AcknowledgeTurnInterrupt, TurnPhase
  <2>5. CASE /\ Own(jobs[i])
             /\ FailTurnInterrupt(Step(i, "refused"))
    BY <2>3, <2>5 DEF FailTurnInterrupt, TurnPhase
  <2> QED
    BY <1>1, <1>11, <2>2, <2>4, <2>5 DEF InterruptAnswer
<1>12. CASE InterruptSettle(i)
  <2>1. jobs[i].status = "running" /\ UNCHANGED lease
    BY <1>12 DEF InterruptSettle, At
  <2>2. CASE FinalizeTurn("ended", Step(i, "settled"))
    BY <1>0, <1>3, <1>5, <2>2, FinalizeKeepsDrive DEF FinalizeTurn, Outcomes
  <2>3. CASE SettleTurn("ended", Step(i, "settled"))
    BY <1>0, <1>3, <1>5, <2>3, SettleKeepsDrive
  <2>4. CASE ~Own(jobs[i]) /\ jobs' = Succeed(i) /\ OnlyJobs
    BY <1>7, <2>1, <2>4
  <2> QED
    BY <1>1, <1>12, <2>2, <2>3, <2>4 DEF InterruptSettle
<1>13. CASE CaptureDone(i)
  <2>1. jobs[i].status = "running" /\ UNCHANGED lease
    BY <1>13 DEF CaptureDone, At
  <2>2. CASE SettleTurn(jobs[i].outcome, Step(i, "settled"))
    BY <1>0, <1>3, <1>5, <2>2, SettleKeepsDrive
  <2>3. CASE ~Own(jobs[i]) /\ jobs' = Succeed(i) /\ OnlyJobs
    BY <1>7, <2>1, <2>3
  <2> QED
    BY <1>1, <1>13, <2>2, <2>3 DEF CaptureDone
<1>14. CASE RecoverSettle(i)
  <2>1. /\ jobs[i].status = "running" /\ jobs[i].kind = "recover"
        /\ UNCHANGED lease
    BY <1>14 DEF RecoverSettle, At, runtimeVars
  <2>2. CASE \E outcome \in {"ended", "error"} :
                FinalizeTurn(outcome, Step(i, "settled"))
    BY <1>0, <1>3, <1>5, <2>2, FinalizeKeepsDrive DEF FinalizeTurn, Outcomes
  <2>3. CASE /\ ~OwnsUninterrupted(jobs[i].turn, jobs[i].attempt)
             /\ jobs' = Succeed(i) /\ OnlyJobs
    BY <1>1, <1>7, <2>1, <2>3 DEF OwnsUninterrupted
  <2> QED
    BY <1>14, <2>2, <2>3 DEF RecoverSettle
<1>15. CASE SuccessorStart(i)
  <2>1. jobs[i].kind = "successor" /\ UNCHANGED lease
    BY <1>15 DEF SuccessorStart, At, runtimeVars
  <2>2. CASE \E to \in Journal : SubmitTurn(jobs[i].turn,
                                            Row(i, "running", "settled", to))
    BY <1>0, <1>3, <1>4, <2>2, SubmitKeepsDrive
  <2>3. CASE /\ UNCHANGED <<turnVars, life, status>>
             /\ \E to \in Journal : jobs' = Row(i, "running", "settled", to)
    BY <1>3, <1>6, <2>1, <2>3 DEF PendingAt, Asks, AsksAt, Works, WorksAt
  <2> QED
    BY <1>0, <1>3, <1>15, <2>2, <2>3 DEF SuccessorStart, EnqueueTurn, OnlyJobs
<1>16. CASE Finish(i)
  <2>1. /\ UNCHANGED <<turnVars, life, status, lease>>
        /\ jobs[i].step = "settled"
    BY <1>16 DEF Finish, OnlyJobs, runtimeVars
  <2>2. \E st \in JobStatuses, mark \in Journal :
            jobs' = Row(i, st, "none", mark)
    BY <1>0, <1>3, <1>16 DEF Finish
  <2>3. Active /\ Own(jobs[i]) =>
            jobs[i].kind \notin {"send", "recover", "interrupt"}
    BY <1>0, <2>1 DEF Pending, PendingAt
  <2> QED
    BY <1>3, <1>6, <2>1, <2>2, <2>3 DEF PendingAt, Asks, AsksAt, Works, WorksAt
<1> QED
  BY <1>8, <1>9, <1>10, <1>11, <1>12, <1>13, <1>14, <1>15, <1>16,
     SendKeepsDrive DEF Execute

\* The provider, the sweeper and a process loss keep the driver: what a crash
\* took from a turn, reconciliation gives back, or it settles the turn.
LEMMA EnvironmentKeepsDrive ==
    ASSUME DriveInv, IInv, Environment
    PROVE  DriveInv'
<1>0. /\ TurnInv /\ jobs \in Seq(Jobs) /\ Rewritten(jobs)
      /\ attempts \in [Messages -> 0..MaxAttempts] /\ life = "live"
  BY JobsAreRewritten DEF IInv, TurnInv, TurnType, DeliveryInv, DeliveryType,
                          DriveInv
<1>1. ASSUME NEW m \in Messages, NEW a \in 1..MaxAttempts, ProviderBinds(m, a)
      PROVE  DriveInv'
  BY <1>1, SameKeepsDrive DEF ProviderBinds, BindAttemptProviderTurn,
                              runtimeVars
<1>2. ASSUME NEW m \in Messages, NEW a \in 1..MaxAttempts, ProviderEnds(m, a)
      PROVE  DriveInv'
  <2>1. CASE \E outcome \in {"ended", "error"} : FinalizeTurn(outcome, jobs)
    BY <1>0, <2>1, FinalizeKeepsDrive DEF FinalizeTurn, Outcomes
  <2>2. CASE UNCHANGED sessionVars /\ UNCHANGED lease
    BY <2>2, SameKeepsDrive DEF sessionVars
  <2> QED
    BY <1>2, <2>1, <2>2 DEF ProviderEnds
<1>3. ASSUME NEW i \in DOMAIN jobs, JobParks(i)
      PROVE  DriveInv'
  <2>1. /\ jobs' = Row(i, "waiting", "none", jobs[i].journal)
        /\ UNCHANGED <<current, turnStatus, phase, attempts, life, status,
                       lease>>
        /\ \/ jobs[i].kind \in {"send", "recover"} /\ jobs[i].status = "running"
           \/ jobs[i].kind = "capture"
    BY <1>3 DEF JobParks, OnlyJobs, turnVars, At
  <2>2. i \in 1..Len(jobs) /\ jobs[i].journal \in Journal
    BY OwnRow DEF IInv
  <2>3. Active /\ Own(jobs[i]) =>
            PendingAt(jobs[i].kind, "waiting", "none", jobs[i].journal)
    BY <2>1, <2>2 DEF DriveInv, NothingSettled, Pending, PendingAt, Unsettled
  <2>4. /\ Asks(jobs[i]) => AsksAt(jobs[i].kind, "waiting", "none")
        /\ Works(jobs[i]) => WorksAt(jobs[i].kind, "waiting", "none")
    BY <2>1 DEF Asks, AsksAt, Works, WorksAt, Unsettled
  <2>5. "waiting" \in JobStatuses /\ "none" \in Steps
    BY DEF JobStatuses, Steps
  <2> QED
    BY <1>0, <2>1, <2>2, <2>3, <2>4, <2>5, RowKeepsDrive
<1>4. CASE Sweep
  <2>1. ExpireAttempt(jobs)
    BY <1>4 DEF Sweep
  <2>2. Rewritten(Supersede(jobs))
    BY <1>0, CancelRewrites DEF Supersede
  <2> QED
    BY <1>0, <2>1, <2>2, AttemptKeepsDrive, SettleKeepsDrive DEF ExpireAttempt
<1>5. CASE ProcessLoss
  <2>1. /\ Rewritten(Requeued)
        /\ \A k \in 1..Len(jobs) :
              /\ Requeued[k].step = "none"
              /\ Requeued[k].kind = jobs[k].kind
              /\ Requeued[k].journal = jobs[k].journal
              /\ Requeued[k].status = IF jobs[k].status \in {"running",
                                                           "waiting"}
                                      THEN "pending" ELSE jobs[k].status
    BY <1>0, RequeuedFields DEF Rewritten, SameKeys
  <2>2. \A k \in 1..Len(jobs) :
            /\ Pending(jobs[k]) => Pending(Requeued[k])
            /\ Asks(jobs[k]) => Asks(Requeued[k])
            /\ /\ jobs[k].kind \in {"send", "recover"}
               /\ jobs[k].status \in Unsettled
               => Works(Requeued[k])
    BY <2>1 DEF Pending, PendingAt, Asks, AsksAt, Works, WorksAt, Unsettled
  <2>3. ASSUME jobs' = Requeued, UNCHANGED <<turnVars, life>>,
               Active /\ phase = "running" =>
                   \/ Unrequested \/ status' = "error"
                   \/ \E k \in 1..Len(jobs) :
                         Own(jobs[k]) /\ Works(Requeued[k])
        PROVE  DriveInv'
    <3>1. Rewritten(jobs')
      BY <2>1, <2>3, Zenon
    <3>2. UNCHANGED <<current, turnStatus, phase, attempts, life>>
      BY <2>3 DEF turnVars
    <3>3. ASSUME Active
          PROVE  /\ \A k \in 1..Len(jobs) : Own(jobs[k]) =>
                        Pending(Requeued[k]) /\ Requeued[k].step # "delivered"
                 /\ phase # "running" => \E k \in 1..Len(jobs) :
                        Own(jobs[k]) /\ Asks(Requeued[k])
      BY <2>1, <2>2, <3>3 DEF DriveInv, NothingSettled, Interrupted
    <3> QED
      BY <1>0, <2>3, <3>1, <3>2, <3>3, RewrittenKeepsDrive
  <2>4. CASE current = None
    <3>1. /\ jobs' = Requeued /\ UNCHANGED <<turnVars, life>>
      BY <1>5, <2>4 DEF ProcessLoss
    <3> QED
      BY <2>3, <2>4, <3>1 DEF Active
  <2>5. CASE current # None /\ turnStatus[current] = "finalizing"
    <3>1. jobs' = Requeued /\ UNCHANGED <<turnVars, life>>
      BY <1>0, <1>5, <2>5 DEF ProcessLoss, ReconcileTurn, OnlyJobs
    <3> QED
      BY <2>3, <2>5, <3>1 DEF Active
  <2>6. CASE current # None /\ AwaitsRelease /\ jobs' = Requeued /\ OnlyJobs
    <3>1. Unrequested
      BY <1>0, <2>6, RowsAreJobs DEF AwaitsRelease, Requested, Unrequested
    <3> QED
      BY <2>3, <2>6, <3>1 DEF OnlyJobs
  <2>7. CASE /\ current # None /\ AwaitsJob /\ jobs' = Requeued
             /\ UNCHANGED <<turnVars, life>>
    <3>1. \E k \in 1..Len(jobs) : /\ Own(jobs[k])
                                  /\ jobs[k].kind \in {"send", "recover"}
                                  /\ jobs[k].status \in Unsettled
      BY <1>0, <2>7, RowsAreJobs DEF AwaitsJob, UnsettledJob, Own
    <3> QED
      BY <2>2, <2>3, <2>7, <3>1
  <2>8. CASE AwaitsUser /\ jobs' = Requeued /\ OnlyJobs
    BY <2>3, <2>8 DEF AwaitsUser, OnlyJobs
  <2>9. CASE RecoverTurn(Requeued) \/ \E outcome : SettleTurn(outcome, Requeued)
    BY <1>0, <2>1, <2>9, AttemptKeepsDrive, SettleKeepsDrive
  <2> QED
    BY <1>0, <1>5, <2>4, <2>5, <2>6, <2>7, <2>8, <2>9
       DEF ProcessLoss, ReconcileTurn
<1> QED
  BY <1>1, <1>2, <1>3, <1>4, <1>5 DEF Environment

-----------------------------------------------------------------------------
\* With no archive and no command sent again, an active turn is driven: its
\* send or recovery is still to run or being unwound, the lease that expires it
\* names it, its interrupt is still to run, or it waits for its release or for
\* the user.  No crash, sweep, refused interrupt, restart or parked job, in any
\* order and number, leaves a turn that runs forever without anybody at work.
THEOREM ActiveTurnsAreDriven ==
    ASSUME "archive" \notin Faults, "duplicate" \notin Faults
    PROVE  Spec => []ActiveTurnIsDriven
<1>1. Init => DriveInv
  <2> SUFFICES ASSUME Init PROVE DriveInv
    OBVIOUS
  <2>1. /\ jobs = <<>> /\ Len(jobs) = 0 /\ life = "live"
        /\ current # None => phase = "running"
    BY DEF Init
  <2> QED
    BY <2>1 DEF DriveInv, RowsAreStarted, NothingSettled, DeliveredIsLeased,
                Interrupted, Driven, Active, Unrequested
<1>2. IInv /\ DriveInv /\ [Next]_vars => DriveInv'
  <2> SUFFICES ASSUME IInv, DriveInv, [Next]_vars PROVE DriveInv'
    OBVIOUS
  <2>1. CASE UNCHANGED vars
    BY <2>1, SameKeepsDrive DEF vars, sessionVars, runtimeVars
  <2> QED
    BY <2>1, ClientKeepsDrive, QueueKeepsDrive, ExecuteKeepsDrive,
       EnvironmentKeepsDrive DEF Next
<1>3. IInv /\ DriveInv => ActiveTurnIsDriven
  <2> SUFFICES ASSUME IInv, DriveInv, Active
               PROVE  IF InterruptPending
                      THEN UnsettledJob({"interrupt"}, current,
                                        attempts[current])
                      ELSE \/ AwaitsJob \/ ~Requested(current)
                           \/ status = "error"
                           \/ <<current, attempts[current]>> \in live
                           \/ lease = <<current, attempts[current]>>
                           \/ Unwinds(current, attempts[current])
                           \/ BeingRefused(current, attempts[current])
    BY DEF ActiveTurnIsDriven, Active
  <2>1. /\ DOMAIN jobs = 1..Len(jobs)
        /\ phase \in {"none", "running", "interrupt-requested",
                      "interrupt-acknowledged"}
        /\ phase = "none" <=> current = None
    BY RowsAreJobs DEF IInv, TurnInv, TurnType, OneOpenTurn, DeliveryInv,
                       DeliveryType
  <2>2. CASE InterruptPending
    <3>1. PICK i \in 1..Len(jobs) : Own(jobs[i]) /\ Asks(jobs[i])
      BY <2>2 DEF DriveInv, Interrupted, InterruptPending
    <3> QED
      BY <2>1, <2>2, <3>1 DEF UnsettledJob, Own, Asks, AsksAt
  <2>3. CASE ~InterruptPending
    <3>1. phase = "running"
      BY <2>1, <2>3 DEF InterruptPending, Active
    <3>2. CASE \E i \in 1..Len(jobs) : Own(jobs[i]) /\ Works(jobs[i])
      BY <2>1, <2>3, <3>2 DEF AwaitsJob, UnsettledJob, Unwinds, BeingRefused,
                              At, Own, Works, WorksAt
    <3>3. CASE Unrequested
      BY <2>1, <2>3, <3>3 DEF Unrequested, Requested
    <3> QED
      BY <2>3, <3>1, <3>2, <3>3 DEF DriveInv, Driven, LeaseIsOurs
  <2> QED
    BY <2>2, <2>3
<1> QED
  BY <1>1, <1>2, <1>3, SessionInvariant, PTL DEF Spec
=============================================================================
