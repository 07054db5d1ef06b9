------------------------ MODULE SessionRuntimeProofs ------------------------
(***************************************************************************)
(* Proofs, for any number of messages, attempts, jobs, repeated commands   *)
(* and disturbances, that the session aggregate stays consistent and that  *)
(* the input of an attempt is never handed to the provider twice.          *)
(***************************************************************************)
EXTENDS SessionRuntime, TLAPS

-----------------------------------------------------------------------------
(* The inductive invariant, in the three parts the actions disturb.        *)

\* The aggregate.  Besides the two properties: a scheduled successor has a
\* predecessor, and a turn exists exactly when it has an attempt.
SuccessorIsComplete == successor = None <=> predecessor = None
TurnsHaveAttempts ==
    \A m \in Messages : turnStatus[m] = "absent" <=> attempts[m] = 0

TurnType ==
    /\ current \in Messages \cup {None}
    /\ turnStatus \in
          [Messages -> {"absent", "active", "finalizing", "settled"}]
    /\ phase \in {"none", "running", "interrupt-requested",
                  "interrupt-acknowledged"}
    /\ attempts \in [Messages -> 0..MaxAttempts]
    /\ successor \in Messages \cup {None}
    /\ predecessor \in Messages \cup {None}

TurnInv ==
    /\ TurnType
    /\ OneOpenTurn
    /\ SuccessorFollowsCurrent
    /\ SuccessorIsComplete
    /\ TurnsHaveAttempts

\* The delivery of inputs.
DeliveryType ==
    /\ jobs \in Seq(Jobs)
    /\ bound \subseteq Attempts /\ recoveries \subseteq Attempts
    /\ live \subseteq Attempts
    /\ sends \in [Attempts -> 0..1]

\* A send job belongs to an attempt that was started,
SendsAreStarted ==
    \A i \in 1..Len(jobs) :
        jobs[i].kind = "send" => jobs[i].attempt <= attempts[jobs[i].turn]

\* no two of them to the same one.
OneSendPerAttempt ==
    \A i, k \in 1..Len(jobs) :
        /\ jobs[i].kind = "send" /\ jobs[k].kind = "send"
        /\ jobs[i].turn = jobs[k].turn /\ jobs[i].attempt = jobs[k].attempt
        => i = k

\* What is delivered was asked for by a send job.
DeliveredByJob ==
    \A m \in Messages, a \in 1..MaxAttempts :
        sends[<<m, a>>] # 0 =>
            \E i \in 1..Len(jobs) : /\ jobs[i].kind = "send"
                                    /\ jobs[i].turn = m /\ jobs[i].attempt = a

\* A recovery attempt was started, and has no send job.
RecoveriesAreNotSent ==
    \A m \in Messages, a \in 1..MaxAttempts :
        <<m, a>> \in recoveries =>
            /\ a <= attempts[m]
            /\ \A i \in 1..Len(jobs) :
                  ~(jobs[i].kind = "send" /\ jobs[i].turn = m
                       /\ jobs[i].attempt = a)

\* Nothing is bound, recovered or executed before the first send job.
EvidenceFollowsSend ==
    live \cup bound \cup recoveries # {} =>
        \E i \in 1..Len(jobs) : jobs[i].kind = "send"

\* The journal of a send job tells what may have been delivered: nothing while
\* there is no entry or the fiber has not called the provider; and a fiber that
\* passed delivery.begin has left its entry.
MarkIsHonest(r) ==
    r.kind = "send" =>
        /\ r.journal = "missing" => sends[<<r.turn, r.attempt>>] = 0
        /\ r.step \in {"begun", "sending"} => sends[<<r.turn, r.attempt>>] = 0
        /\ r.step \in {"begun", "sending", "delivered", "unknown"} =>
              r.journal # "missing"

MarksAreHonest == \A i \in 1..Len(jobs) : MarkIsHonest(jobs[i])

DeliveryInv ==
    /\ DeliveryType
    /\ SendsAreStarted
    /\ OneSendPerAttempt
    /\ DeliveredByJob
    /\ RecoveriesAreNotSent
    /\ EvidenceFollowsSend
    /\ MarksAreHonest

\* The rest only has types.
RestType ==
    /\ queued \subseteq Messages /\ held \subseteq queued
    /\ gate \in {"open", "paused"} /\ life \in {"live", "archived"}
    /\ status \in {"busy", "idle", "error"}
    /\ receipts \in [Commands -> {"new", "quiet", "interrupted", "steered"}]
    /\ lease \in Attempts \cup {<<>>}
    /\ inbox \in [Messages -> {"new", "accepted", "withdrawn"}]
    /\ claimed \in Messages \cup {None}
    /\ pausing \in {"no", "yes"} /\ faults \in 0..MaxFaults

IInv == TurnInv /\ DeliveryInv /\ RestType

-----------------------------------------------------------------------------
(* Job rows.  A revision of the table has the same jobs with honest marks. *)

Revision(js) ==
    /\ js \in Seq(Jobs)
    /\ Len(js) = Len(jobs)
    /\ \A i \in 1..Len(jobs) : /\ js[i].kind = jobs[i].kind
                               /\ js[i].turn = jobs[i].turn
                               /\ js[i].attempt = jobs[i].attempt
                               /\ MarkIsHonest(js[i])

\* Every row of a table is a job.
LEMMA RowsAreJobs ==
    ASSUME NEW js \in Seq(Jobs)
    PROVE  /\ DOMAIN js = 1..Len(js)
           /\ Len(js) \in Nat
           /\ \A i \in 1..Len(js) : js[i] \in Jobs
  OBVIOUS

\* The table itself is one of its revisions.
LEMMA JobsRevise ==
    ASSUME DeliveryInv
    PROVE  Revision(jobs)
  BY DEF DeliveryInv, DeliveryType, MarksAreHonest, Revision

\* A fiber's step on its own row is a revision if it leaves the mark honest.
LEMMA RowRevises ==
    ASSUME DeliveryInv, NEW i \in DOMAIN jobs, NEW st \in JobStatuses,
           NEW s \in Steps, NEW mark \in Journal,
           jobs[i].kind = "send" =>
               /\ mark = "missing" =>
                     sends[<<jobs[i].turn, jobs[i].attempt>>] = 0
               /\ s \in {"begun", "sending"} =>
                     sends[<<jobs[i].turn, jobs[i].attempt>>] = 0
               /\ s \in {"begun", "sending", "delivered", "unknown"} =>
                     mark # "missing"
    PROVE  Revision(Row(i, st, s, mark))
<1> DEFINE r == [jobs[i] EXCEPT !.status = st, !.step = s, !.journal = mark]
<1>1. /\ jobs \in Seq(Jobs) /\ i \in 1..Len(jobs) /\ jobs[i] \in Jobs
  BY RowsAreJobs DEF DeliveryInv, DeliveryType
<1>2. /\ r \in Jobs /\ r.kind = jobs[i].kind /\ r.turn = jobs[i].turn
      /\ r.attempt = jobs[i].attempt /\ r.step = s /\ r.journal = mark
  BY <1>1 DEF Jobs
<1>3. MarkIsHonest(r)
  BY <1>2 DEF MarkIsHonest
<1>4. Row(i, st, s, mark) = [jobs EXCEPT ![i] = r]
  BY DEF Row
<1> HIDE DEF r
<1>5. /\ [jobs EXCEPT ![i] = r] \in Seq(Jobs)
      /\ Len([jobs EXCEPT ![i] = r]) = Len(jobs)
  BY <1>1, <1>2
<1>6. \A k \in 1..Len(jobs) : MarkIsHonest(jobs[k])
  BY DEF DeliveryInv, MarksAreHonest
<1>7. \A k \in 1..Len(jobs) :
         [jobs EXCEPT ![i] = r][k] = IF k = i THEN r ELSE jobs[k]
  BY <1>1
<1> QED
  BY <1>1, <1>2, <1>3, <1>4, <1>5, <1>6, <1>7 DEF Revision

\* The worker's last write on a row: the mark of a send is no longer missing.
LEMMA FinishRevises ==
    ASSUME DeliveryInv, NEW i \in DOMAIN jobs, Finish(i)
    PROVE  Revision(jobs')
<1> DEFINE st == IF jobs[i].status = "running" THEN "succeeded"
                 ELSE jobs[i].status
           mark == IF jobs[i].kind = "send" THEN "unknown" ELSE jobs[i].journal
           js == Row(i, st, "none", mark)
<1>1. jobs[i] \in Jobs
  BY RowsAreJobs DEF DeliveryInv, DeliveryType
<1>2. st \in JobStatuses /\ mark \in Journal /\ "none" \in Steps
  BY <1>1 DEF Jobs, JobStatuses, Journal, Steps
<1>3. Revision(js)
  <2> HIDE DEF st
  <2>1. jobs[i].kind = "send" => mark # "missing"
    OBVIOUS
  <2> HIDE DEF mark
  <2> QED
    BY <1>2, <2>1, RowRevises
<1>4. jobs' = js
  BY DEF Finish
<1> QED
  BY <1>3, <1>4

\* Cancelling rows revises a table.
LEMMA CancelRevises ==
    ASSUME NEW js, Revision(js), NEW kinds
    PROVE  Revision(CancelUnsettled(js, kinds))
<1> DEFINE F(i) == IF js[i].kind \in kinds /\ js[i].status \in Unsettled
                   THEN [js[i] EXCEPT !.status = "cancelled"]
                   ELSE js[i]
           ks == [i \in DOMAIN js |-> F(i)]
<1>1. /\ js \in Seq(Jobs) /\ DOMAIN js = 1..Len(js) /\ Len(js) = Len(jobs)
      /\ \A i \in 1..Len(js) : js[i] \in Jobs
  BY RowsAreJobs DEF Revision
<1>2. \A i \in 1..Len(js) :
        /\ F(i) \in Jobs /\ F(i).kind = js[i].kind
        /\ F(i).turn = js[i].turn /\ F(i).attempt = js[i].attempt
        /\ F(i).step = js[i].step /\ F(i).journal = js[i].journal
  BY <1>1 DEF Jobs, JobStatuses
<1>3. \A i \in 1..Len(js) : MarkIsHonest(F(i))
  BY <1>1, <1>2 DEF Revision, MarkIsHonest
<1>4. \A i \in 1..Len(js) : ks[i] = F(i)
  BY <1>1
<1>5. ks = CancelUnsettled(js, kinds)
  BY DEF CancelUnsettled
<1> HIDE DEF F
<1>6. ks \in Seq(Jobs) /\ Len(ks) = Len(js)
  BY <1>1, <1>2
<1> QED
  BY <1>1, <1>2, <1>3, <1>4, <1>5, <1>6 DEF Revision

\* Boot reconciliation revises the table.
LEMMA RequeuedRevises ==
    ASSUME DeliveryInv
    PROVE  Revision(Requeued)
<1> DEFINE F(i) == [jobs[i] EXCEPT !.status = IF @ \in {"running", "waiting"}
                                             THEN "pending" ELSE @,
                                   !.step = "none"]
           ks == [i \in DOMAIN jobs |-> F(i)]
<1>1. /\ jobs \in Seq(Jobs) /\ DOMAIN jobs = 1..Len(jobs)
      /\ \A i \in 1..Len(jobs) : jobs[i] \in Jobs
  BY RowsAreJobs DEF DeliveryInv, DeliveryType
<1>2. \A i \in 1..Len(jobs) :
        /\ F(i) \in Jobs /\ F(i).kind = jobs[i].kind
        /\ F(i).turn = jobs[i].turn /\ F(i).attempt = jobs[i].attempt
        /\ F(i).step = "none" /\ F(i).journal = jobs[i].journal
  BY <1>1 DEF Jobs, JobStatuses, Steps
<1>3. \A i \in 1..Len(jobs) : MarkIsHonest(F(i))
  BY <1>1, <1>2 DEF DeliveryInv, MarksAreHonest, MarkIsHonest
<1>4. \A i \in 1..Len(jobs) : ks[i] = F(i)
  BY <1>1
<1>5. ks = Requeued
  BY DEF Requeued
<1> HIDE DEF F
<1>6. ks \in Seq(Jobs) /\ Len(ks) = Len(jobs)
  BY <1>1, <1>2
<1> QED
  BY <1>1, <1>2, <1>3, <1>4, <1>5, <1>6 DEF Revision

-----------------------------------------------------------------------------
(* What the commands do to the aggregate.                                  *)

\* A step that touches neither turns nor successor keeps TurnInv.
LEMMA TurnInvStutter ==
    ASSUME TurnInv, UNCHANGED <<turnVars, successorVars>>
    PROVE  TurnInv'
  BY DEF TurnInv, TurnType, OneOpenTurn, SuccessorFollowsCurrent, Open,
         SuccessorIsComplete, TurnsHaveAttempts, turnVars, successorVars

\* The current turn has an attempt.
LEMMA CurrentHasAttempt ==
    ASSUME TurnInv, current # None
    PROVE  /\ current \in Messages /\ Open(current)
           /\ attempts[current] \in 1..MaxAttempts
<1>1. current \in Messages /\ Open(current)
  BY DEF TurnInv, TurnType, OneOpenTurn
<1>2. turnStatus[current] # "absent"
  BY <1>1 DEF Open
<1>3. attempts[current] # 0 /\ attempts[current] \in 0..MaxAttempts
  BY <1>1, <1>2 DEF TurnInv, TurnType, TurnsHaveAttempts
<1> QED
  BY <1>1, <1>3, SessionConstants

\* A submitted turn is the only open one.
LEMMA SubmitKeepsTurnInv ==
    ASSUME TurnInv, NEW m \in Messages, NEW js, SubmitTurn(m, js)
    PROVE  TurnInv'
<1>1. /\ current = None /\ turnStatus[m] = "absent" /\ current' = m
      /\ turnStatus' = [turnStatus EXCEPT ![m] = "active"]
      /\ phase' = "running" /\ attempts' = [attempts EXCEPT ![m] = 1]
      /\ successor' = successor /\ predecessor' = predecessor
  BY DEF SubmitTurn, TurnStarted, successorVars
<1>2. TurnType'
  BY <1>1, SessionConstants DEF TurnInv, TurnType
<1>3. OneOpenTurn'
  BY <1>1, SessionConstants DEF TurnInv, TurnType, OneOpenTurn, Open
<1>4. successor = None
  BY <1>1 DEF TurnInv, SuccessorFollowsCurrent
<1>5. SuccessorFollowsCurrent' /\ SuccessorIsComplete'
  BY <1>1, <1>4 DEF TurnInv, SuccessorFollowsCurrent, SuccessorIsComplete
<1>6. TurnsHaveAttempts'
  BY <1>1 DEF TurnInv, TurnType, TurnsHaveAttempts
<1> QED
  BY <1>2, <1>3, <1>5, <1>6 DEF TurnInv

\* A new attempt changes neither which turn is open nor its successor.
LEMMA AttemptKeepsTurnInv ==
    ASSUME TurnInv, current # None, StartAttempt, UNCHANGED successorVars
    PROVE  TurnInv'
<1>1. /\ current \in Messages /\ Open(current)
      /\ attempts[current] \in 1..MaxAttempts
  BY CurrentHasAttempt
<1>2. /\ UNCHANGED <<current, turnStatus, successor, predecessor>>
      /\ phase' = "running" /\ attempts[current] < MaxAttempts
      /\ attempts' = [attempts EXCEPT ![current] = attempts[current] + 1]
  BY DEF StartAttempt, successorVars
<1>3. attempts[current] + 1 \in 1..MaxAttempts
  BY <1>1, <1>2, SessionConstants
<1>4. TurnType'
  BY <1>1, <1>2, <1>3 DEF TurnInv, TurnType
<1>5. OneOpenTurn'
  BY <1>2 DEF TurnInv, OneOpenTurn, Open
<1>6. SuccessorFollowsCurrent' /\ SuccessorIsComplete'
  BY <1>2 DEF TurnInv, SuccessorFollowsCurrent, SuccessorIsComplete
<1>7. TurnsHaveAttempts'
  BY <1>1, <1>2, <1>3 DEF TurnInv, TurnType, TurnsHaveAttempts, Open
<1> QED
  BY <1>4, <1>5, <1>6, <1>7 DEF TurnInv

\* Finalization leaves the turn open.
LEMMA FinalizeKeepsTurnInv ==
    ASSUME TurnInv, NEW outcome, NEW js, Finalize(outcome, js)
    PROVE  TurnInv'
<1>1. current # None
  BY DEF Finalize
<1>2. current \in Messages /\ Open(current)
  BY <1>1, CurrentHasAttempt
<1>3. /\ UNCHANGED <<current, phase, attempts, successor, predecessor>>
      /\ \/ turnStatus' = turnStatus
         \/ turnStatus' = [turnStatus EXCEPT ![current] = "finalizing"]
  BY DEF Finalize, successorVars
<1>4. TurnType'
  BY <1>2, <1>3 DEF TurnInv, TurnType
<1>5. OneOpenTurn'
  BY <1>2, <1>3 DEF TurnInv, TurnType, OneOpenTurn, Open
<1>6. SuccessorFollowsCurrent' /\ SuccessorIsComplete'
  BY <1>3 DEF TurnInv, SuccessorFollowsCurrent, SuccessorIsComplete
<1>7. TurnsHaveAttempts'
  BY <1>2, <1>3 DEF TurnInv, TurnType, TurnsHaveAttempts, Open
<1> QED
  BY <1>4, <1>5, <1>6, <1>7 DEF TurnInv

\* Settling closes the turn and hands over to its successor, if there is one.
LEMMA SettleKeepsTurnInv ==
    ASSUME TurnInv, NEW outcome, NEW js, SettleTurn(outcome, js)
    PROVE  TurnInv'
<1>1. current # None
  BY DEF SettleTurn
<1>2. current \in Messages /\ Open(current)
  BY <1>1, CurrentHasAttempt
<1>3. /\ current' = None /\ phase' = "none" /\ attempts' = attempts
      /\ turnStatus' = [turnStatus EXCEPT ![current] = "settled"]
  BY DEF SettleTurn, TurnSettled
<1>4. successor' = None /\ predecessor' = None
  <2>1. CASE predecessor = current
    BY <2>1 DEF SettleTurn, SuccessorTurnScheduled
  <2>2. CASE predecessor # current
    <3>1. successor = None
      BY <2>2 DEF TurnInv, SuccessorFollowsCurrent
    <3> QED
      BY <2>2, <3>1 DEF SettleTurn, successorVars, TurnInv, SuccessorIsComplete
  <2> QED
    BY <2>1, <2>2
<1>5. TurnType'
  BY <1>2, <1>3, <1>4 DEF TurnInv, TurnType
<1>6. OneOpenTurn'
  BY <1>2, <1>3, SessionConstants DEF TurnInv, TurnType, OneOpenTurn, Open
<1>7. SuccessorFollowsCurrent' /\ SuccessorIsComplete'
  BY <1>4 DEF SuccessorFollowsCurrent, SuccessorIsComplete
<1>8. TurnsHaveAttempts'
  BY <1>2, <1>3 DEF TurnInv, TurnType, TurnsHaveAttempts, Open
<1> QED
  BY <1>5, <1>6, <1>7, <1>8 DEF TurnInv

\* A new phase of the current turn, perhaps with a new successor for it.
LEMMA PhaseKeepsTurnInv ==
    ASSUME TurnInv, current # None, UNCHANGED <<current, turnStatus, attempts>>,
           phase' \in {"running", "interrupt-requested",
                       "interrupt-acknowledged"},
           \/ UNCHANGED successorVars
           \/ \E m \in Messages : successor' = m /\ predecessor' = current
    PROVE  TurnInv'
<1>1. current \in Messages
  BY CurrentHasAttempt
<1>2. TurnType'
  BY <1>1 DEF TurnInv, TurnType, successorVars
<1>3. OneOpenTurn'
  BY DEF TurnInv, OneOpenTurn, Open
<1>4. SuccessorFollowsCurrent' /\ SuccessorIsComplete'
  BY <1>1, SessionConstants
     DEF TurnInv, SuccessorFollowsCurrent, SuccessorIsComplete, successorVars
<1>5. TurnsHaveAttempts'
  BY DEF TurnInv, TurnsHaveAttempts
<1> QED
  BY <1>2, <1>3, <1>4, <1>5 DEF TurnInv

\* Steering gives the running turn a successor.
LEMMA SteerKeepsTurnInv ==
    ASSUME TurnInv, NEW m \in Messages, NEW js,
           SteerQueuedTurn(m, js) \/ SteerAfterSettlement(m, js)
    PROVE  TurnInv'
<1>1. CASE SteerQueuedTurn(m, js)
  <2>1. /\ current # None /\ successor' = m /\ predecessor' = current
        /\ UNCHANGED <<current, turnStatus, attempts>>
        /\ phase' = phase \/ phase' = "interrupt-requested"
    BY <1>1 DEF SteerQueuedTurn, SuccessorTurnScheduled, turnVars, TurnPhase
  <2>2. phase' \in {"running", "interrupt-requested", "interrupt-acknowledged"}
    BY <2>1 DEF TurnInv, TurnType, OneOpenTurn
  <2> QED
    BY <2>1, <2>2, PhaseKeepsTurnInv
<1>2. CASE SteerAfterSettlement(m, js)
  <2>1. /\ UNCHANGED <<current, turnStatus, phase, attempts>>
        /\ successor' = None /\ predecessor' = None
    BY <1>2 DEF SteerAfterSettlement, SuccessorTurnScheduled, turnVars
  <2> QED
    BY <2>1 DEF TurnInv, TurnType, OneOpenTurn, SuccessorFollowsCurrent, Open,
                SuccessorIsComplete, TurnsHaveAttempts
<1> QED
  BY <1>1, <1>2

-----------------------------------------------------------------------------
(* What the commands do to deliveries: a revision of the table, with at    *)
(* most one job r added at its end.                                        *)

Grown(r) ==
    /\ jobs' \in Seq(Jobs)
    /\ Len(jobs') \in Len(jobs)..(Len(jobs) + 1)
    /\ \A i \in 1..Len(jobs) : /\ jobs'[i].kind = jobs[i].kind
                               /\ jobs'[i].turn = jobs[i].turn
                               /\ jobs'[i].attempt = jobs[i].attempt
                               /\ MarkIsHonest(jobs'[i])
    /\ \A i \in 1..Len(jobs') : i \notin 1..Len(jobs) => jobs'[i] = r

\* A revision grows by nothing.
LEMMA RevisedIsGrown ==
    ASSUME DeliveryInv, Revision(jobs'), NEW r
    PROVE  Grown(r)
  BY RowsAreJobs DEF Revision, Grown, DeliveryInv, DeliveryType

\* Enqueueing adds its job at the end of a revision.
LEMMA EnqueuedIsGrown ==
    ASSUME DeliveryInv, NEW js, Revision(js), NEW r \in Jobs,
           jobs' = Enqueue(js, r)
    PROVE  Grown(r) /\ Len(jobs') = Len(jobs) + 1
<1>1. /\ jobs \in Seq(Jobs) /\ js \in Seq(Jobs) /\ Len(js) = Len(jobs)
      /\ Len(jobs) \in Nat
  BY RowsAreJobs DEF Revision, DeliveryInv, DeliveryType
<1>2. /\ jobs' \in Seq(Jobs) /\ Len(jobs') = Len(jobs) + 1
      /\ \A i \in 1..Len(jobs) : jobs'[i] = js[i]
      /\ jobs'[Len(jobs) + 1] = r
  BY <1>1 DEF Enqueue
<1>3. \A i \in 1..Len(jobs') : i \notin 1..Len(jobs) => jobs'[i] = r
  <2> SUFFICES ASSUME NEW i \in 1..Len(jobs'), i \notin 1..Len(jobs)
               PROVE  i = Len(jobs) + 1
    BY <1>2
  <2> QED
    BY <1>1, <1>2
<1> QED
  BY <1>1, <1>2, <1>3 DEF Revision, Grown

AttemptsGrow ==
    /\ attempts' \in [Messages -> 0..MaxAttempts]
    /\ \A m \in Messages : attempts[m] <= attempts'[m]

\* Without a new send job: new recoveries are of attempts just started.
LEMMA GrownKeepsDeliveryInv ==
    ASSUME TurnInv, DeliveryInv, NEW r, Grown(r),
           Len(jobs') # Len(jobs) => r.kind # "send",
           AttemptsGrow, UNCHANGED sends,
           live' \cup bound' \cup recoveries' \subseteq Attempts,
           live' \cup bound' \cup recoveries' # {} =>
               live \cup bound \cup recoveries # {},
           \A m \in Messages, a \in 1..MaxAttempts :
               <<m, a>> \in recoveries' \ recoveries =>
                   attempts[m] < a /\ a <= attempts'[m]
    PROVE  DeliveryInv'
<1>1. /\ jobs \in Seq(Jobs) /\ Len(jobs) \in Nat
      /\ \A i \in 1..Len(jobs) : jobs[i] \in Jobs
      /\ attempts \in [Messages -> 0..MaxAttempts]
  BY RowsAreJobs DEF DeliveryInv, DeliveryType, TurnInv, TurnType
<1>2. /\ jobs' \in Seq(Jobs) /\ Len(jobs') \in Nat
      /\ \A i \in 1..Len(jobs') : jobs'[i] \in Jobs
  BY RowsAreJobs DEF Grown
<1>3. \A i \in 1..Len(jobs') : jobs'[i].kind = "send" => i \in 1..Len(jobs)
  BY <1>1, <1>2 DEF Grown
<1>4. \A i \in 1..Len(jobs) : i \in 1..Len(jobs')
  BY <1>1, <1>2 DEF Grown
<1>5. DeliveryType'
  BY <1>2 DEF DeliveryInv, DeliveryType
<1>6. SendsAreStarted'
  <2> SUFFICES ASSUME NEW i \in 1..Len(jobs'), jobs'[i].kind = "send"
               PROVE  jobs'[i].attempt <= attempts'[jobs'[i].turn]
    BY DEF SendsAreStarted
  <2>1. /\ i \in 1..Len(jobs) /\ jobs[i].kind = "send"
        /\ jobs'[i].attempt = jobs[i].attempt /\ jobs'[i].turn = jobs[i].turn
    BY <1>3 DEF Grown
  <2>2. jobs[i].turn \in Messages /\ jobs[i].attempt \in 1..MaxAttempts
    BY <1>1, <2>1 DEF Jobs
  <2>3. jobs[i].attempt <= attempts[jobs[i].turn]
    BY <2>1 DEF DeliveryInv, SendsAreStarted
  <2> QED
    BY <1>1, <2>1, <2>2, <2>3, SessionConstants DEF AttemptsGrow
<1>7. OneSendPerAttempt'
  BY <1>3 DEF DeliveryInv, OneSendPerAttempt, Grown
<1>8. DeliveredByJob'
  BY <1>4 DEF DeliveryInv, DeliveredByJob, Grown
<1>9. RecoveriesAreNotSent'
  <2> SUFFICES ASSUME NEW m \in Messages, NEW a \in 1..MaxAttempts,
                      <<m, a>> \in recoveries'
               PROVE  /\ a <= attempts'[m]
                      /\ \A i \in 1..Len(jobs') :
                            ~(jobs'[i].kind = "send" /\ jobs'[i].turn = m
                                 /\ jobs'[i].attempt = a)
    BY DEF RecoveriesAreNotSent
  <2>1. CASE <<m, a>> \in recoveries
    <3>1. /\ a <= attempts[m]
          /\ \A i \in 1..Len(jobs) :
                ~(jobs[i].kind = "send" /\ jobs[i].turn = m
                     /\ jobs[i].attempt = a)
      BY <2>1 DEF DeliveryInv, RecoveriesAreNotSent
    <3>2. a <= attempts'[m]
      BY <1>1, <3>1, SessionConstants DEF AttemptsGrow
    <3> QED
      BY <1>3, <3>1, <3>2 DEF Grown
  <2>2. CASE <<m, a>> \notin recoveries
    <3>1. attempts[m] < a /\ a <= attempts'[m]
      BY <2>2
    <3>2. \A i \in 1..Len(jobs) :
             jobs[i].kind = "send" /\ jobs[i].turn = m => jobs[i].attempt # a
      BY <1>1, <3>1, SessionConstants DEF DeliveryInv, SendsAreStarted, Jobs
    <3> QED
      BY <1>3, <3>1, <3>2 DEF Grown
  <2> QED
    BY <2>1, <2>2
<1>10. EvidenceFollowsSend'
  BY <1>4 DEF DeliveryInv, EvidenceFollowsSend, Grown
<1>11. MarksAreHonest'
  BY <1>3 DEF Grown, MarksAreHonest, MarkIsHonest
<1> QED
  BY <1>5, <1>6, <1>7, <1>8, <1>9, <1>10, <1>11 DEF DeliveryInv

\* With a new send job: its attempt is started, has none yet and is no recovery.
LEMMA SendKeepsDeliveryInv ==
    ASSUME TurnInv, DeliveryInv, AttemptsGrow, UNCHANGED <<sends, recoveries>>,
           NEW m \in Messages, NEW a \in 1..MaxAttempts, a <= attempts'[m],
           Grown(NewJob("send", m, a, "none")), Len(jobs') = Len(jobs) + 1,
           live' \cup bound' \subseteq Attempts,
           <<m, a>> \notin recoveries,
           \A i \in 1..Len(jobs) :
               ~(jobs[i].kind = "send" /\ jobs[i].turn = m
                    /\ jobs[i].attempt = a)
    PROVE  DeliveryInv'
<1> DEFINE r == NewJob("send", m, a, "none")
           n == Len(jobs)
<1>1. /\ jobs \in Seq(Jobs) /\ n \in Nat
      /\ \A i \in 1..n : jobs[i] \in Jobs
      /\ attempts \in [Messages -> 0..MaxAttempts]
  BY RowsAreJobs DEF DeliveryInv, DeliveryType, TurnInv, TurnType
<1>2. /\ jobs' \in Seq(Jobs)
      /\ \A i \in 1..Len(jobs') : jobs'[i] \in Jobs
  BY RowsAreJobs DEF Grown
<1>3. \A i \in 1..(n + 1) : i \in 1..n \/ i = n + 1
  BY <1>1
<1>4. /\ r.kind = "send" /\ r.turn = m /\ r.attempt = a
      /\ r.step = "none" /\ r.journal = "missing"
  BY DEF NewJob
<1>5. /\ jobs'[n + 1] = r /\ n + 1 \in 1..Len(jobs') /\ n + 1 \notin 1..n
  BY <1>1 DEF Grown
<1>6. \A i \in 1..n : i \in 1..Len(jobs')
  BY <1>1
<1>7. \A i \in 1..Len(jobs') : i \in 1..n \/ i = n + 1
  BY <1>3
<1>8. sends[<<m, a>>] = 0
  BY DEF DeliveryInv, DeliveredByJob
<1> HIDE DEF r
<1>9. DeliveryType'
  BY <1>2 DEF DeliveryInv, DeliveryType
<1>10. SendsAreStarted'
  <2> SUFFICES ASSUME NEW i \in 1..Len(jobs'), jobs'[i].kind = "send"
               PROVE  jobs'[i].attempt <= attempts'[jobs'[i].turn]
    BY DEF SendsAreStarted
  <2>1. CASE i = n + 1
    BY <1>4, <1>5, <2>1
  <2>2. CASE i \in 1..n
    <3>1. /\ jobs[i].kind = "send"
          /\ jobs'[i].attempt = jobs[i].attempt
          /\ jobs'[i].turn = jobs[i].turn
      BY <2>2 DEF Grown
    <3>2. jobs[i].turn \in Messages /\ jobs[i].attempt \in 1..MaxAttempts
      BY <1>1, <2>2 DEF Jobs
    <3>3. jobs[i].attempt <= attempts[jobs[i].turn]
      BY <2>2, <3>1 DEF DeliveryInv, SendsAreStarted
    <3> QED
      BY <1>1, <3>1, <3>2, <3>3, SessionConstants DEF AttemptsGrow
  <2> QED
    BY <1>7, <2>1, <2>2
<1>11. OneSendPerAttempt'
  <2>1. \A i \in 1..n : /\ jobs'[i].kind = jobs[i].kind
                        /\ jobs'[i].turn = jobs[i].turn
                        /\ jobs'[i].attempt = jobs[i].attempt
    BY DEF Grown
  <2>2. \A i \in 1..n : ~(jobs'[i].kind = "send" /\ jobs'[i].turn = m
                             /\ jobs'[i].attempt = a)
    BY <2>1
  <2> QED
    BY <1>4, <1>5, <1>7, <2>1, <2>2 DEF DeliveryInv, OneSendPerAttempt
<1>12. DeliveredByJob'
  BY <1>6 DEF DeliveryInv, DeliveredByJob, Grown
<1>13. RecoveriesAreNotSent'
  <2> SUFFICES ASSUME NEW t \in Messages, NEW b \in 1..MaxAttempts,
                      <<t, b>> \in recoveries
               PROVE  /\ b <= attempts'[t]
                      /\ \A i \in 1..Len(jobs') :
                            ~(jobs'[i].kind = "send" /\ jobs'[i].turn = t
                                 /\ jobs'[i].attempt = b)
    BY DEF RecoveriesAreNotSent
  <2>1. /\ b <= attempts[t]
        /\ \A i \in 1..n : ~(jobs[i].kind = "send" /\ jobs[i].turn = t
                                /\ jobs[i].attempt = b)
    BY DEF DeliveryInv, RecoveriesAreNotSent
  <2>2. b <= attempts'[t]
    BY <1>1, <2>1, SessionConstants DEF AttemptsGrow
  <2>3. \A i \in 1..n : ~(jobs'[i].kind = "send" /\ jobs'[i].turn = t
                             /\ jobs'[i].attempt = b)
    BY <2>1 DEF Grown
  <2>4. ~(r.turn = t /\ r.attempt = b)
    BY <1>4
  <2> QED
    BY <1>5, <1>7, <2>2, <2>3, <2>4
<1>14. EvidenceFollowsSend'
  BY <1>4, <1>5 DEF EvidenceFollowsSend
<1>15. MarksAreHonest'
  <2>1. MarkIsHonest(r)
    BY <1>4, <1>8 DEF MarkIsHonest
  <2> QED
    BY <1>5, <1>7, <2>1 DEF Grown, MarksAreHonest, MarkIsHonest
<1> QED
  BY <1>9, <1>10, <1>11, <1>12, <1>13, <1>14, <1>15 DEF DeliveryInv

\* A delivery: the first of its attempt, because its row had not called the
\* provider and no other row is about that attempt.
LEMMA DeliverKeepsDeliveryInv ==
    ASSUME TurnInv, DeliveryInv, NEW i \in DOMAIN jobs,
           jobs[i].kind = "send", jobs[i].step = "sending",
           Deliver(jobs[i].turn, jobs[i].attempt),
           NEW s \in {"delivered", "unknown"}, jobs' = Step(i, s),
           UNCHANGED <<attempts, recoveries, bound>>
    PROVE  DeliveryInv'
<1> DEFINE m == jobs[i].turn
           a == jobs[i].attempt
<1>1. /\ jobs \in Seq(Jobs) /\ i \in 1..Len(jobs) /\ jobs[i] \in Jobs
      /\ \A k \in 1..Len(jobs) : jobs[k] \in Jobs
  BY RowsAreJobs DEF DeliveryInv, DeliveryType
<1>2. /\ jobs[i].status \in JobStatuses /\ s \in Steps
      /\ jobs[i].journal \in Journal /\ m \in Messages /\ a \in 1..MaxAttempts
  BY <1>1 DEF Jobs, Steps
<1>3. jobs[i].journal # "missing" /\ sends[<<m, a>>] = 0
  BY <1>1 DEF DeliveryInv, MarksAreHonest, MarkIsHonest
<1>4. Revision(jobs')
  BY <1>2, <1>3, RowRevises DEF Step
<1>5. \A k \in 1..Len(jobs) : k # i => jobs'[k] = jobs[k]
  BY <1>1 DEF Step, Row
<1>6. jobs'[i].step = s /\ jobs'[i].journal = jobs[i].journal
  BY <1>1, <1>2 DEF Step, Row, Jobs
<1>7. /\ sends' = [sends EXCEPT ![<<m, a>>] = 1]
      /\ live' = {<<m, a>>} /\ <<m, a>> \in Attempts
      /\ sends \in [Attempts -> 0..1]
  BY <1>2, <1>3 DEF Deliver, DeliveryInv, DeliveryType, Attempts
<1>8. DeliveryType'
  BY <1>4, <1>7 DEF DeliveryInv, DeliveryType, Revision
<1>9. SendsAreStarted' /\ OneSendPerAttempt' /\ RecoveriesAreNotSent'
  <2>1. /\ Len(jobs') = Len(jobs)
        /\ \A k \in 1..Len(jobs) : /\ jobs'[k].kind = jobs[k].kind
                                   /\ jobs'[k].turn = jobs[k].turn
                                   /\ jobs'[k].attempt = jobs[k].attempt
    BY <1>4 DEF Revision
  <2>2. SendsAreStarted'
    BY <2>1 DEF DeliveryInv, SendsAreStarted
  <2>3. OneSendPerAttempt'
    BY <2>1 DEF DeliveryInv, OneSendPerAttempt
  <2>4. RecoveriesAreNotSent'
    BY <2>1 DEF DeliveryInv, RecoveriesAreNotSent
  <2> QED
    BY <2>2, <2>3, <2>4
<1>10. DeliveredByJob'
  <2> SUFFICES ASSUME NEW t \in Messages, NEW b \in 1..MaxAttempts,
                      sends'[<<t, b>>] # 0
               PROVE  \E k \in 1..Len(jobs') :
                         /\ jobs'[k].kind = "send"
                         /\ jobs'[k].turn = t /\ jobs'[k].attempt = b
    BY DEF DeliveredByJob
  <2>1. <<t, b>> \in Attempts
    BY DEF Attempts
  <2>2. CASE <<t, b>> = <<m, a>>
    BY <1>1, <1>4, <2>2 DEF Revision
  <2>3. CASE <<t, b>> # <<m, a>>
    <3>1. sends[<<t, b>>] # 0
      BY <1>7, <2>1, <2>3
    <3> QED
      BY <1>4, <3>1 DEF DeliveryInv, DeliveredByJob, Revision
  <2> QED
    BY <2>2, <2>3
<1>11. EvidenceFollowsSend'
  BY <1>1, <1>4 DEF EvidenceFollowsSend, Revision
<1>12. MarksAreHonest'
  <2> SUFFICES ASSUME NEW k \in 1..Len(jobs), jobs[k].kind = "send"
               PROVE  MarkIsHonest(jobs[k])'
    BY <1>4 DEF MarksAreHonest, MarkIsHonest, Revision
  <2>1. CASE k = i
    BY <1>3, <1>6, <2>1 DEF MarkIsHonest
  <2>2. CASE k # i
    <3>1. jobs[k].turn \in Messages /\ jobs[k].attempt \in 1..MaxAttempts
      BY <1>1 DEF Jobs
    <3>2. <<jobs[k].turn, jobs[k].attempt>> # <<m, a>>
      BY <1>1, <2>2 DEF DeliveryInv, OneSendPerAttempt
    <3>3. <<jobs[k].turn, jobs[k].attempt>> \in Attempts
      BY <3>1 DEF Attempts
    <3>4. sends'[<<jobs[k].turn, jobs[k].attempt>>]
            = sends[<<jobs[k].turn, jobs[k].attempt>>]
      BY <1>7, <3>2, <3>3
    <3>5. MarkIsHonest(jobs[k])
      BY DEF DeliveryInv, MarksAreHonest
    <3> QED
      BY <1>5, <2>2, <3>4, <3>5 DEF MarkIsHonest
  <2> QED
    BY <2>1, <2>2
<1> QED
  BY <1>8, <1>9, <1>10, <1>11, <1>12 DEF DeliveryInv

-----------------------------------------------------------------------------
(* The commands one by one.                                                *)

\* What jobRequestsForEvent asks for is a job of the kind asked for.
LEMMA NewJobType ==
    ASSUME NEW kind \in Kinds, NEW m \in Messages, NEW a \in 1..MaxAttempts,
           NEW outcome \in Outcomes
    PROVE  /\ NewJob(kind, m, a, outcome) \in Jobs
           /\ NewJob(kind, m, a, outcome).kind = kind
  BY DEF NewJob, Jobs, JobStatuses, Steps, Journal

\* A command is quiet when it asks for no send.
Quiet(js) ==
    \/ jobs' = js
    \/ \E r \in Jobs : r.kind # "send" /\ jobs' = Enqueue(js, r)

\* A quiet command delivers nothing and asks for no delivery.
LEMMA QuietKeepsDeliveryInv ==
    ASSUME TurnInv, DeliveryInv, NEW js, Revision(js), Quiet(js),
           UNCHANGED <<attempts, recoveries, sends>>,
           live' \subseteq live, bound' \subseteq bound \cup live
    PROVE  DeliveryInv'
<1>1. PICK r : Grown(r) /\ (Len(jobs') # Len(jobs) => r.kind # "send")
  <2>1. CASE jobs' = js
    BY <2>1, RevisedIsGrown DEF Revision
  <2>2. CASE \E r \in Jobs : r.kind # "send" /\ jobs' = Enqueue(js, r)
    BY <2>2, EnqueuedIsGrown
  <2> QED
    BY <2>1, <2>2 DEF Quiet
<1>2. AttemptsGrow
  BY SessionConstants DEF AttemptsGrow, TurnInv, TurnType
<1>3. live' \cup bound' \cup recoveries' \subseteq Attempts
  BY DEF DeliveryInv, DeliveryType
<1>4. live' \cup bound' \cup recoveries' # {} =>
          live \cup bound \cup recoveries # {}
  OBVIOUS
<1> QED
  BY <1>1, <1>2, <1>3, <1>4, GrownKeepsDeliveryInv

\* FinalizeTurn asks for a capture at most.
LEMMA FinalizeIsQuiet ==
    ASSUME TurnInv, NEW outcome \in Outcomes, NEW js, Finalize(outcome, js)
    PROVE  Quiet(js)
<1>1. current \in Messages /\ attempts[current] \in 1..MaxAttempts
  BY CurrentHasAttempt DEF Finalize
<1>2. /\ NewJob("capture", current, attempts[current], outcome) \in Jobs
      /\ NewJob("capture", current, attempts[current], outcome).kind # "send"
  BY <1>1, NewJobType DEF Kinds
<1> QED
  BY <1>2 DEF Finalize, Quiet

\* SettleTurn asks for the start of a successor at most.
LEMMA SettleIsQuiet ==
    ASSUME TurnInv, NEW outcome, NEW js, SettleTurn(outcome, js)
    PROVE  Quiet(js)
<1>1. CASE predecessor = current
  <2>1. current # None /\ successor \in Messages
    BY <1>1 DEF SettleTurn, TurnInv, TurnType, SuccessorIsComplete
  <2>2. 1 \in 1..MaxAttempts /\ "none" \in Outcomes /\ "successor" \in Kinds
    BY SessionConstants DEF Outcomes, Kinds
  <2>3. /\ NewJob("successor", successor, 1, "none") \in Jobs
        /\ NewJob("successor", successor, 1, "none").kind # "send"
    BY <2>1, <2>2, NewJobType
  <2> QED
    BY <1>1, <2>3 DEF SettleTurn, Quiet
<1>2. CASE predecessor # current
  BY <1>2 DEF SettleTurn, Quiet
<1> QED
  BY <1>1, <1>2

\* RequestTurnInterrupt cancels deliveries and asks for an interrupt.
LEMMA InterruptIsQuiet ==
    ASSUME TurnInv, NEW js, RequestTurnInterrupt(js)
    PROVE  Quiet(StopDelivery(js))
<1>1. current \in Messages /\ attempts[current] \in 1..MaxAttempts
  BY CurrentHasAttempt DEF RequestTurnInterrupt
<1>2. /\ NewJob("interrupt", current, attempts[current], "none") \in Jobs
      /\ NewJob("interrupt", current, attempts[current], "none").kind # "send"
  BY <1>1, NewJobType DEF Kinds, Outcomes
<1> QED
  BY <1>2 DEF RequestTurnInterrupt, Quiet

\* Steering asks for an interrupt or for the start of a successor.
LEMMA SteerIsQuiet ==
    ASSUME TurnInv, NEW m \in Messages, NEW js,
           SteerQueuedTurn(m, js) \/ SteerAfterSettlement(m, js)
    PROVE  Quiet(js) \/ Quiet(StopDelivery(js))
<1>1. CASE SteerQueuedTurn(m, js)
  <2>1. current \in Messages /\ attempts[current] \in 1..MaxAttempts
    BY <1>1, CurrentHasAttempt DEF SteerQueuedTurn
  <2>2. /\ NewJob("interrupt", current, attempts[current], "none") \in Jobs
        /\ NewJob("interrupt", current, attempts[current], "none").kind
               # "send"
    BY <2>1, NewJobType DEF Kinds, Outcomes
  <2> QED
    BY <1>1, <2>2 DEF SteerQueuedTurn, Quiet
<1>2. CASE SteerAfterSettlement(m, js)
  <2>1. 1 \in 1..MaxAttempts /\ "none" \in Outcomes /\ "successor" \in Kinds
    BY SessionConstants DEF Outcomes, Kinds
  <2>2. /\ NewJob("successor", m, 1, "none") \in Jobs
        /\ NewJob("successor", m, 1, "none").kind # "send"
    BY <2>1, NewJobType
  <2> QED
    BY <1>2, <2>2 DEF SteerAfterSettlement, Quiet
<1> QED
  BY <1>1, <1>2

\* SubmitTurn asks for the send of the first attempt of a new turn.
LEMMA SubmitKeepsDeliveryInv ==
    ASSUME TurnInv, DeliveryInv, NEW m \in Messages, NEW js, Revision(js),
           SubmitTurn(m, js), UNCHANGED <<live, sends>>
    PROVE  DeliveryInv'
<1>1. /\ turnStatus[m] = "absent" /\ attempts' = [attempts EXCEPT ![m] = 1]
      /\ jobs' = Enqueue(js, NewJob("send", m, 1, "none"))
      /\ UNCHANGED <<bound, recoveries>>
  BY DEF SubmitTurn, TurnStarted, evidenceVars
<1>2. attempts[m] = 0 /\ attempts \in [Messages -> 0..MaxAttempts]
  BY <1>1 DEF TurnInv, TurnType, TurnsHaveAttempts
<1>3. 1 \in 1..MaxAttempts /\ MaxAttempts \in Nat
  BY SessionConstants
<1>4. AttemptsGrow /\ attempts'[m] = 1
  BY <1>1, <1>2, <1>3 DEF AttemptsGrow
<1>5. NewJob("send", m, 1, "none") \in Jobs
  BY <1>3, NewJobType DEF Kinds, Outcomes
<1>6. Grown(NewJob("send", m, 1, "none")) /\ Len(jobs') = Len(jobs) + 1
  BY <1>1, <1>5, EnqueuedIsGrown
<1>7. <<m, 1>> \notin recoveries
  BY <1>2, <1>3 DEF DeliveryInv, RecoveriesAreNotSent
<1>8. \A i \in 1..Len(jobs) : ~(jobs[i].kind = "send" /\ jobs[i].turn = m
                                   /\ jobs[i].attempt = 1)
  BY <1>2 DEF DeliveryInv, SendsAreStarted
<1>9. live' \cup bound' \subseteq Attempts
  BY <1>1 DEF DeliveryInv, DeliveryType
<1> QED
  BY <1>1, <1>3, <1>4, <1>6, <1>7, <1>8, <1>9, SendKeepsDeliveryInv

\* The release asks for the first send of all.
LEMMA ReleaseKeepsDeliveryInv ==
    ASSUME TurnInv, DeliveryInv, ReleaseFirstTurn
    PROVE  DeliveryInv'
<1> DEFINE a == attempts[current]
<1>1. /\ current # None /\ UNCHANGED <<attempts, bound, recoveries>>
      /\ jobs' = Enqueue(jobs, NewJob("send", current, a, "none"))
      /\ \A i \in DOMAIN jobs : jobs[i].kind # "send"
      /\ UNCHANGED <<live, sends>>
  BY DEF ReleaseFirstTurn, ReleaseInitialTurn, turnVars, evidenceVars,
         runtimeVars
<1>2. current \in Messages /\ a \in 1..MaxAttempts
  BY <1>1, CurrentHasAttempt
<1>3. NewJob("send", current, a, "none") \in Jobs
  BY <1>2, NewJobType DEF Kinds, Outcomes
<1>4. Revision(jobs)
  BY JobsRevise
<1>5. Grown(NewJob("send", current, a, "none")) /\ Len(jobs') = Len(jobs) + 1
  BY <1>1, <1>3, <1>4, EnqueuedIsGrown
<1>6. \A i \in 1..Len(jobs) : jobs[i].kind # "send"
  BY <1>1, RowsAreJobs DEF DeliveryInv, DeliveryType
<1>7. <<current, a>> \notin recoveries
  BY <1>6 DEF DeliveryInv, EvidenceFollowsSend
<1>8. AttemptsGrow /\ a <= attempts'[current]
  BY <1>1, <1>2, SessionConstants DEF AttemptsGrow, TurnInv, TurnType
<1>9. live' \cup bound' \subseteq Attempts
  BY <1>1 DEF DeliveryInv, DeliveryType
<1> QED
  BY <1>1, <1>2, <1>5, <1>6, <1>7, <1>8, <1>9, SendKeepsDeliveryInv

\* The attempt a retry or a recovery starts.
LEMMA NextAttempt ==
    ASSUME TurnInv, current # None, StartAttempt
    PROVE  /\ current \in Messages
           /\ attempts[current] + 1 \in 1..MaxAttempts
           /\ attempts'[current] = attempts[current] + 1
           /\ AttemptsGrow
<1>1. current \in Messages /\ attempts[current] \in 1..MaxAttempts
  BY CurrentHasAttempt
<1>2. attempts \in [Messages -> 0..MaxAttempts]
  BY DEF TurnInv, TurnType
<1>3. /\ attempts[current] < MaxAttempts
      /\ attempts' = [attempts EXCEPT ![current] = attempts[current] + 1]
  BY DEF StartAttempt
<1> QED
  BY <1>1, <1>2, <1>3, SessionConstants DEF AttemptsGrow

\* RetryTurn asks for the send of an attempt nobody has sent.
LEMMA RetryKeepsDeliveryInv ==
    ASSUME TurnInv, DeliveryInv, NEW js, Revision(js), RetryTurn(js),
           live' \subseteq live, UNCHANGED sends
    PROVE  DeliveryInv'
<1> DEFINE a == attempts[current] + 1
<1>1. /\ current # None /\ StartAttempt /\ UNCHANGED <<bound, recoveries>>
      /\ jobs' = Enqueue(Supersede(js), NewJob("send", current, a, "none"))
  BY DEF RetryTurn, evidenceVars
<1>2. /\ current \in Messages /\ a \in 1..MaxAttempts
      /\ attempts'[current] = a /\ AttemptsGrow
  BY <1>1, NextAttempt
<1>3. NewJob("send", current, a, "none") \in Jobs
  BY <1>2, NewJobType DEF Kinds, Outcomes
<1>4. Revision(Supersede(js))
  BY CancelRevises DEF Supersede
<1>5. Grown(NewJob("send", current, a, "none")) /\ Len(jobs') = Len(jobs) + 1
  BY <1>1, <1>3, <1>4, EnqueuedIsGrown
<1>6. attempts[current] \in 0..MaxAttempts /\ MaxAttempts \in Nat
  BY <1>2, SessionConstants DEF TurnInv, TurnType
<1>7. <<current, a>> \notin recoveries
  <2>1. ~(a <= attempts[current])
    BY <1>6
  <2> HIDE DEF a
  <2> QED
    BY <1>2, <2>1 DEF DeliveryInv, RecoveriesAreNotSent
<1>8. \A i \in 1..Len(jobs) :
         ~(jobs[i].kind = "send" /\ jobs[i].turn = current
              /\ jobs[i].attempt = a)
  BY <1>6 DEF DeliveryInv, SendsAreStarted
<1>9. live' \cup bound' \subseteq Attempts
  BY <1>1 DEF DeliveryInv, DeliveryType
<1>10. a <= attempts'[current]
  BY <1>2, <1>6
<1> HIDE DEF a
<1> QED
  BY <1>1, <1>2, <1>5, <1>7, <1>8, <1>9, <1>10, SendKeepsDeliveryInv

\* RecoverTurn starts an attempt that no job sends.
LEMMA RecoverKeepsDeliveryInv ==
    ASSUME TurnInv, DeliveryInv, NEW js, Revision(js), RecoverTurn(js),
           live' \subseteq live, UNCHANGED sends
    PROVE  DeliveryInv'
<1> DEFINE a == attempts[current] + 1
           r == NewJob("recover", current, a, "none")
<1>1. /\ current # None /\ StartAttempt /\ UNCHANGED bound
      /\ recoveries' = recoveries \cup {<<current, a>>}
      /\ bound \cup recoveries # {}
      /\ jobs' = Enqueue(Supersede(js), r)
  BY DEF RecoverTurn, Recoverable
<1>2. /\ current \in Messages /\ a \in 1..MaxAttempts
      /\ attempts'[current] = a /\ AttemptsGrow
  BY <1>1, NextAttempt
<1>3. r \in Jobs /\ r.kind # "send"
  BY <1>2, NewJobType DEF Kinds, Outcomes
<1>4. Revision(Supersede(js))
  BY CancelRevises DEF Supersede
<1> HIDE DEF r
<1>5. Grown(r)
  BY <1>1, <1>3, <1>4, EnqueuedIsGrown
<1>6. attempts[current] < a /\ a <= attempts'[current]
  BY <1>2, SessionConstants DEF TurnInv, TurnType
<1> HIDE DEF a
<1>7. live' \cup bound' \cup recoveries' \subseteq Attempts
  BY <1>1, <1>2 DEF DeliveryInv, DeliveryType, Attempts
<1>8. \A m \in Messages, b \in 1..MaxAttempts :
         <<m, b>> \in recoveries' \ recoveries =>
             attempts[m] < b /\ b <= attempts'[m]
  BY <1>1, <1>6
<1> QED
  BY <1>1, <1>2, <1>3, <1>5, <1>7, <1>8, GrownKeepsDeliveryInv

-----------------------------------------------------------------------------
(* The steps, group by group.                                              *)

Core == TurnInv /\ DeliveryInv

\* A step that only revises the table keeps both parts.
LEMMA RevisionKeepsCore ==
    ASSUME Core, Revision(jobs'),
           UNCHANGED <<turnVars, evidenceVars, successorVars, sends>>,
           live' \subseteq live
    PROVE  Core'
<1>1. TurnInv'
  BY TurnInvStutter DEF Core
<1>2. UNCHANGED <<attempts, bound, recoveries>>
  BY DEF turnVars, evidenceVars
<1>3. DeliveryInv'
  BY <1>2, QuietKeepsDeliveryInv DEF Core, Quiet
<1> QED
  BY <1>1, <1>3 DEF Core

\* So does one that leaves the table alone.
LEMMA SameJobsKeepCore ==
    ASSUME Core, live' \subseteq live,
           UNCHANGED <<turnVars, evidenceVars, successorVars, jobs, sends>>
    PROVE  Core'
  BY JobsRevise, RevisionKeepsCore DEF Core

\* Clients' steps keep the invariant.
LEMMA ClientStep ==
    ASSUME Core, RestType, Client
    PROVE  Core'
<1> USE DEF Core
<1>0. Revision(jobs) /\ Revision(StopDelivery(jobs))
  BY JobsRevise, CancelRevises DEF StopDelivery
<1>1. ASSUME NEW m \in Messages, SendMessage(m)
      PROVE  Core'
  <2>1. SubmitTurn(m, jobs) /\ UNCHANGED <<live, sends>>
    BY <1>1 DEF SendMessage, Accept
  <2> QED
    BY <1>0, <2>1, SubmitKeepsTurnInv, SubmitKeepsDeliveryInv
<1>2. CASE ReleaseFirstTurn
  <2>1. UNCHANGED <<turnVars, successorVars>>
    BY <1>2 DEF ReleaseFirstTurn, ReleaseInitialTurn
  <2> QED
    BY <1>2, <2>1, TurnInvStutter, ReleaseKeepsDeliveryInv
<1>3. ASSUME NEW c \in Commands, InterruptSession(c)
      PROVE  Core'
  <2>1. CASE RequestTurnInterrupt(jobs)
    <3>1. /\ current # None /\ phase' = "interrupt-requested"
          /\ UNCHANGED <<current, turnStatus, attempts, successorVars>>
          /\ UNCHANGED <<attempts, recoveries, bound>>
      BY <2>1 DEF RequestTurnInterrupt, TurnPhase, evidenceVars
    <3>2. UNCHANGED <<live, sends>>
      BY <1>3 DEF InterruptSession
    <3>3. TurnInv'
      BY <3>1, PhaseKeepsTurnInv
    <3>4. Quiet(StopDelivery(jobs))
      BY <2>1, InterruptIsQuiet
    <3> QED
      BY <1>0, <3>1, <3>2, <3>3, <3>4, QuietKeepsDeliveryInv
  <2>2. CASE ~RequestTurnInterrupt(jobs)
    <3>1. UNCHANGED <<turnVars, evidenceVars, successorVars, jobs, live, sends>>
      BY <1>3, <2>2 DEF InterruptSession
    <3> QED
      BY <3>1, SameJobsKeepCore
  <2> QED
    BY <2>1, <2>2
<1>4. CASE PauseAfterInterrupt
  <2>1. UNCHANGED <<turnVars, evidenceVars, successorVars, jobs, live, sends>>
    BY <1>4 DEF PauseAfterInterrupt, SetQueuePaused, sessionVars
  <2> QED
    BY <2>1, SameJobsKeepCore
<1>5. ASSUME NEW c \in Commands, NEW m \in Messages, RunQueuedMessageNext(c, m)
      PROVE  Core'
  <2>1. SteerQueuedTurn(m, jobs) \/ SteerAfterSettlement(m, jobs)
    BY <1>5 DEF RunQueuedMessageNext
  <2>2. /\ UNCHANGED <<live, sends>>
        /\ UNCHANGED <<attempts, recoveries, bound>>
    BY <1>5, <2>1 DEF RunQueuedMessageNext, runtimeVars, SteerQueuedTurn,
                      SteerAfterSettlement, turnVars, evidenceVars, TurnPhase
  <2>3. TurnInv'
    BY <2>1, SteerKeepsTurnInv
  <2>4. Quiet(jobs) \/ Quiet(StopDelivery(jobs))
    BY <2>1, SteerIsQuiet
  <2> QED
    BY <1>0, <2>2, <2>3, <2>4, QuietKeepsDeliveryInv
<1>6. ASSUME NEW c \in Commands, DispatchAgain(c)
      PROVE  Core'
  <2>1. /\ jobs' = StopDelivery(jobs)
        /\ UNCHANGED <<turnVars, evidenceVars, successorVars, sends, live>>
    BY <1>6 DEF DispatchAgain
  <2>2. Revision(jobs')
    BY <1>0, <2>1 DEF Revision
  <2> QED
    BY <2>1, <2>2, RevisionKeepsCore
<1>7. CASE ResumeSession
  <2>1. live' \subseteq live /\ UNCHANGED sends /\ RestartSession
    BY <1>7 DEF ResumeSession
  <2>2. CASE RetryTurn(jobs)
    <3>1. current # None /\ StartAttempt /\ UNCHANGED successorVars
      BY <2>2 DEF RetryTurn
    <3> QED
      BY <1>0, <2>1, <2>2, <3>1, AttemptKeepsTurnInv, RetryKeepsDeliveryInv
  <2>3. CASE Finalize("ended", jobs)
    <3>1. UNCHANGED <<attempts, recoveries, bound>>
      BY <2>3 DEF Finalize, evidenceVars
    <3>2. Quiet(jobs)
      BY <2>3, FinalizeIsQuiet DEF Outcomes
    <3> QED
      BY <1>0, <2>1, <2>3, <3>1, <3>2, FinalizeKeepsTurnInv,
         QuietKeepsDeliveryInv
  <2>4. CASE ~RetryTurn(jobs) /\ ~Finalize("ended", jobs)
    <3>1. UNCHANGED <<turnVars, evidenceVars, successorVars, jobs>>
      BY <2>1, <2>4 DEF RestartSession
    <3> QED
      BY <2>1, <3>1, SameJobsKeepCore
  <2> QED
    BY <2>2, <2>3, <2>4
<1>8. CASE Archive
  <2>1. /\ UNCHANGED <<turnVars, evidenceVars, successorVars, jobs, sends>>
        /\ live' \subseteq live
    BY <1>8 DEF Archive, ArchiveSession
  <2> QED
    BY <2>1, SameJobsKeepCore
<1>9. CASE Unarchive
  <2>1. UNCHANGED <<turnVars, evidenceVars, successorVars, jobs, live, sends>>
    BY <1>9 DEF Unarchive, ArchiveSession, runtimeVars
  <2> QED
    BY <2>1, SameJobsKeepCore
<1> QED
  BY <1>1, <1>2, <1>3, <1>4, <1>5, <1>6, <1>7, <1>8, <1>9 DEF Client

\* The queue service's steps keep the invariant.
LEMMA QueueStep ==
    ASSUME Core, RestType, QueueService
    PROVE  Core'
<1> USE DEF Core
<1>0. Revision(jobs)
  BY JobsRevise
<1> DEFINE Still == /\ UNCHANGED <<turnVars, evidenceVars, successorVars, jobs>>
                    /\ UNCHANGED <<live, sends>>
<1>1. ASSUME NEW m \in Messages, EnqueueMessage(m)
      PROVE  Still
  BY <1>1 DEF EnqueueMessage, EnqueueTurn, Accept
<1>2. ASSUME NEW m \in Messages, RemoveQueuedMessage(m)
      PROVE  Still
  BY <1>2 DEF RemoveQueuedMessage
<1>3. ASSUME NEW m \in Messages, RegainAccess(m)
      PROVE  Still
  BY <1>3 DEF RegainAccess, UpdateQueuedTurn, runtimeVars
<1>4. CASE ResumeQueue
  <2>1. Still
    BY <1>4 DEF ResumeQueue, SetQueuePaused, runtimeVars
  <2> QED
    BY <2>1, SameJobsKeepCore
<1>5. ASSUME NEW m \in Messages, FlushHead(m)
      PROVE  Still
  BY <1>5 DEF FlushHead, ClaimQueuedTurn
<1>6. ASSUME NEW m \in Messages, RunQueuedMessageWhileIdle(m)
      PROVE  Still
  BY <1>6 DEF RunQueuedMessageWhileIdle, ClaimQueuedTurn, SetQueuePaused,
              runtimeVars
<1>7. CASE SendClaimed
  <2>1. claimed \in Messages /\ UNCHANGED <<live, sends>>
    BY <1>7 DEF SendClaimed, RestType
  <2>2. CASE SubmitTurn(claimed, jobs)
    BY <1>0, <2>1, <2>2, SubmitKeepsTurnInv, SubmitKeepsDeliveryInv
  <2>3. CASE EnqueueTurn(claimed, TRUE, jobs)
    <3>1. Still
      BY <2>1, <2>3 DEF EnqueueTurn
    <3> QED
      BY <3>1, SameJobsKeepCore
  <2> QED
    BY <1>7, <2>2, <2>3 DEF SendClaimed
<1>8. Still => Core'
  BY SameJobsKeepCore
<1> HIDE DEF Still
<1> QED
  BY <1>1, <1>2, <1>3, <1>4, <1>5, <1>6, <1>7, <1>8 DEF QueueService

\* What is known of the row a fiber works on.
LEMMA OwnRow ==
    ASSUME DeliveryInv, NEW i \in DOMAIN jobs
    PROVE  /\ i \in 1..Len(jobs) /\ jobs[i] \in Jobs /\ MarkIsHonest(jobs[i])
           /\ jobs[i].status \in JobStatuses /\ jobs[i].journal \in Journal
           /\ jobs[i].turn \in Messages /\ jobs[i].attempt \in 1..MaxAttempts
           /\ jobs[i].outcome \in Outcomes
<1>1. i \in 1..Len(jobs) /\ jobs[i] \in Jobs
  BY RowsAreJobs DEF DeliveryInv, DeliveryType
<1> QED
  BY <1>1 DEF Jobs, DeliveryInv, MarksAreHonest

\* A fiber that moves on without calling the provider revises the table.
LEMMA MoveRevises ==
    ASSUME DeliveryInv, NEW i \in DOMAIN jobs, NEW st \in JobStatuses,
           NEW s \in Steps \ {"begun", "sending"},
           jobs[i].kind = "send" /\ s \in {"delivered", "unknown"} =>
               jobs[i].journal # "missing"
    PROVE  Revision(Row(i, st, s, jobs[i].journal))
<1>1. /\ jobs[i].journal \in Journal
      /\ jobs[i].kind = "send" /\ jobs[i].journal = "missing" =>
             sends[<<jobs[i].turn, jobs[i].attempt>>] = 0
  BY OwnRow DEF MarkIsHonest
<1> QED
  BY <1>1, RowRevises

\* The same, when only the fiber's position changes.
LEMMA StepRevises ==
    ASSUME DeliveryInv, NEW i \in DOMAIN jobs,
           NEW s \in Steps \ {"begun", "sending"},
           jobs[i].kind = "send" /\ s \in {"delivered", "unknown"} =>
               jobs[i].journal # "missing"
    PROVE  Revision(Step(i, s))
  BY OwnRow, MoveRevises DEF Step

\* A job that succeeds revises the table.
LEMMA SucceedRevises ==
    ASSUME DeliveryInv, NEW i \in DOMAIN jobs
    PROVE  Revision(Succeed(i))
<1>1. "succeeded" \in JobStatuses /\ "none" \in Steps \ {"begun", "sending"}
  BY DEF JobStatuses, Steps
<1> QED
  BY <1>1, MoveRevises DEF Succeed

\* A step that writes one row and nothing else of the invariant.
LEMMA RowKeepsCore ==
    ASSUME Core, NEW js, Revision(js), jobs' = js, OnlyJobs,
           live' \subseteq live, UNCHANGED sends
    PROVE  Core'
  BY RevisionKeepsCore DEF OnlyJobs, Revision

\* The check, and what a send does up to and after its call of the provider.
LEMMA SendStep ==
    ASSUME Core, NEW i \in DOMAIN jobs,
           \/ Check(i) \/ SendBegin(i) \/ SendStatus(i) \/ SendDeliver(i)
           \/ SendComplete(i)
    PROVE  Core'
<1> USE DEF Core
<1>0. /\ jobs[i] \in Jobs /\ MarkIsHonest(jobs[i]) /\ Revision(Succeed(i))
      /\ jobs[i].journal \in Journal /\ jobs[i].status \in JobStatuses
      /\ \A s \in {"checked", "asked", "capturing"} : Revision(Step(i, s))
  BY OwnRow, SucceedRevises, StepRevises DEF Steps
<1>1. CASE Check(i)
  <2>1. /\ OnlyJobs /\ UNCHANGED <<live, sends>>
        /\ \/ jobs' = Succeed(i)
           \/ \E s \in {"checked", "asked", "capturing"} : jobs' = Step(i, s)
    BY <1>1 DEF Check, runtimeVars
  <2> QED
    BY <1>0, <2>1, RowKeepsCore
<1>2. CASE SendBegin(i)
  <2>1. /\ OnlyJobs /\ UNCHANGED <<live, sends>>
        /\ jobs[i].kind = "send"
    BY <1>2 DEF SendBegin, At, runtimeVars
  <2>2. CASE /\ jobs[i].journal = "missing"
             /\ jobs' = Row(i, "running", "begun", "started")
    <3>1. sends[<<jobs[i].turn, jobs[i].attempt>>] = 0
      BY <1>0, <2>1, <2>2 DEF MarkIsHonest
    <3>2. /\ "running" \in JobStatuses /\ "begun" \in Steps
          /\ "started" \in Journal
      BY DEF JobStatuses, Steps, Journal
    <3>3. Revision(Row(i, "running", "begun", "started"))
      BY <3>1, <3>2, RowRevises
    <3> QED
      BY <2>1, <2>2, <3>3, RowKeepsCore
  <2>3. CASE jobs[i].journal = "started" /\ jobs' = Step(i, "unknown")
    <3>1. Revision(Step(i, "unknown"))
      BY <2>3, StepRevises DEF Steps
    <3> QED
      BY <2>1, <2>3, <3>1, RowKeepsCore
  <2>4. CASE jobs' = Succeed(i)
    BY <1>0, <2>1, <2>4, RowKeepsCore
  <2> QED
    BY <1>2, <2>2, <2>3, <2>4 DEF SendBegin
<1>3. CASE SendStatus(i)
  <2>1. /\ UNCHANGED <<turnVars, evidenceVars, successorVars, live, sends>>
        /\ jobs[i].kind = "send" /\ jobs[i].step = "begun"
        /\ jobs' = Step(i, "sending") \/ jobs' = Succeed(i)
    BY <1>3 DEF SendStatus, At, runtimeVars
  <2>2. /\ sends[<<jobs[i].turn, jobs[i].attempt>>] = 0
        /\ jobs[i].journal # "missing" /\ "sending" \in Steps
    BY <1>0, <2>1 DEF MarkIsHonest, Steps
  <2>3. Revision(Step(i, "sending"))
    BY <1>0, <2>2, RowRevises DEF Step
  <2>4. Revision(jobs')
    BY <1>0, <2>1, <2>3 DEF Revision
  <2> QED
    BY <2>1, <2>4, RevisionKeepsCore
<1>4. CASE SendDeliver(i)
  <2>1. /\ jobs[i].kind = "send" /\ jobs[i].step = "sending"
        /\ UNCHANGED <<turnVars, evidenceVars, successorVars>>
        /\ UNCHANGED <<attempts, recoveries, bound>>
    BY <1>4 DEF SendDeliver, turnVars, evidenceVars
  <2>2. /\ sends[<<jobs[i].turn, jobs[i].attempt>>] = 0
        /\ jobs[i].journal # "missing"
    BY <1>0, <2>1 DEF MarkIsHonest
  <2>3. CASE /\ Deliver(jobs[i].turn, jobs[i].attempt)
             /\ jobs' = Step(i, "delivered") \/ jobs' = Step(i, "unknown")
    BY <2>1, <2>3, TurnInvStutter, DeliverKeepsDeliveryInv
  <2>4. CASE UNCHANGED <<sends, live>>
    <3>1. /\ "failed" \in JobStatuses /\ "succeeded" \in JobStatuses
          /\ "none" \in Steps /\ "missing" \in Journal
          /\ "completed" \in Journal
      BY DEF JobStatuses, Steps, Journal
    <3>2. /\ Revision(Step(i, "unknown"))
          /\ Revision(Row(i, "failed", "none", "missing"))
          /\ Revision(Row(i, "succeeded", "none", "completed"))
      BY <2>2, <3>1, StepRevises, RowRevises DEF Steps
    <3>3. \/ Deliver(jobs[i].turn, jobs[i].attempt)
          \/ jobs' \in {Step(i, "unknown"), Succeed(i),
                        Row(i, "failed", "none", "missing"),
                        Row(i, "succeeded", "none", "completed")}
      BY <1>4 DEF SendDeliver
    <3>4. CASE jobs' \in {Step(i, "unknown"), Succeed(i),
                          Row(i, "failed", "none", "missing"),
                          Row(i, "succeeded", "none", "completed")}
      <4>1. PICK js : Revision(js) /\ jobs' = js
        BY <1>0, <3>2, <3>4, Zenon
      <4>2. Revision(jobs')
        BY <4>1, Zenon
      <4> QED
        BY <2>1, <2>4, <4>2, RevisionKeepsCore
    <3> QED
      BY <1>4, <2>3, <3>3, <3>4 DEF SendDeliver
  <2> QED
    BY <1>4, <2>3, <2>4 DEF SendDeliver
<1>5. CASE SendComplete(i)
  <2>1. /\ OnlyJobs /\ UNCHANGED <<live, sends>>
        /\ jobs' = Row(i, "succeeded", "none", "completed")
    BY <1>5 DEF SendComplete, runtimeVars
  <2>2. Revision(Row(i, "succeeded", "none", "completed"))
    BY RowRevises DEF JobStatuses, Steps, Journal
  <2> QED
    BY <2>1, <2>2, RowKeepsCore
<1> QED
  BY <1>1, <1>2, <1>3, <1>4, <1>5

\* FinalizeTurn keeps both parts.
LEMMA FinalizeKeepsCore ==
    ASSUME Core, NEW outcome \in Outcomes, NEW js, Revision(js),
           Finalize(outcome, js), live' \subseteq live, UNCHANGED sends
    PROVE  Core'
<1>1. UNCHANGED <<attempts, recoveries, bound>>
  BY DEF Finalize, evidenceVars
<1> QED
  BY <1>1, FinalizeIsQuiet, FinalizeKeepsTurnInv, QuietKeepsDeliveryInv DEF Core

\* SettleTurn keeps both parts.
LEMMA SettleKeepsCore ==
    ASSUME Core, NEW outcome, NEW js, Revision(js),
           SettleTurn(outcome, js), live' \subseteq live, UNCHANGED sends
    PROVE  Core'
<1>1. UNCHANGED <<attempts, recoveries, bound>>
  BY DEF SettleTurn, TurnSettled, evidenceVars
<1> QED
  BY <1>1, SettleIsQuiet, SettleKeepsTurnInv, QuietKeepsDeliveryInv DEF Core

\* RecoverTurn keeps both parts.
LEMMA RecoverKeepsCore ==
    ASSUME Core, NEW js, Revision(js), RecoverTurn(js), live' \subseteq live,
           UNCHANGED sends
    PROVE  Core'
<1>1. current # None /\ StartAttempt /\ UNCHANGED successorVars
  BY DEF RecoverTurn, Recoverable
<1> QED
  BY <1>1, AttemptKeepsTurnInv, RecoverKeepsDeliveryInv DEF Core

\* The answer to an interrupt keeps both parts.
LEMMA PhaseKeepsCore ==
    ASSUME Core, current # None, NEW js, Revision(js), jobs' = js,
           NEW to \in {"running", "interrupt-requested",
                       "interrupt-acknowledged"},
           TurnPhase(to), UNCHANGED <<evidenceVars, successorVars, sends>>,
           live' \subseteq live
    PROVE  Core'
<1>1. /\ UNCHANGED <<current, turnStatus, attempts>> /\ phase' = to
      /\ UNCHANGED <<attempts, recoveries, bound>>
  BY DEF TurnPhase, evidenceVars
<1>2. TurnInv'
  BY <1>1, PhaseKeepsTurnInv DEF Core
<1>3. DeliveryInv'
  BY <1>1, QuietKeepsDeliveryInv DEF Core, Quiet
<1> QED
  BY <1>2, <1>3 DEF Core

\* What the executor does after a lost send, on an interrupt, a capture, a
\* native recovery and a successor start.
LEMMA AnswerStep ==
    ASSUME Core, NEW i \in DOMAIN jobs,
           \/ RecoverUnknownDelivery(i) \/ InterruptAnswer(i)
           \/ InterruptSettle(i) \/ CaptureDone(i) \/ RecoverSettle(i)
           \/ SuccessorStart(i) \/ Finish(i)
    PROVE  Core'
<1> USE DEF Core
<1>0. /\ Revision(Succeed(i)) /\ jobs[i].status \in JobStatuses
      /\ jobs[i].turn \in Messages /\ jobs[i].outcome \in Outcomes
      /\ jobs[i].journal \in Journal
      /\ \A s \in {"none", "settled", "acked", "refused"} : Revision(Step(i, s))
  BY OwnRow, SucceedRevises, StepRevises DEF Steps
<1>1. CASE RecoverUnknownDelivery(i)
  <2>1. UNCHANGED <<live, sends>> /\ jobs[i].kind = "send"
    BY <1>1 DEF RecoverUnknownDelivery, runtimeVars, At, Unwinding
  <2>2. CASE OnlyJobs /\ (jobs' = Step(i, "none") \/ jobs' = Succeed(i))
    BY <1>0, <2>1, <2>2, RowKeepsCore
  <2>3. CASE RecoverTurn(Row(i, jobs[i].status, "none", "unknown"))
    <3>1. Revision(Row(i, jobs[i].status, "none", "unknown"))
      BY <1>0, RowRevises DEF Steps, Journal
    <3> QED
      BY <2>1, <2>3, <3>1, RecoverKeepsCore
  <2>4. CASE FinalizeTurn("error", Step(i, "settled"))
    BY <1>0, <2>1, <2>4, FinalizeKeepsCore DEF FinalizeTurn, Outcomes
  <2> QED
    BY <1>1, <2>2, <2>3, <2>4 DEF RecoverUnknownDelivery
<1>2. CASE InterruptAnswer(i)
  <2>1. live' \subseteq live /\ UNCHANGED sends
    BY <1>2 DEF InterruptAnswer
  <2>2. CASE AcknowledgeTurnInterrupt(Step(i, "acked"))
    BY <1>0, <2>1, <2>2, PhaseKeepsCore DEF AcknowledgeTurnInterrupt
  <2>3. CASE FailTurnInterrupt(Step(i, "refused"))
    BY <1>0, <2>1, <2>3, PhaseKeepsCore DEF FailTurnInterrupt
  <2>4. CASE jobs' = Succeed(i) /\ OnlyJobs
    BY <1>0, <2>1, <2>4, RowKeepsCore
  <2> QED
    BY <1>2, <2>2, <2>3, <2>4 DEF InterruptAnswer
<1>3. CASE InterruptSettle(i)
  <2>1. live' \subseteq live /\ UNCHANGED sends
    BY <1>3 DEF InterruptSettle
  <2>2. CASE FinalizeTurn("ended", Step(i, "settled"))
    BY <1>0, <2>1, <2>2, FinalizeKeepsCore DEF FinalizeTurn, Outcomes
  <2>3. CASE SettleTurn("ended", Step(i, "settled"))
    BY <1>0, <2>1, <2>3, SettleKeepsCore
  <2>4. CASE jobs' = Succeed(i) /\ OnlyJobs
    BY <1>0, <2>1, <2>4, RowKeepsCore
  <2> QED
    BY <1>3, <2>2, <2>3, <2>4 DEF InterruptSettle
<1>4. CASE CaptureDone(i)
  <2>1. live' \subseteq live /\ UNCHANGED sends
    BY <1>4 DEF CaptureDone
  <2>2. CASE SettleTurn(jobs[i].outcome, Step(i, "settled"))
    BY <1>0, <2>1, <2>2, SettleKeepsCore
  <2>3. CASE jobs' = Succeed(i) /\ OnlyJobs
    BY <1>0, <2>1, <2>3, RowKeepsCore
  <2> QED
    BY <1>4, <2>2, <2>3 DEF CaptureDone
<1>5. CASE RecoverSettle(i)
  <2>1. UNCHANGED <<live, sends>>
    BY <1>5 DEF RecoverSettle, runtimeVars
  <2>2. CASE \E outcome \in {"ended", "error"} :
                FinalizeTurn(outcome, Step(i, "settled"))
    BY <1>0, <2>1, <2>2, FinalizeKeepsCore DEF FinalizeTurn, Outcomes
  <2>3. CASE jobs' = Succeed(i) /\ OnlyJobs
    BY <1>0, <2>1, <2>3, RowKeepsCore
  <2> QED
    BY <1>5, <2>2, <2>3 DEF RecoverSettle
<1>6. CASE SuccessorStart(i)
  <2> DEFINE done(to) == Row(i, "running", "settled", to)
  <2>1. UNCHANGED <<live, sends>> /\ jobs[i].kind = "successor"
    BY <1>6 DEF SuccessorStart, runtimeVars, At
  <2>2. \A to \in Journal : Revision(done(to))
    <3>1. "running" \in JobStatuses /\ "settled" \in Steps
      BY DEF JobStatuses, Steps
    <3> QED
      BY <2>1, <3>1, RowRevises
  <2>3. /\ "refused" \in Journal /\ "submitted" \in Journal
        /\ "requeued" \in Journal
    BY DEF Journal
  <2>4. CASE SubmitTurn(jobs[i].turn, done("submitted"))
    BY <1>0, <2>1, <2>2, <2>3, <2>4, SubmitKeepsTurnInv, SubmitKeepsDeliveryInv
  <2>5. ASSUME NEW to \in Journal, jobs' = done(to),
               UNCHANGED <<turnVars, evidenceVars, successorVars>>
        PROVE  Core'
    <3>1. Revision(jobs')
      BY <2>2, <2>5, Zenon
    <3> QED
      BY <2>1, <2>5, <3>1, RevisionKeepsCore
  <2>6. \/ SubmitTurn(jobs[i].turn, done("submitted"))
        \/ EnqueueTurn(jobs[i].turn, FALSE, done("refused"))
        \/ EnqueueTurn(jobs[i].turn, TRUE, done("requeued"))
        \/ jobs' = done(jobs[i].journal) /\ OnlyJobs
    BY <1>6 DEF SuccessorStart
  <2> HIDE DEF done
  <2> QED
    BY <1>0, <2>3, <2>4, <2>5, <2>6 DEF EnqueueTurn, OnlyJobs
<1>7. CASE Finish(i)
  <2>1. Revision(jobs')
    BY <1>7, FinishRevises
  <2>2. UNCHANGED <<turnVars, evidenceVars, successorVars, live, sends>>
    BY <1>7 DEF Finish, OnlyJobs, runtimeVars
  <2> QED
    BY <2>1, <2>2, RevisionKeepsCore
<1> QED
  BY <1>1, <1>2, <1>3, <1>4, <1>5, <1>6, <1>7

\* Reconciliation of the open turn at boot keeps both parts.
LEMMA ReconcileKeepsCore ==
    ASSUME Core, current # None, ReconcileTurn, live' \subseteq live,
           UNCHANGED sends
    PROVE  Core'
<1>1. Revision(Requeued)
  BY RequeuedRevises DEF Core
<1>2. \/ \E outcome : SettleTurn(outcome, Requeued)
      \/ RecoverTurn(Requeued)
      \/ /\ jobs' = Requeued
         /\ UNCHANGED <<turnVars, evidenceVars, successorVars>>
  BY DEF ReconcileTurn, OnlyJobs
<1>3. CASE \E outcome : SettleTurn(outcome, Requeued)
  BY <1>1, <1>3, SettleKeepsCore
<1>4. CASE RecoverTurn(Requeued)
  BY <1>1, <1>4, RecoverKeepsCore
<1>5. CASE /\ jobs' = Requeued
           /\ UNCHANGED <<turnVars, evidenceVars, successorVars>>
  <2>1. Revision(jobs')
    BY <1>1, <1>5, Zenon
  <2> QED
    BY <1>5, <2>1, RevisionKeepsCore
<1> QED
  BY <1>2, <1>3, <1>4, <1>5

\* The provider, the sweeper and a process loss keep the invariant.
LEMMA EnvironmentStep ==
    ASSUME Core, Environment
    PROVE  Core'
<1> USE DEF Core
<1>0. Revision(jobs)
  BY JobsRevise
<1>1. ASSUME NEW m \in Messages, NEW a \in 1..MaxAttempts, ProviderBinds(m, a)
      PROVE  Core'
  <2>1. /\ UNCHANGED <<turnVars, successorVars>>
        /\ UNCHANGED <<attempts, recoveries, sends>>
        /\ UNCHANGED <<jobs, live>> /\ bound' \subseteq bound \cup live
    BY <1>1 DEF ProviderBinds, BindAttemptProviderTurn, runtimeVars, turnVars
  <2>2. Quiet(jobs)
    BY <2>1 DEF Quiet
  <2> QED
    BY <1>0, <2>1, <2>2, TurnInvStutter, QuietKeepsDeliveryInv
<1>2. ASSUME NEW m \in Messages, NEW a \in 1..MaxAttempts, ProviderEnds(m, a)
      PROVE  Core'
  <2>1. live' \subseteq live /\ UNCHANGED sends
    BY <1>2 DEF ProviderEnds
  <2>2. CASE \E outcome \in {"ended", "error"} : FinalizeTurn(outcome, jobs)
    BY <1>0, <2>1, <2>2, FinalizeKeepsCore DEF FinalizeTurn, Outcomes
  <2>3. CASE UNCHANGED sessionVars
    BY <2>1, <2>3, SameJobsKeepCore DEF sessionVars
  <2> QED
    BY <1>2, <2>2, <2>3 DEF ProviderEnds
<1>3. ASSUME NEW i \in DOMAIN jobs, JobParks(i)
      PROVE  Core'
  <2>1. /\ jobs' = Row(i, "waiting", "none", jobs[i].journal)
        /\ OnlyJobs /\ UNCHANGED <<live, sends>>
    BY <1>3 DEF JobParks
  <2>2. Revision(Row(i, "waiting", "none", jobs[i].journal))
    BY MoveRevises DEF JobStatuses, Steps
  <2> QED
    BY <2>1, <2>2, RowKeepsCore
<1>4. CASE Sweep
  <2>1. ExpireAttempt(jobs) /\ live' \subseteq live /\ UNCHANGED sends
    BY <1>4 DEF Sweep
  <2>2. Revision(Supersede(jobs))
    BY <1>0, CancelRevises DEF Supersede
  <2>3. CASE RecoverTurn(jobs)
    BY <1>0, <2>1, <2>3, RecoverKeepsCore
  <2>4. CASE \E outcome : SettleTurn(outcome, Supersede(jobs))
    BY <2>1, <2>2, <2>4, SettleKeepsCore
  <2> QED
    BY <2>1, <2>3, <2>4 DEF ExpireAttempt
<1>5. CASE ProcessLoss
  <2>1. live' \subseteq live /\ UNCHANGED sends
    BY <1>5 DEF ProcessLoss
  <2>2. CASE current # None
    BY <1>5, <2>1, <2>2, ReconcileKeepsCore DEF ProcessLoss
  <2>3. CASE current = None
    <3>1. /\ jobs' = Requeued
          /\ UNCHANGED <<turnVars, evidenceVars, successorVars>>
      BY <1>5, <2>3 DEF ProcessLoss
    <3>2. Revision(Requeued)
      BY RequeuedRevises
    <3>3. Revision(jobs')
      BY <3>1, <3>2, Zenon
    <3> QED
      BY <2>1, <3>1, <3>3, RevisionKeepsCore
  <2> QED
    BY <2>2, <2>3
<1> QED
  BY <1>1, <1>2, <1>3, <1>4, <1>5 DEF Environment

\* Every step keeps the two parts that carry the argument.
LEMMA CoreStep ==
    ASSUME Core, RestType, [Next]_vars
    PROVE  Core'
<1>1. CASE Client
  BY <1>1, ClientStep
<1>2. CASE QueueService
  BY <1>2, QueueStep
<1>3. ASSUME NEW i \in DOMAIN jobs, Claim(i)
      PROVE  Core'
  <2>1. /\ jobs' = Row(i, "running", "none", jobs[i].journal)
        /\ OnlyJobs /\ UNCHANGED <<live, sends>>
    BY <1>3 DEF Claim, runtimeVars
  <2>2. Revision(Row(i, "running", "none", jobs[i].journal))
    BY MoveRevises DEF JobStatuses, Steps, Core
  <2> QED
    BY <2>1, <2>2, RowKeepsCore
<1>4. ASSUME NEW i \in DOMAIN jobs, Execute(i)
      PROVE  Core'
  BY <1>4, SendStep, AnswerStep DEF Execute
<1>5. CASE Environment
  BY <1>5, EnvironmentStep
<1>6. CASE UNCHANGED vars
  <2>1. UNCHANGED <<turnVars, evidenceVars, successorVars, jobs, live, sends>>
    BY <1>6 DEF vars, sessionVars, runtimeVars
  <2> QED
    BY <2>1, SameJobsKeepCore
<1> QED
  BY <1>1, <1>2, <1>3, <1>4, <1>5, <1>6 DEF Next

-----------------------------------------------------------------------------
(* Types of the remaining variables.                                       *)

\* What commands on turns do to the session's own fields.
LEMMA CommandTypes ==
    ASSUME RestType, NEW m \in Messages, NEW outcome, NEW js,
           \/ SubmitTurn(m, js) \/ ReleaseInitialTurn(js) \/ RetryTurn(js)
           \/ RecoverTurn(js) \/ (\E a : BindAttemptProviderTurn(m, a))
           \/ FinalizeTurn(outcome, js) \/ SettleTurn(outcome, js)
           \/ ExpireAttempt(js) \/ AcknowledgeTurnInterrupt(js)
           \/ FailTurnInterrupt(js) \/ OnlyJobs
    PROVE  /\ UNCHANGED <<queued, held, life, receipts>>
           /\ gate' \in {"open", "paused"}
           /\ status' \in {"busy", "idle", "error"}
  BY DEF RestType, SubmitTurn, ReleaseInitialTurn, RetryTurn, RecoverTurn,
         BindAttemptProviderTurn, FinalizeTurn, Finalize, SettleTurn,
         ExpireAttempt, AcknowledgeTurnInterrupt, FailTurnInterrupt, OnlyJobs,
         StartAttempt, queueVars

\* Every step keeps the remaining variables in their types.
LEMMA RestStep ==
    ASSUME Core, RestType, [Next]_vars
    PROVE  RestType'
<1> USE RuntimeConstants
<1> DEFINE Desk == UNCHANGED <<lease, inbox, claimed, pausing, faults>>
           Fields == /\ UNCHANGED <<queued, held, life, receipts>>
                     /\ gate' \in {"open", "paused"}
                     /\ status' \in {"busy", "idle", "error"}
<1>0. Fields /\ Desk => RestType'
  BY DEF RestType
<1>1. ASSUME NEW m \in Messages, SendMessage(m)
      PROVE  RestType'
  <2>1. Fields
    BY <1>1, CommandTypes DEF SendMessage
  <2> QED
    BY <1>1, <2>1 DEF SendMessage, Accept, RestType
<1>2. CASE ReleaseFirstTurn
  <2>1. PICK m \in Messages : TRUE
    BY <1>2 DEF ReleaseFirstTurn, ReleaseInitialTurn, Core, TurnInv, TurnType
  <2>2. Fields /\ Desk
    BY <1>2, <2>1, CommandTypes DEF ReleaseFirstTurn, runtimeVars
  <2> QED
    BY <1>0, <2>2
<1>3. ASSUME NEW c \in Commands, InterruptSession(c)
      PROVE  RestType'
  BY <1>3 DEF InterruptSession, RequestTurnInterrupt, RestType, queueVars
<1>4. CASE PauseAfterInterrupt
  BY <1>4 DEF PauseAfterInterrupt, SetQueuePaused, RestType, queueVars,
              sessionVars
<1>5. ASSUME NEW c \in Commands, NEW m \in Messages, RunQueuedMessageNext(c, m)
      PROVE  RestType'
  BY <1>5 DEF RunQueuedMessageNext, SteerQueuedTurn, SteerAfterSettlement,
              TakeFromQueue, RestType, runtimeVars
<1>6. ASSUME NEW c \in Commands, DispatchAgain(c)
      PROVE  RestType'
  BY <1>6 DEF DispatchAgain, Disturb, RestType, queueVars
<1>7. CASE ResumeSession
  <2>1. RestartSession /\ Desk
    BY <1>7 DEF ResumeSession
  <2>2. Fields
    BY <2>1 DEF RestartSession, RetryTurn, StartAttempt, Finalize, RestType,
                queueVars
  <2> QED
    BY <1>0, <2>1, <2>2
<1>8. CASE Archive \/ Unarchive
  BY <1>8 DEF Archive, Unarchive, ArchiveSession, Disturb, RestType, queueVars,
              runtimeVars
<1>9. ASSUME NEW m \in Messages, EnqueueMessage(m)
      PROVE  RestType'
  BY <1>9 DEF EnqueueMessage, EnqueueTurn, Accept, RestType
<1>10. ASSUME NEW m \in Messages, RemoveQueuedMessage(m)
       PROVE  RestType'
  BY <1>10 DEF RemoveQueuedMessage, TakeFromQueue, RestType
<1>11. ASSUME NEW m \in Messages, RegainAccess(m)
       PROVE  RestType'
  BY <1>11 DEF RegainAccess, UpdateQueuedTurn, RestType, runtimeVars
<1>12. CASE ResumeQueue
  BY <1>12 DEF ResumeQueue, SetQueuePaused, RestType, queueVars, runtimeVars
<1>13. ASSUME NEW m \in Messages,
              FlushHead(m) \/ RunQueuedMessageWhileIdle(m)
       PROVE  RestType'
  BY <1>13 DEF FlushHead, RunQueuedMessageWhileIdle, ClaimQueuedTurn,
               SetQueuePaused, TakeFromQueue, RestType, queueVars, runtimeVars
<1>14. CASE SendClaimed
  BY <1>14 DEF SendClaimed, SubmitTurn, EnqueueTurn, RestType, queueVars
<1>15. ASSUME NEW i \in DOMAIN jobs, Claim(i)
       PROVE  RestType'
  BY <1>15 DEF Claim, OnlyJobs, RestType, queueVars, runtimeVars
<1>16. ASSUME NEW i \in DOMAIN jobs, Execute(i)
       PROVE  RestType'
  <2>1. jobs[i].turn \in Messages /\ jobs[i].attempt \in 1..MaxAttempts
    BY OwnRow DEF Core
  <2>2. CASE SendStatus(i)
    BY <2>2 DEF SendStatus, RestType, queueVars, runtimeVars
  <2>3. CASE SendDeliver(i)
    <3>1. /\ UNCHANGED <<queued, held, life, receipts>>
          /\ UNCHANGED <<gate, inbox, claimed, pausing, faults>>
          /\ status' \in {status, "error"}
      BY <2>3 DEF SendDeliver, queueVars
    <3>2. lease' \in {lease, <<jobs[i].turn, jobs[i].attempt>>}
      BY <2>3 DEF SendDeliver, Deliver, AcquireLease
    <3> QED
      BY <2>1, <3>1, <3>2 DEF RestType, Attempts
  <2>4. CASE SuccessorStart(i)
    <3>1. Desk
      BY <2>4 DEF SuccessorStart, runtimeVars
    <3>2. /\ queued' \subseteq Messages /\ held' \subseteq queued'
          /\ UNCHANGED <<gate, life, receipts>>
          /\ status' \in {"busy", "idle", "error"}
      BY <2>1, <2>4 DEF SuccessorStart, SubmitTurn, EnqueueTurn, OnlyJobs,
                        RestType, queueVars
    <3> QED
      BY <3>1, <3>2 DEF RestType
  <2>5. CASE \/ Check(i) \/ SendBegin(i) \/ SendComplete(i) \/ Finish(i)
    BY <2>5 DEF Check, SendBegin, SendComplete, Finish, OnlyJobs, RestType,
                queueVars, runtimeVars
  <2>6. CASE \/ RecoverUnknownDelivery(i) \/ InterruptAnswer(i)
             \/ InterruptSettle(i) \/ CaptureDone(i) \/ RecoverSettle(i)
    <3>1. Desk
      BY <2>6 DEF RecoverUnknownDelivery, InterruptAnswer, InterruptSettle,
                  CaptureDone, RecoverSettle, runtimeVars
    <3>2. \E js, outcome :
             \/ RecoverTurn(js) \/ FinalizeTurn(outcome, js)
             \/ SettleTurn(outcome, js) \/ AcknowledgeTurnInterrupt(js)
             \/ FailTurnInterrupt(js) \/ OnlyJobs
      BY <2>6 DEF RecoverUnknownDelivery, InterruptAnswer, InterruptSettle,
                  CaptureDone, RecoverSettle
    <3>3. Fields
      BY <2>1, <3>2, CommandTypes
    <3> QED
      BY <1>0, <3>1, <3>3
  <2> QED
    BY <1>16, <2>2, <2>3, <2>4, <2>5, <2>6 DEF Execute
<1>17. ASSUME NEW m \in Messages, NEW a \in 1..MaxAttempts,
              ProviderBinds(m, a) \/ ProviderEnds(m, a)
       PROVE  RestType'
  BY <1>17 DEF ProviderBinds, ProviderEnds, BindAttemptProviderTurn,
               FinalizeTurn, Finalize, RestType, queueVars, runtimeVars,
               sessionVars
<1>18. ASSUME NEW i \in DOMAIN jobs, JobParks(i)
       PROVE  RestType'
  BY <1>18 DEF JobParks, Disturb, OnlyJobs, RestType, queueVars
<1>19. CASE Sweep
  <2>1. /\ faults' \in 0..MaxFaults /\ lease' = <<>>
        /\ UNCHANGED <<inbox, claimed, pausing>>
        /\ \E m \in Messages : ExpireAttempt(jobs)
    BY <1>19 DEF Sweep, Disturb, RestType
  <2>2. Fields
    BY <2>1, CommandTypes
  <2> QED
    BY <2>1, <2>2 DEF RestType
<1>20. CASE ProcessLoss
  <2>1. /\ faults' \in 0..MaxFaults /\ lease' = <<>> /\ claimed' = None
        /\ pausing' = "no" /\ inbox' = inbox
    BY <1>20 DEF ProcessLoss, Disturb, RestType
  <2>2. Fields
    BY <1>20 DEF ProcessLoss, ReconcileTurn, SettleTurn, RecoverTurn,
                 StartAttempt, OnlyJobs, RestType, queueVars
  <2> QED
    BY <2>1, <2>2 DEF RestType
<1>21. CASE UNCHANGED vars
  BY <1>21 DEF vars, sessionVars, runtimeVars, RestType, queueVars
<1> QED
  BY <1>1, <1>2, <1>3, <1>4, <1>5, <1>6, <1>7, <1>8, <1>9, <1>10, <1>11,
     <1>12, <1>13, <1>14, <1>15, <1>16, <1>17, <1>18, <1>19, <1>20, <1>21
     DEF Next, Client, QueueService, Environment

-----------------------------------------------------------------------------
(* The theorems.                                                           *)

\* Both ways a session is created satisfy the invariant.
LEMMA InitIInv == Init => IInv
<1> SUFFICES ASSUME Init
             PROVE  IInv
  OBVIOUS
<1> USE SessionConstants, RuntimeConstants
<1>1. TurnInv
  <2>1. 1 \in 0..MaxAttempts /\ 0 \in 0..MaxAttempts
    OBVIOUS
  <2>2. SuccessorFollowsCurrent /\ SuccessorIsComplete
    BY DEF Init, SuccessorFollowsCurrent, SuccessorIsComplete
  <2>3. TurnType
    BY <2>1 DEF Init, TurnType
  <2>4. OneOpenTurn /\ TurnsHaveAttempts
    BY DEF Init, OneOpenTurn, Open, TurnsHaveAttempts
  <2> QED
    BY <2>2, <2>3, <2>4 DEF TurnInv
<1>2. DeliveryInv
  <2>1. /\ jobs = <<>> /\ Len(jobs) = 0 /\ 1..Len(jobs) = {}
        /\ live = {} /\ bound = {} /\ recoveries = {}
        /\ sends = [p \in Attempts |-> 0]
    BY DEF Init
  <2>2. DeliveryType
    BY <2>1 DEF DeliveryType
  <2>3. SendsAreStarted /\ OneSendPerAttempt /\ MarksAreHonest
    BY <2>1 DEF SendsAreStarted, OneSendPerAttempt, MarksAreHonest
  <2>4. RecoveriesAreNotSent /\ EvidenceFollowsSend
    BY <2>1 DEF RecoveriesAreNotSent, EvidenceFollowsSend
  <2>5. DeliveredByJob
    BY <2>1 DEF DeliveredByJob, Attempts
  <2> QED
    BY <2>2, <2>3, <2>4, <2>5 DEF DeliveryInv
<1>3. RestType
  BY DEF Init, RestType
<1> QED
  BY <1>1, <1>2, <1>3 DEF IInv

\* The invariant of the session runtime is inductive.
THEOREM SessionInvariant == Spec => []IInv
<1>1. IInv /\ [Next]_vars => IInv'
  <2> SUFFICES ASSUME IInv, [Next]_vars
               PROVE  IInv'
    OBVIOUS
  <2>1. Core /\ RestType
    BY DEF IInv, Core
  <2>2. Core' /\ RestType'
    BY <2>1, CoreStep, RestStep
  <2> QED
    BY <2>2 DEF IInv, Core
<1> QED
  BY InitIInv, <1>1, PTL DEF Spec

\* Every variable of the session runtime keeps its type.
THEOREM SessionTypeCorrect == Spec => []TypeOK
<1>1. IInv => TypeOK
  <2> SUFFICES ASSUME IInv
               PROVE  TypeOK
    OBVIOUS
  <2>1. sends \in [Attempts -> Nat]
    BY DEF IInv, DeliveryInv, DeliveryType
  <2> QED
    BY <2>1 DEF IInv, TurnInv, TurnType, DeliveryInv, DeliveryType, RestType,
                TypeOK
<1> QED
  BY SessionInvariant, <1>1, PTL

\* However clients, executor, provider, sweeper and process losses interleave,
\* the turn the aggregate calls current is its only open one.
THEOREM TurnsAreExclusive == Spec => []OneOpenTurn
<1>1. IInv => OneOpenTurn
  BY DEF IInv, TurnInv
<1> QED
  BY SessionInvariant, <1>1, PTL

\* A scheduled successor always waits for the current turn, so that settling it
\* starts the successor.
THEOREM SuccessorsAreNotStranded == Spec => []SuccessorFollowsCurrent
<1>1. IInv => SuccessorFollowsCurrent
  BY DEF IInv, TurnInv
<1> QED
  BY SessionInvariant, <1>1, PTL

\* The input of an attempt reaches the provider at most once, that of a recovery
\* attempt never: over any number of crashes, lost sends, retries and sweeps.
THEOREM InputIsNotResent == Spec => []AttemptSentOnce
<1>1. IInv => AttemptSentOnce
  <2> SUFFICES ASSUME IInv, NEW m \in Messages, NEW a \in 1..MaxAttempts
               PROVE  /\ sends[<<m, a>>] <= 1
                      /\ <<m, a>> \in recoveries => sends[<<m, a>>] = 0
    BY DEF AttemptSentOnce, Attempts
  <2>1. sends[<<m, a>>] \in 0..1
    BY DEF IInv, DeliveryInv, DeliveryType, Attempts
  <2>2. ASSUME <<m, a>> \in recoveries
        PROVE  sends[<<m, a>>] = 0
    BY <2>2 DEF IInv, DeliveryInv, RecoveriesAreNotSent, DeliveredByJob
  <2> QED
    BY <2>1, <2>2
<1> QED
  BY SessionInvariant, <1>1, PTL
=============================================================================
