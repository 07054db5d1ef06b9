------------------------ MODULE SessionMessagesProofs ------------------------
(***************************************************************************)
(* Proofs, for any number of messages, attempts, jobs and disturbances     *)
(* other than a process loss, that a message is in one place at a time:    *)
(* it does not become a turn and wait to become one as well, and, where no *)
(* second command steers, it does not vanish.                              *)
(*                                                                         *)
(* The argument is a refinement in small: every step of the runtime moves  *)
(* at most one message from one place to another, or none.  The places are *)
(* the queue, the claim of the queue service, the scheduled successor, a   *)
(* successor.start job that has not been executed, and the turn.           *)
(***************************************************************************)
EXTENDS SessionRuntimeProofs

-----------------------------------------------------------------------------
(* The places.                                                             *)

\* A successor start that is still to be executed,
Starts(r, m) ==
    /\ r.kind = "successor" /\ r.turn = m
    /\ r.status \in Unsettled /\ r.step = "none"

\* the rows of js that are one for m,
StartsIn(js, m) == {i \in 1..Len(js) : Starts(js[i], m)}

starting == [m \in Messages |-> StartsIn(jobs, m)]
turned == {m \in Messages : turnStatus[m] # "absent"}
places == <<queued, claimed, successor, starting, turned, inbox>>

\* A successor.start has one attempt; it has no durable mark before its fiber
\* executes it, and keeps the claim until the worker records the success.
StartIsSound(r) ==
    r.kind = "successor" =>
        /\ r.attempt = 1 /\ r.step \in {"none", "settled"}
        /\ r.step = "settled" => r.status = "running"
        /\ r.step = "none" /\ r.status \in Unsettled => r.journal = "missing"

Sound(js) == js \in Seq(Jobs) /\ \A i \in 1..Len(js) : StartIsSound(js[i])

-----------------------------------------------------------------------------
(* What a step does with the messages.                                     *)

Stay == UNCHANGED places

\* The user's message becomes a turn or is queued.
Enter(m) ==
    /\ inbox[m] = "new" /\ inbox' = [inbox EXCEPT ![m] = "accepted"]
    /\ \/ turned' = turned \cup {m} /\ UNCHANGED queued
       \/ queued' = queued \cup {m} /\ UNCHANGED turned
    /\ UNCHANGED <<claimed, successor, starting>>

Withdraw(m) ==
    /\ inbox' = [inbox EXCEPT ![m] = "withdrawn"]
    /\ queued' = queued \ {m}
    /\ UNCHANGED <<claimed, successor, starting, turned>>

\* The queue service takes a message, submits it or gives it back.
Take(m) ==
    /\ claimed = None /\ claimed' = m
    /\ m \in queued /\ queued' = queued \ {m}
    /\ UNCHANGED <<successor, starting, turned, inbox>>

HandOver ==
    /\ claimed # None /\ claimed' = None
    /\ \/ turned' = turned \cup {claimed} /\ UNCHANGED queued
       \/ queued' = queued \cup {claimed} /\ UNCHANGED turned
    /\ UNCHANGED <<successor, starting, inbox>>

\* A queued message becomes the scheduled successor, or the job that starts it.
Steer(m) ==
    /\ m \in queued /\ queued' = queued \ {m}
    /\ successor' = m
    /\ \E c \in Commands : receipts[c] = "new" /\ receipts'[c] # "new"
    /\ UNCHANGED <<claimed, starting, turned, inbox>>

SteerIdle(m) ==
    /\ m \in queued /\ queued' = queued \ {m}
    /\ successor' = None /\ successor = None
    /\ \E i \in Nat : starting' = [starting EXCEPT ![m] = @ \cup {i}]
    /\ UNCHANGED <<claimed, turned, inbox>>

Promote ==
    /\ successor # None /\ successor' = None
    /\ \E i \in Nat :
          starting' = [starting EXCEPT ![successor] = @ \cup {i}]
    /\ UNCHANGED <<queued, claimed, turned, inbox>>

\* The job is executed: the message becomes a turn or goes back into the queue,
\* or was a turn already.
Start(m) ==
    /\ \E i \in starting[m] : starting' = [starting EXCEPT ![m] = @ \ {i}]
    /\ \/ turned' = turned \cup {m} /\ UNCHANGED queued
       \/ queued' = queued \cup {m} /\ UNCHANGED turned
       \/ m \in turned /\ UNCHANGED <<queued, turned>>
    /\ UNCHANGED <<claimed, successor, inbox>>

Moves ==
    \/ Stay \/ HandOver \/ Promote
    \/ \E m \in Messages : \/ Enter(m) \/ Withdraw(m) \/ Take(m)
                           \/ Steer(m) \/ SteerIdle(m) \/ Start(m)

\* A receipt is not taken back.
Remembered ==
    \A c \in Commands : receipts[c] # "new" => receipts'[c] # "new"

-----------------------------------------------------------------------------
(* The invariants of the moves.                                            *)

OnePlace ==
    \A m \in Messages :
        /\ m \in turned =>
              m \notin queued /\ claimed # m /\ successor # m
              /\ starting[m] = {}
        /\ m \in queued => claimed # m /\ successor # m /\ starting[m] = {}
        /\ claimed = m => successor # m /\ starting[m] = {}
        /\ successor = m => starting[m] = {}
        /\ \A i, k \in starting[m] : i = k
        /\ inbox[m] = "new" =>
              m \notin turned \cup queued /\ claimed # m /\ successor # m
              /\ starting[m] = {}

SomePlace ==
    \A m \in Messages : inbox[m] = "accepted" =>
        \/ m \in turned \cup queued \/ m = claimed \/ m = successor
        \/ starting[m] # {}

SteeredByCommand ==
    successor # None => \E c \in Commands : receipts[c] # "new"

PlaceTypes ==
    /\ queued \subseteq Messages /\ turned \subseteq Messages
    /\ claimed \in Messages \cup {None} /\ successor \in Messages \cup {None}
    /\ starting \in [Messages -> SUBSET Nat]
    /\ inbox \in [Messages -> {"new", "accepted", "withdrawn"}]

\* A move leaves no message in two places.
LEMMA MoveKeepsOnePlace ==
    ASSUME PlaceTypes, OnePlace, Moves
    PROVE  OnePlace'
<1> USE SessionConstants DEF PlaceTypes, OnePlace
<1>1. CASE Stay
  BY <1>1 DEF Stay, places
<1>2. CASE HandOver
  BY <1>2 DEF HandOver
<1>3. CASE Promote
  <2>1. PICK i \in Nat : starting' = [starting EXCEPT ![successor] = @ \cup {i}]
    BY <1>3 DEF Promote
  <2>2. /\ successor \in Messages /\ starting[successor] = {}
        /\ successor \notin turned \cup queued /\ claimed # successor
        /\ inbox[successor] # "new"
    BY <1>3 DEF Promote
  <2>3. /\ starting'[successor] = {i}
        /\ \A m \in Messages : m # successor => starting'[m] = starting[m]
    BY <2>1, <2>2
  <2>4. successor' = None /\ UNCHANGED <<queued, claimed, turned, inbox>>
    BY <1>3 DEF Promote
  <2> QED
    BY <2>2, <2>3, <2>4
<1>4. ASSUME NEW m \in Messages, Enter(m)
      PROVE  OnePlace'
  BY <1>4 DEF Enter
<1>5. ASSUME NEW m \in Messages, Withdraw(m)
      PROVE  OnePlace'
  BY <1>5 DEF Withdraw
<1>6. ASSUME NEW m \in Messages, Take(m)
      PROVE  OnePlace'
  BY <1>6 DEF Take
<1>7. ASSUME NEW m \in Messages, Steer(m)
      PROVE  OnePlace'
  BY <1>7 DEF Steer
<1>8. ASSUME NEW m \in Messages, SteerIdle(m)
      PROVE  OnePlace'
  BY <1>8 DEF SteerIdle
<1>9. ASSUME NEW m \in Messages, Start(m)
      PROVE  OnePlace'
  BY <1>9 DEF Start
<1> QED
  BY <1>1, <1>2, <1>3, <1>4, <1>5, <1>6, <1>7, <1>8, <1>9 DEF Moves

\* Nor in none, if the successor it replaces is none.
LEMMA MoveKeepsSomePlace ==
    ASSUME PlaceTypes, OnePlace, SomePlace, SteeredByCommand, Moves,
           \A c, d \in Commands : c = d
    PROVE  SomePlace'
<1> USE SessionConstants DEF PlaceTypes, SomePlace
<1>1. CASE Stay
  BY <1>1 DEF Stay, places
<1>2. CASE HandOver
  BY <1>2 DEF HandOver
<1>3. CASE Promote
  <2>1. PICK i \in Nat : starting' = [starting EXCEPT ![successor] = @ \cup {i}]
    BY <1>3 DEF Promote
  <2>2. /\ i \in starting'[successor]
        /\ \A m \in Messages : m # successor => starting'[m] = starting[m]
    BY <1>3, <2>1 DEF Promote
  <2>3. UNCHANGED <<queued, claimed, turned, inbox>>
    BY <1>3 DEF Promote
  <2> QED
    BY <2>2, <2>3
<1>4. ASSUME NEW m \in Messages, Enter(m)
      PROVE  SomePlace'
  BY <1>4 DEF Enter
<1>5. ASSUME NEW m \in Messages, Withdraw(m)
      PROVE  SomePlace'
  BY <1>5 DEF Withdraw
<1>6. ASSUME NEW m \in Messages, Take(m)
      PROVE  SomePlace'
  BY <1>6 DEF Take
<1>7. ASSUME NEW m \in Messages, Steer(m)
      PROVE  SomePlace'
  <2>1. successor = None
    BY <1>7 DEF Steer, SteeredByCommand
  <2> QED
    BY <1>7, <2>1 DEF Steer
<1>8. ASSUME NEW m \in Messages, SteerIdle(m)
      PROVE  SomePlace'
  BY <1>8 DEF SteerIdle
<1>9. ASSUME NEW m \in Messages, Start(m)
      PROVE  SomePlace'
  <2>1. m \in turned' \cup queued'
    BY <1>9 DEF Start
  <2>2. \A p \in Messages : p # m => starting'[p] = starting[p]
    BY <1>9 DEF Start
  <2>3. turned \subseteq turned' /\ queued \subseteq queued'
    BY <1>9 DEF Start
  <2> QED
    BY <1>9, <2>1, <2>2, <2>3 DEF Start
<1> QED
  BY <1>1, <1>2, <1>3, <1>4, <1>5, <1>6, <1>7, <1>8, <1>9 DEF Moves

\* A successor is scheduled by a command, and commands are remembered.
LEMMA MoveKeepsSteered ==
    ASSUME SteeredByCommand, Moves, Remembered
    PROVE  SteeredByCommand'
<1>1. CASE \E m \in Messages : Steer(m)
  BY <1>1 DEF SteeredByCommand, Steer
<1>2. CASE ~\E m \in Messages : Steer(m)
  <2>1. successor' = successor \/ successor' = None
    BY <1>2 DEF Moves, Stay, places, HandOver, Promote, Enter, Withdraw, Take,
                SteerIdle, Start
  <2> QED
    BY <2>1 DEF SteeredByCommand, Remembered
<1> QED
  BY <1>1, <1>2

-----------------------------------------------------------------------------
(* The rows that start successors.                                         *)

\* A row's part in the two definitions depends on these fields only.
LEMMA EnqueueStarts ==
    ASSUME NEW js, Sound(js), NEW r \in Jobs, r.kind # "successor"
    PROVE  /\ Sound(Enqueue(js, r))
           /\ \A m : StartsIn(Enqueue(js, r), m) = StartsIn(js, m)
<1>1. /\ js \in Seq(Jobs) /\ Len(js) \in Nat
      /\ Enqueue(js, r) \in Seq(Jobs) /\ Len(Enqueue(js, r)) = Len(js) + 1
      /\ Enqueue(js, r)[Len(js) + 1] = r
      /\ \A k \in 1..Len(js) : Enqueue(js, r)[k] = js[k]
  BY DEF Sound, Enqueue
<1>2. /\ StartIsSound(r) /\ \A m : ~Starts(r, m)
  BY DEF StartIsSound, Starts
<1>3. \A k \in 1..(Len(js) + 1) : k \in 1..Len(js) \/ k = Len(js) + 1
  BY <1>1
<1>4. Sound(Enqueue(js, r))
  BY <1>1, <1>2, <1>3 DEF Sound
<1>5. ASSUME NEW m
      PROVE  StartsIn(Enqueue(js, r), m) = StartsIn(js, m)
  BY <1>1, <1>2, <1>3 DEF StartsIn
<1> QED
  BY <1>4, <1>5

\* A successor start that is asked for is one more row.
LEMMA EnqueueSuccessor ==
    ASSUME NEW js, Sound(js), NEW p \in Messages
    PROVE  LET ks == Enqueue(js, NewJob("successor", p, 1, "none"))
           IN  /\ Sound(ks)
               /\ \A m \in Messages :
                     StartsIn(ks, m) = IF m = p
                                       THEN StartsIn(js, m) \cup {Len(js) + 1}
                                       ELSE StartsIn(js, m)
<1> DEFINE r == NewJob("successor", p, 1, "none")
           ks == Enqueue(js, r)
<1>0. r \in Jobs
  BY NewJobType, SessionConstants DEF Kinds, Outcomes
<1>1. /\ js \in Seq(Jobs) /\ Len(js) \in Nat
      /\ ks \in Seq(Jobs) /\ Len(ks) = Len(js) + 1
      /\ ks[Len(js) + 1] = r
      /\ \A k \in 1..Len(js) : ks[k] = js[k]
  BY <1>0 DEF Sound, Enqueue
<1>2. /\ StartIsSound(r) /\ Starts(r, p)
      /\ \A m : m # p => ~Starts(r, m)
  BY DEF StartIsSound, Starts, NewJob, Unsettled
<1> HIDE DEF r, ks
<1>3. \A k \in 1..(Len(js) + 1) : k \in 1..Len(js) \/ k = Len(js) + 1
  BY <1>1
<1>4. Sound(ks)
  BY <1>1, <1>2, <1>3 DEF Sound
<1>5. ASSUME NEW m \in Messages
      PROVE  StartsIn(ks, m) = IF m = p
                               THEN StartsIn(js, m) \cup {Len(js) + 1}
                               ELSE StartsIn(js, m)
  BY <1>1, <1>2, <1>3 DEF StartsIn
<1> QED
  BY <1>4, <1>5 DEF r, ks

\* Cancelling other jobs leaves successor starts alone.
LEMMA CancelStarts ==
    ASSUME NEW js, Sound(js), NEW kinds, "successor" \notin kinds
    PROVE  /\ Sound(CancelUnsettled(js, kinds))
           /\ \A m : StartsIn(CancelUnsettled(js, kinds), m) = StartsIn(js, m)
<1> DEFINE F(i) == IF js[i].kind \in kinds /\ js[i].status \in Unsettled
                   THEN [js[i] EXCEPT !.status = "cancelled"]
                   ELSE js[i]
           ks == [i \in DOMAIN js |-> F(i)]
<1>1. /\ js \in Seq(Jobs) /\ DOMAIN js = 1..Len(js)
      /\ \A i \in 1..Len(js) : js[i] \in Jobs /\ StartIsSound(js[i])
  BY RowsAreJobs DEF Sound
<1>2. \A i \in 1..Len(js) :
        /\ F(i) \in Jobs /\ F(i).kind = js[i].kind
        /\ js[i].kind = "successor" => F(i) = js[i]
  BY <1>1 DEF Jobs, JobStatuses
<1>3. \A i \in 1..Len(js) : ks[i] = F(i)
  BY <1>1
<1>4. ks = CancelUnsettled(js, kinds)
  BY DEF CancelUnsettled
<1> HIDE DEF F
<1>5. ks \in Seq(Jobs) /\ Len(ks) = Len(js)
  BY <1>1, <1>2
<1> HIDE DEF ks
<1>6. \A i \in 1..Len(js) : /\ StartIsSound(ks[i])
                            /\ \A m : Starts(ks[i], m) <=> Starts(js[i], m)
  BY <1>1, <1>2, <1>3 DEF StartIsSound, Starts
<1>7. Sound(ks) /\ \A m : StartsIn(ks, m) = StartsIn(js, m)
  BY <1>5, <1>6 DEF Sound, StartsIn
<1> QED
  BY <1>4, <1>7

\* A fiber's step on its own row, which decides what becomes of the start.
LEMMA RowStarts ==
    ASSUME Sound(jobs), NEW i \in DOMAIN jobs, NEW st \in JobStatuses,
           NEW s \in Steps, NEW mark \in Journal,
           jobs[i].kind = "successor" =>
               /\ s \in {"none", "settled"}
               /\ s = "settled" => st = "running"
               /\ s = "none" /\ st \in Unsettled => mark = "missing"
    PROVE  /\ Sound(Row(i, st, s, mark))
           /\ i \in 1..Len(jobs) /\ Len(jobs) \in Nat
           /\ \A m : StartsIn(Row(i, st, s, mark), m) =
                         IF /\ jobs[i].kind = "successor"
                            /\ jobs[i].turn = m /\ st \in Unsettled
                            /\ s = "none"
                         THEN StartsIn(jobs, m) \cup {i}
                         ELSE StartsIn(jobs, m) \ {i}
<1> DEFINE r == [jobs[i] EXCEPT !.status = st, !.step = s, !.journal = mark]
           ks == [jobs EXCEPT ![i] = r]
<1>1. /\ jobs \in Seq(Jobs) /\ i \in 1..Len(jobs) /\ jobs[i] \in Jobs
      /\ Len(jobs) \in Nat
      /\ \A k \in 1..Len(jobs) : StartIsSound(jobs[k])
  BY RowsAreJobs DEF Sound
<1>2. /\ r \in Jobs /\ r.kind = jobs[i].kind /\ r.turn = jobs[i].turn
      /\ r.attempt = jobs[i].attempt /\ r.status = st /\ r.step = s
      /\ r.journal = mark
  BY <1>1 DEF Jobs
<1>3. Row(i, st, s, mark) = ks
  BY DEF Row
<1> HIDE DEF r
<1>4. /\ ks \in Seq(Jobs) /\ Len(ks) = Len(jobs)
      /\ \A k \in 1..Len(jobs) : ks[k] = IF k = i THEN r ELSE jobs[k]
  BY <1>1, <1>2
<1> HIDE DEF ks
<1>5. StartIsSound(r)
  BY <1>1, <1>2 DEF StartIsSound
<1>6. Sound(ks)
  BY <1>1, <1>4, <1>5 DEF Sound
<1>7. ASSUME NEW m
      PROVE  StartsIn(ks, m) = IF Starts(r, m) THEN StartsIn(jobs, m) \cup {i}
                               ELSE StartsIn(jobs, m) \ {i}
  BY <1>1, <1>4 DEF StartsIn
<1>8. \A m : Starts(r, m) <=> /\ jobs[i].kind = "successor"
                              /\ jobs[i].turn = m /\ st \in Unsettled
                              /\ s = "none"
  BY <1>2 DEF Starts
<1> QED
  BY <1>1, <1>3, <1>6, <1>7, <1>8

\* A table in which the same successor starts are to be executed.
Quietly(js) ==
    /\ Sound(js)
    /\ \A m : StartsIn(js, m) = StartsIn(jobs, m)

LEMMA TableIsQuiet ==
    ASSUME Sound(jobs)
    PROVE  /\ Quietly(jobs) /\ Quietly(StopDelivery(jobs))
           /\ Quietly(Supersede(jobs))
<1>1. Quietly(jobs)
  BY DEF Quietly
<1> QED
  BY <1>1, CancelStarts DEF Quietly, StopDelivery, Supersede

\* Any job but a successor start is asked for without moving a message.
LEMMA EnqueueIsQuiet ==
    ASSUME NEW js, Quietly(js), NEW kind \in Kinds \ {"successor"},
           NEW m \in Messages, NEW a \in 1..MaxAttempts,
           NEW outcome \in Outcomes
    PROVE  /\ Quietly(Enqueue(js, NewJob(kind, m, a, outcome)))
           /\ Quietly(Enqueue(Supersede(js), NewJob(kind, m, a, outcome)))
<1>1. /\ NewJob(kind, m, a, outcome) \in Jobs
      /\ NewJob(kind, m, a, outcome).kind # "successor"
  BY NewJobType
<1>2. Quietly(Supersede(js))
  BY CancelStarts DEF Quietly, Supersede
<1> QED
  BY <1>1, <1>2, EnqueueStarts DEF Quietly

\* So is a step of a fiber that executes any other job.
LEMMA RowIsQuiet ==
    ASSUME Sound(jobs), NEW i \in DOMAIN jobs, NEW st \in JobStatuses,
           NEW s \in Steps, NEW mark \in Journal,
           jobs[i].kind # "successor"
    PROVE  Quietly(Row(i, st, s, mark))
<1>1. \A m : i \notin StartsIn(jobs, m)
  BY DEF StartsIn, Starts
<1>2. /\ Sound(Row(i, st, s, mark))
      /\ \A m : StartsIn(Row(i, st, s, mark), m) = StartsIn(jobs, m) \ {i}
  BY RowStarts
<1> QED
  BY <1>1, <1>2 DEF Quietly

-----------------------------------------------------------------------------
(* What the commands do with the messages.                                 *)

\* Nothing,
Still == Quietly(jobs') /\ UNCHANGED <<turned, queued, successor>>

\* or the scheduled successor is started as well.
Settles ==
    /\ Sound(jobs') /\ UNCHANGED <<turned, queued>>
    /\ \/ UNCHANGED <<successor, starting>>
       \/ /\ successor # None /\ successor' = None
          /\ \E i \in Nat :
                starting' = [starting EXCEPT ![successor] = @ \cup {i}]

\* What a step of the runtime has to be shown to be.
MoveStep == Sound(jobs)' /\ Moves /\ Remembered

LEMMA QuietKeepsStarting ==
    ASSUME Quietly(jobs')
    PROVE  Sound(jobs)' /\ Sound(jobs') /\ UNCHANGED starting
  BY DEF Quietly, starting

LEMMA SettlesMoves ==
    ASSUME Settles \/ Still, UNCHANGED <<claimed, inbox, receipts>>
    PROVE  MoveStep
<1>1. CASE Still
  <2>1. Sound(jobs)' /\ UNCHANGED starting
    BY <1>1, QuietKeepsStarting DEF Still
  <2> QED
    BY <1>1, <2>1 DEF Still, MoveStep, Moves, Stay, places, Remembered
<1>2. CASE Settles
  BY <1>2 DEF Settles, MoveStep, Moves, Stay, Promote, places, Remembered
<1> QED
  BY <1>1, <1>2

\* A submitted message becomes a turn.
LEMMA SubmitMoves ==
    ASSUME TurnInv, NEW js, Quietly(js), NEW m \in Messages, SubmitTurn(m, js)
    PROVE  /\ Quietly(jobs') /\ turned' = turned \cup {m}
           /\ UNCHANGED <<queued, successor, receipts>>
<1> DEFINE r == NewJob("send", m, 1, "none")
<1>1. /\ jobs' = Enqueue(js, r)
      /\ turnStatus' = [turnStatus EXCEPT ![m] = "active"]
      /\ UNCHANGED <<queued, successor, receipts>>
  BY DEF SubmitTurn, TurnStarted, queueVars, successorVars
<1>2. 1 \in 1..MaxAttempts /\ "none" \in Outcomes
      /\ "send" \in Kinds \ {"successor"}
  BY SessionConstants DEF Outcomes, Kinds
<1>3. Quietly(Enqueue(js, r))
  BY <1>2, EnqueueIsQuiet
<1> HIDE DEF r
<1>4. Quietly(jobs')
  BY <1>1, <1>3, Zenon
<1>5. turned' = turned \cup {m}
  BY <1>1 DEF turned, TurnInv, TurnType
<1> QED
  BY <1>1, <1>4, <1>5

\* A new attempt, a finalization and an interrupt move no message.
LEMMA TurnCommandsAreStill ==
    ASSUME TurnInv, NEW js, Quietly(js), NEW outcome \in Outcomes,
           \/ Finalize(outcome, js) \/ RetryTurn(js) \/ RecoverTurn(js)
           \/ AcknowledgeTurnInterrupt(js) \/ FailTurnInterrupt(js)
    PROVE  Still /\ UNCHANGED receipts
<1>1. /\ current \in Messages /\ Open(current)
      /\ attempts[current] \in 1..MaxAttempts
  BY CurrentHasAttempt
     DEF Finalize, RetryTurn, RecoverTurn, Recoverable,
         AcknowledgeTurnInterrupt, FailTurnInterrupt
<1>2. CASE Finalize(outcome, js)
  <2> DEFINE r == NewJob("capture", current, attempts[current], outcome)
  <2>1. /\ UNCHANGED <<queued, successor, receipts>>
        /\ \/ UNCHANGED turnStatus
           \/ turnStatus' = [turnStatus EXCEPT ![current] = "finalizing"]
        /\ jobs' = js \/ jobs' = Enqueue(js, r)
    BY <1>2 DEF Finalize, queueVars, successorVars
  <2>2. "capture" \in Kinds \ {"successor"}
    BY DEF Kinds
  <2>3. Quietly(Enqueue(js, r))
    BY <1>1, <2>2, EnqueueIsQuiet
  <2> HIDE DEF r
  <2>4. Quietly(jobs')
    BY <2>1, <2>3, Zenon
  <2>5. turned' = turned
    BY <1>1, <2>1 DEF turned, TurnInv, TurnType, Open
  <2> QED
    BY <2>1, <2>4, <2>5 DEF Still
<1>3. ASSUME NEW kind \in {"send", "recover"},
             RetryTurn(js) \/ RecoverTurn(js),
             jobs' = Enqueue(Supersede(js), NewJob(kind, current,
                                               attempts[current] + 1, "none"))
      PROVE  Still /\ UNCHANGED receipts
  <2> DEFINE r == NewJob(kind, current, attempts[current] + 1, "none")
  <2>1. /\ UNCHANGED <<turnStatus, queued, successor, receipts>>
        /\ attempts[current] < MaxAttempts
    BY <1>3 DEF RetryTurn, RecoverTurn, StartAttempt, queueVars, successorVars
  <2>2. kind \in Kinds \ {"successor"} /\ "none" \in Outcomes
    BY DEF Kinds, Outcomes
  <2>3. attempts[current] + 1 \in 1..MaxAttempts
    BY <1>1, <2>1, SessionConstants
  <2>4. Quietly(Enqueue(Supersede(js), r))
    BY <1>1, <2>2, <2>3, EnqueueIsQuiet
  <2> HIDE DEF r
  <2>5. Quietly(jobs')
    BY <1>3, <2>4, Zenon DEF r
  <2> QED
    BY <2>1, <2>5 DEF Still, turned
<1>4. CASE AcknowledgeTurnInterrupt(js) \/ FailTurnInterrupt(js)
  <2>1. jobs' = js /\ UNCHANGED <<turnStatus, queued, successor, receipts>>
    BY <1>4 DEF AcknowledgeTurnInterrupt, FailTurnInterrupt, TurnPhase,
                queueVars, successorVars
  <2>2. Quietly(jobs')
    BY <2>1, Zenon
  <2> QED
    BY <2>1, <2>2 DEF Still, turned
<1> QED
  BY <1>2, <1>3, <1>4 DEF RetryTurn, RecoverTurn

\* Settling the turn starts its successor, if it has one.
LEMMA SettleMoves ==
    ASSUME TurnInv, NEW js, Quietly(js), NEW outcome, SettleTurn(outcome, js)
    PROVE  Settles /\ UNCHANGED receipts
<1>1. /\ current # None /\ UNCHANGED <<queued, receipts>>
      /\ turnStatus' = [turnStatus EXCEPT ![current] = "settled"]
  BY DEF SettleTurn, TurnSettled, queueVars
<1>2. current \in Messages /\ turnStatus[current] # "absent"
  BY <1>1, CurrentHasAttempt DEF Open
<1>3. turned' = turned
  BY <1>1, <1>2 DEF turned, TurnInv, TurnType
<1>4. CASE predecessor = current
  <2>1. successor # None /\ successor \in Messages
    BY <1>1, <1>4 DEF TurnInv, TurnType, SuccessorIsComplete
  <2> DEFINE r == NewJob("successor", successor, 1, "none")
             ks == Enqueue(js, r)
  <2>2. jobs' = ks /\ successor' = None
    BY <1>4 DEF SettleTurn, SuccessorTurnScheduled
  <2>3. /\ Sound(ks)
        /\ \A m \in Messages :
              StartsIn(ks, m) = IF m = successor
                                THEN StartsIn(js, m) \cup {Len(js) + 1}
                                ELSE StartsIn(js, m)
    BY <2>1, EnqueueSuccessor DEF Quietly
  <2> HIDE DEF ks
  <2>4. Len(js) + 1 \in Nat
    BY DEF Quietly, Sound
  <2>5. starting' = [m \in Messages |-> StartsIn(ks, m)]
    BY <2>2 DEF starting
  <2>6. starting' = [starting EXCEPT ![successor] = @ \cup {Len(js) + 1}]
    BY <2>1, <2>3, <2>5 DEF starting, Quietly
  <2>7. Sound(jobs')
    BY <2>2, <2>3, Zenon
  <2> QED
    BY <1>1, <1>3, <2>1, <2>2, <2>4, <2>6, <2>7 DEF Settles
<1>5. CASE predecessor # current
  <2>1. jobs' = js /\ UNCHANGED successor
    BY <1>5 DEF SettleTurn, successorVars
  <2>2. Quietly(jobs')
    BY <2>1, Zenon
  <2> QED
    BY <1>1, <1>3, <2>1, <2>2, QuietKeepsStarting DEF Settles
<1> QED
  BY <1>4, <1>5

-----------------------------------------------------------------------------
(* Every step is a move.                                                   *)

\* A step that touches none of what the moves are made of.
LEMMA OtherMoves ==
    ASSUME Sound(jobs),
           UNCHANGED <<turnStatus, queued, successor, claimed, inbox>>,
           Quietly(jobs'), Remembered
    PROVE  MoveStep
<1>1. Sound(jobs)' /\ UNCHANGED starting
  BY QuietKeepsStarting
<1> QED
  BY <1>1 DEF MoveStep, Moves, Stay, places, turned

\* A message that enters as a turn, or into the queue.
LEMMA AcceptMoves ==
    ASSUME IInv, Sound(jobs), NEW m \in Messages, Accept(m),
           SubmitTurn(m, jobs) \/ EnqueueTurn(m, TRUE, jobs)
    PROVE  MoveStep
<1>1. /\ inbox[m] = "new" /\ inbox' = [inbox EXCEPT ![m] = "accepted"]
      /\ UNCHANGED claimed
  BY DEF Accept
<1>2. CASE SubmitTurn(m, jobs)
  <2>1. /\ Quietly(jobs') /\ turned' = turned \cup {m}
        /\ UNCHANGED <<queued, successor, receipts>>
    BY <1>2, TableIsQuiet, SubmitMoves DEF IInv
  <2>2. Sound(jobs)' /\ UNCHANGED starting
    BY <2>1, QuietKeepsStarting
  <2>3. Enter(m)
    BY <1>1, <2>1, <2>2 DEF Enter
  <2> QED
    BY <2>1, <2>2, <2>3 DEF MoveStep, Moves, Remembered
<1>3. CASE EnqueueTurn(m, TRUE, jobs)
  <2>1. /\ jobs' = jobs /\ queued' = queued \cup {m} /\ UNCHANGED turned
        /\ UNCHANGED <<successor, receipts>>
    BY <1>3 DEF EnqueueTurn, turnVars, successorVars, turned
  <2>2. Sound(jobs)' /\ UNCHANGED starting
    BY <2>1 DEF starting, Sound, StartIsSound
  <2>3. Enter(m)
    BY <1>1, <2>1, <2>2 DEF Enter
  <2> QED
    BY <2>1, <2>2, <2>3 DEF MoveStep, Moves, Remembered
<1> QED
  BY <1>2, <1>3

\* The running turn is interrupted for the steered message, or the message is
\* started at once.
LEMMA SteerMoves ==
    ASSUME IInv, Sound(jobs), NEW c \in Commands, NEW m \in Messages,
           RunQueuedMessageNext(c, m)
    PROVE  MoveStep
<1>1. /\ receipts \in [Commands -> {"new", "quiet", "interrupted", "steered"}]
      /\ TurnInv /\ Quietly(jobs) /\ Quietly(StopDelivery(jobs))
  BY TableIsQuiet DEF IInv, RestType
<1>2. /\ receipts[c] = "new" /\ UNCHANGED <<claimed, inbox>>
      /\ \E to \in {"quiet", "steered"} :
            receipts' = [receipts EXCEPT ![c] = to]
  BY DEF RunQueuedMessageNext, runtimeVars
<1>3. receipts'[c] # "new" /\ Remembered
  BY <1>1, <1>2 DEF Remembered
<1>4. CASE SteerQueuedTurn(m, jobs)
  <2> DEFINE r == NewJob("interrupt", current, attempts[current], "none")
             ks == Enqueue(StopDelivery(jobs), r)
  <2>1. /\ m \in queued /\ queued' = queued \ {m} /\ successor' = m
        /\ UNCHANGED turnStatus /\ current # None
        /\ jobs' = jobs \/ jobs' = ks
    BY <1>4 DEF SteerQueuedTurn, TakeFromQueue, SuccessorTurnScheduled,
                TurnPhase, turnVars
  <2>2. current \in Messages /\ attempts[current] \in 1..MaxAttempts
    BY <1>1, <2>1, CurrentHasAttempt
  <2>3. "interrupt" \in Kinds \ {"successor"} /\ "none" \in Outcomes
    BY DEF Kinds, Outcomes
  <2>4. Quietly(ks)
    BY <1>1, <2>2, <2>3, EnqueueIsQuiet
  <2> HIDE DEF ks
  <2>5. Quietly(jobs')
    BY <1>1, <2>1, <2>4, Zenon
  <2>6. Sound(jobs)' /\ UNCHANGED <<starting, turned>>
    BY <2>1, <2>5, QuietKeepsStarting DEF turned
  <2>7. Steer(m)
    BY <1>2, <1>3, <2>1, <2>6 DEF Steer
  <2> QED
    BY <1>3, <2>6, <2>7 DEF MoveStep, Moves
<1>5. CASE SteerAfterSettlement(m, jobs)
  <2> DEFINE ks == Enqueue(jobs, NewJob("successor", m, 1, "none"))
  <2>1. /\ m \in queued /\ queued' = queued \ {m} /\ successor' = None
        /\ UNCHANGED turnStatus /\ current = None /\ jobs' = ks
    BY <1>5 DEF SteerAfterSettlement, TakeFromQueue, SuccessorTurnScheduled,
                turnVars
  <2>2. successor = None
    BY <1>1, <2>1 DEF TurnInv, SuccessorFollowsCurrent
  <2>3. /\ Sound(ks)
        /\ \A p \in Messages :
              StartsIn(ks, p) = IF p = m
                                THEN StartsIn(jobs, p) \cup {Len(jobs) + 1}
                                ELSE StartsIn(jobs, p)
    BY EnqueueSuccessor
  <2> HIDE DEF ks
  <2>4. Len(jobs) + 1 \in Nat
    BY DEF Sound
  <2>5. starting' = [p \in Messages |-> StartsIn(ks, p)]
    BY <2>1 DEF starting
  <2>6. starting' = [starting EXCEPT ![m] = @ \cup {Len(jobs) + 1}]
    BY <2>3, <2>5 DEF starting
  <2>7. Sound(jobs') /\ UNCHANGED turned
    <3>1. Sound(jobs')
      BY <2>1, <2>3, Zenon
    <3> QED
      BY <2>1, <3>1 DEF turned
  <2>8. SteerIdle(m)
    BY <1>2, <2>1, <2>2, <2>4, <2>6, <2>7 DEF SteerIdle
  <2> QED
    BY <1>3, <2>7, <2>8 DEF MoveStep, Moves
<1> QED
  BY <1>4, <1>5 DEF RunQueuedMessageNext

\* Clients enter messages and steer.
LEMMA ClientMoves ==
    ASSUME IInv, Sound(jobs), Client
    PROVE  MoveStep
<1>0. /\ TurnInv /\ Quietly(jobs) /\ Quietly(StopDelivery(jobs))
      /\ receipts \in [Commands -> {"new", "quiet", "interrupted", "steered"}]
      /\ "none" \in Outcomes /\ "ended" \in Outcomes
      /\ {"send", "interrupt"} \subseteq Kinds \ {"successor"}
  BY TableIsQuiet DEF IInv, RestType, Outcomes, Kinds
<1>1. ASSUME NEW m \in Messages, SendMessage(m)
      PROVE  MoveStep
  BY <1>1, AcceptMoves DEF SendMessage
<1>2. CASE ReleaseFirstTurn
  <2> DEFINE ks == Enqueue(jobs, NewJob("send", current, attempts[current],
                                        "none"))
  <2>1. /\ current # None /\ jobs' = ks
        /\ UNCHANGED <<turnStatus, queued, successor, claimed, inbox, receipts>>
    BY <1>2 DEF ReleaseFirstTurn, ReleaseInitialTurn, turnVars, queueVars,
                successorVars, runtimeVars
  <2>2. current \in Messages /\ attempts[current] \in 1..MaxAttempts
    BY <1>0, <2>1, CurrentHasAttempt
  <2>3. Quietly(ks)
    BY <1>0, <2>2, EnqueueIsQuiet
  <2> HIDE DEF ks
  <2>4. Quietly(jobs')
    BY <2>1, <2>3, Zenon
  <2> QED
    BY <2>1, <2>4, OtherMoves DEF Remembered
<1>3. ASSUME NEW c \in Commands, InterruptSession(c)
      PROVE  MoveStep
  <2> DEFINE ks == Enqueue(StopDelivery(jobs),
                           NewJob("interrupt", current, attempts[current],
                                  "none"))
  <2>1. /\ UNCHANGED <<turnStatus, queued, successor, claimed, inbox>>
        /\ receipts[c] = "new"
        /\ \E to \in {"interrupted", "quiet"} :
              receipts' = [receipts EXCEPT ![c] = to]
        /\ jobs' = jobs \/ (current # None /\ jobs' = ks)
    BY <1>3 DEF InterruptSession, RequestTurnInterrupt, TurnPhase, turnVars,
                queueVars, successorVars
  <2>2. Remembered
    BY <1>0, <2>1 DEF Remembered
  <2>3. ASSUME current # None
        PROVE  Quietly(ks)
    <3>1. current \in Messages /\ attempts[current] \in 1..MaxAttempts
      BY <1>0, <2>3, CurrentHasAttempt
    <3> QED
      BY <1>0, <3>1, EnqueueIsQuiet
  <2> HIDE DEF ks
  <2>4. Quietly(jobs')
    BY <1>0, <2>1, <2>3, Zenon
  <2> QED
    BY <2>1, <2>2, <2>4, OtherMoves
<1>4. ASSUME NEW c \in Commands, NEW m \in Messages, RunQueuedMessageNext(c, m)
      PROVE  MoveStep
  BY <1>4, SteerMoves
<1>5. ASSUME NEW c \in Commands, DispatchAgain(c)
      PROVE  MoveStep
  <2>1. /\ jobs' = StopDelivery(jobs)
        /\ UNCHANGED <<turnStatus, queued, successor, claimed, inbox, receipts>>
    BY <1>5 DEF DispatchAgain, turnVars, queueVars, successorVars
  <2>2. Quietly(jobs')
    BY <1>0, <2>1, Zenon
  <2> QED
    BY <2>1, <2>2, OtherMoves DEF Remembered
<1>6. CASE ResumeSession
  <2>1. RestartSession /\ UNCHANGED <<claimed, inbox>>
    BY <1>6 DEF ResumeSession
  <2>2. CASE RetryTurn(jobs) \/ Finalize("ended", jobs)
    BY <1>0, <2>1, <2>2, TurnCommandsAreStill, SettlesMoves
  <2>3. CASE UNCHANGED <<turnVars, queueVars, successorVars, receipts, jobs>>
    <3>1. Quietly(jobs')
      BY <1>0, <2>3, Zenon
    <3> QED
      BY <2>1, <2>3, <3>1, OtherMoves
         DEF turnVars, queueVars, successorVars, Remembered
  <2> QED
    BY <2>1, <2>2, <2>3 DEF RestartSession
<1>7. CASE PauseAfterInterrupt \/ Archive \/ Unarchive
  <2>1. /\ jobs' = jobs
        /\ UNCHANGED <<turnStatus, queued, successor, claimed, inbox, receipts>>
    BY <1>7 DEF PauseAfterInterrupt, SetQueuePaused, Archive, Unarchive,
                ArchiveSession, sessionVars, turnVars, queueVars,
                successorVars, runtimeVars
  <2>2. Quietly(jobs')
    BY <1>0, <2>1, Zenon
  <2> QED
    BY <2>1, <2>2, OtherMoves DEF Remembered
<1> QED
  BY <1>1, <1>2, <1>3, <1>4, <1>5, <1>6, <1>7 DEF Client

\* The queue service takes messages out of the queue and hands them over.
LEMMA QueueMoves ==
    ASSUME IInv, Sound(jobs), QueueService
    PROVE  MoveStep
<1>0. /\ TurnInv /\ Quietly(jobs) /\ claimed \in Messages \cup {None}
  BY TableIsQuiet DEF IInv, RestType
<1>1. ASSUME UNCHANGED <<turnStatus, successor, receipts, jobs>>
      PROVE  Sound(jobs)' /\ UNCHANGED <<starting, turned>> /\ Remembered
  <2>1. Sound(jobs')
    BY <1>0, <1>1, Zenon DEF Quietly
  <2> QED
    BY <1>1, <2>1 DEF starting, turned, Remembered
<1>2. ASSUME NEW m \in Messages, EnqueueMessage(m)
      PROVE  MoveStep
  BY <1>2, AcceptMoves DEF EnqueueMessage
<1>3. ASSUME NEW m \in Messages, RemoveQueuedMessage(m)
      PROVE  MoveStep
  <2>1. /\ queued' = queued \ {m} /\ inbox' = [inbox EXCEPT ![m] = "withdrawn"]
        /\ UNCHANGED <<claimed, turnStatus, successor, receipts, jobs>>
    BY <1>3 DEF RemoveQueuedMessage, TakeFromQueue, turnVars, successorVars
  <2> QED
    BY <1>1, <2>1 DEF Withdraw, MoveStep, Moves
<1>4. ASSUME NEW m \in Messages, claimed = None, ClaimQueuedTurn(m)
      PROVE  MoveStep
  <2>1. /\ \/ m \in queued /\ queued' = queued \ {m} /\ claimed' = m
           \/ UNCHANGED <<queued, claimed>>
        /\ UNCHANGED <<inbox, turnStatus, successor, receipts, jobs>>
    BY <1>4 DEF ClaimQueuedTurn, TakeFromQueue, turnVars, queueVars,
                successorVars
  <2> QED
    BY <1>1, <1>4, <2>1 DEF Take, Stay, places, MoveStep, Moves
<1>5. CASE UNCHANGED <<queued, claimed, inbox, turnStatus, successor, receipts,
                       jobs>>
  BY <1>1, <1>5 DEF Stay, places, MoveStep, Moves
<1>6. CASE SendClaimed
  <2>1. claimed # None /\ claimed' = None /\ UNCHANGED inbox
    BY <1>6 DEF SendClaimed
  <2>2. CASE SubmitTurn(claimed, jobs)
    <3>1. /\ Quietly(jobs') /\ turned' = turned \cup {claimed}
          /\ UNCHANGED <<queued, successor, receipts>>
      BY <1>0, <2>1, <2>2, SubmitMoves
    <3>2. Sound(jobs)' /\ UNCHANGED starting
      BY <3>1, QuietKeepsStarting
    <3> QED
      BY <2>1, <3>1, <3>2 DEF HandOver, MoveStep, Moves, Remembered
  <2>3. CASE EnqueueTurn(claimed, TRUE, jobs)
    <3>1. /\ queued' = queued \cup {claimed}
          /\ UNCHANGED <<turnStatus, successor, receipts, jobs>>
      BY <2>3 DEF EnqueueTurn, turnVars, successorVars
    <3> QED
      BY <1>1, <2>1, <3>1 DEF HandOver, MoveStep, Moves
  <2> QED
    BY <1>6, <2>2, <2>3 DEF SendClaimed
<1>7. ASSUME NEW m \in Messages,
             FlushHead(m) \/ RunQueuedMessageWhileIdle(m) \/ RegainAccess(m)
      PROVE  MoveStep
  <2>1. \/ claimed = None /\ ClaimQueuedTurn(m)
        \/ UNCHANGED <<queued, claimed, inbox, turnStatus, successor, receipts,
                       jobs>>
    BY <1>7 DEF FlushHead, RunQueuedMessageWhileIdle, RegainAccess,
                UpdateQueuedTurn, SetQueuePaused, turnVars, queueVars,
                successorVars, runtimeVars
  <2> QED
    BY <1>4, <1>5, <2>1
<1>8. ResumeQueue => UNCHANGED <<queued, claimed, inbox, turnStatus, successor,
                                 receipts, jobs>>
  BY DEF ResumeQueue, SetQueuePaused, turnVars, queueVars, successorVars,
         runtimeVars
<1> QED
  BY <1>2, <1>3, <1>5, <1>6, <1>7, <1>8 DEF QueueService

\* A fiber of any job but a successor start moves the messages only as the turn
\* commands it ends with do.
LEMMA FiberMoves ==
    ASSUME IInv, Sound(jobs), NEW i \in DOMAIN jobs,
           jobs[i].kind # "successor", UNCHANGED <<claimed, inbox>>,
           NEW st \in JobStatuses, NEW s \in Steps, NEW mark \in Journal,
           NEW outcome \in Outcomes,
           LET js == Row(i, st, s, mark)
           IN  \/ /\ jobs' = js
                  /\ UNCHANGED <<turnStatus, queued, successor, receipts>>
               \/ Finalize(outcome, js) \/ RecoverTurn(js)
               \/ AcknowledgeTurnInterrupt(js) \/ FailTurnInterrupt(js)
               \/ SettleTurn(outcome, js)
    PROVE  MoveStep
<1> DEFINE js == Row(i, st, s, mark)
<1>1. TurnInv /\ Quietly(js)
  BY RowIsQuiet DEF IInv
<1> HIDE DEF js
<1>2. CASE /\ jobs' = js
           /\ UNCHANGED <<turnStatus, queued, successor, receipts>>
  <2>1. Quietly(jobs')
    BY <1>1, <1>2, Zenon
  <2> QED
    BY <1>2, <2>1, OtherMoves DEF Remembered
<1>3. CASE \/ Finalize(outcome, js) \/ RecoverTurn(js)
           \/ AcknowledgeTurnInterrupt(js) \/ FailTurnInterrupt(js)
  BY <1>1, <1>3, TurnCommandsAreStill, SettlesMoves
<1>4. CASE SettleTurn(outcome, js)
  BY <1>1, <1>4, SettleMoves, SettlesMoves
<1> QED
  BY <1>2, <1>3, <1>4 DEF js

\* Up to and after its call of the provider, a send leaves the messages alone.
LEMMA SendMoves ==
    ASSUME IInv, Sound(jobs), NEW i \in DOMAIN jobs,
           \/ Check(i) \/ SendBegin(i) \/ SendStatus(i) \/ SendDeliver(i)
           \/ SendComplete(i) \/ JobParks(i)
    PROVE  MoveStep
<1>0. /\ jobs[i].status \in JobStatuses /\ jobs[i].journal \in Journal
      /\ {"running", "succeeded", "failed", "waiting"} \subseteq JobStatuses
      /\ {"none", "checked", "asked", "capturing", "begun", "unknown",
          "sending", "delivered"} \subseteq Steps
      /\ {"started", "missing", "completed"} \subseteq Journal
      /\ "none" \in Outcomes
  BY OwnRow DEF IInv, JobStatuses, Steps, Journal, Outcomes
<1>1. /\ jobs[i].kind # "successor"
      /\ UNCHANGED <<claimed, inbox, turnStatus, queued, successor, receipts>>
  BY DEF Check, At, SendBegin, SendStatus, SendDeliver, SendComplete,
         JobParks, OnlyJobs, runtimeVars, turnVars, queueVars,
         successorVars
<1>2. \E st \in JobStatuses, s \in Steps, mark \in Journal :
          jobs' = Row(i, st, s, mark)
  <2>1. Check(i) => \E s \in Steps : jobs' = Step(i, s) \/ jobs' = Succeed(i)
    BY <1>0 DEF Check
  <2>2. SendBegin(i) => \/ jobs' = Row(i, "running", "begun", "started")
                        \/ jobs' = Step(i, "unknown") \/ jobs' = Succeed(i)
    BY DEF SendBegin
  <2>3. SendStatus(i) => jobs' = Step(i, "sending") \/ jobs' = Succeed(i)
    BY DEF SendStatus
  <2>4. SendDeliver(i) => \/ jobs' = Step(i, "delivered")
                          \/ jobs' = Step(i, "unknown")
                          \/ jobs' = Succeed(i)
                          \/ jobs' = Row(i, "failed", "none", "missing")
                          \/ jobs' = Row(i, "succeeded", "none", "completed")
    BY DEF SendDeliver
  <2>5. SendComplete(i) => jobs' = Row(i, "succeeded", "none", "completed")
    BY DEF SendComplete
  <2>6. JobParks(i) => jobs' = Row(i, "waiting", "none", jobs[i].journal)
    BY DEF JobParks
  <2> QED
    BY <1>0, <2>1, <2>2, <2>3, <2>4, <2>5, <2>6, Zenon DEF Step, Succeed
<1> QED
  BY <1>0, <1>1, <1>2, FiberMoves

\* The steps that end with a command on the turn.
LEMMA AnswerMoves ==
    ASSUME IInv, Sound(jobs), NEW i \in DOMAIN jobs,
           \/ RecoverUnknownDelivery(i) \/ InterruptAnswer(i)
           \/ InterruptSettle(i) \/ CaptureDone(i) \/ RecoverSettle(i)
    PROVE  MoveStep
<1>0. /\ jobs[i].status \in JobStatuses /\ jobs[i].journal \in Journal
      /\ {"running", "succeeded"} \subseteq JobStatuses
      /\ {"none", "settled", "acked", "refused"} \subseteq Steps
      /\ "unknown" \in Journal
      /\ {"ended", "error"} \subseteq Outcomes /\ jobs[i].outcome \in Outcomes
  BY OwnRow DEF IInv, JobStatuses, Steps, Journal, Outcomes
<1>1. jobs[i].kind # "successor" /\ UNCHANGED <<claimed, inbox>>
  BY DEF At, Unwinding, RecoverUnknownDelivery, InterruptAnswer,
         InterruptSettle, CaptureDone, RecoverSettle, runtimeVars
<1> DEFINE Did(js) ==
              \/ /\ jobs' = js
                 /\ UNCHANGED <<turnStatus, queued, successor, receipts>>
              \/ RecoverTurn(js) \/ AcknowledgeTurnInterrupt(js)
              \/ FailTurnInterrupt(js)
              \/ \E outcome \in Outcomes :
                    Finalize(outcome, js) \/ SettleTurn(outcome, js)
<1>2. \A js : /\ jobs' = js /\ OnlyJobs => Did(js)
              /\ \A outcome \in Outcomes :
                    FinalizeTurn(outcome, js) => Did(js)
  BY DEF OnlyJobs, FinalizeTurn, turnVars, queueVars, successorVars
<1>3. RecoverUnknownDelivery(i) =>
          \/ Did(Step(i, "none")) \/ Did(Succeed(i))
          \/ Did(Row(i, jobs[i].status, "none", "unknown"))
          \/ Did(Step(i, "settled"))
  BY <1>0, <1>2 DEF RecoverUnknownDelivery
<1>4. InterruptAnswer(i) =>
          \/ Did(Step(i, "acked")) \/ Did(Step(i, "refused"))
          \/ Did(Succeed(i))
  BY <1>2 DEF InterruptAnswer
<1>5. InterruptSettle(i) => Did(Step(i, "settled")) \/ Did(Succeed(i))
  BY <1>0, <1>2 DEF InterruptSettle
<1>6. CaptureDone(i) => Did(Step(i, "settled")) \/ Did(Succeed(i))
  BY <1>0, <1>2 DEF CaptureDone
<1>7. RecoverSettle(i) => Did(Step(i, "settled")) \/ Did(Succeed(i))
  BY <1>0, <1>2 DEF RecoverSettle
<1> HIDE DEF Did
<1>8. \E st \in JobStatuses, s \in Steps, mark \in Journal :
          Did(Row(i, st, s, mark))
  BY <1>0, <1>3, <1>4, <1>5, <1>6, <1>7 DEF Step, Succeed
<1> QED
  BY <1>0, <1>1, <1>8, FiberMoves DEF Did

\* The worker's writes on a row do not tell whether a successor start was
\* executed: the claim of one finds it unexecuted, its last write executed.
LEMMA WorkerMoves ==
    ASSUME IInv, Sound(jobs), NEW i \in DOMAIN jobs, Claim(i) \/ Finish(i)
    PROVE  MoveStep
<1>0. /\ jobs[i] \in Jobs /\ jobs[i].status \in JobStatuses
      /\ jobs[i].journal \in Journal /\ i \in 1..Len(jobs)
      /\ {"running", "succeeded"} \subseteq JobStatuses /\ "none" \in Steps
      /\ "unknown" \in Journal
      /\ StartIsSound(jobs[i])
  BY OwnRow DEF IInv, JobStatuses, Steps, Journal, Sound
<1>1. UNCHANGED <<turnStatus, queued, successor, claimed, inbox, receipts>>
  BY DEF Claim, Finish, OnlyJobs, runtimeVars, turnVars, queueVars,
         successorVars
<1>2. CASE jobs[i].kind # "successor"
  <2>1. \E st \in JobStatuses, mark \in Journal :
            jobs' = Row(i, st, "none", mark)
    BY <1>0, Zenon DEF Claim, Finish
  <2>2. "none" \in Outcomes
    BY DEF Outcomes
  <2> QED
    BY <1>0, <1>1, <1>2, <2>1, <2>2, FiberMoves
<1>3. CASE jobs[i].kind = "successor" /\ Claim(i)
  <2> DEFINE js == Row(i, "running", "none", jobs[i].journal)
  <2>1. jobs' = js /\ jobs[i].status \in {"pending", "waiting"}
    BY <1>3 DEF Claim
  <2>2. /\ jobs[i].step = "none" /\ jobs[i].journal = "missing"
        /\ jobs[i].status \in Unsettled
    BY <1>0, <1>3, <2>1 DEF StartIsSound, Unsettled
  <2>3. /\ Sound(js)
        /\ \A m : StartsIn(js, m) = IF jobs[i].turn = m
                                     THEN StartsIn(jobs, m) \cup {i}
                                     ELSE StartsIn(jobs, m) \ {i}
    BY <1>0, <1>3, <2>2, RowStarts DEF Unsettled
  <2>4. \A m : i \in StartsIn(jobs, m) <=> jobs[i].turn = m
    BY <1>0, <1>3, <2>2 DEF StartsIn, Starts
  <2>5. Quietly(js)
    BY <2>3, <2>4 DEF Quietly
  <2> HIDE DEF js
  <2>6. Quietly(jobs')
    BY <2>1, <2>5, Zenon
  <2> QED
    BY <1>1, <2>6, OtherMoves DEF Remembered
<1>4. CASE jobs[i].kind = "successor" /\ Finish(i)
  <2> DEFINE js == Row(i, "succeeded", "none", jobs[i].journal)
  <2>1. jobs[i].step = "settled" /\ jobs[i].status = "running" /\ jobs' = js
    BY <1>0, <1>4 DEF Finish, StartIsSound
  <2>2. /\ Sound(js)
        /\ \A m : StartsIn(js, m) = StartsIn(jobs, m) \ {i}
    BY <1>0, <1>4, RowStarts DEF Unsettled
  <2>3. \A m : i \notin StartsIn(jobs, m)
    BY <2>1 DEF StartsIn, Starts
  <2>4. Quietly(js)
    BY <2>2, <2>3 DEF Quietly
  <2> HIDE DEF js
  <2>5. Quietly(jobs')
    BY <2>1, <2>4, Zenon
  <2> QED
    BY <1>1, <2>5, OtherMoves DEF Remembered
<1> QED
  BY <1>2, <1>3, <1>4

\* The execution of a successor start makes its message a turn or gives it back.
LEMMA StartMoves ==
    ASSUME IInv, Sound(jobs), NEW i \in DOMAIN jobs, SuccessorStart(i)
    PROVE  MoveStep
<1> DEFINE m == jobs[i].turn
           done(to) == Row(i, "running", "settled", to)
<1>0. /\ jobs[i] \in Jobs /\ i \in 1..Len(jobs) /\ StartIsSound(jobs[i])
      /\ jobs[i].journal \in Journal /\ m \in Messages
      /\ "running" \in JobStatuses /\ "settled" \in Steps
      /\ {"submitted", "requeued", "refused"} \subseteq Journal
      /\ TurnInv
  BY OwnRow DEF IInv, JobStatuses, Steps, Journal, Sound
<1>1. /\ jobs[i].kind = "successor" /\ jobs[i].status = "running"
      /\ jobs[i].step = "none" /\ UNCHANGED <<claimed, inbox>>
  BY DEF SuccessorStart, At, runtimeVars
<1>2. i \in StartsIn(jobs, m) /\ jobs[i].journal = "missing"
  BY <1>0, <1>1 DEF StartsIn, Starts, StartIsSound, Unsettled
<1>3. \A p : p # m => i \notin StartsIn(jobs, p)
  BY <1>1 DEF StartsIn, Starts
<1>4. ASSUME NEW to \in Journal
      PROVE  /\ Sound(done(to))
             /\ \A p : StartsIn(done(to), p) = StartsIn(jobs, p) \ {i}
  BY <1>0, <1>1, RowStarts
<1> HIDE DEF done
<1>5. ASSUME NEW js, Sound(js), jobs' = js,
             \A p : StartsIn(js, p) = StartsIn(jobs, p) \ {i}
      PROVE  /\ Sound(jobs)' /\ i \in starting[m]
             /\ starting' = [starting EXCEPT ![m] = @ \ {i}]
  <2>1. Sound(jobs')
    BY <1>5, Zenon
  <2>2. starting' = [p \in Messages |-> StartsIn(js, p)]
    BY <1>5 DEF starting
  <2>3. \A p \in Messages : p # m => StartsIn(js, p) = StartsIn(jobs, p)
    BY <1>3, <1>5
  <2> QED
    BY <1>0, <1>2, <1>5, <2>1, <2>2, <2>3 DEF starting
<1>6. ASSUME NEW to \in Journal, NEW ready, EnqueueTurn(m, ready, done(to))
      PROVE  MoveStep
  <2>1. /\ jobs' = done(to) /\ queued' = queued \cup {m}
        /\ UNCHANGED <<turnStatus, successor, receipts>>
    BY <1>6 DEF EnqueueTurn, turnVars, successorVars
  <2>2. /\ Sound(jobs)' /\ i \in starting[m]
        /\ starting' = [starting EXCEPT ![m] = @ \ {i}]
    BY <1>4, <1>5, <2>1
  <2>3. Start(m)
    BY <1>1, <2>1, <2>2 DEF Start, turned
  <2> QED
    BY <1>0, <2>1, <2>2, <2>3 DEF MoveStep, Moves, Remembered
<1>7. CASE SubmitTurn(m, done("submitted"))
  <2> DEFINE r == NewJob("send", m, 1, "none")
             ks == Enqueue(done("submitted"), r)
  <2>1. /\ jobs' = ks
        /\ turnStatus' = [turnStatus EXCEPT ![m] = "active"]
        /\ UNCHANGED <<queued, successor, receipts>>
    BY <1>7 DEF SubmitTurn, TurnStarted, queueVars, successorVars
  <2>2. 1 \in 1..MaxAttempts /\ "none" \in Outcomes /\ "send" \in Kinds
    BY SessionConstants DEF Outcomes, Kinds
  <2>3. r \in Jobs /\ r.kind # "successor"
    BY <1>0, <2>2, NewJobType
  <2> HIDE DEF r
  <2>4. /\ Sound(ks)
        /\ \A p : StartsIn(ks, p) = StartsIn(jobs, p) \ {i}
    BY <1>0, <1>4, <2>3, EnqueueStarts
  <2> HIDE DEF ks
  <2>5. /\ Sound(jobs)' /\ i \in starting[m]
        /\ starting' = [starting EXCEPT ![m] = @ \ {i}]
    BY <1>5, <2>1, <2>4
  <2>6. turned' = turned \cup {m}
    BY <1>0, <2>1 DEF turned, TurnInv, TurnType
  <2>7. Start(m)
    BY <1>1, <2>1, <2>5, <2>6 DEF Start
  <2> QED
    BY <1>0, <2>1, <2>5, <2>7 DEF MoveStep, Moves, Remembered
<1>8. CASE turnStatus[m] # "absent" /\ jobs' = done("missing") /\ OnlyJobs
  <2>1. UNCHANGED <<turnStatus, queued, successor, receipts>>
    BY <1>8 DEF OnlyJobs, turnVars, queueVars, successorVars
  <2>2. /\ Sound(jobs)' /\ i \in starting[m]
        /\ starting' = [starting EXCEPT ![m] = @ \ {i}]
    BY <1>0, <1>2, <1>4, <1>5, <1>8
  <2>3. Start(m)
    BY <1>0, <1>1, <1>8, <2>1, <2>2 DEF Start, turned
  <2> QED
    BY <1>0, <2>1, <2>2, <2>3 DEF MoveStep, Moves, Remembered
<1>9. \/ \E to \in Journal, ready \in BOOLEAN : EnqueueTurn(m, ready, done(to))
      \/ SubmitTurn(m, done("submitted"))
      \/ turnStatus[m] # "absent" /\ jobs' = done("missing") /\ OnlyJobs
  BY <1>0, <1>2 DEF SuccessorStart, done
<1> QED
  BY <1>6, <1>7, <1>8, <1>9

\* The provider and the sweeper move messages only by settling a turn.
LEMMA EnvironmentMoves ==
    ASSUME IInv, Sound(jobs), "crash" \notin Faults, Environment
    PROVE  MoveStep
<1>0. /\ TurnInv /\ Quietly(jobs) /\ Quietly(Supersede(jobs))
      /\ "none" \in Outcomes /\ {"ended", "error"} \subseteq Outcomes
  BY TableIsQuiet DEF IInv, Outcomes
<1>1. ASSUME UNCHANGED sessionVars, UNCHANGED <<claimed, inbox>>
      PROVE  MoveStep
  <2>1. Quietly(jobs')
    BY <1>0, <1>1, Zenon DEF sessionVars
  <2> QED
    BY <1>1, <2>1, OtherMoves
       DEF sessionVars, turnVars, queueVars, successorVars, Remembered
<1>2. ASSUME NEW m \in Messages, NEW a \in 1..MaxAttempts, ProviderBinds(m, a)
      PROVE  MoveStep
  <2>1. /\ jobs' = jobs
        /\ UNCHANGED <<turnStatus, queued, successor, claimed, inbox, receipts>>
    BY <1>2 DEF ProviderBinds, BindAttemptProviderTurn, turnVars, queueVars,
                successorVars, runtimeVars
  <2>2. Quietly(jobs')
    BY <1>0, <2>1, Zenon
  <2> QED
    BY <2>1, <2>2, OtherMoves DEF Remembered
<1>3. ASSUME NEW m \in Messages, NEW a \in 1..MaxAttempts, ProviderEnds(m, a)
      PROVE  MoveStep
  <2>1. UNCHANGED <<claimed, inbox>>
    BY <1>3 DEF ProviderEnds
  <2>2. ASSUME NEW outcome \in Outcomes, FinalizeTurn(outcome, jobs)
        PROVE  MoveStep
    BY <1>0, <2>1, <2>2, TurnCommandsAreStill, SettlesMoves DEF FinalizeTurn
  <2> QED
    BY <1>0, <1>1, <1>3, <2>1, <2>2 DEF ProviderEnds
<1>4. ASSUME NEW i \in DOMAIN jobs, JobParks(i)
      PROVE  MoveStep
  BY <1>4, SendMoves
<1>5. CASE Sweep
  <2>1. ExpireAttempt(jobs) /\ UNCHANGED <<claimed, inbox>>
    BY <1>5 DEF Sweep
  <2>2. CASE RecoverTurn(jobs)
    BY <1>0, <2>1, <2>2, TurnCommandsAreStill, SettlesMoves
  <2>3. CASE \E outcome : SettleTurn(outcome, Supersede(jobs))
    BY <1>0, <2>1, <2>3, SettleMoves, SettlesMoves
  <2> QED
    BY <2>1, <2>2, <2>3 DEF ExpireAttempt
<1>6. ~ProcessLoss
  BY DEF ProcessLoss, Disturb
<1> QED
  BY <1>2, <1>3, <1>4, <1>5, <1>6 DEF Environment

\* Without a process loss every step of the runtime is a move.
LEMMA NextMoves ==
    ASSUME IInv, Sound(jobs), "crash" \notin Faults, [Next]_vars
    PROVE  MoveStep
<1>1. ASSUME NEW i \in DOMAIN jobs, Claim(i) \/ Execute(i)
      PROVE  MoveStep
  BY <1>1, SendMoves, AnswerMoves, WorkerMoves, StartMoves DEF Execute
<1>2. CASE UNCHANGED vars
  <2>1. Quietly(jobs) /\ jobs' = jobs
    BY <1>2, TableIsQuiet DEF vars, sessionVars
  <2>2. Quietly(jobs')
    BY <2>1, Zenon
  <2> QED
    BY <1>2, <2>2, OtherMoves
       DEF vars, sessionVars, turnVars, queueVars, successorVars, runtimeVars,
           Remembered
<1> QED
  BY <1>1, <1>2, ClientMoves, QueueMoves, EnvironmentMoves DEF Next

-----------------------------------------------------------------------------
(* The theorems.                                                           *)

\* The places are typed by the invariant of the runtime.
LEMMA PlacesAreTyped ==
    ASSUME IInv
    PROVE  PlaceTypes
<1>1. jobs \in Seq(Jobs)
  BY DEF IInv, DeliveryInv, DeliveryType
<1>2. Len(jobs) \in Nat
  BY <1>1
<1>3. \A m : StartsIn(jobs, m) \subseteq Nat
  BY <1>2 DEF StartsIn
<1>4. starting \in [Messages -> SUBSET Nat]
  BY <1>3 DEF starting
<1> QED
  BY <1>4 DEF PlaceTypes, turned, IInv, TurnInv, TurnType, RestType

\* At first there are no jobs, and no message waits.
LEMMA InitPlaces ==
    ASSUME Init
    PROVE  Sound(jobs) /\ OnePlace /\ SomePlace /\ SteeredByCommand
<1>1. /\ jobs = <<>> /\ queued = {} /\ claimed = None /\ successor = None
      /\ \A m \in Messages : inbox[m] = IF turnStatus[m] = "absent" THEN "new"
                                       ELSE "accepted"
  BY SessionConstants DEF Init
<1>2. Sound(jobs) /\ \A m : StartsIn(jobs, m) = {}
  BY <1>1 DEF Sound, StartsIn
<1>3. \A m \in Messages : starting[m] = {}
  BY <1>2 DEF starting
<1>4. \A m \in Messages : m \in turned <=> inbox[m] = "accepted"
  BY <1>1 DEF turned
<1> QED
  BY <1>1, <1>2, <1>3, <1>4, SessionConstants
     DEF OnePlace, SomePlace, SteeredByCommand

\* A message that became a turn does not wait in the queue to become one again:
\* however clients, the queue service, a steering command and the executor's
\* successor starts interleave, sends and sweeps fail and archives come.  Only
\* a process loss is excluded: it repeats a successor start from its receipt.
THEOREM MessagesAreNotDoubled ==
    ASSUME "crash" \notin Faults
    PROVE  Spec => []NoMessageTwice
<1> DEFINE Inv == IInv /\ Sound(jobs) /\ OnePlace
<1>1. Init => Inv
  BY InitIInv, InitPlaces
<1>2. Inv /\ [Next]_vars => Inv'
  <2> SUFFICES ASSUME IInv, Sound(jobs), OnePlace, [Next]_vars
               PROVE  Inv'
    OBVIOUS
  <2>1. MoveStep
    BY NextMoves
  <2>2. IInv'
    BY CoreStep, RestStep DEF IInv, Core
  <2>3. OnePlace'
    BY <2>1, PlacesAreTyped, MoveKeepsOnePlace DEF MoveStep
  <2> QED
    BY <2>1, <2>2, <2>3 DEF MoveStep
<1>3. Inv => NoMessageTwice
  BY DEF OnePlace, NoMessageTwice, turned
<1> QED
  BY <1>1, <1>2, <1>3, PTL DEF Spec

\* Nor does an accepted message vanish on its way from the queue to its turn,
\* if at most one command steers: a second one replaces the successor the first
\* one scheduled.
THEOREM MessagesAreNotLost ==
    ASSUME "crash" \notin Faults, \A c, d \in Commands : c = d
    PROVE  Spec => []NoMessageLost
<1> DEFINE Inv == /\ IInv /\ Sound(jobs) /\ OnePlace /\ SomePlace
                  /\ SteeredByCommand
<1>1. Init => Inv
  BY InitIInv, InitPlaces
<1>2. Inv /\ [Next]_vars => Inv'
  <2> SUFFICES ASSUME IInv, Sound(jobs), OnePlace, SomePlace, SteeredByCommand,
                      [Next]_vars
               PROVE  Inv'
    OBVIOUS
  <2>1. MoveStep
    BY NextMoves
  <2>2. IInv'
    BY CoreStep, RestStep DEF IInv, Core
  <2>3. OnePlace' /\ SomePlace' /\ SteeredByCommand'
    BY <2>1, PlacesAreTyped, MoveKeepsOnePlace, MoveKeepsSomePlace,
       MoveKeepsSteered DEF MoveStep
  <2> QED
    BY <2>1, <2>2, <2>3 DEF MoveStep
<1>3. Inv => NoMessageLost
  <2> SUFFICES ASSUME Inv, NEW m \in Messages, starting[m] # {}
               PROVE  UnsettledJob({"successor"}, m, 1)
    BY DEF SomePlace, NoMessageLost, turned
  <2>1. PICK i \in 1..Len(jobs) : Starts(jobs[i], m)
    BY DEF starting, StartsIn
  <2>2. jobs[i].attempt = 1 /\ i \in DOMAIN jobs
    BY <2>1 DEF Sound, StartIsSound, Starts
  <2> QED
    BY <2>1, <2>2 DEF Starts, UnsettledJob
<1> QED
  BY <1>1, <1>2, <1>3, PTL DEF Spec
=============================================================================
