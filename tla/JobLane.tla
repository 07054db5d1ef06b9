------------------------------- MODULE JobLane -------------------------------
(***************************************************************************)
(* What the job ledger and its worker promise to whoever enqueues a job,   *)
(* with leases, fibers, heartbeats, signals and processes left out.  The   *)
(* jobs of a session form a lane.  A job waits in its lane until somebody  *)
(* takes it, which nobody can do while another job of the lane is running; *)
(* it may be given back any number of times.  It is finished only while    *)
(* somebody holds it, as succeeded only if it ran, and it runs only if it  *)
(* was taken: so a job that is cancelled before it was taken never runs.   *)
(* A finished or cancelled job stays as it is, even if an execution that   *)
(* has lost its hold on the job ends later.                                *)
(***************************************************************************)
CONSTANTS Jobs,       \* job ids
          Sessions,   \* a lane for each
          AnySession, \* the lane of a job that has not been enqueued
          Owners,     \* who may hold a job
          NoOwner     \* the holder of a job that nobody holds

VARIABLE job          \* per job: its state, lane and holder, whether it was
                      \* ever taken, and whether an execution of it succeeded

States == {"absent", "waiting", "running", "succeeded", "failed", "cancelled"}

JobRecords == [state : States, lane : Sessions \cup {AnySession},
               holder : Owners \cup {NoOwner}, taken : BOOLEAN, ran : BOOLEAN]

Absent == [state |-> "absent", lane |-> AnySession, holder |-> NoOwner,
           taken |-> FALSE, ran |-> FALSE]

\* The job b in another state and with another holder.
Moved(b, state, holder) ==
    [state |-> state, lane |-> b.lane, holder |-> holder,
     taken |-> b.taken, ran |-> b.ran]

Insert(j) ==
    /\ job[j] = Absent
    /\ \E s \in Sessions :
          job' = [job EXCEPT ![j] = [state |-> "waiting", lane |-> s,
                                     holder |-> NoOwner, taken |-> FALSE,
                                     ran |-> FALSE]]

\* The lane is free, and the job has not ended.
Take(j) ==
    /\ job[j].state = "waiting"
    /\ \A i \in Jobs : job[i].lane = job[j].lane => job[i].state # "running"
    /\ \E o \in Owners :
          job' = [job EXCEPT ![j] = [state |-> "running", lane |-> @.lane,
                                     holder |-> o, taken |-> TRUE,
                                     ran |-> @.ran]]

\* The holder is gone or has been too slow; the lane is not free yet.
Lapse(b, a) == b.holder # NoOwner /\ a = Moved(b, b.state, NoOwner)

GiveBack(b, a) == b.state = "running" /\ a = Moved(b, "waiting", NoOwner)

Cancel(b, a) == /\ b.state \in {"waiting", "running"}
                /\ a = Moved(b, "cancelled", NoOwner)

Finish(b, a) == /\ b.holder # NoOwner
                /\ \/ b.ran /\ a = Moved(b, "succeeded", NoOwner)
                   \/ a = Moved(b, "failed", NoOwner)

Run(b, a) == b.taken /\ a = [state |-> b.state, lane |-> b.lane,
                             holder |-> b.holder, taken |-> TRUE, ran |-> TRUE]

\* What a job makes of a step that inserts and takes nothing.
Moves(b, a) == \/ a = b
               \/ Lapse(b, a) \/ GiveBack(b, a) \/ Cancel(b, a)
               \/ Finish(b, a) \/ Run(b, a)

Init == job = [j \in Jobs |-> Absent]

\* Whoever keeps the promise does much that moves no job.  One statement of the
\* ledger may give back or cancel several, and one tick of the clock lets several
\* claims lapse.
Next == \/ UNCHANGED job
        \/ \E j \in Jobs : Insert(j) \/ Take(j)
        \/ /\ job' \in [Jobs -> JobRecords]
           /\ \A j \in Jobs : Moves(job[j], job'[j])

Spec == Init /\ [][Next]_job
=============================================================================
