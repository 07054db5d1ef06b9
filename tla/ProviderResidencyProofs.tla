----------------------- MODULE ProviderResidencyProofs -----------------------
(***************************************************************************)
(* Proofs about ProviderResidency for every set of openings and any number *)
(* of disturbances: no process is without an owner, a stopped residency    *)
(* never serves again, and a provider that a session has given up is about *)
(* to be stopped.                                                          *)
(*                                                                         *)
(* The inductive invariant says what holding the lifecycle lock, having a  *)
(* reservation, and having been stopped mean for the place of an opening.  *)
(***************************************************************************)
EXTENDS ProviderResidency, TLAPS

-----------------------------------------------------------------------------
(* The inductive invariant. *)

Locking == {"admitted", "publishing", "guarded", "sending", "stuck", "closed"}
Unborn == {"new", "reserved", "admitted", "begun", "releasing"}

\* The stop of residency o has been carried out as far as the registry goes.
Stopped(o) == o \in asked /\ (o \notin stops \/ stop.id = o)

\* Between the two halves of a locked section its fiber holds the lock.
LockIsHeld ==
    /\ \A o \in Opens : pc[o] \in Locking => lock = o
    /\ stop.at = "closing" => lock = "stop"
    /\ q.at \in {"closing", "closed"} => lock = "quiesce"

\* A published handle is that of the current generation.
EntryIsCurrent == entry # None => resid = entry

\* A residency id is fresh when it is reserved.
FreshIsUnknown ==
    \A o \in Opens : pc[o] = "new" => o \notin asked /\ o # reserved /\ o # attached

\* Whatever asks for the stop of a reservation also ends the reservation.
ReservedIsWanted == reserved \notin asked

\* A job has been asked for, and one that runs is not finished.
StopsAreAsked ==
    /\ stops \subseteq asked
    /\ stop.id # None => stop.id \in stops

\* Who owns a handle; before it is acquired, and after an opening gave up
\* before acquiring it, there is none.
HandlesAreOwned ==
    \A o \in live : /\ pc[o] \notin Unborn
                    /\ \/ entry = o
                       \/ o \in closing
                       \/ pc[o] \in {"started", "publishing", "unwinding"}

\* A stopped residency has no generation and will not get one.
StoppedIsGone ==
    \A o \in Opens : Stopped(o) => resid # o /\ pc[o] # "admitted"

\* What a final capture quiesces is not being opened, and once it detaches
\* no generation is current and none can begin.
QuiesceIsAlone ==
    /\ q.at # "idle" =>
          \A o \in Opens : pc[o] \in Opening => reserved # o /\ q.id # o
    /\ q.at \in {"closing", "closed", "detach"} =>
          \A o \in Opens : pc[o] # "admitted"
    /\ q.at = "closed" => q.id \notin live
    /\ q.at = "detach" => resid = None

\* An opening that keeps its reservation past its attachment is attached, and
\* nobody publishes while it attaches.
AcceptedIsAttached ==
    /\ \A o \in Opens :
          pc[o] \in Accepting \cup {"done"} /\ reserved = o => attached = o
    /\ \A o \in Opens : pc[o] = "guarded" => entry \in {None, o}

IInv ==
    /\ TypeOK
    /\ LockIsHeld /\ EntryIsCurrent
    /\ FreshIsUnknown /\ ReservedIsWanted /\ StopsAreAsked
    /\ HandlesAreOwned
    /\ StoppedIsGone
    /\ QuiesceIsAlone
    /\ AcceptedIsAttached /\ GivenUpIsStopped

-----------------------------------------------------------------------------
LEMMA InitHolds == ResidencyInit => IInv
<1> SUFFICES ASSUME ResidencyInit PROVE IInv
  OBVIOUS
<1>1. owed \in BOOLEAN /\ closed \in BOOLEAN
  BY Zenon DEF ResidencyInit
<1>2. QED
  BY <1>1, ResidencyConstants
     DEF ResidencyInit, IInv, TypeOK, LockIsHeld, EntryIsCurrent, FreshIsUnknown,
         ReservedIsWanted, StopsAreAsked, HandlesAreOwned, StoppedIsGone, QuiesceIsAlone,
         AcceptedIsAttached, GivenUpIsStopped, Locking, Unborn, Stopped, Residencies,
         Starting, Accepting, Opening, Unwinding, Over, IdleStop, IdleQuiesce

\* The commands of the session, and the first one of the next process.
LEMMA CommandsKeep ==
    ASSUME IInv,
           ConfigureProvider \/ DropReservation \/ CloseProvider \/ Restart
    PROVE  IInv'
<1> USE ResidencyConstants
    DEF IInv, TypeOK, LockIsHeld, EntryIsCurrent, FreshIsUnknown, ReservedIsWanted,
        StopsAreAsked, HandlesAreOwned, StoppedIsGone, QuiesceIsAlone,
        AcceptedIsAttached, GivenUpIsStopped, Locking, Unborn, Stopped, Residencies,
        Starting, Accepting, Opening, Unwinding, Over, IdleStop, IdleQuiesce,
        registry, handles, fibers, StopTargets
<1>1. CASE ConfigureProvider
  BY <1>1 DEF ConfigureProvider
<1>2. CASE DropReservation
  BY <1>2 DEF DropReservation
<1>3. CASE CloseProvider
  <2>1. owed' \in BOOLEAN
    BY <1>3, Zenon DEF CloseProvider
  <2>2. QED
    BY <1>3, <2>1 DEF CloseProvider, RequestProviderStop
<1>4. CASE Restart
  <2>1. owed' \in BOOLEAN /\ closed' \in BOOLEAN
    BY <1>4, Zenon DEF Restart
  <2>2. TypeOK'
    BY <1>4, <2>1 DEF Restart, Disturbed
  <2>3. QED
    BY <1>4, <2>2 DEF Restart
<1>5. QED
  BY <1>1, <1>2, <1>3, <1>4

\* An opening on its way to acceptance.
LEMMA OpeningKeeps ==
    ASSUME IInv, NEW o \in Opens,
           \/ ReserveProviderSession(o) \/ Admit(o) \/ Begin(o) \/ Acquire(o)
           \/ PublishAdmit(o) \/ Publish(o) \/ GuardCurrent(o) \/ AttachProvider(o)
           \/ Readmit(o) \/ Accept(o) \/ Sent(o)
    PROVE  IInv'
<1> USE ResidencyConstants
    DEF IInv, TypeOK, LockIsHeld, EntryIsCurrent, FreshIsUnknown, ReservedIsWanted,
        StopsAreAsked, HandlesAreOwned, StoppedIsGone, QuiesceIsAlone,
        AcceptedIsAttached, GivenUpIsStopped, Locking, Unborn, Stopped, Residencies,
        Starting, Accepting, Opening, Unwinding, Over, durable, registry, handles, To
<1>1. CASE ReserveProviderSession(o)
  BY <1>1 DEF ReserveProviderSession, StopTargets
<1>2. CASE Admit(o)
  BY <1>2 DEF Admit
<1>3. CASE Begin(o)
  BY <1>3 DEF Begin, TakeOver
<1>4. CASE Acquire(o)
  BY <1>4 DEF Acquire
<1>5. CASE PublishAdmit(o)
  BY <1>5 DEF PublishAdmit
<1>6. CASE Publish(o)
  BY <1>6 DEF Publish
<1>7. CASE GuardCurrent(o)
  BY <1>7 DEF GuardCurrent, IsCurrent
<1>8. CASE AttachProvider(o)
  BY <1>8 DEF AttachProvider
<1>9. CASE Readmit(o)
  BY <1>9 DEF Readmit
<1>10. CASE Accept(o)
  BY <1>10 DEF Accept, IsCurrent
<1>11. CASE Sent(o)
  BY <1>11 DEF Sent
<1>12. QED
  BY <1>1, <1>2, <1>3, <1>4, <1>5, <1>6, <1>7, <1>8, <1>9, <1>10, <1>11

\* An opening that has failed.
LEMMA UnwindingKeeps ==
    ASSUME IInv, NEW o \in Opens,
           \/ OpenFails(o) \/ Interrupted(o) \/ Unwind(o) \/ Unwound(o) \/ Release(o) \/ Abandon(o)
           \/ AbandonClose(o) \/ AbandonClosed(o)
    PROVE  IInv'
<1> USE ResidencyConstants
    DEF IInv, TypeOK, LockIsHeld, EntryIsCurrent, FreshIsUnknown, ReservedIsWanted,
        StopsAreAsked, HandlesAreOwned, StoppedIsGone, QuiesceIsAlone,
        AcceptedIsAttached, GivenUpIsStopped, Locking, Unborn, Stopped, Residencies,
        Starting, Accepting, Opening, Unwinding, Over, durable, registry, handles, To
<1>1. CASE OpenFails(o)
  BY <1>1 DEF OpenFails, Disturbed
<1>2. CASE Unwind(o)
  BY <1>2 DEF Unwind, InvalidateIfCurrent, Invalidate
<1>3. CASE Unwound(o)
  BY <1>3 DEF Unwound
<1>4. CASE Release(o)
  BY <1>4 DEF Release, InvalidateIfCurrent, Invalidate
<1>5. CASE Abandon(o)
  BY <1>5 DEF Abandon, RequestProviderStop, StopTargets
<1>6. CASE AbandonClose(o)
  BY <1>6 DEF AbandonClose, RetireScoped, Current, Invalidate, TakeOver
<1>7. CASE AbandonClosed(o)
  BY <1>7 DEF AbandonClosed
<1>8. CASE Interrupted(o)
  BY <1>8 DEF Interrupted
<1>9. QED
  BY <1>1, <1>2, <1>3, <1>4, <1>5, <1>6, <1>7, <1>8

\* The provider.stop job.
LEMMA StopJobKeeps ==
    ASSUME IInv, StopJob
    PROVE  IInv'
<1> USE ResidencyConstants
    DEF IInv, TypeOK, LockIsHeld, EntryIsCurrent, FreshIsUnknown, ReservedIsWanted,
        StopsAreAsked, HandlesAreOwned, StoppedIsGone, QuiesceIsAlone,
        AcceptedIsAttached, GivenUpIsStopped, Locking, Unborn, Stopped, Residencies,
        Starting, Accepting, Opening, Unwinding, Over, IdleStop, durable, registry, handles
<1>1. ASSUME NEW o \in Opens, StopClose(o)
      PROVE  IInv'
  BY <1>1 DEF StopClose, RetireScoped, Current, Invalidate, TakeOver
<1>2. CASE StopClosed
  BY <1>2 DEF StopClosed
<1>3. CASE StopDetach
  BY <1>3 DEF StopDetach, DetachProvider
<1>4. QED
  BY <1>1, <1>2, <1>3 DEF StopJob

\* A handle leaves the registry, or its process ends.
LEMMA RetiringKeeps ==
    ASSUME IInv,
           \/ CloseAny \/ CloseAnyDone \/ SendRetires \/ GitKeyChanges \/ Shutdown
           \/ \E o \in Opens : Terminates(o) \/ CloseHandle(o)
    PROVE  IInv'
<1> USE ResidencyConstants
    DEF IInv, TypeOK, LockIsHeld, EntryIsCurrent, FreshIsUnknown, ReservedIsWanted,
        StopsAreAsked, HandlesAreOwned, StoppedIsGone, QuiesceIsAlone,
        AcceptedIsAttached, GivenUpIsStopped, Locking, Unborn, Stopped, Residencies,
        Starting, Accepting, Opening, Unwinding, Over, durable, registry, handles, fibers
<1>1. CASE CloseAny
  BY <1>1 DEF CloseAny, Invalidate, TakeOver
<1>2. CASE CloseAnyDone
  BY <1>2 DEF CloseAnyDone
<1>3. CASE SendRetires
  BY <1>3 DEF SendRetires, Invalidate, TakeOver, Disturbed
<1>4. CASE Shutdown
  BY <1>4 DEF Shutdown, TakeOver, Disturbed
<1>5. ASSUME NEW o \in Opens, Terminates(o)
      PROVE  IInv'
  BY <1>5 DEF Terminates, InvalidateIfCurrent, Invalidate, Disturbed
<1>6. ASSUME NEW o \in Opens, CloseHandle(o)
      PROVE  IInv'
  BY <1>6 DEF CloseHandle
<1>7. CASE GitKeyChanges
  BY <1>7 DEF GitKeyChanges, Invalidate, TakeOver, Disturbed, To
<1>8. QED
  BY <1>1, <1>2, <1>3, <1>4, <1>5, <1>6, <1>7

\* The barrier of a final capture.
LEMMA QuiesceKeeps ==
    ASSUME IInv, Quiesce
    PROVE  IInv'
<1> USE ResidencyConstants
    DEF IInv, TypeOK, LockIsHeld, EntryIsCurrent, FreshIsUnknown, ReservedIsWanted,
        StopsAreAsked, HandlesAreOwned, StoppedIsGone, QuiesceIsAlone,
        AcceptedIsAttached, GivenUpIsStopped, Locking, Unborn, Stopped, Residencies,
        Starting, Accepting, Opening, Unwinding, Over, IdleQuiesce, durable, registry, handles
<1>1. CASE QuiesceRead
  BY <1>1 DEF QuiesceRead
<1>2. CASE QuiesceEnter
  BY <1>2 DEF QuiesceEnter, Current
<1>3. CASE QuiesceFails
  BY <1>3 DEF QuiesceFails
<1>4. CASE QuiesceCloses
  BY <1>4 DEF QuiesceCloses
<1>5. CASE QuiesceChecks
  BY <1>5 DEF QuiesceChecks, InvalidateIfCurrent, Invalidate
<1>6. CASE QuiesceDetach
  BY <1>6 DEF QuiesceDetach, DetachProvider
<1>7. QED
  BY <1>1, <1>2, <1>3, <1>4, <1>5, <1>6 DEF Quiesce

LEMMA StutteringKeeps ==
    ASSUME IInv, UNCHANGED vars
    PROVE  IInv'
BY DEF IInv, TypeOK, LockIsHeld, EntryIsCurrent, FreshIsUnknown, ReservedIsWanted,
       StopsAreAsked, HandlesAreOwned, StoppedIsGone, QuiesceIsAlone,
       AcceptedIsAttached, GivenUpIsStopped, Stopped, vars, durable, registry, handles,
       fibers

-----------------------------------------------------------------------------
(* Theorems. *)

\* The conjunction above is an invariant, whatever openings, commands, stops,
\* closes, failures, shutdowns and restarts interleave.
THEOREM ResidencyInvariant == Spec => []IInv
<1>1. IInv /\ [Next]_vars => IInv'
  <2> SUFFICES ASSUME IInv, [Next]_vars PROVE IInv'
    OBVIOUS
  <2>1. ASSUME NEW o \in Opens, ReserveProviderSession(o) \/ Run(o) \/ OpenFails(o)
                               \/ Interrupted(o)
        PROVE  IInv'
    BY <2>1, OpeningKeeps, UnwindingKeeps DEF Run
  <2>2. ASSUME NEW o \in Opens, Terminates(o) \/ CloseHandle(o)
        PROVE  IInv'
    BY <2>2, RetiringKeeps
  <2>3. CASE ConfigureProvider \/ DropReservation \/ CloseProvider \/ Restart
    BY <2>3, CommandsKeep
  <2>4. CASE CloseAny \/ CloseAnyDone \/ SendRetires \/ GitKeyChanges \/ Shutdown
    BY <2>4, RetiringKeeps
  <2>5. QED
    BY <2>1, <2>2, <2>3, <2>4, StopJobKeeps, QuiesceKeeps, StutteringKeeps DEF Next
<1>2. QED
  BY InitHolds, <1>1, PTL DEF Spec

\* Every variable keeps its type.
THEOREM ResidencyTypeCorrect == Spec => []TypeOK
<1>1. IInv => TypeOK
  BY DEF IInv
<1>2. QED
  BY ResidencyInvariant, <1>1, PTL

\* No provider process is without an owner: what a startup acquires, a
\* replacement displaces or a stop retires is registered or being closed.
THEOREM NoHandleIsLeaked == Spec => []EveryHandleIsOwned
<1>1. IInv => EveryHandleIsOwned
  BY DEF IInv, HandlesAreOwned, EveryHandleIsOwned, Starting
<1>2. QED
  BY ResidencyInvariant, <1>1, PTL

\* A residency whose stop was carried out never serves the session again.
THEOREM StopsAreFinal == Spec => []StoppedStaysStopped
<1>1. IInv => StoppedStaysStopped
  BY ResidencyConstants
     DEF IInv, TypeOK, StoppedIsGone, EntryIsCurrent, Stopped, StoppedStaysStopped, Residencies
<1>2. QED
  BY ResidencyInvariant, <1>1, PTL

\* A provider that the session gave up while it served has its stop under way.
THEOREM NothingServesUnwanted == Spec => []GivenUpIsStopped
<1>1. IInv => GivenUpIsStopped
  BY DEF IInv
<1>2. QED
  BY ResidencyInvariant, <1>1, PTL
=============================================================================
