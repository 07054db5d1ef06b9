-------------------------- MODULE ProviderResidency --------------------------
(***************************************************************************)
(* Which provider process serves a session: the reservation and attachment *)
(* the session's events record (packages/domain decider.ts, state.ts), the *)
(* process-local registry of handles and its lifecycle lock                *)
(* (apps/server/src/provider), and the operations that open, stop, replace *)
(* and quiesce a provider (conversation/core: provider-session-runtime.ts, *)
(* provider-jobs.ts, provider-quiescence.ts, session-operations.ts).       *)
(*                                                                         *)
(* One session.  Every opening draws a fresh residency id, so an opening,  *)
(* its reservation, its registry generation and its handle are one element *)
(* of Opens: a generation is current exactly while resid names the opening *)
(* that began it.  A step boundary is where a fiber awaits: the commits of *)
(* the session's events are atomic, what runs without an await in the      *)
(* registry is atomic, and the lifecycle lock spans the awaits it encloses.*)
(*                                                                         *)
(* Closing a handle succeeds or is given up after its deadline, which      *)
(* counts as closed here.  A provider.stop job may run next to an opening: *)
(* openings also happen outside the session's job lane (restartSession),   *)
(* and a cancelled job's fiber unwinds while the next one runs.  Two stop  *)
(* jobs of one residency do what one does.                                 *)
(***************************************************************************)
EXTENDS Naturals

CONSTANTS Opens,      \* openings of a provider for the session
          MaxFaults,  \* how many disturbances (OpenFails, SendRetires,
                      \* GitKeyChanges, Terminates, Shutdown, Restart) a
                      \* behaviour has
          None

ASSUME ResidencyConstants ==
    /\ MaxFaults \in Nat
    /\ None \notin Opens \cup {"stop", "close", "quiesce"}
    /\ Opens \cap {"stop", "close", "quiesce"} = {}

VARIABLES reserved, attached,  \* the session's reservation and attachment
          stops,     \* residencies with a provider.stop job not yet finished
          asked,     \* residencies a stop was ever requested of
          owed,      \* the reservation was dropped, closeProvider is to follow
          resid,     \* registry: the residency of the current generation
          entry,     \* registry: the published handle
          closed,    \* registry: shut down
          live,      \* handles whose process runs
          closing,   \* handles some fiber has taken over to close
          lock,      \* the session's lifecycle lock: its holder, or None
          pc,        \* where each opening is
          old,       \* the handle an opening displaced
          stop,      \* the provider.stop job being run
          victim,    \* what an unscoped close is closing
          q,         \* the quiescence of a final capture
          faults     \* disturbances so far

durable == <<reserved, attached, stops, asked, owed>>
registry == <<resid, entry, closed>>
handles == <<live, closing>>
fibers == <<lock, pc, old, stop, victim, q>>
vars == <<durable, registry, handles, fibers, faults>>

-----------------------------------------------------------------------------
Residencies == Opens \cup {None}
Starting == {"begun", "started", "publishing", "published"}
\* Attached, admitted once more, inside the first send, hung in it.
Accepting == {"attached", "admissible", "sending", "stuck"}
Opening == {"reserved", "admitted", "guarded"} \cup Starting \cup Accepting
Unwinding == {"unwinding", "closing", "releasing", "abandon", "close", "closed"}
Over == {"new", "done", "ended"}

IdleStop == [at |-> "idle", id |-> None]
IdleQuiesce == [at |-> "idle", id |-> None]

ResidencyInit ==
    /\ reserved = None /\ attached = None
    /\ stops = {} /\ asked = {} /\ owed = FALSE
    /\ resid = None /\ entry = None /\ closed = FALSE
    /\ live = {} /\ closing = {}
    /\ lock = None
    /\ pc = [o \in Opens |-> "new"] /\ old = [o \in Opens |-> None]
    /\ stop = IdleStop /\ victim = None /\ q = IdleQuiesce
    /\ faults = 0

\* A disturbance happens.
Disturbed == faults < MaxFaults /\ faults' = faults + 1

-----------------------------------------------------------------------------
(* The session's events. *)

StopTargets_Reserved ==
    LET targets == {reserved} \ {None}
    IN  /\ stops' = stops \cup targets
        /\ asked' = asked \cup targets

\* providerStops: a stop, and so a provider.stop job, for what is attached and
\* for what is reserved.
StopTargets ==
    LET targets == {attached, reserved} \ {None}
    IN  /\ stops' = stops \cup targets
        /\ asked' = asked \cup targets

\* RequestProviderStop: ProviderStopRequested ends the reservation it names.
RequestProviderStop ==
    /\ StopTargets
    /\ reserved' = None
    /\ UNCHANGED attached

\* DetachProvider of residency o.
DetachProvider(o) ==
    /\ attached' = IF attached = o THEN None ELSE attached
    /\ reserved' = IF attached = o /\ reserved = o THEN None ELSE reserved

\* SetModel and SetProvider.
ConfigureProvider ==
    /\ StopTargets
    /\ reserved' = None /\ attached' = None
    /\ UNCHANGED <<owed, registry, handles, fibers, faults>>

\* setWorktree and archiveSession drop the reservation and then, in a second
\* command, close the provider; a request interrupted in between never does.
DropReservation ==
    /\ reserved' = None
    /\ owed' = TRUE
    /\ UNCHANGED <<attached, stops, asked, registry, handles, fibers, faults>>

\* closeProvider, of these or on its own; ExpireAttempt and RecoverTurn stop
\* the provider in the same way.
CloseProvider ==
    /\ RequestProviderStop
    /\ owed' = FALSE
    /\ UNCHANGED <<registry, handles, fibers, faults>>

-----------------------------------------------------------------------------
(* The registry. *)

\* invalidate: the handle it returns is the caller's to close.
Invalidate ==
    /\ entry' = None /\ resid' = None
    /\ UNCHANGED closed

TakeOver_Nothing(h) == closing' = closing \cup {h}

\* What a fiber takes over it closes.
TakeOver(h) == closing' = closing \cup ({h} \ {None})

Current == IF entry # None THEN entry ELSE resid

\* isCurrent of opening o's generation.
IsCurrent(o) == resid = o /\ entry # None

\* invalidateIfCurrent of opening o's generation.
InvalidateIfCurrent(o) ==
    IF resid = o THEN Invalidate ELSE UNCHANGED registry

RetireScoped_KeepsEntry(o, holder) ==
    IF Current = o
      THEN /\ TakeOver(entry)
           /\ lock' = holder
           /\ UNCHANGED registry
      ELSE UNCHANGED <<registry, closing, lock>>

\* retireProviderSession scoped to residency o, under the lock, which is kept
\* until the handle is closed; an obsolete stop does nothing.
RetireScoped(o, holder) ==
    IF Current = o
      THEN /\ Invalidate
           /\ TakeOver(entry)
           /\ lock' = holder
      ELSE UNCHANGED <<registry, closing, lock>>

-----------------------------------------------------------------------------
(* openProviderSession. *)

To(o, place) == pc' = [pc EXCEPT ![o] = place]

\* A final capture belongs to an active turn, which alone may reserve then,
\* and its provider.turn.send is over (see QuiesceRead).
ReserveProviderSession(o) ==
    /\ pc[o] = "new"
    /\ q.at = "idle"
    /\ StopTargets
    /\ reserved' = o
    /\ To(o, "reserved")
    /\ UNCHANGED <<attached, owed, registry, handles, lock, old, stop, victim, q, faults>>

\* reserveProviderStartup: admission under the lock ...
Admit(o) ==
    /\ pc[o] = "reserved"
    /\ lock = None
    /\ IF reserved = o THEN lock' = o /\ To(o, "admitted")
                       ELSE UNCHANGED lock /\ To(o, "abandon")
    /\ UNCHANGED <<durable, registry, handles, old, stop, victim, q, faults>>

\* ... then the new generation, which displaces the resident handle.
Begin(o) ==
    /\ pc[o] = "admitted"
    /\ entry' = None
    /\ resid' = IF closed THEN None ELSE o
    /\ TakeOver(entry)
    /\ old' = [old EXCEPT ![o] = entry]
    /\ lock' = None
    /\ To(o, "begun")
    /\ UNCHANGED <<durable, closed, live, stop, victim, q, faults>>

\* acquireStartupHandle, once the displaced handle is closed.
Acquire(o) ==
    /\ pc[o] = "begun"
    /\ old[o] \notin closing
    /\ live' = live \cup {o}
    /\ old' = [old EXCEPT ![o] = None]
    /\ To(o, "started")
    /\ UNCHANGED <<durable, registry, closing, lock, stop, victim, q, faults>>

\* Admission is repeated under the lock, ...
PublishAdmit(o) ==
    /\ pc[o] = "started"
    /\ lock = None
    /\ IF reserved = o THEN lock' = o /\ To(o, "publishing")
                       ELSE UNCHANGED lock /\ To(o, "unwinding")
    /\ UNCHANGED <<durable, registry, handles, old, stop, victim, q, faults>>

\* ... and only the current generation publishes.
Publish(o) ==
    /\ pc[o] = "publishing"
    /\ IF ~closed /\ resid = o THEN entry' = o /\ To(o, "published")
                               ELSE UNCHANGED entry /\ To(o, "unwinding")
    /\ lock' = None
    /\ UNCHANGED <<durable, resid, closed, handles, old, stop, victim, q, faults>>

\* AttachProvider inside guardCurrent: the generation is checked under the
\* lock, the reservation by the transaction that commits the attachment.
GuardCurrent(o) ==
    /\ pc[o] = "published"
    /\ lock = None
    /\ IF IsCurrent(o) THEN lock' = o /\ To(o, "guarded")
                       ELSE UNCHANGED lock /\ To(o, "abandon")
    /\ UNCHANGED <<durable, registry, handles, old, stop, victim, q, faults>>

AttachProvider(o) ==
    /\ pc[o] = "guarded"
    /\ IF reserved = o THEN attached' = o /\ To(o, "attached")
                       ELSE UNCHANGED attached /\ To(o, "abandon")
    /\ lock' = None
    /\ UNCHANGED <<reserved, stops, asked, owed, registry, handles, old, stop, victim, q, faults>>

\* Status, subscription and first message each repeat the admission, outside
\* the lock, ...
Readmit(o) ==
    /\ pc[o] = "attached"
    /\ To(o, IF reserved = o THEN "admissible" ELSE "abandon")
    /\ UNCHANGED <<durable, registry, handles, lock, old, stop, victim, q, faults>>

\* ... and then check the generation, not the reservation, under the lock.  The
\* last of them decides: the subscription, which ends the opening, or the first
\* send (sendAfterOpen), which keeps the lock until it returns.
Accept(o) ==
    /\ pc[o] = "admissible"
    /\ lock = None
    /\ IF IsCurrent(o)
         THEN \/ To(o, "done") /\ UNCHANGED lock
              \/ To(o, "sending") /\ lock' = o
         ELSE To(o, "abandon") /\ UNCHANGED lock
    /\ UNCHANGED <<durable, registry, handles, old, stop, victim, q, faults>>

\* The first send returns, or fails because its handle was retired and closed.
Sent(o) ==
    /\ pc[o] = "sending"
    /\ \/ To(o, "done")
       \/ entry # o /\ o \notin closing /\ To(o, "abandon")
    /\ lock' = None
    /\ UNCHANGED <<durable, registry, handles, old, stop, victim, q, faults>>

\* An opening fails or is interrupted.  Until start has returned its handle
\* belongs to the startup's scope.
OpenFails(o) ==
    /\ Disturbed
    /\ \/ pc[o] = "begun" /\ To(o, "releasing")
       \/ pc[o] \in Starting \ {"begun"} /\ To(o, "unwinding")
       \/ /\ pc[o] \in Opening \ {"begun", "started", "publishing", "stuck"}
          /\ To(o, "abandon")
    /\ lock' = IF lock = o THEN None ELSE lock
    /\ UNCHANGED <<durable, registry, handles, old, stop, victim, q>>

\* A send that hangs in guardCurrent (see GitKeyChanges) ends only if its fiber
\* is interrupted.
Interrupted(o) ==
    /\ pc[o] = "stuck"
    /\ To(o, "abandon")
    /\ lock' = None
    /\ UNCHANGED <<durable, registry, handles, old, stop, victim, q, faults>>

Unwind_KeepsHandle(o) ==
    /\ pc[o] = "unwinding"
    /\ InvalidateIfCurrent(o)
    /\ To(o, "closing")
    /\ UNCHANGED <<durable, handles, lock, old, stop, victim, q, faults>>

\* The startup's scope ends without a published handle: its finalizers give up
\* the generation and close the handle, ...
Unwind(o) ==
    /\ pc[o] = "unwinding"
    /\ InvalidateIfCurrent(o)
    /\ closing' = closing \cup ({o} \cap live)
    /\ To(o, "closing")
    /\ UNCHANGED <<durable, live, lock, old, stop, victim, q, faults>>

Unwound(o) ==
    /\ pc[o] = "closing"
    /\ o \notin closing
    /\ To(o, "abandon")
    /\ UNCHANGED <<durable, registry, handles, lock, old, stop, victim, q, faults>>

\* ... or, without a handle, close what was displaced and then give up the
\* generation.
Release(o) ==
    /\ pc[o] = "releasing"
    /\ old[o] \notin closing
    /\ InvalidateIfCurrent(o)
    /\ old' = [old EXCEPT ![o] = None]
    /\ To(o, "abandon")
    /\ UNCHANGED <<durable, handles, lock, stop, victim, q, faults>>

\* onExit of an opening that was not accepted: request the stop if the
\* reservation is still its own, ...
Abandon_NoStop(o) ==
    /\ pc[o] = "abandon"
    /\ To(o, "ended")
    /\ UNCHANGED <<durable, registry, handles, lock, old, stop, victim, q, faults>>

Abandon(o) ==
    /\ pc[o] = "abandon"
    /\ IF reserved = o THEN RequestProviderStop
                       ELSE UNCHANGED <<reserved, attached, stops, asked>>
    /\ To(o, "close")
    /\ UNCHANGED <<owed, registry, handles, lock, old, stop, victim, q, faults>>

\* ... and close, scoped to its residency.
AbandonClose(o) ==
    /\ pc[o] = "close"
    /\ lock = None
    /\ RetireScoped(o, o)
    /\ To(o, IF Current = o THEN "closed" ELSE "ended")
    /\ UNCHANGED <<durable, live, old, stop, victim, q, faults>>

AbandonClosed(o) ==
    /\ pc[o] = "closed"
    /\ o \notin closing
    /\ lock' = None
    /\ To(o, "ended")
    /\ UNCHANGED <<durable, registry, handles, old, stop, victim, q, faults>>

-----------------------------------------------------------------------------
(* The provider.stop job. *)

StopClose(o) ==
    /\ stop = IdleStop
    /\ o \in stops
    /\ lock = None
    /\ RetireScoped(o, "stop")
    /\ stop' = [at |-> IF Current = o THEN "closing" ELSE "detach", id |-> o]
    /\ UNCHANGED <<durable, live, pc, old, victim, q, faults>>

StopClosed ==
    /\ stop.at = "closing"
    /\ stop.id \notin closing
    /\ lock' = None
    /\ stop' = [stop EXCEPT !.at = "detach"]
    /\ UNCHANGED <<durable, registry, handles, pc, old, victim, q, faults>>

StopDetach ==
    /\ stop.at = "detach"
    /\ DetachProvider(stop.id)
    /\ stops' = stops \ {stop.id}
    /\ stop' = IdleStop
    /\ UNCHANGED <<asked, owed, registry, handles, lock, pc, old, victim, q, faults>>

-----------------------------------------------------------------------------
(* Other ways a handle leaves the registry. *)

\* close without a residency: setRuntimeMode, or a question whose durable
\* resolution could not be reconciled.  The lock is kept until the handle, if
\* there is one, is closed.
CloseAny ==
    /\ lock = None
    /\ Invalidate
    /\ TakeOver(entry)
    /\ lock' = IF entry = None THEN None ELSE "close"
    /\ victim' = entry
    /\ UNCHANGED <<durable, live, pc, old, stop, q, faults>>

CloseAnyDone ==
    /\ lock = "close"
    /\ victim \notin closing
    /\ lock' = None /\ victim' = None
    /\ UNCHANGED <<durable, registry, handles, pc, old, stop, q, faults>>

\* A send finds its handle unavailable, or is interrupted: it retires the
\* handle, whoever holds the lock.
SendRetires ==
    /\ Disturbed
    /\ entry # None /\ resid = entry
    /\ Invalidate
    /\ TakeOver(entry)
    /\ UNCHANGED <<durable, live, fibers>>

\* A send finds that the Git identity of the session changed and invalidates
\* its handle under the lifecycle lock.  The first send of an opening runs in
\* guardCurrent, which holds that lock: it is not reentrant, and the send waits
\* for itself.
GitKeyChanges ==
    /\ Disturbed
    /\ entry # None
    /\ \/ /\ lock = None
          /\ Invalidate /\ TakeOver(entry)
          /\ UNCHANGED pc
       \/ /\ pc[entry] = "sending"
          /\ To(entry, "stuck")
          /\ UNCHANGED <<registry, closing>>
    /\ UNCHANGED <<durable, live, lock, old, stop, victim, q>>

\* The process of handle o ends by itself.  The codex driver reports that; of
\* others the registry keeps the handle.
Terminates(o) ==
    /\ Disturbed
    /\ o \in live
    /\ live' = live \ {o}
    /\ InvalidateIfCurrent(o) \/ UNCHANGED registry
    /\ UNCHANGED <<durable, closing, fibers>>

CloseHandle(o) ==
    /\ o \in closing
    /\ closing' = closing \ {o}
    /\ live' = live \ {o}
    /\ UNCHANGED <<durable, registry, fibers, faults>>

\* quiesceAndDetachProvider of a final capture: the reservation is read ...
\* The capture belongs to the turn whose send opened what is reserved, and
\* that send is over; an older opening may still be starting.
QuiesceRead ==
    /\ q.at = "idle"
    /\ \A o \in Opens : pc[o] \in Opening => reserved # o
    /\ q' = [at |-> "read", id |-> reserved]
    /\ UNCHANGED <<durable, registry, handles, lock, pc, old, stop, victim, faults>>

\* ... and compared under the lock.  A resident handle is closed under the
\* lock and stays registered meanwhile; nothing resident and nothing starting
\* is quiescence already.
QuiesceEnter ==
    /\ q.at = "read"
    /\ lock = None
    /\ \/ /\ Current = None
          /\ q' = [q EXCEPT !.at = "detach"]
          /\ UNCHANGED lock
       \/ /\ Current # None
          /\ Current # q.id \/ entry = None
          /\ q' = IdleQuiesce
          /\ UNCHANGED lock
       \/ /\ entry # None /\ entry = q.id
          /\ q' = [q EXCEPT !.at = "closing"]
          /\ lock' = "quiesce"
    /\ UNCHANGED <<durable, registry, handles, pc, old, stop, victim, faults>>

\* The close fails or exceeds its deadline: the handle keeps its place.
QuiesceFails ==
    /\ q.at = "closing"
    /\ q' = IdleQuiesce
    /\ lock' = None
    /\ UNCHANGED <<durable, registry, handles, pc, old, stop, victim, faults>>

QuiesceCloses ==
    /\ q.at = "closing"
    /\ live' = live \ {q.id}
    /\ q' = [q EXCEPT !.at = "closed"]
    /\ UNCHANGED <<durable, registry, closing, lock, pc, old, stop, victim, faults>>

\* The generation must still be the one whose handle was closed.
QuiesceChecks ==
    /\ q.at = "closed"
    /\ InvalidateIfCurrent(q.id)
    /\ q' = IF resid = q.id THEN [q EXCEPT !.at = "detach"] ELSE IdleQuiesce
    /\ lock' = None
    /\ UNCHANGED <<durable, handles, pc, old, stop, victim, faults>>

QuiesceDetach ==
    /\ q.at = "detach"
    /\ DetachProvider(q.id)
    /\ q' = IdleQuiesce
    /\ UNCHANGED <<stops, asked, owed, registry, handles, lock, pc, old, stop, victim, faults>>

\* ownProviderRegistry: the layer is closed.
Shutdown ==
    /\ Disturbed
    /\ ~closed
    /\ closed' = TRUE
    /\ entry' = None /\ resid' = None
    /\ TakeOver(entry)
    /\ UNCHANGED <<durable, live, fibers>>

\* The process ends and with it every handle; the next one, before it accepts
\* work, requests the stop and detaches.
Restart ==
    /\ Disturbed
    /\ StopTargets
    /\ reserved' = None /\ attached' = None /\ owed' = FALSE
    /\ entry' = None /\ resid' = None /\ closed' = FALSE
    /\ live' = {} /\ closing' = {}
    /\ lock' = None
    /\ pc' = [o \in Opens |-> IF pc[o] = "new" THEN "new" ELSE "ended"]
    /\ stop' = IdleStop /\ victim' = None /\ q' = IdleQuiesce
    /\ old' = [o \in Opens |-> None]

-----------------------------------------------------------------------------
Run(o) ==
    \/ Admit(o) \/ Begin(o) \/ Acquire(o) \/ PublishAdmit(o) \/ Publish(o)
    \/ GuardCurrent(o) \/ AttachProvider(o) \/ Readmit(o) \/ Accept(o) \/ Sent(o)
    \/ Unwind(o) \/ Unwound(o) \/ Release(o)
    \/ Abandon(o) \/ AbandonClose(o) \/ AbandonClosed(o)

StopJob == (\E o \in Opens : StopClose(o)) \/ StopClosed \/ StopDetach

Quiesce == \/ QuiesceRead \/ QuiesceEnter \/ QuiesceFails \/ QuiesceCloses
           \/ QuiesceChecks \/ QuiesceDetach

Next ==
    \/ \E o \in Opens : \/ ReserveProviderSession(o) \/ Run(o) \/ OpenFails(o)
                        \/ Interrupted(o) \/ Terminates(o) \/ CloseHandle(o)
    \/ StopJob \/ Quiesce
    \/ ConfigureProvider \/ DropReservation \/ CloseProvider
    \/ CloseAny \/ CloseAnyDone \/ SendRetires \/ GitKeyChanges
    \/ Shutdown \/ Restart

Spec == ResidencyInit /\ [][Next]_vars

\* Fibers run, the lock is a FIFO semaphore, pending jobs are claimed, and a
\* handle is closed or given up within its deadline.  Nothing is assumed of the
\* requests of clients, nor of the interruption of a send that hangs.
Fairness ==
    /\ \A o \in Opens : SF_vars(Run(o)) /\ WF_vars(CloseHandle(o))
    /\ SF_vars(StopJob)
    /\ WF_vars(CloseAnyDone)
    /\ WF_vars(QuiesceCloses \/ QuiesceChecks)

FairSpec == Spec /\ Fairness

-----------------------------------------------------------------------------
(* Properties. *)

\* Every variable holds a value the code's rows and maps can hold.
TypeOK ==
    /\ reserved \in Residencies /\ attached \in Residencies
    /\ stops \in SUBSET Opens /\ asked \in SUBSET Opens /\ owed \in BOOLEAN
    /\ resid \in Residencies /\ entry \in Residencies /\ closed \in BOOLEAN
    /\ live \in SUBSET Opens /\ closing \in SUBSET Opens
    /\ lock \in Residencies \cup {"stop", "close", "quiesce"}
    /\ pc \in [Opens -> Opening \cup Unwinding \cup Over]
    /\ old \in [Opens -> Residencies]
    /\ stop \in [at : {"idle", "closing", "detach"}, id : Residencies]
    /\ victim \in Residencies
    /\ q \in [at : {"idle", "read", "closing", "closed", "detach"}, id : Residencies]
    /\ faults \in 0 .. MaxFaults

\* No process is left without an owner: it is registered, or belongs to the
\* startup that acquired it, or some fiber has taken it over to close it.
EveryHandleIsOwned ==
    \A o \in live : \/ entry = o
                    \/ o \in closing
                    \/ pc[o] \in Starting \cup {"unwinding"}

\* Once a residency's stop has been carried out, that residency never serves
\* the session again, however late its startup comes.
StoppedStaysStopped ==
    \A o \in asked \ stops : entry # o

\* A process that serves a session which has given it up is about to be
\* stopped: its stop is a job, or the command that requests it is still owed, or
\* its own opening has not attached it and closes it itself.
GivenUpIsStopped ==
    entry # None /\ entry # reserved =>
        \/ entry \in stops
        \/ owed /\ attached = entry
        \/ pc[entry] \notin Accepting \cup {"done"}

\* In the end no process runs but that of the reservation - provided that no
\* request is interrupted between dropping the reservation and closing the
\* provider, and that no opening hangs in its first send with the lock: the
\* code guarantees neither (session-operations.ts, guardCurrent).
OnlyTheReservedRuns ==
    /\ <>[]~owed
    /\ <>[](\A o \in Opens : pc[o] # "stuck")
    => <>[](live \subseteq {reserved})
=============================================================================
