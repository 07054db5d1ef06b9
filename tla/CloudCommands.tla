----------------------------- MODULE CloudCommands -----------------------------
(***************************************************************************)
(* Commands sent to a cloud workspace that may be asleep: the workspace    *)
(* mailbox (WorkspaceMailbox), the API requests and control-plane record   *)
(* that drive it (infra/api/src: cloud-mailbox-coordinator.ts,             *)
(* cloud-workspace-routes.ts, cloud-workspace-store.ts, the reconciler),   *)
(* and the runtime that leases and applies the commands                    *)
(* (apps/server/src/api/cloud-workspace-runtime.ts).                       *)
(*                                                                         *)
(* Every await between two stores is a step boundary: a request routed     *)
(* under one workspace record reaches the mailbox under another, a lease   *)
(* page can be lost, an acknowledgment can arrive late and twice, the      *)
(* runtime can die between any two steps, and a replaced machine can go on *)
(* running.  A control-plane update is a compare-and-set of one row and so *)
(* is one step, and what one request reads of the record it reads at once. *)
(* Of the wake revision a lease request read only is kept whether it is    *)
(* still the workspace's ("current"), or "old", or that it read "none".    *)
(*                                                                         *)
(* A runtime's storage incarnation stands for its machine: replaceProcess  *)
(* kills the old process of a machine before it starts the new one, while  *)
(* a replaced machine's process may survive.  A lease refused on the       *)
(* envelope alone (decryption, schema) is refused on every attempt, so it  *)
(* is one case of a refusal without a receipt.  Sealing a result cannot    *)
(* fail.  Deleting a workspace moves the fence as archiving does.          *)
(***************************************************************************)
EXTENDS WorkspaceMailbox

CONSTANTS Requests,     \* API requests in flight at once
          First,        \* the storage incarnation of the first machine
          NoCommand,    \* a request that names no command
          MaxGen,       \* bound: runtime generations
          MaxFence,     \* bound: destruction fences
          MaxBilling    \* bound: billing holds

ASSUME CloudConstants ==
    /\ First \in Incarnations
    /\ NoCommand \notin Commands
    /\ MaxGen \in Nat \ {0}
    /\ MaxFence \in Nat
    /\ MaxBilling \in Nat

VARIABLES ws,        \* the workspace record: see TypeOK
          billing,   \* cloud billing capacity is available
          holds,     \* billing holds so far
          sealed,    \* per command the fence in its envelope, or NotSealed
          req,       \* client API requests
          lreq,      \* per generation the lease request in flight, then its
                     \* bookkeeping in the control plane
          outbox,    \* the lifecycle delivery in flight: [fence, done]
          up,        \* per machine the generation of its process, 0 if none
          held,      \* pendingApplications of the processes
          acks,      \* pendingAcknowledgments not yet sent
          net,       \* acknowledgments sent, which may arrive late and again
          receipts   \* command_receipts: <<storage, command>>

storeVars == <<ws, billing, holds>>
requestVars == <<sealed, req>>
runtimeVars == <<up, held, acks, net, receipts>>
vars == <<mailboxVars, storeVars, requestVars, lreq, outbox, runtimeVars>>

-----------------------------------------------------------------------------
NotSealed == MaxFence + 1
Gens == 1..MaxGen
Answers == {"applied", "rejected", "outcome-unknown"}

Idle == [at |-> "idle", cmd |-> NoCommand]
NoLease == [at |-> "idle", inc |-> First, fence |-> 0, wake |-> "none",
            pay |-> TRUE]
NoDelivery == [fence |-> 0, done |-> FALSE]

Holding(i) == {h \in held : h.inc = i}
Sending(i) == {h \in Holding(i) : h.sending}

CloudInit ==
    /\ MailboxInit
    /\ ws = [life |-> "ready", fence |-> 0, pending |-> 0, wake |-> FALSE,
             fenceRequired |-> FALSE, gen |-> 1, enrolled |-> TRUE,
             online |-> TRUE, machine |-> First, used |-> {First}]
    /\ billing = TRUE /\ holds = 0
    /\ sealed = [c \in Commands |-> NotSealed]
    /\ req = [r \in Requests |-> Idle]
    /\ lreq = [g \in Gens |-> NoLease]
    /\ outbox = NoDelivery
    /\ up = [i \in Incarnations |-> IF i = First THEN 1 ELSE 0]
    /\ held = {} /\ acks = {} /\ net = {} /\ receipts = {}

-----------------------------------------------------------------------------
(* The control plane's wake. *)

\* Every wake request moves the wake revision: what earlier polls read is old.
Outdated(l) == IF l.wake = "current" THEN [l EXCEPT !.wake = "old"] ELSE l

\* requestMailboxWake of the store.
RequestMailboxWake ==
    /\ ws' = [ws EXCEPT !.wake = TRUE,
                        !.fenceRequired = ws.wake /\ ws.fenceRequired]
    /\ lreq' = [g \in Gens |-> Outdated(lreq[g])]

\* requestCloudMailboxWake: its answer, decided before the store's update.
RequestWake(answer) ==
    \/ /\ ws.life = "archived"
       /\ answer \in {"destroyed", "blocked"}
       /\ UNCHANGED <<ws, lreq>>
    \/ /\ ws.life = "ready"
       /\ answer = IF billing THEN "ready" ELSE "blocked"
       /\ RequestMailboxWake

DispatchCall ==
    /\ wake.flight = "calling"
    /\ \E answer \in {"ready", "blocked", "destroyed"} : RequestWake(answer)
    /\ wake' = [wake EXCEPT !.flight = "called"]
    /\ UNCHANGED <<row, box, billing, holds, requestVars, outbox, runtimeVars>>

-----------------------------------------------------------------------------
(* Client requests. *)

To(r, stage) == req' = [req EXCEPT ![r].at = stage]
Finish(r) == req' = [req EXCEPT ![r] = Idle]

\* Enqueue, first or repeated, of an envelope whose fence the client fixed
\* before its first attempt: checked against the workspace record (once the
\* command has ended a repetition could only ask for a wake again), ...
EnqueueRoute(r, c) ==
    /\ req[r] = Idle
    /\ ws.life = "ready"
    /\ sealed[c] \in {NotSealed, ws.fence}
    /\ ~Ended(row[c])
    /\ sealed' = [sealed EXCEPT ![c] = ws.fence]
    /\ req' = [req EXCEPT ![r] = [at |-> "routed", cmd |-> c]]
    /\ UNCHANGED <<mailboxVars, storeVars, lreq, outbox, runtimeVars>>

\* ... reserved in the mailbox, ...
EnqueueReserve(r) ==
    LET c == req[r].cmd
    IN  /\ req[r].at = "routed"
        /\ IF ReserveStale(sealed[c]) THEN UNCHANGED mailboxVars
                                      ELSE Reserve(c, sealed[c])
        /\ IF Reserved(c, sealed[c]) THEN To(r, "reserved") ELSE Finish(r)
        /\ UNCHANGED <<storeVars, sealed, lreq, outbox, runtimeVars>>

\* ... woken in the control plane, ...
EnqueueWake(r) ==
    /\ req[r].at = "reserved"
    /\ \E answer \in {"ready", "blocked", "destroyed"} :
          RequestWake(answer) /\ To(r, answer)
    /\ UNCHANGED <<mailboxVars, billing, holds, sealed, outbox, runtimeVars>>

\* ... and committed, or cancelled if the workspace is gone.
EnqueueCommit(r) ==
    /\ req[r].at \in {"ready", "blocked"}
    /\ Commit(req[r].cmd, req[r].at = "blocked")
    /\ Finish(r)
    /\ UNCHANGED <<storeVars, sealed, lreq, outbox, runtimeVars>>

EnqueueDestroyed(r) ==
    /\ req[r].at = "destroyed"
    /\ Cancel(req[r].cmd)
    /\ Finish(r)
    /\ UNCHANGED <<storeVars, sealed, lreq, outbox, runtimeVars>>

\* Reading a status or watching first applies the billing policy.  Until
\* billing was first held there is nothing for it to change.
PolicyRoute(r) ==
    /\ req[r] = Idle
    /\ holds > 0
    /\ To(r, IF billing THEN "unblock" ELSE "block")
    /\ UNCHANGED <<mailboxVars, storeVars, sealed, lreq, outbox, runtimeVars>>

PolicyApply(r) ==
    /\ \/ /\ req[r].at = "block"
          /\ Block
          /\ Finish(r)
       \/ /\ req[r].at = "unblock"
          /\ Unblock
          /\ To(r, IF SomeBlocked THEN "unblocked" ELSE "idle")
    /\ UNCHANGED <<storeVars, sealed, lreq, outbox, runtimeVars>>

PolicyWake(r) ==
    /\ req[r].at = "unblocked"
    /\ \E answer \in {"ready", "blocked", "destroyed"} :
          /\ RequestWake(answer)
          /\ To(r, IF answer = "ready" THEN "idle" ELSE "block")
    /\ UNCHANGED <<mailboxVars, billing, holds, sealed, outbox, runtimeVars>>

\* A request fails at the worker, or a call it makes fails: no later step runs.
RequestLost(r) ==
    /\ req[r].at # "idle"
    /\ Finish(r)
    /\ UNCHANGED <<mailboxVars, storeVars, sealed, lreq, outbox, runtimeVars>>

\* A command that cannot be cancelled any more is left as it is.
UserCancel(c) ==
    /\ Cancellable(row[c])
    /\ Cancel(c)
    /\ UNCHANGED <<storeVars, requestVars, lreq, outbox, runtimeVars>>

-----------------------------------------------------------------------------
(* The runtime's lease request. *)

\* Faults stop with the last generation: the bound on generations would
\* otherwise leave them without the restart that answers them.
MayFail(g) == g < MaxGen

\* A poll that would lease.  Without a wake a runtime in credit only waits for
\* a notification, which changes nothing.  A poll's bookkeeping ends before the
\* next poll here: no poll changes the revision and generation it is guarded by.
LeaseRoute(i) ==
    LET g == up[i]
    IN  /\ g = ws.gen
        /\ ws.life = "ready" /\ ws.online
        /\ ws.wake \/ ~billing
        /\ lreq[g] = NoLease
        /\ Sending(i) = {}
        /\ lreq' = [lreq EXCEPT ![g] = [at |-> "routed", inc |-> i, fence |-> ws.fence,
                                        wake |-> IF billing THEN "current" ELSE "none",
                                        pay |-> billing]]
        /\ UNCHANGED <<mailboxVars, storeVars, requestVars, outbox, runtimeVars>>

LeasePolicy(g) ==
    /\ lreq[g].at = "routed"
    /\ IF lreq[g].pay THEN Unblock ELSE Block
    /\ lreq' = [lreq EXCEPT ![g].at = "policied"]
    /\ UNCHANGED <<storeVars, requestVars, outbox, runtimeVars>>

\* The process on machine i exits: what it kept in memory is gone.
Exits(i) ==
    /\ up' = [up EXCEPT ![i] = 0]
    /\ held' = held \ Holding(i)
    /\ acks' = {a \in acks : a.inc # i}

\* pendingApplications after a page; a fence-required page ends the process.
PageReceived(g, i, f) ==
    IF LeaseSaysFence(g, i, f) THEN Exits(i)
    ELSE /\ held' = held \cup
                {[inc |-> i, cmd |-> c, token |-> row[c].issued + 1, sending |-> FALSE] :
                   c \in {d \in Grants(g, i, f) : \A h \in Holding(i) : h.cmd # d}}
         /\ UNCHANGED <<up, acks>>

\* What the response obliges the control plane to record.
LeaseGrant(g) ==
    LET i == lreq[g].inc
        f == lreq[g].fence
        note == IF lreq[g].wake = "none" THEN "idle"
                ELSE IF NonterminalCount(row') = 0 THEN "drain"
                ELSE IF LeaseSaysFence(g, i, f) THEN "fence" ELSE "idle"
    IN  /\ lreq[g].at = "policied"
        /\ Lease(g, i, f)
        /\ lreq' = [lreq EXCEPT ![g] = IF note = "idle" THEN NoLease
                                       ELSE [lreq[g] EXCEPT !.at = note]]
        /\ \/ /\ up[i] = g
              /\ PageReceived(g, i, f)
           \/ /\ up[i] # g \/ MayFail(g)
              /\ UNCHANGED <<up, held, acks>>
        /\ UNCHANGED <<storeVars, requestVars, outbox, net, receipts>>

\* The request, or its bookkeeping (which has a deadline), fails.
LeaseLost(g) ==
    /\ lreq[g].at # "idle"
    /\ MayFail(g) \/ lreq[g].at \in {"drain", "fence"}
    /\ lreq' = [lreq EXCEPT ![g] = NoLease]
    /\ UNCHANGED <<mailboxVars, storeVars, requestVars, outbox, runtimeVars>>

\* completeMailboxDrain and recordMailboxRuntimeProgress: both compare the
\* wake revision and the generation of the poll with the workspace's.
StillCurrent_AnyRevision(g) ==
    /\ g = ws.gen
    /\ ws.wake /\ ws.online /\ ws.life = "ready"

StillCurrent(g) ==
    /\ lreq[g].wake = "current" /\ g = ws.gen
    /\ ws.wake /\ ws.online /\ ws.life = "ready"

CompleteDrain(g) ==
    /\ lreq[g].at = "drain"
    /\ ws' = IF StillCurrent(g)
               THEN [ws EXCEPT !.wake = FALSE, !.fenceRequired = FALSE] ELSE ws
    /\ lreq' = [lreq EXCEPT ![g] = NoLease]
    /\ UNCHANGED <<mailboxVars, billing, holds, requestVars, outbox, runtimeVars>>

RecordFence(g) ==
    /\ lreq[g].at = "fence"
    /\ ws' = IF StillCurrent(g) THEN [ws EXCEPT !.fenceRequired = TRUE] ELSE ws
    /\ lreq' = [lreq EXCEPT ![g] = NoLease]
    /\ UNCHANGED <<mailboxVars, billing, holds, requestVars, outbox, runtimeVars>>

-----------------------------------------------------------------------------
(* The runtime's consumer, one fiber per process. *)

Receipt(h) == <<h.inc, h.cmd>> \in receipts

\* The runtime compares its clock with the deadline the lease carries.
PastDeadline(h) == row[h.cmd].late \/ h.token < row[h.cmd].issued

\* No receipt and time left: sendMessage starts.
BeginSend(h) ==
    /\ Sending(h.inc) = {}
    /\ ~Receipt(h)
    /\ ~PastDeadline(h)
    /\ held' = (held \ {h}) \cup {[h EXCEPT !.sending = TRUE]}
    /\ UNCHANGED <<mailboxVars, storeVars, requestVars, lreq, outbox,
                   up, acks, net, receipts>>

\* The message and its receipt are one transaction of the session's storage.
SendCommits(h) ==
    /\ h.sending
    /\ ~Receipt(h)
    /\ receipts' = receipts \cup {<<h.inc, h.cmd>>}
    /\ UNCHANGED <<mailboxVars, storeVars, requestVars, lreq, outbox,
                   up, held, acks, net>>

\* pendingAcknowledgments has one entry per command.
Acked(h, s) ==
    /\ held' = held \ {h}
    /\ acks' = {a \in acks : a.inc # h.inc \/ a.cmd # h.cmd}
                 \cup {[inc |-> h.inc, cmd |-> h.cmd, token |-> h.token, state |-> s]}

\* A receipt, new or left by an earlier attempt, proves the command applied:
\* every receipt here is the consumer's own, so its verification succeeds.
Conclude(h) ==
    /\ Receipt(h)
    /\ Acked(h, "applied")
    /\ UNCHANGED <<mailboxVars, storeVars, requestVars, lreq, outbox,
                   up, net, receipts>>

\* Refused by a check, by the author's authorization, or by sendMessage.
Refuse(h) ==
    /\ ~Receipt(h)
    /\ \E s \in {"rejected", "outcome-unknown"} : Acked(h, s)
    /\ UNCHANGED <<mailboxVars, storeVars, requestVars, lreq, outbox,
                   up, net, receipts>>

\* The receipt store could not be read after the send: tried again.
TryAgain(h) ==
    /\ h.sending
    /\ held' = (held \ {h}) \cup {[h EXCEPT !.sending = FALSE]}
    /\ UNCHANGED <<mailboxVars, storeVars, requestVars, lreq, outbox,
                   up, acks, net, receipts>>

\* Past its deadline a lease is dropped unanswered and the process exits.
Abandon(h) ==
    /\ ~h.sending /\ ~Receipt(h)
    /\ PastDeadline(h)
    /\ Exits(h.inc)
    /\ UNCHANGED <<mailboxVars, storeVars, requestVars, lreq, outbox,
                   net, receipts>>

\* An acknowledgment is accepted for routing from the current generation only.
\* What was sent may arrive at any later time, which covers every retry of it,
\* as long as it can have an effect: the mailbox ignores one for a command that
\* has ended.  A permanent refusal drops it; one with status 409 also ends the
\* process (Crash).
SendAck(a) ==
    /\ \/ /\ up[a.inc] = ws.gen
          /\ net' = IF Ended(row[a.cmd]) THEN net ELSE net \cup {a}
       \/ MayFail(up[a.inc]) /\ UNCHANGED net
    /\ acks' = acks \ {a}
    /\ UNCHANGED <<mailboxVars, storeVars, requestVars, lreq, outbox,
                   up, held, receipts>>

\* It arrives, possibly not for the last time.
DeliverAck(a) ==
    /\ Acknowledge(a.cmd, a.token, a.state)
    /\ net' = IF Ended(row'[a.cmd]) THEN {b \in net : b.cmd # a.cmd} ELSE net
    /\ UNCHANGED <<storeVars, requestVars, lreq, outbox, up, held, acks, receipts>>

Crash(i) ==
    /\ up[i] # 0 /\ MayFail(up[i])
    /\ Exits(i)
    /\ UNCHANGED <<mailboxVars, storeVars, requestVars, lreq, outbox,
                   net, receipts>>

-----------------------------------------------------------------------------
(* The reconciler and the workspace's lifecycle. *)

\* restartWorkspaceRuntime: a new generation on the same machine, or on a new
\* one with new storage; the old credential is void from here on.
Restart ==
    /\ ws.life = "ready" /\ ws.gen < MaxGen
    /\ \E m \in {ws.machine} \cup (Incarnations \ ws.used) :
          ws' = [ws EXCEPT !.gen = ws.gen + 1, !.enrolled = FALSE, !.online = FALSE,
                           !.fenceRequired = FALSE, !.machine = m,
                           !.used = ws.used \cup {m}]
    /\ UNCHANGED <<mailboxVars, billing, holds, requestVars, lreq, outbox,
                   runtimeVars>>

\* replaceProcess has ended the machine's old process; the new one enrolls.
Boot ==
    LET i == ws.machine
    IN  /\ ~ws.enrolled
        /\ ws' = [ws EXCEPT !.enrolled = TRUE, !.online = (ws.life = "ready")]
        /\ up' = [up EXCEPT ![i] = ws.gen]
        /\ held' = held \ Holding(i)
        /\ acks' = {a \in acks : a.inc # i}
        /\ UNCHANGED <<mailboxVars, billing, holds, requestVars, lreq, outbox,
                       net, receipts>>

\* The machine is paused: never while a wake is pending, except for billing.
Pause ==
    /\ ws.online
    /\ ~ws.wake \/ ~billing \/ ws.life = "archived"
    /\ ws' = [ws EXCEPT !.online = FALSE]
    /\ UNCHANGED <<mailboxVars, billing, holds, requestVars, lreq, outbox,
                   runtimeVars>>

\* A preserved process is resumed and asserts readiness again.
Reassert ==
    /\ ~ws.online /\ ws.enrolled
    /\ ws.life = "ready" /\ ws.wake /\ billing
    /\ up[ws.machine] = ws.gen
    /\ ws' = [ws EXCEPT !.online = TRUE]
    /\ UNCHANGED <<mailboxVars, billing, holds, requestVars, lreq, outbox,
                   runtimeVars>>

BillingChanges ==
    /\ billing => holds < MaxBilling
    /\ billing' = ~billing
    /\ holds' = IF billing THEN holds + 1 ELSE holds
    /\ UNCHANGED <<mailboxVars, ws, requestVars, lreq, outbox, runtimeVars>>

\* Archiving moves the destruction fence and owes the mailbox a notification.
Archive ==
    /\ ws.life = "ready" /\ ws.fence < MaxFence
    /\ ws' = [ws EXCEPT !.life = "archived", !.fence = ws.fence + 1,
                        !.pending = ws.fence + 1]
    /\ UNCHANGED <<mailboxVars, billing, holds, requestVars, lreq, outbox,
                   runtimeVars>>

Unarchive ==
    /\ ws.life = "archived"
    /\ ws' = [ws EXCEPT !.life = "ready", !.online = FALSE]
    /\ UNCHANGED <<mailboxVars, billing, holds, requestVars, lreq, outbox,
                   runtimeVars>>

\* drainMailboxLifecycleOutbox: list, deliver, acknowledge.
OutboxList ==
    /\ outbox = NoDelivery /\ ws.pending # 0
    /\ outbox' = [fence |-> ws.pending, done |-> FALSE]
    /\ UNCHANGED <<mailboxVars, storeVars, requestVars, lreq, runtimeVars>>

OutboxDeliver ==
    /\ outbox.fence # 0 /\ ~outbox.done
    /\ Lifecycle(outbox.fence)
    /\ outbox' = [outbox EXCEPT !.done = TRUE]
    /\ UNCHANGED <<storeVars, requestVars, lreq, runtimeVars>>

OutboxAcknowledge_Undelivered ==
    /\ outbox # NoDelivery
    /\ ws' = IF ws.pending = outbox.fence THEN [ws EXCEPT !.pending = 0] ELSE ws
    /\ outbox' = NoDelivery
    /\ UNCHANGED <<mailboxVars, billing, holds, requestVars, lreq, runtimeVars>>

\* acknowledgeMailboxLifecycle: only if the same notification is still owed.
OutboxAcknowledge ==
    /\ outbox.done
    /\ ws' = IF ws.pending = outbox.fence THEN [ws EXCEPT !.pending = 0] ELSE ws
    /\ outbox' = NoDelivery
    /\ UNCHANGED <<mailboxVars, billing, holds, requestVars, lreq, runtimeVars>>

OutboxLost ==
    /\ outbox # NoDelivery
    /\ outbox' = NoDelivery
    /\ UNCHANGED <<mailboxVars, storeVars, requestVars, lreq, runtimeVars>>

-----------------------------------------------------------------------------
(* The mailbox on its own. *)

rest == <<storeVars, requestVars, lreq, outbox, runtimeVars>>

AlarmFires == /\ \E S \in SUBSET {c \in Commands : row[c].state = "reserved"} : Alarm(S)
              /\ UNCHANGED rest

AlarmReturns == (DispatchDelivered \/ DispatchFailed) /\ UNCHANGED rest

LeaseRunsOut(c) == /\ MayFail(row[c].gen)
                   /\ DeadlinePasses(c)
                   /\ UNCHANGED rest

-----------------------------------------------------------------------------
ClientNext ==
    \/ \E c \in Commands : UserCancel(c)
    \/ \E r \in Requests : \/ \E c \in Commands : EnqueueRoute(r, c)
                           \/ EnqueueReserve(r) \/ EnqueueWake(r)
                           \/ EnqueueCommit(r) \/ EnqueueDestroyed(r)
                           \/ PolicyRoute(r) \/ PolicyApply(r) \/ PolicyWake(r)
                           \/ RequestLost(r)

MailboxNext ==
    \/ AlarmFires \/ DispatchCall \/ AlarmReturns
    \/ \E c \in Commands : LeaseRunsOut(c)

LeaseNext ==
    \/ \E i \in Incarnations : LeaseRoute(i)
    \/ \E g \in Gens : \/ LeasePolicy(g) \/ LeaseGrant(g) \/ LeaseLost(g)
                       \/ CompleteDrain(g) \/ RecordFence(g)

RuntimeNext ==
    \/ \E h \in held : \/ BeginSend(h) \/ SendCommits(h) \/ Conclude(h)
                       \/ Refuse(h) \/ TryAgain(h) \/ Abandon(h)
    \/ \E a \in acks : SendAck(a)
    \/ \E a \in net : DeliverAck(a)
    \/ \E i \in Incarnations : Crash(i)

PlaneNext ==
    \/ Restart \/ Boot \/ Pause \/ Reassert \/ BillingChanges
    \/ Archive \/ Unarchive
    \/ OutboxList \/ OutboxDeliver \/ OutboxAcknowledge \/ OutboxLost

Next == ClientNext \/ MailboxNext \/ LeaseNext \/ RuntimeNext \/ PlaneNext

Spec == CloudInit /\ [][Next]_vars

\* The runtime polls for ever and applies what it holds; the reconciler
\* restarts a workspace whose pending wake makes no progress (the sandbox
\* provider neither rejects it nor loses its storage for good); a launched
\* process enrolls; a pending acknowledgment is sent until it is answered;
\* time passes.
Fairness ==
    /\ \A i \in Incarnations : WF_vars(LeaseRoute(i))
    /\ \A g \in Gens : WF_vars(LeasePolicy(g)) /\ WF_vars(LeaseGrant(g))
    /\ WF_vars(\E h \in held : BeginSend(h))
    /\ WF_vars(\E h \in held : SendCommits(h) \/ Refuse(h))
    /\ WF_vars(\E h \in held : Conclude(h) \/ Abandon(h))
    /\ WF_vars(\E a \in acks : up[a.inc] = ws.gen /\ SendAck(a))
    /\ \A c \in Commands : WF_vars(\E a \in net : a.cmd = c /\ DeliverAck(a) /\ row' # row)
    /\ \A c \in Commands : WF_vars(LeaseRunsOut(c))
    /\ WF_vars(ws.wake /\ Restart)
    /\ WF_vars(Boot) /\ WF_vars(Reassert)
    /\ WF_vars(OutboxList) /\ SF_vars(OutboxDeliver)
    /\ WF_vars(AlarmFires /\ row' # row)

FairSpec == Spec /\ Fairness

-----------------------------------------------------------------------------
(* Properties. *)

Workspaces ==
    [life : {"ready", "archived"}, fence : 0..MaxFence, pending : 0..MaxFence,
     wake : BOOLEAN, fenceRequired : BOOLEAN, gen : Gens, enrolled : BOOLEAN,
     online : BOOLEAN, machine : Incarnations, used : SUBSET Incarnations]
Stages == {"idle", "routed", "reserved", "ready", "blocked", "destroyed",
           "block", "unblock", "unblocked"}
Requests_ == [at : Stages, cmd : Commands \cup {NoCommand}]
LeaseRequests == [at : {"idle", "routed", "policied", "drain", "fence"}, inc : Incarnations,
                  fence : 0..MaxFence, wake : {"none", "current", "old"}, pay : BOOLEAN]
Leases == [inc : Incarnations, cmd : Commands, token : Nat, sending : BOOLEAN]
Acks == [inc : Incarnations, cmd : Commands, token : Nat, state : Answers]

\* Every variable holds a value the code's rows, records and maps can hold.
TypeOK ==
    /\ row \in [Commands -> Rows]
    /\ box \in [seq : Nat, gen : 0..MaxGen, fence : 0..MaxFence, life : 0..MaxFence,
                inc : Incarnations \cup {NoIncarnation}]
    /\ wake \in [due : BOOLEAN,
                 flight : {"idle", "calling", "called"}, moved : BOOLEAN]
    /\ ws \in Workspaces
    /\ billing \in BOOLEAN /\ holds \in 0..MaxBilling
    /\ sealed \in [Commands -> 0..NotSealed]
    /\ req \in [Requests -> Requests_]
    /\ lreq \in [Gens -> LeaseRequests]
    /\ outbox \in [fence : 0..MaxFence, done : BOOLEAN]
    /\ up \in [Incarnations -> 0..MaxGen]
    /\ held \in SUBSET Leases
    /\ acks \in SUBSET Acks /\ net \in SUBSET Acks
    /\ receipts \in SUBSET (Incarnations \X Commands)

\* The command's fate as its author can know it (packages/contracts
\* cloud-commands: a state is final) against what the storages did.
FateOf(c) == [granted  |-> IF row[c].ever THEN {row[c].inc} ELSE {},
              executed |-> {i \in Incarnations : <<i, c>> \in receipts},
              verdict  |-> IF Ended(row[c]) THEN row[c].state ELSE "none"]

Fate == INSTANCE CommandFate WITH fate <- [c \in Commands |-> FateOf(c)]

\* Whatever is lost, repeated, late, restarted or replaced, every command is
\* applied at most once and never gets a verdict its storage contradicts.
KeepsFate == Fate!Spec

\* A storage applies the commands of one lane in the order the mailbox
\* accepted them, although leases expire and are handed out again.
LaneOrder ==
    [][\A s \in receipts' \ receipts :
          ~\E c \in Commands : /\ LaneOf[c] = LaneOf[s[2]]
                               /\ row[c].seq > row[s[2]].seq
                               /\ <<s[1], c>> \in receipts]_vars

\* While an accepted command is undecided and its workspace was not archived
\* under it, the control plane knows that a wake is pending: no drain that
\* races an enqueue lets the workspace go to sleep on the command.
WakeNotLost ==
    \A c \in Commands :
        /\ Open(row[c]) /\ row[c].state # "reserved"
        /\ row[c].env = ws.fence
        => ws.wake

\* Once the control plane regards an archive as delivered, nothing sealed
\* before it can be leased any more; at most a lease already out is awaited.
ArchiveReachesMailbox ==
    ws.pending = 0 =>
        \A c \in Commands : Open(row[c]) /\ row[c].env < ws.fence
                              => row[c].state = "leased" /\ row[c].fenced

\* An accepted command is decided, if billing and the workspace stay available.
EventuallyDecided ==
    <>[](billing /\ ws.life = "ready")
        => \A c \in Commands :
              (Open(row[c]) /\ row[c].state # "reserved") ~> Ended(row[c])
=============================================================================
