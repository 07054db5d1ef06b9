------------------------- MODULE CloudCommandsProofs -------------------------
(***************************************************************************)
(* Proofs about CloudCommands for every set of commands, requests and      *)
(* storages and every bound: type correctness, the refinement of           *)
(* CommandFate, that neither a wake nor an archive is lost, and that the   *)
(* commands of a lane are applied in order.                                *)
(*                                                                         *)
(* A mailbox call transforms every row.  The first part shows what each    *)
(* row transformation preserves, the second what each mailbox operation    *)
(* does; the theorems then only follow rows through the actions.           *)
(***************************************************************************)
EXTENDS CloudCommands, FiniteSetTheorems, TLAPS

-----------------------------------------------------------------------------
(* Rows of the mailbox. *)

\* A row's lease fields agree with its state: a token is set exactly while a
\* lease is out or awaits its fence, and it is the last one issued; a command
\* that was offered once is never blocked, cancelled or merely accepted again.
RowOK(r) ==
    /\ r \in Rows
    /\ r.token = IF r.state \in {"leased", "awaiting-fence"} THEN r.issued ELSE 0
    /\ r.ever => /\ r.issued > 0
                 /\ r.inc \in Incarnations
                 /\ r.state \in {"leased", "awaiting-fence", "waiting-for-runtime",
                                 "applied", "rejected", "outcome-unknown"}
                 /\ r.state \in {"awaiting-fence", "waiting-for-runtime"} => r.late
    /\ ~r.ever => /\ r.issued = 0
                  /\ r.inc = NoIncarnation
                  /\ r.state \in {"absent", "reserved", "accepted", "blocked",
                                  "waiting-for-runtime", "cancelled"}

\* A row changes without being offered or answered: what is known of leases
\* stays, and if it ends it ends as its history demands.
Evolves(r, s) ==
    /\ s.ever = r.ever /\ s.inc = r.inc /\ s.issued = r.issued
    /\ Ended(r) => s.state = r.state
    /\ Ended(s) /\ ~Ended(r) =>
          s.state = IF r.ever THEN "outcome-unknown" ELSE "cancelled"
    /\ r.state # "absent" => /\ s.state # "absent"
                             /\ s.env = r.env /\ s.seq = r.seq
                             /\ r.late => s.late

\* ... and is not committed either.
Quiet(r, s) ==
    /\ Evolves(r, s)
    /\ r.state \in {"absent", "reserved"}
         => s.state \in {"absent", "reserved", "cancelled"}

\* Below the fence only a lease that is out and marked is still open.
Fenced(r, f) == Open(r) /\ r.env < f => r.state = "leased" /\ r.fenced

LEMMA RowDefs ==
    ASSUME NEW r, RowOK(r)
    PROVE  /\ Ended(r) <=> r.state \in {"applied", "rejected", "cancelled", "outcome-unknown"}
           /\ Open(r) <=> r.state \in {"leased", "awaiting-fence", "waiting-for-runtime",
                                       "reserved", "accepted", "blocked"}
BY DEF RowOK, Rows, States, Terminal, Waiting, Ended, Open

LEMMA QuietSelf ==
    ASSUME NEW r PROVE Quiet(r, r)
BY DEF Quiet, Evolves, Ended

LEMMA QuietTwice ==
    ASSUME NEW r, NEW s, NEW t, Quiet(r, s), Quiet(s, t)
    PROVE  Quiet(r, t)
BY DEF Quiet, Evolves, Ended, Terminal

LEMMA NoRowOK == RowOK(NoRow)
BY MailboxConstants DEF RowOK, Rows, NoRow, States, Terminal, Waiting

LEMMA GiveUpOK ==
    ASSUME NEW r, RowOK(r), Open(r)
    PROVE  RowOK(GiveUp(r)) /\ Quiet(r, GiveUp(r)) /\ Ended(GiveUp(r))
BY DEF RowOK, Rows, States, Terminal, Waiting, Ended, Open, Evolves, Quiet, GiveUp

LEMMA BelowFenceOK ==
    ASSUME NEW r, RowOK(r), NEW f \in Nat
    PROVE  /\ RowOK(BelowFence(r, f)) /\ Quiet(r, BelowFence(r, f))
           /\ Fenced(BelowFence(r, f), f)
<1>1. CASE Open(r) /\ r.env < f /\ r.state = "leased" /\ ~r.late
  BY <1>1 DEF RowOK, Rows, States, Terminal, Waiting, Ended, Evolves, Quiet, Fenced,
              BelowFence, Terminalize
<1>2. CASE Open(r) /\ r.env < f /\ ~(r.state = "leased" /\ ~r.late)
  BY <1>2, GiveUpOK DEF BelowFence, Terminalize, Fenced, Open
<1>3. CASE ~(Open(r) /\ r.env < f)
  BY <1>3, QuietSelf DEF BelowFence, Fenced
<1>4. QED
  BY <1>1, <1>2, <1>3

LEMMA ObserveOK ==
    ASSUME NEW r, RowOK(r), NEW f \in Nat, box.fence \in Nat
    PROVE  /\ RowOK(Observe(r, f)) /\ Quiet(r, Observe(r, f))
           /\ Fenced(r, box.fence) /\ f >= box.fence => Fenced(Observe(r, f), f)
BY BelowFenceOK, QuietSelf DEF Observe, Fenced

LEMMA ExpireOK ==
    ASSUME NEW r, RowOK(r), NEW f
    PROVE  /\ RowOK(Expire(r)) /\ Quiet(r, Expire(r))
           /\ Fenced(r, f) => Fenced(Expire(r), f)
<1>1. CASE r.state = "leased" /\ r.late /\ r.fenced
  <2>1. Open(r)
    BY <1>1 DEF Open, Ended, Terminal
  <2>2. QED
    BY <1>1, <2>1, GiveUpOK DEF Expire, Fenced, Open
<1>2. CASE r.state = "leased" /\ r.late /\ ~r.fenced
  <2>1. RowOK(Expire(r))
    BY <1>2 DEF RowOK, Rows, States, Terminal, Waiting, Expire
  <2>2. Quiet(r, Expire(r))
    BY <1>2 DEF RowOK, Rows, States, Terminal, Waiting, Ended, Evolves, Quiet, Expire
  <2>3. Fenced(r, f) => Fenced(Expire(r), f)
    BY <1>2 DEF RowOK, Rows, Terminal, Ended, Fenced, Open, Expire
  <2>4. QED
    BY <2>1, <2>2, <2>3
<1>3. CASE ~(r.state = "leased" /\ r.late)
  BY <1>3, QuietSelf DEF Expire
<1>4. QED
  BY <1>1, <1>2, <1>3

LEMMA OrphanedOK ==
    ASSUME NEW r, RowOK(r), NEW i, NEW f
    PROVE  /\ RowOK(Orphaned(r, i)) /\ Quiet(r, Orphaned(r, i))
           /\ Fenced(r, f) => Fenced(Orphaned(r, i), f)
           /\ box.inc \notin {NoIncarnation, i} /\ r.ever => ~Open(Orphaned(r, i))
BY GiveUpOK, QuietSelf DEF Orphaned, Fenced, Open

LEMMA RequeuedOK ==
    ASSUME NEW r, RowOK(r), NEW g, NEW i, NEW f
    PROVE  /\ RowOK(Requeued(r, g, i)) /\ Quiet(r, Requeued(r, g, i))
           /\ Fenced(r, f) => Fenced(Requeued(r, g, i), f)
           /\ Open(Requeued(r, g, i)) => Open(r)
<1>1. CASE r.state = "awaiting-fence" /\ r.inc = i /\ r.gen < g
  <2>1. RowOK(Requeued(r, g, i))
    BY <1>1 DEF RowOK, Rows, States, Terminal, Waiting, Requeued
  <2>2. Quiet(r, Requeued(r, g, i))
    BY <1>1 DEF RowOK, Rows, Terminal, Ended, Evolves, Quiet, Requeued
  <2>3. Open(r)
    BY <1>1 DEF Open, Ended, Terminal
  <2>4. Requeued(r, g, i).env = r.env
    BY <1>1 DEF RowOK, Rows, Requeued
  <2>5. QED
    BY <1>1, <2>1, <2>2, <2>3, <2>4 DEF Fenced
<1>2. CASE ~(r.state = "awaiting-fence" /\ r.inc = i /\ r.gen < g)
  BY <1>2, QuietSelf DEF Requeued
<1>3. QED
  BY <1>1, <1>2

LEMMA LapsedOK ==
    ASSUME NEW r, RowOK(r), NEW f
    PROVE  /\ RowOK(Lapsed(r)) /\ Quiet(r, Lapsed(r))
           /\ Fenced(r, f) => Fenced(Lapsed(r), f)
BY DEF RowOK, Rows, States, Terminal, Waiting, Ended, Open, Evolves, Quiet, Fenced, Lapsed

\* A waiting row is offered to the runtime of generation g on storage i.
LEMMA OfferOK ==
    ASSUME NEW r, RowOK(r), r.state \in Waiting, NEW g \in Nat, NEW i \in Incarnations,
           NEW f
    PROVE  /\ RowOK(Offer(r, g, i)) /\ Open(Offer(r, g, i))
           /\ Offer(r, g, i).ever /\ Offer(r, g, i).inc = i
           /\ Offer(r, g, i).issued = r.issued + 1
           /\ Offer(r, g, i).env = r.env /\ Offer(r, g, i).seq = r.seq
           /\ Offer(r, g, i).state = "leased"
           /\ Fenced(r, f) => Fenced(Offer(r, g, i), f)
<1> DEFINE s == Offer(r, g, i)
<1>1. r \in Rows /\ r.issued \in Nat
  BY DEF RowOK, Rows
<1>2. /\ s.state = "leased" /\ s.ever /\ s.inc = i /\ s.issued = r.issued + 1
      /\ s.token = r.issued + 1 /\ s.env = r.env /\ s.seq = r.seq
  <2>1. s.state = "leased" /\ s.inc = i
    BY <1>1 DEF Offer, Rows
  <2>2. s.ever
    BY <1>1 DEF Offer, Rows
  <2>3. s.issued = r.issued + 1 /\ s.token = r.issued + 1
    BY <1>1 DEF Offer, Rows
  <2>4. s.env = r.env /\ s.seq = r.seq
    BY <1>1 DEF Offer, Rows
  <2>5. QED
    BY <2>1, <2>2, <2>3, <2>4
<1>3. s \in Rows
  <2> DEFINE n == r.issued + 1
             a == [r EXCEPT !.state = "leased", !.ever = TRUE, !.token = n]
             b == [a EXCEPT !.issued = n, !.gen = g]
             d == [b EXCEPT !.inc = i, !.late = FALSE]
  <2>1. n \in Nat
    BY <1>1
  <2> HIDE DEF n
  <2>2. a \in Rows
    BY <1>1, <2>1 DEF Rows, States
  <2> HIDE DEF a
  <2>3. b \in Rows
    BY <2>1, <2>2 DEF Rows
  <2> HIDE DEF b
  <2>4. d \in Rows
    BY <2>3 DEF Rows
  <2>5. QED
    BY <2>4 DEF Offer, n, a, b
<1>4. RowOK(s)
  BY <1>1, <1>2, <1>3 DEF RowOK
<1>5. Open(s) /\ Open(r) /\ r.state # "leased"
  BY <1>2 DEF Open, Ended, Terminal, Waiting
<1>6. QED
  BY <1>2, <1>4, <1>5 DEF Fenced

\* An answer under token t either changes nothing or settles an open lease.
LEMMA AnsweredOK ==
    ASSUME NEW r, RowOK(r), NEW t, NEW s \in Answers, NEW f
    PROVE  /\ RowOK(Answered(r, t, s))
           /\ Fenced(r, f) => Fenced(Answered(r, t, s), f)
           /\ \/ Quiet(r, Answered(r, t, s))
              \/ /\ Open(r) /\ r.state # "reserved" /\ r.ever /\ t = r.issued
                 /\ Answered(r, t, s).state = s
                 /\ Answered(r, t, s).ever = r.ever
                 /\ Answered(r, t, s).inc = r.inc
                 /\ Answered(r, t, s).issued = r.issued
                 /\ Answered(r, t, s).env = r.env
                 /\ Answered(r, t, s).seq = r.seq
                 /\ Answered(r, t, s).late = r.late
<1>1. CASE r.state \in {"leased", "awaiting-fence"} /\ r.token = t
  <2> DEFINE a == Answered(r, t, s)
  <2>1. r \in Rows /\ Open(r) /\ r.ever /\ t = r.issued
    BY <1>1 DEF RowOK, Open, Ended, Terminal
  <2>2. /\ a.state = s /\ a.ever = r.ever /\ a.inc = r.inc /\ a.issued = r.issued
        /\ a.env = r.env /\ a.seq = r.seq /\ a.late = r.late /\ a.token = 0
    BY <1>1, <2>1 DEF Answered, Rows
  <2>3. a \in Rows
    BY <1>1, <2>1 DEF Answered, Rows, States, Terminal, Answers
  <2>4. RowOK(a)
    BY <2>1, <2>2, <2>3 DEF RowOK, Answers
  <2>5. ~Open(a)
    BY <2>2 DEF Open, Ended, Terminal, Answers
  <2>6. QED
    BY <1>1, <2>1, <2>2, <2>4, <2>5 DEF Fenced
<1>2. CASE ~(r.state \in {"leased", "awaiting-fence"} /\ r.token = t)
  BY <1>2, QuietSelf DEF Answered
<1>3. QED
  BY <1>1, <1>2

-----------------------------------------------------------------------------
(* Operations of the mailbox. *)

Boxes == [seq : Nat, gen : 0..MaxGen, fence : 0..MaxFence, life : 0..MaxFence,
          inc : Incarnations \cup {NoIncarnation}]
Wakes == [due : BOOLEAN, flight : {"idle", "calling", "called"}, moved : BOOLEAN]

RowsOK == /\ row \in [Commands -> Rows]
          /\ \A c \in Commands : RowOK(row[c])
MailboxOK == RowsOK /\ box \in Boxes /\ wake \in Wakes

AllQuiet == \A c \in Commands : Quiet(row[c], row'[c])
AllFenced == \A c \in Commands : Fenced(row[c], box.fence)

\* What most operations do: no command is offered, answered or committed.
QuietStep == /\ MailboxOK'
             /\ AllQuiet
             /\ box'.inc = box.inc /\ box'.fence >= box.fence
             /\ box.life <= box.fence => box'.life <= box'.fence
             /\ box.fence <= ws.fence => box'.fence <= ws.fence
             /\ AllFenced => AllFenced'

LEMMA ArmOK == ASSUME wake \in Wakes PROVE Arm \in Wakes
BY DEF Arm, Wakes

LEMMA SameMailbox ==
    ASSUME MailboxOK, UNCHANGED mailboxVars PROVE QuietStep
<1>1. RowsOK'
  BY DEF MailboxOK, RowsOK, mailboxVars
<1>2. AllQuiet
  BY QuietSelf DEF AllQuiet, mailboxVars
<1>3. QED
  BY <1>1, <1>2 DEF MailboxOK, QuietStep, Boxes, AllFenced, mailboxVars

\* A handler that only transforms rows.
LEMMA OnlyRows ==
    ASSUME MailboxOK, UNCHANGED box, wake' \in Wakes,
           row' = [c \in Commands |-> row'[c]],
           \A c \in Commands : /\ RowOK(row'[c]) /\ Quiet(row[c], row'[c])
                               /\ Fenced(row[c], box.fence) => Fenced(row'[c], box.fence)
    PROVE  QuietStep
<1>1. \A c \in Commands : row'[c] \in Rows
  BY DEF RowOK
<1>2. RowsOK'
  BY <1>1 DEF RowsOK
<1>3. QED
  BY <1>2 DEF MailboxOK, QuietStep, AllQuiet, AllFenced, Boxes

LEMMA ReserveOK ==
    ASSUME MailboxOK, NEW c \in Commands, NEW f \in 0..MaxFence, f <= ws.fence,
           Reserve(c, f)
    PROVE  /\ QuietStep
           /\ \A d \in Commands : row[d].state = "absent" /\ row'[d].state # "absent"
                => d = c /\ row'[d].env = f
           /\ Reserved(c, f) => row'[c].state # "absent"
<1> DEFINE seen == [d \in Commands |-> Observe(row[d], f)]
           room == row[c].state = "absent" /\ NonterminalCount(seen) < MaxNonterminal
           n == box.seq + 1
           m == IF room THEN n ELSE box.seq
           new == [NoRow EXCEPT !.state = "reserved", !.seq = n, !.env = f]
<1>0. /\ \A d \in Commands : RowOK(row[d])
      /\ box \in Boxes /\ box.fence \in Nat /\ f \in Nat /\ f >= box.fence
      /\ row \in [Commands -> Rows]
  BY CloudConstants DEF MailboxOK, RowsOK, Boxes, Reserve, ReserveStale
<1>1. \A d \in Commands : /\ RowOK(seen[d]) /\ Quiet(row[d], seen[d])
                          /\ Fenced(row[d], box.fence) => Fenced(seen[d], f)
  BY <1>0, ObserveOK
<1>16. n \in Nat /\ m \in Nat
  BY <1>0 DEF Boxes
<1>6. row' = IF room THEN [seen EXCEPT ![c] = new] ELSE seen
  BY DEF Reserve
<1>7. /\ box' = [box EXCEPT !.fence = f, !.seq = m]
      /\ wake' = wake
  BY DEF Reserve
<1> HIDE DEF n, m
<1>2. /\ new \in Rows /\ new.state = "reserved" /\ new.ever = FALSE /\ new.issued = 0
      /\ new.inc = NoIncarnation /\ new.token = 0 /\ new.env = f
  <2>1. NoRow \in Rows
    BY NoRowOK DEF RowOK
  <2>2. new \in Rows
    BY <1>0, <1>16, <2>1 DEF Rows, States
  <2>3. QED
    BY <2>2 DEF NoRow
<1>3. RowOK(new)
  BY <1>2 DEF RowOK
<1>4. room => Quiet(row[c], new)
  <2> HIDE DEF new
  <2>1. SUFFICES ASSUME room PROVE Quiet(row[c], new)
    OBVIOUS
  <2>2. row[c].state = "absent" /\ RowOK(row[c])
    BY <1>0, <2>1
  <2>3. ~row[c].ever /\ row[c].issued = 0 /\ row[c].inc = NoIncarnation
        /\ row[c].ever = FALSE
    BY <2>2 DEF RowOK, Rows
  <2>4. ~Ended(row[c]) /\ ~Ended(new)
    BY <2>2, <1>2 DEF Ended, Terminal
  <2>5. QED
    BY <1>2, <2>2, <2>3, <2>4 DEF Quiet, Evolves
<1>5. Fenced(new, f)
  BY <1>0, <1>2 DEF Fenced
<1> HIDE DEF new
<1>8. \A d \in Commands : /\ RowOK(row'[d]) /\ Quiet(row[d], row'[d])
                          /\ Fenced(row[d], box.fence) => Fenced(row'[d], f)
  <2>1. CASE room
    <3>1. \A d \in Commands : row'[d] = IF d = c THEN new ELSE seen[d]
      BY <2>1, <1>6
    <3>2. QED
      BY <2>1, <3>1, <1>1, <1>3, <1>4, <1>5
  <2>2. CASE ~room
    BY <2>2, <1>6, <1>1
  <2>3. QED
    BY <2>1, <2>2
<1>9. row' \in [Commands -> Rows]
  <2>1. \A d \in Commands : seen[d] \in Rows
    BY <1>1 DEF RowOK
  <2>2. QED
    BY <2>1, <1>2, <1>6
<1>10. box' \in Boxes /\ box'.inc = box.inc /\ box'.fence = f /\ box'.life = box.life
  BY <1>0, <1>16, <1>7 DEF Boxes
<1>11. QuietStep
  <2>1. box.life <= box.fence => box'.life <= box'.fence
    BY <1>0, <1>10 DEF Boxes
  <2>2. QED
    BY <1>0, <1>7, <1>8, <1>9, <1>10, <2>1
       DEF QuietStep, MailboxOK, RowsOK, AllQuiet, AllFenced
<1>12. \A d \in Commands : row[d].state = "absent" => seen[d] = row[d]
  BY DEF Observe, BelowFence, Open
<1>13. \A d \in Commands : row[d].state = "absent" /\ row'[d].state # "absent"
                => d = c /\ row'[d].env = f
  BY <1>2, <1>6, <1>12
<1>14. Reserved(c, f) => row'[c].state # "absent"
  <2>1. CASE room
    BY <2>1, <1>2, <1>6
  <2>2. CASE row[c].state # "absent"
    BY <2>2, <1>8 DEF Quiet, Evolves
  <2>3. QED
    BY <2>1, <2>2 DEF Reserved
<1>15. QED
  BY <1>10, <1>11, <1>13, <1>14

\* Committing is the one operation that accepts a reserved command.
LEMMA CommitOK ==
    ASSUME MailboxOK, NEW c \in Commands, NEW hold \in BOOLEAN, Commit(c, hold)
    PROVE  /\ MailboxOK' /\ box' = box
           /\ \A d \in Commands : Evolves(row[d], row'[d])
           /\ \A d \in Commands \ {c} : row'[d] = row[d]
           /\ row[c].state # "absent"
           /\ ~Open(row[c]) => row'[c] = row[c]
           /\ AllFenced => AllFenced'
<1>0. RowOK(row[c]) /\ row[c] \in Rows /\ row \in [Commands -> Rows]
  BY DEF MailboxOK, RowsOK
<1>1. CASE row[c].state = "reserved"
  <2> DEFINE s == IF hold THEN "blocked" ELSE "accepted"
             new == [row[c] EXCEPT !.state = s]
  <2>1. /\ new \in Rows /\ new.state = s /\ new.ever = row[c].ever
        /\ new.issued = row[c].issued /\ new.inc = row[c].inc
        /\ new.token = row[c].token /\ new.env = row[c].env
    BY <1>0 DEF Rows, States, Waiting
  <2>2. RowOK(new)
    BY <1>0, <1>1, <2>1 DEF RowOK
  <2>3. Evolves(row[c], new)
    BY <1>0, <1>1, <2>1 DEF Evolves, Ended, Terminal
  <2>4. Open(row[c])
    BY <1>1 DEF Open, Ended, Terminal
  <2>5. row' = [row EXCEPT ![c] = new] /\ wake' = Arm /\ box' = box
    BY <1>1 DEF Commit
  <2>6. \A f : Fenced(row[c], f) => Fenced(new, f)
    BY <1>1, <2>1, <2>4 DEF Fenced
  <2> HIDE DEF new
  <2>7. /\ row'[c] = new /\ row' \in [Commands -> Rows]
        /\ \A d \in Commands \ {c} : row'[d] = row[d]
    BY <1>0, <2>1, <2>5
  <2>8. \A d \in Commands : Evolves(row[d], row'[d])
    BY <2>3, <2>7, QuietSelf DEF Quiet
  <2>9. MailboxOK'
    BY <2>2, <2>5, <2>7, ArmOK DEF MailboxOK, RowsOK
  <2>10. AllFenced => AllFenced'
    BY <2>5, <2>6, <2>7 DEF AllFenced
  <2>11. QED
    BY <1>1, <2>4, <2>5, <2>7, <2>8, <2>9, <2>10
<1>2. CASE row[c].state # "reserved"
  <2>1. UNCHANGED mailboxVars /\ row[c].state # "absent"
    BY <1>2 DEF Commit, mailboxVars
  <2>2. QuietStep
    BY <2>1, SameMailbox
  <2>3. QED
    BY <2>1, <2>2 DEF QuietStep, AllQuiet, Quiet, mailboxVars
<1>3. QED
  BY <1>1, <1>2

LEMMA BlockOK == ASSUME MailboxOK, Block PROVE QuietStep
<1>1. ASSUME NEW c \in Commands
      PROVE  /\ RowOK(row'[c]) /\ Quiet(row[c], row'[c])
             /\ Fenced(row[c], box.fence) => Fenced(row'[c], box.fence)
  <2>0. RowOK(row[c])
    BY DEF MailboxOK, RowsOK
  <2>1. CASE ~row[c].ever /\ row[c].state \in Waiting
    <3>1. row'[c] = [row[c] EXCEPT !.state = "blocked"]
      BY <2>1 DEF Block
    <3> HIDE DEF Block
    <3>2. RowOK(row'[c])
      BY <2>0, <2>1, <3>1 DEF RowOK, Rows, States, Terminal, Waiting
    <3>3. Quiet(row[c], row'[c]) /\ row'[c].env = row[c].env
      BY <2>0, <2>1, <3>1 DEF RowOK, Rows, Terminal, Waiting, Quiet, Evolves, Ended
    <3>4. Open(row[c]) /\ row[c].state # "leased"
      BY <2>1 DEF Open, Ended, Terminal, Waiting
    <3>5. QED
      BY <3>2, <3>3, <3>4 DEF Fenced
  <2>2. CASE ~(~row[c].ever /\ row[c].state \in Waiting)
    BY <2>0, <2>2, QuietSelf DEF Block
  <2>3. QED
    BY <2>1, <2>2
<1>2. row' = [c \in Commands |-> row'[c]] /\ UNCHANGED box /\ wake' \in Wakes
  BY DEF Block, MailboxOK
<1>3. QED
  BY <1>1, <1>2, OnlyRows

LEMMA UnblockOK == ASSUME MailboxOK, Unblock PROVE QuietStep
<1>1. ASSUME NEW c \in Commands
      PROVE  /\ RowOK(row'[c]) /\ Quiet(row[c], row'[c])
             /\ Fenced(row[c], box.fence) => Fenced(row'[c], box.fence)
  <2>0. RowOK(row[c])
    BY DEF MailboxOK, RowsOK
  <2>1. CASE row[c].state = "blocked"
    <3>1. row'[c] = [row[c] EXCEPT !.state = "waiting-for-runtime"]
      BY <2>1 DEF Unblock
    <3>2. RowOK(row'[c])
      BY <2>0, <2>1, <3>1 DEF RowOK, Rows, States, Terminal, Waiting
    <3>3. Quiet(row[c], row'[c]) /\ row'[c].env = row[c].env
      BY <2>0, <2>1, <3>1 DEF RowOK, Rows, Terminal, Quiet, Evolves, Ended
    <3>4. Open(row[c])
      BY <2>1 DEF Open, Ended, Terminal
    <3>5. QED
      BY <2>1, <3>2, <3>3, <3>4 DEF Fenced
  <2>2. CASE row[c].state # "blocked"
    BY <2>0, <2>2, QuietSelf DEF Unblock
  <2>3. QED
    BY <2>1, <2>2
<1>2. row' = [c \in Commands |-> row'[c]] /\ UNCHANGED box /\ wake' \in Wakes
  BY ArmOK DEF Unblock, MailboxOK
<1>3. QED
  BY <1>1, <1>2, OnlyRows

\* The rows a cancel or the passing of a deadline leaves alone.
LEMMA OneRow ==
    ASSUME MailboxOK, NEW c \in Commands, NEW new, row' = [row EXCEPT ![c] = new],
           UNCHANGED <<box, wake>>, RowOK(new), Quiet(row[c], new),
           Fenced(row[c], box.fence) => Fenced(new, box.fence)
    PROVE  QuietStep
<1>1. row \in [Commands -> Rows]
  BY DEF MailboxOK, RowsOK
<1>2. \A d \in Commands : row'[d] = IF d = c THEN new ELSE row[d]
  BY <1>1
<1>3. row' = [d \in Commands |-> row'[d]]
  BY <1>1
<1>4. \A d \in Commands : /\ RowOK(row'[d]) /\ Quiet(row[d], row'[d])
                          /\ Fenced(row[d], box.fence) => Fenced(row'[d], box.fence)
  BY <1>2, QuietSelf DEF MailboxOK, RowsOK
<1>5. wake' \in Wakes /\ box' = box
  BY DEF MailboxOK
<1>6. QED
  BY <1>3, <1>4, <1>5, OnlyRows

LEMMA CancelOK ==
    ASSUME MailboxOK, NEW c \in Commands, Cancel(c) PROVE QuietStep
<1>0. RowOK(row[c])
  BY DEF MailboxOK, RowsOK
<1>1. CASE Cancellable(row[c])
  <2> DEFINE new == [row[c] EXCEPT !.state = "cancelled"]
  <2>1. row' = [row EXCEPT ![c] = new] /\ UNCHANGED <<box, wake>>
    BY <1>1 DEF Cancel
  <2>2. RowOK(new)
    BY <1>0, <1>1 DEF Cancellable, RowOK, Rows, States, Terminal, Waiting
  <2>3. Quiet(row[c], new)
    BY <1>0, <1>1 DEF Cancellable, RowOK, Rows, Terminal, Waiting, Quiet, Evolves, Ended
  <2>4. ~Open(new)
    BY <1>0 DEF RowOK, Rows, Open, Ended, Terminal
  <2> HIDE DEF new
  <2>5. QED
    BY <2>1, <2>2, <2>3, <2>4, OneRow DEF Fenced
<1>2. CASE ~Cancellable(row[c])
  BY <1>2, SameMailbox DEF Cancel, mailboxVars
<1>3. QED
  BY <1>1, <1>2

LEMMA DeadlineOK ==
    ASSUME MailboxOK, NEW c \in Commands, DeadlinePasses(c) PROVE QuietStep
<1> DEFINE new == [row[c] EXCEPT !.late = TRUE]
<1>0. RowOK(row[c])
  BY DEF MailboxOK, RowsOK
<1>1. row' = [row EXCEPT ![c] = new] /\ UNCHANGED <<box, wake>>
  BY DEF DeadlinePasses
<1>2. new \in Rows /\ new.state = row[c].state /\ new.ever = row[c].ever
      /\ new.inc = row[c].inc /\ new.issued = row[c].issued /\ new.env = row[c].env
      /\ new.token = row[c].token /\ new.fenced = row[c].fenced
      /\ new.seq = row[c].seq /\ new.late
  BY <1>0 DEF RowOK, Rows
<1> HIDE DEF new
<1>3. RowOK(new)
  BY <1>0, <1>2 DEF RowOK
<1>4. Quiet(row[c], new)
  BY <1>2 DEF Quiet, Evolves, Ended
<1>5. Fenced(row[c], box.fence) => Fenced(new, box.fence)
  BY <1>2 DEF Fenced, Open, Ended
<1>6. QED
  BY <1>1, <1>3, <1>4, <1>5, OneRow

LEMMA LifecycleOK ==
    ASSUME MailboxOK, NEW f \in 0..MaxFence, f <= ws.fence, box.life <= box.fence,
           Lifecycle(f)
    PROVE  QuietStep /\ f <= box'.fence
<1>0. f \in Nat /\ box \in Boxes /\ box.fence \in Nat /\ box.life \in Nat
  BY CloudConstants DEF MailboxOK, Boxes
<1>1. CASE f > box.life /\ f >= box.fence
  <2>1. /\ row' = [c \in Commands |-> BelowFence(row[c], f)]
        /\ box' = [box EXCEPT !.fence = f, !.life = f] /\ wake' = wake
    BY <1>1 DEF Lifecycle
  <2>2. \A c \in Commands : /\ RowOK(row'[c]) /\ Quiet(row[c], row'[c])
                            /\ Fenced(row'[c], f)
    BY <1>0, <2>1, BelowFenceOK DEF MailboxOK, RowsOK
  <2>3. row' \in [Commands -> Rows]
    BY <2>1, <2>2 DEF RowOK
  <2>4. /\ box' \in Boxes /\ box'.fence = f /\ box'.life = f /\ box'.inc = box.inc
    BY <1>0, <2>1 DEF Boxes
  <2>5. QuietStep
    BY <1>0, <1>1, <2>1, <2>2, <2>3, <2>4
       DEF QuietStep, MailboxOK, RowsOK, AllQuiet, AllFenced
  <2>6. QED
    BY <1>0, <2>4, <2>5
<1>2. CASE ~(f > box.life /\ f >= box.fence)
  <2>1. row' = [c \in Commands |-> row[c]] /\ box' = box /\ wake' = wake
    BY <1>2 DEF Lifecycle
  <2>2. row' = row
    BY <2>1 DEF MailboxOK, RowsOK
  <2>3. QuietStep
    BY <2>1, <2>2, SameMailbox DEF mailboxVars
  <2>4. QED
    BY <1>0, <1>2, <2>1, <2>3
<1>3. QED
  BY <1>1, <1>2

LEMMA AlarmOK ==
    ASSUME MailboxOK, NEW S, Alarm(S) PROVE QuietStep
<1>1. \A c \in Commands : /\ RowOK(row'[c]) /\ Quiet(row[c], row'[c])
                          /\ Fenced(row[c], box.fence) => Fenced(row'[c], box.fence)
  BY LapsedOK, ExpireOK DEF Alarm, MailboxOK, RowsOK
<1>2. row' = [c \in Commands |-> row'[c]] /\ UNCHANGED box
  BY DEF Alarm
<1>3. wake' \in Wakes
  BY DEF Alarm, MailboxOK, Wakes
<1>4. QED
  BY <1>1, <1>2, <1>3, OnlyRows

\* The dispatch of a wake touches the wake marker only.
LEMMA OnlyWake ==
    ASSUME MailboxOK, UNCHANGED <<row, box>>, wake' \in Wakes PROVE QuietStep
<1>1. row' = [c \in Commands |-> row'[c]]
  BY DEF MailboxOK, RowsOK
<1>2. \A c \in Commands : RowOK(row'[c]) /\ row'[c] = row[c]
  BY DEF MailboxOK, RowsOK
<1>3. QED
  BY <1>1, <1>2, QuietSelf, OnlyRows

\* An acknowledgment is one answer to one row; every other row is only expired.
LEMMA AcknowledgeOK ==
    ASSUME MailboxOK, NEW c \in Commands, NEW t, NEW s \in Answers, Acknowledge(c, t, s)
    PROVE  /\ MailboxOK' /\ box' = box /\ (AllFenced => AllFenced')
           /\ \A d \in Commands :
                \/ Quiet(row[d], row'[d])
                \/ /\ d = c /\ Open(row[d]) /\ row[d].state # "reserved" /\ row[d].ever
                   /\ t = row[d].issued /\ row'[d].state = s /\ row'[d].ever
                   /\ row'[d].inc = row[d].inc /\ row'[d].issued = row[d].issued
                   /\ row'[d].env = row[d].env /\ row'[d].seq = row[d].seq
                   /\ row[d].late => row'[d].late
<1>1. \A d \in Commands : RowOK(row[d]) /\ RowOK(Expire(row[d])) /\ Quiet(row[d], Expire(row[d]))
                          /\ \A f : Fenced(row[d], f) => Fenced(Expire(row[d]), f)
  BY ExpireOK DEF MailboxOK, RowsOK
<1>2. row' = [d \in Commands |-> IF d = c THEN Answered(Expire(row[d]), t, s)
                                          ELSE Expire(row[d])]
      /\ UNCHANGED <<box, wake>>
  BY DEF Acknowledge
<1>3. \A d \in Commands : RowOK(row'[d]) /\ (Fenced(row[d], box.fence) => Fenced(row'[d], box.fence))
  BY <1>1, <1>2, AnsweredOK
<1>4. row' \in [Commands -> Rows]
  BY <1>2, <1>3 DEF RowOK
<1>5. MailboxOK' /\ (AllFenced => AllFenced')
  BY <1>2, <1>3, <1>4 DEF MailboxOK, RowsOK, AllFenced
<1>6. ASSUME NEW d \in Commands
      PROVE  \/ Quiet(row[d], row'[d])
             \/ /\ d = c /\ Open(row[d]) /\ row[d].state # "reserved" /\ row[d].ever
                /\ t = row[d].issued /\ row'[d].state = s /\ row'[d].ever
                /\ row'[d].inc = row[d].inc /\ row'[d].issued = row[d].issued
                /\ row'[d].env = row[d].env /\ row'[d].seq = row[d].seq
                /\ row[d].late => row'[d].late
  <2> DEFINE e == Expire(row[d])
  <2>1. CASE row'[d] = e \/ Quiet(e, row'[d])
    BY <2>1, <1>1, QuietTwice
  <2>2. CASE /\ d = c /\ Open(e) /\ e.state # "reserved" /\ e.ever /\ t = e.issued
             /\ row'[d].state = s /\ row'[d].ever = e.ever /\ row'[d].inc = e.inc
             /\ row'[d].issued = e.issued /\ row'[d].env = e.env
             /\ row'[d].seq = e.seq /\ row'[d].late = e.late
    <3>1. Quiet(row[d], e) /\ RowOK(row[d])
      BY <1>1
    <3> HIDE DEF e
    <3>2. row[d].ever /\ t = row[d].issued /\ e.inc = row[d].inc /\ e.issued = row[d].issued
      BY <2>2, <3>1 DEF Quiet, Evolves
    <3>3. row[d].state \notin {"absent", "reserved"}
      BY <3>1, <3>2 DEF RowOK
    <3>4. /\ e.env = row[d].env /\ e.seq = row[d].seq /\ ~Ended(row[d])
          /\ row[d].late => e.late
      BY <2>2, <3>1, <3>3 DEF Quiet, Evolves, Open, Ended
    <3>5. QED
      BY <2>2, <3>2, <3>3, <3>4 DEF Open
  <2>3. d = c => row'[d] = Answered(e, t, s)
    BY <1>2
  <2>4. d # c => row'[d] = e
    BY <1>2
  <2>5. RowOK(e)
    BY <1>1
  <2> HIDE DEF e
  <2>6. \/ Quiet(e, Answered(e, t, s))
        \/ /\ Open(e) /\ e.state # "reserved" /\ e.ever /\ t = e.issued
           /\ Answered(e, t, s).state = s
           /\ Answered(e, t, s).ever = e.ever
           /\ Answered(e, t, s).inc = e.inc
           /\ Answered(e, t, s).issued = e.issued
           /\ Answered(e, t, s).env = e.env
           /\ Answered(e, t, s).seq = e.seq
           /\ Answered(e, t, s).late = e.late
    BY <2>5, AnsweredOK
  <2>7. CASE d = c
    BY <2>1, <2>2, <2>3, <2>6, <2>7
  <2>8. QED
    BY <2>1, <2>4, <2>7
<1>7. QED
  BY <1>2, <1>5, <1>6

\* The storage of every open offered command is the mailbox's storage.
OnePlace == \A c \in Commands : Open(row[c]) /\ row[c].ever => row[c].inc = box.inc

\* A row is offered to the runtime on storage i.
Offered(r, s, i) ==
    /\ Open(r) /\ r.state # "reserved"
    /\ r.ever => r.inc = i
    /\ s.ever /\ s.inc = i /\ s.issued = r.issued + 1
    /\ s.env = r.env /\ s.seq = r.seq /\ s.state = "leased"

LEMMA ObservedOK ==
    ASSUME MailboxOK, NEW g \in Gens, NEW i \in Incarnations, NEW f \in 0..MaxFence,
           f >= box.fence, NEW c \in Commands
    PROVE  /\ RowOK(Observed(g, i, f)[c]) /\ Quiet(row[c], Observed(g, i, f)[c])
           /\ AllFenced => Fenced(Observed(g, i, f)[c], f)
           /\ OnePlace /\ Open(Observed(g, i, f)[c]) /\ row[c].ever => row[c].inc = i
<1> DEFINE a == Expire(row[c])
           b == Observe(a, f)
           d == Orphaned(b, i)
           e == Requeued(d, g, i)
<1>0. /\ f \in Nat /\ box \in Boxes /\ box.fence \in Nat
      /\ RowOK(row[c]) /\ Observed(g, i, f)[c] = e
  BY CloudConstants DEF MailboxOK, RowsOK, Boxes, Observed
<1>1. /\ RowOK(a) /\ Quiet(row[c], a)
      /\ AllFenced => Fenced(a, box.fence)
  BY <1>0, ExpireOK DEF AllFenced
<1>2. RowOK(b) /\ Quiet(a, b) /\ (AllFenced => Fenced(b, f))
  BY <1>0, <1>1, ObserveOK
<1>3. /\ RowOK(d) /\ Quiet(b, d) /\ (AllFenced => Fenced(d, f))
      /\ box.inc \notin {NoIncarnation, i} /\ b.ever => ~Open(d)
  BY <1>2, OrphanedOK
<1>4. /\ RowOK(e) /\ Quiet(d, e) /\ (AllFenced => Fenced(e, f))
      /\ Open(e) => Open(d)
  BY <1>3, RequeuedOK
<1> HIDE DEF a, b, d, e
<1>5. Quiet(row[c], e) /\ Quiet(row[c], b)
  BY <1>1, <1>2, <1>3, <1>4, QuietTwice
<1>6. ASSUME OnePlace, Open(e), row[c].ever PROVE row[c].inc = i
  <2>1. b.ever
    BY <1>5, <1>6 DEF Quiet, Evolves
  <2>2. box.inc \in {NoIncarnation, i}
    BY <1>3, <1>4, <1>6, <2>1
  <2>3. Open(row[c])
    BY <1>0, <1>5, <1>6 DEF RowOK, Quiet, Evolves, Open, Ended
  <2>4. row[c].inc = box.inc /\ row[c].inc \in Incarnations
    BY <1>0, <1>6, <2>3 DEF OnePlace, RowOK
  <2>5. QED
    BY <2>2, <2>4, MailboxConstants
<1>7. QED
  BY <1>0, <1>4, <1>5, <1>6

\* What a lease call does to every row, and to the mailbox's metadata.
LEMMA LeaseOK ==
    ASSUME MailboxOK, OnePlace, NEW g \in Gens, NEW i \in Incarnations,
           NEW f \in 0..MaxFence, Lease(g, i, f)
    PROVE  /\ MailboxOK' /\ OnePlace' /\ (AllFenced => AllFenced')
           /\ box'.fence \in {box.fence, f} /\ box'.fence >= box.fence
           /\ box'.life = box.life
           /\ \A c \in Grants(g, i, f) : c \in Commands /\ Offered(row[c], row'[c], i)
           /\ \A c \in Commands \ Grants(g, i, f) : Quiet(row[c], row'[c])
<1>0. /\ f \in Nat /\ g \in Nat /\ g \in 0..MaxGen /\ box \in Boxes /\ box.fence \in Nat
      /\ row \in [Commands -> Rows]
      /\ \A c \in Commands : RowOK(row[c])
  BY CloudConstants DEF MailboxOK, RowsOK, Boxes, Gens
<1>1. wake' \in Wakes
  BY DEF Lease, MailboxOK
<1>2. CASE StaleGeneration(g) \/ StaleFence(f)
  <2>1. /\ row' = [c \in Commands |-> Expire(row[c])] /\ Grants(g, i, f) = {}
        /\ box' = IF StaleGeneration(g) THEN box ELSE [box EXCEPT !.gen = g]
    BY <1>2 DEF Lease, Grants
  <2>2. /\ box' \in Boxes /\ box'.inc = box.inc /\ box'.fence = box.fence
        /\ box'.life = box.life
    BY <1>0, <2>1 DEF Boxes
  <2>3. \A c \in Commands : /\ RowOK(row'[c]) /\ Quiet(row[c], row'[c])
                            /\ Fenced(row[c], box.fence) => Fenced(row'[c], box.fence)
    BY <1>0, <2>1, ExpireOK
  <2>4. row' \in [Commands -> Rows]
    BY <2>1, <2>3 DEF RowOK
  <2>5. MailboxOK' /\ (AllFenced => AllFenced')
    BY <1>1, <2>2, <2>3, <2>4 DEF MailboxOK, RowsOK, AllFenced
  <2>6. OnePlace'
    BY <1>0, <2>2, <2>3 DEF OnePlace, Quiet, Evolves, Open, Ended, RowOK
  <2>7. QED
    BY <1>0, <2>1, <2>2, <2>3, <2>5, <2>6
<1>3. CASE ~(StaleGeneration(g) \/ StaleFence(f))
  <2> DEFINE O == Observed(g, i, f)
             G == Grants(g, i, f)
  <2>1. /\ row' = [c \in Commands |-> IF c \in G THEN Offer(O[c], g, i) ELSE O[c]]
        /\ box' = [box EXCEPT !.gen = g, !.fence = f, !.inc = i]
    BY <1>3 DEF Lease
  <2>2. f >= box.fence
    BY <1>0, <1>3 DEF StaleFence
  <2>3. /\ box' \in Boxes /\ box'.inc = i /\ box'.fence = f
        /\ box'.life = box.life
    BY <1>0, <2>1 DEF Boxes
  <2>4. \A c \in Commands :
          /\ RowOK(O[c]) /\ Quiet(row[c], O[c]) /\ (AllFenced => Fenced(O[c], f))
          /\ Open(O[c]) /\ row[c].ever => row[c].inc = i
    BY <2>2, ObservedOK
  <2>5. \A c \in G : c \in Commands /\ O[c].state \in Waiting
    BY DEF Grants, LaneHead
  <2> HIDE DEF O, G
  <2>6. ASSUME NEW c \in G
        PROVE  /\ RowOK(row'[c]) /\ row'[c].ever /\ row'[c].inc = i
               /\ row'[c].issued = O[c].issued + 1
               /\ row'[c].env = O[c].env /\ row'[c].seq = O[c].seq
               /\ row'[c].state = "leased"
               /\ AllFenced => Fenced(row'[c], f)
    <3>1. c \in Commands /\ O[c].state \in Waiting
      BY <2>5
    <3>2. RowOK(O[c]) /\ (AllFenced => Fenced(O[c], f))
      BY <2>4, <3>1
    <3>3. row'[c] = Offer(O[c], g, i)
      BY <2>1, <3>1
    <3>4. QED
      BY <1>0, <3>1, <3>2, <3>3, OfferOK
  <2>7. \A c \in Commands \ G : row'[c] = O[c]
    BY <2>1
  <2>8. ASSUME NEW c \in G PROVE Offered(row[c], row'[c], i)
    <3>1. c \in Commands /\ O[c].state \in Waiting /\ Open(O[c])
      BY <2>5 DEF Waiting, Open, Ended, Terminal
    <3>2. Quiet(row[c], O[c])
      BY <2>4, <3>1
    <3>3. Open(row[c]) /\ row[c].state # "reserved"
      BY <3>1, <3>2 DEF Quiet, Evolves, Open, Ended, Terminal, Waiting
    <3>4. /\ O[c].issued = row[c].issued /\ O[c].env = row[c].env
          /\ O[c].seq = row[c].seq
      BY <3>2, <3>3 DEF Quiet, Evolves, Open
    <3>5. QED
      BY <2>4, <2>6, <3>1, <3>3, <3>4 DEF Offered
  <2>9. \A c \in Commands : RowOK(row'[c]) /\ (AllFenced => Fenced(row'[c], f))
    BY <2>4, <2>6, <2>7
  <2>10. row' \in [Commands -> Rows]
    BY <2>1, <2>9 DEF RowOK
  <2>11. MailboxOK' /\ (AllFenced => AllFenced')
    BY <1>1, <2>3, <2>9, <2>10 DEF MailboxOK, RowsOK, AllFenced
  <2>12. OnePlace'
    <3>1. SUFFICES ASSUME NEW c \in Commands, Open(row'[c]), row'[c].ever
                   PROVE  row'[c].inc = i
      BY <2>3 DEF OnePlace
    <3>2. CASE c \in G
      BY <2>6, <3>2
    <3>3. CASE c \notin G
      BY <2>4, <2>7, <3>1, <3>3 DEF Quiet, Evolves
    <3>4. QED
      BY <3>2, <3>3
  <2>13. QED
    BY <2>2, <2>3, <2>4, <2>5, <2>7, <2>8, <2>11, <2>12, <1>0 DEF G
<1>4. QED
  BY <1>2, <1>3

-----------------------------------------------------------------------------
(* The actions, seen from the mailbox: all but three are quiet. *)

\* Every fence a request or a delivery carries was once the workspace's.
Fences == /\ box.life <= box.fence /\ box.fence <= ws.fence
          /\ outbox.fence <= ws.fence /\ ws.pending \in {0, ws.fence}
          /\ \A g \in Gens : lreq[g].fence <= ws.fence
          /\ \A c \in Commands : sealed[c] <= ws.fence \/ sealed[c] = NotSealed

\* The stages of an enqueue, from its routing to its last mailbox call.
Enqueueing == {"routed", "reserved", "ready", "blocked", "destroyed"}

RequestsOK == \A r \in Requests : req[r].at \in Enqueueing
                 => req[r].cmd \in Commands /\ sealed[req[r].cmd] # NotSealed

Base == /\ TypeOK
        /\ \A c \in Commands : RowOK(row[c])
        /\ OnePlace /\ Fences /\ RequestsOK

LEMMA BaseMailbox == ASSUME Base PROVE MailboxOK
BY DEF Base, TypeOK, MailboxOK, RowsOK, Boxes, Wakes

\* The fence an enqueue carries to the mailbox.
LEMMA SealedFence ==
    ASSUME Base, NEW r \in Requests, req[r].at \in Enqueueing
    PROVE  /\ req[r].cmd \in Commands /\ sealed[req[r].cmd] \in 0..MaxFence
           /\ sealed[req[r].cmd] <= ws.fence
<1>1. req[r].cmd \in Commands /\ sealed[req[r].cmd] # NotSealed
  BY DEF Base, RequestsOK
<1>2. sealed[req[r].cmd] \in 0..NotSealed
  BY <1>1 DEF Base, TypeOK
<1>3. QED
  BY <1>1, <1>2, CloudConstants DEF Base, Fences, NotSealed

Quietly ==
    \/ ClientNext /\ ~\E r \in Requests : EnqueueCommit(r)
    \/ MailboxNext
    \/ LeaseNext /\ ~\E g \in Gens : LeaseGrant(g)
    \/ RuntimeNext /\ ~\E a \in net : DeliverAck(a)
    \/ PlaneNext

LEMMA QuietActions ==
    ASSUME Base, Quietly
    PROVE  QuietStep
<1>7. MailboxOK
  BY BaseMailbox
<1>8. ASSUME UNCHANGED mailboxVars PROVE QuietStep
  BY <1>7, <1>8, SameMailbox
<1>1. ASSUME ClientNext, ~\E r \in Requests : EnqueueCommit(r) PROVE QuietStep
  <2>1. ASSUME NEW c \in Commands, UserCancel(c) PROVE QuietStep
    BY <2>1, <1>7, CancelOK DEF UserCancel
  <2>2. ASSUME NEW r \in Requests, NEW c \in Commands, EnqueueRoute(r, c) PROVE QuietStep
    BY <2>2, <1>8 DEF EnqueueRoute
  <2>3. ASSUME NEW r \in Requests, EnqueueReserve(r) PROVE QuietStep
    <3>1. /\ req[r].cmd \in Commands /\ sealed[req[r].cmd] \in 0..MaxFence
          /\ sealed[req[r].cmd] <= ws.fence
      BY <2>3, SealedFence DEF EnqueueReserve, Enqueueing
    <3>2. UNCHANGED mailboxVars \/ Reserve(req[r].cmd, sealed[req[r].cmd])
      BY <2>3 DEF EnqueueReserve
    <3>3. QED
      BY <3>1, <3>2, <1>8, <1>7, ReserveOK
  <2>4. ASSUME NEW r \in Requests,
               \/ EnqueueWake(r) \/ PolicyRoute(r) \/ PolicyWake(r) \/ RequestLost(r)
        PROVE  QuietStep
    BY <2>4, <1>8 DEF EnqueueWake, PolicyRoute, PolicyWake, RequestLost
  <2>5. ASSUME NEW r \in Requests, EnqueueDestroyed(r) PROVE QuietStep
    <3>1. req[r].cmd \in Commands /\ Cancel(req[r].cmd)
      BY <2>5, SealedFence DEF EnqueueDestroyed, Enqueueing
    <3>2. QED
      BY <3>1, <1>7, CancelOK
  <2>6. ASSUME NEW r \in Requests, PolicyApply(r) PROVE QuietStep
    BY <2>6, <1>7, BlockOK, UnblockOK DEF PolicyApply
  <2>7. QED
    BY <1>1, <2>1, <2>2, <2>3, <2>4, <2>5, <2>6 DEF ClientNext
<1>2. ASSUME MailboxNext PROVE QuietStep
  <2>1. CASE AlarmFires
    BY <2>1, <1>7, AlarmOK DEF AlarmFires
  <2>2. CASE DispatchCall
    <3>1. UNCHANGED <<row, box>> /\ wake' = [wake EXCEPT !.flight = "called"]
      BY <2>2 DEF DispatchCall
    <3>2. wake' \in Wakes
      BY <1>7, <3>1 DEF MailboxOK, Wakes
    <3>3. QED
      BY <3>1, <3>2, <1>7, OnlyWake
  <2>3. CASE AlarmReturns
    <3>1. UNCHANGED <<row, box>> /\ wake' \in Wakes
      BY <1>7, <2>3 DEF AlarmReturns, DispatchDelivered, DispatchFailed, MailboxOK, Wakes
    <3>2. QED
      BY <3>1, <1>7, OnlyWake
  <2>4. ASSUME NEW c \in Commands, LeaseRunsOut(c) PROVE QuietStep
    BY <2>4, <1>7, DeadlineOK DEF LeaseRunsOut
  <2>5. QED
    BY <1>2, <2>1, <2>2, <2>3, <2>4 DEF MailboxNext
<1>3. ASSUME LeaseNext, ~\E g \in Gens : LeaseGrant(g) PROVE QuietStep
  <2>1. ASSUME NEW i \in Incarnations, LeaseRoute(i) PROVE QuietStep
    BY <2>1, <1>8 DEF LeaseRoute
  <2>2. ASSUME NEW g \in Gens, LeasePolicy(g) PROVE QuietStep
    BY <2>2, <1>7, BlockOK, UnblockOK DEF LeasePolicy
  <2>3. ASSUME NEW g \in Gens, LeaseLost(g) \/ CompleteDrain(g) \/ RecordFence(g)
        PROVE  QuietStep
    BY <2>3, <1>8 DEF LeaseLost, CompleteDrain, RecordFence
  <2>4. QED
    BY <1>3, <2>1, <2>2, <2>3 DEF LeaseNext
<1>4. ASSUME RuntimeNext, ~\E a \in net : DeliverAck(a) PROVE QuietStep
  <2>1. ASSUME NEW h \in held, \/ BeginSend(h) \/ SendCommits(h) \/ Conclude(h)
                               \/ Refuse(h) \/ TryAgain(h) \/ Abandon(h)
        PROVE  QuietStep
    BY <2>1, <1>8 DEF BeginSend, SendCommits, Conclude, Refuse, TryAgain, Abandon
  <2>2. ASSUME NEW a \in acks, SendAck(a) PROVE QuietStep
    BY <2>2, <1>8 DEF SendAck
  <2>3. ASSUME NEW i \in Incarnations, Crash(i) PROVE QuietStep
    BY <2>3, <1>8 DEF Crash
  <2>4. QED
    BY <1>4, <2>1, <2>2, <2>3 DEF RuntimeNext
<1>5. ASSUME PlaneNext PROVE QuietStep
  <2>1. CASE OutboxDeliver
    <3>1. outbox.fence \in 0..MaxFence /\ outbox.fence <= ws.fence /\ box.life <= box.fence
      BY DEF Base, TypeOK, Fences
    <3>2. QED
      BY <2>1, <3>1, <1>7, LifecycleOK DEF OutboxDeliver
  <2>2. CASE \/ Restart \/ Boot \/ Pause \/ Reassert \/ BillingChanges
             \/ Archive \/ Unarchive \/ OutboxList \/ OutboxAcknowledge \/ OutboxLost
    BY <2>2, <1>8 DEF Restart, Boot, Pause, Reassert, BillingChanges, Archive,
                      Unarchive, OutboxList, OutboxAcknowledge, OutboxLost
  <2>3. QED
    BY <1>5, <2>1, <2>2 DEF PlaneNext
<1>6. QED
  BY <1>1, <1>2, <1>3, <1>4, <1>5 DEF Quietly

\* The runtime's own state changes nothing in the control plane, and so on:
\* what each group of variables may do in a step.
StoreOK == ws \in Workspaces /\ billing \in BOOLEAN /\ holds \in 0..MaxBilling

LEMMA RequestWakeOK ==
    ASSUME Base, NEW answer, RequestWake(answer)
    PROVE  /\ ws' \in Workspaces /\ ws'.fence = ws.fence /\ ws'.life = ws.life
           /\ ws'.pending = ws.pending
           /\ lreq' \in [Gens -> LeaseRequests]
           /\ \A g \in Gens : lreq'[g].fence = lreq[g].fence
<1>1. ws \in Workspaces /\ lreq \in [Gens -> LeaseRequests]
  BY DEF Base, TypeOK
<1>2. CASE UNCHANGED <<ws, lreq>>
  BY <1>1, <1>2
<1>3. CASE RequestMailboxWake
  <2> DEFINE b == ws.wake /\ ws.fenceRequired
  <2>1. b \in BOOLEAN
    OBVIOUS
  <2>2. ws' = [ws EXCEPT !.wake = TRUE, !.fenceRequired = b]
    BY <1>3 DEF RequestMailboxWake
  <2> HIDE DEF b
  <2>3. /\ ws' \in Workspaces /\ ws'.fence = ws.fence /\ ws'.life = ws.life
        /\ ws'.pending = ws.pending
    BY <1>1, <2>1, <2>2 DEF Workspaces
  <2>4. \A g \in Gens : /\ Outdated(lreq[g]) \in LeaseRequests
                        /\ Outdated(lreq[g]).fence = lreq[g].fence
    BY <1>1 DEF Outdated, LeaseRequests
  <2>5. lreq' = [g \in Gens |-> Outdated(lreq[g])]
    BY <1>3 DEF RequestMailboxWake
  <2>6. QED
    BY <2>3, <2>4, <2>5
<1>4. QED
  BY <1>2, <1>3 DEF RequestWake

\* The destruction fence only grows, and a pending notification is about it.
StoreGoes == StoreOK' /\ ws'.fence >= ws.fence /\ ws'.pending \in {0, ws'.fence}

LEMMA StoreStep ==
    ASSUME Base, Next
    PROVE  StoreGoes
<1>0. /\ StoreOK /\ ws.fence \in Nat /\ ws.fence <= MaxFence
      /\ ws.pending \in {0, ws.fence}
  BY CloudConstants DEF Base, TypeOK, StoreOK, Workspaces, Fences
<1>1. ASSUME UNCHANGED storeVars PROVE StoreGoes
  BY <1>0, <1>1 DEF StoreGoes, StoreOK, storeVars
<1>2. ASSUME NEW answer, RequestWake(answer), UNCHANGED <<billing, holds>>
      PROVE  StoreGoes
  BY <1>0, <1>2, RequestWakeOK DEF StoreGoes, StoreOK
<1>9. ASSUME ws' \in Workspaces, ws'.fence = ws.fence, ws'.pending = ws.pending,
             UNCHANGED <<billing, holds>>
      PROVE  StoreGoes
  BY <1>0, <1>9 DEF StoreGoes, StoreOK
<1>10. ws \in Workspaces
  BY <1>0 DEF StoreOK
<1>3. CASE ClientNext
  <2>1. ASSUME NEW c \in Commands, UserCancel(c) PROVE UNCHANGED storeVars
    BY <2>1 DEF UserCancel
  <2>2. ASSUME NEW r \in Requests, NEW c \in Commands, EnqueueRoute(r, c)
        PROVE  UNCHANGED storeVars
    BY <2>2 DEF EnqueueRoute
  <2>3. ASSUME NEW r \in Requests,
               \/ EnqueueReserve(r) \/ EnqueueCommit(r) \/ EnqueueDestroyed(r)
               \/ PolicyRoute(r) \/ PolicyApply(r) \/ RequestLost(r)
        PROVE  UNCHANGED storeVars
    BY <2>3 DEF EnqueueReserve, EnqueueCommit, EnqueueDestroyed, PolicyRoute,
                PolicyApply, RequestLost
  <2>4. ASSUME NEW r \in Requests, EnqueueWake(r) \/ PolicyWake(r)
        PROVE  StoreGoes
    BY <2>4, <1>2 DEF EnqueueWake, PolicyWake
  <2>5. QED
    BY <1>1, <1>3, <2>1, <2>2, <2>3, <2>4 DEF ClientNext
<1>4. CASE MailboxNext
  <2>1. CASE DispatchCall
    BY <2>1, <1>2 DEF DispatchCall
  <2>2. CASE AlarmFires \/ AlarmReturns \/ \E c \in Commands : LeaseRunsOut(c)
    BY <2>2, <1>1 DEF AlarmFires, AlarmReturns, LeaseRunsOut, rest
  <2>3. QED
    BY <1>4, <2>1, <2>2 DEF MailboxNext
<1>5. CASE LeaseNext
  <2>1. ASSUME NEW i \in Incarnations, LeaseRoute(i) PROVE UNCHANGED storeVars
    BY <2>1 DEF LeaseRoute
  <2>2. ASSUME NEW g \in Gens, LeasePolicy(g) \/ LeaseGrant(g) \/ LeaseLost(g)
        PROVE  UNCHANGED storeVars
    BY <2>2 DEF LeasePolicy, LeaseGrant, LeaseLost
  <2>3. ASSUME NEW g \in Gens, CompleteDrain(g) \/ RecordFence(g)
        PROVE  StoreGoes
    <3>1. /\ \/ ws' = [ws EXCEPT !.wake = FALSE, !.fenceRequired = FALSE]
             \/ ws' = [ws EXCEPT !.fenceRequired = TRUE]
             \/ ws' = ws
          /\ UNCHANGED <<billing, holds>>
      BY <2>3 DEF CompleteDrain, RecordFence
    <3>2. ws' \in Workspaces /\ ws'.fence = ws.fence /\ ws'.pending = ws.pending
      BY <1>10, <3>1 DEF Workspaces
    <3>3. QED
      BY <1>9, <3>1, <3>2
  <2>4. QED
    BY <1>1, <1>5, <2>1, <2>2, <2>3 DEF LeaseNext
<1>6. CASE RuntimeNext
  <2>1. ASSUME NEW h \in held, \/ BeginSend(h) \/ SendCommits(h) \/ Conclude(h)
                               \/ Refuse(h) \/ TryAgain(h) \/ Abandon(h)
        PROVE  UNCHANGED storeVars
    BY <2>1 DEF BeginSend, SendCommits, Conclude, Refuse, TryAgain, Abandon
  <2>2. ASSUME NEW a, SendAck(a) \/ DeliverAck(a) PROVE UNCHANGED storeVars
    BY <2>2 DEF SendAck, DeliverAck
  <2>3. ASSUME NEW i \in Incarnations, Crash(i) PROVE UNCHANGED storeVars
    BY <2>3 DEF Crash
  <2>4. QED
    BY <1>1, <1>6, <2>1, <2>2, <2>3 DEF RuntimeNext
<1>7. CASE PlaneNext
  <2>1. CASE Restart
    <3> DEFINE n == ws.gen + 1
    <3>1. n \in Gens
      BY <1>0, <2>1, CloudConstants DEF Restart, StoreOK, Workspaces, Gens
    <3>2. PICK m \in {ws.machine} \cup (Incarnations \ ws.used) :
             ws' = [ws EXCEPT !.gen = n, !.enrolled = FALSE, !.online = FALSE,
                              !.fenceRequired = FALSE, !.machine = m,
                              !.used = ws.used \cup {m}]
      BY <2>1 DEF Restart
    <3>3. m \in Incarnations /\ ws.used \cup {m} \in SUBSET Incarnations
      BY <1>0, <3>2 DEF StoreOK, Workspaces
    <3> HIDE DEF n
    <3> DEFINE u == ws.used \cup {m}
               a == [ws EXCEPT !.gen = n, !.enrolled = FALSE, !.online = FALSE]
               b == [a EXCEPT !.fenceRequired = FALSE, !.machine = m, !.used = u]
    <3>4. a \in Workspaces /\ a.fence = ws.fence /\ a.pending = ws.pending
      BY <1>0, <3>1 DEF StoreOK, Workspaces
    <3>5. ws' = b /\ u \in SUBSET Incarnations
      BY <3>2, <3>3
    <3> HIDE DEF a, u
    <3>6. b \in Workspaces /\ b.fence = a.fence /\ b.pending = a.pending
      BY <3>3, <3>4, <3>5 DEF Workspaces
    <3>7. UNCHANGED <<billing, holds>>
      BY <2>1 DEF Restart
    <3> HIDE DEF b
    <3>8. QED
      BY <1>9, <3>4, <3>5, <3>6, <3>7
  <2>2. CASE Boot
    <3> DEFINE b == ws.life = "ready"
    <3>1. b \in BOOLEAN /\ ws' = [ws EXCEPT !.enrolled = TRUE, !.online = b]
          /\ UNCHANGED <<billing, holds>>
      BY <2>2 DEF Boot
    <3> HIDE DEF b
    <3>2. ws' \in Workspaces /\ ws'.fence = ws.fence /\ ws'.pending = ws.pending
      BY <1>10, <3>1 DEF Workspaces
    <3>3. QED
      BY <1>9, <3>1, <3>2
  <2>3. CASE Pause \/ Reassert
    <3>1. /\ ws' = [ws EXCEPT !.online = FALSE] \/ ws' = [ws EXCEPT !.online = TRUE]
          /\ UNCHANGED <<billing, holds>>
      BY <2>3 DEF Pause, Reassert
    <3>2. ws' \in Workspaces /\ ws'.fence = ws.fence /\ ws'.pending = ws.pending
      BY <1>10, <3>1 DEF Workspaces
    <3>3. QED
      BY <1>9, <3>1, <3>2
  <2>4. CASE BillingChanges
    BY <1>0, <2>4, CloudConstants DEF BillingChanges, StoreGoes, StoreOK
  <2>5. CASE Archive
    <3> DEFINE n == ws.fence + 1
    <3>1. n \in 0..MaxFence /\ n >= ws.fence
      BY <1>0, <2>5, CloudConstants DEF Archive
    <3>2. ws' = [ws EXCEPT !.life = "archived", !.fence = n, !.pending = n]
          /\ UNCHANGED <<billing, holds>>
      BY <2>5 DEF Archive
    <3> HIDE DEF n
    <3>3. ws' \in Workspaces /\ ws'.fence = n /\ ws'.pending = n
      BY <1>10, <3>1, <3>2 DEF Workspaces
    <3>4. QED
      BY <1>0, <3>1, <3>2, <3>3 DEF StoreGoes, StoreOK
  <2>6. CASE Unarchive
    <3>1. /\ ws' = [ws EXCEPT !.life = "ready", !.online = FALSE]
          /\ UNCHANGED <<billing, holds>>
      BY <2>6 DEF Unarchive
    <3>2. ws' \in Workspaces /\ ws'.fence = ws.fence /\ ws'.pending = ws.pending
      BY <1>10, <3>1 DEF Workspaces
    <3>3. QED
      BY <1>9, <3>1, <3>2
  <2>7. CASE OutboxAcknowledge
    <3>1. /\ ws' = [ws EXCEPT !.pending = 0] \/ ws' = ws
          /\ UNCHANGED <<billing, holds>>
      BY <2>7 DEF OutboxAcknowledge
    <3>2. /\ ws' \in Workspaces /\ ws'.fence = ws.fence
          /\ ws'.pending = 0 \/ ws'.pending = ws.pending
      BY <1>10, <3>1, CloudConstants DEF Workspaces
    <3>3. QED
      BY <1>0, <3>1, <3>2 DEF StoreGoes, StoreOK
  <2>8. CASE OutboxList \/ OutboxDeliver \/ OutboxLost
    BY <1>1, <2>8 DEF OutboxList, OutboxDeliver, OutboxLost
  <2>9. QED
    BY <1>7, <2>1, <2>2, <2>3, <2>4, <2>5, <2>6, <2>7, <2>8 DEF PlaneNext
<1>8. QED
  BY <1>3, <1>4, <1>5, <1>6, <1>7 DEF Next

ClientOK == /\ sealed \in [Commands -> 0..NotSealed]
            /\ req \in [Requests -> Requests_]
            /\ RequestsOK
            /\ \A c \in Commands : sealed[c] <= ws.fence \/ sealed[c] = NotSealed

\* A request moves on with the command it has, or ends.
LEMMA RequestMoves ==
    ASSUME Base, NEW r \in Requests, NEW s \in Stages, sealed' = sealed, ws'.fence >= ws.fence,
           ws'.fence \in Nat, s \in Enqueueing => req[r].at \in Enqueueing,
           To(r, s) \/ Finish(r)
    PROVE  ClientOK'
<1>0. /\ sealed \in [Commands -> 0..NotSealed] /\ req \in [Requests -> Requests_]
      /\ ws.fence \in Nat /\ NotSealed \in Nat
  BY CloudConstants DEF Base, TypeOK, Workspaces, NotSealed
<1>1. \A c \in Commands : sealed'[c] <= ws'.fence \/ sealed'[c] = NotSealed
  BY <1>0 DEF Base, Fences
<1>2. Idle \in Requests_ /\ Idle.at \notin Enqueueing
  BY DEF Idle, Requests_, Stages, Enqueueing
<1>3. CASE To(r, s)
  <2>1. [req[r] EXCEPT !.at = s] \in Requests_
    BY <1>0 DEF Requests_
  <2>2. req' = [req EXCEPT ![r] = [req[r] EXCEPT !.at = s]]
    BY <1>3 DEF To
  <2>3. req' \in [Requests -> Requests_]
    BY <1>0, <2>1, <2>2
  <2>4. \A q \in Requests : /\ req'[q].cmd = req[q].cmd
                            /\ req'[q].at = IF q = r THEN s ELSE req[q].at
    BY <1>0, <2>2 DEF Requests_
  <2>5. RequestsOK'
    BY <2>4 DEF Base, RequestsOK
  <2>6. QED
    BY <1>0, <1>1, <2>3, <2>5 DEF ClientOK
<1>4. CASE Finish(r)
  <2>1. req' = [req EXCEPT ![r] = Idle]
    BY <1>4 DEF Finish
  <2>2. req' \in [Requests -> Requests_]
    BY <1>0, <1>2, <2>1
  <2>3. \A q \in Requests : req'[q] = IF q = r THEN Idle ELSE req[q]
    BY <1>0, <2>1
  <2>4. RequestsOK'
    BY <1>2, <2>3 DEF Base, RequestsOK
  <2>5. QED
    BY <1>0, <1>1, <2>2, <2>4 DEF ClientOK
<1>5. QED
  BY <1>3, <1>4

LEMMA ClientStep ==
    ASSUME Base, Next
    PROVE  ClientOK'
<1>0. /\ sealed \in [Commands -> 0..NotSealed] /\ req \in [Requests -> Requests_]
      /\ ws.fence \in 0..MaxFence /\ ws'.fence \in Nat /\ ws'.fence >= ws.fence
      /\ NotSealed \in Nat /\ ws.fence \in Nat /\ ws.fence # NotSealed
  BY StoreStep, CloudConstants DEF StoreGoes, Base, TypeOK, StoreOK, Workspaces, NotSealed
<1>1. ASSUME UNCHANGED requestVars PROVE ClientOK'
  BY <1>0, <1>1 DEF Base, Fences, RequestsOK, ClientOK, requestVars
<1>2. CASE ClientNext
  <2>1. ASSUME NEW c \in Commands, UserCancel(c) PROVE ClientOK'
    BY <1>1, <2>1 DEF UserCancel
  <2>2. ASSUME NEW r \in Requests, NEW c \in Commands, EnqueueRoute(r, c) PROVE ClientOK'
    <3>1. /\ sealed' = [sealed EXCEPT ![c] = ws.fence]
          /\ sealed[c] \in {NotSealed, ws.fence}
          /\ req' = [req EXCEPT ![r] = [at |-> "routed", cmd |-> c]]
          /\ ws' = ws
      BY <2>2 DEF EnqueueRoute, storeVars
    <3>2. sealed' \in [Commands -> 0..NotSealed]
      BY <1>0, <3>1, CloudConstants DEF NotSealed
    <3>3. \A d \in Commands : sealed'[d] = IF d = c THEN ws.fence ELSE sealed[d]
      BY <1>0, <3>1
    <3>4. [at |-> "routed", cmd |-> c] \in Requests_
      BY DEF Requests_, Stages
    <3>5. /\ req' \in [Requests -> Requests_]
          /\ \A q \in Requests : q # r => req'[q] = req[q]
          /\ req'[r].cmd = c
      BY <1>0, <3>1, <3>4
    <3>6. RequestsOK'
      BY <1>0, <3>3, <3>5 DEF Base, RequestsOK
    <3>7. \A d \in Commands : sealed'[d] <= ws'.fence \/ sealed'[d] = NotSealed
      BY <1>0, <3>1, <3>3 DEF Base, Fences
    <3>8. QED
      BY <3>2, <3>5, <3>6, <3>7 DEF ClientOK
  <2>3. ASSUME NEW r \in Requests, EnqueueReserve(r) PROVE ClientOK'
    BY <1>0, <2>3, RequestMoves DEF EnqueueReserve, Stages, Enqueueing
  <2>4. ASSUME NEW r \in Requests, EnqueueWake(r) PROVE ClientOK'
    BY <1>0, <2>4, RequestMoves DEF EnqueueWake, Stages, Enqueueing
  <2>5. ASSUME NEW r \in Requests, EnqueueCommit(r) \/ EnqueueDestroyed(r) \/ RequestLost(r)
        PROVE  ClientOK'
    <3>1. Finish(r) /\ sealed' = sealed
      BY <2>5 DEF EnqueueCommit, EnqueueDestroyed, RequestLost
    <3>2. "idle" \in Stages /\ "idle" \notin Enqueueing
      BY DEF Stages, Enqueueing
    <3>3. QED
      BY <1>0, <3>1, <3>2, RequestMoves
  <2>6. ASSUME NEW r \in Requests, PolicyRoute(r) \/ PolicyApply(r) \/ PolicyWake(r)
        PROVE  ClientOK'
    <3>1. sealed' = sealed
      BY <2>6 DEF PolicyRoute, PolicyApply, PolicyWake
    <3>2. \E s \in {"idle", "block", "unblock", "unblocked"} : To(r, s) \/ Finish(r)
      BY <2>6 DEF PolicyRoute, PolicyApply, PolicyWake
    <3>3. PICK s \in {"idle", "block", "unblock", "unblocked"} : To(r, s) \/ Finish(r)
      BY <3>2
    <3>4. s \in Stages /\ s \notin Enqueueing
      BY DEF Stages, Enqueueing
    <3>5. QED
      BY <1>0, <3>1, <3>3, <3>4, RequestMoves
  <2>7. QED
    BY <1>2, <2>1, <2>2, <2>3, <2>4, <2>5, <2>6 DEF ClientNext
<1>3. CASE MailboxNext
  BY <1>1, <1>3 DEF MailboxNext, AlarmFires, DispatchCall, AlarmReturns, LeaseRunsOut, rest
<1>4. CASE LeaseNext
  BY <1>1, <1>4 DEF LeaseNext, LeaseRoute, LeasePolicy, LeaseGrant, LeaseLost,
                    CompleteDrain, RecordFence
<1>5. CASE RuntimeNext
  BY <1>1, <1>5 DEF RuntimeNext, BeginSend, SendCommits, Conclude, Refuse, TryAgain,
                    Abandon, SendAck, DeliverAck, Crash
<1>6. CASE PlaneNext
  BY <1>1, <1>6 DEF PlaneNext, Restart, Boot, Pause, Reassert, BillingChanges, Archive,
                    Unarchive, OutboxList, OutboxDeliver, OutboxAcknowledge, OutboxLost
<1>7. QED
  BY <1>2, <1>3, <1>4, <1>5, <1>6 DEF Next

LeasesOK == /\ lreq \in [Gens -> LeaseRequests]
            /\ \A g \in Gens : lreq[g].fence <= ws.fence

LEMMA LeaseRequestStep ==
    ASSUME Base, Next
    PROVE  LeasesOK'
<1>0. /\ lreq \in [Gens -> LeaseRequests] /\ ws.fence \in 0..MaxFence /\ ws.fence \in Nat
      /\ ws'.fence \in Nat /\ ws'.fence >= ws.fence /\ billing \in BOOLEAN
      /\ \A g \in Gens : lreq[g].fence \in Nat /\ lreq[g].fence <= ws.fence
  BY StoreStep, CloudConstants DEF StoreGoes, Base, TypeOK, StoreOK, Workspaces, LeaseRequests, Fences
<1>1. ASSUME UNCHANGED lreq PROVE LeasesOK'
  BY <1>0, <1>1 DEF LeasesOK
<1>2. ASSUME NEW answer, RequestWake(answer) PROVE LeasesOK'
  BY <1>0, <1>2, RequestWakeOK DEF LeasesOK
<1>3. NoLease \in LeaseRequests /\ NoLease.fence \in Nat /\ NoLease.fence <= ws.fence
  BY <1>0, CloudConstants DEF NoLease, LeaseRequests
<1>4. ASSUME NEW g \in Gens, NEW l \in LeaseRequests, l.fence \in Nat, l.fence <= ws.fence,
             lreq' = [lreq EXCEPT ![g] = l]
      PROVE  LeasesOK'
  <2>1. \A k \in Gens : lreq'[k] = IF k = g THEN l ELSE lreq[k]
    BY <1>0, <1>4
  <2>2. lreq' \in [Gens -> LeaseRequests]
    BY <1>0, <1>4
  <2>3. QED
    BY <1>0, <1>4, <2>1, <2>2 DEF LeasesOK
<1>5. ASSUME NEW g \in Gens, NEW s \in {"policied", "drain", "fence"},
             lreq' = [lreq EXCEPT ![g] = [lreq[g] EXCEPT !.at = s]]
      PROVE  LeasesOK'
  <2>1. /\ [lreq[g] EXCEPT !.at = s] \in LeaseRequests
        /\ [lreq[g] EXCEPT !.at = s].fence = lreq[g].fence
    BY <1>0 DEF LeaseRequests
  <2>2. QED
    BY <1>0, <1>4, <1>5, <2>1
<1>6. ASSUME NEW g \in Gens, lreq' = [lreq EXCEPT ![g] = NoLease] PROVE LeasesOK'
  BY <1>3, <1>4, <1>6
<1>7. CASE ClientNext
  <2>1. ASSUME NEW r \in Requests, EnqueueWake(r) \/ PolicyWake(r) PROVE LeasesOK'
    BY <1>2, <2>1 DEF EnqueueWake, PolicyWake
  <2>2. ASSUME NEW r \in Requests, NEW c \in Commands, EnqueueRoute(r, c)
        PROVE  UNCHANGED lreq
    BY <2>2 DEF EnqueueRoute
  <2>3. ASSUME NEW r \in Requests,
               \/ EnqueueReserve(r) \/ EnqueueCommit(r)
               \/ EnqueueDestroyed(r) \/ PolicyRoute(r) \/ PolicyApply(r) \/ RequestLost(r)
        PROVE  UNCHANGED lreq
    BY <2>3 DEF EnqueueReserve, EnqueueCommit, EnqueueDestroyed,
                PolicyRoute, PolicyApply, RequestLost
  <2>4. ASSUME NEW c \in Commands, UserCancel(c) PROVE UNCHANGED lreq
    BY <2>4 DEF UserCancel
  <2>5. QED
    BY <1>1, <1>7, <2>1, <2>2, <2>3, <2>4 DEF ClientNext
<1>8. CASE MailboxNext
  <2>1. CASE DispatchCall
    BY <1>2, <2>1 DEF DispatchCall
  <2>2. CASE AlarmFires \/ AlarmReturns \/ \E c \in Commands : LeaseRunsOut(c)
    BY <1>1, <2>2 DEF AlarmFires, AlarmReturns, LeaseRunsOut, rest
  <2>3. QED
    BY <1>8, <2>1, <2>2 DEF MailboxNext
<1>9. CASE LeaseNext
  <2>1. ASSUME NEW i \in Incarnations, LeaseRoute(i) PROVE LeasesOK'
    <3> DEFINE w == IF billing THEN "current" ELSE "none"
               l == [at |-> "routed", inc |-> i, fence |-> ws.fence, wake |-> w, pay |-> billing]
    <3>1. up[i] \in Gens /\ lreq' = [lreq EXCEPT ![up[i]] = l]
      BY <2>1 DEF LeaseRoute, Base, TypeOK, Workspaces
    <3>2. l \in LeaseRequests /\ l.fence \in Nat /\ l.fence <= ws.fence
      BY <1>0 DEF LeaseRequests
    <3> HIDE DEF l
    <3>3. QED
      BY <1>4, <3>1, <3>2
  <2>2. ASSUME NEW g \in Gens, LeasePolicy(g) PROVE LeasesOK'
    BY <1>5, <2>2 DEF LeasePolicy
  <2>3. ASSUME NEW g \in Gens, LeaseGrant(g) PROVE LeasesOK'
    <3>1. \/ lreq' = [lreq EXCEPT ![g] = NoLease]
          \/ \E s \in {"drain", "fence"} : lreq' = [lreq EXCEPT ![g] = [lreq[g] EXCEPT !.at = s]]
      BY <2>3 DEF LeaseGrant
    <3>2. QED
      BY <1>5, <1>6, <3>1
  <2>4. ASSUME NEW g \in Gens, LeaseLost(g) \/ CompleteDrain(g) \/ RecordFence(g)
        PROVE  LeasesOK'
    BY <1>6, <2>4 DEF LeaseLost, CompleteDrain, RecordFence
  <2>5. QED
    BY <1>9, <2>1, <2>2, <2>3, <2>4 DEF LeaseNext
<1>10. CASE RuntimeNext
  BY <1>1, <1>10 DEF RuntimeNext, BeginSend, SendCommits, Conclude, Refuse, TryAgain,
                    Abandon, SendAck, DeliverAck, Crash
<1>11. CASE PlaneNext
  BY <1>1, <1>11 DEF PlaneNext, Restart, Boot, Pause, Reassert, BillingChanges, Archive,
                    Unarchive, OutboxList, OutboxDeliver, OutboxAcknowledge, OutboxLost
<1>12. QED
  BY <1>7, <1>8, <1>9, <1>10, <1>11 DEF Next

OutboxOK == outbox \in [fence : 0..MaxFence, done : BOOLEAN] /\ outbox.fence <= ws.fence

LEMMA OutboxStep ==
    ASSUME Base, Next
    PROVE  OutboxOK'
<1>0. /\ outbox \in [fence : 0..MaxFence, done : BOOLEAN]
      /\ ws.fence \in 0..MaxFence /\ ws.pending \in {0, ws.fence}
      /\ ws'.fence \in Nat /\ ws'.fence >= ws.fence /\ outbox.fence <= ws.fence
      /\ MaxFence \in Nat
  BY StoreStep, CloudConstants DEF StoreGoes, Base, TypeOK, StoreOK, Workspaces, Fences
<1>1. ASSUME UNCHANGED outbox PROVE OutboxOK'
  BY <1>0, <1>1 DEF OutboxOK
<1>2. CASE PlaneNext
  <2>1. CASE OutboxList
    <3>1. outbox' = [fence |-> ws.pending, done |-> FALSE]
      BY <2>1 DEF OutboxList
    <3>2. ws.pending \in 0..MaxFence /\ ws.pending <= ws'.fence
      BY <1>0
    <3>3. outbox' \in [fence : 0..MaxFence, done : BOOLEAN] /\ outbox'.fence = ws.pending
      BY <3>1, <3>2
    <3>4. QED
      BY <3>2, <3>3 DEF OutboxOK
  <2>2. CASE OutboxDeliver
    <3>1. outbox' = [outbox EXCEPT !.done = TRUE]
      BY <2>2 DEF OutboxDeliver
    <3>2. outbox' \in [fence : 0..MaxFence, done : BOOLEAN] /\ outbox'.fence = outbox.fence
      BY <1>0, <3>1
    <3>3. QED
      BY <1>0, <3>2 DEF OutboxOK
  <2>3. CASE OutboxAcknowledge \/ OutboxLost
    <3>1. outbox' = [fence |-> 0, done |-> FALSE]
      BY <2>3 DEF OutboxAcknowledge, OutboxLost, NoDelivery
    <3>2. 0 \in 0..MaxFence /\ 0 <= ws'.fence
      BY <1>0
    <3>3. outbox' \in [fence : 0..MaxFence, done : BOOLEAN] /\ outbox'.fence = 0
      BY <3>1, <3>2
    <3>4. QED
      BY <3>2, <3>3 DEF OutboxOK
  <2>4. CASE \/ Restart \/ Boot \/ Pause \/ Reassert \/ BillingChanges
             \/ Archive \/ Unarchive
    BY <1>1, <2>4 DEF Restart, Boot, Pause, Reassert, BillingChanges, Archive, Unarchive
  <2>5. QED
    BY <1>2, <2>1, <2>2, <2>3, <2>4 DEF PlaneNext
<1>3. CASE ClientNext
  BY <1>1, <1>3 DEF ClientNext, UserCancel, EnqueueRoute, EnqueueReserve, EnqueueWake,
                    EnqueueCommit, EnqueueDestroyed, PolicyRoute, PolicyApply, PolicyWake,
                    RequestLost
<1>4. CASE MailboxNext
  BY <1>1, <1>4 DEF MailboxNext, AlarmFires, DispatchCall, AlarmReturns, LeaseRunsOut, rest
<1>5. CASE LeaseNext
  BY <1>1, <1>5 DEF LeaseNext, LeaseRoute, LeasePolicy, LeaseGrant, LeaseLost,
                    CompleteDrain, RecordFence
<1>6. CASE RuntimeNext
  BY <1>1, <1>6 DEF RuntimeNext, BeginSend, SendCommits, Conclude, Refuse, TryAgain,
                    Abandon, SendAck, DeliverAck, Crash
<1>7. QED
  BY <1>2, <1>3, <1>4, <1>5, <1>6 DEF Next

RuntimeOK == /\ up \in [Incarnations -> 0..MaxGen]
             /\ held \in SUBSET Leases
             /\ acks \in SUBSET Acks /\ net \in SUBSET Acks
             /\ receipts \in SUBSET (Incarnations \X Commands)

LEMMA RuntimeStep ==
    ASSUME Base, Next
    PROVE  RuntimeOK'
<1>0. /\ RuntimeOK /\ row \in [Commands -> Rows] /\ lreq \in [Gens -> LeaseRequests]
      /\ ws \in Workspaces
  BY DEF Base, TypeOK, RuntimeOK
<1>1. ASSUME UNCHANGED runtimeVars PROVE RuntimeOK'
  BY <1>0, <1>1 DEF RuntimeOK, runtimeVars
<1>2. ASSUME NEW i \in Incarnations, Exits(i), UNCHANGED <<net, receipts>> PROVE RuntimeOK'
  BY <1>0, <1>2, CloudConstants DEF RuntimeOK, Exits
<1>3. CASE ClientNext
  BY <1>1, <1>3 DEF ClientNext, UserCancel, EnqueueRoute, EnqueueReserve, EnqueueWake,
                    EnqueueCommit, EnqueueDestroyed, PolicyRoute, PolicyApply, PolicyWake,
                    RequestLost
<1>4. CASE MailboxNext
  BY <1>1, <1>4 DEF MailboxNext, AlarmFires, DispatchCall, AlarmReturns, LeaseRunsOut, rest
<1>5. CASE LeaseNext
  <2>1. ASSUME NEW i \in Incarnations, LeaseRoute(i) PROVE RuntimeOK'
    BY <1>1, <2>1 DEF LeaseRoute
  <2>2. ASSUME NEW g \in Gens, \/ LeasePolicy(g) \/ LeaseLost(g) \/ CompleteDrain(g)
                               \/ RecordFence(g)
        PROVE  RuntimeOK'
    BY <1>1, <2>2 DEF LeasePolicy, LeaseLost, CompleteDrain, RecordFence
  <2>3. ASSUME NEW g \in Gens, LeaseGrant(g) PROVE RuntimeOK'
    <3> DEFINE i == lreq[g].inc
               f == lreq[g].fence
    <3>1. i \in Incarnations
      BY <1>0 DEF LeaseRequests
    <3>2. /\ UNCHANGED <<net, receipts>>
          /\ \/ UNCHANGED <<up, held, acks>>
             \/ PageReceived(g, i, f)
      BY <2>3 DEF LeaseGrant
    <3> HIDE DEF i, f
    <3>3. CASE UNCHANGED <<up, held, acks>>
      BY <1>1, <3>2, <3>3 DEF runtimeVars
    <3>4. CASE PageReceived(g, i, f) /\ LeaseSaysFence(g, i, f)
      BY <1>2, <3>1, <3>2, <3>4 DEF PageReceived
    <3>5. CASE PageReceived(g, i, f) /\ ~LeaseSaysFence(g, i, f)
      <4> DEFINE new == {[inc |-> i, cmd |-> c, token |-> row[c].issued + 1, sending |-> FALSE] :
                   c \in {d \in Grants(g, i, f) : \A h \in Holding(i) : h.cmd # d}}
      <4>1. held' = held \cup new /\ UNCHANGED <<up, acks>>
        BY <3>5 DEF PageReceived
      <4>2. \A c \in Grants(g, i, f) : c \in Commands
        BY DEF Grants
      <4>3. \A c \in Commands : row[c].issued + 1 \in Nat
        BY <1>0 DEF Rows
      <4>4. ASSUME NEW c \in Grants(g, i, f)
            PROVE  [inc |-> i, cmd |-> c, token |-> row[c].issued + 1, sending |-> FALSE] \in Leases
        <5> DEFINE n == row[c].issued + 1
        <5>1. n \in Nat /\ c \in Commands
          BY <4>2, <4>3
        <5> HIDE DEF n
        <5>2. [inc |-> i, cmd |-> c, token |-> n, sending |-> FALSE] \in Leases
          BY <3>1, <5>1 DEF Leases
        <5>3. QED
          BY <5>2 DEF n
      <4>5. new \subseteq Leases
        BY <4>4
      <4> HIDE DEF new
      <4>6. QED
        BY <1>0, <3>2, <4>1, <4>5 DEF RuntimeOK
    <3>6. QED
      BY <3>2, <3>3, <3>4, <3>5
  <2>4. QED
    BY <1>5, <2>1, <2>2, <2>3 DEF LeaseNext
<1>6. CASE RuntimeNext
  <2>1. ASSUME NEW h \in held, BeginSend(h) \/ TryAgain(h) PROVE RuntimeOK'
    <3>1. h \in Leases
      BY <1>0 DEF RuntimeOK
    <3>2. [h EXCEPT !.sending = TRUE] \in Leases /\ [h EXCEPT !.sending = FALSE] \in Leases
      BY <3>1 DEF Leases
    <3>3. QED
      BY <1>0, <2>1, <3>2 DEF BeginSend, TryAgain, RuntimeOK
  <2>2. ASSUME NEW h \in held, SendCommits(h) PROVE RuntimeOK'
    <3>1. h.inc \in Incarnations /\ h.cmd \in Commands
      BY <1>0 DEF RuntimeOK, Leases
    <3>2. QED
      BY <1>0, <2>2, <3>1 DEF SendCommits, RuntimeOK
  <2>3. ASSUME NEW h \in held, Conclude(h) \/ Refuse(h) PROVE RuntimeOK'
    <3>1. h.inc \in Incarnations /\ h.cmd \in Commands /\ h.token \in Nat
      BY <1>0 DEF RuntimeOK, Leases
    <3>2. PICK s \in Answers : Acked(h, s)
      BY <2>3 DEF Conclude, Refuse, Answers
    <3>3. [inc |-> h.inc, cmd |-> h.cmd, token |-> h.token, state |-> s] \in Acks
      BY <3>1 DEF Acks
    <3>4. UNCHANGED <<up, net, receipts>>
      BY <2>3 DEF Conclude, Refuse
    <3>5. QED
      BY <1>0, <3>2, <3>3, <3>4 DEF Acked, RuntimeOK
  <2>4. ASSUME NEW h \in held, Abandon(h) PROVE RuntimeOK'
    <3>1. h.inc \in Incarnations
      BY <1>0 DEF RuntimeOK, Leases
    <3>2. QED
      BY <1>2, <2>4, <3>1 DEF Abandon
  <2>5. ASSUME NEW a \in acks, SendAck(a) PROVE RuntimeOK'
    BY <1>0, <2>5 DEF SendAck, RuntimeOK
  <2>6. ASSUME NEW a \in net, DeliverAck(a) PROVE RuntimeOK'
    BY <1>0, <2>6 DEF DeliverAck, RuntimeOK
  <2>7. ASSUME NEW i \in Incarnations, Crash(i) PROVE RuntimeOK'
    BY <1>2, <2>7 DEF Crash
  <2>8. QED
    BY <1>6, <2>1, <2>2, <2>3, <2>4, <2>5, <2>6, <2>7 DEF RuntimeNext
<1>7. CASE PlaneNext
  <2>1. CASE Boot
    <3>1. ws.machine \in Incarnations /\ ws.gen \in 0..MaxGen
      BY <1>0, CloudConstants DEF Workspaces, Gens
    <3>2. QED
      BY <1>0, <2>1, <3>1 DEF Boot, RuntimeOK
  <2>2. CASE \/ Restart \/ Pause \/ Reassert \/ BillingChanges \/ Archive \/ Unarchive
             \/ OutboxList \/ OutboxDeliver \/ OutboxAcknowledge \/ OutboxLost
    BY <1>1, <2>2 DEF Restart, Pause, Reassert, BillingChanges, Archive,
                    Unarchive, OutboxList, OutboxDeliver, OutboxAcknowledge, OutboxLost
  <2>3. QED
    BY <1>7, <2>1, <2>2 DEF PlaneNext
<1>8. QED
  BY <1>3, <1>4, <1>5, <1>6, <1>7 DEF Next

-----------------------------------------------------------------------------
(* Type correctness. *)

LEMMA BaseInit == ASSUME CloudInit PROVE Base
<1>1. RowsOK
  BY NoRowOK DEF CloudInit, MailboxInit, RowsOK, RowOK
<1>2. /\ box = [seq |-> 0, gen |-> 0, fence |-> 0, life |-> 0, inc |-> NoIncarnation]
      /\ wake = [due |-> FALSE, flight |-> "idle", moved |-> FALSE]
      /\ 0 \in 0..MaxGen /\ 0 \in 0..MaxFence /\ 0 \in 0..MaxBilling /\ 1 \in Gens
      /\ 1 \in 0..MaxGen /\ First \in Incarnations
  BY CloudConstants DEF CloudInit, MailboxInit, Gens
<1>3. box \in Boxes /\ wake \in Wakes
  BY <1>2 DEF Boxes, Wakes
<1>4. ws \in Workspaces /\ ws.fence = 0 /\ ws.pending = 0
  <2>1. ws = [life |-> "ready", fence |-> 0, pending |-> 0, wake |-> FALSE,
              fenceRequired |-> FALSE, gen |-> 1, enrolled |-> TRUE,
              online |-> TRUE, machine |-> First, used |-> {First}]
    BY DEF CloudInit
  <2>2. {First} \in SUBSET Incarnations
    BY <1>2
  <2>3. QED
    BY <1>2, <2>1, <2>2 DEF Workspaces
<1>5. sealed \in [Commands -> 0..NotSealed] /\ \A c \in Commands : sealed[c] = NotSealed
  BY CloudConstants DEF CloudInit, NotSealed
<1>6. req \in [Requests -> Requests_] /\ \A r \in Requests : req[r].at = "idle"
  BY DEF CloudInit, Idle, Requests_, Stages
<1>7. lreq \in [Gens -> LeaseRequests] /\ \A g \in Gens : lreq[g].fence = 0
  <2>1. NoLease \in LeaseRequests /\ NoLease.fence = 0
    BY <1>2 DEF NoLease, LeaseRequests
  <2>2. lreq = [g \in Gens |-> NoLease]
    BY DEF CloudInit
  <2>3. QED
    BY <2>1, <2>2
<1>8. outbox \in [fence : 0..MaxFence, done : BOOLEAN] /\ outbox.fence = 0
  BY <1>2 DEF CloudInit, NoDelivery
<1>9. up \in [Incarnations -> 0..MaxGen]
  BY <1>2 DEF CloudInit
<1>10. /\ billing \in BOOLEAN /\ holds \in 0..MaxBilling
       /\ held = {} /\ acks = {} /\ net = {} /\ receipts = {}
  BY <1>2 DEF CloudInit
<1>11. TypeOK
  BY <1>1, <1>3, <1>4, <1>5, <1>6, <1>7, <1>8, <1>9, <1>10
     DEF TypeOK, RowsOK, Boxes, Wakes
<1>12. OnePlace
  BY DEF CloudInit, MailboxInit, OnePlace, NoRow, Open
<1>13. Fences
  BY <1>2, <1>4, <1>5, <1>7, <1>8 DEF Fences
<1>14. RequestsOK
  BY <1>6 DEF RequestsOK, Enqueueing
<1>15. QED
  BY <1>1, <1>11, <1>12, <1>13, <1>14 DEF Base, RowsOK

\* A quiet row stays where it is.
LEMMA QuietPlace ==
    ASSUME MailboxOK, OnePlace, \A c \in Commands : Evolves(row[c], row'[c]), box'.inc = box.inc
    PROVE  OnePlace'
<1>1. SUFFICES ASSUME NEW c \in Commands, Open(row'[c]), row'[c].ever
               PROVE  row'[c].inc = box.inc
  BY DEF OnePlace
<1>2. Evolves(row[c], row'[c]) /\ RowOK(row[c])
  BY DEF MailboxOK, RowsOK
<1>3. Open(row[c]) /\ row[c].ever
  BY <1>1, <1>2 DEF Evolves, Open, Ended, RowOK
<1>4. QED
  BY <1>2, <1>3 DEF OnePlace, Evolves

\* Next is quiet but for the three actions that accept, offer or answer.
LEMMA NextCases ==
    ASSUME Next
    PROVE  \/ Quietly
           \/ \E r \in Requests : EnqueueCommit(r)
           \/ \E g \in Gens : LeaseGrant(g)
           \/ \E a \in net : DeliverAck(a)
BY DEF Next, Quietly

\* The offers of a lease response, as LeaseOK describes them.
GrantStep(g) == LET i == lreq[g].inc
                    f == lreq[g].fence
                IN  /\ \A c \in Grants(g, i, f) : c \in Commands /\ Offered(row[c], row'[c], i)
                    /\ \A c \in Commands \ Grants(g, i, f) : Quiet(row[c], row'[c])

LEMMA LeaseGrantRows ==
    ASSUME Base, NEW g \in Gens, LeaseGrant(g)
    PROVE  /\ GrantStep(g) /\ MailboxOK' /\ OnePlace' /\ (AllFenced => AllFenced')
           /\ box'.life <= box'.fence /\ box'.fence <= ws.fence /\ box'.fence >= box.fence
<1> DEFINE i == lreq[g].inc
           f == lreq[g].fence
<1>1. /\ lreq[g] \in LeaseRequests /\ i \in Incarnations /\ f \in 0..MaxFence /\ f <= ws.fence
      /\ MailboxOK /\ OnePlace /\ box.life <= box.fence /\ box.fence <= ws.fence
      /\ box.fence \in Nat /\ box.life \in Nat
  BY BaseMailbox, CloudConstants DEF Base, TypeOK, LeaseRequests, Fences
<1>2. Lease(g, i, f)
  BY DEF LeaseGrant
<1> HIDE DEF i, f
<1>3. /\ MailboxOK' /\ OnePlace' /\ (AllFenced => AllFenced')
      /\ box'.fence \in {box.fence, f} /\ box'.fence >= box.fence
      /\ box'.life = box.life
      /\ \A c \in Grants(g, i, f) : c \in Commands /\ Offered(row[c], row'[c], i)
      /\ \A c \in Commands \ Grants(g, i, f) : Quiet(row[c], row'[c])
  BY <1>1, <1>2, LeaseOK
<1>4. GrantStep(g)
  BY <1>3 DEF GrantStep, i, f
<1>5. box'.life <= box'.fence /\ box'.fence <= ws.fence
  <2>1. box'.fence \in Nat
    BY <1>3, CloudConstants DEF MailboxOK, Boxes
  <2>2. QED
    BY <1>1, <1>3, <2>1
<1>6. QED
  BY <1>3, <1>4, <1>5

\* The answer a delivered acknowledgment gives, as AcknowledgeOK describes it.
AnswerStep(a) ==
    \A d \in Commands :
        \/ Quiet(row[d], row'[d])
        \/ /\ d = a.cmd /\ Open(row[d]) /\ row[d].state # "reserved" /\ row[d].ever
           /\ a.token = row[d].issued /\ row'[d].state = a.state /\ row'[d].ever
           /\ row'[d].inc = row[d].inc /\ row'[d].issued = row[d].issued
           /\ row'[d].env = row[d].env /\ row'[d].seq = row[d].seq
           /\ row[d].late => row'[d].late

LEMMA DeliverAckRows ==
    ASSUME Base, NEW a \in net, DeliverAck(a)
    PROVE  /\ AnswerStep(a) /\ MailboxOK' /\ box' = box /\ OnePlace'
           /\ AllFenced => AllFenced'
<1>1. a.cmd \in Commands /\ a.state \in Answers /\ Acknowledge(a.cmd, a.token, a.state)
  BY DEF Base, TypeOK, Acks, DeliverAck
<1>2. MailboxOK' /\ box' = box /\ AnswerStep(a) /\ (AllFenced => AllFenced')
  BY <1>1, BaseMailbox, AcknowledgeOK DEF AnswerStep
<1>3. OnePlace'
  <2>1. SUFFICES ASSUME NEW d \in Commands, Open(row'[d]), row'[d].ever
                 PROVE  row'[d].inc = box.inc
    BY <1>2 DEF OnePlace
  <2>2. CASE Quiet(row[d], row'[d])
    <3>1. RowOK(row[d])
      BY DEF Base
    <3>2. Open(row[d]) /\ row[d].ever /\ row'[d].inc = row[d].inc
      BY <2>1, <2>2, <3>1 DEF Quiet, Evolves, Open, Ended, RowOK
    <3>3. QED
      BY <3>2 DEF Base, OnePlace
  <2>3. CASE Open(row[d]) /\ row[d].ever /\ row'[d].inc = row[d].inc
    BY <2>3 DEF Base, OnePlace
  <2>4. QED
    BY <1>2, <2>2, <2>3 DEF AnswerStep
<1>4. QED
  BY <1>2, <1>3

LEMMA EnqueueCommitRows ==
    ASSUME Base, NEW r \in Requests, EnqueueCommit(r)
    PROVE  /\ MailboxOK' /\ OnePlace' /\ box' = box
           /\ req[r].cmd \in Commands /\ row[req[r].cmd].state # "absent"
           /\ \A d \in Commands : Evolves(row[d], row'[d])
           /\ \A d \in Commands \ {req[r].cmd} : row'[d] = row[d]
           /\ ~Open(row[req[r].cmd]) => row'[req[r].cmd] = row[req[r].cmd]
           /\ AllFenced => AllFenced'
<1>1. req[r].cmd \in Commands
  BY SealedFence DEF EnqueueCommit, Enqueueing
<1>2. Commit(req[r].cmd, req[r].at = "blocked")
  BY DEF EnqueueCommit
<1>3. /\ MailboxOK' /\ box' = box
      /\ row[req[r].cmd].state # "absent"
      /\ \A d \in Commands : Evolves(row[d], row'[d])
      /\ \A d \in Commands \ {req[r].cmd} : row'[d] = row[d]
      /\ ~Open(row[req[r].cmd]) => row'[req[r].cmd] = row[req[r].cmd]
      /\ AllFenced => AllFenced'
  BY <1>1, <1>2, BaseMailbox, CommitOK
<1>4. OnePlace'
  BY <1>3, BaseMailbox, QuietPlace DEF Base
<1>5. QED
  BY <1>1, <1>3, <1>4

LEMMA BaseStep ==
    ASSUME Base, [Next]_vars
    PROVE  Base'
<1>1. CASE Next
  <2>1. MailboxOK' /\ OnePlace' /\ box'.life <= box'.fence /\ box'.fence <= ws.fence
    <3>1. CASE Quietly
      <4>1. QuietStep
        BY <3>1, QuietActions
      <4>2. OnePlace'
        BY <4>1, BaseMailbox, QuietPlace DEF Base, QuietStep, AllQuiet, Quiet
      <4>3. QED
        BY <4>1, <4>2 DEF QuietStep, Base, Fences
    <3>2. ASSUME NEW r \in Requests, EnqueueCommit(r)
          PROVE  MailboxOK' /\ OnePlace' /\ box'.life <= box'.fence /\ box'.fence <= ws.fence
      BY <3>2, EnqueueCommitRows DEF Base, Fences
    <3>3. ASSUME NEW g \in Gens, LeaseGrant(g)
          PROVE  MailboxOK' /\ OnePlace' /\ box'.life <= box'.fence /\ box'.fence <= ws.fence
      BY <3>3, LeaseGrantRows
    <3>4. ASSUME NEW a \in net, DeliverAck(a)
          PROVE  MailboxOK' /\ OnePlace' /\ box'.life <= box'.fence /\ box'.fence <= ws.fence
      BY <3>4, DeliverAckRows DEF Base, Fences
    <3>5. QED
      BY <1>1, <3>1, <3>2, <3>3, <3>4, NextCases
  <2>2. StoreGoes /\ ClientOK' /\ LeasesOK' /\ OutboxOK' /\ RuntimeOK'
    BY <1>1, StoreStep, ClientStep, LeaseRequestStep, OutboxStep, RuntimeStep
  <2>3. TypeOK'
    BY <2>1, <2>2 DEF TypeOK, MailboxOK, RowsOK, Boxes, Wakes, StoreGoes, StoreOK,
                      ClientOK, LeasesOK, OutboxOK, RuntimeOK
  <2>4. box'.fence \in Nat /\ ws.fence \in Nat /\ ws'.fence \in Nat
    BY <2>3, CloudConstants DEF Base, TypeOK, Workspaces
  <2>5. Fences'
    BY <2>1, <2>2, <2>4 DEF Fences, StoreGoes, ClientOK, LeasesOK, OutboxOK
  <2>6. QED
    BY <2>1, <2>2, <2>3, <2>5 DEF Base, MailboxOK, RowsOK, ClientOK
<1>2. CASE UNCHANGED vars
  BY <1>2 DEF vars, mailboxVars, storeVars, requestVars, runtimeVars, Base, TypeOK,
              OnePlace, Fences, RequestsOK
<1>3. QED
  BY <1>1, <1>2

\* Every variable of the composed system keeps its type, whatever the number
\* of commands, requests and storages: the row of a command, the workspace
\* record, the lease requests and the runtime's maps are only written with
\* values the code's tables and records can hold.
THEOREM TypeCorrect == Spec => []TypeOK
<1>1. CloudInit => Base
  BY BaseInit
<1>2. Base /\ [Next]_vars => Base'
  BY BaseStep
<1>3. Base => TypeOK
  BY DEF Base
<1>4. QED
  BY <1>1, <1>2, <1>3, PTL DEF Spec

-----------------------------------------------------------------------------
(* The refinement of CommandFate. *)

\* A lease or an acknowledgment a runtime has names a lease of the mailbox.
Known(x) == /\ row[x.cmd].ever /\ row[x.cmd].inc = x.inc
            /\ x.token <= row[x.cmd].issued

HeldOK == /\ \A h \in held : Known(h) /\ row[h.cmd].state # "rejected"
          /\ \A h \in held : \A k \in held : h.cmd = k.cmd => h = k

\* A rejection under the newest token is final: nobody holds the command.
AckOK(a) == /\ Known(a)
            /\ a.state = "applied" => <<a.inc, a.cmd>> \in receipts
            /\ a.state = "rejected" /\ a.token = row[a.cmd].issued
                 => /\ <<a.inc, a.cmd>> \notin receipts
                    /\ \A h \in held : h.cmd # a.cmd

ReceiptsOK == \A i \in Incarnations, c \in Commands : <<i, c>> \in receipts
                => row[c].ever /\ row[c].inc = i /\ row[c].state # "rejected"

AppliedOK == \A c \in Commands : row[c].state = "applied" => <<row[c].inc, c>> \in receipts

\* The inductive invariant of the refinement.
FateInv == /\ HeldOK
           /\ \A a \in acks \cup net : AckOK(a)
           /\ ReceiptsOK /\ AppliedOK

LEMMA FateInit == ASSUME CloudInit PROVE FateInv
<1>1. held = {} /\ acks = {} /\ net = {} /\ receipts = {}
  BY DEF CloudInit
<1>2. \A c \in Commands : row[c].state = "absent"
  BY DEF CloudInit, MailboxInit, NoRow
<1>3. QED
  BY <1>1, <1>2 DEF FateInv, HeldOK, ReceiptsOK, AppliedOK

\* Leases and acknowledgments name commands.
LEMMA Named ==
    ASSUME Base
    PROVE  /\ \A h \in held : h.cmd \in Commands /\ h.inc \in Incarnations /\ h.token \in Nat
           /\ \A a \in acks \cup net : /\ a.cmd \in Commands /\ a.inc \in Incarnations
                                       /\ a.token \in Nat /\ a.state \in Answers
           /\ \A c \in Commands : RowOK(row[c]) /\ row[c].issued \in Nat
BY DEF Base, TypeOK, Leases, Acks, RowOK, Rows

\* Rows evolve and the runtime at most forgets.
LEMMA CalmFate ==
    ASSUME Base, FateInv, \A c \in Commands : Evolves(row[c], row'[c]),
           held' \subseteq held, acks' \subseteq acks, net' = net, receipts' = receipts
    PROVE  FateInv'
<1>1. \A c \in Commands : /\ row'[c].ever = row[c].ever /\ row'[c].inc = row[c].inc
                          /\ row'[c].issued = row[c].issued
                          /\ row'[c].state = "rejected" => row[c].state = "rejected"
                          /\ row'[c].state = "applied" => row[c].state = "applied"
  BY DEF Evolves, Ended, Terminal
<1>2. HeldOK'
  BY <1>1, Named DEF FateInv, HeldOK, Known
<1>3. \A a \in acks' \cup net' : AckOK(a)'
  BY <1>1, Named DEF FateInv, AckOK, Known
<1>4. ReceiptsOK' /\ AppliedOK'
  BY <1>1 DEF FateInv, ReceiptsOK, AppliedOK
<1>5. QED
  BY <1>2, <1>3, <1>4 DEF FateInv

LEMMA GrantFate ==
    ASSUME Base, FateInv, NEW g \in Gens, LeaseGrant(g)
    PROVE  FateInv'
<1> DEFINE i == lreq[g].inc
           f == lreq[g].fence
           G == Grants(g, i, f)
           new == {[inc |-> i, cmd |-> c, token |-> row[c].issued + 1, sending |-> FALSE] :
                     c \in {d \in G : \A h \in Holding(i) : h.cmd # d}}
<1>1. /\ \A c \in G : c \in Commands /\ Offered(row[c], row'[c], i)
      /\ \A c \in Commands \ G : Quiet(row[c], row'[c])
  BY LeaseGrantRows DEF GrantStep
<1>2. /\ net' = net /\ receipts' = receipts
      /\ \/ held' \subseteq held /\ acks' \subseteq acks
         \/ held' = held \cup new /\ acks' = acks
  BY DEF LeaseGrant, PageReceived, Exits
<1>3. \A c \in Commands : row[c].issued \in Nat
  BY Named
<1>4. \A c \in Commands :
        /\ row[c].ever => row'[c].ever /\ row'[c].inc = row[c].inc
        /\ c \notin G => row'[c].issued = row[c].issued
        /\ c \in G => row'[c].issued = row[c].issued + 1 /\ row'[c].ever /\ row'[c].inc = i
        /\ row'[c].state = "rejected" => row[c].state = "rejected" /\ c \notin G
        /\ row'[c].state = "applied" => row[c].state = "applied" /\ c \notin G
  BY <1>1 DEF Offered, Quiet, Evolves, Ended, Terminal
<1>5. \A n \in new : /\ n.cmd \in G /\ n.inc = i /\ n.token = row[n.cmd].issued + 1
                     /\ \A h \in Holding(i) : h.cmd # n.cmd
  OBVIOUS
<1>6. ASSUME NEW n \in new, NEW m \in new, n.cmd = m.cmd PROVE n = m
  <2>1. PICK c \in G : n = [inc |-> i, cmd |-> c, token |-> row[c].issued + 1, sending |-> FALSE]
    OBVIOUS
  <2>2. PICK d \in G : m = [inc |-> i, cmd |-> d, token |-> row[d].issued + 1, sending |-> FALSE]
    OBVIOUS
  <2>3. n.cmd = c /\ m.cmd = d
    BY <2>1, <2>2
  <2>4. c = d
    BY <1>6, <2>3
  <2>5. QED
    BY <2>1, <2>2, <2>4
<1>7. held' \subseteq held \cup new /\ acks' \subseteq acks
  BY <1>2
<1> HIDE DEF new, G, i, f
<1>8. \A n \in new, h \in held : h.cmd # n.cmd
  <2>1. SUFFICES ASSUME NEW n \in new, NEW h \in held, h.cmd = n.cmd PROVE FALSE
    OBVIOUS
  <2>2. row[h.cmd].ever /\ row[h.cmd].inc = h.inc
    BY DEF FateInv, HeldOK, Known
  <2>3. row[h.cmd].inc = i
    BY <1>1, <1>5, <2>1, <2>2 DEF Offered
  <2>4. h \in Holding(i)
    BY <2>2, <2>3 DEF Holding
  <2>5. QED
    BY <1>5, <2>1, <2>4
<1>9. HeldOK'
  <2>1. ASSUME NEW h \in held' PROVE Known(h)' /\ row'[h.cmd].state # "rejected"
    <3>1. CASE h \in held
      <4>1. Known(h) /\ row[h.cmd].state # "rejected" /\ h.cmd \in Commands /\ h.token \in Nat
        BY <3>1, Named DEF FateInv, HeldOK
      <4>2. QED
        BY <1>3, <1>4, <4>1 DEF Known
    <3>2. CASE h \in new
      BY <1>1, <1>3, <1>4, <1>5, <3>2 DEF Known
    <3>3. QED
      BY <1>7, <3>1, <3>2
  <2>2. \A h \in held' : \A k \in held' : h.cmd = k.cmd => h = k
    BY <1>6, <1>7, <1>8 DEF FateInv, HeldOK
  <2>3. QED
    BY <2>1, <2>2 DEF HeldOK
<1>10. ASSUME NEW a \in acks' \cup net' PROVE AckOK(a)'
  <2>1. a \in acks \cup net /\ AckOK(a) /\ a.cmd \in Commands /\ a.token \in Nat
    BY <1>2, <1>7, Named DEF FateInv
  <2>2. Known(a)'
    BY <1>3, <1>4, <2>1 DEF AckOK, Known
  <2>3. ASSUME a.state = "rejected", a.token = row'[a.cmd].issued
        PROVE  <<a.inc, a.cmd>> \notin receipts' /\ \A h \in held' : h.cmd # a.cmd
    <3>1. a.cmd \notin G /\ a.token = row[a.cmd].issued
      BY <1>3, <1>4, <2>1, <2>3 DEF AckOK, Known
    <3>2. <<a.inc, a.cmd>> \notin receipts /\ \A h \in held : h.cmd # a.cmd
      BY <2>1, <2>3, <3>1 DEF AckOK
    <3>3. \A n \in new : n.cmd # a.cmd
      BY <1>5, <3>1
    <3>4. QED
      BY <1>2, <1>7, <3>2, <3>3
  <2>4. QED
    BY <1>2, <2>1, <2>2, <2>3 DEF AckOK
<1>11. ReceiptsOK'
  BY <1>2, <1>4 DEF FateInv, ReceiptsOK
<1>12. AppliedOK'
  <2>1. ASSUME NEW c \in Commands, row'[c].state = "applied"
        PROVE  <<row'[c].inc, c>> \in receipts'
    <3>1. row[c].state = "applied" /\ RowOK(row[c])
      BY <1>4, <2>1, Named
    <3>2. row'[c].inc = row[c].inc
      BY <1>4, <3>1 DEF RowOK
    <3>3. QED
      BY <1>2, <3>1, <3>2 DEF FateInv, AppliedOK
  <2>2. QED
    BY <2>1 DEF AppliedOK
<1>13. QED
  BY <1>9, <1>10, <1>11, <1>12 DEF FateInv

LEMMA AnswerFate ==
    ASSUME Base, FateInv, NEW a \in net, DeliverAck(a)
    PROVE  FateInv'
<1>1. AnswerStep(a)
  BY DeliverAckRows
<1>2. held' = held /\ acks' = acks /\ receipts' = receipts /\ net' \subseteq net
  BY DEF DeliverAck
<1>3. AckOK(a) /\ a.cmd \in Commands /\ a.inc \in Incarnations
  BY Named DEF FateInv
<1>4. \A c \in Commands :
        /\ row'[c].ever = row[c].ever /\ row'[c].inc = row[c].inc
        /\ row'[c].issued = row[c].issued
        /\ row'[c].state = "rejected" => \/ row[c].state = "rejected"
                                         \/ c = a.cmd /\ a.state = "rejected" /\ a.token = row[c].issued
        /\ row'[c].state = "applied" => \/ row[c].state = "applied"
                                        \/ c = a.cmd /\ a.state = "applied"
  <2>1. SUFFICES ASSUME NEW c \in Commands
                 PROVE  /\ row'[c].ever = row[c].ever /\ row'[c].inc = row[c].inc
                        /\ row'[c].issued = row[c].issued
                        /\ row'[c].state = "rejected" =>
                             \/ row[c].state = "rejected"
                             \/ c = a.cmd /\ a.state = "rejected" /\ a.token = row[c].issued
                        /\ row'[c].state = "applied" => \/ row[c].state = "applied"
                                                        \/ c = a.cmd /\ a.state = "applied"
    OBVIOUS
  <2>2. CASE Quiet(row[c], row'[c])
    BY <2>2 DEF Quiet, Evolves, Ended, Terminal
  <2>3. CASE /\ c = a.cmd /\ row[c].ever /\ a.token = row[c].issued
             /\ row'[c].state = a.state /\ row'[c].ever
             /\ row'[c].inc = row[c].inc /\ row'[c].issued = row[c].issued
    <3>1. row[c] \in Rows /\ row'[c] \in Rows
      BY DeliverAckRows DEF Base, TypeOK, MailboxOK, RowsOK
    <3>2. row'[c].ever = row[c].ever
      BY <2>3, <3>1 DEF Rows
    <3>3. QED
      BY <2>3, <3>2
  <2>4. QED
    BY <1>1, <2>2, <2>3 DEF AnswerStep
<1>5. HeldOK'
  <2>1. ASSUME NEW h \in held PROVE Known(h)' /\ row'[h.cmd].state # "rejected"
    <3>1. Known(h) /\ row[h.cmd].state # "rejected" /\ h.cmd \in Commands
      BY Named DEF FateInv, HeldOK
    <3>2. QED
      BY <1>3, <1>4, <3>1 DEF Known, AckOK
  <2>2. QED
    BY <1>2, <2>1 DEF FateInv, HeldOK
<1>6. ASSUME NEW b \in acks' \cup net' PROVE AckOK(b)'
  <2>1. AckOK(b) /\ b.cmd \in Commands
    BY <1>2, Named DEF FateInv
  <2>2. /\ row'[b.cmd].ever = row[b.cmd].ever /\ row'[b.cmd].inc = row[b.cmd].inc
        /\ row'[b.cmd].issued = row[b.cmd].issued
    BY <1>4, <2>1
  <2>3. QED
    BY <1>2, <2>1, <2>2 DEF AckOK, Known
<1>7. ReceiptsOK'
  <2>1. ASSUME NEW i \in Incarnations, NEW c \in Commands, <<i, c>> \in receipts'
        PROVE  row'[c].ever /\ row'[c].inc = i /\ row'[c].state # "rejected"
    <3>1. row[c].ever /\ row[c].inc = i /\ row[c].state # "rejected"
      BY <1>2, <2>1 DEF FateInv, ReceiptsOK
    <3>2. ~(c = a.cmd /\ a.state = "rejected" /\ a.token = row[c].issued)
      BY <1>2, <1>3, <2>1, <3>1 DEF AckOK, Known
    <3>3. QED
      BY <1>4, <3>1, <3>2
  <2>2. QED
    BY <2>1 DEF ReceiptsOK
<1>8. AppliedOK'
  BY <1>2, <1>3, <1>4 DEF FateInv, AppliedOK, AckOK, Known
<1>9. QED
  BY <1>5, <1>6, <1>7, <1>8 DEF FateInv

\* The mailbox is untouched while the runtime works.
LEMMA WorkFate ==
    ASSUME Base, FateInv, UNCHANGED mailboxVars,
           \/ \E h \in held : \/ BeginSend(h) \/ SendCommits(h) \/ Conclude(h)
                              \/ Refuse(h) \/ TryAgain(h)
           \/ \E a \in acks : SendAck(a)
    PROVE  FateInv'
<1>0. row' = row
  BY DEF mailboxVars
<1>1. ASSUME NEW h \in held, NEW b \in BOOLEAN,
             held' = (held \ {h}) \cup {[h EXCEPT !.sending = b]},
             UNCHANGED <<acks, net, receipts>>
      PROVE  FateInv'
  <2> DEFINE k == [h EXCEPT !.sending = b]
  <2>1. k.inc = h.inc /\ k.cmd = h.cmd /\ k.token = h.token
    BY DEF Base, TypeOK, Leases
  <2> HIDE DEF k
  <2>2. \A j \in held' : j = k \/ (j \in held /\ j # h)
    BY <1>1 DEF k
  <2>3. HeldOK'
    BY <1>0, <2>1, <2>2 DEF FateInv, HeldOK, Known
  <2>4. ASSUME NEW a \in acks' \cup net' PROVE AckOK(a)'
    <3>1. AckOK(a)
      BY <1>1 DEF FateInv
    <3>2. (\A j \in held : j.cmd # a.cmd) => \A j \in held' : j.cmd # a.cmd
      BY <2>1, <2>2
    <3>3. QED
      BY <1>0, <1>1, <3>1, <3>2 DEF AckOK, Known
  <2>5. ReceiptsOK' /\ AppliedOK'
    BY <1>0, <1>1 DEF FateInv, ReceiptsOK, AppliedOK
  <2>6. QED
    BY <2>3, <2>4, <2>5 DEF FateInv
<1>2. ASSUME NEW h \in held, BeginSend(h) \/ TryAgain(h) PROVE FateInv'
  <2>1. CASE BeginSend(h)
    BY <1>1, <2>1 DEF BeginSend
  <2>2. CASE TryAgain(h)
    BY <1>1, <2>2 DEF TryAgain
  <2>3. QED
    BY <1>2, <2>1, <2>2
<1>3. ASSUME NEW h \in held, SendCommits(h) PROVE FateInv'
  <2>1. /\ receipts' = receipts \cup {<<h.inc, h.cmd>>} /\ UNCHANGED <<held, acks, net>>
    BY <1>3 DEF SendCommits
  <2>2. Known(h) /\ row[h.cmd].state # "rejected"
    BY DEF FateInv, HeldOK
  <2>3. HeldOK'
    BY <1>0, <2>1 DEF FateInv, HeldOK, Known
  <2>4. ASSUME NEW a \in acks' \cup net' PROVE AckOK(a)'
    <3>1. AckOK(a)
      BY <2>1 DEF FateInv
    <3>2. a.state = "rejected" /\ a.token = row[a.cmd].issued => h.cmd # a.cmd
      BY <3>1 DEF AckOK
    <3>3. QED
      BY <1>0, <2>1, <3>1, <3>2 DEF AckOK, Known
  <2>5. ReceiptsOK'
    BY <1>0, <2>1, <2>2 DEF FateInv, ReceiptsOK, Known
  <2>6. AppliedOK'
    BY <1>0, <2>1 DEF FateInv, AppliedOK
  <2>7. QED
    BY <2>3, <2>4, <2>5, <2>6 DEF FateInv
<1>4. ASSUME NEW h \in held, NEW s \in Answers, Acked(h, s), UNCHANGED <<net, receipts>>,
             s = "applied" => Receipt(h), s = "rejected" => ~Receipt(h)
      PROVE  FateInv'
  <2> DEFINE n == [inc |-> h.inc, cmd |-> h.cmd, token |-> h.token, state |-> s]
  <2>1. held' = held \ {h} /\ acks' \subseteq acks \cup {n}
    BY <1>4 DEF Acked
  <2>2. Known(h)
    BY DEF FateInv, HeldOK
  <2>3. n.inc = h.inc /\ n.cmd = h.cmd /\ n.token = h.token /\ n.state = s
    OBVIOUS
  <2> HIDE DEF n
  <2>4. HeldOK'
    BY <1>0, <2>1 DEF FateInv, HeldOK, Known
  <2>5. ASSUME NEW a \in acks' \cup net' PROVE AckOK(a)'
    <3>1. CASE a \in acks \cup net
      <4>1. AckOK(a)
        BY <3>1 DEF FateInv
      <4>2. QED
        BY <1>0, <1>4, <2>1, <4>1 DEF AckOK, Known
    <3>2. CASE a = n
      <4>1. \A j \in held' : j.cmd # h.cmd
        BY <2>1 DEF FateInv, HeldOK
      <4>2. QED
        BY <1>0, <1>4, <2>2, <2>3, <3>2, <4>1 DEF AckOK, Known, Receipt
    <3>3. QED
      BY <1>4, <2>1, <3>1, <3>2
  <2>6. ReceiptsOK' /\ AppliedOK'
    BY <1>0, <1>4 DEF FateInv, ReceiptsOK, AppliedOK
  <2>7. QED
    BY <2>4, <2>5, <2>6 DEF FateInv
<1>5. ASSUME NEW h \in held, Conclude(h) PROVE FateInv'
  BY <1>4, <1>5 DEF Conclude, Answers
<1>6. ASSUME NEW h \in held, Refuse(h) PROVE FateInv'
  BY <1>4, <1>6 DEF Refuse, Answers
<1>7. ASSUME NEW a \in acks, SendAck(a) PROVE FateInv'
  <2>1. acks' \cup net' \subseteq acks \cup net /\ UNCHANGED <<held, receipts>>
    BY <1>7 DEF SendAck
  <2>2. ASSUME NEW b \in acks' \cup net' PROVE AckOK(b)'
    BY <1>0, <2>1 DEF FateInv, AckOK, Known
  <2>3. HeldOK' /\ ReceiptsOK' /\ AppliedOK'
    BY <1>0, <2>1 DEF FateInv, HeldOK, Known, ReceiptsOK, AppliedOK
  <2>4. QED
    BY <2>2, <2>3 DEF FateInv
<1>8. QED
  BY <1>2, <1>3, <1>5, <1>6, <1>7

\* What a step does to the runtime's variables.
Forgets == held' \subseteq held /\ acks' \subseteq acks /\ net' = net /\ receipts' = receipts
Works == /\ UNCHANGED mailboxVars
         /\ \/ \E h \in held : \/ BeginSend(h) \/ SendCommits(h) \/ Conclude(h)
                               \/ Refuse(h) \/ TryAgain(h)
            \/ \E a \in acks : SendAck(a)

\* Most actions do not touch what the runtime keeps, or lose some of it.
LEMMA RuntimeCases ==
    ASSUME Next
    PROVE  \/ Forgets \/ Works
           \/ \E g \in Gens : LeaseGrant(g)
           \/ \E a \in net : DeliverAck(a)
<1>1. ASSUME UNCHANGED runtimeVars PROVE Forgets
  BY <1>1 DEF Forgets, runtimeVars
<1>2. CASE ClientNext
  BY <1>1, <1>2 DEF ClientNext, UserCancel, EnqueueRoute, EnqueueReserve, EnqueueWake,
                    EnqueueCommit, EnqueueDestroyed, PolicyRoute, PolicyApply, PolicyWake,
                    RequestLost
<1>3. CASE MailboxNext
  BY <1>1, <1>3 DEF MailboxNext, AlarmFires, DispatchCall, AlarmReturns, LeaseRunsOut, rest
<1>4. CASE LeaseNext
  BY <1>1, <1>4 DEF LeaseNext, LeaseRoute, LeasePolicy, LeaseLost, CompleteDrain, RecordFence
<1>5. CASE RuntimeNext
  <2>1. ASSUME NEW h \in held, \/ BeginSend(h) \/ SendCommits(h) \/ Conclude(h)
                               \/ Refuse(h) \/ TryAgain(h)
        PROVE  Works
    BY <2>1 DEF Works, BeginSend, SendCommits, Conclude, Refuse, TryAgain
  <2>2. ASSUME NEW a \in acks, SendAck(a) PROVE Works
    BY <2>2 DEF Works, SendAck
  <2>3. ASSUME NEW h \in held, Abandon(h) PROVE Forgets
    BY <2>3 DEF Forgets, Abandon, Exits
  <2>4. ASSUME NEW i \in Incarnations, Crash(i) PROVE Forgets
    BY <2>4 DEF Forgets, Crash, Exits
  <2>5. QED
    BY <1>5, <2>1, <2>2, <2>3, <2>4 DEF RuntimeNext
<1>6. CASE PlaneNext
  <2>1. CASE Boot
    BY <2>1 DEF Boot, Forgets
  <2>2. CASE \/ Restart \/ Pause \/ Reassert \/ BillingChanges \/ Archive \/ Unarchive
             \/ OutboxList \/ OutboxDeliver \/ OutboxAcknowledge \/ OutboxLost
    BY <1>1, <2>2 DEF Restart, Pause, Reassert, BillingChanges, Archive,
                    Unarchive, OutboxList, OutboxDeliver, OutboxAcknowledge, OutboxLost
  <2>3. QED
    BY <1>6, <2>1, <2>2 DEF PlaneNext
<1>7. QED
  BY <1>2, <1>3, <1>4, <1>5, <1>6 DEF Next

\* Rows that are neither offered nor answered evolve.
LEMMA RowCases ==
    ASSUME Base, Next
    PROVE  \/ \A c \in Commands : Evolves(row[c], row'[c])
           \/ \E g \in Gens : LeaseGrant(g)
           \/ \E a \in net : DeliverAck(a)
<1>1. CASE Quietly
  BY <1>1, QuietActions DEF QuietStep, AllQuiet, Quiet
<1>2. ASSUME NEW r \in Requests, EnqueueCommit(r)
      PROVE  \A c \in Commands : Evolves(row[c], row'[c])
  BY <1>2, EnqueueCommitRows
<1>3. QED
  BY <1>1, <1>2, NextCases

LEMMA FateInvStep ==
    ASSUME Base, FateInv, [Next]_vars
    PROVE  FateInv'
<1>1. CASE Next
  <2>1. CASE Works
    BY <2>1, WorkFate DEF Works
  <2>2. ASSUME NEW g \in Gens, LeaseGrant(g) PROVE FateInv'
    BY <2>2, GrantFate
  <2>3. ASSUME NEW a \in net, DeliverAck(a) PROVE FateInv'
    BY <2>3, AnswerFate
  <2>4. CASE Forgets /\ \A c \in Commands : Evolves(row[c], row'[c])
    BY <2>4, CalmFate DEF Forgets
  <2>5. QED
    BY <1>1, <2>1, <2>2, <2>3, <2>4, RuntimeCases, RowCases
<1>2. CASE UNCHANGED vars
  <2>1. \A c \in Commands : Evolves(row[c], row'[c])
    BY <1>2, QuietSelf DEF Quiet, vars, mailboxVars
  <2>2. QED
    BY <1>2, <2>1, CalmFate DEF vars, runtimeVars
<1>3. QED
  BY <1>1, <1>2

fates == [c \in Commands |-> FateOf(c)]

\* What one command's fate may do in a step.
FateStep(f, g) == \/ g = f
                  \/ Fate!Grant(f, g) \/ Fate!Execute(f, g) \/ Fate!Decide(f, g)

Executed(c) == {i \in Incarnations : <<i, c>> \in receipts}

\* A fate, with its parts named.
FateRecord(g, e, v) == [granted |-> g, executed |-> e, verdict |-> v]

LEMMA GrantParts ==
    ASSUME NEW g, NEW e, NEW i \in Incarnations, g \subseteq {i}
    PROVE  FateStep(FateRecord(g, e, "none"), FateRecord({i}, e, "none"))
<1> DEFINE f == FateRecord(g, e, "none")
<1>1. f.verdict = "none" /\ f.granted = g
  BY DEF FateRecord
<1>2. FateRecord({i}, e, "none") = [f EXCEPT !.granted = {i}]
  BY DEF FateRecord
<1>3. QED
  BY <1>1, <1>2 DEF FateStep, Fate!Grant

LEMMA ExecuteParts ==
    ASSUME NEW i, NEW v \in {"none", "outcome-unknown"}
    PROVE  FateStep(FateRecord({i}, {}, v), FateRecord({i}, {i}, v))
<1> DEFINE f == FateRecord({i}, {}, v)
<1>1. f.verdict = v /\ f.granted = {i} /\ f.executed = {}
  BY DEF FateRecord
<1>2. FateRecord({i}, {i}, v) = [f EXCEPT !.executed = {i}]
  BY DEF FateRecord
<1>3. QED
  BY <1>1, <1>2 DEF FateStep, Fate!Execute

LEMMA DecideParts ==
    ASSUME NEW g, NEW e, NEW v \in Fate!Verdicts,
           v = "applied" => e # {}, v = "rejected" => e = {},
           v = "cancelled" => g = {}, v = "outcome-unknown" => g # {}
    PROVE  FateStep(FateRecord(g, e, "none"), FateRecord(g, e, v))
<1> DEFINE f == FateRecord(g, e, "none")
<1>1. f.verdict = "none" /\ Fate!Admissible(f, v)
  BY DEF FateRecord, Fate!Admissible
<1>2. FateRecord(g, e, v) = [f EXCEPT !.verdict = v]
  BY DEF FateRecord
<1>3. QED
  BY <1>1, <1>2 DEF FateStep, Fate!Decide

LEMMA FateOpen ==
    ASSUME NEW c \in Commands, ~Ended(row[c])
    PROVE  FateOf(c) = FateRecord(IF row[c].ever THEN {row[c].inc} ELSE {}, Executed(c), "none")
BY DEF FateOf, FateRecord, Executed

LEMMA FateEnded ==
    ASSUME NEW c \in Commands, Ended(row[c])
    PROVE  FateOf(c) = FateRecord(IF row[c].ever THEN {row[c].inc} ELSE {}, Executed(c), row[c].state)
BY DEF FateOf, FateRecord, Executed

LEMMA FateTyped == Base => \A c \in Commands : FateOf(c) \in Fate!Fates
<1>1. SUFFICES ASSUME Base, NEW c \in Commands PROVE FateOf(c) \in Fate!Fates
  OBVIOUS
<1>2. RowOK(row[c])
  BY <1>1 DEF Base
<1>3. row[c].ever => {row[c].inc} \in SUBSET Incarnations
  BY <1>2 DEF RowOK
<1>4. Ended(row[c]) => row[c].state \in Fate!Verdicts
  BY <1>2, RowDefs DEF Fate!Verdicts
<1>5. QED
  BY <1>3, <1>4 DEF FateOf, Fate!Fates

\* The verdict changes at most once, and as the history of the row allows.
LEMMA EvolvedFate ==
    ASSUME Base, NEW c \in Commands, Evolves(row[c], row'[c]), Executed(c)' = Executed(c)
    PROVE  FateStep(FateOf(c), FateOf(c)')
<1>1. /\ row'[c].ever = row[c].ever /\ row'[c].inc = row[c].inc
  BY DEF Evolves
<1>2. CASE Ended(row[c]) \/ ~Ended(row'[c])
  <2>1. (Ended(row[c]) <=> Ended(row'[c])) /\ (Ended(row[c]) => row'[c].state = row[c].state)
    BY <1>2 DEF Evolves, Ended
  <2>2. FateOf(c)' = FateOf(c)
    BY <1>1, <2>1 DEF FateOf, Executed
  <2>3. QED
    BY <2>2 DEF FateStep
<1>3. CASE ~Ended(row[c]) /\ Ended(row'[c])
  <2> DEFINE v == row'[c].state
             w == IF row[c].ever THEN {row[c].inc} ELSE {}
  <2>1. v = IF row[c].ever THEN "outcome-unknown" ELSE "cancelled"
    BY <1>3 DEF Evolves
  <2>2. v \in Fate!Verdicts /\ (v = "cancelled" => w = {}) /\ (v = "outcome-unknown" => w # {})
        /\ v # "applied" /\ v # "rejected"
    BY <2>1 DEF Fate!Verdicts
  <2>3. FateOf(c) = FateRecord(w, Executed(c), "none")
    BY <1>3, FateOpen
  <2>4. FateOf(c)' = FateRecord(w, Executed(c), v)
    BY <1>1, <1>3 DEF FateOf, FateRecord, Executed
  <2> HIDE DEF v, w
  <2>5. FateStep(FateRecord(w, Executed(c), "none"), FateRecord(w, Executed(c), v))
    BY <2>2, DecideParts
  <2>6. QED
    BY <2>3, <2>4, <2>5
<1>4. QED
  BY <1>2, <1>3

LEMMA OfferedFate ==
    ASSUME Base, NEW c \in Commands, NEW i \in Incarnations, Offered(row[c], row'[c], i),
           Executed(c)' = Executed(c)
    PROVE  FateStep(FateOf(c), FateOf(c)')
<1>1. ~Ended(row[c]) /\ ~Ended(row'[c])
  BY DEF Offered, Open, Ended, Terminal
<1>2. row'[c].ever /\ row'[c].inc = i
  BY DEF Offered
<1> DEFINE w == IF row[c].ever THEN {row[c].inc} ELSE {}
<1>3. FateOf(c) = FateRecord(w, Executed(c), "none")
  BY <1>1, FateOpen
<1>4. w \subseteq {i}
  BY DEF Offered
<1>5. FateOf(c)' = FateRecord({i}, Executed(c), "none")
  BY <1>1, <1>2 DEF FateOf, FateRecord, Executed
<1> HIDE DEF w
<1>6. QED
  BY <1>3, <1>4, <1>5, GrantParts

LEMMA AnsweredFate ==
    ASSUME Base, FateInv, NEW a \in net, NEW c \in Commands, Executed(c)' = Executed(c),
           /\ c = a.cmd /\ Open(row[c]) /\ row[c].ever
           /\ a.token = row[c].issued /\ row'[c].state = a.state /\ row'[c].ever
           /\ row'[c].inc = row[c].inc
    PROVE  FateStep(FateOf(c), FateOf(c)')
<1> DEFINE v == row'[c].state
<1>1. AckOK(a) /\ a.inc \in Incarnations /\ a.state \in Answers
  BY Named DEF FateInv
<1>2. ~Ended(row[c]) /\ Ended(row'[c])
  BY <1>1 DEF Open, Ended, Terminal, Answers
<1>3. FateOf(c) = FateRecord({row[c].inc}, Executed(c), "none")
  BY <1>2, FateOpen
<1>4. FateOf(c)' = FateRecord({row[c].inc}, Executed(c), v)
  BY <1>2 DEF FateOf, FateRecord, Executed
<1>5. v = "applied" => Executed(c) # {}
  BY <1>1 DEF AckOK, Executed
<1>6. v = "rejected" => Executed(c) = {}
  <2>1. ASSUME NEW i \in Incarnations, v = "rejected", <<i, c>> \in receipts PROVE FALSE
    <3>1. row[c].inc = i /\ row[c].inc = a.inc
      BY <1>1, <2>1 DEF FateInv, ReceiptsOK, AckOK, Known
    <3>2. QED
      BY <1>1, <2>1, <3>1 DEF AckOK
  <2>2. QED
    BY <2>1 DEF Executed
<1>7. v \in Fate!Verdicts /\ v # "cancelled"
  BY <1>1 DEF Fate!Verdicts, Answers
<1> HIDE DEF v
<1>8. FateStep(FateRecord({row[c].inc}, Executed(c), "none"), FateRecord({row[c].inc}, Executed(c), v))
  BY <1>5, <1>6, <1>7, DecideParts
<1>9. QED
  BY <1>3, <1>4, <1>8

LEMMA ExecutedFate ==
    ASSUME Base, FateInv, UNCHANGED mailboxVars, NEW h \in held, SendCommits(h),
           NEW c \in Commands
    PROVE  FateStep(FateOf(c), FateOf(c)')
<1>0. row' = row /\ receipts' = receipts \cup {<<h.inc, h.cmd>>} /\ ~Receipt(h)
  BY DEF SendCommits, mailboxVars
<1>1. Known(h) /\ row[h.cmd].state # "rejected" /\ h.cmd \in Commands /\ h.inc \in Incarnations
  BY Named DEF FateInv, HeldOK
<1>2. CASE c # h.cmd
  <2>1. Executed(c)' = Executed(c)
    BY <1>0, <1>2 DEF Executed
  <2>2. QED
    BY <1>0, <2>1 DEF FateOf, Executed, FateStep, Ended
<1>3. CASE c = h.cmd
  <2>1. row[c].ever /\ row[c].inc = h.inc /\ RowOK(row[c])
    BY <1>1, <1>3 DEF Known, Base
  <2>2. Executed(c) = {}
    BY <1>0, <1>3, <2>1 DEF FateInv, ReceiptsOK, Receipt, Executed
  <2>3. Executed(c)' = {h.inc}
    BY <1>0, <1>1, <1>3, <2>2 DEF Executed
  <2>4. row[c].state # "applied"
    BY <1>0, <1>3, <2>1 DEF FateInv, AppliedOK, Receipt
  <2>5. Ended(row[c]) => row[c].state = "outcome-unknown"
    BY <1>1, <1>3, <2>1, <2>4, RowDefs DEF RowOK
  <2> DEFINE v == IF Ended(row[c]) THEN row[c].state ELSE "none"
  <2>6. v \in {"none", "outcome-unknown"}
    BY <2>5
  <2>7. FateOf(c) = FateRecord({h.inc}, {}, v)
    BY <2>1, <2>2 DEF FateOf, FateRecord, Executed
  <2>8. FateOf(c)' = FateRecord({h.inc}, {h.inc}, v)
    BY <1>0, <2>1, <2>3 DEF FateOf, FateRecord, Executed, Ended
  <2> HIDE DEF v
  <2>9. QED
    BY <2>6, <2>7, <2>8, ExecuteParts
<1>4. QED
  BY <1>2, <1>3

LEMMA FateOfStep ==
    ASSUME Base, FateInv, [Next]_vars, NEW c \in Commands
    PROVE  FateStep(FateOf(c), FateOf(c)')
<1>1. ASSUME receipts' = receipts PROVE Executed(c)' = Executed(c)
  BY <1>1 DEF Executed
<1>2. ASSUME row' = row, receipts' = receipts PROVE FateStep(FateOf(c), FateOf(c)')
  BY <1>2 DEF FateOf, FateStep, Ended
<1>3. CASE Works
  <2>1. ASSUME NEW h \in held, SendCommits(h) PROVE FateStep(FateOf(c), FateOf(c)')
    BY <1>3, <2>1, ExecutedFate DEF Works
  <2>2. ASSUME NEW h \in held, BeginSend(h) \/ Conclude(h) \/ Refuse(h) \/ TryAgain(h)
        PROVE  FateStep(FateOf(c), FateOf(c)')
    BY <1>2, <1>3, <2>2 DEF Works, mailboxVars, BeginSend, Conclude, Refuse, TryAgain
  <2>3. ASSUME NEW a \in acks, SendAck(a) PROVE FateStep(FateOf(c), FateOf(c)')
    BY <1>2, <1>3, <2>3 DEF Works, mailboxVars, SendAck
  <2>4. QED
    BY <1>3, <2>1, <2>2, <2>3 DEF Works
<1>4. ASSUME NEW g \in Gens, LeaseGrant(g) PROVE FateStep(FateOf(c), FateOf(c)')
  <2>1. lreq[g].inc \in Incarnations /\ receipts' = receipts
    BY <1>4 DEF Base, TypeOK, LeaseRequests, LeaseGrant
  <2>2. Offered(row[c], row'[c], lreq[g].inc) \/ Evolves(row[c], row'[c])
    BY <1>4, LeaseGrantRows DEF GrantStep, Quiet
  <2>3. QED
    BY <1>1, <2>1, <2>2, OfferedFate, EvolvedFate
<1>5. ASSUME NEW a \in net, DeliverAck(a) PROVE FateStep(FateOf(c), FateOf(c)')
  <2>1. receipts' = receipts
    BY <1>5 DEF DeliverAck
  <2>2. AnswerStep(a)
    BY <1>5, DeliverAckRows
  <2>3. CASE Quiet(row[c], row'[c])
    BY <1>1, <2>1, <2>3, EvolvedFate DEF Quiet
  <2>4. CASE /\ c = a.cmd /\ Open(row[c]) /\ row[c].ever
             /\ a.token = row[c].issued /\ row'[c].state = a.state /\ row'[c].ever
             /\ row'[c].inc = row[c].inc
    BY <1>1, <2>1, <2>4, AnsweredFate
  <2>5. QED
    BY <2>2, <2>3, <2>4 DEF AnswerStep
<1>6. CASE Forgets /\ \A d \in Commands : Evolves(row[d], row'[d])
  BY <1>1, <1>6, EvolvedFate DEF Forgets
<1>7. CASE UNCHANGED vars
  BY <1>2, <1>7 DEF vars, mailboxVars, runtimeVars
<1>8. QED
  BY <1>3, <1>4, <1>5, <1>6, <1>7, RuntimeCases, RowCases

\* The composed system - mailbox, control plane, lease requests, runtimes on
\* several storages, with every crash, loss, repetition and delay - implements
\* CommandFate: a command is offered on one storage only, takes effect there
\* at most once, and gets at most one verdict, which the storage confirms.
THEOREM ImplementsFate == Spec => KeepsFate
<1>0. Base' => (\A c \in Commands : FateOf(c) \in Fate!Fates)'
  BY FateTyped, PTL
<1>1. CloudInit => Fate!Init
  <2>1. SUFFICES ASSUME CloudInit, NEW c \in Commands PROVE FateOf(c) = Fate!Unsettled
    BY DEF Fate!Init
  <2>2. row[c].ever = FALSE /\ row[c].state = "absent" /\ receipts = {}
    BY <2>1 DEF CloudInit, MailboxInit, NoRow
  <2>3. QED
    BY <2>2 DEF FateOf, Fate!Unsettled, Ended, Terminal
<1>2. Base /\ Base' /\ FateInv /\ [Next]_vars => [Fate!Next]_fates
  <2>1. SUFFICES ASSUME Base, Base', FateInv, [Next]_vars PROVE Fate!Next
    OBVIOUS
  <2>2. \A c \in Commands : FateOf(c)' \in Fate!Fates
    BY <2>1, <1>0
  <2>3. \A c \in Commands : FateStep(FateOf(c), FateOf(c)')
    BY <2>1, FateOfStep
  <2>4. QED
    BY <2>2, <2>3 DEF Fate!Next, FateStep
<1>3. Base /\ FateInv /\ [Next]_vars => Base' /\ FateInv'
  BY BaseStep, FateInvStep
<1>4. CloudInit => Base /\ FateInv
  BY BaseInit, FateInit
<1>5. QED
  BY <1>1, <1>2, <1>3, <1>4, PTL DEF Spec, KeepsFate, Fate!Spec, fates

-----------------------------------------------------------------------------
(* An archive reaches the mailbox. *)

\* What the control plane's own actions do to the fields the mailbox depends on.
LEMMA PlaneKeeps ==
    ASSUME Base, PlaneNext
    PROVE  /\ ws'.wake = ws.wake
           /\ \/ /\ ws'.fence = ws.fence /\ ws'.pending = ws.pending
                 /\ ws'.life = "archived" => ws.life = "archived"
              \/ Archive \/ OutboxAcknowledge
<1>0. ws \in Workspaces
  BY DEF Base, TypeOK
<1>1. CASE Restart
  <2>1. PICK m \in {ws.machine} \cup (Incarnations \ ws.used) :
             ws' = [ws EXCEPT !.gen = ws.gen + 1, !.enrolled = FALSE, !.online = FALSE,
                              !.fenceRequired = FALSE, !.machine = m,
                              !.used = ws.used \cup {m}]
    BY <1>1 DEF Restart
  <2>2. ws'.wake = ws.wake
    BY <1>0, <2>1 DEF Workspaces
  <2>3. ws'.fence = ws.fence /\ ws'.pending = ws.pending /\ ws'.life = ws.life
    BY <1>0, <2>1 DEF Workspaces
  <2>4. QED
    BY <2>2, <2>3
<1>2. CASE Boot \/ Pause \/ Reassert
  BY <1>0, <1>2 DEF Boot, Pause, Reassert, Workspaces
<1>3. CASE Unarchive \/ Archive \/ OutboxAcknowledge
  BY <1>0, <1>3 DEF Unarchive, Archive, OutboxAcknowledge, Workspaces
<1>4. CASE BillingChanges \/ OutboxList \/ OutboxDeliver \/ OutboxLost
  BY <1>4 DEF BillingChanges, OutboxList, OutboxDeliver, OutboxLost, storeVars
<1>5. QED
  BY <1>1, <1>2, <1>3, <1>4 DEF PlaneNext

\* The other actions only ever touch the wake fields of the workspace record.
LEMMA OthersKeep ==
    ASSUME Base, ClientNext \/ MailboxNext \/ LeaseNext \/ RuntimeNext
    PROVE  /\ outbox' = outbox /\ ws'.fence = ws.fence /\ ws'.pending = ws.pending
           /\ ws'.life = ws.life
<1>0. ws \in Workspaces
  BY DEF Base, TypeOK
<1>1. ASSUME UNCHANGED storeVars
      PROVE  ws'.fence = ws.fence /\ ws'.pending = ws.pending /\ ws'.life = ws.life
  BY <1>1 DEF storeVars
<1>2. ASSUME NEW answer, RequestWake(answer)
      PROVE  ws'.fence = ws.fence /\ ws'.pending = ws.pending /\ ws'.life = ws.life
  BY <1>2, RequestWakeOK
<1>3. CASE ClientNext
  <2>1. outbox' = outbox
    BY <1>3 DEF ClientNext, UserCancel, EnqueueRoute, EnqueueReserve, EnqueueWake,
                EnqueueCommit, EnqueueDestroyed, PolicyRoute, PolicyApply, PolicyWake, RequestLost
  <2>2. \/ UNCHANGED storeVars \/ \E answer : RequestWake(answer)
    BY <1>3 DEF ClientNext, UserCancel, EnqueueRoute, EnqueueReserve, EnqueueWake,
                EnqueueCommit, EnqueueDestroyed, PolicyRoute, PolicyApply, PolicyWake, RequestLost
  <2>3. QED
    BY <1>1, <1>2, <2>1, <2>2
<1>4. CASE MailboxNext
  <2>1. outbox' = outbox
    BY <1>4 DEF MailboxNext, AlarmFires, DispatchCall, AlarmReturns, LeaseRunsOut, rest
  <2>2. UNCHANGED storeVars \/ \E answer : RequestWake(answer)
    BY <1>4 DEF MailboxNext, AlarmFires, DispatchCall, AlarmReturns, LeaseRunsOut, rest
  <2>3. QED
    BY <1>1, <1>2, <2>1, <2>2
<1>5. CASE LeaseNext
  <2>1. outbox' = outbox
    BY <1>5 DEF LeaseNext, LeaseRoute, LeasePolicy, LeaseGrant, LeaseLost, CompleteDrain,
                RecordFence
  <2>2. \/ UNCHANGED storeVars \/ ws' = ws
        \/ ws' = [ws EXCEPT !.wake = FALSE, !.fenceRequired = FALSE]
        \/ ws' = [ws EXCEPT !.fenceRequired = TRUE]
    BY <1>5 DEF LeaseNext, LeaseRoute, LeasePolicy, LeaseGrant, LeaseLost, CompleteDrain,
                RecordFence
  <2>3. QED
    BY <1>0, <1>1, <2>1, <2>2 DEF Workspaces
<1>6. CASE RuntimeNext
  <2>1. outbox' = outbox /\ UNCHANGED storeVars
    BY <1>6 DEF RuntimeNext, BeginSend, SendCommits, Conclude, Refuse, TryAgain, Abandon,
                SendAck, DeliverAck, Crash
  <2>2. QED
    BY <1>1, <2>1
<1>7. QED
  BY <1>3, <1>4, <1>5, <1>6

\* The inductive invariant: the mailbox knows the fence the control plane no
\* longer owes it, and below its own fence only marked leases are open.
ArchiveInv == /\ AllFenced
              /\ ws.pending = 0 => box.fence = ws.fence
              /\ outbox.done => outbox.fence <= box.fence

LEMMA FenceGrows ==
    ASSUME Base, Next
    PROVE  box'.fence >= box.fence /\ (AllFenced => AllFenced')
<1>0. box.fence \in Nat
  BY CloudConstants DEF Base, TypeOK
<1>1. CASE Quietly
  BY <1>1, QuietActions DEF QuietStep
<1>2. ASSUME NEW r \in Requests, EnqueueCommit(r)
      PROVE  box'.fence >= box.fence /\ (AllFenced => AllFenced')
  BY <1>0, <1>2, EnqueueCommitRows
<1>3. ASSUME NEW g \in Gens, LeaseGrant(g)
      PROVE  box'.fence >= box.fence /\ (AllFenced => AllFenced')
  BY <1>3, LeaseGrantRows
<1>4. ASSUME NEW a \in net, DeliverAck(a)
      PROVE  box'.fence >= box.fence /\ (AllFenced => AllFenced')
  BY <1>0, <1>4, DeliverAckRows
<1>5. QED
  BY <1>1, <1>2, <1>3, <1>4, NextCases

LEMMA ArchiveStep ==
    ASSUME Base, Base', ArchiveInv, [Next]_vars
    PROVE  ArchiveInv'
<1>0. /\ box.fence \in Nat /\ ws.fence \in Nat /\ outbox.fence \in Nat
      /\ box'.fence \in Nat /\ ws'.fence \in Nat /\ outbox'.fence \in Nat
      /\ box.fence <= ws.fence /\ box'.fence <= ws'.fence /\ outbox.fence <= ws.fence
      /\ ws.pending \in {0, ws.fence} /\ ws \in Workspaces
      /\ outbox \in [fence : 0..MaxFence, done : BOOLEAN]
  BY CloudConstants DEF Base, TypeOK, Workspaces, Fences
<1>1. CASE Next
  <2>1. AllFenced' /\ box'.fence >= box.fence
    BY <1>1, FenceGrows DEF ArchiveInv
  <2>2. ASSUME ws'.fence = ws.fence, ws'.pending = ws.pending
        PROVE  ws'.pending = 0 => box'.fence = ws'.fence
    BY <1>0, <2>1, <2>2 DEF ArchiveInv
  <2>3. ASSUME outbox' = outbox \/ outbox'.done = FALSE
        PROVE  outbox'.done => outbox'.fence <= box'.fence
    BY <1>0, <2>1, <2>3 DEF ArchiveInv
  <2>4. CASE ClientNext \/ MailboxNext \/ LeaseNext \/ RuntimeNext
    BY <2>1, <2>2, <2>3, <2>4, OthersKeep DEF ArchiveInv
  <2>5. CASE PlaneNext
    <3>1. ws'.pending = 0 => box'.fence = ws'.fence
      <4>1. CASE Archive
        <5> DEFINE n == ws.fence + 1
        <5>1. ws' = [ws EXCEPT !.life = "archived", !.fence = n, !.pending = n] /\ n # 0
          BY <1>0, <4>1 DEF Archive
        <5> HIDE DEF n
        <5>2. ws'.pending = n
          BY <1>0, <5>1 DEF Workspaces
        <5>3. QED
          BY <5>1, <5>2
      <4>2. CASE OutboxAcknowledge
        <5>1. box' = box /\ outbox.done
          BY <4>2 DEF OutboxAcknowledge, mailboxVars
        <5>2. CASE ws.pending = outbox.fence
          <6>1. ws' = [ws EXCEPT !.pending = 0]
            BY <4>2, <5>2 DEF OutboxAcknowledge
          <6>2. ws'.fence = ws.fence
            BY <1>0, <6>1 DEF Workspaces
          <6>3. QED
            BY <1>0, <5>1, <5>2, <6>2 DEF ArchiveInv
        <5>3. CASE ws.pending # outbox.fence
          BY <4>2, <5>1, <5>3 DEF OutboxAcknowledge, ArchiveInv
        <5>4. QED
          BY <5>2, <5>3
      <4>3. QED
        BY <2>2, <2>5, <4>1, <4>2, PlaneKeeps
    <3>2. outbox'.done => outbox'.fence <= box'.fence
      <4>1. CASE OutboxDeliver
        <5>1. outbox' = [outbox EXCEPT !.done = TRUE] /\ Lifecycle(outbox.fence)
          BY <4>1 DEF OutboxDeliver
        <5>2. outbox'.fence = outbox.fence /\ outbox.fence \in 0..MaxFence
          BY <1>0, <5>1
        <5>3. box.life <= box.fence /\ MailboxOK
          BY BaseMailbox DEF Base, Fences
        <5>4. outbox.fence <= box'.fence
          BY <1>0, <5>1, <5>2, <5>3, LifecycleOK
        <5>5. QED
          BY <5>2, <5>4
      <4>2. CASE OutboxList \/ OutboxAcknowledge \/ OutboxLost
        BY <2>3, <4>2 DEF OutboxList, OutboxAcknowledge, OutboxLost, NoDelivery
      <4>3. CASE \/ Restart \/ Boot \/ Pause \/ Reassert \/ BillingChanges
                 \/ Archive \/ Unarchive
        BY <2>3, <4>3 DEF Restart, Boot, Pause, Reassert, BillingChanges, Archive, Unarchive
      <4>4. QED
        BY <2>5, <4>1, <4>2, <4>3 DEF PlaneNext
    <3>3. QED
      BY <2>1, <3>1, <3>2 DEF ArchiveInv
  <2>6. QED
    BY <1>1, <2>4, <2>5 DEF Next
<1>2. CASE UNCHANGED vars
  BY <1>2 DEF vars, mailboxVars, storeVars, ArchiveInv, AllFenced
<1>3. QED
  BY <1>1, <1>2

\* Once the lifecycle outbox regards an archive as delivered, no command sealed
\* before the archive can be leased any more, although deliveries fail, are
\* repeated and are overtaken by leases and enqueues that carry newer fences.
THEOREM ArchiveIsKnown == Spec => []ArchiveReachesMailbox
<1>1. CloudInit => Base /\ ArchiveInv
  <2>1. SUFFICES ASSUME CloudInit PROVE ArchiveInv
    BY BaseInit
  <2>2. \A c \in Commands : row[c].state = "absent"
    BY <2>1 DEF CloudInit, MailboxInit, NoRow
  <2>3. AllFenced
    BY <2>2 DEF AllFenced, Fenced, Open
  <2>4. box.fence = 0 /\ ws.fence = 0 /\ outbox.done = FALSE
    BY <2>1 DEF CloudInit, MailboxInit, NoDelivery
  <2>5. QED
    BY <2>3, <2>4 DEF ArchiveInv
<1>2. Base /\ ArchiveInv /\ [Next]_vars => Base' /\ ArchiveInv'
  BY BaseStep, ArchiveStep
<1>3. ArchiveInv => ArchiveReachesMailbox
  BY DEF ArchiveInv, AllFenced, Fenced, ArchiveReachesMailbox
<1>4. QED
  BY <1>1, <1>2, <1>3, PTL DEF Spec

-----------------------------------------------------------------------------
(* A wake is not lost. *)

\* A request that has asked for its wake and is about to commit.
Committing(r) == req[r].at \in {"ready", "blocked"}

\* A command that needs the workspace awake: accepted, or about to be.
Demand(c) == /\ Open(row[c]) /\ row[c].env = ws.fence
             /\ \/ row[c].state # "reserved"
                \/ \E r \in Requests : Committing(r) /\ req[r].cmd = c

\* A drain the control plane would still act on.
Draining(g) == lreq[g].at = "drain" /\ lreq[g].wake = "current"

\* A row carries the fence its envelope was sealed with.
SealedRows == \A c \in Commands : row[c].state # "absent"
                 => row[c].env = sealed[c] /\ sealed[c] # NotSealed

\* While the workspace is archived nothing was sealed under its fence.
ArchivedPast == ws.life = "archived" => \A c \in Commands : sealed[c] # ws.fence

Present == \A r \in Requests : req[r].at = "reserved" \/ Committing(r)
              => row[req[r].cmd].state # "absent"

\* The inductive invariant: a demand keeps the wake pending, and no drain is
\* under way that could take it back.
WakeInv == /\ SealedRows /\ ArchivedPast /\ Present
           /\ \A c \in Commands : Demand(c) => ws.wake /\ \A g \in Gens : ~Draining(g)

\* Rows stay present, and keep their fence.
RowsStay == \A c \in Commands : row[c].state # "absent"
               => row'[c].state # "absent" /\ row'[c].env = row[c].env

\* No command comes to need the workspace.
NoNewDemand == \A c \in Commands : Demand(c)' => Demand(c)

LEMMA NextStays ==
    ASSUME Base, Next
    PROVE  RowsStay
<1>1. ASSUME \A c \in Commands : Evolves(row[c], row'[c]) PROVE RowsStay
  BY <1>1 DEF RowsStay, Evolves
<1>2. ASSUME NEW g \in Gens, LeaseGrant(g) PROVE RowsStay
  <2>1. \A c \in Commands : Offered(row[c], row'[c], lreq[g].inc) \/ Quiet(row[c], row'[c])
    BY <1>2, LeaseGrantRows DEF GrantStep
  <2>2. QED
    BY <2>1 DEF RowsStay, Offered, Quiet, Evolves
<1>3. ASSUME NEW a \in net, DeliverAck(a) PROVE RowsStay
  <2>1. AnswerStep(a) /\ a.state \in Answers
    BY <1>3, DeliverAckRows, Named
  <2>2. QED
    BY <2>1 DEF RowsStay, AnswerStep, Quiet, Evolves, Answers
<1>4. QED
  BY <1>1, <1>2, <1>3, RowCases

\* Requests that commit were committing before, for the same command.
SameCommits == \A r \in Requests : Committing(r)' => Committing(r) /\ req'[r].cmd = req[r].cmd

LEMMA QuietDemand ==
    ASSUME Base, WakeInv, SameCommits, ws'.fence = ws.fence, NEW c \in Commands,
           Quiet(row[c], row'[c]), Demand(c)'
    PROVE  Demand(c)
<1>1. /\ Open(row'[c]) /\ row'[c].env = ws.fence
      /\ row'[c].state # "reserved" \/ \E r \in Requests : Committing(r)' /\ req'[r].cmd = c
  BY DEF Demand
<1>2. CASE row[c].state = "absent"
  <2>1. row'[c].state = "reserved"
    BY <1>1, <1>2 DEF Quiet, Open, Ended, Terminal
  <2>2. PICK r \in Requests : Committing(r)' /\ req'[r].cmd = c
    BY <1>1, <2>1
  <2>3. Committing(r) /\ req[r].cmd = c
    BY <2>2 DEF SameCommits
  <2>4. QED
    BY <1>2, <2>3 DEF WakeInv, Present
<1>3. CASE row[c].state # "absent"
  <2>1. Open(row[c]) /\ row[c].env = ws.fence
    BY <1>1, <1>3 DEF Quiet, Evolves, Open, Ended
  <2>2. row'[c].state # "reserved" => row[c].state # "reserved"
    BY <1>1 DEF Quiet, Open, Ended, Terminal
  <2>3. (\E r \in Requests : Committing(r)' /\ req'[r].cmd = c)
          => \E r \in Requests : Committing(r) /\ req[r].cmd = c
    BY DEF SameCommits
  <2>4. QED
    BY <1>1, <2>1, <2>2, <2>3 DEF Demand
<1>4. QED
  BY <1>2, <1>3

LEMMA CommitDemand ==
    ASSUME Base, WakeInv, NEW q \in Requests, EnqueueCommit(q)
    PROVE  NoNewDemand
<1>0. /\ SameCommits /\ ws' = ws /\ Committing(q)
  <2>1. req' = [req EXCEPT ![q] = Idle] /\ req \in [Requests -> Requests_] /\ ws' = ws
        /\ Committing(q)
    BY DEF EnqueueCommit, Finish, Base, TypeOK, storeVars, Committing
  <2>2. \A r \in Requests : req'[r] = IF r = q THEN Idle ELSE req[r]
    BY <2>1
  <2>3. QED
    BY <2>1, <2>2 DEF SameCommits, Committing, Idle
<1>1. SUFFICES ASSUME NEW c \in Commands, Demand(c)' PROVE Demand(c)
  BY DEF NoNewDemand
<1>2. CASE c # req[q].cmd
  <2>1. row'[c] = row[c]
    BY <1>2, EnqueueCommitRows
  <2>2. QED
    BY <1>0, <1>1, <2>1, QuietDemand, QuietSelf
<1>3. CASE c = req[q].cmd
  <2>1. /\ row[c].state # "absent" /\ Evolves(row[c], row'[c])
        /\ ~Open(row[c]) => row'[c] = row[c]
    BY <1>3, EnqueueCommitRows
  <2>2. Open(row'[c]) /\ row'[c].env = ws.fence
    BY <1>0, <1>1 DEF Demand
  <2>3. Open(row[c]) /\ row[c].env = ws.fence
    BY <2>1, <2>2 DEF Evolves
  <2>4. QED
    BY <1>0, <1>3, <2>3 DEF Demand
<1>4. QED
  BY <1>2, <1>3

LEMMA GrantDemand ==
    ASSUME Base, WakeInv, SameCommits, ws'.fence = ws.fence, NEW g \in Gens, LeaseGrant(g)
    PROVE  NoNewDemand
<1>1. SUFFICES ASSUME NEW c \in Commands, Demand(c)' PROVE Demand(c)
  BY DEF NoNewDemand
<1>2. Offered(row[c], row'[c], lreq[g].inc) \/ Quiet(row[c], row'[c])
  BY LeaseGrantRows DEF GrantStep
<1>3. CASE Offered(row[c], row'[c], lreq[g].inc)
  BY <1>1, <1>3 DEF Offered, Demand
<1>4. QED
  BY <1>1, <1>2, <1>3, QuietDemand

LEMMA AnswerDemand ==
    ASSUME Base, WakeInv, SameCommits, ws'.fence = ws.fence, NEW a \in net, DeliverAck(a)
    PROVE  NoNewDemand
<1>1. SUFFICES ASSUME NEW c \in Commands, Demand(c)' PROVE Demand(c)
  BY DEF NoNewDemand
<1>2. Quiet(row[c], row'[c]) \/ row'[c].state = a.state
  BY DeliverAckRows DEF AnswerStep
<1>3. row'[c].state # a.state
  BY <1>1, Named DEF Demand, Open, Ended, Terminal, Answers
<1>4. QED
  BY <1>1, <1>2, <1>3, QuietDemand

\* A lease response that reports nothing left leaves nothing that needs a wake.
LEMMA EmptyMailbox ==
    ASSUME NonterminalCount(row') = 0
    PROVE  \A c \in Commands : ~Open(row'[c])
<1> DEFINE S == {c \in Commands : Open(row'[c])}
<1>1. IsFiniteSet(S)
  BY MailboxConstants, FS_Subset
<1>2. Cardinality(S) = 0
  BY DEF NonterminalCount
<1> HIDE DEF S
<1>3. S = {}
  BY <1>1, <1>2, FS_EmptySet
<1>4. QED
  BY <1>3 DEF S

\* Only a reservation brings a row into being.
LEMMA AbsentStays ==
    ASSUME Base, Next, NEW c \in Commands, row[c].state = "absent", row'[c].state # "absent"
    PROVE  \E r \in Requests : EnqueueReserve(r) /\ req[r].cmd = c /\ row'[c].env = sealed[c]
<1>0. row \in [Commands -> Rows] /\ MailboxOK
  BY BaseMailbox DEF Base, TypeOK
<1>1. ASSUME UNCHANGED mailboxVars PROVE FALSE
  BY <1>1 DEF mailboxVars
<1>2. ASSUME Block \/ Unblock PROVE FALSE
  BY <1>2 DEF Block, Unblock, Waiting
<1>3. ASSUME NEW d \in Commands, Cancel(d) PROVE FALSE
  BY <1>0, <1>3 DEF Cancel, Cancellable, Waiting
<1>4. CASE ClientNext
  <2>1. ASSUME NEW d \in Commands, UserCancel(d) PROVE FALSE
    BY <1>3, <2>1 DEF UserCancel
  <2>2. ASSUME NEW r \in Requests, NEW d \in Commands, EnqueueRoute(r, d) PROVE FALSE
    BY <1>1, <2>2 DEF EnqueueRoute
  <2>3. ASSUME NEW r \in Requests, EnqueueReserve(r)
        PROVE  req[r].cmd = c /\ row'[c].env = sealed[c]
    <3>1. /\ req[r].cmd \in Commands /\ sealed[req[r].cmd] \in 0..MaxFence
          /\ sealed[req[r].cmd] <= ws.fence
      BY <2>3, SealedFence DEF EnqueueReserve, Enqueueing
    <3>2. Reserve(req[r].cmd, sealed[req[r].cmd])
      BY <1>1, <2>3 DEF EnqueueReserve
    <3>3. QED
      BY <1>0, <3>1, <3>2, ReserveOK
  <2>4. ASSUME NEW r \in Requests,
               EnqueueWake(r) \/ PolicyRoute(r) \/ PolicyWake(r) \/ RequestLost(r)
        PROVE  FALSE
    BY <1>1, <2>4 DEF EnqueueWake, PolicyRoute, PolicyWake, RequestLost
  <2>5. ASSUME NEW r \in Requests, EnqueueCommit(r) PROVE FALSE
    BY <2>5, EnqueueCommitRows
  <2>6. ASSUME NEW r \in Requests, EnqueueDestroyed(r) PROVE FALSE
    <3>1. req[r].cmd \in Commands /\ Cancel(req[r].cmd)
      BY <2>6, SealedFence DEF EnqueueDestroyed, Enqueueing
    <3>2. QED
      BY <1>3, <3>1
  <2>7. ASSUME NEW r \in Requests, PolicyApply(r) PROVE FALSE
    BY <1>2, <2>7 DEF PolicyApply
  <2>8. QED
    BY <1>4, <2>1, <2>2, <2>3, <2>4, <2>5, <2>6, <2>7 DEF ClientNext
<1>5. CASE MailboxNext
  <2>1. CASE AlarmFires
    BY <2>1 DEF AlarmFires, Alarm, Lapsed, Expire
  <2>2. CASE DispatchCall \/ AlarmReturns
    BY <2>2 DEF DispatchCall, AlarmReturns, DispatchDelivered, DispatchFailed
  <2>3. ASSUME NEW d \in Commands, LeaseRunsOut(d) PROVE FALSE
    BY <1>0, <2>3 DEF LeaseRunsOut, DeadlinePasses
  <2>4. QED
    BY <1>5, <2>1, <2>2, <2>3 DEF MailboxNext
<1>6. CASE LeaseNext
  <2>1. ASSUME NEW i \in Incarnations, LeaseRoute(i) PROVE FALSE
    BY <1>1, <2>1 DEF LeaseRoute
  <2>2. ASSUME NEW g \in Gens, LeasePolicy(g) PROVE FALSE
    BY <1>2, <2>2 DEF LeasePolicy
  <2>3. ASSUME NEW g \in Gens, LeaseGrant(g) PROVE FALSE
    <3> DEFINE i == lreq[g].inc
               f == lreq[g].fence
    <3>1. Offered(row[c], row'[c], i) \/ c \notin Grants(g, i, f)
      BY <2>3, LeaseGrantRows DEF GrantStep
    <3>2. ~Offered(row[c], row'[c], i)
      BY DEF Offered, Open
    <3>3. row'[c] = Expire(row[c]) \/ row'[c] = Observed(g, i, f)[c]
      BY <2>3, <3>1, <3>2 DEF LeaseGrant, Lease
    <3>4. Expire(row[c]) = row[c] /\ Observed(g, i, f)[c] = row[c]
      BY DEF Observed, Requeued, Orphaned, Observe, BelowFence, Expire, Open
    <3>5. QED
      BY <3>3, <3>4
  <2>4. ASSUME NEW g \in Gens, LeaseLost(g) \/ CompleteDrain(g) \/ RecordFence(g)
        PROVE  FALSE
    BY <1>1, <2>4 DEF LeaseLost, CompleteDrain, RecordFence
  <2>5. QED
    BY <1>6, <2>1, <2>2, <2>3, <2>4 DEF LeaseNext
<1>7. CASE RuntimeNext
  <2>1. ASSUME NEW a \in net, DeliverAck(a) PROVE FALSE
    BY <2>1 DEF DeliverAck, Acknowledge, Answered, Expire
  <2>2. CASE ~\E a \in net : DeliverAck(a)
    BY <1>1, <1>7, <2>2 DEF RuntimeNext, BeginSend, SendCommits, Conclude, Refuse, TryAgain,
                            Abandon, SendAck, Crash
  <2>3. QED
    BY <2>1, <2>2
<1>8. CASE PlaneNext
  <2>1. CASE OutboxDeliver
    BY <2>1 DEF OutboxDeliver, Lifecycle, BelowFence, Open
  <2>2. CASE ~OutboxDeliver
    BY <1>1, <1>8, <2>2 DEF PlaneNext, Restart, Boot, Pause, Reassert, BillingChanges,
                            Archive, Unarchive, OutboxList, OutboxAcknowledge, OutboxLost
  <2>3. QED
    BY <2>1, <2>2
<1>9. QED
  BY <1>4, <1>5, <1>6, <1>7, <1>8 DEF Next

\* The fence in an envelope is fixed once its command may have a row.
LEMMA SealedStays ==
    ASSUME Base, Next
    PROVE  \/ sealed' = sealed
           \/ /\ ws.life = "ready" /\ ws' = ws /\ row' = row
              /\ \A c \in Commands : sealed[c] # NotSealed => sealed'[c] = sealed[c]
              /\ \A c \in Commands : sealed'[c] \in {sealed[c], ws.fence}
<1>1. CASE ClientNext
  <2>1. ASSUME NEW r \in Requests, NEW d \in Commands, EnqueueRoute(r, d)
        PROVE  /\ ws.life = "ready" /\ ws' = ws /\ row' = row
               /\ \A c \in Commands : sealed[c] # NotSealed => sealed'[c] = sealed[c]
               /\ \A c \in Commands : sealed'[c] \in {sealed[c], ws.fence}
    <3>1. sealed \in [Commands -> 0..NotSealed]
      BY DEF Base, TypeOK
    <3>2. QED
      BY <2>1, <3>1 DEF EnqueueRoute, storeVars, mailboxVars
  <2>2. ASSUME ~\E r \in Requests, d \in Commands : EnqueueRoute(r, d)
        PROVE  sealed' = sealed
    BY <1>1, <2>2 DEF ClientNext, UserCancel, EnqueueReserve, EnqueueWake, EnqueueCommit,
               EnqueueDestroyed, PolicyRoute, PolicyApply, PolicyWake, RequestLost, requestVars
  <2>3. QED
    BY <2>1, <2>2
<1>2. CASE MailboxNext
  BY <1>2 DEF MailboxNext, AlarmFires, DispatchCall, AlarmReturns, LeaseRunsOut, rest, requestVars
<1>3. CASE LeaseNext
  BY <1>3 DEF LeaseNext, LeaseRoute, LeasePolicy, LeaseGrant, LeaseLost,
              CompleteDrain, RecordFence, requestVars
<1>4. CASE RuntimeNext
  BY <1>4 DEF RuntimeNext, BeginSend, SendCommits, Conclude, Refuse, TryAgain,
              Abandon, SendAck, DeliverAck, Crash, requestVars
<1>5. CASE PlaneNext
  BY <1>5 DEF PlaneNext, Restart, Boot, Pause, Reassert, BillingChanges, Archive,
              Unarchive, OutboxList, OutboxDeliver, OutboxAcknowledge, OutboxLost, requestVars
<1>6. QED
  BY <1>1, <1>2, <1>3, <1>4, <1>5 DEF Next

LEMMA SealedStep ==
    ASSUME Base, WakeInv, Next
    PROVE  SealedRows'
<1>1. SUFFICES ASSUME NEW c \in Commands, row'[c].state # "absent"
               PROVE  row'[c].env = sealed'[c] /\ sealed'[c] # NotSealed
  BY DEF SealedRows, NotSealed
<1>2. CASE row[c].state # "absent"
  <2>1. row'[c].env = row[c].env /\ row[c].env = sealed[c] /\ sealed[c] # NotSealed
    BY <1>2, NextStays DEF RowsStay, WakeInv, SealedRows
  <2>2. QED
    BY <2>1, SealedStays
<1>3. CASE row[c].state = "absent"
  <2>1. PICK r \in Requests : EnqueueReserve(r) /\ req[r].cmd = c /\ row'[c].env = sealed[c]
    BY <1>1, <1>3, AbsentStays
  <2>2. sealed' = sealed
    BY <2>1 DEF EnqueueReserve
  <2>3. sealed[c] # NotSealed
    BY <2>1 DEF EnqueueReserve, Base, RequestsOK, Enqueueing
  <2>4. QED
    BY <2>1, <2>2, <2>3
<1>4. QED
  BY <1>2, <1>3

LEMMA ArchivedStep ==
    ASSUME Base, WakeInv, Next
    PROVE  ArchivedPast' /\ (Archive => \A c \in Commands : row[c].env = ws'.fence =>
                                          row[c].state = "absent")
<1>0. /\ ws.fence \in Nat /\ MaxFence \in Nat /\ ws \in Workspaces
      /\ \A c \in Commands : sealed[c] \in Nat
                             /\ (sealed[c] <= ws.fence \/ sealed[c] = NotSealed)
  BY CloudConstants DEF Base, TypeOK, Workspaces, Fences, NotSealed
<1>1. CASE Archive
  <2> DEFINE n == ws.fence + 1
  <2>1. ws.fence < MaxFence /\ ws' = [ws EXCEPT !.life = "archived", !.fence = n, !.pending = n]
        /\ sealed' = sealed
    BY <1>1 DEF Archive, requestVars
  <2>2. n > ws.fence /\ n # NotSealed
    BY <1>0, <2>1 DEF NotSealed
  <2>3. \A c \in Commands : sealed[c] # n
    BY <1>0, <2>2
  <2> HIDE DEF n
  <2>4. ws'.fence = n
    BY <1>0, <2>1 DEF Workspaces
  <2>5. QED
    BY <2>1, <2>3, <2>4 DEF ArchivedPast, WakeInv, SealedRows
<1>2. CASE ~Archive
  <2>1. (ws'.life = "archived" => ws.life = "archived") /\ ws'.fence = ws.fence
    <3>1. CASE PlaneNext
      <4>1. CASE OutboxAcknowledge
        BY <1>0, <4>1 DEF OutboxAcknowledge, Workspaces
      <4>2. QED
        BY <1>2, <3>1, <4>1, PlaneKeeps
    <3>2. CASE ~PlaneNext
      BY <3>2, OthersKeep DEF Next
    <3>3. QED
      BY <3>1, <3>2
  <2>2. QED
    BY <1>2, <2>1, SealedStays DEF ArchivedPast, WakeInv
<1>3. QED
  BY <1>1, <1>2

\* How a step moves the requests.
LEMMA RequestCases ==
    ASSUME Base, Next
    PROVE  \/ /\ SameCommits
              /\ \A q \in Requests : req'[q].at = "reserved"
                    => \/ req[q].at = "reserved" /\ req'[q].cmd = req[q].cmd
                       \/ /\ EnqueueReserve(q) /\ Reserved(req[q].cmd, sealed[req[q].cmd])
                          /\ req'[q].cmd = req[q].cmd
           \/ \E r \in Requests : EnqueueWake(r)
<1> DEFINE Moved == /\ SameCommits
                    /\ \A q \in Requests : req'[q].at = "reserved"
                         => \/ req[q].at = "reserved" /\ req'[q].cmd = req[q].cmd
                            \/ /\ EnqueueReserve(q) /\ Reserved(req[q].cmd, sealed[req[q].cmd])
                               /\ req'[q].cmd = req[q].cmd
<1>0. req \in [Requests -> Requests_]
  BY DEF Base, TypeOK
<1>1. ASSUME req' = req PROVE Moved
  BY <1>1 DEF SameCommits, Committing
<1>2. ASSUME NEW r \in Requests, Finish(r) PROVE Moved
  <2>1. \A q \in Requests : req'[q] = IF q = r THEN Idle ELSE req[q]
    BY <1>0, <1>2 DEF Finish
  <2>2. QED
    BY <2>1 DEF SameCommits, Committing, Idle
<1>3. ASSUME NEW r \in Requests, NEW s \in {"idle", "block", "unblock", "unblocked"}, To(r, s)
      PROVE  Moved
  <2>1. \A q \in Requests : /\ req'[q].cmd = req[q].cmd
                            /\ req'[q].at = IF q = r THEN s ELSE req[q].at
    BY <1>0, <1>3 DEF To, Requests_
  <2>2. QED
    BY <2>1 DEF SameCommits, Committing
<1>4. CASE ClientNext
  <2>1. ASSUME NEW d \in Commands, UserCancel(d) PROVE Moved
    BY <1>1, <2>1 DEF UserCancel, requestVars
  <2>2. ASSUME NEW r \in Requests, NEW d \in Commands, EnqueueRoute(r, d) PROVE Moved
    <3>1. \A q \in Requests : req'[q] = IF q = r THEN [at |-> "routed", cmd |-> d] ELSE req[q]
      BY <1>0, <2>2 DEF EnqueueRoute
    <3>2. QED
      BY <3>1 DEF SameCommits, Committing
  <2>3. ASSUME NEW r \in Requests, EnqueueReserve(r) PROVE Moved
    <3>1. CASE Reserved(req[r].cmd, sealed[req[r].cmd])
      <4>1. To(r, "reserved")
        BY <2>3, <3>1 DEF EnqueueReserve
      <4>2. \A q \in Requests : /\ req'[q].cmd = req[q].cmd
                                /\ req'[q].at = IF q = r THEN "reserved" ELSE req[q].at
        BY <1>0, <4>1 DEF To, Requests_
      <4>3. QED
        BY <2>3, <3>1, <4>2 DEF SameCommits, Committing
    <3>2. CASE ~Reserved(req[r].cmd, sealed[req[r].cmd])
      BY <1>2, <2>3, <3>2 DEF EnqueueReserve
    <3>3. QED
      BY <3>1, <3>2
  <2>4. ASSUME NEW r \in Requests, EnqueueCommit(r) \/ EnqueueDestroyed(r) \/ RequestLost(r)
        PROVE  Moved
    BY <1>2, <2>4 DEF EnqueueCommit, EnqueueDestroyed, RequestLost
  <2>5. ASSUME NEW r \in Requests, PolicyRoute(r) \/ PolicyApply(r) \/ PolicyWake(r)
        PROVE  Moved
    <3>1. Finish(r) \/ \E s \in {"idle", "block", "unblock", "unblocked"} : To(r, s)
      BY <2>5 DEF PolicyRoute, PolicyApply, PolicyWake
    <3>2. QED
      BY <1>2, <1>3, <3>1
  <2>6. QED
    BY <1>4, <2>1, <2>2, <2>3, <2>4, <2>5 DEF ClientNext
<1>5. CASE MailboxNext
  BY <1>1, <1>5 DEF MailboxNext, AlarmFires, DispatchCall, AlarmReturns, LeaseRunsOut, rest,
                    requestVars
<1>6. CASE LeaseNext
  BY <1>1, <1>6 DEF LeaseNext, LeaseRoute, LeasePolicy, LeaseGrant, LeaseLost,
              CompleteDrain, RecordFence, requestVars
<1>7. CASE RuntimeNext
  BY <1>1, <1>7 DEF RuntimeNext, BeginSend, SendCommits, Conclude, Refuse, TryAgain,
              Abandon, SendAck, DeliverAck, Crash, requestVars
<1>8. CASE PlaneNext
  BY <1>1, <1>8 DEF PlaneNext, Restart, Boot, Pause, Reassert, BillingChanges, Archive,
              Unarchive, OutboxList, OutboxDeliver, OutboxAcknowledge, OutboxLost, requestVars
<1>9. QED
  BY <1>4, <1>5, <1>6, <1>7, <1>8 DEF Next

LEMMA PresentStep ==
    ASSUME Base, WakeInv, Next
    PROVE  Present'
<1>0. RowsStay /\ MailboxOK
  BY NextStays, BaseMailbox
<1>1. ASSUME NEW r \in Requests, EnqueueWake(r) PROVE Present'
  <2>1. PICK s \in {"ready", "blocked", "destroyed"} : To(r, s)
    BY <1>1 DEF EnqueueWake
  <2>2. req[r].at = "reserved" /\ row' = row /\ req \in [Requests -> Requests_]
    BY <1>1 DEF EnqueueWake, mailboxVars, Base, TypeOK
  <2>3. \A q \in Requests : /\ req'[q].cmd = req[q].cmd
                            /\ q # r => req'[q].at = req[q].at
    BY <2>1, <2>2 DEF To, Requests_
  <2>4. QED
    BY <2>2, <2>3 DEF Present, Committing, WakeInv
<1>2. ASSUME NEW q \in Requests, EnqueueReserve(q), Reserved(req[q].cmd, sealed[req[q].cmd])
      PROVE  row'[req[q].cmd].state # "absent"
  <2>1. /\ req[q].cmd \in Commands /\ sealed[req[q].cmd] \in 0..MaxFence
        /\ sealed[req[q].cmd] <= ws.fence
    BY <1>2, SealedFence DEF EnqueueReserve, Enqueueing
  <2>2. Reserve(req[q].cmd, sealed[req[q].cmd])
    BY <1>2 DEF EnqueueReserve, Reserved
  <2>3. QED
    BY <1>0, <1>2, <2>1, <2>2, ReserveOK
<1>3. \A q \in Requests : req[q].at = "reserved" \/ Committing(q)
        => row'[req[q].cmd].state # "absent"
  <2>1. ASSUME NEW q \in Requests, req[q].at = "reserved" \/ Committing(q)
        PROVE  row'[req[q].cmd].state # "absent"
    <3>1. req[q].cmd \in Commands
      BY <2>1, SealedFence DEF Enqueueing, Committing
    <3>2. QED
      BY <1>0, <2>1, <3>1 DEF RowsStay, WakeInv, Present
  <2>2. QED
    BY <2>1
<1>4. CASE /\ SameCommits
           /\ \A q \in Requests : req'[q].at = "reserved"
                 => \/ req[q].at = "reserved" /\ req'[q].cmd = req[q].cmd
                    \/ /\ EnqueueReserve(q) /\ Reserved(req[q].cmd, sealed[req[q].cmd])
                       /\ req'[q].cmd = req[q].cmd
  BY <1>2, <1>3, <1>4 DEF SameCommits, Present
<1>5. QED
  BY <1>1, <1>4, RequestCases

\* Only the wake request of an enqueue gives a command its demand.
LEMMA DemandCases ==
    ASSUME Base, WakeInv, Next, ~Archive
    PROVE  NoNewDemand \/ \E r \in Requests : EnqueueWake(r)
<1>1. ws'.fence = ws.fence
  <2>0. ws \in Workspaces
    BY DEF Base, TypeOK
  <2>1. CASE PlaneNext
    <3>1. CASE OutboxAcknowledge
      BY <2>0, <3>1 DEF OutboxAcknowledge, Workspaces
    <3>2. QED
      BY <2>1, <3>1, PlaneKeeps
  <2>2. CASE ~PlaneNext
    BY <2>2, OthersKeep DEF Next
  <2>3. QED
    BY <2>1, <2>2
<1>2. SUFFICES ASSUME ~\E r \in Requests : EnqueueWake(r) PROVE NoNewDemand
  OBVIOUS
<1>3. SameCommits
  BY <1>2, RequestCases
<1>4. CASE Quietly
  BY <1>1, <1>3, <1>4, QuietActions, QuietDemand DEF QuietStep, AllQuiet, NoNewDemand
<1>5. QED
  BY <1>1, <1>3, <1>4, CommitDemand, GrantDemand, AnswerDemand, NextCases

LEMMA MailboxWakes ==
    ASSUME Base, RequestMailboxWake
    PROVE  ws'.wake /\ \A g \in Gens : ~Draining(g)'
<1>0. ws \in Workspaces /\ lreq \in [Gens -> LeaseRequests]
  BY DEF Base, TypeOK
<1>1. ws'.wake = TRUE
  BY <1>0 DEF RequestMailboxWake, Workspaces
<1>2. ASSUME NEW g \in Gens PROVE ~Draining(g)'
  <2>1. lreq'[g] = Outdated(lreq[g]) /\ lreq[g] \in LeaseRequests
    BY <1>0 DEF RequestMailboxWake
  <2>2. lreq'[g].wake # "current"
    BY <2>1 DEF Outdated, LeaseRequests
  <2>3. QED
    BY <2>2 DEF Draining
<1>3. QED
  BY <1>1, <1>2

\* What a step may do to the pending wake and to the drains under way.
LEMMA WakeCases ==
    ASSUME Base, Next
    PROVE  \/ ws'.wake = ws.wake /\ \A g \in Gens : Draining(g)' => Draining(g)
           \/ ws'.wake /\ \A g \in Gens : ~Draining(g)'
           \/ \E g \in Gens : LeaseGrant(g)
           \/ \E g \in Gens : CompleteDrain(g)
<1> DEFINE Same == ws'.wake = ws.wake /\ \A g \in Gens : Draining(g)' => Draining(g)
           Woken == ws'.wake /\ \A g \in Gens : ~Draining(g)'
<1>0. ws \in Workspaces /\ lreq \in [Gens -> LeaseRequests]
  BY DEF Base, TypeOK
<1>1. ASSUME ws'.wake = ws.wake, lreq' = lreq PROVE Same
  BY <1>1 DEF Draining
<1>2. ASSUME NEW answer, RequestWake(answer) PROVE Same \/ Woken
  <2>1. CASE UNCHANGED <<ws, lreq>>
    BY <1>1, <2>1
  <2>2. CASE RequestMailboxWake
    BY <2>2, MailboxWakes
  <2>3. QED
    BY <1>2, <2>1, <2>2 DEF RequestWake
<1>3. ASSUME NEW g \in Gens, NEW l, lreq' = [lreq EXCEPT ![g] = l], l.at # "drain",
             ws'.wake = ws.wake
      PROVE  Same
  <2>1. \A k \in Gens : lreq'[k] = IF k = g THEN l ELSE lreq[k]
    BY <1>0, <1>3
  <2>2. QED
    BY <1>3, <2>1 DEF Draining
<1>4. CASE ClientNext
  <2>1. \/ ws' = ws /\ lreq' = lreq
        \/ \E answer : RequestWake(answer)
    BY <1>4 DEF ClientNext, UserCancel, EnqueueRoute, EnqueueReserve, EnqueueWake,
          EnqueueCommit, EnqueueDestroyed, PolicyRoute, PolicyApply, PolicyWake, RequestLost,
          storeVars
  <2>2. QED
    BY <1>1, <1>2, <2>1
<1>5. CASE MailboxNext
  <2>1. \/ ws' = ws /\ lreq' = lreq
        \/ \E answer : RequestWake(answer)
    BY <1>5 DEF MailboxNext, AlarmFires, DispatchCall, AlarmReturns, LeaseRunsOut, rest, storeVars
  <2>2. QED
    BY <1>1, <1>2, <2>1
<1>6. CASE LeaseNext
  <2>1. ASSUME NEW i \in Incarnations, LeaseRoute(i) PROVE Same
    <3> DEFINE l == [at |-> "routed", inc |-> i, fence |-> ws.fence,
                     wake |-> IF billing THEN "current" ELSE "none", pay |-> billing]
    <3>1. up[i] \in Gens /\ lreq' = [lreq EXCEPT ![up[i]] = l] /\ ws' = ws
      BY <2>1 DEF LeaseRoute, Base, TypeOK, Workspaces, storeVars
    <3>2. l.at # "drain"
      OBVIOUS
    <3> HIDE DEF l
    <3>3. QED
      BY <1>3, <3>1, <3>2
  <2>2. ASSUME NEW g \in Gens, LeasePolicy(g) PROVE Same
    <3> DEFINE l == [lreq[g] EXCEPT !.at = "policied"]
    <3>1. lreq' = [lreq EXCEPT ![g] = l] /\ ws' = ws
      BY <2>2 DEF LeasePolicy, storeVars
    <3>2. l.at # "drain"
      BY <1>0 DEF LeaseRequests
    <3> HIDE DEF l
    <3>3. QED
      BY <1>3, <3>1, <3>2
  <2>3. ASSUME NEW g \in Gens, LeaseLost(g) \/ RecordFence(g) PROVE Same
    <3>1. /\ lreq' = [lreq EXCEPT ![g] = NoLease]
          /\ ws' = ws \/ ws' = [ws EXCEPT !.fenceRequired = TRUE]
      BY <2>3 DEF LeaseLost, RecordFence, storeVars
    <3>2. ws'.wake = ws.wake
      BY <1>0, <3>1 DEF Workspaces
    <3>3. NoLease.at # "drain"
      BY DEF NoLease
    <3>4. QED
      BY <1>3, <3>1, <3>2, <3>3
  <2>4. QED
    BY <1>6, <2>1, <2>2, <2>3 DEF LeaseNext
<1>7. CASE RuntimeNext
  BY <1>1, <1>7 DEF RuntimeNext, BeginSend, SendCommits, Conclude, Refuse, TryAgain,
              Abandon, SendAck, DeliverAck, Crash, storeVars
<1>8. CASE PlaneNext
  <2>1. lreq' = lreq
    BY <1>8 DEF PlaneNext, Restart, Boot, Pause, Reassert, BillingChanges, Archive,
              Unarchive, OutboxList, OutboxDeliver, OutboxAcknowledge, OutboxLost
  <2>2. QED
    BY <1>1, <1>8, <2>1, PlaneKeeps
<1>9. QED
  BY <1>4, <1>5, <1>6, <1>7, <1>8 DEF Next

DemandOK == \A c \in Commands : Demand(c) => ws.wake /\ \A g \in Gens : ~Draining(g)

LEMMA DemandStep ==
    ASSUME Base, WakeInv, Next
    PROVE  DemandOK'
<1>0. ws \in Workspaces /\ lreq \in [Gens -> LeaseRequests] /\ DemandOK
  BY DEF Base, TypeOK, WakeInv, DemandOK
<1>1. CASE Archive
  <2>1. row' = row
    BY <1>1 DEF Archive, mailboxVars
  <2>2. \A c \in Commands : ~Demand(c)'
    BY <1>1, <2>1, ArchivedStep DEF Demand, Open
  <2>3. QED
    BY <2>2 DEF DemandOK
<1>2. ASSUME NEW r \in Requests, EnqueueWake(r) PROVE DemandOK'
  <2>1. PICK answer : RequestWake(answer)
    BY <1>2 DEF EnqueueWake
  <2>2. CASE RequestMailboxWake
    BY <2>2, MailboxWakes DEF DemandOK
  <2>3. CASE ws.life = "archived" /\ UNCHANGED <<ws, lreq>>
    <3>1. row' = row
      BY <1>2 DEF EnqueueWake, mailboxVars
    <3>2. \A c \in Commands : ~Demand(c)'
      BY <2>3, <3>1 DEF Demand, Open, WakeInv, SealedRows, ArchivedPast
    <3>3. QED
      BY <3>2 DEF DemandOK
  <2>4. QED
    BY <2>1, <2>2, <2>3 DEF RequestWake
<1>3. CASE NoNewDemand
  <2>1. ASSUME NEW g \in Gens, LeaseGrant(g) PROVE DemandOK'
    <3>1. ws' = ws
      BY <2>1 DEF LeaseGrant, storeVars
    <3>2. CASE NonterminalCount(row') = 0
      <4>1. \A c \in Commands : ~Demand(c)'
        BY <3>2, EmptyMailbox DEF Demand
      <4>2. QED
        BY <4>1 DEF DemandOK
    <3>3. CASE NonterminalCount(row') # 0
      <4>1. \/ lreq' = [lreq EXCEPT ![g] = NoLease]
            \/ lreq' = [lreq EXCEPT ![g] = [lreq[g] EXCEPT !.at = "fence"]]
        BY <2>1, <3>3 DEF LeaseGrant
      <4>2. lreq'[g].at # "drain" /\ \A k \in Gens \ {g} : lreq'[k] = lreq[k]
        BY <1>0, <4>1 DEF NoLease, LeaseRequests
      <4>3. \A k \in Gens : Draining(k)' => Draining(k)
        BY <4>2 DEF Draining
      <4>4. QED
        BY <1>0, <1>3, <3>1, <4>3 DEF DemandOK, NoNewDemand
    <3>4. QED
      BY <3>2, <3>3
  <2>2. ASSUME NEW g \in Gens, CompleteDrain(g) PROVE DemandOK'
    <3>1. CASE StillCurrent(g)
      <4>1. Draining(g)
        BY <2>2, <3>1 DEF CompleteDrain, StillCurrent, Draining
      <4>2. \A c \in Commands : ~Demand(c)
        BY <1>0, <4>1 DEF DemandOK
      <4>3. QED
        BY <1>3, <4>2 DEF DemandOK, NoNewDemand
    <3>2. CASE ~StillCurrent(g)
      <4>1. ws' = ws /\ lreq' = [lreq EXCEPT ![g] = NoLease]
        BY <2>2, <3>2 DEF CompleteDrain
      <4>2. lreq'[g].at # "drain" /\ \A k \in Gens \ {g} : lreq'[k] = lreq[k]
        BY <1>0, <4>1 DEF NoLease
      <4>3. \A k \in Gens : Draining(k)' => Draining(k)
        BY <4>2 DEF Draining
      <4>4. QED
        BY <1>0, <1>3, <4>1, <4>3 DEF DemandOK, NoNewDemand
    <3>3. QED
      BY <3>1, <3>2
  <2>3. CASE ws'.wake = ws.wake /\ \A g \in Gens : Draining(g)' => Draining(g)
    BY <1>0, <1>3, <2>3 DEF DemandOK, NoNewDemand
  <2>4. CASE ws'.wake /\ \A g \in Gens : ~Draining(g)'
    BY <2>4 DEF DemandOK
  <2>5. QED
    BY <2>1, <2>2, <2>3, <2>4, WakeCases
<1>4. QED
  BY <1>1, <1>2, <1>3, DemandCases

LEMMA WakeStep ==
    ASSUME Base, WakeInv, [Next]_vars
    PROVE  WakeInv'
<1>1. CASE Next
  BY <1>1, SealedStep, ArchivedStep, PresentStep, DemandStep DEF WakeInv, DemandOK
<1>2. CASE UNCHANGED vars
  <2>1. row' = row /\ ws' = ws /\ req' = req /\ lreq' = lreq /\ sealed' = sealed
    BY <1>2 DEF vars, mailboxVars, storeVars, requestVars
  <2>2. SealedRows' /\ ArchivedPast' /\ Present'
    BY <2>1 DEF WakeInv, SealedRows, ArchivedPast, Present, Committing, NotSealed
  <2>3. DemandOK'
    BY <2>1 DEF WakeInv, DemandOK, Demand, Committing, Draining
  <2>4. QED
    BY <2>2, <2>3 DEF WakeInv, DemandOK
<1>3. QED
  BY <1>1, <1>2

\* While an accepted command is undecided and its workspace was not archived
\* under it, a wake is pending in the control plane: no completion of a drain,
\* computed from a lease response read earlier, lets the workspace go to sleep
\* on a command enqueued in between, for any number of requests and commands.
THEOREM WakeIsKept == Spec => []WakeNotLost
<1>1. CloudInit => Base /\ WakeInv
  <2>1. SUFFICES ASSUME CloudInit PROVE WakeInv
    BY BaseInit
  <2>2. /\ \A c \in Commands : row[c].state = "absent"
        /\ ws.life = "ready" /\ \A r \in Requests : req[r].at = "idle"
    BY <2>1 DEF CloudInit, MailboxInit, NoRow, Idle
  <2>3. QED
    BY <2>2 DEF WakeInv, SealedRows, ArchivedPast, Present, Committing, Demand, Open
<1>2. Base /\ WakeInv /\ [Next]_vars => Base' /\ WakeInv'
  BY BaseStep, WakeStep
<1>3. WakeInv => WakeNotLost
  BY DEF WakeInv, Demand, WakeNotLost
<1>4. QED
  BY <1>1, <1>2, <1>3, PTL DEF Spec

-----------------------------------------------------------------------------
(* The order of a lane. *)

\* Every step of the system makes at most one of the mailbox's calls.
LEMMA MailboxCalls ==
    ASSUME Base, Next
    PROVE  \/ UNCHANGED <<row, box>>
           \/ Block \/ Unblock
           \/ \E c \in Commands : \/ Cancel(c) \/ DeadlinePasses(c)
                                  \/ \E f : Reserve(c, f)
                                  \/ \E hold : Commit(c, hold)
           \/ \E S : Alarm(S)
           \/ \E f : Lifecycle(f)
           \/ \E g \in Gens : LeaseGrant(g)
           \/ \E a \in net : DeliverAck(a)
<1>1. CASE ClientNext
  <2>1. ASSUME NEW c \in Commands, UserCancel(c) PROVE Cancel(c)
    BY <2>1 DEF UserCancel
  <2>2. ASSUME NEW r \in Requests, NEW c \in Commands, EnqueueRoute(r, c)
        PROVE  UNCHANGED <<row, box>>
    BY <2>2 DEF EnqueueRoute, mailboxVars
  <2>3. ASSUME NEW r \in Requests, EnqueueReserve(r)
        PROVE  UNCHANGED <<row, box>> \/ \E c \in Commands : \E f : Reserve(c, f)
    BY <2>3, SealedFence DEF EnqueueReserve, Enqueueing, mailboxVars
  <2>4. ASSUME NEW r \in Requests,
               EnqueueWake(r) \/ PolicyRoute(r) \/ PolicyWake(r) \/ RequestLost(r)
        PROVE  UNCHANGED <<row, box>>
    BY <2>4 DEF EnqueueWake, PolicyRoute, PolicyWake, RequestLost, mailboxVars
  <2>5. ASSUME NEW r \in Requests, EnqueueCommit(r)
        PROVE  \E c \in Commands : \E hold : Commit(c, hold)
    BY <2>5, SealedFence DEF EnqueueCommit, Enqueueing
  <2>6. ASSUME NEW r \in Requests, EnqueueDestroyed(r)
        PROVE  \E c \in Commands : Cancel(c)
    BY <2>6, SealedFence DEF EnqueueDestroyed, Enqueueing
  <2>7. ASSUME NEW r \in Requests, PolicyApply(r) PROVE Block \/ Unblock
    BY <2>7 DEF PolicyApply
  <2>8. QED
    BY <1>1, <2>1, <2>2, <2>3, <2>4, <2>5, <2>6, <2>7 DEF ClientNext
<1>2. CASE MailboxNext
  <2>1. CASE AlarmFires
    BY <2>1 DEF AlarmFires
  <2>2. CASE DispatchCall \/ AlarmReturns
    BY <2>2 DEF DispatchCall, AlarmReturns, DispatchDelivered, DispatchFailed
  <2>3. ASSUME NEW c \in Commands, LeaseRunsOut(c) PROVE DeadlinePasses(c)
    BY <2>3 DEF LeaseRunsOut
  <2>4. QED
    BY <1>2, <2>1, <2>2, <2>3 DEF MailboxNext
<1>3. CASE LeaseNext
  <2>1. ASSUME NEW i \in Incarnations, LeaseRoute(i) PROVE UNCHANGED <<row, box>>
    BY <2>1 DEF LeaseRoute, mailboxVars
  <2>2. ASSUME NEW g \in Gens, LeasePolicy(g) PROVE Block \/ Unblock
    BY <2>2 DEF LeasePolicy
  <2>3. ASSUME NEW g \in Gens, LeaseLost(g) \/ CompleteDrain(g) \/ RecordFence(g)
        PROVE  UNCHANGED <<row, box>>
    BY <2>3 DEF LeaseLost, CompleteDrain, RecordFence, mailboxVars
  <2>4. QED
    BY <1>3, <2>1, <2>2, <2>3 DEF LeaseNext
<1>4. CASE RuntimeNext
  BY <1>4 DEF RuntimeNext, BeginSend, SendCommits, Conclude, Refuse, TryAgain, Abandon,
              SendAck, Crash, mailboxVars
<1>5. CASE PlaneNext
  BY <1>5 DEF PlaneNext, OutboxDeliver, Restart, Boot, Pause, Reassert, BillingChanges,
              Archive, Unarchive, OutboxList, OutboxAcknowledge, OutboxLost, mailboxVars
<1>6. QED
  BY <1>1, <1>2, <1>3, <1>4, <1>5 DEF Next

\* Of a row that was offered, only a lease past its deadline is given up by a
\* handler other than a lease from other storage.
GivesUpLate(r, s) == r.ever /\ Ended(s) /\ ~Ended(r) => r.late

LEMMA RowGivesUpLate ==
    ASSUME NEW r, RowOK(r), NEW f
    PROVE  /\ GivesUpLate(r, Expire(r)) /\ Expire(r).late = r.late
           /\ GivesUpLate(r, BelowFence(r, f)) /\ GivesUpLate(r, Observe(r, f))
           /\ GivesUpLate(r, Lapsed(r))
<1>1. GivesUpLate(r, Expire(r)) /\ Expire(r).late = r.late
  BY DEF GivesUpLate, Expire, GiveUp, RowOK, Rows, Ended, Terminal
<1>2. GivesUpLate(r, BelowFence(r, f))
  BY DEF GivesUpLate, BelowFence, Terminalize, GiveUp, RowOK, Rows, Ended, Terminal, Open
<1>3. GivesUpLate(r, Observe(r, f))
  BY <1>2 DEF Observe, GivesUpLate
<1>4. GivesUpLate(r, Lapsed(r))
  BY DEF GivesUpLate, Lapsed, RowOK, Rows, Ended, Terminal
<1>5. QED
  BY <1>1, <1>2, <1>3, <1>4

\* A lease call gives up a lease past its deadline, or one of other storage.
LEMMA ObservedEnds ==
    ASSUME Base, NEW g \in Gens, NEW i \in Incarnations, NEW f \in 0..MaxFence,
           NEW c \in Commands, row[c].ever, ~Ended(row[c]),
           Ended(Observed(g, i, f)[c])
    PROVE  row[c].late \/ box.inc \notin {NoIncarnation, i}
<1> DEFINE a == Expire(row[c])
           b == Observe(a, f)
           d == Orphaned(b, i)
           e == Requeued(d, g, i)
<1>1. RowOK(row[c]) /\ f \in Nat /\ box.fence \in Nat /\ Observed(g, i, f)[c] = e
  BY CloudConstants DEF Base, TypeOK, Observed
<1>2. RowOK(a) /\ Quiet(row[c], a) /\ GivesUpLate(row[c], a) /\ a.late = row[c].late
  BY <1>1, ExpireOK, RowGivesUpLate
<1>3. RowOK(b) /\ GivesUpLate(a, b)
  BY <1>1, <1>2, ObserveOK, RowGivesUpLate
<1>4. d = b \/ box.inc \notin {NoIncarnation, i}
  BY DEF Orphaned
<1>5. Ended(e) => Ended(d)
  <2>1. RowOK(d)
    BY <1>3, OrphanedOK
  <2> HIDE DEF d
  <2>2. QED
    BY <2>1 DEF Requeued, RowOK, Rows, Ended, Terminal
<1> HIDE DEF a, b, d, e
<1>6. QED
  BY <1>1, <1>2, <1>3, <1>4, <1>5 DEF GivesUpLate, Quiet, Evolves

\* How a lease can end while a runtime may still hold it.
LEMMA LeaseEnds ==
    ASSUME Base, Next, NEW c \in Commands, row[c].ever, ~Ended(row[c]), Ended(row'[c])
    PROVE  \/ row[c].late
           \/ \E g \in Gens : /\ LeaseGrant(g) /\ ~StaleGeneration(g)
                              /\ ~StaleFence(lreq[g].fence)
                              /\ box.inc \notin {NoIncarnation, lreq[g].inc}
           \/ \E a \in net : DeliverAck(a) /\ a.cmd = c /\ a.token = row[c].issued
<1>1. RowOK(row[c]) /\ row \in [Commands -> Rows] /\ ~(row'[c] = row[c])
  BY DEF Base, TypeOK, Ended
<1>2. CASE Block \/ Unblock
  <2>1. row'[c].state \in {row[c].state, "blocked", "waiting-for-runtime"}
    BY <1>1, <1>2 DEF Block, Unblock, Rows
  <2>2. QED
    BY <2>1 DEF Ended, Terminal
<1>3. ASSUME NEW d \in Commands, Cancel(d) PROVE FALSE
  BY <1>1, <1>3 DEF Cancel, Cancellable
<1>4. ASSUME NEW d \in Commands, DeadlinePasses(d) PROVE FALSE
  BY <1>1, <1>4 DEF DeadlinePasses, Ended, Rows
<1>5. ASSUME NEW d \in Commands, NEW f, Reserve(d, f) PROVE row[c].late
  <2> DEFINE seen == [x \in Commands |-> Observe(row[x], f)]
  <2>1. GivesUpLate(row[c], Observe(row[c], f))
    BY <1>1, RowGivesUpLate
  <2>2. row[c].state # "absent"
    BY <1>1 DEF RowOK
  <2>3. row'[c] = seen[c]
    BY <1>5, <2>2 DEF Reserve
  <2>4. QED
    BY <2>1, <2>3 DEF GivesUpLate
<1>6. ASSUME NEW d \in Commands, NEW hold, Commit(d, hold) PROVE FALSE
  <2>1. row'[c].state \in {row[c].state, "blocked", "accepted"}
    BY <1>1, <1>6 DEF Commit, Rows
  <2>2. QED
    BY <2>1 DEF Ended, Terminal
<1>7. ASSUME NEW S, Alarm(S) PROVE row[c].late
  <2>1. row'[c] \in {Lapsed(row[c]), Expire(row[c])}
    BY <1>7 DEF Alarm
  <2>2. QED
    BY <1>1, <2>1, RowGivesUpLate DEF GivesUpLate
<1>8. ASSUME NEW f, Lifecycle(f) PROVE row[c].late
  <2>1. row'[c] = BelowFence(row[c], f)
    BY <1>1, <1>8 DEF Lifecycle
  <2>2. QED
    BY <1>1, <2>1, RowGivesUpLate DEF GivesUpLate
<1>9. ASSUME NEW g \in Gens, LeaseGrant(g)
      PROVE  \/ row[c].late
             \/ /\ ~StaleGeneration(g) /\ ~StaleFence(lreq[g].fence)
                /\ box.inc \notin {NoIncarnation, lreq[g].inc}
  <2> DEFINE i == lreq[g].inc
             f == lreq[g].fence
  <2>1. i \in Incarnations /\ f \in 0..MaxFence /\ Lease(g, i, f)
    BY <1>9 DEF Base, TypeOK, LeaseRequests, LeaseGrant
  <2>2. c \notin Grants(g, i, f)
    BY <1>9, LeaseGrantRows DEF GrantStep, Offered, Ended, Terminal
  <2> HIDE DEF i, f
  <2>3. CASE StaleGeneration(g) \/ StaleFence(f)
    <3>1. row'[c] = Expire(row[c])
      BY <2>1, <2>3 DEF Lease
    <3>2. QED
      BY <1>1, <3>1, RowGivesUpLate DEF GivesUpLate
  <2>4. CASE ~StaleGeneration(g) /\ ~StaleFence(f)
    <3>1. row'[c] = Observed(g, i, f)[c]
      BY <2>1, <2>2, <2>4 DEF Lease
    <3>2. QED
      BY <2>1, <2>4, <3>1, ObservedEnds DEF i, f
  <2>5. QED
    BY <2>3, <2>4 DEF i, f
<1>10. ASSUME NEW a \in net, DeliverAck(a)
       PROVE  row[c].late \/ (a.cmd = c /\ a.token = row[c].issued)
  <2> DEFINE e == Expire(row[c])
  <2>1. GivesUpLate(row[c], e) /\ RowOK(e) /\ e.issued = row[c].issued
    BY <1>1, ExpireOK, RowGivesUpLate DEF Quiet, Evolves
  <2>2. row'[c] = IF a.cmd = c THEN Answered(e, a.token, a.state) ELSE e
    BY <1>10 DEF DeliverAck, Acknowledge
  <2> HIDE DEF e
  <2>3. QED
    BY <2>1, <2>2 DEF GivesUpLate, Answered, RowOK
<1>11. QED
  BY <1>1, <1>2, <1>3, <1>4, <1>5, <1>6, <1>7, <1>8, <1>9, <1>10, MailboxCalls

\* What a step keeps of a row that exists.
LEMMA RowStep ==
    ASSUME Base, Next, NEW c \in Commands, row[c].state # "absent"
    PROVE  /\ row'[c].state # "absent" /\ row'[c].seq = row[c].seq
           /\ row[c].ever => row'[c].ever /\ row'[c].inc = row[c].inc
           /\ row[c].issued <= row'[c].issued
           /\ row[c].late => row'[c].late \/ row[c].issued < row'[c].issued
           /\ Ended(row[c]) => Ended(row'[c])
<1>0. row[c].issued \in Nat /\ row'[c].issued \in Nat /\ RowOK(row[c])
  BY Named, BaseStep DEF Base, RowOK, Rows
<1>1. CASE Evolves(row[c], row'[c])
  BY <1>0, <1>1 DEF Evolves, Ended
<1>2. ASSUME NEW g \in Gens, LeaseGrant(g), ~Evolves(row[c], row'[c])
      PROVE  Offered(row[c], row'[c], lreq[g].inc)
  BY <1>2, LeaseGrantRows DEF GrantStep, Quiet
<1>3. ASSUME NEW i, Offered(row[c], row'[c], i)
      PROVE  /\ row'[c].state # "absent" /\ row'[c].seq = row[c].seq
             /\ row[c].ever => row'[c].ever /\ row'[c].inc = row[c].inc
             /\ row[c].issued < row'[c].issued /\ ~Ended(row[c])
  BY <1>0, <1>3 DEF Offered, Open
<1>4. ASSUME NEW a \in net, DeliverAck(a), ~Evolves(row[c], row'[c])
      PROVE  /\ row'[c].state # "absent" /\ row'[c].seq = row[c].seq
             /\ row[c].ever => row'[c].ever /\ row'[c].inc = row[c].inc
             /\ row[c].issued = row'[c].issued /\ ~Ended(row[c])
             /\ row[c].late => row'[c].late
  <2>1. /\ Open(row[c]) /\ row'[c].state = a.state /\ row'[c].ever
        /\ row'[c].inc = row[c].inc /\ row'[c].issued = row[c].issued
        /\ row'[c].seq = row[c].seq /\ (row[c].late => row'[c].late)
    BY <1>4, DeliverAckRows DEF AnswerStep, Quiet
  <2>2. a.state # "absent"
    BY <1>4, Named DEF Answers
  <2>3. QED
    BY <2>1, <2>2 DEF Open
<1>5. QED
  BY <1>0, <1>1, <1>2, <1>3, <1>4, RowCases

\* The sequence numbers of the mailbox: a new row has the greatest.
LEMMA BoxStep ==
    ASSUME Base, Next
    PROVE  /\ box'.seq >= box.seq
           /\ \A c \in Commands : row[c].state = "absent" /\ row'[c].state # "absent"
                => /\ box.seq < row'[c].seq /\ row'[c].seq <= box'.seq
                   /\ ~row'[c].ever
           /\ \/ box'.gen = box.gen /\ box'.inc = box.inc
              \/ \E g \in Gens : LeaseGrant(g)
<1>0. box \in Boxes /\ box.seq \in Nat /\ row \in [Commands -> Rows]
  BY DEF Base, TypeOK, Boxes
<1>1. ASSUME NEW c \in Commands, NEW f, Reserve(c, f)
      PROVE  /\ box'.gen = box.gen /\ box'.inc = box.inc
             /\ box'.seq >= box.seq
             /\ row[c].state = "absent" /\ row'[c].state # "absent"
                  => /\ box.seq < row'[c].seq /\ row'[c].seq <= box'.seq
                     /\ ~row'[c].ever
  <2> DEFINE seen == [d \in Commands |-> Observe(row[d], f)]
             room == /\ row[c].state = "absent"
                     /\ NonterminalCount(seen) < MaxNonterminal
             new == [NoRow EXCEPT !.state = "reserved", !.seq = box.seq + 1, !.env = f]
  <2>1. /\ box' = [box EXCEPT !.fence = f,
                              !.seq = IF room THEN box.seq + 1 ELSE box.seq]
        /\ row' = IF room THEN [seen EXCEPT ![c] = new] ELSE seen
    BY <1>1 DEF Reserve
  <2>2. new.seq = box.seq + 1 /\ new.ever = FALSE
    BY DEF NoRow
  <2>3. row[c].state = "absent" => seen[c].state = "absent"
    BY DEF Observe, BelowFence, Open
  <2> HIDE DEF new, seen, room
  <2>4. /\ box'.gen = box.gen /\ box'.inc = box.inc
        /\ box'.seq = IF room THEN box.seq + 1 ELSE box.seq
    BY <1>0, <2>1 DEF Boxes
  <2>5. room => row'[c] = new
    BY <2>1 DEF seen
  <2>6. QED
    BY <1>0, <2>1, <2>2, <2>3, <2>4, <2>5
<1>2. ASSUME NEW c \in Commands, row[c].state = "absent", row'[c].state # "absent"
      PROVE  box.seq < row'[c].seq /\ row'[c].seq <= box'.seq /\ ~row'[c].ever
  <2>1. PICK r \in Requests : EnqueueReserve(r) /\ req[r].cmd = c
    BY <1>2, AbsentStays
  <2>2. Reserve(c, sealed[c])
    BY <1>2, <2>1 DEF EnqueueReserve, mailboxVars
  <2>3. QED
    BY <1>1, <1>2, <2>2
<1>3. ASSUME NEW f, Lifecycle(f)
      PROVE  box'.gen = box.gen /\ box'.inc = box.inc /\ box'.seq = box.seq
  BY <1>0, <1>3 DEF Lifecycle, Boxes
<1>4. ASSUME NEW g \in Gens, LeaseGrant(g) PROVE box'.seq = box.seq
  BY <1>0, <1>4 DEF LeaseGrant, Lease, Boxes
<1>5. ASSUME NEW a \in net, DeliverAck(a) PROVE box' = box
  BY <1>5 DEF DeliverAck, Acknowledge
<1>6. ASSUME NEW S, Alarm(S) PROVE box' = box
  BY <1>6 DEF Alarm
<1>7. ASSUME NEW c \in Commands, NEW hold,
             Cancel(c) \/ DeadlinePasses(c) \/ Commit(c, hold)
      PROVE  box' = box
  BY <1>7 DEF Cancel, DeadlinePasses, Commit
<1>8. /\ box'.seq >= box.seq
      /\ \/ box'.gen = box.gen /\ box'.inc = box.inc
         \/ \E g \in Gens : LeaseGrant(g)
  BY <1>0, <1>1, <1>3, <1>4, <1>5, <1>6, <1>7, MailboxCalls DEF Block, Unblock
<1>9. QED
  BY <1>2, <1>8

\* Command c was accepted after command d of its lane.
Later(c, d) == LaneOf[c] = LaneOf[d] /\ row[c].seq > row[d].seq

\* A command is offered only when every earlier one of its lane has ended.
OrderInv ==
    /\ \A c \in Commands : row[c].state # "absent" => row[c].seq <= box.seq
    /\ \A c, d \in Commands :
          row[c].ever /\ Later(c, d) /\ row[d].state # "absent" => Ended(row[d])

\* What the mailbox does for a lane whose head it offers.
LEMMA HeadOffered ==
    ASSUME Base, NEW g \in Gens, LeaseGrant(g),
           NEW c \in Grants(g, lreq[g].inc, lreq[g].fence), NEW d \in Commands,
           Later(c, d), row[d].state # "absent"
    PROVE  /\ Ended(Observed(g, lreq[g].inc, lreq[g].fence)[d])
           /\ row'[d] = Observed(g, lreq[g].inc, lreq[g].fence)[d]
           /\ ~StaleGeneration(g) /\ ~StaleFence(lreq[g].fence)
<1> DEFINE i == lreq[g].inc
           f == lreq[g].fence
           O == Observed(g, i, f)
<1>1. /\ i \in Incarnations /\ f \in 0..MaxFence /\ Lease(g, i, f)
      /\ f \in Nat /\ box.fence \in Nat
  BY CloudConstants DEF Base, TypeOK, LeaseRequests, LeaseGrant
<1>2. c \in Commands /\ LaneHead(O, c) /\ ~StaleGeneration(g) /\ ~StaleFence(f)
  BY DEF Grants
<1> HIDE DEF i, f
<1>3. f >= box.fence
  BY <1>1, <1>2 DEF StaleFence
<1>4. \A x \in Commands : Quiet(row[x], O[x])
  BY <1>1, <1>3, BaseMailbox, ObservedOK
<1>5. row[c].state # "absent"
  <2>1. row[c].state = "absent" => O[c].state = "absent"
    BY <1>2 DEF Observed, Requeued, Orphaned, Observe, BelowFence, Expire, Open
  <2>2. QED
    BY <1>2, <2>1 DEF LaneHead, Waiting
<1> HIDE DEF O
<1>6. O[c].seq = row[c].seq /\ O[d].seq = row[d].seq /\ O[d].state # "absent"
  BY <1>2, <1>4, <1>5 DEF Quiet, Evolves
<1>7. ~Open(O[d])
  BY <1>2, <1>6 DEF LaneHead, Later
<1>8. Ended(O[d]) /\ O[d].state \notin Waiting
  BY <1>6, <1>7 DEF Open, Ended, Terminal, Waiting
<1>9. d \notin Grants(g, i, f)
  BY <1>8 DEF Grants, LaneHead, O
<1>10. row'[d] = O[d]
  BY <1>1, <1>2, <1>9 DEF Lease, O
<1>11. QED
  BY <1>2, <1>8, <1>10 DEF i, f, O

\* A command is offered for the first time by a lease call only.
LEMMA FirstOffer ==
    ASSUME Base, Next, NEW c \in Commands, row'[c].ever, ~row[c].ever
    PROVE  /\ row[c].state # "absent"
           /\ \E g \in Gens : /\ LeaseGrant(g) /\ row'[c].inc = lreq[g].inc
                              /\ c \in Grants(g, lreq[g].inc, lreq[g].fence)
<1>1. ~Evolves(row[c], row'[c])
  BY DEF Evolves
<1>2. ~\E a \in net : DeliverAck(a)
  BY <1>1, DeliverAckRows DEF AnswerStep, Quiet
<1>3. PICK g \in Gens : LeaseGrant(g)
  BY <1>1, <1>2, RowCases
<1>4. c \in Grants(g, lreq[g].inc, lreq[g].fence) /\ Offered(row[c], row'[c], lreq[g].inc)
  BY <1>1, <1>3, LeaseGrantRows DEF GrantStep, Quiet
<1>5. QED
  BY <1>3, <1>4 DEF Offered, Open

\* The commands that had been offered keep their places.
LEMMA LaterStays ==
    ASSUME Base, Next, NEW c \in Commands, NEW d \in Commands,
           row'[c].ever, row[d].state # "absent", Later(c, d)'
    PROVE  row[c].state # "absent" /\ Later(c, d)
<1>1. row[c].state # "absent"
  BY FirstOffer DEF Base, RowOK
<1>2. QED
  BY <1>1, RowStep DEF Later

LEMMA OrderStep ==
    ASSUME Base, OrderInv, Next
    PROVE  OrderInv'
<1>0. /\ Base' /\ box.seq \in Nat /\ box'.seq \in Nat /\ box'.seq >= box.seq
      /\ \A c \in Commands : row[c].seq \in Nat /\ row'[c].seq \in Nat
  BY BaseStep, BoxStep DEF Base, TypeOK, RowOK, Rows
<1>1. ASSUME NEW c \in Commands, row'[c].state # "absent"
      PROVE  row'[c].seq <= box'.seq
  <2>1. CASE row[c].state = "absent"
    BY <1>1, <2>1, BoxStep
  <2>2. CASE row[c].state # "absent"
    BY <1>0, <2>2, RowStep DEF OrderInv
  <2>3. QED
    BY <2>1, <2>2
<1>2. ASSUME NEW c \in Commands, NEW d \in Commands, row'[c].ever, Later(c, d)',
             row'[d].state # "absent"
      PROVE  Ended(row'[d])
  <2>1. row[c].state # "absent"
    BY <1>2, FirstOffer DEF Base, RowOK
  <2>2. row[d].state # "absent"
    <3>1. SUFFICES ASSUME row[d].state = "absent" PROVE FALSE
      OBVIOUS
    <3>2. box.seq < row'[d].seq
      BY <1>2, <3>1, BoxStep
    <3>3. row'[c].seq <= box.seq
      BY <2>1, RowStep DEF OrderInv
    <3>4. QED
      BY <1>0, <1>2, <3>2, <3>3 DEF Later
  <2>3. Later(c, d)
    BY <1>2, <2>2, LaterStays
  <2>4. CASE row[c].ever
    BY <2>2, <2>3, <2>4, RowStep DEF OrderInv
  <2>5. CASE ~row[c].ever
    BY <1>2, <2>2, <2>3, <2>5, FirstOffer, HeadOffered
  <2>6. QED
    BY <2>4, <2>5
<1>3. QED
  BY <1>1, <1>2 DEF OrderInv

\* Storage i is the one generation g runs on, as far as anyone can tell.
Serves(g, i) == \/ up[i] = g
                \/ lreq[g].at # "idle" /\ lreq[g].inc = i
                \/ ws.gen = g /\ ws.machine = i

Contiguous ==
    \A g1, g2, g3 \in Gens : \A x, y \in Incarnations :
        /\ g1 <= g2 /\ g2 <= g3
        /\ Serves(g1, x) /\ Serves(g2, y) /\ Serves(g3, x)
        => x = y

NoReturn ==
    \A g2, g3 \in Gens : \A x, y \in Incarnations :
        /\ box.gen <= g2 /\ g2 <= g3
        /\ box.inc = x /\ Serves(g2, y) /\ Serves(g3, x)
        => x = y

\* Generations take machines one after the other: the generations of a machine
\* are consecutive, and the mailbox's storage is not left and taken up again.
PlaceInv ==
    /\ box.gen <= ws.gen
    /\ box.inc \in ws.used \cup {NoIncarnation}
    /\ \A g \in Gens : \A i \in Incarnations :
          Serves(g, i) => g <= ws.gen /\ i \in ws.used
    /\ \A h \in held : h.inc \in ws.used
    /\ Contiguous /\ NoReturn

\* No generation the mailbox would still serve runs on storage x.
Gone(x) == \A g \in Gens : box.gen <= g => ~Serves(g, x)

LEMMA PlaceTypes ==
    ASSUME Base
    PROVE  /\ ws.gen \in Gens /\ ws.machine \in Incarnations /\ box.gen \in Nat
           /\ ws.used \subseteq Incarnations
           /\ Gens \subseteq Nat \ {0} /\ \A g \in Gens : lreq[g] \in LeaseRequests
           /\ \A i \in Incarnations : up[i] \in 0..MaxGen
           /\ up \in [Incarnations -> 0..MaxGen] /\ lreq \in [Gens -> LeaseRequests]
           /\ ws \in Workspaces
BY CloudConstants DEF Base, TypeOK, Workspaces, Gens

\* Only a restart gives a storage a generation.
LEMMA ServesStep ==
    ASSUME Base, Next, NEW g \in Gens, NEW x \in Incarnations, Serves(g, x)'
    PROVE  \/ Serves(g, x)
           \/ Restart /\ g = ws.gen + 1 /\ x = ws'.machine
<1>0. /\ ws.gen \in Gens /\ g # 0 /\ ws \in Workspaces
      /\ up \in [Incarnations -> 0..MaxGen] /\ lreq \in [Gens -> LeaseRequests]
      /\ lreq[g] \in LeaseRequests
  BY PlaceTypes
<1>1. ASSUME UNCHANGED <<up, lreq>>, ws'.gen = ws.gen, ws'.machine = ws.machine
      PROVE  Serves(g, x)
  BY <1>1 DEF Serves
<1>2. ASSUME up'[x] \in {0, up[x]}, UNCHANGED ws,
             /\ lreq'[g].at # "idle" => lreq[g].at # "idle"
             /\ lreq'[g].inc = lreq[g].inc \/ lreq'[g].at = "idle"
      PROVE  Serves(g, x)
  BY <1>0, <1>2 DEF Serves
<1>3. ASSUME RequestMailboxWake, UNCHANGED up PROVE Serves(g, x)
  <2>1. lreq'[g] = Outdated(lreq[g])
    BY <1>3 DEF RequestMailboxWake
  <2>2. lreq'[g].at = lreq[g].at /\ lreq'[g].inc = lreq[g].inc
    BY <1>0, <2>1 DEF Outdated, LeaseRequests
  <2>3. ws'.gen = ws.gen /\ ws'.machine = ws.machine
    BY <1>0, <1>3 DEF RequestMailboxWake, Workspaces
  <2>4. QED
    BY <1>3, <2>2, <2>3 DEF Serves
<1>4. ASSUME NEW answer, RequestWake(answer), UNCHANGED up PROVE Serves(g, x)
  BY <1>1, <1>3, <1>4 DEF RequestWake
<1>5. CASE ClientNext
  <2>1. ASSUME UNCHANGED <<ws, lreq, up>> PROVE Serves(g, x)
    BY <1>1, <2>1
  <2>2. ASSUME NEW r \in Requests, EnqueueWake(r) \/ PolicyWake(r) PROVE Serves(g, x)
    BY <1>4, <2>2 DEF EnqueueWake, PolicyWake, runtimeVars
  <2>3. CASE ~\E r \in Requests : EnqueueWake(r) \/ PolicyWake(r)
    BY <1>5, <2>1, <2>3
       DEF ClientNext, UserCancel, EnqueueRoute, EnqueueReserve, EnqueueCommit,
           EnqueueDestroyed, PolicyRoute, PolicyApply, RequestLost, storeVars, runtimeVars
  <2>4. QED
    BY <2>2, <2>3
<1>6. CASE MailboxNext
  <2>1. CASE DispatchCall
    BY <1>4, <2>1 DEF DispatchCall, runtimeVars
  <2>2. CASE AlarmFires \/ AlarmReturns \/ \E c \in Commands : LeaseRunsOut(c)
    BY <1>1, <2>2 DEF AlarmFires, AlarmReturns, LeaseRunsOut, rest, storeVars, runtimeVars
  <2>3. QED
    BY <1>6, <2>1, <2>2 DEF MailboxNext
<1>7. CASE LeaseNext
  <2>1. ASSUME NEW i \in Incarnations, LeaseRoute(i) PROVE Serves(g, x)
    <3> DEFINE l == [at |-> "routed", inc |-> i, fence |-> ws.fence,
                     wake |-> IF billing THEN "current" ELSE "none", pay |-> billing]
    <3>1. /\ up[i] = ws.gen /\ UNCHANGED <<ws, up>>
          /\ lreq' = [lreq EXCEPT ![up[i]] = l] /\ l.inc = i
      BY <2>1 DEF LeaseRoute, storeVars, runtimeVars
    <3> HIDE DEF l
    <3>2. CASE g = up[i]
      <4>1. lreq'[g].inc = i
        BY <1>0, <3>1, <3>2
      <4>2. QED
        BY <3>1, <3>2, <4>1 DEF Serves
    <3>3. CASE g # up[i]
      <4>1. lreq'[g] = lreq[g]
        BY <1>0, <3>1, <3>3
      <4>2. QED
        BY <3>1, <4>1 DEF Serves
    <3>4. QED
      BY <3>2, <3>3
  <2>2. ASSUME NEW k \in Gens, LeasePolicy(k) PROVE Serves(g, x)
    <3>1. lreq' = [lreq EXCEPT ![k].at = "policied"] /\ lreq[k].at = "routed"
          /\ UNCHANGED <<ws, up>>
      BY <2>2 DEF LeasePolicy, storeVars, runtimeVars
    <3>2. lreq'[g].inc = lreq[g].inc /\ (lreq'[g].at # "idle" => lreq[g].at # "idle")
      BY <1>0, <3>1 DEF LeaseRequests
    <3>3. QED
      BY <1>2, <3>1, <3>2
  <2>3. ASSUME NEW k \in Gens,
               LeaseGrant(k) \/ LeaseLost(k) \/ CompleteDrain(k) \/ RecordFence(k)
        PROVE  /\ lreq[k].at # "idle"
               /\ lreq'[g].inc = lreq[g].inc \/ lreq'[g].at = "idle"
               /\ lreq'[g].at # "idle" => lreq[g].at # "idle"
    <3>1. \E n : /\ lreq' = [lreq EXCEPT ![k] = n] /\ lreq[k].at # "idle"
                 /\ n = NoLease \/ n.inc = lreq[k].inc
      <4>1. CASE LeaseGrant(k)
        <5>1. PICK note : lreq' = [lreq EXCEPT ![k] = IF note = "idle" THEN NoLease
                                        ELSE [lreq[k] EXCEPT !.at = note]]
          BY <4>1 DEF LeaseGrant
        <5>2. [lreq[k] EXCEPT !.at = note].inc = lreq[k].inc
          BY <1>0 DEF LeaseRequests
        <5>3. QED
          BY <4>1, <5>1, <5>2 DEF LeaseGrant
      <4>2. CASE LeaseLost(k) \/ CompleteDrain(k) \/ RecordFence(k)
        BY <4>2 DEF LeaseLost, CompleteDrain, RecordFence
      <4>3. QED
        BY <2>3, <4>1, <4>2
    <3>2. NoLease.at = "idle"
      BY DEF NoLease
    <3>3. QED
      BY <1>0, <3>1, <3>2
  <2>4. ASSUME NEW k \in Gens, LeaseGrant(k) \/ LeaseLost(k) PROVE Serves(g, x)
    <3>1. up'[x] \in {0, up[x]} /\ UNCHANGED ws
      BY <1>0, <2>4 DEF LeaseGrant, LeaseLost, PageReceived, Exits, storeVars, runtimeVars
    <3>2. QED
      BY <1>2, <2>3, <2>4, <3>1
  <2>5. ASSUME NEW k \in Gens, CompleteDrain(k) \/ RecordFence(k) PROVE Serves(g, x)
    <3>1. ws'.gen = ws.gen /\ ws'.machine = ws.machine /\ up' = up
      BY <1>0, <2>5 DEF CompleteDrain, RecordFence, Workspaces, runtimeVars
    <3>2. QED
      BY <2>3, <2>5, <3>1 DEF Serves
  <2>6. QED
    BY <1>7, <2>1, <2>2, <2>4, <2>5 DEF LeaseNext
<1>8. CASE RuntimeNext
  <2>1. up'[x] \in {0, up[x]} /\ UNCHANGED <<ws, lreq>>
    BY <1>0, <1>8 DEF RuntimeNext, BeginSend, SendCommits, Conclude, Refuse, TryAgain,
                      Abandon, SendAck, DeliverAck, Crash, Exits, storeVars
  <2>2. QED
    BY <1>2, <2>1
<1>9. CASE PlaneNext
  <2>1. CASE Restart
    <3>1. ws'.gen = ws.gen + 1 /\ UNCHANGED <<up, lreq>>
      BY <1>0, <2>1 DEF Restart, Workspaces, runtimeVars
    <3>2. QED
      BY <2>1, <3>1 DEF Serves
  <2>2. CASE Boot
    <3>1. /\ up' = [up EXCEPT ![ws.machine] = ws.gen] /\ lreq' = lreq
          /\ ws'.gen = ws.gen /\ ws'.machine = ws.machine
      BY <1>0, <2>2 DEF Boot, Workspaces
    <3>2. QED
      BY <1>0, <3>1 DEF Serves
  <2>3. CASE ~Restart /\ ~Boot
    <3>1. UNCHANGED <<up, lreq>> /\ ws'.gen = ws.gen /\ ws'.machine = ws.machine
      BY <1>0, <1>9, <2>3
         DEF PlaneNext, Pause, Reassert, BillingChanges, Archive, Unarchive, OutboxList,
             OutboxDeliver, OutboxAcknowledge, OutboxLost, Workspaces, storeVars, runtimeVars
    <3>2. QED
      BY <1>1, <3>1
  <2>4. QED
    BY <2>1, <2>2, <2>3
<1>10. QED
  BY <1>5, <1>6, <1>7, <1>8, <1>9 DEF Next

\* What a step does to the workspace record's generation and machines.
LEMMA RecordStep ==
    ASSUME Base, Next
    PROVE  \/ /\ Restart
              /\ ws'.gen = ws.gen + 1 /\ ws'.used = ws.used \cup {ws'.machine}
              /\ ws'.machine = ws.machine \/ ws'.machine \notin ws.used
              /\ UNCHANGED mailboxVars /\ held' = held
           \/ ~Restart /\ ws'.gen = ws.gen /\ ws'.used = ws.used
<1>0. ws \in Workspaces
  BY PlaceTypes
<1>1. CASE Restart
  <2>1. PICK m \in {ws.machine} \cup (Incarnations \ ws.used) :
          ws' = [ws EXCEPT !.gen = ws.gen + 1, !.enrolled = FALSE, !.online = FALSE,
                           !.fenceRequired = FALSE, !.machine = m,
                           !.used = ws.used \cup {m}]
    BY <1>1 DEF Restart
  <2>2. ws'.gen = ws.gen + 1 /\ ws'.machine = m /\ ws'.used = ws.used \cup {m}
    BY <1>0, <2>1 DEF Workspaces
  <2>3. UNCHANGED mailboxVars /\ held' = held
    BY <1>1 DEF Restart, runtimeVars
  <2>4. QED
    BY <1>1, <2>2, <2>3
<1>2. CASE ~Restart
  <2>0. SUFFICES ws'.gen = ws.gen /\ ws'.used = ws.used
    BY <1>2
  <2>1. ASSUME UNCHANGED ws PROVE ws'.gen = ws.gen /\ ws'.used = ws.used
    BY <2>1
  <2>2. ASSUME NEW answer, RequestWake(answer)
        PROVE  ws'.gen = ws.gen /\ ws'.used = ws.used
    BY <1>0, <2>2 DEF RequestWake, RequestMailboxWake, Workspaces
  <2>3. CASE ClientNext
    <3>1. ASSUME NEW r \in Requests, EnqueueWake(r) \/ PolicyWake(r)
          PROVE  ws'.gen = ws.gen /\ ws'.used = ws.used
      BY <2>2, <3>1 DEF EnqueueWake, PolicyWake
    <3>2. CASE ~\E r \in Requests : EnqueueWake(r) \/ PolicyWake(r)
      BY <2>1, <2>3, <3>2
         DEF ClientNext, UserCancel, EnqueueRoute, EnqueueReserve, EnqueueCommit,
             EnqueueDestroyed, PolicyRoute, PolicyApply, RequestLost, storeVars
    <3>3. QED
      BY <3>1, <3>2
  <2>4. CASE MailboxNext
    <3>1. CASE DispatchCall
      BY <2>2, <3>1 DEF DispatchCall
    <3>2. CASE AlarmFires \/ AlarmReturns \/ \E c \in Commands : LeaseRunsOut(c)
      BY <2>1, <3>2 DEF AlarmFires, AlarmReturns, LeaseRunsOut, rest, storeVars
    <3>3. QED
      BY <2>4, <3>1, <3>2 DEF MailboxNext
  <2>5. CASE LeaseNext
    BY <1>0, <2>5 DEF LeaseNext, LeaseRoute, LeasePolicy, LeaseGrant, LeaseLost,
                      CompleteDrain, RecordFence, storeVars, Workspaces
  <2>6. CASE RuntimeNext
    BY <2>6 DEF RuntimeNext, BeginSend, SendCommits, Conclude, Refuse, TryAgain, Abandon,
                SendAck, DeliverAck, Crash, storeVars
  <2>7. CASE PlaneNext
    BY <1>0, <1>2, <2>7
       DEF PlaneNext, Boot, Pause, Reassert, BillingChanges, Archive, Unarchive,
           OutboxList, OutboxDeliver, OutboxAcknowledge, OutboxLost, Workspaces, storeVars
  <2>8. QED
    BY <2>3, <2>4, <2>5, <2>6, <2>7 DEF Next
<1>3. QED
  BY <1>1, <1>2

\* What the mailbox learns of a lease call, and whom the call serves.
LEMMA GrantPlace ==
    ASSUME Base, NEW g \in Gens, LeaseGrant(g)
    PROVE  /\ lreq[g].inc \in Incarnations /\ Serves(g, lreq[g].inc)
           /\ \/ box'.gen = box.gen /\ box'.inc = box.inc
              \/ box.gen <= g /\ box'.gen = g /\ box'.inc \in {box.inc, lreq[g].inc}
           /\ ~StaleGeneration(g) /\ ~StaleFence(lreq[g].fence)
                => box.gen <= g /\ box'.gen = g /\ box'.inc = lreq[g].inc
<1>1. /\ lreq[g].inc \in Incarnations /\ box \in Boxes /\ box.gen \in Nat /\ g \in Nat
      /\ lreq[g].at = "policied"
  BY CloudConstants DEF Base, TypeOK, LeaseRequests, Boxes, Gens, LeaseGrant
<1>2. Lease(g, lreq[g].inc, lreq[g].fence)
  BY DEF LeaseGrant
<1>3. Serves(g, lreq[g].inc)
  BY <1>1 DEF Serves
<1>4. box' = IF StaleGeneration(g) THEN box
             ELSE IF StaleFence(lreq[g].fence) THEN [box EXCEPT !.gen = g]
             ELSE [box EXCEPT !.gen = g, !.fence = lreq[g].fence, !.inc = lreq[g].inc]
  BY <1>2 DEF Lease
<1>5. QED
  BY <1>1, <1>3, <1>4 DEF StaleGeneration, Boxes

\* A runtime only holds what it held, or was offered in this step.
LEMMA HeldStep ==
    ASSUME Base, FateInv, Next, NEW h \in held'
    PROVE  \/ \E k \in held : /\ h.inc = k.inc /\ h.cmd = k.cmd /\ h.token = k.token
                              /\ h.sending => (k.sending \/ BeginSend(k))
           \/ \E g \in Gens : /\ LeaseGrant(g) /\ h.inc = lreq[g].inc /\ ~h.sending
                              /\ h.cmd \in Grants(g, lreq[g].inc, lreq[g].fence)
                              /\ h.token = row[h.cmd].issued + 1
<1>0. held \in SUBSET Leases
  BY DEF Base, TypeOK
<1>1. CASE h \in held
  BY <1>1
<1>2. ASSUME NEW g \in Gens, LeaseGrant(g), h \notin held
      PROVE  /\ h.inc = lreq[g].inc /\ ~h.sending
             /\ h.cmd \in Grants(g, lreq[g].inc, lreq[g].fence)
             /\ h.token = row[h.cmd].issued + 1
  <2> DEFINE G == Grants(g, lreq[g].inc, lreq[g].fence)
  <2>1. PICK c \in G : h = [inc |-> lreq[g].inc, cmd |-> c,
                            token |-> row[c].issued + 1, sending |-> FALSE]
    BY <1>2 DEF LeaseGrant, PageReceived, Exits
  <2>2. h.inc = lreq[g].inc /\ h.cmd = c /\ h.token = row[c].issued + 1
        /\ h.sending = FALSE
    BY <2>1
  <2>3. QED
    BY <2>2
<1>3. ASSUME NEW k \in held, NEW b \in BOOLEAN,
             held' = (held \ {k}) \cup {[k EXCEPT !.sending = b]}, h \notin held,
             h \in held'
      PROVE  /\ h.inc = k.inc /\ h.cmd = k.cmd /\ h.token = k.token
             /\ h.sending = b
  BY <1>0, <1>3 DEF Leases
<1>4. CASE Works /\ h \notin held
  <2>1. ASSUME NEW k \in held, BeginSend(k)
        PROVE  h.inc = k.inc /\ h.cmd = k.cmd /\ h.token = k.token
    <3>1. held' = (held \ {k}) \cup {[k EXCEPT !.sending = TRUE]}
      BY <2>1 DEF BeginSend
    <3>2. QED
      BY <1>3, <1>4, <2>1, <3>1
  <2>2. ASSUME NEW k \in held, TryAgain(k)
        PROVE  /\ h.inc = k.inc /\ h.cmd = k.cmd /\ h.token = k.token /\ ~h.sending
    <3>1. held' = (held \ {k}) \cup {[k EXCEPT !.sending = FALSE]}
      BY <2>2 DEF TryAgain
    <3>2. QED
      BY <1>3, <1>4, <3>1
  <2>3. ASSUME NEW k \in held, SendCommits(k) \/ Conclude(k) \/ Refuse(k) PROVE FALSE
    BY <1>4, <2>3 DEF SendCommits, Conclude, Refuse, Acked
  <2>4. ASSUME NEW a \in acks, SendAck(a) PROVE FALSE
    BY <1>4, <2>4 DEF SendAck
  <2>5. QED
    BY <1>4, <2>1, <2>2, <2>3, <2>4 DEF Works
<1>5. ASSUME NEW a \in net, DeliverAck(a) PROVE h \in held
  BY <1>5 DEF DeliverAck
<1>6. QED
  BY <1>1, <1>2, <1>4, <1>5, RuntimeCases DEF Forgets

LEMMA PlaceInit == ASSUME CloudInit PROVE PlaceInv
<1>0. Base
  BY BaseInit
<1>1. /\ box.gen = 0 /\ box.inc = NoIncarnation /\ ws.gen = 1 /\ ws.used = {First}
      /\ ws.machine = First /\ held = {}
      /\ lreq = [g \in Gens |-> NoLease]
      /\ up = [i \in Incarnations |-> IF i = First THEN 1 ELSE 0]
  BY DEF CloudInit, MailboxInit
<1>2. NoLease.at = "idle"
  BY DEF NoLease
<1>3. ASSUME NEW g \in Gens, NEW i \in Incarnations, Serves(g, i)
      PROVE  g = 1 /\ i = First
  BY <1>0, <1>1, <1>2, <1>3, PlaceTypes DEF Serves
<1>4. QED
  BY <1>1, <1>3 DEF PlaceInv, Contiguous, NoReturn

LEMMA PlaceStep ==
    ASSUME Base, FateInv, PlaceInv, Next
    PROVE  PlaceInv'
<1>0. /\ ws.gen \in Gens /\ ws.machine \in Incarnations /\ box.gen \in Nat
      /\ ws.gen \in Nat /\ \A g \in Gens : g \in Nat
  BY PlaceTypes
<1>1. Serves(ws.gen, ws.machine) /\ ws.machine \in ws.used
  BY <1>0 DEF Serves, PlaceInv
<1>2. /\ ws'.gen >= ws.gen /\ ws.used \subseteq ws'.used
  BY <1>0, RecordStep
<1>3. box'.gen <= ws'.gen /\ box'.inc \in ws'.used \cup {NoIncarnation}
  <2>1. box'.gen \in Nat /\ ws'.gen \in Nat
    <3>1. Base'
      BY BaseStep
    <3>2. box'.gen \in 0..MaxGen /\ ws'.gen \in 1..MaxGen
      BY <3>1 DEF Base, TypeOK, Workspaces, Gens
    <3>3. QED
      BY <3>2, CloudConstants
  <2>2. box.gen <= ws.gen /\ box.inc \in ws.used \cup {NoIncarnation}
    BY DEF PlaceInv
  <2>3. ASSUME NEW g \in Gens, LeaseGrant(g)
        PROVE  box'.gen <= ws.gen /\ box'.inc \in ws.used \cup {NoIncarnation}
    BY <2>3, GrantPlace DEF PlaceInv
  <2>4. QED
    BY <1>0, <1>2, <2>1, <2>2, <2>3, BoxStep
<1>4. ASSUME NEW g \in Gens, NEW i \in Incarnations, Serves(g, i)'
      PROVE  g <= ws'.gen /\ i \in ws'.used
  <2>1. CASE Serves(g, i)
    <3>1. g <= ws.gen /\ i \in ws.used
      BY <2>1 DEF PlaceInv
    <3>2. QED
      BY <1>0, <1>2, <3>1, RecordStep
  <2>2. CASE Restart /\ g = ws.gen + 1 /\ i = ws'.machine
    BY <1>0, <2>2, RecordStep
  <2>3. QED
    BY <1>4, <2>1, <2>2, ServesStep
<1>5. ASSUME NEW h \in held' PROVE h.inc \in ws'.used
  <2>1. ASSUME NEW k \in held, h.inc = k.inc PROVE h.inc \in ws'.used
    BY <1>2, <2>1 DEF PlaceInv
  <2>2. ASSUME NEW g \in Gens, LeaseGrant(g), h.inc = lreq[g].inc PROVE h.inc \in ws'.used
    BY <1>2, <2>2, GrantPlace DEF PlaceInv
  <2>3. QED
    BY <2>1, <2>2, HeldStep
<1>6. CASE ~Restart
  <2>1. \A g \in Gens : \A i \in Incarnations : Serves(g, i)' => Serves(g, i)
    BY <1>6, ServesStep
  <2>2. Contiguous'
    BY <2>1 DEF PlaceInv, Contiguous
  <2>3. NoReturn'
    <3>1. SUFFICES ASSUME NEW g2 \in Gens, NEW g3 \in Gens,
                          NEW x \in Incarnations, NEW y \in Incarnations,
                          box'.gen <= g2, g2 <= g3, box'.inc = x,
                          Serves(g2, y)', Serves(g3, x)'
                   PROVE  x = y
      BY DEF NoReturn
    <3>2. Serves(g2, y) /\ Serves(g3, x)
      BY <2>1, <3>1
    <3>3. CASE box.gen <= g2 /\ box.inc = x
      BY <3>1, <3>2, <3>3 DEF PlaceInv, NoReturn
    <3>4. ASSUME NEW g \in Gens, LeaseGrant(g), ~(box'.gen = box.gen /\ box'.inc = box.inc)
          PROVE  x = y
      <4>1. /\ lreq[g].inc \in Incarnations /\ Serves(g, lreq[g].inc)
            /\ box.gen <= g /\ box'.gen = g /\ box'.inc \in {box.inc, lreq[g].inc}
        BY <3>4, GrantPlace
      <4>2. CASE box.inc = x
        BY <1>0, <3>1, <3>3, <4>1, <4>2
      <4>3. CASE lreq[g].inc = x
        BY <3>1, <3>2, <4>1, <4>3 DEF PlaceInv, Contiguous
      <4>4. QED
        BY <3>1, <4>1, <4>2, <4>3
    <3>5. QED
      BY <3>1, <3>3, <3>4, BoxStep
  <2>4. QED
    BY <1>3, <1>4, <1>5, <2>2, <2>3 DEF PlaceInv
<1>7. CASE Restart
  <2> DEFINE m == ws'.machine
             n == ws.gen + 1
  <2>1. /\ m = ws.machine \/ m \notin ws.used
        /\ UNCHANGED mailboxVars
    BY <1>7, RecordStep
  <2>2. box' = box
    BY <2>1 DEF mailboxVars
  <2> HIDE DEF m
  <2>3. ASSUME NEW g \in Gens, NEW i \in Incarnations, Serves(g, i)'
        PROVE  \/ Serves(g, i) /\ g <= ws.gen /\ i \in ws.used
               \/ g = n /\ i = m
    BY <2>3, ServesStep DEF PlaceInv, m
  \* A machine serves in the new generation as it did in the last one.
  <2>4. ASSUME NEW g1 \in Gens, NEW g2 \in Gens, NEW g3 \in Gens, NEW x \in Incarnations,
               NEW y \in Incarnations, g1 <= g2, g2 <= g3,
               Serves(g1, x)', Serves(g2, y)', Serves(g3, x)'
        PROVE  x = y
    <3>1. CASE Serves(g1, x) /\ Serves(g2, y) /\ Serves(g3, x)
      BY <2>4, <3>1 DEF PlaceInv, Contiguous
    <3>2. CASE g2 = n /\ y = m
      <4>1. g3 = n /\ x = m
        BY <1>0, <2>3, <2>4, <3>2
      <4>2. QED
        BY <3>2, <4>1
    <3>3. CASE g2 <= ws.gen /\ Serves(g2, y) /\ g3 = n /\ x = m
      <4>1. g1 <= ws.gen
        BY <1>0, <2>4, <3>3
      <4>2. Serves(g1, m) /\ m \in ws.used
        BY <1>0, <2>3, <2>4, <3>3, <4>1
      <4>3. m = ws.machine
        BY <2>1, <4>2
      <4>4. QED
        BY <1>0, <1>1, <2>4, <3>3, <4>2, <4>3 DEF PlaceInv, Contiguous
    <3>4. CASE g1 = n
      BY <1>0, <2>3, <2>4, <3>2, <3>4
    <3>5. QED
      BY <1>0, <2>3, <2>4, <3>1, <3>2, <3>3, <3>4
  <2>5. Contiguous'
    BY <2>4 DEF Contiguous
  <2>6. NoReturn'
    <3>1. SUFFICES ASSUME NEW g2 \in Gens, NEW g3 \in Gens,
                          NEW x \in Incarnations, NEW y \in Incarnations,
                          box.gen <= g2, g2 <= g3, box.inc = x,
                          Serves(g2, y)', Serves(g3, x)'
                   PROVE  x = y
      BY <2>2 DEF NoReturn
    <3>2. CASE Serves(g2, y) /\ Serves(g3, x)
      BY <3>1, <3>2 DEF PlaceInv, NoReturn
    <3>3. CASE g2 = n /\ y = m
      <4>1. g3 = n /\ x = m
        BY <1>0, <2>3, <3>1, <3>3
      <4>2. QED
        BY <3>3, <4>1
    <3>4. CASE g2 <= ws.gen /\ Serves(g2, y) /\ g3 = n /\ x = m
      <4>1. x \in ws.used
        BY <3>1, MailboxConstants DEF PlaceInv
      <4>2. m = ws.machine
        BY <2>1, <3>4, <4>1
      <4>3. QED
        BY <1>0, <1>1, <3>1, <3>4, <4>2 DEF PlaceInv, NoReturn
    <3>5. QED
      BY <1>0, <2>3, <3>1, <3>2, <3>3, <3>4
  <2>7. QED
    BY <1>3, <1>4, <1>5, <2>5, <2>6 DEF PlaceInv
<1>8. QED
  BY <1>6, <1>7

LEMMA GoneStays ==
    ASSUME Base, PlaceInv, Next, NEW x \in ws.used, Gone(x)
    PROVE  Gone(x)'
<1>0. /\ x \in Incarnations /\ ws.gen \in Gens /\ ws.machine \in Incarnations
      /\ box.gen \in Nat /\ box'.gen \in Nat /\ ws.gen \in Nat
      /\ \A g \in Gens : g \in Nat
  BY PlaceTypes, BaseStep, CloudConstants DEF Base, TypeOK
<1>1. box.gen <= box'.gen
  BY <1>0, BoxStep, GrantPlace
<1>2. SUFFICES ASSUME NEW g \in Gens, box'.gen <= g, Serves(g, x)' PROVE FALSE
  BY DEF Gone
<1>3. box.gen <= g
  BY <1>0, <1>1, <1>2
<1>4. Restart /\ x = ws'.machine
  BY <1>0, <1>2, <1>3, ServesStep DEF Gone
<1>5. x = ws.machine
  BY <1>4, RecordStep
<1>6. Serves(ws.gen, x) /\ box.gen <= ws.gen
  BY <1>5 DEF Serves, PlaceInv
<1>7. QED
  BY <1>0, <1>6 DEF Gone

\* A lease held is newer than every acknowledgment of its command: a runtime
\* that acknowledged a lease holds it no more.
Newer == \A a \in acks \cup net : \A h \in held : a.cmd = h.cmd => a.token < h.token

LEMMA NewerStep ==
    ASSUME Base, FateInv, Newer, Next
    PROVE  Newer'
<1>1. SUFFICES ASSUME NEW a \in acks' \cup net', NEW h \in held', a.cmd = h.cmd
               PROVE  a.token < h.token
  BY DEF Newer
<1>2. CASE a \in acks \cup net
  <2>1. ASSUME NEW k \in held, h.cmd = k.cmd, h.token = k.token PROVE a.token < h.token
    BY <1>1, <1>2, <2>1 DEF Newer
  <2>2. CASE h.token = row[h.cmd].issued + 1
    <3>1. a.cmd \in Commands /\ a.token \in Nat /\ row[a.cmd].issued \in Nat
      BY <1>2, Named
    <3>2. a.token <= row[a.cmd].issued
      BY <1>2 DEF FateInv, AckOK, Known
    <3>3. QED
      BY <1>1, <2>2, <3>1, <3>2
  <2>3. QED
    BY <2>1, <2>2, HeldStep
<1>3. CASE a \notin acks \cup net
  <2>1. Works
    <3>1. ASSUME NEW g \in Gens, LeaseGrant(g) PROVE a \in acks \cup net
      BY <1>1, <3>1 DEF LeaseGrant, PageReceived, Exits
    <3>2. ASSUME NEW b \in net, DeliverAck(b) PROVE a \in acks \cup net
      BY <1>1, <3>2 DEF DeliverAck
    <3>3. ~Forgets
      BY <1>1, <1>3 DEF Forgets
    <3>4. QED
      BY <1>3, <3>1, <3>2, <3>3, RuntimeCases
  <2>2. ASSUME NEW k \in held, BeginSend(k) \/ SendCommits(k) \/ TryAgain(k)
        PROVE  FALSE
    BY <1>1, <1>3, <2>2 DEF BeginSend, SendCommits, TryAgain
  <2>3. ASSUME NEW b \in acks, SendAck(b) PROVE FALSE
    BY <1>1, <1>3, <2>3 DEF SendAck
  <2>4. ASSUME NEW k \in held, Conclude(k) \/ Refuse(k) PROVE FALSE
    <3>1. PICK s : Acked(k, s) /\ net' = net
      BY <2>4 DEF Conclude, Refuse
    <3>2. a = [inc |-> k.inc, cmd |-> k.cmd, token |-> k.token, state |-> s]
      BY <1>1, <1>3, <3>1 DEF Acked
    <3>3. h \in held /\ h # k /\ h.cmd = k.cmd
      BY <1>1, <3>1, <3>2 DEF Acked
    <3>4. QED
      BY <3>3 DEF FateInv, HeldOK
  <2>5. QED
    BY <2>1, <2>2, <2>3, <2>4 DEF Works
<1>4. QED
  BY <1>2, <1>3

\* The runtime will not start to send what it holds under h: a receipt says it
\* was sent, or the deadline has passed.
Over(h) == Receipt(h) \/ PastDeadline(h)

\* What was offered before the head of a lane that was offered to the same
\* storage, or has ended, is over for the runtime that still holds it; or its
\* machine has been replaced, and nothing will be offered there any more.
LaneInv ==
    /\ \A h \in held : Ended(row[h.cmd]) => Over(h) \/ Gone(h.inc)
    /\ \A h \in held : \A c \in Commands :
          Later(c, h.cmd) /\ row[c].ever /\ row[c].inc = h.inc => Over(h)
    /\ \A h \in held : \A c \in Commands :
          h.sending /\ Later(c, h.cmd) /\ <<h.inc, c>> \in receipts => Receipt(h)
    /\ \A h, k \in held : h.sending /\ k.sending /\ h.inc = k.inc => h = k

LEMMA ReceiptsStay == ASSUME Next PROVE receipts \subseteq receipts'
<1>1. CASE Works
  BY <1>1 DEF Works, BeginSend, SendCommits, Conclude, Refuse, TryAgain, SendAck
<1>2. ASSUME NEW g \in Gens, LeaseGrant(g) PROVE receipts' = receipts
  BY <1>2 DEF LeaseGrant
<1>3. ASSUME NEW a \in net, DeliverAck(a) PROVE receipts' = receipts
  BY <1>3 DEF DeliverAck
<1>4. QED
  BY <1>1, <1>2, <1>3, RuntimeCases DEF Forgets

\* What a runtime holds of a command that existed before: a command offered.
LEMMA HeldRow ==
    ASSUME Base, FateInv, NEW h \in held
    PROVE  /\ h.cmd \in Commands /\ h.inc \in Incarnations /\ h.token \in Nat
           /\ row[h.cmd].ever /\ row[h.cmd].inc = h.inc /\ row[h.cmd].state # "absent"
           /\ h.token <= row[h.cmd].issued /\ row[h.cmd].issued \in Nat
BY Named DEF FateInv, HeldOK, Known, RowOK

LEMMA OverStays ==
    ASSUME Base, FateInv, Next, NEW k \in held, Over(k), NEW h \in held',
           h.inc = k.inc, h.cmd = k.cmd, h.token = k.token
    PROVE  Over(h)'
<1>1. /\ k.cmd \in Commands /\ k.token \in Nat /\ row[k.cmd].state # "absent"
      /\ k.token <= row[k.cmd].issued /\ row[k.cmd].issued \in Nat
  BY HeldRow
<1>2. row'[k.cmd].issued \in Nat
  <2>1. Base'
    BY BaseStep
  <2>2. row'[k.cmd] \in Rows
    BY <1>1, <2>1 DEF Base, TypeOK
  <2>3. QED
    BY <2>2 DEF Rows
<1>3. /\ row[k.cmd].issued <= row'[k.cmd].issued
      /\ row[k.cmd].late => row'[k.cmd].late \/ row[k.cmd].issued < row'[k.cmd].issued
  BY <1>1, RowStep
<1>4. CASE Receipt(k)
  BY <1>4, ReceiptsStay DEF Receipt, Over
<1>5. CASE PastDeadline(k)
  BY <1>1, <1>2, <1>3, <1>5 DEF PastDeadline, Over
<1>6. QED
  BY <1>4, <1>5 DEF Over

\* An ended command that is still held.
LEMMA EndedIsOver ==
    ASSUME Base, FateInv, OrderInv, PlaceInv, Newer, LaneInv, Next,
           NEW h \in held', Ended(row'[h.cmd])
    PROVE  Over(h)' \/ Gone(h.inc)'
<1>1. ASSUME NEW g \in Gens, LeaseGrant(g), h.cmd \in Grants(g, lreq[g].inc, lreq[g].fence)
      PROVE  FALSE
  BY <1>1, LeaseGrantRows DEF GrantStep, Offered, Ended, Terminal
<1>2. PICK k \in held : h.inc = k.inc /\ h.cmd = k.cmd /\ h.token = k.token
  BY <1>1, HeldStep
<1> DEFINE d == k.cmd
<1>3. /\ d \in Commands /\ k.inc \in Incarnations /\ k.token \in Nat /\ row[d].ever
      /\ row[d].inc = k.inc /\ row[d].state # "absent"
      /\ k.token <= row[d].issued /\ row[d].issued \in Nat
  BY HeldRow
<1>4. Over(k) => Over(h)'
  BY <1>2, OverStays
<1>5. k.inc \in ws.used
  BY DEF PlaceInv
<1>6. CASE Ended(row[d])
  BY <1>2, <1>4, <1>5, <1>6, GoneStays DEF LaneInv
<1>7. CASE ~Ended(row[d])
  <2>1. CASE row[d].late
    BY <1>4, <2>1 DEF Over, PastDeadline
  <2>2. ASSUME NEW g \in Gens, LeaseGrant(g), ~StaleGeneration(g),
               ~StaleFence(lreq[g].fence), box.inc \notin {NoIncarnation, lreq[g].inc}
        PROVE  Gone(k.inc)'
    <3>1. row[d].inc = box.inc
      BY <1>3, <1>7 DEF Base, OnePlace, Open
    <3>2. /\ lreq[g].inc \in Incarnations /\ Serves(g, lreq[g].inc)
          /\ box.gen <= g /\ box'.gen = g
      BY <2>2, GrantPlace
    <3>3. ~Restart
      <4>1. ws' = ws
        BY <2>2 DEF LeaseGrant, storeVars
      <4>2. ws.gen \in Nat
        BY PlaceTypes
      <4>3. ws'.gen # ws.gen + 1
        BY <4>1, <4>2
      <4>4. QED
        BY <4>3, RecordStep
    <3>4. ASSUME NEW x \in Gens, g <= x, Serves(x, k.inc)' PROVE FALSE
      <4>1. Serves(x, k.inc)
        BY <1>3, <3>3, <3>4, ServesStep
      <4>2. k.inc = lreq[g].inc
        BY <1>3, <3>1, <3>2, <3>4, <4>1 DEF PlaceInv, NoReturn
      <4>3. QED
        BY <1>3, <2>2, <3>1, <4>2
    <3>5. QED
      BY <3>2, <3>4 DEF Gone
  <2>3. ASSUME NEW a \in net, a.cmd = d, a.token = row[d].issued PROVE FALSE
    <3>1. a.token < k.token
      BY <2>3 DEF Newer
    <3>2. QED
      BY <1>3, <2>3, <3>1
  <2>4. QED
    BY <1>2, <1>3, <1>7, <2>1, <2>2, <2>3, LeaseEnds
<1>8. QED
  BY <1>6, <1>7

\* A command that a later one of its lane has passed on the same storage.
LEMMA PassedIsOver ==
    ASSUME Base, FateInv, OrderInv, PlaceInv, LaneInv, Next,
           NEW h \in held', NEW c \in Commands,
           Later(c, h.cmd)', row'[c].ever, row'[c].inc = h.inc
    PROVE  Over(h)'
<1>1. CASE \E g \in Gens : LeaseGrant(g) /\ h.cmd \in Grants(g, lreq[g].inc, lreq[g].fence)
  <2>1. PICK g \in Gens : LeaseGrant(g) /\ h.cmd \in Grants(g, lreq[g].inc, lreq[g].fence)
    BY <1>1
  <2> DEFINE d == h.cmd
             O == Observed(g, lreq[g].inc, lreq[g].fence)
  <2>2. d \in Commands /\ Open(row[d]) /\ O[d].state \in Waiting
    BY <2>1, LeaseGrantRows DEF GrantStep, Offered, Grants, LaneHead
  <2> HIDE DEF O
  <2>3. row[d].state # "absent" /\ ~Ended(row[d]) /\ ~Ended(O[d])
    BY <2>2 DEF Open, Ended, Terminal, Waiting
  <2>4. Later(c, d)
    BY <2>2, <2>3, LaterStays
  <2>5. ~row[c].ever
    BY <2>2, <2>3, <2>4 DEF OrderInv
  <2>6. PICK x \in Gens : /\ LeaseGrant(x)
                          /\ c \in Grants(x, lreq[x].inc, lreq[x].fence)
    BY <2>5, FirstOffer
  <2>7. /\ Ended(Observed(x, lreq[x].inc, lreq[x].fence)[d])
        /\ row'[d] = Observed(x, lreq[x].inc, lreq[x].fence)[d]
    BY <2>2, <2>3, <2>4, <2>6, HeadOffered
  <2>8. Offered(row[d], row'[d], lreq[g].inc)
    BY <2>1, LeaseGrantRows DEF GrantStep
  <2>9. QED
    BY <2>7, <2>8 DEF Offered, Ended, Terminal
<1>2. ASSUME NEW k \in held, h.inc = k.inc, h.cmd = k.cmd, h.token = k.token
      PROVE  Over(h)'
  <2> DEFINE d == k.cmd
  <2>1. /\ d \in Commands /\ k.inc \in Incarnations /\ k.token \in Nat /\ row[d].ever
        /\ row[d].inc = k.inc /\ row[d].state # "absent"
        /\ k.token <= row[d].issued /\ row[d].issued \in Nat
    BY HeldRow
  <2>2. SUFFICES Over(k)
    BY <1>2, OverStays
  <2>3. Later(c, d) /\ row[c].state # "absent"
    BY <1>2, <2>1, LaterStays
  <2>4. CASE row[c].ever
    BY <1>2, <2>3, <2>4, RowStep DEF LaneInv
  <2>5. CASE ~row[c].ever
    <3>1. PICK g \in Gens : /\ LeaseGrant(g) /\ row'[c].inc = lreq[g].inc
                            /\ c \in Grants(g, lreq[g].inc, lreq[g].fence)
      BY <2>5, FirstOffer
    <3> DEFINE i == lreq[g].inc
               f == lreq[g].fence
    <3>2. Ended(Observed(g, i, f)[d]) /\ ~StaleGeneration(g) /\ ~StaleFence(f)
      BY <2>1, <2>3, <3>1, HeadOffered
    <3>3. /\ i \in Incarnations /\ Serves(g, i) /\ box.gen <= g
          /\ f \in 0..MaxFence
      BY <3>1, <3>2, GrantPlace, PlaceTypes DEF LeaseRequests
    <3>4. i = k.inc
      BY <1>2, <3>1
    <3>5. CASE Ended(row[d])
      <4>1. ~Gone(k.inc)
        BY <3>3, <3>4 DEF Gone
      <4>2. QED
        BY <3>5, <4>1 DEF LaneInv
    <3>6. CASE ~Ended(row[d])
      <4>1. row[d].inc = box.inc
        BY <2>1, <3>6 DEF Base, OnePlace, Open
      <4>2. row[d].late
        BY <2>1, <3>2, <3>3, <3>4, <3>6, <4>1, ObservedEnds
      <4>3. QED
        BY <4>2 DEF Over, PastDeadline
    <3>7. QED
      BY <3>5, <3>6
  <2>6. QED
    BY <2>4, <2>5
<1>3. QED
  BY <1>1, <1>2, HeldStep

\* One command is sent at a time.
LEMMA OneSends ==
    ASSUME Base, FateInv, LaneInv, Next, NEW h \in held', NEW k \in held',
           h.sending, k.sending, h.inc = k.inc
    PROVE  h = k
<1>0. held \in SUBSET Leases
  BY DEF Base, TypeOK
<1>1. CASE \E q \in held : BeginSend(q)
  <2>1. PICK q \in held : BeginSend(q)
    BY <1>1
  <2> DEFINE p == [q EXCEPT !.sending = TRUE]
  <2>2. held' = (held \ {q}) \cup {p} /\ Sending(q.inc) = {}
    BY <2>1 DEF BeginSend
  <2>3. p.inc = q.inc
    BY <1>0 DEF Leases
  <2> HIDE DEF p
  <2>4. \A x \in held : x.inc = q.inc => ~x.sending
    BY <2>2 DEF Sending, Holding
  <2>5. QED
    BY <2>2, <2>3, <2>4 DEF LaneInv
<1>2. CASE ~\E q \in held : BeginSend(q)
  <2>1. ASSUME NEW x \in held', x.sending PROVE x \in held
    <3>1. CASE Forgets
      BY <3>1 DEF Forgets
    <3>2. ASSUME NEW a \in net, DeliverAck(a) PROVE held' = held
      BY <3>2 DEF DeliverAck
    <3>3. ASSUME NEW g \in Gens, LeaseGrant(g), x \notin held PROVE FALSE
      <4>1. PICK c : x = [inc |-> lreq[g].inc, cmd |-> c,
                          token |-> row[c].issued + 1, sending |-> FALSE]
        BY <3>3 DEF LeaseGrant, PageReceived, Exits
      <4>2. x.sending = FALSE
        BY <4>1
      <4>3. QED
        BY <2>1, <4>2
    <3>4. CASE Works
      <4>1. ASSUME NEW q \in held, TryAgain(q), x \notin held PROVE FALSE
        <5>1. x = [q EXCEPT !.sending = FALSE]
          BY <4>1 DEF TryAgain
        <5>2. x.sending = FALSE
          BY <1>0, <5>1 DEF Leases
        <5>3. QED
          BY <2>1, <5>2
      <4>2. QED
        BY <1>2, <3>4, <4>1 DEF Works, SendCommits, Conclude, Refuse, Acked, SendAck
    <3>5. QED
      BY <3>1, <3>2, <3>3, <3>4, RuntimeCases
  <2>2. QED
    BY <2>1 DEF LaneInv
<1>3. QED
  BY <1>1, <1>2

LEMMA LaneStep ==
    ASSUME Base, FateInv, OrderInv, PlaceInv, Newer, LaneInv, Next
    PROVE  LaneInv'
<1>1. \A h \in held' : Ended(row'[h.cmd]) => Over(h)' \/ Gone(h.inc)'
  BY EndedIsOver
<1>2. \A h \in held' : \A c \in Commands :
         Later(c, h.cmd)' /\ row'[c].ever /\ row'[c].inc = h.inc => Over(h)'
  BY PassedIsOver
<1>3. ASSUME NEW h \in held', NEW c \in Commands, h.sending, Later(c, h.cmd)',
             <<h.inc, c>> \in receipts'
      PROVE  Receipt(h)'
  <2>1. PICK k \in held : /\ h.inc = k.inc /\ h.cmd = k.cmd
                          /\ k.sending \/ BeginSend(k)
    BY <1>3, HeldStep
  <2>2. /\ k.cmd \in Commands /\ k.inc \in Incarnations /\ row[k.cmd].state # "absent"
    BY HeldRow
  <2>3. CASE <<h.inc, c>> \in receipts
    <3>1. row[c].ever /\ row[c].inc = k.inc
      BY <2>1, <2>2, <2>3 DEF FateInv, ReceiptsOK
    <3>2. Later(c, k.cmd)
      BY <1>3, <2>1, <2>2, <3>1, LaterStays, RowStep DEF Base, RowOK
    <3>3. CASE k.sending
      BY <2>1, <2>3, <3>2, <3>3, ReceiptsStay DEF LaneInv, Receipt
    <3>4. CASE BeginSend(k)
      BY <3>1, <3>2, <3>4 DEF LaneInv, Over, BeginSend
    <3>5. QED
      BY <2>1, <3>3, <3>4
  <2>4. CASE <<h.inc, c>> \notin receipts
    <3>1. PICK q \in held : SendCommits(q) /\ q.inc = h.inc /\ q.cmd = c
      <4>1. Works
        BY <1>3, <2>4, RuntimeCases DEF Forgets, LeaseGrant, DeliverAck
      <4>2. PICK q \in held : SendCommits(q)
        BY <1>3, <2>4, <4>1 DEF Works, BeginSend, Conclude, Refuse, TryAgain, SendAck
      <4>3. <<h.inc, c>> = <<q.inc, q.cmd>>
        BY <1>3, <2>4, <4>2 DEF SendCommits
      <4>4. QED
        BY <4>2, <4>3
    <3>2. held' = held /\ q.sending /\ row' = row
      BY <3>1 DEF SendCommits, mailboxVars
    <3>3. h = q
      BY <1>3, <3>1, <3>2 DEF LaneInv
    <3>4. row[c].seq > row[c].seq /\ row[c].seq \in Nat
      BY <1>3, <3>1, <3>2, <3>3 DEF Later, Base, RowOK, Rows
    <3>5. QED
      BY <3>4
  <2>5. QED
    BY <2>3, <2>4
<1>4. \A h, k \in held' : h.sending /\ k.sending /\ h.inc = k.inc => h = k
  BY OneSends
<1>5. QED
  BY <1>1, <1>2, <1>3, <1>4 DEF LaneInv

\* The invariant of lane order, with what its steps need of each other.
LaneOrderInv == Base /\ FateInv /\ OrderInv /\ PlaceInv /\ Newer /\ LaneInv

LEMMA LaneOrderStep ==
    ASSUME LaneOrderInv, [Next]_vars
    PROVE  LaneOrderInv'
<1>1. CASE Next
  BY <1>1, BaseStep, FateInvStep, OrderStep, PlaceStep, NewerStep, LaneStep
     DEF LaneOrderInv
<1>2. CASE UNCHANGED vars
  <2>1. Base' /\ FateInv'
    BY <1>2, BaseStep, FateInvStep DEF LaneOrderInv
  <2>2. OrderInv'
    BY <1>2 DEF LaneOrderInv, OrderInv, Later, vars, mailboxVars
  <2>3. PlaceInv'
    BY <1>2 DEF LaneOrderInv, PlaceInv, Contiguous, NoReturn, Serves, vars,
                mailboxVars, storeVars, runtimeVars
  <2>4. Newer'
    BY <1>2 DEF LaneOrderInv, Newer, vars, runtimeVars
  <2>5. LaneInv'
    BY <1>2 DEF LaneOrderInv, LaneInv, Later, Over, Gone, Receipt, PastDeadline,
                Serves, vars, mailboxVars, storeVars, runtimeVars
  <2>6. QED
    BY <2>1, <2>2, <2>3, <2>4, <2>5 DEF LaneOrderInv
<1>3. QED
  BY <1>1, <1>2

\* A command applied now is not preceded by a later one of its lane.
LaneOrderHere ==
    \A s \in receipts' \ receipts :
        ~\E c \in Commands : /\ LaneOf[c] = LaneOf[s[2]]
                             /\ row[c].seq > row[s[2]].seq
                             /\ <<s[1], c>> \in receipts

LEMMA LaneOrderHolds ==
    ASSUME LaneOrderInv, [Next]_vars
    PROVE  [LaneOrderHere]_vars
<1>1. SUFFICES ASSUME Next PROVE LaneOrderHere
  OBVIOUS
<1>2. SUFFICES ASSUME NEW s \in receipts' \ receipts, NEW c \in Commands,
                      LaneOf[c] = LaneOf[s[2]], row[c].seq > row[s[2]].seq,
                      <<s[1], c>> \in receipts
               PROVE  FALSE
  BY DEF LaneOrderHere
<1>3. Works
  BY <1>1, <1>2, RuntimeCases DEF Forgets, LeaseGrant, DeliverAck
<1>4. PICK h \in held : SendCommits(h)
  BY <1>2, <1>3 DEF Works, BeginSend, Conclude, Refuse, TryAgain, SendAck
<1>5. s = <<h.inc, h.cmd>> /\ h.sending /\ ~Receipt(h)
  BY <1>2, <1>4 DEF SendCommits
<1>6. s[1] = h.inc /\ s[2] = h.cmd
  BY <1>5
<1>7. Later(c, h.cmd) /\ <<h.inc, c>> \in receipts
  BY <1>2, <1>6 DEF Later
<1>8. QED
  BY <1>5, <1>7 DEF LaneOrderInv, LaneInv

\* A storage applies the commands of one lane in the order the mailbox accepted
\* them.  The mailbox offers only the head of a lane, but its offer may be lost,
\* expire and be made again by a newer generation while the process that took
\* the first one still runs: what keeps the order is that a runtime starts to
\* send a command only before its deadline and without a receipt, and that
\* storage the mailbox has turned away from is never served again.
THEOREM LanesInOrder == Spec => LaneOrder
<1>1. CloudInit => LaneOrderInv
  <2>1. SUFFICES ASSUME CloudInit PROVE LaneOrderInv
    OBVIOUS
  <2>2. held = {} /\ acks = {} /\ net = {}
    BY <2>1 DEF CloudInit
  <2>3. OrderInv
    BY <2>1 DEF CloudInit, MailboxInit, OrderInv, NoRow
  <2>4. QED
    BY <2>1, <2>2, <2>3, BaseInit, FateInit, PlaceInit
       DEF LaneOrderInv, Newer, LaneInv
<1>2. LaneOrderInv /\ [Next]_vars => LaneOrderInv'
  BY LaneOrderStep
<1>3. LaneOrderInv /\ [Next]_vars => [LaneOrderHere]_vars
  BY LaneOrderHolds
<1>4. QED
  BY <1>1, <1>2, <1>3, PTL DEF Spec, LaneOrder, LaneOrderHere
=============================================================================
