----------------------------- MODULE CommandFate -----------------------------
(***************************************************************************)
(* What the cloud command mailbox promises the author of a command, with   *)
(* the mailbox, the control plane, the runtime's generations and the       *)
(* network left out.  A command is offered to the runtime of at most one   *)
(* storage incarnation, changes that storage at most once, and receives at *)
(* most one verdict, which is never contradicted by what the storage did:  *)
(* "applied" only after the effect, "rejected" only if the effect never    *)
(* happens, "cancelled" only if the command was never offered.  The one    *)
(* verdict that leaves the effect open says so: "outcome-unknown".         *)
(***************************************************************************)
CONSTANTS Commands,      \* command ids
          Incarnations   \* storage incarnations a runtime can run on

VARIABLE fate            \* per command: whom it was offered to, whose storage
                         \* it changed, and the verdict its author can read

Verdicts == {"applied", "rejected", "cancelled", "outcome-unknown"}

Fates == [granted : SUBSET Incarnations, executed : SUBSET Incarnations,
          verdict : Verdicts \cup {"none"}]

Unsettled == [granted |-> {}, executed |-> {}, verdict |-> "none"]

\* The command is offered, or offered again, to the runtime on storage i.
Grant(f, g) == /\ f.verdict = "none"
               /\ \E i \in Incarnations : /\ f.granted \subseteq {i}
                                          /\ g = [f EXCEPT !.granted = {i}]

\* The effect reaches the storage of the runtime it was offered to: possibly
\* after the mailbox gave the command up, but only as "outcome-unknown".
Execute(f, g) == /\ f.verdict \in {"none", "outcome-unknown"}
                 /\ f.executed = {}
                 /\ \E i \in f.granted : g = [f EXCEPT !.executed = {i}]

Admissible(f, v) == /\ v = "applied"         => f.executed # {}
                    /\ v = "rejected"        => f.executed = {}
                    /\ v = "cancelled"       => f.granted = {}
                    /\ v = "outcome-unknown" => f.granted # {}

Decide(f, g) == /\ f.verdict = "none"
                /\ \E v \in Verdicts : /\ Admissible(f, v)
                                       /\ g = [f EXCEPT !.verdict = v]

Init == fate = [c \in Commands |-> Unsettled]

\* One mailbox call may settle several commands and offer others at once.
Next == /\ fate' \in [Commands -> Fates]
        /\ \A c \in Commands : \/ fate'[c] = fate[c]
                               \/ Grant(fate[c], fate'[c])
                               \/ Execute(fate[c], fate'[c])
                               \/ Decide(fate[c], fate'[c])

Spec == Init /\ [][Next]_fate
=============================================================================
