--------------------------- MODULE MCCloudCommands ---------------------------
(***************************************************************************)
(* Instances of CloudCommands for TLC: all commands share one lane, and    *)
(* are interchangeable.                                                    *)
(***************************************************************************)
EXTENDS CloudCommands, TLC

MCLanes == [c \in Commands |-> 1]
Symmetry == Permutations(Commands)
=============================================================================
