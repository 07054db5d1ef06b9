---------------------------- MODULE MCTimelineSync ----------------------------
(***************************************************************************)
(* Instances of TimelineSync for TLC.                                      *)
(***************************************************************************)
EXTENDS TimelineSync

\* A desktop reports only transport errors to its connection; a phone reports
\* every failure and leaves history to the pager, as the desktop does for a
\* cloud workspace.
DesktopLocal == [background |-> FALSE, repairs |-> FALSE]
Mobile == [background |-> TRUE, repairs |-> TRUE]
MCBoth == {DesktopLocal, Mobile}
=============================================================================
