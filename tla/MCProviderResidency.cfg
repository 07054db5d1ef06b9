\* One opening displaces another, at any step of either.
SPECIFICATION FairSpec
CONSTANTS
  o1 = o1
  o2 = o2
  Opens = {o1, o2}
  None = None
  MaxFaults = 1
INVARIANTS
  TypeOK
  EveryHandleIsOwned
  StoppedStaysStopped
  GivenUpIsStopped
PROPERTY
  OnlyTheReservedRuns
CHECK_DEADLOCK FALSE
