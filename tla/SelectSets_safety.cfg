CONSTANTS
  Socket = {1, 2, 3}
  FdSetSize = 3
SPECIFICATION Spec
INVARIANTS TypeOK EverySetIsPassed ReportIsReal ConnectIsRight
PROPERTIES WaitIsExact VerdictIsRight
CONSTRAINTS LimitIsIdle GreatestConnects
