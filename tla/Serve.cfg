\* Two connections, a window that the sampling interval does not divide, and
\* timers that may be a tick late.
SPECIFICATION FairSpec
CONSTANTS
  Conns = {k1, k2}
  IdleTimeout = 3
  CheckInterval = 2
  Grace = 2
  Lateness = 1
CHECK_DEADLOCK FALSE
INVARIANTS ServeInv CutOnlyIfSilent SilenceBounded
PROPERTIES FinishedAreReaped ShutdownEnds
