SPECIFICATION FairSpec
CONSTANTS
  Starters = {c1}
  Stoppers = {c1}
  Pollers = {w1, w2}
  Proc = {p1, p2, p3}
  NoProc = NoProc
  MaxReloads = 1
INVARIANT OneLoopPerBackend
INVARIANT StopMeansStopped
INVARIANT NoOrphan
PROPERTY StoppedLoopDies
PROPERTY ImplementsSlot
