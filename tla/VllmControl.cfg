SPECIFICATION FairSpec
CONSTANTS
  Starters = {c1}
  Stoppers = {c1}
  Pollers = {w1}
  Proc = {p1, p2}
  NoProc = NoProc
  Foreign = Foreign
  MaxReloads = 1
INVARIANT OneVllmPerBackend
INVARIANT NoOrphan
INVARIANT ReadyMeansServed
PROPERTY NeverBackToPending
PROPERTY StartResolves
