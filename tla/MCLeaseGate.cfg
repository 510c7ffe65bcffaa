\* Three tasks, blocks nested two deep: safety, the promise of CallGuard,
\* and every task in line is served.
CONSTANTS
  Task = {t1, t2, t3}
  NoTask = NoTask
  Group = {g1, g2, g3}
  NoGroup = NoGroup
  MaxNest = 2
SPECIFICATION FairSpec
INVARIANTS
  TypeOK
  WindowExcludesCalls
  CountsAgree
  NoCallBehindItself
PROPERTIES
  ClosedIsFinal
  Refines
  Served
