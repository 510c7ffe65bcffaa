CONSTANTS
  s = s
  t = t
  k = k
  m = m
  Key = {k, m}
  NoPlugin = NoPlugin
  Task = {s, t}
CONSTANT Declarations <- All
SPECIFICATION FairSpec
CHECK_DEADLOCK FALSE
INVARIANTS
  PlanIsRight
  ProvidersOutliveUsers
  ReturnedMeansReleased
  ReleasedOnce
PROPERTIES
  WaitersReturn
