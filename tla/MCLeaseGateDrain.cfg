\* What docs/guides/dynamic-plugins.md:125 says of every call in flight.
CONSTANTS
  Task = {t1, t2}
  NoTask = NoTask
  Group = {g1}
  NoGroup = NoGroup
  MaxNest = 1
SPECIFICATION Spec
INVARIANTS
  CallsDrained
