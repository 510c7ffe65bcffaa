CONSTANTS
  Nobody = Nobody
  Task = {t1, t2}
  Request = {r1}
  Change = {c1}
  Content = {a}
  MaxTyped = 1
SPECIFICATION Spec
INVARIANTS
  KilledIsAwaited
