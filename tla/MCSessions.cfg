CONSTANTS
  p1 = p1
  p2 = p2
  t1 = t1
  t2 = t2
  u = u
  x = x
  y = y
  q1 = q1
  q2 = q2
  q3 = q3
  q4 = q4
  w1 = w1
  w2 = w2
  v1 = v1
  v2 = v2
  None = None
  Nobody = Nobody
  Process = {p1, p2}
  Task = {t1, t2, u}
  Home <- MCHome
  Session = {x, y}
  Turn = {q1, q2, q3, q4}
  Workspace = {w1, w2}
  Version = {v1, v2}
SPECIFICATION Spec
SYMMETRY Symmetry
INVARIANTS
  OneWriter
  HistoryIsCoherent
  ToldIsKept
PROPERTIES
  NoUntoldTurn
  StaysAtHome
  KeepsPromise
