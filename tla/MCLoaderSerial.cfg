CONSTANTS
  t1 = t1
  t2 = t2
  g = g
  h = h
  a = a
  s1 = s1
  s2 = s2
  c1 = c1
  c2 = c2
  None = None
  Nobody = Nobody
  Task = {t1, t2}
  Id = {g, h, a}
  Shape = {s1, s2}
  Config = {c1, c2}
  Entries <- MCEntries
  Files <- MCFiles
SPECIFICATION ChangesSpec

PROPERTIES
  OneEntryAtATime
