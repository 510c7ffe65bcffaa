CONSTANTS
  p = p
  q = q
  c = c
  u = u
  k = k
  m = m
  root = root
  side = side
  apart = apart
  v1 = v1
  mid = mid
  leaf = leaf
  peer = peer
  None = None
  Key = {k, m}
  Volatile = {mid}
  MaxLive = 6
  Id = {p, c}
  Def = {v1, mid}
  Scope = {root, apart}
  Faults = {}
  Fragile = {v1}
  Checked = {}
  Settable = {k}
  MaxBatch = 2
CONSTANTS
  Config <- MCConfig
  Requires <- MCRequires
  Provides <- MCProvides
  Label <- MCLabel
  Mountable <- Pair
SPECIFICATION Spec
INVARIANTS
  NoOrphans
  ConfigAgrees
PROPERTIES
  RollbackRestores
