CONSTANTS
  p = p
  q = q
  c = c
  u = u
  k = k
  m = m
  root = root
  side = side
  apart = apart
  v1 = v1
  mid = mid
  leaf = leaf
  peer = peer
  None = None
  Key = {k, m}
  Volatile = {mid}
  MaxLive = 6
  Id = {p, c, u}
  Def = {v1, mid, peer}
  Scope = {root}
  Faults = {}
  Fragile = {v1, mid, peer}
  Checked = {}
  Settable = {}
  MaxBatch = 1
CONSTANTS
  Config <- MCConfig
  Requires <- MCRequires
  Provides <- MCProvides
  Label <- MCLabel
  Mountable <- Peers
SPECIFICATION Spec
INVARIANTS
  PendingMeansMissing
