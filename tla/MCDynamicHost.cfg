CONSTANTS
  p = p
  q = q
  c = c
  u = u
  k = k
  m = m
  root = root
  side = side
  apart = apart
  v1 = v1
  mid = mid
  leaf = leaf
  peer = peer
  None = None
  Key = {k, m}
  Volatile = {mid}
  MaxLive = 6
  Id = {p, q, c}
  Def = {v1, mid, leaf}
  Scope = {root, side}
  Faults = {"prepare", "cleanup", "cancel"}
  Fragile = {v1, mid, leaf}
  Checked = {k}
  Settable = {k}
  MaxBatch = 1
CONSTANTS
  Config <- MCConfig
  Requires <- MCRequires
  Provides <- MCProvides
  Label <- MCLabel
  Mountable <- Mixed
SPECIFICATION FairSpec
INVARIANTS
  OneProvider
  ServicesOutliveUsers
  OrderIsActivation
PROPERTIES
  OperationsEnd
