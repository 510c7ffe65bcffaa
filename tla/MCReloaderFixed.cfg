CONSTANTS
  p = p
  q = q
  a = a
  b = b
  h = h
  k = k
  None = None
  ConfigFile = ConfigFile
  Plugin = {p, q}
  Module = {a, b, h, k}
  Uses <- MCUses
  Framework = {k}
  Versions <- MCVersions
  Bad <- MCBad
  Configs = 1
  Mounts <- MCMountsAll
  BadConfig = {}
SPECIFICATION Spec
PROPERTY FixedSourcesRun
CHECK_DEADLOCK FALSE
