CONSTANTS
  p = p
  q = q
  a = a
  b = b
  h = h
  k = k
  None = None
  ConfigFile = ConfigFile
  Plugin = {p, q}
  Module = {a, b, h, k}
  Uses <- MCUses
  Framework = {k}
  Versions <- MCVersions
  Bad <- MCBad
  Configs = 3
  Mounts <- MCMounts
  BadConfig <- MCBadConfig
SPECIFICATION Spec
INVARIANTS
  LastGoodRuns
PROPERTIES
  EditsAreTried
  ComesToRest
CHECK_DEADLOCK FALSE
