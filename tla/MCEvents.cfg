CONSTANTS
  x = x
  y = y
  c1 = c1
  c2 = c2
  Hook = {x, y}
  Call = {c1, c2}
  Once = {x}
  Modes = {"emit", "bail", "serial", "parallel", "waterfall", "waterfall_sync"}
CONSTANT Heard <- MCHeard
SPECIFICATION Spec
CHECK_DEADLOCK FALSE
INVARIANTS
  OnceRunsOnce
  DispatchIsComplete
