SPECIFICATION Spec
CONSTANTS
  a = a
  b = b
  x = x
  y = y
  p = p
  q = q
  Files = {a}
  Options = {x}
  Schemas = {p}
  MaxVersion = 1
  MaxWrites = 2
  MaxTouches = 1
  MaxRuns = 2
  QuietFiles = {}
CHECK_DEADLOCK FALSE
PROPERTIES
  SkipAlwaysSound
