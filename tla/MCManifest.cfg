SPECIFICATION Spec
CONSTANTS
  a = a
  b = b
  x = x
  y = y
  p = p
  q = q
  Files = {a, b}
  Options = {x, y}
  Schemas = {p, q}
  MaxVersion = 1
  MaxWrites = 2
  MaxTouches = 2
  MaxRuns = 3
  QuietFiles = {b}
SYMMETRY Permutable
CHECK_DEADLOCK FALSE
PROPERTIES
  DeletesAreRecorded
  DeletedStaysDeleted
  SkipSound
  DeletesOurs
