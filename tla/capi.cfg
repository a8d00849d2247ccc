SPECIFICATION Spec
CONSTANTS
  Threads = {t1, t2}
  Handles = {h1, h2}
  Errors = {e1, e2, e3}
  MaxPaths = 2
  Null = Null
SYMMETRY Symmetry
INVARIANTS
  NothingLeaks
PROPERTIES
  ErrorTells
