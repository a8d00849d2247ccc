SPECIFICATION Spec
CONSTANTS
  Fetches = {f1, f2}
  N = 2
  ObjectLen = 2
  Requests <- MCRequests
  EXPIRY_SKEW = 2
  Delay = 1
  Lifetimes = {3}
  ExpiryKnown = {TRUE, FALSE}
  MaxTime = 3
  Faults = {"provider", "probe", "denied", "length", "get"}
  None = None
INVARIANTS
  SignedWhileValid
  OpenedWhole
  AnswersAreExact
PROPERTIES
  TasksFinish
