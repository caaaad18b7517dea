\* One message, two processes, one fault of every kind: the interleavings of readers of
\* the same row. All workers may have died of a listener fault, so the system may stop.
CONSTANTS
  m1 = m1
  w1 = w1
  w2 = w2
  NoMsg = NoMsg
  Msgs = {m1}
  Malformed = {}
  Workers = {w1, w2}
  Limit = 1
  MaxTransient = 2
  MaxUnknown = 2
  Budget <- AnyFault
SPECIFICATION Spec
CHECK_DEADLOCK FALSE
SYMMETRY SymWorkers
INVARIANT ExclusiveLease
PROPERTY KeepsPromise
