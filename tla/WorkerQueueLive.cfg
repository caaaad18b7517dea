\* One process reads batches of two; one of the two messages is malformed. The process may
\* crash, be stopped and meet a Postgres error.
CONSTANTS
  m1 = m1
  m2 = m2
  w1 = w1
  NoMsg = NoMsg
  Msgs = {m1, m2}
  Malformed = {m2}
  Workers = {w1}
  Limit = 2
  MaxTransient = 2
  MaxUnknown = 1
  Budget <- SteadyListener
SPECIFICATION FairSpec
INVARIANT UndecodedStays
PROPERTY EveryMessageSettles
PROPERTY ShutdownCompletes
