\* Two sends beside the set-up of the address; one connection may be lost, then another made.
CONSTANTS
  s1 = s1
  s2 = s2
  Run = Run
  Sends = {s1, s2}
  Drops = 1
SPECIFICATION FairSpec
CHECK_DEADLOCK FALSE
INVARIANT PendingIsAwaited
INVARIANT NobodyWaitsInVain
INVARIANT NoEcho
PROPERTY KeepsPromise
PROPERTY EveryCallEnds
