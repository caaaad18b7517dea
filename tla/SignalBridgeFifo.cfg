\* A result that comes after its timeout.
CONSTANTS
  s1 = s1
  s2 = s2
  None = None
  Sends = {s1, s2}
  Drops = 0
SPECIFICATION Spec
CHECK_DEADLOCK FALSE
INVARIANT RepliesMatch
