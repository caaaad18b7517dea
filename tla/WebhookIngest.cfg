\* A message that is confirmed to its user, an update of a foreign type and an event of an
\* unknown connector share two requests at once; one fault of every kind.
CONSTANTS
  e1 = e1
  e2 = e2
  e3 = e3
  h1 = h1
  h2 = h2
  NoEvent = NoEvent
  Events = {e1, e2, e3}
  Foreign = {e2}
  Unroutable = {e3}
  Confirmed = {e1}
  Handlers = {h1, h2}
  Budget <- OneEach
SPECIFICATION FairSpec
INVARIANT AcknowledgedIsQueued
INVARIANT CopiesAreExplained
PROPERTY PostingEnds
