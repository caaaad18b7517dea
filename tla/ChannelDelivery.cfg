\* Messages with and without text and up to two files, good and bad, on every channel; two
\* tries, three after an unknown error; one death, overrun of the vt or Postgres error.
CONSTANTS
  Jobs <- MCJobs
  MaxTransient = 2
  MaxUnknown = 2
  Faults = 1
SPECIFICATION FairSpec
CHECK_DEADLOCK FALSE
INVARIANT DeletedIsDelivered
INVARIANT RepeatsAreExplained
INVARIANT PartsInOrder
INVARIANT GivenUpForACause
 
