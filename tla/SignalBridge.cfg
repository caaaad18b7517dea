\* Three calls; waits time out at any moment, one connection is lost, the daemon may never answer.
CONSTANTS
  s1 = s1
  s2 = s2
  s3 = s3
  None = None
  Sends = {s1, s2, s3}
  Drops = 1
SPECIFICATION FairSpec
CHECK_DEADLOCK FALSE
INVARIANT PendingIsTheHolder
INVARIANT StrayRepliesFollowATimeout
PROPERTY KeepsPromise
 
