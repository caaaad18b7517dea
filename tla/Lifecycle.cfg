\* The gateway's two workers, one account of Delta Chat, one trouble of each kind.
CONSTANTS
  Workers = {"to_cw", "from_cw"}
  Accounts = {"a"}
  Troubles = {"start", "stop", "listen", "db"}
  MaxTroubles = 1
SPECIFICATION FairSpec
CHECK_DEADLOCK FALSE
INVARIANT EveryAccountIsHeard
INVARIANT EndsAreExplained
INVARIANT UndeletedIsBounded
PROPERTY ShutdownEnds
