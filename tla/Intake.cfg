\* Two plain messages, or one with two files, of every channel; two processes poll the mailbox,
\* or two requests bring a message at once.
CONSTANTS
  Feeds <- MCFeeds
  MaxFeed = 2
  Processes = {"p", "q"}
  Troubles = {"db", "crash", "stop", "imap", "post", "event", "media", "line", "confirm", "answer"}
SPECIFICATION FairSpec
CHECK_DEADLOCK FALSE
INVARIANT LossesAreExplained
INVARIANT RowsAreExplained
INVARIANT RowsAreWhole
PROPERTY EveryMessageIsTaken
