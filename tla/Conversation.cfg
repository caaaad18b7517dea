\* Pairs of updates over all eight channels, one of them posted again, and two replies.
CONSTANTS
  Connectors <- MCConnectors
  None = None
  Dues <- MCDues
  Processes = {"p", "q"}
  Reposts = 1
  Replies = 2
SPECIFICATION ConversationSpec
CHECK_DEADLOCK FALSE
INVARIANT RepliesReachTheirWriter
INVARIANT OneContactEach
INVARIANT LossesAreExplained
