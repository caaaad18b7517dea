\* Two messages of one sender, one with a file, delivered by two handlers at once; one fault of
\* every kind; Chatwoot may know a stranger and a contact that a search takes for the sender.
CONSTANTS
  ann = ann
  anna = anna
  bob = bob
  text = text
  file = file
  h1 = h1
  h2 = h2
  NoJob = NoJob
  Users = {ann, anna, bob}
  Jobs = {text, file}
  Handlers = {h1, h2}
  Sender <- AllFrom
  Files <- FileCount
  Lookalike <- Similar
  Known <- NobodyOrOthers
  Budget <- OneEach
SPECIFICATION FairSpec
CHECK_DEADLOCK FALSE
INVARIANT DoneIsPosted
INVARIANT TwinsAreExplained
INVARIANT PostsAreExplained
PROPERTY EveryJobEnds
