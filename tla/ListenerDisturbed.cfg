\* The two queues of the gateway, every disturbance once, shutdown at any moment.
CONSTANTS
  to_cw = to_cw
  from_cw = from_cw
  Queues = {to_cw, from_cw}
  Limit = 1
  Inserts = 1
  Budget <- Anything
SPECIFICATION FairListenerSpec
CHECK_DEADLOCK FALSE
INVARIANT WakeUpsAreExplained
PROPERTY EveryRowIsRead
PROPERTY ShutdownIsPrompt
