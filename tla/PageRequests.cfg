SPECIFICATION FairSpec
CONSTANTS
  MaxCalls = 3
  MaxOpens = 2
  MaxAttempts = 2
  Kinds = {"fetchLogs", "clearLogs", "filterLogsByLevel"}
CHECK_DEADLOCK FALSE
INVARIANTS AnswersMatch AwaitedIsPending OneConnection
PROPERTIES EveryCallEnds ReconnectsOrGivesUp
