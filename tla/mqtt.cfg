CONSTANTS
  on = on
  off = off
  NumTopics = 2
  Payloads <- MCPayloads
  Hash <- MCHash
  QueueSize = 2
  MinDelay = 1
  MaxDelay = 2
  Exponential = TRUE
  MaxMessages <- MCMaxMessages

SPECIFICATION Spec
CHECK_DEADLOCK FALSE

INVARIANTS
  TypeOK
  PopFindsMessage
  NewestKept
  ThreadsOutliveRun

PROPERTIES
  BackoffSchedule
  ImplementsLatestWins
  NetworkStops
  RetryRearmed
