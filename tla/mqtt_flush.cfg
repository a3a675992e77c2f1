CONSTANTS
  on = on
  off = off
  NumTopics = 1
  Payloads <- MCPayloads
  Hash <- MCHash
  QueueSize = 2
  MinDelay = 1
  MaxDelay = 2
  Exponential = TRUE
  MaxMessages <- MCOneTopic

SPECIFICATION Spec
CHECK_DEADLOCK FALSE

INVARIANT FinalPublishesLand
