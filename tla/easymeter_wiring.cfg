CONSTANTS
  None = None
  Kinds <- OnlyEasyMeter
  Idents = {d1}
  Events = {e1}
  Clients = {c1}
  Fds = {1}
  MaxUpdates = 1

SPECIFICATION Spec
CHECK_DEADLOCK FALSE

INVARIANT CallbacksReadUnderLock
