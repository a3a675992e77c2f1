CONSTANTS
  primo = primo
  grid = grid
  gone = gone
  Devices <- MCDevices
  Hybrid <- MCHybrid
  Retired = gone
  QueueSize = 2
  MinDelay = 1
  MaxDelay = 3
  Exponential = TRUE
  MaxValues = 2
  MaxFaults = 2

SPECIFICATION Spec
CHECK_DEADLOCK FALSE

PROPERTY RecoversFromOutage
