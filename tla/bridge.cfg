CONSTANTS
  None = None
  Kinds <- AllKinds
  Idents = {d1, d2}
  Events = {e1}
  Clients = {c1, c2}
  Fds = {1}
  MaxUpdates = 1

SPECIFICATION Spec
CHECK_DEADLOCK FALSE

INVARIANTS
  TypeOK
  CallersJoined
  FinalOffline
  GatedReachConsumers
  IdentityCurrent
  AvailabilityFollowsPort
  FatalExitsNonZero
  StopReachesMain
  DescriptorsReleased

PROPERTIES
  ServedNeverReverts
  Terminates
