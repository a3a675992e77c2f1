CONSTANTS
  old = old
  new = new
  pub = pub
  primo = primo
  Procs <- MCProcs
  Public = pub
  Devices <- MCDevices
  Embedded <- MCEmbedded
  MaxFaults = 2

SPECIFICATION Spec
CHECK_DEADLOCK FALSE

INVARIANT VerifyRejectsMissing
