CONSTANTS
  Documents <- AllDocuments
  LegalNames <- Names
  NaN = NaN
  Spelled <- Spelling

SPECIFICATION Spec
CHECK_DEADLOCK FALSE

INVARIANTS
  TypeOK
  OneOwnerPerLine
  DevicesFindTheirBus
  BusPolicy
  RosterComplete
  OrderIrrelevant
