CONSTANTS
  Sizes = {0, 1, 3, 5, 6}
  Capacity = 3
SPECIFICATION FairStreamSpec
INVARIANTS
  StreamTypeOK
  InOrder
  ValueMeansComplete
PROPERTIES
  ImplementsChannel
  ResetIsNoticed
  BothReturn
CHECK_DEADLOCK FALSE
