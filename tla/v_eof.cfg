CONSTANTS
  Sizes = {1, 3}
  Capacity = 2
SPECIFICATION FairStreamSpec
PROPERTY ReadReturnsAfterClose
CHECK_DEADLOCK FALSE
