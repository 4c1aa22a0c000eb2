CONSTANTS
  Objects = {a, b}
  Methods = {8}
  Paths <- SomePaths
  Texts <- SomeTexts
  Codes = {404}
  Queries <- SomeQueries
  HeaderTexts <- SomeHeaders
  MaxCalls <- SomeCalls
SPECIFICATION HttpSpec
SYMMETRY ObjectSymmetry
INVARIANTS
  CreateOutcome
  MessageReadsBack
  ParametersRunTogether
  QueryIsUnderstood
  LastLengthIsRight
CHECK_DEADLOCK FALSE
