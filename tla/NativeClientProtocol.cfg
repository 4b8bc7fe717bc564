\* Values are written and read back, and page variables of every shape are read.
CONSTANTS
  Schema <- MCSchema
  Root = "Person"
  Values <- SafeValues
  PageVars <- Pages
  Limit <- MCLimit
  MaxPrecise = 16
  None = None
SPECIFICATION Spec
INVARIANTS
  TypeOK
  InSync
  RoundTrip
  ReadMeans
PROPERTIES
  OperationsEnd
