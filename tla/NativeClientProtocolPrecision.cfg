\* An int64 beyond 2^53 that rounds to 2^53 is written and read back.
CONSTANTS
  Schema <- MCSchema
  Root = "Person"
  Values <- ImpreciseValues
  PageVars <- Pages
  Limit <- MCLimit
  MaxPrecise = 16
  None = None
SPECIFICATION Spec
INVARIANTS
  RoundTrip
