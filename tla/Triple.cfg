SPECIFICATION Spec
CONSTANTS
  Values <- MCValues
  Object <- MCObject
  MaxWords = 3
  None = None
INVARIANTS TripleNormalized
CHECK_DEADLOCK FALSE
