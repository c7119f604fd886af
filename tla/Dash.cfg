SPECIFICATION Spec
CONSTANTS
  Values <- MCValues
  Object <- MCObject
  MaxWords = 3
  None = None
INVARIANTS DashIsStandardOutput
CHECK_DEADLOCK FALSE
