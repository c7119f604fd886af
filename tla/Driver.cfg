SPECIFICATION Spec
CONSTANTS
  Values <- MCValues
  Object <- MCObject
  MaxWords = 4
  None = None
INVARIANTS TypeOK DumpsStop HonestStatus TemporaryRemoved
CHECK_DEADLOCK FALSE
