SPECIFICATION FairSpec
CONSTANTS
  Inputs <- MCInputs
  None = None
INVARIANTS TypeOK ReportedInOrder ParsesGrammar DumpReadable
PROPERTY Finishes
CHECK_DEADLOCK FALSE
