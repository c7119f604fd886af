SPECIFICATION Spec
CONSTANTS
  Letters <- MCLetters
  Commands <- MCCommands
  CCs <- MCCCs
  Paths <- MCPaths
  None = None
INVARIANTS
  TypeOK
  WordsSurvive
  HostToolsStayHome
  RunsComplete
CHECK_DEADLOCK FALSE
