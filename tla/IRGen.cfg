SPECIFICATION FairSpec
CONSTANTS
  Expr <- MCExpr
  Stmt <- MCStmt
  Function <- MCFunction
  Symbol <- MCSymbol
  Globals <- MCGlobals
  Operator <- MCOperator
  Callee <- MCCallee
  None = None
INVARIANTS TypeOK OnlyPendingOpen Verified WarningExact
PROPERTIES ClosedStays Finishes
CHECK_DEADLOCK FALSE
