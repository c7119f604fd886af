SPECIFICATION RunSpec
CONSTANTS
  Expr <- MCExpr
  Stmt <- MCStmt
  Function <- MCFunction
  Symbol <- MCSymbol
  Globals <- MCGlobals
  Operator <- MCOperator
  Callee <- MCCallee
  None = None
PROPERTY RefinesSource
