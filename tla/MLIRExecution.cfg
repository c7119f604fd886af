SPECIFICATION RunSpec
CONSTANTS
  Expr <- MCExpr
  Stmt <- MCStmt
  Function <- MCFunction
  Symbol <- MCSymbol
  Globals <- MCGlobals
  Operator <- MCOperator
  Callee <- MCCallee
  None = None
  Modules <- FromGenerators
  Flavors <- MCFlavors
  AnyOrder = FALSE
PROPERTY RefinesSource
