SPECIFICATION FairSpec
CONSTANTS
  Expr <- MCExpr
  Stmt <- MCStmt
  Function <- MCFunction
  Symbol <- MCSymbol
  Globals <- MCGlobals
  Operator <- MCOperator
  Callee <- MCCallee
  None = None
  Modules <- FromGenerators
  Flavors <- MCFlavors
  AnyOrder = TRUE
INVARIANTS TypeOK NeverRejected Verified NoneStranded SameAsStd
PROPERTY Lowers
CHECK_DEADLOCK FALSE
