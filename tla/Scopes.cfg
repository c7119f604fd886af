SPECIFICATION Spec
CONSTANTS
  Variable <- MCVariable
  Header <- MCHeader
  Expr <- MCExpr
  Height <- MCHeight
  None = None
  MaxSize = 5
INVARIANTS TypeOK BindingsExact WarningsExact ReportsComplete
CHECK_DEADLOCK FALSE
