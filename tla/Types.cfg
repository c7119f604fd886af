SPECIFICATION Spec
CONSTANTS
  Variable <- MCVariable
  Header <- MCHeader
  Expr <- MCExpr
  Height <- MCHeight
  None = None
  MaxSize = 3
INVARIANTS ErrorsExact WarningsExact ReadyForCodeGeneration
CHECK_DEADLOCK FALSE
