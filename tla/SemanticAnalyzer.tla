-------------------------- MODULE SemanticAnalyzer --------------------------
(***************************************************************************)
(* Semantic analysis (src/SemanticAnalyzer.cpp): one walk over the program *)
(* that declares names, resolves them, and checks types and arity.         *)
(*                                                                         *)
(* The walk visits the program from first token to last, so the program is *)
(* given to the model piece by piece: `program' is what has been visited,  *)
(* and each step picks the next piece among those the grammar allows.      *)
(* What the analyzer does not look at (the nesting of if and while, which  *)
(* opens no scope) is left out.                                            *)
(***************************************************************************)
EXTENDS SymbolTable, FiniteSets, TLC

CONSTANTS
  Variable,   \* the declarations of variables: [name, type, size]
  Header,     \* the headings of functions: [name, type, params]
  Expr,       \* the expressions, closed under taking parts
  Height,     \* how deep each of them is
  None,       \* no expression
  MaxSize     \* bound on the declarations, blocks and statements of a program

(* The parser has seen to it that the target of an assignment is a         *)
(* variable.                                                               *)
ExprShape(e) ==
  \/ e.kind = "num" /\ e.value \in Nat
  \/ e.kind = "var" /\ e.index \in Expr \union {None}
  \/ e.kind = "call" /\ e.args \in Seq(Expr)
  \/ e.kind = "assign" /\ e.target \in Expr /\ e.target.kind = "var" /\ e.value \in Expr
  \/ e.kind = "binary" /\ e.op \in {"div", "other"} /\ e.lhs \in Expr /\ e.rhs \in Expr

(* What an expression is made of; Height is finite, and falls on the way.  *)
Parts(e) ==
  CASE e.kind = "num" -> {}
    [] e.kind = "var" -> {e.index} \ {None}
    [] e.kind = "call" -> {e.args[i] : i \in 1..Len(e.args)}
    [] e.kind = "assign" -> {e.target, e.value}
    [] e.kind = "binary" -> {e.lhs, e.rhs}

Parameter == UNION {{h.params[i] : i \in DOMAIN h.params} : h \in Header}
Types == {"int", "array", "void"}

ASSUME ProgramAssumption ==
  /\ \A v \in Variable : v.type \in Types /\ v.size \in Nat
  /\ \A h \in Header : h.type \in {"int", "void"} /\ h # None /\ h.params \in Seq(Parameter)
  /\ \A p \in Parameter : p.type \in Types
  /\ \A e \in Expr : ExprShape(e)
  /\ Height \in [Expr -> Nat]
  /\ \A e \in Expr : \A p \in Parts(e) : Height[p] < Height[e]
  /\ None \notin Expr
  /\ MaxSize \in Nat

VARIABLES
  program,         \* the pieces visited so far
  annotations,     \* for each piece, the symbols written into its nodes
  errors,          \* the errors reported: where and what
  warnings,        \* the warnings reported: where and what
  parameters,      \* the parameters of the current heading still to be visited
  currentFunction, \* currentFunction_
  reports,         \* scopes_, the reports of the closed scopes
  finished         \* analyze() has returned

vars == <<table, program, annotations, errors, warnings, parameters, currentFunction, reports, finished>>

-----------------------------------------------------------------------------
(* Symbols.                                                                *)

(* `size' is that of an array whose size is known, and zero otherwise.     *)
Symbol(kind, name, type, size, params, builtin) ==
  [kind |-> kind, name |-> name, type |-> type, size |-> size, params |-> params,
   builtin |-> builtin]

input == Symbol("function", "input", "int", 0, <<>>, TRUE)
output == Symbol("function", "output", "void", 0, <<"int">>, TRUE)

(* A variable declared void is recorded as int, so that its uses give no   *)
(* further errors.                                                         *)
Recorded(type) == IF type = "array" THEN "array" ELSE "int"

VariableSymbol(v) ==
  Symbol("variable", v.name, Recorded(v.type), IF v.type = "array" THEN v.size ELSE 0,
         <<>>, FALSE)
ParameterSymbol(p) == Symbol("parameter", p.name, Recorded(p.type), 0, <<>>, FALSE)
FunctionSymbol(h) ==
  Symbol("function", h.name, h.type, 0,
         [i \in 1..Len(h.params) |-> Recorded(h.params[i].type)], FALSE)

(* The null pointer is no symbol.                                          *)
ASSUME NoneAssumption ==
  None \notin {input, output} \union {VariableSymbol(v) : v \in Variable}
                \union {ParameterSymbol(p) : p \in Parameter}
                \union {FunctionSymbol(h) : h \in Header}

-----------------------------------------------------------------------------
(* Expressions.  The analysis of one gives its type, the errors and the    *)
(* warnings found in it and the symbols written into its nodes; it changes *)
(* nothing else.                                                           *)

Result(type, found, warned, uses) ==
  [type |-> type, errors |-> found, warnings |-> warned, uses |-> uses]

Use(role, name, symbol) == [role |-> role, name |-> name, symbol |-> symbol]

(* As it would be with arrays let through.                                 *)
requireNotVoid(type) == IF type = "void" THEN {"void as a value"} ELSE {}

requireInt(type) ==
  CASE type = "int" -> {}
    [] type = "array" -> {"array as a value"}
    [] type = "void" -> {"void as a value"}

(* As it would be with an array parameter taken for one of no elements.    *)
PastUnknownEnd(symbol, index) ==
  IF index.kind = "num" /\ index.value >= symbol.size THEN {"index past the end"} ELSE {}

(* As it would be if the index one past the last were let through.         *)
PastTheEndByOne(symbol, index) ==
  IF symbol.size > 0 /\ index.kind = "num" /\ index.value > symbol.size
  THEN {"index past the end"} ELSE {}

(* Only a literal index into an array of known size is looked at.          *)
PastTheEnd(symbol, index) ==
  IF symbol.size > 0 /\ index.kind = "num" /\ index.value >= symbol.size
  THEN {"index past the end"} ELSE {}

(* `index' is the analysis of the subscript, if there is one.              *)
analyzeVarExpr(e, index) ==
  LET symbol == lookup(e.name)
      missing == symbol = 0 \/ storage[symbol].kind = "function"
      type == storage[symbol].type
  IN CASE missing ->
            Result("int",
                   {IF symbol = 0 THEN "undeclared" ELSE "function as a variable"}
                     \union index.errors,
                   index.warnings, {Use("var", e.name, 0)} \union index.uses)
       [] ~missing /\ e.index = None ->
            Result(type, {}, {}, {Use("var", e.name, symbol)})
       [] OTHER ->
            Result("int",
                   index.errors \union requireInt(index.type)
                     \union (IF type = "array" THEN {} ELSE {"not an array"}),
                   index.warnings
                     \union (IF type = "array" THEN PastTheEnd(storage[symbol], e.index) ELSE {}),
                   {Use("var", e.name, symbol)} \union index.uses)

(* As it would be if anything could be passed for an array.                *)
CheckScalarArgument(wanted, given) == IF wanted = "array" THEN {} ELSE requireInt(given)

(* An argument must have the type of its parameter.                        *)
CheckArgument(wanted, given) ==
  CASE given = wanted -> {}
    [] given # wanted /\ wanted = "array" -> {"argument is not an array"}
    [] OTHER -> requireInt(given)

(* `args' are the analyses of the arguments.  The types of the arguments   *)
(* are only compared when their number is right.                           *)
analyzeCallExpr(e, args) ==
  LET symbol == lookup(e.callee)
      callee == storage[symbol]
      n == Len(e.args)
      inside == UNION {args[i].errors : i \in 1..n}
      warned == UNION {args[i].warnings : i \in 1..n}
      uses == UNION {args[i].uses : i \in 1..n}
  IN CASE symbol = 0 ->
            Result("int", {"undeclared"} \union inside, warned,
                   {Use("call", e.callee, 0)} \union uses)
       [] symbol # 0 /\ callee.kind # "function" ->
            Result("int", {"not a function"} \union inside, warned,
                   {Use("call", e.callee, 0)} \union uses)
       [] OTHER ->
            Result(callee.type,
                   inside \union
                     (IF n # Len(callee.params)
                      THEN {"number of arguments"}
                      ELSE UNION {CheckArgument(callee.params[i], args[i].type) : i \in 1..n}),
                   warned, {Use("call", e.callee, symbol)} \union uses)

analyzeAssign(target, value) ==
  Result("int",
         target.errors \union value.errors \union requireInt(value.type)
           \union (IF target.type = "array" THEN {"assignment to an array"} ELSE {}),
         target.warnings \union value.warnings, target.uses \union value.uses)

DivisionByZero(e) ==
  IF e.op = "div" /\ e.rhs.kind = "num" /\ e.rhs.value = 0 THEN {"division by zero"} ELSE {}

analyzeBinary(e, lhs, rhs) ==
  Result("int",
         lhs.errors \union requireInt(lhs.type) \union rhs.errors \union requireInt(rhs.type),
         lhs.warnings \union rhs.warnings \union DivisionByZero(e), lhs.uses \union rhs.uses)

Nothing == Result("int", {}, {}, {})

analyzeExpr[e \in Expr] ==
  CASE e.kind = "num" -> Nothing
    [] e.kind = "var" ->
         analyzeVarExpr(e, IF e.index = None THEN Nothing ELSE analyzeExpr[e.index])
    [] e.kind = "call" ->
         analyzeCallExpr(e, [i \in 1..Len(e.args) |-> analyzeExpr[e.args[i]]])
    [] e.kind = "assign" -> analyzeAssign(analyzeExpr[e.target], analyzeExpr[e.value])
    [] e.kind = "binary" -> analyzeBinary(e, analyzeExpr[e.lhs], analyzeExpr[e.rhs])

-----------------------------------------------------------------------------
(* Pieces of the program and what the walk does at each.                   *)

Piece(kind, of) == [kind |-> kind, of |-> of]
Here == Len(program) + 1
Last == program[Len(program)]
At(found) == {[at |-> Here, what |-> w] : w \in found}

Visit(piece, uses, found, warned) ==
  /\ program' = Append(program, piece)
  /\ annotations' = Append(annotations, uses)
  /\ errors' = errors \union At(found)
  /\ warnings' = warnings \union At(warned)
  /\ UNCHANGED finished

declareOrDiagnose(symbol) ==
  LET existing == Existing(symbol.name)
  IN CASE existing = 0 -> {}
       [] existing # 0 /\ storage[existing].builtin -> {"redeclares a built-in"}
       [] OTHER -> {"redeclaration"}

(* What a declaration writes into its node: null if it was refused.        *)
DeclaredAs(symbol) ==
  {Use("declaration", symbol.name, IF Existing(symbol.name) = 0 THEN Inserted ELSE 0)}

SizeWarning(v) == IF v.type = "array" /\ v.size = 0 THEN {"size zero"} ELSE {}
VoidError(type) == IF type = "void" THEN {"declared void"} ELSE {}

AtTopLevel == Len(scopes) = 1 /\ ~finished
InFunction == Len(scopes) > 1 /\ parameters = <<>>
Size == Cardinality({i \in 1..Len(program) : program[i].kind \notin {"parameter", "close"}})
MayGrow == Size < MaxSize

analyzeVarDecl(kind, v) ==
  LET symbol == VariableSymbol(v)
  IN /\ scopes' = declare(symbol)
     /\ storage' = Stored(symbol)
     /\ Visit(Piece(kind, v), DeclaredAs(symbol),
              VoidError(v.type) \union declareOrDiagnose(symbol), SizeWarning(v))
     /\ UNCHANGED <<nextOrder, parameters, currentFunction, reports>>

GlobalVariable ==
  /\ AtTopLevel /\ MayGrow
  /\ \E v \in Variable : analyzeVarDecl("global", v)

(* A function is declared before its own scope is opened, which its        *)
(* parameters and its body share.                                          *)
OpenFunction ==
  /\ AtTopLevel /\ MayGrow
  /\ \E h \in Header :
       LET symbol == FunctionSymbol(h)
       IN /\ scopes' = pushScope(declare(symbol))
          /\ storage' = Stored(symbol)
          /\ nextOrder' = nextOrder + 1
          /\ Visit(Piece("function", h), DeclaredAs(symbol), declareOrDiagnose(symbol), {})
          /\ parameters' = h.params
          /\ currentFunction' = h
          /\ UNCHANGED reports

analyzeParam ==
  /\ parameters # <<>>
  /\ LET p == Head(parameters)
         symbol == ParameterSymbol(p)
     IN /\ scopes' = declare(symbol)
        /\ storage' = Stored(symbol)
        /\ Visit(Piece("parameter", p), DeclaredAs(symbol),
                 VoidError(p.type) \union declareOrDiagnose(symbol), {})
        /\ parameters' = Tail(parameters)
        /\ UNCHANGED <<nextOrder, currentFunction, reports>>

(* Local declarations come before the statements of their block.           *)
LocalVariable ==
  /\ InFunction /\ MayGrow
  /\ Last.kind \in {"function", "parameter", "block", "local"}
  /\ \E v \in Variable : analyzeVarDecl("local", v)

(* The body of a function opens no scope of its own; other blocks do.      *)
OpenBlock ==
  /\ InFunction /\ MayGrow
  /\ scopes' = pushScope(scopes)
  /\ nextOrder' = nextOrder + 1
  /\ Visit(Piece("block", None), {}, {}, {})
  /\ UNCHANGED <<storage, parameters, currentFunction, reports>>

(* A condition is followed by the statement it governs.                    *)
CloseScope ==
  /\ InFunction
  /\ Last.kind # "condition"
  /\ scopes' = popScope
  /\ reports' = Append(reports, ScopeReport)
  /\ currentFunction' = IF Len(scopes) = 2 THEN None ELSE currentFunction
  /\ Visit(Piece("close", None), {}, {}, {})
  /\ UNCHANGED <<storage, nextOrder, parameters>>

Statement(kind, e, result, found) ==
  /\ Visit(Piece(kind, e), result.uses, result.errors \union found, result.warnings)
  /\ UNCHANGED <<table, parameters, currentFunction, reports>>

(* An expression statement is the one place for a void expression.         *)
ExprStatement ==
  /\ InFunction /\ MayGrow
  /\ \E e \in Expr : Statement("exprstmt", e, analyzeExpr[e], {})

analyzeCondition ==
  /\ InFunction /\ MayGrow
  /\ \E e \in Expr : Statement("condition", e, analyzeExpr[e], requireInt(analyzeExpr[e].type))

analyzeReturn ==
  /\ InFunction /\ MayGrow
  /\ \/ Statement("return", None, Nothing,
                  IF currentFunction.type = "void" THEN {} ELSE {"return without a value"})
     \/ \E e \in Expr :
          Statement("return", e, analyzeExpr[e],
                    IF currentFunction.type = "void"
                    THEN {"return with a value"}
                    ELSE requireInt(analyzeExpr[e].type))

(* The declarations of the program, and the last of them that defines main.*)
TopLevel == {i \in 1..Len(program) : program[i].kind \in {"global", "function"}}
LastDecl == CHOOSE i \in TopLevel : \A j \in TopLevel : j <= i
Mains == {i \in TopLevel : program[i].kind = "function" /\ program[i].of.name = "main"}
LastMain == CHOOSE i \in Mains : \A j \in Mains : j <= i

checkMain ==
  IF Mains = {}
  THEN {"no main"}
  ELSE LET main == program[LastMain].of
       IN (IF LastMain = LastDecl THEN {} ELSE {"main is not last"})
            \union (IF main.type = "void" /\ main.params = <<>> THEN {} ELSE {"form of main"})

(* As it would be in the order in which the scopes were closed.            *)
Unsorted(found) == found

(* The reports, in the order in which their scopes were opened: before     *)
(* each, those of a lower number.  No two scopes have the same.            *)
Sorted(found) ==
  LET Before(i) == {j \in 1..Len(found) : found[j].order < found[i].order}
  IN [k \in 1..Len(found) |->
        found[CHOOSE i \in 1..Len(found) : Cardinality(Before(i)) = k - 1]]

(* The parser refuses a program without declarations.                      *)
EndProgram ==
  /\ AtTopLevel
  /\ TopLevel # {}
  /\ errors' = errors \union At(checkMain)
  /\ scopes' = popScope
  /\ reports' = Sorted(Append(reports, ScopeReport))
  /\ finished' = TRUE
  /\ UNCHANGED <<storage, nextOrder, program, annotations, warnings, parameters, currentFunction>>

-----------------------------------------------------------------------------
Init ==
  /\ storage = <<input, output>>
  /\ scopes = <<[order |-> 0, declared |-> <<1, 2>>,
                 byName |-> [n \in {"input", "output"} |-> IF n = "input" THEN 1 ELSE 2]]>>
  /\ nextOrder = 1
  /\ program = <<>> /\ annotations = <<>> /\ errors = {} /\ warnings = {} /\ reports = <<>>
  /\ parameters = <<>> /\ currentFunction = None
  /\ finished = FALSE

Next ==
  \/ GlobalVariable \/ OpenFunction \/ analyzeParam \/ LocalVariable
  \/ OpenBlock \/ CloseScope
  \/ ExprStatement \/ analyzeCondition \/ analyzeReturn
  \/ EndProgram

Spec == Init /\ [][Next]_vars

-----------------------------------------------------------------------------
(* The rules of the language (docs/spec/c-minus.md, section 3), stated on  *)
(* the text of the program alone: which declaration a name denotes at a    *)
(* place is decided by the positions of the braces, with no table.         *)

Declaring == {"global", "function", "parameter", "local"}
Count(kinds, i) == Cardinality({j \in 1..i : program[j].kind \in kinds})

(* The nesting depth after piece i.                                        *)
Depth(i) == Count({"function", "block"}, i) - Count({"close"}, i)

(* The declarations whose scope is still open at i: the depth has not      *)
(* fallen below that of the declaration since.                             *)
InScope(i) ==
  {j \in 1..i - 1 :
     /\ program[j].kind \in Declaring
     /\ \A k \in j..i - 1 : Depth(k) >= Depth(j - 1)}

DeclarationsOf(name, i) == {j \in InScope(i) : program[j].of.name = name}
SameScope(j, i) == Depth(j - 1) = Depth(i - 1)

BuiltIns == {"input", "output"}

(* A declaration must be the first of its name in its scope, and in the    *)
(* global scope it must not be the name of a predefined function.          *)
Redeclares(i) ==
  \/ \E j \in DeclarationsOf(program[i].of.name, i) : SameScope(j, i)
  \/ program[i].of.name \in BuiltIns /\ Depth(i - 1) = 0

(* What a name denotes: the declaration in the innermost scope that has    *)
(* one, the first there; failing that, a predefined function.              *)
Denotes(name, i) ==
  LET valid == {j \in DeclarationsOf(name, i) : ~Redeclares(j)}
  IN IF valid = {} THEN 0
     ELSE CHOOSE j \in valid : \A k \in valid : Depth(k - 1) <= Depth(j - 1)

SymbolOf(j) ==
  CASE program[j].kind = "function" -> FunctionSymbol(program[j].of)
    [] program[j].kind = "parameter" -> ParameterSymbol(program[j].of)
    [] OTHER -> VariableSymbol(program[j].of)

Meaning(name, i) ==
  LET j == Denotes(name, i)
  IN CASE j # 0 -> SymbolOf(j)
       [] j = 0 /\ name = "input" -> input
       [] j = 0 /\ name = "output" -> output
       [] OTHER -> None

(* The parts of an expression, itself included.                            *)
PartsOf[e \in Expr] == {e} \union UNION {PartsOf[p] : p \in Parts(e)}

IsVariable(symbol) == symbol # None /\ symbol.kind # "function"
IsFunction(symbol) == symbol # None /\ symbol.kind = "function"

(* The type of an expression needs no look at its parts: only the names of *)
(* whole variables and the results of calls can be other than int.         *)
StaticType(e, i) ==
  CASE e.kind = "var" /\ e.index = None /\ IsVariable(Meaning(e.name, i)) ->
         Meaning(e.name, i).type
    [] e.kind = "call" /\ IsFunction(Meaning(e.callee, i)) -> Meaning(e.callee, i).type
    [] OTHER -> "int"
IsInt(e, i) == StaticType(e, i) = "int"

LegalPart(e, i) ==
  CASE e.kind = "num" -> TRUE
    [] e.kind = "var" ->
         /\ IsVariable(Meaning(e.name, i))
         /\ e.index # None => Meaning(e.name, i).type = "array" /\ IsInt(e.index, i)
    [] e.kind = "call" ->
         /\ IsFunction(Meaning(e.callee, i))
         /\ [k \in 1..Len(e.args) |-> StaticType(e.args[k], i)] = Meaning(e.callee, i).params
    [] e.kind = "assign" -> IsInt(e.target, i) /\ IsInt(e.value, i)
    [] e.kind = "binary" -> IsInt(e.lhs, i) /\ IsInt(e.rhs, i)

LegalExpr(e, i) == \A part \in PartsOf[e] : LegalPart(part, i)

(* The function around i is the last one begun before it.                  *)
Around(i) ==
  program[CHOOSE j \in 1..i : /\ program[j].kind = "function"
                              /\ \A k \in j + 1..i : program[k].kind # "function"].of

Legal(i) ==
  LET kind == program[i].kind
      of == program[i].of
  IN CASE kind \in {"global", "parameter", "local"} -> of.type # "void" /\ ~Redeclares(i)
       [] kind = "function" -> ~Redeclares(i)
       [] kind = "exprstmt" -> LegalExpr(of, i)
       [] kind = "condition" -> LegalExpr(of, i) /\ IsInt(of, i)
       [] kind = "return" /\ of = None -> Around(i).type = "void"
       [] kind = "return" /\ of # None ->
            Around(i).type = "int" /\ LegalExpr(of, i) /\ IsInt(of, i)
       [] OTHER -> TRUE

LegalMain ==
  /\ program[LastDecl].kind = "function"
  /\ program[LastDecl].of.name = "main"
  /\ program[LastDecl].of.type = "void"
  /\ program[LastDecl].of.params = <<>>

-----------------------------------------------------------------------------
(* What the analysis must achieve.                                         *)

Pointer == 0..Len(storage)

ScopeOK(scope) ==
  /\ scope.order \in Nat
  /\ scope.declared \in Seq(1..Len(storage))
  /\ \A n \in DOMAIN scope.byName : scope.byName[n] \in 1..Len(storage)

(* Every pointer written into the tree or a report leads to a symbol.      *)
TypeOK ==
  /\ \A i \in 1..Len(storage) :
       storage[i].kind \in {"variable", "parameter", "function"} /\ storage[i].type \in Types
  /\ \A k \in 1..Len(scopes) : ScopeOK(scopes[k])
  /\ Len(annotations) = Len(program)
  /\ \A i \in 1..Len(annotations) : \A u \in annotations[i] : u.symbol \in Pointer
  /\ \A k \in 1..Len(reports) : reports[k].symbols \in Seq(1..Len(storage))
  /\ nextOrder \in Nat
  /\ finished \in BOOLEAN

(* The errors are reported at exactly the pieces that break a rule of the  *)
(* language, whatever was wrong before them: no illegal program reaches a  *)
(* code generator, no legal one is refused, and a wrong declaration does   *)
(* not make the correct uses of its name wrong.                            *)
ErrorsExact ==
  /\ \A i \in 1..Len(program) : (\E e \in errors : e.at = i) <=> ~Legal(i)
  /\ finished => ((\E e \in errors : e.at = Here) <=> ~LegalMain)

(* The warnings are given at exactly the pieces that deserve one, however  *)
(* deep in an expression, in a faulty program too: a literal index past    *)
(* the end of the array that the name denotes there, which shadowing and   *)
(* refused redeclarations decide, a division by a literal zero, and an     *)
(* array of size zero (analyzeVarExpr, analyzeBinary, analyzeVarDecl).     *)
Past(part, i) ==
  LET meaning == Meaning(part.name, i)
  IN /\ part.index # None /\ part.index.kind = "num"
     /\ meaning # None /\ meaning.kind = "variable" /\ meaning.type = "array"
     /\ meaning.size > 0 /\ part.index.value >= meaning.size

Suspicious(i) ==
  LET kind == program[i].kind
      of == program[i].of
  IN CASE kind \in {"global", "local"} ->
            {w \in {"size zero"} : of.type = "array" /\ of.size = 0}
       [] kind \in {"exprstmt", "condition", "return"} /\ of # None ->
            {w \in {"index past the end"} :
               \E part \in PartsOf[of] : part.kind = "var" /\ Past(part, i)}
            \union {w \in {"division by zero"} :
               \E part \in PartsOf[of] :
                 /\ part.kind = "binary" /\ part.op = "div"
                 /\ part.rhs.kind = "num" /\ part.rhs.value = 0}
       [] OTHER -> {}

WarningsExact ==
  \A i \in 1..Len(program) : {w.what : w \in {v \in warnings : v.at = i}} = Suspicious(i)

(* Every name in the tree is bound to the declaration that the braces of   *)
(* the text say: the innermost one around it, even when the scopes between *)
(* have come and gone, and to nothing when there is none of the right kind.*)
Bound(u, i) ==
  LET meaning == Meaning(u.name, i)
      right == IF u.role = "call" THEN IsFunction(meaning) ELSE IsVariable(meaning)
  IN /\ u.symbol # 0 <=> right
     /\ right => storage[u.symbol] = meaning
     /\ right /\ Denotes(u.name, i) # 0 =>
          \E d \in annotations[Denotes(u.name, i)] : d.symbol = u.symbol

BindingsExact ==
  \A i \in 1..Len(program) : \A u \in annotations[i] :
    u.role # "declaration" => Bound(u, i)

(* The reports describe the whole program: one for each scope, in the      *)
(* order of opening and at its depth, and every symbol in the report of    *)
(* the scope it was declared in, in the order of the text.                 *)
Opening == {"function", "block"}
OpenAt(j) ==
  {o \in 1..j - 1 : program[o].kind \in Opening /\ \A k \in o..j - 1 : Depth(k) >= Depth(o)}
ScopeNumber(j) == IF OpenAt(j) = {} THEN 0
                  ELSE Count(Opening, CHOOSE o \in OpenAt(j) : \A p \in OpenAt(j) : p <= o)

ReportsComplete ==
  finished =>
    /\ Len(reports) = Count(Opening, Len(program)) + 1
    /\ \A k \in 1..Len(reports) :
         /\ reports[k].order = k - 1
         /\ \A a, b \in 1..Len(reports[k].symbols) :
              a < b => reports[k].symbols[a] < reports[k].symbols[b]
    /\ reports[1].depth = 0
    /\ \A o \in 1..Len(program) : program[o].kind \in Opening =>
         reports[Count(Opening, o) + 1].depth = Depth(o)
    /\ \A j \in 1..Len(program) : \A d \in annotations[j] :
         d.role = "declaration" /\ d.symbol # 0 =>
           \E a \in 1..Len(reports[ScopeNumber(j) + 1].symbols) :
             reports[ScopeNumber(j) + 1].symbols[a] = d.symbol

(* What the code generators take for granted of a program without errors:  *)
(* every name bound, no two functions of one name in the module, and an    *)
(* array passed whole exactly where its function expects one.              *)
CallMatches(call, i) ==
  \A u \in annotations[i] : u.role = "call" /\ u.name = call.callee =>
    /\ Len(call.args) = Len(storage[u.symbol].params)
    /\ \A k \in 1..Len(call.args) :
         (storage[u.symbol].params[k] = "array") <=>
           \E v \in annotations[i] :
             /\ call.args[k].kind = "var" /\ call.args[k].index = None
             /\ v.role = "var" /\ v.name = call.args[k].name
             /\ storage[v.symbol].type = "array"

ReadyForCodeGeneration ==
  finished /\ errors = {} =>
    /\ \A i \in 1..Len(program) : \A u \in annotations[i] : u.symbol # 0
    /\ \A i, j \in 1..Len(storage) :
         storage[i].kind = "function" /\ storage[i].name = storage[j].name
           /\ storage[j].kind = "function" => i = j
    /\ \A i \in 1..Len(program) :
         program[i].kind \in {"exprstmt", "condition", "return"} /\ program[i].of # None =>
           \A part \in PartsOf[program[i].of] : part.kind = "call" => CallMatches(part, i)
=============================================================================
