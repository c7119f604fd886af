---------------------------- MODULE SymbolTable -----------------------------
(***************************************************************************)
(* The lexically scoped symbol table (include/cminus/Symbol.h,             *)
(* src/Symbol.cpp).  The table owns its symbols in `storage'; a Symbol     *)
(* pointer is an index into it, and 0 is the null pointer.                 *)
(*                                                                         *)
(* Operations give the scopes and the storage after the call; the client  *)
(* assigns them.                                                           *)
(***************************************************************************)
EXTENDS Naturals, Sequences

VARIABLES
  scopes,    \* the open scopes, innermost last
  storage,   \* every symbol ever declared, in the order of declaration
  nextOrder  \* the number the next scope gets

table == <<scopes, storage, nextOrder>>

EmptyTable == scopes = <<>> /\ storage = <<>> /\ nextOrder = 0

(* byName is a hash map from names to symbols, declared the symbols in     *)
(* order.                                                                  *)
Scope(order) == [order |-> order, declared |-> <<>>, byName |-> <<>>]

Innermost == scopes[Len(scopes)]
depth == Len(scopes) - 1

pushScope(open) == Append(open, Scope(nextOrder))

(* What popScope returns: the scope, its depth still counting it.          *)
ScopeReport == [order |-> Innermost.order, depth |-> depth, symbols |-> Innermost.declared]

popScope == SubSeq(scopes, 1, Len(scopes) - 1)

(* A name is declared once in a scope; only the innermost scope counts.    *)
Existing(name) == IF name \in DOMAIN Innermost.byName THEN Innermost.byName[name] ELSE 0

(* As it would be with the position behind the new symbol.                 *)
InsertedBehind == Len(storage) + 2

Inserted == Len(storage) + 1

declare(symbol) ==
  IF Existing(symbol.name) # 0
  THEN scopes
  ELSE [scopes EXCEPT
          ![Len(scopes)].declared = Append(@, Inserted),
          ![Len(scopes)].byName = [n \in DOMAIN @ \union {symbol.name} |->
                                     IF n = symbol.name THEN Inserted ELSE @[n]]]

Stored(symbol) ==
  IF Existing(symbol.name) # 0 THEN storage ELSE Append(storage, symbol)

(* Innermost first, across every open scope.                               *)
Holding(name) == {k \in 1..Len(scopes) : name \in DOMAIN scopes[k].byName}
(* As it would be with the scopes searched from the global one.            *)
lookupOutermost(name) ==
  IF Holding(name) = {}
  THEN 0
  ELSE LET k == CHOOSE k \in Holding(name) : \A j \in Holding(name) : k <= j
       IN scopes[k].byName[name]

lookup(name) ==
  IF Holding(name) = {}
  THEN 0
  ELSE LET k == CHOOSE k \in Holding(name) : \A j \in Holding(name) : j <= k
       IN scopes[k].byName[name]
=============================================================================
