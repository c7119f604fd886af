----------------------------- MODULE MLIRFlavors -----------------------------
(***************************************************************************)
(* Both flavours of the MLIR generator, composed with the lowering.        *)
(***************************************************************************)
EXTENDS MLIRGen, CMinusToCF

CONSTANT Flavors  \* the values of structured_ considered

FromGenerators ==
  {Generated(f, checks, flavor) : f \in Function, checks \in BOOLEAN, flavor \in Flavors}

(* A function with its blocks numbered as they lie in its region.          *)
Layout(blocks, order) ==
  LET Place(b) == CHOOSE k \in 1..Len(order) : order[k] = b
  IN [k \in 1..Len(order) |->
        [i \in 1..Len(blocks[order[k]]) |->
           LET o == blocks[order[k]][i]
           IN [o EXCEPT !.to = [t \in 1..Len(o.to) |-> Place(o.to[t])]]]]

(* lower-cminus-to-cf leaves the very blocks and branches, in the same     *)
(* order, that the std flavour emits from the start for the same source.   *)
SameAsStd ==
  phase = "flat" /\ input.structured =>
    LET std == Generated(input.function, input.indexChecks, FALSE)
    IN /\ Layout(code, body) = Layout(std.code, std.body)
       /\ std.implicit # 0 => \E k \in 1..Len(body) : body[k] = implicit /\ std.body[k] = std.implicit
=============================================================================
